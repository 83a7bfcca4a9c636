----------------------------- MODULE Provision -----------------------------
(***************************************************************************)
(* The installed host, and container-provision.sh as ts-update runs it     *)
(* again on every upgrade: what /opt/tessera and the unit file hold, what  *)
(* systemd runs of them, and the provisioner's steps from its preflight to *)
(* its smoke test.  The provisioner runs under `set -e`, and so does its   *)
(* caller: where it dies, both end.                                        *)
(*                                                                         *)
(* A release is a commit, and what is wrong with it.  The configuration is *)
(* written once and left alone; all that matters of it is proxy_protocol,  *)
(* since curl sends no PROXY header.                                       *)
(***************************************************************************)
EXTENDS Integers

CONSTANT MaxCommit   \* bound: commits that are ever published

ASSUME ProvisionAssumption == MaxCommit \in Nat \ {0}

Commits == 1..MaxCommit
Gone == 0     \* no such tree or file; of the service, that nothing runs
Mixed == -1   \* a tree that is copied or removed in part

\* build, tests, hardening and firewall fail the step of that name.  A service
\* of a start or unit release does not come up (its code, or its sandbox, is
\* why), answer and late ones do and answer errors: at once, or after a while.
Faults == {"none", "build", "tests", "hardening", "firewall", "unit", "start",
           "answer", "late"}

VARIABLES fault,     \* what is wrong with each commit
          proxied,   \* proxy_protocol of /etc/tessera/tessera.toml
          head,      \* the commit that $SRC holds, or Gone for the tarball
          opt, unit, \* the commits of /opt/tessera and of the unit file
          running,   \* the code the service runs
          ill,       \* a late fault has shown
          pc, exit   \* where the scripts are, and how the last run ended

hostVars == <<fault, proxied, head, opt, unit, running, ill, pc, exit>>

Installing == {"provision", "install", "installing", "firewall", "unit", "restart",
               "await", "smoke"}

HostTypeOK ==
    /\ fault \in [Commits -> Faults] /\ proxied \in BOOLEAN
    /\ head \in Commits \cup {Gone}
    /\ opt \in Commits \cup {Gone, Mixed} /\ unit \in Commits
    /\ running \in Commits \cup {Gone, Mixed} /\ ill \in BOOLEAN

\* install.sh has installed the first commit, from a tarball.
HostInit ==
    /\ fault \in {f \in [Commits -> Faults] : f[1] = "none"}
    /\ proxied \in BOOLEAN
    /\ head = Gone
    /\ opt = 1 /\ unit = 1 /\ running = 1 /\ ill = FALSE
    /\ pc = "idle" /\ exit = "none"

Goto(place) == pc' = place /\ UNCHANGED exit

Works(code, u) ==
    /\ code \in Commits /\ u \in Commits
    /\ fault[code] \notin {"start", "answer", "late"}
    /\ fault[u] # "unit"

\* Whether the service comes up: of a tree in pieces, nobody knows.
MayStart ==
    IF opt = Gone \/ fault[unit] = "unit" THEN {FALSE}
    ELSE IF opt = Mixed THEN BOOLEAN
    ELSE {fault[opt] # "start"}

StartService ==
    /\ \E up \in MayStart : running' = IF up THEN opt ELSE Gone
    /\ ill' = FALSE

IsActive == running # Gone

\* What curl prints for GET /browse.
HttpCode ==
    IF running \notin Commits \/ ill THEN "000"
    ELSE IF proxied THEN "400"
    ELSE IF fault[running] = "answer" THEN "500"
    ELSE "200"

Sicken ==
    /\ running \in Commits /\ fault[running] = "late" /\ ~ ill
    /\ ill' = TRUE
    /\ UNCHANGED <<fault, proxied, head, opt, unit, running, pc, exit>>

-----------------------------------------------------------------------------
(* The provisioner.                                                        *)

Die == pc' = "idle" /\ exit' = "failed"

\* DNS, apt and the second build and test, of the same tree.
Preflight ==
    /\ pc = "provision"
    /\ \/ Die
       \/ fault[head] \notin {"build", "tests"} /\ Goto("install")
    /\ UNCHANGED <<fault, proxied, head, opt, unit, running, ill>>

\* cp -a over the files that are there.
InstallBegins ==
    /\ pc = "install"
    /\ opt' = Mixed
    /\ Goto("installing")
    /\ UNCHANGED <<fault, proxied, head, unit, running, ill>>

InstallEnds ==
    /\ pc = "installing"
    /\ opt' = head
    /\ Goto("firewall")
    /\ UNCHANGED <<fault, proxied, head, unit, running, ill>>

Firewall ==
    /\ pc = "firewall"
    /\ IF fault[head] = "firewall" THEN Die ELSE Goto("unit")
    /\ UNCHANGED <<fault, proxied, head, opt, unit, running, ill>>

InstallUnit ==
    /\ pc = "unit"
    /\ unit' = head
    /\ IF fault[head] = "hardening" THEN Die ELSE Goto("restart")
    /\ UNCHANGED <<fault, proxied, head, opt, running, ill>>

\* Plausible bug, for a mutant: `systemctl start`, nothing to do when it runs.
RestartIsStart ==
    /\ pc = "restart"
    /\ IF IsActive THEN UNCHANGED <<running, ill>> ELSE StartService
    /\ Goto("await")
    /\ UNCHANGED <<fault, proxied, head, opt, unit>>

Restart ==
    /\ pc = "restart"
    /\ StartService
    /\ Goto("await")
    /\ UNCHANGED <<fault, proxied, head, opt, unit>>

AwaitActive ==
    /\ pc = "await"
    /\ IF IsActive THEN Goto("smoke") ELSE Die
    /\ UNCHANGED <<fault, proxied, head, opt, unit, running, ill>>

SmokeTest ==
    /\ pc = "smoke"
    /\ IF HttpCode = "200" THEN Goto("verify") ELSE Die
    /\ UNCHANGED <<fault, proxied, head, opt, unit, running, ill>>

Provisioner ==
    \/ Preflight \/ InstallBegins \/ InstallEnds \/ Firewall
    \/ InstallUnit \/ Restart \/ AwaitActive \/ SmokeTest

-----------------------------------------------------------------------------
(* Around the scripts.                                                     *)

\* The run is interrupted: a signal, a lost terminal.
Interrupt ==
    /\ pc # "idle"
    /\ pc' = "idle" /\ exit' = "interrupted"
    /\ UNCHANGED <<fault, proxied, head, opt, unit, running, ill>>

\* The container stops and starts; the service is enabled.
Reboot ==
    /\ pc' = "idle" /\ exit' = IF pc = "idle" THEN exit ELSE "interrupted"
    /\ StartService
    /\ UNCHANGED <<fault, proxied, head, opt, unit>>
=============================================================================
