------------------------------ MODULE Updater ------------------------------
(***************************************************************************)
(* ts-update: fetch the tags, check out and test the newest release, back  *)
(* up what is installed, provision, verify, roll back.  A run can be       *)
(* interrupted after any step, and runs follow one another; two at a time  *)
(* are left out.  Tags are numbers, in the order of `sort -V`.             *)
(***************************************************************************)
EXTENDS Provision

CONSTANTS MaxTag,   \* bound: version tags
          MaxRuns   \* bound: runs of ts-update

ASSUME UpdaterAssumption == MaxTag \in Nat \ {0} /\ MaxRuns \in Nat

Tags == 1..MaxTag
NoTag == 0

VARIABLES origin, local,   \* the commit of each tag at origin, and in $SRC
          published,       \* commits that origin has
          current, target, \* CURRENT and TARGET
          prev, prevUnit,  \* /opt/tessera.prev and tessera.service.prev
          runs,
          seen,            \* history: origin's tags when this run fetched
          before,          \* history: opt and unit when this run started
          clean,           \* history: see End
          careless         \* history: a backup of what did not work was taken

machine == <<fault, proxied, opt, unit, running, ill>>
repo == <<origin, local, published, seen>>
choice == <<current, target>>
backup == <<prev, prevUnit, careless>>
start == <<runs, before>>
vars == <<hostVars, repo, choice, backup, start, clean>>

Chosen == {"checkout", "build", "test", "checks", "drop", "copy", "copying", "copyunit",
           "verify", "stop", "remove", "removing", "move", "moveunit", "start", "source"}
            \cup Installing

\* Types, and the target is a tag once the script acts on it.
TypeOK ==
    /\ HostTypeOK
    /\ pc \in {"idle", "fetch", "decide"} \cup Chosen
    /\ exit \in {"none", "running", "failed", "interrupted", "uptodate", "checked",
                 "rejected", "updated", "rolledback", "rollbackfailed"}
    /\ origin \in [Tags -> Commits \cup {Gone}] /\ local \in [Tags -> Commits \cup {Gone}]
    /\ seen \in [Tags -> Commits \cup {Gone}]
    /\ published \in Commits /\ runs \in 0..MaxRuns
    /\ current \in Tags \cup {NoTag} /\ target \in Tags \cup {NoTag}
    /\ prev \in Commits \cup {Gone, Mixed} /\ prevUnit \in Commits \cup {Gone}
    /\ clean \in BOOLEAN /\ careless \in BOOLEAN
    /\ pc \in Chosen => target \in Tags

NoTags == [t \in Tags |-> Gone]

Init ==
    /\ HostInit
    /\ origin \in {NoTags, [NoTags EXCEPT ![1] = 1]}
    /\ local = NoTags
    /\ published = 1
    /\ current = NoTag /\ target = NoTag
    /\ prev = Gone /\ prevUnit = Gone
    /\ runs = 0
    /\ seen = NoTags /\ before = [opt |-> 1, unit |-> 1]
    /\ clean = TRUE /\ careless = FALSE

Newest(tags) ==
    IF tags = NoTags THEN NoTag
    ELSE CHOOSE t \in Tags : tags[t] # Gone /\ \A s \in Tags : tags[s] # Gone => s <= t

\* git describe --tags --exact-match
Described == IF \E t \in Tags : local[t] = head /\ head # Gone
             THEN CHOOSE t \in Tags : local[t] = head ELSE NoTag

-----------------------------------------------------------------------------
(* Origin: a new tag, or the newest one moved to a new commit.             *)

Publish ==
    /\ published < MaxCommit
    /\ published' = published + 1
    /\ \E t \in Tags \cap {Newest(origin), Newest(origin) + 1} :
          origin' = [origin EXCEPT ![t] = published + 1]
    /\ UNCHANGED <<hostVars, local, seen, choice, backup, start, clean>>

-----------------------------------------------------------------------------
(* The script.  A run leaves the tree clean when it ends as it is meant to *)
(* with a CURRENT to go back to, or before it has changed anything.        *)

Leaves(how) ==
    \/ how \in {"uptodate", "checked", "updated"}
    \/ how \in {"rejected", "rolledback", "rollbackfailed"} /\ current # NoTag
    \/ pc \in {"idle", "fetch", "decide"}

End(how) == pc' = "idle" /\ exit' = how /\ clean' = (clean /\ Leaves(how))

Go(place) == Goto(place) /\ UNCHANGED clean

Run ==
    /\ pc = "idle" /\ runs < MaxRuns
    /\ runs' = runs + 1
    /\ pc' = "fetch" /\ exit' = "running"
    /\ before' = [opt |-> opt, unit |-> unit]
    /\ UNCHANGED <<machine, head, repo, choice, backup, clean>>

\* Plausible bug, for a mutant: without --force a tag that is there stays.
FetchWithoutForce ==
    /\ pc = "fetch"
    /\ \/ /\ Go("decide")
          /\ local' = [t \in Tags |-> IF local[t] # Gone THEN local[t] ELSE origin[t]]
          /\ seen' = origin
       \/ End("failed") /\ UNCHANGED <<local, seen>>
    /\ UNCHANGED <<machine, head, origin, published, choice, backup, start>>

\* git fetch --tags --force --prune, which may fail.
Fetch ==
    /\ pc = "fetch"
    /\ \/ Go("decide") /\ local' = origin /\ seen' = origin
       \/ End("failed") /\ UNCHANGED <<local, seen>>
    /\ UNCHANGED <<machine, head, origin, published, choice, backup, start>>

\* Plausible bug, for a mutant: no check for "no v*.*.* tags".
DecideUnguarded(want, force, check) ==
    /\ pc = "decide"
    /\ current' = Described
    /\ target' = IF want # NoTag THEN want ELSE Newest(local)
    /\ IF current' = target' /\ ~ force THEN End("uptodate")
       ELSE IF check THEN End("checked")
       ELSE Go("checkout")
    /\ UNCHANGED <<machine, head, repo, backup, start>>

\* want is the argument of --tag, or NoTag.
Decide(want, force, check) ==
    /\ pc = "decide"
    /\ current' = Described
    /\ target' = IF want # NoTag THEN want ELSE Newest(local)
    /\ IF target' = NoTag THEN End("failed")
       ELSE IF current' = target' /\ ~ force THEN End("uptodate")
       ELSE IF check THEN End("checked")
       ELSE Go("checkout")
    /\ UNCHANGED <<machine, head, repo, backup, start>>

Checkout ==
    /\ pc = "checkout"
    /\ IF local[target] = Gone THEN End("failed") /\ UNCHANGED head
       ELSE head' = local[target] /\ Go("build")
    /\ UNCHANGED <<machine, repo, choice, backup, start>>

\* make deps needs the network, too.
Build ==
    /\ pc = "build"
    /\ End("failed") \/ (fault[head] # "build" /\ Go("test"))
    /\ UNCHANGED <<machine, head, repo, choice, backup, start>>

\* git checkout "$CURRENT" || true: there is no such thing as "none".
CheckoutCurrent == head' = IF current = NoTag THEN head ELSE local[current]

\* Plausible bug, for a mutant: the tree stays at the release that failed.
TestLeavesTree ==
    /\ pc = "test"
    /\ IF fault[head] = "tests" THEN End("rejected") ELSE Go("checks")
    /\ UNCHANGED <<machine, head, repo, choice, backup, start>>

Test ==
    /\ pc = "test"
    /\ IF fault[head] = "tests" THEN End("rejected") /\ CheckoutCurrent
       ELSE Go("checks") /\ UNCHANGED head
    /\ UNCHANGED <<machine, repo, choice, backup, start>>

\* Plausible bug, for a mutant: the provisioner is called without a backup.
ChecksThenProvision ==
    /\ pc = "checks"
    /\ IF fault[head] = "hardening" THEN End("failed") ELSE Go("provision")
    /\ UNCHANGED <<machine, head, repo, choice, backup, start>>

\* Plausible bug, for a mutant: a pipe into tee, whose status is tested.
ChecksIgnored ==
    /\ pc = "checks"
    /\ Go("drop")
    /\ UNCHANGED <<machine, head, repo, choice, backup, start>>

\* install-check, and the hardening checks of the new units.
Checks ==
    /\ pc = "checks"
    /\ IF fault[head] = "hardening" THEN End("failed") ELSE Go("drop")
    /\ UNCHANGED <<machine, head, repo, choice, backup, start>>

DropBackup ==
    /\ pc = "drop"
    /\ prev' = Gone
    /\ careless' = (careless \/ ~ Works(opt, unit))
    /\ Go("copy")
    /\ UNCHANGED <<machine, head, repo, choice, prevUnit, start>>

\* cp -a of a tree that is not there fails: set -e.
CopyBegins ==
    /\ pc = "copy"
    /\ IF opt = Gone THEN End("failed") /\ UNCHANGED prev
       ELSE prev' = Mixed /\ Go("copying")
    /\ UNCHANGED <<machine, head, repo, choice, prevUnit, careless, start>>

CopyEnds ==
    /\ pc = "copying"
    /\ prev' = opt
    /\ Go("copyunit")
    /\ UNCHANGED <<machine, head, repo, choice, prevUnit, careless, start>>

CopyUnit ==
    /\ pc = "copyunit"
    /\ prevUnit' = unit
    /\ Go("provision")
    /\ UNCHANGED <<machine, head, repo, choice, prev, careless, start>>

\* A provisioner that dies ends the run: set -e.
Install ==
    /\ Provisioner
    /\ clean' = (clean /\ pc' # "idle")
    /\ UNCHANGED <<repo, choice, backup, start>>

\* Twenty tries: one 200 will do.
Verify ==
    /\ pc = "verify"
    /\ IF IsActive /\ HttpCode = "200" THEN End("updated") ELSE Go("stop")
    /\ UNCHANGED <<machine, head, repo, choice, backup, start>>

Stop ==
    /\ pc = "stop"
    /\ running' = Gone /\ ill' = FALSE
    /\ Go("remove")
    /\ UNCHANGED <<fault, proxied, opt, unit, head, repo, choice, backup, start>>

RemoveBegins ==
    /\ pc = "remove"
    /\ opt' = Mixed
    /\ Go("removing")
    /\ UNCHANGED <<fault, proxied, unit, running, ill, head, repo, choice, backup, start>>

RemoveEnds ==
    /\ pc = "removing"
    /\ opt' = Gone
    /\ Go("move")
    /\ UNCHANGED <<fault, proxied, unit, running, ill, head, repo, choice, backup, start>>

Move ==
    /\ pc = "move"
    /\ opt' = prev /\ prev' = Gone
    /\ Go("moveunit")
    /\ UNCHANGED <<fault, proxied, unit, running, ill, head, repo, choice, prevUnit,
                   careless, start>>

\* Plausible bug, for a mutant: the new unit stays.
MoveCodeOnly ==
    /\ pc = "moveunit"
    /\ Go("start")
    /\ UNCHANGED <<machine, head, repo, choice, backup, start>>

MoveUnit ==
    /\ pc = "moveunit"
    /\ unit' = prevUnit /\ prevUnit' = Gone
    /\ Go("start")
    /\ UNCHANGED <<fault, proxied, opt, running, ill, head, repo, choice, prev, careless,
                   start>>

\* A unit that systemctl will not start ends the run: set -e.
Start ==
    /\ pc = "start"
    /\ \/ StartService /\ Go("source")
       \/ running' = Gone /\ ill' = FALSE /\ End("failed")
    /\ UNCHANGED <<fault, proxied, opt, unit, head, repo, choice, backup, start>>

Report ==
    /\ pc = "source"
    /\ CheckoutCurrent
    /\ End(IF IsActive THEN "rolledback" ELSE "rollbackfailed")
    /\ UNCHANGED <<machine, repo, choice, backup, start>>

Script ==
    \/ Run \/ Fetch \/ \E want \in Tags \cup {NoTag}, force, check \in BOOLEAN :
                          Decide(want, force, check)
    \/ Checkout \/ Build \/ Test \/ Checks
    \/ DropBackup \/ CopyBegins \/ CopyEnds \/ CopyUnit
    \/ Install \/ Verify
    \/ Stop \/ RemoveBegins \/ RemoveEnds \/ Move \/ MoveUnit \/ Start \/ Report

Disturbed ==
    /\ Interrupt \/ Reboot
    /\ clean' = (clean /\ pc \in {"idle", "fetch", "decide"})
    /\ UNCHANGED <<repo, choice, backup, start>>

Next ==
    \/ Script
    \/ Disturbed
    \/ Publish
    \/ Sicken /\ UNCHANGED <<repo, choice, backup, start, clean>>

Spec == Init /\ [][Next]_vars

-----------------------------------------------------------------------------
(* Safety.                                                                 *)

\* Nothing that does not build, fails its tests or weakens the sandbox gets
\* into /opt, the unit file or the backup, in whatever state earlier runs and
\* interruptions left the tree (ts-update: "a bad release cannot take the
\* running service with it").
BadReleaseNeverInstalled ==
    \A c \in {opt, unit, prev, prevUnit} \cap Commits :
        fault[c] \notin {"build", "tests", "hardening"}

\* At every moment of an update a working code and unit exist, installed or in
\* the backup, until a run backs up what does not work (the backup's order).
AWorkingCopySurvives ==
    ~ careless =>
        \E c \in {opt, prev}, u \in {unit, prevUnit} : Works(c, u)

\* A run that says it rolled back has put back the code and the unit it found;
\* it fails to only if those did not start in the first place, and names the
\* release that runs if all runs before left the tree clean.
RolledBackMeansPrevious ==
    /\ exit \in {"rolledback", "rollbackfailed"} => before = [opt |-> opt, unit |-> unit]
    /\ exit = "rollbackfailed" => ~ Works(before.opt, before.unit)
    /\ exit = "rolledback" /\ clean => local[current] = opt

\* "already up to date" is said of what is installed, unless an earlier run
\* ended where it left the tree at a release that it did not install.
UpToDateMeansInstalled == exit = "uptodate" /\ clean => opt = local[target]

\* ... and it is said of the commit that origin's tag is at, moved or not
\* (ts-update: a moved tag "left deployed updaters rebuilding an old commit
\* forever while reporting success").
UpToDateMeansFetched == exit = "uptodate" => head = seen[target]

\* A run that ends with "updated" leaves the target's code and unit installed,
\* running and answering: the old process has not answered for it.
UpdatedMeansRunning ==
    [][exit' = "updated" /\ exit # "updated" =>
          /\ opt = local[target] /\ unit = opt /\ running = opt
          /\ HttpCode = "200"]_vars

-----------------------------------------------------------------------------
(* What the documentation says and the scripts do not do.                  *)

\* README.md:104-105: ts-update "rolls back automatically if `/browse` does not
\* answer 200": a run that failed with something new installed has been undone
\* (where curl, which sends no PROXY header, could have had a 200 at all).
FailureRollsBack ==
    exit = "failed" /\ opt # before.opt /\ ~ proxied => HttpCode = "200"
=============================================================================
