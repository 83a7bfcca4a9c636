--------------------------- MODULE UpdaterProofs ---------------------------
(***************************************************************************)
(* What an update does to the installed host, for any number of commits,   *)
(* tags and runs, interrupted anywhere; and what the script says of it is  *)
(* so.  Forward says what tree, backup and host are on the way to a new    *)
(* release, Back on the way to the old one, Tidy what a run finds that     *)
(* follows a clean one.                                                    *)
(***************************************************************************)
EXTENDS Updater, FiniteSums, TLAPS

-----------------------------------------------------------------------------
(* The backup.  Up to its end the installed pair is untouched; from there  *)
(* to the move the backup is the pair that worked.                         *)

BackingUp == {"copy", "copying", "copyunit"}
BackedUp == Installing \cup {"verify", "stop", "remove", "removing", "move"}

Kept ==
    /\ pc = "copyunit" => prev = opt
    /\ ~ careless =>
        /\ pc \in BackingUp => Works(opt, unit)
        /\ pc \in BackedUp => Works(prev, prevUnit)
        /\ pc = "moveunit" => Works(opt, prevUnit)

CopyInv == AWorkingCopySurvives /\ Kept

Host == <<fault, opt, unit>>
Copies == <<Host, prev, prevUnit, careless>>

\* A step that leaves the copies alone, and does not jump into an update.
LEMMA CopiesKept ==
    ASSUME CopyInv, UNCHANGED Copies,
           pc' \in BackingUp => pc' = pc, pc' \in BackedUp => pc \in BackedUp,
           pc' # "moveunit"
    PROVE  CopyInv'
<1> USE DEF Copies, Host
<1>1. AWorkingCopySurvives'
      BY DEF CopyInv, AWorkingCopySurvives, Works
<1>2. pc' = "copyunit" => prev' = opt'
      BY DEF CopyInv, Kept, BackingUp
<1>3. ASSUME ~ careless' PROVE /\ pc' \in BackingUp => Works(opt, unit)'
                               /\ pc' \in BackedUp => Works(prev, prevUnit)'
  <2>1. /\ pc \in BackingUp => Works(opt, unit)
        /\ pc \in BackedUp => Works(prev, prevUnit)
        BY <1>3 DEF CopyInv, Kept
  <2>2. Works(opt, unit)' = Works(opt, unit) /\ Works(prev, prevUnit)' = Works(prev, prevUnit)
        BY DEF Works
  <2> QED BY <2>1, <2>2
<1> QED BY <1>1, <1>2, <1>3 DEF CopyInv, Kept

\* Installing keeps a copy that works, or has kept the previous one.
LEMMA InstallKeeps == CopyInv /\ Install => CopyInv'
<1> SUFFICES ASSUME CopyInv, Install PROVE CopyInv'
    OBVIOUS
<1> USE DEF Goto, Die, Installing, BackingUp, BackedUp, backup
<1>1. /\ pc \in Installing /\ pc' \in Installing \cup {"verify", "idle"}
      /\ UNCHANGED <<fault, prev, prevUnit, careless>>
      BY DEF Install, Provisioner, Preflight, InstallBegins, InstallEnds, Firewall, InstallUnit,
             Restart, AwaitActive, SmokeTest
<1>2. ~ careless => Works(prev, prevUnit)
      BY <1>1 DEF CopyInv, Kept
<1>3. ~ careless' => Works(prev, prevUnit)'
      BY <1>1, <1>2 DEF Works
<1> QED BY <1>1, <1>3 DEF CopyInv, AWorkingCopySurvives, Kept

\* So does every step of the script,
LEMMA ScriptKeeps == CopyInv /\ Script => CopyInv'
<1> SUFFICES ASSUME CopyInv, Script PROVE CopyInv'
    OBVIOUS
<1> USE DEF Go, Goto, End, machine, repo, choice, backup, start, Copies, Host, BackingUp, BackedUp,
            Installing
<1>1. CASE Run
      BY <1>1, CopiesKept DEF Run
<1>2. CASE Fetch
      BY <1>2, CopiesKept DEF Fetch
<1>3. ASSUME NEW want, NEW force, NEW check, Decide(want, force, check)
      PROVE  CopyInv'
      BY <1>3, CopiesKept DEF Decide
<1>4. CASE Checkout
      BY <1>4, CopiesKept DEF Checkout
<1>5. CASE Build
      BY <1>5, CopiesKept DEF Build
<1>6. CASE Test
      BY <1>6, CopiesKept DEF Test
<1>7. CASE Checks
      BY <1>7, CopiesKept DEF Checks
<1>8. CASE DropBackup
  <2>1. /\ pc' = "copy" /\ UNCHANGED Host
        /\ ~ careless' => Works(opt, unit)
        BY <1>8 DEF DropBackup
  <2>2. ~ careless' => Works(opt, unit)'
        BY <2>1 DEF Works
  <2> QED BY <2>1, <2>2 DEF CopyInv, AWorkingCopySurvives, Kept
<1>9. CASE CopyBegins \/ CopyEnds
  <2>1. /\ pc \in BackingUp /\ pc' \in BackingUp \cup {"idle"}
        /\ UNCHANGED <<Host, prevUnit, careless>>
        /\ pc' = "copyunit" => prev' = opt
        BY <1>9 DEF CopyBegins, CopyEnds
  <2>2. ~ careless' => Works(opt, unit)'
        BY <2>1 DEF CopyInv, Kept, Works
  <2> QED BY <2>1, <2>2 DEF CopyInv, AWorkingCopySurvives, Kept
<1>10. CASE CopyUnit
  <2>1. /\ pc = "copyunit" /\ pc' = "provision" /\ prevUnit' = unit
        /\ UNCHANGED <<Host, prev, careless>>
        BY <1>10 DEF CopyUnit
  <2>2. ~ careless' => Works(prev, prevUnit)'
        BY <2>1 DEF CopyInv, Kept, Works
  <2> QED BY <2>1, <2>2 DEF CopyInv, AWorkingCopySurvives, Kept
<1>11. CASE Install
      BY <1>11, InstallKeeps
<1>12. CASE Verify
      BY <1>12, CopiesKept DEF Verify
<1>13. CASE Stop
      BY <1>13, CopiesKept DEF Stop
<1>14. CASE RemoveBegins \/ RemoveEnds
  <2>1. /\ pc \in BackedUp /\ pc' \in BackedUp /\ UNCHANGED <<fault, prev, prevUnit, careless>>
        BY <1>14 DEF RemoveBegins, RemoveEnds
  <2>2. ~ careless' => Works(prev, prevUnit)'
        BY <2>1 DEF CopyInv, Kept, Works
  <2> QED BY <2>1, <2>2 DEF CopyInv, AWorkingCopySurvives, Kept
<1>15. CASE Move
  <2>1. /\ pc = "move" /\ pc' = "moveunit" /\ opt' = prev
        /\ UNCHANGED <<fault, prevUnit, careless>>
        BY <1>15 DEF Move
  <2>2. ~ careless' => Works(opt, prevUnit)'
        BY <2>1 DEF CopyInv, Kept, Works
  <2> QED BY <2>1, <2>2 DEF CopyInv, AWorkingCopySurvives, Kept
<1>16. CASE MoveUnit
  <2>1. /\ pc = "moveunit" /\ pc' = "start" /\ unit' = prevUnit
        /\ UNCHANGED <<fault, opt, careless>>
        BY <1>16 DEF MoveUnit
  <2>2. ~ careless' => Works(opt, unit)'
        BY <2>1 DEF CopyInv, Kept, Works
  <2> QED BY <2>1, <2>2 DEF CopyInv, AWorkingCopySurvives, Kept
<1>17. CASE Start
      BY <1>17, CopiesKept DEF Start
<1>18. CASE Report
      BY <1>18, CopiesKept DEF Report
<1> QED BY <1>1, <1>2, <1>3, <1>4, <1>5, <1>6, <1>7, <1>8, <1>9, <1>10, <1>11, <1>12, <1>13,
           <1>14, <1>15, <1>16, <1>17, <1>18
        DEF Script

\* What Next has besides the script, and stuttering.
Around ==
    \/ Disturbed \/ Publish \/ UNCHANGED vars
    \/ Sicken /\ UNCHANGED <<repo, choice, backup, start, clean>>

\* and what happens around it.
LEMMA OthersKeep == CopyInv /\ Around => CopyInv'
<1> SUFFICES ASSUME CopyInv, Around PROVE CopyInv'
    OBVIOUS
<1> USE DEF machine, repo, choice, backup, start, Copies, Host, BackingUp, BackedUp, Installing
<1>1. CASE Disturbed
      BY <1>1, CopiesKept DEF Disturbed, Interrupt, Reboot
<1>2. ASSUME UNCHANGED <<Copies, pc>> PROVE CopyInv'
      BY <1>2 DEF CopyInv, AWorkingCopySurvives, Kept, Works
<1>3. CASE Publish
      BY <1>2, <1>3 DEF Publish, hostVars
<1>4. CASE Sicken /\ UNCHANGED <<repo, choice, backup, start, clean>>
      BY <1>2, <1>4 DEF Sicken
<1>5. CASE UNCHANGED vars
      BY <1>2, <1>5 DEF vars, hostVars
<1> QED BY <1>1, <1>3, <1>4, <1>5 DEF Around

\* From the backup to the move a working code and unit exist, installed or in
\* the backup, wherever the run is interrupted.
THEOREM WorkingCopySurvives == Spec => []AWorkingCopySurvives
<1>1. Init => CopyInv
  <2> SUFFICES ASSUME Init PROVE CopyInv
      OBVIOUS
  <2>1. pc = "idle" /\ opt = 1 /\ unit = 1 /\ fault[1] = "none" /\ 1 \in Commits
        BY ProvisionAssumption DEF Init, HostInit, Commits
  <2>2. Works(opt, unit)
        BY <2>1 DEF Works
  <2> QED BY <2>1, <2>2
          DEF CopyInv, AWorkingCopySurvives, Kept, BackingUp, BackedUp, Installing
<1>2. CopyInv /\ [Next]_vars => CopyInv'
      BY ScriptKeeps, OthersKeep DEF Next, Around
<1>3. CopyInv => AWorkingCopySurvives
      BY DEF CopyInv
<1> QED BY <1>1, <1>2, <1>3, PTL DEF Spec

-----------------------------------------------------------------------------
(* What gets installed.  From its checkout to the end of a run the tree    *)
(* has passed the steps before, and what is installed or backed up has     *)
(* passed them all.                                                        *)

Sound(code) == code \in Commits => fault[code] \notin {"build", "tests", "hardening"}

Passed ==
    /\ pc = "test" => fault[head] # "build"
    /\ pc = "checks" => fault[head] \notin {"build", "tests"}
    /\ pc \in {"drop"} \cup BackingUp \cup Installing =>
          fault[head] \notin {"build", "tests", "hardening"}

SoundInv == Passed /\ Sound(opt) /\ Sound(unit) /\ Sound(prev) /\ Sound(prevUnit)

\* The script installs no tree whose fault its checks look for.
LEMMA ScriptSound == SoundInv /\ Script => SoundInv'
<1> SUFFICES ASSUME SoundInv, Script PROVE SoundInv'
    OBVIOUS
<1> USE DEF SoundInv, Passed, Sound, Go, Goto, End, Die, machine, repo, choice, backup, start,
            BackingUp, Installing
<1>1. CASE Run
      BY <1>1 DEF Run
<1>2. CASE Fetch
      BY <1>2 DEF Fetch
<1>3. ASSUME NEW want, NEW force, NEW check, Decide(want, force, check)
      PROVE  SoundInv'
      BY <1>3 DEF Decide
<1>4. CASE Checkout
      BY <1>4 DEF Checkout
<1>5. CASE Build
      BY <1>5 DEF Build
<1>6. CASE Test
      BY <1>6 DEF Test
<1>7. CASE Checks
      BY <1>7 DEF Checks
<1>8. CASE DropBackup
      BY <1>8 DEF DropBackup, Commits, Gone
<1>9. CASE CopyBegins
      BY <1>9 DEF CopyBegins, Commits, Mixed
<1>10. CASE CopyEnds
      BY <1>10 DEF CopyEnds
<1>11. CASE CopyUnit
      BY <1>11 DEF CopyUnit
<1>12. CASE Install
  <2> USE DEF Install
  <2>1. CASE Preflight
        BY <1>12, <2>1 DEF Preflight
  <2>2. CASE InstallBegins
        BY <1>12, <2>2 DEF InstallBegins, Commits, Mixed
  <2>3. CASE InstallEnds
        BY <1>12, <2>3 DEF InstallEnds
  <2>4. CASE Firewall
        BY <1>12, <2>4 DEF Firewall
  <2>5. CASE InstallUnit
        BY <1>12, <2>5 DEF InstallUnit
  <2>6. CASE Restart \/ AwaitActive \/ SmokeTest
        BY <1>12, <2>6 DEF Restart, AwaitActive, SmokeTest
  <2> QED BY <1>12, <2>1, <2>2, <2>3, <2>4, <2>5, <2>6 DEF Provisioner
<1>13. CASE Verify
      BY <1>13 DEF Verify
<1>14. CASE Stop
      BY <1>14 DEF Stop
<1>15. CASE RemoveBegins \/ RemoveEnds
      BY <1>15 DEF RemoveBegins, RemoveEnds, Commits, Mixed, Gone
<1>16. CASE Move
      BY <1>16 DEF Move, Commits, Gone
<1>17. CASE MoveUnit
      BY <1>17 DEF MoveUnit, Commits, Gone
<1>18. CASE Start
      BY <1>18 DEF Start
<1>19. CASE Report
      BY <1>19 DEF Report
<1> QED BY <1>1, <1>2, <1>3, <1>4, <1>5, <1>6, <1>7, <1>8, <1>9, <1>10, <1>11, <1>12, <1>13,
           <1>14, <1>15, <1>16, <1>17, <1>18, <1>19
        DEF Script

\* Nothing that does not build, fails its tests or its hardening checks gets
\* into /opt, the unit file or the backup, whatever earlier runs left behind.
THEOREM BadReleaseKeptOut == Spec => []BadReleaseNeverInstalled
<1>1. Init => SoundInv
  <2> SUFFICES ASSUME Init PROVE SoundInv
      OBVIOUS
  <2>1. /\ pc = "idle" /\ opt = 1 /\ unit = 1 /\ prev = Gone /\ prevUnit = Gone
        /\ fault[1] = "none"
        BY ProvisionAssumption DEF Init, HostInit, Commits
  <2> QED BY <2>1 DEF SoundInv, Passed, Sound, BackingUp, Installing, Commits, Gone
<1>2. SoundInv /\ [Next]_vars => SoundInv'
  <2> SUFFICES ASSUME SoundInv, [Next]_vars PROVE SoundInv'
      OBVIOUS
  <2>1. CASE Script
        BY <2>1, ScriptSound
  <2>2. CASE Disturbed
        BY <2>2 DEF Disturbed, Interrupt, Reboot, SoundInv, Passed, Sound, repo, choice, backup,
                    start, BackingUp, Installing
  <2>3. ASSUME UNCHANGED <<fault, opt, unit, prev, prevUnit, head, pc>> PROVE SoundInv'
        BY <2>3 DEF SoundInv, Passed, Sound
  <2>4. CASE Publish \/ UNCHANGED vars
        BY <2>3, <2>4 DEF Publish, vars, hostVars, backup
  <2>5. CASE Sicken /\ UNCHANGED <<repo, choice, backup, start, clean>>
        BY <2>3, <2>5 DEF Sicken, backup
  <2> QED BY <2>1, <2>2, <2>4, <2>5 DEF Next
<1>3. SoundInv => BadReleaseNeverInstalled
      BY DEF SoundInv, Sound, BadReleaseNeverInstalled
<1> QED BY <1>1, <1>2, <1>3, PTL DEF Spec

-----------------------------------------------------------------------------
(* The reports.  Where a run is says what the tree, the installed pair and *)
(* the backup are, relative to the target and to what the run found.       *)

Tested == {"build", "test", "checks", "drop"} \cup BackingUp \cup Installing \cup {"verify"}
Untouched == {"fetch", "decide", "checkout", "build", "test", "checks", "drop"} \cup BackingUp
CodeNew == {"firewall", "unit", "restart", "await", "smoke", "verify"}
UnitNew == {"restart", "await", "smoke", "verify"}
Restarted == {"await", "smoke", "verify"}
BackAgain == {"start", "source"}
RollBacks == {"rolledback", "rollbackfailed"}

\* From the checkout on the tree is the target; then the code is the tree,
\* then the unit, then what runs.
Forward ==
    /\ local = seen
    /\ pc \in Tested => head = local[target] /\ head \in Commits
    /\ pc \in CodeNew => opt = head
    /\ pc \in UnitNew => unit = head
    /\ pc \in Restarted => running \in {Gone, opt}

\* What the run found is what is installed, then what the backup holds, then
\* installed again.
Back ==
    /\ before \in [opt : Commits \cup {Gone, Mixed}, unit : Commits]
    /\ pc \in Untouched \cup BackAgain => before.opt = opt /\ before.unit = unit
    /\ pc = "copyunit" => prev = opt
    /\ pc \in BackedUp => before.opt = prev /\ before.unit = prevUnit
    /\ pc = "moveunit" => before.opt = opt /\ before.unit = prevUnit
    /\ pc = "source" /\ running = Gone => ~ Works(opt, unit)

\* A tree left clean is that of the installed release, or the tarball's.
Tidy ==
    clean =>
        /\ pc \in {"idle", "fetch", "decide"} => head \in {Gone, opt}
        /\ pc \in Chosen /\ current # NoTag => local[current] = before.opt

\* What an ended run said of itself is true for as long as it is the last.
Reported ==
    /\ pc # "idle" => exit = "running"
    /\ RolledBackMeansPrevious /\ UpToDateMeansInstalled /\ UpToDateMeansFetched

ReportInv == TypeOK /\ Forward /\ Back /\ Tidy /\ Reported
\* The newest of some tags is one of them.
LEMMA NewestIsATag ==
    ASSUME NEW tags \in [Tags -> Commits \cup {Gone}]
    PROVE  Newest(tags) \in Tags \cup {NoTag}
<1>1. CASE tags = NoTags
      BY <1>1 DEF Newest
<1>2. CASE tags # NoTags
  <2>1. PICK t \in Tags : tags[t] # Gone
        BY <1>2, Zenon DEF NoTags
  <2> DEFINE Below == {n \in Nat : \E s \in Tags : tags[s] # Gone /\ n = MaxTag - s}
  <2>2. MaxTag \in Nat /\ MaxTag - t \in Below
        BY <2>1, UpdaterAssumption DEF Tags
  <2>3. PICK m \in Below : \A n \in Below : m <= n
        BY <2>2, LeastNatural
  <2>4. PICK s \in Tags : tags[s] # Gone /\ m = MaxTag - s
        BY <2>3
  <2>5. ASSUME NEW u \in Tags, tags[u] # Gone PROVE u <= s
    <3>1. MaxTag - u \in Below
          BY <2>2, <2>5 DEF Tags
    <3>2. MaxTag - s <= MaxTag - u
          BY <3>1, <2>3, <2>4
    <3> HIDE DEF Below
    <3> QED BY <3>2, <2>2, <2>4 DEF Tags
  <2>6. \E x \in Tags : tags[x] # Gone /\ \A u \in Tags : tags[u] # Gone => u <= x
        BY <2>4, <2>5
  <2> QED BY <1>2, <2>6, Zenon DEF Newest
<1> QED BY <1>1, <1>2

\* git describe names a tag or none,
LEMMA DescribedIsATag == Described \in Tags \cup {NoTag}
BY Zenon DEF Described

\* and the one it names is at HEAD.
LEMMA DescribedIsHead == Described # NoTag => head # Gone /\ local[Described] = head
<1>1. CASE \E t \in Tags : local[t] = head /\ head # Gone
  <2>1. local[Described] = head
        BY <1>1, Zenon DEF Described
  <2> QED BY <1>1, <2>1
<1>2. CASE ~ \E t \in Tags : local[t] = head /\ head # Gone
      BY <1>2, Zenon DEF Described
<1> QED BY <1>1, <1>2

\* What a start of the service leaves.
LEMMA Starts ==
    ASSUME opt \in Commits \cup {Gone, Mixed}, StartService
    PROVE  running' \in {Gone, opt} /\ running' \in Commits \cup {Gone, Mixed} /\ ill' \in BOOLEAN
<1>1. running' \in {Gone, opt}
      BY DEF StartService
<1>2. ill' \in BOOLEAN
      BY Zenon DEF StartService
<1> QED BY <1>1, <1>2

\* clean is a Boolean after every step.
LEMMA CleanIsBoolean == clean \in BOOLEAN /\ Script => clean' \in BOOLEAN
<1> SUFFICES ASSUME clean \in BOOLEAN, Script PROVE clean' \in BOOLEAN
    OBVIOUS
<1>1. ASSUME NEW how, End(how) PROVE clean' \in BOOLEAN
      BY <1>1, Zenon DEF End
<1>2. ASSUME NEW place, Go(place) PROVE clean' \in BOOLEAN
      BY <1>2 DEF Go
<1>3. CASE Run \/ DropBackup \/ CopyEnds \/ CopyUnit
      BY <1>2, <1>3 DEF Run, DropBackup, CopyEnds, CopyUnit
<1>4. CASE Stop \/ RemoveBegins \/ RemoveEnds \/ Move \/ MoveUnit
      BY <1>2, <1>4 DEF Stop, RemoveBegins, RemoveEnds, Move, MoveUnit
<1>5. CASE Fetch \/ Checkout \/ Build \/ Test \/ Checks \/ CopyBegins \/ Verify \/ Start
      BY <1>1, <1>2, <1>5, Zenon
      DEF Fetch, Checkout, Build, Test, Checks, CopyBegins, Verify, Start
<1>6. ASSUME NEW want, NEW force, NEW check, Decide(want, force, check)
      PROVE  clean' \in BOOLEAN
      BY <1>1, <1>2, <1>6, Zenon DEF Decide
<1>7. CASE Report
      BY <1>1, <1>7, Zenon DEF Report
<1>8. CASE Install
      BY <1>8, Zenon DEF Install
<1> QED BY <1>3, <1>4, <1>5, <1>6, <1>7, <1>8 DEF Script

\* Each step of the script keeps the types; the unit file and its backup hold
\* a commit whenever they are needed.
LEMMA ScriptTypes == ReportInv /\ Script => TypeOK'
<1> SUFFICES ASSUME ReportInv, Script PROVE TypeOK'
    OBVIOUS
<1> USE UpdaterAssumption, ProvisionAssumption
    DEF Go, Goto, End, Die, machine, repo, choice, backup, start, Chosen, TypeOK, HostTypeOK,
        Installing
<1>0. TypeOK /\ Forward /\ Back /\ clean' \in BOOLEAN
  <2>1. TypeOK /\ Forward /\ Back
        BY DEF ReportInv
  <2>2. clean' \in BOOLEAN
        BY <2>1, CleanIsBoolean
  <2> QED BY <2>1, <2>2
<1>1. CASE Run
      BY <1>0, <1>1 DEF Run
<1>2. CASE Fetch
      BY <1>0, <1>2 DEF Fetch
<1>3. ASSUME NEW want \in Tags \cup {NoTag}, NEW force \in BOOLEAN, NEW check \in BOOLEAN,
             Decide(want, force, check)
      PROVE  TypeOK'
  <2>1. Newest(local) \in Tags \cup {NoTag} /\ Described \in Tags \cup {NoTag}
        BY <1>0, NewestIsATag, DescribedIsATag
  <2>2. current' \in Tags \cup {NoTag} /\ target' \in Tags \cup {NoTag}
        BY <1>3, <2>1 DEF Decide
  <2>3. pc' = "idle" \/ (pc' = "checkout" /\ target' # NoTag)
        BY <1>3 DEF Decide
  <2>4. exit' \in {exit, "failed", "uptodate", "checked"} /\ clean' \in BOOLEAN
        BY <1>0, <1>3 DEF Decide
  <2> QED BY <1>0, <1>3, <2>2, <2>3, <2>4 DEF Decide
<1>4. CASE Checkout
      BY <1>0, <1>4 DEF Checkout
<1>5. CASE Build
      BY <1>0, <1>5 DEF Build
<1>6. CASE Test
      BY <1>0, <1>6 DEF Test, CheckoutCurrent
<1>7. CASE Checks
      BY <1>0, <1>7 DEF Checks
<1>8. CASE DropBackup
      BY <1>0, <1>8 DEF DropBackup
<1>9. CASE CopyBegins
      BY <1>0, <1>9 DEF CopyBegins
<1>10. CASE CopyEnds
      BY <1>0, <1>10 DEF CopyEnds
<1>11. CASE CopyUnit
      BY <1>0, <1>11 DEF CopyUnit
<1>12. CASE Install
  <2>1. pc \in Tested /\ head \in Commits
        BY <1>0, <1>12 DEF Forward, Tested, Install, Provisioner, Preflight, InstallBegins,
                           InstallEnds, Firewall, InstallUnit, Restart, AwaitActive, SmokeTest
  <2> USE DEF Install
  <2>2. CASE Preflight
        BY <1>0, <1>12, <2>2 DEF Preflight
  <2>3. CASE InstallBegins
        BY <1>0, <1>12, <2>3 DEF InstallBegins
  <2>4. CASE InstallEnds
        BY <1>0, <1>12, <2>1, <2>4 DEF InstallEnds
  <2>5. CASE Firewall
        BY <1>0, <1>12, <2>5 DEF Firewall
  <2>6. CASE InstallUnit
        BY <1>0, <1>12, <2>1, <2>6 DEF InstallUnit
  <2>7. CASE Restart
    <3>1. running' \in Commits \cup {Gone, Mixed} /\ ill' \in BOOLEAN
          BY <1>0, <2>7, Starts DEF Restart
    <3> QED BY <1>0, <1>12, <2>7, <3>1 DEF Restart
  <2>8. CASE AwaitActive \/ SmokeTest
        BY <1>0, <1>12, <2>8 DEF AwaitActive, SmokeTest
  <2> QED BY <1>12, <2>2, <2>3, <2>4, <2>5, <2>6, <2>7, <2>8 DEF Provisioner
<1>13. CASE Verify
      BY <1>0, <1>13 DEF Verify
<1>14. CASE Stop
  <2>1. ill' \in BOOLEAN
        BY <1>14, Zenon DEF Stop
  <2>2. /\ pc = "stop" /\ pc' = "remove" /\ running' = Gone
        /\ UNCHANGED <<fault, proxied, opt, unit, head, repo, choice, backup, start, exit>>
        BY <1>14 DEF Stop
  <2> QED BY <1>0, <2>1, <2>2
<1>15. CASE RemoveBegins \/ RemoveEnds
      BY <1>0, <1>15 DEF RemoveBegins, RemoveEnds
<1>16. CASE Move
      BY <1>0, <1>16 DEF Move
<1>17. CASE MoveUnit
  <2>1. prevUnit \in Commits
        BY <1>0, <1>17 DEF MoveUnit, Back
  <2> QED BY <1>0, <1>17, <2>1 DEF MoveUnit
<1>18. CASE Start
  <2>1. running' \in Commits \cup {Gone, Mixed} /\ ill' \in BOOLEAN
        BY <1>0, <1>18, Starts DEF Start
  <2> QED BY <1>0, <1>18, <2>1 DEF Start
<1>19. CASE Report
      BY <1>0, <1>19 DEF Report, CheckoutCurrent
<1> QED BY <1>1, <1>2, <1>3, <1>4, <1>5, <1>6, <1>7, <1>8, <1>9, <1>10, <1>11, <1>12, <1>13,
           <1>14, <1>15, <1>16, <1>17, <1>18, <1>19
        DEF Script

\* The target reaches the tree, /opt, the unit and the service in this order.
LEMMA ScriptForward == ReportInv /\ Script => Forward'
<1> SUFFICES ASSUME ReportInv, Script PROVE Forward'
    OBVIOUS
<1> USE DEF Go, Goto, End, Die, machine, repo, choice, backup, start,
            BackingUp, Installing, Forward, Tested, CodeNew, UnitNew, Restarted
<1>0. TypeOK /\ Forward
      BY DEF ReportInv
<1>1. CASE Run
      BY <1>0, <1>1 DEF Run
<1>2. CASE Fetch
      BY <1>0, <1>2 DEF Fetch
<1>3. ASSUME NEW want \in Tags \cup {NoTag}, NEW force, NEW check, Decide(want, force, check)
      PROVE  Forward'
      BY <1>0, <1>3 DEF Decide
<1>4. CASE Checkout
  <2>1. local[target] # Gone => local[target] \in Commits
        BY <1>0, <1>4 DEF TypeOK, Chosen, Checkout
  <2> QED BY <1>0, <2>1, <1>4 DEF Checkout
<1>5. CASE Build
      BY <1>0, <1>5 DEF Build
<1>6. CASE Test
      BY <1>0, <1>6 DEF Test
<1>7. CASE Checks
      BY <1>0, <1>7 DEF Checks
<1>8. CASE DropBackup
      BY <1>0, <1>8 DEF DropBackup
<1>9. CASE CopyBegins
      BY <1>0, <1>9 DEF CopyBegins
<1>10. CASE CopyEnds
      BY <1>0, <1>10 DEF CopyEnds
<1>11. CASE CopyUnit
      BY <1>0, <1>11 DEF CopyUnit
<1>12. CASE Install
  <2> USE DEF Install
  <2>1. CASE Preflight
        BY <1>0, <1>12, <2>1 DEF Preflight
  <2>2. CASE InstallBegins
        BY <1>0, <1>12, <2>2 DEF InstallBegins
  <2>3. CASE InstallEnds
        BY <1>0, <1>12, <2>3 DEF InstallEnds
  <2>4. CASE Firewall
        BY <1>0, <1>12, <2>4 DEF Firewall
  <2>5. CASE InstallUnit
        BY <1>0, <1>12, <2>5 DEF InstallUnit
  <2>6. CASE Restart
        BY <1>0, <1>12, <2>6 DEF Restart, StartService
  <2>7. CASE AwaitActive
        BY <1>0, <1>12, <2>7 DEF AwaitActive
  <2>8. CASE SmokeTest
        BY <1>0, <1>12, <2>8 DEF SmokeTest
  <2> QED BY <1>12, <2>1, <2>2, <2>3, <2>4, <2>5, <2>6, <2>7, <2>8 DEF Provisioner
<1>13. CASE Verify
      BY <1>0, <1>13 DEF Verify
<1>14. CASE Stop
      BY <1>0, <1>14 DEF Stop
<1>15. CASE RemoveBegins
      BY <1>0, <1>15 DEF RemoveBegins
<1>16. CASE RemoveEnds
      BY <1>0, <1>16 DEF RemoveEnds
<1>17. CASE Move
      BY <1>0, <1>17 DEF Move
<1>18. CASE MoveUnit
      BY <1>0, <1>18 DEF MoveUnit
<1>19. CASE Start
      BY <1>0, <1>19 DEF Start
<1>20. CASE Report
      BY <1>0, <1>20 DEF Report
<1> QED BY <1>1, <1>2, <1>3, <1>4, <1>5, <1>6, <1>7, <1>8, <1>9, <1>10, <1>11, <1>12, <1>13,
           <1>14, <1>15, <1>16, <1>17, <1>18, <1>19, <1>20
        DEF Script

\* A service that does not come up does not work.
LEMMA StartFails ==
    ASSUME StartService, running' = Gone, UNCHANGED <<fault, opt, unit>>
    PROVE  ~ Works(opt, unit)'
<1>1. PICK up \in MayStart : running' = IF up THEN opt ELSE Gone
      BY DEF StartService
<1>2. CASE opt = Gone \/ opt = Mixed
      BY <1>2 DEF Works, Commits, Gone, Mixed
<1>3. CASE opt # Gone /\ opt # Mixed
      BY <1>1, <1>3 DEF MayStart, Works
<1> QED BY <1>2, <1>3

\* What the run found is kept, where the step says.
LEMMA ScriptBack == ReportInv /\ Script => Back'
<1> SUFFICES ASSUME ReportInv, Script PROVE Back'
    OBVIOUS
<1> USE DEF Go, Goto, End, Die, machine, repo, choice, backup, start,
            BackingUp, Installing, Back, Untouched, BackedUp, BackAgain
<1>0. TypeOK /\ Back
      BY DEF ReportInv
<1>1. CASE Run
      BY <1>0, <1>1 DEF Run, TypeOK, HostTypeOK
<1>2. CASE Fetch
      BY <1>0, <1>2 DEF Fetch
<1>3. ASSUME NEW want \in Tags \cup {NoTag}, NEW force, NEW check, Decide(want, force, check)
      PROVE  Back'
      BY <1>0, <1>3 DEF Decide
<1>4. CASE Checkout
      BY <1>0, <1>4 DEF Checkout
<1>5. CASE Build
      BY <1>0, <1>5 DEF Build
<1>6. CASE Test
      BY <1>0, <1>6 DEF Test
<1>7. CASE Checks
      BY <1>0, <1>7 DEF Checks
<1>8. CASE DropBackup
      BY <1>0, <1>8 DEF DropBackup
<1>9. CASE CopyBegins
      BY <1>0, <1>9 DEF CopyBegins
<1>10. CASE CopyEnds
      BY <1>0, <1>10 DEF CopyEnds
<1>11. CASE CopyUnit
      BY <1>0, <1>11 DEF CopyUnit
<1>12. CASE Install
  <2> USE DEF Install
  <2>1. CASE Preflight
        BY <1>0, <1>12, <2>1 DEF Preflight
  <2>2. CASE InstallBegins
        BY <1>0, <1>12, <2>2 DEF InstallBegins
  <2>3. CASE InstallEnds
        BY <1>0, <1>12, <2>3 DEF InstallEnds
  <2>4. CASE Firewall
        BY <1>0, <1>12, <2>4 DEF Firewall
  <2>5. CASE InstallUnit
        BY <1>0, <1>12, <2>5 DEF InstallUnit
  <2>6. CASE Restart
        BY <1>0, <1>12, <2>6 DEF Restart, StartService
  <2>7. CASE AwaitActive
        BY <1>0, <1>12, <2>7 DEF AwaitActive
  <2>8. CASE SmokeTest
        BY <1>0, <1>12, <2>8 DEF SmokeTest
  <2> QED BY <1>12, <2>1, <2>2, <2>3, <2>4, <2>5, <2>6, <2>7, <2>8 DEF Provisioner
<1>13. CASE Verify
      BY <1>0, <1>13 DEF Verify
<1>14. CASE Stop
      BY <1>0, <1>14 DEF Stop
<1>15. CASE RemoveBegins
      BY <1>0, <1>15 DEF RemoveBegins
<1>16. CASE RemoveEnds
      BY <1>0, <1>16 DEF RemoveEnds
<1>17. CASE Move
      BY <1>0, <1>17 DEF Move
<1>18. CASE MoveUnit
      BY <1>0, <1>18 DEF MoveUnit
<1>19. CASE Start
      BY <1>0, <1>19, StartFails DEF Start
<1>20. CASE Report
      BY <1>0, <1>20 DEF Report
<1> QED BY <1>1, <1>2, <1>3, <1>4, <1>5, <1>6, <1>7, <1>8, <1>9, <1>10, <1>11, <1>12, <1>13,
           <1>14, <1>15, <1>16, <1>17, <1>18, <1>19, <1>20
        DEF Script

\* A run that ends as it is meant to leaves the tree at what is installed.
LEMMA ScriptTidy == ReportInv /\ Script => Tidy'
<1> SUFFICES ASSUME ReportInv, Script PROVE Tidy'
    OBVIOUS
<1> USE DEF Go, Goto, End, Die, machine, repo, choice, backup, start,
            BackingUp, Installing, Leaves, Tidy, Chosen
<1>0. TypeOK /\ Forward /\ Back /\ Tidy
      BY DEF ReportInv
<1>1. CASE Run
      BY <1>0, <1>1 DEF Run
<1>2. CASE Fetch
      BY <1>0, <1>2 DEF Fetch
<1>3. ASSUME NEW want \in Tags \cup {NoTag}, NEW force, NEW check, Decide(want, force, check)
      PROVE  Tidy'
  <2>1. /\ pc = "decide" /\ current' = Described /\ UNCHANGED <<local, head, opt, before>>
        /\ clean' => clean
        /\ pc' = "idle" \/ pc' = "checkout"
        BY <1>3 DEF Decide
  <2>2. before.opt = opt
        BY <1>0, <2>1 DEF Back, Untouched
  <2> QED BY <1>0, <2>1, <2>2, DescribedIsHead
<1>4. CASE Checkout
      BY <1>0, <1>4 DEF Checkout
<1>5. CASE Build
      BY <1>0, <1>5 DEF Build
<1>6. CASE Test
  <2>1. before.opt = opt
        BY <1>0, <1>6 DEF Test, Back, Untouched
  <2> QED BY <1>0, <2>1, <1>6 DEF Test, CheckoutCurrent
<1>7. CASE Checks
      BY <1>0, <1>7 DEF Checks
<1>8. CASE DropBackup
      BY <1>0, <1>8 DEF DropBackup
<1>9. CASE CopyBegins
      BY <1>0, <1>9 DEF CopyBegins
<1>10. CASE CopyEnds
      BY <1>0, <1>10 DEF CopyEnds
<1>11. CASE CopyUnit
      BY <1>0, <1>11 DEF CopyUnit
<1>12. CASE Install
  <2> USE DEF Install
  <2>1. CASE Preflight
        BY <1>0, <1>12, <2>1 DEF Preflight
  <2>2. CASE InstallBegins
        BY <1>0, <1>12, <2>2 DEF InstallBegins
  <2>3. CASE InstallEnds
        BY <1>0, <1>12, <2>3 DEF InstallEnds
  <2>4. CASE Firewall
        BY <1>0, <1>12, <2>4 DEF Firewall
  <2>5. CASE InstallUnit
        BY <1>0, <1>12, <2>5 DEF InstallUnit
  <2>6. CASE Restart
        BY <1>0, <1>12, <2>6 DEF Restart
  <2>7. CASE AwaitActive
        BY <1>0, <1>12, <2>7 DEF AwaitActive
  <2>8. CASE SmokeTest
        BY <1>0, <1>12, <2>8 DEF SmokeTest
  <2> QED BY <1>12, <2>1, <2>2, <2>3, <2>4, <2>5, <2>6, <2>7, <2>8 DEF Provisioner
<1>13. CASE Verify
  <2>1. head = opt
        BY <1>0, <1>13 DEF Verify, Forward, Tested, CodeNew
  <2> QED BY <1>0, <2>1, <1>13 DEF Verify
<1>14. CASE Stop
      BY <1>0, <1>14 DEF Stop
<1>15. CASE RemoveBegins
      BY <1>0, <1>15 DEF RemoveBegins
<1>16. CASE RemoveEnds
      BY <1>0, <1>16 DEF RemoveEnds
<1>17. CASE Move
      BY <1>0, <1>17 DEF Move
<1>18. CASE MoveUnit
      BY <1>0, <1>18 DEF MoveUnit
<1>19. CASE Start
      BY <1>0, <1>19 DEF Start
<1>20. CASE Report
  <2>1. before.opt = opt
        BY <1>0, <1>20 DEF Report, Back, BackAgain
  <2> QED BY <1>0, <2>1, <1>20 DEF Report, CheckoutCurrent
<1> QED BY <1>1, <1>2, <1>3, <1>4, <1>5, <1>6, <1>7, <1>8, <1>9, <1>10, <1>11, <1>12, <1>13,
           <1>14, <1>15, <1>16, <1>17, <1>18, <1>19, <1>20
        DEF Script

\* What a run says when it ends is so.
LEMMA ScriptReports == ReportInv /\ Script => Reported'
<1> SUFFICES ASSUME ReportInv, Script PROVE Reported'
    OBVIOUS
<1> USE DEF Go, Goto, End, Die, machine, repo, choice, backup, start,
            BackingUp, Installing, Reported, RolledBackMeansPrevious,
            UpToDateMeansInstalled, UpToDateMeansFetched
<1>0. TypeOK /\ Forward /\ Back /\ Tidy /\ Reported
      BY DEF ReportInv
<1>1. CASE Run
      BY <1>0, <1>1 DEF Run
<1>2. CASE Fetch
      BY <1>0, <1>2 DEF Fetch
<1>3. ASSUME NEW want \in Tags \cup {NoTag}, NEW force, NEW check, Decide(want, force, check)
      PROVE  Reported'
  <2>1. /\ pc = "decide" /\ current' = Described /\ UNCHANGED <<local, seen, head, opt>>
        /\ clean' => clean
        /\ \/ pc' = "idle" /\ exit' = "uptodate" /\ current' = target' /\ target' # NoTag
           \/ pc' = "idle" /\ exit' \in {"failed", "checked"}
           \/ pc' = "checkout" /\ exit' = exit
        BY <1>3 DEF Decide
  <2>2. exit' = "uptodate" => head = local[target'] /\ head # Gone
        BY <1>0, <2>1, DescribedIsHead
  <2>3. clean /\ head # Gone => head = opt
        BY <1>0, <2>1 DEF Tidy
  <2>4. local = seen /\ exit = "running"
        BY <1>0, <2>1 DEF Forward
  <2> QED BY <2>1, <2>2, <2>3, <2>4
<1>4. CASE Checkout
      BY <1>0, <1>4 DEF Checkout
<1>5. CASE Build
      BY <1>0, <1>5 DEF Build
<1>6. CASE Test
      BY <1>0, <1>6 DEF Test
<1>7. CASE Checks
      BY <1>0, <1>7 DEF Checks
<1>8. CASE DropBackup
      BY <1>0, <1>8 DEF DropBackup
<1>9. CASE CopyBegins
      BY <1>0, <1>9 DEF CopyBegins
<1>10. CASE CopyEnds
      BY <1>0, <1>10 DEF CopyEnds
<1>11. CASE CopyUnit
      BY <1>0, <1>11 DEF CopyUnit
<1>12. CASE Install
  <2> USE DEF Install
  <2>1. CASE Preflight
        BY <1>0, <1>12, <2>1 DEF Preflight
  <2>2. CASE InstallBegins
        BY <1>0, <1>12, <2>2 DEF InstallBegins
  <2>3. CASE InstallEnds
        BY <1>0, <1>12, <2>3 DEF InstallEnds
  <2>4. CASE Firewall
        BY <1>0, <1>12, <2>4 DEF Firewall
  <2>5. CASE InstallUnit
        BY <1>0, <1>12, <2>5 DEF InstallUnit
  <2>6. CASE Restart
        BY <1>0, <1>12, <2>6 DEF Restart
  <2>7. CASE AwaitActive
        BY <1>0, <1>12, <2>7 DEF AwaitActive
  <2>8. CASE SmokeTest
        BY <1>0, <1>12, <2>8 DEF SmokeTest
  <2> QED BY <1>12, <2>1, <2>2, <2>3, <2>4, <2>5, <2>6, <2>7, <2>8 DEF Provisioner
<1>13. CASE Verify
      BY <1>0, <1>13 DEF Verify
<1>14. CASE Stop
      BY <1>0, <1>14 DEF Stop
<1>15. CASE RemoveBegins
      BY <1>0, <1>15 DEF RemoveBegins
<1>16. CASE RemoveEnds
      BY <1>0, <1>16 DEF RemoveEnds
<1>17. CASE Move
      BY <1>0, <1>17 DEF Move
<1>18. CASE MoveUnit
      BY <1>0, <1>18 DEF MoveUnit
<1>19. CASE Start
      BY <1>0, <1>19 DEF Start
<1>20. CASE Report
  <2>1. /\ before = [opt |-> opt, unit |-> unit]
        /\ running = Gone => ~ Works(before.opt, before.unit)
        BY <1>0, <1>20 DEF Report, Back, BackAgain
  <2>2. clean' => local[current] = opt
        BY <1>0, <2>1, <1>20 DEF Report, Leaves, Tidy, Chosen
  <2>3. /\ pc' = "idle" /\ exit' = (IF running # Gone THEN "rolledback" ELSE "rollbackfailed")
        /\ UNCHANGED <<fault, opt, unit, local, current, before>>
        BY <1>20 DEF Report, IsActive
  <2>4. Works(before.opt, before.unit)' = Works(before.opt, before.unit)
        BY <2>3 DEF Works
  <2> QED BY <2>1, <2>2, <2>3, <2>4
<1> QED BY <1>1, <1>2, <1>3, <1>4, <1>5, <1>6, <1>7, <1>8, <1>9, <1>10, <1>11, <1>12, <1>13,
           <1>14, <1>15, <1>16, <1>17, <1>18, <1>19, <1>20
        DEF Script

\* An interruption, a reboot, origin and a late fault.
LEMMA AroundReports == ReportInv /\ Around => ReportInv'
<1> SUFFICES ASSUME ReportInv, Around PROVE ReportInv'
    OBVIOUS
<1> USE DEF machine, repo, choice, backup, start, BackingUp, Installing
<1>0. TypeOK /\ Forward /\ Back /\ Tidy /\ Reported
      BY DEF ReportInv
<1>1. CASE Disturbed
  <2>1. /\ pc' = "idle"
        /\ exit' = "interrupted" \/ (pc = "idle" /\ exit' = exit)
        /\ UNCHANGED <<fault, proxied, head, opt, unit, repo, choice, backup, start>>
        /\ running' \in Commits \cup {Gone, Mixed} /\ ill' \in BOOLEAN
    <3>1. CASE Interrupt
          BY <1>0, <1>1, <3>1 DEF Disturbed, Interrupt, TypeOK, HostTypeOK
    <3>2. CASE Reboot
          BY <1>0, <1>1, <3>2, Starts DEF Disturbed, Reboot, TypeOK, HostTypeOK
    <3> QED BY <1>1, <3>1, <3>2 DEF Disturbed
  <2>2. clean' \in BOOLEAN
        BY <1>1, Zenon DEF Disturbed
  <2>3. clean' => clean /\ pc \in {"idle", "fetch", "decide"}
        BY <1>1 DEF Disturbed
  <2>4. TypeOK'
        BY <1>0, <2>1, <2>2 DEF TypeOK, HostTypeOK, Chosen
  <2>5. Forward' /\ Back'
        BY <1>0, <2>1 DEF Forward, Tested, CodeNew, UnitNew, Restarted,
                          Back, Untouched, BackAgain, BackedUp
  <2>6. Tidy' /\ Reported'
    <3>1. Works(before.opt, before.unit)' = Works(before.opt, before.unit)
          BY <2>1 DEF Works
    <3> QED BY <1>0, <2>1, <2>3, <3>1
            DEF Tidy, Chosen, Reported, RolledBackMeansPrevious, UpToDateMeansInstalled,
                UpToDateMeansFetched
  <2> QED BY <2>4, <2>5, <2>6 DEF ReportInv
<1>2. ASSUME UNCHANGED <<fault, head, opt, unit, running, pc, exit, local, seen, choice, backup,
                         start, clean>>
      PROVE  Forward' /\ Back' /\ Tidy' /\ Reported'
  <2>1. /\ Works(opt, unit)' = Works(opt, unit)
        /\ Works(before.opt, before.unit)' = Works(before.opt, before.unit)
        BY <1>2 DEF Works
  <2>2. Forward' /\ Back'
        BY <1>0, <1>2, <2>1 DEF Forward, Tested, CodeNew, UnitNew, Restarted,
                                Back, Untouched, BackAgain, BackedUp
  <2>3. Tidy' /\ Reported'
        BY <1>0, <1>2, <2>1
        DEF Tidy, Chosen, Reported, RolledBackMeansPrevious, UpToDateMeansInstalled,
            UpToDateMeansFetched
  <2> QED BY <2>2, <2>3
<1>3. CASE Publish
  <2>1. TypeOK'
    <3>1. published + 1 \in Commits
          BY <1>0, <1>3, ProvisionAssumption DEF Publish, TypeOK, Commits
    <3> QED BY <1>0, <1>3, <3>1 DEF Publish, hostVars, TypeOK, HostTypeOK, Chosen
  <2> QED BY <1>2, <1>3, <2>1 DEF Publish, hostVars, ReportInv
<1>4. CASE Sicken /\ UNCHANGED <<repo, choice, backup, start, clean>>
  <2>1. ill' \in BOOLEAN
        BY <1>4, Zenon DEF Sicken
  <2>2. UNCHANGED <<fault, proxied, head, opt, unit, running, pc, exit>>
        BY <1>4 DEF Sicken
  <2>3. TypeOK'
        BY <1>0, <1>4, <2>1, <2>2 DEF TypeOK, HostTypeOK, Chosen
  <2> QED BY <1>2, <1>4, <2>2, <2>3 DEF ReportInv
<1>5. CASE UNCHANGED vars
  <2>1. TypeOK'
        BY <1>0, <1>5 DEF vars, hostVars, TypeOK, HostTypeOK, Chosen
  <2> QED BY <1>2, <1>5, <2>1 DEF vars, hostVars, ReportInv
<1> QED BY <1>1, <1>3, <1>4, <1>5 DEF Around

\* What the reports rest on holds throughout.
LEMMA ReportInvHolds == Spec => []ReportInv
<1>1. Init => ReportInv
  <2> SUFFICES ASSUME Init PROVE ReportInv
      OBVIOUS
  <2> USE ProvisionAssumption, UpdaterAssumption
  <2>1. TypeOK
    <3>1. 1 \in Commits /\ 1 \in Tags
          BY DEF Commits, Tags
    <3>2. clean \in BOOLEAN /\ careless \in BOOLEAN /\ ill \in BOOLEAN
          BY Zenon DEF Init, HostInit
    <3>3. origin \in [Tags -> Commits \cup {Gone}] /\ local \in [Tags -> Commits \cup {Gone}]
          /\ seen \in [Tags -> Commits \cup {Gone}]
          BY <3>1 DEF Init, NoTags
    <3>4. /\ fault \in [Commits -> Faults] /\ proxied \in BOOLEAN
          /\ head = Gone /\ opt = 1 /\ unit = 1 /\ running = 1 /\ pc = "idle" /\ exit = "none"
          BY DEF Init, HostInit
    <3>5. /\ published = 1 /\ runs = 0 /\ current = NoTag /\ target = NoTag
          /\ prev = Gone /\ prevUnit = Gone
          BY DEF Init
    <3>6. HostTypeOK
          BY <3>1, <3>2, <3>4, Zenon DEF HostTypeOK
    <3>7. 0 \in 0..MaxRuns
          OBVIOUS
    <3>8. pc \notin Chosen
          BY <3>4 DEF Chosen, Installing
    <3> QED BY <3>1, <3>2, <3>3, <3>4, <3>5, <3>6, <3>7, <3>8, Zenon DEF TypeOK
  <2>2. Forward /\ Back /\ Tidy /\ Reported
        BY DEF Init, HostInit, Forward, Tested, CodeNew, UnitNew, Restarted, Back, Untouched,
               BackAgain, BackedUp, BackingUp, Installing, Tidy, Chosen, Reported, Commits,
               RolledBackMeansPrevious, UpToDateMeansInstalled, UpToDateMeansFetched
  <2> QED BY <2>1, <2>2 DEF ReportInv
<1>2. ReportInv /\ [Next]_vars => ReportInv'
  <2> SUFFICES ASSUME ReportInv, [Next]_vars PROVE ReportInv'
      OBVIOUS
  <2>1. CASE Script
        BY <2>1, ScriptTypes, ScriptForward, ScriptBack, ScriptTidy, ScriptReports DEF ReportInv
  <2>2. CASE Around
        BY <2>2, AroundReports
  <2> QED BY <2>1, <2>2 DEF Next, Around
<1> QED BY <1>1, <1>2, PTL DEF Spec

\* Every variable stays in its range: the unit file never goes missing, and
\* the script only acts on a tag it has chosen.
THEOREM UpdaterTypes == Spec => []TypeOK
<1>1. ReportInv => TypeOK
      BY DEF ReportInv
<1> QED BY <1>1, ReportInvHolds, PTL

\* A run that says it rolled back has put back what it found; one that says it
\* could not found what did not work.
THEOREM RollbackReportTrue == Spec => []RolledBackMeansPrevious
<1>1. ReportInv => RolledBackMeansPrevious
      BY DEF ReportInv, Reported
<1> QED BY <1>1, ReportInvHolds, PTL

\* "already up to date" is said of what is installed, as long as every run
\* before ended as it was meant to.
THEOREM UpToDateReportTrue == Spec => []UpToDateMeansInstalled
<1>1. ReportInv => UpToDateMeansInstalled
      BY DEF ReportInv, Reported
<1> QED BY <1>1, ReportInvHolds, PTL

\* ... and of the commit that origin's tag was at when the run fetched.
THEOREM UpToDateReportFresh == Spec => []UpToDateMeansFetched
<1>1. ReportInv => UpToDateMeansFetched
      BY DEF ReportInv, Reported
<1> QED BY <1>1, ReportInvHolds, PTL

\* What a step that ends a run with "updated" finds: only Verify ends one so.
LEMMA UpdatedStep ==
    ASSUME ReportInv, [Next]_vars, exit' = "updated", exit # "updated"
    PROVE  opt = local[target] /\ unit = opt /\ running = opt /\ HttpCode = "200"
<1>1. Verify
  <2> USE DEF Goto, Go, End, Die
  <2>1. CASE Script
    <3>1. ~ Run /\ ~ Fetch /\ ~ Checkout /\ ~ Build /\ ~ Test /\ ~ Checks /\ ~ Report
          BY DEF Run, Fetch, Checkout, Build, Test, Checks, Report
    <3>2. ~ DropBackup /\ ~ CopyBegins /\ ~ CopyEnds /\ ~ CopyUnit /\ ~ Stop /\ ~ RemoveBegins
          /\ ~ RemoveEnds /\ ~ Move /\ ~ MoveUnit /\ ~ Start
          BY DEF DropBackup, CopyBegins, CopyEnds, CopyUnit, Stop, RemoveBegins, RemoveEnds, Move,
                 MoveUnit, Start
    <3>3. ~ Install
          BY DEF Install, Provisioner, Preflight, InstallBegins, InstallEnds, Firewall,
                 InstallUnit, Restart, AwaitActive, SmokeTest
    <3>4. ASSUME NEW want, NEW force, NEW check PROVE ~ Decide(want, force, check)
          BY DEF Decide
    <3> QED BY <2>1, <3>1, <3>2, <3>3, <3>4 DEF Script
  <2>2. CASE Around
        BY <2>2 DEF Around, Disturbed, Interrupt, Reboot, Publish, Sicken, vars, hostVars
  <2> QED BY <2>1, <2>2 DEF Next, Around
<1>2. IsActive /\ HttpCode = "200" /\ pc = "verify"
      BY <1>1 DEF Verify, Go, Goto
<1> QED BY <1>2 DEF ReportInv, Forward, Tested, CodeNew, UnitNew, Restarted, IsActive

\* A run that ends with "updated" leaves the target's code and unit installed,
\* running and answering.
THEOREM UpdateReportTrue == Spec => UpdatedMeansRunning
<1>1. ReportInv /\ [Next]_vars =>
          [exit' = "updated" /\ exit # "updated" =>
              /\ opt = local[target] /\ unit = opt /\ running = opt
              /\ HttpCode = "200"]_vars
      BY UpdatedStep
<1> QED BY <1>1, ReportInvHolds, PTL DEF Spec, UpdatedMeansRunning
=============================================================================
