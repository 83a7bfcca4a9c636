---------------------------- MODULE UploadProofs ----------------------------
(***************************************************************************)
(* No row without its bytes, no blob without a row but a shared thumbnail, *)
(* debris that only failures add to, and limits that racing uploads exceed *)
(* by one for each other thread, for every set of keys, blobs and threads  *)
(* and any number of crashes and errors.                                   *)
(*                                                                         *)
(* RowsHaveWholeBlobs is not inductive: Insert relies on what the two put  *)
(* calls did several steps before.  UploadInv says, for each stage, what   *)
(* is on disk by then; and that no digest ever names a short file, which   *)
(* is what makes put's shortcut for a digest that is there sound.          *)
(* Hand says whose hands a blob without a row is in; DailyInv and          *)
(* HourlyInv count the uploads past their check together with the rows.    *)
(***************************************************************************)
EXTENDS UploadStore, FiniteSums, TLAPS

\* The part of TypeOK the argument uses.
UploadTypes ==
    /\ rows \subseteq [model : Blobs, thumb : Blobs, author : Keys, created_at : Nat]
    /\ blobs \in [Blobs -> {"absent", "short", "whole"}]
    /\ temp \in [Workers -> {"none", "short", "whole"}]
    /\ clock \in Nat
    /\ pc \in [Workers -> Stages \cup {"idle"}]
    /\ upload \in [Workers -> Uploads \cup {NoUpload}]
    /\ \A w \in Workers : pc[w] # "idle" => upload[w] \in Uploads
    /\ part \in [Workers -> Parts]
    /\ now \in [Workers -> Nat]

NoShortBlob == \A b \in Blobs : blobs[b] # "short"

WrittenBeforeRename == \A w \in Workers : pc[w] = "rename" => temp[w] = "whole"

ModelBeforeThumb ==
    \A w \in Workers : pc[w] \in PutStages /\ part[w] = "thumb"
        => blobs[upload[w].model] = "whole"

ModelFirst ==
    \A w \in Workers : pc[w] \in Checks \cup {"idle"} => part[w] = "model"

BlobsBeforeRow ==
    \A w \in Workers : pc[w] = "insert"
        => blobs[upload[w].model] = "whole" /\ blobs[upload[w].thumb] = "whole"

UploadInv == UploadTypes /\ NoShortBlob /\ WrittenBeforeRename /\ ModelFirst
                /\ ModelBeforeThumb /\ BlobsBeforeRow /\ RowsHaveWholeBlobs

\* What the disk part of the invariant says in one stage of one worker, so that
\* a step need only look at the worker it moves.
StageInv(w) ==
    /\ pc[w] \in Checks \cup {"idle"} => part[w] = "model"
    /\ pc[w] = "rename" => temp[w] = "whole"
    /\ pc[w] \in PutStages /\ part[w] = "thumb" => blobs[upload[w].model] = "whole"
    /\ pc[w] = "insert" => blobs[upload[w].model] = "whole" /\ blobs[upload[w].thumb] = "whole"

USE DEF Stages, Checks, PutStages, Parts

\* Blobs only ever come: what one worker found whole stays whole under every
\* action of another (store.py never deletes while it serves).
LEMMA OthersKeep ==
    ASSUME UploadInv, UploadTypes', NEW w \in Workers,
           \A b \in Blobs : blobs[b] = "whole" => blobs'[b] = "whole",
           NoShortBlob',
           \A v \in Workers \ {w} : /\ pc'[v] = pc[v] /\ upload'[v] = upload[v]
                                    /\ part'[v] = part[v] /\ temp'[v] = temp[v],
           StageInv(w)', rows' = rows
    PROVE  UploadInv'
<1>1. ASSUME NEW v \in Workers, pc[v] # "idle"
      PROVE  /\ upload[v] \in Uploads
             /\ upload[v].model \in Blobs /\ upload[v].thumb \in Blobs
      BY <1>1, UploadAssumption DEF UploadInv, UploadTypes
<1>2. \A v \in Workers : StageInv(v)'
  <2> SUFFICES ASSUME NEW v \in Workers \ {w} PROVE StageInv(v)'
      OBVIOUS
  <2>1. StageInv(v)
        BY DEF UploadInv, WrittenBeforeRename, ModelFirst, ModelBeforeThumb, BlobsBeforeRow,
               StageInv
  <2> QED BY <1>1, <2>1 DEF StageInv
<1>3. RowsHaveWholeBlobs'
      BY DEF UploadInv, UploadTypes, RowsHaveWholeBlobs
<1> QED BY <1>2, <1>3
        DEF UploadInv, WrittenBeforeRename, ModelFirst, ModelBeforeThumb, BlobsBeforeRow, StageInv

\* An empty store, and no upload on its way.
LEMMA UploadInit == Init => UploadInv
BY UploadAssumption
   DEF Init, UploadInv, UploadTypes, NoShortBlob, WrittenBeforeRename, ModelFirst,
       ModelBeforeThumb, BlobsBeforeRow, RowsHaveWholeBlobs

\* Every step keeps what is on disk by its stage.
LEMMA UploadStep == UploadInv /\ [Next]_vars => UploadInv'
<1> SUFFICES ASSUME UploadInv, [Next]_vars PROVE UploadInv'
    OBVIOUS
<1> USE UploadAssumption DEF disk
<1>t. /\ UploadTypes /\ NoShortBlob /\ RowsHaveWholeBlobs
      /\ \A v \in Workers : StageInv(v)
      BY DEF UploadInv, WrittenBeforeRename, ModelFirst, ModelBeforeThumb, BlobsBeforeRow, StageInv
<1>b. ASSUME NEW w \in Workers, pc[w] # "idle"
      PROVE  /\ upload[w] \in Uploads
             /\ upload[w].model \in Blobs /\ upload[w].thumb \in Blobs
             /\ Blob(w) \in Blobs
             /\ part[w] = "thumb" => Blob(w) = upload[w].thumb
             /\ part[w] = "model" => Blob(w) = upload[w].model
             /\ part[w] # "model" => part[w] = "thumb"
      BY <1>t, <1>b DEF UploadTypes, Blob
<1>1. ASSUME NEW w \in Workers, NEW u \in Uploads, Begin(w, u) PROVE UploadInv'
  <2>1. UploadTypes'
        BY <1>t, <1>1 DEF Begin, UploadTypes
  <2>2. StageInv(w)' /\ NoShortBlob'
        BY <1>t, <1>1 DEF Begin, UploadTypes, StageInv, NoShortBlob
  <2> QED BY <2>1, <2>2, <1>1, <1>t, OthersKeep DEF Begin, UploadTypes
<1>2. ASSUME NEW w \in Workers, Daily(w) \/ Hourly(w) \/ List(w) \/ Walk(w) \/ WalkFails(w)
      PROVE  UploadInv'
  <2>1. /\ pc' = [pc EXCEPT ![w] = pc'[w]]
        /\ pc[w] \in Checks
        /\ \/ pc'[w] = "idle" /\ Finish(w)
           \/ pc'[w] \in {"hourly", "disk", "walk", "exists"} /\ UNCHANGED <<upload, now, part>>
        /\ UNCHANGED <<clock, rows, disk>>
        BY <1>2, <1>t DEF Daily, Hourly, List, Walk, WalkFails, Goto, Finish, UploadTypes
  <2>2. UploadTypes'
        BY <1>t, <2>1 DEF Finish, UploadTypes
  <2>3. StageInv(w)' /\ NoShortBlob'
        BY <1>t, <2>1 DEF Finish, UploadTypes, StageInv, NoShortBlob
  <2> QED BY <2>1, <2>2, <2>3, <1>t, OthersKeep DEF Finish, UploadTypes
<1>3. ASSUME NEW w \in Workers, Open(w) PROVE UploadInv'
  <2>1. UploadTypes'
        BY <1>t, <1>3 DEF Open, NextPart, Goto, UploadTypes
  <2>2. StageInv(w)' /\ NoShortBlob'
    <3>1. CASE blobs[Blob(w)] # "absent"
      <4>1. blobs[Blob(w)] = "whole"
            BY <1>3, <1>b, <1>t, <3>1 DEF Open, UploadTypes, NoShortBlob
      <4> QED BY <4>1, <3>1, <1>3, <1>b, <1>t
              DEF Open, NextPart, Goto, UploadTypes, StageInv, NoShortBlob
    <3>2. CASE blobs[Blob(w)] = "absent"
          BY <3>2, <1>3, <1>b, <1>t DEF Open, Goto, UploadTypes, StageInv, NoShortBlob
    <3> QED BY <3>1, <3>2
  <2> QED BY <2>1, <2>2, <1>3, <1>t, OthersKeep DEF Open, NextPart, Goto, UploadTypes
<1>4. ASSUME NEW w \in Workers, Write(w) PROVE UploadInv'
  <2>1. UploadTypes'
        BY <1>t, <1>4 DEF Write, Goto, UploadTypes
  <2>2. StageInv(w)' /\ NoShortBlob'
        BY <1>t, <1>4, <1>b DEF Write, Goto, UploadTypes, StageInv, NoShortBlob
  <2> QED BY <2>1, <2>2, <1>4, <1>t, OthersKeep DEF Write, Goto, UploadTypes
<1>5. ASSUME NEW w \in Workers, Rename(w) PROVE UploadInv'
  <2>1. temp[w] = "whole" /\ Blob(w) \in Blobs
        BY <1>5, <1>t, <1>b DEF Rename, StageInv
  <2>2. UploadTypes'
        BY <1>t, <1>5, <2>1 DEF Rename, NextPart, Goto, UploadTypes
  <2>3. blobs' = [blobs EXCEPT ![Blob(w)] = "whole"]
        BY <1>5, <2>1 DEF Rename
  <2>4. NoShortBlob' /\ (\A b \in Blobs : blobs[b] = "whole" => blobs'[b] = "whole")
        BY <2>1, <2>3, <1>t DEF NoShortBlob, UploadTypes
  <2>5. StageInv(w)'
        BY <1>t, <1>5, <1>b, <2>1, <2>3 DEF Rename, NextPart, Goto, UploadTypes, StageInv
  <2> QED BY <2>2, <2>4, <2>5, <1>5, <1>t, OthersKeep DEF Rename, NextPart, Goto, UploadTypes
<1>6. ASSUME NEW w \in Workers, Insert(w) PROVE UploadInv'
  <2>1. /\ upload[w] \in Uploads
        /\ blobs[upload[w].model] = "whole" /\ blobs[upload[w].thumb] = "whole"
        BY <1>6, <1>t, <1>b DEF Insert, StageInv
  <2>2. UploadTypes'
        BY <1>t, <1>6, <2>1 DEF Insert, Finish, UploadTypes
  <2>3. RowsHaveWholeBlobs'
        BY <1>t, <1>6, <2>1 DEF Insert, RowsHaveWholeBlobs
  <2>4. \A v \in Workers : StageInv(v)'
        BY <1>t, <1>6 DEF Insert, Finish, UploadTypes, StageInv
  <2> QED BY <2>2, <2>3, <2>4, <1>t, <1>6
          DEF Insert, UploadInv, NoShortBlob, WrittenBeforeRename, ModelFirst,
              ModelBeforeThumb, BlobsBeforeRow, StageInv
<1>7. ASSUME NEW w \in Workers, Raise(w) PROVE UploadInv'
  <2>1. UploadTypes'
        BY <1>t, <1>7 DEF Raise, Finish, UploadTypes
  <2>2. StageInv(w)' /\ NoShortBlob'
        BY <1>t, <1>7 DEF Raise, Finish, UploadTypes, StageInv, NoShortBlob
  <2> QED BY <2>1, <2>2, <1>7, <1>t, OthersKeep DEF Raise, Finish, UploadTypes
<1>8. ASSUME Crash PROVE UploadInv'
      BY <1>t, <1>8
      DEF Crash, UploadInv, UploadTypes, NoShortBlob, WrittenBeforeRename, ModelFirst,
          ModelBeforeThumb, BlobsBeforeRow, RowsHaveWholeBlobs
<1>9. ASSUME Tick \/ UNCHANGED vars PROVE UploadInv'
      BY <1>t, <1>9
      DEF Tick, vars, UploadInv, UploadTypes, NoShortBlob, WrittenBeforeRename, ModelFirst,
          ModelBeforeThumb, BlobsBeforeRow, RowsHaveWholeBlobs, StageInv, Blob
<1> QED BY <1>1, <1>2, <1>3, <1>4, <1>5, <1>6, <1>7, <1>8, <1>9 DEF Next, Step

\* Whatever crashed, was raised or was put twice at once, a row's model and
\* thumbnail are on disk and whole (store.py:71-92, handlers_content.py:47-63).
THEOREM BlobsCorrect == Spec => []RowsHaveWholeBlobs
<1>1. UploadInv => RowsHaveWholeBlobs
      BY DEF UploadInv
<1> QED BY UploadInit, UploadStep, <1>1, PTL DEF Spec

-----------------------------------------------------------------------------
(* What lies about.  Each blob has a row, is the spare thumbnail of a      *)
(* model that has one, or was put by a worker whose INSERT is still to     *)
(* come; all others were left by an error or a crash.                      *)

InHand(w, b) ==
    \/ pc[w] \in PutStages /\ part[w] = "thumb" /\ b = upload[w].model
    \/ pc[w] = "insert" /\ b \in {upload[w].model, upload[w].thumb}

\* The two ways to say it.
LEMMA Hands == \A w, b : b \in Hand(w) <=> InHand(w, b)
BY DEF Hand, InHand

\* A step of one worker is looked at through what that worker had in hand.
LEMMA HandsKeep ==
    ASSUME NEW w \in Workers, rows \subseteq rows',
           \A v \in Workers \ {w} : pc'[v] = pc[v] /\ upload'[v] = upload[v] /\ part'[v] = part[v],
           \A b \in BlobFiles' : b \in BlobFiles \/ InHand(w, b)',
           \A b : InHand(w, b) => InHand(w, b)' \/ Placed(b)'
    PROVE  Orphans' \subseteq Orphans
<1> SUFFICES ASSUME NEW b \in Orphans' PROVE b \in Orphans
    OBVIOUS
<1>1. b \in BlobFiles' /\ ~ Placed(b)' /\ \A v \in Workers : ~ InHand(v, b)'
  <2>1. \A v \in Workers : b \in Hand(v)' <=> InHand(v, b)'
        BY Hands DEF Hand, InHand
  <2> QED BY <2>1 DEF Orphans
<1>2. ~ Placed(b)
      BY <1>1 DEF Placed
<1>3. \A v \in Workers : ~ InHand(v, b)
      BY <1>1 DEF InHand
<1> QED BY <1>1, <1>2, <1>3, Hands DEF Orphans

\* Without an error or a crash no blob is orphaned.
LEMMA OrphanStep ==
    ASSUME UploadInv, [Next]_vars
    PROVE  \/ Orphans' \subseteq Orphans /\ UNCHANGED <<litter, troubles>>
           \/ (\E w \in Workers : Raise(w)) \/ Crash
<1> DEFINE Safe == Orphans' \subseteq Orphans /\ UNCHANGED <<litter, troubles>>
<1> USE UploadAssumption DEF disk
<1>t. UploadTypes /\ \A v \in Workers : StageInv(v)
      BY DEF UploadInv, WrittenBeforeRename, ModelFirst, ModelBeforeThumb, BlobsBeforeRow,
             StageInv
<1>1. ASSUME NEW w \in Workers, NEW u \in Uploads, Begin(w, u) PROVE Safe
      BY <1>t, <1>1, HandsKeep DEF Begin, UploadTypes, InHand, BlobFiles
<1>2. ASSUME NEW w \in Workers, Daily(w) \/ Hourly(w) \/ List(w) \/ Walk(w) \/ WalkFails(w)
      PROVE  Safe
  <2>1. /\ pc' = [pc EXCEPT ![w] = pc'[w]] /\ pc[w] \in Checks
        /\ \/ pc'[w] = "idle" /\ Finish(w)
           \/ pc'[w] \in {"hourly", "disk", "walk", "exists"} /\ UNCHANGED <<upload, part>>
        /\ UNCHANGED <<rows, disk, troubles>>
        BY <1>2, <1>t DEF Daily, Hourly, List, Walk, WalkFails, Goto, Finish, UploadTypes
  <2> QED BY <1>t, <2>1, HandsKeep DEF UploadTypes, InHand, BlobFiles, Finish
<1>3. ASSUME NEW w \in Workers, Open(w) PROVE Safe
  <2>1. /\ \A b : InHand(w, b) => InHand(w, b)'
        /\ \A v \in Workers \ {w} : /\ pc'[v] = pc[v] /\ upload'[v] = upload[v]
                                    /\ part'[v] = part[v]
        BY <1>t, <1>3 DEF Open, NextPart, Goto, UploadTypes, InHand
  <2> QED BY <1>t, <1>3, <2>1, HandsKeep DEF Open, BlobFiles
<1>4. ASSUME NEW w \in Workers, Write(w) PROVE Safe
      BY <1>t, <1>4, HandsKeep DEF Write, Goto, UploadTypes, InHand, BlobFiles
<1>5. ASSUME NEW w \in Workers, Rename(w) PROVE Safe
  <2>1. /\ \A b : InHand(w, b) => InHand(w, b)'
        /\ \A b : b = Blob(w) => InHand(w, b)'
        /\ \A v \in Workers \ {w} : /\ pc'[v] = pc[v] /\ upload'[v] = upload[v]
                                    /\ part'[v] = part[v]
        BY <1>t, <1>5 DEF Rename, NextPart, Goto, UploadTypes, InHand, Blob
  <2>2. \A b \in BlobFiles' : b \in BlobFiles \/ b = Blob(w)
        BY <1>t, <1>5 DEF Rename, UploadTypes, BlobFiles
  <2> QED BY <1>5, <2>1, <2>2, HandsKeep DEF Rename
<1>6. ASSUME NEW w \in Workers, Insert(w) PROVE Safe
  <2>1. pc[w] = "insert" /\ upload[w] \in Uploads /\ UNCHANGED <<disk, troubles>>
        BY <1>t, <1>6 DEF Insert, UploadTypes
  <2>u. PICK u \in Uploads : u = upload[w]
        BY <2>1
  <2>2. rows \subseteq rows' /\ \E r \in rows' : r.model = u.model
    <3> DEFINE y == [model |-> u.model, thumb |-> u.thumb, author |-> u.key,
                     created_at |-> now[w]]
    <3>1. rows' = IF \E r \in rows : r.model = u.model THEN rows ELSE rows \cup {y}
          BY <1>6, <2>u DEF Insert
    <3>2. y.model = u.model
          OBVIOUS
    <3> HIDE DEF y
    <3> QED BY <3>1, <3>2
  <2>3. Placed(u.model)'
        BY <2>2 DEF Placed
  <2>4. Placed(u.thumb)'
        BY <2>1, <2>2 DEF Placed
  <2>5. \A b : InHand(w, b) => Placed(b)'
        BY <2>1, <2>u, <2>3, <2>4 DEF InHand
  <2>6. \A v \in Workers \ {w} : pc'[v] = pc[v] /\ upload'[v] = upload[v] /\ part'[v] = part[v]
        BY <1>t, <1>6 DEF Insert, Finish, UploadTypes
  <2> QED BY <2>1, <2>2, <2>5, <2>6, HandsKeep DEF BlobFiles
<1>7. CASE Tick \/ UNCHANGED vars
  <2>1. UNCHANGED <<rows, blobs, pc, upload, part, litter, troubles>>
        BY <1>7 DEF Tick, vars
  <2>2. UNCHANGED Orphans
        BY <2>1 DEF Orphans, BlobFiles, Placed, Hand
  <2> QED BY <2>1, <2>2
<1>8. ASSUME NEW w \in Workers, Step(w), ~ Raise(w) PROVE Safe
  <2> HIDE DEF Safe
  <2> QED BY <1>1, <1>2, <1>3, <1>4, <1>5, <1>6, <1>8 DEF Step
<1>9. (\E w \in Workers : Step(w)) \/ Crash \/ Tick \/ UNCHANGED vars
      BY DEF Next
<1> QED BY <1>7, <1>8, <1>9

-----------------------------------------------------------------------------
(* The limits.  In every window of time the rows, and the uploads under    *)
(* way that passed the check and may still become rows, are at most what   *)
(* the check let through and one per thread: a worker that passes has just *)
(* seen the rows below the limit, and each insert takes a row for a worker.*)

RowsFinite == UploadTypes /\ IsFiniteSet(rows)

\* From two sets no more than there was.
LEMMA FewerOfBoth ==
    ASSUME NEW A, NEW B, NEW A1, NEW B1, NEW n \in Int, IsFiniteSet(A), IsFiniteSet(B),
           A1 \subseteq A, B1 \subseteq B, Cardinality(A) + Cardinality(B) <= n
    PROVE  Cardinality(A1) + Cardinality(B1) <= n
<1>1. /\ Cardinality(A1) <= Cardinality(A) /\ Cardinality(B1) <= Cardinality(B)
      /\ IsFiniteSet(A1) /\ IsFiniteSet(B1)
      BY FS_Subset
<1>2. /\ Cardinality(A) \in Nat /\ Cardinality(B) \in Nat
      /\ Cardinality(A1) \in Nat /\ Cardinality(B1) \in Nat
      BY <1>1, FS_CardinalityType
<1> QED BY <1>1, <1>2

\* Only finitely many uploads have been stored.
LEMMA RowsFiniteStep == UploadInv /\ RowsFinite /\ [Next]_vars => RowsFinite'
<1> SUFFICES ASSUME UploadInv, RowsFinite, [Next]_vars PROVE RowsFinite'
    OBVIOUS
<1>1. UploadTypes'
      BY UploadStep DEF UploadInv
<1>2. rows' = rows \/ \E x : rows' = rows \cup {x}
  <2>1. ASSUME NEW w \in Workers, Insert(w) PROVE rows' = rows \/ \E x : rows' = rows \cup {x}
        BY <2>1 DEF Insert
  <2> QED BY <2>1 DEF Next, Step, Begin, Daily, Hourly, List, Walk, WalkFails, Open, Write, Rename,
                      Raise, Crash, Tick, vars
<1> QED BY <1>1, <1>2, FS_AddElement DEF RowsFinite

DailyPast == {"hourly", "disk", "walk"} \cup PutStages \cup {"insert"}

RowsInDay(k, t) == {s \in RowsOf(RowsSince(t - Day), k) : s.created_at <= t}

InDay(k, t) ==
    {w \in Workers : pc[w] \in DailyPast /\ upload[w].key = k /\ now[w] > t - Day /\ now[w] <= t}

DailyInv ==
    \A k \in Keys, t \in Int :
        Cardinality(RowsInDay(k, t)) + Cardinality(InDay(k, t))
            <= KeyLimit - 1 + Cardinality(Workers)

\* Who has passed the daily check was counted when fewer than the limit were stored.
LEMMA DailyStep == UploadInv /\ RowsFinite /\ DailyInv /\ [Next]_vars => DailyInv'
<1> SUFFICES ASSUME UploadInv, RowsFinite, DailyInv, [Next]_vars, NEW k \in Keys, NEW t \in Int
             PROVE  Cardinality(RowsInDay(k, t)') + Cardinality(InDay(k, t)')
                        <= KeyLimit - 1 + Cardinality(Workers)
    BY DEF DailyInv
<1> USE UploadAssumption
<1> DEFINE n == KeyLimit - 1 + Cardinality(Workers)
           A == RowsInDay(k, t)
           B == InDay(k, t)
<1>t. /\ UploadTypes /\ IsFiniteSet(A) /\ IsFiniteSet(B) /\ n \in Int
      /\ Cardinality(A) + Cardinality(B) <= n
  <2>1. UploadTypes /\ A \in SUBSET rows /\ B \in SUBSET Workers
        BY DEF UploadInv, RowsInDay, RowsOf, RowsSince, InDay
  <2>2. IsFiniteSet(A) /\ IsFiniteSet(B)
        BY <2>1, FS_Subset DEF RowsFinite
  <2> QED BY <2>1, <2>2, FS_CardinalityType DEF DailyInv
\* What a step does that lets nobody pass and adds no row.
<1>0. ASSUME rows' = rows, InDay(k, t)' \subseteq B
      PROVE  Cardinality(RowsInDay(k, t)') + Cardinality(InDay(k, t)') <= n
  <2>1. RowsInDay(k, t)' \subseteq A
        BY <1>0 DEF RowsInDay, RowsOf, RowsSince
  <2> HIDE DEF A, B, n
  <2> QED BY <1>0, <1>t, <2>1, FewerOfBoth
<1>1. ASSUME NEW w \in Workers, NEW u \in Uploads, Begin(w, u)
      PROVE  Cardinality(RowsInDay(k, t)') + Cardinality(InDay(k, t)') <= n
      BY <1>0, <1>1, <1>t DEF Begin, InDay, DailyPast, UploadTypes
<1>2. ASSUME NEW w \in Workers, Daily(w)
      PROVE  Cardinality(RowsInDay(k, t)') + Cardinality(InDay(k, t)') <= n
  <2>1. CASE w \notin InDay(k, t)'
        BY <1>0, <1>2, <1>t, <2>1 DEF Daily, Goto, Finish, InDay, DailyPast, UploadTypes
  <2>2. CASE w \in InDay(k, t)'
    <3>1. /\ now[w] <= t /\ rows' = rows /\ upload[w].key = k
          /\ ~ (Cardinality(RowsOf(RowsSince(now[w] - Day), upload[w].key)) >= KeyLimit)
          BY <1>2, <1>t, <2>2 DEF Daily, Goto, Finish, InDay, DailyPast, UploadTypes
    <3> DEFINE C == RowsOf(RowsSince(now[w] - Day), upload[w].key)
    <3>2. C \in SUBSET rows /\ RowsInDay(k, t)' \in SUBSET C
          BY <1>t, <3>1 DEF RowsInDay, RowsOf, RowsSince, UploadTypes
    <3>3. /\ IsFiniteSet(C) /\ Cardinality(C) \in Nat /\ Cardinality(RowsInDay(k, t)') \in Nat
          /\ Cardinality(RowsInDay(k, t)') <= Cardinality(C)
      <4> HIDE DEF C
      <4> QED BY <3>2, FS_Subset, FS_CardinalityType DEF RowsFinite
    <3>4. Cardinality(InDay(k, t)') <= Cardinality(Workers) /\ Cardinality(InDay(k, t)') \in Nat
          /\ Cardinality(Workers) \in Nat
      <4>1. InDay(k, t)' \in SUBSET Workers
            BY DEF InDay
      <4> QED BY <4>1, FS_Subset, FS_CardinalityType
    <3>5. ~ (Cardinality(C) >= KeyLimit)
          BY <3>1
    <3> HIDE DEF C
    <3> QED BY <3>3, <3>4, <3>5
  <2> QED BY <2>1, <2>2
<1>3. ASSUME NEW w \in Workers,
             Hourly(w) \/ List(w) \/ Walk(w) \/ WalkFails(w)
             \/ Open(w) \/ Write(w) \/ Rename(w) \/ Raise(w)
      PROVE  Cardinality(RowsInDay(k, t)') + Cardinality(InDay(k, t)') <= n
  <2>1. /\ rows' = rows
        /\ \A v \in Workers \ {w} : pc'[v] = pc[v] /\ upload'[v] = upload[v] /\ now'[v] = now[v]
        /\ \/ pc'[w] \notin DailyPast
           \/ pc[w] \in DailyPast /\ upload'[w] = upload[w] /\ now'[w] = now[w]
        BY <1>3, <1>t DEF Hourly, List, Walk, WalkFails, Open, Write, Rename, Raise, Goto, NextPart,
                          Finish, UploadTypes, DailyPast
  <2>2. InDay(k, t)' \subseteq B
        BY <2>1 DEF InDay
  <2> QED BY <1>0, <2>1, <2>2
<1>4. ASSUME NEW w \in Workers, Insert(w)
      PROVE  Cardinality(RowsInDay(k, t)') + Cardinality(InDay(k, t)') <= n
  <2> DEFINE x == [model |-> upload[w].model, thumb |-> upload[w].thumb,
                   author |-> upload[w].key, created_at |-> now[w]]
  <2>1. /\ pc[w] = "insert" /\ rows' \subseteq rows \cup {x}
        BY <1>4 DEF Insert
  <2>2. InDay(k, t)' \subseteq B \ {w}
        BY <1>4, <1>t DEF Insert, Finish, UploadTypes, InDay, DailyPast
  <2>3. CASE w \in B
    <3>1. RowsInDay(k, t)' \subseteq A \cup {x}
          BY <2>1 DEF RowsInDay, RowsOf, RowsSince
    <3> HIDE DEF A, B, n, x
    <3>2. IsFiniteSet(A) /\ IsFiniteSet(B) /\ n \in Int /\ Cardinality(A) + Cardinality(B) <= n
          BY <1>t
    <3>3. /\ Cardinality(RowsInDay(k, t)') \in Nat
          /\ Cardinality(RowsInDay(k, t)') <= Cardinality(A) + 1
          BY <3>1, <3>2, OneMore
    <3>4. Cardinality(InDay(k, t)') \in Nat /\ Cardinality(InDay(k, t)') <= Cardinality(B) - 1
          BY <2>2, <2>3, <3>2, OneLess
    <3> QED BY <3>2, <3>3, <3>4, FS_CardinalityType
  <2>4. CASE w \notin B
    <3>1. ~ (now[w] > t - Day /\ now[w] <= t /\ upload[w].key = k)
          BY <2>1, <2>4 DEF InDay, DailyPast
    <3>2. x.created_at = now[w] /\ x.author = upload[w].key
          OBVIOUS
    <3> HIDE DEF x
    <3>3. RowsInDay(k, t)' \subseteq A
          BY <2>1, <3>1, <3>2 DEF RowsInDay, RowsOf, RowsSince
    <3> HIDE DEF A, B, n
    <3> QED BY <1>t, <2>2, <3>3, FewerOfBoth
  <2> QED BY <2>3, <2>4
<1>5. ASSUME Crash
      PROVE  Cardinality(RowsInDay(k, t)') + Cardinality(InDay(k, t)') <= n
      BY <1>0, <1>5 DEF Crash, InDay, DailyPast
<1>6. ASSUME Tick \/ UNCHANGED vars
      PROVE  Cardinality(RowsInDay(k, t)') + Cardinality(InDay(k, t)') <= n
      BY <1>0, <1>6 DEF Tick, vars, InDay
<1> QED BY <1>1, <1>2, <1>3, <1>4, <1>5, <1>6 DEF Next, Step

\* However many checks race, one key's rows in any Day exceed its limit by less than
\* the number of threads (quota.py:78-85).
THEOREM DailyQuotaNearlyHeld == Spec => []DailyOvershootBounded
<1>1. Init => RowsFinite /\ DailyInv
  <2> SUFFICES ASSUME Init PROVE RowsFinite /\ DailyInv
      OBVIOUS
  <2>1. RowsFinite
        BY UploadInit, FS_EmptySet DEF Init, RowsFinite, UploadInv
  <2>2. ASSUME NEW k \in Keys, NEW t \in Int
        PROVE  RowsInDay(k, t) = {} /\ InDay(k, t) = {}
        BY DEF Init, RowsInDay, RowsOf, RowsSince, InDay, DailyPast
  <2>3. Cardinality(Workers) \in Nat /\ Cardinality(Workers) # 0 /\ Cardinality({}) = 0
        BY UploadAssumption, FS_CardinalityType, FS_EmptySet
  <2>4. ASSUME NEW k \in Keys, NEW t \in Int
        PROVE  Cardinality(RowsInDay(k, t)) + Cardinality(InDay(k, t))
                   <= KeyLimit - 1 + Cardinality(Workers)
    <3>1. Cardinality(RowsInDay(k, t)) = 0 /\ Cardinality(InDay(k, t)) = 0
          BY <2>2, <2>3
    <3> QED BY <2>3, <3>1, UploadAssumption
  <2> QED BY <2>1, <2>4 DEF DailyInv
<1>2. UploadInv /\ RowsFinite /\ DailyInv => DailyOvershootBounded
  <2> SUFFICES ASSUME UploadInv, RowsFinite, DailyInv, NEW r \in rows
               PROVE  Cardinality(RowsInDay(r.author, r.created_at))
                          <= KeyLimit - 1 + Cardinality(Workers)
      BY DEF DailyOvershootBounded, RowsInDay
  <2>1. r.author \in Keys /\ r.created_at \in Nat
        BY DEF RowsFinite, UploadTypes
  <2> DEFINE A == RowsInDay(r.author, r.created_at)
             B == InDay(r.author, r.created_at)
  <2>2. Cardinality(A) + Cardinality(B) <= KeyLimit - 1 + Cardinality(Workers)
        BY <2>1 DEF DailyInv
  <2>3. Cardinality(A) \in Nat /\ Cardinality(B) \in Nat /\ Cardinality(Workers) \in Nat
    <3>1. A \in SUBSET rows /\ B \in SUBSET Workers
          BY DEF RowsInDay, RowsOf, RowsSince, InDay
    <3> QED BY <3>1, UploadAssumption, FS_Subset, FS_CardinalityType DEF RowsFinite
  <2> HIDE DEF A, B
  <2> QED BY <2>2, <2>3, UploadAssumption DEF A
<1> QED BY UploadInit, UploadStep, RowsFiniteStep, DailyStep, <1>1, <1>2, PTL DEF Spec

HourlyPast == {"disk", "walk"} \cup PutStages \cup {"insert"}

RowsInHour(t) == {s \in RowsSince(t - Hour) : s.created_at <= t}

InHour(t) ==
    {w \in Workers : pc[w] \in HourlyPast /\ now[w] > t - Hour /\ now[w] <= t}

HourlyInv ==
    \A t \in Int :
        Cardinality(RowsInHour(t)) + Cardinality(InHour(t))
            <= HourLimit - 1 + Cardinality(Workers)

\* The same of the hourly limit, across keys.
LEMMA HourlyStep == UploadInv /\ RowsFinite /\ HourlyInv /\ [Next]_vars => HourlyInv'
<1> SUFFICES ASSUME UploadInv, RowsFinite, HourlyInv, [Next]_vars, NEW t \in Int
             PROVE  Cardinality(RowsInHour(t)') + Cardinality(InHour(t)')
                        <= HourLimit - 1 + Cardinality(Workers)
    BY DEF HourlyInv
<1> USE UploadAssumption
<1> DEFINE n == HourLimit - 1 + Cardinality(Workers)
           A == RowsInHour(t)
           B == InHour(t)
<1>t. /\ UploadTypes /\ IsFiniteSet(A) /\ IsFiniteSet(B) /\ n \in Int
      /\ Cardinality(A) + Cardinality(B) <= n
  <2>1. UploadTypes /\ A \in SUBSET rows /\ B \in SUBSET Workers
        BY DEF UploadInv, RowsInHour, RowsSince, InHour
  <2>2. IsFiniteSet(A) /\ IsFiniteSet(B)
        BY <2>1, FS_Subset DEF RowsFinite
  <2> QED BY <2>1, <2>2, FS_CardinalityType DEF HourlyInv
\* What a step does that lets nobody pass and adds no row.
<1>0. ASSUME rows' = rows, InHour(t)' \subseteq B
      PROVE  Cardinality(RowsInHour(t)') + Cardinality(InHour(t)') <= n
  <2>1. RowsInHour(t)' \subseteq A
        BY <1>0 DEF RowsInHour, RowsSince
  <2> HIDE DEF A, B, n
  <2> QED BY <1>0, <1>t, <2>1, FewerOfBoth
<1>1. ASSUME NEW w \in Workers, NEW u \in Uploads, Begin(w, u)
      PROVE  Cardinality(RowsInHour(t)') + Cardinality(InHour(t)') <= n
      BY <1>0, <1>1, <1>t DEF Begin, InHour, HourlyPast, UploadTypes
<1>2. ASSUME NEW w \in Workers, Hourly(w)
      PROVE  Cardinality(RowsInHour(t)') + Cardinality(InHour(t)') <= n
  <2>1. CASE w \notin InHour(t)'
        BY <1>0, <1>2, <1>t, <2>1 DEF Hourly, Goto, Finish, InHour, HourlyPast, UploadTypes
  <2>2. CASE w \in InHour(t)'
    <3>1. /\ now[w] <= t /\ rows' = rows
          /\ ~ (Cardinality(RowsSince(now[w] - Hour)) >= HourLimit)
          BY <1>2, <1>t, <2>2 DEF Hourly, Goto, Finish, InHour, HourlyPast, UploadTypes
    <3> DEFINE C == RowsSince(now[w] - Hour)
    <3>2. C \in SUBSET rows /\ RowsInHour(t)' \in SUBSET C
          BY <1>t, <3>1 DEF RowsInHour, RowsSince, UploadTypes
    <3>3. /\ IsFiniteSet(C) /\ Cardinality(C) \in Nat /\ Cardinality(RowsInHour(t)') \in Nat
          /\ Cardinality(RowsInHour(t)') <= Cardinality(C)
      <4> HIDE DEF C
      <4> QED BY <3>2, FS_Subset, FS_CardinalityType DEF RowsFinite
    <3>4. Cardinality(InHour(t)') <= Cardinality(Workers) /\ Cardinality(InHour(t)') \in Nat
          /\ Cardinality(Workers) \in Nat
      <4>1. InHour(t)' \in SUBSET Workers
            BY DEF InHour
      <4> QED BY <4>1, FS_Subset, FS_CardinalityType
    <3>5. ~ (Cardinality(C) >= HourLimit)
          BY <3>1
    <3> HIDE DEF C
    <3> QED BY <3>3, <3>4, <3>5
  <2> QED BY <2>1, <2>2
<1>3. ASSUME NEW w \in Workers,
             Daily(w) \/ List(w) \/ Walk(w) \/ WalkFails(w)
             \/ Open(w) \/ Write(w) \/ Rename(w) \/ Raise(w)
      PROVE  Cardinality(RowsInHour(t)') + Cardinality(InHour(t)') <= n
  <2>1. /\ rows' = rows
        /\ \A v \in Workers \ {w} : pc'[v] = pc[v] /\ upload'[v] = upload[v] /\ now'[v] = now[v]
        /\ \/ pc'[w] \notin HourlyPast
           \/ pc[w] \in HourlyPast /\ upload'[w] = upload[w] /\ now'[w] = now[w]
        BY <1>3, <1>t DEF Daily, List, Walk, WalkFails, Open, Write, Rename, Raise, Goto, NextPart,
                          Finish, UploadTypes, HourlyPast
  <2>2. InHour(t)' \subseteq B
        BY <2>1 DEF InHour
  <2> QED BY <1>0, <2>1, <2>2
<1>4. ASSUME NEW w \in Workers, Insert(w)
      PROVE  Cardinality(RowsInHour(t)') + Cardinality(InHour(t)') <= n
  <2> DEFINE x == [model |-> upload[w].model, thumb |-> upload[w].thumb,
                   author |-> upload[w].key, created_at |-> now[w]]
  <2>1. /\ pc[w] = "insert" /\ rows' \subseteq rows \cup {x}
        BY <1>4 DEF Insert
  <2>2. InHour(t)' \subseteq B \ {w}
        BY <1>4, <1>t DEF Insert, Finish, UploadTypes, InHour, HourlyPast
  <2>3. CASE w \in B
    <3>1. RowsInHour(t)' \subseteq A \cup {x}
          BY <2>1 DEF RowsInHour, RowsSince
    <3> HIDE DEF A, B, n, x
    <3>2. IsFiniteSet(A) /\ IsFiniteSet(B) /\ n \in Int /\ Cardinality(A) + Cardinality(B) <= n
          BY <1>t
    <3>3. Cardinality(RowsInHour(t)') \in Nat /\ Cardinality(RowsInHour(t)') <= Cardinality(A) + 1
          BY <3>1, <3>2, OneMore
    <3>4. Cardinality(InHour(t)') \in Nat /\ Cardinality(InHour(t)') <= Cardinality(B) - 1
          BY <2>2, <2>3, <3>2, OneLess
    <3> QED BY <3>2, <3>3, <3>4, FS_CardinalityType
  <2>4. CASE w \notin B
    <3>1. ~ (now[w] > t - Hour /\ now[w] <= t)
          BY <2>1, <2>4 DEF InHour, HourlyPast
    <3>2. x.created_at = now[w] /\ x.author = upload[w].key
          OBVIOUS
    <3> HIDE DEF x
    <3>3. RowsInHour(t)' \subseteq A
          BY <2>1, <3>1, <3>2 DEF RowsInHour, RowsSince
    <3> HIDE DEF A, B, n
    <3> QED BY <1>t, <2>2, <3>3, FewerOfBoth
  <2> QED BY <2>3, <2>4
<1>5. ASSUME Crash
      PROVE  Cardinality(RowsInHour(t)') + Cardinality(InHour(t)') <= n
      BY <1>0, <1>5 DEF Crash, InHour, HourlyPast
<1>6. ASSUME Tick \/ UNCHANGED vars
      PROVE  Cardinality(RowsInHour(t)') + Cardinality(InHour(t)') <= n
      BY <1>0, <1>6 DEF Tick, vars, InHour
<1> QED BY <1>1, <1>2, <1>3, <1>4, <1>5, <1>6 DEF Next, Step

\* ... and so do everybody's rows in any Hour the global limit (quota.py:87-94).
THEOREM HourlyLimitNearlyHeld == Spec => []HourlyOvershootBounded
<1>1. Init => RowsFinite /\ HourlyInv
  <2> SUFFICES ASSUME Init PROVE RowsFinite /\ HourlyInv
      OBVIOUS
  <2>1. RowsFinite
        BY UploadInit, FS_EmptySet DEF Init, RowsFinite, UploadInv
  <2>2. ASSUME NEW t \in Int
        PROVE  RowsInHour(t) = {} /\ InHour(t) = {}
        BY DEF Init, RowsInHour, RowsSince, InHour, HourlyPast
  <2>3. Cardinality(Workers) \in Nat /\ Cardinality(Workers) # 0 /\ Cardinality({}) = 0
        BY UploadAssumption, FS_CardinalityType, FS_EmptySet
  <2>4. ASSUME NEW t \in Int
        PROVE  Cardinality(RowsInHour(t)) + Cardinality(InHour(t))
                   <= HourLimit - 1 + Cardinality(Workers)
    <3>1. Cardinality(RowsInHour(t)) = 0 /\ Cardinality(InHour(t)) = 0
          BY <2>2, <2>3
    <3> QED BY <2>3, <3>1, UploadAssumption
  <2> QED BY <2>1, <2>4 DEF HourlyInv
<1>2. UploadInv /\ RowsFinite /\ HourlyInv => HourlyOvershootBounded
  <2> SUFFICES ASSUME UploadInv, RowsFinite, HourlyInv, NEW r \in rows
               PROVE  Cardinality(RowsInHour(r.created_at)) <= HourLimit - 1 + Cardinality(Workers)
      BY DEF HourlyOvershootBounded, RowsInHour
  <2>1. r.author \in Keys /\ r.created_at \in Nat
        BY DEF RowsFinite, UploadTypes
  <2> DEFINE A == RowsInHour(r.created_at)
             B == InHour(r.created_at)
  <2>2. Cardinality(A) + Cardinality(B) <= HourLimit - 1 + Cardinality(Workers)
        BY <2>1 DEF HourlyInv
  <2>3. Cardinality(A) \in Nat /\ Cardinality(B) \in Nat /\ Cardinality(Workers) \in Nat
    <3>1. A \in SUBSET rows /\ B \in SUBSET Workers
          BY DEF RowsInHour, RowsSince, InHour
    <3> QED BY <3>1, UploadAssumption, FS_Subset, FS_CardinalityType DEF RowsFinite
  <2> HIDE DEF A, B
  <2> QED BY <2>2, <2>3, UploadAssumption DEF A
<1> QED BY UploadInit, UploadStep, RowsFiniteStep, HourlyStep, <1>1, <1>2, PTL DEF Spec

-----------------------------------------------------------------------------
(***************************************************************************)
(* How far the blob store outgrows its ceiling.                            *)
(*                                                                         *)
(* What counts is what is on disk and what the workers past their walk     *)
(* still owe it (Committed).  A walk in progress misses what was owed when *)
(* it listed the names, and nothing else: one upload for each thread that  *)
(* was not itself walking.  So the walk that lists last bounds the total,  *)
(* and each walk that had listed before it may add one upload to that.     *)
(* The order of the listings is over by then, and no variable keeps it:    *)
(* the invariant says that there is one.                                   *)
(***************************************************************************)
HIDE DEF Stages, Checks, PutStages, Parts

Walking == {w \in Workers : pc[w] = "walk"}

\* Bytes of w's upload that are not under their digest yet.
Owed == [w \in Workers |->
            IF pc[w] \in PutStages
               THEN Size[Blob(w)] + (IF part[w] = "model" THEN Size[upload[w].thumb] ELSE 0)
               ELSE 0]
Pending == SumFunctionOnSet(Owed, Workers)
Committed == SumFunctionOnSet(Size, BlobFiles) + litter + Pending

\* What w's walk need not see.
Missed == [w \in Workers |-> SumFunctionOnSet(Size, BlobFiles \ listed[w]) + Pending]

\* One upload for each thread but one and n more.
Share(n) == (Cardinality(Workers) - 1 - n) * MaxRequest

\* The walks in W are in an order: B[w] listed before w did; those in E listed
\* before a walk that has passed since.
Fits(W, E, B, committed, missed) ==
    /\ E \subseteq W /\ B \in [Workers -> SUBSET W]
    /\ committed <= MaxDisk + Share(Cardinality(E))
    /\ \A w \in W \ E : /\ E \subseteq B[w] /\ w \notin B[w]
                        /\ missed[w] <= Share(Cardinality(B[w]))
    /\ \A w, x \in W \ E : x # w /\ x \notin B[w] => B[w] \cup {w} \subseteq B[x]

DiskInv == \E E, B : Fits(Walking, E, B, Committed, Missed)

-----------------------------------------------------------------------------
(* How the order changes.                                                  *)

\* One thread fewer ahead is one request more to share.
LEMMA ShareOne ==
    ASSUME NEW n \in Int
    PROVE  Share(n) \in Int /\ Share(n - 1) = Share(n) + MaxRequest
<1> DEFINE c == Cardinality(Workers) - 1 - n
<1>1. c \in Int /\ MaxRequest \in Int /\ Cardinality(Workers) - 1 - (n - 1) = c + 1
      BY UploadAssumption, FS_CardinalityType
<1> HIDE DEF c
<1>2. (c + 1) * MaxRequest = c * MaxRequest + MaxRequest /\ c * MaxRequest \in Int
      BY <1>1
<1>3. Share(n) = c * MaxRequest
      BY DEF Share, c
<1>4. Share(n - 1) = (c + 1) * MaxRequest
      BY <1>1 DEF Share
<1> QED BY <1>2, <1>3, <1>4

\* The more threads are counted ahead, the less is left.
LEMMA ShareFalls ==
    ASSUME NEW m \in Int, NEW n \in Int, m <= n
    PROVE  Share(n) <= Share(m)
<1> DEFINE c == Cardinality(Workers) - 1 - n
           d == n - m
<1>1. c \in Int /\ d \in Nat /\ MaxRequest \in Nat /\ Cardinality(Workers) - 1 - m = c + d
      BY UploadAssumption, FS_CardinalityType
<1>2. Share(n) = c * MaxRequest /\ Share(m) = (c + d) * MaxRequest
      BY <1>1 DEF Share
<1> HIDE DEF c, d
<1>3. (c + d) * MaxRequest = c * MaxRequest + d * MaxRequest
      BY <1>1
<1>4. c * MaxRequest \in Int /\ d * MaxRequest \in Nat
      BY <1>1
<1> QED BY <1>2, <1>3, <1>4

Numbers(W, committed, missed) ==
    W \subseteq Workers /\ committed \in Int /\ \A w \in W : missed[w] \in Int

\* Any workers are finitely many.
LEMMA FiniteWorkers ==
    ASSUME NEW S, S \subseteq Workers
    PROVE  IsFiniteSet(S) /\ Cardinality(S) \in Nat
BY UploadAssumption, FS_Subset, FS_CardinalityType

\* Nobody lists or passes, and no more is committed or missed.
LEMMA FitsStay ==
    ASSUME NEW W, NEW E, NEW B, NEW c, NEW m, Fits(W, E, B, c, m), Numbers(W, c, m),
           NEW c1, NEW m1, Numbers(W, c1, m1), c1 <= c, \A w \in W : m1[w] <= m[w]
    PROVE  Fits(W, E, B, c1, m1)
<1>1. Cardinality(E) \in Int /\ \A w \in W \ E : Cardinality(B[w]) \in Int
  <2>1. E \subseteq Workers /\ \A w \in W \ E : B[w] \subseteq Workers
        BY DEF Fits, Numbers
  <2> QED BY <2>1, FiniteWorkers
<1>2. Share(Cardinality(E)) \in Int /\ \A w \in W \ E : Share(Cardinality(B[w])) \in Int
      BY <1>1, ShareOne
<1>3. c1 <= MaxDisk + Share(Cardinality(E))
      BY <1>2, UploadAssumption DEF Fits, Numbers
<1>4. \A w \in W \ E : m1[w] <= Share(Cardinality(B[w]))
      BY <1>2 DEF Fits, Numbers
<1> QED BY <1>3, <1>4 DEF Fits

\* A walk begins: all others that are under way listed before it.
LEMMA FitsList ==
    ASSUME NEW W, NEW E, NEW B, NEW c, NEW m, Fits(W, E, B, c, m), W \subseteq Workers,
           NEW w \in Workers \ W, NEW m1, \A x \in W : m1[x] = m[x],
           m1[w] <= Share(Cardinality(W))
    PROVE  Fits(W \cup {w}, E, [B EXCEPT ![w] = W], c, m1)
<1> DEFINE W1 == W \cup {w}
           B1 == [B EXCEPT ![w] = W]
<1>1. B1 \in [Workers -> SUBSET W1] /\ B1[w] = W /\ \A x \in W : B1[x] = B[x]
      BY DEF Fits
<1>2. w \notin E /\ E \subseteq W
      BY DEF Fits
<1> HIDE DEF B1
<1>3. ASSUME NEW x \in W1 \ E
      PROVE  E \subseteq B1[x] /\ x \notin B1[x] /\ m1[x] <= Share(Cardinality(B1[x]))
      BY <1>1, <1>2 DEF Fits
<1>4. ASSUME NEW x \in W1 \ E, NEW y \in W1 \ E, y # x, y \notin B1[x]
      PROVE  B1[x] \cup {x} \subseteq B1[y]
      BY <1>1, <1>2, <1>4 DEF Fits
<1> QED BY <1>1, <1>2, <1>3, <1>4 DEF Fits, B1

\* A walk ends in a refusal or an error.
LEMMA FitsLeave ==
    ASSUME NEW W, NEW E, NEW B, NEW c, NEW m, Fits(W, E, B, c, m), Numbers(W, c, m),
           NEW w \in W
    PROVE  \E E1, B1 : Fits(W \ {w}, E1, B1, c, m)
<1> DEFINE E1 == E \ {w}
           B1 == [x \in Workers |-> B[x] \ {w}]
<1>0. W \subseteq Workers /\ E \subseteq W /\ \A x \in Workers : B[x] \subseteq W
      BY DEF Fits, Numbers
<1>1. ASSUME NEW S, S \subseteq W PROVE Share(Cardinality(S)) <= Share(Cardinality(S \ {w}))
  <2>1. S \subseteq Workers /\ S \ {w} \in SUBSET S
        BY <1>0, <1>1
  <2>2. Cardinality(S \ {w}) \in Int /\ Cardinality(S) \in Int
        /\ Cardinality(S \ {w}) <= Cardinality(S)
        BY <2>1, FiniteWorkers, FS_Subset
  <2> QED BY <2>2, ShareFalls
<1>2. \A S \in SUBSET W : Share(Cardinality(S)) \in Int /\ Share(Cardinality(S \ {w})) \in Int
  <2>1. \A S \in SUBSET W : Cardinality(S) \in Int /\ Cardinality(S \ {w}) \in Int
        BY <1>0, FiniteWorkers
  <2> QED BY <2>1, ShareOne
<1>3. c <= MaxDisk + Share(Cardinality(E1))
      BY <1>0, <1>1, <1>2, UploadAssumption DEF Fits, Numbers
<1>4. ASSUME NEW x \in (W \ {w}) \ E1
      PROVE  E1 \subseteq B1[x] /\ x \notin B1[x] /\ m[x] <= Share(Cardinality(B1[x]))
  <2>1. x \in W \ E /\ B[x] \subseteq W /\ B1[x] = B[x] \ {w} /\ m[x] \in Int
        BY <1>0, <1>4 DEF Numbers
  <2>2. m[x] <= Share(Cardinality(B[x])) /\ E \subseteq B[x] /\ x \notin B[x]
        BY <2>1 DEF Fits
  <2>3. /\ Share(Cardinality(B[x])) \in Int /\ Share(Cardinality(B[x] \ {w})) \in Int
        /\ Share(Cardinality(B[x])) <= Share(Cardinality(B[x] \ {w}))
        BY <1>1, <1>2, <2>1
  <2> HIDE DEF B1
  <2> QED BY <2>1, <2>2, <2>3
<1>5. ASSUME NEW x \in (W \ {w}) \ E1, NEW y \in (W \ {w}) \ E1, y # x, y \notin B1[x]
      PROVE  B1[x] \cup {x} \subseteq B1[y]
      BY <1>0, <1>5 DEF Fits
<1>6. E1 \subseteq W \ {w} /\ B1 \in [Workers -> SUBSET (W \ {w})]
      BY <1>0
<1>7. Fits(W \ {w}, E1, B1, c, m)
  <2> HIDE DEF E1, B1
  <2> QED BY <1>3, <1>4, <1>5, <1>6 DEF Fits
<1> QED BY <1>7

\* A walk ends below the ceiling: what its worker owes is committed.  The walks
\* that listed before it may still pass; those that listed after it saw none of
\* its upload, and one walk fewer is ahead of them.
LEMMA FitsPass ==
    ASSUME NEW W, NEW E, NEW B, NEW c, NEW m, Fits(W, E, B, c, m), Numbers(W, c, m),
           NEW w \in W, NEW inc \in Nat, inc <= MaxRequest,
           NEW c1, NEW m1, c1 = c + inc, \A x \in W \ {w} : m1[x] = m[x] + inc,
           c1 <= MaxDisk + m[w]
    PROVE  \E E1, B1 : Fits(W \ {w}, E1, B1, c1, m1)
<1> DEFINE E1 == IF w \in E THEN E \ {w} ELSE B[w]
           B1 == [x \in Workers |-> B[x] \ {w}]
<1>0. /\ W \subseteq Workers /\ E \subseteq W /\ \A x \in Workers : B[x] \subseteq W
      /\ c \in Int /\ MaxDisk \in Int /\ MaxRequest \in Int /\ \A x \in W : m[x] \in Int
      BY UploadAssumption DEF Fits, Numbers
<1>1. ASSUME NEW S \in SUBSET W, w \in S
      PROVE  /\ Share(Cardinality(S \ {w})) = Share(Cardinality(S)) + MaxRequest
             /\ Share(Cardinality(S)) \in Int
  <2>1. IsFiniteSet(S) /\ Cardinality(S) \in Int
        BY <1>0, FiniteWorkers
  <2>2. Cardinality(S \ {w}) = Cardinality(S) - 1
        BY <1>1, <2>1, FS_RemoveElement
  <2> QED BY <2>1, <2>2, ShareOne
<1>2. ASSUME NEW x \in (W \ {w}) \ E1
      PROVE  x \in W \ E /\ w \in B[x] /\ E1 \subseteq B[x] \ {w}
  <2>1. CASE w \in E
        BY <1>0, <1>2, <2>1 DEF Fits
  <2>2. CASE w \notin E
        BY <1>0, <1>2, <2>2 DEF Fits
  <2> QED BY <2>1, <2>2
<1>3. c1 <= MaxDisk + Share(Cardinality(E1))
  <2>1. CASE w \in E
    <3>1. Share(Cardinality(E1)) = Share(Cardinality(E)) + MaxRequest
          /\ Share(Cardinality(E)) \in Int
          BY <1>0, <1>1, <2>1
    <3>2. c <= MaxDisk + Share(Cardinality(E))
          BY DEF Fits
    <3> HIDE DEF E1
    <3> QED BY <1>0, <3>1, <3>2
  <2>2. CASE w \notin E
    <3>1. m[w] <= Share(Cardinality(B[w])) /\ E1 = B[w]
          BY <2>2 DEF Fits
    <3>2. Cardinality(B[w]) \in Int
          BY <1>0, FiniteWorkers
    <3>3. Share(Cardinality(B[w])) \in Int
          BY <3>2, ShareOne
    <3> HIDE DEF E1
    <3> QED BY <1>0, <3>1, <3>3
  <2> QED BY <2>1, <2>2
<1>4. ASSUME NEW x \in (W \ {w}) \ E1
      PROVE  E1 \subseteq B1[x] /\ x \notin B1[x] /\ m1[x] <= Share(Cardinality(B1[x]))
  <2>1. x \in W \ E /\ w \in B[x] /\ E1 \subseteq B[x] \ {w} /\ B1[x] = B[x] \ {w}
        BY <1>0, <1>2, <1>4
  <2>2. m[x] <= Share(Cardinality(B[x])) /\ x \notin B[x]
        BY <2>1 DEF Fits
  <2>3. /\ Share(Cardinality(B[x] \ {w})) = Share(Cardinality(B[x])) + MaxRequest
        /\ Share(Cardinality(B[x])) \in Int
        BY <1>0, <1>1, <2>1
  <2>4. m1[x] = m[x] + inc /\ m[x] \in Int
        BY <1>0, <2>1, <2>2
  <2> HIDE DEF B1, E1
  <2> QED BY <1>0, <2>1, <2>2, <2>3, <2>4
<1>5. ASSUME NEW x \in (W \ {w}) \ E1, NEW y \in (W \ {w}) \ E1, y # x, y \notin B1[x]
      PROVE  B1[x] \cup {x} \subseteq B1[y]
  <2>1. x \in W \ E /\ y \in W \ E /\ y \notin B[x]
        BY <1>0, <1>2, <1>5
  <2>2. B[x] \cup {x} \subseteq B[y]
        BY <1>5, <2>1 DEF Fits
  <2> QED BY <1>0, <2>1, <2>2
<1>6. E1 \subseteq W \ {w} /\ B1 \in [Workers -> SUBSET (W \ {w})]
  <2>1. w \notin E => w \notin B[w]
        BY DEF Fits
  <2> QED BY <1>0, <2>1
<1>7. Fits(W \ {w}, E1, B1, c1, m1)
  <2> HIDE DEF E1, B1
  <2> QED BY <1>3, <1>4, <1>5, <1>6 DEF Fits
<1> QED BY <1>7

-----------------------------------------------------------------------------
(* What the counting needs of the state.                                   *)

DiskBase ==
    /\ litter \in Nat /\ troubles \in Nat
    /\ IsFiniteSet(BlobFiles)
    /\ listed \in [Workers -> SUBSET (Blobs \cup Workers)]
    /\ \A w \in Workers :
          /\ (pc[w] = "idle") <=> (upload[w] = NoUpload)
          /\ pc[w] # "idle" => Incoming(upload[w]) <= MaxRequest
          /\ temp[w] # "none" => pc[w] \in {"write", "rename"}
          /\ temp[w] = "whole" => pc[w] = "rename"

USE DEF Stages, Checks, PutStages, Parts

\* The bytes of an upload, and of the file being put.
LEMMA UploadSizes ==
    ASSUME UploadTypes, NEW w \in Workers, pc[w] # "idle"
    PROVE  /\ upload[w] \in Uploads /\ upload[w].model \in Blobs /\ upload[w].thumb \in Blobs
           /\ Blob(w) \in Blobs
           /\ part[w] = "model" \/ part[w] = "thumb"
           /\ part[w] = "thumb" => Blob(w) = upload[w].thumb
           /\ part[w] = "model" => Blob(w) = upload[w].model
           /\ Size[upload[w].model] \in Nat /\ Size[upload[w].thumb] \in Nat
<1>1. upload[w] \in Uploads /\ part[w] \in {"model", "thumb"}
      BY DEF UploadTypes
<1>2. upload[w].model \in Blobs /\ upload[w].thumb \in Blobs
      BY <1>1, UploadAssumption
<1> QED BY <1>1, <1>2, UploadAssumption DEF Blob

\* Every file has a size, a temporary one too.
LEMMA TempBytes ==
    ASSUME UploadTypes, DiskBase, NEW f \in Blobs \cup Workers
    PROVE  FileSize[f] \in Nat
<1>1. CASE f \in Blobs
      BY <1>1, UploadAssumption DEF FileSize
<1>2. CASE f \in Workers /\ f \notin Blobs
  <2>1. temp[f] = "whole" => Size[Blob(f)] \in Nat
        BY <1>2, UploadSizes, UploadAssumption DEF DiskBase
  <2> QED BY <1>2, <2>1 DEF FileSize
<1> QED BY <1>1, <1>2

\* Every step keeps what the counting needs.
LEMMA DiskBaseStep == UploadInv /\ DiskBase /\ [Next]_vars => DiskBase'
<1> SUFFICES ASSUME UploadInv, DiskBase, [Next]_vars PROVE DiskBase'
    OBVIOUS
<1> USE UploadAssumption DEF disk
<1>t. UploadTypes /\ \A w \in Workers : pc[w] = "rename" => temp[w] = "whole"
      BY DEF UploadInv, WrittenBeforeRename
<1>b. TempFiles \subseteq Workers /\ IsFiniteSet(TempFiles)
      BY FS_Subset DEF TempFiles
<1>s. FileBytes(TempFiles) \in Nat
  <2>1. NatOn(FileSize, TempFiles)
        BY <1>t, <1>b, TempBytes DEF NatOn
  <2> QED BY <1>b, <2>1, SumType DEF FileBytes
<1>f. BlobFiles' = BlobFiles \/ (\E b : BlobFiles' = BlobFiles \cup {b}) => IsFiniteSet(BlobFiles')
      BY FS_AddElement DEF DiskBase
<1>1. ASSUME NEW w \in Workers, NEW u \in Uploads, Begin(w, u) PROVE DiskBase'
      BY <1>t, <1>1, <1>f DEF Begin, UploadTypes, DiskBase, BlobFiles, Incoming
<1>2. ASSUME NEW w \in Workers, Daily(w) \/ Hourly(w) \/ List(w) \/ Walk(w) \/ WalkFails(w)
      PROVE  DiskBase'
  <2>1. /\ pc' = [pc EXCEPT ![w] = pc'[w]] /\ pc[w] \in Checks
        /\ \/ pc'[w] = "idle" /\ Finish(w)
           \/ pc'[w] \in {"hourly", "disk", "walk", "exists"} /\ UNCHANGED <<upload, part>>
        /\ UNCHANGED <<rows, disk, troubles>>
        /\ listed' = [listed EXCEPT ![w] = listed'[w]]
        /\ listed'[w] \in SUBSET (Blobs \cup Workers)
        BY <1>2, <1>t DEF Daily, Hourly, List, Walk, WalkFails, Goto, Finish, UploadTypes,
                          DiskBase, BlobFiles, TempFiles
  <2> QED BY <1>t, <2>1, <1>f DEF UploadTypes, BlobFiles, Finish, DiskBase, Incoming
<1>3. ASSUME NEW w \in Workers, Open(w) PROVE DiskBase'
      BY <1>t, <1>3, <1>f DEF Open, NextPart, Goto, UploadTypes, DiskBase, BlobFiles, Incoming
<1>4. ASSUME NEW w \in Workers, Write(w) PROVE DiskBase'
      BY <1>t, <1>4, <1>f DEF Write, Goto, UploadTypes, DiskBase, BlobFiles, Incoming
<1>5. ASSUME NEW w \in Workers, Rename(w) PROVE DiskBase'
  <2>1. BlobFiles' = BlobFiles \/ BlobFiles' = BlobFiles \cup {Blob(w)}
        BY <1>t, <1>5 DEF Rename, UploadTypes, BlobFiles
  <2>2. IsFiniteSet(BlobFiles')
        BY <1>f, <2>1
  <2>3. /\ pc' = [pc EXCEPT ![w] = pc'[w]] /\ pc[w] = "rename" /\ pc'[w] \in {"exists", "insert"}
        /\ temp' = [temp EXCEPT ![w] = "none"] /\ UNCHANGED <<upload, litter, listed, troubles>>
        BY <1>t, <1>5 DEF Rename, NextPart, Goto, UploadTypes
  <2> QED BY <1>t, <2>2, <2>3 DEF UploadTypes, DiskBase, Incoming
<1>6. ASSUME NEW w \in Workers, Insert(w) PROVE DiskBase'
      BY <1>t, <1>6, <1>f DEF Insert, Finish, UploadTypes, DiskBase, BlobFiles, Incoming
<1>7. ASSUME NEW w \in Workers, Raise(w) PROVE DiskBase'
      BY <1>t, <1>7, <1>f DEF Raise, Finish, UploadTypes, DiskBase, BlobFiles, Incoming
<1>8. ASSUME Crash PROVE DiskBase'
      BY <1>t, <1>8, <1>s, <1>f DEF Crash, UploadTypes, DiskBase, BlobFiles
<1>9. CASE Tick \/ UNCHANGED vars
      BY <1>9, <1>f DEF Tick, vars, DiskBase, BlobFiles, Incoming
<1> QED BY <1>1, <1>2, <1>3, <1>4, <1>5, <1>6, <1>7, <1>8, <1>9 DEF Next, Step

\* It holds when the server starts.
LEMMA DiskBaseInit == Init => DiskBase
<1>1. Init => BlobFiles = {}
      BY DEF Init, BlobFiles
<1>2. Init => IsFiniteSet(BlobFiles)
      BY <1>1, FS_EmptySet
<1> QED BY <1>2 DEF Init, DiskBase

\* Every variable keeps to its range, and a worker has an upload exactly while
\* it serves one (handlers_content.py:23-65).
THEOREM UploadTypeCorrect == Spec => []TypeOK
<1>1. UploadInv /\ DiskBase => TypeOK
      BY DEF UploadInv, UploadTypes, DiskBase, TypeOK
<1> QED BY UploadInit, UploadStep, DiskBaseInit, DiskBaseStep, <1>1, PTL DEF Spec

-----------------------------------------------------------------------------
(* The amounts, and how a step changes them.                               *)

\* A worker owes the disk one request at most, and only while it puts.
LEMMA OwedBytes ==
    ASSUME UploadTypes, DiskBase, NEW w \in Workers
    PROVE  /\ Owed[w] \in Nat /\ Owed[w] <= MaxRequest
           /\ pc[w] \notin PutStages => Owed[w] = 0
           /\ pc[w] \in PutStages /\ part[w] = "model" => Owed[w] = Incoming(upload[w])
<1>1. CASE pc[w] \notin PutStages
      BY <1>1, UploadAssumption DEF Owed
<1>2. CASE pc[w] \in PutStages
  <2>1. Incoming(upload[w]) <= MaxRequest /\ pc[w] # "idle"
        BY <1>2 DEF DiskBase
  <2>2. CASE part[w] = "model"
        BY <1>2, <2>1, <2>2, UploadSizes, UploadAssumption DEF Owed, Incoming
  <2>3. CASE part[w] = "thumb"
        BY <1>2, <2>1, <2>3, UploadSizes, UploadAssumption DEF Owed, Incoming
  <2> QED BY <2>1, <2>2, <2>3, UploadSizes
<1> QED BY <1>1, <1>2

\* What all workers owe is a number.
LEMMA PendingNat == UploadTypes /\ DiskBase => NatOn(Owed, Workers) /\ Pending \in Nat
<1> SUFFICES ASSUME UploadTypes, DiskBase PROVE NatOn(Owed, Workers) /\ Pending \in Nat
    OBVIOUS
<1>1. NatOn(Owed, Workers)
      BY OwedBytes DEF NatOn
<1> QED BY <1>1, SumType, UploadAssumption DEF Pending

\* The blobs that are not in L.
LEMMA BlobBytes ==
    ASSUME DiskBase, NEW L
    PROVE  /\ IsFiniteSet(BlobFiles \ L) /\ NatOn(Size, BlobFiles \ L)
           /\ SumFunctionOnSet(Size, BlobFiles \ L) \in Nat
<1>1. IsFiniteSet(BlobFiles \ L)
      BY FS_Subset DEF DiskBase
<1>2. NatOn(Size, BlobFiles \ L)
      BY UploadAssumption DEF NatOn, BlobFiles
<1> QED BY <1>1, <1>2, SumType

Unseen(L) == SumFunctionOnSet(Size, BlobFiles \ L) + Pending

Amounts ==
    /\ \A L : Unseen(L) \in Nat
    /\ Committed = Unseen({}) + litter /\ Committed \in Nat
    /\ \A w \in Workers : Missed[w] = Unseen(listed[w]) /\ Missed[w] \in Nat
    /\ Numbers(Walking, Committed, Missed)

\* The amounts of a state are numbers, a walk's apart.
LEMMA AmountsHold == UploadTypes /\ DiskBase => Amounts
<1> SUFFICES ASSUME UploadTypes, DiskBase PROVE Amounts
    OBVIOUS
<1>1. /\ SumFunctionOnSet(Size, BlobFiles \ {}) \in Nat /\ BlobFiles \ {} = BlobFiles
      /\ Pending \in Nat /\ litter \in Nat
      BY BlobBytes, PendingNat DEF DiskBase
<1>0. ASSUME NEW L PROVE Unseen(L) \in Nat
  <2>1. SumFunctionOnSet(Size, BlobFiles \ L) \in Nat
        BY BlobBytes
  <2> QED BY <1>1, <2>1 DEF Unseen
<1>2. Committed = Unseen({}) + litter /\ Committed \in Nat
      BY <1>1 DEF Unseen, Committed
<1>3. ASSUME NEW w \in Workers PROVE Missed[w] = Unseen(listed[w]) /\ Missed[w] \in Nat
  <2>1. SumFunctionOnSet(Size, BlobFiles \ listed[w]) \in Nat
        BY BlobBytes
  <2> QED BY <1>1, <2>1 DEF Unseen, Missed
<1> QED BY <1>0, <1>2, <1>3 DEF Amounts, Numbers, Walking

\* One worker's debt changes, no file comes or goes.
LEMMA DebtChanges ==
    ASSUME UploadTypes, DiskBase, UploadTypes', DiskBase', NEW w \in Workers,
           \A v \in Workers \ {w} : pc'[v] = pc[v] /\ upload'[v] = upload[v] /\ part'[v] = part[v]
    PROVE  Pending' - Owed'[w] = Pending - Owed[w]
<1>1. NatOn(Owed, Workers) /\ NatOn(Owed', Workers)
  <2>1. NatOn(Owed, Workers)
        BY PendingNat
  <2>2. (UploadTypes /\ DiskBase => NatOn(Owed, Workers) /\ Pending \in Nat)'
        BY PendingNat, PTL
  <2> QED BY <2>1, <2>2 DEF NatOn
<1>2. \A v \in Workers \ {w} : Owed'[v] = Owed[v]
      BY DEF Owed, Blob
<1>3. Pending = SumFunctionOnSet(Owed, Workers) /\ Pending' = SumFunctionOnSet(Owed', Workers)
      BY DEF Pending
<1> DEFINE f == Owed
           g == Owed'
<1>4. NatOn(f, Workers) /\ NatOn(g, Workers) /\ \A v \in Workers \ {w} : g[v] = f[v]
      BY <1>1, <1>2
<1>5. Pending = SumFunctionOnSet(f, Workers) /\ Pending' = SumFunctionOnSet(g, Workers)
      BY <1>3
<1>6. IsFiniteSet(Workers)
      BY UploadAssumption
<1> HIDE DEF f, g
<1>7. SumFunctionOnSet(g, Workers) - g[w] = SumFunctionOnSet(f, Workers) - f[w]
      BY <1>4, <1>6, SumChange
<1> QED BY <1>5, <1>7 DEF f, g

\* A worker that puts a blob owes that much less.
LEMMA UnseenFalls ==
    ASSUME UploadTypes, DiskBase, UploadTypes', DiskBase', NEW w \in Workers,
           \A v \in Workers \ {w} : pc'[v] = pc[v] /\ upload'[v] = upload[v] /\ part'[v] = part[v],
           \/ BlobFiles' = BlobFiles /\ Owed'[w] <= Owed[w]
           \/ \E b \in Blobs \ BlobFiles :
                 BlobFiles' = BlobFiles \cup {b} /\ Owed'[w] + Size[b] <= Owed[w],
           NEW L
    PROVE  Unseen(L)' <= Unseen(L)
<1>1. Pending' - Owed'[w] = Pending - Owed[w]
      BY DebtChanges
<1>2. Owed[w] \in Nat /\ Pending \in Nat /\ Owed'[w] \in Nat /\ Pending' \in Nat
  <2>1. Owed[w] \in Nat /\ Pending \in Nat
        BY PendingNat DEF NatOn
  <2>2. (UploadTypes /\ DiskBase => NatOn(Owed, Workers) /\ Pending \in Nat)'
        BY PendingNat, PTL
  <2> QED BY <2>1, <2>2 DEF NatOn
<1>3. PICK o, p, o1, p1 : o = Owed[w] /\ p = Pending /\ o1 = Owed'[w] /\ p1 = Pending'
      OBVIOUS
<1>n. p1 - o1 = p - o /\ o \in Nat /\ p \in Nat /\ o1 \in Nat /\ p1 \in Nat
      BY <1>1, <1>2, <1>3
<1>4. PICK T, T1 : T = BlobFiles \ L /\ T1 = BlobFiles' \ L
      OBVIOUS
<1>5. IsFiniteSet(T) /\ NatOn(Size, T) /\ SumFunctionOnSet(Size, T) \in Nat
      BY <1>4, BlobBytes
<1>6. PICK s, s1 : s = SumFunctionOnSet(Size, T) /\ s1 = SumFunctionOnSet(Size, T1)
      OBVIOUS
<1>7. s1 + p1 <= s + p
  <2>1. CASE BlobFiles' = BlobFiles /\ Owed'[w] <= Owed[w]
    <3>1. s1 = s /\ s \in Nat /\ o1 <= o
          BY <1>3, <1>4, <1>5, <1>6, <2>1
    <3> QED BY <1>n, <3>1
  <2>2. CASE \E b \in Blobs \ BlobFiles :
                BlobFiles' = BlobFiles \cup {b} /\ Owed'[w] + Size[b] <= Owed[w]
    <3>1. PICK b \in Blobs \ BlobFiles :
                  BlobFiles' = BlobFiles \cup {b} /\ Owed'[w] + Size[b] <= Owed[w]
          BY <2>2
    <3>2. Size[b] \in Nat /\ o1 + Size[b] <= o
          BY <1>3, <3>1, UploadAssumption
    <3>3. s1 = s \/ s1 = Size[b] + s
      <4>1. CASE b \in L
        <5>1. T1 = T
              BY <1>4, <3>1, <4>1
        <5> QED BY <1>6, <5>1
      <4>2. CASE b \notin L
        <5>1. T1 = T \cup {b} /\ b \notin T
              BY <1>4, <3>1, <4>2
        <5>2. NatOn(Size, T \cup {b})
              BY <1>5, <3>2 DEF NatOn
        <5>3. SumFunctionOnSet(Size, T \cup {b}) = Size[b] + SumFunctionOnSet(Size, T)
              BY <1>5, <5>1, <5>2, SumAdd
        <5> QED BY <1>6, <5>1, <5>3
      <4> QED BY <4>1, <4>2
    <3> QED BY <1>n, <1>5, <1>6, <3>2, <3>3
  <2> QED BY <2>1, <2>2
<1>8. Unseen(L) = s + p /\ Unseen(L)' = s1 + p1
      BY <1>3, <1>4, <1>6 DEF Unseen
<1> QED BY <1>7, <1>8

\* No walk begins or passes, and no more is there or owed than before.
LEMMA DiskKeeps ==
    ASSUME DiskInv, UploadTypes, DiskBase, UploadTypes', DiskBase', NEW w \in Workers,
           Walking' = Walking \/ (w \in Walking /\ Walking' = Walking \ {w}),
           \A v \in Walking' : listed'[v] = listed[v],
           litter' = litter, \A L : Unseen(L)' <= Unseen(L)
    PROVE  DiskInv'
<1>1. Amounts /\ Amounts'
  <2>1. Amounts
        BY AmountsHold
  <2>2. (UploadTypes /\ DiskBase => Amounts)'
        BY AmountsHold, PTL
  <2> QED BY <2>1, <2>2
<1>2. PICK W, c, m, W1, c1, m1 : /\ W = Walking /\ c = Committed /\ m = Missed
                                 /\ W1 = Walking' /\ c1 = Committed' /\ m1 = Missed'
      OBVIOUS
<1>3. Numbers(W, c, m) /\ Numbers(W1, c1, m1)
      BY <1>1, <1>2 DEF Amounts, Numbers
<1>4. c1 <= c
  <2>1. /\ c = Unseen({}) + litter /\ Unseen({}) \in Nat
        /\ c1 = Unseen({})' + litter' /\ Unseen({})' \in Nat
        BY <1>1, <1>2 DEF Amounts, Unseen
  <2>2. Unseen({})' <= Unseen({}) /\ litter \in Nat
        BY DEF DiskBase
  <2> QED BY <2>1, <2>2
<1>5. ASSUME NEW v \in W1 PROVE m1[v] <= m[v]
  <2>1. PICK L : L = listed[v]
        OBVIOUS
  <2>2. v \in Workers /\ listed'[v] = L
        BY <1>2, <2>1 DEF Walking
  <2>3. m[v] = Unseen(L) /\ m1[v] = Unseen(L)'
        BY <1>1, <1>2, <2>1, <2>2 DEF Amounts, Unseen
  <2> QED BY <2>3
<1>6. PICK E, B : Fits(W, E, B, c, m)
      BY <1>2 DEF DiskInv
<1>7. \E E1, B1 : Fits(W1, E1, B1, c1, m1)
  <2>1. CASE W1 = W
        BY <1>3, <1>4, <1>5, <1>6, <2>1, FitsStay
  <2>2. CASE w \in W /\ W1 = W \ {w}
    <3>1. PICK E2, B2 : Fits(W1, E2, B2, c, m)
          BY <1>3, <1>6, <2>2, FitsLeave
    <3>2. Numbers(W1, c, m)
          BY <1>3, <2>2 DEF Numbers
    <3> QED BY <1>3, <1>4, <1>5, <3>1, <3>2, FitsStay
  <2> QED BY <1>2, <2>1, <2>2
<1> QED BY <1>2, <1>7 DEF DiskInv

\* What is owed when a walk lists the names: nothing by the walks, at most an
\* upload by each other thread.
LEMMA PendingShare ==
    ASSUME UploadTypes, DiskBase, NEW w \in Workers, pc[w] = "disk"
    PROVE  Pending <= Share(Cardinality(Walking))
<1> DEFINE F == {v \in Workers : pc[v] \in PutStages}
           W1 == Walking \cup {w}
<1>1. IsFiniteSet(Workers) /\ IsFiniteSet(F) /\ IsFiniteSet(Walking) /\ IsFiniteSet(W1)
      BY UploadAssumption, FiniteWorkers DEF Walking
<1>2. Cardinality(W1) = Cardinality(Walking) + 1
      BY <1>1, FS_AddElement DEF Walking
<1>3. F \subseteq Workers \ W1
      BY DEF Walking
<1>4. /\ IsFiniteSet(Workers \ W1)
      /\ Cardinality(Workers \ W1) = Cardinality(Workers) - Cardinality(W1)
  <2>1. W1 \subseteq Workers
        BY DEF Walking
  <2> HIDE DEF W1
  <2>2. Workers \cap W1 = W1
        BY <2>1
  <2> QED BY <1>1, <2>2, FS_Difference
<1>5. Cardinality(F) <= Cardinality(Workers) - 1 - Cardinality(Walking)
  <2>1. Cardinality(F) <= Cardinality(Workers \ W1)
        BY <1>3, <1>4, FS_Subset
  <2>2. Cardinality(F) \in Nat /\ Cardinality(Walking) \in Nat /\ Cardinality(Workers) \in Nat
        BY <1>1, FS_CardinalityType
  <2> QED BY <1>2, <1>4, <2>1, <2>2
<1>6. Pending = SumFunctionOnSet(Owed, F)
  <2>1. NatOn(Owed, Workers) /\ F \in SUBSET Workers /\ \A v \in Workers \ F : Owed[v] = 0
        BY PendingNat, OwedBytes
  <2> HIDE DEF F
  <2> QED BY <1>1, <2>1, SumSupport DEF Pending
<1>7. SumFunctionOnSet(Owed, F) <= Cardinality(F) * MaxRequest
  <2>1. \A v \in F : Owed[v] \in Nat /\ Owed[v] <= MaxRequest
        BY OwedBytes
  <2> HIDE DEF F
  <2> QED BY <1>1, <2>1, SumAtMost, UploadAssumption
<1>8. Cardinality(F) * MaxRequest <= Share(Cardinality(Walking))
  <2> DEFINE a == Cardinality(F)
             d == Cardinality(Workers) - 1 - Cardinality(Walking) - a
  <2>1. a \in Nat /\ d \in Nat /\ MaxRequest \in Nat
        /\ Cardinality(Workers) - 1 - Cardinality(Walking) = a + d
    <3>1. Cardinality(F) \in Nat /\ Cardinality(Walking) \in Nat /\ Cardinality(Workers) \in Nat
          BY <1>1, FS_CardinalityType
    <3> QED BY <1>5, <3>1, UploadAssumption
  <2>2. Share(Cardinality(Walking)) = (a + d) * MaxRequest
        BY <2>1 DEF Share
  <2> HIDE DEF a, d
  <2>3. (a + d) * MaxRequest = a * MaxRequest + d * MaxRequest
        /\ a * MaxRequest \in Nat /\ d * MaxRequest \in Nat
        BY <2>1
  <2>4. a * MaxRequest <= Share(Cardinality(Walking))
        BY <2>2, <2>3
  <2> QED BY <2>4 DEF a
<1>9. Pending \in Nat /\ Cardinality(F) * MaxRequest \in Nat
      /\ Share(Cardinality(Walking)) \in Int
  <2>1. Cardinality(F) \in Nat /\ Cardinality(Walking) \in Int
        BY <1>1, FS_CardinalityType
  <2> QED BY <2>1, PendingNat, ShareOne, UploadAssumption
<1> QED BY <1>6, <1>7, <1>8, <1>9

\* A walk counts every blob it listed.
LEMMA WalkCounts ==
    ASSUME UploadInv, DiskBase, NEW w \in Workers, NEW files \in Countable(w)
    PROVE  /\ SumFunctionOnSet(Size, BlobFiles \cap listed[w]) <= FileBytes(files)
           /\ FileBytes(files) \in Nat
<1> DEFINE T == BlobFiles \cap listed[w]
<1>1. UploadTypes /\ NoShortBlob
      BY DEF UploadInv
<1>2. T \subseteq files /\ files \subseteq BlobFiles \cup TempFiles
      BY DEF Countable
<1>3. IsFiniteSet(files)
  <2>1. IsFiniteSet(TempFiles)
        BY FiniteWorkers DEF TempFiles
  <2>2. IsFiniteSet(BlobFiles \cup TempFiles)
        BY <2>1, FS_Union DEF DiskBase
  <2> QED BY <1>2, <2>2, FS_Subset
<1>4. NatOn(FileSize, files)
      BY <1>1, <1>2, TempBytes DEF NatOn, BlobFiles, TempFiles
<1>5. \A b \in T : Size[b] = FileSize[b]
      BY <1>1 DEF NoShortBlob, BlobFiles, FileSize, UploadTypes
<1>6. IsFiniteSet(T)
      BY <1>2, <1>3, FS_Subset
<1> HIDE DEF T
<1>7. SumFunctionOnSet(Size, T) = SumFunctionOnSet(FileSize, T)
      BY <1>5, <1>6, SumSame
<1>8. SumFunctionOnSet(FileSize, T) <= SumFunctionOnSet(FileSize, files)
      BY <1>2, <1>3, <1>4, SumSubset
<1>9. SumFunctionOnSet(FileSize, files) \in Nat
      BY <1>3, <1>4, SumType
<1> QED BY <1>7, <1>8, <1>9 DEF FileBytes, T

\* A walk below the ceiling saw all that is committed but what it missed.
LEMMA PassKeeps ==
    ASSUME DiskInv, UploadInv, DiskBase, UploadTypes', DiskBase', NEW w \in Workers,
           Walk(w), pc'[w] = "exists"
    PROVE  DiskInv'
<1>t. UploadTypes /\ pc[w] = "walk" /\ part[w] = "model" /\ w \in Walking
      BY DEF UploadInv, Walk, ModelFirst, Walking
<1>s. /\ pc' = [pc EXCEPT ![w] = "exists"] /\ UNCHANGED <<upload, part, blobs, litter>>
      /\ \A v \in Workers \ {w} : listed'[v] = listed[v]
      BY <1>t DEF Walk, Goto, Finish, UploadTypes, DiskBase, disk
<1>a. Amounts /\ Amounts'
  <2>1. Amounts
        BY <1>t, AmountsHold
  <2>2. (UploadTypes /\ DiskBase => Amounts)'
        BY AmountsHold, PTL
  <2> QED BY <2>1, <2>2
<1>1. PICK files \in Countable(w) : FileBytes(files) + litter + Incoming(upload[w]) <= MaxDisk
  <2>1. pc'[w] # "idle"
        OBVIOUS
  <2>2. \E files \in Countable(w) :
            ~ (FileBytes(files) + litter + Incoming(upload[w]) > MaxDisk)
        BY <1>t, <2>1 DEF Walk, Finish, UploadTypes
  <2>3. PICK files \in Countable(w) :
            ~ (FileBytes(files) + litter + Incoming(upload[w]) > MaxDisk)
        BY <2>2
  <2>4. FileBytes(files) \in Nat
        BY WalkCounts
  <2>5. litter \in Nat /\ Incoming(upload[w]) \in Nat
        BY <1>t, UploadSizes DEF DiskBase, Incoming
  <2> QED BY <2>3, <2>4, <2>5, UploadAssumption
<1>2. PICK W, c, m, c1, m1, inc :
          /\ W = Walking /\ c = Committed /\ m = Missed
          /\ c1 = Committed' /\ m1 = Missed' /\ inc = Incoming(upload[w])
      OBVIOUS
<1>3. inc \in Nat /\ inc <= MaxRequest
      BY <1>t, <1>2, UploadSizes DEF DiskBase, Incoming
<1>4. Pending' = Pending + inc /\ Pending \in Nat
  <2>1. Owed[w] = 0
        BY <1>t DEF Owed
  <2>2. Owed'[w] = Incoming(upload[w])
    <3>1. Blob(w)' = upload[w].model
          BY <1>t, <1>s DEF Blob
    <3> QED BY <1>t, <1>s, <3>1 DEF Owed, Incoming, UploadTypes
  <2>3. Pending' - Owed'[w] = Pending - Owed[w]
        BY <1>t, <1>s, DebtChanges DEF UploadTypes
  <2>4. Pending \in Nat /\ Pending' \in Nat
    <3>1. (UploadTypes /\ DiskBase => NatOn(Owed, Workers) /\ Pending \in Nat)'
          BY PendingNat, PTL
    <3> QED BY <1>t, <3>1, PendingNat
  <2> QED BY <1>2, <1>3, <2>1, <2>2, <2>3, <2>4
<1>5. \A L : Unseen(L)' = Unseen(L) + inc
  <2> SUFFICES ASSUME NEW L PROVE Unseen(L)' = Unseen(L) + inc
      OBVIOUS
  <2>1. BlobFiles' = BlobFiles
        BY <1>s DEF BlobFiles
  <2>2. SumFunctionOnSet(Size, BlobFiles \ L) \in Nat
        BY BlobBytes
  <2>3. Unseen(L)' = SumFunctionOnSet(Size, BlobFiles \ L) + Pending'
        BY <2>1 DEF Unseen
  <2> QED BY <1>3, <1>4, <2>2, <2>3 DEF Unseen
<1>6. c1 = c + inc
  <2>1. /\ c = Unseen({}) + litter /\ Unseen({}) \in Nat
        /\ c1 = Unseen({})' + litter'
        BY <1>a, <1>2 DEF Amounts, Unseen
  <2>2. litter' = litter /\ litter \in Nat /\ Unseen({})' = Unseen({}) + inc
        BY <1>s, <1>5 DEF DiskBase
  <2> QED BY <1>3, <2>1, <2>2
<1>7. ASSUME NEW x \in W \ {w} PROVE m1[x] = m[x] + inc
  <2>1. PICK L : L = listed[x]
        OBVIOUS
  <2>2. x \in Workers /\ listed'[x] = L
        BY <1>2, <1>s, <2>1 DEF Walking
  <2>3. m[x] = Unseen(L) /\ m1[x] = Unseen(L)'
        BY <1>a, <1>2, <2>1, <2>2 DEF Amounts, Unseen
  <2> QED BY <1>5, <2>3
<1>8. c1 <= MaxDisk + m[w]
  <2>1. PICK T, T1, s, t : /\ T = BlobFiles \cap listed[w] /\ T1 = BlobFiles \ listed[w]
                           /\ s = SumFunctionOnSet(Size, T) /\ t = SumFunctionOnSet(Size, T1)
        OBVIOUS
  <2>2. NatOn(Size, BlobFiles) /\ IsFiniteSet(BlobFiles)
        BY UploadAssumption DEF NatOn, BlobFiles, DiskBase
  <2>3. SumFunctionOnSet(Size, BlobFiles) = s + t
    <3>1. T \in SUBSET BlobFiles /\ T1 = BlobFiles \ T
          BY <2>1
    <3> QED BY <2>1, <2>2, <3>1, SumSubset
  <2>4. s \in Nat /\ t \in Nat
    <3>1. /\ IsFiniteSet(T) /\ IsFiniteSet(T1) /\ NatOn(Size, T) /\ NatOn(Size, T1)
          BY <2>1, <2>2, FS_Subset DEF NatOn
    <3> QED BY <2>1, <3>1, SumType
  <2>5. PICK p, l : p = Pending /\ l = litter
        OBVIOUS
  <2>6. c = s + t + l + p /\ m[w] = t + p /\ p \in Nat /\ l \in Nat
        BY <1>2, <1>4, <2>1, <2>3, <2>5 DEF Committed, Missed, DiskBase
  <2>7. s + l + inc <= MaxDisk
    <3>1. s <= FileBytes(files) /\ FileBytes(files) \in Nat
          BY <2>1, WalkCounts
    <3>2. FileBytes(files) + l + inc <= MaxDisk
          BY <1>1, <1>2, <2>5
    <3> QED BY <1>3, <2>4, <2>6, <3>1, <3>2, UploadAssumption
  <2> QED BY <1>3, <1>6, <2>4, <2>6, <2>7, UploadAssumption
<1>9. \E E1, B1 : Fits(W \ {w}, E1, B1, c1, m1)
  <2>1. PICK E, B : Fits(W, E, B, c, m)
        BY <1>2 DEF DiskInv
  <2>2. Numbers(W, c, m) /\ w \in W
        BY <1>a, <1>t, <1>2 DEF Amounts
  <2> QED BY <1>3, <1>6, <1>7, <1>8, <2>1, <2>2, FitsPass
<1>10. Walking' = W \ {w}
      BY <1>t, <1>s, <1>2 DEF Walking, UploadTypes
<1> QED BY <1>2, <1>9, <1>10 DEF DiskInv

\* A walk that begins now misses what is owed now.
LEMMA ListKeeps ==
    ASSUME DiskInv, UploadTypes, DiskBase, UploadTypes', DiskBase', NEW w \in Workers, List(w)
    PROVE  DiskInv'
<1>s. /\ pc[w] = "disk" /\ pc' = [pc EXCEPT ![w] = "walk"]
      /\ UNCHANGED <<upload, part, blobs, litter>>
      /\ listed' = [listed EXCEPT ![w] = BlobFiles \cup TempFiles]
      BY DEF List, Goto, disk
<1>1. Owed' = Owed /\ BlobFiles' = BlobFiles
      BY <1>s DEF Owed, Blob, BlobFiles, UploadTypes
<1>2. Pending' = Pending /\ Committed' = Committed
      BY <1>s, <1>1 DEF Pending, Committed
<1>3. \A v \in Walking : Missed'[v] = Missed[v]
      BY <1>s, <1>1, <1>2 DEF Missed, Walking, DiskBase
<1>4. Missed'[w] <= Share(Cardinality(Walking))
  <2>1. BlobFiles' \ listed'[w] = {}
        BY <1>s, <1>1 DEF DiskBase
  <2>2. Missed'[w] = 0 + Pending
        BY <1>2, <2>1, SumEmpty DEF Missed
  <2> QED BY <1>s, <2>2, PendingShare, PendingNat
<1>5. PICK W, c, m, m1 : W = Walking /\ c = Committed /\ m = Missed /\ m1 = Missed'
      OBVIOUS
<1>6. PICK E, B : Fits(W, E, B, c, m)
      BY <1>5 DEF DiskInv
<1>7. W \subseteq Workers /\ w \in Workers \ W
      BY <1>s, <1>5 DEF Walking
<1>8. \E E1, B1 : Fits(W \cup {w}, E1, B1, c, m1)
      BY <1>3, <1>4, <1>5, <1>6, <1>7, FitsList
<1>9. Walking' = W \cup {w}
      BY <1>s, <1>5 DEF Walking, UploadTypes
<1> QED BY <1>2, <1>5, <1>8, <1>9 DEF DiskInv

\* A temporary file holds what its worker owes.
LEMMA TempOwed ==
    ASSUME UploadTypes, DiskBase
    PROVE  FileBytes(TempFiles) <= Pending /\ FileBytes(TempFiles) \in Nat
<1>1. IsFiniteSet(TempFiles) /\ TempFiles \subseteq Workers /\ IsFiniteSet(Workers)
      BY FiniteWorkers, UploadAssumption DEF TempFiles
<1>2. NatOn(FileSize, TempFiles) /\ NatOn(Owed, Workers) /\ NatOn(Owed, TempFiles)
      BY <1>1, TempBytes, PendingNat DEF NatOn
<1>3. \A v \in TempFiles : FileSize[v] <= Owed[v]
  <2> SUFFICES ASSUME NEW v \in TempFiles PROVE FileSize[v] <= Owed[v]
      OBVIOUS
  <2>1. v \in Workers /\ v \notin Blobs /\ Owed[v] \in Nat
        BY <1>1, <1>2, UploadAssumption DEF NatOn
  <2>2. CASE temp[v] = "whole"
    <3>1. pc[v] = "rename"
          BY <2>1, <2>2 DEF DiskBase
    <3>2. Size[Blob(v)] \in Nat /\ Size[upload[v].thumb] \in Nat
          BY <2>1, <3>1, UploadSizes, UploadAssumption
    <3> QED BY <2>1, <2>2, <3>1, <3>2 DEF FileSize, Owed
  <2>3. CASE temp[v] # "whole"
        BY <2>1, <2>3 DEF FileSize
  <2> QED BY <2>2, <2>3
<1>4. SumFunctionOnSet(FileSize, TempFiles) <= SumFunctionOnSet(Owed, TempFiles)
      BY <1>1, <1>2, <1>3, SumMonotone
<1>5. SumFunctionOnSet(Owed, TempFiles) <= SumFunctionOnSet(Owed, Workers)
      BY <1>1, <1>2, SumSubset
<1>6. /\ SumFunctionOnSet(FileSize, TempFiles) \in Nat
      /\ SumFunctionOnSet(Owed, TempFiles) \in Nat /\ Pending \in Nat
      BY <1>1, <1>2, SumType, PendingNat
<1> QED BY <1>4, <1>5, <1>6 DEF FileBytes, Pending

\* What a dead process leaves in temporary files its workers owed.
LEMMA CrashKeeps ==
    ASSUME DiskInv, UploadTypes, DiskBase, UploadTypes', DiskBase', Crash
    PROVE  DiskInv'
<1>1. /\ pc' = [v \in Workers |-> "idle"] /\ blobs' = blobs
      /\ litter' = litter + FileBytes(TempFiles)
      BY DEF Crash
<1>2. Walking' = {} /\ BlobFiles' = BlobFiles
      BY <1>1 DEF Walking, BlobFiles
<1>3. Pending' = 0
  <2>1. /\ IsFiniteSet({}) /\ {} \in SUBSET Workers /\ NatOn(Owed', Workers)
        /\ \A v \in Workers \ {} : Owed'[v] = 0
        BY <1>1, FS_EmptySet DEF Owed, NatOn
  <2>2. PICK g : g = Owed'
        OBVIOUS
  <2>3. SumFunctionOnSet(g, Workers) = SumFunctionOnSet(g, {})
        BY <2>1, <2>2, SumSupport, UploadAssumption
  <2> QED BY <2>2, <2>3, SumEmpty DEF Pending
<1>4. FileBytes(TempFiles) <= Pending /\ FileBytes(TempFiles) \in Nat
      BY TempOwed
<1>5. PICK W, c, m, c1, m1 : /\ W = Walking /\ c = Committed /\ m = Missed
                             /\ c1 = Committed' /\ m1 = Missed'
      OBVIOUS
<1>6. c1 <= c /\ c \in Int /\ c1 \in Int
  <2>1. PICK s, l, p, f : /\ s = SumFunctionOnSet(Size, BlobFiles) /\ l = litter
                          /\ p = Pending /\ f = FileBytes(TempFiles)
        OBVIOUS
  <2>2. s \in Nat
    <3>1. NatOn(Size, BlobFiles)
          BY UploadAssumption DEF NatOn, BlobFiles
    <3> QED BY <2>1, <3>1, SumType DEF DiskBase
  <2>3. c = s + l + p /\ c1 = s + (l + f) + 0 /\ l \in Nat /\ p \in Nat /\ f \in Nat /\ f <= p
        BY <1>1, <1>2, <1>3, <1>4, <1>5, <2>1, PendingNat DEF Committed, DiskBase
  <2> QED BY <2>2, <2>3
<1>7. PICK E, B : Fits(W, E, B, c, m)
      BY <1>5 DEF DiskInv
<1>8. E \subseteq Workers /\ c <= MaxDisk + Share(Cardinality(E)) /\ Workers # {}
      BY <1>5, <1>7, UploadAssumption DEF Fits, Walking
<1>9. c1 <= MaxDisk + Share(Cardinality({}))
  <2>1. Cardinality(E) \in Nat /\ Cardinality({}) = 0
        BY <1>8, FiniteWorkers, FS_EmptySet
  <2>2. Share(Cardinality(E)) <= Share(0) /\ Share(Cardinality(E)) \in Int /\ Share(0) \in Int
        BY <2>1, ShareFalls, ShareOne
  <2> QED BY <1>6, <1>8, <2>1, <2>2, UploadAssumption
<1>10. Fits({}, {}, [v \in Workers |-> {}], c1, m1)
      BY <1>9 DEF Fits
<1> QED BY <1>2, <1>5, <1>10 DEF DiskInv

\* Every step leaves an order of the listings under which the total fits.
LEMMA DiskStep ==
    UploadInv /\ DiskBase /\ DiskInv /\ UploadInv' /\ DiskBase' /\ [Next]_vars => DiskInv'
<1> SUFFICES ASSUME UploadInv, DiskBase, DiskInv, UploadInv', DiskBase', [Next]_vars
             PROVE  DiskInv'
    OBVIOUS
<1> USE DEF disk
<1>t. /\ UploadTypes /\ UploadTypes'
      /\ \A v \in Workers : pc[v] = "rename" => temp[v] = "whole"
      /\ NoShortBlob
      BY DEF UploadInv, WrittenBeforeRename
\* One worker moves, no walk begins or passes.
<1>k. ASSUME NEW w \in Workers,
             \A v \in Workers \ {w} : /\ pc'[v] = pc[v] /\ upload'[v] = upload[v]
                                      /\ part'[v] = part[v] /\ listed'[v] = listed[v],
             pc'[w] # "walk", litter' = litter,
             \/ BlobFiles' = BlobFiles /\ Owed'[w] <= Owed[w]
             \/ \E b \in Blobs \ BlobFiles :
                   BlobFiles' = BlobFiles \cup {b} /\ Owed'[w] + Size[b] <= Owed[w]
      PROVE  DiskInv'
  <2>1. \A L : Unseen(L)' <= Unseen(L)
        BY <1>k, <1>t, UnseenFalls
  <2>2. /\ Walking' = Walking \/ (w \in Walking /\ Walking' = Walking \ {w})
        /\ \A v \in Walking' : listed'[v] = listed[v]
        BY <1>k DEF Walking
  <2> QED BY <1>k, <1>t, <2>1, <2>2, DiskKeeps
<1>o. \A v \in Workers : Owed[v] \in Nat /\ (pc'[v] \notin PutStages => Owed'[v] = 0)
      BY <1>t, OwedBytes DEF Owed
<1>1. ASSUME NEW w \in Workers, NEW u \in Uploads, Begin(w, u) PROVE DiskInv'
  <2>1. /\ pc'[w] = "daily" /\ UNCHANGED <<litter, blobs, part, listed>>
        /\ \A v \in Workers \ {w} : pc'[v] = pc[v] /\ upload'[v] = upload[v]
        BY <1>t, <1>1 DEF Begin, UploadTypes
  <2> QED BY <1>k, <1>o, <2>1 DEF BlobFiles
<1>2. ASSUME NEW w \in Workers, Daily(w) \/ Hourly(w) \/ WalkFails(w) \/ Insert(w) \/ Raise(w)
      PROVE  DiskInv'
  <2>1. /\ pc'[w] \in {"idle", "hourly", "disk"} /\ UNCHANGED <<litter, blobs>>
        /\ \A v \in Workers \ {w} : /\ pc'[v] = pc[v] /\ upload'[v] = upload[v]
                                    /\ part'[v] = part[v] /\ listed'[v] = listed[v]
        BY <1>t, <1>2 DEF Daily, Hourly, WalkFails, Insert, Raise, Goto, Finish, UploadTypes,
                          DiskBase
  <2> QED BY <1>k, <1>o, <2>1 DEF BlobFiles
<1>3. ASSUME NEW w \in Workers, List(w) PROVE DiskInv'
      BY <1>t, <1>3, ListKeeps
<1>4. ASSUME NEW w \in Workers, Walk(w) PROVE DiskInv'
  <2>1. CASE pc'[w] = "exists"
        BY <1>t, <1>4, <2>1, PassKeeps
  <2>2. CASE pc'[w] # "exists"
    <3>1. /\ pc'[w] = "idle" /\ UNCHANGED <<litter, blobs>>
          /\ \A v \in Workers \ {w} : /\ pc'[v] = pc[v] /\ upload'[v] = upload[v]
                                      /\ part'[v] = part[v] /\ listed'[v] = listed[v]
          BY <1>t, <1>4, <2>2 DEF Walk, Goto, Finish, UploadTypes, DiskBase
    <3> QED BY <1>k, <1>o, <3>1 DEF BlobFiles
  <2> QED BY <2>1, <2>2
<1>5. ASSUME NEW w \in Workers, Open(w) PROVE DiskInv'
  <2>1. /\ pc'[w] \in {"write", "exists", "insert"} /\ UNCHANGED <<litter, blobs, upload, listed>>
        /\ \A v \in Workers \ {w} : pc'[v] = pc[v] /\ part'[v] = part[v]
        BY <1>t, <1>5 DEF Open, NextPart, Goto, UploadTypes
  <2>2. Owed'[w] <= Owed[w]
    <3>1. CASE pc'[w] = "write"
      <4>1. part' = part /\ pc[w] = "exists"
            BY <1>t, <1>5, <3>1 DEF Open, NextPart, Goto, UploadTypes
      <4>2. Owed'[w] = Owed[w]
            BY <2>1, <3>1, <4>1 DEF Owed, Blob
      <4> QED BY <1>o, <4>2
    <3>2. CASE pc'[w] = "exists"
      <4>1. part[w] = "model" /\ part'[w] = "thumb" /\ pc[w] = "exists"
            BY <1>t, <1>5, <3>2 DEF Open, NextPart, Goto, UploadTypes
      <4>2. /\ Blob(w) = upload[w].model /\ Blob(w)' = upload[w].thumb
            /\ Size[upload[w].model] \in Nat /\ Size[upload[w].thumb] \in Nat
            BY <1>t, <2>1, <4>1, UploadSizes DEF Blob
      <4>3. /\ Owed[w] = Size[upload[w].model] + Size[upload[w].thumb]
            /\ Owed'[w] = Size[upload[w].thumb] + 0
            BY <2>1, <3>2, <4>1, <4>2 DEF Owed
      <4> QED BY <4>2, <4>3
    <3>3. CASE pc'[w] = "insert"
          BY <1>o, <3>3
    <3> QED BY <2>1, <3>1, <3>2, <3>3
  <2> QED BY <1>k, <2>1, <2>2 DEF BlobFiles
<1>6. ASSUME NEW w \in Workers, Write(w) PROVE DiskInv'
  <2>1. /\ pc' = [pc EXCEPT ![w] = "rename"] /\ pc[w] = "write"
        /\ UNCHANGED <<litter, blobs, upload, part, listed>>
        BY <1>6 DEF Write, Goto
  <2>2. Owed'[w] = Owed[w]
        BY <1>t, <2>1 DEF Owed, Blob, UploadTypes
  <2> QED BY <1>t, <1>k, <1>o, <2>1, <2>2 DEF BlobFiles, UploadTypes
<1>7. ASSUME NEW w \in Workers, Rename(w) PROVE DiskInv'
  <2>1. /\ pc[w] = "rename" /\ UNCHANGED <<litter, upload, listed>>
        /\ \A v \in Workers \ {w} : pc'[v] = pc[v] /\ part'[v] = part[v]
        /\ \/ part[w] = "model" /\ part'[w] = "thumb" /\ pc'[w] = "exists"
           \/ part[w] = "thumb" /\ pc'[w] = "insert"
        BY <1>t, <1>7 DEF Rename, NextPart, Goto, UploadTypes
  <2>2. PICK b : b = Blob(w)
        OBVIOUS
  <2>3. b \in Blobs /\ Size[b] \in Nat /\ Size[upload[w].thumb] \in Nat
        BY <1>t, <2>1, <2>2, UploadSizes, UploadAssumption
  <2>4. blobs' = [blobs EXCEPT ![b] = "whole"]
        BY <1>t, <1>7, <2>1, <2>2 DEF Rename
  <2>5. BlobFiles' = BlobFiles \cup {b}
        BY <1>t, <2>3, <2>4 DEF BlobFiles, UploadTypes
  <2>6. Owed'[w] + Size[b] <= Owed[w] /\ Owed'[w] \in Nat
    <3>1. CASE part[w] = "model"
      <4>1. Blob(w)' = upload[w].thumb
            BY <2>1, <3>1 DEF Blob
      <4>2. Owed[w] = Size[b] + Size[upload[w].thumb] /\ Owed'[w] = Size[upload[w].thumb] + 0
            BY <2>1, <2>2, <3>1, <4>1 DEF Owed
      <4> QED BY <2>3, <4>2
    <3>2. CASE part[w] = "thumb"
      <4>1. Owed[w] = Size[b] + 0 /\ Owed'[w] = 0
            BY <1>o, <2>1, <2>2, <3>2 DEF Owed
      <4> QED BY <2>3, <4>1
    <3> QED BY <2>1, <3>1, <3>2
  <2>7. CASE b \in BlobFiles
    <3>1. BlobFiles' = BlobFiles /\ Owed'[w] <= Owed[w]
          BY <1>o, <2>3, <2>5, <2>6, <2>7
    <3> QED BY <1>k, <2>1, <3>1
  <2>8. CASE b \notin BlobFiles
        BY <1>k, <2>1, <2>3, <2>5, <2>6, <2>8
  <2> QED BY <2>7, <2>8
<1>8. ASSUME Crash PROVE DiskInv'
      BY <1>t, <1>8, CrashKeeps
<1>9. CASE Tick \/ UNCHANGED vars
  <2>1. UNCHANGED <<pc, upload, part, blobs, litter, listed>>
        BY <1>9 DEF Tick, vars
  <2>2. Owed' = Owed /\ Walking' = Walking /\ BlobFiles' = BlobFiles
        BY <2>1 DEF Owed, Blob, Walking, BlobFiles
  <2>3. Committed' = Committed /\ Missed' = Missed
        BY <2>1, <2>2 DEF Committed, Missed, Pending
  <2> QED BY <2>2, <2>3 DEF DiskInv
<1> QED BY <1>1, <1>2, <1>3, <1>4, <1>5, <1>6, <1>7, <1>8, <1>9 DEF Next, Step

\* What is on disk, temporary files included, is no more than is committed.
LEMMA TotalCommitted ==
    ASSUME UploadInv, DiskBase
    PROVE  TotalBytes <= Committed /\ TotalBytes \in Int
<1>t. UploadTypes /\ NoShortBlob
      BY DEF UploadInv
<1>1. /\ IsFiniteSet(TempFiles) /\ TempFiles \subseteq Workers /\ IsFiniteSet(Workers)
      /\ IsFiniteSet(BlobFiles) /\ BlobFiles \subseteq Blobs /\ BlobFiles \cap TempFiles = {}
      BY FiniteWorkers, UploadAssumption DEF TempFiles, BlobFiles, DiskBase
<1>2. NatOn(FileSize, BlobFiles \cup TempFiles)
      BY <1>t, <1>1, TempBytes DEF NatOn
<1>3. SumFunctionOnSet(FileSize, BlobFiles \cup TempFiles)
        = SumFunctionOnSet(FileSize, BlobFiles) + SumFunctionOnSet(FileSize, TempFiles)
      BY <1>1, <1>2, SumUnion
<1>4. SumFunctionOnSet(FileSize, BlobFiles) = SumFunctionOnSet(Size, BlobFiles)
  <2>1. \A b \in BlobFiles : FileSize[b] = Size[b]
        BY <1>t DEF NoShortBlob, BlobFiles, FileSize, UploadTypes
  <2> QED BY <1>1, <2>1, SumSame
<1>5. FileBytes(TempFiles) <= Pending /\ FileBytes(TempFiles) \in Nat
      BY <1>t, TempOwed
<1>6. SumFunctionOnSet(Size, BlobFiles) \in Nat /\ litter \in Nat /\ Pending \in Nat
  <2>1. NatOn(Size, BlobFiles)
        BY <1>1, UploadAssumption DEF NatOn
  <2> QED BY <1>t, <1>1, <2>1, SumType, PendingNat DEF DiskBase
<1> QED BY <1>3, <1>4, <1>5, <1>6 DEF TotalBytes, FileBytes, Committed

\* The store outgrows its ceiling by one upload for each thread but one and no
\* more, however the walks and the puts interleave and whatever a dead process
\* left in temporary files (quota.py:96-103, store.py:112-116).
THEOREM DiskCeilingNearlyHeld == Spec => []DiskOvershootBounded
<1>1. Init => DiskInv
  <2> SUFFICES ASSUME Init PROVE DiskInv
      OBVIOUS
  <2>1. Walking = {} /\ BlobFiles = {} /\ litter = 0 /\ \A v \in Workers : Owed[v] = 0
        BY DEF Init, Walking, BlobFiles, Owed
  <2>2. Pending = 0
    <3>1. NatOn(Owed, Workers) /\ {} \in SUBSET Workers /\ \A v \in Workers \ {} : Owed[v] = 0
          BY <2>1 DEF NatOn
    <3>2. Pending = SumFunctionOnSet(Owed, {})
          BY <3>1, SumSupport, UploadAssumption DEF Pending
    <3> QED BY <3>2, SumEmpty
  <2>3. Committed = 0
        BY <2>1, <2>2, SumEmpty DEF Committed
  <2>4. Share(Cardinality({})) \in Nat
    <3>1. Cardinality(Workers) - 1 - 0 \in Nat
      <4>1. Cardinality(Workers) \in Nat /\ Cardinality(Workers) # 0
            BY UploadAssumption, FS_CardinalityType, FS_EmptySet
      <4> QED BY <4>1
    <3>2. Cardinality({}) = 0
          BY FS_EmptySet
    <3> DEFINE n == Cardinality(Workers) - 1 - 0
    <3>3. n \in Nat /\ MaxRequest \in Nat /\ Share(0) = n * MaxRequest
          BY <3>1, UploadAssumption DEF Share
    <3> HIDE DEF n
    <3>4. n * MaxRequest \in Nat
          BY <3>3
    <3> QED BY <3>2, <3>3, <3>4
  <2>5. Fits({}, {}, [v \in Workers |-> {}], Committed, Missed)
        BY <2>3, <2>4, UploadAssumption DEF Fits
  <2> QED BY <2>1, <2>5 DEF DiskInv
<1>2. UploadInv /\ DiskBase /\ DiskInv => DiskOvershootBounded
  <2> SUFFICES ASSUME UploadInv, DiskBase, DiskInv PROVE DiskOvershootBounded
      OBVIOUS
  <2>1. PICK E, B : Fits(Walking, E, B, Committed, Missed)
        BY DEF DiskInv
  <2>2. E \subseteq Workers /\ Committed <= MaxDisk + Share(Cardinality(E))
        BY <2>1 DEF Fits, Walking
  <2>3. Cardinality(E) \in Nat
        BY <2>2, FiniteWorkers
  <2>4. Share(Cardinality(E)) <= Share(0) /\ Share(Cardinality(E)) \in Int /\ Share(0) \in Int
        BY <2>3, ShareFalls, ShareOne
  <2>5. Share(0) = (Cardinality(Workers) - 1) * MaxRequest
    <3>1. Cardinality(Workers) - 1 - 0 = Cardinality(Workers) - 1
          BY UploadAssumption, FS_CardinalityType
    <3> QED BY <3>1 DEF Share
  <2>6. TotalBytes <= Committed /\ TotalBytes \in Int /\ Committed \in Int
        BY TotalCommitted, AmountsHold DEF UploadInv, Amounts
  <2> HIDE DEF Share
  <2>7. TotalBytes <= MaxDisk + Share(0)
        BY <2>2, <2>4, <2>6, UploadAssumption
  <2> QED BY <2>5, <2>7 DEF DiskOvershootBounded
<1> QED BY UploadInit, UploadStep, DiskBaseInit, DiskBaseStep, DiskStep, <1>1, <1>2, PTL DEF Spec
-----------------------------------------------------------------------------
(* What failures leave.  A worker's share of an upload that ends is what   *)
(* it has in hand, in blobs, and what it owes, in its temporary file; the  *)
(* two are one request at most.                                            *)

LEMMA HandBytes ==
    ASSUME UploadTypes, DiskBase, NEW w \in Workers
    PROVE  /\ IsFiniteSet(Hand(w)) /\ NatOn(Size, Hand(w)) /\ Owed[w] \in Nat
           /\ SumFunctionOnSet(Size, Hand(w)) + Owed[w] <= MaxRequest
<1>1. Owed[w] \in Nat /\ Owed[w] <= MaxRequest
      BY OwedBytes
<1>2. CASE pc[w] \in PutStages /\ part[w] = "thumb"
  <2>1. PICK m : m = upload[w].model
        OBVIOUS
  <2>2. Hand(w) = {m}
        BY <1>2, <2>1 DEF Hand
  <2>3. /\ Size[m] \in Nat /\ Size[upload[w].thumb] \in Nat
        /\ Size[m] + Size[upload[w].thumb] <= MaxRequest
        /\ Owed[w] = Size[upload[w].thumb]
        BY <1>2, <2>1, UploadSizes DEF DiskBase, Incoming, Owed
  <2>4. SumFunctionOnSet(Size, {m}) = Size[m]
        BY <2>3, SumOne
  <2> QED BY <1>1, <2>2, <2>3, <2>4, FS_Singleton DEF NatOn
<1>3. CASE pc[w] = "insert"
  <2>1. PICK m, t : m = upload[w].model /\ t = upload[w].thumb
        OBVIOUS
  <2>2. PICK H : H = {m} \cup {t}
        OBVIOUS
  <2>3. /\ Size[m] \in Nat /\ Size[t] \in Nat /\ Size[m] + Size[t] <= MaxRequest
        /\ Owed[w] = 0
        BY <1>3, <2>1, UploadSizes DEF DiskBase, Incoming, Owed
  <2>4. /\ SumFunctionOnSet(Size, {m}) = Size[m] /\ SumFunctionOnSet(Size, {t}) = Size[t]
        /\ IsFiniteSet({m}) /\ IsFiniteSet({t})
        BY <2>3, SumOne, FS_Singleton
  <2>5. NatOn(Size, H)
        BY <2>2, <2>3 DEF NatOn
  <2>6. IsFiniteSet(H)
        BY <2>2, <2>4, FS_Union
  <2>7. SumFunctionOnSet(Size, H) <= Size[m] + Size[t]
    <3>1. SumFunctionOnSet(Size, {m} \cup {t})
              <= SumFunctionOnSet(Size, {m}) + SumFunctionOnSet(Size, {t})
          BY <2>2, <2>4, <2>5, SumOverlap
    <3> QED BY <2>2, <2>4, <3>1
  <2>8. SumFunctionOnSet(Size, H) \in Nat
        BY <2>5, <2>6, SumType
  <2>9. Hand(w) = H
        BY <1>3, <2>1, <2>2 DEF Hand
  <2>10. SumFunctionOnSet(Size, H) + Owed[w] <= MaxRequest
         BY <2>3, <2>7, <2>8, UploadAssumption
  <2> QED BY <2>3, <2>5, <2>6, <2>9, <2>10
<1>4. CASE ~ (pc[w] \in PutStages /\ part[w] = "thumb") /\ pc[w] # "insert"
  <2>1. Hand(w) = {}
        BY <1>4 DEF Hand
  <2> QED BY <1>1, <2>1, SumEmpty, FS_EmptySet DEF NatOn
<1> QED BY <1>2, <1>3, <1>4

\* The orphans grow by no more than what is dropped.
LEMMA OrphansGrow ==
    ASSUME DiskBase, NEW L, NEW O, IsFiniteSet(L), NatOn(Size, L), O \subseteq Orphans \cup L
    PROVE  /\ SumFunctionOnSet(Size, O) \in Nat /\ SumFunctionOnSet(Size, Orphans) \in Nat
           /\ SumFunctionOnSet(Size, L) \in Nat
           /\ SumFunctionOnSet(Size, O) <= SumFunctionOnSet(Size, Orphans)
                                             + SumFunctionOnSet(Size, L)
<1>1. IsFiniteSet(Orphans) /\ NatOn(Size, Orphans)
      BY FS_Subset, UploadAssumption DEF DiskBase, Orphans, NatOn, BlobFiles
<1>2. PICK P : P = Orphans
      OBVIOUS
<1>3. IsFiniteSet(P \cup L) /\ NatOn(Size, P \cup L)
      BY <1>1, <1>2, FS_Union DEF NatOn
<1>4. IsFiniteSet(O) /\ NatOn(Size, O) /\ O \in SUBSET (P \cup L)
      BY <1>2, <1>3, FS_Subset DEF NatOn
<1>5. SumFunctionOnSet(Size, O) <= SumFunctionOnSet(Size, P \cup L)
      BY <1>3, <1>4, SumSubset
<1>6. SumFunctionOnSet(Size, P \cup L) <= SumFunctionOnSet(Size, P) + SumFunctionOnSet(Size, L)
      BY <1>1, <1>2, <1>3, SumOverlap
<1>7. /\ SumFunctionOnSet(Size, O) \in Nat /\ SumFunctionOnSet(Size, P) \in Nat
      /\ SumFunctionOnSet(Size, L) \in Nat /\ SumFunctionOnSet(Size, P \cup L) \in Nat
      BY <1>1, <1>2, <1>3, <1>4, SumType
<1> QED BY <1>2, <1>5, <1>6, <1>7

\* A worker that stops drops what it has in hand.
LEMMA Dropped ==
    ASSUME NEW S \in SUBSET Workers, UNCHANGED <<rows, blobs>>,
           \A v \in Workers \ S : pc'[v] = pc[v] /\ upload'[v] = upload[v] /\ part'[v] = part[v]
    PROVE  Orphans' \subseteq Orphans \cup UNION {Hand(v) : v \in S}
<1> SUFFICES ASSUME NEW b \in Orphans', b \notin UNION {Hand(v) : v \in S}
             PROVE  b \in Orphans
    OBVIOUS
<1>1. b \in BlobFiles /\ ~ Placed(b)
      BY DEF Orphans, BlobFiles, Placed
<1>2. ASSUME NEW v \in Workers PROVE b \notin Hand(v)
  <2>1. CASE v \in S
        BY <2>1
  <2>2. CASE v \notin S
    <3>1. b \notin Hand(v)'
          BY DEF Orphans
    <3> QED BY <2>2, <3>1 DEF Hand
  <2> QED BY <2>1, <2>2
<1> QED BY <1>1, <1>2 DEF Orphans

\* One trouble more allows one request of each worker more.
LEMMA OneTrouble ==
    ASSUME NEW d \in Nat, NEW d1 \in Nat, NEW x \in Nat, NEW t \in Nat,
           d <= t * (Cardinality(Workers) * MaxRequest),
           d1 <= d + x, x <= Cardinality(Workers) * MaxRequest
    PROVE  d1 <= (t + 1) * (Cardinality(Workers) * MaxRequest)
<1>1. PICK n \in Nat : n = Cardinality(Workers) * MaxRequest
      BY FiniteWorkers, UploadAssumption
<1>2. (t + 1) * n = t * n + n /\ t * n \in Nat
      OBVIOUS
<1> QED BY <1>1, <1>2

\* An error leaves what one worker had in hand.
LEMMA RaiseLeaves ==
    ASSUME UploadTypes, DiskBase, PaidByTroubles, NEW w \in Workers, Raise(w)
    PROVE  PaidByTroubles'
<1>1. /\ troubles' = troubles + 1 /\ litter' = litter
      /\ Orphans' \subseteq Orphans \cup Hand(w)
  <2>1. /\ UNCHANGED <<rows, blobs, litter>> /\ troubles' = troubles + 1
        /\ \A v \in Workers \ {w} : /\ pc'[v] = pc[v] /\ upload'[v] = upload[v]
                                    /\ part'[v] = part[v]
        BY DEF Raise, Finish, UploadTypes
  <2>2. Orphans' \subseteq Orphans \cup UNION {Hand(v) : v \in {w}}
        BY <2>1, Dropped
  <2>3. UNION {Hand(v) : v \in {w}} = Hand(w)
        OBVIOUS
  <2> QED BY <2>1, <2>2, <2>3
<1>2. PICK O, L : O = Orphans' /\ L = Hand(w)
      OBVIOUS
<1>3. PICK p, q, x : /\ p = SumFunctionOnSet(Size, Orphans) /\ q = SumFunctionOnSet(Size, O)
                     /\ x = SumFunctionOnSet(Size, L)
      OBVIOUS
<1>4. /\ IsFiniteSet(L) /\ NatOn(Size, L)
      /\ x + Owed[w] <= MaxRequest /\ Owed[w] \in Nat
      BY <1>2, <1>3, HandBytes
<1>5. p \in Nat /\ q \in Nat /\ x \in Nat /\ q <= p + x
      BY <1>1, <1>2, <1>3, <1>4, OrphansGrow
<1>6. x <= Cardinality(Workers) * MaxRequest
  <2>1. PICK n \in Nat : n = Cardinality(Workers)
        BY FiniteWorkers
  <2>2. n >= 1
        BY <2>1, FS_EmptySet, FiniteWorkers, UploadAssumption
  <2>3. n * MaxRequest = (n - 1) * MaxRequest + MaxRequest /\ (n - 1) * MaxRequest \in Nat
        BY <2>1, <2>2, UploadAssumption
  <2> QED BY <1>4, <1>5, <2>1, <2>3, UploadAssumption
<1>7. q + litter <= (troubles + 1) * (Cardinality(Workers) * MaxRequest)
      BY <1>3, <1>5, <1>6, OneTrouble DEF DiskBase, PaidByTroubles
<1> QED BY <1>1, <1>2, <1>3, <1>7 DEF PaidByTroubles

\* The end of the process leaves what all had in hand, and their temporary files.
LEMMA CrashLeaves ==
    ASSUME UploadTypes, DiskBase, PaidByTroubles, Crash
    PROVE  PaidByTroubles'
<1> DEFINE hand == [v \in Workers |-> Hand(v)]
<1>1. PICK L : L = UNION {hand[v] : v \in Workers}
      OBVIOUS
<1>2. /\ troubles' = troubles + 1 /\ litter' = litter + FileBytes(TempFiles)
      /\ Orphans' \subseteq Orphans \cup L
  <2>1. UNION {Hand(v) : v \in Workers} = L
        BY <1>1
  <2>2. Orphans' \subseteq Orphans \cup UNION {Hand(v) : v \in Workers}
        BY Dropped DEF Crash
  <2> QED BY <2>1, <2>2 DEF Crash
<1>3. \A v \in Workers : /\ IsFiniteSet(hand[v]) /\ NatOn(Size, hand[v]) /\ Owed[v] \in Nat
                         /\ SumFunctionOnSet(Size, hand[v]) + Owed[v] <= MaxRequest
      BY HandBytes
<1>4. /\ IsFiniteSet(L) /\ NatOn(Size, L)
      /\ SumFunctionOnSet(Size, L) + Pending <= Cardinality(Workers) * MaxRequest
  <2>1. PICK h, owed : h = hand /\ owed = Owed
        OBVIOUS
  <2> HIDE DEF hand
  <2>2. \A v \in Workers : /\ IsFiniteSet(h[v]) /\ NatOn(Size, h[v]) /\ owed[v] \in Nat
                           /\ SumFunctionOnSet(Size, h[v]) + owed[v] <= MaxRequest
        BY <1>3, <2>1
  <2>f. IsFiniteSet(Workers) /\ MaxRequest \in Nat
        BY FiniteWorkers, UploadAssumption
  <2>3. L = UNION {h[v] : v \in Workers}
        BY <1>1, <2>1
  <2>4. /\ IsFiniteSet(L) /\ NatOn(Size, L)
        /\ SumFunctionOnSet(Size, L) + SumFunctionOnSet(owed, Workers)
              <= Cardinality(Workers) * MaxRequest
        BY <2>f, <2>2, <2>3, SumOfParts
  <2> QED BY <2>1, <2>4 DEF Pending
<1>5. FileBytes(TempFiles) <= Pending /\ FileBytes(TempFiles) \in Nat /\ Pending \in Nat
      BY TempOwed, PendingNat
<1>6. PICK O : O = Orphans'
      OBVIOUS
<1>7. PICK p, q, x, f : /\ p = SumFunctionOnSet(Size, Orphans) /\ q = SumFunctionOnSet(Size, O)
                        /\ x = SumFunctionOnSet(Size, L) /\ f = FileBytes(TempFiles)
      OBVIOUS
<1>8. p \in Nat /\ q \in Nat /\ x \in Nat /\ q <= p + x
      BY <1>2, <1>4, <1>6, <1>7, OrphansGrow
<1>9. x + f <= Cardinality(Workers) * MaxRequest /\ f \in Nat
  <2>1. Cardinality(Workers) * MaxRequest \in Nat
        BY FiniteWorkers, UploadAssumption
  <2> QED BY <1>4, <1>5, <1>7, <1>8, <2>1
<1>10. q + (litter + f) <= (troubles + 1) * (Cardinality(Workers) * MaxRequest)
  <2>1. /\ p + litter \in Nat /\ q + (litter + f) \in Nat /\ x + f \in Nat /\ troubles \in Nat
        /\ q + (litter + f) <= (p + litter) + (x + f)
        BY <1>8, <1>9 DEF DiskBase
  <2>2. p + litter <= troubles * (Cardinality(Workers) * MaxRequest)
        BY <1>7 DEF PaidByTroubles
  <2> QED BY <1>9, <2>1, <2>2, OneTrouble
<1> QED BY <1>2, <1>6, <1>7, <1>10 DEF PaidByTroubles

\* What errors and crashes leave on disk is at most one request of each worker
\* for each of them, for any number of them (store.py:86-91).
THEOREM DebrisStaysBounded == Spec => []DebrisBounded
<1> DEFINE Lossless == troubles \in Nat /\ NothingLost
<1>1. Init => PaidByTroubles
  <2> SUFFICES ASSUME Init PROVE PaidByTroubles
      OBVIOUS
  <2>1. Orphans = {} /\ litter = 0 /\ troubles = 0
        BY DEF Init, Orphans, BlobFiles
  <2>2. Cardinality(Workers) * MaxRequest \in Nat
        BY FiniteWorkers, UploadAssumption
  <2>3. 0 + 0 <= 0 * (Cardinality(Workers) * MaxRequest)
        BY <2>2
  <2> QED BY <2>1, <2>3, SumEmpty DEF PaidByTroubles
<1>2. UploadInv /\ DiskBase /\ PaidByTroubles /\ [Next]_vars => PaidByTroubles'
  <2> SUFFICES ASSUME UploadInv, DiskBase, PaidByTroubles, [Next]_vars PROVE PaidByTroubles'
      OBVIOUS
  <2>1. UploadTypes
        BY DEF UploadInv
  <2>2. CASE Orphans' \subseteq Orphans /\ UNCHANGED <<litter, troubles>>
    <3>1. PICK O : O = Orphans'
          OBVIOUS
    <3>2. PICK p, q : p = SumFunctionOnSet(Size, Orphans) /\ q = SumFunctionOnSet(Size, O)
          OBVIOUS
    <3>3. IsFiniteSet({}) /\ NatOn(Size, {}) /\ O \subseteq Orphans \cup {}
          BY <2>2, <3>1, FS_EmptySet DEF NatOn
    <3>4. p \in Nat /\ q \in Nat /\ q <= p + 0
          BY <3>2, <3>3, OrphansGrow, SumEmpty
    <3>5. PICK n \in Nat : n = troubles * (Cardinality(Workers) * MaxRequest)
          BY FiniteWorkers, UploadAssumption DEF DiskBase
    <3>6. q + litter <= n
          BY <3>2, <3>4, <3>5 DEF DiskBase, PaidByTroubles
    <3> QED BY <2>2, <3>1, <3>2, <3>5, <3>6 DEF PaidByTroubles
  <2> QED BY <2>1, <2>2, OrphanStep, RaiseLeaves, CrashLeaves
<1>3. Init => Lossless
      BY DEF Init, NothingLost, Orphans, BlobFiles
<1>4. UploadInv /\ Lossless /\ [Next]_vars => Lossless'
      BY OrphanStep DEF NothingLost, Raise, Crash
<1>5. Lossless /\ PaidByTroubles => DebrisBounded
      BY DEF DebrisBounded
<1> QED BY UploadInit, UploadStep, DiskBaseInit, DiskBaseStep, <1>1, <1>2, <1>3, <1>4, <1>5,
           PTL DEF Spec
=============================================================================
