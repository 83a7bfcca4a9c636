--------------------------- MODULE LimiterProofs ---------------------------
(***************************************************************************)
(* What the unlocked limiter keeps for every number of threads, addresses  *)
(* and slots: the table stays within one entry per racing thread of its    *)
(* limit, no bucket exceeds its burst, only admitted requests pay from the *)
(* global bucket, the ceiling holds but for what overlapping calls give    *)
(* away, and a call that runs alone loses nothing.                         *)
(*                                                                         *)
(* TypeOK needs what the local variables of a call hold at each stage;     *)
(* SlotsOvershootBounded that who is about to insert has either evicted or *)
(* seen room; GlobalOnlyPaysForAdmitted that a value which a slow call is  *)
(* about to store is one the global bucket could have held.                *)
(* GlobalRateHeld needs an account: a call whose values are as if it ran   *)
(* alone is clean, a store can spoil each other call once, and a call that *)
(* is spoilt has a pair of its own among the overlaps to pay for it.       *)
(* What one address gets, AddressRateHeld, is in AddressProofs.            *)
(***************************************************************************)
EXTENDS RateLimiter, FiniteSetTheorems, TLAPS

Holding == {"touch", "elapsed", "refill", "check", "gelapsed", "grefill", "spend"}

\* A call's local variables by its stage.
StageOK(t) ==
    /\ pc[t] # "idle" => ip[t] \in Addresses
    /\ pc[t] \in Holding => mine[t] \in Buckets
    /\ pc[t] = "check" => refilled[t] <= Full
    /\ pc[t] \in {"refill", "grefill"} => refilled[t] >= 0
    /\ pc[t] = "spend" => refilled[t] <= GlobalFull

TypeInv == TypeOK /\ \A t \in Threads : StageOK(t)

\* Costs and bursts are numbers, a cost never zero.
LEMMA Amounts ==
    /\ \A r \in Nat : Cost(r) \in Nat \ {0}
    /\ Full \in Nat /\ GlobalFull \in Nat
    /\ Cost(Refill) \in Nat \ {0} /\ Cost(GlobalRefill) \in Nat \ {0}
<1>1. \A r \in Nat : Cost(r) \in Nat \ {0}
      BY DEF Cost
<1>2. Cost(Refill) \in Nat \ {0} /\ Cost(GlobalRefill) \in Nat \ {0}
      BY <1>1, LimiterAssumption
<1>3. \A m, n \in Nat : m * n \in Nat
      OBVIOUS
<1> QED BY <1>1, <1>2, <1>3, LimiterAssumption DEF Full, GlobalFull

\* The types at the start.
LEMMA TypeInit == Init => TypeInv
<1> SUFFICES ASSUME Init PROVE TypeInv
    OBVIOUS
<1>1. /\ slot \in [Addresses -> Buckets \cup {None}] /\ older \subseteq Addresses \X Addresses
      /\ pc \in [Threads -> Stages \cup {"idle"}] /\ ip \in [Threads -> Addresses \cup {None}]
      /\ mine \in [Threads -> Buckets \cup {None}]
      /\ others \in [Addresses -> SUBSET Addresses] /\ started \in BOOLEAN
      BY DEF Init
<1>2. /\ tokens \in [Buckets -> {n \in Int : n <= Full}] /\ last \in [Buckets -> Nat]
      /\ gtokens \in {n \in Int : n <= GlobalFull} /\ glast \in Nat
      /\ now \in [Threads -> Nat] /\ refilled \in [Threads -> Int]
      BY Amounts DEF Init
<1>3. /\ clock \in Nat /\ lost \in BOOLEAN /\ total \in Nat /\ overlaps \in Nat
      /\ admitted \in [Addresses -> Nat] /\ since \in [Addresses -> Nat]
      BY DEF Init
<1>4. \A t \in Threads : StageOK(t)
      BY DEF Init, StageOK, Holding
<1> QED BY <1>1, <1>2, <1>3, <1>4 DEF TypeInv, TypeOK

\* A call that is over holds nothing; the others are as they were.
LEMMA ReturnKeeps ==
    ASSUME TypeInv, NEW t \in Threads, Return(t)
    PROVE  /\ pc' \in [Threads -> Stages \cup {"idle"}]
           /\ ip' \in [Threads -> Addresses \cup {None}]
           /\ now' \in [Threads -> Nat]
           /\ mine' \in [Threads -> Buckets \cup {None}]
           /\ refilled' \in [Threads -> Int]
           /\ \A u \in Threads : StageOK(u)'
BY Amounts DEF TypeInv, TypeOK, StageOK, Return, Goto, Holding

\* A step of a call that goes on.
LEMMA GotoKeeps ==
    ASSUME TypeInv, NEW t \in Threads, NEW s \in Stages, Goto(t, s),
           UNCHANGED <<ip, now>>,
           mine' \in [Threads -> Buckets \cup {None}],
           refilled' \in [Threads -> Int],
           \A u \in Threads \ {t} : mine'[u] = mine[u] /\ refilled'[u] = refilled[u],
           StageOK(t)'
    PROVE  /\ pc' \in [Threads -> Stages \cup {"idle"}]
           /\ ip' \in [Threads -> Addresses \cup {None}]
           /\ now' \in [Threads -> Nat]
           /\ \A u \in Threads : StageOK(u)'
<1>1. pc' \in [Threads -> Stages \cup {"idle"}] /\ \A u \in Threads \ {t} : pc'[u] = pc[u]
      BY DEF TypeInv, TypeOK, Goto
<1>2. \A u \in Threads \ {t} : StageOK(u)'
      BY <1>1, Amounts DEF TypeInv, StageOK
<1> QED BY <1>1, <1>2 DEF TypeInv, TypeOK

\* Every step keeps the types and what the local variables hold.
LEMMA TypeStep == TypeInv /\ [Next]_vars => TypeInv'
<1> SUFFICES ASSUME TypeInv, [Next]_vars PROVE TypeInv'
    OBVIOUS
<1> USE Amounts, LimiterAssumption
<1>1. ASSUME NEW t \in Threads, NEW a \in Addresses, Arrive(t, a) PROVE TypeInv'
  <2>1. /\ pc' \in [Threads -> Stages \cup {"idle"}]
        /\ ip' \in [Threads -> Addresses \cup {None}]
        /\ now' \in [Threads -> Nat]
        BY <1>1 DEF Arrive, Goto, TypeInv, TypeOK, Stages
  <2>2. admitted' \in [Addresses -> Nat] /\ since' \in [Addresses -> Nat]
        BY <1>1 DEF Arrive, OpenAccount, TypeInv, TypeOK
  <2>3. others' \in [Addresses -> SUBSET Addresses]
        BY <1>1 DEF Arrive, SeenBy, TypeInv, TypeOK
  <2>4. overlaps' \in Nat
    <3>1. IsFiniteSet(Busy)
          BY FS_Subset, Zenon DEF Busy
    <3>2. Cardinality(Busy) \in Nat
          BY <3>1, FS_CardinalityType
    <3> QED BY <3>2, <1>1 DEF Arrive, TypeInv, TypeOK
  <2>5. \A u \in Threads : StageOK(u)'
        BY <1>1 DEF Arrive, Goto, TypeInv, TypeOK, StageOK, Holding
  <2> QED BY <2>1, <2>2, <2>3, <2>4, <2>5, <1>1
          DEF Arrive, TypeInv, TypeOK, table, buckets, global
<1>2. ASSUME NEW t \in Threads, Lookup(t) PROVE TypeInv'
  <2>1. StageOK(t)' /\ mine' \in [Threads -> Buckets \cup {None}]
        BY <1>2 DEF Lookup, Goto, TypeInv, TypeOK, StageOK, Holding
  <2>2. PICK s \in {"full", "touch"} : Goto(t, s)
        BY <1>2 DEF Lookup
  <2>3. glast' \in Nat /\ started' \in BOOLEAN
        BY <1>2 DEF Lookup, TypeInv, TypeOK
  <2>4. UNCHANGED <<ip, now, refilled>> /\ \A u \in Threads \ {t} : mine'[u] = mine[u]
        BY <1>2 DEF Lookup, TypeInv, TypeOK
  <2>5. /\ pc' \in [Threads -> Stages \cup {"idle"}]
        /\ ip' \in [Threads -> Addresses \cup {None}]
        /\ now' \in [Threads -> Nat]
        /\ \A u \in Threads : StageOK(u)'
        BY <2>1, <2>2, <2>4, GotoKeeps DEF TypeInv, TypeOK, Stages
  <2> QED BY <2>1, <2>3, <2>5, <1>2
          DEF Lookup, TypeInv, TypeOK, table, buckets, history
<1>3. ASSUME NEW t \in Threads, CheckFull(t) PROVE TypeInv'
  <2>1. PICK s \in {"evict", "insert"} : Goto(t, s)
        BY <1>3 DEF CheckFull
  <2>2. StageOK(t)'
        BY <1>3, <2>1 DEF CheckFull, Goto, call, TypeInv, TypeOK, StageOK, Holding
  <2>3. UNCHANGED call
        BY <1>3 DEF CheckFull
  <2>4. /\ pc' \in [Threads -> Stages \cup {"idle"}]
        /\ ip' \in [Threads -> Addresses \cup {None}]
        /\ now' \in [Threads -> Nat]
        /\ \A u \in Threads : StageOK(u)'
        BY <2>1, <2>2, <2>3, GotoKeeps DEF call, TypeInv, TypeOK, Stages
  <2> QED BY <2>4, <1>3
          DEF CheckFull, TypeInv, TypeOK, table, buckets, global, call, history
<1>4. ASSUME NEW t \in Threads, Evict(t) PROVE TypeInv'
  <2>1. /\ slot' \in [Addresses -> Buckets \cup {None}]
        /\ older' \subseteq Addresses \X Addresses
        /\ lost' \in BOOLEAN
        BY <1>4 DEF Evict, Drop, Oldest, Tracked, table, TypeInv, TypeOK
  <2>2. /\ pc' \in [Threads -> Stages \cup {"idle"}]
        /\ ip' \in [Threads -> Addresses \cup {None}]
        /\ now' \in [Threads -> Nat]
        /\ mine' \in [Threads -> Buckets \cup {None}]
        /\ refilled' \in [Threads -> Int]
        /\ \A u \in Threads : StageOK(u)'
    <3>1. CASE Return(t)
          BY <3>1, ReturnKeeps
    <3>2. CASE Goto(t, "insert") /\ UNCHANGED call
      <4>1. StageOK(t)'
            BY <1>4, <3>2 DEF Evict, Goto, call, TypeInv, TypeOK, StageOK, Holding
      <4> QED BY <3>2, <4>1, GotoKeeps DEF call, TypeInv, TypeOK, Stages
    <3> QED BY <3>1, <3>2, <1>4 DEF Evict
  <2> QED BY <2>1, <2>2, <1>4 DEF Evict, TypeInv, TypeOK, buckets, global, history
<1>5. ASSUME NEW t \in Threads, Insert(t) PROVE TypeInv'
  <2>1. PICK b \in Buckets :
            /\ tokens' = [tokens EXCEPT ![b] = Full]
            /\ last' = [last EXCEPT ![b] = now[t]]
            /\ slot' = [slot EXCEPT ![ip[t]] = b]
            /\ mine' = [mine EXCEPT ![t] = b]
        BY <1>5 DEF Insert
  <2>2. /\ tokens' \in [Buckets -> {n \in Int : n <= Full}]
        /\ last' \in [Buckets -> Nat]
        BY <2>1 DEF TypeInv, TypeOK
  <2>3. slot' \in [Addresses -> Buckets \cup {None}]
        BY <2>1 DEF TypeInv, TypeOK
  <2>4. ip[t] \in Addresses
        BY <1>5 DEF Insert, TypeInv, StageOK
  <2>5. older' \subseteq Addresses \X Addresses
        BY <1>5, <2>4 DEF Insert, MoveToEnd, Tracked, TypeInv, TypeOK
  <2>6. /\ Goto(t, "elapsed") /\ UNCHANGED <<ip, now, refilled>>
        /\ mine' \in [Threads -> Buckets \cup {None}]
        /\ \A u \in Threads \ {t} : mine'[u] = mine[u]
        BY <1>5, <2>1 DEF Insert, TypeInv, TypeOK
  <2>7. StageOK(t)'
        BY <2>1, <2>4, <2>6 DEF Goto, TypeInv, TypeOK, StageOK, Holding
  <2>8. /\ pc' \in [Threads -> Stages \cup {"idle"}]
        /\ ip' \in [Threads -> Addresses \cup {None}]
        /\ now' \in [Threads -> Nat]
        /\ \A u \in Threads : StageOK(u)'
        BY <2>6, <2>7, GotoKeeps DEF TypeInv, TypeOK, Stages
  <2> QED BY <2>2, <2>3, <2>5, <2>6, <2>8, <1>5
          DEF Insert, TypeInv, TypeOK, global, history
<1>6. ASSUME NEW t \in Threads, Touch(t) PROVE TypeInv'
  <2>1. slot' = slot /\ lost' \in BOOLEAN
        BY <1>6 DEF Touch, table, TypeInv, TypeOK
  <2>3. ip[t] \in Addresses
        BY <1>6 DEF Touch, TypeInv, StageOK
  <2>4. older' \subseteq Addresses \X Addresses
        BY <1>6, <2>3 DEF Touch, MoveToEnd, Tracked, table, TypeInv, TypeOK
  <2>2. /\ pc' \in [Threads -> Stages \cup {"idle"}]
        /\ ip' \in [Threads -> Addresses \cup {None}]
        /\ now' \in [Threads -> Nat]
        /\ mine' \in [Threads -> Buckets \cup {None}]
        /\ refilled' \in [Threads -> Int]
        /\ \A u \in Threads : StageOK(u)'
    <3>1. CASE Return(t)
          BY <3>1, ReturnKeeps
    <3>2. CASE Goto(t, "elapsed") /\ UNCHANGED call
      <4>1. StageOK(t)'
            BY <1>6, <3>2 DEF Touch, Goto, call, TypeInv, TypeOK, StageOK, Holding
      <4> QED BY <3>2, <4>1, GotoKeeps DEF call, TypeInv, TypeOK, Stages
    <3> QED BY <3>1, <3>2, <1>6 DEF Touch
  <2> QED BY <2>1, <2>2, <2>4, <1>6 DEF Touch, TypeInv, TypeOK, buckets, global, history
<1>7. ASSUME NEW t \in Threads,
             \/ Elapsed(t) \/ Refilled(t) \/ GlobalElapsed(t) \/ GlobalRefilled(t)
      PROVE  TypeInv'
  <2>1. UNCHANGED <<clock, table, buckets, global, ip, now, mine, lost, history>>
        BY <1>7 DEF Elapsed, Refilled, GlobalElapsed, GlobalRefilled
  <2>2. PICK s \in {"refill", "check", "grefill", "spend"} : Goto(t, s)
        BY <1>7 DEF Elapsed, Refilled, GlobalElapsed, GlobalRefilled
  <2>3. now[t] \in Nat /\ glast \in Nat /\ gtokens \in Int /\ refilled[t] \in Int
        /\ ip[t] \in Addresses
        /\ (pc[t] \in Holding
              => mine[t] \in Buckets /\ tokens[mine[t]] \in Int /\ last[mine[t]] \in Nat)
        BY <1>7 DEF Elapsed, Refilled, GlobalElapsed, GlobalRefilled,
                    TypeInv, TypeOK, StageOK
  <2>4. \A x, y \in Nat : Elapse(x, y) \in Nat
        BY DEF Elapse
  <2>5. \A x, y \in Int : Least(x, y) \in Int /\ Least(x, y) <= x
        BY DEF Least
  <2>6. /\ refilled' = [refilled EXCEPT ![t] = refilled'[t]]
        /\ refilled'[t] \in Int
        /\ pc'[t] = "check" => refilled'[t] <= Full
        /\ pc'[t] \in {"refill", "grefill"} => refilled'[t] >= 0
        /\ pc'[t] = "spend" => refilled'[t] <= GlobalFull
    <3>1. CASE Elapsed(t)
          BY <3>1, <2>3, <2>4 DEF Elapsed, Goto, Holding, TypeInv, TypeOK
    <3>2. CASE Refilled(t)
          BY <3>2, <2>3, <2>5 DEF Refilled, Goto, Holding, TypeInv, TypeOK
    <3>3. CASE GlobalElapsed(t)
          BY <3>3, <2>3, <2>4 DEF GlobalElapsed, Goto, TypeInv, TypeOK
    <3>4. CASE GlobalRefilled(t)
          BY <3>4, <2>3, <2>5 DEF GlobalRefilled, Goto, TypeInv, TypeOK
    <3> QED BY <3>1, <3>2, <3>3, <3>4, <1>7
  <2>7. refilled' \in [Threads -> Int] /\ \A u \in Threads \ {t} : refilled'[u] = refilled[u]
        BY <2>6 DEF TypeInv, TypeOK
  <2>8. pc[t] \in Holding
        BY <1>7 DEF Elapsed, Refilled, GlobalElapsed, GlobalRefilled, Holding
  <2>9. StageOK(t)'
        BY <2>1, <2>3, <2>6, <2>8 DEF TypeInv, TypeOK, StageOK
  <2>10. /\ pc' \in [Threads -> Stages \cup {"idle"}]
         /\ ip' \in [Threads -> Addresses \cup {None}]
         /\ now' \in [Threads -> Nat]
         /\ \A u \in Threads : StageOK(u)'
         BY <2>1, <2>2, <2>7, <2>9, GotoKeeps DEF TypeInv, TypeOK, Stages
  <2> QED BY <2>1, <2>7, <2>10 DEF TypeInv, TypeOK, table, buckets, global, history
<1>8. ASSUME NEW t \in Threads, Check(t) PROVE TypeInv'
  <2>1. mine[t] \in Buckets /\ refilled[t] <= Full /\ refilled[t] \in Int /\ now[t] \in Nat
        BY <1>8 DEF Check, TypeInv, TypeOK, StageOK, Holding
  <2>2. /\ tokens' \in [Buckets -> {n \in Int : n <= Full}]
        /\ last' \in [Buckets -> Nat]
        BY <1>8, <2>1 DEF Check, TypeInv, TypeOK
  <2>3. /\ pc' \in [Threads -> Stages \cup {"idle"}]
        /\ ip' \in [Threads -> Addresses \cup {None}]
        /\ now' \in [Threads -> Nat]
        /\ mine' \in [Threads -> Buckets \cup {None}]
        /\ refilled' \in [Threads -> Int]
        /\ \A u \in Threads : StageOK(u)'
    <3>1. CASE Return(t)
          BY <3>1, ReturnKeeps
    <3>2. CASE Goto(t, "gelapsed") /\ UNCHANGED call
      <4>1. StageOK(t)'
            BY <1>8, <3>2 DEF Check, Goto, call, TypeInv, TypeOK, StageOK, Holding
      <4> QED BY <3>2, <4>1, GotoKeeps DEF call, TypeInv, TypeOK, Stages
    <3> QED BY <3>1, <3>2, <1>8 DEF Check
  <2> QED BY <2>2, <2>3, <1>8 DEF Check, TypeInv, TypeOK, table, global, history
<1>9. ASSUME NEW t \in Threads, Spend(t) PROVE TypeInv'
  <2>1. /\ mine[t] \in Buckets /\ refilled[t] <= GlobalFull /\ refilled[t] \in Int
        /\ now[t] \in Nat /\ ip[t] \in Addresses
        BY <1>9 DEF Spend, TypeInv, TypeOK, StageOK, Holding
  <2>2. gtokens' \in {n \in Int : n <= GlobalFull} /\ glast' \in Nat
        BY <1>9, <2>1 DEF Spend, TypeInv, TypeOK
  <2>3. tokens' \in [Buckets -> {n \in Int : n <= Full}]
    <3>1. tokens[mine[t]] \in Int /\ tokens[mine[t]] <= Full
          BY <2>1 DEF TypeInv, TypeOK
    <3>2. tokens[mine[t]] - Cost(Refill) \in {n \in Int : n <= Full}
          BY <3>1
    <3>3. CASE tokens' = tokens
          BY <3>3 DEF TypeInv, TypeOK
    <3>4. CASE tokens' = [tokens EXCEPT ![mine[t]] = tokens[mine[t]] - Cost(Refill)]
          BY <3>2, <3>4 DEF TypeInv, TypeOK
    <3> QED BY <3>3, <3>4, <1>9 DEF Spend
  <2>4. admitted' \in [Addresses -> Nat] /\ total' \in Nat
        BY <1>9, <2>1 DEF Spend, TypeInv, TypeOK
  <2> QED BY <2>2, <2>3, <2>4, <1>9, ReturnKeeps DEF Spend, TypeInv, TypeOK, table
<1>10. ASSUME Tick PROVE TypeInv'
  <2>1. clock' \in Nat
        BY <1>10 DEF Tick, TypeInv, TypeOK
  <2> QED BY <2>1, <1>10
          DEF Tick, TypeInv, TypeOK, StageOK, table, buckets, global, call, history
<1>11. ASSUME UNCHANGED vars PROVE TypeInv'
       BY <1>11 DEF vars, TypeInv, TypeOK, StageOK, table, buckets, global, call, history
<1> QED BY <1>1, <1>2, <1>3, <1>4, <1>5, <1>6, <1>7, <1>8, <1>9, <1>10, <1>11
        DEF Next, Step

\* Every reachable state of the limiter is well typed, and no bucket ever holds
\* more than its burst, whatever calls race (min in _refill).
THEOREM LimiterTypeCorrect == Spec => []TypeOK
<1>1. Spec => []TypeInv
      BY TypeInit, TypeStep, PTL DEF Spec
<1>2. TypeInv => TypeOK
      BY DEF TypeInv
<1> QED BY <1>1, <1>2, PTL
-----------------------------------------------------------------------------
(* The size of the table.                                                  *)

Inserting == {t \in Threads : pc[t] = "insert"}

SlotsInv ==
    Cardinality(Tracked) + Cardinality(Inserting) <= Slots - 1 + Cardinality(Threads)

\* The table and the threads about to insert are finite.
LEMMA Counts ==
    /\ IsFiniteSet(Tracked) /\ IsFiniteSet(Inserting)
    /\ Cardinality(Tracked) \in Nat /\ Cardinality(Inserting) \in Nat
    /\ Cardinality(Threads) \in Nat
    /\ Cardinality(Inserting) <= Cardinality(Threads)
<1>1. IsFiniteSet(Tracked) /\ IsFiniteSet(Inserting)
      BY LimiterAssumption, FS_Subset, Zenon DEF Tracked, Inserting
<1>2. Inserting \subseteq Threads
      BY DEF Inserting
<1> QED BY <1>1, <1>2, LimiterAssumption, FS_CardinalityType, FS_Subset

\* The table starts empty.
LEMMA SlotsInit == Init => SlotsInv
<1> SUFFICES ASSUME Init PROVE SlotsInv
    OBVIOUS
<1>1. Tracked = {} /\ Inserting = {}
      BY DEF Init, Tracked, Inserting
<1> QED BY <1>1, FS_EmptySet, Counts, LimiterAssumption DEF SlotsInv

\* Who is about to insert has evicted or seen room.
LEMMA SlotsStep == TypeInv /\ TypeInv' /\ SlotsInv /\ [Next]_vars => SlotsInv'
<1> SUFFICES ASSUME TypeInv, TypeInv', SlotsInv, [Next]_vars PROVE SlotsInv'
    OBVIOUS
<1>0. /\ IsFiniteSet(Tracked) /\ IsFiniteSet(Inserting) /\ IsFiniteSet(Inserting')
      /\ Cardinality(Tracked) \in Nat /\ Cardinality(Inserting) \in Nat
      /\ Cardinality(Threads) \in Nat
      /\ Cardinality(Inserting') <= Cardinality(Threads)
      /\ Cardinality(Inserting') \in Nat
  <2>1. Inserting' \subseteq Threads
        BY DEF Inserting
  <2> QED BY <2>1, Counts, LimiterAssumption, FS_Subset, FS_CardinalityType
<1>1. ASSUME slot' = slot, Inserting' \subseteq Inserting PROVE SlotsInv'
  <2>1. Tracked' = Tracked
        BY <1>1 DEF Tracked
  <2>2. Cardinality(Inserting') <= Cardinality(Inserting)
        BY <1>0, <1>1, FS_Subset
  <2> QED BY <1>0, <2>1, <2>2, LimiterAssumption DEF SlotsInv
<1>2. ASSUME NEW t \in Threads, CheckFull(t), pc'[t] = "insert" PROVE SlotsInv'
  <2>1. Cardinality(Tracked) < Slots /\ Tracked' = Tracked
        BY <1>2, <1>0, LimiterAssumption
           DEF CheckFull, Goto, TypeInv, TypeOK, table, Tracked
  <2> QED BY <2>1, <1>0, LimiterAssumption DEF SlotsInv
<1>3. ASSUME NEW t \in Threads, Evict(t) PROVE SlotsInv'
  <2>1. CASE Return(t) /\ UNCHANGED table
        BY <2>1, <1>1 DEF Return, Goto, Inserting, table, TypeInv, TypeOK
  <2>2. CASE Goto(t, "insert") /\ \E a \in Oldest : Drop(a)
    <3>1. PICK a \in Tracked : Drop(a)
          BY <2>2 DEF Oldest
    <3>2. Tracked' = Tracked \ {a}
          BY <3>1 DEF Drop, Tracked, TypeInv, TypeOK
    <3>3. Cardinality(Tracked') = Cardinality(Tracked) - 1
          BY <3>2, <1>0, FS_RemoveElement
    <3>4. Inserting' = Inserting \cup {t} /\ t \notin Inserting
          BY <1>3, <2>2 DEF Evict, Goto, Inserting, TypeInv, TypeOK
    <3>5. Cardinality(Inserting') = Cardinality(Inserting) + 1
          BY <3>4, <1>0, FS_AddElement
    <3> QED BY <3>3, <3>5, <1>0, LimiterAssumption DEF SlotsInv
  <2> QED BY <2>1, <2>2, <1>3 DEF Evict
<1>4. ASSUME NEW t \in Threads, Insert(t) PROVE SlotsInv'
  <2>1. ip[t] \in Addresses
        BY <1>4 DEF Insert, TypeInv, StageOK
  <2>2. Tracked' = Tracked \cup {ip[t]}
        BY <2>1, <1>4, LimiterAssumption DEF Insert, Tracked, TypeInv, TypeOK
  <2>3. /\ Cardinality(Tracked') <= Cardinality(Tracked) + 1
        /\ Cardinality(Tracked') \in Nat
    <3>1. Cardinality(Tracked \cup {ip[t]}) = IF ip[t] \in Tracked THEN Cardinality(Tracked)
                                              ELSE Cardinality(Tracked) + 1
          BY <1>0, FS_AddElement, Zenon
    <3> QED BY <3>1, <2>2, <1>0
  <2>4. Inserting' = Inserting \ {t} /\ t \in Inserting
        BY <1>4 DEF Insert, Goto, Inserting, TypeInv, TypeOK
  <2>5. Cardinality(Inserting') = Cardinality(Inserting) - 1
        BY <2>4, <1>0, FS_RemoveElement
  <2> QED BY <2>3, <2>5, <1>0, LimiterAssumption DEF SlotsInv
<1>5. ASSUME NEW t \in Threads, CheckFull(t), pc'[t] # "insert" PROVE SlotsInv'
      BY <1>5, <1>1 DEF CheckFull, Goto, Inserting, table, TypeInv, TypeOK
<1>6. ASSUME NEW t \in Threads,
             \/ Lookup(t) \/ Touch(t) \/ Elapsed(t) \/ Refilled(t) \/ Check(t)
             \/ GlobalElapsed(t) \/ GlobalRefilled(t) \/ Spend(t)
             \/ \E a \in Addresses : Arrive(t, a)
      PROVE  SlotsInv'
  <2>1. slot' = slot
        BY <1>6 DEF Lookup, Touch, Elapsed, Refilled, Check, GlobalElapsed, GlobalRefilled,
                    Spend, Arrive, table
  <2>2. Inserting' \subseteq Inserting
        BY <1>6 DEF Lookup, Touch, Elapsed, Refilled, Check, GlobalElapsed, GlobalRefilled,
                    Spend, Arrive, Goto, Return, Inserting, TypeInv, TypeOK
  <2> QED BY <2>1, <2>2, <1>1
<1>7. ASSUME Tick \/ UNCHANGED vars PROVE SlotsInv'
      BY <1>7, <1>1 DEF Tick, vars, table, Inserting
<1> QED BY <1>2, <1>3, <1>4, <1>5, <1>6, <1>7 DEF Next, Step

\* However calls race, the table exceeds its limit by less than the number of
\* threads (len, popitem and the assignment in allow).
THEOREM SlotsBounded == Spec => []SlotsOvershootBounded
<1>1. Spec => [](TypeInv /\ SlotsInv)
  <2>1. Init => TypeInv /\ SlotsInv
        BY TypeInit, SlotsInit
  <2>2. (TypeInv /\ SlotsInv) /\ [Next]_vars => (TypeInv /\ SlotsInv)'
        BY TypeStep, SlotsStep
  <2> QED BY <2>1, <2>2, PTL DEF Spec
<1>2. SlotsInv => SlotsOvershootBounded
      BY Counts, LimiterAssumption DEF SlotsInv, SlotsOvershootBounded
<1> QED BY <1>1, <1>2, PTL
-----------------------------------------------------------------------------
(* Who pays from the global bucket.                                        *)

Floor == GlobalFull - total * Cost(GlobalRefill)

PaidInv ==
    /\ gtokens >= Floor
    /\ \A t \in Threads : pc[t] = "spend" => refilled[t] >= Floor

\* An admission lowers the floor by its cost, and nothing else does.
LEMMA FloorFalls ==
    ASSUME TypeInv
    PROVE  /\ Floor \in Int /\ Floor <= GlobalFull
           /\ total' = total => Floor' = Floor
           /\ total' = total + 1 => Floor' = Floor - Cost(GlobalRefill)
<1>1. \A m, n \in Nat : m * n \in Nat /\ (m + 1) * n = m * n + n
      OBVIOUS
<1>2. total \in Nat
      BY DEF TypeInv, TypeOK
<1>3. Cost(GlobalRefill)' = Cost(GlobalRefill) /\ GlobalFull' = GlobalFull
      BY DEF Cost, GlobalFull
<1>4. /\ total * Cost(GlobalRefill) \in Nat
      /\ (total + 1) * Cost(GlobalRefill) = total * Cost(GlobalRefill) + Cost(GlobalRefill)
      BY <1>1, <1>2, Amounts
<1> QED BY <1>3, <1>4, Amounts DEF Floor

\* No step takes from the global bucket without an admission.
LEMMA PaidStep == TypeInv /\ TypeInv' /\ PaidInv /\ [Next]_vars => PaidInv'
<1> SUFFICES ASSUME TypeInv, TypeInv', PaidInv, [Next]_vars PROVE PaidInv'
    OBVIOUS
<1>0. /\ \A t \in Threads : refilled[t] \in Int
      /\ gtokens \in Int
      BY DEF TypeInv, TypeOK
<1>1. ASSUME UNCHANGED <<gtokens, total>>,
             \A t \in Threads : pc'[t] = "spend" => pc[t] = "spend" /\ refilled'[t] = refilled[t]
      PROVE  PaidInv'
      BY <1>1, FloorFalls DEF PaidInv
<1>2. ASSUME NEW t \in Threads, GlobalRefilled(t) PROVE PaidInv'
  <2>1. refilled[t] >= 0
        BY <1>2 DEF GlobalRefilled, TypeInv, StageOK
  <2>2. refilled'[t] = IF GlobalRefill = 0 THEN GlobalFull
                       ELSE Least(GlobalFull, gtokens + refilled[t])
        BY <1>2 DEF GlobalRefilled, TypeInv, TypeOK
  <2>3. refilled'[t] >= Floor
        BY <2>1, <2>2, <1>0, FloorFalls, Amounts DEF PaidInv, Least
  <2>4. UNCHANGED <<gtokens, total>>
        BY <1>2 DEF GlobalRefilled, global, history
  <2>5. \A u \in Threads \ {t} : pc'[u] = pc[u] /\ refilled'[u] = refilled[u]
        BY <1>2 DEF GlobalRefilled, Goto, TypeInv, TypeOK
  <2> QED BY <2>3, <2>4, <2>5, FloorFalls DEF PaidInv
<1>3. ASSUME NEW t \in Threads, Spend(t) PROVE PaidInv'
  <2>1. refilled[t] >= Floor
        BY <1>3 DEF Spend, PaidInv
  <2>2. /\ pc'[t] = "idle"
        /\ \A u \in Threads \ {t} : pc'[u] = pc[u] /\ refilled'[u] = refilled[u]
        BY <1>3 DEF Spend, Return, Goto, TypeInv, TypeOK
  <2>3. CASE gtokens' = refilled[t] /\ total' = total
        BY <2>1, <2>2, <2>3, FloorFalls DEF PaidInv
  <2>4. CASE gtokens' = refilled[t] - Cost(GlobalRefill) /\ total' = total + 1
        BY <2>1, <2>2, <2>4, <1>0, FloorFalls, Amounts DEF PaidInv
  <2> QED BY <2>3, <2>4, <1>3 DEF Spend
<1>4. ASSUME NEW t \in Threads,
             \/ Lookup(t) \/ CheckFull(t) \/ Evict(t) \/ Insert(t) \/ Touch(t)
             \/ Elapsed(t) \/ Refilled(t) \/ Check(t) \/ GlobalElapsed(t)
             \/ \E a \in Addresses : Arrive(t, a)
      PROVE  PaidInv'
  <2>1. UNCHANGED <<gtokens, total>>
        BY <1>4 DEF Lookup, CheckFull, Evict, Insert, Touch, Elapsed, Refilled, Check,
                    GlobalElapsed, Arrive, global, history
  <2>2. pc'[t] # "spend" /\ \A u \in Threads \ {t} : pc'[u] = pc[u] /\ refilled'[u] = refilled[u]
        BY <1>4 DEF Lookup, CheckFull, Evict, Insert, Touch, Elapsed, Refilled, Check,
                    GlobalElapsed, Arrive, Goto, Return, call, TypeInv, TypeOK
  <2> QED BY <2>1, <2>2, <1>1
<1>5. ASSUME Tick \/ UNCHANGED vars PROVE PaidInv'
      BY <1>5, <1>1 DEF Tick, vars, global, call, history
<1> QED BY <1>2, <1>3, <1>4, <1>5 DEF Next, Step

\* A refused request takes nothing from the ceiling, whatever calls race: what
\* the global bucket lacks, admitted requests have paid for (allow).
THEOREM GlobalPaidForAdmitted == Spec => []GlobalOnlyPaysForAdmitted
<1>1. Init => PaidInv
  <2> SUFFICES ASSUME Init PROVE PaidInv
      OBVIOUS
  <2>1. Floor <= gtokens
        BY TypeInit, FloorFalls DEF Init
  <2> QED BY <2>1, TypeInit, FloorFalls, Amounts DEF Init, PaidInv
<1>2. Spec => [](TypeInv /\ PaidInv)
  <2>1. Init => TypeInv /\ PaidInv
        BY TypeInit, <1>1
  <2>2. (TypeInv /\ PaidInv) /\ [Next]_vars => (TypeInv /\ PaidInv)'
        BY TypeStep, PaidStep
  <2> QED BY <2>1, <2>2, PTL DEF Spec
<1>3. PaidInv => GlobalOnlyPaysForAdmitted
      BY DEF PaidInv, GlobalOnlyPaysForAdmitted, Floor
<1> QED BY <1>2, <1>3, PTL
-----------------------------------------------------------------------------
(* One call at a time.                                                     *)

AloneInv ==
    overlaps = 0 =>
        /\ ~ lost
        /\ \A t, u \in Busy : t = u
        /\ \A t \in Threads : /\ pc[t] = "touch" => slot[ip[t]] # None
                              /\ pc[t] = "evict" => Tracked # {}

\* As long as no calls overlapped, what a call looked up or counted is still so.
LEMMA AloneStep == TypeInv /\ AloneInv /\ [Next]_vars => AloneInv'
<1> SUFFICES ASSUME TypeInv, AloneInv, [Next]_vars, overlaps' = 0
             PROVE  /\ ~ lost'
                    /\ \A t, u \in Busy' : t = u
                    /\ \A t \in Threads : /\ pc'[t] = "touch" => slot'[ip'[t]] # None
                                          /\ pc'[t] = "evict" => Tracked' # {}
    BY DEF AloneInv
<1> USE LimiterAssumption DEF TypeInv, TypeOK
<1>f. IsFiniteSet(Busy) /\ Cardinality(Busy) \in Nat /\ IsFiniteSet(Tracked)
      /\ Cardinality(Tracked) \in Nat
      BY FS_Subset, FS_CardinalityType DEF Busy, Tracked
<1>1. ASSUME NEW t \in Threads, NEW a \in Addresses, Arrive(t, a)
      PROVE  /\ ~ lost'
             /\ \A v, u \in Busy' : v = u
             /\ \A v \in Threads : pc'[v] \notin {"touch", "evict"}
  <2>1. overlaps = 0 /\ Cardinality(Busy) = 0
        BY <1>1, <1>f DEF Arrive
  <2>2. Busy = {}
        BY <1>f, <2>1, FS_EmptySet
  <2>3. /\ lost' = lost /\ pc' = [pc EXCEPT ![t] = "lookup"]
        BY <1>1 DEF Arrive, Goto
  <2> QED BY <2>1, <2>2, <2>3 DEF AloneInv, Busy
<1>2. ASSUME NEW t \in Threads, Step(t)
      PROVE  /\ ~ lost'
             /\ \A v, u \in Busy' : v = u
             /\ \A v \in Threads : /\ pc'[v] = "touch" => slot'[ip'[v]] # None
                                   /\ pc'[v] = "evict" => Tracked' # {}
  <2>1. overlaps = 0 /\ pc[t] # "idle" /\ \A u \in Threads \ {t} : pc'[u] = pc[u]
        BY <1>2 DEF Step, Lookup, CheckFull, Evict, Insert, Touch, Elapsed, Refilled, Check,
                    GlobalElapsed, GlobalRefilled, Spend, Return, Goto, history
  <2>2. \A u \in Threads \ {t} : pc[u] = "idle"
        BY <2>1 DEF AloneInv, Busy
  <2>3. \A v, u \in Busy' : v = u
        BY <2>1, <2>2 DEF Busy
  <2>4. ~ lost'
        BY <1>2, <2>1 DEF AloneInv, Step, Lookup, CheckFull, Evict, Insert, Touch, Elapsed,
                    Refilled, Check, GlobalElapsed, GlobalRefilled, Spend
  <2>5. pc'[t] = "touch" => slot'[ip'[t]] # None
        BY <1>2 DEF Step, Lookup, CheckFull, Evict, Insert, Touch, Elapsed,
                    Refilled, Check, GlobalElapsed, GlobalRefilled, Spend, Return, Goto, table
  <2>6. pc'[t] = "evict" => Tracked' # {}
    <3>1. Cardinality({}) = 0
          BY FS_EmptySet
    <3>2. CASE CheckFull(t)
      <4>1. pc'[t] = "evict" => Cardinality(Tracked) >= Slots
            BY <3>2 DEF CheckFull, Goto
      <4>2. Tracked' = Tracked
            BY <3>2 DEF CheckFull, table, Tracked
      <4>3. Tracked = {} => Cardinality(Tracked) = 0
            BY <3>1
      <4>4. pc'[t] = "evict" => Tracked # {}
            BY <1>f, <4>1, <4>3
      <4> QED BY <4>2, <4>4
    <3>3. CASE ~ CheckFull(t)
          BY <1>2, <3>3 DEF Step, Lookup, Evict, Insert, Touch, Elapsed, Refilled, Check,
                    GlobalElapsed, GlobalRefilled, Spend, Return, Goto
    <3> QED BY <3>2, <3>3
  <2> QED BY <2>1, <2>2, <2>3, <2>4, <2>5, <2>6
<1>3. ASSUME Tick \/ UNCHANGED vars
      PROVE  UNCHANGED <<lost, pc, slot, ip, overlaps>>
      BY <1>3 DEF Tick, vars, table, call, history
<1> QED BY <1>1, <1>2, <1>3 DEF Next, AloneInv, Busy, Tracked

\* KeyError needs two calls at once: one thread at a time finds the slot it
\* looked up, and something to evict in a full table (allow).
THEOREM AloneNothingLost == Spec => []LostOnlyToRaces
<1>1. Init => AloneInv
      BY DEF Init, AloneInv, Busy
<1>2. TypeInv /\ AloneInv => LostOnlyToRaces
      BY DEF TypeInv, TypeOK, AloneInv, LostOnlyToRaces
<1> QED BY TypeInit, TypeStep, AloneStep, <1>1, <1>2, PTL DEF Spec
-----------------------------------------------------------------------------
(* The ceiling's rate.  A call is clean while what it has computed is no   *)
(* more than what the global bucket holds and its clock reading allows;    *)
(* when another call stores into the bucket it may be clean no longer, and *)
(* then it can give away a burst and set the bucket's clock back.  Of two  *)
(* calls that run at once only the one that ends last can do so: it is     *)
(* charged to the pair, and a pair that still runs is not yet charged.     *)

Clean(t) ==
    /\ pc[t] = "grefill" => refilled[t] <= Elapse(now[t], glast)
    /\ pc[t] = "spend" => refilled[t] <= gtokens + Elapse(now[t], glast)

Pairs(n) == (n * (n - 1)) \div 2

\* What was given out and can be given out at once.
Given == total * Cost(GlobalRefill) + gtokens

Allowed(x, e) == x + GlobalFull + e * (GlobalFull + MaxStall)

\* The calls in D are not clean; e pairs of calls are over or can do no harm.
RateOf(D, e) ==
    /\ D \subseteq Busy
    /\ e = overlaps - Cardinality(D) - Pairs(Cardinality(Busy))
    /\ ~ started => D = {}
    /\ Given <= Allowed(glast, e)
    /\ \A t \in Busy \ D : Clean(t) /\ Given <= Allowed(now[t], e)

RateInv == \E D, e : RateOf(D, e)

\* A clock reading is at most MaxStall old, and the global bucket is not
\* overdrawn.
TimesInv ==
    /\ gtokens >= 0 /\ glast <= clock
    /\ \A t \in Busy : /\ now[t] <= clock /\ clock <= now[t] + MaxStall
                       /\ pc[t] = "spend" => refilled[t] >= 0
                       /\ ~ started => pc[t] = "lookup"

\* One more call pairs with each that runs.
LEMMA PairsGrow ==
    ASSUME NEW n \in Nat
    PROVE  Pairs(n) \in Nat /\ Pairs(n + 1) = Pairs(n) + n
<1>1. n * (n - 1) \in Nat /\ (n + 1) * n = n * (n - 1) + 2 * n /\ (n + 1) - 1 = n
  <2>1. CASE n = 0
        BY <2>1
  <2>2. CASE n # 0
    <3> DEFINE k == n - 1
    <3>1. k \in Nat /\ n = k + 1
          BY <2>2
    <3> HIDE DEF k
    <3>2. n * k \in Nat /\ (n + 1) * n = n * k + 2 * n
          BY <3>1
    <3> QED BY <3>2 DEF k
  <2> QED BY <2>1, <2>2
<1> DEFINE m == n * (n - 1)
<1>2. Pairs(n) = m \div 2 /\ Pairs(n + 1) = (m + 2 * n) \div 2
      BY <1>1 DEF Pairs
<1>3. m \in Nat
      BY <1>1
<1> HIDE DEF m
<1> QED BY <1>2, <1>3

\* More is allowed later, and for more pairs.
LEMMA AllowedGrows ==
    ASSUME NEW x \in Int, NEW y \in Int, x <= y, NEW d \in Int, NEW e \in Int, d <= e
    PROVE  /\ Allowed(x, d) \in Int /\ Allowed(y, e) \in Int /\ Allowed(x, d) <= Allowed(y, e)
           /\ Allowed(x, e + 1) = Allowed(x, e) + GlobalFull + MaxStall
<1> DEFINE M == GlobalFull + MaxStall
           k == e - d
<1>1. M \in Nat /\ k \in Nat /\ e = d + k /\ GlobalFull \in Int
      BY Amounts, LimiterAssumption
<1>2. /\ Allowed(x, d) = x + GlobalFull + d * M /\ Allowed(y, e) = y + GlobalFull + e * M
      /\ Allowed(x, e) = x + GlobalFull + e * M
      /\ Allowed(x, e + 1) = x + GlobalFull + (e + 1) * M
      BY DEF Allowed
<1> HIDE DEF M, k
<1>3. (d + k) * M = d * M + k * M /\ k * M \in Nat /\ d * M \in Int
      /\ (e + 1) * M = e * M + M
      BY <1>1
<1>4. Allowed(x, e + 1) = Allowed(x, e) + M
      BY <1>1, <1>2, <1>3
<1>5. Allowed(x, d) \in Int /\ Allowed(y, e) \in Int /\ Allowed(x, d) <= Allowed(y, e)
      BY <1>1, <1>2, <1>3
<1>6. Allowed(x, e + 1) = Allowed(x, e) + (GlobalFull + MaxStall)
      BY <1>4 DEF M
<1>7. Allowed(x, e) \in Int /\ MaxStall \in Int
      BY <1>1, <1>2, <1>3, LimiterAssumption
<1> QED BY <1>1, <1>5, <1>6, <1>7

\* ... and by a burst and a stall for a pair.
LEMMA AllowedNext ==
    ASSUME NEW x \in Int, NEW e \in Int
    PROVE  Allowed(x, e + 1) = Allowed(x, e) + GlobalFull + MaxStall /\ Allowed(x, e) \in Int
<1>1. x <= x /\ e <= e
      OBVIOUS
<1> QED BY <1>1, AllowedGrows

\* The numbers the argument is about.
RateNumbers ==
    /\ IsFiniteSet(Busy) /\ Cardinality(Busy) \in Nat /\ Busy \subseteq Threads
    /\ total \in Nat /\ overlaps \in Nat /\ gtokens \in Int /\ glast \in Nat /\ clock \in Nat
    /\ Given \in Int
    /\ \A t \in Threads : now[t] \in Nat /\ refilled[t] \in Int
    /\ \A D \in SUBSET Busy : IsFiniteSet(D) /\ Cardinality(D) \in Nat
    /\ \A D, e : RateOf(D, e) => e \in Int

\* They are numbers wherever the types hold.
LEMMA RateNumbersHold == TypeInv => RateNumbers
<1> SUFFICES ASSUME TypeInv PROVE RateNumbers
    OBVIOUS
<1>1. IsFiniteSet(Busy) /\ Cardinality(Busy) \in Nat /\ Busy \subseteq Threads
      BY LimiterAssumption, FS_Subset, FS_CardinalityType DEF Busy
<1>2. /\ total \in Nat /\ overlaps \in Nat /\ gtokens \in Int /\ glast \in Nat /\ clock \in Nat
      /\ \A t \in Threads : now[t] \in Nat /\ refilled[t] \in Int
      BY DEF TypeInv, TypeOK
<1>3. Given \in Int
  <2>1. total * Cost(GlobalRefill) \in Int
        BY <1>2, Amounts
  <2> QED BY <1>2, <2>1 DEF Given
<1>4. \A D \in SUBSET Busy : IsFiniteSet(D) /\ Cardinality(D) \in Nat
      BY <1>1, FS_Subset, FS_CardinalityType
<1>5. Pairs(Cardinality(Busy)) \in Nat
      BY <1>1, PairsGrow
<1>6. \A D, e : RateOf(D, e) => e \in Int
      BY <1>2, <1>4, <1>5 DEF RateOf
<1> QED BY <1>1, <1>2, <1>3, <1>4, <1>6 DEF RateNumbers

\* No stored time lies ahead of the clock, and no call runs longer than a stall.
LEMMA TimesStep == TypeInv /\ TypeInv' /\ TimesInv /\ [Next]_vars => TimesInv'
<1> SUFFICES ASSUME TypeInv, TypeInv', TimesInv, [Next]_vars PROVE TimesInv'
    OBVIOUS
<1> USE LimiterAssumption, Amounts DEF TypeInv, TypeOK
<1>1. ASSUME NEW t \in Threads, NEW a \in Addresses, Arrive(t, a) PROVE TimesInv'
  <2>1. /\ pc' = [pc EXCEPT ![t] = "lookup"] /\ now' = [now EXCEPT ![t] = clock]
        /\ UNCHANGED <<clock, gtokens, glast, started, refilled>>
        BY <1>1 DEF Arrive, Goto, global
  <2> QED BY <2>1 DEF TimesInv, Busy
<1>2. ASSUME NEW t \in Threads, Lookup(t) PROVE TimesInv'
  <2>1. /\ pc[t] = "lookup" /\ pc' = [pc EXCEPT ![t] = pc'[t]] /\ started' = TRUE
        /\ pc'[t] # "spend"
        /\ glast' = IF started THEN glast ELSE now[t]
        /\ UNCHANGED <<clock, gtokens, now, refilled>>
        BY <1>2 DEF Lookup, Goto
  <2> QED BY <2>1 DEF TimesInv, Busy
<1>3. ASSUME NEW t \in Threads,
             CheckFull(t) \/ Evict(t) \/ Insert(t) \/ Touch(t) \/ Elapsed(t) \/ Refilled(t)
             \/ Check(t) \/ GlobalElapsed(t)
      PROVE  TimesInv'
  <2>1. /\ pc[t] \notin {"idle", "lookup"} /\ pc' = [pc EXCEPT ![t] = pc'[t]] /\ pc'[t] # "spend"
        /\ UNCHANGED <<clock, gtokens, glast, started>>
        /\ pc'[t] # "idle" => now'[t] = now[t]
        /\ \A u \in Threads \ {t} : now'[u] = now[u] /\ refilled'[u] = refilled[u]
        BY <1>3 DEF CheckFull, Evict, Insert, Touch, Elapsed, Refilled, Check,
                    GlobalElapsed, Goto, Return, call, global
  <2> QED BY <2>1 DEF TimesInv, Busy
<1>4. ASSUME NEW t \in Threads, GlobalRefilled(t) PROVE TimesInv'
  <2>1. /\ pc[t] = "grefill" /\ pc' = [pc EXCEPT ![t] = "spend"]
        /\ UNCHANGED <<clock, gtokens, glast, started, now>>
        /\ \A u \in Threads \ {t} : refilled'[u] = refilled[u]
        BY <1>4 DEF GlobalRefilled, Goto, global
  <2>2. refilled'[t] >= 0
    <3>1. refilled[t] >= 0
          BY <2>1 DEF StageOK
    <3>2. refilled'[t] = IF GlobalRefill = 0 THEN GlobalFull
                         ELSE Least(GlobalFull, gtokens + refilled[t])
          BY <1>4 DEF GlobalRefilled
    <3> QED BY <3>1, <3>2 DEF Least, TimesInv
  <2> QED BY <2>1, <2>2 DEF TimesInv, Busy
<1>5. ASSUME NEW t \in Threads, Spend(t) PROVE TimesInv'
  <2>1. /\ pc[t] = "spend" /\ pc' = [pc EXCEPT ![t] = "idle"]
        /\ UNCHANGED <<clock, started>> /\ glast' = now[t]
        /\ \A u \in Threads \ {t} : now'[u] = now[u] /\ refilled'[u] = refilled[u]
        BY <1>5 DEF Spend, Return, Goto
  <2>2. gtokens' >= 0
        BY <1>5, <2>1 DEF Spend, TimesInv, Busy
  <2> QED BY <2>1, <2>2 DEF TimesInv, Busy
<1>6. ASSUME Tick PROVE TimesInv'
      BY <1>6 DEF Tick, TimesInv, Busy, call, global
<1>7. CASE UNCHANGED vars
      BY <1>7 DEF vars, TimesInv, Busy, call, global
<1> QED BY <1>1, <1>2, <1>3, <1>4, <1>5, <1>6, <1>7 DEF Next, Step

\* A step within a call that leaves the global bucket alone.
LEMMA RateStays ==
    ASSUME TypeInv, NEW D, NEW e, RateOf(D, e), Busy' = Busy,
           UNCHANGED <<overlaps, total, gtokens, glast, started>>,
           \A t \in Busy : now'[t] = now[t] /\ (Clean(t) => Clean(t)')
    PROVE  RateInv'
<1>1. Given' = Given
      BY DEF Given
<1>2. RateOf(D, e)'
      BY <1>1 DEF RateOf, Allowed
<1> QED BY <1>2 DEF RateInv

\* A call ends without storing into the global bucket: no fewer pairs are over.
LEMMA RateLeaves ==
    ASSUME TypeInv, NEW D, NEW e, RateOf(D, e), NEW t \in Busy, Busy' = Busy \ {t},
           UNCHANGED <<overlaps, total, gtokens, glast, started>>,
           \A u \in Busy \ {t} : now'[u] = now[u] /\ (Clean(u) => Clean(u)')
    PROVE  RateInv'
<1> DEFINE n == Cardinality(Busy)
           D1 == D \ {t}
<1>0. RateNumbers
      BY RateNumbersHold
<1>1. Cardinality(Busy') = n - 1 /\ n \in Nat \ {0}
  <2>1. Cardinality(Busy \ {t}) = n - 1 /\ n \in Nat
        BY <1>0, FS_RemoveElement DEF RateNumbers
  <2>2. n # 0
        BY <1>0, FS_EmptySet DEF RateNumbers
  <2> QED BY <2>1, <2>2
<1>2. Pairs(n) = Pairs(n - 1) + (n - 1) /\ Pairs(n - 1) \in Nat
  <2>1. n - 1 \in Nat /\ (n - 1) + 1 = n
        BY <1>1
  <2> HIDE DEF n
  <2> QED BY <2>1, PairsGrow
<1>3. Cardinality(D1) <= Cardinality(D) /\ Cardinality(D) \in Nat /\ Cardinality(D1) \in Nat
  <2>1. D \in SUBSET Busy /\ D1 \in SUBSET Busy /\ D1 \subseteq D
        BY DEF RateOf
  <2>2. IsFiniteSet(D) /\ Cardinality(D) \in Nat /\ Cardinality(D1) \in Nat
        BY <1>0, <2>1 DEF RateNumbers
  <2> QED BY <2>1, <2>2, FS_Subset
<1>4. PICK e1 : e1 = overlaps - Cardinality(D1) - Pairs(n - 1)
      OBVIOUS
<1>5. e = overlaps - Cardinality(D) - Pairs(n) /\ e \in Int /\ overlaps \in Nat
      BY <1>0 DEF RateOf, RateNumbers
<1>6. e1 \in Int /\ e <= e1
  <2> HIDE DEF n, D1
  <2> QED BY <1>1, <1>2, <1>3, <1>4, <1>5
<1>7. \A x \in Int : Given <= Allowed(x, e) => Given <= Allowed(x, e1)
  <2>1. \A x \in Int : /\ Allowed(x, e) \in Int /\ Allowed(x, e1) \in Int
                       /\ Allowed(x, e) <= Allowed(x, e1)
    <3> SUFFICES ASSUME NEW x \in Int
                 PROVE  /\ Allowed(x, e) \in Int /\ Allowed(x, e1) \in Int
                        /\ Allowed(x, e) <= Allowed(x, e1)
        OBVIOUS
    <3>1. x <= x
          OBVIOUS
    <3> QED BY <1>5, <1>6, <3>1, AllowedGrows
  <2> QED BY <1>0, <2>1 DEF RateNumbers
<1>8. Given' = Given
      BY DEF Given
<1>9. RateOf(D1, e1)'
  <2>1. D1 \subseteq Busy' /\ (~ started' => D1 = {})
        BY DEF RateOf
  <2>2. e1 = overlaps' - Cardinality(D1) - Pairs(Cardinality(Busy'))
        BY <1>1, <1>4
  <2>3. Given' <= Allowed(glast', e1)
        BY <1>0, <1>7, <1>8 DEF RateOf, RateNumbers
  <2>4. ASSUME NEW u \in Busy' \ D1 PROVE Clean(u)' /\ Given' <= Allowed(now'[u], e1)
    <3>1. u \in Busy \ D /\ u # t /\ now[u] \in Int
          BY <1>0, <2>4 DEF RateNumbers
    <3> QED BY <1>7, <1>8, <3>1 DEF RateOf
  <2> HIDE DEF D1
  <2> QED BY <2>1, <2>2, <2>3, <2>4 DEF RateOf, Allowed
<1> QED BY <1>9 DEF RateInv

\* A call ends with its token, or with a value that does not do.
LEMMA RateSpends ==
    ASSUME TypeInv, TypeInv', TimesInv, GlobalRefill # 0,
           NEW D, NEW e, RateOf(D, e), NEW t \in Threads, Spend(t)
    PROVE  RateInv'
<1> DEFINE n == Cardinality(Busy)
           M == GlobalFull + MaxStall
<1>0. RateNumbers
      BY RateNumbersHold
<1>s. /\ pc[t] = "spend" /\ pc' = [pc EXCEPT ![t] = "idle"] /\ glast' = now[t]
      /\ UNCHANGED <<overlaps, started>>
      /\ \A u \in Threads \ {t} : now'[u] = now[u] /\ refilled'[u] = refilled[u]
      BY DEF Spend, Return, Goto, TypeInv, TypeOK
<1>b. t \in Busy /\ Busy' = Busy \ {t} /\ started
      BY <1>s DEF Busy, TypeInv, TypeOK, TimesInv
<1>1. Cardinality(Busy') = n - 1 /\ n \in Nat \ {0}
  <2>1. Cardinality(Busy \ {t}) = n - 1 /\ n \in Nat
        BY <1>0, <1>b, FS_RemoveElement DEF RateNumbers
  <2>2. n # 0
        BY <1>0, <1>b, FS_EmptySet DEF RateNumbers
  <2> QED BY <1>b, <2>1, <2>2
<1>2. Pairs(n) = Pairs(n - 1) + (n - 1) /\ Pairs(n - 1) \in Nat
  <2>1. n - 1 \in Nat /\ (n - 1) + 1 = n
        BY <1>1
  <2> HIDE DEF n
  <2> QED BY <2>1, PairsGrow
\* Any call that still runs may have become unclean.
<1>3. PICK e1 : e1 = overlaps - Pairs(n)
      OBVIOUS
<1>4. e1 = overlaps' - Cardinality(Busy') - Pairs(Cardinality(Busy'))
      /\ e1 \in Int /\ e \in Int /\ e = e1 - Cardinality(D)
      /\ D \in SUBSET Busy /\ Cardinality(D) \in Nat
  <2>1. overlaps \in Nat /\ e = overlaps - Cardinality(D) - Pairs(n) /\ e \in Int
        /\ D \in SUBSET Busy /\ Cardinality(D) \in Nat
        BY <1>0 DEF RateOf, RateNumbers
  <2> HIDE DEF n
  <2> QED BY <1>1, <1>2, <1>3, <1>s, <2>1
<1>5. PICK g, r, x, l : g = Given /\ r = refilled[t] /\ x = now[t] /\ l = glast
      OBVIOUS
<1>6. /\ g \in Int /\ r \in Int /\ x \in Nat /\ l \in Nat /\ r <= GlobalFull
      /\ gtokens \in Int /\ gtokens >= 0 /\ l <= x + MaxStall
      /\ MaxStall \in Nat /\ GlobalFull \in Nat
  <2>1. /\ g \in Int /\ r \in Int /\ x \in Nat /\ l \in Nat /\ gtokens \in Int /\ clock \in Nat
        BY <1>0, <1>5 DEF RateNumbers
  <2>2. r <= GlobalFull
        BY <1>s, <1>5 DEF TypeInv, StageOK
  <2>3. gtokens >= 0 /\ l <= clock /\ clock <= x + MaxStall
        BY <1>b, <1>5 DEF TimesInv
  <2> QED BY <2>1, <2>2, <2>3, LimiterAssumption, Amounts
\* Given' = g - gtokens + r
<1>7. Given' = (g - gtokens) + r
  <2>1. total \in Nat /\ Cost(GlobalRefill) \in Nat
        BY <1>0, Amounts DEF RateNumbers
  <2>2. PICK c, k : c = Cost(GlobalRefill) /\ k = total
        OBVIOUS
  <2>3. (k + 1) * c = k * c + c /\ k * c \in Nat
        BY <2>1, <2>2
  <2>4. g = k * c + gtokens
        BY <1>5, <2>2 DEF Given
  <2>5. CASE total' = total /\ gtokens' = r
    <3>1. Given' = k * c + r
          BY <2>2, <2>5 DEF Given, Cost
    <3> QED BY <1>6, <2>3, <2>4, <3>1
  <2>6. CASE total' = total + 1 /\ gtokens' = r - c
    <3>1. Given' = (k + 1) * c + (r - c)
          BY <2>2, <2>6 DEF Given, Cost
    <3> QED BY <1>6, <2>1, <2>2, <2>3, <2>4, <3>1
  <2> QED BY <1>5, <2>2, <2>5, <2>6 DEF Spend
<1>8. g <= Allowed(l, e)
      BY <1>5 DEF RateOf
<1>9. Given' <= Allowed(x, e1)
  <2>1. CASE t \in D
    <3>1. Cardinality(D) # 0
      <4>1. IsFiniteSet(D)
            BY <1>0, <1>4 DEF RateNumbers
      <4> QED BY <2>1, <4>1, FS_EmptySet
    <3>2. PICK y \in Int : y = e1 - 1 /\ e <= y /\ y + 1 = e1
          BY <1>4, <3>1
    <3>3. l <= l /\ l \in Int
          BY <1>6
    <3>4. Allowed(l, e) <= Allowed(l, y) /\ Allowed(l, e) \in Int /\ Allowed(l, y) \in Int
          BY <1>4, <3>2, <3>3, AllowedGrows
    <3>5. x + MaxStall \in Int /\ x \in Int /\ x <= x /\ y <= y
          BY <1>4, <1>6, <3>2
    <3>6. Allowed(l, y) <= Allowed(x + MaxStall, y) /\ Allowed(x + MaxStall, y) \in Int
          BY <1>6, <3>2, <3>3, <3>5, AllowedGrows
    <3>7. Allowed(x, e1) = Allowed(x, y) + GlobalFull + MaxStall /\ Allowed(x, y) \in Int
      <4>1. Allowed(x, y + 1) = Allowed(x, y) + GlobalFull + MaxStall /\ Allowed(x, y) \in Int
            BY <3>2, <3>5, AllowedNext
      <4> QED BY <3>2, <4>1
    <3>8. Allowed(x + MaxStall, y) = Allowed(x, y) + MaxStall
      <4> DEFINE z == y * (GlobalFull + MaxStall)
      <4>1. z \in Int
            BY <1>6, <3>2
      <4>2. /\ Allowed(x + MaxStall, y) = (x + MaxStall) + GlobalFull + z
            /\ Allowed(x, y) = x + GlobalFull + z
            BY DEF Allowed
      <4> HIDE DEF z
      <4> QED BY <1>6, <4>1, <4>2
    <3> QED BY <1>6, <1>7, <1>8, <3>4, <3>6, <3>7, <3>8
  <2>2. CASE t \notin D
    <3>1. Clean(t) /\ g <= Allowed(x, e)
          BY <1>b, <1>5, <2>2 DEF RateOf
    <3>2. r <= gtokens + Elapse(x, l)
          BY <1>s, <1>5, <3>1 DEF Clean
    <3>3. e <= e1
          BY <1>4
    <3>4. x <= x /\ l <= l /\ x \in Int /\ l \in Int
          BY <1>6
    <3>5. /\ Allowed(x, e) <= Allowed(x, e1) /\ Allowed(x, e) \in Int /\ Allowed(x, e1) \in Int
          BY <1>4, <3>3, <3>4, AllowedGrows
    <3>6. CASE x <= l
      <4>1. Elapse(x, l) = 0
            BY <3>6 DEF Elapse
      <4> QED BY <1>6, <1>7, <3>1, <3>2, <3>5, <4>1
    <3>7. CASE ~ (x <= l)
      <4>1. Elapse(x, l) = x - l
            BY <3>7 DEF Elapse
      <4>2. Allowed(l, e) + (x - l) = Allowed(x, e) /\ Allowed(l, e) \in Int
        <5> DEFINE z == e * M
        <5>1. z \in Int
              BY <1>4, <1>6
        <5>2. Allowed(l, e) = l + GlobalFull + z /\ Allowed(x, e) = x + GlobalFull + z
              BY DEF Allowed
        <5> HIDE DEF z, M
        <5> QED BY <1>6, <5>1, <5>2
      <4> QED BY <1>6, <1>7, <1>8, <3>2, <3>5, <4>1, <4>2
    <3> QED BY <3>6, <3>7
  <2> QED BY <2>1, <2>2
<1>10. PICK D1 : D1 = Busy'
      OBVIOUS
<1>11. RateOf(D1, e1)'
      BY <1>s, <1>b, <1>4, <1>5, <1>9, <1>10 DEF RateOf, Allowed
<1> QED BY <1>11 DEF RateInv

\* Every step keeps an account of which calls are unclean and what pays for them.
LEMMA RateStep ==
    GlobalRefill # 0 /\ TypeInv /\ TypeInv' /\ TimesInv /\ RateInv /\ [Next]_vars => RateInv'
<1> SUFFICES ASSUME GlobalRefill # 0, TypeInv, TypeInv', TimesInv, RateInv, [Next]_vars
             PROVE  RateInv'
    OBVIOUS
<1>0. RateNumbers
      BY RateNumbersHold
<1>d. PICK D, e : RateOf(D, e)
      BY DEF RateInv
<1>1. ASSUME NEW t \in Threads, NEW a \in Addresses, Arrive(t, a) PROVE RateInv'
  <2>1. /\ pc[t] = "idle" /\ pc' = [pc EXCEPT ![t] = "lookup"] /\ now' = [now EXCEPT ![t] = clock]
        /\ overlaps' = overlaps + Cardinality(Busy)
        /\ UNCHANGED <<gtokens, glast, started, refilled, total>>
        BY <1>1 DEF Arrive, Goto, global
  <2>2. Busy' = Busy \cup {t} /\ t \notin Busy
        BY <2>1 DEF Busy, TypeInv, TypeOK
  <2>3. Cardinality(Busy') = Cardinality(Busy) + 1
        BY <1>0, <2>2, FS_AddElement DEF RateNumbers
  <2>4. e = overlaps' - Cardinality(D) - Pairs(Cardinality(Busy'))
    <3>1. PICK n, d : n = Cardinality(Busy) /\ d = Cardinality(D)
          OBVIOUS
    <3>2. n \in Nat /\ d \in Nat /\ overlaps \in Nat /\ e = overlaps - d - Pairs(n)
          BY <1>0, <1>d, <3>1 DEF RateOf, RateNumbers
    <3>3. Pairs(n + 1) = Pairs(n) + n /\ Pairs(n) \in Nat
          BY <3>2, PairsGrow
    <3> QED BY <2>1, <2>3, <3>1, <3>2, <3>3
  <2>5. Given' = Given
        BY <2>1 DEF Given
  <2>6. Given <= Allowed(clock, e)
    <3>1. Given <= Allowed(glast, e) /\ glast <= clock /\ glast \in Int /\ clock \in Int
          /\ e \in Int /\ Given \in Int /\ e <= e
          BY <1>0, <1>d DEF RateOf, RateNumbers, TimesInv
    <3>2. Allowed(glast, e) <= Allowed(clock, e) /\ Allowed(glast, e) \in Int
          /\ Allowed(clock, e) \in Int
          BY <3>1, AllowedGrows
    <3> QED BY <3>1, <3>2
  <2>7. ASSUME NEW u \in Busy' \ D PROVE Clean(u)' /\ Given' <= Allowed(now'[u], e)
    <3>1. CASE u = t
          BY <2>1, <2>5, <2>6, <3>1 DEF Clean, TypeInv, TypeOK
    <3>2. CASE u # t
      <4>1. u \in Busy \ D /\ pc'[u] = pc[u] /\ now'[u] = now[u]
            BY <2>1, <2>2, <2>7, <3>2 DEF Busy
      <4> QED BY <1>d, <2>1, <2>5, <4>1 DEF RateOf, Clean
    <3> QED BY <3>1, <3>2
  <2>8. RateOf(D, e)'
        BY <1>d, <2>1, <2>2, <2>4, <2>5, <2>7 DEF RateOf, Allowed
  <2> QED BY <2>8 DEF RateInv
<1>2. ASSUME NEW t \in Threads, Lookup(t) PROVE RateInv'
  <2>1. /\ pc[t] = "lookup" /\ pc'[t] \notin {"idle", "grefill", "spend"}
        /\ \A u \in Threads \ {t} : pc'[u] = pc[u]
        /\ started' = TRUE /\ glast' = IF started THEN glast ELSE now[t]
        /\ UNCHANGED <<gtokens, total, overlaps, now, refilled>>
        BY <1>2 DEF Lookup, Goto, history, TypeInv, TypeOK
  <2>2. Busy' = Busy /\ t \in Busy
        BY <2>1 DEF Busy
  <2>3. CASE started
    <3>1. glast' = glast /\ started' = started
          BY <2>1, <2>3 DEF TypeInv, TypeOK
    <3>2. \A u \in Busy : Clean(u) => Clean(u)'
          BY <2>1, <3>1 DEF Clean, Busy
    <3> QED BY <1>d, <2>1, <2>2, <3>1, <3>2, RateStays
  <2>4. CASE ~ started
    <3>1. D = {} /\ glast' = now[t] /\ Given' = Given
          BY <1>d, <2>1, <2>4 DEF RateOf, Given
    <3>2. \A u \in Busy : Clean(u)'
      <4>1. \A u \in Busy : pc[u] = "lookup"
            BY <2>4 DEF TimesInv
      <4>2. \A u \in Busy : pc'[u] \notin {"grefill", "spend"}
            BY <2>1, <4>1 DEF Busy
      <4> QED BY <4>2 DEF Clean
    <3>3. RateOf(D, e)'
          BY <1>d, <2>1, <2>2, <3>1, <3>2 DEF RateOf, Allowed
    <3> QED BY <3>3 DEF RateInv
  <2> QED BY <2>3, <2>4
<1>3. ASSUME NEW t \in Threads,
             CheckFull(t) \/ Evict(t) \/ Insert(t) \/ Touch(t) \/ Elapsed(t) \/ Refilled(t)
             \/ Check(t) \/ GlobalElapsed(t)
      PROVE  RateInv'
  <2>1. /\ pc[t] # "idle"
        /\ \A u \in Threads \ {t} : /\ pc'[u] = pc[u] /\ now'[u] = now[u]
                                    /\ refilled'[u] = refilled[u]
        /\ UNCHANGED <<gtokens, glast, started, total, overlaps>>
        /\ pc'[t] # "idle" => now'[t] = now[t] /\ pc'[t] # "spend"
        BY <1>3 DEF CheckFull, Evict, Insert, Touch, Elapsed, Refilled, Check,
                    GlobalElapsed, Goto, Return, call, global, history, TypeInv, TypeOK
  <2>2. pc'[t] = "grefill" => refilled'[t] <= Elapse(now[t], glast)
    <3>1. CASE GlobalElapsed(t)
      <4>1. refilled'[t] = Elapse(now[t], glast)
            BY <3>1 DEF GlobalElapsed, TypeInv, TypeOK
      <4>2. Elapse(now[t], glast) \in Int
            BY <1>0 DEF Elapse, RateNumbers
      <4> QED BY <4>1, <4>2
    <3>2. CASE ~ GlobalElapsed(t)
      <4>1. pc'[t] # "grefill"
            BY <1>3, <3>2 DEF CheckFull, Evict, Insert, Touch, Elapsed, Refilled, Check,
                              Goto, Return, TypeInv, TypeOK
      <4> QED BY <4>1
    <3> QED BY <3>1, <3>2
  <2>3. \A u \in Busy \ {t} : now'[u] = now[u] /\ (Clean(u) => Clean(u)')
        BY <2>1 DEF Clean, Busy
  <2>4. CASE pc'[t] = "idle"
    <3>1. t \in Busy /\ Busy' = Busy \ {t}
          BY <2>1, <2>4 DEF Busy
    <3> QED BY <1>d, <2>1, <2>3, <3>1, RateLeaves
  <2>5. CASE pc'[t] # "idle"
    <3>1. Busy' = Busy
          BY <2>1, <2>5 DEF Busy
    <3>2. \A u \in Busy : now'[u] = now[u] /\ (Clean(u) => Clean(u)')
          BY <2>1, <2>2, <2>3, <2>5 DEF Clean
    <3> QED BY <1>d, <2>1, <3>1, <3>2, RateStays
  <2> QED BY <2>4, <2>5
<1>4. ASSUME NEW t \in Threads, GlobalRefilled(t) PROVE RateInv'
  <2>1. /\ pc[t] = "grefill" /\ pc' = [pc EXCEPT ![t] = "spend"]
        /\ \A u \in Threads \ {t} : refilled'[u] = refilled[u]
        /\ UNCHANGED <<gtokens, glast, started, total, overlaps, now>>
        BY <1>4 DEF GlobalRefilled, Goto, global, history, TypeInv, TypeOK
  <2>2. Busy' = Busy
        BY <2>1 DEF Busy, TypeInv, TypeOK
  <2>3. refilled'[t] <= gtokens + refilled[t]
    <3>1. refilled'[t] = Least(GlobalFull, gtokens + refilled[t])
          BY <1>4 DEF GlobalRefilled, TypeInv, TypeOK
    <3>2. gtokens \in Int /\ refilled[t] \in Int
          BY <1>0 DEF RateNumbers
    <3> QED BY <3>1, <3>2, Amounts DEF Least
  <2>4. Clean(t) => Clean(t)'
    <3>1. Elapse(now[t], glast) \in Int /\ gtokens \in Int /\ refilled[t] \in Int
          /\ refilled'[t] \in Int
          BY <1>0 DEF RateNumbers, Elapse, TypeInv, TypeOK
    <3>2. Clean(t) => refilled'[t] <= gtokens + Elapse(now[t], glast)
          BY <2>1, <2>3, <3>1 DEF Clean
    <3> QED BY <2>1, <3>2 DEF Clean, TypeInv, TypeOK
  <2>5. \A u \in Busy : now'[u] = now[u] /\ (Clean(u) => Clean(u)')
        BY <2>1, <2>4 DEF Clean, Busy, TypeInv, TypeOK
  <2> QED BY <1>d, <2>1, <2>2, <2>5, RateStays
<1>5. ASSUME NEW t \in Threads, Spend(t) PROVE RateInv'
      BY <1>5, <1>d, RateSpends
<1>6. CASE Tick \/ UNCHANGED vars
  <2>1. UNCHANGED <<pc, now, refilled, gtokens, glast, started, total, overlaps>>
        BY <1>6 DEF Tick, vars, call, global, history
  <2>2. Busy' = Busy /\ \A u \in Busy : now'[u] = now[u] /\ (Clean(u) => Clean(u)')
        BY <2>1 DEF Busy, Clean
  <2> QED BY <1>d, <2>1, <2>2, RateStays
<1> QED BY <1>1, <1>2, <1>3, <1>4, <1>5, <1>6 DEF Next, Step

\* However calls race, the ceiling across all addresses gives out its burst and
\* what the clock refills, and for each pair of calls that overlapped at most a
\* burst and the time of a call more (_refill and the stores in allow).
THEOREM CeilingRateHeld == Spec => []GlobalRateHeld
<1>1. CASE GlobalRefill = 0
  <2>1. GlobalRateHeld
        BY <1>1 DEF GlobalRateHeld
  <2> QED BY <2>1, PTL
<1>2. CASE GlobalRefill # 0
  <2>1. Init => TimesInv
    <3> SUFFICES ASSUME Init PROVE TimesInv
        OBVIOUS
    <3>1. Busy = {} /\ gtokens = GlobalFull /\ glast = 0 /\ clock = 0
          BY DEF Init, Busy
    <3> QED BY <3>1, Amounts DEF TimesInv
  <2>2. Init => RateInv
    <3> SUFFICES ASSUME Init PROVE RateInv
        OBVIOUS
    <3>1. Busy = {} /\ gtokens = GlobalFull /\ glast = 0 /\ overlaps = 0 /\ total = 0
          BY DEF Init, Busy
    <3>2. Cardinality({}) = 0 /\ Pairs(0) = 0
      <4>1. 0 * (0 - 1) = 0 /\ 0 \div 2 = 0
            OBVIOUS
      <4> QED BY <4>1, FS_EmptySet DEF Pairs
    <3>3. Given = GlobalFull /\ Allowed(0, 0) = GlobalFull
      <4>1. \A m \in Int : 0 * m = 0
            OBVIOUS
      <4> QED BY <3>1, <4>1, Amounts, LimiterAssumption DEF Given, Allowed
    <3>4. 0 = overlaps - Cardinality({}) - Pairs(Cardinality(Busy))
          BY <3>1, <3>2
    <3>5. Given <= Allowed(glast, 0)
          BY <3>1, <3>3, Amounts
    <3>6. RateOf({}, 0)
          BY <3>1, <3>4, <3>5 DEF RateOf
    <3> QED BY <3>6 DEF RateInv
  <2>3. TypeInv /\ TimesInv /\ RateInv => GlobalRateHeld
    <3> SUFFICES ASSUME TypeInv, TimesInv, RateInv PROVE GlobalRateHeld
        OBVIOUS
    <3>0. RateNumbers
          BY RateNumbersHold
    <3>1. PICK D, e : RateOf(D, e)
          BY DEF RateInv
    <3>2. e \in Int /\ e <= overlaps /\ overlaps \in Int
      <4>1. /\ overlaps \in Nat /\ Cardinality(D) \in Nat /\ Cardinality(Busy) \in Nat
            /\ e = overlaps - Cardinality(D) - Pairs(Cardinality(Busy))
            BY <3>0, <3>1 DEF RateNumbers, RateOf
      <4>2. Pairs(Cardinality(Busy)) \in Nat
            BY <4>1, PairsGrow
      <4> QED BY <4>1, <4>2
    <3>3. /\ Given <= Allowed(glast, e) /\ glast <= clock /\ glast \in Int /\ clock \in Int
          /\ Given \in Int /\ gtokens >= 0 /\ gtokens \in Int
          BY <3>0, <3>1 DEF RateNumbers, RateOf, TimesInv
    <3>4. /\ Allowed(glast, e) <= Allowed(clock, overlaps) /\ Allowed(glast, e) \in Int
          /\ Allowed(clock, overlaps) \in Int
          BY <3>2, <3>3, AllowedGrows
    <3>5. total * Cost(GlobalRefill) \in Int /\ Given = total * Cost(GlobalRefill) + gtokens
          BY <3>0, Amounts DEF RateNumbers, Given
    <3>6. total * Cost(GlobalRefill) <= Allowed(clock, overlaps)
          BY <3>3, <3>4, <3>5
    <3> QED BY <3>6 DEF GlobalRateHeld, Allowed
  <2>4. TypeInv /\ TimesInv /\ RateInv /\ [Next]_vars => TypeInv' /\ TimesInv' /\ RateInv'
        BY <1>2, TypeStep, TimesStep, RateStep
  <2> QED BY TypeInit, <2>1, <2>2, <2>3, <2>4, PTL DEF Spec
<1> QED BY <1>1, <1>2

=============================================================================
