--------------------------- MODULE AddressProofs ---------------------------
(***************************************************************************)
(* What one address gets from the unlocked limiter, for every number of    *)
(* threads, addresses and slots: its burst, what the clock refills, and a  *)
(* burst and a stall for each pair of calls that overlapped.               *)
(*                                                                         *)
(* The proof keeps an account for each address.  It names the bucket `b`   *)
(* the address is served from and the mode `m`: a "fresh" account counts   *)
(* on a full bucket, a "used" one on what is left in it.  Of the calls     *)
(* that have not compared yet, those in W will store into `b`, and those   *)
(* in D are spoilt: what they hold is older than another store.  `e`       *)
(* counts the giveaways, each worth a burst and a stall (Worth).           *)
(*                                                                         *)
(* Pairs of overlapping calls pay (Reserve).  A spoilt call has one of its *)
(* own, any two calls in W have theirs, because the first to store spoils  *)
(* the other, and a giveaway has one.  So a store turns pairs of W into    *)
(* pairs of D, a spoilt call that takes a token turns its own into a       *)
(* giveaway, and the sum never grows but by calls that arrive.             *)
(*                                                                         *)
(* Last, a bucket that was evicted although its address was not away for   *)
(* Slots others: the call that finds it gone is given a full one.  While a *)
(* stranger runs each call that still looks keeps a pair with it for that  *)
(* (Watched).  If no pair is left over then at most one stranger runs, the *)
(* table is ordered as the addresses came, and whoever is evicted was away *)
(* long enough to open a new account (Sound).                              *)
(***************************************************************************)
EXTENDS LimiterProofs

\* Stages: past the comparison with a token; on the way to a place in the table;
\* while the address is to be given a new bucket; before the choice of a victim.
Paying == {"gelapsed", "grefill", "spend"}
Arriving == {"lookup", "full", "evict", "insert", "touch"}
Replacing == {"full", "evict", "insert"}
Choosing == {"lookup", "full", "evict"}

\* The calls of an address, and of all the others.
CallsOf(a) == {t \in Busy : ip[t] = a}
Strangers(a) == {t \in Busy : ip[t] # a}

\* The calls of `a` by how far they are: before the look-up, before the
\* comparison, and past it with a token.
Looking(a) == {t \in CallsOf(a) : pc[t] = "lookup"}
Unchecked(a) == {t \in CallsOf(a) : pc[t] \notin Paying}
Charged(a) == {t \in CallsOf(a) : pc[t] \in Paying}

\* Calls that may find their bucket gone because of a stranger.
Watched(a) == IF Strangers(a) = {} THEN {} ELSE Looking(a)

\* What e giveaways are worth.
Worth(e) == e * (Full + MaxStall)

\* Tokens the address has had or is about to have, what they cost, and what it
\* may have had by the time x.
Taken(a) == admitted[a] + Cardinality(Charged(a))
Due(a) == Taken(a) * Cost(Refill)
Line(a, x, e) == x - since[a] + Full + Worth(e)

\* Some call can still get at the bucket b.
Holders(W) == {u \in W : pc[u] \in Holding}
Live(a, b, W) == b # None /\ (slot[a] = b \/ Holders(W) # {})

\* What remains of b once the calls past the comparison have paid, and what the
\* account counts on.
Left(a, b) == Elapse(tokens[b], IF \E t \in Charged(a) : mine[t] = b THEN Cost(Refill) ELSE 0)
Balance(a, m, b, W) ==
    IF m = "fresh" THEN Full ELSE IF Live(a, b, W) THEN Left(a, b) ELSE 0

\* Pairs of calls that the account has spent or set aside.
Used(W, D, e) == Cardinality(D) + Pairs(Cardinality(W)) + e

\* W and D are the calls that have not compared yet.
Shares(a, W, D) ==
    W \subseteq Unchecked(a) /\ D \subseteq Unchecked(a) /\ Unchecked(a) \subseteq W \cup D

\* Those in W have b or will; who has another bucket is spoilt.
OwnBucket(a, b, W, D) ==
    /\ slot[a] \in {b, None}
    /\ \A u \in W : pc[u] \in Holding => mine[u] = b
    /\ \A u \in D \ W : pc[u] \in Holding /\ mine[u] # b

\* A call that is not spoilt: the account is within its line at the time the
\* call has read, and so it remains when the call stores what it computes.
Sure(a, m, b, W, e, u) ==
    /\ Due(a) + Balance(a, m, b, W) <= Line(a, now[u], e)
    /\ m # "fresh" =>
         /\ CallsOf(a) = W
         /\ pc[u] \notin Replacing
         /\ pc[u] = "refill" => refilled[u] <= Elapse(now[u], last[b])
         /\ pc[u] = "check" => Due(a) + refilled[u] <= Line(a, now[u], e)

\* The account is within its line: now, at the last store, and for each call
\* that is not spoilt.
Money(a, m, b, W, D, e) ==
    /\ Due(a) + Balance(a, m, b, W) <= Line(a, clock, e)
    /\ m # "fresh" /\ Live(a, b, W) =>
          last[b] <= clock /\ Due(a) + Left(a, b) <= Line(a, last[b], e)
    /\ \A u \in W \ D : Sure(a, m, b, W, e, u)

\* Who comes after `a` in the table has come since.
Ordered(a) ==
    slot[a] # None =>
        \A c \in Tracked \ {a} :
            <<a, c>> \in older =>
                c \in others[a] \/ \E t \in CallsOf(a) : pc[t] \in Arriving

\* The call x will not evict `a` as the table is.
Spared(a, x) == slot[ip[x]] # None \/ Cardinality(Tracked) < Slots \/ a \notin Oldest

\* A stranger evicts for a full table only, and not a bucket that a call of `a`
\* still has to pay for.
Harmless(a, m, x) ==
    /\ pc[x] \in {"full", "evict"} => slot[ip[x]] = None
    /\ pc[x] = "evict" => Cardinality(Tracked) >= Slots
    /\ pc[x] \in Arriving => ip[x] \in others[a] \/ Looking(a) # {}
    /\ pc[x] \in Choosing =>
         /\ CallsOf(a) = Looking(a)
         /\ \/ Looking(a) = {} \/ m = "fresh" \/ ip[x] \in others[a]
            \/ Cardinality(Looking(a)) >= 2 \/ Spared(a, x)

\* Why the bucket of `a` may be gone: it was away for Slots others; or the pair
\* with a stranger is still there for it; or a call of its own replaces it.
Excused(a, W) ==
    \/ CallsOf(a) = {} /\ Cardinality(others[a]) >= Slots
    \/ /\ Strangers(a) # {} /\ Looking(a) # {} /\ CallsOf(a) = Looking(a)
       /\ \A x \in Strangers(a) :
             /\ pc[x] \notin Choosing
             /\ pc[x] \in Arriving => ip[x] \in others[a] \/ Cardinality(Looking(a)) >= 2
    \/ \E v \in W : pc[v] \in Replacing

\* What holds while no pair is left over.
Sound(a, m, W) ==
    /\ \A x, y \in Strangers(a) : x = y
    /\ Ordered(a)
    /\ \A x \in Strangers(a) : Harmless(a, m, x)
    /\ slot[a] = None /\ (m # "fresh" \/ Holders(W) # {}) => Excused(a, W)

\* The pairs suffice.
Reserve(a, m, W, D, e) ==
    /\ Used(W, D, e) + Cardinality(Watched(a)) <= overlaps
    /\ Used(W, D, e) + Cardinality(Watched(a)) = overlaps => Sound(a, m, W)

\* The account, and the invariant: every address has one.  (An ip_refill_secs of
\* 0 is no limit.)
AccountOf(a, m, b, W, D, e) ==
    /\ m \in {"fresh", "used"} /\ b \in Buckets \cup {None} /\ e \in Nat
    /\ Shares(a, W, D)
    /\ OwnBucket(a, b, W, D)
    /\ Money(a, m, b, W, D, e)
    /\ Reserve(a, m, W, D, e)

Accounted(a) == \E m, b, W, D, e : AccountOf(a, m, b, W, D, e)

AccountInv == Refill # 0 => \A a \in Addresses : Accounted(a)

\* No bucket serves two addresses, in the table or in two calls.
OwnInv ==
    /\ \A c, d \in Addresses : slot[c] = slot[d] /\ slot[c] # None => c = d
    /\ \A c \in Addresses, t \in Threads : slot[c] = mine[t] /\ slot[c] # None => c = ip[t]
    /\ \A t, u \in Threads : mine[t] = mine[u] /\ mine[t] # None => ip[t] = ip[u]
    /\ \A t \in Threads : pc[t] \notin Holding => mine[t] = None

\* Every bucket has one owner.
LEMMA OwnInit == Init => OwnInv
BY DEF Init, OwnInv

\* A step that leaves the table and only lets go of a bucket.
LEMMA OwnKeeps ==
    ASSUME TypeInv, OwnInv, NEW t \in Threads, slot' = slot,
           \A u \in Threads \ {t} : ip'[u] = ip[u] /\ mine'[u] = mine[u] /\ pc'[u] = pc[u],
           mine'[t] = None \/ (mine'[t] = mine[t] /\ ip'[t] = ip[t]),
           pc'[t] \notin Holding => mine'[t] = None
    PROVE  OwnInv'
BY LimiterAssumption DEF OwnInv, TypeInv, TypeOK

\* Every step keeps that: only a free bucket is given away.
LEMMA OwnStep == TypeInv /\ TypeInv' /\ OwnInv /\ [Next]_vars => OwnInv'
<1> SUFFICES ASSUME TypeInv, TypeInv', OwnInv, [Next]_vars PROVE OwnInv'
    OBVIOUS
<1> USE LimiterAssumption
<1>1. ASSUME NEW t \in Threads, NEW a \in Addresses, Arrive(t, a) PROVE OwnInv'
  <2>1. /\ pc[t] = "idle" /\ pc' = [pc EXCEPT ![t] = "lookup"] /\ ip' = [ip EXCEPT ![t] = a]
        /\ UNCHANGED <<slot, mine>>
        BY <1>1 DEF Arrive, Goto, table
  <2>2. mine[t] = None
        BY <2>1 DEF OwnInv, Holding
  <2> QED BY <2>1, <2>2 DEF OwnInv, TypeInv, TypeOK, Holding
<1>2. ASSUME NEW t \in Threads, Lookup(t) PROVE OwnInv'
  <2>1. ip[t] \in Addresses /\ slot[ip[t]] \in Buckets \cup {None}
        BY <1>2 DEF TypeInv, TypeOK, StageOK, Lookup
  <2> QED BY <1>2, <2>1 DEF OwnInv, Lookup, Goto, table, TypeInv, TypeOK, Holding
<1>3. ASSUME NEW t \in Threads, CheckFull(t) PROVE OwnInv'
      BY <1>3 DEF OwnInv, CheckFull, Goto, table, call, TypeInv, TypeOK, Holding
<1>4. ASSUME NEW t \in Threads, Evict(t) PROVE OwnInv'
  <2>1. CASE Tracked = {}
    <3>1. /\ \A u \in Threads \ {t} : ip'[u] = ip[u] /\ mine'[u] = mine[u] /\ pc'[u] = pc[u]
          /\ slot' = slot /\ mine'[t] = None
          BY <1>4, <2>1 DEF Evict, Return, Goto, table, TypeInv, TypeOK
    <3> QED BY <3>1, OwnKeeps
  <2>2. CASE Tracked # {}
    <3>1. PICK c \in Addresses : slot' = [slot EXCEPT ![c] = None]
          BY <1>4, <2>2 DEF Evict, Oldest, Tracked, Drop
    <3>2. pc' = [pc EXCEPT ![t] = "insert"] /\ pc[t] = "evict" /\ UNCHANGED <<ip, mine>>
          BY <1>4, <2>2 DEF Evict, Goto, call
    <3> QED BY <3>1, <3>2 DEF OwnInv, TypeInv, TypeOK, Holding
  <2> QED BY <2>1, <2>2
<1>5. ASSUME NEW t \in Threads, Insert(t) PROVE OwnInv'
  <2> DEFINE b == CHOOSE b \in Buckets : Free(b)
  <2>1. b \in Buckets /\ Free(b)
        BY <1>5 DEF Insert
  <2>2. /\ slot' = [slot EXCEPT ![ip[t]] = b] /\ mine' = [mine EXCEPT ![t] = b]
        /\ ip[t] \in Addresses /\ ip' = ip /\ pc' = [pc EXCEPT ![t] = "elapsed"]
        BY <1>5 DEF Insert, Goto, TypeInv, TypeOK, StageOK
  <2> HIDE DEF b
  <2> QED BY <2>1, <2>2 DEF OwnInv, Free, TypeInv, TypeOK, Holding
<1>6. ASSUME NEW t \in Threads, Touch(t) PROVE OwnInv'
  <2>1. /\ \A u \in Threads \ {t} : ip'[u] = ip[u] /\ mine'[u] = mine[u] /\ pc'[u] = pc[u]
        /\ slot' = slot /\ (mine'[t] = None \/ (mine'[t] = mine[t] /\ ip'[t] = ip[t]))
        /\ pc'[t] \notin Holding => mine'[t] = None
        BY <1>6 DEF Touch, Return, Goto, table, call, TypeInv, TypeOK, Holding
  <2> QED BY <2>1, OwnKeeps
<1>7. ASSUME NEW t \in Threads,
             Elapsed(t) \/ Refilled(t) \/ GlobalElapsed(t) \/ GlobalRefilled(t)
      PROVE  OwnInv'
  <2>1. /\ \A u \in Threads \ {t} : ip'[u] = ip[u] /\ mine'[u] = mine[u] /\ pc'[u] = pc[u]
        /\ slot' = slot /\ mine'[t] = mine[t] /\ ip'[t] = ip[t]
        /\ pc'[t] \in Holding
        BY <1>7 DEF Elapsed, Refilled, GlobalElapsed, GlobalRefilled, Goto, table,
                    TypeInv, TypeOK, Holding
  <2> QED BY <2>1, OwnKeeps
<1>8. ASSUME NEW t \in Threads, Check(t) \/ Spend(t) PROVE OwnInv'
  <2>1. /\ \A u \in Threads \ {t} : ip'[u] = ip[u] /\ mine'[u] = mine[u] /\ pc'[u] = pc[u]
        /\ slot' = slot /\ (mine'[t] = None \/ (mine'[t] = mine[t] /\ ip'[t] = ip[t]))
        /\ pc'[t] \notin Holding => mine'[t] = None
        BY <1>8 DEF Check, Spend, Return, Goto, table, call, TypeInv, TypeOK, Holding
  <2> QED BY <2>1, OwnKeeps
<1>9. CASE Tick \/ UNCHANGED vars
      BY <1>9 DEF OwnInv, Tick, vars, table, call
<1> QED BY <1>1, <1>2, <1>3, <1>4, <1>5, <1>6, <1>7, <1>8, <1>9 DEF Next, Step

-----------------------------------------------------------------------------
\* The numbers of the accounts, and when they hold on.

\* One giveaway more is worth a burst and a stall.
LEMMA Worths ==
    \A e \in Nat : Worth(e) \in Nat /\ Worth(e + 1) = Worth(e) + Full + MaxStall
<1> SUFFICES ASSUME NEW e \in Nat
             PROVE  Worth(e) \in Nat /\ Worth(e + 1) = Worth(e) + Full + MaxStall
    OBVIOUS
<1> DEFINE M == Full + MaxStall
<1>1. M \in Nat /\ Worth(e) = e * M /\ Worth(e + 1) = (e + 1) * M
      BY Amounts, LimiterAssumption DEF Worth
<1> HIDE DEF M
<1>2. e * M \in Nat /\ (e + 1) * M = e * M + M
      BY <1>1
<1>3. Worth(e + 1) = Worth(e) + M
      BY <1>1, <1>2
<1>4. Full \in Nat /\ MaxStall \in Nat
      BY Amounts, LimiterAssumption
<1> QED BY <1>1, <1>2, <1>3, <1>4 DEF M

\* More giveaways are worth more.
LEMMA WorthGrows == \A d, e \in Nat : d <= e => Worth(d) <= Worth(e)
<1> SUFFICES ASSUME NEW d \in Nat, NEW e \in Nat, d <= e PROVE Worth(d) <= Worth(e)
    OBVIOUS
<1> DEFINE M == Full + MaxStall
           k == e - d
<1>1. M \in Nat /\ Worth(e) = e * M /\ Worth(d) = d * M /\ k \in Nat /\ e = d + k
      BY Amounts, LimiterAssumption DEF Worth
<1> HIDE DEF M, k
<1>2. (d + k) * M = d * M + k * M /\ k * M \in Nat /\ d * M \in Nat
      BY <1>1
<1> QED BY <1>1, <1>2

\* The sets of calls that the account counts are finite, and share the calls.
LEMMA Sizes ==
    ASSUME TypeInv, NEW a \in Addresses
    PROVE  /\ \A S \in SUBSET Busy : IsFiniteSet(S) /\ Cardinality(S) \in Nat
           /\ Busy \subseteq Threads
           /\ Busy = CallsOf(a) \cup Strangers(a) /\ CallsOf(a) \cap Strangers(a) = {}
           /\ CallsOf(a) = Unchecked(a) \cup Charged(a) /\ Unchecked(a) \cap Charged(a) = {}
           /\ Looking(a) \subseteq Unchecked(a) /\ Watched(a) \subseteq Looking(a)
           /\ Cardinality(Busy) = Cardinality(CallsOf(a)) + Cardinality(Strangers(a))
<1>1. (\A S \in SUBSET Busy : IsFiniteSet(S) /\ Cardinality(S) \in Nat) /\ Busy \subseteq Threads
      BY RateNumbersHold DEF RateNumbers
<1>2. Busy = CallsOf(a) \cup Strangers(a) /\ CallsOf(a) \cap Strangers(a) = {}
      BY DEF CallsOf, Strangers
<1>3. /\ CallsOf(a) = Unchecked(a) \cup Charged(a) /\ Unchecked(a) \cap Charged(a) = {}
      /\ Looking(a) \subseteq Unchecked(a) /\ Watched(a) \subseteq Looking(a)
      BY DEF Unchecked, Charged, Looking, Watched, Paying
<1>4. IsFiniteSet(CallsOf(a)) /\ IsFiniteSet(Strangers(a))
      BY <1>1, <1>2
<1>5. Cardinality(CallsOf(a) \cup Strangers(a))
          = Cardinality(CallsOf(a)) + Cardinality(Strangers(a))
            - Cardinality(CallsOf(a) \cap Strangers(a))
      BY <1>4, FS_Union
<1>6. Cardinality(CallsOf(a) \cap Strangers(a)) = 0
      BY <1>2, FS_EmptySet
<1>7. Cardinality(CallsOf(a)) \in Nat /\ Cardinality(Strangers(a)) \in Nat
      BY <1>1, <1>2
<1>8. Cardinality(Busy) = Cardinality(CallsOf(a)) + Cardinality(Strangers(a))
      BY <1>2, <1>5, <1>6, <1>7
<1> QED BY <1>1, <1>2, <1>3, <1>8

\* What an address owes is a number, and grows by the cost of a token.
LEMMA Dues ==
    ASSUME TypeInv, NEW a \in Addresses
    PROVE  /\ Taken(a) \in Nat /\ Due(a) \in Nat /\ since[a] \in Nat
           /\ \A n \in Nat : n * Cost(Refill) \in Nat
                             /\ (n + 1) * Cost(Refill) = n * Cost(Refill) + Cost(Refill)
<1>1. Cardinality(Charged(a)) \in Nat
      BY Sizes
<1>2. admitted[a] \in Nat /\ since[a] \in Nat
      BY DEF TypeInv, TypeOK
<1>3. \A m, n \in Nat : n * m \in Nat /\ (n + 1) * m = n * m + m
      OBVIOUS
<1>4. \A n \in Nat : n * Cost(Refill) \in Nat
                     /\ (n + 1) * Cost(Refill) = n * Cost(Refill) + Cost(Refill)
      BY <1>3, Amounts
<1> QED BY <1>1, <1>2, <1>4 DEF Taken, Due

\* What is left in a bucket is no more than a burst.
LEMMA Balances ==
    ASSUME TypeInv, NEW a \in Addresses, NEW b \in Buckets \cup {None}, NEW m, NEW W
    PROVE  /\ Balance(a, m, b, W) \in Nat /\ Balance(a, m, b, W) <= Full
           /\ b \in Buckets => Left(a, b) \in Nat /\ Left(a, b) <= Full
<1>1. b \in Buckets => Left(a, b) \in Nat /\ Left(a, b) <= Full
      BY Amounts DEF Left, Elapse, TypeInv, TypeOK
<1> QED BY <1>1, Amounts DEF Balance, Live

\* The numbers of the accounts.
AccountNumbers ==
    /\ clock \in Nat /\ overlaps \in Nat
    /\ \A b \in Buckets : tokens[b] \in Int /\ tokens[b] <= Full /\ last[b] \in Nat
    /\ \A t \in Threads : now[t] \in Nat /\ refilled[t] \in Int
    /\ \A a \in Addresses :
          /\ Taken(a) \in Nat /\ Due(a) \in Nat /\ since[a] \in Nat
          /\ \A b \in Buckets \cup {None} : \A m, W :
                /\ Balance(a, m, b, W) \in Nat /\ Balance(a, m, b, W) <= Full
                /\ b \in Buckets => Left(a, b) \in Nat /\ Left(a, b) <= Full
                /\ Live(a, b, W) => b \in Buckets

\* They are numbers wherever the types hold.
LEMMA AccountNumbersHold == TypeInv => AccountNumbers
<1> SUFFICES ASSUME TypeInv PROVE AccountNumbers
    OBVIOUS
<1>1. /\ clock \in Nat /\ overlaps \in Nat
      /\ \A b \in Buckets : tokens[b] \in Int /\ tokens[b] <= Full /\ last[b] \in Nat
      /\ \A t \in Threads : now[t] \in Nat /\ refilled[t] \in Int
      BY DEF TypeInv, TypeOK
<1>2. ASSUME NEW a \in Addresses, NEW b \in Buckets \cup {None}, NEW m, NEW W
      PROVE  /\ Taken(a) \in Nat /\ Due(a) \in Nat /\ since[a] \in Nat
             /\ Balance(a, m, b, W) \in Nat /\ Balance(a, m, b, W) <= Full
             /\ b \in Buckets => Left(a, b) \in Nat /\ Left(a, b) <= Full
             /\ Live(a, b, W) => b \in Buckets
      BY Dues, Balances DEF Live
<1> QED BY <1>1, <1>2 DEF AccountNumbers

\* The account holds on while nothing is taken, and for fewer calls.
LEMMA MoneyKeeps ==
    ASSUME TypeInv, TypeInv', NEW a \in Addresses, NEW m, NEW b \in Buckets \cup {None},
           NEW W, NEW D, NEW e \in Nat, NEW W2 \in SUBSET Threads, NEW D2,
           Money(a, m, b, W, D, e),
           Due(a)' <= Due(a), since'[a] = since[a], clock <= clock',
           m # "fresh" /\ Live(a, b, W2)' =>
               /\ Live(a, b, W) /\ last'[b] = last[b]
               /\ Due(a)' + Left(a, b)' <= Due(a) + Left(a, b),
           W2 \ D2 \subseteq W \ D,
           \A u \in W2 \ D2 : now'[u] = now[u],
           m # "fresh" => \A u \in W2 \ D2 :
               /\ CallsOf(a)' = W2
               /\ pc'[u] \notin Replacing
               /\ pc'[u] = "refill" => refilled'[u] <= Elapse(now[u], last'[b])
               /\ pc'[u] = "check" => Due(a)' + refilled'[u] <= Line(a, now[u], e)
    PROVE  Money(a, m, b, W2, D2, e)'
<1>0. AccountNumbers /\ AccountNumbers'
  <2>1. TypeInv' => AccountNumbers'
        BY AccountNumbersHold, PTL
  <2> QED BY <2>1, AccountNumbersHold
<1>1. Due(a)' + Balance(a, m, b, W2)' <= Due(a) + Balance(a, m, b, W)
  <2>1. /\ Full \in Nat /\ (b \in Buckets => Left(a, b) \in Nat /\ Left(a, b)' \in Nat)
        /\ Due(a) \in Nat /\ Due(a)' \in Nat
        BY <1>0, Amounts DEF AccountNumbers
  <2> QED BY <2>1 DEF Balance, Live
<1>2. /\ Due(a) \in Nat /\ Due(a)' \in Nat /\ since[a] \in Nat /\ Worth(e) \in Nat /\ Full \in Nat
      /\ Balance(a, m, b, W) \in Nat /\ Balance(a, m, b, W2)' \in Nat
      /\ clock \in Nat /\ clock' \in Nat
      /\ b \in Buckets => Left(a, b) \in Nat /\ Left(a, b)' \in Nat /\ last[b] \in Nat
      BY <1>0, Worths, Amounts DEF AccountNumbers
<1>3. Due(a)' + Balance(a, m, b, W2)' <= Line(a, clock, e)'
      BY <1>1, <1>2 DEF Money, Line
<1>4. m # "fresh" /\ Live(a, b, W2)' =>
          last'[b] <= clock' /\ Due(a)' + Left(a, b)' <= Line(a, last[b], e)'
      BY <1>2 DEF Money, Line, Live
<1>5. \A u \in W2 \ D2 : Sure(a, m, b, W2, e, u)'
  <2> SUFFICES ASSUME NEW u \in W2 \ D2 PROVE Sure(a, m, b, W2, e, u)'
      OBVIOUS
  <2>1. Sure(a, m, b, W, e, u) /\ now'[u] = now[u] /\ now[u] \in Nat
        BY DEF Money, TypeInv, TypeOK
  <2>2. Due(a)' + Balance(a, m, b, W2)' <= Line(a, now[u], e)'
        BY <1>1, <1>2, <2>1 DEF Sure, Line
  <2>3. Line(a, now[u], e)' = Line(a, now[u], e)
        BY <2>1 DEF Line
  <2> QED BY <2>1, <2>2, <2>3 DEF Sure
<1> QED BY <1>3, <1>4, <1>5 DEF Money

-----------------------------------------------------------------------------
\* Steps of the strangers.

\* A step of a call leaves the other calls, the clock and the history of
\* arrivals alone.
LEMMA StepFrame ==
    ASSUME TypeInv, TypeInv', NEW t \in Threads, Step(t)
    PROVE  /\ pc[t] # "idle"
           /\ \A u \in Threads \ {t} :
                 /\ pc'[u] = pc[u] /\ ip'[u] = ip[u] /\ now'[u] = now[u]
                 /\ mine'[u] = mine[u] /\ refilled'[u] = refilled[u]
           /\ pc'[t] # "idle" => ip'[t] = ip[t] /\ now'[t] = now[t]
           /\ clock' = clock /\ overlaps' = overlaps /\ others' = others /\ since' = since
           /\ \A c \in Addresses \ {ip[t]} : admitted'[c] = admitted[c]
<1> USE DEF TypeInv, TypeOK
<1>1. CASE Lookup(t)
      BY <1>1 DEF Lookup, Goto, history
<1>2. CASE CheckFull(t)
      BY <1>2 DEF CheckFull, Goto, call, history
<1>3. CASE Evict(t)
      BY <1>3 DEF Evict, Return, Goto, call, history
<1>4. CASE Insert(t)
  <2>1. /\ pc[t] = "insert" /\ pc' = [pc EXCEPT ![t] = "elapsed"] /\ UNCHANGED <<ip, now, refilled>>
        /\ \A u \in Threads \ {t} : mine'[u] = mine[u]
        /\ UNCHANGED <<clock, history>>
        BY <1>4 DEF Insert, Goto
  <2> QED BY <2>1 DEF history
<1>5. CASE Touch(t)
      BY <1>5 DEF Touch, Return, Goto, call, history
<1>6. CASE Elapsed(t) \/ Refilled(t) \/ GlobalElapsed(t) \/ GlobalRefilled(t)
      BY <1>6 DEF Elapsed, Refilled, GlobalElapsed, GlobalRefilled, Goto, history
<1>7. CASE Check(t)
      BY <1>7 DEF Check, Return, Goto, call, history
<1>8. CASE Spend(t)
      BY <1>8 DEF Spend, Return, Goto
<1> QED BY <1>1, <1>2, <1>3, <1>4, <1>5, <1>6, <1>7, <1>8 DEF Step

\* What a stranger's step leaves an address.
LEMMA StrangerFrame ==
    ASSUME TypeInv, TypeInv', OwnInv, NEW a \in Addresses, NEW x \in Strangers(a), Step(x)
    PROVE  /\ x \in Threads
           /\ CallsOf(a)' = CallsOf(a) /\ Looking(a)' = Looking(a)
           /\ Unchecked(a)' = Unchecked(a) /\ Charged(a)' = Charged(a)
           /\ Strangers(a)' = IF pc'[x] = "idle" THEN Strangers(a) \ {x} ELSE Strangers(a)
           /\ pc'[x] # "idle" => ip'[x] = ip[x]
           /\ \A u \in Threads \ {x} :
                 /\ pc'[u] = pc[u] /\ ip'[u] = ip[u] /\ now'[u] = now[u]
                 /\ mine'[u] = mine[u] /\ refilled'[u] = refilled[u]
           /\ clock' = clock /\ overlaps' = overlaps /\ others' = others /\ since' = since
           /\ Due(a)' = Due(a)
           /\ slot'[a] \in {slot[a], None}
           /\ \A b \in Buckets :
                 slot'[a] = b \/ (\E u \in CallsOf(a) : mine[u] = b)
                     => tokens'[b] = tokens[b] /\ last'[b] = last[b]
<1>1. x \in Threads /\ ip[x] # a /\ pc[x] # "idle" /\ x \in Busy
      BY DEF Strangers, Busy
<1>2. /\ \A u \in Threads \ {x} :
             /\ pc'[u] = pc[u] /\ ip'[u] = ip[u] /\ now'[u] = now[u]
             /\ mine'[u] = mine[u] /\ refilled'[u] = refilled[u]
      /\ pc'[x] # "idle" => ip'[x] = ip[x]
      /\ clock' = clock /\ overlaps' = overlaps /\ others' = others /\ since' = since
      /\ admitted'[a] = admitted[a]
      BY <1>1, StepFrame
<1>3. Busy' = IF pc'[x] = "idle" THEN Busy \ {x} ELSE Busy
      BY <1>1, <1>2 DEF Busy
<1>4. /\ CallsOf(a)' = CallsOf(a)
      /\ Strangers(a)' = IF pc'[x] = "idle" THEN Strangers(a) \ {x} ELSE Strangers(a)
      BY <1>1, <1>2, <1>3 DEF CallsOf, Strangers, Busy
<1>5. \A u \in CallsOf(a) : u \in Threads \ {x} /\ pc'[u] = pc[u]
      BY <1>1, <1>2 DEF CallsOf, Busy
<1>6. Looking(a)' = Looking(a) /\ Unchecked(a)' = Unchecked(a) /\ Charged(a)' = Charged(a)
      BY <1>4, <1>5 DEF Looking, Unchecked, Charged
<1>7. Due(a)' = Due(a)
      BY <1>2, <1>6 DEF Due, Taken
<1>8. slot'[a] \in {slot[a], None} /\ ip[x] \in Addresses
  <2>0. ip[x] \in Addresses /\ slot \in [Addresses -> Buckets \cup {None}]
        BY <1>1 DEF TypeInv, TypeOK, StageOK
  <2>1. CASE Evict(x)
    <3>1. slot' = slot \/ \E c : slot' = [slot EXCEPT ![c] = None]
          BY <2>1 DEF Evict, Drop, table
    <3> QED BY <2>0, <3>1
  <2>2. CASE Insert(x)
    <3>1. slot' = [slot EXCEPT ![ip[x]] = slot'[ip[x]]]
          BY <2>0, <2>2 DEF Insert
    <3> QED BY <1>1, <2>0, <3>1
  <2>3. CASE ~ Evict(x) /\ ~ Insert(x)
    <3>1. slot' = slot
          BY <2>3 DEF Step, Lookup, CheckFull, Touch, Elapsed, Refilled, Check,
                      GlobalElapsed, GlobalRefilled, Spend, table
    <3> QED BY <2>0, <3>1
  <2> QED BY <2>0, <2>1, <2>2, <2>3
<1>9. ASSUME NEW b \in Buckets, slot'[a] = b \/ (\E u \in CallsOf(a) : mine[u] = b)
      PROVE  tokens'[b] = tokens[b] /\ last'[b] = last[b]
  <2>1. slot[a] = b \/ (\E u \in CallsOf(a) : mine[u] = b)
        BY <1>8, <1>9, LimiterAssumption
  <2>2. ~ Free(b) /\ mine[x] # b
        BY <1>1, <2>1, LimiterAssumption DEF Free, OwnInv, CallsOf, Busy
  <2>3. tokens \in [Buckets -> Int] /\ last \in [Buckets -> Int]
        BY DEF TypeInv, TypeOK
  <2>4. CASE Insert(x)
    <3>1. PICK c \in Buckets : Free(c) /\ tokens' = [tokens EXCEPT ![c] = Full]
                               /\ last' = [last EXCEPT ![c] = now[x]]
          BY <2>4 DEF Insert
    <3> QED BY <2>2, <2>3, <3>1
  <2>5. CASE Check(x)
        BY <2>2, <2>3, <2>5 DEF Check
  <2>6. CASE Spend(x)
        BY <2>2, <2>3, <2>6 DEF Spend
  <2>7. CASE ~ Insert(x) /\ ~ Check(x) /\ ~ Spend(x)
        BY <2>7 DEF Step, Lookup, CheckFull, Evict, Touch, Elapsed, Refilled,
                    GlobalElapsed, GlobalRefilled, buckets
  <2> QED BY <2>4, <2>5, <2>6, <2>7
<1> QED BY <1>1, <1>2, <1>4, <1>6, <1>7, <1>8, <1>9

\* The address that a stranger evicts while it runs no call has seen Slots
\* others: those that are left in the table, and the stranger's.
LEMMA EvictedLate ==
    ASSUME TypeInv, NEW a \in Oldest, NEW x \in Strangers(a),
           CallsOf(a) = {}, Ordered(a), slot[ip[x]] = None, ip[x] \in others[a],
           Cardinality(Tracked) >= Slots
    PROVE  Cardinality(others[a]) >= Slots
<1> USE LimiterAssumption
<1>1. a \in Tracked /\ a \in Addresses /\ slot[a] # None
      BY DEF Oldest, Tracked
<1>2. \A c \in Tracked \ {a} : c \in others[a]
      BY <1>1 DEF Oldest, Ordered
<1>3. others[a] \subseteq Addresses /\ Tracked \subseteq Addresses /\ ip[x] \notin Tracked
      BY <1>1 DEF TypeInv, TypeOK, Tracked
<1>4. IsFiniteSet(Tracked) /\ IsFiniteSet(others[a])
      BY <1>3, FS_Subset
<1> DEFINE T == Tracked \ {a}
<1>5. IsFiniteSet(T) /\ Cardinality(T) = Cardinality(Tracked) - 1
      BY <1>1, <1>4, FS_RemoveElement
<1>6. T \cup {ip[x]} \subseteq others[a] /\ ip[x] \notin T
      BY <1>2, <1>3
<1>7. Cardinality(T \cup {ip[x]}) = Cardinality(T) + 1
      BY <1>5, <1>6, FS_AddElement
<1>8. Cardinality(T \cup {ip[x]}) <= Cardinality(others[a])
      BY <1>4, <1>6, FS_Subset
<1>9. /\ Cardinality(T) \in Nat /\ Cardinality(Tracked) \in Nat
      /\ Cardinality(others[a]) \in Nat
      BY <1>4, <1>5, FS_CardinalityType
<1> HIDE DEF T
<1> QED BY <1>5, <1>7, <1>8, <1>9

\* A stranger's step keeps the account, but for the table's order.
LEMMA StrangerKeeps ==
    ASSUME TypeInv, TypeInv', OwnInv, NEW a \in Addresses, NEW x \in Strangers(a), Step(x),
           NEW m, NEW b, NEW W, NEW D, NEW e, AccountOf(a, m, b, W, D, e)
    PROVE  Shares(a, W, D)' /\ OwnBucket(a, b, W, D)' /\ Money(a, m, b, W, D, e)'
<1>1. /\ b \in Buckets \cup {None} /\ e \in Nat /\ Shares(a, W, D) /\ OwnBucket(a, b, W, D)
      /\ Money(a, m, b, W, D, e)
      BY DEF AccountOf
<1>2. /\ CallsOf(a)' = CallsOf(a) /\ Unchecked(a)' = Unchecked(a) /\ Charged(a)' = Charged(a)
      /\ \A u \in Threads \ {x} :
            /\ pc'[u] = pc[u] /\ ip'[u] = ip[u] /\ now'[u] = now[u]
            /\ mine'[u] = mine[u] /\ refilled'[u] = refilled[u]
      /\ clock' = clock /\ since' = since
      /\ Due(a)' = Due(a)
      /\ slot'[a] \in {slot[a], None}
      /\ \A c \in Buckets :
            slot'[a] = c \/ (\E u \in CallsOf(a) : mine[u] = c)
                => tokens'[c] = tokens[c] /\ last'[c] = last[c]
      BY StrangerFrame
<1>3. \A u \in CallsOf(a) : u \in Threads \ {x}
      BY DEF CallsOf, Strangers, Busy
<1>4. \A u \in W \cup D : u \in CallsOf(a) /\ u \in Threads \ {x}
      BY <1>1, <1>3 DEF Shares, Unchecked
<1>5. Shares(a, W, D)' /\ OwnBucket(a, b, W, D)'
      BY <1>1, <1>2, <1>4 DEF Shares, OwnBucket
<1>6. Holders(W)' = Holders(W) /\ \A u \in Holders(W) : u \in CallsOf(a) /\ mine[u] = b
      BY <1>1, <1>2, <1>4 DEF Holders, OwnBucket
<1>7. Live(a, b, W)' => Live(a, b, W) /\ last'[b] = last[b] /\ tokens'[b] = tokens[b]
      BY <1>1, <1>2, <1>6 DEF Live
<1>8. Live(a, b, W)' => Left(a, b)' = Left(a, b)
  <2>1. (\E t \in Charged(a)' : mine'[t] = b) <=> (\E t \in Charged(a) : mine[t] = b)
        BY <1>2, <1>3 DEF Charged
  <2> QED BY <1>7, <2>1 DEF Left
<1>9. m # "fresh" => \A u \in W \ D :
          /\ CallsOf(a)' = W
          /\ pc'[u] \notin Replacing
          /\ pc'[u] = "refill" => refilled'[u] <= Elapse(now[u], last'[b])
          /\ pc'[u] = "check" => Due(a)' + refilled'[u] <= Line(a, now[u], e)
  <2> SUFFICES ASSUME m # "fresh", NEW u \in W \ D
               PROVE  /\ CallsOf(a)' = W
                      /\ pc'[u] \notin Replacing
                      /\ pc'[u] = "refill" => refilled'[u] <= Elapse(now[u], last'[b])
                      /\ pc'[u] = "check" => Due(a)' + refilled'[u] <= Line(a, now[u], e)
      OBVIOUS
  <2>1. Sure(a, m, b, W, e, u) /\ pc'[u] = pc[u] /\ refilled'[u] = refilled[u] /\ u \in Threads
        BY <1>1, <1>2, <1>4 DEF Money
  <2>2. pc[u] = "refill" => last'[b] = last[b]
    <3>1. pc[u] = "refill" => u \in CallsOf(a) /\ mine[u] = b /\ mine[u] \in Buckets
          BY <1>1, <1>4, <2>1 DEF OwnBucket, Holding, TypeInv, StageOK
    <3> QED BY <1>2, <3>1
  <2> QED BY <1>2, <2>1, <2>2 DEF Sure
<1>10. W \in SUBSET Threads /\ \A u \in W \ D : now'[u] = now[u]
      BY <1>2, <1>4
<1>11. Due(a)' <= Due(a) /\ clock <= clock' /\ since'[a] = since[a]
  <2>1. AccountNumbers
        BY AccountNumbersHold
  <2> QED BY <1>2, <2>1 DEF AccountNumbers
<1>12. Live(a, b, W)' => Due(a)' + Left(a, b)' <= Due(a) + Left(a, b)
  <2>1. Due(a) \in Nat /\ (Live(a, b, W)' => Left(a, b) \in Nat)
        BY <1>1, AccountNumbersHold DEF AccountNumbers, Live
  <2> QED BY <1>2, <1>8, <2>1
<1>13. Money(a, m, b, W, D, e)'
      BY <1>1, <1>7, <1>9, <1>10, <1>11, <1>12, MoneyKeeps
<1> QED BY <1>5, <1>13

\* While nothing is to spare a stranger keeps what makes the account sound; if
\* it was the last one, the calls that it met have something to spare.
LEMMA StrangerSound ==
    ASSUME TypeInv, TypeInv', OwnInv, NEW a \in Addresses, NEW x \in Strangers(a), Step(x),
           NEW m, NEW W, W \subseteq CallsOf(a), Sound(a, m, W),
           Strangers(a)' # {} \/ Looking(a) = {}
    PROVE  Sound(a, m, W)'
<1>1. /\ x \in Threads
      /\ CallsOf(a)' = CallsOf(a) /\ Looking(a)' = Looking(a)
      /\ Strangers(a)' = IF pc'[x] = "idle" THEN Strangers(a) \ {x} ELSE Strangers(a)
      /\ pc'[x] # "idle" => ip'[x] = ip[x]
      /\ \A u \in Threads \ {x} : pc'[u] = pc[u] /\ ip'[u] = ip[u]
      /\ others' = others /\ slot'[a] \in {slot[a], None}
      BY StrangerFrame
<1>2. /\ ip[x] # a /\ ip[x] \in Addresses /\ Strangers(a) = {x}
      /\ \A u \in CallsOf(a) : u \in Threads \ {x} /\ pc'[u] = pc[u]
      /\ Holders(W)' = Holders(W)
  <2>1. /\ ip[x] # a /\ ip[x] \in Addresses /\ Strangers(a) = {x}
        /\ \A u \in CallsOf(a) : u \in Threads \ {x}
        BY DEF Strangers, CallsOf, Busy, Sound, TypeInv, TypeOK, StageOK
  <2> QED BY <1>1, <2>1 DEF Holders
<1>3. Ordered(a) /\ Harmless(a, m, x)
      BY DEF Sound
<1>4. /\ slot \in [Addresses -> Buckets \cup {None}] /\ pc \in [Threads -> Stages \cup {"idle"}]
      /\ ip \in [Threads -> Addresses \cup {None}]
      BY DEF TypeInv, TypeOK
<1>5. slot[a] = None /\ (m # "fresh" \/ Holders(W)' # {}) => Excused(a, W)
      BY <1>2 DEF Sound
<1>6. (\E t \in CallsOf(a) : pc[t] \in Arriving) => \E t \in CallsOf(a)' : pc'[t] \in Arriving
      BY <1>1, <1>2
<1>7. Looking(a) # {} => \E t \in CallsOf(a)' : pc'[t] \in Arriving
      BY <1>1, <1>2 DEF Looking, Arriving
<1>8. \A y, z \in Strangers(a)' : y = x /\ y = z
      BY <1>1, <1>2
<1>9. Excused(a, W) /\ (pc[x] \in Choosing \/ pc'[x] \notin Arriving) =>
          Excused(a, W)'
  <2> SUFFICES ASSUME Excused(a, W), pc[x] \in Choosing \/ pc'[x] \notin Arriving
               PROVE  Excused(a, W)'
      OBVIOUS
  <2>1. CASE CallsOf(a) = {} /\ Cardinality(others[a]) >= Slots
        BY <1>1, <2>1 DEF Excused
  <2>2. CASE \E v \in W : pc[v] \in Replacing
        BY <1>2, <2>2 DEF Excused
  <2>3. CASE /\ Strangers(a) # {} /\ Looking(a) # {} /\ CallsOf(a) = Looking(a)
             /\ \A y \in Strangers(a) :
                   /\ pc[y] \notin Choosing
                   /\ pc[y] \in Arriving => ip[y] \in others[a] \/ Cardinality(Looking(a)) >= 2
    <3>1. pc'[x] \notin Arriving /\ pc'[x] \notin Choosing
          BY <2>3 DEF Choosing, Arriving
    <3> QED BY <1>1, <1>8, <2>3, <3>1 DEF Excused
  <2> QED BY <2>1, <2>2, <2>3 DEF Excused
<1>10. ASSUME UNCHANGED <<slot, older>>, pc'[x] \notin {"full", "evict"},
              pc'[x] \in Arriving \/ pc[x] \in Choosing => FALSE
       PROVE  Sound(a, m, W)'
  <2>1. Tracked' = Tracked
        BY <1>10 DEF Tracked
  <2>2. Ordered(a)'
        BY <1>1, <1>3, <1>6, <1>10, <2>1 DEF Ordered
  <2>3. \A y \in Strangers(a)' : Harmless(a, m, y)'
        BY <1>8, <1>10 DEF Harmless, Arriving, Choosing
  <2>4. slot'[a] = None /\ (m # "fresh" \/ Holders(W)' # {}) => Excused(a, W)'
        BY <1>5, <1>9, <1>10 DEF Choosing, Arriving
  <2> QED BY <1>8, <2>2, <2>3, <2>4 DEF Sound
<1>11. CASE Lookup(x) \/ CheckFull(x)
  <2>1. /\ UNCHANGED <<slot, older>> /\ pc[x] \in Choosing /\ pc[x] \in Arriving
        /\ pc'[x] \in {"full", "evict", "insert", "touch"}
        /\ pc'[x] \in {"full", "evict"} => slot[ip[x]] = None
        /\ pc'[x] = "evict" => Cardinality(Tracked) >= Slots
        BY <1>1, <1>3, <1>4, <1>11 DEF Lookup, CheckFull, Goto, table, Choosing, Arriving, Harmless
  <2>2. Tracked' = Tracked /\ Oldest' = Oldest
        BY <2>1 DEF Tracked, Oldest
  <2>3. Ordered(a)'
        BY <1>1, <1>3, <1>6, <2>1, <2>2 DEF Ordered
  <2>4. Harmless(a, m, x)'
        BY <1>1, <1>3, <2>1, <2>2 DEF Harmless, Spared
  <2>5. slot'[a] = None /\ (m # "fresh" \/ Holders(W)' # {}) => Excused(a, W)'
        BY <1>5, <1>9, <2>1
  <2> QED BY <1>8, <2>3, <2>4, <2>5 DEF Sound
<1>12. CASE Evict(x) /\ Tracked # {}
  <2>1. PICK c \in Oldest : Drop(c)
        BY <1>12 DEF Evict
  <2>2. /\ pc[x] = "evict" /\ pc'[x] = "insert" /\ c \in Tracked /\ c \in Addresses
        /\ slot' = [slot EXCEPT ![c] = None] /\ older' \subseteq older
        BY <1>1, <1>4, <1>12, <2>1 DEF Evict, Drop, Goto, Oldest, Tracked
  <2>3. Ordered(a)'
    <3>1. Tracked' \subseteq Tracked
          BY <1>4, <2>2 DEF Tracked
    <3> QED BY <1>1, <1>3, <1>4, <1>6, <2>2, <3>1 DEF Ordered
  <2>4. Harmless(a, m, x)'
        BY <1>1, <1>3, <2>2 DEF Harmless, Choosing, Arriving
  <2>5. slot'[a] = None /\ (m # "fresh" \/ Holders(W)' # {}) => Excused(a, W)'
    <3>1. CASE slot[a] = None
          BY <1>5, <1>9, <2>2, <3>1 DEF Choosing
    <3>2. CASE slot[a] # None /\ slot'[a] = None
      <4>1. c = a
            BY <1>4, <2>2, <3>2
      <4>2. /\ slot[ip[x]] = None /\ Cardinality(Tracked) >= Slots /\ CallsOf(a) = Looking(a)
            /\ ip[x] \in others[a] \/ Looking(a) # {}
            /\ \/ Looking(a) = {} \/ m = "fresh" \/ ip[x] \in others[a]
               \/ Cardinality(Looking(a)) >= 2 \/ Spared(a, x)
            BY <1>3, <2>2 DEF Harmless, Choosing, Arriving
      <4>3. ~ Spared(a, x)
        <5>1. Cardinality(Tracked) \in Nat /\ Slots \in Nat
          <6>1. IsFiniteSet(Tracked)
                BY LimiterAssumption, FS_Subset DEF Tracked
          <6> QED BY <6>1, FS_CardinalityType, LimiterAssumption
        <5> QED BY <2>1, <4>1, <4>2, <5>1 DEF Spared
      <4>4. CASE CallsOf(a) = {}
        <5>1. ip[x] \in others[a]
              BY <4>2, <4>4
        <5>2. Cardinality(others[a]) >= Slots
              BY <1>3, <2>1, <4>1, <4>2, <4>4, <5>1, EvictedLate
        <5> QED BY <1>1, <4>4, <5>2 DEF Excused
      <4>5. CASE CallsOf(a) # {}
        <5>1. Holders(W) = {}
              BY <4>2 DEF Holders, Looking, Holding
        <5>2. m = "fresh" \/ ip[x] \in others[a] \/ Cardinality(Looking(a)) >= 2
              BY <4>2, <4>3, <4>5
        <5>3. ip[x] \in others[a] \/ Cardinality(Looking(a)) >= 2 => Excused(a, W)'
          <6>1. Strangers(a)' # {} /\ Looking(a)' # {} /\ CallsOf(a)' = Looking(a)'
                BY <1>1, <2>2, <4>2, <4>5
          <6> QED BY <1>1, <1>8, <2>2, <6>1 DEF Excused, Choosing
        <5> QED BY <1>2, <5>1, <5>2, <5>3
      <4> QED BY <4>4, <4>5
    <3> QED BY <3>1, <3>2
  <2> QED BY <1>8, <2>3, <2>4, <2>5 DEF Sound
<1>13. CASE Insert(x) \/ (Touch(x) /\ slot[ip[x]] # None)
  <2>1. /\ MoveToEnd(ip[x], Tracked) /\ pc'[x] = "elapsed" /\ pc[x] \in {"insert", "touch"}
        /\ slot' = [slot EXCEPT ![ip[x]] = slot'[ip[x]]]
        BY <1>1, <1>2, <1>4, <1>13 DEF Insert, Touch, Goto
  <2>2. slot'[a] = slot[a] /\ Tracked' \subseteq Tracked \cup {ip[x]}
        BY <1>2, <1>4, <2>1 DEF Tracked
  <2>3. ip[x] \in others[a] \/ Looking(a) # {}
        BY <1>3, <2>1 DEF Harmless, Arriving
  <2>4. Ordered(a)'
    <3> SUFFICES ASSUME slot'[a] # None, NEW c \in Tracked' \ {a}, <<a, c>> \in older'
                 PROVE  c \in others'[a] \/ \E t \in CallsOf(a)' : pc'[t] \in Arriving
        BY DEF Ordered
    <3>1. CASE c = ip[x]
          BY <1>1, <1>7, <2>3, <3>1
    <3>2. CASE c # ip[x]
      <4>1. <<a, c>> \in older /\ c \in Tracked \ {a}
            BY <2>1, <2>2, <3>2 DEF MoveToEnd
      <4> QED BY <1>1, <1>3, <1>6, <2>2, <4>1 DEF Ordered
    <3> QED BY <3>1, <3>2
  <2>5. Harmless(a, m, x)'
        BY <2>1 DEF Harmless, Choosing, Arriving
  <2>6. slot'[a] = None /\ (m # "fresh" \/ Holders(W)' # {}) => Excused(a, W)'
        BY <1>5, <1>9, <2>1, <2>2 DEF Arriving
  <2> QED BY <1>8, <2>4, <2>5, <2>6 DEF Sound
<1>14. CASE pc'[x] = "idle"
  <2>1. UNCHANGED <<slot, older>>
        BY <1>1, <1>4, <1>14 DEF Step, Lookup, CheckFull, Evict, Insert, Touch, Elapsed, Refilled,
               Check, GlobalElapsed, GlobalRefilled, Spend, Goto, table
  <2>2. Strangers(a)' = {} /\ Looking(a) = {} /\ Tracked' = Tracked
        BY <1>1, <1>2, <1>14, <2>1 DEF Tracked
  <2>3. Ordered(a)'
        BY <1>1, <1>3, <1>6, <2>1, <2>2 DEF Ordered
  <2>4. Excused(a, W) => Excused(a, W)'
        BY <1>1, <1>2, <2>2 DEF Excused
  <2> QED BY <1>5, <1>8, <2>1, <2>2, <2>3, <2>4 DEF Sound
<1>15. CASE Elapsed(x) \/ Refilled(x) \/ (Check(x) /\ pc'[x] # "idle")
            \/ GlobalElapsed(x) \/ GlobalRefilled(x)
  <2>1. /\ UNCHANGED <<slot, older>> /\ pc[x] \notin Choosing
        /\ pc'[x] \in {"refill", "check", "gelapsed", "grefill", "spend"}
        BY <1>1, <1>4, <1>15 DEF Elapsed, Refilled, Check, GlobalElapsed, GlobalRefilled, Goto,
                                 Return, table, Choosing
  <2> QED BY <1>10, <2>1 DEF Arriving
<1>16. \/ Lookup(x) \/ CheckFull(x) \/ (Evict(x) /\ Tracked # {}) \/ Insert(x)
       \/ (Touch(x) /\ slot[ip[x]] # None) \/ pc'[x] = "idle"
       \/ Elapsed(x) \/ Refilled(x) \/ (Check(x) /\ pc'[x] # "idle")
       \/ GlobalElapsed(x) \/ GlobalRefilled(x)
  <2>1. Spend(x) \/ (Evict(x) /\ Tracked = {}) \/ (Touch(x) /\ slot[ip[x]] = None)
            => pc'[x] = "idle"
        BY <1>1, <1>4 DEF Spend, Evict, Touch, Return, Goto
  <2> QED BY <2>1 DEF Step
<1> QED BY <1>11, <1>12, <1>13, <1>14, <1>15, <1>16

\* A stranger's step keeps the account.
LEMMA StrangerStep ==
    ASSUME TypeInv, TypeInv', OwnInv, NEW a \in Addresses, NEW x \in Strangers(a), Step(x),
           Accounted(a)
    PROVE  Accounted(a)'
<1>1. PICK m, b, W, D, e : AccountOf(a, m, b, W, D, e)
      BY DEF Accounted
<1>2. Shares(a, W, D)' /\ OwnBucket(a, b, W, D)' /\ Money(a, m, b, W, D, e)'
      BY <1>1, StrangerKeeps
<1>3. /\ CallsOf(a)' = CallsOf(a) /\ Looking(a)' = Looking(a) /\ overlaps' = overlaps
      /\ Strangers(a)' = IF pc'[x] = "idle" THEN Strangers(a) \ {x} ELSE Strangers(a)
      BY StrangerFrame
<1>4. Reserve(a, m, W, D, e)'
  <2>0. Reserve(a, m, W, D, e) /\ W \subseteq CallsOf(a) /\ W \subseteq Unchecked(a)
        /\ D \subseteq Unchecked(a) /\ e \in Nat
        BY <1>1 DEF AccountOf, Shares, Unchecked
  <2>1. CASE Strangers(a)' # {} \/ Looking(a) = {}
    <3>1. Watched(a)' = Watched(a)
          BY <1>3, <2>1 DEF Watched
    <3>2. Sound(a, m, W) => Sound(a, m, W)'
          BY <2>0, <2>1, StrangerSound
    <3> QED BY <1>3, <2>0, <3>1, <3>2 DEF Reserve, Used
  <2>2. CASE Strangers(a)' = {} /\ Looking(a) # {}
    <3>1. Watched(a)' = {} /\ Watched(a) = Looking(a)
          BY <1>3, <2>2 DEF Watched
    <3>2. Cardinality(Looking(a)) \in Nat /\ Cardinality(Looking(a)) # 0
      <4>1. IsFiniteSet(Looking(a)) /\ Cardinality(Looking(a)) \in Nat
            BY Sizes
      <4> QED BY <2>2, <4>1, FS_EmptySet
    <3>3. Used(W, D, e) \in Nat /\ overlaps \in Nat
      <4>1. Cardinality(W) \in Nat /\ Cardinality(D) \in Nat
            BY <2>0, Sizes
      <4> QED BY <2>0, <4>1, PairsGrow DEF Used, TypeInv, TypeOK
    <3>4. Cardinality({}) = 0
          BY FS_EmptySet
    <3> QED BY <1>3, <2>0, <3>1, <3>2, <3>3, <3>4 DEF Reserve
  <2> QED BY <2>1, <2>2
<1>5. AccountOf(a, m, b, W, D, e)'
      BY <1>1, <1>2, <1>4 DEF AccountOf
<1> QED BY <1>5 DEF Accounted

-----------------------------------------------------------------------------
\* The clock, and calls that arrive.

\* Of two finite sets of calls the part has no more, and as many only if it is
\* the whole.
LEMMA PartOf ==
    ASSUME TypeInv, NEW S \in SUBSET Busy, NEW T \in SUBSET S
    PROVE  /\ Cardinality(T) \in Nat /\ Cardinality(S) \in Nat
           /\ Cardinality(T) <= Cardinality(S)
           /\ Cardinality(T) = Cardinality(S) => T = S
<1>1. IsFiniteSet(S) /\ IsFiniteSet(T) /\ Cardinality(T) \in Nat /\ Cardinality(S) \in Nat
      BY RateNumbersHold DEF RateNumbers
<1> QED BY <1>1, FS_Subset

\* The time passes, or nothing does.
LEMMA ClockStep ==
    ASSUME TypeInv, TypeInv', NEW a \in Addresses, clock <= clock',
           UNCHANGED <<table, buckets, global, pc, call, lost, history>>, Accounted(a)
    PROVE  Accounted(a)'
<1>1. PICK m, b, W, D, e : AccountOf(a, m, b, W, D, e)
      BY DEF Accounted
<1>2. UNCHANGED <<slot, older, tokens, last, pc, ip, now, mine, refilled,
                  admitted, since, others, overlaps>>
      BY DEF table, buckets, call, history
<1>3. /\ Busy' = Busy /\ Tracked' = Tracked /\ Oldest' = Oldest
      /\ CallsOf(a)' = CallsOf(a) /\ Strangers(a)' = Strangers(a)
      BY <1>2 DEF Busy, Tracked, Oldest, CallsOf, Strangers
<1>4. /\ Looking(a)' = Looking(a) /\ Unchecked(a)' = Unchecked(a) /\ Charged(a)' = Charged(a)
      /\ Watched(a)' = Watched(a)
      BY <1>2, <1>3 DEF Looking, Unchecked, Charged, Watched
<1>5. Due(a)' = Due(a) /\ Left(a, b)' = Left(a, b) /\ Holders(W)' = Holders(W)
      /\ Live(a, b, W)' = Live(a, b, W)
      BY <1>2, <1>4 DEF Due, Taken, Left, Holders, Live
<1>6. /\ b \in Buckets \cup {None} /\ e \in Nat /\ W \in SUBSET Threads
      /\ Money(a, m, b, W, D, e)
      BY <1>1 DEF AccountOf, Shares, Unchecked, CallsOf, Busy
<1>7. /\ Due(a)' <= Due(a)
      /\ Live(a, b, W) => Due(a)' + Left(a, b)' <= Due(a) + Left(a, b)
  <2>1. AccountNumbers
        BY AccountNumbersHold
  <2>2. Due(a) \in Nat /\ (Live(a, b, W) => Left(a, b) \in Nat)
        BY <1>6, <2>1 DEF AccountNumbers
  <2> QED BY <1>5, <2>2
<1>8. m # "fresh" => \A u \in W \ D :
          /\ CallsOf(a)' = W
          /\ pc'[u] \notin Replacing
          /\ pc'[u] = "refill" => refilled'[u] <= Elapse(now[u], last'[b])
          /\ pc'[u] = "check" => Due(a)' + refilled'[u] <= Line(a, now[u], e)
      BY <1>2, <1>3, <1>5, <1>6 DEF Money, Sure
<1>9. Money(a, m, b, W, D, e)'
      BY <1>2, <1>5, <1>6, <1>7, <1>8, MoneyKeeps
<1>10. Shares(a, W, D)' /\ OwnBucket(a, b, W, D)'
      BY <1>1, <1>2, <1>4 DEF AccountOf, Shares, OwnBucket
<1>11. Sound(a, m, W) => Sound(a, m, W)'
      BY <1>2, <1>3, <1>4, <1>5 DEF Sound, Ordered, Harmless, Spared, Excused
<1>12. Reserve(a, m, W, D, e)'
      BY <1>1, <1>2, <1>4, <1>11 DEF AccountOf, Reserve, Used
<1>13. AccountOf(a, m, b, W, D, e)'
      BY <1>1, <1>9, <1>10, <1>12 DEF AccountOf
<1> QED BY <1>13 DEF Accounted

\* Another address arrives: each call of `a` that still looks for its bucket
\* makes a pair with it.
LEMMA OtherArrives ==
    ASSUME TypeInv, TypeInv', NEW a \in Addresses, NEW t \in Threads, NEW c \in Addresses \ {a},
           Arrive(t, c), Accounted(a)
    PROVE  Accounted(a)'
<1>1. PICK m, b, W, D, e : AccountOf(a, m, b, W, D, e)
      BY DEF Accounted
<1>2. /\ pc[t] = "idle" /\ pc'[t] = "lookup" /\ ip'[t] = c
      /\ \A u \in Threads \ {t} :
            /\ pc'[u] = pc[u] /\ ip'[u] = ip[u] /\ now'[u] = now[u]
            /\ mine'[u] = mine[u] /\ refilled'[u] = refilled[u]
      /\ UNCHANGED <<clock, slot, older, tokens, last>>
      /\ overlaps' = overlaps + Cardinality(Busy)
      /\ admitted'[a] = admitted[a] /\ since'[a] = since[a] /\ others'[a] = others[a] \cup {c}
      BY DEF Arrive, Goto, OpenAccount, SeenBy, table, buckets, TypeInv, TypeOK
<1>3. /\ CallsOf(a)' = CallsOf(a) /\ Strangers(a)' = Strangers(a) \cup {t} /\ t \notin Strangers(a)
      /\ \A u \in CallsOf(a) : u \in Threads \ {t}
      BY <1>2 DEF CallsOf, Strangers, Busy
<1>4. /\ Looking(a)' = Looking(a) /\ Unchecked(a)' = Unchecked(a) /\ Charged(a)' = Charged(a)
      /\ Watched(a)' = Looking(a) /\ Tracked' = Tracked
      BY <1>2, <1>3 DEF Looking, Unchecked, Charged, Watched, Tracked
<1>5. /\ b \in Buckets \cup {None} /\ e \in Nat
      /\ W \in SUBSET CallsOf(a) /\ D \in SUBSET CallsOf(a)
      /\ W \in SUBSET Threads /\ CallsOf(a) \in SUBSET Busy
      /\ Money(a, m, b, W, D, e) /\ Shares(a, W, D) /\ OwnBucket(a, b, W, D)
      /\ Reserve(a, m, W, D, e)
      BY <1>1 DEF AccountOf, Shares, Unchecked, CallsOf, Busy
<1>6. Due(a)' = Due(a) /\ Left(a, b)' = Left(a, b) /\ Holders(W)' = Holders(W)
      /\ Live(a, b, W)' = Live(a, b, W)
  <2>1. Holders(W)' = Holders(W)
        BY <1>2, <1>3, <1>5 DEF Holders
  <2>2. (\E u \in Charged(a)' : mine'[u] = b) <=> (\E u \in Charged(a) : mine[u] = b)
        BY <1>2, <1>3, <1>4 DEF Charged
  <2> QED BY <1>2, <1>4, <2>1, <2>2 DEF Due, Taken, Left, Live
<1>7. /\ Due(a)' <= Due(a) /\ clock <= clock'
      /\ Live(a, b, W) => Due(a)' + Left(a, b)' <= Due(a) + Left(a, b)
  <2>1. AccountNumbers
        BY AccountNumbersHold
  <2>2. Due(a) \in Nat /\ clock \in Nat /\ (Live(a, b, W) => Left(a, b) \in Nat)
        BY <1>5, <2>1 DEF AccountNumbers
  <2> QED BY <1>2, <1>6, <2>2
<1>8. m # "fresh" => \A u \in W \ D :
          /\ CallsOf(a)' = W
          /\ pc'[u] \notin Replacing
          /\ pc'[u] = "refill" => refilled'[u] <= Elapse(now[u], last'[b])
          /\ pc'[u] = "check" => Due(a)' + refilled'[u] <= Line(a, now[u], e)
      BY <1>2, <1>3, <1>5, <1>6 DEF Money, Sure
<1>9. Money(a, m, b, W, D, e)'
  <2>1. \A u \in W \ D : now'[u] = now[u]
        BY <1>2, <1>3, <1>5
  <2> QED BY <1>2, <1>5, <1>6, <1>7, <1>8, <2>1, MoneyKeeps
<1>10. Shares(a, W, D)' /\ OwnBucket(a, b, W, D)'
      BY <1>2, <1>3, <1>4, <1>5 DEF Shares, OwnBucket
<1>11. ASSUME Sound(a, m, W), Strangers(a) = {}, CallsOf(a) = Looking(a)
       PROVE  Sound(a, m, W)'
  <2>1. Ordered(a)'
        BY <1>2, <1>3, <1>4, <1>11 DEF Sound, Ordered
  <2>2. Harmless(a, m, t)'
        BY <1>2, <1>3, <1>4, <1>11 DEF Harmless, Choosing
  <2>3. Cardinality(others[a]) >= Slots => Cardinality(others'[a]) >= Slots
    <3>1. others[a] \subseteq Addresses /\ others'[a] \subseteq Addresses
          BY <1>2 DEF TypeInv, TypeOK
    <3>2. IsFiniteSet(others[a]) /\ IsFiniteSet(others'[a]) /\ others[a] \subseteq others'[a]
          BY <1>2, <3>1, FS_Subset, LimiterAssumption
    <3>3. /\ Cardinality(others[a]) \in Nat /\ Cardinality(others'[a]) \in Nat
          /\ Cardinality(others[a]) <= Cardinality(others'[a])
          BY <3>2, FS_Subset, FS_CardinalityType
    <3> QED BY <3>3, LimiterAssumption
  <2>4. Excused(a, W) => Excused(a, W)'
        BY <1>2, <1>3, <1>5, <1>11, <2>3 DEF Excused
  <2> QED BY <1>2, <1>3, <1>6, <1>11, <2>1, <2>2, <2>4 DEF Sound
<1>12. Reserve(a, m, W, D, e)'
  <2>1. /\ Cardinality(Busy) = Cardinality(CallsOf(a)) + Cardinality(Strangers(a))
        /\ Strangers(a) \in SUBSET Busy /\ Looking(a) \in SUBSET CallsOf(a)
        BY Sizes DEF Looking
  <2>2. PICK nc \in Nat, ns \in Nat, nl \in Nat :
            /\ nc = Cardinality(CallsOf(a)) /\ ns = Cardinality(Strangers(a))
            /\ nl = Cardinality(Looking(a)) /\ nl <= nc
            /\ nl = nc => Looking(a) = CallsOf(a)
            /\ ns = 0 => Strangers(a) = {}
    <3>1. IsFiniteSet(Strangers(a)) /\ Cardinality(Strangers(a)) \in Nat
          BY <2>1, Sizes
    <3>2. Cardinality(Strangers(a)) = 0 => Strangers(a) = {}
          BY <3>1, FS_EmptySet
    <3> QED BY <1>5, <2>1, <3>1, <3>2, PartOf
  <2>3. PICK k \in Nat : k = Used(W, D, e) /\ Used(W, D, e)' = k
    <3>1. Cardinality(W) \in Nat /\ Cardinality(D) \in Nat
          BY <1>5, PartOf
    <3> QED BY <1>5, <3>1, PairsGrow DEF Used
  <2>4. overlaps \in Nat /\ overlaps' = overlaps + nc + ns
        BY <1>2, <2>1, <2>2 DEF TypeInv, TypeOK
  <2>5. CASE Strangers(a) = {}
    <3>1. k <= overlaps /\ (k = overlaps => Sound(a, m, W))
      <4>1. Watched(a) = {} /\ Cardinality({}) = 0
            BY <2>5, FS_EmptySet DEF Watched
      <4> QED BY <1>5, <2>3, <2>4, <4>1 DEF Reserve
    <3>2. k + nl <= overlaps' /\ (k + nl = overlaps' => k = overlaps /\ nl = nc)
          BY <2>2, <2>4, <3>1
    <3> QED BY <1>4, <1>11, <2>2, <2>3, <2>5, <3>1, <3>2 DEF Reserve
  <2>6. CASE Strangers(a) # {}
    <3>1. k + nl <= overlaps
          BY <1>5, <2>2, <2>3, <2>6 DEF Reserve, Watched
    <3>2. k + nl < overlaps'
          BY <2>2, <2>4, <2>6, <3>1
    <3> QED BY <1>4, <2>2, <2>3, <2>4, <3>2 DEF Reserve
  <2> QED BY <2>5, <2>6
<1>13. AccountOf(a, m, b, W, D, e)'
      BY <1>1, <1>9, <1>10, <1>12 DEF AccountOf
<1> QED BY <1>13 DEF Accounted

\* What an arrival of `a` itself changes.
LEMMA ArrivalFrame ==
    ASSUME TypeInv, TypeInv', NEW a \in Addresses, NEW t \in Threads, Arrive(t, a)
    PROVE  /\ t \notin Busy /\ pc'[t] = "lookup" /\ ip'[t] = a /\ now'[t] = clock
           /\ \A u \in Threads \ {t} :
                 /\ pc'[u] = pc[u] /\ ip'[u] = ip[u] /\ now'[u] = now[u]
                 /\ mine'[u] = mine[u] /\ refilled'[u] = refilled[u]
           /\ UNCHANGED <<clock, slot, older, tokens, last>>
           /\ overlaps' = overlaps + Cardinality(Busy) /\ others'[a] = {}
           /\ IF Cardinality(others[a]) >= Slots /\ CallsOf(a) = {}
              THEN admitted'[a] = 0 /\ since'[a] = clock
              ELSE admitted'[a] = admitted[a] /\ since'[a] = since[a]
           /\ CallsOf(a)' = CallsOf(a) \cup {t} /\ Strangers(a)' = Strangers(a)
           /\ Looking(a)' = Looking(a) \cup {t} /\ Unchecked(a)' = Unchecked(a) \cup {t}
           /\ Charged(a)' = Charged(a)
           /\ Tracked' = Tracked /\ Oldest' = Oldest
<1>1. /\ pc[t] = "idle" /\ pc'[t] = "lookup" /\ ip'[t] = a /\ now'[t] = clock
      /\ \A u \in Threads \ {t} :
            /\ pc'[u] = pc[u] /\ ip'[u] = ip[u] /\ now'[u] = now[u]
            /\ mine'[u] = mine[u] /\ refilled'[u] = refilled[u]
      /\ UNCHANGED <<clock, slot, older, tokens, last>>
      /\ overlaps' = overlaps + Cardinality(Busy) /\ others'[a] = {}
      BY DEF Arrive, Goto, SeenBy, table, buckets, TypeInv, TypeOK
<1>2. IF Cardinality(others[a]) >= Slots /\ CallsOf(a) = {}
      THEN admitted'[a] = 0 /\ since'[a] = clock
      ELSE admitted'[a] = admitted[a] /\ since'[a] = since[a]
  <2>1. CallsOf(a) = {} <=> \A u \in Busy : ip[u] # a
        BY DEF CallsOf
  <2> QED BY <2>1 DEF Arrive, OpenAccount, TypeInv, TypeOK
<1>3. CallsOf(a)' = CallsOf(a) \cup {t} /\ Strangers(a)' = Strangers(a) /\ t \notin Busy
      BY <1>1 DEF CallsOf, Strangers, Busy
<1>4. \A u \in CallsOf(a) : u \in Threads \ {t}
      BY <1>1 DEF CallsOf, Busy
<1>5. /\ Looking(a)' = Looking(a) \cup {t} /\ Unchecked(a)' = Unchecked(a) \cup {t}
      /\ Charged(a)' = Charged(a)
      BY <1>1, <1>3, <1>4 DEF Looking, Unchecked, Charged, Paying
<1>6. Tracked' = Tracked /\ Oldest' = Oldest
      BY <1>1 DEF Tracked, Oldest
<1> QED BY <1>1, <1>2, <1>3, <1>5, <1>6

\* It leaves an account sound that was, as a new one if it may open one.
LEMMA ArrivalSound ==
    ASSUME TypeInv, TypeInv', NEW a \in Addresses, NEW t \in Threads, Arrive(t, a),
           NEW m, NEW m2, NEW W, NEW W2, W \subseteq CallsOf(a), W2 = W \cup {t},
           IF Cardinality(others[a]) >= Slots /\ CallsOf(a) = {} THEN m2 = "fresh" ELSE m2 = m,
           Sound(a, m, W)
    PROVE  Sound(a, m2, W2)'
<1>1. /\ t \notin Busy /\ pc'[t] = "lookup" /\ ip'[t] = a
      /\ \A u \in Threads \ {t} : pc'[u] = pc[u] /\ ip'[u] = ip[u]
      /\ UNCHANGED <<slot, older>>
      /\ CallsOf(a)' = CallsOf(a) \cup {t} /\ Strangers(a)' = Strangers(a)
      /\ Looking(a)' = Looking(a) \cup {t}
      /\ Tracked' = Tracked /\ Oldest' = Oldest
      BY ArrivalFrame
<1>2. Ordered(a)'
  <2>1. t \in CallsOf(a)'
        BY <1>1
  <2>2. pc'[t] \in Arriving
        BY <1>1 DEF Arriving
  <2> QED BY <2>1, <2>2 DEF Ordered
<1>3. Looking(a) # {} => Cardinality(Looking(a)') >= 2
  <2>1. /\ IsFiniteSet(Looking(a)) /\ Cardinality(Looking(a)) \in Nat /\ t \notin Looking(a)
        BY <1>1, Sizes DEF Looking, CallsOf
  <2>2. Cardinality(Looking(a)') = Cardinality(Looking(a)) + 1
    <3>1. Cardinality(Looking(a) \cup {t}) = Cardinality(Looking(a)) + 1
          BY <2>1, FS_AddElement
    <3> QED BY <1>1, <3>1
  <2>3. Looking(a) # {} => Cardinality(Looking(a)) # 0
        BY <2>1, FS_EmptySet
  <2> QED BY <2>1, <2>2, <2>3
<1>4. ASSUME NEW x \in Strangers(a) PROVE Harmless(a, m2, x)'
  <2>1. Harmless(a, m, x) /\ x \in Threads \ {t} /\ pc'[x] = pc[x] /\ ip'[x] = ip[x]
        BY <1>1, <1>4 DEF Sound, Strangers, Busy
  <2>2. pc[x] \in Choosing => CallsOf(a)' = Looking(a)'
        BY <1>1, <2>1 DEF Harmless
  <2>3. pc[x] \in Choosing /\ Looking(a) = {} => m2 = "fresh" \/ Spared(a, x)
    <3> SUFFICES ASSUME pc[x] \in Choosing, Looking(a) = {}, ~ Spared(a, x) PROVE m2 = "fresh"
        OBVIOUS
    <3>1. CallsOf(a) = {} /\ ip[x] \in others[a]
          BY <2>1 DEF Harmless, Choosing, Arriving
    <3>2. slot[ip[x]] = None /\ a \in Oldest /\ ~ (Cardinality(Tracked) < Slots)
          BY DEF Spared
    <3>3. Cardinality(Tracked) >= Slots
      <4>1. IsFiniteSet(Tracked)
            BY LimiterAssumption, FS_Subset DEF Tracked
      <4> QED BY <3>2, <4>1, FS_CardinalityType, LimiterAssumption
    <3>4. Cardinality(others[a]) >= Slots
          BY <3>1, <3>2, <3>3, EvictedLate DEF Sound
    <3> QED BY <3>1, <3>4
  <2>4. Spared(a, x) => Spared(a, x)'
        BY <1>1, <2>1 DEF Spared
  <2> QED BY <1>1, <1>3, <2>1, <2>2, <2>3, <2>4 DEF Harmless
<1>5. slot'[a] = None /\ (m2 # "fresh" \/ Holders(W2)' # {}) => Excused(a, W2)'
  <2> SUFFICES ASSUME slot'[a] = None, m2 # "fresh" \/ Holders(W2)' # {}
               PROVE  Excused(a, W2)'
      OBVIOUS
  <2>1. \A u \in W : u \in Threads \ {t} /\ pc'[u] = pc[u]
        BY <1>1 DEF CallsOf, Busy
  <2>2. Holders(W2)' = Holders(W)
        BY <1>1, <2>1 DEF Holders, Holding
  <2>3. ~ (Cardinality(others[a]) >= Slots /\ CallsOf(a) = {}) /\ m2 = m
        BY <2>2 DEF Holders
  <2>4. Excused(a, W)
        BY <1>1, <2>2, <2>3 DEF Sound
  <2>5. CASE \E v \in W : pc[v] \in Replacing
        BY <2>1, <2>5 DEF Excused
  <2>6. CASE /\ Strangers(a) # {} /\ Looking(a) # {} /\ CallsOf(a) = Looking(a)
             /\ \A y \in Strangers(a) :
                   /\ pc[y] \notin Choosing
                   /\ pc[y] \in Arriving => ip[y] \in others[a] \/ Cardinality(Looking(a)) >= 2
    <3>1. \A y \in Strangers(a) : pc'[y] = pc[y]
          BY <1>1 DEF Strangers, Busy
    <3> QED BY <1>1, <1>3, <2>6, <3>1 DEF Excused
  <2> QED BY <2>3, <2>4, <2>5, <2>6 DEF Excused
<1>6. \A x, y \in Strangers(a)' : x = y
      BY <1>1 DEF Sound
<1> QED BY <1>1, <1>2, <1>4, <1>5, <1>6 DEF Sound

\* A call of `a` makes a pair with each that runs: with its own for what they
\* spoil, with a stranger for a bucket that it finds evicted.
LEMMA ArrivalReserve ==
    ASSUME TypeInv, TypeInv', NEW a \in Addresses, NEW t \in Threads, Arrive(t, a),
           NEW m, NEW m2, NEW W, NEW W2, NEW D, NEW D2, NEW e \in Nat,
           Shares(a, W, D), W2 = W \cup {t}, D2 = IF CallsOf(a) = W THEN D ELSE D \cup {t},
           Reserve(a, m, W, D, e), Sound(a, m, W) => Sound(a, m2, W2)'
    PROVE  Reserve(a, m2, W2, D2, e)'
<1>1. /\ t \notin Busy /\ overlaps' = overlaps + Cardinality(Busy)
      /\ Strangers(a)' = Strangers(a) /\ Looking(a)' = Looking(a) \cup {t}
      BY ArrivalFrame
<1>2. /\ Cardinality(Busy) = Cardinality(CallsOf(a)) + Cardinality(Strangers(a))
      /\ CallsOf(a) \in SUBSET Busy /\ Strangers(a) \in SUBSET Busy
      /\ W \in SUBSET CallsOf(a) /\ D \in SUBSET Busy /\ Looking(a) \in SUBSET Busy
      BY Sizes DEF Shares
<1>3. PICK nc \in Nat, ns \in Nat, nw \in Nat, nd \in Nat, nl \in Nat :
          /\ nc = Cardinality(CallsOf(a)) /\ ns = Cardinality(Strangers(a))
          /\ nw = Cardinality(W) /\ nd = Cardinality(D) /\ nl = Cardinality(Looking(a))
          /\ nw <= nc /\ (nw = nc => CallsOf(a) = W)
          /\ (ns = 0 => Strangers(a) = {})
          /\ Cardinality(W2) = nw + 1
          /\ Cardinality(D2) = IF CallsOf(a) = W THEN nd ELSE nd + 1
          /\ Cardinality(Looking(a)') = nl + 1
  <2>1. /\ IsFiniteSet(Strangers(a)) /\ IsFiniteSet(W) /\ IsFiniteSet(D) /\ IsFiniteSet(Looking(a))
        /\ Cardinality(Strangers(a)) \in Nat /\ Cardinality(D) \in Nat
        /\ Cardinality(Looking(a)) \in Nat
        BY <1>2, Sizes
  <2>2. t \notin W /\ t \notin D /\ t \notin Looking(a)
        BY <1>1, <1>2
  <2>3. /\ Cardinality(W2) = Cardinality(W) + 1
        /\ Cardinality(D \cup {t}) = Cardinality(D) + 1
        /\ Cardinality(Looking(a)') = Cardinality(Looking(a)) + 1
        BY <1>1, <2>1, <2>2, FS_AddElement
  <2>4. Cardinality(Strangers(a)) = 0 => Strangers(a) = {}
        BY <2>1, FS_EmptySet
  <2>5. /\ Cardinality(W) \in Nat /\ Cardinality(CallsOf(a)) \in Nat
        /\ Cardinality(W) <= Cardinality(CallsOf(a))
        /\ Cardinality(W) = Cardinality(CallsOf(a)) => W = CallsOf(a)
        BY <1>2, PartOf
  <2> QED BY <2>1, <2>3, <2>4, <2>5
<1>4. PICK p \in Nat : p = Pairs(nw) /\ Pairs(nw + 1) = p + nw
      BY PairsGrow
<1>5. /\ Used(W, D, e) = nd + p + e
      /\ Used(W2, D2, e)' = (IF CallsOf(a) = W THEN nd ELSE nd + 1) + (p + nw) + e
      BY <1>3, <1>4 DEF Used
<1>6. Used(W2, D2, e)' <= Used(W, D, e) + nc /\ Used(W, D, e) \in Nat /\ Used(W2, D2, e)' \in Nat
      BY <1>3, <1>4, <1>5
<1>7. overlaps \in Nat /\ overlaps' = overlaps + (nc + ns)
      BY <1>1, <1>2, <1>3 DEF TypeInv, TypeOK
<1>8. CASE Strangers(a) = {}
  <2>1. Watched(a) = {} /\ Watched(a)' = {} /\ Cardinality({}) = 0 /\ ns = 0
        BY <1>1, <1>3, <1>8, FS_EmptySet DEF Watched
  <2> QED BY <1>3, <1>6, <1>7, <2>1 DEF Reserve
<1>9. CASE Strangers(a) # {}
  <2>1. Watched(a) = Looking(a) /\ Watched(a)' = Looking(a)' /\ ns # 0
        BY <1>1, <1>3, <1>9 DEF Watched
  <2> QED BY <1>3, <1>6, <1>7, <2>1 DEF Reserve
<1> QED BY <1>8, <1>9

\* An address arrives.
LEMMA OwnArrives ==
    ASSUME TypeInv, TypeInv', NEW a \in Addresses, NEW t \in Threads, Arrive(t, a), Accounted(a)
    PROVE  Accounted(a)'
<1>1. PICK m, b, W, D, e : AccountOf(a, m, b, W, D, e)
      BY DEF Accounted
<1>2. /\ t \notin Busy /\ pc'[t] = "lookup" /\ ip'[t] = a /\ now'[t] = clock
      /\ \A u \in Threads \ {t} :
            /\ pc'[u] = pc[u] /\ ip'[u] = ip[u] /\ now'[u] = now[u]
            /\ mine'[u] = mine[u] /\ refilled'[u] = refilled[u]
      /\ UNCHANGED <<clock, slot, older, tokens, last>>
      /\ IF Cardinality(others[a]) >= Slots /\ CallsOf(a) = {}
         THEN admitted'[a] = 0 /\ since'[a] = clock
         ELSE admitted'[a] = admitted[a] /\ since'[a] = since[a]
      /\ CallsOf(a)' = CallsOf(a) \cup {t}
      /\ Unchecked(a)' = Unchecked(a) \cup {t} /\ Charged(a)' = Charged(a)
      BY ArrivalFrame
<1>3. /\ m \in {"fresh", "used"} /\ b \in Buckets \cup {None} /\ e \in Nat
      /\ Shares(a, W, D) /\ OwnBucket(a, b, W, D) /\ Money(a, m, b, W, D, e)
      /\ Reserve(a, m, W, D, e)
      BY <1>1 DEF AccountOf
<1>4. PICK m2, W2, D2 :
          /\ W2 = W \cup {t} /\ D2 = IF CallsOf(a) = W THEN D ELSE D \cup {t}
          /\ IF Cardinality(others[a]) >= Slots /\ CallsOf(a) = {} THEN m2 = "fresh" ELSE m2 = m
      OBVIOUS
<1>5. \A u \in W \cup D : u \in CallsOf(a) /\ u \in Threads \ {t}
      BY <1>2, <1>3 DEF Shares, Unchecked, CallsOf, Busy
<1>6. Reserve(a, m2, W2, D2, e)'
  <2>1. Sound(a, m, W) => Sound(a, m2, W2)'
    <3>1. W \subseteq CallsOf(a)
          BY <1>5
    <3> QED BY <1>4, <3>1, ArrivalSound
  <2> QED BY <1>3, <1>4, <2>1, ArrivalReserve
<1>7. Shares(a, W2, D2)' /\ OwnBucket(a, b, W2, D2)'
  <2>1. D2 \ W2 \subseteq D \ W
        BY <1>4
  <2>2. Shares(a, W2, D2)'
        BY <1>2, <1>3, <1>4 DEF Shares
  <2> QED BY <1>2, <1>3, <1>4, <1>5, <2>1, <2>2 DEF OwnBucket, Holding
<1>8. AccountNumbers /\ AccountNumbers' /\ Full \in Nat /\ Worth(e) \in Nat
  <2>1. TypeInv' => AccountNumbers'
        BY AccountNumbersHold, PTL
  <2> QED BY <1>3, <2>1, AccountNumbersHold, Amounts, Worths
<1>9. Money(a, m2, b, W2, D2, e)'
  <2>1. CASE Cardinality(others[a]) >= Slots /\ CallsOf(a) = {}
    <3>1. Due(a)' = 0 /\ m2 = "fresh" /\ since'[a] = clock /\ clock' = clock /\ clock \in Nat
      <4>1. Charged(a)' = {}
            BY <1>2, <2>1 DEF Charged
      <4>2. Taken(a)' = 0 /\ \A n \in Nat : 0 * n = 0
            BY <1>2, <2>1, <4>1, FS_EmptySet DEF Taken
      <4> QED BY <1>2, <1>4, <1>8, <2>1, <4>2, Amounts DEF Due, AccountNumbers
    <3>2. \A u \in W2 : now'[u] = clock
          BY <1>2, <1>4, <1>5, <2>1
    <3>3. Due(a)' + Balance(a, m2, b, W2)' <= Line(a, clock, e)'
          BY <1>8, <3>1 DEF Line, Balance
    <3>4. \A u \in W2 : Due(a)' + Balance(a, m2, b, W2)' <= Line(a, now[u], e)'
          BY <1>8, <3>1, <3>2 DEF Line, Balance
    <3> QED BY <3>1, <3>3, <3>4 DEF Money, Sure
  <2>2. CASE ~ (Cardinality(others[a]) >= Slots /\ CallsOf(a) = {})
    <3>1. Due(a)' = Due(a) /\ m2 = m /\ since'[a] = since[a]
          BY <1>2, <1>4, <2>2 DEF Due, Taken
    <3>2. Holders(W2)' = Holders(W)
          BY <1>2, <1>4, <1>5 DEF Holders, Holding
    <3>3. (\E u \in Charged(a)' : mine'[u] = b) <=> (\E u \in Charged(a) : mine[u] = b)
          BY <1>2 DEF Charged, CallsOf, Busy
    <3>4. Live(a, b, W2)' = Live(a, b, W) /\ Left(a, b)' = Left(a, b)
          BY <1>2, <3>2, <3>3 DEF Live, Left
    <3>5. Balance(a, m2, b, W2)' = Balance(a, m, b, W)
          BY <3>1, <3>4 DEF Balance
    <3>7. ASSUME NEW u \in W2 \ D2 PROVE Sure(a, m2, b, W2, e, u)'
      <4>1. CASE u = t
        <5>1. CallsOf(a)' = W2
              BY <1>2, <1>4, <3>7, <4>1
        <5>2. Due(a)' + Balance(a, m2, b, W2)' <= Line(a, now[u], e)'
              BY <1>2, <1>3, <3>1, <3>5, <4>1 DEF Money, Line
        <5> QED BY <1>2, <4>1, <5>1, <5>2 DEF Sure, Replacing
      <4>2. CASE u # t
        <5>1. u \in W \ D /\ Sure(a, m, b, W, e, u) /\ u \in Threads \ {t}
              BY <1>3, <1>4, <1>5, <3>7, <4>2 DEF Money
        <5>2. m # "fresh" => CallsOf(a)' = W2
              BY <1>2, <1>4, <5>1 DEF Sure
        <5> QED BY <1>2, <3>1, <3>5, <5>1, <5>2 DEF Sure, Line
      <4> QED BY <4>1, <4>2
    <3>8. /\ Due(a)' + Balance(a, m2, b, W2)' <= Line(a, clock, e)'
          /\ m2 # "fresh" /\ Live(a, b, W2)' =>
                 last'[b] <= clock' /\ Due(a)' + Left(a, b)' <= Line(a, last[b], e)'
          BY <1>2, <1>3, <3>1, <3>4, <3>5 DEF Money, Line
    <3> QED BY <3>7, <3>8 DEF Money
  <2> QED BY <2>1, <2>2
<1>10. AccountOf(a, m2, b, W2, D2, e)'
  <2>1. m2 \in {"fresh", "used"}
        BY <1>3, <1>4
  <2> QED BY <1>3, <1>6, <1>7, <1>9, <2>1 DEF AccountOf
<1> QED BY <1>10 DEF Accounted

-----------------------------------------------------------------------------
\* Steps of the address's own calls.

\* What a step of a call of `a` changes.
LEMMA OwnFrame ==
    ASSUME TypeInv, TypeInv', NEW a \in Addresses, NEW v \in CallsOf(a), Step(v)
    PROVE  /\ v \in Threads /\ ip[v] = a /\ pc[v] # "idle"
           /\ \A u \in Threads \ {v} :
                 /\ pc'[u] = pc[u] /\ ip'[u] = ip[u] /\ now'[u] = now[u]
                 /\ mine'[u] = mine[u] /\ refilled'[u] = refilled[u]
           /\ pc'[v] # "idle" => ip'[v] = a /\ now'[v] = now[v]
           /\ clock' = clock /\ overlaps' = overlaps /\ others' = others /\ since' = since
           /\ CallsOf(a)' = IF pc'[v] = "idle" THEN CallsOf(a) \ {v} ELSE CallsOf(a)
           /\ Strangers(a)' = Strangers(a)
           /\ \A u \in Strangers(a) : u \in Threads \ {v}
<1>1. v \in Threads /\ ip[v] = a /\ pc[v] # "idle" /\ v \in Busy
      BY DEF CallsOf, Busy
<1>2. /\ \A u \in Threads \ {v} :
             /\ pc'[u] = pc[u] /\ ip'[u] = ip[u] /\ now'[u] = now[u]
             /\ mine'[u] = mine[u] /\ refilled'[u] = refilled[u]
      /\ pc'[v] # "idle" => ip'[v] = a /\ now'[v] = now[v]
      /\ clock' = clock /\ overlaps' = overlaps /\ others' = others /\ since' = since
      BY <1>1, StepFrame
<1>3. Busy' = IF pc'[v] = "idle" THEN Busy \ {v} ELSE Busy
      BY <1>1, <1>2 DEF Busy
<1>4. /\ CallsOf(a)' = IF pc'[v] = "idle" THEN CallsOf(a) \ {v} ELSE CallsOf(a)
      /\ Strangers(a)' = Strangers(a)
      /\ \A u \in Strangers(a) : u \in Threads \ {v}
      BY <1>1, <1>2, <1>3 DEF CallsOf, Strangers, Busy
<1> QED BY <1>1, <1>2, <1>4

\* Once a call of `a` is past its look-up no stranger is about to evict, unless
\* there is something to spare.
LEMMA OwnSound ==
    ASSUME TypeInv, TypeInv', NEW a \in Addresses, NEW v \in CallsOf(a), Step(v),
           pc[v] # "lookup", NEW m, NEW m2, NEW W, NEW W2, Sound(a, m, W), Ordered(a)',
           slot'[a] = None /\ (m2 # "fresh" \/ Holders(W2)' # {}) =>
               \E u \in W2 : pc'[u] \in Replacing
    PROVE  Sound(a, m2, W2)'
<1>1. /\ \A u \in Threads \ {v} : pc'[u] = pc[u] /\ ip'[u] = ip[u]
      /\ others' = others /\ Strangers(a)' = Strangers(a)
      /\ \A u \in Strangers(a) : u \in Threads \ {v}
      /\ CallsOf(a)' \subseteq CallsOf(a) /\ v \in Threads
      BY OwnFrame
<1>2. Looking(a) # {} => Looking(a)' # {}
  <2>1. \A u \in Looking(a) : u \in CallsOf(a)' /\ pc'[u] = "lookup"
    <3> SUFFICES ASSUME NEW u \in Looking(a) PROVE u \in CallsOf(a)' /\ pc'[u] = "lookup"
        OBVIOUS
    <3>1. u \in CallsOf(a) /\ pc[u] = "lookup" /\ u # v /\ u \in Threads
          BY DEF Looking, CallsOf, Busy
    <3>2. CallsOf(a) \ {v} \subseteq CallsOf(a)'
          BY OwnFrame
    <3> QED BY <1>1, <3>1, <3>2
  <2> QED BY <2>1 DEF Looking
<1>3. \A x \in Strangers(a) : Harmless(a, m2, x)'
  <2> SUFFICES ASSUME NEW x \in Strangers(a) PROVE Harmless(a, m2, x)'
      OBVIOUS
  <2>1. Harmless(a, m, x) /\ pc'[x] = pc[x] /\ ip'[x] = ip[x]
        BY <1>1 DEF Sound
  <2>2. pc[x] \notin Choosing
        BY <2>1 DEF Harmless, Looking
  <2> QED BY <1>1, <1>2, <2>1, <2>2 DEF Harmless, Choosing
<1> QED BY <1>1, <1>3 DEF Sound, Excused

\* Who is about to replace the bucket of `a`, or to touch it, makes `a` the
\* newest; else the order of the table tells who came since.
LEMMA OrderKept ==
    ASSUME TypeInv, TypeInv', NEW a \in Addresses, NEW v \in CallsOf(a), Step(v),
           \/ UNCHANGED <<slot, older>> /\ (pc[v] \notin Arriving \/ pc'[v] \in Arriving)
           \/ pc'[v] \in Arriving
           \/ slot'[a] = None
           \/ \E T : MoveToEnd(a, T),
           Ordered(a)
    PROVE  Ordered(a)'
<1>1. /\ \A u \in Threads \ {v} : pc'[u] = pc[u]
      /\ others' = others
      /\ CallsOf(a)' = IF pc'[v] = "idle" THEN CallsOf(a) \ {v} ELSE CallsOf(a)
      /\ \A u \in CallsOf(a) : u \in Threads
  <2>1. \A u \in CallsOf(a) : u \in Threads
        BY DEF CallsOf, Busy
  <2> QED BY <2>1, OwnFrame
<1>2. CASE pc'[v] \in Arriving
      BY <1>1, <1>2 DEF Ordered, Arriving
<1>3. CASE slot'[a] = None
      BY <1>3 DEF Ordered
<1>4. CASE \E T : MoveToEnd(a, T)
      BY <1>4 DEF Ordered, MoveToEnd
<1>5. CASE UNCHANGED <<slot, older>> /\ pc[v] \notin Arriving
  <2>1. Tracked' = Tracked
        BY <1>5 DEF Tracked
  <2> QED BY <1>1, <1>5, <2>1 DEF Ordered, Arriving
<1> QED BY <1>2, <1>3, <1>4, <1>5

\* What a look-up changes.
LEMMA LookupFrame ==
    ASSUME TypeInv, TypeInv', NEW a \in Addresses, NEW v \in CallsOf(a), Lookup(v)
    PROVE  /\ pc[v] = "lookup" /\ mine'[v] = slot[a]
           /\ pc'[v] = IF slot[a] = None THEN "full" ELSE "touch"
           /\ UNCHANGED <<slot, older, tokens, last, admitted, since, refilled>>
           /\ CallsOf(a)' = CallsOf(a) /\ Strangers(a)' = Strangers(a)
           /\ Unchecked(a)' = Unchecked(a) /\ Charged(a)' = Charged(a)
           /\ v \in Looking(a) /\ Looking(a)' = Looking(a) \ {v}
           /\ Due(a)' = Due(a)
           /\ \A b : Left(a, b)' = Left(a, b)
<1>1. /\ v \in Threads /\ ip[v] = a
      /\ \A u \in Threads \ {v} : pc'[u] = pc[u] /\ ip'[u] = ip[u] /\ mine'[u] = mine[u]
      /\ pc'[v] # "idle" => CallsOf(a)' = CallsOf(a)
      /\ Strangers(a)' = Strangers(a)
      BY OwnFrame DEF Step
<1>2. /\ pc[v] = "lookup" /\ mine'[v] = slot[a]
      /\ pc'[v] = IF slot[a] = None THEN "full" ELSE "touch"
      /\ UNCHANGED <<slot, older, tokens, last, admitted, since, refilled>>
      BY <1>1 DEF Lookup, Goto, table, buckets, history, TypeInv, TypeOK
<1>3. CallsOf(a)' = CallsOf(a) /\ \A u \in CallsOf(a) : u \in Threads
      BY <1>1, <1>2 DEF CallsOf, Busy
<1>4. /\ Unchecked(a)' = Unchecked(a) /\ Charged(a)' = Charged(a)
      /\ v \in Looking(a) /\ Looking(a)' = Looking(a) \ {v}
      BY <1>1, <1>2, <1>3 DEF Unchecked, Charged, Looking, Paying
<1>5. Due(a)' = Due(a)
      BY <1>2, <1>4 DEF Due, Taken
<1>6. ASSUME NEW b PROVE Left(a, b)' = Left(a, b)
  <2>1. \A u \in Charged(a) : mine'[u] = mine[u]
        BY <1>1, <1>2, <1>3 DEF Charged, Paying
  <2> QED BY <1>2, <1>4, <2>1 DEF Left
<1> QED BY <1>1, <1>2, <1>3, <1>4, <1>5, <1>6

\* A call that looks for its bucket is one of those that will have it.
LEMMA InWait ==
    ASSUME NEW a, NEW b, NEW W, NEW D, NEW v \in Unchecked(a), Shares(a, W, D),
           OwnBucket(a, b, W, D), pc[v] \notin Holding
    PROVE  v \in W
BY DEF Shares, OwnBucket

\* The strangers' share goes down when a call has looked.
LEMMA LookedReserve ==
    ASSUME TypeInv, TypeInv', NEW a \in Addresses, NEW v \in CallsOf(a), Lookup(v)
    PROVE  /\ Cardinality(Watched(a)) \in Nat
           /\ Strangers(a) = {} => Cardinality(Watched(a)) = 0 /\ Cardinality(Watched(a)') = 0
           /\ Strangers(a) # {} => Cardinality(Watched(a)') = Cardinality(Watched(a)) - 1
           /\ overlaps' = overlaps /\ overlaps \in Nat
<1>1. Looking(a)' = Looking(a) \ {v} /\ v \in Looking(a) /\ Strangers(a)' = Strangers(a)
      BY LookupFrame
<1>2. IsFiniteSet(Looking(a)) /\ Cardinality(Watched(a)) \in Nat
      BY Sizes DEF Watched
<1>3. Cardinality(Looking(a)') = Cardinality(Looking(a)) - 1
      BY <1>1, <1>2, FS_RemoveElement
<1>4. Cardinality({}) = 0
      BY FS_EmptySet
<1>5. overlaps' = overlaps /\ overlaps \in Nat
      BY DEF Lookup, history, TypeInv, TypeOK
<1> QED BY <1>1, <1>2, <1>3, <1>4, <1>5 DEF Watched

\* What is charged to an account is a number.
LEMMA UsedNumber ==
    ASSUME TypeInv, NEW a \in Addresses, NEW W, NEW D, NEW e \in Nat, Shares(a, W, D)
    PROVE  /\ IsFiniteSet(W) /\ IsFiniteSet(D) /\ Cardinality(W) \in Nat /\ Cardinality(D) \in Nat
           /\ Used(W, D, e) \in Nat /\ Used(W, D, e + 1) = Used(W, D, e) + 1
           /\ \A v \in D : Used(W, D \ {v}, e + 1) = Used(W, D, e)
<1>1. /\ IsFiniteSet(W) /\ IsFiniteSet(D) /\ Cardinality(W) \in Nat /\ Cardinality(D) \in Nat
      BY Sizes DEF Shares
<1>2. Pairs(Cardinality(W)) \in Nat
      BY <1>1, PairsGrow
<1>3. \A v \in D : Cardinality(D \ {v}) = Cardinality(D) - 1
      BY <1>1, FS_RemoveElement
<1> QED BY <1>1, <1>2, <1>3 DEF Used

\* A call finds its bucket, or it will make one that is paid for already.
LEMMA LookupFinds ==
    ASSUME TypeInv, TypeInv', NEW a \in Addresses, NEW v \in CallsOf(a), Lookup(v),
           NEW m, NEW b, NEW W, NEW D, NEW e, AccountOf(a, m, b, W, D, e),
           slot[a] # None \/ v \in D \/ m = "fresh"
    PROVE  AccountOf(a, m, b, W, D, e)'
<1>1. /\ pc[v] = "lookup" /\ mine'[v] = slot[a]
      /\ pc'[v] = IF slot[a] = None THEN "full" ELSE "touch"
      /\ UNCHANGED <<slot, older, tokens, last, admitted, since, refilled>>
      /\ CallsOf(a)' = CallsOf(a) /\ Strangers(a)' = Strangers(a)
      /\ Unchecked(a)' = Unchecked(a) /\ Charged(a)' = Charged(a)
      /\ v \in Looking(a) /\ Looking(a)' = Looking(a) \ {v}
      /\ Due(a)' = Due(a)
      /\ \A c : Left(a, c)' = Left(a, c)
      BY LookupFrame
<1>2. /\ \A u \in Threads \ {v} :
             /\ pc'[u] = pc[u] /\ now'[u] = now[u]
             /\ mine'[u] = mine[u] /\ refilled'[u] = refilled[u]
      /\ now'[v] = now[v] /\ clock' = clock
      BY <1>1, OwnFrame DEF Step
<1>3. /\ m \in {"fresh", "used"} /\ b \in Buckets \cup {None} /\ e \in Nat
      /\ Shares(a, W, D) /\ OwnBucket(a, b, W, D) /\ Money(a, m, b, W, D, e)
      /\ Reserve(a, m, W, D, e)
      BY DEF AccountOf
<1>4. \A u \in W \cup D : u \in CallsOf(a) /\ u \in Threads
      BY <1>3 DEF Shares, Unchecked, CallsOf, Busy
<1>5. v \in W
  <2>1. v \in Unchecked(a) /\ pc[v] \notin Holding
        BY <1>1 DEF Unchecked, Looking, Paying, Holding
  <2> QED BY <1>3, <2>1, InWait
<1>6. Shares(a, W, D)' /\ OwnBucket(a, b, W, D)'
      BY <1>1, <1>2, <1>3, <1>4, <1>5 DEF Shares, OwnBucket, Holding
<1>7. Live(a, b, W)' => Live(a, b, W)
  <2>1. slot[a] = None => Holders(W)' \subseteq Holders(W)
        BY <1>1, <1>2, <1>4 DEF Holders, Holding
  <2> QED BY <1>1, <1>3, <2>1 DEF Live, OwnBucket
<1>8. Due(a)' <= Due(a) /\ clock <= clock'
      /\ (Live(a, b, W) => Due(a)' + Left(a, b)' <= Due(a) + Left(a, b))
  <2>1. Due(a) \in Nat /\ clock \in Nat /\ (Live(a, b, W) => Left(a, b) \in Nat)
        BY <1>3, AccountNumbersHold DEF AccountNumbers
  <2> QED BY <1>1, <1>2, <2>1
<1>9. m # "fresh" => \A u \in W \ D :
          /\ CallsOf(a)' = W
          /\ pc'[u] \notin Replacing
          /\ pc'[u] = "refill" => refilled'[u] <= Elapse(now[u], last'[b])
          /\ pc'[u] = "check" => Due(a)' + refilled'[u] <= Line(a, now[u], e)
  <2> SUFFICES ASSUME m # "fresh", NEW u \in W \ D
               PROVE  /\ CallsOf(a)' = W
                      /\ pc'[u] \notin Replacing
                      /\ pc'[u] = "refill" => refilled'[u] <= Elapse(now[u], last'[b])
                      /\ pc'[u] = "check" => Due(a)' + refilled'[u] <= Line(a, now[u], e)
      OBVIOUS
  <2>1. Sure(a, m, b, W, e, u)
        BY <1>3 DEF Money
  <2>2. CASE u = v
        BY <1>1, <2>1, <2>2 DEF Sure, Replacing
  <2>3. CASE u # v
        BY <1>1, <1>2, <1>4, <2>1, <2>3 DEF Sure
  <2> QED BY <2>2, <2>3
<1>10. Money(a, m, b, W, D, e)'
  <2>1. W \in SUBSET Threads /\ (\A u \in W \ D : now'[u] = now[u]) /\ since'[a] = since[a]
        BY <1>1, <1>2, <1>4
  <2> QED BY <1>1, <1>3, <1>7, <1>8, <1>9, <2>1, MoneyKeeps
<1>11. Reserve(a, m, W, D, e)'
  <2>1. /\ Cardinality(Watched(a)) \in Nat
        /\ Strangers(a) = {} => Cardinality(Watched(a)) = 0 /\ Cardinality(Watched(a)') = 0
        /\ Strangers(a) # {} => Cardinality(Watched(a)') = Cardinality(Watched(a)) - 1
        /\ overlaps' = overlaps /\ overlaps \in Nat
        BY LookedReserve
  <2>2. Used(W, D, e) \in Nat /\ Used(W, D, e)' = Used(W, D, e)
        BY <1>3, UsedNumber DEF Used
  <2>3. CASE Strangers(a) # {}
        BY <1>3, <2>1, <2>2, <2>3 DEF Reserve
  <2>4. CASE Strangers(a) = {}
    <3>1. Ordered(a)'
          BY <1>1, <1>4 DEF Ordered, Arriving, Looking
    <3>2. slot'[a] = None => Excused(a, W)'
          BY <1>1, <1>5 DEF Excused, Replacing
    <3>3. Sound(a, m, W)'
          BY <1>1, <2>4, <3>1, <3>2 DEF Sound
    <3> QED BY <1>3, <2>1, <2>2, <2>4, <3>3 DEF Reserve
  <2> QED BY <2>3, <2>4
<1> QED BY <1>3, <1>6, <1>10, <1>11 DEF AccountOf

\* One giveaway more and every call may count on a full bucket.
LEMMA FullAgain ==
    ASSUME TypeInv, NEW a \in Addresses, NEW m, NEW b \in Buckets \cup {None},
           NEW W \in SUBSET Threads, NEW D, NEW e \in Nat, Money(a, m, b, W, D, e)
    PROVE  /\ Due(a) + Full <= Line(a, clock, e + 1)
           /\ \A u \in W \ D : Due(a) + Full <= Line(a, now[u], e + 1)
           /\ \A u \in Threads : clock <= now[u] + MaxStall
                                     => Due(a) + Full <= Line(a, now[u], e + 1)
<1>1. /\ Worth(e) \in Nat /\ Worth(e + 1) = Worth(e) + Full + MaxStall
      /\ Full \in Nat /\ MaxStall \in Nat /\ AccountNumbers
      BY Worths, Amounts, LimiterAssumption, AccountNumbersHold
<1>2. Due(a) \in Nat /\ since[a] \in Nat /\ clock \in Nat /\ Balance(a, m, b, W) \in Nat
      BY <1>1 DEF AccountNumbers
<1>3. Due(a) + Full <= Line(a, clock, e + 1)
      BY <1>1, <1>2 DEF Money, Line
<1>4. \A u \in W \ D : Due(a) + Full <= Line(a, now[u], e + 1)
  <2> SUFFICES ASSUME NEW u \in W \ D PROVE Due(a) + Full <= Line(a, now[u], e + 1)
      OBVIOUS
  <2>1. Due(a) + Balance(a, m, b, W) <= Line(a, now[u], e)
        BY DEF Money, Sure
  <2>2. now[u] \in Nat
        BY DEF TypeInv, TypeOK
  <2> QED BY <1>1, <1>2, <2>1, <2>2 DEF Line
<1>5. ASSUME NEW u \in Threads, clock <= now[u] + MaxStall
      PROVE  Due(a) + Full <= Line(a, now[u], e + 1)
  <2>1. now[u] \in Nat
        BY DEF TypeInv, TypeOK
  <2>2. Due(a) + Balance(a, m, b, W) <= Line(a, clock, e)
        BY DEF Money
  <2> QED BY <1>1, <1>2, <1>5, <2>1, <2>2 DEF Line
<1> QED BY <1>3, <1>4, <1>5

\* A call finds that its bucket is gone too early: it is given a full one, for
\* a pair that an earlier call of its own has left, or a stranger.
LEMMA LookupPays ==
    ASSUME TypeInv, TypeInv', TimesInv, NEW a \in Addresses, NEW v \in CallsOf(a), Lookup(v),
           NEW m, NEW b, NEW W, NEW D, NEW e, AccountOf(a, m, b, W, D, e),
           slot[a] = None, v \notin D, m # "fresh"
    PROVE  Accounted(a)'
<1>1. /\ pc[v] = "lookup" /\ mine'[v] = None /\ pc'[v] = "full"
      /\ UNCHANGED <<slot, older, tokens, last, admitted, since, refilled>>
      /\ CallsOf(a)' = CallsOf(a) /\ Strangers(a)' = Strangers(a)
      /\ Unchecked(a)' = Unchecked(a) /\ Charged(a)' = Charged(a)
      /\ v \in Looking(a) /\ Looking(a)' = Looking(a) \ {v}
      /\ Due(a)' = Due(a)
      BY LookupFrame
<1>2. /\ \A u \in Threads \ {v} :
             /\ pc'[u] = pc[u] /\ ip'[u] = ip[u] /\ now'[u] = now[u]
             /\ mine'[u] = mine[u] /\ refilled'[u] = refilled[u]
      /\ now'[v] = now[v] /\ clock' = clock /\ others' = others
      /\ \A u \in Strangers(a) : u \in Threads \ {v}
      BY <1>1, OwnFrame DEF Step
<1>3. /\ m \in {"fresh", "used"} /\ b \in Buckets \cup {None} /\ e \in Nat
      /\ Shares(a, W, D) /\ OwnBucket(a, b, W, D) /\ Money(a, m, b, W, D, e)
      /\ Reserve(a, m, W, D, e)
      BY DEF AccountOf
<1>4. \A u \in W \cup D : u \in CallsOf(a) /\ u \in Threads /\ u \in Busy
      BY <1>3 DEF Shares, Unchecked, CallsOf, Busy
<1>5. v \in W
  <2>1. v \in Unchecked(a) /\ pc[v] \notin Holding
        BY <1>1 DEF Unchecked, Looking, Paying, Holding
  <2> QED BY <1>3, <2>1, InWait
<1>6. /\ Cardinality(Watched(a)) \in Nat
      /\ Strangers(a) = {} => Cardinality(Watched(a)) = 0 /\ Cardinality(Watched(a)') = 0
      /\ Strangers(a) # {} => Cardinality(Watched(a)') = Cardinality(Watched(a)) - 1
      /\ overlaps' = overlaps /\ overlaps \in Nat
      BY LookedReserve
<1>7. /\ Used(W, D, e) \in Nat /\ Used(W, D, e + 1) = Used(W, D, e) + 1
      /\ \A u \in D : Used(W, D \ {u}, e + 1) = Used(W, D, e)
      BY <1>3, UsedNumber
<1>8. /\ Due(a) + Full <= Line(a, clock, e + 1)
      /\ \A u \in W : Due(a) + Full <= Line(a, now[u], e + 1)
  <2>1. \A u \in W : clock <= now[u] + MaxStall
        BY <1>4 DEF TimesInv
  <2>2. W \in SUBSET Threads
        BY <1>4
  <2> QED BY <1>3, <2>1, <2>2, FullAgain
<1>9. ASSUME NEW D2, D2 \subseteq D, Shares(a, W, D2),
             \/ Used(W, D2, e + 1) + Cardinality(Watched(a)') < overlaps
             \/ /\ Used(W, D2, e + 1) + Cardinality(Watched(a)') <= overlaps
                /\ Sound(a, "fresh", W)'
      PROVE  Accounted(a)'
  <2>1. Shares(a, W, D2)' /\ OwnBucket(a, b, W, D2)'
        BY <1>1, <1>2, <1>3, <1>4, <1>5, <1>9 DEF Shares, OwnBucket, Holding
  <2>2. Due(a)' + Balance(a, "fresh", b, W)' <= Line(a, clock, e + 1)'
        BY <1>1, <1>2, <1>8 DEF Balance, Line
  <2>3. \A u \in W \ D2 : Sure(a, "fresh", b, W, e + 1, u)'
        BY <1>1, <1>2, <1>4, <1>8 DEF Balance, Line, Sure
  <2>4. Money(a, "fresh", b, W, D2, e + 1)'
        BY <2>2, <2>3 DEF Money
  <2>5. Used(W, D2, e + 1)' = Used(W, D2, e + 1) /\ Used(W, D2, e + 1) \in Nat
        BY <1>3, <1>9, UsedNumber DEF Used
  <2>6. Reserve(a, "fresh", W, D2, e + 1)'
        BY <1>6, <1>9, <2>5 DEF Reserve
  <2>7. AccountOf(a, "fresh", b, W, D2, e + 1)'
        BY <1>3, <2>1, <2>4, <2>6 DEF AccountOf
  <2> QED BY <2>7 DEF Accounted
<1>10. Excused(a, W)' /\ Ordered(a)'
      BY <1>1, <1>5 DEF Excused, Replacing, Ordered
<1>11. Strangers(a) = {} => Sound(a, "fresh", W)'
      BY <1>1, <1>10 DEF Sound
<1>12. CASE \E u \in W : pc[u] \in Replacing
  <2>1. PICK u \in W : pc[u] \in Replacing
        BY <1>12
  <2>2. u \in D
        BY <1>3, <2>1 DEF Money, Sure
  <2>3. Shares(a, W, D \ {u})
        BY <1>3, <2>1 DEF Shares
  <2>4. Used(W, D \ {u}, e + 1) = Used(W, D, e)
        BY <1>7, <2>2
  <2>5. CASE Strangers(a) = {}
        BY <1>3, <1>6, <1>7, <1>9, <1>11, <2>3, <2>4, <2>5 DEF Reserve
  <2>6. CASE Strangers(a) # {}
        BY <1>3, <1>6, <1>7, <1>9, <2>3, <2>4, <2>6 DEF Reserve
  <2> QED BY <2>5, <2>6
<1>13. CASE \A u \in W : pc[u] \notin Replacing
  <2>1. CASE Strangers(a) = {}
    <3>1. ~ Excused(a, W)
          BY <1>1, <1>13, <2>1 DEF Excused
    <3>2. ~ Sound(a, m, W)
          BY <1>1, <3>1 DEF Sound
    <3>3. Used(W, D, e + 1) + Cardinality(Watched(a)') <= overlaps
          BY <1>3, <1>6, <1>7, <2>1, <3>2 DEF Reserve
    <3> QED BY <1>3, <1>9, <1>11, <2>1, <3>3
  <2>2. CASE Strangers(a) # {}
    <3>1. Used(W, D, e + 1) + Cardinality(Watched(a)') = Used(W, D, e) + Cardinality(Watched(a))
          BY <1>6, <1>7, <2>2
    <3>2. Used(W, D, e) + Cardinality(Watched(a)) <= overlaps
          BY <1>3 DEF Reserve
    <3>3. CASE Used(W, D, e) + Cardinality(Watched(a)) < overlaps
          BY <1>3, <1>9, <3>1, <3>3
    <3>4. CASE Used(W, D, e) + Cardinality(Watched(a)) = overlaps
      <4>1. Sound(a, m, W) /\ Excused(a, W)
            BY <1>1, <1>3, <3>4 DEF Reserve, Sound
      <4>2. /\ CallsOf(a) = Looking(a)
            /\ \A x \in Strangers(a) :
                  /\ pc[x] \notin Choosing
                  /\ pc[x] \in Arriving => ip[x] \in others[a] \/ Cardinality(Looking(a)) >= 2
            BY <1>1, <1>13, <4>1 DEF Excused
      <4>3. Cardinality(Looking(a)) >= 2 => Looking(a)' # {}
        <5>1. Looking(a) = {v} => Cardinality(Looking(a)) = 1
              BY FS_Singleton
        <5> QED BY <1>1, <5>1
      <4>4. \A x \in Strangers(a) : Harmless(a, "fresh", x)'
            BY <1>1, <1>2, <4>2, <4>3 DEF Harmless, Choosing
      <4>5. Holders(W)' = {}
        <5>1. \A u \in W : pc'[u] \in {"lookup", "full"}
              BY <1>1, <1>2, <1>4, <4>2 DEF Looking
        <5> QED BY <5>1 DEF Holders, Holding
      <4>6. Sound(a, "fresh", W)'
            BY <1>1, <1>10, <4>1, <4>4, <4>5 DEF Sound
      <4> QED BY <1>3, <1>9, <3>1, <3>2, <4>6
    <3> QED BY <1>6, <1>7, <3>2, <3>3, <3>4
  <2> QED BY <2>1, <2>2
<1> QED BY <1>12, <1>13

\* A call goes on and keeps what it holds: so does the account, if the call is
\* still as good as one that runs alone and the table's order as sound.
LEMMA GoesOn ==
    ASSUME TypeInv, TypeInv', NEW a \in Addresses, NEW v \in CallsOf(a), Step(v),
           NEW m, NEW b, NEW W, NEW D, NEW e, AccountOf(a, m, b, W, D, e),
           pc[v] # "lookup", pc'[v] \notin {"idle", "lookup"},
           pc[v] \in Paying <=> pc'[v] \in Paying,
           pc[v] \in Holding <=> pc'[v] \in Holding,
           UNCHANGED <<tokens, last, admitted>>, mine'[v] = mine[v],
           slot'[a] \in {slot[a], None},
           v \in W \ D /\ m # "fresh" =>
               /\ pc'[v] \notin Replacing
               /\ pc'[v] = "refill" => refilled'[v] <= Elapse(now[v], last[b])
               /\ pc'[v] = "check" => Due(a) + refilled'[v] <= Line(a, now[v], e),
           Sound(a, m, W) =>
               /\ Ordered(a)'
               /\ slot'[a] = None /\ (m # "fresh" \/ Holders(W) # {}) =>
                      \E u \in W : pc'[u] \in Replacing
    PROVE  Accounted(a)'
<1>1. /\ v \in Threads /\ ip[v] = a
      /\ \A u \in Threads \ {v} :
            /\ pc'[u] = pc[u] /\ ip'[u] = ip[u] /\ now'[u] = now[u]
            /\ mine'[u] = mine[u] /\ refilled'[u] = refilled[u]
      /\ now'[v] = now[v] /\ clock' = clock /\ overlaps' = overlaps /\ since' = since
      /\ CallsOf(a)' = CallsOf(a) /\ Strangers(a)' = Strangers(a)
      BY OwnFrame
<1>2. /\ m \in {"fresh", "used"} /\ b \in Buckets \cup {None} /\ e \in Nat
      /\ Shares(a, W, D) /\ OwnBucket(a, b, W, D) /\ Money(a, m, b, W, D, e)
      /\ Reserve(a, m, W, D, e)
      BY DEF AccountOf
<1>3. \A u \in CallsOf(a) : u \in Threads
      BY DEF CallsOf, Busy
<1>4. /\ Unchecked(a)' = Unchecked(a) /\ Charged(a)' = Charged(a)
      /\ Looking(a)' = Looking(a) /\ Watched(a)' = Watched(a)
  <2>1. \A u \in CallsOf(a) : /\ pc'[u] = "lookup" <=> pc[u] = "lookup"
                              /\ pc'[u] \in Paying <=> pc[u] \in Paying
        BY <1>1, <1>3
  <2>2. CallsOf(a)' = CallsOf(a) /\ Strangers(a)' = Strangers(a)
        BY <1>1
  <2>3. Unchecked(a)' = Unchecked(a) /\ Charged(a)' = Charged(a) /\ Looking(a)' = Looking(a)
        BY <2>1, <2>2 DEF Unchecked, Charged, Looking
  <2> QED BY <2>2, <2>3 DEF Watched
<1>5. W \subseteq CallsOf(a) /\ D \subseteq CallsOf(a)
      BY <1>2 DEF Shares, Unchecked
<1>6. Holders(W)' = Holders(W)
      BY <1>1, <1>3, <1>5 DEF Holders
<1>7. Shares(a, W, D)' /\ OwnBucket(a, b, W, D)'
      BY <1>1, <1>2, <1>3, <1>4, <1>5 DEF Shares, OwnBucket
<1>8. /\ Due(a)' = Due(a) /\ Left(a, b)' = Left(a, b)
      /\ Live(a, b, W)' => Live(a, b, W)
  <2>1. \A u \in Charged(a) : mine'[u] = mine[u]
        BY <1>1, <1>3 DEF Charged
  <2> QED BY <1>4, <1>6, <2>1 DEF Due, Taken, Left, Live
<1>9. /\ Due(a)' <= Due(a) /\ clock <= clock'
      /\ Live(a, b, W) => Due(a)' + Left(a, b)' <= Due(a) + Left(a, b)
  <2>1. Due(a) \in Nat /\ clock \in Nat /\ (Live(a, b, W) => Left(a, b) \in Nat)
        BY <1>2, AccountNumbersHold DEF AccountNumbers
  <2> QED BY <1>1, <1>8, <2>1
<1>10. m # "fresh" => \A u \in W \ D :
          /\ CallsOf(a)' = W
          /\ pc'[u] \notin Replacing
          /\ pc'[u] = "refill" => refilled'[u] <= Elapse(now[u], last'[b])
          /\ pc'[u] = "check" => Due(a)' + refilled'[u] <= Line(a, now[u], e)
  <2> SUFFICES ASSUME m # "fresh", NEW u \in W \ D
               PROVE  /\ CallsOf(a)' = W
                      /\ pc'[u] \notin Replacing
                      /\ pc'[u] = "refill" => refilled'[u] <= Elapse(now[u], last'[b])
                      /\ pc'[u] = "check" => Due(a)' + refilled'[u] <= Line(a, now[u], e)
      OBVIOUS
  <2>1. Sure(a, m, b, W, e, u)
        BY <1>2 DEF Money
  <2>2. CASE u = v
        BY <1>1, <1>8, <2>1, <2>2 DEF Sure
  <2>3. CASE u # v
        BY <1>1, <1>3, <1>5, <1>8, <2>1, <2>3 DEF Sure
  <2> QED BY <2>2, <2>3
<1>11. Money(a, m, b, W, D, e)'
  <2>1. W \in SUBSET Threads /\ (\A u \in W \ D : now'[u] = now[u]) /\ since'[a] = since[a]
        BY <1>1, <1>3, <1>5
  <2> QED BY <1>2, <1>8, <1>9, <1>10, <2>1, MoneyKeeps
<1>12. Sound(a, m, W) => Sound(a, m, W)'
      BY <1>6, OwnSound
<1>13. Reserve(a, m, W, D, e)'
      BY <1>1, <1>2, <1>4, <1>12 DEF Reserve, Used
<1>14. AccountOf(a, m, b, W, D, e)'
      BY <1>2, <1>7, <1>11, <1>13 DEF AccountOf
<1> QED BY <1>14 DEF Accounted

\* While a call makes a bucket its address is excused.
LEMMA OwnReplaces ==
    ASSUME TypeInv, TypeInv', NEW a \in Addresses, NEW v \in CallsOf(a),
           CheckFull(v) \/ (Evict(v) /\ Tracked # {}), Accounted(a)
    PROVE  Accounted(a)'
<1>1. PICK m, b, W, D, e : AccountOf(a, m, b, W, D, e)
      BY DEF Accounted
<1>2. /\ pc[v] \in {"full", "evict"} /\ pc'[v] \in {"evict", "insert"}
      /\ UNCHANGED <<tokens, last, admitted, mine, refilled>>
      /\ slot'[a] \in {slot[a], None}
  <2>1. v \in Threads /\ pc \in [Threads -> Stages \cup {"idle"}]
        BY DEF CallsOf, Busy, TypeInv, TypeOK
  <2>2. CASE CheckFull(v)
        BY <2>1, <2>2 DEF CheckFull, Goto, table, buckets, call, history
  <2>3. CASE Evict(v) /\ Tracked # {}
    <3>1. PICK c : slot' = [slot EXCEPT ![c] = None]
          BY <2>3 DEF Evict, Drop
    <3> QED BY <2>1, <2>3, <3>1 DEF Evict, Goto, buckets, call, history, TypeInv, TypeOK
  <2> QED BY <2>2, <2>3
<1>3. v \in W /\ Step(v)
  <2>1. v \in Unchecked(a) /\ pc[v] \notin Holding
        BY <1>2 DEF Unchecked, Paying, Holding
  <2> QED BY <1>1, <2>1, InWait DEF AccountOf, Step
<1>4. v \notin W \ D \/ m = "fresh"
      BY <1>1, <1>2 DEF AccountOf, Money, Sure, Replacing
<1>5. Sound(a, m, W) => Ordered(a)'
      BY <1>2, <1>3, OrderKept DEF Sound, Arriving
<1>6. \E u \in W : pc'[u] \in Replacing
      BY <1>2, <1>3 DEF Replacing
<1> QED BY <1>1, <1>2, <1>3, <1>4, <1>5, <1>6, GoesOn DEF Paying, Holding

\* The bucket is touched.
LEMMA OwnTouches ==
    ASSUME TypeInv, TypeInv', NEW a \in Addresses, NEW v \in CallsOf(a),
           Touch(v), slot[a] # None, Accounted(a)
    PROVE  Accounted(a)'
<1>1. PICK m, b, W, D, e : AccountOf(a, m, b, W, D, e)
      BY DEF Accounted
<1>2. v \in Threads /\ ip[v] = a /\ Step(v) /\ pc \in [Threads -> Stages \cup {"idle"}]
      BY DEF CallsOf, Busy, Step, TypeInv, TypeOK
<1>3. /\ pc[v] = "touch" /\ pc'[v] = "elapsed" /\ MoveToEnd(a, Tracked)
      /\ UNCHANGED <<slot, tokens, last, admitted, mine, refilled>>
      BY <1>2 DEF Touch, Goto, buckets, call, history
<1>4. Sound(a, m, W) => Ordered(a)'
      BY <1>2, <1>3, OrderKept DEF Sound
<1> QED BY <1>1, <1>2, <1>3, <1>4, GoesOn DEF Paying, Holding, Replacing

\* Another call that replaces the bucket goes on doing so.
LEMMA StillExcused ==
    ASSUME TypeInv, TypeInv', NEW a \in Addresses, NEW v \in CallsOf(a), Step(v),
           pc[v] \notin Replacing, pc[v] # "lookup", slot[a] = None,
           NEW m, NEW W, NEW W2, W \subseteq CallsOf(a), W \ {v} \subseteq W2,
           Sound(a, m, W), m # "fresh" \/ Holders(W) # {}
    PROVE  \E u \in W2 : pc'[u] \in Replacing
<1>1. Excused(a, W)
      BY DEF Sound
<1>2. \E u \in W : pc[u] \in Replacing
      BY <1>1 DEF Excused, Looking
<1>3. \A u \in W \ {v} : u \in W2 /\ pc'[u] = pc[u]
  <2>1. \A u \in W : u \in Threads
        BY DEF CallsOf, Busy
  <2> QED BY <2>1, OwnFrame
<1> QED BY <1>2, <1>3

\* A step of _refill of the global bucket.
LEMMA OwnPays ==
    ASSUME TypeInv, TypeInv', NEW a \in Addresses, NEW v \in CallsOf(a),
           GlobalElapsed(v) \/ GlobalRefilled(v), Accounted(a)
    PROVE  Accounted(a)'
<1>1. PICK m, b, W, D, e : AccountOf(a, m, b, W, D, e)
      BY DEF Accounted
<1>2. v \in Threads /\ ip[v] = a /\ Step(v) /\ pc \in [Threads -> Stages \cup {"idle"}]
      BY DEF CallsOf, Busy, Step, TypeInv, TypeOK
<1>3. /\ pc[v] \in {"gelapsed", "grefill"} /\ pc'[v] \in {"grefill", "spend"}
      /\ UNCHANGED <<slot, older, tokens, last, admitted, mine>>
      BY <1>2 DEF GlobalElapsed, GlobalRefilled, Goto, table, buckets, call, history
<1>4. Sound(a, m, W) => Ordered(a)'
      BY <1>2, <1>3, OrderKept DEF Sound, Arriving
<1>5. v \notin W
      BY <1>1, <1>3 DEF AccountOf, Shares, Unchecked, Paying
<1>6. Sound(a, m, W) =>
          (slot'[a] = None /\ (m # "fresh" \/ Holders(W) # {}) => \E u \in W : pc'[u] \in Replacing)
  <2>1. W \subseteq CallsOf(a)
        BY <1>1 DEF AccountOf, Shares, Unchecked
  <2> QED BY <1>2, <1>3, <2>1, StillExcused DEF Replacing
<1> QED BY <1>1, <1>2, <1>3, <1>4, <1>5, <1>6, GoesOn DEF Paying, Holding

\* A step of _refill of the address's bucket: a call whose bucket nobody else
\* has stored into computes no more than the clock has refilled.
LEMMA OwnRefills ==
    ASSUME TypeInv, TypeInv', NEW a \in Addresses, NEW v \in CallsOf(a),
           Elapsed(v) \/ Refilled(v), Refill # 0, Accounted(a)
    PROVE  Accounted(a)'
<1>1. PICK m, b, W, D, e : AccountOf(a, m, b, W, D, e)
      BY DEF Accounted
<1>2. v \in Threads /\ ip[v] = a /\ Step(v) /\ pc \in [Threads -> Stages \cup {"idle"}]
      BY DEF CallsOf, Busy, Step, TypeInv, TypeOK
<1>3. /\ \/ pc[v] = "elapsed" /\ pc'[v] = "refill"
         \/ pc[v] = "refill" /\ pc'[v] = "check"
      /\ UNCHANGED <<slot, older, tokens, last, admitted, mine>>
      BY <1>2 DEF Elapsed, Refilled, Goto, table, buckets, call, history
<1>4. Sound(a, m, W) => Ordered(a)'
      BY <1>2, <1>3, OrderKept DEF Sound, Arriving
<1>5. Sound(a, m, W) =>
          (slot'[a] = None /\ (m # "fresh" \/ Holders(W) # {}) => \E u \in W : pc'[u] \in Replacing)
  <2>1. W \subseteq CallsOf(a)
        BY <1>1 DEF AccountOf, Shares, Unchecked
  <2> QED BY <1>2, <1>3, <2>1, StillExcused DEF Replacing
<1>6. v \in W \ D /\ m # "fresh" =>
          /\ pc'[v] = "refill" => refilled'[v] <= Elapse(now[v], last[b])
          /\ pc'[v] = "check" => Due(a) + refilled'[v] <= Line(a, now[v], e)
  <2> SUFFICES ASSUME v \in W \ D, m # "fresh"
               PROVE  /\ pc'[v] = "refill" => refilled'[v] <= Elapse(now[v], last[b])
                      /\ pc'[v] = "check" => Due(a) + refilled'[v] <= Line(a, now[v], e)
      OBVIOUS
  <2>1. /\ Sure(a, m, b, W, e, v) /\ mine[v] = b /\ b \in Buckets /\ b # None
        /\ e \in Nat /\ Unchecked(a) = W /\ Money(a, m, b, W, D, e)
    <3>1. pc[v] \in Holding /\ mine[v] \in Buckets
          BY <1>2, <1>3 DEF Holding, TypeInv, StageOK
    <3>2. Sure(a, m, b, W, e, v) /\ mine[v] = b /\ e \in Nat /\ Money(a, m, b, W, D, e)
          BY <1>1, <3>1 DEF AccountOf, Money, OwnBucket
    <3>3. Unchecked(a) = W
          BY <1>1, <3>2 DEF AccountOf, Shares, Sure, Unchecked
    <3> QED BY <3>1, <3>2, <3>3, LimiterAssumption
  <2>2. Live(a, b, W)
        BY <1>3, <2>1 DEF Live, Holders, Holding
  <2>3. PICK tk \in Int, ls \in Nat, nw \in Nat, rf \in Int, du \in Nat, li \in Int :
            /\ tk = tokens[b] /\ ls = last[b] /\ nw = now[v] /\ rf = refilled[v] /\ du = Due(a)
            /\ li = Full + Worth(e) - since[a] /\ Full \in Nat
    <3>1. AccountNumbers
          BY AccountNumbersHold
    <3>2. /\ tokens[b] \in Int /\ last[b] \in Nat /\ now[v] \in Nat /\ refilled[v] \in Int
          /\ Due(a) \in Nat /\ since[a] \in Nat
          BY <1>2, <2>1, <3>1 DEF AccountNumbers
    <3>3. Full + Worth(e) - since[a] \in Int /\ Full \in Nat
          BY <2>1, <3>2, Worths, Amounts
    <3> QED BY <3>2, <3>3
  <2>4. /\ du + Elapse(tk, 0) <= ls + li /\ du + Elapse(tk, 0) <= nw + li
        /\ Line(a, now[v], e) = nw + li
    <3>1. Charged(a) = {}
          BY <1>1, <2>1 DEF Sure, Unchecked, Charged
    <3>2. Left(a, b) = Elapse(tk, 0)
          BY <2>3, <3>1 DEF Left
    <3>3. /\ Line(a, now[v], e) = nw - since[a] + Full + Worth(e)
          /\ Line(a, last[b], e) = ls - since[a] + Full + Worth(e)
          BY <2>3 DEF Line
    <3>4. since[a] \in Nat /\ Worth(e) \in Nat
          BY <2>1, Worths DEF TypeInv, TypeOK
    <3>5. Line(a, now[v], e) = nw + li /\ Line(a, last[b], e) = ls + li
          BY <2>3, <3>3, <3>4
    <3>6. Due(a) + Left(a, b) <= Line(a, last[b], e) /\ Due(a) + Left(a, b) <= Line(a, now[v], e)
          BY <2>1, <2>2 DEF Money, Sure, Balance
    <3> QED BY <2>3, <3>2, <3>5, <3>6
  <2>5. CASE pc[v] = "elapsed"
    <3>1. pc'[v] = "refill" /\ refilled'[v] = Elapse(nw, ls)
          BY <1>2, <1>3, <2>1, <2>3, <2>5 DEF Elapsed, Refilled, TypeInv, TypeOK
    <3> QED BY <2>3, <3>1 DEF Elapse
  <2>6. CASE pc[v] = "refill"
    <3>1. pc'[v] = "check" /\ refilled'[v] = Least(Full, tk + rf)
          BY <1>2, <1>3, <2>1, <2>3, <2>6 DEF Elapsed, Refilled, TypeInv, TypeOK
    <3>2. rf <= Elapse(nw, ls)
          BY <2>1, <2>3, <2>6 DEF Sure
    <3>3. du + Least(Full, tk + rf) <= nw + li
          BY <2>3, <2>4, <3>2 DEF Least, Elapse
    <3> QED BY <2>3, <2>4, <3>1, <3>3
  <2> QED BY <1>3, <2>5, <2>6
<1> QED BY <1>1, <1>2, <1>3, <1>4, <1>5, <1>6, GoesOn DEF Paying, Holding, Replacing

\* A call that is over gives back what was kept for it.
LEMMA UsedWithout ==
    ASSUME TypeInv, NEW a \in Addresses, NEW W, NEW D, NEW e \in Nat, Shares(a, W, D), NEW v
    PROVE  /\ Used(W \ {v}, D \ {v}, e) \in Nat
           /\ Used(W \ {v}, D \ {v}, e) <= Used(W, D, e)
           /\ v \in D => Used(W \ {v}, D \ {v}, e) < Used(W, D, e)
           /\ v \in W /\ W # {v} => Used(W \ {v}, D \ {v}, e) < Used(W, D, e)
<1>1. /\ IsFiniteSet(W) /\ IsFiniteSet(D) /\ Cardinality(W) \in Nat /\ Cardinality(D) \in Nat
      BY UsedNumber
<1>2. PICK w \in Nat, d \in Nat : w = Cardinality(W \ {v}) /\ d = Cardinality(D \ {v})
  <2>1. IsFiniteSet(W \ {v}) /\ IsFiniteSet(D \ {v})
        BY <1>1, FS_Subset
  <2> QED BY <2>1, FS_CardinalityType
<1>3. /\ v \in D => Cardinality(D) = d + 1
      /\ v \notin D => Cardinality(D) = d
  <2>1. v \in D => d = Cardinality(D) - 1
        BY <1>1, <1>2, FS_RemoveElement
  <2>2. v \notin D => d = Cardinality(D)
    <3>1. v \notin D => D \ {v} = D
          OBVIOUS
    <3> QED BY <1>2, <3>1
  <2> QED BY <1>1, <1>2, <2>1, <2>2
<1>4. /\ v \in W => Cardinality(W) = w + 1
      /\ v \notin W => Cardinality(W) = w
      /\ v \in W /\ W # {v} => w # 0
  <2>1. v \in W => w = Cardinality(W) - 1
        BY <1>1, <1>2, FS_RemoveElement
  <2>2. v \notin W => w = Cardinality(W)
    <3>1. v \notin W => W \ {v} = W
          OBVIOUS
    <3> QED BY <1>2, <3>1
  <2>3. w = 0 => W \ {v} = {}
    <3>1. IsFiniteSet(W \ {v})
          BY <1>1, FS_Subset
    <3> QED BY <1>2, <3>1, FS_EmptySet
  <2> QED BY <1>1, <1>2, <2>1, <2>2, <2>3
<1>5. Pairs(w) \in Nat /\ Pairs(w + 1) = Pairs(w) + w
      BY PairsGrow
<1>6. Used(W \ {v}, D \ {v}, e) = d + Pairs(w) + e
      /\ Used(W, D, e) = Cardinality(D) + Pairs(Cardinality(W)) + e
      BY <1>2 DEF Used
<1>7. /\ Pairs(Cardinality(W)) \in Nat /\ Pairs(Cardinality(W)) >= Pairs(w)
      /\ v \in W /\ W # {v} => Pairs(Cardinality(W)) > Pairs(w)
      BY <1>4, <1>5
<1> QED BY <1>3, <1>5, <1>6, <1>7

\* A call that raises KeyError has found no bucket of its address in the table.
LEMMA OwnLost ==
    ASSUME TypeInv, TypeInv', NEW a \in Addresses, NEW v \in CallsOf(a),
           (Evict(v) /\ Tracked = {}) \/ (Touch(v) /\ slot[a] = None), Accounted(a)
    PROVE  Accounted(a)'
<1>1. PICK m, b, W, D, e : AccountOf(a, m, b, W, D, e)
      BY DEF Accounted
<1>2. /\ v \in Threads /\ ip[v] = a /\ Step(v) /\ a \in Addresses
      /\ pc \in [Threads -> Stages \cup {"idle"}]
      BY DEF CallsOf, Busy, Step, TypeInv, TypeOK
<1>3. /\ pc[v] \in {"evict", "touch"} /\ pc'[v] = "idle" /\ slot[a] = None
      /\ UNCHANGED <<slot, older, tokens, last, admitted>>
      BY <1>2 DEF Evict, Touch, Return, Goto, table, buckets, history, Tracked
<1>4. /\ \A u \in Threads \ {v} :
            /\ pc'[u] = pc[u] /\ ip'[u] = ip[u] /\ now'[u] = now[u]
            /\ mine'[u] = mine[u] /\ refilled'[u] = refilled[u]
      /\ clock' = clock /\ overlaps' = overlaps /\ since' = since
      /\ CallsOf(a)' = CallsOf(a) \ {v} /\ Strangers(a)' = Strangers(a)
      BY <1>2, <1>3, OwnFrame
<1>5. /\ m \in {"fresh", "used"} /\ b \in Buckets \cup {None} /\ e \in Nat
      /\ Shares(a, W, D) /\ OwnBucket(a, b, W, D) /\ Money(a, m, b, W, D, e)
      /\ Reserve(a, m, W, D, e)
      BY <1>1 DEF AccountOf
<1>6. \A u \in CallsOf(a) : u \in Threads
      BY DEF CallsOf, Busy
<1>7. /\ Unchecked(a)' = Unchecked(a) \ {v} /\ Charged(a)' = Charged(a)
      /\ Looking(a)' = Looking(a) /\ Watched(a)' = Watched(a) /\ v \in Unchecked(a)
      BY <1>3, <1>4, <1>6 DEF Unchecked, Charged, Looking, Watched, Paying
<1>8. PICK W2, D2 : W2 = W \ {v} /\ D2 = D \ {v}
      OBVIOUS
<1>9. /\ W2 \subseteq CallsOf(a) \ {v} /\ D2 \subseteq CallsOf(a) \ {v}
      /\ W2 \in SUBSET Threads /\ W2 \ D2 \subseteq W \ D /\ W \subseteq CallsOf(a)
      BY <1>5, <1>6, <1>8 DEF Shares, Unchecked
<1>10. Shares(a, W2, D2)' /\ OwnBucket(a, b, W2, D2)'
      BY <1>3, <1>4, <1>5, <1>6, <1>7, <1>8, <1>9 DEF Shares, OwnBucket
<1>11. /\ Due(a)' = Due(a) /\ Left(a, b)' = Left(a, b)
       /\ Holders(W2)' \subseteq Holders(W)
       /\ Live(a, b, W2)' => Live(a, b, W)
  <2>1. \A u \in Charged(a) : mine'[u] = mine[u]
        BY <1>3, <1>4, <1>6 DEF Charged, Paying
  <2>2. Holders(W2)' \subseteq Holders(W)
        BY <1>4, <1>6, <1>8, <1>9 DEF Holders
  <2> QED BY <1>3, <1>7, <2>1, <2>2 DEF Due, Taken, Left, Live
<1>12. /\ Due(a)' <= Due(a) /\ clock <= clock'
       /\ Live(a, b, W) => Due(a)' + Left(a, b)' <= Due(a) + Left(a, b)
  <2>1. Due(a) \in Nat /\ clock \in Nat /\ (Live(a, b, W) => Left(a, b) \in Nat)
        BY <1>5, AccountNumbersHold DEF AccountNumbers
  <2> QED BY <1>4, <1>11, <2>1
<1>13. m # "fresh" => \A u \in W2 \ D2 :
          /\ CallsOf(a)' = W2
          /\ pc'[u] \notin Replacing
          /\ pc'[u] = "refill" => refilled'[u] <= Elapse(now[u], last'[b])
          /\ pc'[u] = "check" => Due(a)' + refilled'[u] <= Line(a, now[u], e)
  <2> SUFFICES ASSUME m # "fresh", NEW u \in W2 \ D2
               PROVE  /\ CallsOf(a)' = W2
                      /\ pc'[u] \notin Replacing
                      /\ pc'[u] = "refill" => refilled'[u] <= Elapse(now[u], last'[b])
                      /\ pc'[u] = "check" => Due(a)' + refilled'[u] <= Line(a, now[u], e)
      OBVIOUS
  <2>1. Sure(a, m, b, W, e, u)
        BY <1>5, <1>9 DEF Money
  <2> QED BY <1>3, <1>4, <1>6, <1>8, <1>9, <1>11, <2>1 DEF Sure
<1>14. Money(a, m, b, W2, D2, e)'
  <2>1. \A u \in W2 \ D2 : now'[u] = now[u]
        BY <1>4, <1>6, <1>9
  <2>2. since'[a] = since[a] /\ last'[b] = last[b]
        BY <1>3, <1>4
  <2> QED BY <1>5, <1>9, <1>11, <1>12, <1>13, <2>1, <2>2, MoneyKeeps
<1>15. Reserve(a, m, W2, D2, e)'
  <2>1. /\ Used(W2, D2, e) \in Nat /\ Used(W2, D2, e) <= Used(W, D, e) /\ Used(W, D, e) \in Nat
        /\ v \in D => Used(W2, D2, e) < Used(W, D, e)
        /\ v \in W /\ W # {v} => Used(W2, D2, e) < Used(W, D, e)
        BY <1>5, <1>8, UsedWithout, UsedNumber
  <2>2. /\ Used(W2, D2, e)' = Used(W2, D2, e) /\ overlaps \in Nat
        /\ Cardinality(Watched(a)) \in Nat
    <3>1. Watched(a) \subseteq Busy
          BY DEF Watched, Looking, CallsOf
    <3> QED BY <3>1, Sizes DEF Used, TypeInv, TypeOK
  <2>3. ASSUME v \notin D, W = {v}, Sound(a, m, W) PROVE Sound(a, m, W2)'
    <3>1. m = "fresh" /\ Holders(W2)' = {}
      <4>1. W2 = {} /\ Holders(W2)' = {}
            BY <1>8, <2>3 DEF Holders
      <4>2. CASE pc[v] = "evict"
            BY <1>5, <2>3, <4>1, <4>2 DEF Money, Sure, Replacing
      <4>3. CASE pc[v] = "touch"
        <5>1. Holders(W) # {}
              BY <2>3, <4>3 DEF Holders, Holding
        <5>2. \E u \in W2 : pc'[u] \in Replacing
              BY <1>2, <1>3, <1>8, <1>9, <2>3, <4>3, <5>1, StillExcused DEF Replacing
        <5> QED BY <4>1, <5>2
      <4> QED BY <1>3, <4>1, <4>2, <4>3
    <3>2. Ordered(a)'
          BY <1>3 DEF Ordered
    <3> QED BY <1>2, <1>3, <2>3, <3>1, <3>2, OwnSound
  <2>4. CASE v \in D \/ (v \in W /\ W # {v})
        BY <1>4, <1>5, <1>7, <2>1, <2>2, <2>4 DEF Reserve
  <2>5. CASE v \notin D /\ W = {v}
        BY <1>4, <1>5, <1>7, <2>1, <2>2, <2>3, <2>5 DEF Reserve
  <2>6. v \in W \cup D
        BY <1>5, <1>7 DEF Shares
  <2> QED BY <2>4, <2>5, <2>6
<1>16. AccountOf(a, m, b, W2, D2, e)'
      BY <1>5, <1>10, <1>14, <1>15 DEF AccountOf
<1> QED BY <1>16 DEF Accounted

\* To leave h calls out saves a pair for each, while another is left.
LEMMA PairsDrop ==
    ASSUME NEW h \in Nat, NEW k \in Nat \ {0}
    PROVE  /\ Pairs(k) \in Nat /\ Pairs(h + k) \in Nat
           /\ Pairs(k) + h <= Pairs(h + k)
<1>1. PICK j \in Nat : k = j + 1 /\ j = k - 1
  <2>1. k - 1 \in Nat /\ k = (k - 1) + 1
        OBVIOUS
  <2> QED BY <2>1
<1>2. PICK hh \in Nat, hj \in Nat, kj \in Nat :
          hh = h * h /\ hj = h * j /\ kj = k * j
  <2>1. \A x, y \in Nat : x * y \in Nat
        OBVIOUS
  <2> QED BY <2>1
<1>3. (h + k) * ((h + k) - 1) = hh + 2 * hj + h + kj
  <2>1. (h + k) - 1 = h + j
        BY <1>1
  <2>2. (h + k) * (h + j) = h * h + h * j + (k * h + k * j)
        BY <1>1
  <2>3. k * h = h * j + h
        BY <1>1
  <2> QED BY <1>2, <2>1, <2>2, <2>3
<1>4. hh >= h
  <2>1. CASE h = 0
        BY <2>1
  <2>2. CASE h # 0
    <3>1. PICK g \in Nat : h = g + 1
      <4>1. h - 1 \in Nat /\ h = (h - 1) + 1
            BY <2>2
      <4> QED BY <4>1
    <3>2. h * h = g * h + h /\ g * h \in Nat
          BY <3>1
    <3> QED BY <1>2, <3>2
  <2> QED BY <2>1, <2>2
<1>5. Pairs(k) = kj \div 2 /\ Pairs(h + k) = (hh + 2 * hj + h + kj) \div 2
      BY <1>1, <1>2, <1>3 DEF Pairs
<1> QED BY <1>2, <1>4, <1>5

\* A new bucket: who holds an old one gives back the pair with the call that
\* has made it.
LEMMA UsedRenewed ==
    ASSUME TypeInv, NEW a \in Addresses, NEW W, NEW D, NEW e \in Nat, NEW H, Shares(a, W, D),
           H \subseteq W, NEW v \in W \ H, NEW e2, e2 = IF v \in D THEN e + 1 ELSE e
    PROVE  /\ Used(W \ H, (D \cup H) \ {v}, e2) \in Nat
           /\ Used(W \ H, (D \cup H) \ {v}, e2) <= Used(W, D, e)
<1>1. /\ IsFiniteSet(W) /\ IsFiniteSet(D) /\ Cardinality(W) \in Nat /\ Cardinality(D) \in Nat
      BY UsedNumber
<1>2. IsFiniteSet(H) /\ IsFiniteSet(D \ {v}) /\ IsFiniteSet(W \ H)
      BY <1>1, FS_Subset
<1>3. PICK h \in Nat, k \in Nat \ {0}, d \in Nat :
          /\ h = Cardinality(H) /\ k = Cardinality(W \ H) /\ d = Cardinality(D \ {v})
          /\ Cardinality(W) = h + k
          /\ Cardinality(D) = IF v \in D THEN d + 1 ELSE d
  <2>1. /\ Cardinality(H) \in Nat /\ Cardinality(W \ H) \in Nat /\ Cardinality(D \ {v}) \in Nat
        BY <1>2, FS_CardinalityType
  <2>2. Cardinality(W \ H) # 0
        BY <1>2, FS_EmptySet
  <2>3. Cardinality(W) = Cardinality(H) + Cardinality(W \ H)
    <3>1. W \cap H = H
          OBVIOUS
    <3>2. Cardinality(W \ H) = Cardinality(W) - Cardinality(W \cap H)
          BY <1>1, <1>2, FS_Difference
    <3> QED BY <1>1, <2>1, <3>1, <3>2
  <2>4. v \in D => Cardinality(D) = Cardinality(D \ {v}) + 1
    <3>1. v \in D => Cardinality(D \ {v}) = Cardinality(D) - 1
          BY <1>1, FS_RemoveElement
    <3> QED BY <1>1, <2>1, <3>1
  <2>5. v \notin D => D \ {v} = D
        OBVIOUS
  <2>6. v \notin D => Cardinality(D) = Cardinality(D \ {v})
        BY <2>5
  <2> QED BY <2>1, <2>2, <2>3, <2>4, <2>6
<1>4. Cardinality((D \cup H) \ {v}) \in Nat /\ Cardinality((D \cup H) \ {v}) <= d + h
  <2>1. (D \cup H) \ {v} = (D \ {v}) \cup H
        OBVIOUS
  <2>2. /\ IsFiniteSet((D \ {v}) \cup H) /\ IsFiniteSet((D \ {v}) \cap H)
        /\ Cardinality((D \ {v}) \cup H)
               = Cardinality(D \ {v}) + Cardinality(H) - Cardinality((D \ {v}) \cap H)
        BY <1>2, FS_Union, FS_Subset
  <2>3. Cardinality((D \ {v}) \cap H) \in Nat /\ Cardinality((D \ {v}) \cup H) \in Nat
        BY <2>2, FS_CardinalityType
  <2> QED BY <1>3, <2>1, <2>2, <2>3
<1>5. Pairs(k) \in Nat /\ Pairs(h + k) \in Nat /\ Pairs(k) + h <= Pairs(h + k)
      BY PairsDrop
<1>6. /\ Used(W, D, e) = (IF v \in D THEN d + 1 ELSE d) + Pairs(h + k) + e
      /\ Used(W \ H, (D \cup H) \ {v}, e2) = Cardinality((D \cup H) \ {v}) + Pairs(k) + e2
      BY <1>3 DEF Used
<1> QED BY <1>4, <1>5, <1>6

\* A new bucket is full.
LEMMA OwnInserts ==
    ASSUME TypeInv, TypeInv', TimesInv, NEW a \in Addresses, NEW v \in CallsOf(a),
           Insert(v), Accounted(a)
    PROVE  Accounted(a)'
<1>1. PICK m, b, W, D, e : AccountOf(a, m, b, W, D, e)
      BY DEF Accounted
<1>2. /\ v \in Threads /\ ip[v] = a /\ Step(v) /\ pc[v] = "insert" /\ pc'[v] = "elapsed"
      /\ MoveToEnd(a, Tracked) /\ admitted' = admitted
      BY DEF Insert, Step, Goto, CallsOf, Busy, history, TypeInv, TypeOK
<1>3. PICK c \in Buckets : /\ Free(c) /\ slot'[a] = c /\ mine'[v] = c
  <2>1. PICK c \in Buckets : Free(c) /\ slot' = [slot EXCEPT ![ip[v]] = c]
                             /\ mine' = [mine EXCEPT ![v] = c]
        BY DEF Insert
  <2> QED BY <1>2, <2>1 DEF TypeInv, TypeOK
<1>4. /\ \A u \in Threads \ {v} :
            /\ pc'[u] = pc[u] /\ ip'[u] = ip[u] /\ now'[u] = now[u]
            /\ mine'[u] = mine[u] /\ refilled'[u] = refilled[u]
      /\ now'[v] = now[v] /\ clock' = clock /\ overlaps' = overlaps /\ since' = since
      /\ CallsOf(a)' = CallsOf(a) /\ Strangers(a)' = Strangers(a)
      BY <1>2, OwnFrame
<1>5. /\ m \in {"fresh", "used"} /\ b \in Buckets \cup {None} /\ e \in Nat
      /\ Shares(a, W, D) /\ OwnBucket(a, b, W, D) /\ Money(a, m, b, W, D, e)
      /\ Reserve(a, m, W, D, e)
      BY <1>1 DEF AccountOf
<1>6. \A u \in CallsOf(a) : u \in Threads
      BY DEF CallsOf, Busy
<1>7. /\ Unchecked(a)' = Unchecked(a) /\ Charged(a)' = Charged(a) /\ v \in Unchecked(a)
      /\ Looking(a)' = Looking(a) /\ Watched(a)' = Watched(a)
      BY <1>2, <1>4, <1>6 DEF Unchecked, Charged, Looking, Watched, Paying
<1>8. v \in W /\ pc[v] \notin Holding
      BY <1>2, <1>5, <1>7, InWait DEF Holding
<1>9. PICK H, W2, D2, e2 :
          /\ H = Holders(W) /\ W2 = W \ H /\ D2 = (D \cup H) \ {v}
          /\ e2 = IF v \in D THEN e + 1 ELSE e
      OBVIOUS
<1>10. /\ H \subseteq W /\ v \in W \ H /\ W \subseteq CallsOf(a) /\ D \subseteq CallsOf(a)
       /\ \A u \in W : u \in H <=> pc[u] \in Holding
      BY <1>5, <1>8, <1>9 DEF Holders, Shares, Unchecked
<1>11. Shares(a, W2, D2)'
  <2>1. v \in W2
        BY <1>9, <1>10
  <2> QED BY <1>5, <1>7, <1>9, <1>10, <2>1 DEF Shares
<1>12. OwnBucket(a, c, W2, D2)'
  <2>1. \A u \in Threads : mine[u] # c
        BY <1>3 DEF Free
  <2>2. ASSUME NEW u \in W2, pc'[u] \in Holding PROVE mine'[u] = c
        BY <1>3, <1>4, <1>6, <1>9, <1>10, <2>2
  <2>3. ASSUME NEW u \in D2 \ W2 PROVE pc'[u] \in Holding /\ mine'[u] # c
    <3>1. u # v /\ u \in CallsOf(a) /\ u \in Threads
          BY <1>6, <1>9, <1>10, <2>3
    <3>2. pc[u] \in Holding
          BY <1>5, <1>9, <1>10, <2>3 DEF OwnBucket
    <3> QED BY <1>4, <2>1, <3>1, <3>2
  <2> QED BY <1>3, <2>2, <2>3 DEF OwnBucket
<1>13. e2 \in Nat /\ Due(a)' = Due(a)
      BY <1>2, <1>5, <1>7, <1>9 DEF Due, Taken
<1>14. /\ Due(a) + Full <= Line(a, clock, e2)
       /\ \A u \in W2 \ D2 : Due(a) + Full <= Line(a, now[u], e2)
  <2>1. \A u \in W : u \in Threads /\ u \in Busy /\ clock <= now[u] + MaxStall
        BY <1>6, <1>10 DEF TimesInv, CallsOf
  <2>2. CASE v \in D
    <3>1. W \in SUBSET Threads
          BY <2>1
    <3>2. /\ Due(a) + Full <= Line(a, clock, e + 1)
          /\ \A u \in W : Due(a) + Full <= Line(a, now[u], e + 1)
          BY <1>5, <2>1, <3>1, FullAgain
    <3> QED BY <1>9, <2>2, <3>2
  <2>3. CASE v \notin D
    <3>1. m = "fresh"
          BY <1>2, <1>5, <1>8, <2>3 DEF Money, Sure, Replacing
    <3>2. W2 \ D2 \subseteq W \ D
          BY <1>9, <1>10, <2>3
    <3> QED BY <1>5, <1>9, <2>3, <3>1, <3>2 DEF Money, Sure, Balance
  <2> QED BY <2>2, <2>3
<1>15. Money(a, "fresh", c, W2, D2, e2)'
  <2>1. \A u \in W2 : now'[u] = now[u]
        BY <1>4, <1>6, <1>9, <1>10
  <2>2. Due(a)' + Balance(a, "fresh", c, W2)' <= Line(a, clock, e2)'
        BY <1>4, <1>13, <1>14 DEF Line, Balance
  <2>3. \A u \in W2 \ D2 : Sure(a, "fresh", c, W2, e2, u)'
        BY <1>4, <1>13, <1>14, <2>1 DEF Line, Balance, Sure
  <2> QED BY <2>2, <2>3 DEF Money
<1>16. Reserve(a, "fresh", W2, D2, e2)'
  <2>1. /\ Used(W2, D2, e2) \in Nat /\ Used(W2, D2, e2) <= Used(W, D, e) /\ Used(W, D, e) \in Nat
        BY <1>5, <1>9, <1>10, UsedRenewed, UsedNumber
  <2>2. Used(W2, D2, e2)' = Used(W2, D2, e2) /\ overlaps \in Nat
        /\ Cardinality(Watched(a)) \in Nat
    <3>1. Watched(a) \subseteq Busy
          BY DEF Watched, Looking, CallsOf
    <3> QED BY <3>1, Sizes DEF Used, TypeInv, TypeOK
  <2>3. Sound(a, m, W) => Sound(a, "fresh", W2)'
    <3>1. Sound(a, m, W) => Ordered(a)'
          BY <1>2, OrderKept DEF Sound
    <3>2. slot'[a] # None
          BY <1>3, LimiterAssumption
    <3> QED BY <1>2, <3>1, <3>2, OwnSound
  <2> QED BY <1>4, <1>5, <1>7, <2>1, <2>2, <2>3 DEF Reserve
<1>17. AccountOf(a, "fresh", c, W2, D2, e2)'
      BY <1>11, <1>12, <1>13, <1>15, <1>16 DEF AccountOf
<1> QED BY <1>17 DEF Accounted

\* A store spoils each call that waits for the bucket: it takes over the pair
\* of that call with the one that has stored.
LEMMA UsedSpoilt ==
    ASSUME TypeInv, NEW a \in Addresses, NEW W, NEW D, NEW e \in Nat, Shares(a, W, D),
           NEW v \in W, NEW e2, e2 = IF v \in D THEN e + 1 ELSE e
    PROVE  /\ Used(W \ {v}, (D \cup W) \ {v}, e2) \in Nat
           /\ Used(W \ {v}, (D \cup W) \ {v}, e2) <= Used(W, D, e)
<1>1. /\ IsFiniteSet(W) /\ IsFiniteSet(D) /\ Cardinality(W) \in Nat /\ Cardinality(D) \in Nat
      BY UsedNumber
<1>2. IsFiniteSet(W \ {v}) /\ IsFiniteSet(D \ {v})
      BY <1>1, FS_Subset
<1>3. PICK w \in Nat, d \in Nat :
          /\ w = Cardinality(W \ {v}) /\ Cardinality(W) = w + 1
          /\ d = Cardinality(D \ {v}) /\ Cardinality(D) = IF v \in D THEN d + 1 ELSE d
  <2>1. Cardinality(W \ {v}) \in Nat /\ Cardinality(D \ {v}) \in Nat
        BY <1>2, FS_CardinalityType
  <2>2. Cardinality(W \ {v}) = Cardinality(W) - 1
        BY <1>1, FS_RemoveElement
  <2>3. v \in D => Cardinality(D \ {v}) = Cardinality(D) - 1
        BY <1>1, FS_RemoveElement
  <2>4. v \notin D => D \ {v} = D
        OBVIOUS
  <2>5. v \notin D => Cardinality(D \ {v}) = Cardinality(D)
        BY <2>4
  <2> QED BY <1>1, <2>1, <2>2, <2>3, <2>5
<1>4. Cardinality((D \cup W) \ {v}) \in Nat /\ Cardinality((D \cup W) \ {v}) <= d + w
  <2>1. (D \cup W) \ {v} = (D \ {v}) \cup (W \ {v})
        OBVIOUS
  <2>2. /\ IsFiniteSet((D \ {v}) \cup (W \ {v})) /\ IsFiniteSet((D \ {v}) \cap (W \ {v}))
        /\ Cardinality((D \ {v}) \cup (W \ {v}))
               = Cardinality(D \ {v}) + Cardinality(W \ {v})
                 - Cardinality((D \ {v}) \cap (W \ {v}))
        BY <1>2, FS_Union, FS_Subset
  <2>3. /\ Cardinality((D \ {v}) \cap (W \ {v})) \in Nat
        /\ Cardinality((D \ {v}) \cup (W \ {v})) \in Nat
        BY <2>2, FS_CardinalityType
  <2>4. Cardinality((D \ {v}) \cup (W \ {v})) <= d + w
        BY <1>3, <2>2, <2>3
  <2> QED BY <2>1, <2>3, <2>4
<1>5. Pairs(w) \in Nat /\ Pairs(w + 1) = Pairs(w) + w
      BY PairsGrow
<1>6. /\ Used(W, D, e) = (IF v \in D THEN d + 1 ELSE d) + (Pairs(w) + w) + e
      /\ Used(W \ {v}, (D \cup W) \ {v}, e2) = Cardinality((D \cup W) \ {v}) + Pairs(w) + e2
      BY <1>3, <1>5 DEF Used
<1> QED BY <1>4, <1>5, <1>6

\* What a store and its comparison change.
LEMMA CheckFrame ==
    ASSUME TypeInv, TypeInv', TimesInv, NEW a \in Addresses, NEW v \in CallsOf(a), Check(v)
    PROVE  /\ Step(v) /\ v \in Threads /\ v \in Unchecked(a) /\ pc[v] = "check"
           /\ mine[v] \in Buckets /\ refilled[v] \in Int /\ refilled[v] <= Full
           /\ now[v] \in Nat /\ now[v] <= clock /\ clock <= now[v] + MaxStall
           /\ UNCHANGED <<slot, older, admitted>>
           /\ tokens'[mine[v]] = refilled[v] /\ last'[mine[v]] = now[v]
           /\ \A b \in Buckets \ {mine[v]} : tokens'[b] = tokens[b] /\ last'[b] = last[b]
           /\ Unchecked(a)' = Unchecked(a) \ {v}
           /\ Looking(a)' = Looking(a) /\ Watched(a)' = Watched(a)
           /\ \A u \in CallsOf(a) : u \in Threads
           /\ IF refilled[v] < Cost(Refill)
              THEN Charged(a)' = Charged(a) /\ Due(a)' = Due(a)
              ELSE /\ Charged(a)' = Charged(a) \cup {v} /\ mine'[v] = mine[v]
                   /\ Due(a)' = Due(a) + Cost(Refill)
<1>1. /\ v \in Threads /\ v \in Busy /\ Step(v) /\ pc[v] = "check"
      BY DEF CallsOf, Busy, Step, Check
<1>2. /\ mine[v] \in Buckets /\ refilled[v] \in Int /\ refilled[v] <= Full
      /\ now[v] \in Nat /\ now[v] <= clock /\ clock <= now[v] + MaxStall
      BY <1>1 DEF TypeInv, TypeOK, StageOK, Holding, TimesInv
<1>3. /\ UNCHANGED <<slot, older, admitted>>
      /\ tokens'[mine[v]] = refilled[v] /\ last'[mine[v]] = now[v]
      /\ \A b \in Buckets \ {mine[v]} : tokens'[b] = tokens[b] /\ last'[b] = last[b]
      BY <1>2 DEF Check, table, history, TypeInv, TypeOK
<1>4. IF refilled[v] < Cost(Refill) THEN pc'[v] = "idle"
      ELSE pc'[v] = "gelapsed" /\ mine'[v] = mine[v]
      BY <1>1 DEF Check, Return, Goto, call, TypeInv, TypeOK
<1>5. /\ \A u \in Threads \ {v} : pc'[u] = pc[u]
      /\ CallsOf(a)' = IF pc'[v] = "idle" THEN CallsOf(a) \ {v} ELSE CallsOf(a)
      /\ Strangers(a)' = Strangers(a)
      /\ \A u \in CallsOf(a) : u \in Threads
  <2>1. \A u \in CallsOf(a) : u \in Threads
        BY DEF CallsOf, Busy
  <2> QED BY <1>1, <2>1, OwnFrame
<1>6. /\ v \in Unchecked(a) /\ Unchecked(a)' = Unchecked(a) \ {v}
      /\ Looking(a)' = Looking(a) /\ Watched(a)' = Watched(a)
      /\ Charged(a)' = IF pc'[v] = "idle" THEN Charged(a) ELSE Charged(a) \cup {v}
      /\ v \notin Charged(a)
      BY <1>1, <1>4, <1>5 DEF Unchecked, Looking, Watched, Charged, Paying
<1>7. Charged(a)' = Charged(a) => Due(a)' = Due(a)
      BY <1>3 DEF Due, Taken
<1>8. Charged(a)' = Charged(a) \cup {v} => Due(a)' = Due(a) + Cost(Refill)
  <2> SUFFICES ASSUME Charged(a)' = Charged(a) \cup {v} PROVE Due(a)' = Due(a) + Cost(Refill)
      OBVIOUS
  <2>1. IsFiniteSet(Charged(a)) /\ Cardinality(Charged(a)) \in Nat
        BY Sizes
  <2>2. Cardinality(Charged(a)') = Cardinality(Charged(a)) + 1
        BY <1>6, <2>1, FS_AddElement
  <2>3. Taken(a)' = Taken(a) + 1
    <3>1. admitted[a] \in Nat
          BY DEF TypeInv, TypeOK
    <3> QED BY <1>3, <2>1, <2>2, <3>1 DEF Taken
  <2> QED BY <2>3, Dues DEF Due
<1> QED BY <1>1, <1>2, <1>3, <1>4, <1>5, <1>6, <1>7, <1>8

\* A call stores into the bucket of the account: it may have taken what it saw
\* there, and spoils those that wait.
LEMMA CheckOwn ==
    ASSUME TypeInv, TypeInv', TimesInv, NEW a \in Addresses, NEW v \in CallsOf(a), Check(v),
           NEW m, NEW b, NEW W, NEW D, NEW e, AccountOf(a, m, b, W, D, e), v \in W
    PROVE  Accounted(a)'
<1>1. /\ Step(v) /\ v \in Threads /\ v \in Unchecked(a) /\ pc[v] = "check"
      /\ mine[v] \in Buckets /\ refilled[v] \in Int /\ refilled[v] <= Full
      /\ now[v] \in Nat /\ now[v] <= clock /\ clock <= now[v] + MaxStall
      /\ UNCHANGED <<slot, older, admitted>>
      /\ tokens'[mine[v]] = refilled[v] /\ last'[mine[v]] = now[v]
      /\ Unchecked(a)' = Unchecked(a) \ {v}
      /\ Looking(a)' = Looking(a) /\ Watched(a)' = Watched(a)
      /\ \A u \in CallsOf(a) : u \in Threads
      /\ IF refilled[v] < Cost(Refill)
         THEN Charged(a)' = Charged(a) /\ Due(a)' = Due(a)
         ELSE /\ Charged(a)' = Charged(a) \cup {v} /\ mine'[v] = mine[v]
              /\ Due(a)' = Due(a) + Cost(Refill)
      BY CheckFrame
<1>2. /\ \A u \in Threads \ {v} :
            pc'[u] = pc[u] /\ ip'[u] = ip[u] /\ now'[u] = now[u] /\ mine'[u] = mine[u]
      /\ clock' = clock /\ overlaps' = overlaps /\ since' = since
      /\ Strangers(a)' = Strangers(a)
      BY <1>1, OwnFrame
<1>3. /\ m \in {"fresh", "used"} /\ b \in Buckets \cup {None} /\ e \in Nat
      /\ Shares(a, W, D) /\ OwnBucket(a, b, W, D) /\ Money(a, m, b, W, D, e)
      /\ Reserve(a, m, W, D, e)
      BY DEF AccountOf
<1>4. mine[v] = b /\ v \in Holders(W)
      BY <1>1, <1>3 DEF OwnBucket, Holding, Holders
<1>5. PICK W2, D2, e2 :
          W2 = W \ {v} /\ D2 = (D \cup W) \ {v} /\ e2 = IF v \in D THEN e + 1 ELSE e
      OBVIOUS
<1>6. /\ W \subseteq CallsOf(a) /\ D \subseteq CallsOf(a) /\ W2 \ D2 = {}
      /\ e2 \in Nat /\ W \in SUBSET Threads
      BY <1>1, <1>3, <1>5 DEF Shares, Unchecked
<1>7. Shares(a, W2, D2)'
      BY <1>1, <1>3, <1>5 DEF Shares
<1>8. OwnBucket(a, b, W2, D2)'
  <2>1. \A u \in W2 \cup D2 : u \in Threads \ {v}
        BY <1>1, <1>5, <1>6
  <2> QED BY <1>1, <1>2, <1>3, <1>5, <2>1 DEF OwnBucket
<1>9. PICK r \in Int, c \in Nat, du \in Nat, li \in Int :
          r = refilled[v] /\ c = Cost(Refill) /\ du = Due(a) /\ li = Line(a, now[v], e2)
  <2>1. Due(a) \in Nat /\ since[a] \in Nat
        BY AccountNumbersHold DEF AccountNumbers
  <2>2. Line(a, now[v], e2) \in Int
        BY <1>1, <1>6, <2>1, Worths, Amounts DEF Line
  <2> QED BY <1>1, <2>1, <2>2, Amounts
<1>10. du <= li /\ du + r <= li
  <2>1. CASE v \in D
    <3>1. Due(a) + Full <= Line(a, now[v], e + 1)
          BY <1>1, <1>3, <1>6, FullAgain
    <3> QED BY <1>1, <1>5, <1>9, <2>1, <3>1, Amounts
  <2>2. CASE v \notin D
    <3>1. Sure(a, m, b, W, e, v)
          BY <1>3, <2>2 DEF Money
    <3>2. Balance(a, m, b, W) \in Nat /\ (m = "fresh" => Balance(a, m, b, W) = Full)
          BY <1>3, Balances DEF Balance
    <3> QED BY <1>1, <1>3, <1>5, <1>9, <2>2, <3>1, <3>2, Amounts DEF Sure
  <2> QED BY <2>1, <2>2
<1>11. Due(a)' + Left(a, b)' <= li /\ Due(a)' <= li
  <2>1. CASE r < c
    <3>1. Left(a, b)' \in {Elapse(r, 0), Elapse(r, c)}
          BY <1>1, <1>4, <1>9 DEF Left
    <3> QED BY <1>1, <1>9, <1>10, <2>1, <3>1 DEF Elapse
  <2>2. CASE ~ (r < c)
    <3>1. Left(a, b)' = Elapse(r, c)
          BY <1>1, <1>4, <1>9, <2>2 DEF Left
    <3> QED BY <1>1, <1>9, <1>10, <2>2, <3>1 DEF Elapse
  <2> QED BY <2>1, <2>2
<1>12. Money(a, "used", b, W2, D2, e2)'
  <2>1. Line(a, last[b], e2)' = li
        BY <1>1, <1>2, <1>4, <1>9 DEF Line
  <2>2. Line(a, clock, e2)' >= li
    <3>1. since[a] \in Nat /\ clock \in Nat /\ Worth(e2) \in Nat
          BY <1>6, Worths DEF TypeInv, TypeOK
    <3> QED BY <1>1, <1>2, <1>9, <3>1, Amounts DEF Line
  <2>3. Due(a)' + Balance(a, "used", b, W2)' <= li
    <3>1. Due(a)' \in Nat
          BY <1>1, <1>9, Amounts
    <3> QED BY <1>11, <3>1 DEF Balance
  <2>4. Line(a, clock, e2)' \in Int /\ Due(a)' + Balance(a, "used", b, W2)' \in Int
    <3>1. TypeInv' => AccountNumbers'
          BY AccountNumbersHold, PTL
    <3>2. since'[a] \in Nat /\ clock' \in Nat /\ Due(a)' \in Nat
          /\ Balance(a, "used", b, W2)' \in Nat
          BY <1>3, <3>1 DEF AccountNumbers
    <3> QED BY <1>6, <3>2, Worths, Amounts DEF Line
  <2>5. Due(a)' + Balance(a, "used", b, W2)' <= Line(a, clock, e2)'
        BY <1>9, <2>2, <2>3, <2>4
  <2> QED BY <1>1, <1>2, <1>4, <1>6, <1>11, <2>1, <2>5 DEF Money
<1>13. Sound(a, m, W) => Sound(a, "used", W2)'
  <2> SUFFICES ASSUME Sound(a, m, W) PROVE Sound(a, "used", W2)'
      OBVIOUS
  <2>1. Ordered(a)'
        BY <1>1, OrderKept DEF Sound, Arriving
  <2>2. slot'[a] = None => \E u \in W2 : pc'[u] \in Replacing
        BY <1>1, <1>4, <1>5, <1>6, StillExcused DEF Replacing
  <2> QED BY <1>1, <2>1, <2>2, OwnSound
<1>14. Reserve(a, "used", W2, D2, e2)'
  <2>1. /\ Used(W2, D2, e2) \in Nat /\ Used(W2, D2, e2) <= Used(W, D, e) /\ Used(W, D, e) \in Nat
        BY <1>3, <1>5, UsedSpoilt, UsedNumber
  <2>2. Used(W2, D2, e2)' = Used(W2, D2, e2) /\ overlaps \in Nat
        /\ Cardinality(Watched(a)) \in Nat
    <3>1. Watched(a) \subseteq Busy
          BY DEF Watched, Looking, CallsOf
    <3> QED BY <3>1, Sizes DEF Used, TypeInv, TypeOK
  <2> QED BY <1>1, <1>2, <1>3, <1>13, <2>1, <2>2 DEF Reserve
<1>15. AccountOf(a, "used", b, W2, D2, e2)'
      BY <1>3, <1>6, <1>7, <1>8, <1>12, <1>14 DEF AccountOf
<1> QED BY <1>15 DEF Accounted

\* A call stores into an older bucket: what it takes there is one giveaway.
LEMMA CheckOther ==
    ASSUME TypeInv, TypeInv', TimesInv, NEW a \in Addresses, NEW v \in CallsOf(a), Check(v),
           NEW m, NEW b, NEW W, NEW D, NEW e, AccountOf(a, m, b, W, D, e), v \notin W
    PROVE  Accounted(a)'
<1>1. /\ Step(v) /\ v \in Threads /\ v \in Unchecked(a) /\ pc[v] = "check"
      /\ mine[v] \in Buckets /\ refilled[v] \in Int /\ refilled[v] <= Full
      /\ UNCHANGED <<slot, older, admitted>>
      /\ \A c \in Buckets \ {mine[v]} : tokens'[c] = tokens[c] /\ last'[c] = last[c]
      /\ Unchecked(a)' = Unchecked(a) \ {v}
      /\ Looking(a)' = Looking(a) /\ Watched(a)' = Watched(a)
      /\ \A u \in CallsOf(a) : u \in Threads
      /\ IF refilled[v] < Cost(Refill)
         THEN Charged(a)' = Charged(a) /\ Due(a)' = Due(a)
         ELSE /\ Charged(a)' = Charged(a) \cup {v} /\ mine'[v] = mine[v]
              /\ Due(a)' = Due(a) + Cost(Refill)
      BY CheckFrame
<1>2. /\ \A u \in Threads \ {v} :
            pc'[u] = pc[u] /\ ip'[u] = ip[u] /\ now'[u] = now[u] /\ mine'[u] = mine[u]
      /\ clock' = clock /\ overlaps' = overlaps /\ since' = since
      /\ Strangers(a)' = Strangers(a)
      BY <1>1, OwnFrame
<1>3. /\ m \in {"fresh", "used"} /\ b \in Buckets \cup {None} /\ e \in Nat
      /\ Shares(a, W, D) /\ OwnBucket(a, b, W, D) /\ Money(a, m, b, W, D, e)
      /\ Reserve(a, m, W, D, e)
      BY DEF AccountOf
<1>4. v \in D /\ mine[v] # b
      BY <1>1, <1>3 DEF Shares, OwnBucket
<1>5. PICK D2 : D2 = D \ {v}
      OBVIOUS
<1>6. /\ W \subseteq CallsOf(a) /\ D \subseteq CallsOf(a) /\ W \ D2 = W \ D
      /\ e + 1 \in Nat /\ W \in SUBSET Threads
      /\ \A u \in W \cup D2 : u \in Threads \ {v}
      BY <1>1, <1>3, <1>5 DEF Shares, Unchecked
<1>7. Shares(a, W, D2)' /\ OwnBucket(a, b, W, D2)'
      BY <1>1, <1>2, <1>3, <1>5, <1>6 DEF Shares, OwnBucket
<1>8. Holders(W)' = Holders(W) /\ (Live(a, b, W)' <=> Live(a, b, W))
  <2>1. Holders(W)' = Holders(W)
        BY <1>2, <1>6 DEF Holders
  <2> QED BY <1>1, <2>1 DEF Live
<1>9. b \in Buckets => Left(a, b)' = Left(a, b) /\ last'[b] = last[b]
  <2> SUFFICES ASSUME b \in Buckets PROVE Left(a, b)' = Left(a, b) /\ last'[b] = last[b]
      OBVIOUS
  <2>1. \A u \in Charged(a) : u \in Threads \ {v} /\ mine'[u] = mine[u]
        BY <1>1, <1>2 DEF Charged, Paying
  <2>2. (\E u \in Charged(a)' : mine'[u] = b) <=> (\E u \in Charged(a) : mine[u] = b)
        BY <1>1, <1>4, <2>1
  <2> QED BY <1>1, <1>4, <2>2 DEF Left
<1>10. /\ Due(a)' <= Due(a) + Full
       /\ Due(a) \in Nat /\ Due(a)' \in Nat /\ since[a] \in Nat /\ clock \in Nat
       /\ Worth(e) \in Nat /\ Worth(e + 1) = Worth(e) + Full + MaxStall
       /\ Full \in Nat /\ MaxStall \in Nat
       /\ Balance(a, m, b, W)' = Balance(a, m, b, W) /\ Balance(a, m, b, W) \in Nat
       /\ Live(a, b, W) => b \in Buckets /\ Left(a, b) \in Nat /\ last[b] \in Nat
  <2>1. AccountNumbers
        BY AccountNumbersHold
  <2>2. /\ Due(a) \in Nat /\ since[a] \in Nat /\ clock \in Nat
        /\ Balance(a, m, b, W) \in Nat
        /\ Live(a, b, W) => b \in Buckets /\ Left(a, b) \in Nat /\ last[b] \in Nat
        BY <1>3, <2>1 DEF AccountNumbers
  <2>3. Balance(a, m, b, W)' = Balance(a, m, b, W)
        BY <1>8, <1>9, <2>2 DEF Balance
  <2>4. Due(a)' <= Due(a) + Full /\ Due(a)' \in Nat
        BY <1>1, <2>2, Amounts
  <2> QED BY <1>3, <2>2, <2>3, <2>4, Worths, Amounts, LimiterAssumption
<1>11. Money(a, m, b, W, D2, e + 1)'
  <2>1. Due(a)' + Balance(a, m, b, W)' <= Line(a, clock, e + 1)'
        BY <1>2, <1>3, <1>10 DEF Money, Line
  <2>2. Live(a, b, W)' /\ m # "fresh" =>
            last'[b] <= clock' /\ Due(a)' + Left(a, b)' <= Line(a, last[b], e + 1)'
        BY <1>2, <1>3, <1>8, <1>9, <1>10 DEF Money, Line
  <2>3. ASSUME NEW u \in W \ D2 PROVE Sure(a, m, b, W, e + 1, u)'
    <3>1. Sure(a, m, b, W, e, u) /\ now'[u] = now[u] /\ now[u] \in Nat
          BY <1>2, <1>3, <1>6, <2>3 DEF Money, TypeInv, TypeOK
    <3>2. m = "fresh"
          BY <3>1 DEF Sure
    <3>3. Due(a)' + Balance(a, m, b, W)' <= Line(a, now[u], e + 1)'
          BY <1>2, <1>10, <3>1 DEF Sure, Line
    <3> QED BY <3>2, <3>3 DEF Sure
  <2> QED BY <2>1, <2>2, <2>3 DEF Money
<1>12. Sound(a, m, W) => Sound(a, m, W)'
  <2> SUFFICES ASSUME Sound(a, m, W) PROVE Sound(a, m, W)'
      OBVIOUS
  <2>1. Ordered(a)'
    <3>1. UNCHANGED <<slot, older>> /\ pc[v] \notin Arriving /\ Step(v) /\ Ordered(a)
          BY <1>1 DEF Sound, Arriving
    <3> QED BY <3>1, OrderKept
  <2>2. slot'[a] = None /\ (m # "fresh" \/ Holders(W)' # {}) =>
            \E u \in W : pc'[u] \in Replacing
    <3> SUFFICES ASSUME slot'[a] = None, m # "fresh" \/ Holders(W)' # {}
                 PROVE  \E u \in W : pc'[u] \in Replacing
        OBVIOUS
    <3>1. /\ slot[a] = None /\ pc[v] \notin Replacing /\ pc[v] # "lookup" /\ Step(v)
          /\ W \subseteq CallsOf(a) /\ W \ {v} \subseteq W
          /\ m # "fresh" \/ Holders(W) # {}
          BY <1>1, <1>6, <1>8 DEF Replacing
    <3> QED BY <3>1, StillExcused
  <2> QED BY <1>1, <2>1, <2>2, OwnSound
<1>13. Reserve(a, m, W, D2, e + 1)'
  <2>1. Used(W, D2, e + 1) = Used(W, D, e)
        BY <1>3, <1>4, <1>5, UsedNumber
  <2>2. Used(W, D2, e + 1)' = Used(W, D2, e + 1)
        BY DEF Used
  <2> QED BY <1>1, <1>2, <1>3, <1>12, <2>1, <2>2 DEF Reserve
<1>14. AccountOf(a, m, b, W, D2, e + 1)'
      BY <1>3, <1>6, <1>7, <1>11, <1>13 DEF AccountOf
<1> QED BY <1>14 DEF Accounted

\* A call is charged where it stores what it has computed and goes on.
LEMMA OwnChecks ==
    ASSUME TypeInv, TypeInv', TimesInv, NEW a \in Addresses, NEW v \in CallsOf(a), Check(v),
           Accounted(a)
    PROVE  Accounted(a)'
<1>1. PICK m, b, W, D, e : AccountOf(a, m, b, W, D, e)
      BY DEF Accounted
<1> QED BY <1>1, CheckOwn, CheckOther

\* A call has what it was charged for, or leaves it in the bucket.
LEMMA OwnSpends ==
    ASSUME TypeInv, TypeInv', NEW a \in Addresses, NEW v \in CallsOf(a), Spend(v), Accounted(a)
    PROVE  Accounted(a)'
<1>1. PICK m, b, W, D, e : AccountOf(a, m, b, W, D, e)
      BY DEF Accounted
<1>2. /\ v \in Threads /\ ip[v] = a /\ Step(v) /\ pc[v] = "spend" /\ pc'[v] = "idle"
      /\ UNCHANGED <<slot, older, last>>
      /\ mine[v] \in Buckets
      /\ \/ UNCHANGED <<tokens, admitted>>
         \/ /\ tokens' = [tokens EXCEPT ![mine[v]] = @ - Cost(Refill)]
            /\ admitted'[a] = admitted[a] + 1
  <2>1. v \in Threads /\ ip[v] = a /\ Step(v) /\ pc[v] = "spend"
        BY DEF CallsOf, Busy, Step, Spend
  <2> QED BY <2>1 DEF Spend, Return, Goto, table, TypeInv, TypeOK, StageOK, Holding
<1>3. /\ \A u \in Threads \ {v} :
            /\ pc'[u] = pc[u] /\ ip'[u] = ip[u] /\ now'[u] = now[u]
            /\ mine'[u] = mine[u] /\ refilled'[u] = refilled[u]
      /\ clock' = clock /\ overlaps' = overlaps /\ since' = since
      /\ CallsOf(a)' = CallsOf(a) \ {v} /\ Strangers(a)' = Strangers(a)
      BY <1>2, OwnFrame
<1>4. /\ m \in {"fresh", "used"} /\ b \in Buckets \cup {None} /\ e \in Nat
      /\ Shares(a, W, D) /\ OwnBucket(a, b, W, D) /\ Money(a, m, b, W, D, e)
      /\ Reserve(a, m, W, D, e)
      BY <1>1 DEF AccountOf
<1>5. \A u \in CallsOf(a) : u \in Threads
      BY DEF CallsOf, Busy
<1>6. /\ Unchecked(a)' = Unchecked(a) /\ Charged(a)' = Charged(a) \ {v} /\ v \in Charged(a)
      /\ Looking(a)' = Looking(a) /\ Watched(a)' = Watched(a) /\ v \notin Unchecked(a)
      BY <1>2, <1>3, <1>5 DEF Unchecked, Charged, Looking, Watched, Paying
<1>7. /\ W \subseteq CallsOf(a) /\ v \notin W /\ v \notin D /\ W \in SUBSET Threads
      /\ \A u \in W \cup D : u \in Threads \ {v}
      BY <1>4, <1>5, <1>6 DEF Shares, Unchecked
<1>8. Shares(a, W, D)' /\ OwnBucket(a, b, W, D)'
      BY <1>2, <1>3, <1>4, <1>6, <1>7 DEF Shares, OwnBucket
<1>9. Holders(W)' = Holders(W) /\ (Live(a, b, W)' <=> Live(a, b, W))
  <2>1. Holders(W)' = Holders(W)
        BY <1>3, <1>7 DEF Holders
  <2> QED BY <1>2, <2>1 DEF Live
<1>10. PICK du \in Nat, c \in Nat :
          /\ du = Due(a) /\ c = Cost(Refill) /\ du >= c
          /\ Due(a)' = IF admitted'[a] = admitted[a] THEN du - c ELSE du
  <2>1. IsFiniteSet(Charged(a)) /\ Cardinality(Charged(a)) \in Nat /\ admitted[a] \in Nat
        BY Sizes DEF TypeInv, TypeOK
  <2>2. Cardinality(Charged(a)') = Cardinality(Charged(a)) - 1
        BY <1>6, <2>1, FS_RemoveElement
  <2>3. Cardinality(Charged(a)) # 0
        BY <1>6, <2>1, FS_EmptySet
  <2>4. PICK n \in Nat : /\ Taken(a) = n + 1
                         /\ Taken(a)' = IF admitted'[a] = admitted[a] THEN n ELSE n + 1
    <3>1. admitted[a] + Cardinality(Charged(a)) - 1 \in Nat
          BY <2>1, <2>3
    <3>2. admitted'[a] \in {admitted[a], admitted[a] + 1}
          BY <1>2
    <3> QED BY <2>1, <2>2, <3>1, <3>2 DEF Taken
  <2>5. n * Cost(Refill) \in Nat /\ (n + 1) * Cost(Refill) = n * Cost(Refill) + Cost(Refill)
        BY Dues
  <2> QED BY <2>4, <2>5, Amounts DEF Due
<1>11. /\ Due(a)' <= Due(a)
       /\ b \in Buckets => Due(a)' + Left(a, b)' <= Due(a) + Left(a, b)
  <2>1. \A u \in Charged(a) \ {v} : mine'[u] = mine[u]
        BY <1>3, <1>5 DEF Charged
  <2>2. ASSUME b \in Buckets PROVE Due(a)' + Left(a, b)' <= Due(a) + Left(a, b)
    <3>1. PICK k \in Int, x \in {0, c}, y \in {0, c} :
              /\ k = tokens[b] /\ (y = c => x = c)
              /\ Left(a, b) = Elapse(k, x) /\ Left(a, b)' = Elapse(tokens'[b], y)
              /\ IF mine[v] = b THEN x = c ELSE y = x
          BY <1>6, <1>10, <2>1, <2>2 DEF Left, TypeInv, TypeOK
    <3>2. CASE UNCHANGED <<tokens, admitted>>
          BY <1>10, <3>1, <3>2 DEF Elapse
    <3>3. CASE /\ tokens' = [tokens EXCEPT ![mine[v]] = @ - Cost(Refill)]
               /\ admitted'[a] = admitted[a] + 1
      <4>1. tokens'[b] = IF mine[v] = b THEN k - c ELSE k
            BY <1>10, <2>2, <3>1, <3>3 DEF TypeInv, TypeOK
      <4>2. Due(a)' = du
        <5>1. admitted[a] \in Nat
              BY DEF TypeInv, TypeOK
        <5> QED BY <1>10, <3>3, <5>1
      <4>3. CASE mine[v] = b
            BY <1>10, <3>1, <4>1, <4>2, <4>3 DEF Elapse
      <4>4. CASE mine[v] # b
            BY <1>10, <3>1, <4>1, <4>2, <4>4 DEF Elapse
      <4> QED BY <4>3, <4>4
    <3> QED BY <1>2, <3>2, <3>3
  <2> QED BY <1>10, <2>2
<1>12. Money(a, m, b, W, D, e)'
  <2>1. m # "fresh" => W \ D = {}
        BY <1>4, <1>7 DEF Money, Sure
  <2>2. \A u \in W \ D : now'[u] = now[u]
        BY <1>3, <1>7
  <2>3. Live(a, b, W)' => Live(a, b, W) /\ b \in Buckets
        BY <1>4, <1>9 DEF Live
  <2>4. clock <= clock' /\ since'[a] = since[a] /\ last' = last
        BY <1>2, <1>3 DEF TypeInv, TypeOK
  <2> QED BY <1>4, <1>7, <1>11, <2>1, <2>2, <2>3, <2>4, MoneyKeeps
<1>13. Sound(a, m, W) => Sound(a, m, W)'
  <2> SUFFICES ASSUME Sound(a, m, W) PROVE Sound(a, m, W)'
      OBVIOUS
  <2>1. Ordered(a)'
        BY <1>2, OrderKept DEF Sound, Arriving
  <2>2. slot'[a] = None /\ (m # "fresh" \/ Holders(W)' # {}) =>
            \E u \in W : pc'[u] \in Replacing
        BY <1>2, <1>7, <1>9, StillExcused DEF Replacing
  <2> QED BY <1>2, <2>1, <2>2, OwnSound
<1>14. Reserve(a, m, W, D, e)'
      BY <1>3, <1>4, <1>6, <1>13 DEF Reserve, Used
<1>15. AccountOf(a, m, b, W, D, e)'
      BY <1>4, <1>8, <1>12, <1>14 DEF AccountOf
<1> QED BY <1>15 DEF Accounted

-----------------------------------------------------------------------------
\* All steps, and what follows.

\* Every step keeps the accounts.
LEMMA AccountStep ==
    TypeInv /\ TypeInv' /\ TimesInv /\ OwnInv /\ AccountInv /\ [Next]_vars => AccountInv'
<1> SUFFICES ASSUME TypeInv, TypeInv', TimesInv, OwnInv, AccountInv, [Next]_vars, Refill # 0,
                    NEW a \in Addresses
             PROVE  Accounted(a)'
    BY DEF AccountInv
<1>0. Accounted(a)
      BY DEF AccountInv
<1>1. ASSUME NEW t \in Threads, NEW c \in Addresses, Arrive(t, c) PROVE Accounted(a)'
      BY <1>0, <1>1, OwnArrives, OtherArrives
<1>2. ASSUME NEW t \in Threads, Step(t) PROVE Accounted(a)'
  <2>1. t \in Busy
        BY <1>2 DEF Step, Lookup, CheckFull, Evict, Insert, Touch, Elapsed, Refilled, Check,
                    GlobalElapsed, GlobalRefilled, Spend, Busy
  <2>2. CASE ip[t] # a
        BY <1>0, <1>2, <2>1, <2>2, StrangerStep DEF Strangers
  <2>3. CASE ip[t] = a
    <3>1. t \in CallsOf(a)
          BY <2>1, <2>3 DEF CallsOf
    <3>2. CASE Lookup(t)
      <4>1. PICK m, b, W, D, e : AccountOf(a, m, b, W, D, e)
            BY <1>0 DEF Accounted
      <4>2. CASE slot[a] # None \/ t \in D \/ m = "fresh"
            BY <3>1, <3>2, <4>1, <4>2, LookupFinds DEF Accounted
      <4>3. CASE slot[a] = None /\ t \notin D /\ m # "fresh"
            BY <3>1, <3>2, <4>1, <4>3, LookupPays
      <4> QED BY <4>2, <4>3
    <3>3. CASE CheckFull(t)
          BY <1>0, <3>1, <3>3, OwnReplaces
    <3>4. CASE Evict(t)
      <4>1. CASE Tracked = {}
            BY <1>0, <3>1, <3>4, <4>1, OwnLost
      <4>2. CASE Tracked # {}
            BY <1>0, <3>1, <3>4, <4>2, OwnReplaces
      <4> QED BY <4>1, <4>2
    <3>5. CASE Insert(t)
          BY <1>0, <3>1, <3>5, OwnInserts
    <3>6. CASE Touch(t)
          BY <1>0, <3>1, <3>6, OwnTouches, OwnLost
    <3>7. CASE Elapsed(t) \/ Refilled(t)
          BY <1>0, <3>1, <3>7, OwnRefills
    <3>8. CASE Check(t)
          BY <1>0, <3>1, <3>8, OwnChecks
    <3>9. CASE GlobalElapsed(t) \/ GlobalRefilled(t)
          BY <1>0, <3>1, <3>9, OwnPays
    <3>10. CASE Spend(t)
          BY <1>0, <3>1, <3>10, OwnSpends
    <3> QED BY <1>2, <3>2, <3>3, <3>4, <3>5, <3>6, <3>7, <3>8, <3>9, <3>10 DEF Step
  <2> QED BY <2>2, <2>3
<1>3. CASE Tick
      BY <1>0, <1>3, ClockStep DEF Tick, TypeInv, TypeOK
<1>4. CASE UNCHANGED vars
      BY <1>0, <1>4, ClockStep DEF vars, TypeInv, TypeOK
<1> QED BY <1>1, <1>2, <1>3, <1>4 DEF Next

\* At the start every account is new.
LEMMA AccountInit == Init => AccountInv
<1> SUFFICES ASSUME Init, NEW a \in Addresses PROVE Accounted(a)
    BY DEF AccountInv
<1>1. /\ Busy = {} /\ Tracked = {} /\ slot[a] = None /\ clock = 0 /\ overlaps = 0
      /\ admitted[a] = 0 /\ since[a] = 0
      BY DEF Init, Busy, Tracked
<1>2. /\ CallsOf(a) = {} /\ Strangers(a) = {} /\ Unchecked(a) = {} /\ Charged(a) = {}
      /\ Watched(a) = {}
      BY <1>1 DEF CallsOf, Strangers, Unchecked, Charged, Watched
<1>3. Cardinality({}) = 0 /\ Pairs(0) = 0
  <2>1. 0 * (0 - 1) = 0 /\ 0 \div 2 = 0
        OBVIOUS
  <2> QED BY <2>1, FS_EmptySet DEF Pairs
<1>4. \A m \in Int : 0 * m = 0
      OBVIOUS
<1>5. Due(a) = 0 /\ Line(a, clock, 0) = Full
      BY <1>1, <1>2, <1>3, <1>4, Amounts, LimiterAssumption DEF Due, Taken, Line, Worth
<1>6. Money(a, "fresh", None, {}, {}, 0)
      BY <1>5, Amounts DEF Money, Balance
<1>7. Reserve(a, "fresh", {}, {}, 0)
  <2>1. Used({}, {}, 0) + Cardinality(Watched(a)) = overlaps
        BY <1>1, <1>2, <1>3 DEF Used
  <2>2. Sound(a, "fresh", {})
        BY <1>1, <1>2 DEF Sound, Ordered, Holders
  <2> QED BY <1>1, <2>1, <2>2 DEF Reserve
<1>8. Shares(a, {}, {}) /\ OwnBucket(a, None, {}, {})
      BY <1>1, <1>2 DEF Shares, OwnBucket
<1>9. AccountOf(a, "fresh", None, {}, {}, 0)
      BY <1>6, <1>7, <1>8 DEF AccountOf
<1> QED BY <1>9 DEF Accounted

\* Who holds an account has had no more than its line, and no giveaway without
\* a pair.
LEMMA AccountBounds == TypeInv /\ AccountInv => AddressRateHeld
<1> SUFFICES ASSUME TypeInv, AccountInv, Refill # 0, NEW a \in Addresses
             PROVE  admitted[a] * Cost(Refill)
                        <= (clock - since[a]) + Full + overlaps * (Full + MaxStall)
    BY DEF AddressRateHeld
<1>1. PICK m, b, W, D, e : AccountOf(a, m, b, W, D, e)
      BY DEF AccountInv, Accounted
<1>2. /\ b \in Buckets \cup {None} /\ e \in Nat /\ Shares(a, W, D)
      /\ Money(a, m, b, W, D, e) /\ Reserve(a, m, W, D, e)
      BY <1>1 DEF AccountOf
<1>3. e <= overlaps /\ overlaps \in Nat
  <2>1. /\ Cardinality(W) \in Nat /\ Cardinality(D) \in Nat /\ Cardinality(Watched(a)) \in Nat
    <3>1. Watched(a) \subseteq Busy
          BY DEF Watched, Looking, CallsOf
    <3> QED BY <1>2, <3>1, Sizes, UsedNumber
  <2>2. Pairs(Cardinality(W)) \in Nat
        BY <2>1, PairsGrow
  <2>3. Used(W, D, e) + Cardinality(Watched(a)) <= overlaps /\ overlaps \in Nat
        BY <1>2 DEF Reserve, TypeInv, TypeOK
  <2> QED BY <1>2, <2>1, <2>2, <2>3 DEF Used
<1>4. admitted[a] * Cost(Refill) <= Due(a) /\ admitted[a] * Cost(Refill) \in Nat
  <2>1. PICK n \in Nat, k \in Nat, c \in Nat :
            n = admitted[a] /\ k = Cardinality(Charged(a)) /\ c = Cost(Refill)
    <3>1. Cardinality(Charged(a)) \in Nat
          BY Sizes
    <3> QED BY <3>1, Amounts DEF TypeInv, TypeOK
  <2>2. (n + k) * c = n * c + k * c /\ n * c \in Nat /\ k * c \in Nat
        OBVIOUS
  <2>3. Due(a) = (n + k) * c
        BY <2>1 DEF Due, Taken
  <2> QED BY <2>1, <2>2, <2>3
<1>5. /\ Due(a) + Balance(a, m, b, W) <= clock - since[a] + Full + Worth(e)
      /\ Balance(a, m, b, W) \in Nat /\ Due(a) \in Nat /\ clock \in Nat /\ since[a] \in Nat
      BY <1>2, AccountNumbersHold DEF AccountNumbers, Money, Line
<1>6. Worth(e) <= Worth(overlaps) /\ Worth(e) \in Nat /\ Worth(overlaps) \in Nat
      BY <1>2, <1>3, Worths, WorthGrows
<1>7. admitted[a] * Cost(Refill) <= clock - since[a] + Full + Worth(overlaps)
      BY <1>4, <1>5, <1>6, Amounts
<1> QED BY <1>7 DEF Worth

\* While an address does not see Slots others come between two of its calls it
\* is admitted its burst and what the clock refills, and for each pair of calls
\* that overlapped at most a burst and the time of a call more (allow).
THEOREM AddressLimitHeld == Spec => []AddressRateHeld
<1>1. Init => TimesInv
  <2> SUFFICES ASSUME Init PROVE TimesInv
      OBVIOUS
  <2>1. Busy = {} /\ gtokens = GlobalFull /\ glast = 0 /\ clock = 0
        BY DEF Init, Busy
  <2> QED BY <2>1, Amounts DEF TimesInv
<1>2. TypeInv /\ TimesInv /\ OwnInv /\ AccountInv /\ [Next]_vars
          => TypeInv' /\ TimesInv' /\ OwnInv' /\ AccountInv'
      BY TypeStep, TimesStep, OwnStep, AccountStep
<1> QED BY TypeInit, OwnInit, AccountInit, AccountBounds, <1>1, <1>2, PTL DEF Spec

=============================================================================
