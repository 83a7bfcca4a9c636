---------------------------- MODULE RateLimiter ----------------------------
(***************************************************************************)
(* TokenBucketLimiter.allow as the connection threads run it: on one       *)
(* table, without a lock.                                                  *)
(*                                                                         *)
(* CPython switches threads after a call returns and when a Python         *)
(* function is entered, nowhere else in this code.  A step is therefore    *)
(* what runs from one call to the next: get, len, popitem, _Bucket() and   *)
(* then the assignment with move_to_end, max, min.  Storing the refilled   *)
(* tokens and comparing them is one step, and so is taking both tokens.    *)
(*                                                                         *)
(* A bucket is an object: a thread keeps the one it looked up or made even *)
(* when the table no longer does.  Tokens are counted in units of clock    *)
(* ticks, Cost(refill) to a token, so that a refill adds the elapsed time; *)
(* the rounding of floats is left out.                                     *)
(*                                                                         *)
(* admitted, since, others, total and overlaps are history: no              *)
(* action depends on them but for the bound MaxOverlaps.                   *)
(***************************************************************************)
EXTENDS Integers, FiniteSets

CONSTANTS Addresses, Threads,
          Buckets,       \* identities of _Bucket objects
          None,          \* no bucket; dict.get of an unknown address
          Slots,         \* max(1, cfg.ip_slots)
          Burst, Refill, \* cfg.ip_burst, and ip_refill_secs in ticks
          GlobalBurst, GlobalRefill,
          MaxStall,      \* bound: ticks a call takes
          MaxTime,       \* bound: the clock stops here
          MaxOverlaps    \* bound: pairs of calls that overlap

ASSUME LimiterAssumption ==
    /\ IsFiniteSet(Threads) /\ IsFiniteSet(Addresses)
    /\ None \notin Buckets
    /\ Slots \in Nat \ {0}
    /\ Burst \in Nat /\ Refill \in Nat
    /\ GlobalBurst \in Nat /\ GlobalRefill \in Nat
    /\ MaxStall \in Nat /\ MaxTime \in Nat /\ MaxOverlaps \in Nat

VARIABLES clock,     \* time.monotonic()
          slot,      \* _buckets: each address's bucket, or None
          older,     \* the order of _buckets: <<a, b>> when a comes before b
          tokens,    \* _Bucket.tokens of each bucket
          last,      \* _Bucket.last of each bucket
          gtokens, glast, started,   \* _global and _global_started
          pc, ip, now,               \* each thread's call and its arguments
          mine,      \* the local variable `bucket`
          refilled,  \* what _refill has computed so far: first the elapsed
                     \* time, then the new number of tokens
          lost,      \* some call has raised KeyError
          admitted, since, others,   \* history per address, see OpenAccount
          total,                     \* history: all admissions
          overlaps   \* history: pairs of calls that ran at the same time

table == <<slot, older>>
buckets == <<tokens, last>>
global == <<gtokens, glast, started>>
call == <<ip, now, mine, refilled>>
history == <<admitted, since, others, total, overlaps>>
vars == <<clock, table, buckets, global, pc, call, lost, history>>

Stages == {"lookup", "full", "evict", "insert", "touch",
           "elapsed", "refill", "check", "gelapsed", "grefill", "spend"}

Cost(refill) == IF refill = 0 THEN 1 ELSE refill
Full == Burst * Cost(Refill)
GlobalFull == GlobalBurst * Cost(GlobalRefill)

Tracked == {a \in Addresses : slot[a] # None}
Oldest == {a \in Tracked : \A b \in Tracked \ {a} : <<a, b>> \in older}

Least(x, y) == IF x <= y THEN x ELSE y

\* max(0.0, now - last)
Elapse(at, before) == IF at <= before THEN 0 ELSE at - before

\* No table entry and no call holds it.
Free(b) == (\A a \in Addresses : slot[a] # b) /\ (\A t \in Threads : mine[t] # b)

Busy == {t \in Threads : pc[t] # "idle"}

\* Types; and no bucket ever holds more than its burst, which is what makes a
\* burst a bound (min in _refill).
TypeOK ==
    /\ clock \in Nat
    /\ slot \in [Addresses -> Buckets \cup {None}]
    /\ older \subseteq Addresses \X Addresses
    /\ tokens \in [Buckets -> {n \in Int : n <= Full}] /\ last \in [Buckets -> Nat]
    /\ gtokens \in {n \in Int : n <= GlobalFull} /\ glast \in Nat /\ started \in BOOLEAN
    /\ pc \in [Threads -> Stages \cup {"idle"}]
    /\ ip \in [Threads -> Addresses \cup {None}]
    /\ now \in [Threads -> Nat]
    /\ mine \in [Threads -> Buckets \cup {None}]
    /\ refilled \in [Threads -> Int]
    /\ lost \in BOOLEAN
    /\ admitted \in [Addresses -> Nat] /\ since \in [Addresses -> Nat]
    /\ others \in [Addresses -> SUBSET Addresses]
    /\ total \in Nat /\ overlaps \in Nat

Init ==
    /\ clock = 0
    /\ slot = [a \in Addresses |-> None]
    /\ older = {}
    /\ tokens = [b \in Buckets |-> 0]
    /\ last = [b \in Buckets |-> 0]
    /\ gtokens = GlobalFull
    /\ glast = 0
    /\ started = FALSE
    /\ pc = [t \in Threads |-> "idle"]
    /\ ip = [t \in Threads |-> None]
    /\ now = [t \in Threads |-> 0]
    /\ mine = [t \in Threads |-> None]
    /\ refilled = [t \in Threads |-> 0]
    /\ lost = FALSE
    /\ admitted = [a \in Addresses |-> 0]
    /\ since = [a \in Addresses |-> 0]
    /\ others = [a \in Addresses |-> Addresses]
    /\ total = 0
    /\ overlaps = 0

Goto(t, stage) == pc' = [pc EXCEPT ![t] = stage]

\* The call is over; what it held is garbage.
Return(t) ==
    /\ Goto(t, "idle")
    /\ ip' = [ip EXCEPT ![t] = None]
    /\ now' = [now EXCEPT ![t] = 0]
    /\ mine' = [mine EXCEPT ![t] = None]
    /\ refilled' = [refilled EXCEPT ![t] = 0]


\* History of a touch of `a`: every other account has seen one more address.
SeenBy(a) ==
    others' = [b \in Addresses |-> IF b = a THEN {} ELSE others[b] \cup {a}]

\* An address opens a new account when it comes for the first time, or after
\* Slots other addresses.  A call of its own that still runs keeps the old one
\* open: what it takes would count in both.
OpenAccount(a) ==
    IF Cardinality(others[a]) >= Slots /\ \A t \in Busy : ip[t] # a
    THEN /\ admitted' = [admitted EXCEPT ![a] = 0]
         /\ since' = [since EXCEPT ![a] = clock]
    ELSE UNCHANGED <<admitted, since>>

\* _dispatch reads the clock and calls allow.
Arrive(t, a) ==
    /\ pc[t] = "idle"
    /\ overlaps + Cardinality(Busy) <= MaxOverlaps
    /\ overlaps' = overlaps + Cardinality(Busy)
    /\ Goto(t, "lookup")
    /\ ip' = [ip EXCEPT ![t] = a]
    /\ now' = [now EXCEPT ![t] = clock]
    /\ OpenAccount(a)
    /\ SeenBy(a)
    /\ UNCHANGED <<clock, table, buckets, global, mine, refilled, lost, total>>

\* The first call starts the global bucket's clock; bucket = _buckets.get(ip).
Lookup(t) ==
    /\ pc[t] = "lookup"
    /\ started' = TRUE
    /\ glast' = IF started THEN glast ELSE now[t]
    /\ mine' = [mine EXCEPT ![t] = slot[ip[t]]]
    /\ Goto(t, IF slot[ip[t]] = None THEN "full" ELSE "touch")
    /\ UNCHANGED <<clock, table, buckets, gtokens, ip, now, refilled, lost, history>>

\* Plausible bug, for a mutant: `>` for `>=`.
CheckFullOffByOne(t) ==
    /\ pc[t] = "full"
    /\ Goto(t, IF Cardinality(Tracked) > Slots THEN "evict" ELSE "insert")
    /\ UNCHANGED <<clock, table, buckets, global, call, lost, history>>

\* Plausible bug, for a mutant: a configured 0 that is not raised to 1.
CheckFullUnclamped(t) ==
    /\ pc[t] = "full"
    /\ Goto(t, IF Cardinality(Tracked) >= 0 THEN "evict" ELSE "insert")
    /\ UNCHANGED <<clock, table, buckets, global, call, lost, history>>

\* len(_buckets) >= _slots
CheckFull(t) ==
    /\ pc[t] = "full"
    /\ Goto(t, IF Cardinality(Tracked) >= Slots THEN "evict" ELSE "insert")
    /\ UNCHANGED <<clock, table, buckets, global, call, lost, history>>

Drop(a) ==
    /\ slot' = [slot EXCEPT ![a] = None]
    /\ older' = {p \in older : a \notin {p[1], p[2]}}

MoveToEnd(a, tracked) ==
    older' = {p \in older : p[1] # a} \cup {<<b, a>> : b \in tracked \ {a}}

\* popitem(last=False); other threads may have emptied the table by now.
Evict(t) ==
    /\ pc[t] = "evict"
    /\ IF Tracked = {}
       THEN /\ Return(t)
            /\ lost' = TRUE
            /\ UNCHANGED table
       ELSE /\ Goto(t, "insert")
            /\ \E a \in Oldest : Drop(a)
            /\ UNCHANGED <<call, lost>>
    /\ UNCHANGED <<clock, buckets, global, history>>

\* A new _Bucket, its slot, and move_to_end.  Which object is taken is
\* immaterial.
Insert(t) ==
    /\ pc[t] = "insert"
    /\ \E b \in Buckets : Free(b)
    /\ LET b == CHOOSE b \in Buckets : Free(b)
       IN  /\ tokens' = [tokens EXCEPT ![b] = Full]
           /\ last' = [last EXCEPT ![b] = now[t]]
           /\ slot' = [slot EXCEPT ![ip[t]] = b]
           /\ mine' = [mine EXCEPT ![t] = b]
    /\ MoveToEnd(ip[t], Tracked)
    /\ Goto(t, "elapsed")
    /\ UNCHANGED <<clock, global, ip, now, refilled, lost, history>>

\* Plausible bug, for a mutant: the table in order of arrival: no move_to_end.
TouchKeepsOrder(t) ==
    /\ pc[t] = "touch"
    /\ Goto(t, "elapsed")
    /\ UNCHANGED <<clock, table, buckets, global, call, lost, history>>

\* move_to_end of an address that was looked up: it may be evicted since.
Touch(t) ==
    /\ pc[t] = "touch"
    /\ IF slot[ip[t]] = None
       THEN /\ Return(t)
            /\ lost' = TRUE
            /\ UNCHANGED table
       ELSE /\ Goto(t, "elapsed")
            /\ MoveToEnd(ip[t], Tracked)
            /\ UNCHANGED <<call, slot, lost>>
    /\ UNCHANGED <<clock, buckets, global, history>>

\* _refill: elapsed = max(0.0, now - bucket.last)
Elapsed(t) ==
    /\ pc[t] = "elapsed"
    /\ refilled' = [refilled EXCEPT ![t] = Elapse(now[t], last[mine[t]])]
    /\ Goto(t, "refill")
    /\ UNCHANGED <<clock, table, buckets, global, ip, now, mine, lost, history>>

\* Plausible bug, for a mutant: _refill without min.
RefilledUncapped(t) ==
    /\ pc[t] = "refill"
    /\ refilled' = [refilled EXCEPT ![t] = tokens[mine[t]] + @]
    /\ Goto(t, "check")
    /\ UNCHANGED <<clock, table, buckets, global, ip, now, mine, lost, history>>

\* min(burst, bucket.tokens + elapsed / refill_secs)
Refilled(t) ==
    /\ pc[t] = "refill"
    /\ refilled' = [refilled EXCEPT
                      ![t] = IF Refill = 0 THEN Full ELSE Least(Full, tokens[mine[t]] + @)]
    /\ Goto(t, "check")
    /\ UNCHANGED <<clock, table, buckets, global, ip, now, mine, lost, history>>

\* Plausible bug, for a mutant: the ceiling is charged for what the address
\* bucket then refuses.
CheckChargesFirst(t) ==
    /\ pc[t] = "check"
    /\ tokens' = [tokens EXCEPT ![mine[t]] = refilled[t]]
    /\ last' = [last EXCEPT ![mine[t]] = now[t]]
    /\ IF refilled[t] < Cost(Refill)
       THEN Return(t) /\ gtokens' = gtokens - Cost(GlobalRefill)
       ELSE Goto(t, "gelapsed") /\ UNCHANGED <<call, gtokens>>
    /\ UNCHANGED <<clock, table, glast, started, lost, history>>

\* Both attributes are stored, then tokens < 1.0 refuses.
Check(t) ==
    /\ pc[t] = "check"
    /\ tokens' = [tokens EXCEPT ![mine[t]] = refilled[t]]
    /\ last' = [last EXCEPT ![mine[t]] = now[t]]
    /\ IF refilled[t] < Cost(Refill)
       THEN Return(t)
       ELSE Goto(t, "gelapsed") /\ UNCHANGED call
    /\ UNCHANGED <<clock, table, global, lost, history>>

\* The same _refill, of the global bucket.
GlobalElapsed(t) ==
    /\ pc[t] = "gelapsed"
    /\ refilled' = [refilled EXCEPT ![t] = Elapse(now[t], glast)]
    /\ Goto(t, "grefill")
    /\ UNCHANGED <<clock, table, buckets, global, ip, now, mine, lost, history>>

GlobalRefilled(t) ==
    /\ pc[t] = "grefill"
    /\ refilled' = [refilled EXCEPT
                      ![t] = IF GlobalRefill = 0 THEN GlobalFull
                             ELSE Least(GlobalFull, gtokens + @)]
    /\ Goto(t, "spend")
    /\ UNCHANGED <<clock, table, buckets, global, ip, now, mine, lost, history>>

\* Plausible bug, for a mutant: only the address pays.
SpendOwnOnly(t) ==
    /\ pc[t] = "spend"
    /\ glast' = now[t]
    /\ gtokens' = refilled[t]
    /\ IF refilled[t] < Cost(GlobalRefill)
       THEN UNCHANGED <<tokens, admitted, total>>
       ELSE /\ tokens' = [tokens EXCEPT ![mine[t]] = @ - Cost(Refill)]
            /\ admitted' = [admitted EXCEPT ![ip[t]] = @ + 1]
            /\ total' = total + 1
    /\ Return(t)
    /\ UNCHANGED <<clock, table, last, started, lost, since, others, overlaps>>

\* Stored; refused, or one token taken from each.
Spend(t) ==
    /\ pc[t] = "spend"
    /\ glast' = now[t]
    /\ IF refilled[t] < Cost(GlobalRefill)
       THEN /\ gtokens' = refilled[t]
            /\ UNCHANGED <<tokens, admitted, total>>
       ELSE /\ gtokens' = refilled[t] - Cost(GlobalRefill)
            /\ tokens' = [tokens EXCEPT ![mine[t]] = @ - Cost(Refill)]
            /\ admitted' = [admitted EXCEPT ![ip[t]] = @ + 1]
            /\ total' = total + 1
    /\ Return(t)
    /\ UNCHANGED <<clock, table, last, started, lost, since, others, overlaps>>

Tick ==
    /\ clock < MaxTime
    /\ \A t \in Busy : clock - now[t] < MaxStall
    /\ clock' = clock + 1
    /\ UNCHANGED <<table, buckets, global, pc, call, lost, history>>

Step(t) ==
    \/ Lookup(t) \/ CheckFull(t) \/ Evict(t) \/ Insert(t) \/ Touch(t)
    \/ Elapsed(t) \/ Refilled(t) \/ Check(t)
    \/ GlobalElapsed(t) \/ GlobalRefilled(t) \/ Spend(t)

Next ==
    \/ \E t \in Threads : Step(t) \/ \E a \in Addresses : Arrive(t, a)
    \/ Tick

Spec == Init /\ [][Next]_vars
-----------------------------------------------------------------------------
\* Without a lock each thread but one can add an entry to a full table, and no
\* more: the overshoot does not accumulate, because who inserts has evicted or
\* seen room (len, popitem and the assignment in allow).
SlotsOvershootBounded == Cardinality(Tracked) <= Slots - 1 + Cardinality(Threads)

\* While an address does not see Slots others come between two of its calls it
\* keeps its bucket, and gets its burst and what the clock refills; each pair
\* of calls that run at the same time may give away one burst more and count
\* the time the calls took twice.  (An ip_refill_secs of 0 is no limit.)
AddressRateHeld ==
    Refill # 0 =>
        \A a \in Addresses :
            admitted[a] * Cost(Refill)
                <= (clock - since[a]) + Full + overlaps * (Full + MaxStall)

\* The same of the ceiling across all addresses, from the start.
GlobalRateHeld ==
    GlobalRefill # 0 =>
        total * Cost(GlobalRefill) <= clock + GlobalFull + overlaps * (GlobalFull + MaxStall)

\* The global bucket pays for admitted requests only: a refused one does not
\* drain it, whatever races (the comment in allow on a flooding address).
GlobalOnlyPaysForAdmitted ==
    gtokens >= GlobalFull - total * Cost(GlobalRefill)

\* A call raises KeyError only where calls overlap: one thread at a time never
\* meets a missing slot.
LostOnlyToRaces == lost => overlaps > 0
=============================================================================
