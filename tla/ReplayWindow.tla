---------------------------- MODULE ReplayWindow ----------------------------
(***************************************************************************)
(* Signed requests on their way to a handler: verify_signed_request and    *)
(* the nonce table it records into, while the network repeats, delays and  *)
(* reorders what clients signed.                                           *)
(*                                                                         *)
(* A nonce here stands for a (key, nonce) pair, the table's primary key.   *)
(* Nonces are sixteen random bytes, so a client signs one request with     *)
(* each.  The request reads the clock once; purge and INSERT are two       *)
(* statements, each committed by itself, and other threads and the clock   *)
(* move between them.                                                      *)
(***************************************************************************)
EXTENDS Integers, Sequences

CONSTANTS Nonces, Threads,
          Window,    \* cfg.replay_window_secs
          MaxSkew,   \* bound: how far a console's clock is off
          MaxStall,  \* bound: seconds a thread takes to verify and record
          MaxTime    \* bound: the clock stops here

ASSUME WindowAssumption ==
    /\ Nonces # {}
    /\ Window \in Nat \ {0}
    /\ MaxSkew \in Nat
    /\ MaxStall \in Nat
    /\ MaxTime \in Nat

VARIABLES clock,     \* int(time.time())
          stamp,     \* the timestamp signed with each nonce, or Unsigned
          expires,   \* nonces.expires_at, or Absent when there is no row
          pc, nonce, \* what each thread is at, and for which request
          now,       \* the clock reading each request was given
          accepted,  \* history: for each nonce, when it was accepted
          purged     \* history: the latest reading the table was purged by

table == <<clock, stamp, expires>>
vars == <<clock, stamp, expires, pc, nonce, now, accepted, purged>>

Unsigned == -MaxSkew - 1
Absent == -1

Distance(a, b) == IF a >= b THEN a - b ELSE b - a

TypeOK ==
    /\ clock \in Nat
    /\ stamp \in [Nonces -> Int]
    /\ expires \in [Nonces -> Nat \cup {Absent}]
    /\ pc \in [Threads -> {"idle", "purge", "record"}]
    /\ nonce \in [Threads -> Nonces]
    /\ now \in [Threads -> Nat]
    /\ accepted \in [Nonces -> Seq([reading : Nat, at : Nat])]
    /\ purged \in Int

Init ==
    /\ clock = 0
    /\ stamp = [n \in Nonces |-> Unsigned]
    /\ expires = [n \in Nonces |-> Absent]
    /\ pc = [t \in Threads |-> "idle"]
    /\ nonce = [t \in Threads |-> CHOOSE n \in Nonces : TRUE]
    /\ now = [t \in Threads |-> 0]
    /\ accepted = [n \in Nonces |-> <<>>]
    /\ purged = -1

\* A console signs a request by its own clock, which is only roughly right.
Sign(n) ==
    /\ stamp[n] = Unsigned
    /\ \E ts \in (clock - MaxSkew)..(clock + MaxSkew) : stamp' = [stamp EXCEPT ![n] = ts]
    /\ UNCHANGED <<clock, expires, pc, nonce, now, accepted, purged>>

\* Variants with bugs the code could have had, never part of Spec.

\* The abs() is there, the signature check is not.
VerifyUnsigned(t, n, ts) ==
    /\ pc[t] = "idle"
    /\ Distance(clock, ts) <= Window
    /\ pc' = [pc EXCEPT ![t] = "purge"]
    /\ nonce' = [nonce EXCEPT ![t] = n]
    /\ now' = [now EXCEPT ![t] = clock]
    /\ UNCHANGED <<table, accepted, purged>>

\* expires_at < now: a row outlives its window by a second.
PurgeStrict(t) ==
    /\ pc[t] = "purge"
    /\ expires' = [n \in Nonces |-> IF expires[n] < now[t] THEN Absent ELSE expires[n]]
    /\ purged' = IF now[t] > purged THEN now[t] ELSE purged
    /\ pc' = [pc EXCEPT ![t] = "record"]
    /\ UNCHANGED <<clock, stamp, nonce, now, accepted>>

\* Remembered until the timestamp is stale, counting from the timestamp.
RecordByTimestamp(t) ==
    LET n == nonce[t]
    IN  /\ pc[t] = "record"
        /\ IF expires[n] = Absent
              THEN /\ expires' = [expires EXCEPT ![n] = stamp[n] + Window]
                   /\ accepted' = [accepted EXCEPT ![n] =
                          Append(@, [reading |-> now[t], at |-> clock])]
              ELSE UNCHANGED <<expires, accepted>>
        /\ pc' = [pc EXCEPT ![t] = "idle"]
        /\ UNCHANGED <<clock, stamp, nonce, now, purged>>

\* now - window where now + window is meant.
RecordBackwards(t) ==
    LET n == nonce[t]
    IN  /\ pc[t] = "record"
        /\ IF expires[n] = Absent
              THEN /\ expires' = [expires EXCEPT ![n] = now[t] - Window]
                   /\ accepted' = [accepted EXCEPT ![n] =
                          Append(@, [reading |-> now[t], at |-> clock])]
              ELSE UNCHANGED <<expires, accepted>>
        /\ pc' = [pc EXCEPT ![t] = "idle"]
        /\ UNCHANGED <<clock, stamp, nonce, now, purged>>

\* A copy of a signed request arrives, the first or any later one, possibly
\* damaged on the way (then its timestamp is not the one that was signed).
\* Cheap checks first: the timestamp against one reading of the clock, then
\* the signature; a copy that fails either leaves no trace.
Refuse(t, n, ts) ==
    /\ pc[t] = "idle"
    /\ Distance(clock, ts) > Window \/ ts # stamp[n]
    /\ UNCHANGED vars

Verify(t, n, ts) ==
    /\ pc[t] = "idle"
    /\ Distance(clock, ts) <= Window
    /\ ts = stamp[n]
    /\ pc' = [pc EXCEPT ![t] = "purge"]
    /\ nonce' = [nonce EXCEPT ![t] = n]
    /\ now' = [now EXCEPT ![t] = clock]
    /\ UNCHANGED <<table, accepted, purged>>

\* DELETE FROM nonces WHERE expires_at <= now.
Purge(t) ==
    /\ pc[t] = "purge"
    /\ expires' = [n \in Nonces |-> IF expires[n] <= now[t] THEN Absent ELSE expires[n]]
    /\ purged' = IF now[t] > purged THEN now[t] ELSE purged
    /\ pc' = [pc EXCEPT ![t] = "record"]
    /\ UNCHANGED <<clock, stamp, nonce, now, accepted>>

\* INSERT: the primary key refuses a nonce that is on record.
Record(t) ==
    LET n == nonce[t]
    IN  /\ pc[t] = "record"
        /\ IF expires[n] = Absent
              THEN /\ expires' = [expires EXCEPT ![n] = now[t] + Window]
                   /\ accepted' = [accepted EXCEPT ![n] =
                          Append(@, [reading |-> now[t], at |-> clock])]
              ELSE UNCHANGED <<expires, accepted>>
        /\ pc' = [pc EXCEPT ![t] = "idle"]
        /\ UNCHANGED <<clock, stamp, nonce, now, purged>>

\* The write lock is not had in time, or the process ends: the thread is gone
\* and the table stays as it is, on disk.
Die(t) ==
    /\ pc[t] # "idle"
    /\ pc' = [pc EXCEPT ![t] = "idle"]
    /\ UNCHANGED <<table, nonce, now, accepted, purged>>

Tick ==
    /\ clock < MaxTime
    /\ \A t \in Threads : pc[t] # "idle" => clock < now[t] + MaxStall
    /\ clock' = clock + 1
    /\ UNCHANGED <<stamp, expires, pc, nonce, now, accepted, purged>>

Timestamps == (-MaxSkew)..(MaxTime + MaxSkew)

Next ==
    \/ \E n \in Nonces : Sign(n)
    \/ \E t \in Threads : \/ \E n \in Nonces, ts \in Timestamps : Refuse(t, n, ts) \/ Verify(t, n, ts)
                          \/ Purge(t) \/ Record(t) \/ Die(t)
    \/ Tick

Spec == Init /\ [][Next]_vars

-----------------------------------------------------------------------------
(* Properties.                                                             *)

\* The same signed request is not accepted again until a window has passed
\* since the reading it was first accepted under (replay.py:50-66), however
\* the copies, the purges of other requests and dying threads interleave.
NoEarlyReplay ==
    \A n \in Nonces : \A j \in DOMAIN accepted[n] : \A i \in 1..(j - 1) :
        accepted[n][j].at >= accepted[n][i].reading + Window

\* A nonce is on record because a request that verified was accepted, within
\* the window of its timestamp: a copy whose signature fails cannot lock a
\* console's nonce out (signing.py:118-123).
RecordsAreGenuine ==
    \A n \in Nonces :
        /\ expires[n] # Absent => accepted[n] # <<>>
        /\ \A i \in DOMAIN accepted[n] :
              /\ stamp[n] # Unsigned
              /\ Distance(accepted[n][i].reading, stamp[n]) <= Window

\* After a purge the table holds one window of requests and no more
\* (replay.py:15-17), as long as no thread stalls for a whole window.
TableHoldsOneWindow ==
    MaxStall < Window =>
        \A n \in Nonces : expires[n] # Absent => expires[n] > purged

\* How many times one signed request can be accepted in all: its timestamp is
\* good for two windows (clock behind, then ahead), a record lasts one.
AcceptancesBounded ==
    MaxStall < Window =>
        \A n \in Nonces :
            Len(accepted[n]) <= 1 + (2 * Window) \div (Window - MaxStall)

\* replay.py:6-8, 11-12: "a (key, nonce) pair is remembered for as long as the
\* signing layer would still accept its timestamp, and forgotten after ...
\* inside that window its nonce is already on record."
RememberedWhileAcceptable ==
    \A n \in Nonces : accepted[n] # <<>> /\ Distance(clock, stamp[n]) <= Window
        => expires[n] # Absent
=============================================================================
