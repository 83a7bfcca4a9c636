---------------------------- MODULE ReplayProofs ----------------------------
(***************************************************************************)
(* Theorems about ReplayWindow, for any window, clock skew, stall and      *)
(* clock range, any number of nonces and threads.                          *)
(*                                                                         *)
(* NoEarlyReplay rests on Recorded: an acceptance without a row of its own *)
(* is a window old.  How often one request is accepted follows from it and *)
(* from the stall of a thread, by arithmetic.                              *)
(***************************************************************************)
EXTENDS ReplayWindow, FiniteSums, SequenceTheorems, TLAPS

\* A request being recorded was verified, under a reading that is not in the
\* future and no older than a stall.
Verified ==
    \A t \in Threads : pc[t] # "idle" =>
        /\ now[t] <= clock
        /\ clock <= now[t] + MaxStall
        /\ stamp[nonce[t]] # Unsigned
        /\ Distance(now[t], stamp[nonce[t]]) <= Window

\* History does not lie in the future.
Past ==
    /\ purged <= clock
    /\ \A n \in Nonces : \A i \in DOMAIN accepted[n] : accepted[n][i].at <= clock

\* The row is the latest acceptance's; every acceptance without a row of its
\* own is a window old.
Recorded ==
    \A n \in Nonces :
        /\ expires[n] # Absent =>
              /\ accepted[n] # <<>>
              /\ expires[n] = accepted[n][Len(accepted[n])].reading + Window
        /\ \A i \in DOMAIN accepted[n] :
              i < Len(accepted[n]) \/ expires[n] = Absent
                  => accepted[n][i].reading + Window <= clock

Inv == /\ TypeOK /\ Verified /\ Past /\ Recorded
       /\ NoEarlyReplay /\ RecordsAreGenuine /\ TableHoldsOneWindow

\* No request is on its way and none on record at the start.
LEMMA InitInv == Init => Inv
<1> SUFFICES ASSUME Init PROVE Inv
  OBVIOUS
<1>1. TypeOK
  <2>1. Unsigned \in Int
    BY WindowAssumption DEF Unsigned
  <2>2. (CHOOSE n \in Nonces : TRUE) \in Nonces
    BY WindowAssumption
  <2>3. nonce \in [Threads -> Nonces]
    BY <2>2 DEF Init
  <2>4. /\ clock = 0 /\ purged = -1
        /\ stamp = [n \in Nonces |-> Unsigned]
        /\ expires = [n \in Nonces |-> Absent]
        /\ pc = [t \in Threads |-> "idle"]
        /\ now = [t \in Threads |-> 0]
        /\ accepted = [n \in Nonces |-> <<>>]
    BY DEF Init
  <2> QED
    BY <2>1, <2>3, <2>4 DEF TypeOK, Absent
<1>2. Verified /\ Past /\ Recorded /\ NoEarlyReplay /\ RecordsAreGenuine /\ TableHoldsOneWindow
  BY DEF Init, Verified, Past, Recorded, NoEarlyReplay, RecordsAreGenuine,
         TableHoldsOneWindow, Absent
<1> QED
  BY <1>1, <1>2 DEF Inv

\* A signature changes nothing about what was accepted.
LEMMA SignStep ==
    ASSUME Inv, NEW n \in Nonces, Sign(n)
    PROVE  Inv'
<1>. USE WindowAssumption DEF Inv, Sign
<1>1. PICK ts \in (clock - MaxSkew)..(clock + MaxSkew) : stamp' = [stamp EXCEPT ![n] = ts]
  OBVIOUS
<1>2. TypeOK'
  BY <1>1 DEF TypeOK
<1>3. Verified'
  BY <1>1 DEF Verified, TypeOK
<1>4. Past' /\ Recorded' /\ NoEarlyReplay' /\ TableHoldsOneWindow'
  BY DEF Past, Recorded, NoEarlyReplay, TableHoldsOneWindow
<1>5. RecordsAreGenuine'
  BY <1>1 DEF RecordsAreGenuine, TypeOK
<1> QED
  BY <1>2, <1>3, <1>4, <1>5

\* A request that verifies has a good reading.
LEMMA VerifyStep ==
    ASSUME Inv, NEW t \in Threads, NEW n \in Nonces, NEW ts \in Timestamps, Verify(t, n, ts)
    PROVE  Inv'
<1>. USE WindowAssumption DEF Inv, Verify, table
<1>1. TypeOK'
  BY DEF TypeOK
<1>2. stamp[n] # Unsigned /\ Distance(clock, stamp[n]) <= Window
  BY DEF Timestamps, Unsigned
<1>3. Verified'
  <2>1. SUFFICES ASSUME NEW v \in Threads, pc'[v] # "idle"
                 PROVE  /\ now'[v] <= clock
                        /\ clock <= now'[v] + MaxStall
                        /\ stamp[nonce'[v]] # Unsigned
                        /\ Distance(now'[v], stamp[nonce'[v]]) <= Window
    BY DEF Verified, Unsigned, Distance
  <2>2. CASE v = t
    <3>1. now'[v] = clock /\ nonce'[v] = n /\ clock \in Nat
      BY <2>2 DEF TypeOK
    <3> QED
      BY <1>2, <3>1
  <2>3. CASE v # t
    <3>1. now'[v] = now[v] /\ nonce'[v] = nonce[v] /\ pc[v] # "idle"
      BY <2>1, <2>3 DEF TypeOK
    <3> QED
      BY <3>1 DEF Verified
  <2> QED
    BY <2>2, <2>3
<1>4. Past' /\ Recorded' /\ NoEarlyReplay' /\ RecordsAreGenuine' /\ TableHoldsOneWindow'
  BY DEF Past, Recorded, NoEarlyReplay, RecordsAreGenuine, TableHoldsOneWindow
<1> QED
  BY <1>1, <1>3, <1>4

\* A purge takes only rows that are a window old.
LEMMA PurgeStep ==
    ASSUME Inv, NEW t \in Threads, Purge(t)
    PROVE  Inv'
<1>. USE WindowAssumption DEF Inv, Purge
<1>1. TypeOK'
  BY DEF TypeOK
<1>2. now[t] <= clock /\ now[t] \in Nat /\ clock \in Nat
  BY DEF Verified, TypeOK
<1>3. Verified'
  BY DEF Verified, TypeOK
<1>4. Past'
  BY <1>2 DEF Past
<1>5. ASSUME NEW n \in Nonces
      PROVE  \/ expires'[n] = expires[n] /\ (expires[n] # Absent => expires[n] > now[t])
             \/ expires'[n] = Absent /\ expires[n] # Absent /\ expires[n] <= now[t]
  BY <1>2 DEF TypeOK, Absent
<1>6. Recorded'
  <2> SUFFICES ASSUME NEW n \in Nonces
               PROVE  /\ expires'[n] # Absent =>
                            /\ accepted[n] # <<>>
                            /\ expires'[n] = accepted[n][Len(accepted[n])].reading + Window
                      /\ \A i \in DOMAIN accepted[n] :
                            i < Len(accepted[n]) \/ expires'[n] = Absent
                                => accepted[n][i].reading + Window <= clock
    BY DEF Recorded, Absent
  <2>1. CASE expires'[n] = expires[n]
    BY <2>1 DEF Recorded
  <2>2. CASE expires'[n] = Absent /\ expires[n] # Absent /\ expires[n] <= now[t]
    <3>1. accepted[n][Len(accepted[n])].reading + Window <= clock
      <4>1. expires[n] = accepted[n][Len(accepted[n])].reading + Window
        BY <2>2 DEF Recorded
      <4>2. expires[n] \in Int
        BY DEF TypeOK, Absent
      <4> QED
        BY <1>2, <2>2, <4>1, <4>2
    <3>2. \A i \in DOMAIN accepted[n] : i = Len(accepted[n]) \/ i < Len(accepted[n])
      BY DEF TypeOK
    <3> QED
      BY <2>2, <3>1, <3>2 DEF Recorded
  <2> QED
    BY <1>5, <2>1, <2>2
<1>7. NoEarlyReplay' /\ RecordsAreGenuine'
  BY <1>5 DEF NoEarlyReplay, RecordsAreGenuine, Absent
<1>8. TableHoldsOneWindow'
  BY <1>5 DEF TableHoldsOneWindow, Absent
<1> QED
  BY <1>1, <1>3, <1>4, <1>6, <1>7, <1>8

\* A sequence with one row more.
LEMMA AppendFacts ==
    ASSUME NEW S, NEW s \in Seq(S), NEW e \in S, NEW r, r = Append(s, e)
    PROVE  /\ DOMAIN r = 1..(Len(s) + 1)
           /\ Len(r) = Len(s) + 1
           /\ r[Len(s) + 1] = e
           /\ \A i \in DOMAIN s : r[i] = s[i]
           /\ DOMAIN s = 1..Len(s)
           /\ Len(s) \in Nat
  OBVIOUS

\* Recording accepts a request only where its nonce has no row.
LEMMA RecordStep ==
    ASSUME Inv, NEW t \in Threads, Record(t)
    PROVE  Inv'
<1>. USE WindowAssumption DEF Inv
<1>. DEFINE n0 == nonce[t]
            row == [reading |-> now[t], at |-> clock]
<1>0. n0 \in Nonces /\ pc[t] = "record" /\ row \in [reading : Nat, at : Nat]
  BY DEF TypeOK, Record
<1>1. UNCHANGED <<clock, stamp, nonce, now, purged>> /\ pc' = [pc EXCEPT ![t] = "idle"]
  BY DEF Record
<1>2. CASE expires[n0] # Absent
  <2>1. UNCHANGED <<expires, accepted>>
    BY <1>2 DEF Record
  <2> QED
    BY <1>1, <2>1 DEF TypeOK, Verified, Past, Recorded, NoEarlyReplay, RecordsAreGenuine,
       TableHoldsOneWindow, Absent
<1>3. CASE expires[n0] = Absent
  <2>1. /\ expires' = [expires EXCEPT ![n0] = now[t] + Window]
        /\ accepted' = [accepted EXCEPT ![n0] = Append(@, row)]
    BY <1>3 DEF Record
  <2>2. TypeOK'
    BY <1>0, <1>1, <2>1 DEF TypeOK
  <2>3. Verified'
    BY <1>1 DEF Verified, TypeOK
  <2>4. /\ accepted'[n0] = Append(accepted[n0], row)
        /\ accepted[n0] \in Seq([reading : Nat, at : Nat])
        /\ expires'[n0] = now[t] + Window
        /\ expires'[n0] # Absent
    BY <1>0, <2>1 DEF TypeOK, Absent
  <2>5. /\ DOMAIN accepted'[n0] = 1..(Len(accepted[n0]) + 1)
        /\ Len(accepted'[n0]) = Len(accepted[n0]) + 1
        /\ accepted'[n0][Len(accepted[n0]) + 1] = row
        /\ \A i \in DOMAIN accepted[n0] : accepted'[n0][i] = accepted[n0][i]
        /\ DOMAIN accepted[n0] = 1..Len(accepted[n0])
        /\ Len(accepted[n0]) \in Nat
    <3> DEFINE S == [reading : Nat, at : Nat]
               s == accepted[n0]
               r == accepted'[n0]
    <3>1. s \in Seq(S) /\ row \in S /\ r = Append(s, row)
      BY <1>0, <2>4
    <3> HIDE DEF Inv, row, S, s, r
    <3>2. /\ DOMAIN r = 1..(Len(s) + 1) /\ Len(r) = Len(s) + 1 /\ r[Len(s) + 1] = row
          /\ \A i \in DOMAIN s : r[i] = s[i]
          /\ DOMAIN s = 1..Len(s) /\ Len(s) \in Nat
      BY <3>1, AppendFacts
    <3> QED
      BY <3>2 DEF s, r
  <2>6. \A n \in Nonces \ {n0} : accepted'[n] = accepted[n] /\ expires'[n] = expires[n]
    BY <1>0, <2>1 DEF TypeOK
  <2>7. now[t] <= clock /\ clock <= now[t] + MaxStall /\ now[t] \in Nat /\ clock \in Nat
        /\ stamp[n0] # Unsigned /\ Distance(now[t], stamp[n0]) <= Window
    BY <1>0 DEF Verified, TypeOK
  <2>8. \A i \in DOMAIN accepted[n0] :
            /\ accepted[n0][i].reading + Window <= clock
            /\ accepted[n0][i].at <= clock
    <3> SUFFICES ASSUME NEW i \in DOMAIN accepted[n0]
                 PROVE  /\ accepted[n0][i].reading + Window <= clock
                        /\ accepted[n0][i].at <= clock
      OBVIOUS
    <3>1. accepted[n0][i].reading + Window <= clock
      BY <1>0, <1>3 DEF Recorded
    <3>2. accepted[n0][i].at <= clock
      BY <1>0 DEF Past
    <3> QED
      BY <3>1, <3>2
  <2>9. Past'
    <3> SUFFICES ASSUME NEW n \in Nonces, NEW i \in DOMAIN accepted'[n]
                 PROVE  accepted'[n][i].at <= clock
      BY <1>1 DEF Past
    <3>1. CASE n = n0
      <4>1. i \in DOMAIN accepted[n0] \/ i = Len(accepted[n0]) + 1
        BY <2>5, <3>1
      <4>2. CASE i \in DOMAIN accepted[n0]
        BY <2>5, <2>8, <3>1, <4>2
      <4>3. CASE i = Len(accepted[n0]) + 1
        <5>1. accepted'[n][i].at = clock
          BY <2>5, <3>1, <4>3
        <5> QED
          BY <2>7, <5>1
      <4> QED
        BY <4>1, <4>2, <4>3
    <3>2. CASE n # n0
      BY <2>6, <3>2 DEF Past
    <3> QED
      BY <3>1, <3>2
  <2>10. Recorded'
    <3> SUFFICES ASSUME NEW n \in Nonces
                 PROVE  /\ expires'[n] # Absent =>
                              /\ accepted'[n] # <<>>
                              /\ expires'[n] = accepted'[n][Len(accepted'[n])].reading + Window
                        /\ \A i \in DOMAIN accepted'[n] :
                              i < Len(accepted'[n]) \/ expires'[n] = Absent
                                  => accepted'[n][i].reading + Window <= clock
      BY <1>1 DEF Recorded, Absent
    <3>1. CASE n = n0
      <4>1. accepted'[n] # <<>>
        BY <2>5, <3>1
      <4>2. expires'[n] = accepted'[n][Len(accepted'[n])].reading + Window
        BY <2>4, <2>5, <3>1
      <4>3. \A i \in DOMAIN accepted'[n] : i < Len(accepted'[n])
                => accepted'[n][i].reading + Window <= clock
        <5> SUFFICES ASSUME NEW i \in DOMAIN accepted'[n], i < Len(accepted'[n])
                     PROVE  accepted'[n][i].reading + Window <= clock
          OBVIOUS
        <5>1. i \in DOMAIN accepted[n0]
          BY <2>5, <3>1
        <5>2. accepted'[n][i] = accepted[n0][i]
          BY <2>5, <3>1, <5>1
        <5> QED
          BY <2>8, <5>1, <5>2
      <4> QED
        BY <2>4, <3>1, <4>1, <4>2, <4>3
    <3>2. CASE n # n0
      BY <2>6, <3>2 DEF Recorded
    <3> QED
      BY <3>1, <3>2
  <2>11. NoEarlyReplay'
    <3> SUFFICES ASSUME NEW n \in Nonces, NEW j \in DOMAIN accepted'[n], NEW i \in 1..(j - 1)
                 PROVE  accepted'[n][j].at >= accepted'[n][i].reading + Window
      BY DEF NoEarlyReplay
    <3>1. CASE n = n0
      <4>1. i \in DOMAIN accepted[n0]
        BY <2>5, <3>1
      <4>a. accepted'[n][i] = accepted[n0][i]
        BY <2>5, <3>1, <4>1
      <4>2. CASE j = Len(accepted[n0]) + 1
        <5>1. accepted'[n][j].at = clock
          BY <2>5, <3>1, <4>2
        <5> QED
          BY <2>8, <4>1, <4>a, <5>1
      <4>3. CASE j \in DOMAIN accepted[n0]
        <5>1. accepted'[n][j] = accepted[n0][j]
          BY <2>5, <3>1, <4>3
        <5> QED
          BY <1>0, <4>a, <4>3, <5>1 DEF NoEarlyReplay
      <4>b. j \in DOMAIN accepted[n0] \/ j = Len(accepted[n0]) + 1
        <5> HIDE DEF Inv
        <5> QED
          BY <2>5, <3>1
      <4> QED
        BY <4>b, <4>2, <4>3
    <3>2. CASE n # n0
      BY <2>6, <3>2 DEF NoEarlyReplay
    <3> QED
      BY <3>1, <3>2
  <2>12. RecordsAreGenuine'
    <3> SUFFICES ASSUME NEW n \in Nonces
                 PROVE  /\ expires'[n] # Absent => accepted'[n] # <<>>
                        /\ \A i \in DOMAIN accepted'[n] :
                              /\ stamp[n] # Unsigned
                              /\ Distance(accepted'[n][i].reading, stamp[n]) <= Window
      BY <1>1 DEF RecordsAreGenuine, Absent, Unsigned, Distance
    <3>1. CASE n = n0
      <4>1. accepted'[n] # <<>>
        BY <2>5, <3>1
      <4>2. \A i \in DOMAIN accepted'[n] : Distance(accepted'[n][i].reading, stamp[n]) <= Window
        <5> SUFFICES ASSUME NEW i \in DOMAIN accepted'[n]
                     PROVE  Distance(accepted'[n][i].reading, stamp[n]) <= Window
          OBVIOUS
        <5>1. i \in DOMAIN accepted[n0] \/ i = Len(accepted[n0]) + 1
          BY <2>5, <3>1
        <5>2. CASE i \in DOMAIN accepted[n0]
          <6>1. accepted'[n][i] = accepted[n0][i]
            BY <2>5, <3>1, <5>2
          <6> QED
            BY <1>0, <3>1, <5>2, <6>1 DEF RecordsAreGenuine
        <5>3. CASE i = Len(accepted[n0]) + 1
          <6>1. accepted'[n][i].reading = now[t]
            BY <2>5, <3>1, <5>3
          <6> QED
            BY <2>7, <3>1, <6>1
        <5> QED
          BY <5>1, <5>2, <5>3
      <4> QED
        BY <2>7, <3>1, <4>1, <4>2
    <3>2. CASE n # n0
      BY <2>6, <3>2 DEF RecordsAreGenuine
    <3> QED
      BY <3>1, <3>2
  <2>13. TableHoldsOneWindow'
    <3> SUFFICES ASSUME MaxStall < Window, NEW n \in Nonces, expires'[n] # Absent
                 PROVE  expires'[n] > purged
      BY <1>1 DEF TableHoldsOneWindow, Absent
    <3>1. CASE n = n0
      BY <2>4, <2>7, <3>1 DEF Past, TypeOK
    <3>2. CASE n # n0
      BY <2>6, <3>2 DEF TableHoldsOneWindow
    <3> QED
      BY <3>1, <3>2
  <2> QED
    BY <2>2, <2>3, <2>9, <2>10, <2>11, <2>12, <2>13
<1> QED
  BY <1>2, <1>3

\* Time passes for no request longer than a stall.
LEMMA TickStep ==
    ASSUME Inv, Tick
    PROVE  Inv'
<1>. USE WindowAssumption DEF Inv, Tick
<1>1. TypeOK'
  BY DEF TypeOK
<1>2. Verified'
  BY DEF Verified, TypeOK
<1>. DEFINE Later(x) == x <= clock => x <= clock + 1
<1>3. /\ \A x \in Int : Later(x)
      /\ \A n \in Nonces : \A i \in DOMAIN accepted[n] :
            accepted[n][i].reading + Window \in Int /\ accepted[n][i].at \in Int
  <2>1. \A x \in Int : Later(x)
    BY DEF TypeOK
  <2>2. ASSUME NEW n \in Nonces, NEW i \in DOMAIN accepted[n]
        PROVE  accepted[n][i].reading \in Nat /\ accepted[n][i].at \in Nat
    <3>1. accepted[n] \in Seq([reading : Nat, at : Nat])
      BY DEF TypeOK
    <3>2. i \in 1..Len(accepted[n])
      BY <3>1
    <3>3. accepted[n][i] \in [reading : Nat, at : Nat]
      BY <3>1, <3>2, ElementOfSeq
    <3> QED
      BY <3>3
  <2> QED
    BY <2>1, <2>2
<1>4. Past' /\ Recorded'
  <2>1. Past'
    BY <1>3 DEF Past, TypeOK
  <2>2. Recorded'
    <3>1. UNCHANGED <<expires, accepted>> /\ clock' = clock + 1
      OBVIOUS
    <3> SUFFICES ASSUME NEW n \in Nonces, NEW i \in DOMAIN accepted[n],
                        i < Len(accepted[n]) \/ expires[n] = Absent
                 PROVE  accepted[n][i].reading + Window <= clock + 1
      BY <3>1 DEF Recorded, Absent
    <3> QED
      BY <1>3 DEF Recorded
  <2> QED
    BY <2>1, <2>2
<1>5. NoEarlyReplay' /\ RecordsAreGenuine' /\ TableHoldsOneWindow'
  BY DEF NoEarlyReplay, RecordsAreGenuine, TableHoldsOneWindow, Absent
<1> QED
  BY <1>1, <1>2, <1>4, <1>5

\* A thread that is gone, and stuttering.
LEMMA QuietStep ==
    ASSUME Inv, UNCHANGED vars \/ \E t \in Threads : Die(t)
    PROVE  Inv'
<1>. USE DEF Inv
<1>1. UNCHANGED <<clock, stamp, expires, nonce, now, accepted, purged>>
  BY DEF vars, table, Die
<1>2. pc' \in [Threads -> {"idle", "purge", "record"}]
      /\ \A t \in Threads : pc'[t] # "idle" => pc[t] # "idle"
  BY DEF vars, Die, TypeOK
<1>3. TypeOK'
  BY <1>1, <1>2 DEF TypeOK
<1>4. Verified'
  BY <1>1, <1>2 DEF Verified
<1>5. Past' /\ Recorded'
  BY <1>1 DEF Past, Recorded
<1>6. NoEarlyReplay' /\ RecordsAreGenuine' /\ TableHoldsOneWindow'
  BY <1>1 DEF NoEarlyReplay, RecordsAreGenuine, TableHoldsOneWindow
<1> QED
  BY <1>3, <1>4, <1>5, <1>6

\* The invariant.
LEMMA InvInvariant == Spec => []Inv
<1>1. Inv /\ [Next]_vars => Inv'
  BY SignStep, VerifyStep, PurgeStep, RecordStep, TickStep, QuietStep DEF Next, Refuse
<1> QED
  BY <1>1, InitInv, PTL DEF Spec

\* The variables keep their types, for every window and clock.
THEOREM ReplayTypeCorrect == Spec => []TypeOK
BY InvInvariant, PTL DEF Inv

\* No signed request is accepted twice within a window, however its copies,
\* the purges and dying threads interleave, and however long threads stall.
THEOREM ReplaySafe == Spec => []NoEarlyReplay
BY InvInvariant, PTL DEF Inv

\* Only a request whose signature verified inside its window puts a nonce on
\* record.
THEOREM RecordsGenuine == Spec => []RecordsAreGenuine
BY InvInvariant, PTL DEF Inv

\* No row outlives its window past a purge, as long as a thread needs less
\* than a window to verify and record.
THEOREM TableBounded == Spec => []TableHoldsOneWindow
BY InvInvariant, PTL DEF Inv

-----------------------------------------------------------------------------
(* How often one request is accepted.  A request is recorded within a      *)
(* stall of its reading, so readings under which copies of it are accepted *)
(* are Window - MaxStall apart, and the timestamp leaves room for so many. *)

Prompt ==
    \A n \in Nonces : \A i \in DOMAIN accepted[n] :
        accepted[n][i].at <= accepted[n][i].reading + MaxStall

\* A request whose thread stalled is not recorded late.
LEMMA PromptStep == Inv /\ Inv' /\ Prompt /\ [Next]_vars => Prompt'
<1> SUFFICES ASSUME Inv, Inv', Prompt, [Next]_vars PROVE Prompt'
    OBVIOUS
<1>1. ASSUME UNCHANGED accepted PROVE Prompt'
      BY <1>1 DEF Prompt
<1>2. ASSUME NEW t \in Threads, Record(t) PROVE Prompt'
  <2> DEFINE m == nonce[t]
             row == [reading |-> now[t], at |-> clock]
  <2>1. m \in Nonces /\ row \in [reading : Nat, at : Nat]
        /\ accepted[m] \in Seq([reading : Nat, at : Nat])
        BY DEF Inv, TypeOK
  <2>2. clock <= now[t] + MaxStall
        BY <1>2 DEF Inv, Verified, Record
  <2>3. CASE accepted' = accepted
        BY <1>1, <2>3
  <2>4. CASE accepted' = [accepted EXCEPT ![m] = Append(@, row)]
    <3> DEFINE S == [reading : Nat, at : Nat]
               s == accepted[m]
               r == accepted'[m]
    <3>1. s \in Seq(S) /\ row \in S /\ r = Append(s, row)
          BY <2>1, <2>4 DEF Inv, TypeOK
    <3>2. row.reading = now[t] /\ row.at = clock
          OBVIOUS
    <3> HIDE DEF row, S, s, r
    <3>3. /\ DOMAIN r = 1..(Len(s) + 1) /\ r[Len(s) + 1] = row
          /\ \A i \in DOMAIN s : r[i] = s[i]
          /\ DOMAIN s = 1..Len(s) /\ Len(s) \in Nat
          BY <3>1, AppendFacts
    <3>4. ASSUME NEW i \in DOMAIN r PROVE r[i].at <= r[i].reading + MaxStall
      <4>1. CASE i \in DOMAIN s
        <5>1. s[i].at <= s[i].reading + MaxStall
              BY <2>1, <4>1 DEF Prompt, s
        <5> QED BY <3>3, <4>1, <5>1
      <4>2. CASE i = Len(s) + 1
            BY <2>2, <3>2, <3>3, <4>2
      <4> QED BY <3>3, <4>1, <4>2
    <3>5. \A n \in Nonces \ {m} : accepted'[n] = accepted[n]
          BY <2>4 DEF Inv, TypeOK
    <3> QED BY <3>4, <3>5 DEF Prompt, r
  <2> QED BY <1>2, <2>3, <2>4 DEF Record
<1>3. UNCHANGED accepted \/ \E t \in Threads : Record(t)
      BY DEF Next, Sign, Refuse, Verify, Purge, Die, Tick, vars, table
<1> QED BY <1>1, <1>2, <1>3

\* Numbers that each exceed the one before by g or more.
LEMMA StepsAddUp ==
    ASSUME NEW k \in Nat \ {0}, NEW f, NEW g \in Nat,
           \A i \in 1..k : f[i] \in Int,
           \A i \in 1..k : \A j \in 1..(i - 1) : f[i] >= f[j] + g
    PROVE  (k - 1) * g <= f[k] - f[1]
<1> DEFINE T == {i \in Nat : i \in 1..k /\ ~ ((i - 1) * g <= f[i] - f[1])}
<1>1. ASSUME T # {} PROVE FALSE
  <2>1. PICK i \in T : \A j \in T : i <= j
    <3>1. T \in SUBSET Nat
          OBVIOUS
    <3> HIDE DEF T
    <3> QED BY <1>1, <3>1, LeastNatural
  <2>2. i \in 1..k /\ ~ ((i - 1) * g <= f[i] - f[1])
        OBVIOUS
  <2>3. f[1] \in Int /\ f[i] \in Int
        BY <2>2
  <2>4. i # 1
    <3>1. CASE i = 1
      <4>1. (i - 1) * g = 0 /\ f[i] - f[1] = 0
            BY <2>3, <3>1
      <4> QED BY <2>2, <4>1
    <3> QED BY <3>1
  <2>5. i - 1 \in 1..k /\ ~ (i <= i - 1) /\ i - 1 \in 1..(i - 1) /\ i - 1 \in Nat
    <3> HIDE DEF T
    <3> QED BY <2>2, <2>4
  <2>6. ((i - 1) - 1) * g <= f[i - 1] - f[1]
    <3>1. i - 1 \notin T
      <4> HIDE DEF T
      <4> QED BY <2>1, <2>5
    <3> QED BY <2>5, <3>1
  <2>7. f[i] >= f[i - 1] + g /\ f[i - 1] \in Int
        BY <2>2, <2>5
  <2> DEFINE m == (i - 1) - 1
  <2>8. m \in Int /\ i - 1 = m + 1
        BY <2>2
  <2> HIDE DEF m
  <2>9. (m + 1) * g = m * g + g /\ m * g \in Int
        BY <2>8
  <2>10. m * g <= f[i - 1] - f[1]
        BY <2>6 DEF m
  <2>11. (i - 1) * g = m * g + g
        BY <2>8, <2>9
  <2>12. m * g + g <= f[i] - f[1]
        BY <2>3, <2>7, <2>9, <2>10
  <2> QED BY <2>2, <2>11, <2>12
<1>2. k \in 1..k /\ k \notin T
      BY <1>1
<1> QED BY <1>2

\* What a sequence of rows is, member by member.
LEMMA RowsOf ==
    ASSUME NEW S, NEW s \in Seq(S)
    PROVE  Len(s) \in Nat /\ DOMAIN s = 1..Len(s) /\ \A i \in 1..Len(s) : s[i] \in S
OBVIOUS

\* One signed request is accepted a bounded number of times in all, as its
\* timestamp stays good for two windows and each record for one, less the time
\* its thread took (replay.py:50-66, signing.py:118-123).
THEOREM AcceptedBoundedly == Spec => []AcceptancesBounded
<1>1. Init => Prompt
      BY DEF Init, Prompt
<1>2. Inv /\ Prompt => AcceptancesBounded
  <2> SUFFICES ASSUME Inv, Prompt, MaxStall < Window, NEW n \in Nonces
               PROVE  Len(accepted[n]) <= 1 + (2 * Window) \div (Window - MaxStall)
      BY DEF AcceptancesBounded
  <2> DEFINE k == Len(accepted[n])
             f == [i \in 1..k |-> accepted[n][i].reading]
             g == Window - MaxStall
             a == 2 * Window
  <2>1. /\ k \in Nat /\ DOMAIN accepted[n] = 1..k
        /\ \A i \in 1..k : accepted[n][i] \in [reading : Nat, at : Nat]
    <3> DEFINE S == [reading : Nat, at : Nat]
               s == accepted[n]
    <3>1. s \in Seq(S)
          BY DEF Inv, TypeOK
    <3> HIDE DEF S, s
    <3>2. Len(s) \in Nat /\ DOMAIN s = 1..Len(s) /\ \A i \in 1..Len(s) : s[i] \in S
          BY <3>1, RowsOf
    <3> QED BY <3>2 DEF S, s
  <2>2. g \in Nat \ {0} /\ a \in Nat
        BY WindowAssumption
  <2>3. \A i \in 1..k : f[i] \in Int
        BY <2>1
  <2>4. \A i \in 1..k : \A j \in 1..(i - 1) : f[i] >= f[j] + g
    <3> SUFFICES ASSUME NEW i \in 1..k, NEW j \in 1..(i - 1) PROVE f[i] >= f[j] + g
        OBVIOUS
    <3>1. j \in 1..k
          BY <2>1
    <3>2. accepted[n][i].at >= accepted[n][j].reading + Window
          BY <2>1 DEF Inv, NoEarlyReplay
    <3>3. accepted[n][i].at <= accepted[n][i].reading + MaxStall
          BY <2>1 DEF Prompt
    <3>4. PICK p \in Int, q \in Int, r \in Int :
             p = accepted[n][i].at /\ q = accepted[n][i].reading /\ r = accepted[n][j].reading
          BY <2>1, <3>1
    <3>5. f[i] = q /\ f[j] = r
          BY <3>1, <3>4
    <3> HIDE DEF f, k
    <3>6. p >= r + Window /\ p <= q + MaxStall
          BY <3>2, <3>3, <3>4
    <3>7. q >= r + (Window - MaxStall)
          BY <3>6, WindowAssumption
    <3> QED BY <3>5, <3>7
  <2>5. ASSUME k # 0 PROVE f[k] - f[1] <= a
    <3>1. k \in 1..k /\ 1 \in 1..k
          BY <2>1, <2>5
    <3>2. /\ Distance(accepted[n][k].reading, stamp[n]) <= Window
          /\ Distance(accepted[n][1].reading, stamp[n]) <= Window
          BY <2>1, <3>1 DEF Inv, RecordsAreGenuine
    <3>3. stamp[n] \in Int /\ accepted[n][k].reading \in Int /\ accepted[n][1].reading \in Int
      <4>1. stamp[n] \in Int
            BY DEF Inv, TypeOK
      <4>2. \A i \in 1..k : accepted[n][i].reading \in Int
            BY <2>1
      <4> QED BY <3>1, <4>1, <4>2
    <3>4. PICK b \in Int, e \in Int, c \in Int :
             b = stamp[n] /\ e = accepted[n][k].reading /\ c = accepted[n][1].reading
          BY <3>3
    <3>5. Distance(e, b) <= Window /\ Distance(c, b) <= Window
          BY <3>2, <3>4
    <3>6. e - c <= 2 * Window
          BY <3>5, WindowAssumption DEF Distance
    <3>7. f[k] = e /\ f[1] = c
          BY <3>1, <3>4
    <3> HIDE DEF f, k
    <3> QED BY <3>6, <3>7
  <2> HIDE DEF k, f, g, a
  <2>6. a \div g \in Nat /\ \A q \in Int : q * g <= a => q <= a \div g
        BY <2>2
  <2>7. CASE k = 0
        BY <2>6, <2>7 DEF k, g, a
  <2>8. CASE k # 0
    <3>1. (k - 1) * g <= f[k] - f[1]
          BY <2>1, <2>2, <2>3, <2>4, <2>8, StepsAddUp
    <3>2. f[k] \in Int /\ f[1] \in Int /\ k - 1 \in Int
          BY <2>1, <2>3, <2>8
    <3>3. (k - 1) * g \in Int
          BY <2>2, <3>2
    <3>4. (k - 1) * g <= a
          BY <2>2, <2>5, <2>8, <3>1, <3>2, <3>3
    <3>5. k - 1 <= a \div g
          BY <2>6, <3>2, <3>4
    <3> QED BY <2>1, <2>6, <3>5 DEF k, g, a
  <2> QED BY <2>7, <2>8
<1> QED BY InvInvariant, PromptStep, <1>1, <1>2, PTL DEF Spec
=============================================================================
