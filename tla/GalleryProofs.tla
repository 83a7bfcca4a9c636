--------------------------- MODULE GalleryProofs ---------------------------
(***************************************************************************)
(* Theorems about Gallery, for any number of models, keys, threads and     *)
(* shells, any threshold, any mix of requests and any interruptions.       *)
(***************************************************************************)
EXTENDS Gallery, TLAPS, FiniteSetTheorems

-----------------------------------------------------------------------------
(* What a worker is doing at each stage.                                   *)

OpStages ==
    [vote      |-> {"ban_check", "visible_check", "vote_write", "vote_recount"},
     favourite |-> {"ban_check", "visible_check", "favourite_write"},
     report    |-> {"ban_check", "visible_check", "report_insert", "report_count",
                    "report_hide"},
     upload    |-> {"upload_check", "upload_insert"},
     admin     |-> {"admin_load"} \cup OrderStages]

\* A busy worker serves a request of its stage's operation, from a key that
\* may ask for it; only a ban reaches the ban statements.
Serves(stage, r) ==
    /\ r \in Requests
    /\ stage \in OpStages[r.op]
    /\ r.key \in IF r.op = "admin" THEN Admins \cup {Cli} ELSE Keys
    /\ stage \in {"admin_ban", "admin_takedown"} => r.arg = "ban"

Serving == \A w \in Workers : pc[w] # "idle" => Serves(pc[w], req[w])

\* An admin action past its lookup is about a model that has a row.
Found == \A w \in Workers :
    pc[w] \in OrderStages \cup {"vote_write", "vote_recount", "favourite_write",
                                "report_insert", "report_count", "report_hide"}
        => visibility[req[w].model] # "absent"

Authored == \A m \in Models : visibility[m] # "absent" => author[m] \in Keys

Control == /\ pc \in [Workers -> Stages \cup {"idle"}]
           /\ req \in [Workers -> Requests \cup {NoRequest}]
           /\ Serving

TypeInv == TypeOK /\ Serving /\ Found /\ Authored

-----------------------------------------------------------------------------
LEMMA RequestFields ==
    ASSUME NEW r \in Requests
    PROVE  /\ r.op \in {"vote", "favourite", "report", "upload", "admin"}
           /\ r.key \in Keys \cup {Cli}
           /\ r.model \in Models
           /\ r.arg \in Args[r.op]
           /\ r.arg \in UNION {Args[o] : o \in DOMAIN Args}
<1>1. r \in AllRequests
  BY ConstantsAssumption
<1>2. PICK o \in DOMAIN Args :
         r \in [op : {o}, key : Keys \cup {Cli}, model : Models, arg : Args[o]]
  BY <1>1 DEF AllRequests
<1>3. o \in {"vote", "favourite", "report", "upload", "admin"}
  BY DEF Args
<1> QED
  BY <1>2, <1>3

LEMMA CountsAreNat ==
    ASSUME NEW v, NEW value
    PROVE  Cardinality(Voters(v, value)) \in Nat
<1>1. IsFiniteSet(Voters(v, value))
  BY FS_Subset, ConstantsAssumption DEF Voters
<1> QED
  BY <1>1, FS_CardinalityType

LEMMA RecountType ==
    ASSUME NEW v
    PROVE  Recount(v) \in [up : Nat, down : Nat]
BY CountsAreNat DEF Recount

LEMMA GotoControl ==
    ASSUME Control, NEW w \in Workers, NEW s \in Stages,
           Serves(s, req[w]), Goto(w, s)
    PROVE  Control'
BY DEF Control, Serving, Goto, Serves

LEMMA FinishControl ==
    ASSUME Control, NEW w \in Workers, Finish(w)
    PROVE  Control'
BY DEF Control, Serving, Finish, Serves

LEMMA BusyFields ==
    ASSUME Control, NEW w \in Workers, pc[w] # "idle"
    PROVE  /\ Serves(pc[w], req[w])
           /\ req[w] \in Requests
           /\ req[w].model \in Models
           /\ req[w].key \in Keys \cup {Cli}
           /\ req[w].arg \in Args[req[w].op]
BY RequestFields DEF Control, Serving, Serves

\* A statement of one worker: where it may go next.
LEMMA StepControl ==
    ASSUME Control, NEW w \in Workers, Step(w)
    PROVE  Control'
<1>. USE DEF At
<1>1. pc[w] # "idle"
  BY DEF Step, BanCheck, VisibleCheck, VoteWrite, VoteRecount, FavouriteWrite,
         ReportInsert, ReportCount, ReportHide, UploadCheck, UploadInsert, AdminLoad,
         AdminVisibility, AdminResolve, AdminBan, AdminTakeDown, AdminLog
<1>2. Serves(pc[w], req[w]) /\ req[w] \in Requests
  BY <1>1, BusyFields
<1>3. CASE Finish(w)
  BY <1>3, FinishControl
<1>4. CASE \E s \in Stages : Goto(w, s) /\ Serves(s, req[w])
  BY <1>4, GotoControl
<1>5. Finish(w) \/ \E s \in Stages : Goto(w, s) /\ Serves(s, req[w])
  <2>. DEFINE Next1(s) == s \in Stages /\ Goto(w, s) /\ Serves(s, req[w])
  <2>1. CASE BanCheck(w)
    <3>1. Finish(w) \/ Next1("visible_check")
      BY <2>1, <1>2, RequestFields DEF BanCheck, Serves, OpStages, Stages, OrderStages
    <3> QED BY <3>1
  <2>2. CASE VisibleCheck(w)
    <3>1. Finish(w) \/ Next1(WriteStage(req[w].op))
      BY <2>2, <1>2, RequestFields
         DEF VisibleCheck, Serves, OpStages, Stages, OrderStages, WriteStage
    <3> QED BY <3>1
  <2>3. CASE VoteWrite(w)
    <3>1. Next1("vote_recount")
      BY <2>3, <1>2, RequestFields DEF VoteWrite, Serves, OpStages, Stages, OrderStages
    <3> QED BY <3>1
  <2>4. CASE ReportInsert(w)
    <3>1. Next1("report_count")
      BY <2>4, <1>2, RequestFields DEF ReportInsert, Serves, OpStages, Stages, OrderStages
    <3> QED BY <3>1
  <2>5. CASE ReportCount(w)
    <3>1. Finish(w) \/ Next1("report_hide")
      BY <2>5, <1>2, RequestFields DEF ReportCount, Serves, OpStages, Stages, OrderStages
    <3> QED BY <3>1
  <2>6. CASE UploadCheck(w)
    <3>1. Finish(w) \/ Next1("upload_insert")
      BY <2>6, <1>2, RequestFields DEF UploadCheck, Serves, OpStages, Stages, OrderStages
    <3> QED BY <3>1
  <2>7. CASE AdminLoad(w)
    <3>1. Finish(w) \/ Next1("admin_visibility")
      BY <2>7, <1>2, RequestFields DEF AdminLoad, Serves, OpStages, Stages, OrderStages
    <3> QED BY <3>1
  <2>8. CASE AdminVisibility(w)
    <3>1. Next1("admin_log") \/ Next1("admin_resolve")
      BY <2>8, <1>2, RequestFields
         DEF AdminVisibility, Serves, OpStages, Stages, OrderStages
    <3> QED BY <3>1
  <2>9. CASE AdminResolve(w)
    <3>1. Next1("admin_log") \/ Next1("admin_ban")
      BY <2>9, <1>2, RequestFields DEF AdminResolve, Serves, OpStages, Stages, OrderStages
    <3> QED BY <3>1
  <2>10. CASE AdminBan(w)
    <3>1. Next1("admin_takedown")
      BY <2>10, <1>2, RequestFields DEF AdminBan, Serves, OpStages, Stages, OrderStages
    <3> QED BY <3>1
  <2>11. CASE AdminTakeDown(w)
    <3>1. Next1("admin_log")
      BY <2>11, <1>2, RequestFields DEF AdminTakeDown, Serves, OpStages, Stages, OrderStages
    <3> QED BY <3>1
  <2>12. CASE \/ VoteRecount(w) \/ FavouriteWrite(w) \/ ReportHide(w)
              \/ UploadInsert(w) \/ AdminLog(w)
    BY <2>12 DEF VoteRecount, FavouriteWrite, ReportHide, UploadInsert, AdminLog
  <2> QED
    BY <2>1, <2>2, <2>3, <2>4, <2>5, <2>6, <2>7, <2>8, <2>9, <2>10, <2>11, <2>12 DEF Step
<1> QED
  BY <1>3, <1>4, <1>5

LEMMA AcceptControl ==
    ASSUME Control, NEW w \in Workers, Accept(w)
    PROVE  Control'
<1>1. PICK r \in Requests :
        /\ w \in Threads => r.key \in IF r.op = "admin" THEN Admins ELSE Keys
        /\ w \in Shells => r.op = "admin" /\ r.key = Cli
        /\ req' = [req EXCEPT ![w] = r]
        /\ pc' = [pc EXCEPT ![w] = FirstStage(r.op)]
  BY DEF Accept
<1>2. Serves(FirstStage(r.op), r) /\ FirstStage(r.op) \in Stages
  BY <1>1, RequestFields DEF FirstStage, Serves, OpStages, OrderStages, Stages, Workers
<1> QED
  BY <1>1, <1>2 DEF Control, Serving, Serves

LEMMA CutShortControl ==
    ASSUME Control, NEW S \in SUBSET Workers, CutShort(S)
    PROVE  Control' /\ \A w \in Workers : (pc'[w] = pc[w] /\ req'[w] = req[w]) \/ pc'[w] = "idle"
BY DEF Control, Serving, Serves, CutShort

LEMMA OwedIsStage == OwedStages \subseteq Stages
BY DEF OwedStages, OrderStages, Stages

\* Work cut short is well formed.
LEMMA CutType ==
    ASSUME Control, cut \subseteq Cuts, [Next]_vars
    PROVE  cut' \subseteq Cuts
<1>1. ASSUME NEW w \in Workers, Step(w) PROVE cut' \subseteq cut
  BY <1>1 DEF Step, MadeGood, BanCheck, VisibleCheck, VoteWrite, VoteRecount,
     FavouriteWrite, ReportInsert, ReportCount, ReportHide, UploadCheck, UploadInsert,
     AdminLoad, AdminVisibility, AdminResolve, AdminBan, AdminTakeDown, AdminLog
<1>2. ASSUME NEW S \in SUBSET Workers, CutShort(S) PROVE cut' \subseteq Cuts
  <2>1. \A w \in Workers : pc[w] \in OwedStages => Work(w) \in Cuts
    <3> SUFFICES ASSUME NEW w \in Workers, pc[w] \in OwedStages PROVE Work(w) \in Cuts
      OBVIOUS
    <3>1. pc[w] # "idle"
      BY DEF OwedStages, OrderStages
    <3>2. req[w] \in Requests
      BY <3>1, BusyFields
    <3>3. req[w].model \in Models /\ req[w].arg \in UNION {Args[o] : o \in DOMAIN Args}
      BY <3>2, RequestFields
    <3> QED
      BY <3>3 DEF Work, Cuts
  <2> QED
    BY <1>2, <2>1 DEF CutShort
<1>3. CASE UNCHANGED cut
  BY <1>3
<1> QED
  BY <1>1, <1>2, <1>3 DEF Next, Fail, StopServer, Accept, Unban, vars, Workers

-----------------------------------------------------------------------------
(* Type correctness.                                                       *)

DataType ==
    /\ visibility \in [Models -> {"absent", "public", "unlisted", "deleted"}]
    /\ author \in [Models -> Keys \cup {NoAuthor}]
    /\ tally \in [Models -> [up : Nat, down : Nat]]
    /\ votes \in [Models -> [Keys -> {"none", "up", "down"}]]
    /\ favourites \in [Models -> SUBSET Keys]
    /\ reports \in [Models -> [Keys -> {"none", "open", "resolved"}]]
    /\ bans \subseteq Keys
    /\ adminLog \subseteq [model : Models, admin : Admins \cup {Cli},
                           action : Args["admin"]]
    /\ slipped \subseteq Models

\* Each statement keeps the tables well formed and the rows it found in place.
LEMMA StepData ==
    ASSUME Control, DataType, Found, Authored, NEW w \in Workers, Step(w)
    PROVE  DataType' /\ Authored'
           /\ \A m \in Models : visibility[m] # "absent" => visibility'[m] # "absent"
<1>. USE DEF At
<1>. DEFINE Q == DataType' /\ Authored'
           /\ \A m \in Models : visibility[m] # "absent" => visibility'[m] # "absent"
<1>. DEFINE m0 == req[w].model
<1>1. pc[w] # "idle"
  BY DEF Step, BanCheck, VisibleCheck, VoteWrite, VoteRecount, FavouriteWrite,
         ReportInsert, ReportCount, ReportHide, UploadCheck, UploadInsert, AdminLoad,
         AdminVisibility, AdminResolve, AdminBan, AdminTakeDown, AdminLog
<1>2. /\ Serves(pc[w], req[w])
      /\ req[w] \in Requests
      /\ m0 \in Models
      /\ req[w].arg \in Args[req[w].op]
  BY <1>1, BusyFields
<1>3. CASE BanCheck(w) \/ VisibleCheck(w) \/ ReportCount(w) \/ UploadCheck(w) \/ AdminLoad(w)
  BY <1>3 DEF BanCheck, VisibleCheck, ReportCount, UploadCheck, AdminLoad, db,
     DataType, Authored
<1>4. CASE VoteWrite(w)
  <2>1. req[w].op = "vote" /\ req[w].key \in Keys /\ req[w].arg \in {"none", "up", "down"}
    BY <1>2, <1>4, RequestFields DEF VoteWrite, Serves, OpStages, OrderStages, Args
  <2> QED
    BY <1>2, <1>4, <2>1 DEF VoteWrite, DataType, Authored
<1>5. CASE VoteRecount(w)
  BY <1>2, <1>5, RecountType DEF VoteRecount, DataType, Authored
<1>6. CASE FavouriteWrite(w)
  <2>1. req[w].key \in Keys
    BY <1>2, <1>6, RequestFields DEF FavouriteWrite, Serves, OpStages, OrderStages
  <2> QED
    BY <1>2, <1>6, <2>1 DEF FavouriteWrite, DataType, Authored
<1>7. CASE ReportInsert(w)
  <2>1. req[w].key \in Keys
    BY <1>2, <1>7, RequestFields DEF ReportInsert, Serves, OpStages, OrderStages
  <2> QED
    BY <1>2, <1>7, <2>1 DEF ReportInsert, DataType, Authored
<1>8. CASE ReportHide(w)
  BY <1>2, <1>8 DEF ReportHide, SetVisibility, DataType, Authored, Found
<1>9. CASE UploadInsert(w)
  <2>1. req[w].key \in Keys
    BY <1>2, <1>9, RequestFields DEF UploadInsert, Serves, OpStages, OrderStages
  <2>2. UNCHANGED <<tally, votes, favourites, reports, bans, adminLog>>
    BY <1>9 DEF UploadInsert
  <2>3. CASE visibility[m0] = "absent"
    <3>1. /\ visibility' = [visibility EXCEPT ![m0] = "public"]
          /\ author' = [author EXCEPT ![m0] = req[w].key]
          /\ slipped' \subseteq slipped \cup {m0}
      BY <1>9, <2>3 DEF UploadInsert
    <3> QED
      BY <1>2, <2>1, <2>2, <3>1 DEF DataType, Authored
  <2>4. CASE visibility[m0] # "absent"
    <3>1. UNCHANGED <<visibility, author, slipped>>
      BY <1>9, <2>4 DEF UploadInsert
    <3> QED
      BY <2>2, <3>1 DEF DataType, Authored
  <2> QED
    BY <2>3, <2>4
<1>10. CASE AdminVisibility(w)
  <2>1. ActionVisibility[req[w].arg] \in {"public", "unlisted", "deleted"}
    BY <1>2, <1>10, RequestFields
       DEF AdminVisibility, Serves, OpStages, OrderStages, Args, ActionVisibility
  <2>2. visibility[m0] # "absent"
    BY <1>10 DEF AdminVisibility, Found, OrderStages
  <2> QED
    BY <1>2, <1>10, <2>1, <2>2 DEF AdminVisibility, SetVisibility, DataType, Authored
<1>11. CASE AdminResolve(w)
  BY <1>2, <1>11 DEF AdminResolve, DataType, Authored
<1>12. CASE AdminBan(w)
  <2>1. author[m0] \in Keys
    BY <1>2, <1>12 DEF AdminBan, Found, OrderStages, Authored
  <2> QED
    BY <1>2, <1>12, <2>1 DEF AdminBan, DataType, Authored
<1>13. CASE AdminTakeDown(w)
  <2>1. author[m0] \in Keys
    BY <1>2, <1>13 DEF AdminTakeDown, Found, OrderStages, Authored
  <2> QED
    BY <1>2, <1>13, <2>1, ConstantsAssumption DEF AdminTakeDown, DataType, Authored
<1>14. CASE AdminLog(w)
  <2>1. req[w].op = "admin"
    BY <1>2, <1>14, RequestFields DEF AdminLog, Serves, OpStages, OrderStages
  <2>2. req[w].key \in Admins \cup {Cli} /\ req[w].arg \in Args["admin"]
    BY <1>2, <2>1 DEF Serves
  <2> QED
    BY <1>2, <1>14, <2>2 DEF AdminLog, DataType, Authored
<1> QED
  BY <1>3, <1>4, <1>5, <1>6, <1>7, <1>8, <1>9, <1>10, <1>11, <1>12, <1>13, <1>14 DEF Step

LEMMA StepFound ==
    ASSUME Control, Control', Found, NEW w \in Workers, Step(w),
           \A m \in Models : visibility[m] # "absent" => visibility'[m] # "absent"
    PROVE  Found'
<1>. USE DEF At
<1>. DEFINE Past == OrderStages \cup {"vote_write", "vote_recount", "favourite_write",
                                      "report_insert", "report_count", "report_hide"}
<1>1. pc[w] # "idle" /\ req[w].model \in Models
  BY BusyFields DEF Step, BanCheck, VisibleCheck, VoteWrite, VoteRecount, FavouriteWrite,
     ReportInsert, ReportCount, ReportHide, UploadCheck, UploadInsert, AdminLoad,
     AdminVisibility, AdminResolve, AdminBan, AdminTakeDown, AdminLog
<1>2. ASSUME NEW v \in Workers, v # w PROVE pc'[v] = pc[v] /\ req'[v] = req[v]
  BY <1>2 DEF Control, Step, BanCheck, VisibleCheck, VoteWrite, VoteRecount, FavouriteWrite,
     ReportInsert, ReportCount, ReportHide, UploadCheck, UploadInsert, AdminLoad,
     AdminVisibility, AdminResolve, AdminBan, AdminTakeDown, AdminLog, Goto, Finish
<1>3. pc'[w] \in Past => req'[w] = req[w] /\ visibility[req[w].model] # "absent"
  <2>1. CASE BanCheck(w) \/ UploadCheck(w) \/ UploadInsert(w)
    BY <2>1 DEF BanCheck, UploadCheck, UploadInsert, Goto, Finish, Control, OrderStages
  <2>2. CASE VisibleCheck(w)
    BY <2>2 DEF VisibleCheck, Goto, Finish, Control, OrderStages, Visible
  <2>3. CASE AdminLoad(w)
    BY <2>3 DEF AdminLoad, Goto, Finish, Control, OrderStages
  <2>4. CASE pc[w] \in Past
    <3>1. visibility[req[w].model] # "absent"
      BY <2>4 DEF Found
    <3>2. pc'[w] = "idle" \/ req'[w] = req[w]
      BY DEF Control, Step, BanCheck, VisibleCheck, VoteWrite, VoteRecount, FavouriteWrite,
        ReportInsert, ReportCount, ReportHide, UploadCheck, UploadInsert, AdminLoad,
        AdminVisibility, AdminResolve, AdminBan, AdminTakeDown, AdminLog, Goto, Finish
    <3> QED
      BY <3>1, <3>2 DEF OrderStages
  <2> QED
    BY <2>1, <2>2, <2>3, <2>4 DEF Step, VoteWrite, VoteRecount, FavouriteWrite,
      ReportInsert, ReportCount, ReportHide, AdminVisibility, AdminResolve, AdminBan,
      AdminTakeDown, AdminLog, OrderStages
<1>4. SUFFICES ASSUME NEW v \in Workers, pc'[v] \in Past
               PROVE  visibility'[req'[v].model] # "absent"
  BY DEF Found
<1>5. CASE v = w
  BY <1>1, <1>3, <1>4, <1>5
<1>6. CASE v # w
  <2>1. pc[v] \in Past /\ req'[v] = req[v] /\ pc[v] # "idle"
    BY <1>2, <1>4, <1>6 DEF OrderStages
  <2>2. req[v].model \in Models /\ visibility[req[v].model] # "absent"
    BY <2>1, BusyFields DEF Found
  <2> QED
    BY <2>1, <2>2
<1> QED
  BY <1>5, <1>6

\* Every variable keeps its type, and every worker serves a request of its
\* stage's operation, about a model that has a row where the code relies on it.
LEMMA TypeInvariant == Spec => []TypeInv
<1>1. Init => TypeInv
  BY DEF Init, TypeInv, TypeOK, Serving, Found, Authored, OrderStages
<1>2. TypeInv /\ [Next]_vars => TypeInv'
  <2> SUFFICES ASSUME TypeInv, [Next]_vars PROVE TypeInv'
    OBVIOUS
  <2>1. Control /\ DataType /\ Found /\ Authored /\ cut \subseteq Cuts
    BY DEF TypeInv, TypeOK, Control, DataType
  <2>2. cut' \subseteq Cuts
    BY <2>1, CutType
  <2>3. ASSUME Control', DataType', Found', Authored' PROVE TypeInv'
    BY <2>2, <2>3 DEF TypeInv, TypeOK, Control, DataType
  <2>4. ASSUME NEW w \in Workers, Accept(w) PROVE TypeInv'
    <3>1. Control'
      BY <2>1, <2>4, AcceptControl
    <3>2. DataType' /\ Authored' /\ UNCHANGED visibility
      BY <2>1, <2>4 DEF Accept, db, DataType, Authored
    <3>3. Found'
      <4>1. ASSUME NEW v \in Workers
            PROVE  (pc'[v] = pc[v] /\ req'[v] = req[v])
                   \/ pc'[v] \in {"upload_check", "admin_load", "ban_check"}
        BY <2>1, <2>4 DEF Accept, Control, FirstStage
      <4> QED
        BY <2>1, <3>2, <4>1 DEF Found, OrderStages
    <3> QED
      BY <2>3, <3>1, <3>2, <3>3
  <2>5. ASSUME NEW w \in Workers, Step(w) PROVE TypeInv'
    BY <2>1, <2>3, <2>5, StepControl, StepData, StepFound
  <2>6. ASSUME NEW w \in Workers, Unban(w) PROVE TypeInv'
    BY <2>1, <2>3, <2>6
       DEF Unban, Control, Serving, DataType, Found, Authored
  <2>7. ASSUME NEW S \in SUBSET Workers, CutShort(S) PROVE TypeInv'
    <3>1. Control' /\ \A w \in Workers :
                         (pc'[w] = pc[w] /\ req'[w] = req[w]) \/ pc'[w] = "idle"
      BY <2>1, <2>7, CutShortControl
    <3>2. DataType' /\ Authored' /\ UNCHANGED visibility
      BY <2>1, <2>7 DEF CutShort, db, DataType, Authored
    <3>3. Found'
      BY <2>1, <3>1, <3>2 DEF Found, OrderStages
    <3> QED
      BY <2>3, <3>1, <3>2, <3>3
  <2>8. CASE UNCHANGED vars
    BY <2>1, <2>3, <2>8 DEF vars, db, Control, Serving, DataType, Found, Authored
  <2> QED
    BY <2>4, <2>5, <2>6, <2>7, <2>8 DEF Next, Fail, StopServer, Workers
<1> QED
  BY <1>1, <1>2, PTL DEF Spec

\* The tables keep to the schema's domains whatever the workers do: in
\* particular a counter is never negative and a ban never names "no author".
THEOREM TypeCorrect == Spec => []TypeOK
<1>1. TypeInv => TypeOK
  BY DEF TypeInv
<1> QED
  BY <1>1, TypeInvariant, PTL

-----------------------------------------------------------------------------
(* What is owed stays owed until somebody does it.                         *)

\* A step of w leaves the other workers where they were, and leaves w's own
\* request in place unless it is over.
LEMMA StepOthers ==
    ASSUME Control, NEW w \in Workers, Step(w)
    PROVE  /\ \A v \in Workers \ {w} : pc'[v] = pc[v] /\ req'[v] = req[v]
           /\ pc'[w] = "idle" \/ req'[w] = req[w]
           /\ cut' = cut \ {Work(w)}
           /\ pc[w] # "idle"
BY DEF Control, Step, At, MadeGood, BanCheck, VisibleCheck, VoteWrite, VoteRecount,
   FavouriteWrite, ReportInsert, ReportCount, ReportHide, UploadCheck, UploadInsert,
   AdminLoad, AdminVisibility, AdminResolve, AdminBan, AdminTakeDown, AdminLog, Goto, Finish

\* Every statement moves its worker on, so a step is one worker's.
LEMMA StepMoves ==
    ASSUME Control, NEW w \in Workers, Step(w)
    PROVE  pc'[w] # pc[w]
<1>. USE DEF At, Control, Goto, Finish
<1>1. CASE VisibleCheck(w)
  <2>1. req[w].op \in {"vote", "favourite", "report"}
    BY <1>1, BusyFields, RequestFields DEF VisibleCheck, Serves, OpStages, OrderStages
  <2> QED
    BY <1>1, <2>1 DEF VisibleCheck, WriteStage
<1> QED
  BY <1>1 DEF Step, BanCheck, VoteWrite, VoteRecount,
   FavouriteWrite, ReportInsert, ReportCount, ReportHide, UploadCheck, UploadInsert,
   AdminLoad, AdminVisibility, AdminResolve, AdminBan, AdminTakeDown, AdminLog

LEMMA StepAlone ==
    ASSUME Control, NEW w \in Workers, Step(w)
    PROVE  \A v \in Workers \ {w} : ~Step(v)
BY StepOthers, StepMoves

LEMMA OwedPersists ==
    ASSUME TypeInv, [Next]_vars, NEW m \in Models, NEW S \in SUBSET OwedStages,
           OwedTo(m, S),
           \A w \in Workers : ~(Step(w) /\ pc[w] \in S /\ req[w].model = m)
    PROVE  OwedTo(m, S)'
<1>1. Control
  BY DEF TypeInv, TypeOK, Control
<1>2. "idle" \notin S
  BY DEF OwedStages, OrderStages
<1>3. ASSUME NEW w \in Workers, Step(w) PROVE OwedTo(m, S)'
  <2>1. CASE \E v \in Workers : pc[v] \in S /\ req[v].model = m
    BY <1>1, <1>3, <2>1, StepOthers DEF OwedTo
  <2>2. CASE \E c \in cut : c.at \in S /\ c.model = m
    <3>1. PICK c \in cut : c.at \in S /\ c.model = m
      BY <2>2
    <3>2. c # Work(w)
      BY <1>3, <3>1 DEF Work
    <3>3. c \in cut'
      BY <1>1, <1>3, <3>1, <3>2, StepOthers
    <3> QED
      BY <3>1, <3>3 DEF OwedTo
  <2> QED
    BY <2>1, <2>2 DEF OwedTo
<1>4. ASSUME NEW T \in SUBSET Workers, CutShort(T) PROVE OwedTo(m, S)'
  <2>1. CASE \E v \in Workers : pc[v] \in S /\ req[v].model = m
    <3>1. PICK v \in Workers : pc[v] \in S /\ req[v].model = m
      BY <2>1
    <3>2. CASE v \in T
      <4>1. Work(v) \in cut'
        BY <1>2, <1>4, <3>1, <3>2 DEF CutShort
      <4> QED
        BY <3>1, <4>1 DEF Work, OwedTo
    <3>3. CASE v \notin T
      BY <1>4, <3>1, <3>3 DEF CutShort, OwedTo
    <3> QED
      BY <3>2, <3>3
  <2>2. CASE \E c \in cut : c.at \in S /\ c.model = m
    BY <1>4, <2>2 DEF CutShort, OwedTo
  <2> QED
    BY <2>1, <2>2 DEF OwedTo
<1>5. ASSUME NEW w \in Workers, Accept(w) PROVE OwedTo(m, S)'
  BY <1>1, <1>2, <1>5 DEF Accept, At, OwedTo, Control
<1>6. ASSUME NEW w \in Workers, Unban(w) PROVE OwedTo(m, S)'
  BY <1>6 DEF Unban, OwedTo
<1>7. CASE UNCHANGED vars
  BY <1>7 DEF vars, OwedTo
<1> QED
  BY <1>3, <1>4, <1>5, <1>6, <1>7 DEF Next, Fail, StopServer, Workers

\* Only a statement of some worker changes a table, except that a shell may
\* lift a ban.
LEMMA OnlyStepsWrite ==
    ASSUME [Next]_vars, \A w \in Workers : ~Step(w)
    PROVE  /\ UNCHANGED <<visibility, author, tally, votes, favourites, reports,
                          adminLog, slipped>>
           /\ bans' \subseteq bans
BY DEF Next, Accept, Unban, Fail, StopServer, CutShort, vars, db

-----------------------------------------------------------------------------
(* The counters.                                                           *)

LEMMA TallyStep ==
    ASSUME TypeInv, TallyExactOrOwed, [Next]_vars
    PROVE  TallyExactOrOwed'
<1>. USE DEF At
<1> SUFFICES ASSUME NEW m \in Models
             PROVE  tally'[m] = Recount(votes'[m]) \/ OwedTo(m, {"vote_recount"})'
  BY DEF TallyExactOrOwed, Recount, Voters
<1>1. Control /\ DataType
  BY DEF TypeInv, TypeOK, Control, DataType
<1>2. ASSUME tally'[m] = tally[m], votes'[m] = votes[m],
             \A w \in Workers : ~(Step(w) /\ pc[w] = "vote_recount" /\ req[w].model = m)
      PROVE  tally'[m] = Recount(votes'[m]) \/ OwedTo(m, {"vote_recount"})'
  <2>1. OwedTo(m, {"vote_recount"}) => OwedTo(m, {"vote_recount"})'
    BY <1>2, OwedPersists DEF OwedStages
  <2> QED
    BY <1>2, <2>1 DEF TallyExactOrOwed
<1>3. ASSUME NEW w \in Workers, Step(w)
      PROVE  tally'[m] = Recount(votes'[m]) \/ OwedTo(m, {"vote_recount"})'
  <2>1. req[w].model \in Models /\ Serves(pc[w], req[w])
    BY <1>1, <1>3, StepOthers, BusyFields
  <2>2. \A v \in Workers \ {w} : ~Step(v)
    BY <1>1, <1>3, StepAlone
  <2>3. CASE VoteWrite(w)
    <3>1. CASE req[w].model = m
      <4>1. pc'[w] = "vote_recount" /\ req'[w].model = m
        BY <1>1, <2>3, <3>1 DEF VoteWrite, Goto, Control
      <4> QED
        BY <4>1 DEF OwedTo
    <3>2. CASE req[w].model # m
      BY <1>1, <1>2, <2>1, <2>2, <2>3, <3>2 DEF VoteWrite, DataType
    <3> QED
      BY <3>1, <3>2
  <2>4. CASE VoteRecount(w)
    <3>1. CASE req[w].model = m
      BY <1>1, <2>4, <3>1 DEF VoteRecount, DataType
    <3>2. CASE req[w].model # m
      BY <1>1, <1>2, <2>1, <2>2, <2>4, <3>2 DEF VoteRecount, DataType
    <3> QED
      BY <3>1, <3>2
  <2>5. CASE ~VoteWrite(w) /\ ~VoteRecount(w)
    <3>1. UNCHANGED <<tally, votes>> /\ pc[w] # "vote_recount"
      BY <1>3, <2>5 DEF Step, BanCheck, VisibleCheck,
       FavouriteWrite, ReportInsert, ReportCount, ReportHide, UploadCheck, UploadInsert,
       AdminLoad, AdminVisibility, AdminResolve, AdminBan, AdminTakeDown, AdminLog, db
    <3> QED
      BY <1>2, <2>2, <3>1
  <2> QED
    BY <2>3, <2>4, <2>5
<1>4. CASE \A w \in Workers : ~Step(w)
  BY <1>2, <1>4, OnlyStepsWrite
<1> QED
  BY <1>3, <1>4

\* For every mix of votes, interleaved statement by statement, and every
\* interruption: the counters are the votes' counts, or a recount is owed.
THEOREM TallyCorrect == Spec => []TallyExactOrOwed
<1>1. Init => TallyExactOrOwed
  <2> SUFFICES ASSUME Init, NEW m \in Models PROVE tally[m] = Recount(votes[m])
    BY DEF TallyExactOrOwed
  <2>1. Voters(votes[m], "up") = {} /\ Voters(votes[m], "down") = {}
    BY DEF Init, Voters
  <2> QED
    BY <2>1, FS_EmptySet DEF Init, Recount
<1> QED
  BY <1>1, TallyStep, TypeInvariant, PTL DEF Spec

-----------------------------------------------------------------------------
(* Nothing refers to a model without a row.                                *)

LEMMA ReferencesStep ==
    ASSUME TypeInv, ReferencesHold, [Next]_vars
    PROVE  ReferencesHold'
<1>. USE DEF At
<1> SUFFICES ASSUME NEW m \in Models, visibility'[m] = "absent"
             PROVE  /\ author'[m] = NoAuthor
                    /\ votes'[m] = [k \in Keys |-> "none"]
                    /\ favourites'[m] = {}
                    /\ OpenReports(m)' = {}
  BY DEF ReferencesHold
<1>1. Control /\ DataType /\ Found /\ Authored
  BY DEF TypeInv, TypeOK, Control, DataType
<1>2. ASSUME visibility[m] = "absent", author'[m] = author[m], votes'[m] = votes[m],
             favourites'[m] = favourites[m], reports'[m] = reports[m]
      PROVE  /\ author'[m] = NoAuthor
             /\ votes'[m] = [k \in Keys |-> "none"]
             /\ favourites'[m] = {}
             /\ OpenReports(m)' = {}
  BY <1>2 DEF ReferencesHold, OpenReports
<1>3. ASSUME NEW w \in Workers, Step(w)
      PROVE  /\ visibility[m] = "absent" /\ author'[m] = author[m] /\ votes'[m] = votes[m]
             /\ favourites'[m] = favourites[m] /\ reports'[m] = reports[m]
  <2>1. req[w].model \in Models
    BY <1>1, <1>3, StepOthers, BusyFields
  <2>2. visibility[m] = "absent"
    BY <1>1, <1>3, StepData
  <2>3. CASE VoteWrite(w) \/ FavouriteWrite(w) \/ ReportInsert(w) \/ AdminResolve(w)
    <3>1. req[w].model # m
      BY <1>1, <2>2, <2>3 DEF VoteWrite, FavouriteWrite, ReportInsert, AdminResolve,
         Found, OrderStages
    <3> QED
      BY <1>1, <2>1, <2>2, <2>3, <3>1 DEF VoteWrite, FavouriteWrite, ReportInsert,
         AdminResolve, DataType
  <2>4. CASE UploadInsert(w)
    <3>1. CASE req[w].model = m
      BY <1>1, <2>2, <2>4, <3>1 DEF UploadInsert, DataType
    <3>2. CASE req[w].model # m
      <4>1. author'[m] = author[m]
        BY <1>1, <2>1, <2>4, <3>2 DEF UploadInsert, DataType
      <4> QED
        BY <2>2, <2>4, <4>1 DEF UploadInsert
    <3> QED
      BY <3>1, <3>2
  <2>5. CASE ~(VoteWrite(w) \/ FavouriteWrite(w) \/ ReportInsert(w) \/ AdminResolve(w)
               \/ UploadInsert(w))
    BY <1>3, <2>2, <2>5 DEF Step, BanCheck, VisibleCheck, VoteRecount, ReportCount,
       ReportHide, UploadCheck, AdminLoad, AdminVisibility, AdminBan, AdminTakeDown,
       AdminLog, db
  <2> QED
    BY <2>3, <2>4, <2>5
<1>4. CASE \A w \in Workers : ~Step(w)
  BY <1>2, <1>4, OnlyStepsWrite
<1> QED
  BY <1>2, <1>3, <1>4

\* No interleaving leaves a vote, a heart or an open report on a model that
\* has no row, though the handlers look the row up in a statement of its own.
THEOREM ReferencesCorrect == Spec => []ReferencesHold
<1>1. Init => ReferencesHold
  BY DEF Init, ReferencesHold, OpenReports
<1> QED
  BY <1>1, ReferencesStep, TypeInvariant, PTL DEF Spec

-----------------------------------------------------------------------------
(* Autohide.                                                               *)

Full(m) == visibility[m] = "public" /\ Cardinality(OpenReports(m)) >= Threshold

HideStages == {"report_count", "report_hide", "admin_resolve"}

LEMMA AutohideStep ==
    ASSUME TypeInv, ReferencesHold, AutohideNeverMissed, [Next]_vars
    PROVE  AutohideNeverMissed'
<1>. USE DEF At
<1> SUFFICES ASSUME NEW m \in Models, Full(m)'
             PROVE  OwedTo(m, HideStages)'
  BY DEF AutohideNeverMissed, Full, HideStages
<1>1. Control /\ DataType /\ Found
  BY DEF TypeInv, TypeOK, Control, DataType
<1>2. Cardinality({}) = 0 /\ Threshold \in Nat \ {0}
  BY FS_EmptySet, ConstantsAssumption
<1>3. HideStages \subseteq OwedStages
  BY DEF HideStages, OwedStages, OrderStages
<1>4. ASSUME visibility[m] = "public", reports'[m] = reports[m],
             \A w \in Workers : ~(Step(w) /\ pc[w] \in HideStages /\ req[w].model = m)
      PROVE  OwedTo(m, HideStages)'
  <2>1. Full(m)
    BY <1>4 DEF Full, OpenReports
  <2>2. OwedTo(m, HideStages)
    BY <2>1 DEF AutohideNeverMissed, Full, HideStages
  <2> QED
    BY <1>3, <1>4, <2>2, OwedPersists
<1>5. ASSUME NEW w \in Workers, Step(w) PROVE OwedTo(m, HideStages)'
  <2>1. req[w].model \in Models /\ Serves(pc[w], req[w])
    BY <1>1, <1>5, StepOthers, BusyFields
  <2>2. \A v \in Workers \ {w} : ~Step(v)
    BY <1>1, <1>5, StepAlone
  <2>3. CASE ReportInsert(w) /\ req[w].model = m
    <3>1. pc'[w] = "report_count" /\ req'[w].model = m
      BY <1>1, <2>3 DEF ReportInsert, Goto, Control
    <3> QED
      BY <3>1 DEF OwedTo, HideStages
  <2>4. CASE ReportCount(w) /\ req[w].model = m
    <3>1. Cardinality(OpenReports(m)) >= Threshold
      BY <2>4 DEF Full, OpenReports, ReportCount, db
    <3>2. pc'[w] = "report_hide" /\ req'[w].model = m
      BY <1>1, <2>4, <3>1 DEF ReportCount, Goto, Control
    <3> QED
      BY <3>2 DEF OwedTo, HideStages
  <2>5. ~(ReportHide(w) /\ req[w].model = m)
    BY <1>1 DEF ReportHide, SetVisibility, DataType, Full
  <2>6. ~(AdminResolve(w) /\ req[w].model = m)
    <3> SUFFICES ASSUME AdminResolve(w), req[w].model = m PROVE FALSE
      OBVIOUS
    <3>1. reports'[m] = [k \in Keys |-> IF reports[m][k] = "open" THEN "resolved"
                                                                 ELSE reports[m][k]]
      BY <1>1 DEF AdminResolve, DataType
    <3>2. OpenReports(m)' = {}
      BY <3>1 DEF OpenReports
    <3> QED
      BY <1>2, <3>2 DEF Full
  <2>7. CASE AdminVisibility(w) /\ req[w].model = m
    <3>1. visibility[m] # "deleted"
      BY <2>7 DEF AdminVisibility, SetVisibility, Full
    <3>2. ActionVisibility[req[w].arg] = "public"
      BY <1>1, <2>7, <3>1 DEF AdminVisibility, SetVisibility, DataType, Full
    <3>3. req[w].arg # "unlist"
      BY <3>2 DEF ActionVisibility
    <3>4. pc'[w] = "admin_resolve" /\ req'[w].model = m
      BY <1>1, <2>7, <3>3 DEF AdminVisibility, Goto, Control
    <3> QED
      BY <3>4 DEF OwedTo, HideStages
  <2>8. ~(UploadInsert(w) /\ req[w].model = m /\ visibility[m] = "absent")
    <3> SUFFICES ASSUME UploadInsert(w), visibility[m] = "absent" PROVE FALSE
      OBVIOUS
    <3>1. OpenReports(m)' = {}
      BY DEF UploadInsert, ReferencesHold, OpenReports
    <3> QED
      BY <1>2, <3>1 DEF Full
  <2>9. CASE /\ ~(ReportInsert(w) /\ req[w].model = m)
             /\ ~(ReportCount(w) /\ req[w].model = m)
             /\ ~(AdminVisibility(w) /\ req[w].model = m)
    <3>1. ~(pc[w] \in HideStages /\ req[w].model = m)
      BY SMTT(30), <1>5, <2>5, <2>6, <2>9 DEF HideStages, Step, BanCheck, VisibleCheck, VoteWrite,
         VoteRecount, FavouriteWrite, ReportInsert, UploadCheck, UploadInsert, AdminLoad,
         AdminVisibility, AdminBan, AdminTakeDown, AdminLog
    <3>2. reports'[m] = reports[m]
      BY <1>1, <1>5, <2>1, <2>6, <2>9 DEF DataType, Step, BanCheck, VisibleCheck, VoteWrite,
         VoteRecount, FavouriteWrite, ReportInsert, ReportCount, ReportHide, UploadCheck,
         UploadInsert, AdminLoad, AdminVisibility, AdminResolve, AdminBan, AdminTakeDown,
         AdminLog, db
    <3>3. visibility[m] = "public"
      <4>1. visibility'[m] = "public"
        BY DEF Full
      <4>2. CASE UploadInsert(w)
        BY <1>1, <2>1, <2>8, <4>1, <4>2 DEF UploadInsert, DataType
      <4>3. CASE AdminTakeDown(w)
        BY <1>1, <4>1, <4>3 DEF AdminTakeDown, DataType
      <4>4. CASE ReportHide(w) \/ AdminVisibility(w)
        BY <1>1, <2>1, <2>5, <2>9, <4>1, <4>4 DEF ReportHide, AdminVisibility, SetVisibility,
           DataType
      <4>5. CASE UNCHANGED visibility
        BY <4>1, <4>5
      <4> QED
        BY <1>5, <4>2, <4>3, <4>4, <4>5 DEF Step, BanCheck, VisibleCheck, VoteWrite,
         VoteRecount, FavouriteWrite, ReportInsert, ReportCount, UploadCheck,
         AdminLoad, AdminResolve, AdminBan, AdminLog, db
    <3> QED
      BY <1>4, <2>2, <3>1, <3>2, <3>3
  <2> QED
    BY <2>3, <2>4, <2>7, <2>9
<1>6. CASE \A w \in Workers : ~Step(w)
  BY <1>4, <1>6, OnlyStepsWrite DEF Full
<1> QED
  BY <1>5, <1>6

\* Reports that arrive together cannot each see one too few, for any number
\* of reporters, any threshold and any moderator working at the same time.
THEOREM AutohideCorrect == Spec => []AutohideNeverMissed
<1>1. Init => AutohideNeverMissed
  BY DEF Init, AutohideNeverMissed
<1> QED
  BY <1>1, AutohideStep, TypeInvariant, ReferencesCorrect, PTL DEF Spec

-----------------------------------------------------------------------------
(* Bans.                                                                   *)

TakeDownOwed(k) == \E n \in Models : author[n] = k /\ OwedTo(n, {"admin_takedown"})

LEMMA BanStep ==
    ASSUME TypeInv, ReferencesHold, BanLeavesOnlySlipped, [Next]_vars
    PROVE  BanLeavesOnlySlipped'
<1>. USE DEF At
<1> SUFFICES ASSUME NEW m \in Models \ slipped', author'[m] \in bans', Visible(m)'
             PROVE  TakeDownOwed(author[m])'
  BY DEF BanLeavesOnlySlipped, TakeDownOwed
<1>1. Control /\ DataType /\ Found /\ Authored
  BY DEF TypeInv, TypeOK, Control, DataType
<1>2. ASSUME author'[m] = author[m], author[m] \in bans, Visible(m), m \notin slipped,
             \A n \in Models : author[n] = author[m] => author'[n] = author[n],
             \A w \in Workers :
                ~(Step(w) /\ pc[w] = "admin_takedown" /\ author[req[w].model] = author[m])
      PROVE  TakeDownOwed(author[m])'
  <2>1. PICK n \in Models : author[n] = author[m] /\ OwedTo(n, {"admin_takedown"})
    BY <1>2 DEF BanLeavesOnlySlipped
  <2>2. OwedTo(n, {"admin_takedown"})'
    BY <1>2, <2>1, OwedPersists DEF OwedStages, OrderStages
  <2> QED
    BY <1>2, <2>1, <2>2 DEF TakeDownOwed
<1>3. ASSUME NEW w \in Workers, Step(w) PROVE TakeDownOwed(author[m])'
  <2>1. req[w].model \in Models /\ Serves(pc[w], req[w])
    BY <1>1, <1>3, StepOthers, BusyFields
  <2>2. \A v \in Workers \ {w} : ~Step(v)
    BY <1>1, <1>3, StepAlone
  <2>3. CASE AdminBan(w)
    <3>1. CASE author[m] = author[req[w].model]
      <4>1. pc'[w] = "admin_takedown" /\ req'[w].model = req[w].model /\ author' = author
        BY <1>1, <2>3 DEF AdminBan, Goto, Control
      <4> QED
        BY <2>1, <3>1, <4>1 DEF TakeDownOwed, OwedTo
    <3>2. CASE author[m] # author[req[w].model]
      BY <1>2, <2>2, <2>3, <3>2 DEF AdminBan, Visible
    <3> QED
      BY <3>1, <3>2
  <2>4. CASE AdminTakeDown(w)
    <3>1. author[m] # author[req[w].model]
      BY <2>4 DEF AdminTakeDown, Visible
    <3> QED
      BY <1>2, <2>1, <2>2, <2>4, <3>1 DEF AdminTakeDown, Visible
  <2>5. CASE UploadInsert(w)
    <3>1. CASE visibility[req[w].model] = "absent"
      <4>1. /\ author' = [author EXCEPT ![req[w].model] = req[w].key]
            /\ visibility' = [visibility EXCEPT ![req[w].model] = "public"]
            /\ slipped' = IF req[w].key \in bans THEN slipped \cup {req[w].model}
                                                 ELSE slipped
            /\ bans' = bans
        BY <2>5, <3>1 DEF UploadInsert
      <4>2. m # req[w].model
        BY <1>1, <2>1, <4>1 DEF DataType
      <4>3. author'[m] = author[m] /\ visibility'[m] = visibility[m]
        BY <1>1, <2>1, <4>1, <4>2 DEF DataType
      <4>4. author[req[w].model] = NoAuthor /\ author[m] # NoAuthor
        BY <1>1, <2>1, <3>1, <4>1, <4>3, ConstantsAssumption DEF DataType, ReferencesHold
      <4> QED
        BY <1>1, <1>2, <2>1, <2>2, <2>5, <4>1, <4>3, <4>4 DEF DataType, Visible
    <3>2. CASE visibility[req[w].model] # "absent"
      BY <1>2, <2>2, <2>5, <3>2 DEF UploadInsert, Visible
    <3> QED
      BY <3>1, <3>2
  <2>6. CASE ReportHide(w) \/ AdminVisibility(w)
    <3>1. UNCHANGED <<author, bans, slipped>> /\ pc[w] # "admin_takedown"
      BY <2>6 DEF ReportHide, AdminVisibility
    <3>2. visibility[req[w].model] # "absent"
      BY <1>1, <2>6 DEF ReportHide, AdminVisibility, Found, OrderStages
    <3>3. Visible(m)
      BY <1>1, <2>1, <2>6, <3>2 DEF ReportHide, AdminVisibility, SetVisibility, Visible, DataType
    <3> QED
      BY <1>2, <2>2, <3>1, <3>3
  <2>7. CASE ~(AdminBan(w) \/ AdminTakeDown(w) \/ UploadInsert(w) \/ ReportHide(w)
               \/ AdminVisibility(w))
    <3>1. UNCHANGED <<visibility, author, bans, slipped>> /\ pc[w] # "admin_takedown"
      BY <1>3, <2>7 DEF Step, BanCheck, VisibleCheck, VoteWrite, VoteRecount, FavouriteWrite,
         ReportInsert, ReportCount, UploadCheck, AdminLoad, AdminResolve, AdminLog, db
    <3> QED
      BY <1>2, <2>2, <3>1 DEF Visible
  <2> QED
    BY <2>3, <2>4, <2>5, <2>6, <2>7
<1>4. CASE \A w \in Workers : ~Step(w)
  BY <1>2, <1>4, OnlyStepsWrite DEF Visible
<1> QED
  BY <1>3, <1>4

\* Whatever bans, unbans, uploads and approvals run at once, a banned key
\* keeps nothing visible except uploads that raced the ban itself.
THEOREM BanCorrect == Spec => []BanLeavesOnlySlipped
<1>1. Init => BanLeavesOnlySlipped
  BY DEF Init, BanLeavesOnlySlipped
<1> QED
  BY <1>1, BanStep, TypeInvariant, ReferencesCorrect, PTL DEF Spec

-----------------------------------------------------------------------------
(* Gallery implements Lifecycle.                                           *)

\* Orders are never withdrawn, and only looking the model up gives a new one.
LEMMA OrdersStep ==
    ASSUME TypeInv, [Next]_vars, \A w \in Workers : ~AdminLoad(w)
    PROVE  Orders' = Orders
<1>. USE DEF At
<1>1. Control
  BY DEF TypeInv, TypeOK, Control
<1>. DEFINE Logged == {<<e.action, e.model>> : e \in adminLog}
            Doing  == {<<req[w].arg, req[w].model>> : w \in {v \in Workers : pc[v] \in OrderStages}}
            Left   == {<<c.arg, c.model>> : c \in {d \in cut : d.at \in OrderStages}}
<1>2. Orders = Logged \cup Doing \cup Left /\ Orders' = Logged' \cup Doing' \cup Left'
  BY DEF Orders
<1>3. ASSUME NEW w \in Workers, Step(w), pc[w] \notin OrderStages
      PROVE  Logged' = Logged /\ Doing' = Doing /\ Left' = Left
  <2>0. VisibleCheck(w) => req[w].op \in {"vote", "favourite", "report"}
    BY <1>1, BusyFields, RequestFields DEF VisibleCheck, Serves, OpStages, OrderStages
  <2>1. adminLog' = adminLog
    BY <1>3 DEF OrderStages, Step, BanCheck, VisibleCheck, VoteWrite, VoteRecount, FavouriteWrite,
         ReportInsert, ReportCount, ReportHide, UploadCheck, UploadInsert, AdminLoad,
         AdminVisibility, AdminResolve, AdminBan, AdminTakeDown, AdminLog, db
  <2>2. pc'[w] \notin OrderStages
    BY <1>1, <1>3, <2>0 DEF Control, Goto, Finish, WriteStage, OrderStages, Step,
         BanCheck, VisibleCheck, VoteWrite, VoteRecount, FavouriteWrite,
         ReportInsert, ReportCount, ReportHide, UploadCheck, UploadInsert,
         AdminVisibility, AdminResolve, AdminBan, AdminTakeDown, AdminLog, Serves, OpStages
  <2>3. {v \in Workers : pc'[v] \in OrderStages} = {v \in Workers : pc[v] \in OrderStages}
    BY <1>1, <1>3, <2>2, StepOthers
  <2>4. {d \in cut' : d.at \in OrderStages} = {d \in cut : d.at \in OrderStages}
    BY <1>1, <1>3, StepOthers DEF Work
  <2>5. Doing' = Doing
    BY <1>1, <1>3, <2>3, StepOthers
  <2> QED
    BY <2>1, <2>4, <2>5
<1>4. ASSUME NEW w \in Workers, Step(w), pc[w] \in OrderStages, ~AdminLoad(w)
      PROVE  Orders' = Orders
  <2>. DEFINE p == <<req[w].arg, req[w].model>>
  <2>1. p \in Doing
    BY <1>4
  <2>2. Left' \subseteq Left /\ Left \subseteq Left' \cup {p}
    BY <1>1, <1>4, StepOthers DEF Work
  <2>3. CASE AdminLog(w)
    <3>1. Logged' = Logged \cup {p}
      <4>. DEFINE row == [model |-> req[w].model, admin |-> req[w].key,
                          action |-> req[w].arg]
      <4>1. adminLog' = adminLog \cup {row}
        BY <2>3 DEF AdminLog
      <4>2. <<row.action, row.model>> = p
        OBVIOUS
      <4>. HIDE DEF row, p
      <4> QED
        BY <4>1, <4>2
    <3>2. pc'[w] = "idle"
      BY <1>1, <2>3 DEF AdminLog, Finish, Control
    <3>3. \A v \in Workers : pc'[v] \in OrderStages =>
              pc[v] \in OrderStages /\ req'[v] = req[v]
      BY <1>1, <1>4, <3>2, StepOthers DEF OrderStages
    <3>4. Doing' \subseteq Doing
      BY <3>3
    <3>5. Doing \subseteq Doing' \cup {p}
      BY <1>1, <1>4, StepOthers
    <3> QED
      BY <1>2, <2>1, <2>2, <3>1, <3>4, <3>5
  <2>4. CASE ~AdminLog(w)
    <3>1. adminLog' = adminLog /\ pc'[w] \in OrderStages /\ req' = req
      BY <1>1, <1>4, <2>4 DEF Step, BanCheck, VisibleCheck, VoteWrite, VoteRecount,
         FavouriteWrite, ReportInsert, ReportCount, ReportHide, UploadCheck, UploadInsert,
         AdminVisibility, AdminResolve, AdminBan, AdminTakeDown, Goto, OrderStages, Control
    <3>2. {v \in Workers : pc'[v] \in OrderStages} = {v \in Workers : pc[v] \in OrderStages}
      BY <1>1, <1>4, <3>1, StepOthers
    <3>3. Logged' = Logged /\ Doing' = Doing
      BY <3>1, <3>2
    <3> QED
      BY <1>2, <2>1, <2>2, <3>3
  <2> QED
    BY <2>3, <2>4
<1>5. ASSUME NEW S \in SUBSET Workers, CutShort(S) PROVE Orders' = Orders
  <2>1. Logged' = Logged
    BY <1>5 DEF CutShort, db
  <2>2. Doing' \subseteq Doing /\ Left \subseteq Left'
    BY <1>5 DEF CutShort, OrderStages
  <2>3. Left' \subseteq Left \cup Doing
    BY <1>5 DEF CutShort, Work
  <2>4. Doing \subseteq Doing' \cup Left'
    <3> SUFFICES ASSUME NEW w \in Workers, pc[w] \in OrderStages
                 PROVE  <<req[w].arg, req[w].model>> \in Doing' \cup Left'
      OBVIOUS
    <3>1. CASE w \in S
      <4>1. Work(w) \in cut'
        BY <1>5, <3>1 DEF CutShort, OwedStages, OrderStages
      <4>2. Work(w).at \in OrderStages
        BY DEF Work
      <4>3. <<Work(w).arg, Work(w).model>> \in Left'
        BY <4>1, <4>2
      <4> QED
        BY <4>3 DEF Work
    <3>2. CASE w \notin S
      <4>1. pc'[w] = pc[w] /\ req'[w] = req[w]
        BY <1>5, <3>2 DEF CutShort
      <4> QED
        BY <4>1
    <3> QED
      BY <3>1, <3>2
  <2> QED
    BY <1>2, <2>1, <2>2, <2>3, <2>4
<1>6. ASSUME NEW w \in Workers, Accept(w) PROVE Orders' = Orders
  <2>1. \A v \in Workers : IF v = w THEN pc[v] \notin OrderStages /\ pc'[v] \notin OrderStages
                                    ELSE pc'[v] = pc[v] /\ req'[v] = req[v]
    BY <1>1, <1>6 DEF Accept, FirstStage, OrderStages, Control
  <2>2. {v \in Workers : pc'[v] \in OrderStages} = {v \in Workers : pc[v] \in OrderStages}
    BY <2>1
  <2>3. Doing' = Doing
    BY <2>1, <2>2
  <2>4. UNCHANGED <<adminLog, cut>>
    BY <1>6 DEF Accept, db
  <2> QED
    BY <1>2, <2>3, <2>4
<1>7. ASSUME NEW w \in Workers, Unban(w) PROVE Orders' = Orders
  BY <1>7 DEF Unban, Orders
<1>8. CASE UNCHANGED vars
  BY <1>8 DEF vars, db, Orders
<1>9. ASSUME NEW w \in Workers, Step(w) PROVE Orders' = Orders
  <2>1. CASE pc[w] \notin OrderStages
    BY <1>2, <1>3, <1>9, <2>1
  <2>2. CASE pc[w] \in OrderStages
    <3>1. ~AdminLoad(w)
      OBVIOUS
    <3> QED
      BY <1>4, <1>9, <2>2, <3>1
  <2> QED
    BY <2>1, <2>2
<1> QED
  BY <1>5, <1>6, <1>7, <1>8, <1>9 DEF Next, Fail, StopServer, Workers

LEMMA LifecycleStep ==
    ASSUME TypeInv, [Next]_vars
    PROVE  [L!Next]_(L!vars)
<1>. USE DEF At
<1>1. Control /\ DataType /\ Found /\ Authored
  BY DEF TypeInv, TypeOK, Control, DataType
<1>2. CASE \E w \in Workers : AdminLoad(w)
  <2>. PICK w \in Workers : AdminLoad(w)
    BY <1>2
  <2>. DEFINE p == <<req[w].arg, req[w].model>>
  <2>1. Step(w) /\ UNCHANGED <<visibility, author, adminLog>> /\ pc[w] = "admin_load"
    BY DEF Step, AdminLoad, db
  <2>2. req[w].model \in Models /\ req[w].op = "admin" /\ req[w].arg \in L!AdminActions
    BY <1>1, <2>1, BusyFields, RequestFields
       DEF Serves, OpStages, OrderStages, Args, L!AdminActions
  <2>3. cut' = cut
    <3>1. Work(w) \notin cut
      BY <2>1 DEF TypeInv, TypeOK, Cuts, Work, OwedStages, OrderStages
    <3> QED
      BY <1>1, <2>1, <3>1, StepOthers
  <2>4. CASE visibility[req[w].model] = "absent"
    <3>1. pc'[w] = "idle"
      BY <1>1, <2>4 DEF AdminLoad, Finish, Control
    <3>2. {v \in Workers : pc'[v] \in OrderStages} = {v \in Workers : pc[v] \in OrderStages}
      BY <1>1, <2>1, <3>1, StepOthers DEF OrderStages
    <3>3. \A v \in Workers : pc[v] \in OrderStages => req'[v] = req[v]
      BY <1>1, <2>1, StepOthers DEF OrderStages
    <3>4. {<<req'[v].arg, req'[v].model>> : v \in {u \in Workers : pc'[u] \in OrderStages}}
            = {<<req[v].arg, req[v].model>> : v \in {u \in Workers : pc[u] \in OrderStages}}
      BY <3>2, <3>3
    <3>5. Orders' = Orders
      BY <2>1, <2>3, <3>4 DEF Orders
    <3> QED
      BY <2>1, <3>5 DEF L!vars
  <2>5. CASE visibility[req[w].model] # "absent"
    <3>1. pc'[w] = "admin_visibility" /\ req' = req
      BY <1>1, <2>5 DEF AdminLoad, Goto, Control
    <3>2. {v \in Workers : pc'[v] \in OrderStages}
            = {v \in Workers : pc[v] \in OrderStages} \cup {w}
      BY <1>1, <2>1, <3>1, StepOthers DEF OrderStages
    <3>3. {<<req'[v].arg, req'[v].model>> : v \in {u \in Workers : pc'[u] \in OrderStages}}
            = {<<req[v].arg, req[v].model>> : v \in {u \in Workers : pc[u] \in OrderStages}}
              \cup {p}
      BY <3>1, <3>2
    <3>4. Orders' = Orders \cup {p}
      BY <2>1, <2>3, <3>3 DEF Orders
    <3>5. L!Order(req[w].arg, req[w].model)
      BY <2>1, <2>5, <3>4 DEF L!Order
    <3> QED
      BY <2>2, <3>5 DEF L!Next
  <2> QED
    BY <2>4, <2>5
<1>3. CASE \A w \in Workers : ~AdminLoad(w)
  <2>1. Orders' = Orders
    BY <1>3, OrdersStep
  <2>2. ASSUME NEW w \in Workers, Step(w) PROVE [L!Next]_(L!vars)
    <3>1. req[w].model \in Models /\ Serves(pc[w], req[w])
      BY <1>1, <2>2, StepOthers, BusyFields
    <3>2. pc[w] \in OrderStages =>
            /\ <<req[w].arg, req[w].model>> \in Orders
            /\ req[w].arg \in L!AdminActions
      BY <3>1, RequestFields DEF Orders, Serves, OpStages, OrderStages, Args, L!AdminActions
    <3>3. CASE UploadInsert(w)
      <4>1. CASE visibility[req[w].model] = "absent"
        <5>1. req[w].key \in Keys
          BY <3>1, <3>3, RequestFields DEF UploadInsert, Serves, OpStages, OrderStages
        <5>2. L!Publish(req[w].model, req[w].key)
          BY <2>1, <3>3, <4>1 DEF UploadInsert, L!Publish
        <5> QED
          BY <3>1, <5>1, <5>2 DEF L!Next
      <4>2. CASE visibility[req[w].model] # "absent"
        BY <2>1, <3>3, <4>2 DEF UploadInsert, L!vars
      <4> QED
        BY <4>1, <4>2
    <3>4. CASE ReportHide(w)
      <4>1. visibility[req[w].model] # "absent"
        BY <1>1, <3>4 DEF ReportHide, Found
      <4>2. CASE visibility[req[w].model] = "public"
        <5>1. L!Autohide(req[w].model)
          BY <2>1, <3>4, <4>2 DEF ReportHide, SetVisibility, L!Autohide
        <5> QED
          BY <3>1, <5>1 DEF L!Next
      <4>3. CASE visibility[req[w].model] # "public"
        <5>1. visibility' = visibility
          BY <1>1, <3>1, <3>4, <4>1, <4>3 DEF ReportHide, SetVisibility, DataType
        <5> QED
          BY <2>1, <3>4, <5>1 DEF ReportHide, L!vars
      <4> QED
        BY <4>2, <4>3
    <3>5. CASE AdminVisibility(w)
      <4>1. visibility[req[w].model] # "absent"
        BY <1>1, <3>5 DEF AdminVisibility, Found, OrderStages
      <4>2. CASE visibility[req[w].model] = "deleted"
        BY <2>1, <3>5, <4>2 DEF AdminVisibility, SetVisibility, L!vars
      <4>3. CASE visibility[req[w].model] # "deleted"
        <5>1. L!CarryOut(req[w].arg, req[w].model)
          BY <1>1, <2>1, <3>1, <3>2, <3>5, <4>1, <4>3 DEF AdminVisibility, SetVisibility,
             L!CarryOut, OrderStages, DataType, ActionVisibility, L!ActionVisibility
        <5> QED
          BY <3>1, <3>2, <3>5, <5>1 DEF L!Next, AdminVisibility, OrderStages
      <4> QED
        BY <4>2, <4>3
    <3>6. CASE AdminTakeDown(w)
      <4>1. <<"ban", req[w].model>> \in Orders
        BY <3>1, <3>2, <3>6 DEF AdminTakeDown, Serves, OrderStages
      <4>2. visibility' = [n \in Models |-> IF author[n] = author[req[w].model]
                                            THEN "deleted" ELSE visibility[n]]
        BY <3>6 DEF AdminTakeDown
      <4>3. L!TakeDown(req[w].model)
        BY <2>1, <3>6, <4>1, <4>2 DEF AdminTakeDown, L!TakeDown
      <4> QED
        BY <3>1, <4>3 DEF L!Next
    <3>7. CASE UNCHANGED <<visibility, author>>
      BY <2>1, <3>7 DEF L!vars
    <3> QED
      BY <2>2, <3>3, <3>4, <3>5, <3>6, <3>7 DEF Step, BanCheck, VisibleCheck, VoteWrite,
         VoteRecount, FavouriteWrite, ReportInsert, ReportCount, UploadCheck, AdminLoad,
         AdminResolve, AdminBan, AdminLog, db
  <2>3. CASE \A w \in Workers : ~Step(w)
    BY <2>1, <2>3, OnlyStepsWrite DEF L!vars
  <2> QED
    BY <2>2, <2>3
<1> QED
  BY <1>2, <1>3

\* The handlers, statement by statement, implement the promises of moderation.
THEOREM LifecycleImplemented == Spec => ImplementsLifecycle
<1>1. Init => L!Init
  BY DEF Init, L!Init, Orders, OrderStages
<1>2. TypeInv /\ [Next]_vars => [L!Next]_(L!vars)
  BY LifecycleStep
<1> QED
  BY <1>1, <1>2, TypeInvariant, PTL DEF Spec, ImplementsLifecycle, L!Spec
=============================================================================
