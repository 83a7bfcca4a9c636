------------------------------ MODULE Gallery ------------------------------
(***************************************************************************)
(* The gallery's database and every handler that writes to it, one action  *)
(* per SQL statement.                                                      *)
(*                                                                         *)
(* db.connect opens every connection with isolation_level=None, which puts *)
(* the sqlite3 module in autocommit mode.  `with conn:` then opens no      *)
(* transaction: it only commits or rolls back one that is already open,    *)
(* and none ever is.  So each execute() of a handler commits by itself,    *)
(* another thread or the tessera-reports process may run between any two   *)
(* of them, and an exception or the end of the process leaves the earlier  *)
(* ones in place.  That is the grain of this module.                       *)
(*                                                                         *)
(* A worker is either a Thread of the server (ThreadingMixIn: one per      *)
(* connection, so a Thread here is a slot that serves one request after    *)
(* another) or a Shell, somebody running tools/tessera-reports on the box. *)
(* pc[w] names the statement w runs next; req[w] is what it is serving.    *)
(*                                                                         *)
(* Two variables are history only, read by the properties and never by an  *)
(* action: `cut`, the statements still owed by a worker that stopped, and  *)
(* `slipped`, the models inserted for an author who was banned by then.    *)
(***************************************************************************)
EXTENDS Naturals, FiniteSets

CONSTANTS Models,      \* the distinct model bytes; models.model_hash is UNIQUE,
                       \* rows are never removed, so a row is its bytes
          Keys,        \* console public keys
          Admins,      \* cfg.admin_keys
          NoAuthor,    \* author of a model that has no row
          Cli,         \* CLI_ADMIN_KEY, what a Shell writes in admin_log
          Threads, Shells,
          Threshold,   \* cfg.report_autohide_threshold
          Requests,    \* the requests this instance sends
          MaxCuts,     \* bound: interruptions outstanding at any time
          NoRequest    \* req[w] of an idle worker

\* What a verified request carries.  For an upload `model` is the uploaded
\* bytes, elsewhere the row model_id names; `arg` is the vote's value, `on`,
\* or the admin action.  A malformed body is refused before any statement.
Args == [vote |-> {"none", "up", "down"}, favourite |-> {"on", "off"},
         report |-> {"reason"}, upload |-> {"bytes"},
         admin |-> {"approve", "unlist", "delete", "ban"}]

AllRequests ==
    UNION {[op : {o}, key : Keys \cup {Cli}, model : Models, arg : Args[o]] :
              o \in DOMAIN Args}

ASSUME ConstantsAssumption ==
    /\ IsFiniteSet(Keys)
    /\ Admins \subseteq Keys
    /\ Cli \notin Keys
    /\ NoAuthor \notin Keys
    /\ Threads \cap Shells = {}
    /\ Threshold \in Nat \ {0}
    /\ Requests \subseteq AllRequests
    /\ MaxCuts \in Nat
    /\ NoRequest \notin AllRequests

VARIABLES visibility,  \* models.visibility, or "absent" when there is no row
          author,      \* models.author_key
          tally,       \* models.up_votes, down_votes and score
          votes,       \* votes.value per model and voter, "none" without a row
          favourites,  \* the owners of the favourites rows of a model
          reports,     \* reports per model and reporter: none, open, resolved
          bans,        \* the keys in bans
          adminLog,    \* the rows of admin_log
          pc, req,
          cut, slipped

db == <<visibility, author, tally, votes, favourites, reports, bans, adminLog>>
vars == <<db, pc, req, cut, slipped>>

Workers == Threads \cup Shells

Stages == {"ban_check", "visible_check", "vote_write", "vote_recount",
           "favourite_write", "report_insert", "report_count", "report_hide",
           "upload_check", "upload_insert", "admin_load", "admin_visibility",
           "admin_resolve", "admin_ban", "admin_takedown", "admin_log"}

\* The stages an admin action goes through once its model row was found.
OrderStages == {"admin_visibility", "admin_resolve", "admin_ban",
                "admin_takedown", "admin_log"}

ActionVisibility == [approve |-> "public",  unlist |-> "unlisted",
                     delete  |-> "deleted", ban    |-> "deleted"]

Visible(m) == visibility[m] \in {"public", "unlisted"}

\* COUNT and SUM over the votes of one model, as the UPDATE's sub-selects
\* compute them.  score = SUM(value) is kept as the pair it is the difference
\* of (values are +1 and -1), up in one table column and down in another.
Voters(v, value) == {k \in Keys : v[k] = value}
Recount(v) == [up |-> Cardinality(Voters(v, "up")),
               down |-> Cardinality(Voters(v, "down"))]

OpenReports(m) == {k \in Keys : reports[m][k] = "open"}

\* The stages that owe something: earlier statements of the same request have
\* committed, or a moderator has settled on an action.
OwedStages == OrderStages \cup {"vote_recount", "report_count", "report_hide"}

Cuts == [at : OwedStages, model : Models, arg : UNION {Args[o] : o \in DOMAIN Args}]

TypeOK ==
    /\ visibility \in [Models -> {"absent", "public", "unlisted", "deleted"}]
    /\ author \in [Models -> Keys \cup {NoAuthor}]
    /\ tally \in [Models -> [up : Nat, down : Nat]]
    /\ votes \in [Models -> [Keys -> {"none", "up", "down"}]]
    /\ favourites \in [Models -> SUBSET Keys]
    /\ reports \in [Models -> [Keys -> {"none", "open", "resolved"}]]
    /\ bans \subseteq Keys
    /\ adminLog \subseteq [model : Models, admin : Admins \cup {Cli},
                           action : Args["admin"]]
    /\ pc \in [Workers -> Stages \cup {"idle"}]
    /\ req \in [Workers -> Requests \cup {NoRequest}]
    /\ cut \subseteq Cuts
    /\ slipped \subseteq Models

Init ==
    /\ visibility = [m \in Models |-> "absent"]
    /\ author = [m \in Models |-> NoAuthor]
    /\ tally = [m \in Models |-> [up |-> 0, down |-> 0]]
    /\ votes = [m \in Models |-> [k \in Keys |-> "none"]]
    /\ favourites = [m \in Models |-> {}]
    /\ reports = [m \in Models |-> [k \in Keys |-> "none"]]
    /\ bans = {}
    /\ adminLog = {}
    /\ pc = [w \in Workers |-> "idle"]
    /\ req = [w \in Workers |-> NoRequest]
    /\ cut = {}
    /\ slipped = {}

-----------------------------------------------------------------------------
(* Moving a worker along.                                                  *)

At(w, stage) == pc[w] = stage
Goto(w, stage) == pc' = [pc EXCEPT ![w] = stage] /\ UNCHANGED req
Finish(w) == /\ pc' = [pc EXCEPT ![w] = "idle"]
             /\ req' = [req EXCEPT ![w] = NoRequest]

Work(w) == [at |-> pc[w], model |-> req[w].model, arg |-> req[w].arg]

\* The statement w is at has now run: an earlier worker that was cut short of
\* the same statement has been made good.
MadeGood(w) == cut' = cut \ {Work(w)}

FirstStage(op) == CASE op = "upload" -> "upload_check"
                    [] op = "admin"  -> "admin_load"
                    [] OTHER         -> "ban_check"

WriteStage(op) == CASE op = "vote"      -> "vote_write"
                    [] op = "favourite" -> "favourite_write"
                    [] op = "report"    -> "report_insert"

\* A thread takes a request whose signature and nonce were accepted; a route
\* registered with admin=True also wants the key in cfg.admin_keys.  A shell
\* runs a moderation command.
Accept(w) ==
    /\ At(w, "idle")
    /\ \E r \in Requests :
        /\ w \in Threads => r.key \in IF r.op = "admin" THEN Admins ELSE Keys
        /\ w \in Shells => r.op = "admin" /\ r.key = Cli
        /\ req' = [req EXCEPT ![w] = r]
        /\ pc' = [pc EXCEPT ![w] = FirstStage(r.op)]
    /\ UNCHANGED <<db, cut, slipped>>

-----------------------------------------------------------------------------
(* Bugs the handlers could have had.  Nothing here is part of Spec: each    *)
(* stands in for the action it is named after, to see that a property      *)
(* notices (README, "Mutants").                                            *)

\* "A counter updated by arithmetic is how these drift."
VoteRecountByArithmetic(w) ==
    /\ At(w, "vote_recount")
    /\ tally' = [tally EXCEPT ![req[w].model].up =
                    IF req[w].arg = "up" THEN @ + 1 ELSE @ - 1]
    /\ Finish(w)
    /\ MadeGood(w)
    /\ UNCHANGED <<visibility, author, votes, favourites, reports, bans, adminLog, slipped>>

\* Withdrawing a vote forgets the counters.
VoteWriteForgetsWithdrawal(w) ==
    /\ At(w, "vote_write")
    /\ votes' = [votes EXCEPT ![req[w].model][req[w].key] = req[w].arg]
    /\ IF req[w].arg = "none" THEN Finish(w) ELSE Goto(w, "vote_recount")
    /\ MadeGood(w)
    /\ UNCHANGED <<visibility, author, tally, favourites, reports, bans, adminLog, slipped>>

BanCheckSkipped(w) ==
    /\ At(w, "ban_check")
    /\ Goto(w, "visible_check")
    /\ MadeGood(w)
    /\ UNCHANGED <<db, slipped>>

\* The row is looked up and None is not noticed.
VisibleCheckIgnoresNone(w) ==
    /\ At(w, "visible_check")
    /\ IF visibility[req[w].model] # "deleted"
          THEN Goto(w, WriteStage(req[w].op)) ELSE Finish(w)
    /\ MadeGood(w)
    /\ UNCHANGED <<db, slipped>>

ReportCountOffByOne(w) ==
    /\ At(w, "report_count")
    /\ IF Cardinality(OpenReports(req[w].model)) > Threshold
          THEN Goto(w, "report_hide") ELSE Finish(w)
    /\ MadeGood(w)
    /\ UNCHANGED <<db, slipped>>

\* The UPDATE that hides the model is lost.
ReportHideForgotten(w) ==
    /\ At(w, "report_hide")
    /\ Finish(w)
    /\ MadeGood(w)
    /\ UNCHANGED <<db, slipped>>

\* set_visibility without its WHERE clause.
SetVisibilityUnguarded(m, v) == visibility' = [visibility EXCEPT ![m] = v]

\* Only the model that triggered the ban.
AdminTakeDownOne(w) ==
    /\ At(w, "admin_takedown")
    /\ visibility' = [visibility EXCEPT ![req[w].model] = "deleted"]
    /\ slipped' = slipped \ {req[w].model}
    /\ Goto(w, "admin_log")
    /\ MadeGood(w)
    /\ UNCHANGED <<author, tally, votes, favourites, reports, bans, adminLog>>

-----------------------------------------------------------------------------
(* POST /vote, /favourite and /report share their first two statements.    *)

BanCheck(w) ==
    /\ At(w, "ban_check")
    /\ IF req[w].key \in bans THEN Finish(w) ELSE Goto(w, "visible_check")
    /\ MadeGood(w)
    /\ UNCHANGED <<db, slipped>>

VisibleCheck(w) ==
    /\ At(w, "visible_check")
    /\ IF Visible(req[w].model) THEN Goto(w, WriteStage(req[w].op)) ELSE Finish(w)
    /\ MadeGood(w)
    /\ UNCHANGED <<db, slipped>>

VoteWrite(w) ==
    /\ At(w, "vote_write")
    /\ votes' = [votes EXCEPT ![req[w].model][req[w].key] = req[w].arg]
    /\ Goto(w, "vote_recount")
    /\ MadeGood(w)
    /\ UNCHANGED <<visibility, author, tally, favourites, reports, bans, adminLog, slipped>>

VoteRecount(w) ==
    /\ At(w, "vote_recount")
    /\ tally' = [tally EXCEPT ![req[w].model] = Recount(votes[req[w].model])]
    /\ Finish(w)
    /\ MadeGood(w)
    /\ UNCHANGED <<visibility, author, votes, favourites, reports, bans, adminLog, slipped>>

FavouriteWrite(w) ==
    /\ At(w, "favourite_write")
    /\ favourites' = [favourites EXCEPT ![req[w].model] =
                         IF req[w].arg = "on" THEN @ \cup {req[w].key}
                                              ELSE @ \ {req[w].key}]
    /\ Finish(w)
    /\ MadeGood(w)
    /\ UNCHANGED <<visibility, author, tally, votes, reports, bans, adminLog, slipped>>

\* ON CONFLICT DO UPDATE leaves resolved_at alone: a report a moderator has
\* already resolved is corrected, not reopened.
ReportInsert(w) ==
    /\ At(w, "report_insert")
    /\ reports' = [reports EXCEPT ![req[w].model][req[w].key] =
                      IF @ = "none" THEN "open" ELSE @]
    /\ Goto(w, "report_count")
    /\ MadeGood(w)
    /\ UNCHANGED <<visibility, author, tally, votes, favourites, bans, adminLog, slipped>>

\* apply_autohide: the count is a SELECT of its own, and what it decided is
\* carried to the UPDATE in a Python variable.
ReportCount(w) ==
    /\ At(w, "report_count")
    /\ IF Cardinality(OpenReports(req[w].model)) >= Threshold
          THEN Goto(w, "report_hide") ELSE Finish(w)
    /\ MadeGood(w)
    /\ UNCHANGED <<db, slipped>>

\* set_visibility: nothing leaves 'deleted' by it.
SetVisibility(m, v) ==
    visibility' = IF visibility[m] = "deleted" THEN visibility
                  ELSE [visibility EXCEPT ![m] = v]

ReportHide(w) ==
    /\ At(w, "report_hide")
    /\ SetVisibility(req[w].model, "unlisted")
    /\ Finish(w)
    /\ MadeGood(w)
    /\ UNCHANGED <<author, tally, votes, favourites, reports, bans, adminLog, slipped>>

-----------------------------------------------------------------------------
(* POST /upload.  Quotas and blobs are UploadStore's; here a quota may      *)
(* refuse any upload.                                                      *)

UploadCheck(w) ==
    /\ At(w, "upload_check")
    /\ \/ Finish(w)
       \/ req[w].key \notin bans /\ Goto(w, "upload_insert")
    /\ MadeGood(w)
    /\ UNCHANGED <<db, slipped>>

UploadInsert(w) ==
    LET m == req[w].model
        k == req[w].key
    IN  /\ At(w, "upload_insert")
        /\ IF visibility[m] = "absent"
              THEN /\ visibility' = [visibility EXCEPT ![m] = "public"]
                   /\ author' = [author EXCEPT ![m] = k]
                   /\ slipped' = IF k \in bans THEN slipped \cup {m} ELSE slipped
              ELSE UNCHANGED <<visibility, author, slipped>>
        /\ Finish(w)
        /\ MadeGood(w)
        /\ UNCHANGED <<tally, votes, favourites, reports, bans, adminLog>>

-----------------------------------------------------------------------------
(* POST /admin/action and the tessera-reports commands of the same names.  *)

\* Not require_visible_model: a deleted model can still be acted on.
AdminLoad(w) ==
    /\ At(w, "admin_load")
    /\ IF visibility[req[w].model] = "absent" THEN Finish(w)
                                              ELSE Goto(w, "admin_visibility")
    /\ MadeGood(w)
    /\ UNCHANGED <<db, slipped>>

AdminVisibility(w) ==
    /\ At(w, "admin_visibility")
    /\ SetVisibility(req[w].model, ActionVisibility[req[w].arg])
    /\ Goto(w, IF req[w].arg = "unlist" THEN "admin_log" ELSE "admin_resolve")
    /\ MadeGood(w)
    /\ UNCHANGED <<author, tally, votes, favourites, reports, bans, adminLog, slipped>>

AdminResolve(w) ==
    /\ At(w, "admin_resolve")
    /\ reports' = [reports EXCEPT ![req[w].model] =
                      [k \in Keys |-> IF @[k] = "open" THEN "resolved" ELSE @[k]]]
    /\ Goto(w, IF req[w].arg = "ban" THEN "admin_ban" ELSE "admin_log")
    /\ MadeGood(w)
    /\ UNCHANGED <<visibility, author, tally, votes, favourites, bans, adminLog, slipped>>

\* The author was read by admin_load; a row's author never changes.
AdminBan(w) ==
    /\ At(w, "admin_ban")
    /\ bans' = bans \cup {author[req[w].model]}
    /\ Goto(w, "admin_takedown")
    /\ MadeGood(w)
    /\ UNCHANGED <<visibility, author, tally, votes, favourites, reports, adminLog, slipped>>

AdminTakeDown(w) ==
    LET theirs == {m \in Models : author[m] = author[req[w].model]}
    IN  /\ At(w, "admin_takedown")
        /\ visibility' = [m \in Models |-> IF m \in theirs THEN "deleted"
                                                           ELSE visibility[m]]
        /\ slipped' = slipped \ theirs
        /\ Goto(w, "admin_log")
        /\ MadeGood(w)
        /\ UNCHANGED <<author, tally, votes, favourites, reports, bans, adminLog>>

AdminLog(w) ==
    /\ At(w, "admin_log")
    /\ adminLog' = adminLog \cup {[model |-> req[w].model, admin |-> req[w].key,
                                   action |-> req[w].arg]}
    /\ Finish(w)
    /\ MadeGood(w)
    /\ UNCHANGED <<visibility, author, tally, votes, favourites, reports, bans, slipped>>

\* tessera-reports unban: one DELETE, nothing logged.
Unban(w) ==
    /\ w \in Shells
    /\ At(w, "idle")
    /\ \E k \in bans : bans' = bans \ {k}
    /\ UNCHANGED <<visibility, author, tally, votes, favourites, reports, adminLog,
                   pc, req, cut, slipped>>

-----------------------------------------------------------------------------
(* Workers that stop before they are done.                                 *)

CutShort(S) ==
    LET busy == {w \in S : pc[w] # "idle"}
    IN  /\ busy # {}
        /\ pc' = [w \in Workers |-> IF w \in busy THEN "idle" ELSE pc[w]]
        /\ req' = [w \in Workers |-> IF w \in busy THEN NoRequest ELSE req[w]]
        /\ cut' = cut \cup {Work(w) : w \in {b \in busy : pc[b] \in OwedStages}}
        /\ Cardinality(cut') <= MaxCuts
        /\ UNCHANGED <<db, slipped>>

\* A statement raises (the write lock not had within the busy timeout, a full
\* disk) and _dispatch answers 500, or the operator interrupts the command.
Fail(w) == CutShort({w})

\* The server process ends.  Its handler threads are daemon threads: main()
\* returns without joining them and they die between two statements.  The next
\* start finds the database as they left it.
StopServer == CutShort(Threads)

Step(w) ==
    \/ BanCheck(w) \/ VisibleCheck(w)
    \/ VoteWrite(w) \/ VoteRecount(w)
    \/ FavouriteWrite(w)
    \/ ReportInsert(w) \/ ReportCount(w) \/ ReportHide(w)
    \/ UploadCheck(w) \/ UploadInsert(w)
    \/ AdminLoad(w) \/ AdminVisibility(w) \/ AdminResolve(w)
    \/ AdminBan(w) \/ AdminTakeDown(w) \/ AdminLog(w)

Next ==
    \/ \E w \in Workers : Accept(w) \/ Step(w) \/ Unban(w) \/ Fail(w)
    \/ StopServer

\* The OS schedules every thread and process, and a statement either returns
\* or raises when the busy timeout is over.
Fairness == \A w \in Workers : WF_vars(Step(w))

Spec == Init /\ [][Next]_vars
FairSpec == Spec /\ Fairness

-----------------------------------------------------------------------------
(* Properties.                                                             *)

OwedTo(m, stages) == \/ \E w \in Workers : pc[w] \in stages /\ req[w].model = m
                     \/ \E c \in cut : c.at \in stages /\ c.model = m

CutOff(m, stages) == \E c \in cut : c.at \in stages /\ c.model = m

\* The denormalised counters browse sorts by (handlers_social.py:116) agree
\* with the votes table, except while a handler that changed a vote has its
\* recount still to run, or stopped before it: however votes interleave, the
\* last recount to run leaves the right numbers.
TallyExactOrOwed ==
    \A m \in Models : tally[m] = Recount(votes[m]) \/ OwedTo(m, {"vote_recount"})

\* Autohide is never missed: two reports that arrive together cannot both see
\* one too few and leave a public model with a full set of open reports
\* (moderation.py:68).  Somebody is about to hide it, or about to resolve the
\* reports of the model just approved, or was stopped before they could.
AutohideNeverMissed ==
    \A m \in Models :
        visibility[m] = "public" /\ Cardinality(OpenReports(m)) >= Threshold
            => OwedTo(m, {"report_count", "report_hide", "admin_resolve"})

\* A banned key owns nothing anybody can still see, beyond what the takedown
\* is about to delete (or was stopped before), and uploads that had passed
\* the ban check before the ban landed (handlers_admin.py:127).
BanLeavesOnlySlipped ==
    \A m \in Models \ slipped :
        author[m] \in bans /\ Visible(m)
            => \E n \in Models : author[n] = author[m] /\ OwedTo(n, {"admin_takedown"})

\* A vote, a heart, a report or a counter refers to a model that has a row
\* (the REFERENCES clauses of db.py), though the handlers look the model up in
\* a statement of its own.
ReferencesHold ==
    \A m \in Models : visibility[m] = "absent" =>
        /\ author[m] = NoAuthor
        /\ votes[m] = [k \in Keys |-> "none"]
        /\ favourites[m] = {}
        /\ OpenReports(m) = {}

\* The orders moderators gave: the actions logged, those being carried out,
\* and those cut short.
Orders == {<<e.action, e.model>> : e \in adminLog}
     \cup {<<req[w].arg, req[w].model>> : w \in {v \in Workers : pc[v] \in OrderStages}}
     \cup {<<c.arg, c.model>> : c \in {d \in cut : d.at \in OrderStages}}

L == INSTANCE Lifecycle WITH orders <- Orders

\* Moderation keeps the promises of Lifecycle: deletion is terminal, an author
\* keeps a model, the server on its own only unlists, and every other change
\* of visibility follows from an order that is logged, in progress or cut off.
ImplementsLifecycle == L!Spec

\* Drifted counters are put right by the recount that is owed, unless the
\* handler that owes it is cut off.
RecountComes ==
    \A m \in Models : (tally[m] # Recount(votes[m]))
        ~> (tally[m] = Recount(votes[m]) \/ CutOff(m, {"vote_recount"}))

\* A public model with enough open reports is hidden, or its reports are
\* resolved, unless the handler that had to is cut off.
AutohideComes ==
    \A m \in Models :
        (visibility[m] = "public" /\ Cardinality(OpenReports(m)) >= Threshold)
        ~> (\/ visibility[m] # "public"
            \/ Cardinality(OpenReports(m)) < Threshold
            \/ CutOff(m, {"report_count", "report_hide", "admin_resolve"}))

\* A key that stays banned goes quiet: once the requests it had in flight are
\* over, it casts no vote, sets no heart, files no report and adds no model.
Doings(k) == [m \in Models |-> <<votes[m][k], k \in favourites[m], reports[m][k] # "none",
                                 author[m] = k>>]
BannedGoQuiet ==
    \A k \in Keys : <>[](k \in bans) => <>[][UNCHANGED Doings(k)]_vars

-----------------------------------------------------------------------------
(* What the source says of itself and the code does not do.                *)

\* moderation.py:68-69: apply_autohide is "called from inside handle_report's
\* transaction, so the count and the visibility change land together": a public
\* model is hidden for its open reports, or by a moderator.
HiddenOnlyWhenDue ==
    [][\A m \in Models :
          visibility[m] = "public" /\ visibility'[m] = "unlisted" =>
              \/ Cardinality(OpenReports(m)) >= Threshold
              \/ \E w \in Workers : At(w, "admin_visibility") /\ req[w].model = m]_vars
=============================================================================
