---------------------------- MODULE UploadStore ----------------------------
(***************************************************************************)
(* POST /upload from its quota checks to its row, over the blob store on   *)
(* disk.  Gallery sees an upload as a check and an INSERT; here the files, *)
(* the clock, the sizes and the four limits are kept and what moderation   *)
(* does to a row afterwards is not, since no limit and no blob depends on  *)
(* it: a deleted model keeps its row, its created_at and its bytes.        *)
(*                                                                         *)
(* A blob stands for its bytes and so for its digest.  Rows are never      *)
(* removed and model_hash is UNIQUE, so a row is identified by its model.  *)
(* The steps are the system calls and the statements that another thread   *)
(* can see: each worker is one thread serving one upload after another.    *)
(***************************************************************************)
EXTENDS Integers, FiniteSets, Functions

CONSTANTS Keys, Blobs, Workers,
          Size,         \* bytes of each blob
          Uploads,      \* the envelopes consoles send: key, model, thumb
          NoUpload,     \* what an idle worker serves
          KeyLimit,     \* cfg.uploads_per_key_per_day
          HourLimit,    \* cfg.global_uploads_per_hour
          MaxRequest,   \* cfg.max_request_bytes
          MaxDisk,      \* cfg.max_total_disk_bytes
          Day, Hour,    \* DAY_SECONDS, HOUR_SECONDS
          MaxTime,      \* bound: the clock stops here
          MaxTroubles   \* bound: errors and crashes in a behaviour

ASSUME UploadAssumption ==
    /\ IsFiniteSet(Workers) /\ Workers # {}
    /\ Blobs \cap Workers = {}
    /\ Size \in [Blobs -> Nat]
    /\ Uploads \subseteq [key : Keys, model : Blobs, thumb : Blobs]
    /\ NoUpload \notin Uploads
    /\ KeyLimit \in Nat /\ HourLimit \in Nat
    /\ MaxRequest \in Nat /\ MaxDisk \in Nat
    /\ Day \in Nat \ {0} /\ Hour \in Nat \ {0}
    /\ MaxTime \in Nat /\ MaxTroubles \in Nat

VARIABLES clock,     \* int(time.time())
          rows,      \* the models table: model, thumb, author, created_at
          blobs,     \* what lies under each digest: absent, short or whole
          temp,      \* each worker's .tmp- file: none, short or whole
          litter,    \* bytes in .tmp- files whose process is gone
          pc, upload,
          part,      \* which of the envelope's two parts is being put
          now,       \* the clock reading the request was given
          listed,    \* the files a disk walk has found: blobs, and temporary
                     \* files by their worker
          troubles   \* errors and crashes so far

disk == <<blobs, temp, litter>>
vars == <<clock, rows, disk, pc, upload, part, now, listed, troubles>>

Checks == {"daily", "hourly", "disk", "walk"}
PutStages == {"exists", "write", "rename"}
Stages == Checks \cup PutStages \cup {"insert"}

Parts == {"model", "thumb"}

\* The bytes worker w is storing.
Blob(w) == upload[w][part[w]]

Incoming(u) == Size[u.model] + Size[u.thumb]

\* The files under the root: a blob by itself, a temporary file by its worker.
\* A short file has no bytes yet.
TempFiles == {w \in Workers : temp[w] # "none"}
BlobFiles == {b \in Blobs : blobs[b] # "absent"}
FileSize == [f \in Blobs \cup Workers |->
                IF f \in Blobs
                   THEN IF blobs[f] = "whole" THEN Size[f] ELSE 0
                   ELSE IF temp[f] = "whole" THEN Size[Blob(f)] ELSE 0]
FileBytes(files) == SumFunctionOnSet(FileSize, files)
TotalBytes == FileBytes(BlobFiles \cup TempFiles) + litter

\* The rows with created_at > since.
RowsSince(since) == {r \in rows : r.created_at > since}
RowsOf(rs, k) == {r \in rs : r.author = k}

TypeOK ==
    /\ clock \in Nat
    /\ rows \subseteq [model : Blobs, thumb : Blobs, author : Keys, created_at : Nat]
    /\ blobs \in [Blobs -> {"absent", "short", "whole"}]
    /\ temp \in [Workers -> {"none", "short", "whole"}]
    /\ litter \in Nat
    /\ pc \in [Workers -> Stages \cup {"idle"}]
    /\ upload \in [Workers -> Uploads \cup {NoUpload}]
    /\ \A w \in Workers : (pc[w] = "idle") <=> (upload[w] = NoUpload)
    /\ part \in [Workers -> Parts]
    /\ now \in [Workers -> Nat]
    /\ listed \in [Workers -> SUBSET (Blobs \cup Workers)]
    /\ troubles \in Nat

Init ==
    /\ clock = 0
    /\ rows = {}
    /\ blobs = [b \in Blobs |-> "absent"]
    /\ temp = [w \in Workers |-> "none"]
    /\ litter = 0
    /\ pc = [w \in Workers |-> "idle"]
    /\ upload = [w \in Workers |-> NoUpload]
    /\ part = [w \in Workers |-> "model"]
    /\ now = [w \in Workers |-> 0]
    /\ listed = [w \in Workers |-> {}]
    /\ troubles = 0

Goto(w, stage) == pc' = [pc EXCEPT ![w] = stage] /\ UNCHANGED <<upload, now>>

\* The request is answered.  What the thread no longer uses goes back to its
\* initial value.
Finish(w) ==
    /\ pc' = [pc EXCEPT ![w] = "idle"]
    /\ upload' = [upload EXCEPT ![w] = NoUpload]
    /\ part' = [part EXCEPT ![w] = "model"]
    /\ now' = [now EXCEPT ![w] = 0]
    /\ listed' = [listed EXCEPT ![w] = {}]

\* Both put() calls are the same code, first for the model, then the thumb.
NextPart(w) ==
    IF part[w] = "model"
       THEN Goto(w, "exists") /\ part' = [part EXCEPT ![w] = "thumb"]
       ELSE Goto(w, "insert") /\ UNCHANGED part

\* What a walk can end up counting: rglob lists directory by directory, so a
\* file that came up since may or may not be seen; a listed file still there
\* is.  (The bytes in litter are always seen.)
Countable(w) ==
    LET there == BlobFiles \cup TempFiles
    IN  {(listed[w] \cap there) \cup late : late \in SUBSET (there \ listed[w])}

-----------------------------------------------------------------------------
(* Variants with bugs the code could have had, never part of Spec.         *)

\* used > limit.
DailyOffByOne(w) ==
    /\ pc[w] = "daily"
    /\ IF Cardinality(RowsOf(RowsSince(now[w] - Day), upload[w].key)) > KeyLimit
          THEN Finish(w)
          ELSE Goto(w, "hourly") /\ UNCHANGED <<part, listed>>
    /\ UNCHANGED <<clock, rows, disk, troubles>>

\* The global cap counts the author's own uploads.
HourlyOfKey(w) ==
    /\ pc[w] = "hourly"
    /\ IF Cardinality(RowsOf(RowsSince(now[w] - Hour), upload[w].key)) >= HourLimit
          THEN Finish(w)
          ELSE Goto(w, "disk") /\ UNCHANGED <<part, listed>>
    /\ UNCHANGED <<clock, rows, disk, troubles>>

\* The ceiling is compared with what is on disk before the upload.
WalkWithoutIncoming(w) ==
    /\ pc[w] = "walk"
    /\ \E files \in Countable(w) :
          IF FileBytes(files) + litter > MaxDisk
             THEN Finish(w)
             ELSE Goto(w, "exists") /\ UNCHANGED part /\ listed' = [listed EXCEPT ![w] = {}]
    /\ UNCHANGED <<clock, rows, disk, troubles>>

\* open(target, "wb"): no temporary file, no rename.
OpenInPlace(w) ==
    LET b == Blob(w)
    IN  /\ pc[w] = "exists"
        /\ IF blobs[b] # "absent"
              THEN UNCHANGED disk /\ NextPart(w)
              ELSE /\ blobs' = [blobs EXCEPT ![b] = "short"]
                   /\ Goto(w, "write")
                   /\ UNCHANGED <<temp, litter, part>>
        /\ UNCHANGED <<clock, rows, listed, troubles>>

\* The quota is looked at again next to the INSERT, after the files are there.
InsertRechecks(w) ==
    LET u == upload[w]
        full == Cardinality(RowsOf(RowsSince(now[w] - Day), u.key)) >= KeyLimit
    IN  /\ pc[w] = "insert"
        /\ rows' = IF full \/ \E r \in rows : r.model = u.model
                      THEN rows
                      ELSE rows \cup {[model |-> u.model, thumb |-> u.thumb,
                                       author |-> u.key, created_at |-> now[w]]}
        /\ Finish(w)
        /\ UNCHANGED <<clock, disk, troubles>>

\* created_at in local time, one Hour west of the clock the checks use.
InsertLocalTime(w) ==
    LET u == upload[w]
    IN  /\ pc[w] = "insert"
        /\ rows' = IF \E r \in rows : r.model = u.model
                      THEN rows
                      ELSE rows \cup {[model |-> u.model, thumb |-> u.thumb,
                                       author |-> u.key, created_at |-> now[w] - Hour]}
        /\ Finish(w)
        /\ UNCHANGED <<clock, disk, troubles>>

-----------------------------------------------------------------------------
(* handle_upload.                                                          *)

\* The envelope parses and is small enough; the clock is read once, for the
\* checks and for created_at.  (Gallery has the ban check that comes first.)
Begin(w, u) ==
    /\ pc[w] = "idle"
    /\ Incoming(u) <= MaxRequest
    /\ pc' = [pc EXCEPT ![w] = "daily"]
    /\ upload' = [upload EXCEPT ![w] = u]
    /\ now' = [now EXCEPT ![w] = clock]
    /\ UNCHANGED <<clock, rows, disk, part, listed, troubles>>

\* uploads_today: this key's rows of the last Day.
Daily(w) ==
    /\ pc[w] = "daily"
    /\ IF Cardinality(RowsOf(RowsSince(now[w] - Day), upload[w].key)) >= KeyLimit
          THEN Finish(w)
          ELSE Goto(w, "hourly") /\ UNCHANGED <<part, listed>>
    /\ UNCHANGED <<clock, rows, disk, troubles>>

\* uploads_last_hour: everybody's rows of the last Hour.
Hourly(w) ==
    /\ pc[w] = "hourly"
    /\ IF Cardinality(RowsSince(now[w] - Hour)) >= HourLimit
          THEN Finish(w)
          ELSE Goto(w, "disk") /\ UNCHANGED <<part, listed>>
    /\ UNCHANGED <<clock, rows, disk, troubles>>

\* total_bytes, first half: the names.
List(w) ==
    /\ pc[w] = "disk"
    /\ listed' = [listed EXCEPT ![w] = BlobFiles \cup TempFiles]
    /\ Goto(w, "walk")
    /\ UNCHANGED <<clock, rows, disk, part, troubles>>

\* total_bytes, second half: is_file and stat of each.
Walk(w) ==
    /\ pc[w] = "walk"
    /\ \E files \in Countable(w) :
          IF FileBytes(files) + litter + Incoming(upload[w]) > MaxDisk
             THEN Finish(w)
             ELSE Goto(w, "exists") /\ UNCHANGED part /\ listed' = [listed EXCEPT ![w] = {}]
    /\ UNCHANGED <<clock, rows, disk, troubles>>

\* A temporary file was renamed between its is_file and its stat: the
\* FileNotFoundError ends the request with 500.
WalkFails(w) ==
    /\ pc[w] = "walk"
    /\ \E v \in listed[w] \cap Workers : temp[v] = "none"
    /\ Finish(w)
    /\ UNCHANGED <<clock, rows, disk, troubles>>

\* put: nothing to do for a digest that is there, else mkstemp.
Open(w) ==
    /\ pc[w] = "exists"
    /\ IF blobs[Blob(w)] # "absent"
          THEN NextPart(w) /\ UNCHANGED temp
          ELSE /\ temp' = [temp EXCEPT ![w] = "short"]
               /\ Goto(w, "write")
               /\ UNCHANGED part
    /\ UNCHANGED <<clock, rows, blobs, litter, listed, troubles>>

Write(w) ==
    /\ pc[w] = "write"
    /\ temp' = [temp EXCEPT ![w] = "whole"]
    /\ Goto(w, "rename")
    /\ UNCHANGED <<clock, rows, blobs, litter, part, listed, troubles>>

\* os.replace, whoever else may have put the same bytes meanwhile.
Rename(w) ==
    /\ pc[w] = "rename"
    /\ blobs' = [blobs EXCEPT ![Blob(w)] = temp[w]]
    /\ temp' = [temp EXCEPT ![w] = "none"]
    /\ NextPart(w)
    /\ UNCHANGED <<clock, rows, litter, listed, troubles>>

\* INSERT, or 409 for a model_hash that has a row.
Insert(w) ==
    LET u == upload[w]
    IN  /\ pc[w] = "insert"
        /\ rows' = IF \E r \in rows : r.model = u.model
                      THEN rows
                      ELSE rows \cup {[model |-> u.model, thumb |-> u.thumb,
                                       author |-> u.key, created_at |-> now[w]]}
        /\ Finish(w)
        /\ UNCHANGED <<clock, disk, troubles>>

\* An OSError or a locked database: put's except clause unlinks the temporary
\* file, _dispatch answers 500.
Raise(w) ==
    /\ pc[w] # "idle"
    /\ troubles < MaxTroubles
    /\ troubles' = troubles + 1
    /\ temp' = [temp EXCEPT ![w] = "none"]
    /\ Finish(w)
    /\ UNCHANGED <<clock, rows, blobs, litter>>

\* The process ends, its threads are daemon threads: the files stay as they
\* are and nothing ever sweeps the temporary ones.
Crash ==
    /\ troubles < MaxTroubles
    /\ \E w \in Workers : pc[w] # "idle"
    /\ troubles' = troubles + 1
    /\ litter' = litter + FileBytes(TempFiles)
    /\ temp' = [w \in Workers |-> "none"]
    /\ pc' = [w \in Workers |-> "idle"]
    /\ upload' = [w \in Workers |-> NoUpload]
    /\ part' = [w \in Workers |-> "model"]
    /\ now' = [w \in Workers |-> 0]
    /\ listed' = [w \in Workers |-> {}]
    /\ UNCHANGED <<clock, rows, blobs>>

Tick ==
    /\ clock < MaxTime
    /\ clock' = clock + 1
    /\ UNCHANGED <<rows, disk, pc, upload, part, now, listed, troubles>>

Step(w) ==
    \/ \E u \in Uploads : Begin(w, u)
    \/ Daily(w) \/ Hourly(w) \/ List(w) \/ Walk(w) \/ WalkFails(w)
    \/ Open(w) \/ Write(w) \/ Rename(w) \/ Insert(w)
    \/ Raise(w)

Next == (\E w \in Workers : Step(w)) \/ Crash \/ Tick

Spec == Init /\ [][Next]_vars

-----------------------------------------------------------------------------
(* Properties.                                                             *)

\* A row's model and thumbnail are both on disk, whole, whatever crashed, was
\* raised or was put twice at once (store.py:78-91, handlers_content.py:47-53):
\* a download of a gallery entry never finds half a file or none.
RowsHaveWholeBlobs ==
    \A r \in rows : blobs[r.model] = "whole" /\ blobs[r.thumb] = "whole"

\* One key's rows in any Day: the checks that race past the limit together are
\* at most the threads there are (quota.py:78-85 before
\* handlers_content.py:51, no transaction around the two).
DailyOvershootBounded ==
    \A r \in rows :
        Cardinality({s \in RowsOf(RowsSince(r.created_at - Day), r.author) :
                        s.created_at <= r.created_at})
            <= KeyLimit - 1 + Cardinality(Workers)

\* The same of everybody's rows in any Hour (quota.py:87-94).
HourlyOvershootBounded ==
    \A r \in rows :
        Cardinality({s \in RowsSince(r.created_at - Hour) : s.created_at <= r.created_at})
            <= HourLimit - 1 + Cardinality(Workers)

\* The store outgrows its ceiling by the uploads already past the walk and no
\* more, dead processes' temporary files included (quota.py:96-103,
\* store.py:112-116), though the walk reads a store that changes under it.
DiskOvershootBounded ==
    TotalBytes <= MaxDisk + (Cardinality(Workers) - 1) * MaxRequest

\* What lies about: the blobs that no upload has put (or found there) for an
\* INSERT still to come, that no row names and that are not the second thumbnail
\* of a model that was already there.
Hand(w) == CASE pc[w] \in PutStages /\ part[w] = "thumb" -> {upload[w].model}
             [] pc[w] = "insert" -> {upload[w].model, upload[w].thumb}
             [] OTHER -> {}

Placed(b) ==
    \/ \E r \in rows : b \in {r.model, r.thumb}
    \/ \E u \in Uploads : u.thumb = b /\ \E r \in rows : r.model = u.model

Orphans == {b \in BlobFiles : ~ Placed(b) /\ \A w \in Workers : b \notin Hand(w)}

NothingLost == troubles = 0 => Orphans = {}

PaidByTroubles ==
    SumFunctionOnSet(Size, Orphans) + litter
        <= troubles * (Cardinality(Workers) * MaxRequest)

\* As long as nothing fails a refused upload leaves nothing but a spare thumbnail
\* behind; and what failures leave on disk for good, blobs and temporary files,
\* which nothing sweeps, is at most the uploads that each error or crash ended, of
\* one request's bytes each (store.py:86-91, handlers_content.py:47-63).
DebrisBounded == NothingLost /\ PaidByTroubles
=============================================================================
