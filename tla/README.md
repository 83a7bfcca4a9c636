# A TLA+ model of tessera-server

tessera-server is the gallery behind Tessera: consoles upload models, browse,
download, vote, favourite and report; a moderator acts on the reports over HTTP
or from a shell on the box. This directory models the way of a request from
`connect` to the database and the files, with threads, a shell and a process that
may stop at any moment, and the scripts that update the installed server. Paths
below are relative to the repository; `moderation.py` and the like are in
`src/tessera/`.

## The system

| Component | State | Operations | Hard part |
| --- | --- | --- | --- |
| Social handlers (`handlers_social.py`) | `votes`, `favourites`, `reports`, counters on `models` | vote, favourite, report | each statement commits by itself; counters are recomputed in a second one |
| Moderation (`moderation.py`) | `models.visibility` | set_visibility, resolve_reports, apply_autohide | count, then update, with others in between |
| Admin (`handlers_admin.py`, `tools/tessera-reports`) | `bans`, `admin_log`, visibility, reports | approve, unlist, delete, ban, unban | up to five commits per action, two kinds of process |
| Uploads (`handlers_content.py`, `quota.py`, `store.py`) | blob files, `models` rows | quota checks, put twice, insert | check then act; files and rows have no common transaction |
| Signatures (`signing.py`, `replay.py`) | `nonces` | verify, purge, record | skewed clocks, duplicates, slow threads |
| Database (`db.py`) | SQLite in WAL mode, autocommit | connect, migrate | `with conn` opens no transaction |
| Server (`http_server.py`, `main.py`) | a connection and a thread each; the loop's flag and event | accept, setup, dispatch, 500 on exception, shutdown | stalls and hang-ups, refusals that do not end the connection, a signal anywhere |
| Rate limiter (`ratelimit.py`) | buckets in a shared `OrderedDict` | allow | no lock, eviction, slow calls |
| PROXY header (`proxyproto.py`), envelope (`envelope.py`) | none | parse | lengths that disagree with the bytes |
| Updater (`tools/ts-update`) | the source tree, `/opt/tessera` and the unit file with a backup of each | fetch, test, back up, provision, verify, roll back | `set -e` inside `set -e`, interruption, tags that move |
| Provisioning (`install/container-provision.sh`, `systemd/`) | the same tree and unit, the service | install, restart, smoke test | it dies half way |
| Configuration (`config.py`), libhydrogen (`hydro.py`), `tools/tessera-keys` | none at run time | load; hash, verify; edit the file | |

A connection reaches a handler through `TesseraHandler`: PROXY header, request
line, route, limiter, body. All threads share one limiter. Handlers interact
through the database (every handler and the shell), through the
blob directory (uploads; `/model` and `/thumb` downloads), and through one
wrapper, `signed_route`: a request that writes first has its signature, its
timestamp and its nonce accepted, and only then reaches its handler. Requests
run on a thread per connection, each with a SQLite connection of its own.

**The grain.** `db.connect` passes `isolation_level=None`. The sqlite3 module is
then in autocommit mode and `with conn:` does not begin a transaction; it
commits or rolls back one that is open, and none is. Every `execute` is
therefore a transaction by itself: atomic and serialised against all others by
SQLite, but with anything in between two of them. `Gallery`, `ReplayWindow` and
`UploadStore` use that grain. `RateLimiter` has the interpreter's: CPython may
switch threads after a call returns. `Server` steps from one wait to the next,
`Updater` from one command of the script to the next.

What makes each part correct:

- social handlers: the counters that browse sorts by agree with the votes; no
  row refers to a model without a row; a banned key falls silent;
- moderation: the threshold is never missed; only a moderator's order does more
  than unlist; deletion is final;
- admin: a ban leaves nothing of its key visible;
- signatures: a captured request does nothing twice within the window;
- uploads: a row's bytes are on disk and whole; the limits are overshot by
  racing threads at most, not without bound;
- rate limiter: without a lock, table and rates are overshot by what runs at the
  same time and no further; who is refused does not pay for others;
- connection: one answer; the address that is charged is the one the proxy
  vouched for; nothing is read or run for a request that has not paid;
- shutdown: a signal ends the process, whatever connections do;
- updater: what is installed has passed its tests; at every moment a pair of code
  and unit that works is there; what the script reports is so.

## Modules

| Module | Models | Kind |
| --- | --- | --- |
| `Lifecycle` | what moderation promises about a model | abstract specification |
| `Gallery` | every handler that writes, and the shell, statement by statement | detailed specification; implements `Lifecycle` |
| `ReplayWindow` | `verify_signed_request` and the `nonces` table under repeated, delayed requests | specification |
| `UploadStore` | an upload's quota checks, disk walk, files and row | specification |
| `RateLimiter` | `TokenBucketLimiter.allow` on unlocked threads | specification |
| `ProxyHeader`, `Envelope` | what `read_ppv2_header` and `parse_upload` accept and cut out | operators |
| `MainLoop` | `main()`, its signal handler, `serve_forever` and `shutdown` | component of `Server` |
| `Connection` | a client and the thread of its connection; uses `ProxyHeader`, `Envelope` | component of `Server` |
| `Server` | the process: `MainLoop` with any number of `Connection`s, `TasksMax` | composition |
| `Provision` | the host and `container-provision.sh` | component of `Updater` |
| `Updater` | `ts-update`, `Provision`, origin's tags, interruptions and reboots | composition |
| `MCGallery`, `MCUploadStore`, `MCRateLimiter`, `MCServer` | what the runs send; symmetry | model checking |
| `GalleryProofs`, `ReplayProofs`, `UploadProofs`, `LimiterProofs`, `AddressProofs`, `ServerProofs`, `UpdaterProofs` | theorems | proofs |
| `FiniteSums` | sums over finite sets, least elements: lemmas that the others cite | proofs |

### Gallery

One variable per table: `visibility`, `author` and `tally` are columns of
`models`, `votes`, `favourites`, `reports`, `bans` and `adminLog` the other
tables. Ids, titles, reasons and times are left out. A model is identified by
its bytes, since `model_hash` is UNIQUE and rows are never removed. A worker is
a `Thread` of the server or a `Shell` running `tessera-reports`; `pc[w]` names
the statement it runs next and `req[w]` its request, so one action is one
statement together with the Python that follows it up to the next statement:

| Code | Actions |
| --- | --- |
| `handle_vote` | `BanCheck`, `VisibleCheck`, `VoteWrite`, `VoteRecount` |
| `handle_favourite` | `BanCheck`, `VisibleCheck`, `FavouriteWrite` |
| `handle_report`, `apply_autohide` | `BanCheck`, `VisibleCheck`, `ReportInsert`, `ReportCount`, `ReportHide` |
| `handle_upload` | `UploadCheck`, `UploadInsert` |
| `handle_admin_action`, `apply_action` | `AdminLoad`, `AdminVisibility`, `AdminResolve`, `AdminBan`, `AdminTakeDown`, `AdminLog` |
| `cmd_unban` | `Unban` |
| an exception in a handler, an interrupted command | `Fail` |
| the end of the server process | `StopServer` |

Two history variables serve the properties only. `cut` holds what a stopped
worker still owed, until a later request runs the same statement for the same
model and argument; `slipped` holds the models inserted for an author who was
banned by then. No guard depends on `slipped`; `cut` appears in one, the bound
`MaxCuts`.

### ReplayWindow

`stamp[n]` is the timestamp signed with a nonce, by a clock up to `MaxSkew` off;
`expires[n]` the row in `nonces`. The network may deliver any signed request at
any time and any number of times, or a damaged copy. A thread reads the clock
once (`Verify`), purges by that reading (`Purge`) and inserts (`Record`);
`accepted` is the history of acceptances. `Refuse` changes nothing and is there
to say which requests leave no trace.

### UploadStore

`blobs[b]` says what lies under a digest, `temp[w]` what the worker's `.tmp-`
file holds, `litter` the bytes of such files whose process is gone, `rows` the
`models` table with what the limits look at. `Daily`, `Hourly` are the counts,
`List` and `Walk` the two halves of `total_bytes` (names, then sizes, while files
come and go; `WalkFails` when one vanishes between `is_file` and `stat`); `Open`,
`Write`, `Rename` are `put`, done for the model and then the thumbnail; `Insert`
is the row or the 409. `Raise` is an error anywhere in the handler, `Crash` the
end of the process. The ban check is in `Gallery`; moderation of a row changes
nothing that `UploadStore` looks at, as deleted models keep their row, their
place in the quota and their bytes.

### RateLimiter

`slot` and `older` are the `OrderedDict` and its order, `tokens` and `last` the
buckets, `gtokens`, `glast`, `started` the global one; `mine`, `refilled` and
`now` are the local variables of each thread's call. An action runs from one call
of Python code to the next: `Lookup` (`get`), `CheckFull` (`len`), `Evict`
(`popitem`), `Insert` (`_Bucket()`, the assignment, `move_to_end`) or `Touch`
(`move_to_end`, which raises `KeyError` when the entry has gone), `Elapsed` (`max`),
`Refilled` (`min`), `Check`, then `GlobalElapsed`, `GlobalRefilled`, `Spend`. Tokens
are integers in units of clock ticks, `Cost` to a token. `admitted`, `since`,
`others` and `total` are history: an address's account is opened anew when
`Slots` others came since its last call, for then it may have been evicted, and no
earlier call of its own still runs, whose token would count in both.

### Server

| Code | Actions |
| --- | --- |
| `main` to `signal.signal` | `Register`, `KilledEarly` |
| `serve_forever`: test, `select`, test, take one | `EnterLoop`, `TestFlag`, `Select`, `Accept`, `Unwind` |
| `process_request` | `Accept`: `Begin` or, at `TasksMax`, `DropConnection` |
| the signal handler | `Signal` (`SignalStarts`, `SignalRaises`), `SignalLost` |
| `server.shutdown` on its thread | `SetFlag`, `Released` |
| the `finally` of `main` | `Close`, `End` |
| a client | `Connect`, `Send`, `HangUp` |
| `setup`, `_refuse` | `Setup`, `RefuseInSetup`, `ReadProxyHeader` |
| `handle_one_request`, `parse_request` | `ParseRequest`, `EndSilently` |
| `_dispatch` | `Dispatch` (`EndSilently` when `urlsplit` raises), `Allowed`, `Limited`, `LimiterRaises`, `ReadBody`, `Handle` |

A client's input is a record: how many bytes come before the request line and
what they say, the kind of line (the request, or one of five that go wrong), the declared and the real length of the body,
what the envelope declares. A line goes wrong in the standard library (`garbled`), in
`parse_request` (`blank`), in both at once (`spaces`: whitespace that `str.split` sees
and `bytes.strip` does not, which ends the thread in silence), in `urlsplit` (`unsplit`:
a target such as `http://[`, a `ValueError` outside the `try`) or by its length. It arrives in up to three pieces and may stop after
any; a read waits for its bytes or the end of the stream, since the socket has no
timeout. `left[c]` is what `setup` has not taken of the bytes before the request
line, zero when the next read starts at the request: that is how a header that
was refused half way is told from one taken whole. Where `Connection` ends, the
other modules begin: `Allowed`, `Limited` and `LimiterRaises` are what
`RateLimiter` shows, `Handle` any handler of `Gallery`, `ReplayWindow` and
`UploadStore`.

### Updater

A release is a commit with one thing wrong with it or nothing (`fault`): it fails
its build, its tests, the hardening checks, the firewall step; its unit or its code
does not come up; it answers errors, at once or after a while. `Provision` has
what is installed, what runs (`MayStart`, `StartService`, `HttpCode`) and the
provisioner's steps; `Updater` has the script around it. A copy or a removal
takes two steps with a tree that is `Mixed` in between. `Die`, and `End` with
`"failed"`, are `set -e`. `Disturbed` ends a run anywhere, by a signal or a
reboot; `Publish` adds a tag or moves the newest. `before`, `seen`, `clean` and
`careless` are history.

## Runs

| Run | Question | Bounds |
| --- | --- | --- |
| `consoles` | Do counters, references and bans hold when two consoles do everything at once? | 2 models (one each), 2 keys, 2 threads, `MaxCuts` 1 |
| `moderation` | Is the autohide threshold ever missed, next to a moderator at a shell? | 1 model, 2 reporters, threshold 2, 2 threads, 1 shell |
| `bans` | What survives a ban? Do the statements implement `Lifecycle`? | 2 models of one author, bans from a console and a shell, 2 threads, 1 shell |
| `replay` | When is a request accepted again, and how often in all? | 1 nonce, 2 threads, window 2, skew 2, stall 1, 8 seconds |
| `uploads` | Are a row's blobs whole, what is orphaned, what do failures leave, how far are ceiling and limits overshot? | 5 envelopes of 2 keys over 6 blobs, 2 threads, limits of 1, a ceiling of 2 uploads, a Day of 2 and an Hour of 1 in 3 seconds, 1 error or crash |
| `limiter` | What does the missing lock cost? | 4 addresses, 2 slots, 2 threads, bursts 1 and 3, 2 readings of the clock, 1 pair of calls that overlap |
| `server` | Who is charged, what is read and stored, is everybody answered, does the process stop? | 15 inputs on one connection, another that contends with it, `MaxTasks` 3, 1 signal |
| `updater` | What is installed, what survives, is the report true? | 3 commits, 2 tags, 3 runs |
| `claim_*` | see "Where the code and its comments part" | as the run beside them; `claim_rollback` 1 run of the script |

Two threads show every race of two statements; a third would add races of three,
and the theorems cover those. Threshold 2 with two reporters is the least case in
which each may see one report too few. A window of 2 with skew 2 has every
relation of a timestamp to the clock (behind, level, ahead, at either edge), and
8 seconds are past the last moment any copy is good. In `uploads` two keys share a
model with different thumbnails, one key has two models more than its limits
allow, and the disk holds two uploads, so each overshoot that is bounded happens.

In `limiter` four addresses fill two slots twice over; one pair of overlapping
calls at a time is where each hazard begins, and the bounds on rates are linear
in their number, so that a second pair shows no more than the first. In `server`
the inputs are one of each kind that takes another path (a header with TLVs, a
LOCAL one, none, from either peer; bodies whole, cut, cut by their length, too
long; an envelope that raises; a blank line, one of spaces, an overlong one, a target `urlsplit` raises on); three tasks are the
main thread and two more, so two connections contend with the thread of a signal
for the last. In `updater` three commits are what is installed, a release and
another that replaces it, by a new tag or by moving the old; three runs are one
that ends badly, one that starts from what it left, and one that looks at that.

`SYMMETRY` is used over threads and addresses that a specification never tells
apart, only in runs whose properties are invariants. `limiter` has a `VIEW` that
leaves out what a bucket contained that nothing refers to. The upload run takes
`Cardinality(Workers)` as the number of requests in flight. `CHECK_DEADLOCK FALSE`
is said where the system may stop for good: a process that has ended, clients that
have all been served.

Bounds in the specifications: `MaxCuts`, `MaxSkew`, `MaxStall`, `MaxTime`,
`MaxTroubles`, `MaxOverlaps`, `MaxSignals`, `MaxCommit`, `MaxTag`, `MaxRuns`. Of
these the theorems assume nothing; `MaxStall < Window` appears
as a premise where a property needs it.

### What the properties say

- `TallyExactOrOwed`: counters are exact, or a worker owes the recount, or one
  was stopped before it. Recounts are recomputations, so the last to run
  repairs all: the missing transaction costs a moment, not the numbers, unless a
  thread stops in that moment. `RecountComes` is the liveness half.
- `AutohideNeverMissed`: each report counts after its own insert has committed,
  so of two reports the later count sees both. `AutohideComes`: the hiding, or
  the resolution that makes it moot, does come.
- `BanLeavesOnlySlipped`: the exact set of models a ban can miss.
  `BannedGoQuiet`: a check made before the ban lets one statement through, not a
  stream.
- `ReferencesHold`: a lookup in a statement of its own is enough, since rows are
  never removed.
- `ImplementsLifecycle`: below.
- `NoEarlyReplay`, `TableHoldsOneWindow`, `RecordsAreGenuine`: what the nonce
  table does guarantee. `AcceptancesBounded`: how often one request can count
  in all, given that it is forgotten before it is stale.
- `RowsHaveWholeBlobs`: files before row, rename after write.
- `DebrisBounded`: what is left behind. While nothing fails, a refused upload leaves
  at most a spare thumbnail (`NothingLost`). Nothing sweeps the temporary files of a
  killed process, nor blobs whose row never came, but each error or crash adds at
  most one request's bytes per worker (`PaidByTroubles`): debris is paid for by
  failures and never grows by traffic.
- `DailyOvershootBounded`, `HourlyOvershootBounded`, `DiskOvershootBounded`: the
  limits hold up to one upload per other thread. None of them is exact, as checks
  and inserts are separate.

- `SlotsOvershootBounded`: who inserts has evicted or has seen room, so the table
  grows past its limit by one entry per further thread, and does not go on growing.
- `AddressRateHeld`, `GlobalRateHeld`: the rates hold to the token for calls that
  do not overlap (a refill time of 0 is no limit, and nothing is said of it); each
  pair that does may give away a burst and count the time the calls took twice.
  `GlobalOnlyPaysForAdmitted`: that loss is never to the disadvantage of others.
  `LostOnlyToRaces`: `KeyError` needs a race.
- `ChargedToTheHeader`: with `proxy_protocol` on, the limiter charges the source
  of a complete header from the trusted network, and otherwise only clients that
  have been told 400 (or that have gone). `claim_refused` is the rest of it.
- `NothingReadUnpaid`: length, route and limiter come before the body.
- `StoredAsDeclared`: slices clip silently, and still no truncated model is stored.
- `OneAnswer`, `AnswerComes`: one answer, and it comes, whoever else stalls. The
  exceptions are named: a client that is gone, the limiter's `KeyError`, and the two
  lines (`Ignored`) that end the thread without a word.
- `StopComes`: the shutdown handshake is free of deadlock.
- `BadReleaseNeverInstalled`: the tree that is tested is the tree that is installed,
  whatever state it was in. `AWorkingCopySurvives`: a backup before the first
  change and a removal after the backup, until a run is told to back up what does
  not work. `RolledBackMeansPrevious`, `UpToDateMeansInstalled`,
  `UpToDateMeansFetched`, `UpdatedMeansRunning`: the four reports are true, the
  second one only while each earlier run ended as it is meant to (`clean`).

### Refinement

`Gallery` defines `Orders`, the orders moderators gave: the logged ones, those in
progress, those cut off. With `L == INSTANCE Lifecycle WITH orders <- Orders`,
every statement maps to a step of `Lifecycle` or to a stutter: `AdminLoad` to
`Order`, `AdminVisibility` to `CarryOut`, `AdminTakeDown` to `TakeDown`,
`ReportHide` to `Autohide`, `UploadInsert` to `Publish`. `ReportHide` after an
approve is a step of `Lifecycle` too: it only unlists. The refinement therefore does
not tell a late hide from a due one; `HiddenOnlyWhenDue` does, and `claim_autohide`
shows it violated.

### Fairness

`FairSpec` assumes weak fairness of each worker's `Step`: threads and processes
are scheduled by the operating system, a statement returns or raises within the
busy timeout (10 s for the server, 5 s for the shell). `Accept`, `Fail` and
`StopServer` have none: nobody has to send a request and nothing has to fail. A
worker that fails may never be followed by another, so the liveness properties
except what was cut off. In `Server`, `Fairness` is weak fairness of the main
thread, of each thread of a signal and of each connection's thread, for the same
reason: a thread whose read has its bytes, whose `select` has returned or whose
event is set gets to run. Clients (`Arrive`, `Send`, `HangUp`) and signals have
none, so a client may stall for ever, and `AnswerComes` speaks of those that have
sent their whole request. Where fairness is not needed the runs use `Spec`.

### Mutants

Each property has a variant of an action with a plausible bug, kept beside the
specification and never part of it; under the run's own configuration it breaks
the property. Examples: a counter updated by arithmetic, `>` for `>=` in the
threshold and the quota, a nonce remembered by its timestamp, a blob written in
place, a handler that calls `shutdown` itself, a 429 that does not return, a
`--force` left out of the fetch, a rollback that forgets the unit.

## Where the code and its comments part

| Run | The source says | What happens |
| --- | --- | --- |
| `claim_autohide` | "the count and the visibility change land together" (`moderation.py:68`) | an approve between the two resolves the reports, and the approved model is hidden; the queue is empty, although "a model parked pending a decision has to stay in the queue" (`handlers_admin.py:31`) |
| `claim_replay` | "remembered for as long as the signing layer would still accept its timestamp" (`replay.py:7`) | remembered one window from receipt, purged with `<=`; a timestamp is acceptable at that moment still (the trace), and one from a clock ahead for up to a window more |
| `claim_refused` | "the connection is closed rather than served with the socket's own address" (`http_server.py:231`), "the caller MUST drop the connection" (`proxyproto.py:53`) | `setup` writes the 400 and returns; the standard library's `handle` then reads a request from the same connection and serves it under the peer's address |
| `claim_rollback` | "rolls back automatically if `/browse` does not answer 200" (`README.md:104`) | the provisioner dies first, and `set -e` ends the updater before its rollback |

Also met, without a run of their own:

- "One transaction. ... inside the same transaction as the vote itself"
  (`handlers_social.py:116`): the vote commits first and the recount later; in between
  other threads read the old counters, and a thread that stops there leaves them.
  `TallyExactOrOwed` and `RecountComes` say what does hold.
- After a run of `ts-update` that died or was interrupted past its checkout, the
  tree is at the new tag and the next run says "already up to date" of a release
  that is not installed (`tools/ts-update:84`; what `clean` excludes).
- An upload past its ban check is inserted after the takedown and stays public,
  against "takes down everything that key uploaded" (`handlers_admin.py:127`);
  `BanLeavesOnlySlipped` says exactly which.
- "their models stay deleted. Approve any you want back" (`tools/tessera-reports:164`):
  approving a deleted model logs and does nothing.
- "nothing is orphaned by returning here" (`handlers_content.py:61`): a duplicate
  model with another thumbnail leaves that thumbnail without a row;
  `DebrisBounded` says that nothing else is.
- An admin action that stops half way leaves a deletion without its log entry (the
  missing transaction of `claim_autohide`; the `cut` orders of the refinement).
- Concurrent uploads exceed the daily quota; the bound is `DailyOvershootBounded`.
- The repository's README names `tessera-reports ban <author-key>`; the command
  takes a model id.
- `request_queue_size = 64` is said to bound the threads (`http_server.py:422`); it
  bounds the kernel's backlog. `TasksMax=16` bounds them, and at that bound a
  connection is dropped without an answer.
- At that bound a signal cannot start its thread either: `Thread.start` raises in
  the main thread, which ends the process by an exception (`SignalRaises`), or, with
  a connection in hand, is logged as that connection's error, and the signal is
  lost (`SignalLost`; systemd then waits for its stop timeout).
- A `kind` that is a JSON list or object raises `TypeError` in `parse_upload`: a 500,
  where `envelope.py:40` says "Always answered with 400".
- `allow` is called outside the `try` of `_dispatch`: its `KeyError` ends the thread
  and the client gets no answer.
- So is `urlsplit` (`http_server.py:335`): its `ValueError` ends the thread before the
  limiter, unanswered and charged to nobody. A request line of bytes that only
  `str.split` takes for spaces passes `parse_request`'s check for a blank line
  (`http_server.py:283`) and ends in silence too.
- The docstring of `http_server` puts the ceiling after the limiter and the route
  (lines 11-16); `_dispatch` checks the Content-Length first. Nothing is read
  either way.
- With `/opt/tessera` gone (a run interrupted between lines 148 and 149 of
  `tools/ts-update`) a run that gets as far as line 123 dies there, the old backup
  just removed; a `systemctl start` that fails at line 152 ends the rollback unreported.
- Installed from a tarball there is no current tag: `git checkout none` fails
  silently (`tools/ts-update:105`, `153`) and leaves the tree at the rejected release.
- The provisioner writes `proxy_protocol = true` and then smoke-tests with `curl`,
  which sends no PROXY header and gets a 400: it dies on the configuration it wrote.
- The rollback puts back code and unit, not `nftables.conf` or `playit.service`.

## Proofs

All theorems hold for every value of the constants that satisfies the `ASSUME`
of the module; TLC evaluates those assumptions in the runs.

| Theorem | States |
| --- | --- |
| `GalleryProofs!TypeCorrect` | `Spec => []TypeOK` |
| `TallyCorrect` | `Spec => []TallyExactOrOwed` |
| `AutohideCorrect` | `Spec => []AutohideNeverMissed` |
| `BanCorrect` | `Spec => []BanLeavesOnlySlipped` |
| `ReferencesCorrect` | `Spec => []ReferencesHold` |
| `LifecycleImplemented` | `Spec => ImplementsLifecycle` |
| `ReplayProofs!ReplayTypeCorrect`, `ReplaySafe`, `RecordsGenuine`, `TableBounded`, `AcceptedBoundedly` | `TypeOK`, `NoEarlyReplay`, `RecordsAreGenuine`, `TableHoldsOneWindow`, `AcceptancesBounded` |
| `UploadProofs!BlobsCorrect`, `DebrisStaysBounded`, `DailyQuotaNearlyHeld`, `HourlyLimitNearlyHeld` | `RowsHaveWholeBlobs`, `DebrisBounded`, `DailyOvershootBounded`, `HourlyOvershootBounded` |
| `UploadProofs!UploadTypeCorrect`, `DiskCeilingNearlyHeld` | `TypeOK`, `DiskOvershootBounded` |
| `LimiterProofs!LimiterTypeCorrect`, `SlotsBounded`, `GlobalPaidForAdmitted`, `AloneNothingLost`, `CeilingRateHeld` | `TypeOK`, `SlotsOvershootBounded`, `GlobalOnlyPaysForAdmitted`, `LostOnlyToRaces`, `GlobalRateHeld` |
| `AddressProofs!AddressLimitHeld` | `AddressRateHeld` |
| `ServerProofs!ServerTypeCorrect`, `ChargedByHeader`, `PaidFirst`, `DeclaredIsStored`, `AnsweredOnce` | `TypeOK`, `ChargedToTheHeader`, `NothingReadUnpaid`, `StoredAsDeclared`, `OneAnswer` |
| `UpdaterProofs!UpdaterTypes`, `WorkingCopySurvives`, `BadReleaseKeptOut` | `TypeOK`, `AWorkingCopySurvives`, `BadReleaseNeverInstalled` |
| `UpdaterProofs!RollbackReportTrue`, `UpToDateReportTrue`, `UpToDateReportFresh`, `UpdateReportTrue` | `RolledBackMeansPrevious`, `UpToDateMeansInstalled`, `UpToDateMeansFetched`, `UpdatedMeansRunning` |

**Gallery.** `TypeInv` strengthens `TypeOK` by what each stage knows: a busy
worker serves a request of its stage's operation (`Serving`), past its lookup the
model has a row (`Found`), a row has an author among the keys (`Authored`).
Without `Serving` even `AdminBan` is not type correct. It is proved statement by
statement, control and data apart. On top of it each safety property is an
invariant of its own: a step either leaves the tables it speaks of alone, or is
owed to (`OwedPersists`: what is owed for a model stays owed until its statement
runs, also when the worker is cut off), or restores it. `AutohideNeverMissed`
needs that counts are made after inserts; `BanLeavesOnlySlipped` that bans grow
only in `AdminBan`, which leaves the takedown owed. The refinement uses `TypeInv`
to show that an order is in `Orders` from `AdminLoad` on, and stays there when it
is logged or cut off.

**ReplayWindow.** `NoEarlyReplay` is inductive with: a thread past `Verify` holds
a genuine, timely request (`Verified`), acceptances lie in the past (`Past`), and
while the latest acceptance of a nonce is less than a window old its row is there
(`Recorded`). `Record` of a thread that stalled is the hard case: an older reading
may purge less than a newer one, never more. `AcceptancesBounded` follows from it
by arithmetic: a record is made within `MaxStall` of its reading (`Prompt`), so two
successive readings of one nonce's acceptances are at least `Window - MaxStall`
apart, and all of them lie within `Window` of the timestamp. `StepsAddUp` is the
sum of such steps.

**UploadStore.** `RowsHaveWholeBlobs` needs what is on disk by each stage
(`StageInv`), and that no digest ever names a short file (`NoShortBlob`), or the
shortcut of `put` for a digest that exists would be wrong. `OthersKeep` says once
that other workers are not disturbed, because blobs only ever come.
`DebrisBounded` needs to know in whose hands a blob without a row is (`Hand`), or
that it is the second thumbnail of a model with a row: then no step but an error or
a crash adds to `Orphans` (`OrphanStep`). Given that and the account of the disk below
it is inductive: a trouble drops what the workers it ends held and what they had in a
temporary file (`OrphansGrow`, `Dropped`), which `SumOfParts` splits by worker, one
request's bytes each: an error one worker's (`RaiseLeaves`), a crash everybody's
(`CrashLeaves`).

The two counting limits have the same shape. For any key and any moment the rows of
the period up to that moment are counted together with the uploads that are past
the check and would fall into it (`DailyInv`, `HourlyInv`): a check adds one only
where it saw fewer rows than the limit, and at most one upload per thread is past
it unseen. Rows age out of a period, never into it.

`DiskOvershootBounded` has two readings that belong to one decision. What is
counted is what is on disk together with what the workers past their walk still owe
(`Committed`); renaming a file over, or not writing one whose digest is there, only
lowers it. A walk misses at most what was owed when it listed the names: one upload
for each thread that was not itself walking. Of the walks that have passed, the one
that listed last bounds the total, and each that had listed before it and still
walks may add one upload to that; `DiskInv` says that there is such an order,
as no variable keeps it. `Workers # {}` is assumed: there is a thread, or there is
nothing to bound.

The bounds speak of sums over finite sets, which the community modules define by
a recursive function. `FiniteSums` proves that this function exists and what follows
from it (sums are natural numbers, take elements one by one, are monotone). The
library's induction theorems take an operator and cannot be used; each induction is
instead by the least counterexample, from `WFMin` and `NatLessThanWellFounded`.

**RateLimiter.** `TypeInv` adds what a call's local variables hold at each stage
(`StageOK`): the bound on a bucket needs the bound on `refilled`. For
`SlotsOvershootBounded` the inserting threads are counted with the table: who is
about to insert has evicted or seen room, so entries and inserters together stay
within the limit and the threads. For `GlobalOnlyPaysForAdmitted` a value that a
slow call is about to store is one that the global bucket could have held.

`GlobalRateHeld` is an account. A call is `Clean` when what it has computed is no
more than the bucket and its reading of the clock allow at this moment. Calls that
are not clean are kept apart (`RateOf`), each with a pair of overlapping calls that
pays for it: of two calls that run at once, the one that ends first can spoil the
other, once, and a spoilt call gives away at most a burst and sets the bucket's
clock back by at most a stall. Pairs that still run are not yet spent, which is why
`overlaps`, counted when a call comes, suffices. `LostOnlyToRaces` is `AloneInv`:
until two calls overlap, what one looked up or counted is still so.

`AddressRateHeld` is the same argument per address, with two things more: the bucket
itself is replaced (an eviction while a call holds it, two insertions of one
address), and the order of the table need not be the order of arrival. The account of
an address (`AccountOf`) names its present bucket, and whether anything was stored
there yet: a new bucket may be counted on for a burst, a used one for what is left
in it (`Balance`). Calls that have not compared yet are in `W`, the calls that will store
into that bucket, or in `D`, those that hold an older bucket or computed from values
that are no longer there. `Money` says that what the address has had and can still
have is within its line, now and at every time that a call in `W` but not in `D` has
read. `Reserve` says who pays: two calls in `W` overlap, so each two of them have a
pair; when one of them stores, the others take their pair with it into `D`; a call
in `D` that gets a token spends its pair for a burst and a stall more (`e`). A
replaced bucket moves whoever holds the old one from `W` to `D` in the same way
(`OwnInserts`).

That leaves the address whose bucket was evicted before `Slots` others had come: the
call that finds nothing gets a full bucket, and somebody has to pay for it
(`LookupPays`). If another call of the address was running, their pair does. If a
stranger ran at the same time, the pair with it does, which each call that has not
looked yet keeps back (`Watched`). And if neither did, it cannot happen: while no pair
is left over (equality in `Reserve`) there is at most one stranger, the table is
ordered as its addresses came but for the call in progress (`Ordered`), and no
stranger is about to evict an address that still counts on its bucket (`Harmless`),
so who is evicted has seen every other one and the newcomer, `Slots` in all
(`EvictedLate`), and opens a new account when it comes back (`Excused`). `Sound` is
asked for only at equality: in general the table is in no such order, but then a
pair is to spare. The invariant was model-checked before it was proved, with the
ghosts `m`, `b`, `W`, `D`, `e` quantified.

**Server.** `ServerInv` says for each stage of a connection what its thread has
recorded by then (`Started`, `Address`, `Paid`, `Answered`). Connections do not
touch each other: `OneMoves` reduces each step of a thread or a client to the
connection that moves, `StagesKeep` covers the main thread, which changes only
stages, and cuts. `Address` is the heart: a source from a header means that all
of `left` was taken, so the next byte is the request's. `SlicesAsDeclared` is the
arithmetic of the envelope, for every length. `TypeOK` says that there are never more
tasks than `MaxTasks`; `TasksInv` counts them: a step starts no task, or one and only
below the limit.

**Updater.** Two small invariants, no types needed. `Kept` names the pair that
works at each stage: the installed one until the backup is complete, the backup
until it is moved, and the mixed pair between the two moves. `Passed` says what the
tree has gone through by each stage; as `head` changes only where a stage before
the tests follows, what is copied from it is sound.

The reports need types and more. `Forward` says what tree, code, unit and process
are relative to the target as a run goes on, `Back` where the pair that the run found
is kept until it is back in place, `Tidy` what a run that follows a clean one starts
from; together they are inductive (`ReportInv`), proved stage by stage.
`UpdatedMeansRunning` is about a step: `Report` reads the answer of the new process,
and what runs by then is the new code.

**Model-checked only.** Liveness (`RecountComes`, `AutohideComes`,
`BannedGoQuiet`, `StopComes`, `AnswerComes`): TLAPS does not reason about fairness
here. That the `claim_*` properties fail is shown by counterexample. Every safety
invariant and every action property of a passing run has a theorem.

## Not modelled

- Reads (`/browse`, `/favourites`, downloads, `/admin/reports`): they change
  nothing. That a download finds its blob is `RowsHaveWholeBlobs`.
- The cryptography and hashing of libhydrogen: a signature verifies or not, a
  digest stands for its bytes.
- Power loss: what survives depends on the file system; `synchronous = NORMAL`
  and unsynced directories promise nothing. A process crash loses neither
  commits nor renames.
- A clock set back.
- Configuration (read once, no state, taken as valid: a `trusted_proxy_cidr` that
  `ip_network` rejects would end every connection in `setup`), `tessera-keys` (one shot over the
  configuration file, which the server reads when it starts).
- The first installation (`proxmox-install.sh`, accounts, packages) and the rules of
  `nftables.conf`: declarative, run once.
- Two runs of `ts-update` at the same time: the script takes no lock, and nothing
  says what should happen.
- The rounding of floats in the limiter; the parsing of headers, which is the
  standard library's; keep-alive, which the handler turns off with every answer.

## Plan

Done, in this order: `Gallery` with `Lifecycle` (the heart of the service),
`ReplayWindow`, `UploadStore`, and their theorems; `RateLimiter`; `Server` from its
parts; `Provision` and `Updater`; their theorems; the limits of uploads, the reports
of the updater, the two rates of the limiter. What would come next:

1. `SignedGallery`: `ReplayWindow` composed with the vote handler. Question: can
   a late duplicate of a console's earlier vote undo its later one?
2. `Server` with `RateLimiter` in place of its three outcomes, as a refinement:
   `LimiterRaises` only where the table can have lost an entry.
