# LiteBeat: models, checks and proofs

LiteBeat is a self-hosted music server: an axum/tokio process over one SQLite
file, a child process that parses tags, and a Svelte player. This directory
holds TLA+ models of it, written from the Rust and TypeScript source, the TLC
configurations that check them, and TLAPS proofs. `PROJECT.json` maps each definition to its
lines, lists the hazards with the properties aimed at them, and the mutants
that show that each property can fail.

Citations such as 02:326 mean `src/02-architecture-and-performance.md:326`;
01:187 is a line of `src/01-product-and-experience.md`; `coordinator.rs`,
`stream.rs` and so on are files under `src/server/src/`, `search.ts`, `engine.ts`
and so on under `src/web/src/`.

## 1. The system

| Component | State it keeps | Operations | Talks to |
|---|---|---|---|
| Scan service (`scanner/coordinator.rs`, `lib.rs`) | `ScanEnv.running` (the slot), tables `scan_jobs`, `request_dedup` | create, cancel, status, `mark_interrupted` at start | handlers share the slot's mutex; submits to the database; spawns the scan task |
| Scan run (`coordinator.rs` `run_scan`, `walk.rs`) | a walker on the blocking pool, a channel of 64, a batch, counters, one cancel flag | receive, look up, parse, flush, mark, finish | disk, parse worker, tables `tracks`, `albums`, `scan_errors` |
| Parse worker (`worker.rs`, `protocol.rs`) | one child process, restarted after a failure | spawn, exchange a line, kill | the scan run over pipes |
| Root registration (`sync_configured_roots`) | table `library_roots` | find by path or name and bring up to date, or insert, at start; rows no longer configured stay | database, file system |
| Database front (`db/mod.rs`, `db/worker.rs`) | bounded queues, the counter of queued bytes, one write and two read threads | submit, take, run, answer, close | every handler over oneshot channels |
| Migrations (`db/migrate.rs`) | `user_version` and the schema | one transaction per migration | write thread, at start |
| Media streaming (`media/`) | quota counters, a task, a channel of one and a body per stream | acquire, decide the range, stream, drop the guard | disk, clients, sessions |
| Authentication (`auth/`) | rate windows, a verification thread with a queue of two, table `sessions` | login, authenticate, CSRF checks, logout | database |
| Administrator creation (`main.rs`) | table `users` | check the name, insert | database, from a process of its own |
| Library and search (`library/`) | none of its own; cursors travel with clients | keyset pages, FTS search, detail | tables scans write |
| Web search and lists (`web/src/lib/search.ts`, `pagination.ts`, `SearchBox.svelte`) | text, generation, timer, requests in flight, pages | type, compose, submit, load more | the API |
| Web player (`web/src/lib/player/`) | queue and cursor, engine state, the element's promises and events, local storage | play, next, previous, shuffle, remove, toggle, media events, restore | the audio element, media streaming |
| Web session (`api.ts`, `router.ts`, `App.svelte`) | CSRF token, user, route | boot, login, sign out, expiry | the stores above |

What is hard here:

- **Interleaving.** Handlers, the scan task, the write thread and cancels meet
  at every `await` and every lock. A handler future may be dropped at an
  `await` when its client disconnects.
- **Partial failure.** A database command can be refused synchronously (queue,
  byte budget), fail, or be answered to nobody. `?` leaves functions in the
  middle.
- **Threads that wait for each other.** The walker blocks in a bounded channel,
  the consumer joins the walker; a stream task waits for a client.
- **Time of check.** Size and mtime, tags and the row are read and written at
  three moments; a flag is read before the statement it should stop.
- **Crash and restart.** Only the tables survive; children may outlive the
  server, and two processes may open one file at once.
- **No numbers on messages.** Answers of the parse child and promises of the
  audio element do not say which request they belong to.
- **Paging over moving data.** Cursors are sort keys, and scans change them.
- **Limits.** The dedup table, queued bytes, queues, batches, error rows, quotas,
  lines of the protocol, cursors.

Correct means, per component: one scan at a time and each answer and cancel
about the right job (service); the table mirrors the disk and nothing present
disappears (run); metadata is that of the file asked for, and children go away
(parse worker); nothing leaks and answers are true (database); places come
back and bytes are exact (media); limits hold, refusals and ended sessions have a
cause (authentication); the version tells the schema, configured roots are
registered, a user is created once (startup); a track nobody changed is listed
once (library); a list belongs to the query shown with it and the last text is
searched for (web search); what is shown as playing sounds, the cursor names it,
and a reload loses nothing (player).

## 2. The modules

### ScanLifecycle: the promise
The abstract life of the job table: one row is worked on at a time, a row moves
only while it is, an ended row never moves, after a restart no row looks alive.
Both modules below implement it, each under its own refinement mapping.

### ScanCoordinator: the scan service
One create request is one handler. `phase` says between which two awaits or
locks it stands, and later where its scan task does:

    Refuse | Arrive -> Lookup -> Reserve -> Ask (refused) or Submit
      -> (write thread: Execute) -> Receive -> StartRun -> Decide
      -> Mark -> Finish -> Release

`running` is the mutex-guarded `Option<Running>`; its flag is identified with
the request that allocated it. `write` is the command in the queue of the write
thread and its oneshot answer, so `Execute` and `Receive` are separate steps,
as are `try_reserve` and the second lock of `running_job` (`Ask`). The
transaction of `create_scan` (purge, limit, job row, dedup row) is one action,
`Commit`, with its three ways to fail. `Disconnect` drops a future at the
lookup or at the transaction; a drop at an earlier await changes nothing and is
a request that stops. A dropped handler's command that still queues is skipped
by the write thread (`db/worker.rs:139`). `Crash` keeps the tables only,
`Restart` is `mark_interrupted` before the listener is bound. The walk is one
phase; a scan that fails by `?` is `Abort`. scan_status only reads.

Job ids are positions in `jobs`, the id -1 is the placeholder as in the code,
and 0 stands for an absent id. Payload stands for the hashed root and force.

### ScanRun: a scan from the inside
Walker, channel, consumer, batch, table and disk of one root. Each receive,
lookup, parse, flush, progress update, join, decision, mark and final update is
an action, each with the database error that leaves by `?`. A path has a kind
(file, link, broken, absent) and a version; a version is a pair of size and
mtime. A row remembers the version the walker saw (`ver`) and the version whose
tags the worker read (`meta`). `Edit` changes the disk at any moment; an edited
file gets a version never seen at its path, because LiteBeat documents that an
edit keeping size and mtime needs `force` (02:212).
So does what comes after a link; a file that was away may come back as it was. The parse worker answers
metadata or fails at any time. An aborted scan leaves its walker behind, so
walkers, channels and flags are per job.

Simplified: directories are flattened (an unreadable directory is its paths
being broken), albums and tags are the version, the 100 ms flush age is a
choice to flush at any item, the order of the walk is any order, and the two
injection points of the tests are left out.

### DbQueue: the database front
`send_write` is three actions (reserve bytes, `try_send`, give the bytes back
when refused), the write loop four (take, deduct, check and run, answer),
`send_read` one, as it holds its lock throughout. Callers vanish (`Drop`), close
drops the read senders, then the write sender, then joins. The round robin of
`send_read` is a search over offsets (`Turn`), as the loop is: that they come to
every queue is for the property to say. A command takes effect or not; what it does to tables is in the other modules. The weak
compare-exchange loop is its one successful round.

### MediaStream: GET /media/tracks/{id}
After authentication and path resolution. `Decision` and `Response` are
`decide_range` and what `serve` and `streaming_response` make of it, as pure
operators over a header and a file length. A header is one of eight forms with
its numbers; `Ignored` says which `decide_range` passes over, among them any
header of an empty file and anything with a comma. `stream[g]` is the handler and then
the task, `chan` the channel of one, `client` the body and who reads it. Reads
may be short, empty (the file shrank) or fail; a seek that fails or takes too
long ends the task as an empty read does. Bytes are counted, not carried.

### AuthService: logins, sessions, logouts
A login goes from await to await: stamp (`Arrive`, before the lock), `CheckLimits`
with both window tables under the lock, `Submit` (the answer of `lookup_user`
and `try_send` have no await between them), the verification thread's `Take`
and `Verify`, `Receive`, and the two commands of `session::issue`. A session's
token is the login that issued it. `Greatest` is the choice both evictions make:
`min_by_key` over a hash map and `ORDER BY ... LIMIT` leave ties open. Which
answer ended a login is not kept, nor who it was that read without changing
anything. Commands may be refused and clients leave at any await. `lapsed`
remembers that a table dropped a live key or met an older stamp.

### ParseOracle and ParseWorker: the parse child
`ParseOracle` is what a scan relies on: one file asked for at a time, metadata
of it or a failure, in the end. `ScanRun` uses the worker so. `ParseWorker` is
how `parse_one`, `ParseWorker::parse` and `worker_main` keep that promise with
a child behind two pipes and a protocol without request numbers.

`at` walks through `parse_one` (spawn, write, read, reap), `kids` is every child
ever spawned with what is in its pipes, `worker` the `Option<ParseWorker>`. A
child reads, parses, answers, hangs, dies by itself or is killed; SIGKILL takes
effect some time after it was sent, so `GiveUp` may leave a killed child that
still answers. `tied` tells whether the kernel kills the child with the server.
`Crash` runs no destructor, `EndScan` is the drop of the worker with
`kill_on_drop`. `Normalize` is `ScanResponse::parsed`: caps first, then
`trim_one` until the metadata fits; texts are lengths.

Left out: requests the child would refuse (the server checks and serializes
them), cgroup directories, and the debug directives of the tests.

### Startup: migrations, roots, administrators
Processes over one database file: servers (`serve`) and commands (`admin
create`), each at one place of its start: open, migrate, mark, path, name,
upsert, bind, up, or check and insert. Every statement or transaction is a step
and any process may die between two. `seen` is the id a query returned and the
upsert relies on; `Upsert` meets UNIQUE as SQLite does. A migration that is
there already is an error for the process that comes late, unless it is one of
`Repeatable`, as 002 is, whose statements are IF NOT EXISTS: then it is run and
its version written again. Directories come and go, and the configuration
that the next server reads may change at any time: the file is edited beside a
running server, or a second server is started with another one. Two histories
serve the properties: `created`, what commands were told, and `crossed`, that
since a server last started alone, servers ran at once of which one had another
configuration or passed a root over.

### Pages: keyset paging beside scans
One client pages through one of six listings: all tracks or albums by title, one
artist's tracks, the latest, one album's tracks, a phrase search, a search for
one or two characters. A row is its sort key and the columns that match; a page
is a set of entries and a cursor the entry it ended with. Each query is a step
of its own, so scans write between the three queries of a short search, too; any
query may fail. `Build` is `build_page`: one row more than the limit is fetched
and dropped, and the last row left becomes the cursor, which `encode` refuses
if it is too long. Rows are never deleted, as in the code.

### WebSearch: the search page
`box` is `SearchController`: text, query, phase, items, timer, generation.
`requests` are fetches without an answer; answers come in any order, fail or are
aborted. Input goes through `SearchBox`, so an input method keeps its text to
itself until `Composed`, which calls `setComposing(false)` and then `setText`.
An aborted request is one of an older generation: `run` and `schedule` abort
just when they begin a new one.

### Player: queue, engine, store and the audio element
Scripts run to their end, then promise reactions (`micro`), then one task: an
event of the element (`tasks`), a click, an answer. `queue`, `engine` and
`saved` are `PlaybackQueue`, `PlayerEngine` and local storage; `audio` is the
element as the HTML standard has it: `load()` rejects a pending promise and
removes queued events, `play()` is denied, resolved at once, or resolved with
the data. A fatal error comes in two kinds: a source that cannot be used rejects
every `play()` (`LoadFails`); an error of the network or the decoder may come in
mid-play as well, leaves the data and `paused` as they are, and `play()` goes on
to resolve (`Breaks`, the field `broken`). `Load`, `PlayAt` and `Play` are the calls of `playAt`, with their
continuation after the await. `SignIn`, `Forget` and `Reload` are the session's
part; `AskAlbum` and `AlbumArrives` stand for every await between a click and
the queue. Shuffle is any permutation of what is behind the cursor.

Positions within a track, loading of details, and messages are left out, and so
are writes to the storage that fail (full, or a private window): the store
swallows them (state.ts:241-245), and `SavedAtRest` says nothing then.

## 3. The runs

All finish with two workers in well under five minutes. `CHECK_DEADLOCK FALSE`
is set throughout: requests, edits and faults are bounded, so every instance
comes to rest.

| Run | Instance | Shows |
|---|---|---|
| scan_service | 3 requests, bodies over 3 keys and 2 payloads, 1 cancel, dedup limit 2, 1 expiry, 2 faults of 4 kinds; 3.2 M states | `AtMostOneScan`, `SlotIsTheTasks`, `CancelReachesItsJob`, `Idempotent` (one job per key, answers and retries fit, the table within its limit), `SlotLossExplained`, and the job table implements `ScanLifecycle` |
| scan_run | 2 scans, 2 paths, 1 edit, 1 fault, channel 1, batch 2; 3.2 M states | `CompletedMirrorsDisk`, `OnlyMissingGoUnavailable`, `UnchangedIsFresh`, `EveryFileAccounted`, and the rows implement `ScanLifecycle` |
| scan_run_live | 1 scan, 3 paths, 1 fault, fair; 66 k states | `UncancelledScanEnds`, `WalkerEnds` |
| db_queue | 3 writes of 3, 1 and 1 bytes, limit 4, queue 1, 1 read, fair; 245 k states | `PayloadExact`, `OutcomeTruthful`, `AcceptedAnswered` (and close returns) |
| media | 3 streams of 2 sessions, limits 2 and 1, file of 2 bytes in chunks of 2, 35 headers, fair; 345 k states | `QuotaExact`, `RangeServed` (and the bytes announced arrive), `GuardsComeBack` |
| auth | 3 logins, 3 sources, 2 names, limits 1 and 2 in windows of 1 and 2 ticks, tables of 2 keys, 2 verifications in flight, 2 sessions living 2 ticks, 1 logout, fair; 1.4 M states | `WithinLimits` (tables, windows, queue, sessions), `RefusedForCause`, `SessionEndsForCause`, `LoginsAnswered` |
| parse_worker | 3 parses of 2 files and a third with too long a name, 2 sets of tags, 1 crash, fair; 211 k states | `OthersDoomed`, `CutFromTheEnd`, `ChildrenEnd`, and the worker implements `ParseOracle`, its liveness included |
| pages | 3 ids, 4 rows a scan may write, any first table, pages of 1, 2 changes, 1 failing query, 6 listings, fair; 343 k states | `ListedOnce`, `ListingEnds` |
| web_search | 2 queries of 3 and 0 pages, 8 acts of the user, fair; 233 k states | `ListIsOfItsQuery`, `LastTextAnswered`, `QuietWhileComposing` |
| player | 3 tracks, one not available, a queue of 3, an album, 5 acts, 2 troubles; 2.7 M states | `CursorNamesTrack`, `PlayingIsHeard`, `SavedAtRest` |
| startup | 2 servers and 2 commands, 3 starts, 2 migrations, the last repeatable, 3 configurations, 4 first tables, 2 edits or mounts at any time; 4.2 M states | `SchemaIsItsVersion`, `RootsAreRegistered`, `CreatedOnce` |

The `TypeOK` of a module is a property of its run, or a conjunct of one, or an
invariant of its proof.

One run states what a test says, and TLC shows what the code does instead:

| Run | Claim | What happens |
|---|---|---|
| cancel_wedge | tests/scanner.rs:547, a cancelled scan becomes `cancelled` | the consumer stops reading and joins the walker, which waits for room in the full channel; `rx` is still alive, so the send neither succeeds nor fails. It takes more files than the channel holds, which the test does not have |

Further configurations are kept for the questions they answer. All but the first
state a claim that TLC refutes (`tlc -config <cfg> <module>`); the counterexamples
are the findings of `PROJECT.json`.

| Configuration, module | Claim | What happens |
|---|---|---|
| `MCDbQueueReads.cfg`, MCDbQueue | `ReadsFindRoom`: a read is refused only when every queue is full, or closed | holds for 3 reads over 2 threads, and is proved (`ReadsAreRefusedFairly`) |
| `MCScanSlotLeak.cfg`, MCScanCoordinator | `RefusedOnlyWhileScanning` (coordinator.rs:4) | `create_scan` returns early when the write queue refuses its command (line 863) and keeps the reservation; from then on every create is refused. A client that disconnects during the transaction leaves the same |
| `MCScanRunLateCancel.cfg`, MCScanRun | `CancelledMarksNothing` (02:326) | a cancel that answers `cancelling: true` after the last look at the flag does not stop the marking |
| `MCMediaStalledError.cfg`, MCMediaStream | `NoProgressAborts` (stream.rs:89) | a read error behind a full channel is sent with no timeout |
| `MCMediaLastChunk.cfg`, MCMediaStream | `BodiesWithinLimits` (body_guard.rs:1) | the guard goes with the task, which ends when the last chunk is queued: for a response of one chunk, at once |
| `MCParseOrphan.cfg`, MCParseWorker | `NoOrphans` (worker.rs:77) | a server that is killed runs no destructor; a child that hangs in its parser and is not in a job object stays |
| `MCPagesSearch.cfg`, MCPages | `SearchListsEveryMatch` (library_api.rs:305) | the merged page of a short search ends behind rows that one column's query had no room for; the cursor skips them |
| `MCStartupLive.cfg`, MCStartup | `LiveJobsStay` (lib.rs:24) | a second server marks the jobs of the first interrupted before it finds the address in use |
| `MCStartupRoots.cfg`, MCStartup | `ListeningKeepsItsRoots` (lib.rs:25) | a second server with another configuration registers its roots in the same table before it finds the address in use; rows of the first are renamed or moved |
| `MCStartupThird.cfg`, MCStartup | `SchemaIsItsVersion` for three migrations, the second repeatable | a process that comes late repeats migration 2 behind migration 3 and writes version 2 again. The code has no third migration: this is what the first one to come will meet |
| `MCPlayerBroken.cfg`, MCPlayer | `FailedIsNotPlaying` (01:183) | after a network or decoding error in mid-play, toggle calls `play()` without a new load; it resolves, and `playing` is shown over the broken source |
| `MCMediaRanges.cfg`, MCMediaStream | `UnsatisfiableIs416`, `MalformedIs416` (02:268) | an empty file answers any range with 200, and any file several ranges that cannot be read |
| `MCWebSearchMore.cfg`, MCWebSearch | `MoreIsUnderWay` (player.test.ts:557) | a `loadMore` that fails after a newer search began leaves `loadingMore` set, and nothing resets it: no more pages, of any search, until the page is left |
| `MCPlayerSignOut.cfg`, MCPlayer | `SignOutForgets` (01:187) | an album asked for before signing out fills and saves the queue after it |

`PROJECT.json` lists ten more divergences that no configuration is needed to
see. A smaller one is visible in WebSearch and harms little: a text that is too
long shows its message only until an answer of the query before it arrives.

`RootsAreRegistered`, `RangeServed` and `PlayingIsHeard` say what the code does
keep, and name what they leave out: servers that `crossed`, empty files and
several malformed ranges, and the sound of a broken element. For each the claim
without the exception is in the table above, refuted.

### Why the bounds are enough
- *Three requests.* One occupies the slot, one races it, one comes after it: a
  retry, a conflict, a replay after expiry and a full dedup table each need at
  most three. `Alike` makes the requests interchangeable, which they are until
  they choose a body; no liveness is checked under it. Two faults let a crash
  or disconnect follow a refused or failed command.
- *Two paths, two scans.* Every property of ScanRun speaks of one path, beside
  another that keeps channel or batch busy; the second scan meets the rows and
  the leftover walker of the first. The wedge needs one item in hand, one in
  the channel and one in the walker, so the live runs have three paths.
- *Channel 1, batch 2, error rows 1.* Empty, filling and full all occur.
- *Three writes, queue 1.* One running, one queued, one refused, and byte sums
  that fit, do not fit, and fit only after a deduction.
- *A file of two bytes.* A short read needs two bytes wanted and one read, a
  stall one chunk in the channel and one in hand. `RangeServed` is independent
  of the streamed file: it covers every length from 0 to 4 for every header.
- *Three logins.* A third meets a table, a queue or a session table that two
  have filled; two refuse each other, the third sees whether the refusal was
  counted. Ticks 0 to 2 let a window and a session end and stamps be overtaken.
- *Three parses, one crash.* A late answer of the first file could be taken for
  the second; the third meets what both have left. Children of a dead server,
  of a timeout and of a live one occur side by side.
- *Three ids, pages of one.* A cursor stands on a row, one row is before and one
  behind it; titles tie and differ, one is too long for a cursor; two changes
  move a row across the cursor and back. More ids per page add nothing that two
  pages do not show.
- *Eight acts on the search page.* Type, compose, commit, submit, and two rounds
  of loadMore with an older search still under way.
- *Five acts, two troubles.* Two tracks one after the other, a removal or a
  shuffle between them and a toggle, while the first stalls, fails or
  breaks.
- *Three starts.* A server, one that races or follows it, and a command between
  them. Two migrations are one that is applied and one that is not; versions up
  to 3 include a file that is too new.
- `MaxExpiries`, `MaxFaults`, `MaxEdits`, `MaxJobs`, `MaxCrashes`, `MaxChanges`,
  `MaxFailures`, `MaxEvents`, `MaxTrouble` bound what the environment does,
  `MaxAsks`, `MaxListings`, `MaxInputs`, `MaxClicks`, `MaxStarts` how long a run is, `Keys`,
  `Bodies`, `Headers`, `FirstKinds`, `Expiring`, `Metas`, `Rows`, `FirstTables`,
  `FirstRows`, `Configs`, `Albums` what it may choose; `MaxTime` stops the clock.
  All are constants of the modules.

### Fairness
- ScanRun: weak fairness of the task and of each walker, as tokio polls what is
  ready and a blocking thread runs. None for users, cancels, edits or faults.
- DbQueue: weak fairness of the threads, of a caller inside the synchronous
  `send_write` and of a `close` that has begun. Nobody must call, drop or close.
- MediaStream: weak fairness of the task and its timers. A client may stall for
  ever, and nothing makes it read or leave.
- AuthService: weak fairness of each handler after its stamp and of the
  verification thread, if it started. Clients may leave; nobody must come.
- ParseWorker: weak fairness of `parse_one` and its timers, of signals, and of a
  child that waits for input. Nothing makes a parser return.
- Pages: the server answers and this client, having more to get, goes on.
- WebSearch: timers fire and every fetch ends, with an answer or an error. The
  user need not do anything.
- ScanCoordinator, Player and Startup are checked for safety; the waits of the
  first are those of ScanRun and DbQueue.

## 4. The proofs

Each theorem holds for every value of the constants, from the `ConstantsOK` of
its module alone (Startup: and `ConfigsOK` and `FirstRowsOK`; Player:
`PlayerConstantsOK`; AuthService: `AuthConstantsOK`); only
`VersionTellsTheSchema` has a hypothesis of its own. The proofs have one step per
action of `Next`, and under it one per part of the invariant the action can disturb.

| Module | Theorem | States |
|---|---|---|
| ScanCoordinator_proofs | `TypeCorrect` | `Spec => []TypeOK` |
| | `OneScanAtATime` | `Spec => []AtMostOneScan` |
| | `SlotBelongsToTask` | `Spec => []SlotIsTheTasks` |
| | `CancelsReachTheirJob` | `Spec => []CancelReachesItsJob` |
| | `LossesExplained` | `Spec => []SlotLossExplained` |
| | `JobsLiveTheLifecycle` | `Spec => ImplementsLifecycle`, a refinement |
| | `RepeatsAreSafe` | `Spec => []Idempotent` |
| ScanRun_proofs | `ScanTyped` | `Spec => []TypeOK` |
| | `RowsAreFresh` | `Spec => []UnchangedIsFresh` |
| | `CompletedIsMirror` | `Spec => []CompletedMirrorsDisk` |
| | `NothingPresentIsLost` | `Spec => OnlyMissingGoUnavailable`, a property of steps |
| | `RowsLiveTheLifecycle` | `Spec => ImplementsLifecycle`, a refinement |
| | `FilesAreAccounted` | `Spec => []EveryFileAccounted` |
| DbQueue_proofs | `OutcomesAreTrue` | `Spec => []OutcomeTruthful` |
| | `BytesAreCounted` | `Spec => []PayloadExact` |
| | `ReadsAreRefusedFairly` | `Spec => ReadsFindRoom`, a property of steps |
| MediaStream_proofs | `QuotaCountsGuards` | `Spec => []QuotaExact` |
| | `RangesAreServed` | `Spec => []RangeServed` |
| Pages_proofs | `PagesTyped` | `Spec => []TypeOK` |
| | `EveryMatchListedOnce` | `Spec => []ListedOnce` |
| ParseWorker_proofs | `WorkerTyped` | `Spec => []TypeOK` |
| | `NoSecondChild` | `Spec => []OthersDoomed` |
| | `AnswersLikeTheOracle` | the safety part of `ImplementsOracle`, a refinement |
| | `TagsAreCutFromTheEnd` | `Spec => []CutFromTheEnd` |
| StartupAuth_proofs | `VersionTellsTheSchema` | `LastOnly` entails `Spec => []SchemaIsItsVersion` |
| | `UserCreatedOnce` | `Spec => []CreatedOnce` |
| | `ListensWithItsRoots` | `Spec => []RootsAreRegistered` |
| | `LimitsAreKept` | `AuthSpec => []WithinLimits` |
| | `RefusalsAreEarned` | `AuthSpec => RefusedForCause`, a property of steps |
| | `SessionsEndWithCause` | `AuthSpec => SessionEndsForCause`, a property of steps |
| WebClient_proofs | `SearchTyped` | `Spec => []TypeOK` |
| | `ListBelongsToQuery` | `Spec => []ListIsOfItsQuery` |
| | `QuietWhileTyping` | `Spec => QuietWhileComposing`, a property of steps |
| | `PlayerTyped` | `PlayerSpec => []PlayerTypeOK` |
| | `QueueNamesTrack` | `PlayerSpec => []CursorNamesTrack` |
| | `QueueIsSaved` | `PlayerSpec => []SavedAtRest` |
| | `PlayingMeansSound` | `PlayerSpec => []PlayingIsHeard` |

### ScanCoordinator
Layers of one invariant, each proved from the ones before.

1. `TypeInv` adds to `TypeOK` what typing a row needs: a request past `Arrive`
   has a body, and an ending task has decided on a final state.
2. `SlotInv` ties slot and handlers together. `AtMostOneScan` is not inductive:
   nothing in it stops `try_reserve` while another holds the slot. So:
   whoever holds it is named by its flag (`HolderNamed`), a handler before
   `confirm_job` has the placeholder there, a task its own job, and a slot that
   names nobody is empty. Two holders would both be
   `running.cancel`, hence equal; a leaked slot is allowed, since it still
   names one request only. `LossKnown` says of that request that it is gone for
   good, and with which answer.
3. `CancelInv`: job ids are committed once (`MadeOnce`) and a positive id in
   the slot was made by the request whose flag is there, so an id that hits
   raises the flag of its own request, and flags are never lowered.
4. `LifeInv` says how far the row of a request is: queued from the commit until
   the task runs, running until it ends, absent if the transaction did not
   commit; and nobody works while the process is down. With one holder at most,
   the row `ActiveJob` chooses is the holder's, and every step is one of
   `ScanLifecycle` or changes nothing it sees.
5. `DedupInv`: a record stands for a job of its own key and payload, and a key
   has no more jobs than records of it that expired, plus the one that lives.
   A commit needs a key without a live record, an expiry pays for the next.
6. `AnswerInv`: a promise that is past stays past, because a later record of
   the key stands for a later job; every request beyond its lookup met a promise
   that is past, or was answered by it.

### ScanRun
1. `TypeInv`: `TypeOK`, and that items on the way and operations of the batch
   are of paths and versions that were there.
2. Freshness: versions only grow, and the tags of an operation were read after
   the version the walker saw. So a row whose version is the file's own has the
   tags of that file, however many edits fell between.
3. Accounting, for a file nobody touched since the scan began: it is ahead of
   the walker, on its way in channel or hand, in the batch, or stamped with this
   scan, or its parse failed - until the scan is cancelled or the walk is known
   to be incomplete. When the task marks, nothing is ahead or on its way, so what is
   not stamped is missing; that gives `NothingPresentIsLost`, and, with
   freshness and the flushes, the mirror a completed scan leaves.
4. States: the row of the job is queued until its task begins and running until
   it ends; the column of states is mapped to `ScanLifecycle`.
5. Counting. `EveryFileAccounted` compares a set of rows with counters, and
   neither is a sum of the other unless no path counts twice. So first
   (`ApartInv`): a path is in one place of the way only, ahead of the walker, in
   its hand, in the channel, in the task's hand, in the batch or stamped, and in
   channel and batch at one index. A flush then stamps as many rows as its batch
   is long, and along the scan what was scanned is what is stamped or waits,
   up to the failures (`CountInv`). A row that ended carries these numbers, and
   nothing is stamped with its job any more (`FinishedInv`).

### The others
- **DbQueue**: the life of a write. It is in the queue once or in the hand of
  the thread, never both, and only while its caller waits or has left; until its
  closure ran it is not in the log, and then it is nowhere but in the hand, with
  a result that says whether it is. Bytes: `PayloadExact` counts the writes that
  reserve, wait in the queue or are in the thread's hand. `PayloadInv` says that
  no write is in two of these places, so every step that moves the counter moves
  one write in or out of the set, and every other leaves the set alone. Refused
  reads: `ReadsAreRefusedFairly` needs the limit of the queues (`CapInv`), since
  no room in a queue then means a full one, and that read threads pass on a
  query's own outcome only (`ReplyInv`): nobody but `SendRead` says `full`. And
  it needs that the loop tries every queue: `EveryQueueHasATurn` finds, for any
  queue and any start, the offset that comes to it modulo the number of threads.
- **MediaStream**: the two counters are the cardinalities of the sets of
  requests that hold a guard (`QuotaInv`), and what the client has, the channel
  holds, the task has in hand and is left to read is together what was announced
  (`BytesInv`). Dropped guards in any order keep the first, a short read the
  second.
- **Pages**: an untouched row has been shown just if its entry is not behind
  the cursor. The order of entries is total (the id breaks ties), so a page that
  was cut has left out only what is behind its own last row.
- **ParseWorker**: between two files the pipes are empty and the child waits;
  while the server reads, the file is in exactly one place: input, parser or
  answer. A worker that timed out, for which this may not hold, has been killed
  and is not asked again. Tags: each step of `TrimOne` makes them smaller and
  gives up nothing while something of less matter is left (`Cut`), so trimming
  ends, and where it stops for want of anything to give up only a title within
  its cap remains. From `ConstantsOK` this uses that the cap of a field (1024)
  is within the limit of all (16384), and that `parse_file` reports no loss of
  its own. `Trim` is recursive; that it is defined and does this is shown from a
  smallest counterexample (`Least`: a set of numbers has a least one).
- **Startup** (in StartupAuth_proofs): a process that migrates has read a version that may be old by
  now; versions only grow, so the migration it turns to is there already, or is
  the very next. If it is there it fails, or is repeated; that writes a version
  behind the file's own unless it is the last, so the theorem has the hypothesis
  `LastOnly == Repeatable \subseteq {Supported}`. It holds of 001 and 002, and
  `MCStartupThird.cfg` shows that it is needed. Roots: until they have crossed,
  servers that run at once have one configuration. Of two, one that
  moved a row is ahead of the other in the list and has registered this root
  already, or is behind and turns to it later; a rename or an update never takes
  the path of a root that is registered.
- **AuthService** (in StartupAuth_proofs). `RefusedForCause` holds in any order
  of stamps: the logins admitted under a key with a stamp in the window of its
  entry are at least as many as the entry counts (`Backed`), and an eviction only
  drops entries. `WindowLimit` needs the order, and says nothing once `lapsed`
  is set. Until then an entry counts all logins since its start, one of them has
  that start as its stamp, and in the window before it fewer than the limit were
  admitted (`Tight`); a key without an entry was dropped at a time at which a
  window might begin (`Ready`). So a stretch that meets two windows misses the
  first login of the earlier, which is where 2 max - 1 comes from. Sets of
  sessions are compared by their size: one that is left out of the kept ones
  shows that the limit was met.
- **WebSearch** (in WebClient_proofs): what may still arrive. A request of the present generation is
  for the present query; a first page only comes to an empty list, a further
  page only to the list that ends before it; `loadingMore` stays set while one
  is under way, of any generation.
- **Player** (in WebClient_proofs). Every step is of one of eleven forms
  (`StepTaken`: a reaction, `play()`, a delivery, a track loaded, the queue
  edited ...), each saying only what the parts of the invariant need; a part is
  then shown for forms and not for actions. `CursorNamesTrack` needs beside it
  only that without an element the engine has no track, but for an album that
  arrived after signing out (`Off`). `SavedAtRest` follows from `Saves`: the queue
  is saved, or a reaction, a task or a pending promise owes the save. For
  `PlayingIsHeard` the invariant speaks of what is not delivered yet. While the
  element sounds, the last event that matters says so, or none says otherwise and
  the engine is playing or about to be told (`SoundTold`). While it is silent,
  every event that says it sounds has one behind it that says it does not, and
  an engine that shows playing has such an event still to come (`SilenceTold`).
  An element that broke is held to the second half only: its error may be the last
  event told while it goes on playing what it has.
  `load()` drops the queued events and rejects their promises, so each reaction
  is traced to the task it came from (`ReactionsOK`), and a `play()` that waits
  comes after them (`PlayerOrder`).

### Only model-checked
The liveness properties, since fairness and ENABLED are out of the prover's
reach: `UncancelledScanEnds` and `WalkerEnds` (the scans), `AcceptedAnswered`
(DbQueue), `GuardsComeBack` (MediaStream), `ListingEnds` (Pages), `ChildrenEnd`
and the liveness part of `ImplementsOracle` (ParseWorker), `LoginsAnswered`
(AuthService) and `LastTextAnswered` (WebSearch). Every safety property that a
passing run checks is also a theorem.

## 5. Not modelled, and what could come next

| Left out | Why |
|---|---|
| media path resolution | stateless checks against the file system |
| configuration, HTTP assembly, errors | no state that changes after the start; what validation promises of the roots is an assumption of Startup (`ConfigsOK`) |
| rendering, routes | show what the stores hold; the handlers that matter are actions of WebSearch and Player |
| `Paginator` | its callers leave one request in flight at a time: Retry is offered only after an error and More is disabled while loading, so it is sequential there |
| `queue_ids`, track and album detail | one read each, without a cursor |
| normalisation of names and queries | a function of text; a query is a value, and what it matches any set of rows |
| positions, details and messages of the player | no decision of queue or engine depends on them |
| the prompt and the hashing in `admin create`, the hash in login | no state; the hash's time and verdict are a choice |
| refusals of the parse child that no request of this server reaches, cgroup directories | unreachable from `ParseWorker::parse`, or only a limit the kernel enforces |
| fault and delay injections of the tests | fields of `ScanConfig` that only tests set |

What could come next: the walker's stack of directories in ScanRun, so that an
unreadable directory is more than its files.
