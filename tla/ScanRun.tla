------------------------------ MODULE ScanRun ------------------------------
(***************************************************************************)
(* One library root and the scans run over it, one after the other:        *)
(* run_scan with the blocking task that walks the disk, the bounded channel*)
(* between them, the parse worker, the batches and the tracks table, while *)
(* users edit the disk, cancel scans, and the database or the process      *)
(* fails.                                                                  *)
(*                                                                         *)
(* An aborted scan leaves its walker running beside the next scan, so      *)
(* walkers, channels and cancel flags are per job. How a job comes about   *)
(* is module ScanCoordinator's subject; Create stands for it here.         *)
(***************************************************************************)
EXTENDS Integers, Sequences, FiniteSets

CONSTANTS Paths,         \* relative paths of audio files below the root
          MaxJobs,       \* bound: how many scans run
          QueueItems,    \* WALK_QUEUE_ITEMS
          BatchMaxItems, \* BATCH_MAX_ITEMS
          MaxErrorRows,  \* MAX_ERROR_DETAIL_ROWS
          FirstKinds,    \* bound: what may stand at a path at first
          MaxEdits,      \* bound: how often the disk changes
          MaxFaults,     \* bound: how many faults happen
          Faults,        \* the kinds of fault that may happen
          NoPath         \* the item of an empty hand

\* file   - readable audio, link - skipped with a detail row,
\* broken - unreadable: the walker reports an error, absent - nothing there.
Kinds == {"file", "link", "broken", "absent"}

\* db - a database command fails; crash - the process dies.
FaultKinds == {"db", "crash"}

ASSUME ConstantsOK ==
    /\ NoPath \notin Paths /\ FirstKinds \subseteq Kinds
    /\ MaxJobs \in Nat /\ MaxEdits \in Nat /\ MaxFaults \in Nat
    /\ QueueItems \in Nat \ {0} /\ BatchMaxItems \in Nat \ {0}
    /\ MaxErrorRows \in Nat
    /\ Faults \subseteq FaultKinds

VARIABLES
    disk,     \* what stands at each path: a kind, and the version of the file
    touched,  \* history: the paths edited since the last scan was created
    tracks,   \* table tracks: [ver 0] where there is no row
    jobs,     \* table scan_jobs
    walk,     \* per job, the walker and the channel it fills
    cancel,   \* per job, the flag that ScanEnv::cancel raises
    task,     \* run_scan of the last job
    edits,    \* how often the disk changed
    faults    \* how many faults happened

vars == <<disk, touched, tracks, jobs, walk, cancel, task, edits, faults>>

----------------------------------------------------------------------------
(* Values *)

Jobs == 1 .. MaxJobs
Job == Len(jobs)
NoTrack == [ver |-> 0, meta |-> 0, available |-> FALSE, seen |-> 0]
NoItem == [path |-> NoPath, kind |-> "absent", ver |-> 0]

Walker(at) == [at |-> at, todo |-> {}, item |-> NoItem, queue |-> <<>>]

Idle == [at |-> "idle", force |-> FALSE, item |-> NoItem, batch |-> <<>>,
         scanned |-> 0, updated |-> 0, failed |-> 0, errs |-> 0,
         ok |-> TRUE, stopped |-> FALSE, fin |-> "none"]

NewJob == [state |-> "queued", scanned |-> 0, updated |-> 0, failed |-> 0]

\* The phases in which run_scan holds the receiving end of its channel.
Receiving == {"recv", "check", "parse", "tally", "progress", "final", "join",
              "decide", "mark", "end"}

Fault(kind) == kind \in Faults /\ faults < MaxFaults /\ faults' = faults + 1
NoFault == UNCHANGED faults

Init ==
    /\ disk \in [Paths -> [kind : FirstKinds, ver : {1}]]
    /\ touched = {}
    /\ tracks = [p \in Paths |-> NoTrack]
    /\ jobs = <<>>
    /\ walk = [j \in Jobs |-> Walker("new")]
    /\ cancel = [j \in Jobs |-> FALSE]
    /\ task = Idle
    /\ edits = 0
    /\ faults = 0

\* create_scan committed a job and start spawned its task.
Create ==
    /\ task.at = "idle" /\ Job < MaxJobs
    /\ jobs' = Append(jobs, NewJob)
    /\ \E force \in BOOLEAN :
         task' = [Idle EXCEPT !.at = "begin", !.force = force]
    /\ touched' = {}
    /\ UNCHANGED <<disk, tracks, walk, cancel, edits, faults>>

----------------------------------------------------------------------------
(* The walker: the blocking producer over DirectoryWalker *)

\* The sender not noticing that the receiver is gone, a mutant.
RxKept(j) == TRUE
RxOpen(j) == j = Job /\ task.at \in Receiving

Room(j) == Len(walk[j].queue) < QueueItems

\* next() looks at one more path; an item is handed on unless cancelled.
Pull(j) ==
    /\ walk[j].at = "pull"
    /\ \/ walk[j].todo = {} /\ walk' = [walk EXCEPT ![j].at = "done"]
       \/ \E p \in walk[j].todo :
            IF disk[p].kind = "absent"
            THEN walk' = [walk EXCEPT ![j].todo = @ \ {p}]
            ELSE IF cancel[j]
            THEN walk' = [walk EXCEPT ![j].at = "done"]
            ELSE walk' = [walk EXCEPT ![j].at = "send", ![j].todo = @ \ {p},
                     ![j].item = [path |-> p, kind |-> disk[p].kind,
                                  ver |-> disk[p].ver]]
    /\ UNCHANGED <<disk, touched, tracks, jobs, cancel, task, edits, faults>>

\* block_on(tx.send): waits for room, fails once the receiver is dropped. The
\* flag is not read while it waits.
Send(j) ==
    /\ walk[j].at = "send"
    /\ \/ /\ RxOpen(j) /\ Room(j)
          /\ walk' = [walk EXCEPT ![j].at = "pull", ![j].item = NoItem,
                                  ![j].queue = Append(@, walk[j].item)]
       \/ ~RxOpen(j) /\ walk' = [walk EXCEPT ![j] = Walker("done")]
    /\ UNCHANGED <<disk, touched, tracks, jobs, cancel, task, edits, faults>>

----------------------------------------------------------------------------
(* run_scan *)

UnchangedByTask == UNCHANGED <<disk, touched, cancel, edits>>

\* "?" on a database error: the receiver is dropped, the row keeps its state.
Abort == /\ Fault("db")
         /\ task' = [Idle EXCEPT !.at = "release"]
         /\ UNCHANGED <<tracks, jobs, walk>>

Begin ==
    /\ task.at = "begin"
    /\ \/ /\ NoFault
          /\ jobs' = [jobs EXCEPT ![Job].state = "running"]
          /\ walk' = [walk EXCEPT ![Job] = [Walker("pull") EXCEPT !.todo = Paths]]
          /\ task' = [task EXCEPT !.at = "recv"]
          /\ UNCHANGED tracks
       \/ Abort
    /\ UnchangedByTask

\* The walker's sender kept alive after its loop, a mutant.
NeverClosed == FALSE
ChannelClosed == walk[Job].queue = <<>> /\ walk[Job].at = "done"

\* recv().await: an item, or None once the walker is done and all is read.
Recv ==
    LET w == walk[Job] IN
    /\ task.at = "recv"
    /\ \/ /\ w.queue # <<>>
          /\ task' = [task EXCEPT !.at = "check", !.item = Head(w.queue)]
          /\ walk' = [walk EXCEPT ![Job].queue = Tail(@)]
       \/ /\ ChannelClosed
          /\ task' = [task EXCEPT !.at = "final"]
          /\ UNCHANGED walk
    /\ UNCHANGED <<tracks, jobs, faults>> /\ UnchangedByTask

\* The limit of detail rows off by one, a mutant.
ErrorRoomForOneMore == task.errs <= MaxErrorRows
ErrorRoom == task.errs < MaxErrorRows
\* record_error counts a detail row, whether or not its insert succeeds.
Listed == IF ErrorRoom THEN task.errs + 1 ELSE task.errs

Row(p) == tracks[p].ver # 0
KeptRow(p) == Row(p)

Unchanged(item) == ~task.force /\ tracks[item.path].ver = item.ver

\* What a parse reads is the content of the moment: meta is the version read, or
\* 0 for what a link put in the file's place leads to.
Stamp(p) == [path |-> p, stamp |-> TRUE, ver |-> 0, meta |-> 0]
Upsert(item) == [path |-> item.path, stamp |-> FALSE, ver |-> item.ver,
                 meta |-> IF disk[item.path].kind = "file"
                          THEN disk[item.path].ver ELSE 0]

\* The received item, after one load of the flag: stop, note a link or an
\* error, or look the file's row up and compare size and mtime.
Check ==
    LET item == task.item IN
    /\ task.at = "check"
    /\ \/ /\ NoFault /\ UNCHANGED <<tracks, jobs, walk>>
          /\ task' =
               IF cancel[Job]
               THEN [task EXCEPT !.at = "final", !.stopped = TRUE, !.item = NoItem]
               ELSE CASE item.kind = "link" ->
                           [task EXCEPT !.at = "tally", !.item = NoItem,
                                        !.errs = Listed]
                      [] item.kind = "broken" ->
                           [task EXCEPT !.at = "tally", !.item = NoItem,
                                        !.errs = Listed, !.ok = FALSE,
                                        !.failed = @ + 1]
                      [] item.kind = "file" /\ Unchanged(item) ->
                           [task EXCEPT !.at = "tally", !.item = NoItem,
                                        !.scanned = @ + 1,
                                        !.batch = Append(@, Stamp(item.path))]
                      [] OTHER ->
                           [task EXCEPT !.at = "parse", !.scanned = @ + 1]
       \/ item.kind = "file" /\ ~cancel[Job] /\ Abort
    /\ UnchangedByTask

\* parse_one answers metadata: the worker is alive and could read the file.
Parsed ==
    /\ task.at = "parse" /\ disk[task.item.path].kind \in {"file", "link"}
    /\ task' = [task EXCEPT !.at = "tally", !.item = NoItem,
                            !.batch = Append(@, Upsert(task.item))]
    /\ UNCHANGED <<tracks, jobs, walk, faults>> /\ UnchangedByTask

\* Or an error: the worker could not be spawned, reported a bad file, timed
\* out, broke the protocol or died. Whichever worker comes next may do either, so
\* no variable remembers it. A known row is stamped; for an unknown file the
\* loop continues past the flush check.
ParseFailed ==
    LET p == task.item.path
        t == [task EXCEPT !.item = NoItem, !.failed = @ + 1, !.errs = Listed]
    IN
    /\ task.at = "parse"
    /\ task' = IF KeptRow(p)
               THEN [t EXCEPT !.at = "tally", !.batch = Append(@, Stamp(p))]
               ELSE [t EXCEPT !.at = "recv"]
    /\ UNCHANGED <<tracks, jobs, walk, faults>> /\ UnchangedByTask

\* Recording the size and mtime found when the batch is written, a mutant.
VersionAtFlush(op) == disk[op.path].ver
VersionOf(op) == op.ver

\* The flush transaction: stamps and upserts, each path at most once.
Flushed(batch) ==
    [p \in Paths |->
        IF \E i \in DOMAIN batch : batch[i].path = p
        THEN LET op == batch[CHOOSE i \in DOMAIN batch : batch[i].path = p] IN
             IF op.stamp
             THEN [tracks[p] EXCEPT !.available = TRUE, !.seen = Job]
             ELSE [ver |-> VersionOf(op), meta |-> op.meta,
                   available |-> TRUE, seen |-> Job]
        ELSE tracks[p]]
Upserts(batch) == Cardinality({i \in DOMAIN batch : ~batch[i].stamp})

Write(batch, next) ==
    \/ /\ NoFault
       /\ tracks' = Flushed(batch)
       /\ task' = [task EXCEPT !.at = next, !.batch = <<>>,
                               !.updated = @ + Upserts(batch)]
       /\ UNCHANGED <<jobs, walk>>
    \/ batch # <<>> /\ Abort

BatchFull == Len(task.batch) >= BatchMaxItems

\* A full batch is written; so is any batch 100 ms after the last one.
Tally ==
    /\ task.at = "tally"
    /\ \/ Write(task.batch, "progress")
       \/ /\ ~BatchFull
          /\ task' = [task EXCEPT !.at = "recv"]
          /\ UNCHANGED <<tracks, jobs, walk, faults>>
    /\ UnchangedByTask

Counted == [jobs EXCEPT ![Job].scanned = task.scanned,
                        ![Job].updated = task.updated,
                        ![Job].failed = task.failed]

Progress ==
    /\ task.at = "progress"
    /\ \/ /\ NoFault
          /\ jobs' = Counted
          /\ task' = [task EXCEPT !.at = "recv"]
          /\ UNCHANGED <<tracks, walk>>
       \/ Abort
    /\ UnchangedByTask

\* The flush after the loop forgotten, a mutant.
NothingLeft == <<>>
LastBatch == task.batch

FinalFlush ==
    /\ task.at = "final"
    /\ Write(LastBatch, "join")
    /\ UnchangedByTask

\* producer.await, while rx is still alive.
Join ==
    /\ task.at = "join" /\ walk[Job].at = "done"
    /\ task' = [task EXCEPT !.at = "decide"]
    /\ UNCHANGED <<tracks, jobs, walk, faults>> /\ UnchangedByTask

\* An incomplete walk trusted, a mutant.
TrustAnyWalk == TRUE
WalkOk == task.ok

Decide ==
    /\ task.at = "decide"
    /\ task' = IF task.stopped \/ cancel[Job]
               THEN [task EXCEPT !.at = "end", !.fin = "cancelled"]
               ELSE IF WalkOk THEN [task EXCEPT !.at = "mark"]
               ELSE [task EXCEPT !.at = "end", !.fin = "failed"]
    /\ UNCHANGED <<tracks, jobs, walk, faults>> /\ UnchangedByTask

\* Rows no scan ever stamped marked only, a mutant.
NeverSeen(p) == tracks[p].seen = 0
Unseen(p) == tracks[p].seen # Job

Mark ==
    /\ task.at = "mark"
    /\ \/ /\ NoFault
          /\ tracks' = [p \in Paths |->
                IF Row(p) /\ Unseen(p) THEN [tracks[p] EXCEPT !.available = FALSE]
                                       ELSE tracks[p]]
          /\ task' = [task EXCEPT !.at = "end", !.fin = "completed"]
          /\ UNCHANGED <<jobs, walk>>
       \/ Abort
    /\ UnchangedByTask

End ==
    /\ task.at = "end"
    /\ \/ /\ NoFault
          /\ jobs' = [Counted EXCEPT ![Job].state = task.fin]
          /\ task' = [Idle EXCEPT !.at = "release"]
          /\ UNCHANGED <<tracks, walk>>
       \/ Abort
    /\ UnchangedByTask

Release ==
    /\ task.at = "release"
    /\ task' = Idle
    /\ UNCHANGED <<tracks, jobs, walk, faults>> /\ UnchangedByTask

----------------------------------------------------------------------------
(* Users, the disk, crashes *)

Cancel ==
    /\ task.at \notin {"idle", "down"} /\ ~cancel[Job]
    /\ cancel' = [cancel EXCEPT ![Job] = TRUE]
    /\ UNCHANGED <<disk, touched, tracks, jobs, walk, task, edits, faults>>

\* A path is written, removed, replaced or becomes unreadable. A file that is
\* written, or comes after a link, has a size or mtime never seen there; one that
\* was away may come back as it was.
Edit(p) ==
    /\ edits < MaxEdits
    /\ \/ \E kind \in Kinds \ {disk[p].kind} :
            disk' = [disk EXCEPT ![p] =
                [kind |-> kind, ver |-> IF @.kind = "link" THEN @.ver + 1 ELSE @.ver]]
       \/ /\ disk[p].kind = "file"
          /\ disk' = [disk EXCEPT ![p].ver = @ + 1]
    /\ touched' = touched \cup {p}
    /\ edits' = edits + 1
    /\ UNCHANGED <<tracks, jobs, walk, cancel, task, faults>>

\* The process dies; the child exits on the end of its input.
Crash ==
    /\ task.at # "down" /\ Fault("crash")
    /\ task' = [Idle EXCEPT !.at = "down"]
    /\ walk' = [j \in Jobs |-> IF walk[j].at = "new" THEN walk[j] ELSE Walker("done")]
    /\ UNCHANGED <<disk, touched, tracks, jobs, cancel, edits>>

\* mark_interrupted without 'queued', a mutant.
OnlyRunning(s) == s = "running"
Interruptible(s) == s \in {"queued", "running"}

Restart ==
    /\ task.at = "down"
    /\ task' = Idle
    /\ jobs' = [j \in DOMAIN jobs |-> IF Interruptible(jobs[j].state)
                                      THEN [jobs[j] EXCEPT !.state = "interrupted"]
                                      ELSE jobs[j]]
    /\ UNCHANGED <<disk, touched, tracks, walk, cancel, edits, faults>>

----------------------------------------------------------------------------
Task ==
    \/ Begin \/ Recv \/ Check \/ Parsed \/ ParseFailed \/ Tally \/ Progress
    \/ FinalFlush \/ Join \/ Decide \/ Mark \/ End \/ Release

Next ==
    \/ Create \/ Task \/ Cancel \/ Crash \/ Restart
    \/ \E j \in Jobs : Pull(j) \/ Send(j)
    \/ \E p \in Paths : Edit(p)

Spec == Init /\ [][Next]_vars

\* The runtime polls the task, the walker has a thread of its own, a parse is
\* over after 5 seconds, and the write thread answers. Nobody owes us a scan, a
\* cancel, an edit or a crash.
Fairness == WF_vars(Task) /\ \A j \in Jobs : WF_vars(Pull(j) \/ Send(j))
FairSpec == Spec /\ Fairness

----------------------------------------------------------------------------
(* Properties *)

Items == [path : Paths \cup {NoPath}, kind : Kinds, ver : Nat]
Ops == [path : Paths, stamp : BOOLEAN, ver : Nat, meta : Nat]

\* Every variable keeps its shape, and memory is bounded whatever the size of the
\* library: the channel holds its items at most, a batch never outgrows one
\* transaction, the detail rows of a scan keep their limit (coordinator.rs:552).
TypeOK ==
    /\ disk \in [Paths -> [kind : Kinds, ver : Nat \ {0}]]
    /\ touched \subseteq Paths
    /\ tracks \in [Paths -> [ver : Nat, meta : Nat, available : BOOLEAN,
                             seen : 0 .. MaxJobs]]
    /\ jobs \in Seq([state : {"queued", "running", "completed", "failed",
                              "cancelled", "interrupted"},
                     scanned : Nat, updated : Nat, failed : Nat])
    /\ walk \in [Jobs -> [at : {"new", "pull", "send", "done"}, todo : SUBSET Paths,
                          item : Items, queue : Seq(Items)]]
    /\ cancel \in [Jobs -> BOOLEAN]
    /\ task \in [at : Receiving \cup {"idle", "begin", "release", "down"},
                 force : BOOLEAN, item : Items, batch : Seq(Ops),
                 scanned : Nat, updated : Nat, failed : Nat,
                 errs : 0 .. MaxErrorRows, ok : BOOLEAN, stopped : BOOLEAN,
                 fin : {"none", "completed", "failed", "cancelled"}]
    /\ edits \in Nat /\ faults \in Nat
    /\ \A j \in Jobs : Len(walk[j].queue) <= QueueItems
    /\ Len(task.batch) <= BatchMaxItems

LosesOnlyMissing ==
    \A p \in Paths : tracks[p].available /\ ~tracks'[p].available =>
        p \in touched \/ disk[p].kind \in {"link", "absent"}

\* A track becomes unavailable only if its file is gone, or was touched while
\* the scan ran: never because the walk was cancelled, met an unreadable
\* directory, or could not parse the file (coordinator.rs:8).
OnlyMissingGoUnavailable == [][LosesOnlyMissing]_vars

LastState == IF jobs = <<>> THEN "none" ELSE jobs[Job].state

\* After a completed scan the table mirrors the disk: what nobody touched since
\* the scan was created is available exactly if it is a file, and has a row
\* unless a parse failed.
CompletedMirrorsDisk ==
    LastState = "completed" => \A p \in Paths \ touched :
        /\ Row(p) => (tracks[p].available <=> disk[p].kind = "file")
        /\ disk[p].kind = "file" /\ jobs[Job].failed = 0 => Row(p)

\* A row whose size and mtime match the file holds that file's metadata, in
\* spite of edits between walk, parse and flush: skipping an unchanged file
\* never keeps stale tags (coordinator.rs:419-423).
UnchangedIsFresh ==
    \A p \in Paths : disk[p].kind = "file" /\ tracks[p].ver = disk[p].ver =>
        tracks[p].meta = disk[p].ver

\* Every file a finished scan counted is stamped in the table or counted as
\* failed, and no more rows were written than files counted.
EveryFileAccounted ==
    LastState \in {"completed", "failed", "cancelled"} =>
        LET seen == Cardinality({p \in Paths : tracks[p].seen = Job})
            row == jobs[Job]
        IN seen <= row.scanned /\ row.scanned <= seen + row.failed
           /\ row.updated <= seen

Lifecycle == INSTANCE ScanLifecycle WITH
    states <- [j \in DOMAIN jobs |-> jobs[j].state],
    active <- IF task.at \in {"idle", "down"} THEN 0 ELSE Job,
    up <- task.at # "down"

\* The job rows a scan writes live the abstract life of scan jobs.
ImplementsLifecycle == Lifecycle!Spec

Busy(j) == Job = j /\ task.at \notin {"idle", "down"}

\* A scan nobody cancels ends, faults or not: walker and task do not wait for
\* each other forever.
UncancelledScanEnds == \A j \in Jobs : Busy(j) ~> (cancel[j] \/ ~Busy(j))

\* The walker of a scan that is over ends too and frees its blocking thread.
WalkerEnds ==
    \A j \in Jobs :
        (walk[j].at \in {"pull", "send"} /\ ~Busy(j)) ~> (walk[j].at = "done")

\* What the cancel endpoint promises and the test of it waits for: the scan
\* ends (tests/scanner.rs:547).
CancelledScanEnds == \A j \in Jobs : cancel[j] ~> ~Busy(j)

\* What the API table promises of a cancel (02:326): from then on that scan marks
\* no track missing.
CancelledMarksNothing ==
    [][\A p \in Paths : tracks[p].available /\ ~tracks'[p].available =>
         ~cancel[Job]]_vars

============================================================================
