--------------------------- MODULE ScanRun_proofs ---------------------------
(***************************************************************************)
(* For any library, any number of scans, edits and faults: a row that      *)
(* matches its file has the tags of that file, nothing present goes        *)
(* unavailable, a completed scan leaves a mirror of the disk, its counters *)
(* account for every file, and the job rows live the abstract life of      *)
(* ScanLifecycle.                                                          *)
(*                                                                         *)
(* Five layers. Types, with what makes items and batches real. Freshness:  *)
(* versions only grow, and the tags of an operation were read after its    *)
(* version. Accounting: a file nobody touched is ahead of the walker, on   *)
(* its way, in the batch or stamped, or its parse failed, until the walk   *)
(* is cancelled or known to be incomplete. States: a row is queued until   *)
(* its task begins and running until it ends. Counting: a path is met      *)
(* once, so a flush stamps as many rows as its batch is long, and what was *)
(* scanned is stamped, waiting or failed.                                  *)
(***************************************************************************)
EXTENDS ScanRun, FiniteSetTheorems, TLAPS

----------------------------------------------------------------------------
(* Types *)

Holding == {"check", "parse"}
Filling == {"begin", "recv", "check", "parse", "progress"}

\* What the walker hands on.
Real == [path : Paths, kind : Kinds \ {"absent"}, ver : Nat \ {0}]

Walkers == [at : {"new", "pull", "send", "done"}, todo : SUBSET Paths, item : Items,
            queue : Seq(Items)]
WalkerOK(w) ==
    /\ w \in Walkers /\ Len(w.queue) <= QueueItems
    /\ w.at = "send" => w.item \in Real
    /\ \A i \in 1 .. Len(w.queue) : w.queue[i] \in Real

Tasks == [at : Receiving \cup {"idle", "begin", "release", "down"},
          force : BOOLEAN, item : Items, batch : Seq(Ops),
          scanned : Nat, updated : Nat, failed : Nat,
          errs : 0 .. MaxErrorRows, ok : BOOLEAN, stopped : BOOLEAN,
          fin : {"none", "completed", "failed", "cancelled"}]
TaskOK(t) ==
    /\ t \in Tasks /\ Len(t.batch) <= BatchMaxItems
    /\ t.at \in Filling => Len(t.batch) < BatchMaxItems
    /\ t.at \in Holding => t.item \in Real
    /\ t.at = "parse" => t.item.kind = "file"
    /\ t.at = "end" => t.fin # "none"

JobRows == [state : {"queued", "running", "completed", "failed", "cancelled",
                     "interrupted"}, scanned : Nat, updated : Nat, failed : Nat]
JobsOK(rows) == rows \in Seq(JobRows) /\ Len(rows) <= MaxJobs

Rows == [ver : Nat, meta : Nat, available : BOOLEAN, seen : 0 .. MaxJobs]

EnvOK ==
    /\ disk \in [Paths -> [kind : Kinds, ver : Nat \ {0}]] /\ touched \subseteq Paths
    /\ cancel \in [Jobs -> BOOLEAN] /\ edits \in Nat /\ faults \in Nat

TypeInv ==
    /\ EnvOK /\ tracks \in [Paths -> Rows] /\ JobsOK(jobs) /\ TaskOK(task)
    /\ walk \in [Jobs -> Walkers] /\ \A j \in Jobs : WalkerOK(walk[j])
    /\ task.at \notin {"idle", "down"} => Job > 0

LEMMA TypeInvTypes == TypeInv => TypeOK
  BY DEF TypeInv, TypeOK, EnvOK, Rows, JobsOK, JobRows, TaskOK, Tasks, Walkers, WalkerOK

LEMMA JobKnown ==
  ASSUME TypeInv
  PROVE  /\ Job \in Nat /\ Job <= MaxJobs
         /\ task.at \notin {"idle", "down"} => Job \in Jobs
  BY ConstantsOK DEF TypeInv, JobsOK, Job, Jobs

LEMMA Appended ==
  ASSUME NEW S, NEW s \in Seq(S), NEW x \in S
  PROVE  /\ Append(s, x) \in Seq(S) /\ Len(Append(s, x)) = Len(s) + 1
         /\ Append(s, x)[Len(s) + 1] = x
         /\ \A i \in 1 .. Len(s) : Append(s, x)[i] = s[i]
         /\ Len(s) \in Nat
  OBVIOUS

LEMMA Taken ==
  ASSUME NEW S, NEW s \in Seq(S), s # <<>>
  PROVE  /\ Tail(s) \in Seq(S) /\ Head(s) \in S /\ Head(s) = s[1]
         /\ Len(s) \in Nat /\ Len(s) >= 1
         /\ Len(Tail(s)) = Len(s) - 1
         /\ \A i \in 1 .. Len(Tail(s)) : i + 1 \in 1 .. Len(s) /\ Tail(s)[i] = s[i + 1]
         /\ \A i \in 2 .. Len(s) : i - 1 \in 1 .. Len(Tail(s)) /\ Tail(s)[i - 1] = s[i]
  OBVIOUS

LEMMA NoItemTyped == NoItem \in Items
  BY DEF NoItem, Items, Kinds

LEMMA FreshWalkerOK ==
  ASSUME NEW at \in {"new", "pull", "send", "done"}, at # "send"
  PROVE  WalkerOK(Walker(at)) /\ Walker(at).at = at /\ Walker(at).todo = {}
         /\ Walker(at).queue = <<>>
  BY NoItemTyped, ConstantsOK DEF Walker, WalkerOK, Walkers

LEMMA IdleOK ==
  ASSUME NEW at \in {"idle", "release", "down"}, NEW t,
         t = [Idle EXCEPT !.at = at] \/ (t = Idle /\ at = "idle")
  PROVE  TaskOK(t) /\ t.at = at /\ t.batch = <<>> /\ t.fin = "none"
<1>1. <<>> \in Seq(Ops) /\ Len(<<>>) = 0 /\ 0 \in 0 .. MaxErrorRows
  BY ConstantsOK
<1>2. t \in Tasks /\ t.at = at /\ t.batch = <<>> /\ t.fin = "none"
  <2>1. CASE t = [Idle EXCEPT !.at = at]
    BY <1>1, <2>1, NoItemTyped DEF Idle, Tasks
  <2>2. CASE t = Idle /\ at = "idle"
    BY <1>1, <2>2, NoItemTyped DEF Idle, Tasks
  <2> QED
    BY <2>1, <2>2
<1>3. t.at \notin Holding /\ t.at # "parse"
  BY <1>2 DEF Holding
<1>4. Len(t.batch) <= BatchMaxItems /\ Len(t.batch) < BatchMaxItems
  BY <1>1, <1>2, ConstantsOK
<1> QED
  BY <1>2, <1>3, <1>4 DEF TaskOK

\* A walker's step.
LEMMA WalkPut ==
  ASSUME TypeInv, NEW j \in Jobs, NEW h, WalkerOK(h), walk' = [walk EXCEPT ![j] = h]
  PROVE  /\ walk' \in [Jobs -> Walkers] /\ \A k \in Jobs : WalkerOK(walk'[k])
         /\ walk'[j] = h /\ \A k \in Jobs : k # j => walk'[k] = walk[k]
<1>1. walk \in [Jobs -> Walkers] /\ h \in Walkers
  BY DEF TypeInv, WalkerOK
<1>2. walk' \in [Jobs -> Walkers] /\ walk'[j] = h
      /\ \A k \in Jobs : k # j => walk'[k] = walk[k]
  BY <1>1
<1> QED
  BY <1>2 DEF TypeInv

----------------------------------------------------------------------------
(* Types: the walker *)

LEMMA PullTypes ==
  ASSUME TypeInv, NEW j \in Jobs, Pull(j)
  PROVE  TypeInv'
<1>1. WalkerOK(walk[j]) /\ walk[j] \in Walkers
  BY DEF TypeInv
<1>2. UNCHANGED <<disk, touched, tracks, jobs, cancel, task, edits, faults>>
  BY DEF Pull
<1>3. ASSUME NEW h, WalkerOK(h), walk' = [walk EXCEPT ![j] = h] PROVE TypeInv'
  BY <1>2, <1>3, WalkPut DEF TypeInv, EnvOK, Job
<1>4. CASE walk' = [walk EXCEPT ![j].at = "done"]
  <2>h. PICK h : h = [walk[j] EXCEPT !.at = "done"]
    OBVIOUS
  <2>1. WalkerOK(h)
    BY <1>1, <2>h DEF WalkerOK, Walkers
  <2> QED
    BY <1>3, <1>4, <2>h, <2>1
<1>5. ASSUME NEW p \in walk[j].todo,
             IF disk[p].kind = "absent"
             THEN walk' = [walk EXCEPT ![j].todo = @ \ {p}]
             ELSE IF cancel[j]
             THEN walk' = [walk EXCEPT ![j].at = "done"]
             ELSE walk' = [walk EXCEPT ![j].at = "send", ![j].todo = @ \ {p},
                      ![j].item = [path |-> p, kind |-> disk[p].kind,
                                   ver |-> disk[p].ver]]
      PROVE  TypeInv'
  <2>1. CASE walk' = [walk EXCEPT ![j].todo = @ \ {p}]
    <3>h. PICK h : h = [walk[j] EXCEPT !.todo = @ \ {p}]
      OBVIOUS
    <3>1. WalkerOK(h)
      BY <1>1, <3>h DEF WalkerOK, Walkers
    <3> QED
      BY <1>3, <2>1, <3>h, <3>1
  <2>2. CASE disk[p].kind # "absent"
             /\ walk' = [walk EXCEPT ![j].at = "send", ![j].todo = @ \ {p},
                   ![j].item = [path |-> p, kind |-> disk[p].kind, ver |-> disk[p].ver]]
    <3>i. PICK item : item = [path |-> p, kind |-> disk[p].kind, ver |-> disk[p].ver]
      OBVIOUS
    <3>1. item \in Real /\ item \in Items
      BY <1>1, <2>2, <3>i DEF TypeInv, EnvOK, Real, Items, Walkers
    <3>h. PICK h : h = [walk[j] EXCEPT !.at = "send", !.todo = @ \ {p}, !.item = item]
      OBVIOUS
    <3>2. WalkerOK(h)
      BY <1>1, <3>1, <3>h DEF WalkerOK, Walkers
    <3>3. walk' = [walk EXCEPT ![j] = h]
      BY <2>2, <3>i, <3>h DEF TypeInv
    <3> QED
      BY <1>3, <3>2, <3>3
  <2> QED
    BY <1>4, <1>5, <2>1, <2>2
<1> QED
  BY <1>4, <1>5 DEF Pull

LEMMA SendTypes ==
  ASSUME TypeInv, NEW j \in Jobs, Send(j)
  PROVE  TypeInv'
<1>1. WalkerOK(walk[j]) /\ walk[j] \in Walkers /\ walk[j].item \in Real
  BY DEF TypeInv, Send, WalkerOK
<1>2. UNCHANGED <<disk, touched, tracks, jobs, cancel, task, edits, faults>>
  BY DEF Send
<1>3. ASSUME NEW h, WalkerOK(h), walk' = [walk EXCEPT ![j] = h] PROVE TypeInv'
  BY <1>2, <1>3, WalkPut DEF TypeInv, EnvOK, Job
<1>4. CASE /\ Room(j)
           /\ walk' = [walk EXCEPT ![j].at = "pull", ![j].item = NoItem,
                                   ![j].queue = Append(@, walk[j].item)]
  <2>q. PICK q : q = Append(walk[j].queue, walk[j].item)
    OBVIOUS
  <2>1. walk[j].queue \in Seq(Items) /\ walk[j].item \in Items
    BY <1>1 DEF Walkers
  <2>2. /\ q \in Seq(Items) /\ Len(q) <= QueueItems
        /\ \A i \in 1 .. Len(q) : q[i] \in Real
    BY <1>1, <1>4, <2>q, <2>1, Appended, ConstantsOK DEF Room, WalkerOK
  <2>h. PICK h : h = [walk[j] EXCEPT !.at = "pull", !.item = NoItem, !.queue = q]
    OBVIOUS
  <2>3. WalkerOK(h)
    BY <1>1, <2>2, <2>h, NoItemTyped DEF WalkerOK, Walkers
  <2>4. walk' = [walk EXCEPT ![j] = h]
    BY <1>4, <2>h, <2>q DEF TypeInv
  <2> QED
    BY <1>3, <2>3, <2>4
<1>5. CASE walk' = [walk EXCEPT ![j] = Walker("done")]
  BY <1>3, <1>5, FreshWalkerOK
<1> QED
  BY <1>4, <1>5 DEF Send

----------------------------------------------------------------------------
(* Types: the task *)

\* A step of the task, whatever it does to rows, jobs and its own walker.
LEMMA TaskMoves ==
  ASSUME TypeInv, task.at \notin {"idle", "down"}, UnchangedByTask, faults' \in Nat,
         TaskOK(task'), tracks' \in [Paths -> Rows], JobsOK(jobs'), Len(jobs') = Len(jobs),
         walk' \in [Jobs -> Walkers], \A j \in Jobs : WalkerOK(walk'[j])
  PROVE  TypeInv'
  BY DEF TypeInv, EnvOK, UnchangedByTask, Job

\* One that only moves itself.
LEMMA TaskAlone ==
  ASSUME TypeInv, task.at \notin {"idle", "down"}, UnchangedByTask, faults' \in Nat,
         TaskOK(task'), UNCHANGED <<tracks, jobs, walk>>
  PROVE  TypeInv'
  BY TaskMoves DEF TypeInv

LEMMA FaultTypes ==
  ASSUME TypeInv, NoFault \/ \E kind \in FaultKinds : Fault(kind)
  PROVE  faults' \in Nat
  BY DEF TypeInv, EnvOK, NoFault, Fault

LEMMA AbortTypes ==
  ASSUME TypeInv, task.at \notin {"idle", "down"}, UnchangedByTask, Abort
  PROVE  TypeInv'
<1>1. faults' \in Nat
  BY FaultTypes DEF Abort, FaultKinds
<1>2. TaskOK(task')
  BY IdleOK DEF Abort
<1> QED
  BY <1>1, <1>2, TaskAlone DEF Abort

LEMMA JobsPut ==
  ASSUME TypeInv, NEW row \in JobRows, Job \in Jobs
  PROVE  /\ JobsOK([jobs EXCEPT ![Job] = row]) /\ Len([jobs EXCEPT ![Job] = row]) = Len(jobs)
         /\ jobs[Job] \in JobRows /\ [jobs EXCEPT ![Job] = row][Job] = row
         /\ \A j \in 1 .. Len(jobs) : j # Job => [jobs EXCEPT ![Job] = row][j] = jobs[j]
<1>1. jobs \in Seq(JobRows) /\ Job = Len(jobs) /\ Job \in 1 .. Len(jobs)
  BY DEF TypeInv, JobsOK, Job, Jobs
<1> QED
  BY <1>1 DEF TypeInv, JobsOK

LEMMA BeginTypes ==
  ASSUME TypeInv, Begin
  PROVE  TypeInv'
<1>1. task.at = "begin" /\ Job \in Jobs /\ UnchangedByTask
  BY JobKnown DEF Begin
<1>2. CASE /\ NoFault
           /\ jobs' = [jobs EXCEPT ![Job].state = "running"]
           /\ walk' = [walk EXCEPT ![Job] = [Walker("pull") EXCEPT !.todo = Paths]]
           /\ task' = [task EXCEPT !.at = "recv"]
           /\ UNCHANGED tracks
  <2>r. PICK row : row = [jobs[Job] EXCEPT !.state = "running"]
    OBVIOUS
  <2>1. row \in JobRows /\ jobs' = [jobs EXCEPT ![Job] = row]
    <3>1. jobs[Job] \in JobRows
      BY <1>1 DEF TypeInv, JobsOK, Job, Jobs
    <3> QED
      BY <1>2, <2>r, <3>1 DEF JobRows
  <2>2. JobsOK(jobs') /\ Len(jobs') = Len(jobs)
    BY <1>1, <2>1, JobsPut
  <2>h. PICK h : h = [Walker("pull") EXCEPT !.todo = Paths]
    OBVIOUS
  <2>3. WalkerOK(h)
    BY <2>h, FreshWalkerOK DEF WalkerOK, Walkers
  <2>4. walk' \in [Jobs -> Walkers] /\ \A k \in Jobs : WalkerOK(walk'[k])
    BY <1>1, <1>2, <2>h, <2>3, WalkPut
  <2>5. TaskOK(task')
    BY <1>1, <1>2 DEF TypeInv, TaskOK, Tasks, Receiving, Filling, Holding
  <2> QED
    BY <1>1, <1>2, <2>2, <2>4, <2>5, FaultTypes, TaskMoves DEF TypeInv
<1> QED
  BY <1>1, <1>2, AbortTypes DEF Begin

LEMMA RecvTypes ==
  ASSUME TypeInv, Recv
  PROVE  TypeInv'
<1>1. task.at = "recv" /\ Job \in Jobs /\ UnchangedByTask /\ UNCHANGED <<tracks, jobs, faults>>
  BY JobKnown DEF Recv
<1>2. faults' \in Nat /\ TaskOK(task) /\ WalkerOK(walk[Job]) /\ walk[Job] \in Walkers
  BY <1>1 DEF TypeInv, EnvOK
<1>3. CASE /\ walk[Job].queue # <<>>
           /\ task' = [task EXCEPT !.at = "check", !.item = Head(walk[Job].queue)]
           /\ walk' = [walk EXCEPT ![Job].queue = Tail(@)]
  <2>1. walk[Job].queue \in Seq(Items)
    BY <1>2 DEF Walkers
  <2>i. PICK item : item = Head(walk[Job].queue)
    OBVIOUS
  <2>q. PICK q : q = Tail(walk[Job].queue)
    OBVIOUS
  <2>2. /\ item \in Items /\ item \in Real /\ q \in Seq(Items) /\ Len(q) <= QueueItems
        /\ \A i \in 1 .. Len(q) : q[i] \in Real
    BY <1>2, <1>3, <2>1, <2>i, <2>q, Taken, ConstantsOK DEF WalkerOK
  <2>h. PICK h : h = [walk[Job] EXCEPT !.queue = q]
    OBVIOUS
  <2>3. WalkerOK(h)
    BY <1>2, <2>2, <2>h DEF WalkerOK, Walkers
  <2>4. walk' \in [Jobs -> Walkers] /\ \A k \in Jobs : WalkerOK(walk'[k])
    BY <1>1, <1>3, <2>q, <2>h, <2>3, WalkPut
  <2>5. TaskOK(task')
    BY <1>1, <1>2, <1>3, <2>i, <2>2 DEF TaskOK, Tasks, Receiving, Filling, Holding
  <2> QED
    BY <1>1, <1>2, <2>4, <2>5, TaskMoves DEF TypeInv
<1>4. CASE task' = [task EXCEPT !.at = "final"] /\ UNCHANGED walk
  <2>1. TaskOK(task')
    BY <1>2, <1>4 DEF TaskOK, Tasks, Receiving, Filling, Holding
  <2> QED
    BY <1>1, <1>2, <1>4, <2>1, TaskAlone
<1> QED
  BY <1>3, <1>4 DEF Recv

\* A batch with room takes one more operation.
LEMMA BatchGrows ==
  ASSUME NEW t, TaskOK(t), t.at \in Filling, NEW op \in Ops
  PROVE  /\ Append(t.batch, op) \in Seq(Ops) /\ Len(Append(t.batch, op)) <= BatchMaxItems
         /\ Len(Append(t.batch, op)) = Len(t.batch) + 1
<1>1. t.batch \in Seq(Ops) /\ Len(t.batch) < BatchMaxItems
  BY DEF TaskOK, Tasks
<1> QED
  BY <1>1, Appended, ConstantsOK

LEMMA OpsTyped ==
  ASSUME TypeInv, NEW item \in Real
  PROVE  Stamp(item.path) \in Ops /\ Upsert(item) \in Ops /\ item.path \in Paths
<1>1. item.path \in Paths /\ item.ver \in Nat
  BY DEF Real
<1>2. disk[item.path].ver \in Nat
  BY <1>1 DEF TypeInv, EnvOK
<1> QED
  BY <1>1, <1>2 DEF Stamp, Upsert, Ops

LEMMA ListedTyped ==
  ASSUME TypeInv
  PROVE  Listed \in 0 .. MaxErrorRows
  BY ConstantsOK DEF TypeInv, TaskOK, Tasks, Listed, ErrorRoom

\* A task with an empty hand that keeps its batch, or has just filled it.
LEMMA TallyOK ==
  ASSUME NEW t \in Tasks, t.at \in {"tally", "recv", "final", "progress", "join",
                                    "decide", "mark", "end"},
         Len(t.batch) <= BatchMaxItems,
         t.at \in {"recv", "progress"} => Len(t.batch) < BatchMaxItems,
         t.at = "end" => t.fin # "none"
  PROVE  TaskOK(t)
  BY DEF TaskOK, Filling, Holding

LEMMA CheckTypes ==
  ASSUME TypeInv, Check
  PROVE  TypeInv'
<1>1. /\ task.at = "check" /\ task.item \in Real /\ UnchangedByTask /\ TaskOK(task)
      /\ task \in Tasks /\ Len(task.batch) <= BatchMaxItems
  BY DEF Check, TypeInv, TaskOK, Holding
<1>n. PICK failed \in Nat, scanned \in Nat :
          failed = task.failed + 1 /\ scanned = task.scanned + 1
  BY <1>1 DEF Tasks
<1>2. CASE Abort
  BY <1>1, <1>2, AbortTypes
<1>3. CASE /\ NoFault /\ UNCHANGED <<tracks, jobs, walk>>
           /\ task' =
               IF cancel[Job]
               THEN [task EXCEPT !.at = "final", !.stopped = TRUE, !.item = NoItem]
               ELSE CASE task.item.kind = "link" ->
                           [task EXCEPT !.at = "tally", !.item = NoItem,
                                        !.errs = Listed]
                      [] task.item.kind = "broken" ->
                           [task EXCEPT !.at = "tally", !.item = NoItem,
                                        !.errs = Listed, !.ok = FALSE,
                                        !.failed = @ + 1]
                      [] task.item.kind = "file" /\ Unchanged(task.item) ->
                           [task EXCEPT !.at = "tally", !.item = NoItem,
                                        !.scanned = @ + 1,
                                        !.batch = Append(@, Stamp(task.item.path))]
                      [] OTHER ->
                           [task EXCEPT !.at = "parse", !.scanned = @ + 1]
  <2>1. ASSUME TaskOK(task') PROVE TypeInv'
    BY <1>1, <1>3, <2>1, FaultTypes, TaskAlone
  <2>2. CASE task' = [task EXCEPT !.at = "final", !.stopped = TRUE, !.item = NoItem]
    <3>1. task' \in Tasks /\ task'.at = "final" /\ task'.batch = task.batch
      BY <1>1, <2>2, NoItemTyped DEF Tasks, Receiving
    <3> QED
      BY <1>1, <2>1, <3>1, TallyOK
  <2>3. CASE task' = [task EXCEPT !.at = "tally", !.item = NoItem, !.errs = Listed]
    <3>1. task' \in Tasks /\ task'.at = "tally" /\ task'.batch = task.batch
      BY <1>1, <2>3, NoItemTyped, ListedTyped DEF Tasks, Receiving
    <3> QED
      BY <1>1, <2>1, <3>1, TallyOK
  <2>4. CASE task' = [task EXCEPT !.at = "tally", !.item = NoItem, !.errs = Listed,
                                  !.ok = FALSE, !.failed = @ + 1]
    <3>1. task' \in Tasks /\ task'.at = "tally" /\ task'.batch = task.batch
      BY <1>1, <1>n, <2>4, NoItemTyped, ListedTyped DEF Tasks, Receiving
    <3> QED
      BY <1>1, <2>1, <3>1, TallyOK
  <2>5. CASE task' = [task EXCEPT !.at = "tally", !.item = NoItem, !.scanned = @ + 1,
                                  !.batch = Append(@, Stamp(task.item.path))]
    <3>b. PICK batch : batch = Append(task.batch, Stamp(task.item.path))
      OBVIOUS
    <3>1. batch \in Seq(Ops) /\ Len(batch) <= BatchMaxItems
      BY <1>1, <3>b, OpsTyped, BatchGrows DEF Filling
    <3>2. task' = [task EXCEPT !.at = "tally", !.item = NoItem, !.scanned = scanned,
                               !.batch = batch]
      BY <1>n, <2>5, <3>b
    <3>3. task' \in Tasks /\ task'.at = "tally" /\ task'.batch = batch
      BY <1>1, <3>1, <3>2, NoItemTyped DEF Tasks, Receiving
    <3> QED
      BY <2>1, <3>1, <3>3, TallyOK
  <2>6. CASE task.item.kind = "file"
             /\ task' = [task EXCEPT !.at = "parse", !.scanned = @ + 1]
    <3>1. /\ task' \in Tasks /\ task'.at = "parse" /\ task'.batch = task.batch
          /\ task'.item = task.item
      BY <1>1, <1>n, <2>6 DEF Tasks, Receiving
    <3>2. TaskOK(task')
      BY <1>1, <2>6, <3>1 DEF TaskOK, Filling
    <3> QED
      BY <2>1, <3>2
  <2>7. task.item.kind \in {"file", "link", "broken"}
    BY <1>1 DEF Real, Kinds
  <2>8. CASE cancel[Job]
    BY <1>3, <2>2, <2>8
  <2>9. CASE ~cancel[Job]
    BY <1>3, <2>3, <2>4, <2>5, <2>6, <2>7, <2>9
  <2> QED
    BY <2>8, <2>9
<1> QED
  BY <1>2, <1>3 DEF Check

LEMMA ParsedTypes ==
  ASSUME TypeInv, Parsed
  PROVE  TypeInv'
<1>1. /\ task.at = "parse" /\ task.item \in Real /\ UnchangedByTask /\ TaskOK(task)
      /\ task \in Tasks /\ faults' \in Nat
  BY DEF Parsed, TypeInv, EnvOK, TaskOK, Holding
<1>b. PICK batch : batch = Append(task.batch, Upsert(task.item))
  OBVIOUS
<1>2. batch \in Seq(Ops) /\ Len(batch) <= BatchMaxItems
  BY <1>1, <1>b, OpsTyped, BatchGrows DEF Filling
<1>3. task' = [task EXCEPT !.at = "tally", !.item = NoItem, !.batch = batch]
  BY <1>b DEF Parsed
<1>4. task' \in Tasks /\ task'.at = "tally" /\ task'.batch = batch
  BY <1>1, <1>2, <1>3, NoItemTyped DEF Tasks, Receiving
<1> QED
  BY <1>1, <1>2, <1>4, TallyOK, TaskAlone DEF Parsed

LEMMA ParseFailedTypes ==
  ASSUME TypeInv, ParseFailed
  PROVE  TypeInv'
<1>1. /\ task.at = "parse" /\ task.item \in Real /\ UnchangedByTask /\ TaskOK(task)
      /\ task \in Tasks /\ faults' \in Nat
  BY DEF ParseFailed, TypeInv, EnvOK, TaskOK, Holding
<1>n. PICK failed \in Nat : failed = task.failed + 1
  BY <1>1 DEF Tasks
<1>t. PICK t : t = [task EXCEPT !.item = NoItem, !.failed = failed, !.errs = Listed]
  OBVIOUS
<1>2. /\ t \in Tasks /\ t.batch = task.batch
  BY <1>1, <1>t, NoItemTyped, ListedTyped DEF Tasks
<1>3. task' = IF KeptRow(task.item.path)
              THEN [t EXCEPT !.at = "tally", !.batch = Append(@, Stamp(task.item.path))]
              ELSE [t EXCEPT !.at = "recv"]
  BY <1>n, <1>t DEF ParseFailed
<1>4. CASE task' = [t EXCEPT !.at = "tally", !.batch = Append(@, Stamp(task.item.path))]
  <2>b. PICK batch : batch = Append(t.batch, Stamp(task.item.path))
    OBVIOUS
  <2>1. batch \in Seq(Ops) /\ Len(batch) <= BatchMaxItems
    BY <1>1, <1>2, <2>b, OpsTyped, BatchGrows DEF Filling
  <2>2. task' = [t EXCEPT !.at = "tally", !.batch = batch]
    BY <1>4, <2>b
  <2>3. task' \in Tasks /\ task'.at = "tally" /\ task'.batch = batch
    BY <1>2, <2>1, <2>2 DEF Tasks, Receiving
  <2> QED
    BY <1>1, <2>1, <2>3, TallyOK, TaskAlone DEF ParseFailed
<1>5. CASE task' = [t EXCEPT !.at = "recv"]
  <2>1. task' \in Tasks /\ task'.at = "recv" /\ task'.batch = task.batch
    BY <1>2, <1>5 DEF Tasks, Receiving
  <2>2. Len(task.batch) <= BatchMaxItems /\ Len(task.batch) < BatchMaxItems
    BY <1>1 DEF TaskOK, Filling
  <2> QED
    BY <1>1, <2>1, <2>2, TallyOK, TaskAlone DEF ParseFailed
<1> QED
  BY <1>3, <1>4, <1>5

\* What a flush makes of a path: it leaves the row, stamps it, or writes it.
LEMMA FlushedRow ==
  ASSUME NEW batch \in Seq(Ops), NEW p \in Paths
  PROVE  \/ /\ \A i \in 1 .. Len(batch) : batch[i].path # p
            /\ Flushed(batch)[p] = tracks[p]
         \/ \E i \in 1 .. Len(batch) :
              /\ batch[i].path = p
              /\ Flushed(batch)[p] =
                   IF batch[i].stamp
                   THEN [tracks[p] EXCEPT !.available = TRUE, !.seen = Job]
                   ELSE [ver |-> batch[i].ver, meta |-> batch[i].meta,
                         available |-> TRUE, seen |-> Job]
<1>1. DOMAIN batch = 1 .. Len(batch)
  OBVIOUS
<1>2. CASE \A i \in 1 .. Len(batch) : batch[i].path # p
  BY <1>1, <1>2 DEF Flushed
<1>3. CASE \E i \in 1 .. Len(batch) : batch[i].path = p
  <2>i. PICK i : i = CHOOSE k \in DOMAIN batch : batch[k].path = p
    OBVIOUS
  <2>1. i \in 1 .. Len(batch) /\ batch[i].path = p
    BY <1>1, <1>3, <2>i
  <2>2. Flushed(batch)[p] =
          IF batch[i].stamp
          THEN [tracks[p] EXCEPT !.available = TRUE, !.seen = Job]
          ELSE [ver |-> VersionOf(batch[i]), meta |-> batch[i].meta,
                available |-> TRUE, seen |-> Job]
    BY <1>1, <1>3, <2>i DEF Flushed
  <2> QED
    BY <2>1, <2>2 DEF VersionOf
<1> QED
  BY <1>2, <1>3

LEMMA FlushedTyped ==
  ASSUME TypeInv, NEW batch \in Seq(Ops)
  PROVE  Flushed(batch) \in [Paths -> Rows]
<1>1. ASSUME NEW p \in Paths PROVE Flushed(batch)[p] \in Rows
  <2>1. tracks[p] \in Rows /\ Job \in 0 .. MaxJobs
    BY JobKnown, ConstantsOK DEF TypeInv
  <2>2. ASSUME NEW i \in 1 .. Len(batch),
               Flushed(batch)[p] =
                 IF batch[i].stamp
                 THEN [tracks[p] EXCEPT !.available = TRUE, !.seen = Job]
                 ELSE [ver |-> batch[i].ver, meta |-> batch[i].meta,
                       available |-> TRUE, seen |-> Job]
        PROVE  Flushed(batch)[p] \in Rows
    <3>0. batch[i] \in Ops
      OBVIOUS
    <3>1. batch[i].ver \in Nat /\ batch[i].meta \in Nat /\ batch[i].stamp \in BOOLEAN
      BY <3>0 DEF Ops
    <3>2. CASE batch[i].stamp
      <4>1. Flushed(batch)[p] = [tracks[p] EXCEPT !.available = TRUE, !.seen = Job]
        BY <2>2, <3>2
      <4> QED
        BY <2>1, <4>1 DEF Rows
    <3>3. CASE ~batch[i].stamp
      <4>1. Flushed(batch)[p] = [ver |-> batch[i].ver, meta |-> batch[i].meta,
                                 available |-> TRUE, seen |-> Job]
        BY <2>2, <3>3
      <4> QED
        BY <2>1, <3>1, <4>1 DEF Rows
    <3> QED
      BY <3>2, <3>3
  <2> QED
    BY <2>1, <2>2, FlushedRow
<1>2. Flushed(batch) = [p \in Paths |-> Flushed(batch)[p]]
  BY DEF Flushed
<1> QED
  BY <1>1, <1>2

LEMMA UpsertsTyped ==
  ASSUME NEW batch \in Seq(Ops)
  PROVE  Upserts(batch) \in Nat
<1>i. PICK ups : ups = {i \in DOMAIN batch : ~batch[i].stamp}
  OBVIOUS
<1>1. DOMAIN batch = 1 .. Len(batch) /\ Len(batch) \in Nat
  OBVIOUS
<1>2. ups \subseteq 1 .. Len(batch)
  BY <1>i, <1>1
<1>3. IsFiniteSet(1 .. Len(batch))
  BY <1>1, FS_Interval
<1>4. IsFiniteSet(ups)
  BY <1>2, <1>3, FS_Subset
<1>5. Cardinality(ups) \in Nat
  BY <1>4, FS_CardinalityType
<1> QED
  BY <1>i, <1>5 DEF Upserts

LEMMA WriteTypes ==
  ASSUME TypeInv, task.at \in {"tally", "final"}, NEW next \in {"progress", "join"},
         UnchangedByTask, Write(task.batch, next)
  PROVE  TypeInv'
<1>1. TaskOK(task) /\ task \in Tasks /\ task.batch \in Seq(Ops) /\ Job \in Jobs
  BY JobKnown DEF TypeInv, TaskOK, Tasks
<1>2. CASE Abort
  BY <1>2, AbortTypes
<1>3. CASE /\ NoFault
           /\ tracks' = Flushed(task.batch)
           /\ task' = [task EXCEPT !.at = next, !.batch = <<>>,
                                   !.updated = @ + Upserts(task.batch)]
           /\ UNCHANGED <<jobs, walk>>
  <2>n. PICK updated \in Nat : updated = task.updated + Upserts(task.batch)
    BY <1>1, UpsertsTyped DEF Tasks
  <2>1. task' = [task EXCEPT !.at = next, !.batch = <<>>, !.updated = updated]
    BY <1>3, <2>n
  <2>2. <<>> \in Seq(Ops) /\ Len(<<>>) <= BatchMaxItems /\ Len(<<>>) < BatchMaxItems
    BY ConstantsOK
  <2>3. task' \in Tasks /\ task'.at = next /\ task'.batch = <<>>
    BY <1>1, <2>1, <2>2 DEF Tasks, Receiving
  <2>4. TaskOK(task')
    BY <2>2, <2>3, TallyOK
  <2> QED
    BY <1>1, <1>3, <2>4, FlushedTyped, FaultTypes, TaskMoves DEF TypeInv
<1> QED
  BY <1>2, <1>3 DEF Write

LEMMA TallyTypes ==
  ASSUME TypeInv, Tally
  PROVE  TypeInv'
<1>1. /\ task.at = "tally" /\ UnchangedByTask /\ TaskOK(task) /\ task \in Tasks
      /\ Len(task.batch) \in Nat
  BY DEF Tally, TypeInv, TaskOK, Tasks
<1>2. CASE Write(task.batch, "progress")
  BY <1>1, <1>2, WriteTypes
<1>3. CASE /\ ~BatchFull /\ task' = [task EXCEPT !.at = "recv"]
           /\ UNCHANGED <<tracks, jobs, walk, faults>>
  <2>1. task' \in Tasks /\ task'.at = "recv" /\ task'.batch = task.batch
    BY <1>1, <1>3 DEF Tasks, Receiving
  <2>2. Len(task.batch) < BatchMaxItems
    BY <1>1, <1>3, ConstantsOK DEF BatchFull
  <2>3. TaskOK(task')
    BY <1>1, <2>1, <2>2, ConstantsOK, TallyOK DEF TaskOK
  <2> QED
    BY <1>1, <1>3, <2>3, TaskAlone DEF TypeInv, EnvOK
<1> QED
  BY <1>2, <1>3 DEF Tally

LEMMA CountedTyped ==
  ASSUME TypeInv, Job \in Jobs, NEW state \in {"running", "completed", "failed", "cancelled"}
  PROVE  /\ JobsOK(Counted) /\ Len(Counted) = Len(jobs)
         /\ Counted[Job].state = jobs[Job].state
         /\ JobsOK([Counted EXCEPT ![Job].state = state])
         /\ Len([Counted EXCEPT ![Job].state = state]) = Len(jobs)
         /\ [Counted EXCEPT ![Job].state = state][Job].state = state
         /\ [Counted EXCEPT ![Job].state = state][Job].failed = task.failed
         /\ \A j \in 1 .. Len(jobs) : j # Job =>
              Counted[j] = jobs[j] /\ [Counted EXCEPT ![Job].state = state][j] = jobs[j]
<1>1. /\ jobs \in Seq(JobRows) /\ Job = Len(jobs) /\ Job \in 1 .. Len(jobs)
      /\ jobs[Job] \in JobRows /\ Len(jobs) <= MaxJobs
  BY DEF TypeInv, JobsOK, Job, Jobs
<1>2. task.scanned \in Nat /\ task.updated \in Nat /\ task.failed \in Nat
  BY DEF TypeInv, TaskOK, Tasks
<1>r. PICK row : row = [jobs[Job] EXCEPT !.scanned = task.scanned, !.updated = task.updated,
                                         !.failed = task.failed]
  OBVIOUS
<1>s. PICK last : last = [row EXCEPT !.state = state]
  OBVIOUS
<1>3. /\ row \in JobRows /\ row.state = jobs[Job].state /\ row.failed = task.failed
      /\ last \in JobRows /\ last.state = state /\ last.failed = task.failed
  BY <1>1, <1>2, <1>r, <1>s DEF JobRows
<1>4. Counted = [jobs EXCEPT ![Job] = row]
  BY <1>1, <1>r DEF Counted
<1>5. Counted[Job] = row
  BY <1>1, <1>4
<1>6. [Counted EXCEPT ![Job].state = state] = [jobs EXCEPT ![Job] = last]
  BY <1>1, <1>4, <1>5, <1>s
<1>7. \A j \in 1 .. Len(jobs) : j # Job =>
        Counted[j] = jobs[j] /\ [Counted EXCEPT ![Job].state = state][j] = jobs[j]
  BY <1>1, <1>3, <1>4, <1>6, JobsPut
<1>8. /\ JobsOK(Counted) /\ Len(Counted) = Len(jobs)
      /\ Counted[Job].state = jobs[Job].state
  BY <1>1, <1>3, <1>4, JobsPut
<1> QED
  BY <1>1, <1>3, <1>6, <1>7, <1>8, JobsPut

LEMMA ProgressTypes ==
  ASSUME TypeInv, Progress
  PROVE  TypeInv'
<1>1. /\ task.at = "progress" /\ UnchangedByTask /\ TaskOK(task) /\ task \in Tasks
      /\ Job \in Jobs
  BY JobKnown DEF Progress, TypeInv, TaskOK
<1>2. CASE Abort
  BY <1>1, <1>2, AbortTypes
<1>3. CASE /\ NoFault /\ jobs' = Counted /\ task' = [task EXCEPT !.at = "recv"]
           /\ UNCHANGED <<tracks, walk>>
  <2>1. task' \in Tasks /\ task'.at = "recv" /\ task'.batch = task.batch
    BY <1>1, <1>3 DEF Tasks, Receiving
  <2>2. TaskOK(task')
    BY <1>1, <2>1, TallyOK DEF TaskOK, Filling
  <2> QED
    BY <1>1, <1>3, <2>2, CountedTyped, FaultTypes, TaskMoves DEF TypeInv
<1> QED
  BY <1>2, <1>3 DEF Progress

LEMMA FinalFlushTypes ==
  ASSUME TypeInv, FinalFlush
  PROVE  TypeInv'
  BY WriteTypes DEF FinalFlush, LastBatch

LEMMA JoinTypes ==
  ASSUME TypeInv, Join \/ Decide
  PROVE  TypeInv'
<1>1. /\ task.at \in {"join", "decide"} /\ UnchangedByTask /\ TaskOK(task) /\ task \in Tasks
      /\ faults' \in Nat /\ UNCHANGED <<tracks, jobs, walk>> /\ Len(task.batch) <= BatchMaxItems
  BY DEF Join, Decide, TypeInv, TaskOK, EnvOK
<1>2. /\ task' \in Tasks /\ task'.at \in {"decide", "mark", "end"}
      /\ task'.batch = task.batch
      /\ task'.at = "end" => task'.fin # "none"
  <2>1. CASE task' = [task EXCEPT !.at = "decide"]
    BY <1>1, <2>1 DEF Tasks, Receiving
  <2>2. CASE task' = [task EXCEPT !.at = "end", !.fin = "cancelled"]
    BY <1>1, <2>2 DEF Tasks, Receiving
  <2>3. CASE task' = [task EXCEPT !.at = "mark"]
    BY <1>1, <2>3 DEF Tasks, Receiving
  <2>4. CASE task' = [task EXCEPT !.at = "end", !.fin = "failed"]
    BY <1>1, <2>4 DEF Tasks, Receiving
  <2> QED
    BY <2>1, <2>2, <2>3, <2>4 DEF Join, Decide
<1>3. TaskOK(task')
  BY <1>1, <1>2, TallyOK
<1> QED
  BY <1>1, <1>3, TaskAlone

LEMMA MarkTypes ==
  ASSUME TypeInv, Mark
  PROVE  TypeInv'
<1>1. /\ task.at = "mark" /\ UnchangedByTask /\ TaskOK(task) /\ task \in Tasks
      /\ Len(task.batch) <= BatchMaxItems
  BY DEF Mark, TypeInv, TaskOK
<1>2. CASE Abort
  BY <1>1, <1>2, AbortTypes
<1>3. CASE /\ NoFault
           /\ tracks' = [p \in Paths |->
                IF Row(p) /\ Unseen(p) THEN [tracks[p] EXCEPT !.available = FALSE]
                                       ELSE tracks[p]]
           /\ task' = [task EXCEPT !.at = "end", !.fin = "completed"]
           /\ UNCHANGED <<jobs, walk>>
  <2>1. /\ task' \in Tasks /\ task'.at = "end" /\ task'.batch = task.batch
        /\ task'.fin = "completed"
    BY <1>1, <1>3 DEF Tasks, Receiving
  <2>2. TaskOK(task')
    BY <1>1, <2>1, TallyOK
  <2>3. tracks' \in [Paths -> Rows]
    <3>1. \A p \in Paths : tracks[p] \in Rows /\ [tracks[p] EXCEPT !.available = FALSE] \in Rows
      BY DEF TypeInv, Rows
    <3> QED
      BY <1>3, <3>1
  <2> QED
    BY <1>1, <1>3, <2>2, <2>3, FaultTypes, TaskMoves DEF TypeInv
<1> QED
  BY <1>2, <1>3 DEF Mark

LEMMA EndTypes ==
  ASSUME TypeInv, End
  PROVE  TypeInv'
<1>1. /\ task.at = "end" /\ UnchangedByTask /\ Job \in Jobs
      /\ task.fin \in {"completed", "failed", "cancelled"}
  BY JobKnown DEF End, TypeInv, TaskOK, Tasks
<1>2. CASE Abort
  BY <1>1, <1>2, AbortTypes
<1>3. CASE /\ NoFault /\ jobs' = [Counted EXCEPT ![Job].state = task.fin]
           /\ task' = [Idle EXCEPT !.at = "release"] /\ UNCHANGED <<tracks, walk>>
  BY <1>1, <1>3, CountedTyped, IdleOK, FaultTypes, TaskMoves DEF TypeInv
<1> QED
  BY <1>2, <1>3 DEF End

----------------------------------------------------------------------------
(* Types: users, the disk, crashes *)

LEMMA ReleaseTypes ==
  ASSUME TypeInv, Release
  PROVE  TypeInv'
<1>1. TaskOK(task') /\ faults' \in Nat
  BY IdleOK DEF Release, TypeInv, EnvOK
<1> QED
  BY <1>1, TaskAlone DEF Release

LEMMA CreateTypes ==
  ASSUME TypeInv, Create
  PROVE  TypeInv'
<1>1. /\ jobs \in Seq(JobRows) /\ Len(jobs) < MaxJobs /\ NewJob \in JobRows
      /\ jobs' = Append(jobs, NewJob)
  BY DEF Create, TypeInv, JobsOK, Job, NewJob, JobRows
<1>2. JobsOK(jobs') /\ Len(jobs') > 0
  BY <1>1, Appended, ConstantsOK DEF JobsOK
<1>3. PICK force \in BOOLEAN : task' = [Idle EXCEPT !.at = "begin", !.force = force]
  BY DEF Create
<1>4. <<>> \in Seq(Ops) /\ Len(<<>>) = 0 /\ 0 \in 0 .. MaxErrorRows
  BY ConstantsOK
<1>5. task' \in Tasks /\ task'.at = "begin" /\ task'.batch = <<>>
  BY <1>3, <1>4, NoItemTyped DEF Idle, Tasks
<1>6. Len(task'.batch) <= BatchMaxItems /\ Len(task'.batch) < BatchMaxItems
  BY <1>4, <1>5, ConstantsOK
<1>7. TaskOK(task')
  BY <1>5, <1>6 DEF TaskOK, Holding
<1> QED
  BY <1>2, <1>7 DEF Create, TypeInv, EnvOK, Job

LEMMA CancelTypes ==
  ASSUME TypeInv, Cancel
  PROVE  TypeInv'
  BY DEF Cancel, TypeInv, EnvOK, Job

\* An edit changes one path, whose version does not go back.
LEMMA EditedDisk ==
  ASSUME TypeInv, NEW p \in Paths, Edit(p)
  PROVE  /\ disk' \in [Paths -> [kind : Kinds, ver : Nat \ {0}]]
         /\ \A q \in Paths : q # p => disk'[q] = disk[q]
         /\ disk'[p].ver >= disk[p].ver
         /\ disk[p].kind = "link" => disk'[p].ver > disk[p].ver
<1>1. /\ disk \in [Paths -> [kind : Kinds, ver : Nat \ {0}]]
      /\ disk[p].kind \in Kinds /\ disk[p].ver \in Nat \ {0}
  BY DEF TypeInv, EnvOK
<1>2. ASSUME NEW d \in [kind : Kinds, ver : Nat \ {0}], disk' = [disk EXCEPT ![p] = d],
             d.ver >= disk[p].ver, disk[p].kind = "link" => d.ver > disk[p].ver
      PROVE  /\ disk' \in [Paths -> [kind : Kinds, ver : Nat \ {0}]]
             /\ \A q \in Paths : q # p => disk'[q] = disk[q]
             /\ disk'[p].ver >= disk[p].ver
             /\ disk[p].kind = "link" => disk'[p].ver > disk[p].ver
  BY <1>1, <1>2
<1>3. ASSUME NEW kind \in Kinds,
             disk' = [disk EXCEPT ![p] =
               [kind |-> kind, ver |-> IF @.kind = "link" THEN @.ver + 1 ELSE @.ver]]
      PROVE  \E d \in [kind : Kinds, ver : Nat \ {0}] :
               /\ disk' = [disk EXCEPT ![p] = d] /\ d.ver >= disk[p].ver
               /\ disk[p].kind = "link" => d.ver > disk[p].ver
  <2>n. PICK ver : ver = IF disk[p].kind = "link" THEN disk[p].ver + 1 ELSE disk[p].ver
    OBVIOUS
  <2>1. /\ ver \in Nat \ {0} /\ ver >= disk[p].ver
        /\ disk[p].kind = "link" => ver > disk[p].ver
    BY <1>1, <2>n
  <2>d. PICK d : d = [kind |-> kind, ver |-> ver]
    OBVIOUS
  <2>2. d \in [kind : Kinds, ver : Nat \ {0}] /\ d.ver = ver
    BY <1>3, <2>1, <2>d
  <2>3. disk' = [disk EXCEPT ![p] = d]
    BY <1>1, <1>3, <2>n, <2>d
  <2> QED
    BY <2>1, <2>2, <2>3
<1>4. CASE disk[p].kind = "file" /\ disk' = [disk EXCEPT ![p].ver = @ + 1]
  <2>d. PICK d : d = [disk[p] EXCEPT !.ver = disk[p].ver + 1]
    OBVIOUS
  <2>1. d \in [kind : Kinds, ver : Nat \ {0}] /\ d.ver = disk[p].ver + 1
    <3>1. disk[p] \in [kind : Kinds, ver : Nat \ {0}] /\ disk[p].ver + 1 \in Nat \ {0}
      BY <1>1
    <3> QED
      BY <2>d, <3>1
  <2>2. disk' = [disk EXCEPT ![p] = d] /\ d.ver >= disk[p].ver
    BY <1>1, <1>4, <2>d, <2>1
  <2> QED
    BY <1>2, <1>4, <2>1, <2>2
<1>5. (disk[p].kind = "file" /\ disk' = [disk EXCEPT ![p].ver = @ + 1])
      \/ \E kind \in Kinds :
           disk' = [disk EXCEPT ![p] =
             [kind |-> kind, ver |-> IF @.kind = "link" THEN @.ver + 1 ELSE @.ver]]
  BY DEF Edit
<1> QED
  BY <1>2, <1>3, <1>4, <1>5

LEMMA EditTypes ==
  ASSUME TypeInv, NEW p \in Paths, Edit(p)
  PROVE  TypeInv'
<1>1. UNCHANGED <<tracks, jobs, walk, cancel, task, faults>> /\ touched' \subseteq Paths
      /\ edits' \in Nat
  BY DEF Edit, TypeInv, EnvOK
<1> QED
  BY <1>1, EditedDisk DEF TypeInv, EnvOK, Job

LEMMA CrashTypes ==
  ASSUME TypeInv, Crash
  PROVE  TypeInv'
<1>1. TaskOK(task') /\ task'.at = "down" /\ faults' \in Nat
  BY IdleOK, FaultTypes DEF Crash, FaultKinds
<1>2. \A j \in Jobs : walk'[j] \in Walkers /\ WalkerOK(walk'[j])
  BY FreshWalkerOK DEF Crash, TypeInv, WalkerOK
<1>3. walk' \in [Jobs -> Walkers]
  BY <1>2 DEF Crash
<1> QED
  BY <1>1, <1>2, <1>3 DEF Crash, TypeInv, EnvOK, Job

LEMMA RestartTypes ==
  ASSUME TypeInv, Restart
  PROVE  TypeInv'
<1>1. TaskOK(task') /\ task'.at = "idle"
  BY IdleOK DEF Restart
<1>2. jobs \in Seq(JobRows) /\ DOMAIN jobs = 1 .. Len(jobs) /\ Len(jobs) \in Nat
  BY DEF TypeInv, JobsOK
<1>3. \A j \in 1 .. Len(jobs) : /\ jobs[j] \in JobRows
                                /\ [jobs[j] EXCEPT !.state = "interrupted"] \in JobRows
  <2>1. \A row \in JobRows : [row EXCEPT !.state = "interrupted"] \in JobRows
    BY DEF JobRows
  <2> QED
    BY <1>2, <2>1
<1>4. jobs' = [j \in 1 .. Len(jobs) |-> IF Interruptible(jobs[j].state)
                                        THEN [jobs[j] EXCEPT !.state = "interrupted"]
                                        ELSE jobs[j]]
  BY <1>2 DEF Restart
<1>5. jobs' \in Seq(JobRows) /\ Len(jobs') = Len(jobs)
  <2>1. jobs' \in [1 .. Len(jobs) -> JobRows]
    BY <1>3, <1>4
  <2> QED
    BY <1>2, <2>1
<1> QED
  BY <1>1, <1>5 DEF Restart, TypeInv, EnvOK, JobsOK, Job

LEMMA TypeInit == Init => TypeInv
<1> SUFFICES ASSUME Init PROVE TypeInv
  OBVIOUS
<1>1. TaskOK(task) /\ task.at = "idle"
  BY IdleOK DEF Init
<1>2. JobsOK(jobs)
  BY ConstantsOK DEF Init, JobsOK
<1>3. walk \in [Jobs -> Walkers] /\ \A j \in Jobs : WalkerOK(walk[j])
  BY FreshWalkerOK DEF Init, WalkerOK
<1>4. tracks \in [Paths -> Rows]
  BY ConstantsOK DEF Init, NoTrack, Rows
<1>5. disk \in [Paths -> [kind : Kinds, ver : Nat \ {0}]]
  <2>1. \A d \in [kind : FirstKinds, ver : {1}] : d \in [kind : Kinds, ver : Nat \ {0}]
    BY ConstantsOK
  <2> QED
    BY <2>1 DEF Init
<1> QED
  BY <1>1, <1>2, <1>3, <1>4, <1>5 DEF Init, TypeInv, EnvOK

LEMMA TypeNext == TypeInv /\ [Next]_vars => TypeInv'
<1> SUFFICES ASSUME TypeInv, [Next]_vars PROVE TypeInv'
  OBVIOUS
<1>1. CASE Task
  BY <1>1, BeginTypes, RecvTypes, CheckTypes, ParsedTypes, ParseFailedTypes, TallyTypes,
     ProgressTypes, FinalFlushTypes, JoinTypes, MarkTypes, EndTypes, ReleaseTypes DEF Task
<1>2. CASE Create \/ Cancel \/ Crash \/ Restart
  BY <1>2, CreateTypes, CancelTypes, CrashTypes, RestartTypes
<1>3. ASSUME NEW j \in Jobs, Pull(j) \/ Send(j) PROVE TypeInv'
  BY <1>3, PullTypes, SendTypes
<1>4. ASSUME NEW p \in Paths, Edit(p) PROVE TypeInv'
  BY <1>4, EditTypes
<1>5. CASE UNCHANGED vars
  BY <1>5 DEF vars, TypeInv, EnvOK, Job
<1> QED
  BY <1>1, <1>2, <1>3, <1>4, <1>5 DEF Next

LEMMA TypeAlways == Spec => []TypeInv
  BY TypeInit, TypeNext, PTL DEF Spec

\* Every variable of a scan keeps its type, and channel, batch and detail rows
\* their limits, whatever the size of the library (coordinator.rs:552).
THEOREM ScanTyped == Spec => []TypeOK
  BY TypeAlways, TypeInvTypes, PTL

----------------------------------------------------------------------------
(* Freshness: a version is not ahead of the disk, and tags that come with the *)
(* version of the disk are those of the file.                                 *)

Fresh(p, ver, meta) ==
    /\ ver <= disk[p].ver
    /\ ver = disk[p].ver /\ disk[p].kind # "link" => meta = ver
OpFresh(op) == ~op.stamp => Fresh(op.path, op.ver, op.meta)
ItemFresh(item) == item.ver <= disk[item.path].ver

WalkerFresh(w) ==
    /\ w.at = "send" => ItemFresh(w.item)
    /\ \A i \in 1 .. Len(w.queue) : ItemFresh(w.queue[i])
TaskFresh(t) ==
    /\ \A i \in 1 .. Len(t.batch) : OpFresh(t.batch[i])
    /\ t.at \in Holding => ItemFresh(t.item)

FreshInv ==
    /\ \A p \in Paths : Fresh(p, tracks[p].ver, tracks[p].meta)
    /\ TaskFresh(task) /\ \A j \in Jobs : WalkerFresh(walk[j])

\* While the disk stands still, what was fresh is fresh.
LEMMA StillFresh ==
  ASSUME UNCHANGED disk, \A p \in Paths : Fresh(p, tracks'[p].ver, tracks'[p].meta),
         TaskFresh(task'), \A j \in Jobs : WalkerFresh(walk'[j])
  PROVE  FreshInv'
  BY DEF FreshInv, Fresh, TaskFresh, OpFresh, ItemFresh, WalkerFresh

\* The task drops its item; its batch is as before, or empty.
LEMMA EmptyHandFresh ==
  ASSUME FreshInv, NEW t, t.at \notin Holding, t.batch = task.batch \/ t.batch = <<>>
  PROVE  TaskFresh(t)
  BY DEF FreshInv, TaskFresh

LEMMA GrownFresh ==
  ASSUME TypeInv, FreshInv, NEW t, t.at \notin Holding, NEW op \in Ops, OpFresh(op),
         t.batch = Append(task.batch, op)
  PROVE  TaskFresh(t)
<1>1. task.batch \in Seq(Ops)
  BY DEF TypeInv, TaskOK, Tasks
<1>2. \A i \in 1 .. Len(t.batch) : i \in 1 .. Len(task.batch) \/ i = Len(task.batch) + 1
  BY <1>1, Appended
<1>3. \A i \in 1 .. Len(t.batch) : OpFresh(t.batch[i])
  BY <1>1, <1>2, Appended DEF FreshInv, TaskFresh
<1> QED
  BY <1>3 DEF TaskFresh

LEMMA OneWalkerFresh ==
  ASSUME FreshInv, NEW j \in Jobs, WalkerFresh(walk'[j]),
         \A k \in Jobs : k # j => walk'[k] = walk[k]
  PROVE  \A k \in Jobs : WalkerFresh(walk'[k])
  BY DEF FreshInv

LEMMA PullFresh ==
  ASSUME TypeInv, FreshInv, NEW j \in Jobs, Pull(j)
  PROVE  FreshInv'
<1>1. /\ UNCHANGED <<disk, tracks, task>> /\ walk[j] \in Walkers /\ WalkerFresh(walk[j])
      /\ walk \in [Jobs -> Walkers]
  BY DEF Pull, TypeInv, FreshInv
<1>2. \A k \in Jobs : k # j => walk'[k] = walk[k]
  BY <1>1 DEF Pull
<1>3. /\ walk'[j].queue = walk[j].queue
      /\ walk'[j].at = "send" => walk'[j].item.ver = disk[walk'[j].item.path].ver
                                 /\ walk'[j].item.path \in walk[j].todo
  <2>1. CASE walk' = [walk EXCEPT ![j].at = "done"]
    BY <1>1, <2>1 DEF Walkers
  <2>2. ASSUME NEW p \in walk[j].todo, walk' = [walk EXCEPT ![j].todo = @ \ {p}]
        PROVE  walk'[j].queue = walk[j].queue /\ walk'[j].at = walk[j].at
    BY <1>1, <2>2 DEF Walkers
  <2>3. ASSUME NEW p \in walk[j].todo,
               walk' = [walk EXCEPT ![j].at = "send", ![j].todo = @ \ {p},
                 ![j].item = [path |-> p, kind |-> disk[p].kind, ver |-> disk[p].ver]]
        PROVE  /\ walk'[j].queue = walk[j].queue
               /\ walk'[j].item.ver = disk[p].ver /\ walk'[j].item.path = p
    BY <1>1, <2>3 DEF Walkers
  <2>4. walk[j].at = "pull"
    BY DEF Pull
  <2> QED
    BY <2>1, <2>2, <2>3, <2>4 DEF Pull
<1>4. WalkerFresh(walk'[j])
  <2>1. walk'[j].at = "send" => ItemFresh(walk'[j].item)
    <3>1. ASSUME walk'[j].at = "send" PROVE ItemFresh(walk'[j].item)
      <4>1. walk'[j].item.path \in Paths
        BY <1>1, <1>3, <3>1 DEF Walkers
      <4>2. disk[walk'[j].item.path].ver \in Nat
        BY <4>1 DEF TypeInv, EnvOK
      <4> QED
        BY <1>3, <3>1, <4>2 DEF ItemFresh
    <3> QED
      BY <3>1
  <2> QED
    BY <1>1, <1>3, <2>1 DEF WalkerFresh
<1> QED
  BY <1>1, <1>2, <1>4, OneWalkerFresh, StillFresh DEF FreshInv

LEMMA SendFresh ==
  ASSUME TypeInv, FreshInv, NEW j \in Jobs, Send(j)
  PROVE  FreshInv'
<1>1. /\ UNCHANGED <<disk, tracks, task>> /\ walk[j] \in Walkers /\ WalkerFresh(walk[j])
      /\ walk \in [Jobs -> Walkers] /\ walk[j].at = "send"
  BY DEF Send, TypeInv, FreshInv
<1>2. \A k \in Jobs : k # j => walk'[k] = walk[k]
  BY <1>1 DEF Send
<1>3. CASE walk' = [walk EXCEPT ![j].at = "pull", ![j].item = NoItem,
                                ![j].queue = Append(@, walk[j].item)]
  <2>1. walk'[j].at = "pull" /\ walk'[j].queue = Append(walk[j].queue, walk[j].item)
    BY <1>1, <1>3 DEF Walkers
  <2>2. walk[j].queue \in Seq(Items) /\ walk[j].item \in Items
    BY <1>1 DEF Walkers
  <2>3. \A i \in 1 .. Len(walk'[j].queue) : i \in 1 .. Len(walk[j].queue)
                                            \/ i = Len(walk[j].queue) + 1
    BY <2>1, <2>2, Appended
  <2>4. \A i \in 1 .. Len(walk'[j].queue) : ItemFresh(walk'[j].queue[i])
    BY <1>1, <2>1, <2>2, <2>3, Appended DEF WalkerFresh
  <2>5. WalkerFresh(walk'[j])
    BY <2>1, <2>4 DEF WalkerFresh
  <2> QED
    BY <1>1, <1>2, <2>5, OneWalkerFresh, StillFresh DEF FreshInv
<1>4. CASE walk' = [walk EXCEPT ![j] = Walker("done")]
  <2>1. WalkerFresh(walk'[j])
    BY <1>1, <1>4, FreshWalkerOK DEF WalkerFresh
  <2> QED
    BY <1>1, <1>2, <2>1, OneWalkerFresh, StillFresh DEF FreshInv
<1> QED
  BY <1>3, <1>4 DEF Send

\* Steps of the task that leave rows and walkers alone.
LEMMA AloneFresh ==
  ASSUME FreshInv, UNCHANGED <<disk, tracks, walk>>, TaskFresh(task')
  PROVE  FreshInv'
  BY StillFresh DEF FreshInv

LEMMA AbortFresh ==
  ASSUME FreshInv, Abort, UNCHANGED disk
  PROVE  FreshInv'
<1>1. task'.at = "release" /\ task'.batch = <<>>
  BY IdleOK DEF Abort
<1> QED
  BY <1>1, EmptyHandFresh, AloneFresh DEF Abort, Holding

LEMMA BeginFresh ==
  ASSUME TypeInv, FreshInv, Begin
  PROVE  FreshInv'
<1>1. /\ task.at = "begin" /\ Job \in Jobs /\ UNCHANGED disk /\ walk \in [Jobs -> Walkers]
      /\ task \in Tasks
  BY JobKnown DEF Begin, UnchangedByTask, TypeInv, TaskOK
<1>2. CASE /\ walk' = [walk EXCEPT ![Job] = [Walker("pull") EXCEPT !.todo = Paths]]
           /\ task' = [task EXCEPT !.at = "recv"] /\ UNCHANGED tracks
  <2>1. \A k \in Jobs : k # Job => walk'[k] = walk[k]
    BY <1>1, <1>2
  <2>2. WalkerFresh(walk'[Job])
    <3>1. /\ [Walker("pull") EXCEPT !.todo = Paths].at = "pull"
          /\ [Walker("pull") EXCEPT !.todo = Paths].queue = <<>>
      BY DEF Walker
    <3> QED
      BY <1>1, <1>2, <3>1 DEF WalkerFresh
  <2>3. task'.at = "recv" /\ task'.batch = task.batch
    BY <1>1, <1>2 DEF Tasks
  <2>4. TaskFresh(task')
    BY <2>3, EmptyHandFresh DEF Holding
  <2> QED
    BY <1>1, <1>2, <2>1, <2>2, <2>4, OneWalkerFresh, StillFresh DEF FreshInv
<1> QED
  BY <1>1, <1>2, AbortFresh DEF Begin

LEMMA RecvFresh ==
  ASSUME TypeInv, FreshInv, Recv
  PROVE  FreshInv'
<1>1. /\ task.at = "recv" /\ Job \in Jobs /\ UNCHANGED <<disk, tracks>>
      /\ walk \in [Jobs -> Walkers] /\ task \in Tasks /\ WalkerFresh(walk[Job])
      /\ walk[Job] \in Walkers
  BY JobKnown DEF Recv, UnchangedByTask, TypeInv, TaskOK, FreshInv
<1>2. CASE /\ walk[Job].queue # <<>>
           /\ task' = [task EXCEPT !.at = "check", !.item = Head(walk[Job].queue)]
           /\ walk' = [walk EXCEPT ![Job].queue = Tail(@)]
  <2>1. /\ walk'[Job].queue = Tail(walk[Job].queue) /\ walk'[Job].at = walk[Job].at
        /\ walk'[Job].item = walk[Job].item /\ \A k \in Jobs : k # Job => walk'[k] = walk[k]
    BY <1>1, <1>2 DEF Walkers
  <2>2. walk[Job].queue \in Seq(Items) /\ 1 \in 1 .. Len(walk[Job].queue)
    BY <1>1, <1>2, Taken DEF Walkers
  <2>3. ItemFresh(Head(walk[Job].queue))
    BY <1>1, <1>2, <2>2, Taken DEF WalkerFresh
  <2>4. \A i \in 1 .. Len(walk'[Job].queue) : ItemFresh(walk'[Job].queue[i])
    BY <1>1, <1>2, <2>1, <2>2, Taken DEF WalkerFresh
  <2>5. WalkerFresh(walk'[Job])
    BY <1>1, <2>1, <2>4 DEF WalkerFresh
  <2>6. task'.batch = task.batch /\ task'.item = Head(walk[Job].queue)
    BY <1>1, <1>2 DEF Tasks
  <2>7. TaskFresh(task')
    BY <2>3, <2>6 DEF TaskFresh, FreshInv
  <2> QED
    BY <1>1, <2>1, <2>5, <2>7, OneWalkerFresh, StillFresh DEF FreshInv
<1>3. CASE task' = [task EXCEPT !.at = "final"] /\ UNCHANGED walk
  <2>1. task'.at = "final" /\ task'.batch = task.batch
    BY <1>1, <1>3 DEF Tasks
  <2> QED
    BY <1>1, <1>3, <2>1, EmptyHandFresh, AloneFresh DEF Holding
<1> QED
  BY <1>2, <1>3 DEF Recv

LEMMA StampFresh ==
  ASSUME NEW p
  PROVE  OpFresh(Stamp(p)) /\ Stamp(p).stamp = TRUE /\ Stamp(p).path = p
  BY DEF OpFresh, Stamp

\* The four ways the check of an item goes on.
LEMMA CheckedTask ==
  ASSUME TypeInv, Check, ~Abort
  PROVE  /\ task.at = "check" /\ task.item \in Real /\ UNCHANGED <<tracks, jobs, walk, faults>>
         /\ task'.fin = task.fin
         /\ \/ /\ task'.at = "final" /\ task'.batch = task.batch /\ cancel[Job]
               /\ task'.stopped = TRUE /\ task'.ok = task.ok /\ task'.failed = task.failed
            \/ /\ ~cancel[Job] /\ task'.stopped = task.stopped
               /\ \/ /\ task.item.kind = "link" /\ task'.at = "tally"
                     /\ task'.batch = task.batch
                     /\ task'.ok = task.ok /\ task'.failed = task.failed
                  \/ /\ task.item.kind = "broken" /\ task'.at = "tally"
                     /\ task'.batch = task.batch
                     /\ task'.ok = FALSE /\ task'.failed = task.failed + 1
                  \/ /\ task.item.kind = "file" /\ task'.at = "tally"
                     /\ Unchanged(task.item)
                     /\ task'.batch = Append(task.batch, Stamp(task.item.path))
                     /\ task'.ok = task.ok /\ task'.failed = task.failed
                  \/ /\ task.item.kind = "file" /\ task'.at = "parse"
                     /\ task'.batch = task.batch /\ task'.item = task.item
                     /\ task'.ok = task.ok /\ task'.failed = task.failed
<1>1. task.at = "check" /\ task.item \in Real /\ task \in Tasks
  BY DEF Check, TypeInv, TaskOK, Holding
<1>2. task.item.kind \in {"file", "link", "broken"}
  BY <1>1 DEF Real, Kinds
<1>3. UNCHANGED <<tracks, jobs, walk, faults>>
  BY DEF Check, NoFault
<1>4. CASE cancel[Job]
  <2>1. task' = [task EXCEPT !.at = "final", !.stopped = TRUE, !.item = NoItem]
    BY <1>4 DEF Check
  <2> QED
    BY <1>1, <1>3, <1>4, <2>1 DEF Tasks
<1>5. CASE ~cancel[Job] /\ task.item.kind = "link"
  <2>1. task' = [task EXCEPT !.at = "tally", !.item = NoItem, !.errs = Listed]
    BY <1>5 DEF Check
  <2> QED
    BY <1>1, <1>3, <1>5, <2>1 DEF Tasks
<1>6. CASE ~cancel[Job] /\ task.item.kind = "broken"
  <2>1. task' = [task EXCEPT !.at = "tally", !.item = NoItem, !.errs = Listed,
                             !.ok = FALSE, !.failed = @ + 1]
    BY <1>6 DEF Check
  <2> QED
    BY <1>1, <1>3, <1>6, <2>1 DEF Tasks
<1>7. CASE ~cancel[Job] /\ task.item.kind = "file" /\ Unchanged(task.item)
  <2>1. task' = [task EXCEPT !.at = "tally", !.item = NoItem, !.scanned = @ + 1,
                             !.batch = Append(@, Stamp(task.item.path))]
    BY <1>7 DEF Check
  <2> QED
    BY <1>1, <1>3, <1>7, <2>1 DEF Tasks
<1>8. CASE ~cancel[Job] /\ task.item.kind = "file" /\ ~Unchanged(task.item)
  <2>1. task' = [task EXCEPT !.at = "parse", !.scanned = @ + 1]
    BY <1>8 DEF Check
  <2> QED
    BY <1>1, <1>3, <1>8, <2>1 DEF Tasks
<1> QED
  BY <1>2, <1>4, <1>5, <1>6, <1>7, <1>8

LEMMA CheckFresh ==
  ASSUME TypeInv, FreshInv, Check
  PROVE  FreshInv'
<1>1. UNCHANGED disk
  BY DEF Check, UnchangedByTask
<1>2. CASE Abort
  BY <1>1, <1>2, AbortFresh
<1>3. CASE ~Abort
  <2>1. Stamp(task.item.path) \in Ops /\ OpFresh(Stamp(task.item.path))
    BY <1>3, CheckedTask, OpsTyped, StampFresh
  <2>2. CASE task'.at # "parse"
    <3>1. /\ task'.at \notin Holding
          /\ task'.batch = task.batch \/ task'.batch = Append(task.batch, Stamp(task.item.path))
      BY <1>3, <2>2, CheckedTask DEF Holding
    <3>2. TaskFresh(task')
      BY <2>1, <3>1, EmptyHandFresh, GrownFresh
    <3> QED
      BY <1>1, <1>3, <3>2, CheckedTask, AloneFresh
  <2>3. CASE task'.at = "parse"
    <3>1. task'.batch = task.batch /\ task'.item = task.item /\ task.at = "check"
      BY <1>3, <2>3, CheckedTask
    <3>2. TaskFresh(task')
      BY <3>1 DEF TaskFresh, FreshInv, Holding
    <3> QED
      BY <1>1, <1>3, <3>2, CheckedTask, AloneFresh
  <2> QED
    BY <2>2, <2>3
<1> QED
  BY <1>2, <1>3

LEMMA ParsedTask ==
  ASSUME TypeInv, Parsed
  PROVE  /\ task.at = "parse" /\ task.item \in Real /\ disk[task.item.path].kind \in {"file", "link"}
         /\ task'.at = "tally" /\ task'.batch = Append(task.batch, Upsert(task.item))
         /\ task'.ok = task.ok /\ task'.failed = task.failed /\ task'.fin = task.fin
         /\ task'.stopped = task.stopped
         /\ UNCHANGED <<disk, touched, cancel, tracks, jobs, walk>>
<1>1. task \in Tasks /\ task.item \in Real
  BY DEF Parsed, TypeInv, TaskOK, Holding
<1> QED
  BY <1>1 DEF Parsed, Tasks, UnchangedByTask

LEMMA ParsedFresh ==
  ASSUME TypeInv, FreshInv, Parsed
  PROVE  FreshInv'
<1>1. /\ task.item \in Real /\ task.item.path \in Paths /\ task.item.ver \in Nat
      /\ task.item.ver <= disk[task.item.path].ver
  BY ParsedTask DEF Real, FreshInv, TaskFresh, ItemFresh, Holding
<1>2. OpFresh(Upsert(task.item))
  <2>1. /\ Upsert(task.item).path = task.item.path /\ Upsert(task.item).ver = task.item.ver
        /\ disk[task.item.path].kind = "file" =>
             Upsert(task.item).meta = disk[task.item.path].ver
    BY DEF Upsert
  <2>2. disk[task.item.path].kind # "link" => disk[task.item.path].kind = "file"
    BY ParsedTask
  <2> QED
    BY <1>1, <2>1, <2>2 DEF OpFresh, Fresh
<1>3. TaskFresh(task')
  BY <1>1, <1>2, ParsedTask, OpsTyped, GrownFresh DEF Holding
<1> QED
  BY <1>3, ParsedTask, AloneFresh

LEMMA ParseFailedTask ==
  ASSUME TypeInv, ParseFailed
  PROVE  /\ task.at = "parse" /\ task.item \in Real
         /\ task'.failed = task.failed + 1 /\ task'.failed > 0
         /\ task'.ok = task.ok /\ task'.fin = task.fin
         /\ task'.stopped = task.stopped
         /\ UNCHANGED <<disk, touched, cancel, tracks, jobs, walk>>
         /\ \/ /\ Row(task.item.path) /\ task'.at = "tally"
               /\ task'.batch = Append(task.batch, Stamp(task.item.path))
            \/ /\ ~Row(task.item.path) /\ task'.at = "recv" /\ task'.batch = task.batch
<1>1. task \in Tasks /\ task.item \in Real /\ task.at = "parse"
  BY DEF ParseFailed, TypeInv, TaskOK, Holding
<1>n. PICK failed \in Nat : failed = task.failed + 1 /\ failed > 0
  BY <1>1 DEF Tasks
<1>t. PICK t : t = [task EXCEPT !.item = NoItem, !.failed = failed, !.errs = Listed]
  OBVIOUS
<1>2. /\ t \in Tasks /\ t.batch = task.batch /\ t.failed = failed /\ t.ok = task.ok
      /\ t.fin = task.fin /\ t.stopped = task.stopped
  BY <1>1, <1>t, NoItemTyped, ListedTyped DEF Tasks
<1>3. task' = IF Row(task.item.path)
              THEN [t EXCEPT !.at = "tally", !.batch = Append(@, Stamp(task.item.path))]
              ELSE [t EXCEPT !.at = "recv"]
  BY <1>n, <1>t DEF ParseFailed, KeptRow
<1>4. CASE Row(task.item.path)
  BY <1>1, <1>2, <1>3, <1>4, <1>n DEF Tasks, ParseFailed, UnchangedByTask
<1>5. CASE ~Row(task.item.path)
  BY <1>1, <1>2, <1>3, <1>5, <1>n DEF Tasks, ParseFailed, UnchangedByTask
<1> QED
  BY <1>4, <1>5

LEMMA ParseFailedFresh ==
  ASSUME TypeInv, FreshInv, ParseFailed
  PROVE  FreshInv'
<1>1. Stamp(task.item.path) \in Ops /\ OpFresh(Stamp(task.item.path))
  BY ParseFailedTask, OpsTyped, StampFresh
<1>2. /\ task'.at \notin Holding
      /\ task'.batch = task.batch \/ task'.batch = Append(task.batch, Stamp(task.item.path))
  BY ParseFailedTask DEF Holding
<1>3. TaskFresh(task')
  BY <1>1, <1>2, EmptyHandFresh, GrownFresh
<1> QED
  BY <1>3, ParseFailedTask, AloneFresh

\* The two flushes.
LEMMA WrittenTask ==
  ASSUME TypeInv, NEW next, task.at \in {"tally", "final"}, Write(task.batch, next), ~Abort
  PROVE  /\ task.batch \in Seq(Ops) /\ tracks' = Flushed(task.batch)
         /\ task'.at = next /\ task'.batch = <<>>
         /\ task'.ok = task.ok /\ task'.fin = task.fin /\ task'.stopped = task.stopped
         /\ task'.failed = task.failed
         /\ UNCHANGED <<jobs, walk>>
<1>1. task \in Tasks
  BY DEF TypeInv, TaskOK
<1> QED
  BY <1>1 DEF Write, Tasks

LEMMA WriteFresh ==
  ASSUME TypeInv, FreshInv, NEW next, next \notin Holding, task.at \in {"tally", "final"},
         UNCHANGED disk, Write(task.batch, next)
  PROVE  FreshInv'
<1>1. CASE Abort
  BY <1>1, AbortFresh
<1>2. CASE ~Abort
  <2>1. \A p \in Paths : Fresh(p, tracks'[p].ver, tracks'[p].meta)
    <3>1. SUFFICES ASSUME NEW p \in Paths PROVE Fresh(p, tracks'[p].ver, tracks'[p].meta)
      OBVIOUS
    <3>2. Fresh(p, tracks[p].ver, tracks[p].meta) /\ tracks[p] \in Rows
      BY DEF FreshInv, TypeInv
    <3>3. tracks' = Flushed(task.batch) /\ task.batch \in Seq(Ops)
      BY <1>2, WrittenTask
    <3>4. CASE tracks'[p] = tracks[p]
      BY <3>2, <3>4
    <3>5. ASSUME NEW i \in 1 .. Len(task.batch), task.batch[i].path = p, task.batch[i].stamp,
                 tracks'[p] = [tracks[p] EXCEPT !.available = TRUE, !.seen = Job]
          PROVE  Fresh(p, tracks'[p].ver, tracks'[p].meta)
      BY <3>2, <3>5 DEF Rows
    <3>6. ASSUME NEW i \in 1 .. Len(task.batch), task.batch[i].path = p, ~task.batch[i].stamp,
                 tracks'[p] = [ver |-> task.batch[i].ver, meta |-> task.batch[i].meta,
                               available |-> TRUE, seen |-> Job]
          PROVE  Fresh(p, tracks'[p].ver, tracks'[p].meta)
      BY <3>6 DEF FreshInv, TaskFresh, OpFresh
    <3> QED
      BY <3>3, <3>4, <3>5, <3>6, FlushedRow
  <2>2. TaskFresh(task')
    BY <1>2, WrittenTask, EmptyHandFresh
  <2> QED
    BY <1>2, <2>1, <2>2, WrittenTask, StillFresh DEF FreshInv
<1> QED
  BY <1>1, <1>2

\* Where the batch is already written, the task only goes on.
LEMMA LateTask ==
  ASSUME TypeInv, Progress \/ Join \/ Decide \/ Mark, ~Abort
  PROVE  /\ task.at \in {"progress", "join", "decide", "mark"}
         /\ task'.batch = task.batch /\ task'.ok = task.ok /\ task'.failed = task.failed
         /\ task'.stopped = task.stopped /\ UNCHANGED <<disk, touched, cancel, walk>>
         /\ Progress => task'.at = "recv" /\ jobs' = Counted /\ UNCHANGED tracks
         /\ Join => task'.at = "decide" /\ UNCHANGED <<tracks, jobs>>
         /\ Decide =>
              /\ UNCHANGED <<tracks, jobs>>
              /\ \/ task'.at = "end" /\ task'.fin \in {"cancelled", "failed"}
                 \/ task'.at = "mark" /\ ~cancel[Job] /\ ~task.stopped /\ task.ok
         /\ Mark => /\ task'.at = "end" /\ task'.fin = "completed" /\ UNCHANGED jobs
                    /\ tracks' = [p \in Paths |->
                         IF Row(p) /\ tracks[p].seen # Job
                         THEN [tracks[p] EXCEPT !.available = FALSE]
                         ELSE tracks[p]]
<1>1. task \in Tasks
  BY DEF TypeInv, TaskOK
<1>2. CASE Progress
  BY <1>1, <1>2 DEF Progress, UnchangedByTask, Tasks, Join, Decide, Mark
<1>3. CASE Join
  BY <1>1, <1>3 DEF Join, UnchangedByTask, Tasks, Progress, Decide, Mark
<1>4. CASE Decide
  <2>1. CASE task.stopped \/ cancel[Job]
    BY <1>1, <1>4, <2>1 DEF Decide, UnchangedByTask, Tasks, Progress, Join, Mark
  <2>2. CASE ~(task.stopped \/ cancel[Job]) /\ task.ok
    BY <1>1, <1>4, <2>2 DEF Decide, UnchangedByTask, Tasks, Progress, Join, Mark, WalkOk
  <2>3. CASE ~(task.stopped \/ cancel[Job]) /\ ~task.ok
    BY <1>1, <1>4, <2>3 DEF Decide, UnchangedByTask, Tasks, Progress, Join, Mark, WalkOk
  <2> QED
    BY <2>1, <2>2, <2>3
<1>5. CASE Mark
  BY <1>1, <1>5 DEF Mark, UnchangedByTask, Tasks, Progress, Join, Decide, Unseen
<1> QED
  BY <1>2, <1>3, <1>4, <1>5

LEMMA LateFresh ==
  ASSUME TypeInv, FreshInv, Progress \/ Join \/ Decide \/ Mark
  PROVE  FreshInv'
<1>1. UNCHANGED disk
  BY DEF Progress, Join, Decide, Mark, UnchangedByTask
<1>2. CASE Abort
  BY <1>1, <1>2, AbortFresh
<1>3. CASE ~Abort
  <2>1. task'.at \notin Holding /\ task'.batch = task.batch /\ UNCHANGED walk
    BY <1>3, LateTask DEF Holding
  <2>2. \A p \in Paths : tracks'[p].ver = tracks[p].ver /\ tracks'[p].meta = tracks[p].meta
    <3>1. CASE UNCHANGED tracks
      BY <3>1
    <3>2. CASE Mark
      <4>1. \A p \in Paths : tracks[p] \in Rows
        BY DEF TypeInv
      <4>2. \A p \in Paths : tracks'[p] = tracks[p]
                             \/ tracks'[p] = [tracks[p] EXCEPT !.available = FALSE]
        BY <1>3, <3>2, LateTask
      <4> QED
        BY <4>1, <4>2 DEF Rows
    <3> QED
      BY <1>3, <3>1, <3>2, LateTask
  <2>3. TaskFresh(task')
    BY <2>1, EmptyHandFresh
  <2> QED
    BY <1>1, <2>1, <2>2, <2>3, StillFresh DEF FreshInv
<1> QED
  BY <1>2, <1>3

LEMMA TallyFresh ==
  ASSUME TypeInv, FreshInv, Tally \/ FinalFlush
  PROVE  FreshInv'
<1>1. UNCHANGED disk
  BY DEF Tally, FinalFlush, UnchangedByTask
<1>2. CASE task' = [task EXCEPT !.at = "recv"] /\ UNCHANGED <<tracks, walk>>
  <2>1. task \in Tasks
    BY DEF TypeInv, TaskOK
  <2>2. task'.at = "recv" /\ task'.batch = task.batch
    BY <1>2, <2>1 DEF Tasks
  <2> QED
    BY <1>1, <1>2, <2>2, EmptyHandFresh, AloneFresh DEF Holding
<1> QED
  BY <1>1, <1>2, WriteFresh DEF Tally, FinalFlush, LastBatch, Holding

\* A step after which the task has nothing in hand and no batch.
LEMMA FreshStart ==
  ASSUME FreshInv, UNCHANGED <<disk, tracks, walk>>, task'.at \notin Holding,
         task'.batch = <<>>
  PROVE  FreshInv'
  BY EmptyHandFresh, AloneFresh

LEMMA LeaveFresh ==
  ASSUME FreshInv, End \/ Release \/ Create \/ Cancel \/ Restart
  PROVE  FreshInv'
<1>1. UNCHANGED <<disk, tracks, walk>>
  BY DEF End, Abort, Release, Create, Cancel, Restart, UnchangedByTask
<1>2. CASE Cancel
  BY <1>1, <1>2, AloneFresh DEF Cancel, FreshInv
<1>3. CASE Create
  <2>1. task'.at = "begin" /\ task'.batch = <<>>
    BY <1>3 DEF Create, Idle
  <2> QED
    BY <1>1, <2>1, FreshStart DEF Holding
<1>4. CASE End \/ Release \/ Restart
  <2>1. task'.at \notin Holding /\ task'.batch = <<>>
    BY <1>4, IdleOK DEF End, Abort, Release, Restart, Holding
  <2> QED
    BY <1>1, <2>1, FreshStart
<1> QED
  BY <1>2, <1>3, <1>4

LEMMA CrashFresh ==
  ASSUME FreshInv, Crash
  PROVE  FreshInv'
<1>1. UNCHANGED <<disk, tracks>> /\ task'.at \notin Holding /\ task'.batch = <<>>
  BY IdleOK DEF Crash, Holding
<1>2. \A j \in Jobs : WalkerFresh(walk'[j])
  BY FreshWalkerOK DEF Crash, FreshInv, WalkerFresh
<1> QED
  BY <1>1, <1>2, EmptyHandFresh, StillFresh DEF FreshInv

\* Versions only grow, and what replaces a link is new.
LEMMA EditFresh ==
  ASSUME TypeInv, FreshInv, NEW p \in Paths, Edit(p)
  PROVE  FreshInv'
<1>1. UNCHANGED <<tracks, walk, task>>
  BY DEF Edit
<1>2. \A q \in Paths : /\ disk[q].ver \in Nat /\ disk'[q].ver \in Nat
                       /\ disk[q].ver <= disk'[q].ver
                       /\ disk[q].kind = "link" =>
                            disk'[q].ver > disk[q].ver \/ disk'[q] = disk[q]
                       /\ disk'[q].ver = disk[q].ver /\ disk'[q].kind # "link" =>
                            disk[q].kind # "link"
  <2>1. \A q \in Paths : disk[q].ver \in Nat /\ disk'[q].ver \in Nat
    BY EditedDisk DEF TypeInv, EnvOK
  <2>2. SUFFICES ASSUME NEW q \in Paths
                 PROVE  /\ disk[q].ver <= disk'[q].ver
                        /\ disk[q].kind = "link" =>
                             disk'[q].ver > disk[q].ver \/ disk'[q] = disk[q]
                        /\ disk'[q].ver = disk[q].ver /\ disk'[q].kind # "link" =>
                             disk[q].kind # "link"
    BY <2>1
  <2>3. CASE q = p
    BY <2>1, <2>3, EditedDisk
  <2>4. CASE q # p
    BY <2>1, <2>4, EditedDisk
  <2> QED
    BY <2>3, <2>4
<1>3. ASSUME NEW q \in Paths, NEW ver \in Nat, NEW meta, Fresh(q, ver, meta)
      PROVE  Fresh(q, ver, meta)'
  BY <1>2, <1>3 DEF Fresh
<1>4. ASSUME NEW item \in Items, item.path \in Paths, ItemFresh(item)
      PROVE  ItemFresh(item)'
  BY <1>2, <1>4 DEF ItemFresh, Items
<1>5. \A q \in Paths : Fresh(q, tracks[q].ver, tracks[q].meta)'
  <2>1. \A q \in Paths : tracks[q].ver \in Nat
    BY DEF TypeInv, Rows
  <2> QED
    BY <1>1, <1>3, <2>1 DEF FreshInv
<1>6. TaskFresh(task)'
  <2>1. task.batch \in Seq(Ops) /\ (task.at \in Holding => task.item \in Real)
    BY DEF TypeInv, TaskOK, Tasks
  <2>2. \A i \in 1 .. Len(task.batch) : OpFresh(task.batch[i])'
    <3>1. SUFFICES ASSUME NEW i \in 1 .. Len(task.batch), ~task.batch[i].stamp
                   PROVE  Fresh(task.batch[i].path, task.batch[i].ver, task.batch[i].meta)'
      BY <1>1 DEF OpFresh
    <3>2. task.batch[i] \in Ops
      BY <2>1
    <3>3. task.batch[i].path \in Paths /\ task.batch[i].ver \in Nat
      BY <3>2 DEF Ops
    <3>4. Fresh(task.batch[i].path, task.batch[i].ver, task.batch[i].meta)
      BY <3>1 DEF FreshInv, TaskFresh, OpFresh
    <3> QED
      BY <1>1, <1>3, <3>3, <3>4
  <2>3. task.at \in Holding => ItemFresh(task.item)'
    <3>1. SUFFICES ASSUME task.at \in Holding PROVE ItemFresh(task.item)'
      OBVIOUS
    <3>2. task.item \in Items /\ task.item.path \in Paths /\ ItemFresh(task.item)
      BY <2>1, <3>1 DEF Real, Items, FreshInv, TaskFresh
    <3> QED
      BY <1>1, <1>4, <3>2
  <2> QED
    BY <1>1, <2>2, <2>3 DEF TaskFresh
<1>7. \A j \in Jobs : WalkerFresh(walk[j])'
  <2>1. SUFFICES ASSUME NEW j \in Jobs PROVE WalkerFresh(walk[j])'
    OBVIOUS
  <2>2. WalkerOK(walk[j]) /\ WalkerFresh(walk[j]) /\ walk[j].queue \in Seq(Items)
    BY DEF TypeInv, FreshInv, Walkers
  <2>3. \A item \in Real : item \in Items /\ item.path \in Paths
    BY DEF Real, Items
  <2>4. walk[j].at = "send" => ItemFresh(walk[j].item)'
    BY <1>1, <1>4, <2>2, <2>3 DEF WalkerOK, WalkerFresh
  <2>5. \A i \in 1 .. Len(walk[j].queue) : ItemFresh(walk[j].queue[i])'
    <3>1. SUFFICES ASSUME NEW i \in 1 .. Len(walk[j].queue)
                   PROVE  ItemFresh(walk[j].queue[i])'
      BY <1>1
    <3>2. walk[j].queue[i] \in Real /\ ItemFresh(walk[j].queue[i])
      BY <2>2 DEF WalkerOK, WalkerFresh
    <3> QED
      BY <1>1, <1>4, <2>3, <3>2
  <2> QED
    BY <1>1, <2>4, <2>5 DEF WalkerFresh
<1> QED
  BY <1>1, <1>5, <1>6, <1>7 DEF FreshInv

LEMMA FreshInit == Init => FreshInv
<1> SUFFICES ASSUME Init PROVE FreshInv
  OBVIOUS
<1>1. \A p \in Paths : Fresh(p, tracks[p].ver, tracks[p].meta)
  <2>1. \A p \in Paths : disk[p].ver = 1 /\ tracks[p].ver = 0
    BY DEF Init, NoTrack
  <2> QED
    BY <2>1 DEF Fresh
<1>2. TaskFresh(task) /\ \A j \in Jobs : WalkerFresh(walk[j])
  BY IdleOK, FreshWalkerOK DEF Init, TaskFresh, WalkerFresh, Holding
<1> QED
  BY <1>1, <1>2 DEF FreshInv

LEMMA FreshNext == TypeInv /\ FreshInv /\ [Next]_vars => FreshInv'
<1> SUFFICES ASSUME TypeInv, FreshInv, [Next]_vars PROVE FreshInv'
  OBVIOUS
<1>1. CASE Task
  BY <1>1, BeginFresh, RecvFresh, CheckFresh, ParsedFresh, ParseFailedFresh, TallyFresh,
     LateFresh, LeaveFresh DEF Task
<1>2. CASE Create \/ Cancel \/ Crash \/ Restart
  BY <1>2, LeaveFresh, CrashFresh
<1>3. ASSUME NEW j \in Jobs, Pull(j) \/ Send(j) PROVE FreshInv'
  BY <1>3, PullFresh, SendFresh
<1>4. ASSUME NEW p \in Paths, Edit(p) PROVE FreshInv'
  BY <1>4, EditFresh
<1>5. CASE UNCHANGED vars
  BY <1>5, AloneFresh DEF vars, FreshInv
<1> QED
  BY <1>1, <1>2, <1>3, <1>4, <1>5 DEF Next

\* A row with the size and mtime of its file has the tags of that file, whatever
\* was edited between walk, parse and flush: skipping unchanged files keeps no
\* stale tags (coordinator.rs:419-423).
THEOREM RowsAreFresh == Spec => []UnchangedIsFresh
<1>1. FreshInv => UnchangedIsFresh
  BY DEF FreshInv, Fresh, UnchangedIsFresh
<1> QED
  BY <1>1, TypeInit, TypeNext, FreshInit, FreshNext, PTL DEF Spec

----------------------------------------------------------------------------
(* The other steps of the task, field by field *)

LEMMA AbortTask ==
  ASSUME Abort
  PROVE  task'.at = "release" /\ task'.batch = <<>> /\ task'.fin = "none"
         /\ UNCHANGED <<tracks, jobs, walk>>
  BY IdleOK DEF Abort

LEMMA BegunTask ==
  ASSUME TypeInv, Begin, ~Abort
  PROVE  /\ task.at = "begin" /\ task'.at = "recv" /\ task'.batch = task.batch
         /\ task'.stopped = task.stopped /\ task'.ok = task.ok /\ Job \in Jobs
         /\ Len(jobs') = Len(jobs) /\ jobs'[Job].state = "running"
         /\ walk'[Job].at = "pull" /\ walk'[Job].todo = Paths /\ walk'[Job].queue = <<>>
         /\ UNCHANGED <<disk, touched, cancel, tracks>>
<1>1. task \in Tasks /\ Job \in Jobs /\ task.at = "begin" /\ walk \in [Jobs -> Walkers]
  BY JobKnown DEF TypeInv, TaskOK, Begin
<1>2. jobs \in Seq(JobRows) /\ Job = Len(jobs) /\ Job \in 1 .. Len(jobs)
  BY <1>1 DEF TypeInv, JobsOK, Job, Jobs
<1>3. /\ jobs' = [jobs EXCEPT ![Job].state = "running"]
      /\ walk' = [walk EXCEPT ![Job] = [Walker("pull") EXCEPT !.todo = Paths]]
      /\ task' = [task EXCEPT !.at = "recv"]
  BY DEF Begin
<1>4. Len(jobs') = Len(jobs) /\ jobs'[Job].state = "running"
  <2>1. jobs[Job] \in JobRows
    BY <1>2
  <2> QED
    BY <1>2, <1>3, <2>1 DEF JobRows
<1>5. walk'[Job].at = "pull" /\ walk'[Job].todo = Paths /\ walk'[Job].queue = <<>>
  BY <1>1, <1>3 DEF Walker
<1> QED
  BY <1>1, <1>3, <1>4, <1>5 DEF Begin, UnchangedByTask, Tasks

LEMMA RecvTask ==
  ASSUME TypeInv, Recv
  PROVE  /\ task.at = "recv" /\ Job \in Jobs /\ task'.batch = task.batch
         /\ task'.stopped = task.stopped /\ task'.ok = task.ok /\ task'.failed = task.failed
         /\ UNCHANGED <<disk, touched, cancel, tracks, jobs>>
         /\ walk'[Job].at = walk[Job].at /\ walk'[Job].todo = walk[Job].todo
         /\ walk'[Job].item = walk[Job].item /\ walk[Job].queue \in Seq(Items)
         /\ \/ /\ task'.at = "check" /\ walk[Job].queue # <<>>
               /\ task'.item = Head(walk[Job].queue)
               /\ walk'[Job].queue = Tail(walk[Job].queue)
            \/ /\ task'.at = "final" /\ UNCHANGED walk
               /\ walk[Job].queue = <<>> /\ walk[Job].at = "done"
<1>1. task \in Tasks /\ Job \in Jobs /\ task.at = "recv" /\ walk \in [Jobs -> Walkers]
  BY JobKnown DEF TypeInv, TaskOK, Recv
<1>2. walk[Job] \in Walkers /\ walk[Job].queue \in Seq(Items)
  BY <1>1 DEF Walkers
<1>3. CASE /\ walk[Job].queue # <<>>
           /\ task' = [task EXCEPT !.at = "check", !.item = Head(walk[Job].queue)]
           /\ walk' = [walk EXCEPT ![Job].queue = Tail(@)]
  BY <1>1, <1>2, <1>3 DEF Recv, UnchangedByTask, Tasks, Walkers
<1>4. CASE ChannelClosed /\ task' = [task EXCEPT !.at = "final"] /\ UNCHANGED walk
  BY <1>1, <1>2, <1>4 DEF Recv, UnchangedByTask, Tasks, ChannelClosed
<1> QED
  BY <1>3, <1>4 DEF Recv

\* A batch that waits for more.
LEMMA TalliedTask ==
  ASSUME TypeInv, Tally, ~Write(task.batch, "progress")
  PROVE  /\ task.at = "tally" /\ task'.at = "recv" /\ task'.batch = task.batch
         /\ task'.stopped = task.stopped /\ task'.ok = task.ok /\ task'.failed = task.failed
         /\ UNCHANGED <<disk, touched, cancel, tracks, jobs, walk>>
<1>1. task \in Tasks
  BY DEF TypeInv, TaskOK
<1> QED
  BY <1>1 DEF Tally, UnchangedByTask, Tasks

LEMMA EndedTask ==
  ASSUME TypeInv, End, ~Abort
  PROVE  /\ task.at = "end" /\ task'.at = "release" /\ task'.batch = <<>> /\ task'.fin = "none"
         /\ Job \in Jobs /\ Len(jobs') = Len(jobs)
         /\ jobs'[Job].state = task.fin /\ jobs'[Job].failed = task.failed
         /\ UNCHANGED <<disk, touched, cancel, tracks, walk>>
<1>1. task \in Tasks /\ Job \in Jobs /\ task.fin \in {"completed", "failed", "cancelled"}
  BY JobKnown DEF TypeInv, TaskOK, Tasks, End
<1>2. jobs' = [Counted EXCEPT ![Job].state = task.fin] /\ task' = [Idle EXCEPT !.at = "release"]
  BY DEF End
<1> QED
  BY <1>1, <1>2, IdleOK, CountedTyped DEF End, UnchangedByTask

LEMMA LeavingTask ==
  ASSUME Release \/ Crash \/ Restart
  PROVE  /\ task'.at \in {"idle", "down"} /\ task'.batch = <<>> /\ task'.fin = "none"
         /\ UNCHANGED <<disk, touched, cancel, tracks>>
  BY IdleOK DEF Release, Crash, Restart, UnchangedByTask

\* Only Create adds a job.
LEMMA JobStays ==
  ASSUME TypeInv, [Next]_vars, ~Create
  PROVE  Job' = Job
<1>1. CASE Begin /\ ~Abort
  BY <1>1, BegunTask DEF Job
<1>2. CASE End /\ ~Abort
  BY <1>2, EndedTask DEF Job
<1>3. CASE Progress /\ ~Abort
  <2>1. Job \in Jobs /\ jobs' = Counted
    BY <1>3, LateTask, JobKnown DEF Progress
  <2> QED
    BY <2>1, CountedTyped DEF Job
<1>4. CASE Restart
  <2>1. jobs \in Seq(JobRows)
    BY DEF TypeInv, JobsOK
  <2>2. jobs' = [j \in 1 .. Len(jobs) |-> IF Interruptible(jobs[j].state)
                                          THEN [jobs[j] EXCEPT !.state = "interrupted"]
                                          ELSE jobs[j]]
    BY <1>4, <2>1 DEF Restart
  <2> QED
    BY <2>1, <2>2 DEF Job
<1>5. CASE UNCHANGED jobs
  BY <1>5 DEF Job
<1>6. CASE Task
  BY <1>1, <1>2, <1>3, <1>5, <1>6
     DEF Task, Abort, Recv, Check, Parsed, ParseFailed, Tally, Write, FinalFlush, Join, Decide,
         Mark, Release
<1>7. CASE Cancel \/ Crash \/ (\E j \in Jobs : Pull(j) \/ Send(j)) \/ (\E p \in Paths : Edit(p))
  BY <1>5, <1>7 DEF Cancel, Crash, Pull, Send, Edit
<1> QED
  BY <1>4, <1>5, <1>6, <1>7 DEF Next, vars

----------------------------------------------------------------------------
(* Rows: those of the last scan are available, and no scan has stamped ahead. *)

RowsInv ==
    /\ \A p \in Paths : tracks[p].seen <= Job
    /\ Job > 0 => \A p \in Paths : tracks[p].seen = Job => Row(p) /\ tracks[p].available
    /\ task.at = "begin" =>
         task.batch = <<>> /\ ~task.stopped /\ \A p \in Paths : tracks[p].seen < Job
    /\ \A i \in 1 .. Len(task.batch) :
         IF task.batch[i].stamp THEN Row(task.batch[i].path) ELSE task.batch[i].ver # 0

\* The batch stays, or is gone.
LEMMA RowsSame ==
  ASSUME RowsInv, UNCHANGED tracks, Job' = Job, task'.at # "begin",
         task'.batch = task.batch \/ task'.batch = <<>>
  PROVE  RowsInv'
  BY DEF RowsInv, Row

LEMMA RowsGrow ==
  ASSUME TypeInv, RowsInv, UNCHANGED tracks, Job' = Job, task'.at # "begin",
         NEW op \in Ops, task'.batch = Append(task.batch, op),
         IF op.stamp THEN Row(op.path) ELSE op.ver # 0
  PROVE  RowsInv'
<1>1. task.batch \in Seq(Ops)
  BY DEF TypeInv, TaskOK, Tasks
<1>2. \A i \in 1 .. Len(task'.batch) : i \in 1 .. Len(task.batch) \/ i = Len(task.batch) + 1
  BY <1>1, Appended
<1>3. \A i \in 1 .. Len(task'.batch) :
        IF task'.batch[i].stamp THEN Row(task'.batch[i].path) ELSE task'.batch[i].ver # 0
  <2>1. SUFFICES ASSUME NEW i \in 1 .. Len(task'.batch)
                 PROVE  IF task'.batch[i].stamp THEN Row(task'.batch[i].path)
                                                ELSE task'.batch[i].ver # 0
    OBVIOUS
  <2>2. CASE i \in 1 .. Len(task.batch)
    BY <1>1, <2>2, Appended DEF RowsInv
  <2>3. CASE i = Len(task.batch) + 1
    BY <1>1, <2>3, Appended
  <2> QED
    BY <1>2, <2>2, <2>3
<1> QED
  BY <1>3 DEF RowsInv, Row

LEMMA RowsWritten ==
  ASSUME TypeInv, RowsInv, NEW next, next # "begin", task.at \in {"tally", "final"},
         Write(task.batch, next), ~Abort
  PROVE  RowsInv'
<1>1. /\ task.batch \in Seq(Ops) /\ tracks' = Flushed(task.batch) /\ task'.at = next
      /\ task'.batch = <<>> /\ Job' = Job /\ Job \in Jobs
  BY WrittenTask, JobKnown DEF Job
<1>2. ASSUME NEW p \in Paths
      PROVE  \/ tracks'[p] = tracks[p]
             \/ tracks'[p].seen = Job /\ tracks'[p].available /\ tracks'[p].ver # 0
  <2>1. tracks[p] \in Rows
    BY DEF TypeInv
  <2>2. ASSUME NEW i \in 1 .. Len(task.batch), task.batch[i].path = p, task.batch[i].stamp,
               tracks'[p] = [tracks[p] EXCEPT !.available = TRUE, !.seen = Job]
        PROVE  tracks'[p].seen = Job /\ tracks'[p].available /\ tracks'[p].ver # 0
    <3>1. Row(p)
      BY <2>2 DEF RowsInv
    <3> QED
      BY <2>1, <2>2, <3>1 DEF Rows, Row
  <2>3. ASSUME NEW i \in 1 .. Len(task.batch), task.batch[i].path = p, ~task.batch[i].stamp,
               tracks'[p] = [ver |-> task.batch[i].ver, meta |-> task.batch[i].meta,
                             available |-> TRUE, seen |-> Job]
        PROVE  tracks'[p].seen = Job /\ tracks'[p].available /\ tracks'[p].ver # 0
    BY <2>3 DEF RowsInv
  <2> QED
    BY <1>1, <2>2, <2>3, FlushedRow
<1>3. Job \in Nat
  BY JobKnown
<1> QED
  BY <1>1, <1>2, <1>3 DEF RowsInv, Row

LEMMA RowsTask ==
  ASSUME TypeInv, RowsInv, Task
  PROVE  RowsInv'
<1>1. Job' = Job
  BY JobStays DEF Next, Create, Task, Begin, Recv, Check, Parsed, ParseFailed, Tally, Progress,
                  FinalFlush, Join, Decide, Mark, End, Release
<1>2. CASE Abort
  BY <1>1, <1>2, AbortTask, RowsSame
<1>3. CASE (Begin \/ End) /\ ~Abort
  BY <1>1, <1>3, BegunTask, EndedTask, RowsSame
<1>4. CASE Recv \/ Release
  BY <1>1, <1>4, RecvTask, LeavingTask, RowsSame
<1>5. CASE Check /\ ~Abort
  <2>1. CASE task'.batch = task.batch
    BY <1>1, <1>5, <2>1, CheckedTask, RowsSame
  <2>2. CASE /\ Unchanged(task.item) /\ task'.at = "tally"
             /\ task'.batch = Append(task.batch, Stamp(task.item.path))
    <3>1. task.item \in Real /\ UNCHANGED tracks
      BY <1>5, CheckedTask
    <3>2. Row(task.item.path)
      BY <2>2, <3>1 DEF Unchanged, Real, Row
    <3> QED
      BY <1>1, <2>2, <3>1, <3>2, OpsTyped, StampFresh, RowsGrow
  <2> QED
    BY <1>5, <2>1, <2>2, CheckedTask
<1>6. CASE Parsed
  <2>1. Upsert(task.item).stamp = FALSE /\ Upsert(task.item).ver = task.item.ver
    BY DEF Upsert
  <2>2. task.item.ver # 0
    BY <1>6, ParsedTask DEF Real
  <2> QED
    BY <1>1, <1>6, <2>1, <2>2, ParsedTask, OpsTyped, RowsGrow
<1>7. CASE ParseFailed
  <2>1. CASE task'.batch = task.batch
    BY <1>1, <1>7, <2>1, ParseFailedTask, RowsSame
  <2>2. CASE Row(task.item.path) /\ task'.batch = Append(task.batch, Stamp(task.item.path))
    BY <1>1, <1>7, <2>2, ParseFailedTask, OpsTyped, StampFresh, RowsGrow
  <2> QED
    BY <1>7, <2>1, <2>2, ParseFailedTask
<1>8. CASE Tally /\ ~Abort
  <2>1. CASE Write(task.batch, "progress")
    BY <1>8, <2>1, RowsWritten DEF Tally
  <2> QED
    BY <1>1, <1>8, <2>1, TalliedTask, RowsSame
<1>9. CASE FinalFlush /\ ~Abort
  BY <1>9, RowsWritten DEF FinalFlush, LastBatch
<1>10. CASE (Progress \/ Join \/ Decide) /\ ~Abort
  BY <1>1, <1>10, LateTask, RowsSame
<1>11. CASE Mark /\ ~Abort
  <2>1. /\ task'.at = "end" /\ task'.batch = task.batch
        /\ tracks' = [p \in Paths |-> IF Row(p) /\ tracks[p].seen # Job
                                      THEN [tracks[p] EXCEPT !.available = FALSE]
                                      ELSE tracks[p]]
    BY <1>11, LateTask
  <2>2. \A p \in Paths : tracks[p] \in Rows
    BY DEF TypeInv
  <2>3. \A p \in Paths : /\ tracks'[p].seen = tracks[p].seen /\ tracks'[p].ver = tracks[p].ver
                         /\ tracks[p].seen = Job => tracks'[p] = tracks[p]
    BY <2>1, <2>2 DEF Rows
  <2>4. \A i \in 1 .. Len(task.batch) : task.batch[i].path \in Paths
    <3>1. task.batch \in Seq(Ops)
      BY DEF TypeInv, TaskOK, Tasks
    <3>2. \A i \in 1 .. Len(task.batch) : task.batch[i] \in Ops
      BY <3>1
    <3> QED
      BY <3>2 DEF Ops
  <2> QED
    BY <1>1, <2>1, <2>3, <2>4 DEF RowsInv, Row
<1> QED
  BY <1>2, <1>3, <1>4, <1>5, <1>6, <1>7, <1>8, <1>9, <1>10, <1>11 DEF Task

LEMMA CreatedTask ==
  ASSUME TypeInv, Create
  PROVE  /\ Job' = Job + 1 /\ Job \in Nat /\ Job' \in Nat
         /\ jobs'[Job'].state = "queued"
         /\ task'.at = "begin" /\ task'.batch = <<>> /\ task'.stopped = FALSE
         /\ touched' = {} /\ UNCHANGED <<disk, tracks, walk, cancel>>
<1>1. NewJob \in JobRows /\ NewJob.state = "queued"
  BY DEF NewJob, JobRows
<1>2. jobs \in Seq(JobRows) /\ jobs' = Append(jobs, NewJob)
  BY DEF TypeInv, JobsOK, Create
<1>3. Job' = Job + 1 /\ jobs'[Job'] = NewJob
  BY <1>1, <1>2, Appended DEF Job
<1>4. task'.at = "begin" /\ task'.batch = <<>> /\ task'.stopped = FALSE
  BY DEF Create, Idle
<1> QED
  BY <1>1, <1>3, <1>4, JobKnown DEF Create

LEMMA RowsInit == Init => RowsInv
<1> SUFFICES ASSUME Init PROVE RowsInv
  OBVIOUS
<1>1. Job = 0 /\ task.batch = <<>> /\ task.at = "idle" /\ \A p \in Paths : tracks[p].seen = 0
  BY DEF Init, Job, Idle, NoTrack
<1> QED
  BY <1>1 DEF RowsInv

LEMMA RowsNext == TypeInv /\ RowsInv /\ [Next]_vars => RowsInv'
<1> SUFFICES ASSUME TypeInv, RowsInv, [Next]_vars PROVE RowsInv'
  OBVIOUS
<1>1. CASE Task
  BY <1>1, RowsTask
<1>2. CASE Create
  <2>1. /\ Job' = Job + 1 /\ Job \in Nat /\ task'.at = "begin" /\ task'.batch = <<>>
        /\ ~task'.stopped /\ UNCHANGED tracks
    BY <1>2, CreatedTask
  <2>2. \A p \in Paths : tracks[p].seen \in Nat /\ tracks[p].seen <= Job
    BY ConstantsOK DEF RowsInv, TypeInv, Rows
  <2>3. \A p \in Paths : tracks'[p].seen < Job' /\ tracks'[p].seen <= Job' /\ tracks'[p].seen # Job'
    BY <2>1, <2>2
  <2> QED
    BY <2>1, <2>3 DEF RowsInv
<1>3. CASE Cancel \/ (\E j \in Jobs : Pull(j) \/ Send(j)) \/ (\E p \in Paths : Edit(p))
           \/ UNCHANGED vars
  <2>1. UNCHANGED <<tracks, jobs, task>>
    BY <1>3 DEF Cancel, Pull, Send, Edit, vars
  <2> QED
    BY <2>1 DEF RowsInv, Row, Job
<1>4. CASE Crash \/ Restart
  <2>1. Job' = Job
    BY <1>4, CreatedTask, LeavingTask, JobStays
  <2> QED
    BY <1>4, <2>1, LeavingTask, RowsSame
<1> QED
  BY <1>1, <1>2, <1>3, <1>4 DEF Next

----------------------------------------------------------------------------
(* The steps of a walker, field by field *)

LEMMA PulledWalker ==
  ASSUME TypeInv, NEW j \in Jobs, Pull(j)
  PROVE  /\ UNCHANGED <<disk, touched, tracks, jobs, cancel, task>>
         /\ \A k \in Jobs : k # j => walk'[k] = walk[k]
         /\ walk[j].at = "pull" /\ walk'[j].queue = walk[j].queue
         /\ \/ /\ walk'[j].at = "done" /\ walk'[j].todo = walk[j].todo
               /\ walk[j].todo = {} \/ cancel[j]
            \/ \E p \in walk[j].todo :
                 /\ walk'[j].todo = walk[j].todo \ {p}
                 /\ \/ disk[p].kind = "absent" /\ walk'[j].at = "pull"
                    \/ /\ walk'[j].at = "send"
                       /\ walk'[j].item.path = p /\ walk'[j].item.kind = disk[p].kind
<1>1. walk \in [Jobs -> Walkers] /\ walk[j] \in Walkers
  BY DEF TypeInv
<1>2. CASE walk' = [walk EXCEPT ![j].at = "done"] /\ (walk[j].todo = {} \/ cancel[j])
  BY <1>1, <1>2 DEF Pull, Walkers
<1>3. ASSUME NEW p \in walk[j].todo, disk[p].kind = "absent",
             walk' = [walk EXCEPT ![j].todo = @ \ {p}]
      PROVE  /\ \A k \in Jobs : k # j => walk'[k] = walk[k]
             /\ walk'[j].queue = walk[j].queue /\ walk'[j].todo = walk[j].todo \ {p}
             /\ walk'[j].at = walk[j].at
  BY <1>1, <1>3 DEF Walkers
<1>4. ASSUME NEW p \in walk[j].todo,
             walk' = [walk EXCEPT ![j].at = "send", ![j].todo = @ \ {p},
                        ![j].item = [path |-> p, kind |-> disk[p].kind, ver |-> disk[p].ver]]
      PROVE  /\ \A k \in Jobs : k # j => walk'[k] = walk[k]
             /\ walk'[j].queue = walk[j].queue /\ walk'[j].todo = walk[j].todo \ {p}
             /\ walk'[j].at = "send" /\ walk'[j].item.path = p
             /\ walk'[j].item.kind = disk[p].kind
  BY <1>1, <1>4 DEF Walkers
<1>5. UNCHANGED <<disk, touched, tracks, jobs, cancel, task>> /\ walk[j].at = "pull"
  BY DEF Pull
<1>6. \/ walk' = [walk EXCEPT ![j].at = "done"] /\ (walk[j].todo = {} \/ cancel[j])
      \/ \E p \in walk[j].todo :
           \/ disk[p].kind = "absent" /\ walk' = [walk EXCEPT ![j].todo = @ \ {p}]
           \/ walk' = [walk EXCEPT ![j].at = "send", ![j].todo = @ \ {p},
                         ![j].item = [path |-> p, kind |-> disk[p].kind, ver |-> disk[p].ver]]
  BY DEF Pull
<1>7. CASE \E p \in walk[j].todo :
             \/ disk[p].kind = "absent" /\ walk' = [walk EXCEPT ![j].todo = @ \ {p}]
             \/ walk' = [walk EXCEPT ![j].at = "send", ![j].todo = @ \ {p},
                           ![j].item = [path |-> p, kind |-> disk[p].kind, ver |-> disk[p].ver]]
  BY <1>3, <1>4, <1>5, <1>7
<1> QED
  BY <1>2, <1>6, <1>7

LEMMA SentWalker ==
  ASSUME TypeInv, NEW j \in Jobs, Send(j)
  PROVE  /\ UNCHANGED <<disk, touched, tracks, jobs, cancel, task>>
         /\ \A k \in Jobs : k # j => walk'[k] = walk[k]
         /\ walk[j].at = "send" /\ walk[j].item \in Items /\ walk[j].queue \in Seq(Items)
         /\ \/ /\ walk'[j].at = "pull" /\ walk'[j].todo = walk[j].todo
               /\ walk'[j].queue = Append(walk[j].queue, walk[j].item)
            \/ ~RxOpen(j)
<1>1. walk \in [Jobs -> Walkers] /\ walk[j] \in Walkers
  BY DEF TypeInv
<1>2. CASE walk' = [walk EXCEPT ![j].at = "pull", ![j].item = NoItem,
                                ![j].queue = Append(@, walk[j].item)]
  BY <1>1, <1>2 DEF Send, Walkers
<1>3. CASE ~RxOpen(j) /\ walk' = [walk EXCEPT ![j] = Walker("done")]
  BY <1>1, <1>3 DEF Send, Walkers
<1> QED
  BY <1>2, <1>3 DEF Send

----------------------------------------------------------------------------
(* The walk: what is on its way is what stands on the disk, unless it was  *)
(* touched, and it ends early only when cancelled.                         *)

Working == {"recv", "check", "parse", "tally", "progress", "final", "join", "decide"}

Still == Paths \ touched

Truthful(item) == item.path \in Still => item.kind = disk[item.path].kind

ItemsInv ==
    task.at \in Working =>
        /\ task.at \in Holding => Truthful(task.item)
        /\ walk[Job].at = "send" => Truthful(walk[Job].item)
        /\ \A i \in 1 .. Len(walk[Job].queue) : Truthful(walk[Job].queue[i])

EarlyInv ==
    task.at \in Working =>
        /\ task.stopped => cancel[Job]
        /\ walk[Job].at = "done" => walk[Job].todo = {} \/ cancel[Job]
        /\ task.at \in {"final", "join", "decide"} =>
             cancel[Job] \/ (walk[Job].at = "done" /\ walk[Job].queue = <<>>)
        /\ task.at \in {"join", "decide"} => task.batch = <<>>

WalkInv == ItemsInv /\ EarlyInv

\* What a step of the task, while it works, does with the walk and the hand.
LEMMA WorkedTask ==
  ASSUME TypeInv, Task, task'.at \in Working \cup {"mark"}
  PROVE  /\ UNCHANGED <<disk, touched, cancel>> /\ Job' = Job /\ Job \in Jobs /\ ~Abort
         /\ \/ Begin
            \/ Recv
            \/ /\ task.at \in Working /\ UNCHANGED walk
               /\ task'.at \in Holding => task.at \in Holding /\ task'.item = task.item
<1>1. ~Abort
  BY AbortTask DEF Working
<1>2. UNCHANGED <<disk, touched, cancel>>
  BY DEF Task, Begin, Recv, Check, Parsed, ParseFailed, Tally, Progress, FinalFlush, Join,
         Decide, Mark, End, Release, UnchangedByTask
<1>3. ~Create
  BY CreatedTask DEF Working
<1>4. Job' = Job
  BY <1>3, JobStays DEF Next
<1>5. Job \in Jobs
  BY JobKnown DEF Task, Begin, Recv, Check, Parsed, ParseFailed, Tally, Progress, FinalFlush,
                  Join, Decide, Mark, End, Release
<1>6. SUFFICES \/ Begin
               \/ Recv
               \/ /\ task.at \in Working /\ UNCHANGED walk
                  /\ task'.at \in Holding => task.at \in Holding /\ task'.item = task.item
  BY <1>1, <1>2, <1>4, <1>5
<1>7. CASE Check \/ Parsed \/ ParseFailed
  BY <1>1, <1>7, CheckedTask, ParsedTask, ParseFailedTask DEF Working, Holding
<1>8. CASE Tally
  <2>1. CASE Write(task.batch, "progress")
    BY <1>1, <1>8, <2>1, WrittenTask DEF Tally, Working, Holding
  <2> QED
    BY <1>8, <2>1, TalliedTask DEF Working, Holding
<1>9. CASE FinalFlush
  BY <1>1, <1>9, WrittenTask DEF FinalFlush, LastBatch, Working, Holding
<1>10. CASE Progress \/ Join \/ Decide \/ Mark
  <2>1. Mark \/ task.at \in Working
    BY <1>10 DEF Progress, Join, Decide, Working
  <2> QED
    BY <1>1, <1>10, <2>1, LateTask DEF Working, Holding
<1>11. CASE End \/ Release
  BY <1>1, <1>11, EndedTask, LeavingTask DEF Working
<1> QED
  BY <1>7, <1>8, <1>9, <1>10, <1>11 DEF Task

LEMMA ItemsTask ==
  ASSUME TypeInv, ItemsInv, Task
  PROVE  ItemsInv'
<1> SUFFICES ASSUME task'.at \in Working PROVE ItemsInv'
  BY DEF ItemsInv
<1>1. UNCHANGED <<disk, touched>> /\ Job' = Job /\ ~Abort
  BY WorkedTask
<1>2. CASE Begin
  <2>1. task'.at = "recv" /\ walk'[Job].at = "pull" /\ walk'[Job].queue = <<>>
    BY <1>1, <1>2, BegunTask
  <2> QED
    BY <1>1, <2>1 DEF ItemsInv, Holding
<1>3. CASE Recv
  <2>1. /\ task.at \in Working
        /\ walk'[Job].at = walk[Job].at /\ walk'[Job].item = walk[Job].item
        /\ walk[Job].queue \in Seq(Items)
    BY <1>3, RecvTask DEF Working
  <2>2. CASE /\ task'.at = "check" /\ walk[Job].queue # <<>>
             /\ task'.item = Head(walk[Job].queue)
             /\ walk'[Job].queue = Tail(walk[Job].queue)
    <3>1. Truthful(walk[Job].queue[1]) /\ Head(walk[Job].queue) = walk[Job].queue[1]
      BY <2>1, <2>2, Taken DEF ItemsInv
    <3>2. \A i \in 1 .. Len(walk'[Job].queue) : Truthful(walk'[Job].queue[i])
      BY <2>1, <2>2, Taken DEF ItemsInv
    <3> QED
      BY <1>1, <2>1, <2>2, <3>1, <3>2 DEF ItemsInv, Truthful, Still
  <2>3. CASE task'.at = "final" /\ UNCHANGED walk
    BY <1>1, <2>1, <2>3 DEF ItemsInv, Truthful, Still, Holding
  <2> QED
    BY <1>3, <2>2, <2>3, RecvTask
<1>4. CASE /\ task.at \in Working /\ UNCHANGED walk
           /\ task'.at \in Holding => task.at \in Holding /\ task'.item = task.item
  BY <1>1, <1>4 DEF ItemsInv, Truthful, Still
<1> QED
  BY <1>2, <1>3, <1>4, WorkedTask

LEMMA ItemsPull ==
  ASSUME TypeInv, ItemsInv, NEW j \in Jobs, Pull(j)
  PROVE  ItemsInv'
<1> SUFFICES ASSUME task.at \in Working PROVE ItemsInv'
  BY PulledWalker DEF ItemsInv
<1>1. UNCHANGED <<disk, touched, task>> /\ Job' = Job /\ Job \in Jobs
  BY PulledWalker, JobKnown DEF Job, Working
<1>2. CASE j # Job
  <2>1. walk'[Job] = walk[Job]
    BY <1>1, <1>2, PulledWalker
  <2> QED
    BY <1>1, <2>1 DEF ItemsInv, Truthful, Still
<1>3. CASE j = Job
  <2>1. /\ walk'[Job].queue = walk[Job].queue
        /\ walk'[Job].at = "send" => \E p \in Paths : /\ walk'[Job].item.path = p
                                                      /\ walk'[Job].item.kind = disk[p].kind
    <3>1. walk[Job].todo \subseteq Paths
      BY <1>1 DEF TypeInv, Walkers
    <3> QED
      BY <1>3, <3>1, PulledWalker
  <2> QED
    BY <1>1, <2>1 DEF ItemsInv, Truthful, Still
<1> QED
  BY <1>2, <1>3

LEMMA ItemsSend ==
  ASSUME TypeInv, ItemsInv, NEW j \in Jobs, Send(j)
  PROVE  ItemsInv'
<1> SUFFICES ASSUME task.at \in Working PROVE ItemsInv'
  BY SentWalker DEF ItemsInv
<1>1. UNCHANGED <<disk, touched, task>> /\ Job' = Job /\ Job \in Jobs
  BY SentWalker, JobKnown DEF Job, Working
<1>2. CASE j # Job
  <2>1. walk'[Job] = walk[Job]
    BY <1>1, <1>2, SentWalker
  <2> QED
    BY <1>1, <2>1 DEF ItemsInv, Truthful, Still
<1>3. CASE j = Job
  <2>1. /\ walk'[Job].at = "pull" /\ walk[Job].at = "send"
        /\ walk'[Job].queue = Append(walk[Job].queue, walk[Job].item)
        /\ walk[Job].item \in Items /\ walk[Job].queue \in Seq(Items)
    BY <1>3, SentWalker DEF RxOpen, Receiving, Working
  <2>2. \A i \in 1 .. Len(walk'[Job].queue) : Truthful(walk'[Job].queue[i])
    <3>1. \A i \in 1 .. Len(walk'[Job].queue) :
            i \in 1 .. Len(walk[Job].queue) \/ i = Len(walk[Job].queue) + 1
      BY <2>1, Appended
    <3>2. Truthful(walk[Job].item)
      BY <2>1 DEF ItemsInv
    <3>3. \A i \in 1 .. Len(walk[Job].queue) : Truthful(walk[Job].queue[i])
      BY DEF ItemsInv
    <3> QED
      BY <2>1, <3>1, <3>2, <3>3, Appended
  <2> QED
    BY <1>1, <2>1, <2>2 DEF ItemsInv, Truthful, Still
<1> QED
  BY <1>2, <1>3

LEMMA ItemsEdit ==
  ASSUME TypeInv, ItemsInv, NEW q \in Paths, Edit(q)
  PROVE  ItemsInv'
<1>1. UNCHANGED <<jobs, walk, task>>
  BY DEF Edit
<1>2. \A p \in Still' : p \in Still /\ disk'[p] = disk[p]
  BY EditedDisk DEF Edit, Still
<1>3. \A item : Truthful(item) => Truthful(item)'
  BY <1>2 DEF Truthful
<1> QED
  BY <1>1, <1>3 DEF ItemsInv, Job, Truthful

\* The task does not work after these.
LEMMA LeftTask ==
  ASSUME TypeInv, Create \/ Crash \/ Restart
  PROVE  task'.at \in {"begin", "idle", "down"}
  BY CreatedTask, LeavingTask

LEMMA ItemsNext == TypeInv /\ ItemsInv /\ [Next]_vars => ItemsInv'
<1> SUFFICES ASSUME TypeInv, ItemsInv, [Next]_vars PROVE ItemsInv'
  OBVIOUS
<1>1. CASE Create \/ Crash \/ Restart
  BY <1>1, LeftTask DEF ItemsInv, Working
<1>2. CASE Cancel \/ UNCHANGED vars
  BY <1>2 DEF Cancel, vars, ItemsInv, Truthful, Still, Job
<1> QED
  BY <1>1, <1>2, ItemsTask, ItemsPull, ItemsSend, ItemsEdit DEF Next

LEMMA EarlyTask ==
  ASSUME TypeInv, RowsInv, EarlyInv, Task
  PROVE  EarlyInv'
<1> SUFFICES ASSUME task'.at \in Working PROVE EarlyInv'
  BY DEF EarlyInv
<1>1. UNCHANGED cancel /\ Job' = Job /\ Job \in Jobs /\ ~Abort
  BY WorkedTask
<1>2. CASE Recv
  BY <1>1, <1>2, RecvTask DEF EarlyInv, Working
<1>3. CASE Check
  BY <1>1, <1>3, CheckedTask DEF EarlyInv, Working
<1>4. CASE Parsed \/ ParseFailed
  BY <1>1, <1>4, ParsedTask, ParseFailedTask DEF EarlyInv, Working
<1>5. CASE Tally
  <2>1. CASE Write(task.batch, "progress")
    BY <1>1, <1>5, <2>1, WrittenTask DEF Tally, EarlyInv, Working
  <2> QED
    BY <1>1, <1>5, <2>1, TalliedTask DEF EarlyInv, Working
<1>6. CASE FinalFlush
  BY <1>1, <1>6, WrittenTask DEF FinalFlush, LastBatch, EarlyInv, Working
<1>7. CASE Progress
  BY <1>1, <1>7, LateTask DEF Progress, EarlyInv, Working
<1>8. CASE Join
  BY <1>1, <1>8, LateTask DEF Join, EarlyInv, Working
<1>9. CASE Decide \/ Mark \/ End \/ Release
  BY <1>1, <1>9, LateTask, EndedTask, LeavingTask DEF Working
<1>10. CASE Begin
  BY <1>1, <1>10, BegunTask DEF EarlyInv, RowsInv
<1> QED
  BY <1>10, <1>2, <1>3, <1>4, <1>5, <1>6, <1>7, <1>8, <1>9 DEF Task
LEMMA EarlyWalker ==
  ASSUME TypeInv, EarlyInv, NEW j \in Jobs, Pull(j) \/ Send(j)
  PROVE  EarlyInv'
<1> SUFFICES ASSUME task.at \in Working PROVE EarlyInv'
  BY PulledWalker, SentWalker DEF EarlyInv
<1>1. UNCHANGED <<cancel, task>> /\ Job' = Job /\ Job \in Jobs
  BY PulledWalker, SentWalker, JobKnown DEF Job, Working
<1>2. CASE j # Job
  <2>1. walk'[Job] = walk[Job]
    BY <1>1, <1>2, PulledWalker, SentWalker
  <2> QED
    BY <1>1, <2>1 DEF EarlyInv
<1>3. CASE j = Job /\ Pull(j)
  BY <1>1, <1>3, PulledWalker DEF EarlyInv
<1>4. CASE j = Job /\ Send(j)
  <2>1. walk'[Job].at = "pull" /\ walk[Job].at = "send"
    BY <1>4, SentWalker DEF RxOpen, Receiving, Working
  <2> QED
    BY <1>1, <2>1 DEF EarlyInv
<1> QED
  BY <1>2, <1>3, <1>4

LEMMA EarlyNext == TypeInv /\ RowsInv /\ EarlyInv /\ [Next]_vars => EarlyInv'
<1> SUFFICES ASSUME TypeInv, RowsInv, EarlyInv, [Next]_vars PROVE EarlyInv'
  OBVIOUS
<1>1. CASE Create \/ Crash \/ Restart
  BY <1>1, LeftTask DEF EarlyInv, Working
<1>2. CASE Cancel
  <2>1. UNCHANGED <<jobs, walk, task>> /\ cancel' = [cancel EXCEPT ![Job] = TRUE]
    BY <1>2 DEF Cancel
  <2>2. Job \in Jobs /\ cancel \in [Jobs -> BOOLEAN]
    BY <1>2, JobKnown DEF Cancel, TypeInv, EnvOK
  <2>3. cancel'[Job] /\ Job' = Job
    BY <2>1, <2>2 DEF Job
  <2> QED
    BY <2>1, <2>3 DEF EarlyInv
<1>3. CASE (\E q \in Paths : Edit(q)) \/ UNCHANGED vars
  BY <1>3 DEF Edit, vars, EarlyInv, Job
<1> QED
  BY <1>1, <1>2, <1>3, EarlyTask, EarlyWalker DEF Next

----------------------------------------------------------------------------
(* Accounting *)

InBatch(p) == \E i \in 1 .. Len(task.batch) : task.batch[i].path = p
Handled(p) == InBatch(p) \/ tracks[p].seen = Job

\* On its way from the disk to the task.
Pending(p) ==
    \/ p \in walk[Job].todo
    \/ walk[Job].at = "send" /\ walk[Job].item.path = p
    \/ \E i \in 1 .. Len(walk[Job].queue) : walk[Job].queue[i].path = p
    \/ task.at \in Holding /\ task.item.path = p

Unparsed(p) == disk[p].kind = "file" /\ ~Row(p) /\ task.failed > 0

\* What is handled is a file, and every file is accounted for.
HandledInv ==
    task.at \in Working \cup {"mark"} =>
        \A p \in Still : Handled(p) => disk[p].kind = "file"

Accounted(p) == Pending(p) \/ Handled(p) \/ Unparsed(p) \/ ~task.ok \/ cancel[Job]

AccountInv ==
    /\ task.at \in Working => \A p \in Still :
         disk[p].kind \in {"file", "broken"} => Accounted(p)
    /\ task.at = "mark" => task.batch = <<>> /\ \A p \in Still :
         disk[p].kind \in {"file", "broken"} => tracks[p].seen = Job \/ Unparsed(p)

LEMMA NamedBatch ==
  ASSUME TypeInv, NEW op \in Ops, task'.batch = Append(task.batch, op), NEW p \in Paths
  PROVE  InBatch(p)' <=> (InBatch(p) \/ p = op.path)
<1>1. task.batch \in Seq(Ops)
  BY DEF TypeInv, TaskOK, Tasks
<1>2. \A i : i \in 1 .. Len(task'.batch) <=> i \in 1 .. Len(task.batch) \/ i = Len(task.batch) + 1
  BY <1>1, Appended
<1>3. /\ task'.batch[Len(task.batch) + 1] = op
      /\ \A i \in 1 .. Len(task.batch) : task'.batch[i] = task.batch[i]
  BY <1>1, Appended
<1>4. InBatch(p)' => InBatch(p) \/ p = op.path
  BY <1>2, <1>3 DEF InBatch
<1>5. InBatch(p) => InBatch(p)'
  BY <1>2, <1>3 DEF InBatch
<1>6. p = op.path => InBatch(p)'
  <2>1. Len(task.batch) + 1 \in 1 .. Len(task'.batch)
    BY <1>1, Appended
  <2> QED
    BY <1>3, <2>1 DEF InBatch
<1> QED
  BY <1>4, <1>5, <1>6

LEMMA NoBatch ==
  ASSUME task'.batch = <<>>
  PROVE  \A p : ~InBatch(p)'
  BY DEF InBatch

\* A flush stamps what the batch names and nothing else.
LEMMA WrittenRows ==
  ASSUME TypeInv, NEW next, task.at \in {"tally", "final"}, Write(task.batch, next), ~Abort,
         NEW p \in Paths
  PROVE  IF InBatch(p) THEN tracks'[p].seen = Job ELSE tracks'[p] = tracks[p]
<1>1. task.batch \in Seq(Ops) /\ tracks' = Flushed(task.batch) /\ tracks[p] \in Rows
  BY WrittenTask DEF TypeInv
<1>2. CASE /\ \A i \in 1 .. Len(task.batch) : task.batch[i].path # p
           /\ tracks'[p] = tracks[p]
  BY <1>2 DEF InBatch
<1>3. ASSUME NEW i \in 1 .. Len(task.batch), task.batch[i].path = p,
             tracks'[p] = IF task.batch[i].stamp
                          THEN [tracks[p] EXCEPT !.available = TRUE, !.seen = Job]
                          ELSE [ver |-> task.batch[i].ver, meta |-> task.batch[i].meta,
                                available |-> TRUE, seen |-> Job]
      PROVE  InBatch(p) /\ tracks'[p].seen = Job
  BY <1>1, <1>3 DEF InBatch, Rows
<1> QED
  BY <1>1, <1>2, <1>3, FlushedRow

LEMMA HandledTask ==
  ASSUME TypeInv, RowsInv, ItemsInv, HandledInv, Task
  PROVE  HandledInv'
<1> SUFFICES ASSUME task'.at \in Working \cup {"mark"} PROVE HandledInv'
  BY DEF HandledInv
<1>1. UNCHANGED <<disk, touched>> /\ Job' = Job /\ Job \in Jobs /\ ~Abort
  BY WorkedTask
<1>2. CASE Begin
  <2>1. /\ task.at = "begin" /\ task'.batch = task.batch /\ UNCHANGED tracks
    BY <1>1, <1>2, BegunTask
  <2>2. Job \in Nat /\ \A p \in Paths : tracks[p].seen \in Nat
    BY JobKnown, ConstantsOK DEF TypeInv, Rows
  <2>3. \A p \in Paths : tracks[p].seen # Job
    BY <2>1, <2>2 DEF RowsInv
  <2> QED
    BY <1>1, <2>1, <2>3 DEF HandledInv, Handled, InBatch, RowsInv, Still
<1>3. ASSUME task.at \in Working,
             \A p \in Still : Handled(p)' => Handled(p) \/ disk[p].kind = "file"
      PROVE  HandledInv'
  BY <1>1, <1>3 DEF HandledInv, Still
<1>4. CASE task.at \in Working /\ task'.batch = task.batch /\ UNCHANGED tracks
  BY <1>1, <1>3, <1>4 DEF Handled, InBatch
<1>5. ASSUME task.at \in Holding, task.item.kind = "file", UNCHANGED tracks,
             NEW op \in Ops, op.path = task.item.path, task'.batch = Append(task.batch, op)
      PROVE  HandledInv'
  <2>1. task.at \in Working /\ Truthful(task.item)
    BY <1>5 DEF ItemsInv, Holding, Working
  <2>2. \A p \in Still : Handled(p)' => Handled(p) \/ p = task.item.path
    BY <1>1, <1>5, NamedBatch DEF Handled, Still
  <2> QED
    BY <1>3, <1>5, <2>1, <2>2 DEF Truthful
<1>6. ASSUME NEW next, task.at \in {"tally", "final"}, Write(task.batch, next)
      PROVE  HandledInv'
  <2>1. task.at \in Working /\ task'.batch = <<>>
    BY <1>1, <1>6, WrittenTask DEF Working
  <2>2. \A p \in Still : Handled(p)' => Handled(p)
    BY <1>1, <1>6, <2>1, NoBatch, WrittenRows DEF Handled, Still
  <2> QED
    BY <1>3, <2>1, <2>2
<1>7. CASE Recv
  BY <1>4, <1>7, RecvTask DEF Working
<1>8. CASE Check
  <2>1. task.item \in Real /\ UNCHANGED tracks /\ task.at = "check"
    BY <1>1, <1>8, CheckedTask
  <2>2. CASE task'.batch = task.batch
    BY <1>4, <2>1, <2>2 DEF Working
  <2>3. CASE task.item.kind = "file" /\ task'.batch = Append(task.batch, Stamp(task.item.path))
    BY <1>5, <2>1, <2>3, OpsTyped DEF Holding, Stamp
  <2> QED
    BY <1>1, <1>8, <2>2, <2>3, CheckedTask
<1>9. CASE Parsed \/ ParseFailed
  <2>1. task.item \in Real /\ UNCHANGED tracks /\ task.at = "parse" /\ task.item.kind = "file"
    BY <1>9, ParsedTask, ParseFailedTask DEF TypeInv, TaskOK
  <2>2. CASE task'.batch = task.batch
    BY <1>4, <2>1, <2>2 DEF Working
  <2>3. CASE task'.batch = Append(task.batch, Upsert(task.item))
    BY <1>5, <2>1, <2>3, OpsTyped DEF Holding, Upsert
  <2>4. CASE task'.batch = Append(task.batch, Stamp(task.item.path))
    BY <1>5, <2>1, <2>4, OpsTyped DEF Holding, Stamp
  <2> QED
    BY <1>9, <2>2, <2>3, <2>4, ParsedTask, ParseFailedTask
<1>10. CASE Tally
  <2>1. CASE Write(task.batch, "progress")
    BY <1>6, <1>10, <2>1 DEF Tally
  <2> QED
    BY <1>4, <1>10, <2>1, TalliedTask DEF Working
<1>11. CASE FinalFlush
  BY <1>6, <1>11 DEF FinalFlush, LastBatch
<1>12. CASE Progress \/ Join \/ Decide
  <2>1. task.at \in Working
    BY <1>12 DEF Progress, Join, Decide, Working
  <2> QED
    BY <1>1, <1>4, <1>12, <2>1, LateTask
<1>13. CASE Mark \/ End \/ Release
  BY <1>1, <1>13, LateTask, EndedTask, LeavingTask DEF Working
<1> QED
  BY <1>2, <1>7, <1>8, <1>9, <1>10, <1>11, <1>12, <1>13 DEF Task

LEMMA HandledNext ==
  TypeInv /\ RowsInv /\ ItemsInv /\ HandledInv /\ [Next]_vars => HandledInv'
<1> SUFFICES ASSUME TypeInv, RowsInv, ItemsInv, HandledInv, [Next]_vars PROVE HandledInv'
  OBVIOUS
<1>1. CASE Create \/ Crash \/ Restart
  BY <1>1, LeftTask DEF HandledInv, Working
<1>2. CASE Cancel \/ (\E j \in Jobs : Pull(j) \/ Send(j)) \/ UNCHANGED vars
  <2>1. UNCHANGED <<disk, touched, tracks, jobs, task>>
    BY <1>2 DEF Cancel, Pull, Send, vars
  <2> QED
    BY <2>1 DEF HandledInv, Handled, InBatch, Still, Job
<1>3. ASSUME NEW q \in Paths, Edit(q) PROVE HandledInv'
  <2>1. UNCHANGED <<tracks, jobs, task>>
    BY <1>3 DEF Edit
  <2>2. \A p \in Still' : p \in Still /\ disk'[p] = disk[p]
    BY <1>3, EditedDisk DEF Edit, Still
  <2> QED
    BY <2>1, <2>2 DEF HandledInv, Handled, InBatch, Job
<1> QED
  BY <1>1, <1>2, <1>3, HandledTask DEF Next

LEMMA PendingKept ==
  ASSUME UNCHANGED walk, Job' = Job, NEW p, Pending(p),
         \/ task.at \notin Holding
         \/ task'.at \in Holding /\ task'.item = task.item
         \/ p # task.item.path
  PROVE  Pending(p)'
  BY DEF Pending

\* What a step keeps of the account of a path, if the table stays.
LEMMA AccountedOn ==
  ASSUME UNCHANGED <<disk, cancel, tracks>>, Job' = Job, NEW p \in Paths,
         task'.ok = task.ok \/ ~task'.ok,
         task'.failed = task.failed \/ task'.failed > 0,
         InBatch(p) => InBatch(p)',
         Accounted(p), Pending(p) => Accounted(p)'
  PROVE  Accounted(p)'
  BY DEF Accounted, Handled, Unparsed, Row

LEMMA AccountedRecv ==
  ASSUME TypeInv, Recv, Job' = Job, NEW p \in Paths, Accounted(p)
  PROVE  Accounted(p)'
<1>1. /\ task.at = "recv" /\ task'.batch = task.batch /\ task'.ok = task.ok
      /\ task'.failed = task.failed /\ UNCHANGED <<disk, cancel, tracks>>
  BY RecvTask
<1>2. ASSUME Pending(p) PROVE Pending(p)'
  <2>1. CASE UNCHANGED walk
    BY <1>1, <1>2, <2>1, PendingKept DEF Holding
  <2>2. CASE /\ task'.at = "check" /\ walk[Job].queue # <<>>
             /\ task'.item = Head(walk[Job].queue)
             /\ walk'[Job].queue = Tail(walk[Job].queue)
    <3>1. /\ walk'[Job].at = walk[Job].at /\ walk'[Job].todo = walk[Job].todo
          /\ walk'[Job].item = walk[Job].item /\ walk[Job].queue \in Seq(Items)
      BY RecvTask
    <3>2. ASSUME NEW i \in 1 .. Len(walk[Job].queue), walk[Job].queue[i].path = p
          PROVE  Pending(p)'
      <4>1. CASE i = 1
        BY <2>2, <3>1, <3>2, <4>1, Taken DEF Pending, Holding
      <4>2. CASE i # 1
        <5>1. i \in 2 .. Len(walk[Job].queue)
          BY <3>1, <4>2
        <5>2. /\ i - 1 \in 1 .. Len(walk'[Job].queue)
              /\ walk'[Job].queue[i - 1] = walk[Job].queue[i]
          BY <2>2, <3>1, <5>1, Taken
        <5> QED
          BY <3>2, <5>2 DEF Pending
      <4> QED
        BY <4>1, <4>2
    <3> QED
      BY <1>1, <1>2, <3>1, <3>2 DEF Pending, Holding
  <2> QED
    BY <2>1, <2>2, RecvTask
<1> QED
  BY <1>1, <1>2, AccountedOn DEF Accounted, InBatch

LEMMA AccountedCheck ==
  ASSUME TypeInv, ItemsInv, Check, ~Abort, Job' = Job, NEW p \in Still,
         disk[p].kind \in {"file", "broken"}, Accounted(p)
  PROVE  Accounted(p)'
<1>1. /\ task.at = "check" /\ task.item \in Real /\ UNCHANGED <<disk, cancel, tracks, walk>>
  BY CheckedTask DEF Check, UnchangedByTask
<1>2. p \in Paths /\ Truthful(task.item)
  BY <1>1 DEF ItemsInv, Working, Holding, Still
<1>3. CASE cancel[Job]
  BY <1>1, <1>3 DEF Accounted
<1>4. CASE ~cancel[Job] /\ task.item.path = p
  <2>1. task.item.kind = disk[p].kind
    BY <1>2, <1>4 DEF Truthful
  <2>2. CASE ~task'.ok
    BY <2>2 DEF Accounted
  <2>3. CASE task'.batch = Append(task.batch, Stamp(task.item.path))
    <3>1. InBatch(p)'
      BY <1>1, <1>2, <1>4, <2>3, OpsTyped, NamedBatch DEF Stamp
    <3> QED
      BY <3>1 DEF Accounted, Handled
  <2>4. CASE task'.at = "parse" /\ task'.item = task.item
    BY <1>4, <2>4 DEF Accounted, Pending, Holding
  <2> QED
    BY <1>4, <2>1, <2>2, <2>3, <2>4, CheckedTask
<1>5. CASE ~cancel[Job] /\ task.item.path # p
  <2>1. Pending(p) => Pending(p)'
    BY <1>1, <1>5, PendingKept
  <2>2. InBatch(p) => InBatch(p)'
    <3>1. CASE task'.batch = task.batch
      BY <3>1 DEF InBatch
    <3>2. CASE task'.batch = Append(task.batch, Stamp(task.item.path))
      BY <1>1, <1>2, <3>2, OpsTyped, NamedBatch
    <3> QED
      BY <1>5, <3>1, <3>2, CheckedTask
  <2>3. task'.ok = task.ok \/ ~task'.ok
    BY <1>5, CheckedTask
  <2>4. task'.failed = task.failed \/ task'.failed > 0
    <3>1. task.failed \in Nat
      BY DEF TypeInv, TaskOK, Tasks
    <3>2. task'.failed = task.failed \/ task'.failed = task.failed + 1
      BY <1>5, CheckedTask
    <3> QED
      BY <3>1, <3>2
  <2> QED
    BY <1>1, <1>2, <2>1, <2>2, <2>3, <2>4, AccountedOn DEF Accounted
<1> QED
  BY <1>3, <1>4, <1>5

LEMMA AccountedParse ==
  ASSUME TypeInv, ItemsInv, Parsed \/ ParseFailed, Job' = Job, NEW p \in Still, Accounted(p)
  PROVE  Accounted(p)'
<1>1. /\ task.at = "parse" /\ task.item \in Real /\ task'.ok = task.ok
      /\ task'.failed = task.failed \/ task'.failed > 0
      /\ UNCHANGED <<disk, cancel, tracks, walk>>
  BY ParsedTask, ParseFailedTask
<1>2. p \in Paths /\ Truthful(task.item) /\ task.item.kind = "file"
  BY <1>1 DEF ItemsInv, Working, Holding, Still, TypeInv, TaskOK
<1>3. \/ task'.batch = Append(task.batch, Upsert(task.item))
      \/ task'.batch = Append(task.batch, Stamp(task.item.path))
      \/ task'.batch = task.batch /\ ~Row(task.item.path) /\ task'.failed > 0
  BY ParsedTask, ParseFailedTask
<1>4. CASE task.item.path = p
  <2>1. CASE task'.batch = task.batch /\ ~Row(task.item.path) /\ task'.failed > 0
    BY <1>1, <1>2, <1>4, <2>1 DEF Accounted, Unparsed, Truthful, Row
  <2>2. CASE \/ task'.batch = Append(task.batch, Upsert(task.item))
             \/ task'.batch = Append(task.batch, Stamp(task.item.path))
    <3>1. InBatch(p)'
      BY <1>1, <1>2, <1>4, <2>2, OpsTyped, NamedBatch DEF Stamp, Upsert
    <3> QED
      BY <3>1 DEF Accounted, Handled
  <2> QED
    BY <1>3, <2>1, <2>2
<1>5. CASE task.item.path # p
  <2>1. Pending(p) => Pending(p)'
    BY <1>1, <1>5, PendingKept
  <2>2. InBatch(p) => InBatch(p)'
    <3>1. CASE task'.batch = task.batch
      BY <3>1 DEF InBatch
    <3>2. CASE \/ task'.batch = Append(task.batch, Upsert(task.item))
               \/ task'.batch = Append(task.batch, Stamp(task.item.path))
      BY <1>1, <1>2, <3>2, OpsTyped, NamedBatch
    <3> QED
      BY <1>3, <3>1, <3>2
  <2> QED
    BY <1>1, <1>2, <2>1, <2>2, AccountedOn DEF Accounted
<1> QED
  BY <1>4, <1>5

LEMMA AccountedWrite ==
  ASSUME TypeInv, NEW next, task.at \in {"tally", "final"}, Write(task.batch, next), ~Abort,
         UNCHANGED <<disk, cancel>>, Job' = Job, NEW p \in Paths, Accounted(p)
  PROVE  Accounted(p)'
<1>1. task'.ok = task.ok /\ task'.failed = task.failed /\ UNCHANGED walk
  BY WrittenTask
<1>2. CASE InBatch(p)
  <2>1. tracks'[p].seen = Job
    BY <1>2, WrittenRows
  <2> QED
    BY <2>1 DEF Accounted, Handled
<1>3. CASE ~InBatch(p)
  <2>1. tracks'[p] = tracks[p]
    BY <1>3, WrittenRows
  <2>2. Pending(p) => Pending(p)'
    BY <1>1, PendingKept DEF Holding
  <2> QED
    BY <1>1, <1>3, <2>1, <2>2 DEF Accounted, Handled, Unparsed, Row
<1> QED
  BY <1>2, <1>3
LEMMA AccountTask ==
  ASSUME TypeInv, RowsInv, ItemsInv, EarlyInv, AccountInv, Task
  PROVE  AccountInv'
<1> SUFFICES ASSUME task'.at \in Working \cup {"mark"} PROVE AccountInv'
  BY DEF AccountInv
<1>1. UNCHANGED <<disk, touched, cancel>> /\ Job' = Job /\ Job \in Jobs /\ ~Abort
  BY WorkedTask
<1>2. ASSUME task.at \in Working, task'.at \in Working,
             \A p \in Still : disk[p].kind \in {"file", "broken"} /\ Accounted(p) =>
                Accounted(p)'
      PROVE  AccountInv'
  BY <1>1, <1>2 DEF AccountInv, Still, Working
<1>3. CASE Begin
  <2>1. task'.at = "recv" /\ walk'[Job].todo = Paths
    BY <1>1, <1>3, BegunTask
  <2> QED
    BY <1>1, <2>1 DEF AccountInv, Accounted, Pending, Still
<1>4. CASE Recv
  <2>1. task.at \in Working /\ task'.at \in Working
    BY <1>4, RecvTask DEF Working
  <2> QED
    BY <1>1, <1>2, <1>4, <2>1, AccountedRecv DEF Still
<1>5. CASE Check
  <2>1. task.at \in Working /\ task'.at \in Working
    BY <1>1, <1>5, CheckedTask DEF Working
  <2> QED
    BY <1>1, <1>2, <1>5, <2>1, AccountedCheck
<1>6. CASE Parsed \/ ParseFailed
  <2>1. task.at \in Working /\ task'.at \in Working
    BY <1>6, ParsedTask, ParseFailedTask DEF Working
  <2> QED
    BY <1>1, <1>2, <1>6, <2>1, AccountedParse
<1>7. ASSUME NEW next \in {"progress", "join"}, task.at \in {"tally", "final"},
             Write(task.batch, next)
      PROVE  AccountInv'
  <2>1. task.at \in Working /\ task'.at \in Working
    BY <1>1, <1>7, WrittenTask DEF Working
  <2> QED
    BY <1>1, <1>2, <1>7, <2>1, AccountedWrite DEF Still
<1>8. ASSUME task.at \in Working \ Holding, task'.at \in Working, task'.batch = task.batch,
             task'.ok = task.ok, task'.failed = task.failed, UNCHANGED <<tracks, walk>>
      PROVE  AccountInv'
  <2>1. \A p \in Still : Pending(p) => Pending(p)'
    BY <1>1, <1>8, PendingKept
  <2> QED
    BY <1>1, <1>2, <1>8, <2>1 DEF Accounted, Handled, Unparsed, InBatch, Row
<1>9. CASE Tally
  <2>1. CASE Write(task.batch, "progress")
    BY <1>7, <1>9, <2>1 DEF Tally
  <2>2. CASE ~Write(task.batch, "progress")
    BY <1>8, <1>9, <2>2, TalliedTask DEF Working, Holding
  <2> QED
    BY <2>1, <2>2
<1>10. CASE FinalFlush
  BY <1>7, <1>10 DEF FinalFlush, LastBatch
<1>11. CASE Progress
  <2>1. task.at = "progress"
    BY <1>11 DEF Progress
  <2> QED
    BY <1>1, <1>8, <1>11, <2>1, LateTask DEF Working, Holding
<1>12. CASE Join
  <2>1. task.at = "join"
    BY <1>12 DEF Join
  <2> QED
    BY <1>1, <1>8, <1>12, <2>1, LateTask DEF Working, Holding
<1>13. CASE Decide
  <2>1. /\ task.at = "decide" /\ task'.at = "mark" /\ ~cancel[Job] /\ task.ok
        /\ task'.batch = task.batch /\ task'.failed = task.failed /\ UNCHANGED tracks
    BY <1>1, <1>13, LateTask DEF Decide, Working
  <2>2. task.batch = <<>> /\ walk[Job].at = "done" /\ walk[Job].queue = <<>>
        /\ walk[Job].todo = {}
    BY <2>1 DEF EarlyInv, Working
  <2>3. \A p \in Still : ~Pending(p) /\ ~InBatch(p)
    BY <2>1, <2>2 DEF Pending, InBatch, Holding
  <2>4. \A p \in Still : disk[p].kind \in {"file", "broken"} =>
          tracks[p].seen = Job \/ Unparsed(p)
    BY <2>1, <2>3 DEF AccountInv, Accounted, Handled, Working
  <2> QED
    BY <1>1, <2>1, <2>2, <2>4 DEF AccountInv, Unparsed, Row, Still, Working
<1>14. CASE Mark \/ End \/ Release
  BY <1>1, <1>14, LateTask, EndedTask, LeavingTask DEF Working
<1> QED
  BY <1>3, <1>4, <1>5, <1>6, <1>9, <1>10, <1>11, <1>12, <1>13, <1>14 DEF Task

LEMMA AccountedPull ==
  ASSUME TypeInv, NEW j \in Jobs, Pull(j), Job \in Jobs, NEW p \in Paths,
         disk[p].kind # "absent", Accounted(p)
  PROVE  Accounted(p)'
<1>1. UNCHANGED <<disk, tracks, cancel, task>> /\ Job' = Job
  BY PulledWalker DEF Job
<1>2. ASSUME Pending(p) PROVE Pending(p)'
  <2>1. CASE j # Job
    BY <1>1, <1>2, <2>1, PulledWalker DEF Pending
  <2>2. CASE j = Job
    <3>1. walk[Job].at = "pull" /\ walk'[Job].queue = walk[Job].queue
      BY <2>2, PulledWalker
    <3>2. CASE p \in walk[Job].todo
      <4>1. \/ p \in walk'[Job].todo
            \/ walk'[Job].at = "send" /\ walk'[Job].item.path = p
        BY <2>2, <3>2, PulledWalker
      <4> QED
        BY <1>1, <4>1 DEF Pending
    <3>3. CASE p \notin walk[Job].todo
      BY <1>1, <1>2, <3>1, <3>3 DEF Pending
    <3> QED
      BY <3>2, <3>3
  <2> QED
    BY <2>1, <2>2
<1> QED
  BY <1>1, <1>2 DEF Accounted, Handled, Unparsed, InBatch, Row

LEMMA AccountedSend ==
  ASSUME TypeInv, NEW j \in Jobs, Send(j), Job \in Jobs, task.at \in Working, NEW p \in Paths,
         Accounted(p)
  PROVE  Accounted(p)'
<1>1. UNCHANGED <<disk, tracks, cancel, task>> /\ Job' = Job
  BY SentWalker DEF Job
<1>2. ASSUME Pending(p) PROVE Pending(p)'
  <2>1. CASE j # Job
    BY <1>1, <1>2, <2>1, SentWalker DEF Pending
  <2>2. CASE j = Job
    <3>1. /\ walk'[Job].at = "pull" /\ walk'[Job].todo = walk[Job].todo
          /\ walk'[Job].queue = Append(walk[Job].queue, walk[Job].item)
          /\ walk[Job].item \in Items /\ walk[Job].queue \in Seq(Items)
      BY <2>2, SentWalker DEF RxOpen, Receiving, Working
    <3>2. /\ Len(walk[Job].queue) + 1 \in 1 .. Len(walk'[Job].queue)
          /\ walk'[Job].queue[Len(walk[Job].queue) + 1] = walk[Job].item
          /\ \A i \in 1 .. Len(walk[Job].queue) :
               i \in 1 .. Len(walk'[Job].queue) /\ walk'[Job].queue[i] = walk[Job].queue[i]
      BY <3>1, Appended
    <3> QED
      BY <1>1, <1>2, <3>1, <3>2 DEF Pending
  <2> QED
    BY <2>1, <2>2
<1> QED
  BY <1>1, <1>2 DEF Accounted, Handled, Unparsed, InBatch, Row

LEMMA AccountNext ==
  TypeInv /\ RowsInv /\ WalkInv /\ AccountInv /\ [Next]_vars => AccountInv'
<1> SUFFICES ASSUME TypeInv, RowsInv, WalkInv, AccountInv, [Next]_vars PROVE AccountInv'
  OBVIOUS
<1>1. CASE Create \/ Crash \/ Restart
  BY <1>1, LeftTask DEF AccountInv, Working
<1>2. CASE UNCHANGED vars
  BY <1>2 DEF vars, AccountInv, Accounted, Pending, Handled, Unparsed, InBatch, Row, Still, Job
<1>3. CASE Cancel
  <2>1. UNCHANGED <<disk, touched, tracks, jobs, walk, task>>
        /\ cancel' = [cancel EXCEPT ![Job] = TRUE]
    BY <1>3 DEF Cancel
  <2>2. Job \in Jobs /\ cancel \in [Jobs -> BOOLEAN]
    BY <1>3, JobKnown DEF Cancel, TypeInv, EnvOK
  <2>3. cancel'[Job] /\ Job' = Job
    BY <2>1, <2>2 DEF Job
  <2> QED
    BY <2>1, <2>3 DEF AccountInv, Accounted, Unparsed, Row, Still
<1>4. ASSUME NEW j \in Jobs, Pull(j) \/ Send(j) PROVE AccountInv'
  <2>1. UNCHANGED <<disk, touched, tracks, jobs, task>> /\ Job' = Job
    BY <1>4 DEF Pull, Send, Job
  <2>2. task.at \in Working => Job \in Jobs
    BY JobKnown DEF Working
  <2>3. task.at \in Working => \A p \in Still :
          disk[p].kind \in {"file", "broken"} => Accounted(p)'
    BY <1>4, <2>2, AccountedPull, AccountedSend DEF AccountInv, Still
  <2> QED
    BY <2>1, <2>3 DEF AccountInv, Unparsed, Row, Still
<1>5. ASSUME NEW q \in Paths, Edit(q) PROVE AccountInv'
  <2>1. UNCHANGED <<tracks, jobs, walk, cancel, task>>
    BY <1>5 DEF Edit
  <2>2. \A p \in Still' : p \in Still /\ disk'[p] = disk[p]
    BY <1>5, EditedDisk DEF Edit, Still
  <2> QED
    BY <2>1, <2>2 DEF AccountInv, Accounted, Pending, Handled, Unparsed, InBatch, Row, Job
<1> QED
  BY <1>1, <1>2, <1>3, <1>4, <1>5, AccountTask DEF Next, WalkInv

----------------------------------------------------------------------------
(* The end of a scan *)

Over == {"release", "idle", "down"}

\* What a completed scan that could not parse so many files leaves behind.
Mirror(failed) ==
    \A p \in Still : /\ Row(p) => (tracks[p].available <=> disk[p].kind = "file")
                     /\ disk[p].kind = "file" /\ failed = 0 => Row(p)

EndInv ==
    /\ task.at = "end" /\ task.fin = "completed" => Mirror(task.failed)
    /\ Job > 0 /\ jobs[Job].state = "completed" => task.at \in Over /\ Mirror(jobs[Job].failed)

LEMMA MarkedRows ==
  ASSUME TypeInv, RowsInv, HandledInv, AccountInv, Mark, ~Abort
  PROVE  Mirror(task.failed)'
<1>1. /\ task.at = "mark" /\ task'.failed = task.failed /\ UNCHANGED <<disk, touched>>
      /\ tracks' = [p \in Paths |-> IF Row(p) /\ tracks[p].seen # Job
                                    THEN [tracks[p] EXCEPT !.available = FALSE]
                                    ELSE tracks[p]]
  BY LateTask DEF Mark
<1>2. Job > 0 /\ task.failed \in Nat
  BY <1>1 DEF TypeInv, TaskOK, Tasks
<1>3. ASSUME NEW p \in Still
      PROVE  /\ Row(p)' => (tracks'[p].available <=> disk[p].kind = "file")
             /\ disk[p].kind = "file" /\ task.failed = 0 => Row(p)'
  <2>1. p \in Paths /\ tracks[p] \in Rows /\ disk[p].kind \in Kinds
    BY DEF Still, TypeInv, EnvOK
  <2>2. CASE disk[p].kind = "file"
    <3>1. CASE tracks[p].seen = Job
      <4>1. Row(p) /\ tracks[p].available /\ tracks'[p] = tracks[p]
        BY <1>1, <1>2, <2>1, <3>1 DEF RowsInv
      <4> QED
        BY <2>2, <4>1 DEF Row
    <3>2. CASE tracks[p].seen # Job
      <4>1. ~Row(p) /\ task.failed > 0
        BY <1>1, <2>2, <3>2 DEF AccountInv, Unparsed
      <4>2. tracks'[p] = tracks[p]
        BY <1>1, <2>1, <4>1
      <4> QED
        BY <1>2, <4>1, <4>2 DEF Row
    <3> QED
      BY <3>1, <3>2
  <2>3. CASE disk[p].kind # "file"
    <3>1. tracks[p].seen # Job
      BY <1>1, <2>3 DEF HandledInv, Handled
    <3>2. CASE Row(p)
      <4>1. tracks'[p] = [tracks[p] EXCEPT !.available = FALSE]
        BY <1>1, <2>1, <3>1, <3>2
      <4>2. ~tracks'[p].available
        BY <2>1, <4>1 DEF Rows
      <4> QED
        BY <2>3, <4>2
    <3>3. CASE ~Row(p)
      <4>1. tracks'[p] = tracks[p]
        BY <1>1, <2>1, <3>3
      <4> QED
        BY <2>3, <3>3, <4>1 DEF Row
    <3> QED
      BY <3>2, <3>3
  <2> QED
    BY <2>2, <2>3
<1> QED
  BY <1>1, <1>3 DEF Mirror, Still, Row

\* A mirror stays one when the table stays and paths are touched.
LEMMA MirrorStays ==
  ASSUME UNCHANGED tracks, \A p \in Still' : p \in Still /\ disk'[p] = disk[p],
         NEW failed, Mirror(failed)
  PROVE  Mirror(failed)'
  BY DEF Mirror, Row

LEMMA EndTask ==
  ASSUME TypeInv, RowsInv, HandledInv, AccountInv, EndInv, Task
  PROVE  EndInv'
<1>1. UNCHANGED <<disk, touched>> /\ Still' = Still
  BY DEF Task, Begin, Recv, Check, Parsed, ParseFailed, Tally, Progress, FinalFlush, Join,
         Decide, Mark, End, Release, UnchangedByTask, Still
<1>2. Job' = Job /\ Job \in Jobs
  <2>1. task.at \notin {"idle", "down"}
    BY DEF Task, Begin, Recv, Check, Parsed, ParseFailed, Tally, Progress, FinalFlush, Join,
           Decide, Mark, End, Release
  <2>2. ~Create
    BY <2>1 DEF Create
  <2> QED
    BY <2>1, <2>2, JobStays, JobKnown DEF Next
<1>3. CASE End /\ ~Abort
  <2>1. /\ task.at = "end" /\ task'.at = "release" /\ UNCHANGED tracks
        /\ jobs'[Job].state = task.fin /\ jobs'[Job].failed = task.failed
    BY <1>3, EndedTask
  <2>2. CASE task.fin = "completed"
    <3>1. Mirror(task.failed)
      BY <2>1, <2>2 DEF EndInv
    <3> QED
      BY <1>1, <1>2, <2>1, <3>1 DEF EndInv, Mirror, Row, Over
  <2>3. CASE task.fin # "completed"
    BY <1>2, <2>1, <2>3 DEF EndInv
  <2> QED
    BY <2>2, <2>3
<1>4. CASE Release
  <2>1. task'.at \in Over /\ task'.at # "end" /\ UNCHANGED <<tracks, jobs>>
    BY <1>4, LeavingTask DEF Release, Over
  <2> QED
    BY <1>1, <1>2, <2>1 DEF EndInv, Mirror, Row
<1>5. task.at \notin Over => ~(jobs[Job].state = "completed")
  BY <1>2, JobKnown DEF EndInv, Jobs
<1>6. ASSUME task.at \notin Over, jobs'[Job].state = jobs[Job].state,
             ~(task'.at = "end" /\ task'.fin = "completed")
      PROVE  EndInv'
  BY <1>2, <1>5, <1>6 DEF EndInv
<1>7. CASE Abort /\ ~Release
  <2>1. task.at \notin Over
    BY <1>7 DEF Task, Begin, Recv, Check, Parsed, ParseFailed, Tally, Progress, FinalFlush,
                Join, Decide, Mark, End, Release, Over
  <2> QED
    BY <1>6, <1>7, <2>1, AbortTask
<1>8. CASE Begin /\ ~Abort
  BY <1>2, <1>8, BegunTask DEF EndInv
<1>9. CASE (Recv \/ Check \/ Parsed \/ ParseFailed) /\ ~Abort
  BY <1>6, <1>9, RecvTask, CheckedTask, ParsedTask, ParseFailedTask DEF Over
<1>10. CASE Tally /\ ~Abort
  <2>1. CASE Write(task.batch, "progress")
    BY <1>6, <1>10, <2>1, WrittenTask DEF Tally, Over
  <2>2. CASE ~Write(task.batch, "progress")
    BY <1>6, <1>10, <2>2, TalliedTask DEF Over
  <2> QED
    BY <2>1, <2>2
<1>11. CASE FinalFlush /\ ~Abort
  BY <1>6, <1>11, WrittenTask DEF FinalFlush, LastBatch, Over
<1>12. CASE Progress /\ ~Abort
  <2>1. jobs'[Job].state = jobs[Job].state
    BY <1>2, <1>12, LateTask, CountedTyped
  <2> QED
    BY <1>6, <1>12, <2>1, LateTask DEF Over
<1>13. CASE (Join \/ Decide) /\ ~Abort
  BY <1>6, <1>13, LateTask DEF Over
<1>14. CASE Mark /\ ~Abort
  <2>1. task.at = "mark" /\ task'.at = "end" /\ UNCHANGED jobs
    BY <1>14, LateTask DEF Mark
  <2> QED
    BY <1>2, <1>5, <1>14, <2>1, MarkedRows DEF EndInv, Over
<1> QED
  BY <1>3, <1>4, <1>7, <1>8, <1>9, <1>10, <1>11, <1>12, <1>13, <1>14 DEF Task
\* A finished row stays as it is over a restart, and no other becomes completed.
LEMMA RestartedRow ==
  ASSUME TypeInv, Restart, Job > 0
  PROVE  jobs'[Job].state = "completed" => jobs'[Job] = jobs[Job]
<1>1. jobs \in Seq(JobRows) /\ Job = Len(jobs) /\ Job \in 1 .. Len(jobs)
  BY DEF TypeInv, JobsOK, Job
<1>2. jobs[Job] \in JobRows
  BY <1>1
<1>3. jobs'[Job] = IF Interruptible(jobs[Job].state)
                   THEN [jobs[Job] EXCEPT !.state = "interrupted"] ELSE jobs[Job]
  BY <1>1 DEF Restart
<1> QED
  BY <1>2, <1>3 DEF JobRows

LEMMA EndNext ==
  TypeInv /\ RowsInv /\ HandledInv /\ AccountInv /\ EndInv /\ [Next]_vars => EndInv'
<1> SUFFICES ASSUME TypeInv, RowsInv, HandledInv, AccountInv, EndInv, [Next]_vars
             PROVE  EndInv'
  OBVIOUS
<1>1. CASE Create
  BY <1>1, CreatedTask DEF EndInv
<1>2. CASE Crash \/ Restart
  <2>1. /\ task'.at \in Over /\ task'.at # "end" /\ UNCHANGED <<disk, touched, tracks>>
    BY <1>2, LeavingTask DEF Over
  <2>2. Job' = Job
    BY <1>2, CreatedTask, LeavingTask, JobStays
  <2>3. Job > 0 /\ jobs'[Job].state = "completed" => jobs'[Job] = jobs[Job]
    BY <1>2, RestartedRow DEF Crash
  <2> QED
    BY <2>1, <2>2, <2>3 DEF EndInv, Mirror, Row, Still
<1>3. CASE Cancel \/ (\E j \in Jobs : Pull(j) \/ Send(j)) \/ UNCHANGED vars
  <2>1. UNCHANGED <<disk, touched, tracks, jobs, task>>
    BY <1>3 DEF Cancel, Pull, Send, vars
  <2> QED
    BY <2>1 DEF EndInv, Mirror, Row, Still, Job
<1>4. ASSUME NEW q \in Paths, Edit(q) PROVE EndInv'
  <2>1. UNCHANGED <<tracks, jobs, task>> /\ Job' = Job
    BY <1>4 DEF Edit, Job
  <2>2. \A p \in Still' : p \in Still /\ disk'[p] = disk[p]
    BY <1>4, EditedDisk DEF Edit, Still
  <2> QED
    BY <2>1, <2>2 DEF EndInv, Mirror, Row
<1> QED
  BY <1>1, <1>2, <1>3, <1>4, EndTask DEF Next

ScanInv ==
    TypeInv /\ RowsInv /\ WalkInv /\ HandledInv /\ AccountInv /\ EndInv

LEMMA ScanInit == Init => ScanInv
<1> SUFFICES ASSUME Init PROVE ScanInv
  OBVIOUS
<1>1. task.at = "idle" /\ Job = 0
  BY DEF Init, Idle, Job
<1> QED
  BY <1>1, TypeInit, RowsInit DEF ScanInv, WalkInv, ItemsInv, EarlyInv, HandledInv,
     AccountInv, EndInv, Working

LEMMA ScanNext == ScanInv /\ [Next]_vars => ScanInv'
  BY TypeNext, RowsNext, ItemsNext, EarlyNext, HandledNext, AccountNext, EndNext
     DEF ScanInv, WalkInv

\* After a completed scan the table mirrors the disk, for any library, any number
\* of scans, any edits, cancels, faults and crashes before it: what nobody touched
\* since the scan was created is available exactly if it is a file, and has a row
\* unless a parse failed.
THEOREM CompletedIsMirror == Spec => []CompletedMirrorsDisk
<1>1. ScanInv => CompletedMirrorsDisk
  <2> SUFFICES ASSUME ScanInv, LastState = "completed", NEW p \in Paths \ touched
               PROVE  /\ Row(p) => (tracks[p].available <=> disk[p].kind = "file")
                      /\ disk[p].kind = "file" /\ jobs[Job].failed = 0 => Row(p)
    BY DEF CompletedMirrorsDisk
  <2>1. Job > 0 /\ jobs[Job].state = "completed"
    <3>1. jobs \in Seq(JobRows)
      BY DEF ScanInv, TypeInv, JobsOK
    <3> QED
      BY <3>1 DEF LastState, Job
  <2>2. Mirror(jobs[Job].failed)
    BY <2>1 DEF ScanInv, EndInv
  <2> QED
    BY <2>2 DEF Mirror, Still
<1> QED
  BY <1>1, ScanInit, ScanNext, PTL DEF Spec

\* No step of any scan makes a track unavailable whose file is there and was not
\* touched since the scan was created: a cancelled or incomplete walk marks nothing,
\* and a complete one stamped, or failed to parse, every file (coordinator.rs:8).
THEOREM NothingPresentIsLost == Spec => OnlyMissingGoUnavailable
<1>1. ASSUME ScanInv, [Next]_vars, NEW p \in Paths,
             tracks[p].available, ~tracks'[p].available
      PROVE  p \in touched \/ disk[p].kind \in {"link", "absent"}
  <2>1. Mark /\ ~Abort
    <3>1. CASE Abort
      BY <1>1, <3>1 DEF Abort
    <3>2. CASE Tally \/ FinalFlush
      <4>1. CASE UNCHANGED tracks
        BY <1>1, <4>1
      <4>2. ASSUME NEW next \in {"progress", "join"}, Write(task.batch, next), ~Abort
            PROVE  FALSE
        <5>1. task.at \in {"tally", "final"} /\ TypeInv /\ RowsInv
          BY <1>1, <3>2 DEF Tally, FinalFlush, ScanInv
        <5>2. RowsInv' /\ TypeInv'
          BY <1>1, ScanNext DEF ScanInv
        <5>3. Job' = Job /\ Job > 0
          BY <4>2, <5>1, WrittenTask DEF TypeInv, Job
        <5>4. tracks'[p].seen = Job \/ tracks'[p] = tracks[p]
          BY <4>2, <5>1, WrittenRows
        <5> QED
          BY <1>1, <5>2, <5>3, <5>4 DEF RowsInv
      <4> QED
        BY <3>1, <3>2, <4>1, <4>2 DEF Tally, FinalFlush, LastBatch
    <3>3. CASE UNCHANGED tracks
      BY <1>1, <3>3
    <3> QED
      BY <1>1, <3>1, <3>2, <3>3
         DEF Next, Task, Create, Begin, Recv, Check, Parsed, ParseFailed, Progress, Join,
             Decide, Mark, End, Release, Cancel, Crash, Restart, Pull, Send, Edit, vars
  <2> SUFFICES ASSUME p \in Still, disk[p].kind \in {"file", "broken"} PROVE FALSE
    <3>1. disk[p].kind \in Kinds
      BY <1>1 DEF ScanInv, TypeInv, EnvOK
    <3> QED
      BY <1>1, <3>1 DEF Still, Kinds
  <2>2. /\ task.at = "mark"
        /\ tracks' = [q \in Paths |-> IF Row(q) /\ tracks[q].seen # Job
                                      THEN [tracks[q] EXCEPT !.available = FALSE]
                                      ELSE tracks[q]]
    BY <1>1, <2>1, LateTask DEF Mark, ScanInv
  <2>3. tracks[p].seen = Job \/ ~Row(p)
    BY <2>2, <1>1 DEF ScanInv, AccountInv, Unparsed
  <2> QED
    BY <1>1, <2>2, <2>3
<1>2. ScanInv /\ [Next]_vars => [LosesOnlyMissing]_vars
  BY <1>1 DEF LosesOnlyMissing
<1> QED
  BY <1>2, ScanInit, ScanNext, PTL DEF Spec, OnlyMissingGoUnavailable

----------------------------------------------------------------------------
(* The job table lives the abstract life of scan jobs. *)

StateInv ==
    /\ task.at = "begin" => jobs[Job].state = "queued"
    /\ task.at \in Receiving => jobs[Job].state = "running"

Column == [j \in DOMAIN jobs |-> jobs[j].state]

LEMMA ColumnIs ==
  ASSUME TypeInv
  PROVE  /\ jobs \in Seq(JobRows) /\ Len(jobs) \in Nat /\ DOMAIN jobs = 1 .. Len(jobs)
         /\ Column \in Seq({"queued", "running", "completed", "failed", "cancelled",
                            "interrupted"})
         /\ Len(Column) = Len(jobs) /\ DOMAIN Column = 1 .. Len(jobs)
         /\ \A j \in 1 .. Len(jobs) : Column[j] = jobs[j].state
<1>1. jobs \in Seq(JobRows)
  BY DEF TypeInv, JobsOK
<1>2. DOMAIN jobs = 1 .. Len(jobs) /\ Len(jobs) \in Nat
  BY <1>1
<1>3. \A j \in 1 .. Len(jobs) : jobs[j].state \in {"queued", "running", "completed", "failed",
                                                  "cancelled", "interrupted"}
  <2>1. \A j \in 1 .. Len(jobs) : jobs[j] \in JobRows
    BY <1>1
  <2> QED
    BY <2>1 DEF JobRows
<1>4. Column = [j \in 1 .. Len(jobs) |-> jobs[j].state]
  BY <1>2 DEF Column
<1> QED
  BY <1>1, <1>2, <1>3, <1>4

\* Only the last row changes.
LEMMA ColumnPut ==
  ASSUME TypeInv, TypeInv', Job \in Jobs, Len(jobs') = Len(jobs),
         \A j \in 1 .. Len(jobs) : j # Job => jobs'[j] = jobs[j]
  PROVE  /\ Column' = [Column EXCEPT ![Job] = jobs'[Job].state]
         /\ jobs'[Job].state = jobs[Job].state => Column' = Column
<1>1. /\ DOMAIN jobs' = 1 .. Len(jobs) /\ DOMAIN jobs = 1 .. Len(jobs)
      /\ Column' = [j \in 1 .. Len(jobs) |-> jobs'[j].state]
      /\ Column = [j \in 1 .. Len(jobs) |-> jobs[j].state]
  <2>1. DOMAIN jobs = 1 .. Len(jobs)
    BY ColumnIs
  <2>2. jobs' \in Seq(JobRows)
    BY DEF TypeInv, JobsOK
  <2>3. DOMAIN jobs' = 1 .. Len(jobs)
    BY <2>2
  <2> QED
    BY <2>1, <2>3 DEF Column
<1>2. Job \in 1 .. Len(jobs)
  BY DEF Job, Jobs
<1> QED
  BY <1>1, <1>2

LEMMA BegunRows ==
  ASSUME TypeInv, Begin, ~Abort
  PROVE  \A j \in 1 .. Len(jobs) : j # Job => jobs'[j] = jobs[j]
<1>1. jobs \in Seq(JobRows) /\ jobs' = [jobs EXCEPT ![Job].state = "running"]
  BY DEF TypeInv, JobsOK, Begin
<1> QED
  BY <1>1

LEMMA StateTask ==
  ASSUME TypeInv, StateInv, Task
  PROVE  StateInv'
<1>1. Job' = Job
  BY CreatedTask, JobStays DEF Next, Create, Task, Begin, Recv, Check, Parsed, ParseFailed,
     Tally, Progress, FinalFlush, Join, Decide, Mark, End, Release
<1>2. CASE Begin /\ ~Abort
  BY <1>1, <1>2, BegunTask DEF StateInv
<1>3. CASE Abort \/ Release \/ (End /\ ~Abort)
  <2>1. task'.at \in Over
    BY <1>3, AbortTask, LeavingTask, EndedTask DEF Over
  <2> QED
    BY <2>1 DEF StateInv, Over, Receiving
<1>4. CASE Progress /\ ~Abort
  <2>1. task.at = "progress" /\ task'.at = "recv" /\ jobs' = Counted /\ Job \in Jobs
    BY <1>4, LateTask, JobKnown DEF Progress
  <2> QED
    BY <1>1, <2>1, CountedTyped DEF StateInv, Receiving
<1>5. ASSUME task.at \in Receiving, UNCHANGED jobs, task'.at # "begin" PROVE StateInv'
  BY <1>1, <1>5 DEF StateInv
<1>6. CASE (Recv \/ Check \/ Parsed \/ ParseFailed) /\ ~Abort
  BY <1>5, <1>6, RecvTask, CheckedTask, ParsedTask, ParseFailedTask DEF Receiving
<1>7. CASE (Tally \/ FinalFlush) /\ ~Abort
  <2>1. CASE FinalFlush \/ Write(task.batch, "progress")
    BY <1>5, <1>7, <2>1, WrittenTask DEF Tally, FinalFlush, LastBatch, Receiving
  <2>2. CASE Tally /\ ~Write(task.batch, "progress")
    BY <1>5, <1>7, <2>2, TalliedTask DEF Receiving
  <2> QED
    BY <1>7, <2>1, <2>2
<1>8. CASE (Join \/ Decide \/ Mark) /\ ~Abort
  BY <1>5, <1>8, LateTask DEF Receiving
<1> QED
  BY <1>2, <1>3, <1>4, <1>6, <1>7, <1>8 DEF Task

LEMMA StateNext == TypeInv /\ StateInv /\ [Next]_vars => StateInv'
<1> SUFFICES ASSUME TypeInv, StateInv, [Next]_vars PROVE StateInv'
  OBVIOUS
<1>1. CASE Create
  BY <1>1, CreatedTask DEF StateInv, Receiving
<1>2. CASE Crash \/ Restart
  BY <1>2, LeavingTask DEF StateInv, Receiving
<1>3. CASE Cancel \/ (\E j \in Jobs : Pull(j) \/ Send(j)) \/ (\E p \in Paths : Edit(p))
           \/ UNCHANGED vars
  BY <1>3 DEF Cancel, Pull, Send, Edit, vars, StateInv, Job
<1> QED
  BY <1>1, <1>2, <1>3, StateTask DEF Next

LEMMA ListedOut ==
  ASSUME NEW S, NEW s \in Seq(S)
  PROVE  s = [j \in 1 .. Len(s) |-> s[j]]
  OBVIOUS

LEMMA CreatedColumn ==
  ASSUME TypeInv, TypeInv', Create
  PROVE  Column' = Append(Column, "queued")
<1>1. /\ jobs \in Seq(JobRows) /\ jobs' = Append(jobs, NewJob) /\ Len(jobs) \in Nat
      /\ NewJob \in JobRows /\ NewJob.state = "queued"
  BY DEF TypeInv, JobsOK, Create, NewJob, JobRows
<1>2. /\ Len(jobs') = Len(jobs) + 1 /\ jobs'[Len(jobs) + 1] = NewJob
      /\ \A j \in 1 .. Len(jobs) : jobs'[j] = jobs[j]
  BY <1>1, Appended
<1>3. Column' = [j \in 1 .. Len(jobs) + 1 |-> jobs'[j].state]
  <2>1. jobs' \in Seq(JobRows)
    BY DEF TypeInv, JobsOK
  <2> QED
    BY <1>2, <2>1 DEF Column
<1>s. DEFINE States == {"queued", "running", "completed", "failed", "cancelled", "interrupted"}
<1>4. Column \in Seq(States) /\ Len(Column) = Len(jobs) /\ "queued" \in States
      /\ \A j \in 1 .. Len(jobs) : Column[j] = jobs[j].state
  BY ColumnIs
<1>5. /\ Append(Column, "queued") \in Seq(States) /\ Len(Append(Column, "queued")) = Len(jobs) + 1
      /\ Append(Column, "queued")[Len(jobs) + 1] = "queued"
      /\ \A j \in 1 .. Len(jobs) : Append(Column, "queued")[j] = jobs[j].state
  BY <1>4, Appended
<1>6. Append(Column, "queued") = [j \in 1 .. Len(jobs) + 1 |-> Append(Column, "queued")[j]]
  BY <1>5, ListedOut
<1>7. \A j \in 1 .. Len(jobs) + 1 : Append(Column, "queued")[j] = jobs'[j].state
  <2>1. \A j \in 1 .. Len(jobs) + 1 : j \in 1 .. Len(jobs) \/ j = Len(jobs) + 1
    BY <1>1
  <2> QED
    BY <1>1, <1>2, <1>5, <2>1
<1> QED
  BY <1>3, <1>6, <1>7

LEMMA RestartedColumn ==
  ASSUME TypeInv, TypeInv', Restart
  PROVE  Column' = [j \in 1 .. Len(Column) |-> IF Column[j] \in {"queued", "running"}
                                               THEN "interrupted" ELSE Column[j]]
<1>1. /\ jobs \in Seq(JobRows) /\ DOMAIN jobs = 1 .. Len(jobs) /\ Len(Column) = Len(jobs)
      /\ \A j \in 1 .. Len(jobs) : Column[j] = jobs[j].state /\ jobs[j] \in JobRows
  BY ColumnIs
<1>2. jobs' = [j \in 1 .. Len(jobs) |-> IF jobs[j].state \in {"queued", "running"}
                                        THEN [jobs[j] EXCEPT !.state = "interrupted"]
                                        ELSE jobs[j]]
  BY <1>1 DEF Restart, Interruptible
<1>3. Column' = [j \in 1 .. Len(jobs) |-> jobs'[j].state]
  BY <1>2 DEF Column
<1>4. \A j \in 1 .. Len(jobs) :
        jobs'[j].state = IF Column[j] \in {"queued", "running"} THEN "interrupted" ELSE Column[j]
  <2>1. SUFFICES ASSUME NEW j \in 1 .. Len(jobs)
                 PROVE  jobs'[j].state = IF Column[j] \in {"queued", "running"}
                                         THEN "interrupted" ELSE Column[j]
    OBVIOUS
  <2>2. CASE jobs[j].state \in {"queued", "running"}
    <3>1. jobs'[j] = [jobs[j] EXCEPT !.state = "interrupted"]
      BY <1>2, <2>2
    <3> QED
      BY <1>1, <2>2, <3>1 DEF JobRows
  <2>3. CASE jobs[j].state \notin {"queued", "running"}
    BY <1>1, <1>2, <2>3
  <2> QED
    BY <2>2, <2>3
<1> QED
  BY <1>1, <1>3, <1>4

LEMMA TaskIsLifecycle ==
  ASSUME TypeInv, TypeInv', StateInv, Task
  PROVE  [Lifecycle!Next]_(Lifecycle!lifecycle)
<1> DEFINE Is(step) == step => [Lifecycle!Next]_(Lifecycle!lifecycle)
<1>1. /\ task.at \notin {"idle", "down"} /\ Job \in Jobs /\ Job' = Job /\ Job \in Nat \ {0}
  <2>1. task.at \notin {"idle", "down"}
    BY DEF Task, Begin, Recv, Check, Parsed, ParseFailed, Tally, Progress, FinalFlush, Join,
           Decide, Mark, End, Release
  <2>2. ~Create
    BY <2>1 DEF Create
  <2> QED
    BY <2>1, <2>2, JobStays, JobKnown DEF Next, Jobs
<1>2. Column[Job] = jobs[Job].state
  BY <1>1, ColumnIs DEF Job, Jobs
<1>3. ASSUME Column' = Column, task'.at \notin {"idle", "down"}
      PROVE  [Lifecycle!Next]_(Lifecycle!lifecycle)
  BY <1>1, <1>3 DEF Lifecycle!lifecycle, Column
<1>4. CASE Begin /\ ~Abort
  <2>1. /\ task.at = "begin" /\ task'.at = "recv" /\ jobs'[Job].state = "running"
        /\ jobs[Job].state = "queued"
    BY <1>4, BegunTask DEF StateInv
  <2>2. Column' = [Column EXCEPT ![Job] = "running"]
    BY <1>1, <1>4, <2>1, BegunTask, BegunRows, ColumnPut
  <2>3. Lifecycle!Run
    BY <1>1, <1>2, <2>1, <2>2 DEF Lifecycle!Run, Column
  <2> QED
    BY <2>3 DEF Lifecycle!Next
<1>5. CASE End /\ ~Abort
  <2>1. /\ task.at = "end" /\ task'.at = "release" /\ jobs'[Job].state = task.fin
        /\ jobs[Job].state = "running" /\ jobs' = [Counted EXCEPT ![Job].state = task.fin]
        /\ task.fin \in {"completed", "failed", "cancelled"}
    BY <1>5, EndedTask DEF End, StateInv, Receiving, TypeInv, TaskOK, Tasks
  <2>2. Column' = [Column EXCEPT ![Job] = task.fin]
    BY <1>1, <2>1, CountedTyped, ColumnPut
  <2>3. Lifecycle!End
    BY <1>1, <1>2, <2>1, <2>2 DEF Lifecycle!End, Lifecycle!Outcomes, Column
  <2> QED
    BY <2>3 DEF Lifecycle!Next
<1>6. CASE Release
  <2>1. task'.at = "idle" /\ UNCHANGED jobs /\ task.at = "release"
    BY <1>6 DEF Release, Idle
  <2>2. Lifecycle!Leave
    BY <1>1, <2>1 DEF Lifecycle!Leave
  <2> QED
    BY <2>2 DEF Lifecycle!Next
<1>7. CASE Progress /\ ~Abort
  <2>1. task'.at = "recv" /\ jobs' = Counted
    BY <1>7, LateTask
  <2>2. Column' = Column
    BY <1>1, <2>1, CountedTyped, ColumnPut
  <2> QED
    BY <1>3, <2>1, <2>2
<1>8. ASSUME UNCHANGED jobs, task'.at \notin {"idle", "down"}
      PROVE  [Lifecycle!Next]_(Lifecycle!lifecycle)
  BY <1>3, <1>8 DEF Column
<1>9. CASE Abort
  BY <1>8, <1>9, AbortTask
<1>10. CASE (Recv \/ Check \/ Parsed \/ ParseFailed) /\ ~Abort
  BY <1>8, <1>10, RecvTask, CheckedTask, ParsedTask, ParseFailedTask
<1>11. CASE (Tally \/ FinalFlush) /\ ~Abort
  <2>1. CASE FinalFlush \/ Write(task.batch, "progress")
    BY <1>8, <1>11, <2>1, WrittenTask DEF Tally, FinalFlush, LastBatch
  <2>2. CASE Tally /\ ~Write(task.batch, "progress")
    BY <1>8, <1>11, <2>2, TalliedTask
  <2> QED
    BY <1>11, <2>1, <2>2
<1>12. CASE (Join \/ Decide \/ Mark) /\ ~Abort
  BY <1>8, <1>12, LateTask
<1> QED
  BY <1>4, <1>5, <1>6, <1>7, <1>9, <1>10, <1>11, <1>12 DEF Task

LEMMA StepIsLifecycle ==
  ASSUME TypeInv, TypeInv', StateInv, [Next]_vars
  PROVE  [Lifecycle!Next]_(Lifecycle!lifecycle)
<1>1. CASE Task
  BY <1>1, TaskIsLifecycle
<1>2. CASE Create
  <2>1. /\ task.at = "idle" /\ task'.at = "begin" /\ Job' = Job + 1
        /\ Column' = Append(Column, "queued") /\ Len(Column) = Job
    BY <1>2, CreatedTask, CreatedColumn, ColumnIs DEF Create, Job
  <2>2. Lifecycle!Create
    BY <2>1 DEF Lifecycle!Create, Column
  <2> QED
    BY <2>2 DEF Lifecycle!Next
<1>3. CASE Crash
  <2>1. task.at # "down" /\ task'.at = "down" /\ UNCHANGED jobs
    BY <1>3 DEF Crash, Idle
  <2>2. Lifecycle!Crash
    BY <2>1 DEF Lifecycle!Crash
  <2> QED
    BY <2>2 DEF Lifecycle!Next
<1>4. CASE Restart
  <2>1. task.at = "down" /\ task'.at = "idle"
    BY <1>4 DEF Restart, Idle
  <2>2. Lifecycle!Restart
    BY <1>4, <2>1, RestartedColumn DEF Lifecycle!Restart, Column
  <2> QED
    BY <2>2 DEF Lifecycle!Next
<1>5. CASE Cancel \/ (\E j \in Jobs : Pull(j) \/ Send(j)) \/ (\E p \in Paths : Edit(p))
           \/ UNCHANGED vars
  BY <1>5 DEF Cancel, Pull, Send, Edit, vars, Lifecycle!lifecycle, Job
<1> QED
  BY <1>1, <1>2, <1>3, <1>4, <1>5 DEF Next

\* A scan of the code is a life of the abstract job table: one job is worked on at a
\* time, its row goes from queued over running to one outcome, an ended row never
\* moves again, and what a crash left behind is interrupted at the next start
\* (coordinator.rs:280, 645).
THEOREM RowsLiveTheLifecycle == Spec => ImplementsLifecycle
<1>1. Init => Lifecycle!Init /\ StateInv
  BY DEF Init, Idle, Lifecycle!Init, StateInv, Receiving
<1>2. TypeInv /\ TypeInv' /\ StateInv /\ [Next]_vars => [Lifecycle!Next]_(Lifecycle!lifecycle)
  BY StepIsLifecycle
<1> QED
  BY <1>1, <1>2, TypeInit, TypeNext, StateNext, PTL DEF Spec, ImplementsLifecycle, Lifecycle!Spec

----------------------------------------------------------------------------
(* Counting *)

Ahead(p) == p \in walk[Job].todo
Sending(p) == walk[Job].at = "send" /\ walk[Job].item.path = p
Queued(p) == \E i \in 1 .. Len(walk[Job].queue) : walk[Job].queue[i].path = p
Held(p) == task.at \in Holding /\ task.item.path = p
Stamped(p) == tracks[p].seen = Job

\* No path is met twice on its way from the disk to the table.
Apart(p) ==
    /\ Ahead(p) => ~Sending(p) /\ ~Queued(p) /\ ~Held(p)
    /\ Sending(p) => ~Queued(p) /\ ~Held(p)
    /\ Queued(p) => ~Held(p)
    /\ Ahead(p) \/ Sending(p) \/ Queued(p) \/ Held(p) => ~InBatch(p) /\ ~Stamped(p)
    /\ InBatch(p) => ~Stamped(p)

Once(s) == \A i, j \in 1 .. Len(s) : s[i].path = s[j].path => i = j

ApartInv ==
    task.at \in Working =>
        Once(walk[Job].queue) /\ Once(task.batch) /\ \A p \in Paths : Apart(p)

LEMMA OnceAppended ==
  ASSUME NEW S, NEW s \in Seq(S), NEW x \in S, Once(s),
         \A i \in 1 .. Len(s) : s[i].path # x.path
  PROVE  Once(Append(s, x))
<1>1. SUFFICES ASSUME NEW i \in 1 .. Len(Append(s, x)), NEW j \in 1 .. Len(Append(s, x)),
                      Append(s, x)[i].path = Append(s, x)[j].path
               PROVE  i = j
  BY DEF Once
<1>2. i \in 1 .. Len(s) \/ i = Len(s) + 1
  BY Appended
<1>3. j \in 1 .. Len(s) \/ j = Len(s) + 1
  BY Appended
<1>4. CASE i \in 1 .. Len(s) /\ j \in 1 .. Len(s)
  BY <1>1, <1>4, Appended DEF Once
<1>5. CASE i = Len(s) + 1 /\ j \in 1 .. Len(s)
  BY <1>1, <1>5, Appended
<1>6. CASE i \in 1 .. Len(s) /\ j = Len(s) + 1
  BY <1>1, <1>6, Appended
<1> QED
  BY <1>2, <1>3, <1>4, <1>5, <1>6

LEMMA OnceTaken ==
  ASSUME NEW S, NEW s \in Seq(S), s # <<>>, Once(s)
  PROVE  Once(Tail(s)) /\ \A i \in 1 .. Len(Tail(s)) : Tail(s)[i].path # Head(s).path
<1>1. \A i \in 1 .. Len(Tail(s)) : Tail(s)[i].path # Head(s).path
  <2>1. SUFFICES ASSUME NEW i \in 1 .. Len(Tail(s)), Tail(s)[i].path = Head(s).path PROVE FALSE
    OBVIOUS
  <2>2. s[i + 1].path = s[1].path /\ i + 1 \in 1 .. Len(s) /\ 1 \in 1 .. Len(s)
    BY <2>1, Taken
  <2>3. i + 1 = 1
    BY <2>2 DEF Once
  <2> QED
    BY <2>3
<1>2. Once(Tail(s))
  <2>1. SUFFICES ASSUME NEW i \in 1 .. Len(Tail(s)), NEW j \in 1 .. Len(Tail(s)),
                        Tail(s)[i].path = Tail(s)[j].path
                 PROVE  i = j
    BY DEF Once
  <2>2. s[i + 1].path = s[j + 1].path /\ i + 1 \in 1 .. Len(s) /\ j + 1 \in 1 .. Len(s)
    BY <2>1, Taken
  <2>3. i + 1 = j + 1
    BY <2>2 DEF Once
  <2> QED
    BY <2>3
<1> QED
  BY <1>1, <1>2

\* A step that moves nothing on its way.
LEMMA NothingMoved ==
  ASSUME ApartInv, task.at \in Working, Job' = Job, UNCHANGED <<tracks, walk>>,
         task'.batch = task.batch,
         task'.at \in Holding => task.at \in Holding /\ task'.item = task.item
  PROVE  ApartInv'
<1>1. \A p \in Paths : Apart(p) => Apart(p)'
  BY DEF Apart, Ahead, Sending, Queued, Held, InBatch, Stamped
<1> QED
  BY <1>1 DEF ApartInv, Once

LEMMA BegunApart ==
  ASSUME TypeInv, RowsInv, Begin, ~Abort, Job' = Job
  PROVE  ApartInv'
<1>1. /\ task'.at = "recv" /\ walk'[Job].at = "pull" /\ walk'[Job].queue = <<>>
      /\ task.at = "begin" /\ task'.batch = task.batch /\ UNCHANGED tracks
  BY BegunTask
<1>2. Job \in Nat /\ \A p \in Paths : tracks[p].seen \in Nat
  BY JobKnown, ConstantsOK DEF TypeInv, Rows
<1>3. task'.batch = <<>> /\ \A p \in Paths : tracks[p].seen # Job
  BY <1>1, <1>2 DEF RowsInv
<1>4. \A p \in Paths : ~Sending(p)' /\ ~Queued(p)' /\ ~Held(p)' /\ ~InBatch(p)' /\ ~Stamped(p)'
  BY <1>1, <1>3 DEF Sending, Queued, Held, InBatch, Stamped, Holding
<1> QED
  BY <1>1, <1>3, <1>4 DEF ApartInv, Apart, Once

LEMMA RecvApart ==
  ASSUME TypeInv, ApartInv, Recv, Job' = Job
  PROVE  ApartInv'
<1>1. /\ task.at = "recv" /\ task.at \in Working /\ task'.batch = task.batch /\ UNCHANGED tracks
      /\ walk'[Job].at = walk[Job].at /\ walk'[Job].todo = walk[Job].todo
      /\ walk'[Job].item = walk[Job].item /\ walk[Job].queue \in Seq(Items)
  BY RecvTask DEF Working
<1>2. CASE task'.at = "final" /\ UNCHANGED walk
  BY <1>1, <1>2, NothingMoved DEF Holding
<1>3. CASE /\ task'.at = "check" /\ walk[Job].queue # <<>>
           /\ task'.item = Head(walk[Job].queue)
           /\ walk'[Job].queue = Tail(walk[Job].queue)
  <2> DEFINE q == walk[Job].queue
  <2>1. Once(q) /\ Once(task.batch) /\ \A p \in Paths : Apart(p)
    BY <1>1 DEF ApartInv
  <2>2. Once(Tail(q)) /\ \A i \in 1 .. Len(Tail(q)) : Tail(q)[i].path # Head(q).path
    BY <1>1, <1>3, <2>1, OnceTaken
  <2>3. ASSUME NEW p \in Paths PROVE Apart(p)'
    <3>1. Queued(p)' => Queued(p) /\ p # Head(q).path
      <4>1. SUFFICES ASSUME NEW i \in 1 .. Len(Tail(q)), Tail(q)[i].path = p
                     PROVE  Queued(p) /\ p # Head(q).path
        BY <1>3 DEF Queued
      <4>2. i + 1 \in 1 .. Len(q) /\ q[i + 1].path = p
        BY <1>1, <1>3, <4>1, Taken
      <4> QED
        BY <2>2, <4>1, <4>2 DEF Queued
    <3>2. p = Head(q).path => Queued(p)
      BY <1>1, <1>3, Taken DEF Queued
    <3>3. Held(p)' <=> p = Head(q).path
      BY <1>3 DEF Held, Holding
    <3>4. /\ Ahead(p)' <=> Ahead(p)
          /\ Sending(p)' <=> Sending(p)
          /\ InBatch(p)' <=> InBatch(p)
          /\ Stamped(p)' <=> Stamped(p)
      BY <1>1 DEF Ahead, Sending, InBatch, Stamped
    <3>5. Apart(p)
      BY <2>1
    <3> HIDE DEF q
    <3> QED
      BY <3>1, <3>2, <3>3, <3>4, <3>5 DEF Apart
  <2> QED
    BY <1>1, <1>3, <2>1, <2>2, <2>3 DEF ApartInv, Once
<1> QED
  BY <1>2, <1>3, RecvTask

\* The path in hand goes into the batch.
LEMMA BatchedApart ==
  ASSUME TypeInv, ApartInv, task.at \in Holding, task'.at \notin Holding, Job' = Job,
         UNCHANGED <<tracks, walk>>,
         NEW op \in Ops, op.path = task.item.path, task'.batch = Append(task.batch, op)
  PROVE  ApartInv'
<1>1. task.at \in Working /\ task.batch \in Seq(Ops) /\ op.path \in Paths
  BY DEF Holding, Working, TypeInv, TaskOK, Tasks, Ops
<1>2. Once(task.batch) /\ \A p \in Paths : Apart(p)
  BY <1>1 DEF ApartInv
<1>3. Held(op.path)
  BY DEF Held
<1>4. \A i \in 1 .. Len(task.batch) : task.batch[i].path # op.path
  BY <1>1, <1>2, <1>3 DEF Apart, InBatch
<1>5. Once(task'.batch)
  BY <1>1, <1>2, <1>4, OnceAppended
<1>6. ASSUME NEW p \in Paths PROVE Apart(p)'
  <2>1. InBatch(p)' <=> InBatch(p) \/ p = op.path
    BY NamedBatch
  <2>2. ~Held(p)' /\ (Held(p) <=> p = op.path)
    BY DEF Held
  <2>3. /\ Ahead(p)' <=> Ahead(p)
        /\ Sending(p)' <=> Sending(p)
        /\ Queued(p)' <=> Queued(p)
        /\ Stamped(p)' <=> Stamped(p)
    BY DEF Ahead, Sending, Queued, Stamped
  <2> QED
    BY <1>2, <2>1, <2>2, <2>3 DEF Apart
<1> QED
  BY <1>1, <1>5, <1>6 DEF ApartInv, Once

LEMMA WrittenApart ==
  ASSUME TypeInv, ApartInv, NEW next, next \notin Holding, task.at \in {"tally", "final"},
         Write(task.batch, next), ~Abort, Job' = Job
  PROVE  ApartInv'
<1>1. task.at \in Working /\ task'.batch = <<>> /\ task'.at = next /\ UNCHANGED walk
  BY WrittenTask DEF Working
<1>2. Once(walk[Job].queue) /\ \A p \in Paths : Apart(p)
  BY <1>1 DEF ApartInv
<1>3. ASSUME NEW p \in Paths PROVE Apart(p)'
  <2>1. ~InBatch(p)' /\ ~Held(p)'
    BY <1>1 DEF InBatch, Held
  <2>2. Stamped(p)' => Stamped(p) \/ InBatch(p)
    BY WrittenRows DEF Stamped
  <2>3. /\ Ahead(p)' <=> Ahead(p)
        /\ Sending(p)' <=> Sending(p)
        /\ Queued(p)' <=> Queued(p)
    BY <1>1 DEF Ahead, Sending, Queued
  <2> QED
    BY <1>2, <2>1, <2>2, <2>3 DEF Apart
<1> QED
  BY <1>1, <1>2, <1>3 DEF ApartInv, Once

LEMMA ApartTask ==
  ASSUME TypeInv, RowsInv, ApartInv, Task
  PROVE  ApartInv'
<1> SUFFICES ASSUME task'.at \in Working PROVE ApartInv'
  BY DEF ApartInv
<1>1. Job' = Job /\ ~Abort
  BY WorkedTask
<1>2. CASE Begin \/ Recv
  BY <1>1, <1>2, BegunApart, RecvApart
<1>3. CASE Check
  <2>1. /\ task.at = "check" /\ task.item \in Real /\ UNCHANGED <<tracks, walk>>
        /\ task'.at \in Holding => task'.item = task.item
    BY <1>1, <1>3, CheckedTask DEF Holding
  <2>2. CASE task'.batch = task.batch
    BY <1>1, <2>1, <2>2, NothingMoved DEF Working, Holding
  <2>3. CASE task'.at = "tally" /\ task'.batch = Append(task.batch, Stamp(task.item.path))
    BY <1>1, <2>1, <2>3, OpsTyped, BatchedApart DEF Holding, Stamp
  <2> QED
    BY <1>1, <1>3, <2>2, <2>3, CheckedTask
<1>4. CASE Parsed
  BY <1>1, <1>4, ParsedTask, OpsTyped, BatchedApart DEF Holding, Upsert
<1>5. CASE ParseFailed
  <2>1. /\ task.at = "parse" /\ task.item \in Real /\ UNCHANGED <<tracks, walk>>
        /\ task'.at \notin Holding
    BY <1>5, ParseFailedTask DEF Holding
  <2>2. CASE task'.batch = task.batch
    BY <1>1, <2>1, <2>2, NothingMoved DEF Working
  <2>3. CASE task'.batch = Append(task.batch, Stamp(task.item.path))
    BY <1>1, <2>1, <2>3, OpsTyped, BatchedApart DEF Holding, Stamp
  <2> QED
    BY <1>5, <2>2, <2>3, ParseFailedTask
<1>6. CASE Tally
  <2>1. CASE Write(task.batch, "progress")
    BY <1>1, <1>6, <2>1, WrittenApart DEF Tally, Holding
  <2> QED
    BY <1>1, <1>6, <2>1, TalliedTask, NothingMoved DEF Working, Holding
<1>7. CASE FinalFlush
  BY <1>1, <1>7, WrittenApart DEF FinalFlush, LastBatch, Holding
<1>8. CASE Progress \/ Join \/ Decide
  <2>1. task.at \in Working /\ task'.at \notin Holding /\ UNCHANGED <<tracks, walk>>
    BY <1>1, <1>8, LateTask DEF Progress, Join, Decide, Working, Holding
  <2> QED
    BY <1>1, <1>8, <2>1, LateTask, NothingMoved
<1>9. CASE Mark \/ End \/ Release
  BY <1>1, <1>9, LateTask, EndedTask, LeavingTask DEF Working
<1> QED
  BY <1>2, <1>3, <1>4, <1>5, <1>6, <1>7, <1>8, <1>9 DEF Task

LEMMA ApartWalker ==
  ASSUME TypeInv, ApartInv, NEW j \in Jobs, Pull(j) \/ Send(j)
  PROVE  ApartInv'
<1> SUFFICES ASSUME task.at \in Working PROVE ApartInv'
  BY PulledWalker, SentWalker DEF ApartInv
<1>1. UNCHANGED <<tracks, task>> /\ Job' = Job /\ Job \in Jobs
  BY PulledWalker, SentWalker, JobKnown DEF Job, Working
<1>2. Once(walk[Job].queue) /\ Once(task.batch) /\ \A p \in Paths : Apart(p)
  BY DEF ApartInv
<1>3. ASSUME NEW p \in Paths
      PROVE  /\ Held(p)' <=> Held(p)
             /\ InBatch(p)' <=> InBatch(p)
             /\ Stamped(p)' <=> Stamped(p)
  BY <1>1 DEF Held, InBatch, Stamped
<1>4. CASE j # Job
  <2>1. walk'[Job] = walk[Job]
    BY <1>1, <1>4, PulledWalker, SentWalker
  <2>2. \A p \in Paths : Apart(p)'
    BY <1>1, <1>2, <1>3, <2>1 DEF Apart, Ahead, Sending, Queued
  <2> QED
    BY <1>1, <1>2, <2>1, <2>2 DEF ApartInv, Once
<1>5. CASE j = Job /\ Pull(j)
  <2>1. walk[Job].at = "pull" /\ walk'[Job].queue = walk[Job].queue
    BY <1>5, PulledWalker
  <2>2. ASSUME NEW p \in Paths PROVE Apart(p)'
    <3>1. (Queued(p)' <=> Queued(p)) /\ ~Sending(p)
      BY <1>1, <2>1 DEF Queued, Sending
    <3>2. /\ Ahead(p)' => Ahead(p)
          /\ Sending(p)' => Ahead(p) /\ ~Ahead(p)'
      BY <1>1, <1>5, PulledWalker DEF Ahead, Sending
    <3> QED
      BY <1>2, <1>3, <3>1, <3>2 DEF Apart
  <2> QED
    BY <1>1, <1>2, <2>1, <2>2 DEF ApartInv, Once
<1>6. CASE j = Job /\ Send(j)
  <2>1. /\ walk'[Job].at = "pull" /\ walk[Job].at = "send" /\ walk'[Job].todo = walk[Job].todo
        /\ walk'[Job].queue = Append(walk[Job].queue, walk[Job].item)
        /\ walk[Job].item \in Items /\ walk[Job].queue \in Seq(Items)
    BY <1>6, SentWalker DEF RxOpen, Receiving, Working
  <2>2. walk[Job].item.path \in Paths /\ Sending(walk[Job].item.path)
    BY <1>1, <2>1 DEF Sending, TypeInv, WalkerOK, Real
  <2>3. \A i \in 1 .. Len(walk[Job].queue) : walk[Job].queue[i].path # walk[Job].item.path
    BY <1>2, <2>2 DEF Apart, Queued
  <2>4. Once(walk'[Job].queue)
    BY <1>2, <2>1, <2>3, OnceAppended
  <2>5. ASSUME NEW p \in Paths PROVE Apart(p)'
    <3>1. (Ahead(p)' <=> Ahead(p)) /\ ~Sending(p)'
      BY <1>1, <2>1 DEF Ahead, Sending
    <3>2. Queued(p)' => Queued(p) \/ Sending(p)
      <4>1. \A i \in 1 .. Len(walk'[Job].queue) :
              i \in 1 .. Len(walk[Job].queue) \/ i = Len(walk[Job].queue) + 1
        BY <2>1, Appended
      <4> QED
        BY <1>1, <2>1, <4>1, Appended DEF Queued, Sending
    <3> QED
      BY <1>2, <1>3, <3>1, <3>2 DEF Apart
  <2> QED
    BY <1>1, <1>2, <2>4, <2>5 DEF ApartInv, Once
<1> QED
  BY <1>4, <1>5, <1>6

LEMMA ApartNext == TypeInv /\ RowsInv /\ ApartInv /\ [Next]_vars => ApartInv'
<1> SUFFICES ASSUME TypeInv, RowsInv, ApartInv, [Next]_vars PROVE ApartInv'
  OBVIOUS
<1>1. CASE Create \/ Crash \/ Restart
  BY <1>1, LeftTask DEF ApartInv, Working
<1>2. CASE Cancel \/ (\E p \in Paths : Edit(p)) \/ UNCHANGED vars
  <2>1. UNCHANGED <<tracks, jobs, walk, task>>
    BY <1>2 DEF Cancel, Edit, vars
  <2>2. \A p \in Paths : Apart(p) => Apart(p)'
    BY <2>1 DEF Apart, Ahead, Sending, Queued, Held, InBatch, Stamped, Job
  <2> QED
    BY <2>1, <2>2 DEF ApartInv, Once, Job
<1> QED
  BY <1>1, <1>2, ApartTask, ApartWalker DEF Next

AllStamped == {p \in Paths : Stamped(p)}

\* A scan counted so many paths, wrote so many rows and failed at so many.
Fits(seen, scanned, updated, failed) ==
    seen <= scanned /\ scanned <= seen + failed /\ updated <= seen

\* What waits in the batch or in the hand of the parser is scanned and not stamped.
Waiting == IF task.at = "parse" THEN Len(task.batch) + 1 ELSE Len(task.batch)

CountInv ==
    /\ task.at = "begin" => task.scanned = 0 /\ task.updated = 0 /\ task.failed = 0
    /\ task.at \in {"mark", "end"} => task.batch = <<>>
    /\ task.at \in Working \cup {"mark", "end"} =>
         /\ IsFiniteSet(AllStamped)
         /\ Cardinality(AllStamped) + Waiting <= task.scanned
         /\ task.scanned <= Cardinality(AllStamped) + Waiting + task.failed
         /\ task.updated <= Cardinality(AllStamped)

\* The numbers a step of the task leaves alone.
Alike(t, u) ==
    t.scanned = u.scanned /\ t.updated = u.updated /\ t.failed = u.failed

LEMMA AlikeTask ==
  ASSUME TypeInv, ~Abort,
         Begin \/ Recv \/ Progress \/ Join \/ Decide \/ Mark
           \/ (Tally /\ ~Write(task.batch, "progress"))
  PROVE  Alike(task', task)
<1>1. task \in Tasks
  BY DEF TypeInv, TaskOK
<1>2. CASE Begin
  BY <1>1, <1>2 DEF Begin, Alike, Tasks
<1>3. CASE Recv
  BY <1>1, <1>3 DEF Recv, Alike, Tasks
<1>4. CASE Progress
  BY <1>1, <1>4 DEF Progress, Alike, Tasks
<1>5. CASE Join
  BY <1>1, <1>5 DEF Join, Alike, Tasks
<1>6. CASE Decide
  BY <1>1, <1>6 DEF Decide, Alike, Tasks
<1>7. CASE Mark
  BY <1>1, <1>7 DEF Mark, Alike, Tasks
<1>8. CASE Tally /\ ~Write(task.batch, "progress")
  BY <1>1, <1>8 DEF Tally, Alike, Tasks
<1> QED
  BY <1>2, <1>3, <1>4, <1>5, <1>6, <1>7, <1>8

LEMMA CheckedNumbers ==
  ASSUME TypeInv, Check, ~Abort
  PROVE  /\ task'.updated = task.updated
         /\ \/ /\ task'.scanned = task.scanned /\ task'.at # "parse"
               /\ task'.batch = task.batch /\ task'.failed \in {task.failed, task.failed + 1}
            \/ /\ task'.scanned = task.scanned + 1 /\ task'.at # "parse"
               /\ task'.batch = Append(task.batch, Stamp(task.item.path))
               /\ task'.failed = task.failed
            \/ /\ task'.scanned = task.scanned + 1 /\ task'.at = "parse"
               /\ task'.batch = task.batch /\ task'.failed = task.failed
<1>1. task.at = "check" /\ task.item \in Real /\ task \in Tasks
  BY DEF Check, TypeInv, TaskOK, Holding
<1>2. task.item.kind \in {"file", "link", "broken"}
  BY <1>1 DEF Real, Kinds
<1>3. CASE cancel[Job]
  <2>1. task' = [task EXCEPT !.at = "final", !.stopped = TRUE, !.item = NoItem]
    BY <1>3 DEF Check
  <2> QED
    BY <1>1, <2>1 DEF Tasks
<1>4. CASE ~cancel[Job] /\ task.item.kind = "link"
  <2>1. task' = [task EXCEPT !.at = "tally", !.item = NoItem, !.errs = Listed]
    BY <1>4 DEF Check
  <2> QED
    BY <1>1, <2>1 DEF Tasks
<1>5. CASE ~cancel[Job] /\ task.item.kind = "broken"
  <2>1. task' = [task EXCEPT !.at = "tally", !.item = NoItem, !.errs = Listed,
                             !.ok = FALSE, !.failed = @ + 1]
    BY <1>5 DEF Check
  <2> QED
    BY <1>1, <2>1 DEF Tasks
<1>6. CASE ~cancel[Job] /\ task.item.kind = "file" /\ Unchanged(task.item)
  <2>1. task' = [task EXCEPT !.at = "tally", !.item = NoItem, !.scanned = @ + 1,
                             !.batch = Append(@, Stamp(task.item.path))]
    BY <1>6 DEF Check
  <2> QED
    BY <1>1, <2>1 DEF Tasks
<1>7. CASE ~cancel[Job] /\ task.item.kind = "file" /\ ~Unchanged(task.item)
  <2>1. task' = [task EXCEPT !.at = "parse", !.scanned = @ + 1]
    BY <1>7 DEF Check
  <2> QED
    BY <1>1, <2>1 DEF Tasks
<1> QED
  BY <1>2, <1>3, <1>4, <1>5, <1>6, <1>7

LEMMA ParsedNumbers ==
  ASSUME TypeInv, Parsed
  PROVE  Alike(task', task)
  BY DEF TypeInv, TaskOK, Parsed, Alike, Tasks

LEMMA ParseFailedNumbers ==
  ASSUME TypeInv, ParseFailed
  PROVE  task'.scanned = task.scanned /\ task'.updated = task.updated
<1>1. task \in Tasks
  BY DEF TypeInv, TaskOK
<1>t. PICK t : t = [task EXCEPT !.item = NoItem, !.failed = @ + 1, !.errs = Listed]
  OBVIOUS
<1>2. t.scanned = task.scanned /\ t.updated = task.updated /\ DOMAIN t = DOMAIN task
  BY <1>1, <1>t DEF Tasks
<1>3. \/ task' = [t EXCEPT !.at = "tally", !.batch = Append(@, Stamp(task.item.path))]
      \/ task' = [t EXCEPT !.at = "recv"]
  BY <1>t DEF ParseFailed
<1> QED
  BY <1>1, <1>2, <1>3 DEF Tasks

LEMMA WrittenNumbers ==
  ASSUME TypeInv, NEW next, Write(task.batch, next), ~Abort
  PROVE  /\ task'.scanned = task.scanned /\ task'.failed = task.failed
         /\ task'.updated = task.updated + Upserts(task.batch)
<1>1. task \in Tasks
  BY DEF TypeInv, TaskOK
<1> QED
  BY <1>1 DEF Write, Tasks

\* A batch that names no path twice stamps as many rows as it is long.
LEMMA WrittenCount ==
  ASSUME TypeInv, ApartInv, NEW next, task.at \in {"tally", "final"},
         Write(task.batch, next), ~Abort, Job' = Job, IsFiniteSet(AllStamped)
  PROVE  /\ IsFiniteSet(AllStamped') /\ Upserts(task.batch) \in Nat
         /\ Cardinality(AllStamped') = Cardinality(AllStamped) + Len(task.batch)
         /\ Upserts(task.batch) <= Len(task.batch) /\ Cardinality(AllStamped) \in Nat
<1> DEFINE I == 1 .. Len(task.batch)
           B == {task.batch[i].path : i \in I}
           f == [i \in I |-> task.batch[i].path]
<1>1. /\ task.batch \in Seq(Ops) /\ Len(task.batch) \in Nat /\ DOMAIN task.batch = I
      /\ \A i \in I : task.batch[i].path \in Paths
  <2>1. task.batch \in Seq(Ops)
    BY WrittenTask
  <2>2. \A i \in I : task.batch[i] \in Ops
    BY <2>1
  <2> QED
    BY <2>1, <2>2 DEF Ops
<1>2. Once(task.batch) /\ \A p \in Paths : Apart(p)
  BY DEF ApartInv, Working
<1>3. IsFiniteSet(I) /\ Cardinality(I) = Len(task.batch)
  BY <1>1, FS_Interval
<1>4. f \in Bijection(I, B)
  BY <1>2 DEF Once, Bijection, Injection, Surjection, IsInjective
<1>5. ExistsBijection(I, B)
  <2> HIDE DEF f
  <2> QED
    BY <1>4 DEF ExistsBijection
<1>6. \A p \in Paths : Stamped(p)' <=> Stamped(p) \/ InBatch(p)
  BY WrittenRows DEF Stamped
<1>7. AllStamped' = AllStamped \cup B /\ AllStamped \cap B = {}
  <2>1. \A p : p \in B <=> p \in Paths /\ InBatch(p)
    BY <1>1 DEF InBatch
  <2>2. \A p \in Paths : ~(Stamped(p) /\ InBatch(p))
    BY <1>2 DEF Apart
  <2> HIDE DEF B
  <2> QED
    BY <1>6, <2>1, <2>2 DEF AllStamped
<1>8. Upserts(task.batch) \in Nat /\ Upserts(task.batch) <= Len(task.batch)
  <2> DEFINE ups == {i \in DOMAIN task.batch : ~task.batch[i].stamp}
  <2>1. ups \in SUBSET I
    BY <1>1
  <2>2. Cardinality(ups) <= Cardinality(I)
    <3> HIDE DEF ups, I
    <3> QED
      BY <1>3, <2>1, FS_Subset
  <2>3. Upserts(task.batch) = Cardinality(ups)
    BY DEF Upserts
  <2> HIDE DEF ups, I
  <2> QED
    BY <1>1, <1>3, <2>2, <2>3, UpsertsTyped
<1> HIDE DEF I, B, f
<1>9. IsFiniteSet(B) /\ Cardinality(B) = Len(task.batch)
  BY <1>3, <1>5, FS_Bijection
<1>10. /\ IsFiniteSet(AllStamped \cup B)
       /\ Cardinality(AllStamped \cup B)
            = Cardinality(AllStamped) + Cardinality(B) - Cardinality(AllStamped \cap B)
  BY <1>9, FS_Union, Zenon
<1>11. Cardinality(AllStamped \cap B) = 0
  BY <1>7, FS_EmptySet
<1>12. Cardinality(AllStamped) \in Nat
  BY FS_CardinalityType
<1>13. Cardinality(AllStamped \cup B) = Cardinality(AllStamped) + Len(task.batch)
  BY <1>1, <1>9, <1>10, <1>11, <1>12
<1> QED
  BY <1>7, <1>8, <1>10, <1>12, <1>13

Counting == Working \cup {"mark", "end"}

LEMMA NumbersTyped ==
  ASSUME TypeInv
  PROVE  /\ task.scanned \in Nat /\ task.updated \in Nat /\ task.failed \in Nat
         /\ task.batch \in Seq(Ops) /\ Len(task.batch) \in Nat
  BY DEF TypeInv, TaskOK, Tasks

\* A step that stamps nothing keeps the count of stamped rows.
LEMMA StampedKept ==
  ASSUME Job' = Job, \A p \in Paths : tracks'[p].seen = tracks[p].seen
  PROVE  AllStamped' = AllStamped
  BY DEF AllStamped, Stamped

\* What has to be shown of a step of the task that keeps the stamped rows.
LEMMA CountKept ==
  ASSUME TypeInv, CountInv, task.at \in Counting, AllStamped' = AllStamped,
         task'.at # "begin", task'.at \in {"mark", "end"} => task'.batch = <<>>,
         task'.updated = task.updated,
         \/ Waiting' = Waiting /\ task'.scanned = task.scanned
            /\ task'.failed \in {task.failed, task.failed + 1}
         \/ Waiting' = Waiting + 1 /\ task'.scanned = task.scanned + 1
            /\ task'.failed = task.failed
         \/ Waiting' = Waiting - 1 /\ task'.scanned = task.scanned
            /\ task'.failed = task.failed + 1
  PROVE  CountInv'
<1> DEFINE n == Cardinality(AllStamped)
<1>1. IsFiniteSet(AllStamped) /\ n \in Nat
  BY FS_CardinalityType DEF CountInv, Counting
<1>2. Waiting \in Nat
  BY NumbersTyped DEF Waiting
<1>3. /\ n + Waiting <= task.scanned /\ task.scanned <= n + Waiting + task.failed
      /\ task.updated <= n
  BY DEF CountInv, Counting
<1>4. Cardinality(AllStamped') = n /\ IsFiniteSet(AllStamped')
  BY <1>1
<1> HIDE DEF n
<1>5. /\ n + Waiting' <= task'.scanned /\ task'.scanned <= n + Waiting' + task'.failed
      /\ task'.updated <= n
  BY <1>1, <1>2, <1>3, NumbersTyped
<1> QED
  BY <1>4, <1>5 DEF CountInv, n

LEMMA BegunCount ==
  ASSUME TypeInv, RowsInv, CountInv, Begin, ~Abort, Job' = Job
  PROVE  CountInv'
<1>1. task.at = "begin" /\ task'.at = "recv" /\ task'.batch = task.batch /\ UNCHANGED tracks
  BY BegunTask
<1>2. task'.scanned = 0 /\ task'.updated = 0 /\ task'.failed = 0
  BY <1>1, AlikeTask DEF CountInv, Alike
<1>3. Job \in Nat /\ \A p \in Paths : tracks[p].seen \in Nat
  BY JobKnown, ConstantsOK DEF TypeInv, Rows
<1>4. task'.batch = <<>> /\ \A p \in Paths : tracks[p].seen # Job
  BY <1>1, <1>3 DEF RowsInv
<1>5. AllStamped' = {}
  BY <1>1, <1>4 DEF AllStamped, Stamped
<1>6. IsFiniteSet(AllStamped') /\ Cardinality(AllStamped') = 0
  BY <1>5, FS_EmptySet
<1>7. Waiting' = 0
  BY <1>1, <1>4 DEF Waiting
<1> QED
  BY <1>1, <1>2, <1>6, <1>7 DEF CountInv

LEMMA CheckedCount ==
  ASSUME TypeInv, CountInv, Check, ~Abort, Job' = Job
  PROVE  CountInv'
<1>1. task.at = "check" /\ task.item \in Real /\ UNCHANGED tracks
      /\ task'.at \in {"final", "tally", "parse"}
  BY CheckedTask
<1>2. AllStamped' = AllStamped /\ task.at \in Counting /\ task.batch \in Seq(Ops)
  BY <1>1, StampedKept, NumbersTyped DEF Counting, Working
<1>3. CASE task'.batch = task.batch
  <2>1. task'.at # "parse" => Waiting' = Waiting
    BY <1>1, <1>3 DEF Waiting
  <2>2. task'.at = "parse" => Waiting' = Waiting + 1
    BY <1>1, <1>3 DEF Waiting
  <2>3. Len(task.batch) # Len(task.batch) + 1
    BY NumbersTyped
  <2>4. task'.batch # Append(task.batch, Stamp(task.item.path))
    BY <1>1, <1>2, <1>3, <2>3, OpsTyped, Appended
  <2> QED
    BY <1>1, <1>2, <1>3, <2>1, <2>2, <2>4, CheckedNumbers, CountKept
<1>4. CASE task'.batch = Append(task.batch, Stamp(task.item.path)) /\ task'.at # "parse"
  <2>1. Len(task'.batch) = Len(task.batch) + 1
    BY <1>1, <1>2, <1>4, OpsTyped, Appended
  <2>2. Waiting' = Waiting + 1
    BY <1>1, <1>4, <2>1, NumbersTyped DEF Waiting
  <2>3. task'.batch # task.batch
    BY <2>1, NumbersTyped
  <2> QED
    BY <1>1, <1>2, <1>4, <2>2, <2>3, CheckedNumbers, CountKept
<1> QED
  BY <1>3, <1>4, CheckedNumbers

LEMMA ParsedCount ==
  ASSUME TypeInv, CountInv, Parsed \/ ParseFailed, Job' = Job
  PROVE  CountInv'
<1>1. /\ task.at = "parse" /\ task.item \in Real /\ UNCHANGED tracks
      /\ task'.at \in {"tally", "recv"}
  BY ParsedTask, ParseFailedTask
<1>2. AllStamped' = AllStamped /\ task.at \in Counting /\ task.batch \in Seq(Ops)
  BY <1>1, StampedKept, NumbersTyped DEF Counting, Working
<1>3. ASSUME NEW op \in Ops, task'.batch = Append(task.batch, op)
      PROVE  Waiting' = Waiting
  <2>1. Len(task'.batch) = Len(task.batch) + 1
    BY <1>2, <1>3, Appended
  <2> QED
    BY <1>1, <2>1, NumbersTyped DEF Waiting
<1>4. CASE Parsed
  BY <1>1, <1>2, <1>3, <1>4, ParsedTask, ParsedNumbers, OpsTyped, CountKept DEF Alike
<1>5. CASE ParseFailed /\ task'.batch = Append(task.batch, Stamp(task.item.path))
  BY <1>1, <1>2, <1>3, <1>5, ParseFailedTask, ParseFailedNumbers, OpsTyped, CountKept
<1>6. CASE ParseFailed /\ task'.batch = task.batch
  <2>1. Waiting' = Waiting - 1
    BY <1>1, <1>6, NumbersTyped DEF Waiting
  <2> QED
    BY <1>1, <1>2, <1>6, <2>1, ParseFailedTask, ParseFailedNumbers, CountKept
<1> QED
  BY <1>4, <1>5, <1>6, ParseFailedTask

LEMMA WrittenCounts ==
  ASSUME TypeInv, ApartInv, CountInv, NEW next \in {"progress", "join"},
         task.at \in {"tally", "final"}, Write(task.batch, next), ~Abort, Job' = Job
  PROVE  CountInv'
<1> DEFINE n == Cardinality(AllStamped)
           m == Cardinality(AllStamped')
           b == Len(task.batch)
<1>1. /\ IsFiniteSet(AllStamped) /\ Waiting = b
      /\ n + Waiting <= task.scanned /\ task.scanned <= n + Waiting + task.failed
      /\ task.updated <= n
  BY NumbersTyped DEF CountInv, Working, Waiting
<1>2. /\ IsFiniteSet(AllStamped') /\ Upserts(task.batch) \in Nat /\ m = n + b
      /\ Upserts(task.batch) <= b /\ n \in Nat
  BY <1>1, WrittenCount
<1>3. /\ task'.scanned = task.scanned /\ task'.failed = task.failed
      /\ task'.updated = task.updated + Upserts(task.batch)
  BY WrittenNumbers
<1>4. task'.at = next /\ task'.batch = <<>>
  BY WrittenTask
<1>5. Waiting' = 0
  BY <1>4 DEF Waiting
<1>6. b \in Nat /\ task.scanned \in Nat /\ task.failed \in Nat /\ task.updated \in Nat
  BY NumbersTyped
<1> HIDE DEF n, m, b
<1>7. /\ m + Waiting' <= task'.scanned /\ task'.scanned <= m + Waiting' + task'.failed
      /\ task'.updated <= m
  BY <1>1, <1>2, <1>3, <1>5, <1>6
<1> QED
  BY <1>2, <1>4, <1>7 DEF CountInv, m

LEMMA CountTask ==
  ASSUME TypeInv, RowsInv, EarlyInv, ApartInv, CountInv, Task
  PROVE  CountInv'
<1>1. CASE task'.at \in Over
  BY <1>1 DEF CountInv, Over, Working
<1> SUFFICES ASSUME task'.at \notin Over PROVE CountInv'
  BY <1>1
<1>2. ~Abort
  BY AbortTask DEF Over
<1>3. Job' = Job
  BY JobStays DEF Next, Create, Task, Begin, Recv, Check, Parsed, ParseFailed, Tally, Progress,
                  FinalFlush, Join, Decide, Mark, End, Release
<1>4. CASE Begin
  BY <1>2, <1>3, <1>4, BegunCount
<1>5. CASE Check \/ Parsed \/ ParseFailed
  BY <1>2, <1>3, <1>5, CheckedCount, ParsedCount
<1>6. CASE Tally /\ Write(task.batch, "progress")
  BY <1>2, <1>3, <1>6, WrittenCounts DEF Tally
<1>7. CASE FinalFlush
  BY <1>2, <1>3, <1>7, WrittenCounts DEF FinalFlush, LastBatch
<1>8. ASSUME Alike(task', task), task'.batch = task.batch, task.at \in Counting \ {"parse"},
             task'.at \notin {"parse", "begin"},
             task'.at \in {"mark", "end"} => task'.batch = <<>>,
             \A p \in Paths : tracks'[p].seen = tracks[p].seen
      PROVE  CountInv'
  BY <1>3, <1>8, StampedKept, CountKept, NumbersTyped DEF Alike, Waiting
<1>9. CASE Recv
  BY <1>2, <1>8, <1>9, AlikeTask, RecvTask DEF Counting, Working
<1>10. CASE Tally /\ ~Write(task.batch, "progress")
  BY <1>2, <1>8, <1>10, AlikeTask, TalliedTask DEF Counting, Working
<1>11. CASE Progress
  BY <1>2, <1>8, <1>11, AlikeTask, LateTask DEF Progress, Counting, Working
<1>12. CASE Join
  BY <1>2, <1>8, <1>12, AlikeTask, LateTask DEF Join, Counting, Working
<1>13. CASE Decide
  <2>1. task.at = "decide" /\ task.batch = <<>>
    BY <1>13 DEF Decide, EarlyInv, Working
  <2> QED
    BY <1>2, <1>8, <1>13, <2>1, AlikeTask, LateTask DEF Counting, Working
<1>14. CASE Mark
  <2>1. /\ task.at = "mark" /\ task'.at = "end" /\ task'.batch = task.batch
        /\ tracks' = [p \in Paths |-> IF Row(p) /\ tracks[p].seen # Job
                                      THEN [tracks[p] EXCEPT !.available = FALSE]
                                      ELSE tracks[p]]
    BY <1>2, <1>14, LateTask DEF Mark
  <2>2. \A p \in Paths : tracks'[p].seen = tracks[p].seen
    BY <2>1 DEF TypeInv, Rows
  <2>3. task.batch = <<>>
    BY <2>1 DEF CountInv
  <2> QED
    BY <1>2, <1>8, <1>14, <2>1, <2>2, <2>3, AlikeTask DEF Counting
<1>15. CASE End \/ Release
  BY <1>2, <1>15, EndedTask, LeavingTask DEF Over
<1> QED
  BY <1>4, <1>5, <1>6, <1>7, <1>9, <1>10, <1>11, <1>12, <1>13, <1>14, <1>15 DEF Task

LEMMA CountNext ==
  TypeInv /\ RowsInv /\ EarlyInv /\ ApartInv /\ CountInv /\ [Next]_vars => CountInv'
<1> SUFFICES ASSUME TypeInv, RowsInv, EarlyInv, ApartInv, CountInv, [Next]_vars PROVE CountInv'
  OBVIOUS
<1>1. CASE Crash \/ Restart
  BY <1>1, LeavingTask DEF CountInv, Working
<1>2. CASE Create
  <2>1. task'.at = "begin" /\ task'.scanned = 0 /\ task'.updated = 0 /\ task'.failed = 0
    BY <1>2 DEF Create, Idle
  <2> QED
    BY <2>1 DEF CountInv, Working
<1>3. CASE Cancel \/ (\E j \in Jobs : Pull(j) \/ Send(j)) \/ (\E p \in Paths : Edit(p))
           \/ UNCHANGED vars
  <2>1. UNCHANGED <<tracks, jobs, task>>
    BY <1>3 DEF Cancel, Pull, Send, Edit, vars
  <2>2. AllStamped' = AllStamped /\ Waiting' = Waiting
    BY <2>1 DEF AllStamped, Stamped, Waiting, Job
  <2> QED
    BY <2>1, <2>2 DEF CountInv
<1> QED
  BY <1>1, <1>2, <1>3, CountTask DEF Next

----------------------------------------------------------------------------
Finished(row) == row.state \in {"completed", "failed", "cancelled"}

\* The row of a finished scan agrees with the table until the next scan begins.
FinishedInv ==
    Job > 0 /\ Finished(jobs[Job]) =>
        Fits(Cardinality(AllStamped), jobs[Job].scanned, jobs[Job].updated, jobs[Job].failed)

LEMMA NothingFinished ==
  ASSUME TypeInv, StateInv, Job > 0, Finished(jobs[Job])
  PROVE  task.at \in Over
  BY DEF TypeInv, TaskOK, Tasks, StateInv, Finished, Over

LEMMA FinishedKept ==
  ASSUME FinishedInv, Job' = Job, UNCHANGED tracks,
         Job > 0 /\ Finished(jobs'[Job]) => jobs'[Job] = jobs[Job]
  PROVE  FinishedInv'
<1>1. AllStamped' = AllStamped
  BY StampedKept
<1> QED
  BY <1>1 DEF FinishedInv

LEMMA EndedRow ==
  ASSUME TypeInv, Job \in Jobs
  PROVE  \A state \in {"running", "completed", "failed", "cancelled"} :
           Alike([Counted EXCEPT ![Job].state = state][Job], task)
<1>1. /\ jobs \in Seq(JobRows) /\ Job \in 1 .. Len(jobs) /\ jobs[Job] \in JobRows
  BY DEF TypeInv, JobsOK, Job, Jobs
<1>r. PICK row : row = [jobs[Job] EXCEPT !.scanned = task.scanned, !.updated = task.updated,
                                         !.failed = task.failed]
  OBVIOUS
<1>2. Counted = [jobs EXCEPT ![Job] = row] /\ Counted[Job] = row
  <2>1. Counted = [jobs EXCEPT ![Job] = row]
    BY <1>1, <1>r DEF Counted
  <2> QED
    BY <1>1, <2>1
<1>3. Alike(Counted[Job], task) /\ Counted[Job] \in JobRows
  <2>1. task.scanned \in Nat /\ task.updated \in Nat /\ task.failed \in Nat
    BY NumbersTyped
  <2>2. /\ row \in JobRows
        /\ row.scanned = task.scanned /\ row.updated = task.updated /\ row.failed = task.failed
    BY <1>1, <1>r, <2>1 DEF JobRows
  <2>3. Alike(row, task)
    BY <2>2 DEF Alike
  <2> QED
    BY <1>2, <2>2, <2>3
<1>4. Counted \in Seq(JobRows) /\ Job \in 1 .. Len(Counted)
  <2>1. "running" \in {"running", "completed", "failed", "cancelled"}
    OBVIOUS
  <2>2. JobsOK(Counted) /\ Len(Counted) = Len(jobs)
    BY <2>1, CountedTyped, Zenon
  <2> QED
    BY <1>1, <2>2 DEF JobsOK
<1>5. ASSUME NEW state
      PROVE  [Counted EXCEPT ![Job].state = state][Job] = [Counted[Job] EXCEPT !.state = state]
  BY <1>4
<1>6. ASSUME NEW state, NEW last, last = [Counted[Job] EXCEPT !.state = state]
      PROVE  Alike(last, task)
  BY <1>3, <1>6 DEF Alike, JobRows
<1> QED
  BY <1>5, <1>6

LEMMA FinishedNext ==
  TypeInv /\ StateInv /\ StateInv' /\ CountInv /\ FinishedInv /\ TypeInv' /\ [Next]_vars
    => FinishedInv'
<1> SUFFICES ASSUME TypeInv, StateInv, StateInv', CountInv, FinishedInv, TypeInv', [Next]_vars
             PROVE  FinishedInv'
  OBVIOUS
<1>1. CASE Create
  BY <1>1, CreatedTask DEF FinishedInv, Finished
<1>2. CASE Crash \/ Restart
  <2>1. UNCHANGED tracks /\ Job' = Job
    BY <1>2, CreatedTask, LeavingTask, JobStays
  <2>2. CASE Crash
    BY <2>1, <2>2, FinishedKept DEF Crash
  <2>3. CASE Restart
    <3>1. ASSUME Job > 0, Finished(jobs'[Job]) PROVE jobs'[Job] = jobs[Job]
      <4>1. jobs \in Seq(JobRows) /\ Job \in 1 .. Len(jobs)
        BY <3>1 DEF TypeInv, JobsOK, Job
      <4>2. jobs'[Job] = IF Interruptible(jobs[Job].state)
                         THEN [jobs[Job] EXCEPT !.state = "interrupted"] ELSE jobs[Job]
        BY <2>3, <4>1 DEF Restart
      <4>3. jobs[Job] \in JobRows
        BY <4>1
      <4> QED
        BY <3>1, <4>2, <4>3 DEF Finished, JobRows
    <3> QED
      BY <2>1, <3>1, FinishedKept
  <2> QED
    BY <1>2, <2>2, <2>3
<1>3. CASE Cancel \/ (\E j \in Jobs : Pull(j) \/ Send(j)) \/ (\E p \in Paths : Edit(p))
           \/ UNCHANGED vars
  BY <1>3, FinishedKept DEF Cancel, Pull, Send, Edit, vars, Job
<1>4. CASE Task
  <2>1. Job' = Job /\ Job \in Jobs /\ task.at \notin {"idle", "down"}
    <3>1. task.at \notin {"idle", "down"}
      BY <1>4 DEF Task, Begin, Recv, Check, Parsed, ParseFailed, Tally, Progress, FinalFlush,
                  Join, Decide, Mark, End, Release
    <3> QED
      BY <3>1, JobStays, JobKnown DEF Create
  <2>2. CASE task'.at \notin Over
    <3>1. TypeInv' /\ StateInv' /\ task'.at \notin Over /\ Job' > 0
      BY <2>1, <2>2 DEF Jobs
    <3>2. ~Finished(jobs'[Job'])
      BY <3>1 DEF TypeInv, TaskOK, Tasks, StateInv, Finished, Over
    <3> QED
      BY <3>2 DEF FinishedInv
  <2>3. CASE Abort \/ Release
    BY <2>1, <2>3, AbortTask, LeavingTask, FinishedKept DEF Release
  <2>4. CASE End /\ ~Abort
    <3>1. /\ task.at = "end" /\ UNCHANGED tracks /\ task.batch = <<>> /\ AllStamped' = AllStamped
      BY <2>1, <2>4, EndedTask, StampedKept DEF CountInv
    <3>2. Alike(jobs'[Job], task)
      BY <2>1, <2>4, <3>1, EndedRow DEF End, TypeInv, TaskOK, Tasks
    <3>3. Waiting = 0
      BY <3>1 DEF Waiting
    <3>4. /\ Cardinality(AllStamped) \in Nat
          /\ Cardinality(AllStamped) + Waiting <= task.scanned
          /\ task.scanned <= Cardinality(AllStamped) + Waiting + task.failed
          /\ task.updated <= Cardinality(AllStamped)
      BY <3>1, FS_CardinalityType DEF CountInv
    <3>5. Fits(Cardinality(AllStamped), task.scanned, task.updated, task.failed)
      BY <3>3, <3>4 DEF Fits
    <3> QED
      BY <2>1, <3>1, <3>2, <3>5 DEF FinishedInv, Alike
  <2>5. CASE (Begin \/ Recv \/ Check \/ Parsed \/ ParseFailed) /\ ~Abort
    BY <2>2, <2>5, BegunTask, RecvTask, CheckedTask, ParsedTask, ParseFailedTask DEF Over
  <2>6. CASE Tally /\ ~Abort
    <3>1. CASE Write(task.batch, "progress")
      BY <2>2, <2>6, <3>1, WrittenTask DEF Tally, Over
    <3> QED
      BY <2>2, <2>6, <3>1, TalliedTask DEF Over
  <2>7. CASE FinalFlush /\ ~Abort
    BY <2>2, <2>7, WrittenTask DEF FinalFlush, LastBatch, Over
  <2>8. CASE (Progress \/ Join \/ Decide \/ Mark) /\ ~Abort
    BY <2>2, <2>8, LateTask DEF Progress, Join, Decide, Mark, Over
  <2> QED
    BY <1>4, <2>3, <2>4, <2>5, <2>6, <2>7, <2>8 DEF Task
<1> QED
  BY <1>1, <1>2, <1>3, <1>4 DEF Next

CountedInv == ScanInv /\ StateInv /\ ApartInv /\ CountInv /\ FinishedInv

LEMMA CountedInit == Init => CountedInv
<1> SUFFICES ASSUME Init PROVE CountedInv
  OBVIOUS
<1>1. task.at = "idle" /\ Job = 0
  BY DEF Init, Idle, Job
<1> QED
  BY <1>1, ScanInit DEF CountedInv, StateInv, Receiving, ApartInv, CountInv, FinishedInv,
     Working

LEMMA CountedNext == CountedInv /\ [Next]_vars => CountedInv'
<1> SUFFICES ASSUME CountedInv, [Next]_vars PROVE CountedInv'
  OBVIOUS
<1> USE DEF CountedInv
<1>1. ScanInv'
  BY ScanNext
<1>2. StateInv'
  BY StateNext DEF ScanInv
<1>3. ApartInv'
  BY ApartNext DEF ScanInv
<1>4. CountInv'
  BY CountNext DEF ScanInv, WalkInv
<1>5. FinishedInv'
  BY <1>1, <1>2, FinishedNext DEF ScanInv
<1> QED
  BY <1>1, <1>2, <1>3, <1>4, <1>5

\* Every file a finished scan counted is stamped in the table or counted as failed,
\* and no more rows were written than files counted: the continue past the flush
\* check, the last batch and the full batches lose no item and count none twice
\* (coordinator.rs:444).
THEOREM FilesAreAccounted == Spec => []EveryFileAccounted
<1>1. CountedInv => EveryFileAccounted
  <2> SUFFICES ASSUME CountedInv, LastState \in {"completed", "failed", "cancelled"}
               PROVE  EveryFileAccounted
    BY DEF EveryFileAccounted
  <2>1. Job > 0 /\ Finished(jobs[Job])
    <3>1. jobs \in Seq(JobRows)
      BY DEF CountedInv, ScanInv, TypeInv, JobsOK
    <3> QED
      BY <3>1 DEF LastState, Job, Finished
  <2>2. Fits(Cardinality(AllStamped), jobs[Job].scanned, jobs[Job].updated, jobs[Job].failed)
    BY <2>1 DEF CountedInv, FinishedInv
  <2>3. AllStamped = {p \in Paths : tracks[p].seen = Job}
    BY DEF AllStamped, Stamped
  <2> QED
    BY <2>2, <2>3 DEF EveryFileAccounted, Fits
<1> QED
  BY <1>1, CountedInit, CountedNext, PTL DEF Spec

=============================================================================
