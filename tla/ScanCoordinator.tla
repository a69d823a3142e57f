-------------------------- MODULE ScanCoordinator --------------------------
(***************************************************************************)
(* The scan coordinator: POST /api/v1/admin/scans (create_scan), POST      *)
(* /api/v1/admin/scans/{id}/cancel (cancel_scan), the background task that *)
(* ScanEnv::start spawns, and what is left after the process crashes.      *)
(*                                                                         *)
(* A create request is one handler future. It checks its session and root, *)
(* looks its idempotency key up, reserves the single in-memory slot,       *)
(* submits one transaction to the database's write thread, awaits the      *)
(* answer and starts the scan task. Other handlers, the write thread, the  *)
(* task and cancel requests interleave at every await and at every lock.   *)
(*                                                                         *)
(* The walk itself is one phase here ("scanning"); module ScanRun opens it.*)
(***************************************************************************)
EXTENDS Integers, Sequences, FiniteSets

CONSTANTS Requests,     \* create requests, each sent at most once
          Keys,         \* idempotency keys (user and Idempotency-Key header)
          Payloads,     \* what is hashed: root_id and force
          Bodies,       \* the pairs of key and payload clients send
          Cancels,      \* cancel requests, each sent at most once
          DedupLimit,   \* DEDUP_ROW_LIMIT
          Expiring,     \* bound: the keys whose 24 hours may run out
          MaxExpiries,  \* bound: how often they do
          MaxFaults,    \* bound: how many faults happen
          Faults,       \* the kinds of fault that may happen
          None          \* the absent flag, key or payload

(* drop  - the client disconnects and the handler future is dropped        *)
(* busy  - the write queue refuses the command synchronously               *)
(* db    - a database command fails                                        *)
(* crash - the process dies                                                *)
FaultKinds == {"drop", "busy", "db", "crash"}

ASSUME ConstantsOK ==
    /\ Bodies \subseteq [key : Keys, payload : Payloads]
    /\ None \notin Requests \cup Keys \cup Payloads
    /\ DedupLimit \in Nat \ {0}
    /\ Expiring \subseteq Keys /\ MaxExpiries \in Nat /\ MaxFaults \in Nat
    /\ Faults \subseteq FaultKinds

VARIABLES
    up,        \* the process is serving
    running,   \* ScanEnv.running: the slot
    cancel,    \* the AtomicBool that each reservation allocates
    body,      \* the key and payload of each request
    phase,     \* where a request's handler, then its scan task, stands
    write,     \* the request's write command, from submission to answer
    made,      \* the job id its transaction committed, 0 if none
    fin,       \* the final state its task decided on
    reply,     \* what the client of a create request was told
    jobs,      \* table scan_jobs, its row ids are 1, 2, ...
    dedup,     \* table request_dedup
    stops,     \* the cancel requests: sent, and the job id they hit or 0
    expiries,  \* how often each key's record expired
    faults,    \* how many faults happened
    promised   \* the job a live record held for a request when it arrived

tables == <<jobs, dedup, made>>
outside == <<stops, expiries>>
vars == <<up, running, cancel, body, phase, write, made, fin, reply, jobs,
          dedup, stops, expiries, faults, promised>>

----------------------------------------------------------------------------
(* Values *)

Ended == {"completed", "failed", "cancelled", "interrupted"}
JobStates == {"queued", "running"} \cup Ended

TaskPhases == {"spawned", "scanning", "marking", "ending", "releasing"}
\* The phases in which a handler or a task answers for the slot.
Holding == {"submit", "await"} \cup TaskPhases
Phases == {"new", "lookup", "reserve", "ask", "dropped", "end"} \cup Holding

WriteStates == {"none", "queued", "ok", "constraint", "failed"}
Codes == {"none", "accepted", "conflict", "running", "busy", "refused",
          "error", "gone"}

NoSlot  == [job |-> 0, cancel |-> None]
NoBody  == [key |-> None, payload |-> None]
NoRow   == [job |-> 0, payload |-> None, live |-> FALSE]
NoReply == [code |-> "none", job |-> 0]
NotSent == [sent |-> FALSE, hit |-> 0]

JobIds == 1 .. Len(jobs)
\* The ids a cancel request may carry: any i64, so also the placeholder -1
\* and the id of a job that does not exist yet.
CancelIds == {-1} \cup 1 .. Cardinality(Requests)

Fault(kind) == kind \in Faults /\ faults < MaxFaults /\ faults' = faults + 1
NoFault == UNCHANGED faults

----------------------------------------------------------------------------
(* ScanEnv: the slot, each operator one critical section of its mutex *)

\* try_reserve without its is_some check, a mutant.
SlotAlwaysFree == TRUE
SlotFree == running = NoSlot

Reservation(r) == [job |-> -1, cancel |-> r]

\* confirm_job forgotten, a mutant.
LeftUnconfirmed(j) == running
Confirmed(j) == IF running = NoSlot THEN running ELSE [running EXCEPT !.job = j]

\* running_job not filtering the placeholder -1 out, a mutant.
RunningJobRaw == running.job
RunningJob == IF running.job > 0 THEN running.job ELSE 0

\* ScanEnv::cancel raising the flag of whatever runs, a mutant.
HitsAnything(j) == running # NoSlot
Hits(j) == running # NoSlot /\ running.job = j

----------------------------------------------------------------------------
(* request_dedup *)

\* The table after "DELETE ... WHERE expires_at < now".
Purged == [k \in Keys |-> IF dedup[k].live THEN dedup[k] ELSE NoRow]
RowsIn(table) == Cardinality({k \in Keys : table[k].job # 0})

DedupFull == RowsIn(Purged) >= DedupLimit

\* PRIMARY KEY (user_id, key) missing, a mutant.
KeyNeverTaken(k) == FALSE
KeyTaken(k) == Purged[k].job # 0

SameHash(row, r) == row.payload = body[r].payload

----------------------------------------------------------------------------
Init ==
    /\ up = TRUE
    /\ running = NoSlot
    /\ cancel = [r \in Requests |-> FALSE]
    /\ body = [r \in Requests |-> NoBody]
    /\ phase = [r \in Requests |-> "new"]
    /\ write = [r \in Requests |-> "none"]
    /\ made = [r \in Requests |-> 0]
    /\ fin = [r \in Requests |-> "none"]
    /\ reply = [r \in Requests |-> NoReply]
    /\ jobs = <<>>
    /\ dedup = [k \in Keys |-> NoRow]
    /\ stops = [c \in Cancels |-> NotSent]
    /\ expiries = [k \in Keys |-> 0]
    /\ faults = 0
    /\ promised = [r \in Requests |-> 0]

Go(r, p) == phase' = [phase EXCEPT ![r] = p]
Tell(r, code, j) == reply' = [reply EXCEPT ![r] = [code |-> code, job |-> j]]

\* The handler returns: the client is told, the future is gone.
Answer(r, code, j) == Go(r, "end") /\ Tell(r, code, j)

----------------------------------------------------------------------------
(* create_scan *)

\* The request fails its session, CSRF, body, key or root checks.
Refuse(r) ==
    /\ up /\ phase[r] = "new"
    /\ Answer(r, "refused", 0)
    /\ UNCHANGED <<up, running, cancel, body, write, fin, tables, outside,
                   faults, promised>>

FirstAwait == "lookup"

\* Or it passes them and reaches lookup_dedup. History variable promised notes
\* whether its key already stands for a job created with the same payload.
Arrive(r) ==
    /\ up /\ phase[r] = "new"
    /\ \E b \in Bodies :
         /\ body' = [body EXCEPT ![r] = b]
         /\ promised' = [promised EXCEPT ![r] =
                LET row == dedup[b.key] IN
                IF row.live /\ row.payload = b.payload THEN row.job ELSE 0]
    /\ Go(r, FirstAwait)
    /\ UNCHANGED <<up, running, cancel, write, fin, reply, tables, outside, faults>>

\* lookup_dedup: replay, conflict, or go on; an expired record counts as none.
Lookup(r) ==
    /\ up /\ phase[r] = "lookup"
    /\ LET row == dedup[body[r].key] IN
       \/ Fault("db") /\ Answer(r, "error", 0)
       \/ /\ NoFault
          /\ \/ row.live /\ SameHash(row, r) /\ Answer(r, "accepted", row.job)
             \/ row.live /\ ~SameHash(row, r) /\ Answer(r, "conflict", 0)
             \/ ~row.live /\ Go(r, "reserve") /\ UNCHANGED reply
    /\ UNCHANGED <<up, running, cancel, body, write, fin, tables, outside, promised>>

\* try_reserve.
Reserve(r) ==
    /\ up /\ phase[r] = "reserve"
    /\ IF SlotFree THEN running' = Reservation(r) /\ Go(r, "submit")
                   ELSE UNCHANGED running /\ Go(r, "ask")
    /\ UNCHANGED <<up, cancel, body, write, fin, reply, tables, outside, faults,
                   promised>>

\* The slot was taken: running_job takes the lock a second time.
Ask(r) ==
    /\ up /\ phase[r] = "ask"
    /\ Answer(r, "running", RunningJob)
    /\ UNCHANGED <<up, running, cancel, body, write, fin, tables, outside, faults,
                   promised>>

\* submit_write. A synchronous refusal returns at once and keeps the slot.
Submit(r) ==
    /\ up /\ phase[r] = "submit"
    /\ \/ /\ NoFault
          /\ Go(r, "await") /\ UNCHANGED reply
          /\ write' = [write EXCEPT ![r] = "queued"]
       \/ Fault("busy") /\ Answer(r, "busy", 0) /\ UNCHANGED write
    /\ UNCHANGED <<up, running, cancel, body, fin, tables, outside, promised>>

\* The transaction commits: purge, scan_jobs row, request_dedup row.
Commit(r) ==
    LET j == Len(jobs) + 1 IN
    /\ jobs' = Append(jobs, [state |-> "queued", key |-> body[r].key,
                             payload |-> body[r].payload])
    /\ dedup' = [Purged EXCEPT ![body[r].key] =
           [job |-> j, payload |-> body[r].payload, live |-> TRUE]]
    /\ made' = [made EXCEPT ![r] = j]

\* The write thread takes the command. It skips one whose handler is gone;
\* otherwise the transaction commits, or rolls back on a full table, a key
\* already present, or a database error. A reservation admits one command at a
\* time, so the queue's order does not show here.
Execute(r) ==
    LET Outcome(o) == write' = [write EXCEPT ![r] = o] IN
    /\ up /\ write[r] = "queued"
    /\ \/ /\ phase[r] = "dropped" /\ NoFault
          /\ Outcome("none") /\ Go(r, "end") /\ UNCHANGED tables
       \/ /\ phase[r] = "await" /\ Fault("db")
          /\ Outcome("failed") /\ UNCHANGED <<phase, tables>>
       \/ /\ phase[r] = "await" /\ NoFault
          /\ UNCHANGED phase
          /\ \/ DedupFull /\ Outcome("failed") /\ UNCHANGED tables
             \/ ~DedupFull /\ KeyTaken(body[r].key) /\ Outcome("constraint")
                /\ UNCHANGED tables
             \/ ~DedupFull /\ ~KeyTaken(body[r].key) /\ Outcome("ok") /\ Commit(r)
    /\ UNCHANGED <<up, running, cancel, body, fin, reply, outside, promised>>

\* The handler is polled with the write thread's answer: start (confirm_job,
\* spawn) and 202, or release and an error.
Receive(r) ==
    /\ up /\ phase[r] = "await" /\ write[r] # "queued"
    /\ \/ /\ write[r] = "ok"
          /\ running' = Confirmed(made[r])
          /\ Go(r, "spawned") /\ Tell(r, "accepted", made[r])
       \/ write[r] = "constraint" /\ running' = NoSlot /\ Answer(r, "conflict", 0)
       \/ write[r] = "failed" /\ running' = NoSlot /\ Answer(r, "error", 0)
    /\ write' = [write EXCEPT ![r] = "none"]
    /\ UNCHANGED <<up, cancel, body, fin, tables, outside, faults, promised>>

\* The client disconnects while its handler is suspended; the future is dropped
\* and no destructor gives the slot back.
Disconnect(r) ==
    /\ up /\ phase[r] \in {"lookup", "await"} /\ Fault("drop")
    /\ IF write[r] = "queued"
       THEN Go(r, "dropped") /\ UNCHANGED write
       ELSE Go(r, "end") /\ write' = [write EXCEPT ![r] = "none"]
    /\ Tell(r, "gone", 0)
    /\ UNCHANGED <<up, running, cancel, body, fin, tables, outside, promised>>

----------------------------------------------------------------------------
(* The scan task: run_scan, then release *)

SetState(r, s) == jobs' = [jobs EXCEPT ![made[r]].state = s]
Settle(r, s) == fin' = [fin EXCEPT ![r] = s]

\* "?" on a database error: run_scan returns, the row keeps its state.
Abort(r) == Fault("db") /\ Go(r, "releasing") /\ UNCHANGED <<jobs, fin>>

StartRun(r) ==
    /\ up /\ phase[r] = "spawned"
    /\ \/ NoFault /\ SetState(r, "running") /\ Go(r, "scanning") /\ UNCHANGED fin
       \/ Abort(r)
    /\ UNCHANGED <<up, running, cancel, body, write, made, reply, dedup, outside,
                   promised>>

\* The walk is over: the flag is read once more and, with whether the walk saw
\* every directory, decides the final state.
Decide(r) ==
    /\ up /\ phase[r] = "scanning"
    /\ \/ /\ NoFault /\ UNCHANGED jobs
          /\ \/ cancel[r] /\ Settle(r, "cancelled") /\ Go(r, "ending")
             \/ ~cancel[r] /\ Settle(r, "failed") /\ Go(r, "ending")
             \/ ~cancel[r] /\ UNCHANGED fin /\ Go(r, "marking")
       \/ Abort(r)
    /\ UNCHANGED <<up, running, cancel, body, write, made, reply, dedup, outside,
                   promised>>

\* The complete walk marks the tracks it did not see unavailable.
Mark(r) ==
    /\ up /\ phase[r] = "marking"
    /\ \/ NoFault /\ Settle(r, "completed") /\ Go(r, "ending") /\ UNCHANGED jobs
       \/ Abort(r)
    /\ UNCHANGED <<up, running, cancel, body, write, made, reply, dedup, outside,
                   promised>>

Finish(r) ==
    /\ up /\ phase[r] = "ending"
    /\ \/ NoFault /\ SetState(r, fin[r]) /\ Go(r, "releasing") /\ UNCHANGED fin
       \/ Abort(r)
    /\ UNCHANGED <<up, running, cancel, body, write, made, reply, dedup, outside,
                   promised>>

\* release forgotten, a mutant.
SlotKept == running
SlotGivenBack == NoSlot

Release(r) ==
    /\ up /\ phase[r] = "releasing"
    /\ running' = SlotGivenBack
    /\ Go(r, "end") /\ Settle(r, "none")
    /\ UNCHANGED <<up, cancel, body, write, reply, tables, outside, faults, promised>>

----------------------------------------------------------------------------
(* cancel_scan, time, crashes *)

\* ScanEnv::cancel compares ids under the lock and raises the slot's flag. The
\* handler then only reads the row to say its state beside hit ("cancelling").
Cancel(c) ==
    /\ up /\ stops[c] = NotSent
    /\ \E j \in CancelIds :
         /\ stops' = [stops EXCEPT ![c] =
                [sent |-> TRUE, hit |-> IF Hits(j) THEN j ELSE 0]]
         /\ cancel' = IF Hits(j) THEN [cancel EXCEPT ![running.cancel] = TRUE]
                                 ELSE cancel
    /\ UNCHANGED <<up, running, body, phase, write, fin, reply, tables, expiries,
                   faults, promised>>

\* The 24 hours of a record run out.
Expire(k) ==
    /\ k \in Expiring /\ dedup[k].live /\ expiries[k] < MaxExpiries
    /\ dedup' = [dedup EXCEPT ![k].live = FALSE]
    /\ expiries' = [expiries EXCEPT ![k] = @ + 1]
    /\ UNCHANGED <<up, running, cancel, body, phase, write, made, fin, reply,
                   jobs, stops, faults, promised>>

\* The process dies: memory and queued commands are lost, the tables stay.
Crash ==
    /\ up /\ Fault("crash")
    /\ up' = FALSE
    /\ running' = NoSlot
    /\ phase' = [r \in Requests |-> IF phase[r] = "new" THEN "new" ELSE "end"]
    /\ write' = [r \in Requests |-> "none"]
    /\ fin' = [r \in Requests |-> "none"]
    /\ reply' = [r \in Requests |->
           IF phase[r] # "new" /\ reply[r] = NoReply
           THEN [code |-> "gone", job |-> 0] ELSE reply[r]]
    /\ UNCHANGED <<cancel, body, tables, outside, promised>>

\* The WHERE clause of mark_interrupted without 'queued', a mutant.
OnlyRunning(s) == s = "running"
Interruptible(s) == s \in {"queued", "running"}

\* serve: mark_interrupted runs before the listener is bound.
Restart ==
    /\ ~up
    /\ up' = TRUE
    /\ jobs' = [j \in JobIds |-> IF Interruptible(jobs[j].state)
                                 THEN [jobs[j] EXCEPT !.state = "interrupted"]
                                 ELSE jobs[j]]
    /\ UNCHANGED <<running, cancel, body, phase, write, made, fin, reply, dedup,
                   outside, faults, promised>>

----------------------------------------------------------------------------
Next ==
    \/ \E r \in Requests :
         \/ Refuse(r) \/ Arrive(r) \/ Lookup(r) \/ Reserve(r) \/ Ask(r)
         \/ Submit(r) \/ Execute(r) \/ Receive(r) \/ Disconnect(r)
         \/ StartRun(r) \/ Decide(r) \/ Mark(r) \/ Finish(r) \/ Release(r)
    \/ \E c \in Cancels : Cancel(c)
    \/ \E k \in Keys : Expire(k)
    \/ Crash
    \/ Restart

Spec == Init /\ [][Next]_vars

----------------------------------------------------------------------------
(* Properties *)

\* Every variable keeps the shape its code gives it.
TypeOK ==
    /\ up \in BOOLEAN
    /\ running \in [job : {-1} \cup Nat, cancel : Requests \cup {None}]
    /\ cancel \in [Requests -> BOOLEAN]
    /\ body \in [Requests -> Bodies \cup {NoBody}]
    /\ phase \in [Requests -> Phases]
    /\ write \in [Requests -> WriteStates]
    /\ made \in [Requests -> Nat]
    /\ fin \in [Requests -> Ended \cup {"none"}]
    /\ reply \in [Requests -> [code : Codes, job : Nat]]
    /\ jobs \in Seq([state : JobStates, key : Keys, payload : Payloads])
    /\ dedup \in [Keys -> [job : Nat, payload : Payloads \cup {None}, live : BOOLEAN]]
    /\ stops \in [Cancels -> [sent : BOOLEAN, hit : {-1} \cup Nat]]
    /\ expiries \in [Keys -> Nat]
    /\ faults \in Nat
    /\ promised \in [Requests -> Nat]

\* One scan at a time, counting from the reservation to the release: whatever
\* the interleaving of create requests, tasks and restarts, at most one of them
\* stands between try_reserve and release (coordinator.rs:4, 141).
AtMostOneScan ==
    \A r, s \in Requests : phase[r] \in Holding /\ phase[s] \in Holding => r = s

\* While a task runs, the slot carries its job id and the very flag it polls:
\* a cancel of that id reaches that task and no other (coordinator.rs:130).
SlotIsTheTasks ==
    \A r \in Requests : phase[r] \in TaskPhases =>
        running = [job |-> made[r], cancel |-> r]

\* A cancel that answered "cancelling: true" raised the flag of the request
\* whose transaction made that job, never one of a later scan.
CancelReachesItsJob ==
    \A c \in Cancels : stops[c].hit > 0 =>
        \E r \in Requests : made[r] = stops[c].hit /\ cancel[r]

\* A key creates one job per lifetime of its record, however often and however
\* concurrently the request is repeated, across crashes.
OneJobPerKey ==
    \A k \in Keys :
        Cardinality({j \in JobIds : jobs[j].key = k}) <= 1 + expiries[k]

\* A 202, fresh or replayed, names a job that exists and was created with the
\* key and the payload of the request it answers.
AnswerFitsRequest ==
    \A r \in Requests : reply[r].code = "accepted" =>
        /\ reply[r].job \in JobIds
        /\ jobs[reply[r].job].key = body[r].key
        /\ jobs[reply[r].job].payload = body[r].payload

\* A retry that arrives when its key already stands for a job is answered with
\* that job as long as the record lives: never "a scan is running", even while
\* that very scan is.
RetryGetsItsAnswer ==
    \A r \in Requests : promised[r] # 0 =>
        LET row == dedup[body[r].key] IN
        \/ ~row.live \/ row.job # promised[r]
        \/ reply[r].code \in {"none", "gone", "error"}
        \/ reply[r] = [code |-> "accepted", job |-> promised[r]]

\* Repeating a request is safe (coordinator.rs:787): one job per key, answers that
\* fit their requests, retries that get them, and in every interleaving a dedup
\* table within its limit.
Idempotent ==
    /\ OneJobPerKey /\ AnswerFitsRequest /\ RetryGetsItsAnswer
    /\ RowsIn(dedup) <= DedupLimit

\* The slot is lost in two ways only: to a create request that the write queue
\* refused, or whose client disconnected while it awaited the transaction.
SlotLossExplained ==
    running # NoSlot =>
        \/ phase[running.cancel] \in Holding
        \/ reply[running.cancel].code \in {"busy", "gone"}

\* What coordinator.rs:4 says of a refusal, "a scan is running": one is.
RefusedOnlyWhileScanning ==
    [][\A r \in Requests : phase[r] = "reserve" /\ phase'[r] = "ask" =>
         \E s \in Requests : phase[s] \in Holding]_vars

\* The row the service works on: committed, not yet left by handler or task.
ActiveJob ==
    LET Working == {r \in Requests : phase[r] \in Holding /\ made[r] # 0}
    IN IF Working = {} THEN 0 ELSE made[CHOOSE r \in Working : TRUE]

Lifecycle == INSTANCE ScanLifecycle WITH
    states <- [j \in JobIds |-> jobs[j].state],
    active <- ActiveJob,
    up <- up

\* The job table implements the abstract life of scan jobs.
ImplementsLifecycle == Lifecycle!Spec

============================================================================
