------------------------------ MODULE DbQueue ------------------------------
(***************************************************************************)
(* The database front: callers on the HTTP runtime put commands into       *)
(* bounded queues, one write thread and a few read threads take them out,  *)
(* run them on their own connections and answer over a oneshot channel.    *)
(* Callers may be dropped while they wait; close() stops accepting, lets   *)
(* the threads drain what was accepted and joins them.                     *)
(*                                                                         *)
(* What a command does to the tables is the business of the other modules; *)
(* here it takes effect or it does not.                                    *)
(***************************************************************************)
EXTENDS Integers, Sequences, FiniteSets

CONSTANTS Writes,        \* write commands, each sent at most once
          Reads,         \* read commands, each sent at most once
          Size,          \* payload bytes each write declares
          WriteCapacity, \* write_queue_capacity
          PayloadLimit,  \* write_payload_limit
          ReadThreads,   \* read_threads
          ReadCapacity,  \* read_queue_capacity
          None           \* an empty hand

ASSUME ConstantsOK ==
    /\ Size \in [Writes -> Nat]
    /\ WriteCapacity \in Nat /\ ReadCapacity \in Nat
    /\ PayloadLimit \in Nat /\ ReadThreads \in Nat \ {0}
    /\ Writes \cap Reads = {} /\ None \notin Writes \cup Reads

VARIABLES
    call,     \* where each command stands
    answer,   \* what its caller was told
    payload,  \* write_payload: the bytes reserved
    wqueue,   \* the write thread's queue
    writer,   \* the write thread
    log,      \* the writes that took effect, in order
    rqueue,   \* the read threads' queues
    reader,   \* the read threads
    next,     \* next_read, modulo the number of threads
    open,     \* which senders close() left
    closing   \* how far close() is

calls == <<call, answer>>
reading == <<rqueue, reader, next>>
writing == <<payload, wqueue, writer, log>>
vars == <<call, answer, payload, wqueue, writer, log, rqueue, reader, next, open,
          closing>>

Commands == Writes \cup Reads
Threads == 0 .. ReadThreads - 1
Answers == {"none", "toolarge", "full", "closed", "ok", "failed"}
Resting == [at |-> "recv", cmd |-> None, result |-> "none"]

Init ==
    /\ call = [c \in Commands |-> "new"]
    /\ answer = [c \in Commands |-> "none"]
    /\ payload = 0
    /\ wqueue = <<>> /\ writer = Resting /\ log = <<>>
    /\ rqueue = [t \in Threads |-> <<>>] /\ reader = [t \in Threads |-> Resting]
    /\ next = 0
    /\ open = [reads |-> TRUE, writes |-> TRUE]
    /\ closing = "no"

Go(c, phase) == call' = [call EXCEPT ![c] = phase]
Tell(c, a) == Go(c, "told") /\ answer' = [answer EXCEPT ![c] = a]

----------------------------------------------------------------------------
(* send_write *)

Fits(w) == payload + Size[w] <= PayloadLimit

\* The compare-exchange loop: one successful round, or the refusal.
ReserveBytes(w) ==
    /\ call[w] = "new"
    /\ \/ /\ Fits(w)
          /\ payload' = payload + Size[w]
          /\ Go(w, "reserved") /\ UNCHANGED answer
       \/ ~Fits(w) /\ Tell(w, "toolarge") /\ UNCHANGED payload
    /\ UNCHANGED <<wqueue, writer, log, reading, open, closing>>

\* try_send_write: the sender is gone, the queue is full, or it takes the command.
TrySend(w) ==
    /\ call[w] = "reserved"
    /\ IF ~open.writes
       THEN Go(w, "refused") /\ answer' = [answer EXCEPT ![w] = "closed"]
            /\ UNCHANGED wqueue
       ELSE IF Len(wqueue) >= WriteCapacity
       THEN Go(w, "refused") /\ answer' = [answer EXCEPT ![w] = "full"]
            /\ UNCHANGED wqueue
       ELSE Go(w, "waiting") /\ UNCHANGED answer
            /\ wqueue' = Append(wqueue, w)
    /\ UNCHANGED <<payload, writer, log, reading, open, closing>>

\* The reservation of a refused command not given back, a mutant.
NothingRefunded(w) == 0
Refund(w) == Size[w]

GiveBack(w) ==
    /\ call[w] = "refused"
    /\ payload' = payload - Refund(w)
    /\ Go(w, "told")
    /\ UNCHANGED <<answer, wqueue, writer, log, reading, open, closing>>

----------------------------------------------------------------------------
(* write_loop *)

\* The thread leaving as soon as the senders are gone, a mutant.
LeavesAtOnce == ~open.writes
Drained == wqueue = <<>> /\ ~open.writes

TakeWrite ==
    /\ writer.at = "recv" /\ wqueue # <<>>
    /\ writer' = [writer EXCEPT !.at = "taken", !.cmd = Head(wqueue)]
    /\ wqueue' = Tail(wqueue)
    /\ UNCHANGED <<calls, payload, log, reading, open, closing>>

\* The queued bytes are given back first, whatever becomes of the command.
Deduct ==
    /\ writer.at = "taken"
    /\ payload' = payload - Size[writer.cmd]
    /\ writer' = [writer EXCEPT !.at = "ready"]
    /\ UNCHANGED <<calls, wqueue, log, reading, open, closing>>

\* A failed command taking effect, a transaction without rollback, a mutant.
KeepsEffect(result) == TRUE
TakesEffect(result) == result = "ok"

\* reply.is_closed: skipped unrun; else the closure runs to commit or rollback.
RunWrite ==
    LET w == writer.cmd IN
    /\ writer.at = "ready"
    /\ \/ /\ call[w] = "gone"
          /\ writer' = Resting /\ UNCHANGED log
       \/ /\ call[w] # "gone"
          /\ \E result \in {"ok", "failed"} :
               /\ writer' = [writer EXCEPT !.at = "reply", !.result = result]
               /\ log' = IF TakesEffect(result) THEN Append(log, w) ELSE log
    /\ UNCHANGED <<calls, payload, wqueue, reading, open, closing>>

\* reply.send reaches the caller unless it was dropped meanwhile.
Deliver(c, result) ==
    IF call[c] = "gone" THEN UNCHANGED calls ELSE Tell(c, result)

ReplyWrite ==
    /\ writer.at = "reply"
    /\ Deliver(writer.cmd, writer.result)
    /\ writer' = Resting
    /\ UNCHANGED <<payload, wqueue, log, reading, open, closing>>

StopWriter ==
    /\ writer.at = "recv" /\ Drained
    /\ writer' = [writer EXCEPT !.at = "exited"]
    /\ UNCHANGED <<calls, payload, wqueue, log, reading, open, closing>>

----------------------------------------------------------------------------
(* send_read and read_loop *)

RoomIn(t) == Len(rqueue[t]) < ReadCapacity

\* The queue tried at an offset of the loop.
Turn(i) == (next + i) % ReadThreads

\* The offsets at which the queue takes the command.
Accepting == {i \in 0 .. ReadThreads - 1 : open.reads /\ RoomIn(Turn(i))}

\* The first offset that takes it, all under one lock. No room and no sender look
\* alike to the caller.
SendRead(r) ==
    /\ call[r] = "new"
    /\ next' = (next + 1) % ReadThreads
    /\ IF Accepting = {}
       THEN Tell(r, "full") /\ UNCHANGED rqueue
       ELSE LET i == CHOOSE j \in Accepting : \A k \in Accepting : j <= k
            IN Go(r, "waiting") /\ UNCHANGED answer
               /\ rqueue' = [rqueue EXCEPT ![Turn(i)] = Append(@, r)]
    /\ UNCHANGED <<reader, writing, open, closing>>

TakeRead(t) ==
    /\ reader[t].at = "recv" /\ rqueue[t] # <<>>
    /\ reader' = [reader EXCEPT ![t].at = "ready", ![t].cmd = Head(rqueue[t])]
    /\ rqueue' = [rqueue EXCEPT ![t] = Tail(@)]
    /\ UNCHANGED <<calls, next, writing, open, closing>>

\* A dropped caller's query is skipped; a query that outlives its budget is
\* interrupted and fails.
RunRead(t) ==
    LET r == reader[t].cmd IN
    /\ reader[t].at = "ready"
    /\ \/ call[r] = "gone" /\ reader' = [reader EXCEPT ![t] = Resting]
       \/ /\ call[r] # "gone"
          /\ \E result \in {"ok", "failed"} :
               reader' = [reader EXCEPT ![t].at = "reply", ![t].result = result]
    /\ UNCHANGED <<calls, rqueue, next, writing, open, closing>>

ReplyRead(t) ==
    /\ reader[t].at = "reply"
    /\ Deliver(reader[t].cmd, reader[t].result)
    /\ reader' = [reader EXCEPT ![t] = Resting]
    /\ UNCHANGED <<rqueue, next, writing, open, closing>>

StopReader(t) ==
    /\ reader[t].at = "recv" /\ rqueue[t] = <<>> /\ ~open.reads
    /\ reader' = [reader EXCEPT ![t].at = "exited"]
    /\ UNCHANGED <<calls, rqueue, next, writing, open, closing>>

----------------------------------------------------------------------------
(* Dropped callers, close *)

Drop(c) ==
    /\ call[c] = "waiting"
    /\ Go(c, "gone")
    /\ UNCHANGED <<answer, writing, reading, open, closing>>

AllClosed == [reads |-> FALSE, writes |-> FALSE]

\* close_senders drops the read senders, then the write sender.
Close ==
    /\ \/ /\ closing = "no" /\ closing' = "half"
          /\ open' = [open EXCEPT !.reads = FALSE]
       \/ /\ closing = "half" /\ closing' = "joining"
          /\ open' = AllClosed
    /\ UNCHANGED <<calls, writing, reading>>

\* join_handles: every thread has returned.
Joined ==
    /\ closing = "joining"
    /\ writer.at = "exited" /\ \A t \in Threads : reader[t].at = "exited"
    /\ closing' = "closed"
    /\ UNCHANGED <<calls, writing, reading, open>>

----------------------------------------------------------------------------
Caller(w) == ReserveBytes(w) \/ TrySend(w) \/ GiveBack(w)
Writer == TakeWrite \/ Deduct \/ RunWrite \/ ReplyWrite \/ StopWriter
Reader(t) == TakeRead(t) \/ RunRead(t) \/ ReplyRead(t) \/ StopReader(t)

Next ==
    \/ \E w \in Writes : Caller(w)
    \/ \E r \in Reads : SendRead(r)
    \/ Writer
    \/ \E t \in Threads : Reader(t)
    \/ \E c \in Commands : Drop(c)
    \/ Close \/ Joined

\* Threads are scheduled and statements end; a caller inside send_write is not
\* suspended; a close that began goes on. Nobody has to send, drop or close.
Spec == Init /\ [][Next]_vars
Fairness ==
    /\ WF_vars(Writer) /\ \A t \in Threads : WF_vars(Reader(t))
    /\ \A w \in Writes : WF_vars(call[w] # "new" /\ Caller(w))
    /\ WF_vars(closing # "no" /\ Close) /\ WF_vars(Joined)
FairSpec == Spec /\ Fairness

----------------------------------------------------------------------------
(* Properties *)

Hands(at) == [at : at, cmd : Commands \cup {None}, result : Answers]

\* Every variable keeps its shape; the queues and the queued bytes keep their
\* limits (02:119-120), and the unsigned byte counter never wraps.
TypeOK ==
    /\ call \in [Commands -> {"new", "reserved", "refused", "waiting", "told", "gone"}]
    /\ answer \in [Commands -> Answers]
    /\ payload \in 0 .. PayloadLimit
    /\ wqueue \in Seq(Writes) /\ Len(wqueue) <= WriteCapacity
    /\ writer \in Hands({"recv", "taken", "ready", "reply", "exited"})
    /\ log \in Seq(Writes)
    /\ rqueue \in [Threads -> Seq(Reads)]
    /\ \A t \in Threads : Len(rqueue[t]) <= ReadCapacity
    /\ reader \in [Threads -> Hands({"recv", "ready", "reply", "exited"})]
    /\ next \in Threads
    /\ open \in [reads : BOOLEAN, writes : BOOLEAN]
    /\ closing \in {"no", "half", "joining", "closed"}

Queued == {wqueue[i] : i \in DOMAIN wqueue}
Reserving == {w \in Writes : call[w] \in {"reserved", "refused"}}
InTransit == IF writer.at = "taken" THEN {writer.cmd} ELSE {}

InFlight == Queued \cup Reserving \cup InTransit

\* The bytes of some writes, one by one.
BytesOf(writes) == UNION {{w} \X (1 .. Size[w]) : w \in writes}

\* The byte counter counts the bytes that are queued or on their way in or out,
\* within the limits of TypeOK: no refusal, dropped caller or shutdown leaks bytes
\* until writes are refused for good (db/mod.rs:258).
PayloadExact == TypeOK /\ payload = Cardinality(BytesOf(InFlight))

\* What callers are told is what happened: "ok" after the write took effect, any
\* error only if it never will, and no write takes effect twice.
OutcomeTruthful ==
    \A w \in Writes :
        LET runs == {i \in DOMAIN log : log[i] = w} IN
        /\ Cardinality(runs) <= 1
        /\ answer[w] = "ok" => runs # {}
        /\ answer[w] \notin {"none", "ok"} => runs = {}

\* A read is refused only when every read queue is full, or closed: from whatever
\* turn, the offsets of the round robin come to every queue (db/mod.rs:235).
ReadsFindRoom ==
    [][\A r \in Reads : answer[r] = "none" /\ answer'[r] = "full" =>
         ~open.reads \/ \A t \in Threads : Len(rqueue[t]) = ReadCapacity]_vars

\* Every accepted command is answered, or its caller is gone, also when close
\* comes in between; and close() returns: the threads drain and leave, whatever
\* was queued.
AcceptedAnswered ==
    /\ \A c \in Commands : (call[c] = "waiting") ~> (call[c] \in {"told", "gone"})
    /\ (closing = "half") ~> (closing = "closed")

============================================================================
