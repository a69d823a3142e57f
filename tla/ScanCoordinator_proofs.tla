----------------------- MODULE ScanCoordinator_proofs -----------------------
(***************************************************************************)
(* Theorems about the scan coordinator, for any number of requests, keys   *)
(* and cancels, any dedup limit and any faults. The invariant is built in  *)
(* layers, each proved from the ones before: types; the slot names its     *)
(* holder; ids are committed once and cancels hit their own; a row is as   *)
(* far as the task that works on it; a dedup record stands for a job of    *)
(* its key; an answer fits its request and the promise it met.             *)
(***************************************************************************)
EXTENDS ScanCoordinator, SequenceTheorems, FiniteSetTheorems, TLAPS

----------------------------------------------------------------------------
(* Type correctness *)

Fresh == {"new", "lookup", "reserve", "ask", "submit"}

\* TypeOK is not inductive: that a committed row has a key and a finished one a
\* final state comes from what a request went through before.
BodyKnown ==
    \A r \in Requests :
        phase[r] \in {"lookup", "reserve", "ask"} \cup Holding => body[r] \in Bodies
FinKnown == \A r \in Requests : phase[r] = "ending" => fin[r] \in Ended

TypeInv == TypeOK /\ BodyKnown /\ FinKnown

JobRecord == [state : JobStates, key : Keys, payload : Payloads]

LEMMA FunctionIsSeq ==
    ASSUME NEW S, NEW n \in Nat, NEW f \in [1 .. n -> S]
    PROVE  f \in Seq(S)
  BY SeqDef

\* Writing one row's state keeps the job table a job table.
LEMMA RowUpdateTyped ==
    ASSUME NEW table \in Seq(JobRecord), NEW i, NEW s \in JobStates
    PROVE  [table EXCEPT ![i].state = s] \in Seq(JobRecord)
<1>1. /\ table \in [1 .. Len(table) -> JobRecord]
      /\ Len(table) \in Nat
  BY LenProperties
<1>2. [table EXCEPT ![i].state = s] \in [1 .. Len(table) -> JobRecord]
  BY <1>1 DEF JobRecord
<1> QED
  BY <1>1, <1>2, FunctionIsSeq

LEMMA FaultsCounted ==
    ASSUME NEW kind, faults \in Nat, Fault(kind)
    PROVE  faults' \in Nat
  BY DEF Fault

LEMMA TypeInit == Init => TypeInv
  BY ConstantsOK
  DEF Init, TypeInv, TypeOK, BodyKnown, FinKnown, Holding, TaskPhases, Phases,
      WriteStates, Codes, NoSlot, NoBody, NoRow, NoReply, NotSent, Ended

LEMMA TypeNext == TypeInv /\ [Next]_vars => TypeInv'
<1> SUFFICES ASSUME TypeInv, [Next]_vars PROVE TypeInv'
  OBVIOUS
<1> USE ConstantsOK DEF TypeInv, TypeOK, BodyKnown, FinKnown, Holding,
        TaskPhases, Phases, Codes, Go, Tell, Answer, Fault, NoFault, tables, outside
<1>1. ASSUME NEW r \in Requests, Refuse(r) PROVE TypeInv'
  BY <1>1, SMTT(40) DEF Refuse
<1>2. ASSUME NEW r \in Requests, Arrive(r) PROVE TypeInv'
  BY <1>2 DEF Arrive, FirstAwait
<1>3. ASSUME NEW r \in Requests, Lookup(r) PROVE TypeInv'
  <2> DEFINE row == dedup[body[r].key]
  <2>1. body[r] \in Bodies /\ row.job \in Nat
    BY <1>3 DEF Lookup
  <2>2. CASE Answer(r, "error", 0)
    BY <1>3, <2>2 DEF Lookup
  <2>3. CASE Answer(r, "accepted", row.job) /\ NoFault
    BY <1>3, <2>1, <2>3 DEF Lookup
  <2>4. CASE Answer(r, "conflict", 0) /\ NoFault
    BY <1>3, <2>4 DEF Lookup
  <2>5. CASE Go(r, "reserve") /\ UNCHANGED reply /\ NoFault
    BY <1>3, <2>1, <2>5 DEF Lookup
  <2> QED
    BY <1>3, <2>2, <2>3, <2>4, <2>5 DEF Lookup
<1>4. ASSUME NEW r \in Requests, Reserve(r) PROVE TypeInv'
  <2>1. CASE running' = Reservation(r) /\ Go(r, "submit")
    BY <1>4, <2>1 DEF Reserve, Reservation
  <2>2. CASE UNCHANGED running /\ Go(r, "ask")
    BY <1>4, <2>2 DEF Reserve
  <2> QED
    BY <1>4, <2>1, <2>2 DEF Reserve
<1>5. ASSUME NEW r \in Requests, Ask(r) PROVE TypeInv'
  BY <1>5 DEF Ask, RunningJob
<1>6. ASSUME NEW r \in Requests, Submit(r) PROVE TypeInv'
  <2>1. CASE /\ Go(r, "await") /\ UNCHANGED reply /\ NoFault
             /\ write' = [write EXCEPT ![r] = "queued"]
    BY <1>6, <2>1 DEF Submit, WriteStates
  <2>2. CASE Fault("busy") /\ Answer(r, "busy", 0) /\ UNCHANGED write
    BY <1>6, <2>2 DEF Submit
  <2> QED
    BY <1>6, <2>1, <2>2 DEF Submit
<1>7. ASSUME NEW r \in Requests, Execute(r) PROVE TypeInv'
  <2>1. write' \in [Requests -> WriteStates] /\ UNCHANGED <<up, running, cancel,
           body, fin, reply, stops, expiries, promised>>
    BY <1>7 DEF Execute, WriteStates
  <2>2. CASE Go(r, "end") /\ UNCHANGED tables /\ NoFault
    BY <2>1, <2>2
  <2>3. CASE UNCHANGED <<phase, tables>> /\ faults' \in Nat
    BY <2>1, <2>3
  <2>4. CASE Commit(r) /\ UNCHANGED phase /\ NoFault /\ phase[r] = "await"
    <3> DEFINE new == [state |-> "queued", key |-> body[r].key,
                       payload |-> body[r].payload]
    <3>1. body[r] \in [key : Keys, payload : Payloads]
      BY <2>4
    <3>2. new \in [state : JobStates, key : Keys, payload : Payloads]
      BY <3>1 DEF JobStates
    <3>3. jobs' \in Seq([state : JobStates, key : Keys, payload : Payloads])
      BY <2>4, <3>2 DEF Commit
    <3>4. Len(jobs) + 1 \in Nat
      BY LenProperties
    <3>5. Purged \in [Keys -> [job : Nat, payload : Payloads \cup {None},
                               live : BOOLEAN]]
      BY DEF Purged, NoRow
    <3>6. dedup' \in [Keys -> [job : Nat, payload : Payloads \cup {None},
                              live : BOOLEAN]]
      BY <2>4, <3>1, <3>4, <3>5 DEF Commit
    <3>7. made' \in [Requests -> Nat]
      BY <2>4, <3>4 DEF Commit
    <3> QED
      BY <2>1, <2>4, <3>3, <3>6, <3>7
  <2> QED
    <3>1. faults' \in Nat
      BY <1>7 DEF Execute
    <3> QED
      BY <1>7, <2>2, <2>3, <2>4, <3>1 DEF Execute
<1>8. ASSUME NEW r \in Requests, Receive(r) PROVE TypeInv'
  <2>1. /\ write' \in [Requests -> WriteStates]
        /\ UNCHANGED <<up, cancel, body, fin, jobs, dedup, made, stops, expiries,
                       faults, promised>>
        /\ phase[r] = "await"
    BY <1>8 DEF Receive, WriteStates
  <2>2. CASE /\ running' = Confirmed(made[r])
             /\ Go(r, "spawned") /\ Tell(r, "accepted", made[r])
    <3>1. running' \in [job : {-1} \cup Nat, cancel : Requests \cup {None}]
      BY <2>2 DEF Confirmed
    <3> QED
      BY <2>1, <2>2, <3>1
  <2>3. CASE running' = NoSlot /\ Answer(r, "conflict", 0)
    BY <2>1, <2>3 DEF NoSlot
  <2>4. CASE running' = NoSlot /\ Answer(r, "error", 0)
    BY <2>1, <2>4 DEF NoSlot
  <2> QED
    BY <1>8, <2>2, <2>3, <2>4 DEF Receive
<1>9. ASSUME NEW r \in Requests, Disconnect(r) PROVE TypeInv'
  <2>0. write' \in [Requests -> WriteStates]
    <3>1. CASE UNCHANGED write
      BY <3>1
    <3>2. CASE write' = [write EXCEPT ![r] = "none"]
      BY <3>2 DEF WriteStates
    <3> QED
      BY <1>9, <3>1, <3>2 DEF Disconnect
  <2>1. /\ phase[r] \in {"lookup", "await"} /\ faults' \in Nat
        /\ UNCHANGED <<up, running, cancel, body, fin, jobs, dedup, made, stops,
                       expiries, promised>>
        /\ Tell(r, "gone", 0)
    BY <1>9 DEF Disconnect
  <2>2. CASE Go(r, "dropped")
    BY <2>0, <2>1, <2>2
  <2>3. CASE Go(r, "end")
    BY <2>0, <2>1, <2>3
  <2> QED
    BY <1>9, <2>2, <2>3 DEF Disconnect
<1>a. ASSUME NEW r \in Requests, Abort(r), phase[r] \in Holding,
             UNCHANGED <<up, running, cancel, body, write, made, reply, dedup,
                         outside, promised>>
      PROVE  TypeInv'
  BY <1>a DEF Abort
<1>b. ASSUME NEW r \in Requests, NEW p \in Phases \ {"ending"}, NEW s \in JobStates,
             SetState(r, s), Go(r, p), phase[r] \in Holding, NoFault,
             UNCHANGED <<up, running, cancel, body, write, made, reply, fin, dedup,
                         outside, promised>>
      PROVE  TypeInv'
  <2>1. jobs' \in Seq(JobRecord)
    BY <1>b, RowUpdateTyped DEF SetState, JobRecord
  <2> QED
    BY <1>b, <2>1 DEF JobRecord
<1>10. ASSUME NEW r \in Requests, StartRun(r) PROVE TypeInv'
  BY <1>a, <1>b, <1>10 DEF StartRun, JobStates
<1>c. ASSUME NEW r \in Requests, phase[r] \in Holding, NoFault, UNCHANGED jobs,
             \/ Go(r, "marking") /\ UNCHANGED fin
             \/ Go(r, "ending") /\ \E s \in Ended : Settle(r, s),
             UNCHANGED <<up, running, cancel, body, write, made, reply, dedup,
                         outside, promised>>
      PROVE  TypeInv'
  <2>1. CASE Go(r, "marking") /\ UNCHANGED fin
    BY <1>c, <2>1
  <2>2. ASSUME NEW s \in Ended, Go(r, "ending"), Settle(r, s) PROVE TypeInv'
    BY <1>c, <2>2 DEF Settle
  <2> QED
    BY <1>c, <2>1, <2>2
<1>11. ASSUME NEW r \in Requests, Decide(r) PROVE TypeInv'
  BY <1>a, <1>c, <1>11 DEF Decide, Ended
<1>12. ASSUME NEW r \in Requests, Mark(r) PROVE TypeInv'
  BY <1>a, <1>c, <1>12 DEF Mark, Ended
<1>13. ASSUME NEW r \in Requests, Finish(r) PROVE TypeInv'
  BY <1>a, <1>b, <1>13 DEF Finish, JobStates
<1>14. ASSUME NEW r \in Requests, Release(r) PROVE TypeInv'
  BY <1>14 DEF Release, SlotGivenBack, NoSlot, Settle
<1>15. ASSUME NEW c \in Cancels, Cancel(c) PROVE TypeInv'
  <2>1. PICK j \in CancelIds :
           /\ stops' = [stops EXCEPT ![c] =
                  [sent |-> TRUE, hit |-> IF Hits(j) THEN j ELSE 0]]
           /\ cancel' = IF Hits(j) THEN [cancel EXCEPT ![running.cancel] = TRUE]
                                   ELSE cancel
    BY <1>15 DEF Cancel
  <2>2. stops' \in [Cancels -> [sent : BOOLEAN, hit : {-1} \cup Nat]]
    BY <2>1 DEF CancelIds
  <2>3. cancel' \in [Requests -> BOOLEAN]
    BY <2>1
  <2> QED
    BY <1>15, <2>2, <2>3 DEF Cancel
<1>16. ASSUME NEW k \in Keys, Expire(k) PROVE TypeInv'
  <2>1. dedup' \in [Keys -> [job : Nat, payload : Payloads \cup {None},
                            live : BOOLEAN]]
    <3>1. [dedup[k] EXCEPT !.live = FALSE] \in
              [job : Nat, payload : Payloads \cup {None}, live : BOOLEAN]
      <4>1. dedup[k] \in [job : Nat, payload : Payloads \cup {None}, live : BOOLEAN]
        OBVIOUS
      <4> QED
        BY <4>1, Zenon
    <3> QED
      BY <1>16, <3>1 DEF Expire
  <2>2. expiries' \in [Keys -> Nat]
    BY <1>16 DEF Expire
  <2> QED
    BY <1>16, <2>1, <2>2 DEF Expire
<1>17. CASE Crash
  <2>1. phase' \in [Requests -> {"new", "end"}]
    BY <1>17 DEF Crash
  <2>2. reply' \in [Requests -> [code : Codes, job : Nat]]
    BY <1>17 DEF Crash
  <2>3. /\ write' \in [Requests -> WriteStates]
        /\ fin' \in [Requests -> Ended \cup {"none"}]
    BY <1>17 DEF Crash, WriteStates
  <2>4. running' \in [job : {-1} \cup Nat, cancel : Requests \cup {None}]
    BY <1>17 DEF Crash, NoSlot
  <2>5. up' \in BOOLEAN
    BY <1>17 DEF Crash
  <2>6. faults' \in Nat
    BY <1>17, FaultsCounted DEF Crash
  <2> QED
    BY <1>17, <2>1, <2>2, <2>3, <2>4, <2>5, <2>6 DEF Crash
<1>18. CASE Restart
  <2>1. jobs' \in Seq(JobRecord)
    <3>1. ASSUME NEW j \in JobIds
          PROVE  (IF Interruptible(jobs[j].state)
                  THEN [jobs[j] EXCEPT !.state = "interrupted"]
                  ELSE jobs[j]) \in JobRecord
      <4>1. jobs[j] \in JobRecord
        BY ElementOfSeq DEF JobIds, JobRecord
      <4> QED
        BY <4>1 DEF JobRecord, JobStates, Ended
    <3>2. Len(jobs) \in Nat
      BY LenProperties
    <3>3. jobs' \in [1 .. Len(jobs) -> JobRecord]
      BY <1>18, <3>1 DEF Restart, JobIds
    <3> QED
      BY <3>2, <3>3, FunctionIsSeq
  <2> QED
    BY <1>18, <2>1 DEF Restart, JobRecord
<1>19. CASE UNCHANGED vars
  BY <1>19 DEF vars
<1> QED
  BY <1>1, <1>2, <1>3, <1>4, <1>5, <1>6, <1>7, <1>8, <1>9, <1>10, <1>11, <1>12,
     <1>13, <1>14, <1>15, <1>16, <1>17, <1>18, <1>19 DEF Next

\* Every variable keeps its shape in every reachable state.
THEOREM TypeCorrect == Spec => []TypeOK
<1>1. TypeInv => TypeOK
  BY DEF TypeInv
<1> QED
  BY TypeInit, TypeNext, <1>1, PTL DEF Spec

----------------------------------------------------------------------------
(* One scan at a time *)

\* AtMostOneScan is not inductive either: two requests cannot hold the slot at
\* once because the slot names its holder.
HolderNamed == \A r \in Requests : phase[r] \in Holding => running.cancel = r
Placeholder == \A r \in Requests : phase[r] \in {"submit", "await"} => running.job = -1
JobNamed == \A r \in Requests : phase[r] \in TaskPhases => running.job = made[r]
EmptySlot == running.cancel = None => running = NoSlot

SlotInv == HolderNamed /\ Placeholder /\ JobNamed /\ EmptySlot

LEMMA SlotInit == Init => SlotInv
  BY DEF Init, SlotInv, HolderNamed, Placeholder, JobNamed, EmptySlot, Holding,
         TaskPhases, NoSlot

LEMMA SlotNext == TypeInv /\ SlotInv /\ [Next]_vars => SlotInv'
<1> SUFFICES ASSUME TypeInv, SlotInv, [Next]_vars PROVE SlotInv'
  OBVIOUS
<1>t. /\ running \in [job : {-1} \cup Nat, cancel : Requests \cup {None}]
      /\ phase \in [Requests -> Phases] /\ made \in [Requests -> Nat]
      /\ None \notin Requests
  BY ConstantsOK DEF TypeInv, TypeOK
<1> USE <1>t DEF SlotInv, HolderNamed, Placeholder, JobNamed, EmptySlot, Holding,
        TaskPhases, Go, Answer, tables
\* A request that holds nothing stays so, or one that does leaves or goes on,
\* while slot and job id stand.
<1>a. ASSUME NEW r \in Requests, NEW p, Go(r, p), UNCHANGED <<running, made>>,
             \/ p \notin Holding
             \/ p \in TaskPhases /\ phase[r] \in TaskPhases
             \/ p = "await" /\ phase[r] = "submit"
      PROVE  SlotInv'
  BY <1>a
\* The holder leaves and the slot is emptied.
<1>b. ASSUME NEW r \in Requests, phase[r] \in Holding, Go(r, "end"),
             running' = NoSlot, UNCHANGED made
      PROVE  SlotInv'
  BY <1>b DEF NoSlot
<1>1. ASSUME NEW r \in Requests, Refuse(r) \/ Arrive(r) \/ Lookup(r) \/ Ask(r)
      PROVE  SlotInv'
  BY <1>1, <1>a DEF Refuse, Arrive, Lookup, Ask, FirstAwait
<1>2. ASSUME NEW r \in Requests, Reserve(r) PROVE SlotInv'
  <2>1. CASE SlotFree /\ running' = Reservation(r) /\ Go(r, "submit")
    BY <1>2, <2>1 DEF Reserve, SlotFree, Reservation, NoSlot
  <2>2. CASE UNCHANGED running /\ Go(r, "ask")
    BY <1>2, <2>2, <1>a DEF Reserve
  <2> QED
    BY <1>2, <2>1, <2>2 DEF Reserve
<1>3. ASSUME NEW r \in Requests, Submit(r) \/ Disconnect(r) PROVE SlotInv'
  BY <1>3, <1>a DEF Submit, Disconnect
<1>4. ASSUME NEW r \in Requests, Execute(r) PROVE SlotInv'
  <2>1. CASE Go(r, "end") /\ UNCHANGED tables
    BY <1>4, <2>1, <1>a DEF Execute
  <2>2. CASE UNCHANGED <<phase, tables>>
    BY <1>4, <2>2 DEF Execute
  <2>3. CASE phase[r] = "await" /\ Commit(r) /\ UNCHANGED phase
    BY <1>4, <2>3 DEF Execute, Commit
  <2> QED
    BY <1>4, <2>1, <2>2, <2>3 DEF Execute
<1>5. ASSUME NEW r \in Requests, Receive(r) PROVE SlotInv'
  <2>1. CASE running' = Confirmed(made[r]) /\ Go(r, "spawned")
    BY <1>5, <2>1 DEF Receive, Confirmed, NoSlot
  <2>2. CASE running' = NoSlot /\ Go(r, "end")
    BY <1>5, <2>2, <1>b DEF Receive
  <2> QED
    BY <1>5, <2>1, <2>2 DEF Receive
<1>6. ASSUME NEW r \in Requests, StartRun(r) \/ Decide(r) \/ Mark(r) \/ Finish(r)
      PROVE  SlotInv'
  BY <1>6, <1>a DEF StartRun, Decide, Mark, Finish, Abort
<1>7. ASSUME NEW r \in Requests, Release(r) PROVE SlotInv'
  BY <1>7, <1>b DEF Release, SlotGivenBack
<1>8. CASE Crash
  BY <1>8 DEF Crash, NoSlot
<1>9. CASE UNCHANGED <<running, phase, made>>
  BY <1>9
<1> QED
  BY <1>1, <1>2, <1>3, <1>4, <1>5, <1>6, <1>7, <1>8, <1>9
  DEF Next, Cancel, Expire, Restart, vars

\* The invariants of both kinds, of every reachable state.
LEMMA SlotAlways == Spec => [](TypeInv /\ SlotInv)
  BY TypeInit, TypeNext, SlotInit, SlotNext, PTL DEF Spec

\* At most one request or task stands between try_reserve and release, for any
\* number of requests, with clients that disconnect, a write queue that refuses,
\* database errors and crashes.
THEOREM OneScanAtATime == Spec => []AtMostOneScan
<1>1. SlotInv => AtMostOneScan
  BY DEF SlotInv, HolderNamed, AtMostOneScan
<1> QED
  BY SlotAlways, <1>1, PTL

\* A running task owns the slot: it carries the task's job id and its flag.
THEOREM SlotBelongsToTask == Spec => []SlotIsTheTasks
<1>1. TypeInv /\ SlotInv => SlotIsTheTasks
  BY DEF TypeInv, TypeOK, SlotInv, HolderNamed, JobNamed, SlotIsTheTasks, Holding
<1> QED
  BY SlotAlways, <1>1, PTL

----------------------------------------------------------------------------
(* Cancels *)

\* A job id is committed once for a request, and before it is in the slot: what
\* a cancel hits is not overwritten afterwards.
MadeOnce == \A r \in Requests :
    phase[r] \in Fresh \/ write[r] = "queued" => made[r] = 0
SlotWasMade == running.job > 0 =>
    running.cancel \in Requests /\ made[running.cancel] = running.job

CancelInv == MadeOnce /\ SlotWasMade /\ CancelReachesItsJob

LEMMA CancelInit == Init => CancelInv
  BY DEF Init, CancelInv, MadeOnce, SlotWasMade, CancelReachesItsJob, NoSlot, NotSent

LEMMA CancelNext == TypeInv /\ SlotInv /\ CancelInv /\ [Next]_vars => CancelInv'
<1> SUFFICES ASSUME TypeInv, SlotInv, CancelInv, [Next]_vars PROVE CancelInv'
  OBVIOUS
<1>t. /\ running \in [job : {-1} \cup Nat, cancel : Requests \cup {None}]
      /\ phase \in [Requests -> Phases] /\ made \in [Requests -> Nat]
      /\ write \in [Requests -> WriteStates] /\ cancel \in [Requests -> BOOLEAN]
      /\ stops \in [Cancels -> [sent : BOOLEAN, hit : {-1} \cup Nat]]
      /\ Len(jobs) \in Nat
  BY LenProperties DEF TypeInv, TypeOK
<1> USE <1>t DEF CancelInv, MadeOnce, SlotWasMade, CancelReachesItsJob, Fresh, Go,
        Answer, tables, outside
\* Steps that commit nothing, submit nothing and neither fill the slot nor
\* cancel.
<1>a. ASSUME NEW r \in Requests, NEW p, Go(r, p), UNCHANGED <<made, cancel, stops>>,
             p \in Fresh => phase[r] \in Fresh,
             running' \in {running, NoSlot},
             write' = write \/ write' = [write EXCEPT ![r] = "none"]
      PROVE  CancelInv'
  BY <1>a DEF NoSlot
<1>1. ASSUME NEW r \in Requests, Refuse(r) \/ Arrive(r) \/ Lookup(r) \/ Ask(r)
      PROVE  CancelInv'
  BY <1>1, <1>a DEF Refuse, Arrive, Lookup, Ask, FirstAwait
<1>2. ASSUME NEW r \in Requests, Reserve(r) PROVE CancelInv'
  BY <1>2 DEF Reserve, Reservation
<1>3. ASSUME NEW r \in Requests, Submit(r) PROVE CancelInv'
  BY <1>3 DEF Submit
<1>4. ASSUME NEW r \in Requests, Execute(r) PROVE CancelInv'
  <2>1. CASE UNCHANGED tables
    BY <1>4, <2>1 DEF Execute
  <2>2. CASE Commit(r) /\ phase[r] = "await" /\ write' = [write EXCEPT ![r] = "ok"]
    <3>1. made[r] = 0 /\ running.job = -1
      BY <1>4, <2>2 DEF Execute, SlotInv, Placeholder
    <3>2. made' = [made EXCEPT ![r] = Len(jobs) + 1]
      BY <2>2 DEF Commit
    <3> QED
      BY <1>4, <2>2, <3>1, <3>2 DEF Execute
  <2> QED
    BY <1>4, <2>1, <2>2 DEF Execute
<1>5. ASSUME NEW r \in Requests, Receive(r) PROVE CancelInv'
  <2>1. running.cancel = r /\ write' = [write EXCEPT ![r] = "none"]
    BY <1>5 DEF Receive, SlotInv, HolderNamed, Holding
  <2>2. CASE running' = Confirmed(made[r]) /\ Go(r, "spawned")
    BY <1>5, <2>1, <2>2 DEF Receive, Confirmed
  <2>3. CASE running' = NoSlot /\ Go(r, "end")
    BY <1>5, <2>1, <2>3, <1>a DEF Receive
  <2> QED
    BY <1>5, <2>2, <2>3 DEF Receive
<1>6. ASSUME NEW r \in Requests, Disconnect(r) PROVE CancelInv'
  BY <1>6, <1>a DEF Disconnect
<1>7. ASSUME NEW r \in Requests,
             StartRun(r) \/ Decide(r) \/ Mark(r) \/ Finish(r) \/ Release(r)
      PROVE  CancelInv'
  BY <1>7, <1>a DEF StartRun, Decide, Mark, Finish, Release, Abort, SlotGivenBack
<1>8. ASSUME NEW c \in Cancels, Cancel(c) PROVE CancelInv'
  <2>1. PICK j \in CancelIds :
           /\ stops' = [stops EXCEPT ![c] =
                  [sent |-> TRUE, hit |-> IF Hits(j) THEN j ELSE 0]]
           /\ cancel' = IF Hits(j) THEN [cancel EXCEPT ![running.cancel] = TRUE]
                                   ELSE cancel
    BY <1>8 DEF Cancel
  <2>2. CASE Hits(j)
    BY <1>8, <2>1, <2>2 DEF Cancel, Hits
  <2>3. CASE ~Hits(j)
    BY <1>8, <2>1, <2>3 DEF Cancel
  <2> QED
    BY <2>2, <2>3
<1>9. CASE Crash
  BY <1>9 DEF Crash, NoSlot
<1>10. CASE UNCHANGED <<running, phase, made, write, cancel, stops>>
  BY <1>10
<1> QED
  BY <1>1, <1>2, <1>3, <1>4, <1>5, <1>6, <1>7, <1>8, <1>9, <1>10
  DEF Next, Expire, Restart, vars

\* A cancel that hit a job raised the flag of the request that made it, whatever
\* scans come and go between the answer and the end of that job.
THEOREM CancelsReachTheirJob == Spec => []CancelReachesItsJob
<1>1. CancelInv => CancelReachesItsJob
  BY DEF CancelInv
<1> QED
  BY SlotAlways, CancelInit, CancelNext, <1>1, PTL DEF Spec

----------------------------------------------------------------------------
(* How the slot is lost *)

\* A slot nobody answers for was left by a handler that is gone for good.
LossKnown == running # NoSlot =>
    \/ phase[running.cancel] \in Holding
    \/ /\ phase[running.cancel] \in {"dropped", "end"}
       /\ reply[running.cancel].code \in {"busy", "gone"}

LEMMA LossInit == Init => LossKnown
  BY DEF Init, LossKnown

LEMMA LossNext == TypeInv /\ SlotInv /\ LossKnown /\ [Next]_vars => LossKnown'
<1> SUFFICES ASSUME TypeInv, SlotInv, LossKnown, [Next]_vars PROVE LossKnown'
  OBVIOUS
<1>t. /\ phase \in [Requests -> Phases] /\ reply \in [Requests -> [code : Codes, job : Nat]]
      /\ running \in [job : {-1} \cup Nat, cancel : Requests \cup {None}]
  BY DEF TypeInv, TypeOK
<1>h. \A r \in Requests : phase[r] \in Holding => running.cancel = r
  BY DEF SlotInv, HolderNamed
<1>o. running # NoSlot => running.cancel \in Requests
  BY <1>t DEF SlotInv, EmptySlot
<1>0. CASE running' = NoSlot
  BY <1>0 DEF LossKnown
\* A request that does not hold the slot, and never did, moves.
<1>a. ASSUME NEW r \in Requests, NEW p, Go(r, p), UNCHANGED running,
             phase[r] \in {"new", "lookup", "reserve", "ask"},
             (\E code, j : Tell(r, code, j)) \/ UNCHANGED reply
      PROVE  LossKnown'
  <2>1. running # NoSlot => running.cancel # r
    BY <1>a DEF LossKnown, Holding, TaskPhases
  <2>2. \A q \in Requests \ {r} : phase'[q] = phase[q] /\ reply'[q] = reply[q]
    <3>1. \A q \in Requests \ {r} : phase'[q] = phase[q]
      BY <1>t, <1>a DEF Go
    <3>2. \A q \in Requests \ {r} : reply'[q] = reply[q]
      BY <1>t, <1>a DEF Tell
    <3> QED
      BY <3>1, <3>2
  <2> QED
    BY <1>a, <1>o, <2>1, <2>2 DEF LossKnown
\* The holder moves and goes on holding it, or is answered "busy", or is gone.
<1>b. ASSUME NEW r \in Requests, NEW p, Go(r, p), phase[r] \in Holding,
             running' = running \/ running'.cancel = r,
             \/ p \in Holding
             \/ p \in {"dropped", "end"} /\ \E code \in {"busy", "gone"} : Tell(r, code, 0)
      PROVE  LossKnown'
  <2>1. running'.cancel = r /\ phase'[r] = p
    BY <1>t, <1>b, <1>h DEF Go
  <2>2. p \notin Holding => reply'[r].code \in {"busy", "gone"}
    BY <1>t, <1>b DEF Tell
  <2> QED
    BY <1>b, <2>1, <2>2 DEF LossKnown
<1>1. ASSUME NEW r \in Requests, Refuse(r) \/ Arrive(r) \/ Lookup(r) \/ Ask(r)
      PROVE  LossKnown'
  BY <1>1, <1>a DEF Refuse, Arrive, Lookup, Ask, Answer, FirstAwait
<1>2. ASSUME NEW r \in Requests, Reserve(r) PROVE LossKnown'
  <2>1. CASE running' = Reservation(r) /\ Go(r, "submit")
    <3>1. running'.cancel = r /\ phase'[r] = "submit"
      BY <1>t, <2>1 DEF Reservation, Go
    <3> QED
      BY <3>1 DEF LossKnown, Holding
  <2>2. CASE UNCHANGED running /\ Go(r, "ask")
    BY <1>2, <1>a, <2>2 DEF Reserve
  <2> QED
    BY <1>2, <2>1, <2>2 DEF Reserve
<1>3. ASSUME NEW r \in Requests, Submit(r) PROVE LossKnown'
  BY <1>3, <1>b DEF Submit, Answer, Holding
<1>4. ASSUME NEW r \in Requests, Execute(r) PROVE LossKnown'
  <2>1. CASE phase[r] = "dropped" /\ Go(r, "end")
    <3>1. phase'[r] = "end" /\ (\A q \in Requests \ {r} : phase'[q] = phase[q])
          /\ UNCHANGED <<running, reply>>
      BY <1>t, <1>4, <2>1 DEF Go, Execute
    <3> QED
      BY <1>o, <2>1, <3>1 DEF LossKnown, Holding, TaskPhases
  <2>2. CASE UNCHANGED phase
    BY <1>4, <2>2 DEF Execute, LossKnown
  <2> QED
    BY <1>4, <2>1, <2>2 DEF Execute
<1>5. ASSUME NEW r \in Requests, Receive(r) PROVE LossKnown'
  <2>1. CASE running' = Confirmed(made[r]) /\ Go(r, "spawned")
    <3>1. phase[r] \in Holding /\ running.cancel = r
      BY <1>5, <1>h DEF Receive, Holding
    <3>2. running' = running \/ running'.cancel = r
      BY <1>t, <2>1, <3>1 DEF Confirmed
    <3> QED
      BY <1>b, <2>1, <3>1, <3>2 DEF Holding, TaskPhases
  <2> QED
    BY <1>0, <1>5, <2>1 DEF Receive
<1>6. ASSUME NEW r \in Requests, Disconnect(r) PROVE LossKnown'
  BY <1>6, <1>a, <1>b DEF Disconnect, Holding
<1>7. ASSUME NEW r \in Requests, StartRun(r) \/ Decide(r) \/ Mark(r) \/ Finish(r)
      PROVE  LossKnown'
  BY <1>7, <1>b DEF StartRun, Decide, Mark, Finish, Abort, Holding, TaskPhases
<1>8. ASSUME NEW r \in Requests, Release(r) PROVE LossKnown'
  BY <1>0, <1>8 DEF Release, SlotGivenBack
<1>9. CASE Crash
  BY <1>0, <1>9 DEF Crash
<1>10. CASE UNCHANGED <<running, phase, reply>>
  BY <1>10 DEF LossKnown
<1> QED
  BY <1>1, <1>2, <1>3, <1>4, <1>5, <1>6, <1>7, <1>8, <1>9, <1>10
  DEF Next, Cancel, Expire, Restart, vars

\* A slot that nobody answers for was lost to a refused write or to a client that
\* went away while its transaction was awaited, and to nothing else.
THEOREM LossesExplained == Spec => []SlotLossExplained
<1>1. LossKnown => SlotLossExplained
  BY DEF LossKnown, SlotLossExplained
<1> QED
  BY SlotAlways, LossInit, LossNext, <1>1, PTL DEF Spec

----------------------------------------------------------------------------
(* The life of a job row *)

RowIs(r, s) == made[r] \in JobIds /\ jobs[made[r]].state = s

\* What a handler or task knows of its row: queued until the task runs, running
\* until it ends, and not yet there when the transaction did not commit.
DownIdle == ~up => \A r \in Requests : phase[r] \notin Holding
MadeIsJob == \A r \in Requests : made[r] # 0 => made[r] \in JobIds
NotMade == \A r \in Requests : write[r] \in {"constraint", "failed"} => made[r] = 0
QueuedRows == \A r \in Requests :
    phase[r] = "spawned" \/ write[r] = "ok" => RowIs(r, "queued")
RunningRows == \A r \in Requests :
    phase[r] \in {"scanning", "marking", "ending"} => RowIs(r, "running")
LeavingRows == \A r \in Requests : phase[r] = "releasing" => made[r] \in JobIds
WriterWaits == \A r \in Requests : write[r] \in {"ok", "constraint", "failed"} => phase[r] = "await"
FinIsOutcome == \A r \in Requests :
    phase[r] = "ending" => fin[r] \in {"completed", "failed", "cancelled"}

LifeInv == /\ DownIdle /\ MadeIsJob /\ NotMade /\ QueuedRows /\ RunningRows
           /\ LeavingRows /\ WriterWaits /\ FinIsOutcome

LEMMA LifeInit == Init => LifeInv
  BY DEF Init, LifeInv, DownIdle, MadeIsJob, NotMade, QueuedRows, RunningRows, LeavingRows,
         WriterWaits, FinIsOutcome, Holding, TaskPhases, JobIds

LEMMA JobTable ==
  ASSUME TypeInv
  PROVE  /\ jobs \in Seq(JobRecord) /\ Len(jobs) \in Nat /\ JobIds = 1 .. Len(jobs)
         /\ DOMAIN jobs = 1 .. Len(jobs)
         /\ \A j \in JobIds : jobs[j] \in JobRecord
<1>1. jobs \in Seq(JobRecord)
  BY DEF TypeInv, TypeOK, JobRecord
<1> QED
  BY <1>1 DEF JobIds

\* The rows after SetState.
LEMMA StateSet ==
  ASSUME TypeInv, NEW r \in Requests, made[r] \in JobIds, NEW s, SetState(r, s)
  PROVE  /\ JobIds' = JobIds
         /\ jobs'[made[r]] = [jobs[made[r]] EXCEPT !.state = s]
         /\ jobs'[made[r]].state = s
         /\ \A j \in JobIds : j # made[r] => jobs'[j] = jobs[j]
<1>1. /\ jobs \in Seq(JobRecord) /\ jobs' = [jobs EXCEPT ![made[r]].state = s]
      /\ jobs[made[r]] \in JobRecord
  BY JobTable DEF SetState
<1>2. Len(jobs') = Len(jobs)
  BY <1>1
<1> QED
  BY <1>1, <1>2, JobTable DEF JobIds, JobRecord

\* The rows after Commit.
LEMMA Committed ==
  ASSUME TypeInv, NEW r \in Requests, Commit(r)
  PROVE  /\ Len(jobs') = Len(jobs) + 1 /\ JobIds' = JobIds \cup {Len(jobs) + 1}
         /\ Len(jobs) + 1 \notin JobIds
         /\ jobs'[Len(jobs) + 1] = [state |-> "queued", key |-> body[r].key,
                                    payload |-> body[r].payload]
         /\ \A j \in JobIds : jobs'[j] = jobs[j]
         /\ made' = [made EXCEPT ![r] = Len(jobs) + 1]
         /\ dedup' = [Purged EXCEPT ![body[r].key] =
                [job |-> Len(jobs) + 1, payload |-> body[r].payload, live |-> TRUE]]
<1>1. jobs \in Seq(JobRecord) /\ Len(jobs) \in Nat /\ JobIds = 1 .. Len(jobs)
  BY JobTable
<1>2. jobs' = Append(jobs, [state |-> "queued", key |-> body[r].key,
                            payload |-> body[r].payload])
  BY DEF Commit
<1>3. Len(jobs') = Len(jobs) + 1
  BY <1>1, <1>2
<1> QED
  BY <1>1, <1>2, <1>3 DEF Commit, JobIds

LEMMA LifeNext == TypeInv /\ SlotInv /\ CancelInv /\ LifeInv /\ [Next]_vars => LifeInv'
<1> SUFFICES ASSUME TypeInv, SlotInv, CancelInv, LifeInv, [Next]_vars PROVE LifeInv'
  OBVIOUS
<1>t. /\ phase \in [Requests -> Phases] /\ made \in [Requests -> Nat]
      /\ write \in [Requests -> WriteStates] /\ fin \in [Requests -> Ended \cup {"none"}]
      /\ up \in BOOLEAN
  BY DEF TypeInv, TypeOK
<1>h. \A r, s \in Requests : phase[r] \in Holding /\ phase[s] \in Holding => r = s
  BY DEF SlotInv, HolderNamed
<1> USE <1>t DEF LifeInv, DownIdle, MadeIsJob, NotMade, QueuedRows, RunningRows, LeavingRows,
        WriterWaits, FinIsOutcome, Holding, TaskPhases, Go, Answer, RowIs
<1>1. ASSUME NEW r \in Requests,
             Refuse(r) \/ Arrive(r) \/ Lookup(r) \/ Reserve(r) \/ Ask(r)
      PROVE  LifeInv'
  <2>1. /\ phase[r] \in {"new", "lookup", "reserve", "ask"} /\ up
        /\ UNCHANGED <<up, made, jobs, fin, write>>
        /\ \E p \in {"lookup", "end", "reserve", "submit", "ask"} : Go(r, p)
    BY <1>1 DEF Refuse, Arrive, Lookup, Reserve, Ask, FirstAwait, tables
  <2> QED
    BY <2>1 DEF JobIds
<1>2. ASSUME NEW r \in Requests, Submit(r) PROVE LifeInv'
  BY <1>2 DEF Submit, tables, JobIds
<1>3. ASSUME NEW r \in Requests, Execute(r) PROVE LifeInv'
  <2>1. CASE UNCHANGED tables
    <3>1. /\ up /\ UNCHANGED <<up, fin, made, jobs>> /\ write[r] = "queued"
          /\ \/ write' = [write EXCEPT ![r] = "none"] /\ Go(r, "end") /\ phase[r] = "dropped"
             \/ /\ \E o \in {"failed", "constraint"} : write' = [write EXCEPT ![r] = o]
                /\ UNCHANGED phase /\ phase[r] = "await"
             \/ Commit(r)
      BY <1>3, <2>1 DEF Execute, tables
    <3>2. ~Commit(r)
      <4>1. Len(jobs) \in Nat /\ jobs' = jobs
        BY <2>1, JobTable DEF tables
      <4>2. Commit(r) => Len(jobs') = Len(jobs) + 1
        BY Committed
      <4> QED
        BY <4>1, <4>2
    <3>3. made[r] = 0
      BY <3>1 DEF CancelInv, MadeOnce
    <3> QED
      BY <3>1, <3>2, <3>3 DEF JobIds
  <2>2. CASE /\ Commit(r) /\ phase[r] = "await" /\ UNCHANGED phase
             /\ write' = [write EXCEPT ![r] = "ok"]
    <3>1. UNCHANGED <<up, fin, phase>> /\ up
      BY <1>3, <2>2 DEF Execute
    <3>2. /\ made' = [made EXCEPT ![r] = Len(jobs) + 1]
          /\ Len(jobs) + 1 \in JobIds' /\ jobs'[Len(jobs) + 1].state = "queued"
          /\ \A j \in JobIds : j \in JobIds' /\ jobs'[j] = jobs[j]
      <4>1. /\ made' = [made EXCEPT ![r] = Len(jobs) + 1]
            /\ jobs'[Len(jobs) + 1] = [state |-> "queued", key |-> body[r].key,
                                       payload |-> body[r].payload]
            /\ JobIds' = JobIds \cup {Len(jobs) + 1}
            /\ \A j \in JobIds : jobs'[j] = jobs[j]
        BY <2>2, Committed
      <4> QED
        BY <4>1
    <3>3. /\ \A s \in Requests \ {r} : write'[s] = write[s] /\ made'[s] = made[s]
          /\ DOMAIN made' = Requests
      BY <2>2, <3>2
    <3>4. write'[r] = "ok" /\ made'[r] = Len(jobs) + 1 /\ phase'[r] = "await"
      BY <2>2, <3>2
    <3>5. MadeIsJob' /\ NotMade' /\ WriterWaits' /\ FinIsOutcome' /\ DownIdle'
      BY <2>2, <3>1, <3>2, <3>3, <3>4
    <3>6. QueuedRows' /\ RunningRows' /\ LeavingRows'
      BY <2>2, <3>1, <3>2, <3>3, <3>4
    <3> QED
      BY <3>5, <3>6
  <2> QED
    BY <1>3, <2>1, <2>2 DEF Execute, tables
<1>4. ASSUME NEW r \in Requests, Receive(r) PROVE LifeInv'
  BY <1>4, <1>h DEF Receive, tables, JobIds
<1>5. ASSUME NEW r \in Requests, Disconnect(r) PROVE LifeInv'
  BY <1>5 DEF Disconnect, tables, JobIds
<1>6. ASSUME NEW r \in Requests, Abort(r), phase[r] \in TaskPhases, up,
             UNCHANGED <<up, write, made>>
      PROVE  LifeInv'
  BY <1>6 DEF Abort, JobIds
<1>7. ASSUME NEW r \in Requests, NEW s, SetState(r, s), phase[r] \in TaskPhases, up,
             UNCHANGED <<up, write, made, fin>>,
             (s = "running" /\ Go(r, "scanning")) \/ Go(r, "releasing")
      PROVE  LifeInv'
  <2>1. made[r] \in JobIds
    BY <1>7
  <2>2. /\ JobIds' = JobIds /\ jobs'[made[r]].state = s
    BY <1>7, <2>1, StateSet
  <2>3. \A q \in Requests \ {r} : phase'[q] = phase[q] /\ phase[q] \notin Holding
    BY <1>7, <1>h
  <2>4. phase'[r] \in {"scanning", "releasing"} /\ (phase'[r] = "scanning" => s = "running")
        /\ write[r] \notin {"ok", "constraint", "failed"}
    BY <1>7
  <2> QED
    BY <1>7, <2>1, <2>2, <2>3, <2>4
<1>8. ASSUME NEW r \in Requests, StartRun(r) PROVE LifeInv'
  BY <1>6, <1>7, <1>8 DEF StartRun
<1>9. ASSUME NEW r \in Requests, Finish(r) PROVE LifeInv'
  BY <1>6, <1>7, <1>9 DEF Finish
<1>10. ASSUME NEW r \in Requests, Decide(r) PROVE LifeInv'
  <2>1. CASE UNCHANGED jobs /\ ~Abort(r)
    BY <1>10, <2>1 DEF Decide, JobIds, Settle
  <2> QED
    BY <1>6, <1>10, <2>1 DEF Decide
<1>11. ASSUME NEW r \in Requests, Mark(r) PROVE LifeInv'
  <2>1. CASE UNCHANGED jobs /\ ~Abort(r)
    BY <1>11, <2>1 DEF Mark, JobIds, Settle
  <2> QED
    BY <1>6, <1>11, <2>1 DEF Mark
<1>12. ASSUME NEW r \in Requests, Release(r) PROVE LifeInv'
  BY <1>12 DEF Release, tables, JobIds, Settle
<1>13. CASE Crash
  BY <1>13 DEF Crash, tables, JobIds
<1>14. CASE Restart
  <2>1. JobIds' = JobIds /\ UNCHANGED <<phase, write, made, fin>>
        /\ \A r \in Requests : phase[r] \notin Holding
    <3>1. Len(jobs') = Len(jobs)
      BY <1>14, JobTable DEF Restart
    <3> QED
      BY <1>14, <3>1 DEF Restart, JobIds
  <2> QED
    BY <2>1
<1>15. CASE UNCHANGED <<up, phase, made, write, fin, jobs>>
  BY <1>15 DEF JobIds
<1> QED
  BY <1>1, <1>2, <1>3, <1>4, <1>5, <1>8, <1>9, <1>10, <1>11, <1>12, <1>13, <1>14, <1>15
  DEF Next, Cancel, Expire, vars, tables

LEMMA LifeAlways == Spec => [](TypeInv /\ SlotInv /\ CancelInv /\ LifeInv)
  BY TypeInit, TypeNext, SlotInit, SlotNext, CancelInit, CancelNext, LifeInit, LifeNext, PTL
  DEF Spec

Column == [j \in JobIds |-> jobs[j].state]

\* ActiveJob as a function of the phases and the job ids that were made.
Active(ph, md) ==
    LET Working == {r \in Requests : ph[r] \in Holding /\ md[r] # 0}
    IN IF Working = {} THEN 0 ELSE md[CHOOSE r \in Working : TRUE]

LEMMA ActiveOf ==
  ASSUME NEW ph, NEW md,
         \A r, s \in Requests : ph[r] \in Holding /\ ph[s] \in Holding => r = s
  PROVE  /\ \A r \in Requests : ph[r] \in Holding => Active(ph, md) = md[r]
         /\ (\A r \in Requests : ph[r] \notin Holding) => Active(ph, md) = 0
<1> DEFINE Working == {r \in Requests : ph[r] \in Holding /\ md[r] # 0}
<1>1. ASSUME NEW r \in Requests, ph[r] \in Holding
      PROVE  Active(ph, md) = md[r]
  <2>1. CASE md[r] = 0
    <3>1. Working = {}
      BY <1>1, <2>1
    <3> QED
      BY <2>1, <3>1 DEF Active
  <2>2. CASE md[r] # 0
    <3>1. Working = {r}
      BY <1>1, <2>2
    <3>2. (CHOOSE s \in Working : TRUE) = r
      BY <3>1
    <3> QED
      BY <3>1, <3>2 DEF Active
  <2> QED
    BY <2>1, <2>2
<1>2. ASSUME \A r \in Requests : ph[r] \notin Holding
      PROVE  Active(ph, md) = 0
  <2>1. Working = {}
    BY <1>2
  <2> QED
    BY <2>1 DEF Active
<1> QED
  BY <1>1, <1>2

\* Whatever job is worked on is the holder's.
ActiveKnown ==
    /\ \A r \in Requests : phase[r] \in Holding => ActiveJob = made[r]
    /\ (\A r \in Requests : phase[r] \notin Holding) => ActiveJob = 0
Alone == \A r, s \in Requests : phase[r] \in Holding /\ phase[s] \in Holding => r = s

LEMMA ActiveNow ==
  ASSUME SlotInv, SlotInv'
  PROVE  Alone /\ Alone' /\ ActiveKnown /\ ActiveKnown'
<1>1. Alone /\ Alone'
  BY DEF SlotInv, HolderNamed, Alone
<1>2. ActiveJob = Active(phase, made)
  BY DEF ActiveJob, Active
<1>3. ActiveJob' = Active(phase', made')
  BY DEF ActiveJob, Active
<1>4. ActiveKnown
  BY <1>1, <1>2, ActiveOf DEF ActiveKnown, Alone
<1>5. ActiveKnown'
  BY <1>1, <1>3, ActiveOf DEF ActiveKnown, Alone
<1> QED
  BY <1>1, <1>4, <1>5

LEMMA ColumnIs ==
  ASSUME TypeInv
  PROVE  /\ Column \in Seq(JobStates) /\ Len(Column) = Len(jobs) /\ DOMAIN Column = JobIds
         /\ \A j \in JobIds : Column[j] = jobs[j].state
<1>1. \A j \in JobIds : jobs[j].state \in JobStates
  BY JobTable DEF JobRecord
<1>2. Column \in [1 .. Len(jobs) -> JobStates]
  BY <1>1, JobTable DEF Column
<1>3. Column \in Seq(JobStates) /\ Len(Column) = Len(jobs)
  BY <1>2, JobTable, FunctionIsSeq
<1> QED
  BY <1>3 DEF Column

\* One row's new state.
LEMMA ColumnSet ==
  ASSUME TypeInv, NEW r \in Requests, made[r] \in JobIds, NEW s, SetState(r, s)
  PROVE  Column' = [Column EXCEPT ![made[r]] = s]
<1>1. Column' = [j \in JobIds |-> jobs'[j].state]
  BY StateSet DEF Column
<1> QED
  BY <1>1, StateSet DEF Column

LEMMA ListedOut ==
  ASSUME NEW S, NEW s \in Seq(S)
  PROVE  s = [j \in 1 .. Len(s) |-> s[j]]
  OBVIOUS

\* One row more.
LEMMA ColumnAppended ==
  ASSUME TypeInv, TypeInv', NEW r \in Requests, Commit(r)
  PROVE  Column' = Append(Column, "queued")
<1> DEFINE n == Len(jobs) + 1
           added == Append(Column, "queued")
<1>1. /\ Column \in Seq(JobStates) /\ Len(Column) = Len(jobs) /\ Len(jobs) \in Nat
      /\ JobIds = 1 .. Len(jobs) /\ "queued" \in JobStates
  BY ColumnIs, JobTable DEF JobStates
<1>2. /\ added \in Seq(JobStates) /\ Len(added) = n /\ added[n] = "queued"
      /\ \A j \in JobIds : added[j] = Column[j]
  BY <1>1
<1>3. added = [j \in 1 .. n |-> added[j]]
  BY <1>2, ListedOut
<1>4. JobIds' = 1 .. n /\ Column' = [j \in 1 .. n |-> jobs'[j].state]
  BY Committed DEF Column, JobIds
<1>5. jobs'[n].state = "queued"
  <2>1. jobs'[n] = [state |-> "queued", key |-> body[r].key, payload |-> body[r].payload]
    BY Committed
  <2> QED
    BY <2>1
<1>6. \A j \in JobIds : jobs'[j].state = Column[j]
  BY Committed, ColumnIs
<1>7. \A j \in 1 .. n : jobs'[j].state = added[j]
  <2>1. \A j \in 1 .. n : j \in JobIds \/ j = n
    BY <1>1
  <2> QED
    BY <1>2, <1>5, <1>6, <2>1
<1> QED
  BY <1>3, <1>4, <1>7

\* A start after a crash ends what looks alive.
LEMMA ColumnRestarted ==
  ASSUME TypeInv, Restart
  PROVE  Column' = [j \in 1 .. Len(Column) |->
             IF Column[j] \in {"queued", "running"} THEN "interrupted" ELSE Column[j]]
<1>1. /\ JobIds = 1 .. Len(jobs) /\ Len(Column) = Len(jobs) /\ Len(jobs) \in Nat
      /\ \A j \in JobIds : Column[j] = jobs[j].state /\ jobs[j] \in JobRecord
  BY ColumnIs, JobTable
<1>2. jobs' = [j \in JobIds |-> IF Interruptible(jobs[j].state)
                                THEN [jobs[j] EXCEPT !.state = "interrupted"] ELSE jobs[j]]
  BY DEF Restart
<1>3. Len(jobs') = Len(jobs)
  BY <1>1, <1>2
<1>4. Column' = [j \in JobIds |-> jobs'[j].state]
  BY <1>3 DEF Column, JobIds
<1>5. ASSUME NEW j \in JobIds
      PROVE  jobs'[j].state = IF Column[j] \in {"queued", "running"}
                              THEN "interrupted" ELSE Column[j]
  <2>1. CASE Interruptible(jobs[j].state)
    <3>1. jobs'[j] = [jobs[j] EXCEPT !.state = "interrupted"]
      BY <1>2, <2>1
    <3> QED
      BY <1>1, <2>1, <3>1 DEF JobRecord, Interruptible
  <2>2. CASE ~Interruptible(jobs[j].state)
    BY <1>1, <1>2, <2>2 DEF Interruptible
  <2> QED
    BY <2>1, <2>2
<1> QED
  BY <1>1, <1>4, <1>5

LEMMA StepIsLifecycle ==
  ASSUME TypeInv, SlotInv, CancelInv, LifeInv, TypeInv', SlotInv', [Next]_vars
  PROVE  [Lifecycle!Next]_(Lifecycle!lifecycle)
<1>t. /\ phase \in [Requests -> Phases] /\ made \in [Requests -> Nat] /\ up \in BOOLEAN
  BY DEF TypeInv, TypeOK
<1>k. Alone /\ Alone' /\ ActiveKnown /\ ActiveKnown'
  BY ActiveNow
\* Steps that change no row and not which job is worked on.
<1>s. ASSUME UNCHANGED <<up, jobs>>, ActiveJob' = ActiveJob
      PROVE  [Lifecycle!Next]_(Lifecycle!lifecycle)
  BY <1>s DEF Lifecycle!lifecycle, JobIds
<1>p. ASSUME NEW r \in Requests, NEW p, Go(r, p), UNCHANGED <<up, jobs, made>>,
             (p \in Holding <=> phase[r] \in Holding) \/ made[r] = 0
      PROVE  [Lifecycle!Next]_(Lifecycle!lifecycle)
  <2>1. phase'[r] = p /\ (\A q \in Requests \ {r} : phase'[q] = phase[q]) /\ made' = made
    BY <1>t, <1>p DEF Go
  <2>2. CASE phase[r] \in Holding \/ p \in Holding
    <3>1. \A q \in Requests \ {r} : phase[q] \notin Holding
      BY <1>k, <2>1, <2>2 DEF Alone
    <3> QED
      BY <1>k, <1>p, <1>s, <2>1, <2>2, <3>1 DEF ActiveKnown
  <2>3. CASE phase[r] \notin Holding /\ p \notin Holding
    <3>1. \A q \in Requests : phase'[q] \in Holding <=> phase[q] \in Holding
      BY <2>1, <2>3
    <3>2. \A q \in Requests : phase[q] \in Holding => ActiveJob = made[q] /\ ActiveJob' = made[q]
      BY <1>k, <2>1, <3>1 DEF ActiveKnown
    <3>3. ActiveJob' = ActiveJob
      BY <1>k, <3>1, <3>2 DEF ActiveKnown
    <3> QED
      BY <1>p, <1>s, <3>3
  <2> QED
    BY <2>2, <2>3
\* The holder leaves.
<1>l. ASSUME NEW r \in Requests, NEW p, Go(r, p), UNCHANGED <<up, jobs, made>>,
             phase[r] \in Holding, p \notin Holding
      PROVE  [Lifecycle!Next]_(Lifecycle!lifecycle)
  <2>1. phase'[r] = p /\ (\A q \in Requests \ {r} : phase'[q] = phase[q])
    BY <1>t, <1>l DEF Go
  <2>2. \A q \in Requests : phase'[q] \notin Holding
    BY <1>k, <1>l, <2>1 DEF Alone
  <2>3. ActiveJob' = 0
    BY <1>k, <2>2 DEF ActiveKnown
  <2>4. CASE ActiveJob = 0
    BY <1>l, <1>s, <2>3, <2>4
  <2>5. CASE ActiveJob # 0
    <3>1. Lifecycle!Leave
      BY <1>l, <2>3, <2>5 DEF Lifecycle!Leave, JobIds
    <3> QED
      BY <3>1 DEF Lifecycle!Next
  <2> QED
    BY <2>4, <2>5
<1>1. ASSUME NEW r \in Requests,
             Refuse(r) \/ Arrive(r) \/ Lookup(r) \/ Reserve(r) \/ Ask(r)
      PROVE  [Lifecycle!Next]_(Lifecycle!lifecycle)
  <2>1. /\ phase[r] \in {"new", "lookup", "reserve", "ask"}
        /\ UNCHANGED <<up, made, jobs>>
        /\ \E p \in {"lookup", "end", "reserve", "submit", "ask"} : Go(r, p)
    BY <1>1 DEF Refuse, Arrive, Lookup, Reserve, Ask, FirstAwait, tables, Answer
  <2>2. made[r] = 0
    BY <2>1 DEF CancelInv, MadeOnce, Fresh
  <2> QED
    BY <1>p, <2>1, <2>2
<1>2. ASSUME NEW r \in Requests, Submit(r) PROVE [Lifecycle!Next]_(Lifecycle!lifecycle)
  <2>1. /\ phase[r] = "submit" /\ UNCHANGED <<up, made, jobs>>
        /\ \E p \in {"await", "end"} : Go(r, p)
    BY <1>2 DEF Submit, tables, Answer
  <2>2. made[r] = 0
    BY <2>1 DEF CancelInv, MadeOnce, Fresh
  <2> QED
    BY <1>p, <2>1, <2>2
<1>3. ASSUME NEW r \in Requests, Execute(r) PROVE [Lifecycle!Next]_(Lifecycle!lifecycle)
  <2>1. up /\ UNCHANGED up /\ write[r] = "queued" /\ made[r] = 0
    BY <1>3 DEF Execute, CancelInv, MadeOnce
  <2>2. CASE phase[r] = "dropped" /\ Go(r, "end") /\ UNCHANGED tables
    BY <1>p, <2>1, <2>2 DEF tables
  <2>3. CASE UNCHANGED <<phase, tables>>
    BY <1>s, <2>1, <2>3 DEF tables, ActiveJob
  <2>4. CASE phase[r] = "await" /\ Commit(r) /\ UNCHANGED phase
    <3>1. phase[r] \in Holding /\ phase'[r] \in Holding
      BY <2>4 DEF Holding
    <3>2. ActiveJob = 0 /\ ActiveJob' = Len(jobs) + 1
      <4>1. made'[r] = Len(jobs) + 1
        BY <1>t, <2>4, Committed
      <4> QED
        BY <1>k, <2>1, <3>1, <4>1 DEF ActiveKnown
    <3>3. Column' = Append(Column, "queued") /\ Len(Column) = Len(jobs)
      BY <2>4, ColumnAppended, ColumnIs
    <3>4. Lifecycle!Create
      BY <2>1, <3>2, <3>3 DEF Lifecycle!Create, Column
    <3> QED
      BY <3>4 DEF Lifecycle!Next
  <2> QED
    BY <1>3, <2>2, <2>3, <2>4 DEF Execute
<1>4. ASSUME NEW r \in Requests, Receive(r) PROVE [Lifecycle!Next]_(Lifecycle!lifecycle)
  <2>1. /\ phase[r] = "await" /\ UNCHANGED <<up, made, jobs>>
        /\ \/ Go(r, "spawned")
           \/ Go(r, "end") /\ write[r] \in {"constraint", "failed"}
    BY <1>4 DEF Receive, tables, Answer
  <2>2. write[r] \in {"constraint", "failed"} => made[r] = 0
    BY DEF LifeInv, NotMade
  <2> QED
    BY <1>p, <2>1, <2>2 DEF Holding, TaskPhases
<1>5. ASSUME NEW r \in Requests, Disconnect(r) PROVE [Lifecycle!Next]_(Lifecycle!lifecycle)
  <2>1. /\ UNCHANGED <<up, made, jobs>>
        /\ \E p \in {"dropped", "end"} : Go(r, p)
    BY <1>5 DEF Disconnect, tables
  <2>2. "dropped" \notin Holding /\ "end" \notin Holding
    BY DEF Holding, TaskPhases
  <2> QED
    BY <1>l, <1>p, <2>1, <2>2
<1>6. ASSUME NEW r \in Requests, Go(r, "releasing"), phase[r] \in TaskPhases,
             UNCHANGED <<up, jobs, made>>
      PROVE  [Lifecycle!Next]_(Lifecycle!lifecycle)
  BY <1>p, <1>6 DEF Holding, TaskPhases
<1>7. ASSUME NEW r \in Requests, NEW s, SetState(r, s), UNCHANGED <<up, made>>,
             NEW p \in TaskPhases, Go(r, p), phase[r] \in TaskPhases, made[r] \in JobIds
      PROVE  /\ Column' = [Column EXCEPT ![ActiveJob] = s]
             /\ Column[ActiveJob] = jobs[made[r]].state
             /\ ActiveJob' = ActiveJob /\ ActiveJob # 0
  <2>1. phase[r] \in Holding /\ phase'[r] \in Holding
    BY <1>t, <1>7 DEF Holding, Go
  <2>2. ActiveJob = made[r] /\ ActiveJob' = made[r]
    BY <1>k, <1>7, <2>1 DEF ActiveKnown
  <2>3. made[r] # 0
    BY <1>7, JobTable
  <2> QED
    BY <1>7, <2>2, <2>3, ColumnSet, ColumnIs
<1>8. ASSUME NEW r \in Requests, StartRun(r) PROVE [Lifecycle!Next]_(Lifecycle!lifecycle)
  <2>1. UNCHANGED <<up, made>> /\ phase[r] = "spawned" /\ phase[r] \in TaskPhases
    BY <1>8 DEF StartRun, TaskPhases
  <2>2. CASE SetState(r, "running") /\ Go(r, "scanning")
    <3>1. made[r] \in JobIds /\ jobs[made[r]].state = "queued"
      BY <2>1 DEF LifeInv, QueuedRows, RowIs
    <3>2. Lifecycle!Run
      BY <1>7, <2>1, <2>2, <3>1 DEF Lifecycle!Run, Column, TaskPhases
    <3> QED
      BY <3>2 DEF Lifecycle!Next
  <2>3. CASE Abort(r)
    BY <1>6, <2>1, <2>3 DEF Abort
  <2> QED
    BY <1>8, <2>2, <2>3 DEF StartRun
<1>9. ASSUME NEW r \in Requests, Finish(r) PROVE [Lifecycle!Next]_(Lifecycle!lifecycle)
  <2>1. UNCHANGED <<up, made>> /\ phase[r] = "ending" /\ phase[r] \in TaskPhases
    BY <1>9 DEF Finish, TaskPhases
  <2>2. CASE SetState(r, fin[r]) /\ Go(r, "releasing")
    <3>1. made[r] \in JobIds /\ jobs[made[r]].state = "running" /\ fin[r] \in Lifecycle!Outcomes
      BY <2>1 DEF LifeInv, RunningRows, RowIs, FinIsOutcome, Lifecycle!Outcomes
    <3>2. Lifecycle!End
      BY <1>7, <2>1, <2>2, <3>1 DEF Lifecycle!End, Column, TaskPhases
    <3> QED
      BY <3>2 DEF Lifecycle!Next
  <2>3. CASE Abort(r)
    BY <1>6, <2>1, <2>3 DEF Abort
  <2> QED
    BY <1>9, <2>2, <2>3 DEF Finish
<1>10. ASSUME NEW r \in Requests, Decide(r) \/ Mark(r)
       PROVE  [Lifecycle!Next]_(Lifecycle!lifecycle)
  <2>1. /\ UNCHANGED <<up, made, jobs>> /\ phase[r] \in TaskPhases
        /\ \E p \in TaskPhases : Go(r, p)
    BY <1>10 DEF Decide, Mark, TaskPhases, Abort
  <2> QED
    BY <1>p, <2>1 DEF Holding
<1>11. ASSUME NEW r \in Requests, Release(r) PROVE [Lifecycle!Next]_(Lifecycle!lifecycle)
  <2>1. /\ UNCHANGED <<up, made, jobs>> /\ phase[r] \in Holding /\ Go(r, "end")
        /\ "end" \notin Holding
    BY <1>11 DEF Release, tables, Holding, TaskPhases
  <2> QED
    BY <1>l, <2>1
<1>12. CASE Crash
  <2>1. up /\ up' = FALSE /\ jobs' = jobs
    BY <1>12 DEF Crash, tables
  <2>2. ActiveJob' = 0
    <3>1. \A r \in Requests : phase'[r] \notin Holding
      BY <1>12 DEF Crash, Holding, TaskPhases
    <3> QED
      BY <1>k, <3>1 DEF ActiveKnown
  <2>3. Lifecycle!Crash
    BY <2>1, <2>2 DEF Lifecycle!Crash, JobIds
  <2> QED
    BY <2>3 DEF Lifecycle!Next
<1>13. CASE Restart
  <2>1. ~up /\ up' = TRUE /\ UNCHANGED <<phase, made>>
    BY <1>13 DEF Restart
  <2>2. ActiveJob = ActiveJob'
    BY <2>1 DEF ActiveJob
  <2>3. Lifecycle!Restart
    BY <1>13, <2>1, <2>2, ColumnRestarted DEF Lifecycle!Restart, Column
  <2> QED
    BY <2>3 DEF Lifecycle!Next
<1>14. CASE UNCHANGED <<up, phase, made, jobs>>
  BY <1>s, <1>14 DEF ActiveJob
<1> QED
  BY <1>1, <1>2, <1>3, <1>4, <1>5, <1>8, <1>9, <1>10, <1>11, <1>12, <1>13, <1>14
  DEF Next, Cancel, Expire, vars, tables

\* The service with its handlers, slot, write thread, task and crashes lives the
\* abstract life of scan jobs (coordinator.rs:280, 645, 1093).
THEOREM JobsLiveTheLifecycle == Spec => ImplementsLifecycle
<1>1. Init => Lifecycle!Init
  <2> SUFFICES ASSUME Init PROVE Lifecycle!Init
    OBVIOUS
  <2>1. \A r \in Requests : phase[r] \notin Holding
    BY DEF Init, Holding, TaskPhases
  <2>2. ActiveJob = 0
    BY <2>1 DEF ActiveJob
  <2>3. [j \in JobIds |-> jobs[j].state] = <<>>
    BY DEF Init, JobIds
  <2> QED
    BY <2>2, <2>3 DEF Init, Lifecycle!Init
<1>2. /\ TypeInv /\ SlotInv /\ CancelInv /\ LifeInv /\ TypeInv' /\ SlotInv' /\ [Next]_vars
      => [Lifecycle!Next]_(Lifecycle!lifecycle)
  BY StepIsLifecycle
<1> QED
  BY <1>1, <1>2, LifeAlways, PTL DEF Spec, ImplementsLifecycle, Lifecycle!Spec

----------------------------------------------------------------------------
(* Repeated requests *)

JobsOf(k) == {j \in JobIds : jobs[j].key = k}
Rows(table) == {k \in Keys : table[k].job # 0}

\* A record stands for a job of its own key and payload; a key has no more jobs
\* than its records that expired and the one that lives.
LiveRows == \A k \in Keys : dedup[k].live => dedup[k].job # 0
RowFits == \A k \in Keys : dedup[k].job # 0 =>
    /\ dedup[k].job \in JobIds /\ jobs[dedup[k].job].key = k
    /\ jobs[dedup[k].job].payload = dedup[k].payload
JobsCounted == \A k \in Keys :
    Cardinality(JobsOf(k)) <= expiries[k] + (IF dedup[k].live THEN 1 ELSE 0)
RowsBounded == IsFiniteSet(Rows(dedup)) /\ Cardinality(Rows(dedup)) <= DedupLimit

DedupInv == LiveRows /\ RowFits /\ JobsCounted /\ RowsBounded

LEMMA DedupInit == Init => DedupInv
<1> SUFFICES ASSUME Init PROVE DedupInv
  OBVIOUS
<1>1. JobIds = {} /\ Rows(dedup) = {} /\ \A k \in Keys : JobsOf(k) = {}
  BY DEF Init, JobIds, Rows, NoRow, JobsOf
<1>2. \A k \in Keys : dedup[k].job = 0 /\ dedup[k].live = FALSE /\ expiries[k] = 0
  BY DEF Init, NoRow
<1>3. /\ IsFiniteSet(Rows(dedup)) /\ Cardinality(Rows(dedup)) = 0
      /\ \A k \in Keys : Cardinality(JobsOf(k)) = 0
  BY <1>1, FS_EmptySet
<1>4. 0 <= DedupLimit
  BY ConstantsOK
<1> QED
  BY <1>2, <1>3, <1>4 DEF DedupInv, LiveRows, RowFits, JobsCounted, RowsBounded

\* What a step may do to the two tables.
StatesOnly == /\ JobIds' = JobIds
              /\ \A j \in JobIds : jobs'[j].key = jobs[j].key /\ jobs'[j].payload = jobs[j].payload
Commits(r) == /\ phase[r] = "await" /\ ~DedupFull /\ ~KeyTaken(body[r].key) /\ Commit(r)
              /\ UNCHANGED <<body, phase, reply, expiries, promised>>

LEMMA TableSteps ==
  ASSUME TypeInv, LifeInv, [Next]_vars
  PROVE  \/ StatesOnly /\ UNCHANGED <<dedup, expiries, made>>
         \/ \E k \in Keys : Expire(k)
         \/ \E r \in Requests : Commits(r)
<1>1. ASSUME UNCHANGED <<jobs, dedup, expiries, made>>
      PROVE  StatesOnly /\ UNCHANGED <<dedup, expiries, made>>
  BY <1>1 DEF StatesOnly, JobIds
<1>2. ASSUME NEW r \in Requests, Execute(r)
      PROVE  (StatesOnly /\ UNCHANGED <<dedup, expiries, made>>) \/ Commits(r)
  BY <1>1, <1>2 DEF Execute, Commits, tables, outside
<1>3. ASSUME NEW r \in Requests, StartRun(r) \/ Finish(r)
      PROVE  StatesOnly /\ UNCHANGED <<dedup, expiries, made>>
  <2>1. UNCHANGED <<dedup, expiries, made>> /\ made[r] \in JobIds
    BY <1>3 DEF StartRun, Finish, outside, LifeInv, QueuedRows, RunningRows, RowIs
  <2>2. ASSUME NEW s, SetState(r, s) PROVE StatesOnly
    <3>1. jobs[made[r]] \in JobRecord
      BY <2>1, JobTable
    <3>2. /\ JobIds' = JobIds /\ jobs'[made[r]] = [jobs[made[r]] EXCEPT !.state = s]
          /\ \A j \in JobIds : j # made[r] => jobs'[j] = jobs[j]
      BY <2>1, <2>2, StateSet
    <3>3. /\ jobs'[made[r]].key = jobs[made[r]].key
          /\ jobs'[made[r]].payload = jobs[made[r]].payload
      BY <3>1, <3>2 DEF JobRecord
    <3> QED
      BY <3>2, <3>3 DEF StatesOnly
  <2>3. Abort(r) => UNCHANGED jobs
    BY DEF Abort
  <2> QED
    BY <1>1, <1>3, <2>1, <2>2, <2>3 DEF StartRun, Finish
<1>4. CASE Restart
  <2>1. jobs' = [j \in JobIds |-> IF Interruptible(jobs[j].state)
                                  THEN [jobs[j] EXCEPT !.state = "interrupted"] ELSE jobs[j]]
    BY <1>4 DEF Restart
  <2>2. JobIds' = JobIds
    BY <2>1, JobTable DEF JobIds
  <2>3. \A j \in JobIds : jobs'[j].key = jobs[j].key /\ jobs'[j].payload = jobs[j].payload
    BY <2>1, JobTable DEF JobRecord
  <2> QED
    BY <1>4, <2>2, <2>3 DEF Restart, StatesOnly, outside
<1> QED
  BY <1>1, <1>2, <1>3, <1>4
  DEF Next, Refuse, Arrive, Lookup, Reserve, Ask, Submit, Receive, Disconnect, Decide, Mark,
      Release, Abort, Cancel, Crash, vars, tables, outside

\* A commit adds one row to a table that had room, and one job to a key that had no
\* live record.
LEMMA CommitStep ==
  ASSUME TypeInv, LifeInv, DedupInv, TypeInv', NEW r \in Requests, Commits(r),
         NEW k, k = body[r].key
  PROVE  DedupInv'
<1> DEFINE n == Len(jobs) + 1
<1>t. /\ dedup \in [Keys -> [job : Nat, payload : Payloads \cup {None}, live : BOOLEAN]]
      /\ expiries \in [Keys -> Nat] /\ DedupLimit \in Nat
      /\ body[r] \in [key : Keys, payload : Payloads] /\ k \in Keys
  <2>1. body[r] \in Bodies
    BY DEF Commits, TypeInv, BodyKnown, Holding
  <2> QED
    BY <2>1, ConstantsOK DEF TypeInv, TypeOK
<1>1. /\ JobIds' = JobIds \cup {n} /\ n \notin JobIds /\ n # 0
      /\ jobs'[n] = [state |-> "queued", key |-> k, payload |-> body[r].payload]
      /\ \A j \in JobIds : jobs'[j] = jobs[j]
      /\ dedup' = [Purged EXCEPT ![k] =
             [job |-> n, payload |-> body[r].payload, live |-> TRUE]]
      /\ expiries' = expiries
  BY Committed, JobTable DEF Commits
<1>2. jobs'[n].key = k /\ jobs'[n].payload = body[r].payload
  BY <1>1
<1>3. /\ dedup'[k] = [job |-> n, payload |-> body[r].payload, live |-> TRUE]
      /\ \A q \in Keys \ {k} : dedup'[q] = Purged[q]
      /\ \A q \in Keys : Purged[q] = IF dedup[q].live THEN dedup[q] ELSE NoRow
  BY <1>1, <1>t DEF Purged
<1>4. dedup'[k].job = n /\ dedup'[k].payload = body[r].payload /\ dedup'[k].live = TRUE
  BY <1>3
<1>5. ~dedup[k].live
  BY <1>3, <1>t DEF Commits, KeyTaken, DedupInv, LiveRows
<1>6. \A q \in Keys : Purged[q].job # 0 => dedup[q].job # 0 /\ Purged[q] = dedup[q]
  BY <1>3 DEF NoRow
<1>7. LiveRows' /\ RowFits'
  <2>1. ASSUME NEW q \in Keys
        PROVE  /\ dedup'[q].live => dedup'[q].job # 0
               /\ dedup'[q].job # 0 =>
                    /\ dedup'[q].job \in JobIds' /\ jobs'[dedup'[q].job].key = q
                    /\ jobs'[dedup'[q].job].payload = dedup'[q].payload
    <3>1. CASE q = k
      BY <1>1, <1>2, <1>4, <3>1
    <3>2. CASE q # k /\ dedup[q].live
      BY <1>1, <1>3, <3>2 DEF DedupInv, LiveRows, RowFits
    <3>3. CASE q # k /\ ~dedup[q].live
      BY <1>3, <3>3 DEF NoRow
    <3> QED
      BY <3>1, <3>2, <3>3
  <2> QED
    BY <2>1 DEF LiveRows, RowFits
<1>8. JobsCounted'
  <2>f. \A q \in Keys : IsFiniteSet(JobsOf(q)) /\ Cardinality(JobsOf(q)) \in Nat
    <3>1. IsFiniteSet(JobIds)
      BY JobTable, FS_Interval
    <3> QED
      BY <3>1, FS_Subset, FS_CardinalityType DEF JobsOf
  <2>1. ASSUME NEW q \in Keys \ {k}
        PROVE  Cardinality(JobsOf(q)') <= expiries[q] + (IF dedup'[q].live THEN 1 ELSE 0)
    <3>1. JobsOf(q)' = JobsOf(q)
      BY <1>1, <1>2, <2>1 DEF JobsOf
    <3>2. (IF dedup'[q].live THEN 1 ELSE 0) = (IF dedup[q].live THEN 1 ELSE 0)
      <4>1. CASE dedup[q].live
        BY <1>3, <2>1, <4>1
      <4>2. CASE ~dedup[q].live
        BY <1>3, <2>1, <4>2 DEF NoRow
      <4> QED
        BY <4>1, <4>2
    <3>3. Cardinality(JobsOf(q)) <= expiries[q] + (IF dedup[q].live THEN 1 ELSE 0)
      BY DEF DedupInv, JobsCounted
    <3> QED
      BY <3>1, <3>2, <3>3
  <2>2. Cardinality(JobsOf(k)') <= expiries[k] + 1
    <3>1. JobsOf(k)' = JobsOf(k) \cup {n} /\ n \notin JobsOf(k)
      BY <1>1, <1>2 DEF JobsOf
    <3>2. Cardinality(JobsOf(k)') = Cardinality(JobsOf(k)) + 1
      BY <1>t, <2>f, <3>1, FS_AddElement
    <3>3. Cardinality(JobsOf(k)) <= expiries[k]
      BY <1>t, <1>5, <2>f DEF DedupInv, JobsCounted
    <3> QED
      BY <1>t, <2>f, <3>2, <3>3
  <2> QED
    <3>1. ASSUME NEW q \in Keys
          PROVE  Cardinality(JobsOf(q)') <= expiries'[q] + (IF dedup'[q].live THEN 1 ELSE 0)
      <4>1. CASE q = k
        <5>1. (IF dedup'[k].live THEN 1 ELSE 0) = 1
          BY <1>4
        <5> QED
          BY <1>1, <2>2, <4>1, <5>1
      <4>2. CASE q # k
        BY <1>1, <2>1, <4>2
      <4> QED
        BY <4>1, <4>2
    <3> QED
      BY <3>1 DEF JobsCounted
<1>9. RowsBounded'
  <2>1. IsFiniteSet(Rows(Purged)) /\ Cardinality(Rows(Purged)) \in Nat
    <3>1. Rows(Purged) \subseteq Rows(dedup)
      BY <1>6 DEF Rows
    <3> QED
      BY <3>1, FS_Subset, FS_CardinalityType DEF DedupInv, RowsBounded
  <2>2. Cardinality(Rows(Purged)) < DedupLimit
    BY <1>t, <2>1 DEF Commits, DedupFull, RowsIn, Rows
  <2>3. k \notin Rows(Purged)
    BY DEF Commits, KeyTaken, Rows
  <2>4. Rows(dedup') = Rows(Purged) \cup {k}
    BY <1>t, <1>1, <1>3, <1>4 DEF Rows
  <2>5. /\ IsFiniteSet(Rows(dedup'))
        /\ Cardinality(Rows(dedup')) = Cardinality(Rows(Purged)) + 1
    <3>1. /\ IsFiniteSet(Rows(Purged) \cup {k})
          /\ Cardinality(Rows(Purged) \cup {k}) =
                 IF k \in Rows(Purged) THEN Cardinality(Rows(Purged))
                                       ELSE Cardinality(Rows(Purged)) + 1
      BY <2>1, FS_AddElement, Zenon
    <3> QED
      BY <2>3, <2>4, <3>1
  <2> QED
    BY <1>t, <2>1, <2>2, <2>5 DEF RowsBounded
<1> QED
  BY <1>7, <1>8, <1>9 DEF DedupInv

LEMMA ExpireStep ==
  ASSUME TypeInv, DedupInv, NEW k \in Keys, Expire(k)
  PROVE  DedupInv'
<1>t. /\ dedup \in [Keys -> [job : Nat, payload : Payloads \cup {None}, live : BOOLEAN]]
      /\ expiries \in [Keys -> Nat]
  BY DEF TypeInv, TypeOK
<1>1. /\ dedup[k].live /\ dedup' = [dedup EXCEPT ![k].live = FALSE]
      /\ expiries' = [expiries EXCEPT ![k] = @ + 1] /\ jobs' = jobs
  BY DEF Expire
<1>2. dedup[k] \in [job : Nat, payload : Payloads \cup {None}, live : BOOLEAN]
  BY <1>t
<1>3. /\ dedup'[k].job = dedup[k].job /\ dedup'[k].payload = dedup[k].payload
      /\ dedup'[k].live = FALSE
  <2>1. dedup'[k] = [dedup[k] EXCEPT !.live = FALSE]
    BY <1>t, <1>1
  <2> QED
    BY <1>2, <2>1
<1>4. \A q \in Keys \ {k} : dedup'[q] = dedup[q] /\ expiries'[q] = expiries[q]
  BY <1>t, <1>1
<1>5. \A q \in Keys : dedup'[q].job = dedup[q].job /\ dedup'[q].payload = dedup[q].payload
  BY <1>3, <1>4
<1>6. JobIds' = JobIds /\ \A q \in Keys : JobsOf(q)' = JobsOf(q)
  BY <1>1 DEF JobIds, JobsOf
<1>7. LiveRows' /\ RowFits'
  BY <1>1, <1>3, <1>4, <1>5, <1>6 DEF DedupInv, LiveRows, RowFits
<1>8. JobsCounted'
  <2>1. ASSUME NEW q \in Keys
        PROVE  Cardinality(JobsOf(q)) <= expiries'[q] + (IF dedup'[q].live THEN 1 ELSE 0)
    <3>1. Cardinality(JobsOf(q)) <= expiries[q] + (IF dedup[q].live THEN 1 ELSE 0)
      BY DEF DedupInv, JobsCounted
    <3>2. CASE q = k
      <4>1. expiries'[k] = expiries[k] + 1
        BY <1>t, <1>1
      <4>2. (IF dedup[k].live THEN 1 ELSE 0) = 1 /\ (IF dedup'[k].live THEN 1 ELSE 0) = 0
        BY <1>1, <1>3
      <4>3. Cardinality(JobsOf(k)) <= expiries[k] + 1
        BY <3>1, <3>2, <4>2
      <4>4. expiries'[k] + 0 = expiries[k] + 1
        BY <1>t, <4>1
      <4> QED
        BY <3>2, <4>2, <4>3, <4>4
    <3>3. CASE q # k
      BY <1>4, <3>1, <3>3
    <3> QED
      BY <3>2, <3>3
  <2> QED
    BY <1>6, <2>1 DEF JobsCounted
<1>9. RowsBounded'
  <2>1. Rows(dedup') = Rows(dedup)
    BY <1>5 DEF Rows
  <2> QED
    BY <2>1 DEF DedupInv, RowsBounded
<1> QED
  BY <1>7, <1>8, <1>9 DEF DedupInv

LEMMA DedupNext == TypeInv /\ TypeInv' /\ LifeInv /\ DedupInv /\ [Next]_vars => DedupInv'
<1> SUFFICES ASSUME TypeInv, TypeInv', LifeInv, DedupInv, [Next]_vars PROVE DedupInv'
  OBVIOUS
<1>1. CASE StatesOnly /\ UNCHANGED <<dedup, expiries, made>>
  <2>1. \A k \in Keys : JobsOf(k)' = JobsOf(k)
    BY <1>1 DEF StatesOnly, JobsOf
  <2> QED
    BY <1>1, <2>1 DEF DedupInv, LiveRows, RowFits, JobsCounted, RowsBounded, StatesOnly
<1> QED
  BY <1>1, TableSteps, CommitStep, ExpireStep

----------------------------------------------------------------------------
(* Answers *)

\* No step takes a job away or changes what it was created for.
LEMMA RowsKept ==
  ASSUME TypeInv, LifeInv, [Next]_vars
  PROVE  \A j \in JobIds : /\ j \in JobIds' /\ jobs'[j].key = jobs[j].key
                           /\ jobs'[j].payload = jobs[j].payload
<1>1. CASE StatesOnly
  BY <1>1 DEF StatesOnly
<1>2. ASSUME NEW k \in Keys, Expire(k)
      PROVE  jobs' = jobs /\ JobIds' = JobIds
  BY <1>2 DEF Expire, JobIds
<1>3. ASSUME NEW r \in Requests, Commits(r)
      PROVE  \A j \in JobIds : j \in JobIds' /\ jobs'[j] = jobs[j]
  BY <1>3, Committed DEF Commits
<1> QED
  BY <1>1, <1>2, <1>3, TableSteps

\* A job that a request's transaction made, or that a live record held for it when it
\* arrived, has its key and payload; so has the job a client was told of.
MadeFits == \A r \in Requests : made[r] # 0 =>
    /\ made[r] \in JobIds /\ jobs[made[r]].key = body[r].key
    /\ jobs[made[r]].payload = body[r].payload
PromisedFits == \A r \in Requests : promised[r] # 0 =>
    /\ body[r] \in Bodies /\ promised[r] \in JobIds
    /\ jobs[promised[r]].payload = body[r].payload

\* The record that stood for the request's job is no more. It does not come back:
\* a later record of the key stands for a later job.
Past(r) == \/ promised[r] = 0 \/ ~dedup[body[r].key].live
           \/ dedup[body[r].key].job # promised[r]

Fitting(j, r) == /\ j \in JobIds /\ jobs[j].key = body[r].key
                 /\ jobs[j].payload = body[r].payload

\* Before its lookup a request was told nothing; beyond it, and until its own row is
\* committed, the promise is past; what it was told fits it and the promise.
Beyond == {"reserve", "ask", "submit", "await"}
Fine(r) == /\ phase[r] \in {"new", "lookup"} => reply[r] = NoReply
           /\ phase[r] = "new" => promised[r] = 0
           /\ phase[r] \in Beyond => Past(r)
           /\ reply[r].code = "accepted" => Fitting(reply[r].job, r)
           /\ \/ Past(r) \/ reply[r].code \in {"none", "gone", "error"}
              \/ reply[r] = [code |-> "accepted", job |-> promised[r]]

AnswerInv == MadeFits /\ PromisedFits /\ \A r \in Requests : Fine(r)

LEMMA AnswerInit == Init => AnswerInv
<1> SUFFICES ASSUME Init PROVE AnswerInv
  OBVIOUS
<1>1. \A r \in Requests : /\ made[r] = 0 /\ promised[r] = 0 /\ phase[r] = "new"
                          /\ reply[r] = NoReply /\ reply[r].code = "none"
  BY DEF Init, NoReply
<1> QED
  BY <1>1 DEF AnswerInv, MadeFits, PromisedFits, Fine, Past, Beyond

\* A step that leaves the body and the promise of a request alone leaves what is
\* past for it past.
LEMMA PastStays ==
  ASSUME TypeInv, LifeInv, [Next]_vars, PromisedFits, NEW r \in Requests, Past(r),
         body'[r] = body[r], promised'[r] = promised[r]
  PROVE  Past(r)'
<1> SUFFICES ASSUME promised[r] # 0 PROVE Past(r)'
  BY DEF Past
<1> DEFINE k == body[r].key
<1>1. k \in Keys /\ dedup \in [Keys -> [job : Nat, payload : Payloads \cup {None},
                                        live : BOOLEAN]]
  BY ConstantsOK DEF TypeInv, TypeOK, PromisedFits
<1>2. CASE dedup' = dedup
  BY <1>2 DEF Past
<1>3. ASSUME NEW e \in Keys, Expire(e) PROVE Past(r)'
  <2>1. dedup' = [dedup EXCEPT ![e].live = FALSE]
    BY <1>3 DEF Expire
  <2>2. dedup[k] \in [job : Nat, payload : Payloads \cup {None}, live : BOOLEAN]
    BY <1>1
  <2>3. (dedup'[k] = [dedup[k] EXCEPT !.live = FALSE]) \/ dedup'[k] = dedup[k]
    BY <1>1, <2>1
  <2>4. dedup'[k].live = FALSE \/ dedup'[k] = dedup[k]
    BY <2>2, <2>3
  <2> QED
    BY <2>4 DEF Past
<1>4. ASSUME NEW q \in Requests, Commits(q) PROVE Past(r)'
  <2>1. /\ Len(jobs) + 1 \notin JobIds
        /\ dedup' = [Purged EXCEPT ![body[q].key] =
                [job |-> Len(jobs) + 1, payload |-> body[q].payload, live |-> TRUE]]
    BY <1>4, Committed DEF Commits
  <2>2. promised[r] # 0 => promised[r] # Len(jobs) + 1
    BY <2>1 DEF PromisedFits
  <2>3. Purged[k] = (IF dedup[k].live THEN dedup[k] ELSE NoRow)
    BY <1>1 DEF Purged
  <2>4. CASE k = body[q].key
    <3>1. dedup'[k] = [job |-> Len(jobs) + 1, payload |-> body[q].payload, live |-> TRUE]
      BY <1>1, <2>1, <2>4 DEF Purged
    <3>2. dedup'[k].job = Len(jobs) + 1
      BY <3>1
    <3> QED
      BY <2>2, <3>2 DEF Past
  <2>5. CASE k # body[q].key
    <3>1. dedup'[k] = Purged[k]
      BY <1>1, <2>1, <2>5 DEF Purged
    <3> QED
      BY <2>3, <3>1 DEF Past, NoRow
  <2> QED
    BY <2>4, <2>5
<1> QED
  BY <1>2, <1>3, <1>4, TableSteps

LEMMA MadeSteps ==
  ASSUME TypeInv, LifeInv, CancelInv, MadeFits, [Next]_vars
  PROVE  MadeFits'
<1>1. ASSUME NEW r \in Requests, made'[r] = made[r], body'[r] = body[r], made[r] # 0
      PROVE  /\ made'[r] \in JobIds' /\ jobs'[made'[r]].key = body'[r].key
             /\ jobs'[made'[r]].payload = body'[r].payload
  BY <1>1, RowsKept DEF MadeFits
<1>t. body \in [Requests -> Bodies \cup {NoBody}] /\ made \in [Requests -> Nat]
  BY DEF TypeInv, TypeOK
<1>2. CASE UNCHANGED <<made, body>>
  BY <1>1, <1>2 DEF MadeFits
<1>3. ASSUME NEW r \in Requests, Arrive(r) PROVE MadeFits'
  <2>1. made' = made /\ made[r] = 0 /\ \A q \in Requests \ {r} : body'[q] = body[q]
    BY <1>t, <1>3 DEF Arrive, tables, CancelInv, MadeOnce, Fresh
  <2> QED
    BY <1>1, <2>1 DEF MadeFits
<1>4. ASSUME NEW r \in Requests, Commits(r) PROVE MadeFits'
  <2>1. /\ made' = [made EXCEPT ![r] = Len(jobs) + 1] /\ body' = body
        /\ Len(jobs) + 1 \in JobIds'
        /\ jobs'[Len(jobs) + 1] = [state |-> "queued", key |-> body[r].key,
                                   payload |-> body[r].payload]
    BY <1>4, Committed DEF Commits
  <2>2. /\ jobs'[Len(jobs) + 1].key = body[r].key
        /\ jobs'[Len(jobs) + 1].payload = body[r].payload
    BY <2>1
  <2> QED
    BY <1>t, <1>1, <2>1, <2>2 DEF MadeFits
<1>5. ASSUME NEW r \in Requests, Execute(r) PROVE UNCHANGED <<made, body>> \/ Commits(r)
  BY <1>5 DEF Execute, Commits, tables, outside
<1> QED
  BY <1>2, <1>3, <1>4, <1>5
  DEF Next, Refuse, Lookup, Reserve, Ask, Submit, Receive, Disconnect, StartRun, Decide, Mark,
      Finish, Release, Abort, Cancel, Expire, Crash, Restart, vars, tables, outside

LEMMA PromisedSteps ==
  ASSUME TypeInv, LifeInv, DedupInv, PromisedFits, [Next]_vars
  PROVE  PromisedFits'
<1>1. ASSUME NEW r \in Requests, promised'[r] = promised[r], body'[r] = body[r],
             promised[r] # 0
      PROVE  /\ body'[r] \in Bodies /\ promised'[r] \in JobIds'
             /\ jobs'[promised'[r]].payload = body'[r].payload
  BY <1>1, RowsKept DEF PromisedFits
<1>2. CASE UNCHANGED <<promised, body>>
  BY <1>1, <1>2 DEF PromisedFits
<1>3. ASSUME NEW r \in Requests, Arrive(r) PROVE PromisedFits'
  <2>1. PICK b \in Bodies :
           /\ body' = [body EXCEPT ![r] = b]
           /\ promised' = [promised EXCEPT ![r] =
                  LET row == dedup[b.key] IN
                  IF row.live /\ row.payload = b.payload THEN row.job ELSE 0]
    BY <1>3 DEF Arrive
  <2>2. jobs' = jobs /\ JobIds' = JobIds
    BY <1>3 DEF Arrive, tables, JobIds
  <2>3. /\ \A q \in Requests \ {r} : body'[q] = body[q] /\ promised'[q] = promised[q]
        /\ body'[r] = b
        /\ promised'[r] = IF dedup[b.key].live /\ dedup[b.key].payload = b.payload
                          THEN dedup[b.key].job ELSE 0
    BY <2>1 DEF TypeInv, TypeOK
  <2>4. b.key \in Keys
    BY ConstantsOK
  <2>5. promised'[r] # 0 => /\ body'[r] \in Bodies /\ promised'[r] \in JobIds'
                            /\ jobs'[promised'[r]].payload = body'[r].payload
    BY <2>2, <2>3, <2>4 DEF DedupInv, RowFits
  <2> QED
    BY <1>1, <2>3, <2>5 DEF PromisedFits
<1> QED
  BY <1>2, <1>3
  DEF Next, Refuse, Lookup, Reserve, Ask, Submit, Execute, Receive, Disconnect, StartRun, Decide,
      Mark, Finish, Release, Abort, Cancel, Expire, Crash, Restart, vars, tables, outside
LEMMA FineStep ==
  ASSUME TypeInv, LifeInv, PromisedFits, [Next]_vars, NEW r \in Requests, Fine(r),
         body'[r] = body[r], promised'[r] = promised[r],
         phase'[r] \in {"new", "lookup"} => phase'[r] = phase[r] /\ reply'[r] = reply[r],
         phase'[r] \in Beyond => Past(r),
         \/ reply'[r] = reply[r]
         \/ reply'[r].code # "accepted" /\ (Past(r) \/ reply'[r].code \in {"gone", "error"})
         \/ \E j : /\ reply'[r] = [code |-> "accepted", job |-> j] /\ Fitting(j, r)
                   /\ Past(r) \/ j = promised[r]
  PROVE  Fine(r)'
<1>1. Past(r) => Past(r)'
  BY PastStays
<1>2. \A j : Fitting(j, r) => Fitting(j, r)'
  BY RowsKept DEF Fitting
<1>3. /\ phase'[r] \in {"new", "lookup"} => reply'[r] = NoReply
      /\ phase'[r] = "new" => promised'[r] = 0
      /\ phase'[r] \in Beyond => Past(r)'
  BY <1>1 DEF Fine
<1>4. CASE reply'[r] = reply[r]
  BY <1>1, <1>2, <1>3, <1>4 DEF Fine
<1>5. CASE reply'[r].code # "accepted" /\ (Past(r) \/ reply'[r].code \in {"gone", "error"})
  BY <1>1, <1>3, <1>5 DEF Fine
<1>6. ASSUME NEW j, reply'[r] = [code |-> "accepted", job |-> j], Fitting(j, r),
             Past(r) \/ j = promised[r]
      PROVE  Fine(r)'
  <2>1. reply'[r].code = "accepted" /\ reply'[r].job = j
    BY <1>6
  <2> QED
    BY <1>1, <1>2, <1>3, <1>6, <2>1 DEF Fine
<1>7. CASE \E j : /\ reply'[r] = [code |-> "accepted", job |-> j] /\ Fitting(j, r)
                  /\ Past(r) \/ j = promised[r]
  BY <1>6, <1>7
<1> QED
  BY <1>4, <1>5, <1>7

LEMMA FineNext ==
  ASSUME TypeInv, LifeInv, DedupInv, AnswerInv, [Next]_vars, NEW q \in Requests
  PROVE  Fine(q)'
<1>t. /\ phase \in [Requests -> Phases] /\ reply \in [Requests -> [code : Codes, job : Nat]]
      /\ body \in [Requests -> Bodies \cup {NoBody}] /\ promised \in [Requests -> Nat]
      /\ dedup \in [Keys -> [job : Nat, payload : Payloads \cup {None}, live : BOOLEAN]]
  BY DEF TypeInv, TypeOK
<1>f. Fine(q) /\ PromisedFits
  BY DEF AnswerInv
\* A step of another request, or of none.
<1>o. ASSUME phase'[q] = phase[q], reply'[q] = reply[q], body'[q] = body[q],
             promised'[q] = promised[q]
      PROVE  Fine(q)'
  BY <1>f, <1>o, FineStep DEF Fine
\* A step of the request that tells its client nothing.
<1>m. ASSUME NEW p, Go(q, p), UNCHANGED <<reply, body, promised>>,
             p \notin {"new", "lookup"}, p \in Beyond => Past(q)
      PROVE  Fine(q)'
  <2>1. phase'[q] = p
    BY <1>t, <1>m DEF Go
  <2> QED
    BY <1>f, <1>m, <2>1, FineStep
\* Or one that answers.
<1>a. ASSUME NEW code, NEW j, Answer(q, code, j), UNCHANGED <<body, promised>>,
             \/ code # "accepted" /\ (Past(q) \/ code \in {"gone", "error"})
             \/ code = "accepted" /\ Fitting(j, q) /\ (Past(q) \/ j = promised[q])
      PROVE  Fine(q)'
  <2>1. phase'[q] = "end" /\ reply'[q] = [code |-> code, job |-> j] /\ reply'[q].code = code
    BY <1>t, <1>a DEF Answer, Go, Tell
  <2> QED
    BY <1>f, <1>a, <2>1, FineStep DEF Beyond
<1>n. ASSUME NEW r \in Requests, r # q,
             (\E p : Go(r, p)) \/ UNCHANGED phase,
             (\E code, j : Tell(r, code, j)) \/ UNCHANGED reply,
             (\E b : body' = [body EXCEPT ![r] = b]) \/ UNCHANGED body,
             (\E x : promised' = [promised EXCEPT ![r] = x]) \/ UNCHANGED promised
      PROVE  Fine(q)'
  <2>1. phase'[q] = phase[q]
    BY <1>t, <1>n DEF Go
  <2>2. reply'[q] = reply[q]
    BY <1>t, <1>n DEF Tell
  <2>3. body'[q] = body[q]
    BY <1>t, <1>n
  <2>4. promised'[q] = promised[q]
    BY <1>t, <1>n
  <2> QED
    BY <1>o, <2>1, <2>2, <2>3, <2>4
<1>1. ASSUME Refuse(q) PROVE Fine(q)'
  BY <1>1, <1>a, <1>f DEF Refuse, Fine, Past
<1>2. ASSUME Arrive(q) PROVE Fine(q)'
  <2>1. phase'[q] = "lookup" /\ reply'[q] = reply[q] /\ reply[q] = NoReply
    BY <1>2, <1>t, <1>f DEF Arrive, Go, FirstAwait, Fine
  <2> QED
    BY <2>1 DEF Fine, NoReply, Beyond
<1>3. ASSUME Lookup(q) PROVE Fine(q)'
  <2> DEFINE row == dedup[body[q].key]
  <2>1. body[q] \in Bodies /\ body[q].key \in Keys /\ UNCHANGED <<body, promised>>
    BY <1>3, ConstantsOK DEF Lookup, TypeInv, BodyKnown
  <2>2. row.live => /\ row.job \in JobIds /\ jobs[row.job].key = body[q].key
                    /\ jobs[row.job].payload = row.payload
    BY <2>1 DEF DedupInv, LiveRows, RowFits
  <2>3. CASE Answer(q, "error", 0)
    BY <1>a, <2>1, <2>3
  <2>4. CASE row.live /\ SameHash(row, q) /\ Answer(q, "accepted", row.job)
    <3>1. Fitting(row.job, q)
      BY <2>2, <2>4 DEF Fitting, SameHash
    <3>2. Past(q) \/ row.job = promised[q]
      BY DEF Past
    <3> QED
      BY <1>a, <2>1, <2>4, <3>1, <3>2
  <2>5. CASE row.live /\ ~SameHash(row, q) /\ Answer(q, "conflict", 0)
    <3>1. Past(q)
      BY <1>f, <2>2, <2>5 DEF Past, PromisedFits, SameHash
    <3> QED
      BY <1>a, <2>1, <2>5, <3>1
  <2>6. CASE ~row.live /\ Go(q, "reserve") /\ UNCHANGED reply
    BY <1>m, <2>1, <2>6 DEF Past
  <2> QED
    BY <1>3, <2>3, <2>4, <2>5, <2>6 DEF Lookup
<1>4. ASSUME Reserve(q) \/ Ask(q) \/ Submit(q) PROVE Fine(q)'
  <2>1. phase[q] \in Beyond /\ Past(q) /\ UNCHANGED <<body, promised>>
    BY <1>4, <1>f DEF Reserve, Ask, Submit, Beyond, Fine
  <2> QED
    BY <1>4, <1>a, <1>m, <2>1 DEF Reserve, Ask, Submit
<1>5. ASSUME Execute(q) PROVE Fine(q)'
  <2>1. UNCHANGED <<reply, body, promised>> /\ (Go(q, "end") \/ UNCHANGED phase)
    BY <1>5 DEF Execute
  <2> QED
    BY <1>m, <1>o, <2>1 DEF Beyond
<1>6. ASSUME Receive(q) PROVE Fine(q)'
  <2>1. phase[q] = "await" /\ Past(q) /\ UNCHANGED <<body, promised>>
    BY <1>6, <1>f DEF Receive, Beyond, Fine
  <2>2. CASE write[q] = "ok" /\ Go(q, "spawned") /\ Tell(q, "accepted", made[q])
    <3>1. made[q] \in JobIds /\ made[q] # 0
      BY <2>2, JobTable DEF LifeInv, QueuedRows, RowIs
    <3>2. Fitting(made[q], q)
      BY <3>1 DEF AnswerInv, MadeFits, Fitting
    <3>3. phase'[q] = "spawned" /\ reply'[q] = [code |-> "accepted", job |-> made[q]]
      BY <1>t, <2>2 DEF Go, Tell
    <3> QED
      BY <1>f, <2>1, <3>2, <3>3, FineStep DEF Beyond
  <2>3. CASE Answer(q, "conflict", 0) \/ Answer(q, "error", 0)
    BY <1>a, <2>1, <2>3
  <2> QED
    BY <1>6, <2>2, <2>3 DEF Receive
<1>7. ASSUME Disconnect(q) PROVE Fine(q)'
  <2>1. /\ phase'[q] \in {"dropped", "end"} /\ reply'[q] = [code |-> "gone", job |-> 0]
        /\ body' = body /\ promised' = promised
    BY <1>7, <1>t DEF Disconnect, Go, Tell
  <2>2. reply'[q].code = "gone"
    BY <2>1
  <2> QED
    BY <1>f, <2>1, <2>2, FineStep DEF Beyond
<1>8. ASSUME StartRun(q) \/ Decide(q) \/ Mark(q) \/ Finish(q) \/ Release(q)
      PROVE  Fine(q)'
  <2>1. /\ UNCHANGED <<reply, body, promised>>
        /\ \E p \in {"scanning", "marking", "ending", "releasing", "end"} : Go(q, p)
    BY <1>8 DEF StartRun, Decide, Mark, Finish, Release, Abort
  <2> QED
    BY <1>m, <2>1 DEF Beyond
<1>9. CASE Crash
  <2>1. /\ body'[q] = body[q] /\ promised'[q] = promised[q]
        /\ phase'[q] = IF phase[q] = "new" THEN "new" ELSE "end"
        /\ reply'[q] = IF phase[q] # "new" /\ reply[q] = NoReply
                       THEN [code |-> "gone", job |-> 0] ELSE reply[q]
    BY <1>9 DEF Crash, outside
  <2>2. CASE phase[q] = "new"
    BY <1>o, <2>1, <2>2
  <2>3. CASE phase[q] # "new"
    <3>1. reply'[q] = reply[q] \/ reply'[q].code = "gone"
      BY <2>1, <2>3
    <3> QED
      BY <1>f, <2>1, <2>3, <3>1, FineStep DEF Beyond
  <2> QED
    BY <2>2, <2>3
<1>10. CASE UNCHANGED <<phase, reply, body, promised>>
  BY <1>o, <1>10
<1>11. ASSUME NEW r \in Requests, r # q,
              \/ Refuse(r) \/ Arrive(r) \/ Lookup(r) \/ Reserve(r) \/ Ask(r) \/ Submit(r)
              \/ Execute(r) \/ Receive(r) \/ Disconnect(r) \/ StartRun(r) \/ Decide(r)
              \/ Mark(r) \/ Finish(r) \/ Release(r)
       PROVE  Fine(q)'
  <2>1. /\ (\E p : Go(r, p)) \/ UNCHANGED phase
        /\ (\E code, j : Tell(r, code, j)) \/ UNCHANGED reply
        /\ (\E b : body' = [body EXCEPT ![r] = b]) \/ UNCHANGED body
        /\ (\E x : promised' = [promised EXCEPT ![r] = x]) \/ UNCHANGED promised
    BY <1>11 DEF Refuse, Arrive, Lookup, Reserve, Ask, Submit, Execute, Receive, Disconnect,
         StartRun, Decide, Mark, Finish, Release, Abort, Answer
  <2> QED
    BY <1>11, <1>n, <2>1
<1> QED
  BY <1>1, <1>2, <1>3, <1>4, <1>5, <1>6, <1>7, <1>8, <1>9, <1>10, <1>11
  DEF Next, Cancel, Expire, Restart, vars

LEMMA AnswerNext ==
  TypeInv /\ CancelInv /\ LifeInv /\ DedupInv /\ AnswerInv /\ [Next]_vars => AnswerInv'
  BY MadeSteps, PromisedSteps, FineNext DEF AnswerInv

\* Repeating a request is safe, for any keys, payloads and limit (coordinator.rs:787).
THEOREM RepeatsAreSafe == Spec => []Idempotent
<1>1. TypeInv /\ DedupInv /\ AnswerInv => Idempotent
  <2> SUFFICES ASSUME TypeInv, DedupInv, AnswerInv PROVE Idempotent
    OBVIOUS
  <2>1. OneJobPerKey
    <3>1. SUFFICES ASSUME NEW k \in Keys
                   PROVE  Cardinality(JobsOf(k)) <= 1 + expiries[k]
      BY DEF OneJobPerKey, JobsOf
    <3>2. IsFiniteSet(JobIds)
      BY JobTable, FS_Interval
    <3>3. Cardinality(JobsOf(k)) \in Nat /\ expiries[k] \in Nat
      BY <3>2, FS_Subset, FS_CardinalityType DEF JobsOf, TypeInv, TypeOK
    <3>4. Cardinality(JobsOf(k)) <= expiries[k] + (IF dedup[k].live THEN 1 ELSE 0)
      BY DEF DedupInv, JobsCounted
    <3> QED
      BY <3>3, <3>4
  <2>2. AnswerFitsRequest
    BY DEF AnswerInv, Fine, Fitting, AnswerFitsRequest
  <2>3. RetryGetsItsAnswer
    BY DEF AnswerInv, Fine, Past, RetryGetsItsAnswer
  <2>4. RowsIn(dedup) <= DedupLimit
    BY DEF DedupInv, RowsBounded, RowsIn, Rows
  <2> QED
    BY <2>1, <2>2, <2>3, <2>4 DEF Idempotent
<1> QED
  BY TypeInit, TypeNext, SlotInit, SlotNext, CancelInit, CancelNext, LifeInit, LifeNext,
     DedupInit, DedupNext, AnswerInit, AnswerNext, <1>1, PTL DEF Spec

============================================================================
