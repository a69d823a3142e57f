--------------------------- MODULE DbQueue_proofs ---------------------------
(***************************************************************************)
(* For any commands, queues and threads: what the caller of a write was    *)
(* told is what happened to the tables, and the byte counter counts the    *)
(* bytes that are queued or on their way in or out.                        *)
(*                                                                         *)
(* The invariant follows a write on its way. It is in the queue once or in *)
(* the thread's hand, never both, and only while its caller waits or has   *)
(* left; until the closure has run it is not in the log, and afterwards it *)
(* is nowhere but in the hand, with a result that says whether it is.      *)
(*                                                                         *)
(* So the three places where bytes are counted, a caller that reserved, the*)
(* queue and the hand before its deduction, never hold the same write, and *)
(* every step that moves the counter moves one write in or out of them.    *)
(*                                                                         *)
(* A read is refused only when no queue has room, or none is open.         *)
(***************************************************************************)
EXTENDS DbQueue, FiniteSetTheorems, WellFoundedInduction, TLAPS

Calls == {"new", "reserved", "refused", "waiting", "told", "gone"}
Working == {"taken", "ready", "reply"}

Typed ==
    /\ call \in [Commands -> Calls] /\ answer \in [Commands -> Answers]
    /\ wqueue \in Seq(Writes) /\ log \in Seq(Writes)
    /\ writer \in Hands(Working \cup {"recv", "exited"})
    /\ rqueue \in [Threads -> Seq(Reads)]
    /\ reader \in [Threads -> Hands({"recv", "ready", "reply", "exited"})]

\* The commands in the hands of threads are of their kind.
HandsInv ==
    /\ writer.at \in Working => writer.cmd \in Writes
    /\ \A t \in Threads : reader[t].at \in {"ready", "reply"} => reader[t].cmd \in Reads

InQueue(w) == \E i \in 1 .. Len(wqueue) : wqueue[i] = w
InHand(w) == writer.at \in Working /\ writer.cmd = w
Done(w) == \E i \in 1 .. Len(log) : log[i] = w

Once(s) == \A i, j \in 1 .. Len(s) : s[i] = s[j] => i = j

Life(w) ==
    /\ InQueue(w) \/ InHand(w) => call[w] \in {"waiting", "gone"}
    /\ InQueue(w) => ~InHand(w)
    /\ InQueue(w) \/ (InHand(w) /\ writer.at # "reply") => ~Done(w)
    /\ InHand(w) /\ writer.at = "reply" =>
         writer.result \in {"ok", "failed"} /\ (writer.result = "ok" <=> Done(w))
    /\ call[w] \in {"new", "reserved", "refused"} => ~Done(w)
    /\ call[w] \in {"new", "reserved", "waiting", "gone"} => answer[w] = "none"
    /\ answer[w] = "ok" => Done(w)
    /\ answer[w] \notin {"none", "ok"} => ~Done(w)

Inv == /\ Typed /\ HandsInv /\ Once(wqueue) /\ Once(log)
       /\ \A w \in Writes : Life(w)

----------------------------------------------------------------------------
(* Functions and sequences *)

LEMMA Put ==
  ASSUME NEW S, NEW T, NEW f \in [S -> T], NEW x \in S, NEW v \in T,
         NEW g, g = [f EXCEPT ![x] = v]
  PROVE  g \in [S -> T] /\ g[x] = v /\ \A y \in S : y # x => g[y] = f[y]
  OBVIOUS

LEMMA Appended ==
  ASSUME NEW S, NEW s \in Seq(S), NEW x \in S
  PROVE  /\ Append(s, x) \in Seq(S) /\ Len(Append(s, x)) = Len(s) + 1
         /\ Append(s, x)[Len(s) + 1] = x
         /\ \A i \in 1 .. Len(s) : Append(s, x)[i] = s[i]
         /\ Len(s) \in Nat
  OBVIOUS

LEMMA Taken ==
  ASSUME NEW S, NEW s \in Seq(S), s # <<>>
  PROVE  /\ Tail(s) \in Seq(S) /\ Head(s) \in S /\ Head(s) = s[1]
         /\ Len(s) \in Nat /\ Len(s) >= 1
         /\ Len(Tail(s)) = Len(s) - 1
         /\ \A i \in 1 .. Len(Tail(s)) : i + 1 \in 1 .. Len(s) /\ Tail(s)[i] = s[i + 1]
         /\ \A i \in 2 .. Len(s) : i - 1 \in 1 .. Len(Tail(s)) /\ Tail(s)[i - 1] = s[i]
  OBVIOUS

LEMMA AppendedOnce ==
  ASSUME NEW S, NEW s \in Seq(S), NEW x \in S, Once(s), \A i \in 1 .. Len(s) : s[i] # x
  PROVE  Once(Append(s, x))
<1>1. SUFFICES ASSUME NEW i \in 1 .. Len(Append(s, x)), NEW j \in 1 .. Len(Append(s, x)),
                      Append(s, x)[i] = Append(s, x)[j]
               PROVE  i = j
  BY DEF Once
<1>2. i \in 1 .. Len(s) \/ i = Len(s) + 1
  BY Appended
<1>3. j \in 1 .. Len(s) \/ j = Len(s) + 1
  BY Appended
<1>4. CASE i \in 1 .. Len(s) /\ j \in 1 .. Len(s)
  BY <1>1, <1>4, Appended DEF Once
<1>5. CASE i = Len(s) + 1 /\ j \in 1 .. Len(s)
  BY <1>1, <1>5, Appended
<1>6. CASE i \in 1 .. Len(s) /\ j = Len(s) + 1
  BY <1>1, <1>6, Appended
<1> QED
  BY <1>2, <1>3, <1>4, <1>5, <1>6

LEMMA TakenOnce ==
  ASSUME NEW S, NEW s \in Seq(S), s # <<>>, Once(s)
  PROVE  Once(Tail(s)) /\ \A i \in 1 .. Len(Tail(s)) : Tail(s)[i] # Head(s)
<1>1. \A i \in 1 .. Len(Tail(s)) : Tail(s)[i] # Head(s)
  <2>1. SUFFICES ASSUME NEW i \in 1 .. Len(Tail(s)), Tail(s)[i] = Head(s) PROVE FALSE
    OBVIOUS
  <2>2. s[i + 1] = s[1] /\ i + 1 \in 1 .. Len(s) /\ 1 \in 1 .. Len(s)
    BY <2>1, Taken
  <2>3. i + 1 = 1
    BY <2>2 DEF Once
  <2> QED
    BY <2>3
<1>2. Once(Tail(s))
  <2>1. SUFFICES ASSUME NEW i \in 1 .. Len(Tail(s)), NEW j \in 1 .. Len(Tail(s)),
                        Tail(s)[i] = Tail(s)[j]
                 PROVE  i = j
    BY DEF Once
  <2>2. s[i + 1] = s[j + 1] /\ i + 1 \in 1 .. Len(s) /\ j + 1 \in 1 .. Len(s)
    BY <2>1, Taken
  <2>3. i + 1 = j + 1
    BY <2>2 DEF Once
  <2> QED
    BY <2>3
<1> QED
  BY <1>1, <1>2

----------------------------------------------------------------------------
(* A command of which only the caller's side changes *)

\* A write that is neither queued nor in hand, nor was it run.
LEMMA CallerMoves ==
  ASSUME Inv, NEW w \in Writes, NEW p \in Calls, NEW a \in Answers,
         call[w] \in {"new", "reserved", "refused"}, p # "waiting", p # "gone",
         p \in {"new", "reserved"} => a = "none", a # "ok",
         call' = [call EXCEPT ![w] = p], answer' = [answer EXCEPT ![w] = a],
         UNCHANGED <<wqueue, writer, log, rqueue, reader>>
  PROVE  Inv'
<1>1. w \in Commands
  BY DEF Commands
<1>2. /\ call' \in [Commands -> Calls] /\ call'[w] = p
      /\ \A c \in Commands : c # w => call'[c] = call[c]
  BY <1>1, Put DEF Inv, Typed
<1>3. /\ answer' \in [Commands -> Answers] /\ answer'[w] = a
      /\ \A c \in Commands : c # w => answer'[c] = answer[c]
  BY <1>1, Put DEF Inv, Typed
<1>4. \A v \in Writes : Life(v)'
  <2>1. SUFFICES ASSUME NEW v \in Writes PROVE Life(v)'
    OBVIOUS
  <2>2. Life(v) /\ v \in Commands
    BY DEF Inv, Commands
  <2>3. (InQueue(v)' <=> InQueue(v)) /\ (InHand(v)' <=> InHand(v)) /\ (Done(v)' <=> Done(v))
    BY DEF InQueue, InHand, Done
  <2>4. CASE v = w
    BY <1>2, <1>3, <2>2, <2>3, <2>4 DEF Life
  <2>5. CASE v # w
    BY <1>2, <1>3, <2>2, <2>3, <2>5 DEF Life
  <2> QED
    BY <2>4, <2>5
<1> QED
  BY <1>2, <1>3, <1>4 DEF Inv, Typed, HandsInv, Once

\* Reads have no part in it.
LEMMA ReadMoves ==
  ASSUME Inv, NEW r \in Reads, NEW p \in Calls, NEW a \in Answers,
         call' = [call EXCEPT ![r] = p], answer' = [answer EXCEPT ![r] = a],
         UNCHANGED <<wqueue, writer, log>>,
         rqueue' \in [Threads -> Seq(Reads)],
         reader' \in [Threads -> Hands({"recv", "ready", "reply", "exited"})],
         \A t \in Threads : reader'[t].at \in {"ready", "reply"} => reader'[t].cmd \in Reads
  PROVE  Inv'
<1>1. r \in Commands
  BY DEF Commands
<1>2. /\ call' \in [Commands -> Calls]
      /\ \A c \in Commands : c # r => call'[c] = call[c]
  BY <1>1, Put DEF Inv, Typed
<1>3. /\ answer' \in [Commands -> Answers]
      /\ \A c \in Commands : c # r => answer'[c] = answer[c]
  BY <1>1, Put DEF Inv, Typed
<1>4. \A v \in Writes : Life(v)'
  <2>1. SUFFICES ASSUME NEW v \in Writes PROVE Life(v)'
    OBVIOUS
  <2>2. Life(v) /\ v \in Commands /\ v # r
    BY ConstantsOK DEF Inv, Commands
  <2>3. (InQueue(v)' <=> InQueue(v)) /\ (InHand(v)' <=> InHand(v)) /\ (Done(v)' <=> Done(v))
    BY DEF InQueue, InHand, Done
  <2> QED
    BY <1>2, <1>3, <2>2, <2>3 DEF Life
<1> QED
  BY <1>2, <1>3, <1>4 DEF Inv, Typed, HandsInv, Once

\* Nor has a step of a read thread that tells nobody.
LEMMA ReadersMove ==
  ASSUME Inv, UNCHANGED <<calls, wqueue, writer, log>>,
         rqueue' \in [Threads -> Seq(Reads)],
         reader' \in [Threads -> Hands({"recv", "ready", "reply", "exited"})],
         \A t \in Threads : reader'[t].at \in {"ready", "reply"} => reader'[t].cmd \in Reads
  PROVE  Inv'
<1>1. \A v \in Writes : Life(v)'
  BY DEF Inv, Life, InQueue, InHand, Done, calls
<1> QED
  BY <1>1 DEF Inv, Typed, HandsInv, Once, calls

----------------------------------------------------------------------------
(* send_write *)

LEMMA Same ==
  ASSUME NEW S, NEW T, NEW f \in [S -> T], NEW x \in S
  PROVE  f = [f EXCEPT ![x] = f[x]] /\ f[x] \in T
  OBVIOUS

LEMMA CallerKeeps ==
  ASSUME Inv, NEW w \in Writes, ReserveBytes(w) \/ GiveBack(w)
  PROVE  Inv'
<1>1. w \in Commands /\ answer = [answer EXCEPT ![w] = answer[w]] /\ answer[w] \in Answers
  BY Same DEF Commands, Inv, Typed
<1>2. Life(w)
  BY DEF Inv
<1>3. UNCHANGED <<wqueue, writer, log, rqueue, reader>>
  BY DEF ReserveBytes, GiveBack, reading
<1>4. CASE ReserveBytes(w)
  <2>1. CASE Go(w, "reserved") /\ UNCHANGED answer
    <3>1. answer[w] = "none" /\ call[w] = "new"
      BY <1>2, <1>4 DEF Life, ReserveBytes
    <3> QED
      BY <1>1, <1>3, <2>1, <3>1, CallerMoves DEF Go, Calls
  <2>2. CASE Tell(w, "toolarge")
    BY <1>3, <1>4, <2>2, CallerMoves DEF ReserveBytes, Tell, Go, Calls, Answers
  <2> QED
    BY <1>4, <2>1, <2>2 DEF ReserveBytes
<1>5. CASE GiveBack(w)
  <2>1. call[w] = "refused" /\ answer[w] # "ok"
    BY <1>2, <1>5 DEF Life, GiveBack
  <2> QED
    BY <1>1, <1>3, <1>5, <2>1, CallerMoves DEF GiveBack, Go, Calls
<1> QED
  BY <1>4, <1>5

\* The accepted command is queued once, as it was neither queued nor in hand.
LEMMA TrySendKeeps ==
  ASSUME Inv, NEW w \in Writes, TrySend(w)
  PROVE  Inv'
<1>1. w \in Commands /\ Life(w) /\ call[w] = "reserved"
  BY DEF Inv, Commands, TrySend
<1>2. UNCHANGED <<writer, log, rqueue, reader>>
  BY DEF TrySend, reading
<1>3. CASE UNCHANGED wqueue /\ Go(w, "refused")
           /\ \E a \in {"closed", "full"} : answer' = [answer EXCEPT ![w] = a]
  BY <1>1, <1>2, <1>3, CallerMoves DEF Go, Calls, Answers
<1>4. CASE Go(w, "waiting") /\ UNCHANGED answer /\ wqueue' = Append(wqueue, w)
  <2>1. /\ call' \in [Commands -> Calls] /\ call'[w] = "waiting"
        /\ \A c \in Commands : c # w => call'[c] = call[c]
    BY <1>1, <1>4, Put DEF Inv, Typed, Go, Calls
  <2>2. ~InQueue(w) /\ ~InHand(w) /\ ~Done(w) /\ answer[w] = "none"
    BY <1>1 DEF Life
  <2>3. wqueue' \in Seq(Writes) /\ Once(wqueue)'
    BY <1>4, <2>2, Appended, AppendedOnce DEF Inv, Typed, InQueue, Once
  <2>4. \A v \in Writes : InQueue(v)' => InQueue(v) \/ v = w
    BY <1>4, Appended DEF Inv, Typed, InQueue
  <2>5. \A v \in Writes : Life(v)'
    <3>1. SUFFICES ASSUME NEW v \in Writes PROVE Life(v)'
      OBVIOUS
    <3>2. (InHand(v)' <=> InHand(v)) /\ (Done(v)' <=> Done(v)) /\ writer' = writer
      BY <1>2 DEF InHand, Done
    <3>3. Life(v) /\ v \in Commands /\ answer' = answer
      BY <1>4 DEF Inv, Commands
    <3>4. CASE v = w
      BY <2>1, <2>2, <3>2, <3>3, <3>4 DEF Life
    <3>5. CASE v # w
      BY <2>1, <2>4, <3>2, <3>3, <3>5 DEF Life
    <3> QED
      BY <3>4, <3>5
  <2> QED
    BY <1>2, <1>4, <2>1, <2>3, <2>5 DEF Inv, Typed, HandsInv, Once
<1> QED
  BY <1>3, <1>4 DEF TrySend

----------------------------------------------------------------------------
(* write_loop *)

HandsOf == Hands(Working \cup {"recv", "exited"})

LEMMA HandMoved ==
  ASSUME NEW h \in HandsOf, NEW at \in Working \cup {"recv", "exited"}
  PROVE  /\ [h EXCEPT !.at = at] \in HandsOf /\ [h EXCEPT !.at = at].at = at
         /\ [h EXCEPT !.at = at].cmd = h.cmd /\ [h EXCEPT !.at = at].result = h.result
  BY DEF HandsOf, Hands

LEMMA TakeWriteKeeps ==
  ASSUME Inv, TakeWrite
  PROVE  Inv'
<1>1. wqueue \in Seq(Writes) /\ wqueue # <<>> /\ writer \in HandsOf /\ Once(wqueue)
  BY DEF TakeWrite, Inv, Typed, HandsOf
<1>w. PICK w \in Writes : w = Head(wqueue)
  BY <1>1, Taken
<1>2. /\ wqueue' \in Seq(Writes) /\ w \in Writes /\ w = wqueue[1] /\ 1 \in 1 .. Len(wqueue)
      /\ wqueue' = Tail(wqueue) /\ Once(wqueue')
      /\ \A i \in 1 .. Len(wqueue') : wqueue'[i] # w
  BY <1>1, <1>w, Taken, TakenOnce DEF TakeWrite
<1>3. w \in Commands
  BY <1>2 DEF Commands
<1>4. writer' = [[writer EXCEPT !.at = "taken"] EXCEPT !.cmd = w] /\ writer.at = "recv"
  BY <1>1, <1>w DEF TakeWrite, HandsOf, Hands
<1>5. writer' \in HandsOf /\ writer'.at = "taken" /\ writer'.cmd = w
  BY <1>1, <1>3, <1>4 DEF HandsOf, Hands, Working
<1>6. InQueue(w) /\ ~InQueue(w)'
  BY <1>2 DEF InQueue
<1>7. \A v \in Writes : InQueue(v)' => InQueue(v)
  BY <1>1, <1>2, Taken DEF InQueue
<1>8. \A v \in Writes : Life(v)'
  <2>1. SUFFICES ASSUME NEW v \in Writes PROVE Life(v)'
    OBVIOUS
  <2>2. Life(v) /\ UNCHANGED <<call, answer>> /\ (Done(v)' <=> Done(v)) /\ ~InHand(v)
    BY <1>4 DEF Inv, TakeWrite, calls, Done, InHand, Working
  <2>3. InHand(v)' <=> v = w
    BY <1>5 DEF InHand, Working
  <2> QED
    BY <1>5, <1>6, <1>7, <2>2, <2>3 DEF Life
<1>9. UNCHANGED <<call, answer, log, rqueue, reader>>
  BY DEF TakeWrite, calls, reading
<1> QED
  BY <1>2, <1>5, <1>8, <1>9 DEF Inv, Typed, HandsInv, HandsOf, Once

LEMMA DeductKeeps ==
  ASSUME Inv, Deduct
  PROVE  Inv'
<1>1. /\ writer' \in HandsOf /\ writer'.at = "ready" /\ writer'.cmd = writer.cmd
      /\ writer.at = "taken"
  BY HandMoved DEF Deduct, Inv, Typed, HandsOf, Working
<1>2. UNCHANGED <<call, answer, wqueue, log, rqueue, reader>>
  BY DEF Deduct, calls, reading
<1>3. \A v \in Writes : Life(v)'
  BY <1>1, <1>2 DEF Inv, Life, InQueue, InHand, Done, Working
<1> QED
  BY <1>1, <1>2, <1>3 DEF Inv, Typed, HandsInv, HandsOf, Once, Working

LEMMA RestingTyped == Resting \in HandsOf /\ Resting.at = "recv"
  BY DEF Resting, HandsOf, Hands, Answers

\* A command is run while its caller waits; the log takes it if it succeeds.
LEMMA RunWriteKeeps ==
  ASSUME Inv, RunWrite
  PROVE  Inv'
<1>w. PICK w \in Writes : w = writer.cmd
  BY DEF RunWrite, Inv, HandsInv, Working
<1>1. /\ writer \in HandsOf /\ writer.at = "ready" /\ w \in Writes /\ w \in Commands
      /\ Life(w) /\ InHand(w)
  BY <1>w DEF RunWrite, Inv, Typed, HandsOf, HandsInv, Working, Commands, InHand
<1>2. UNCHANGED <<call, answer, wqueue, rqueue, reader>>
  BY DEF RunWrite, calls, reading
<1>3. CASE writer' = Resting /\ UNCHANGED log
  <2>1. \A v \in Writes : Life(v)'
    BY <1>2, <1>3, RestingTyped DEF Inv, Life, InQueue, InHand, Done, Working
  <2> QED
    BY <1>2, <1>3, <2>1, RestingTyped DEF Inv, Typed, HandsInv, HandsOf, Once, Working
<1>4. ASSUME NEW result \in {"ok", "failed"},
             writer' = [writer EXCEPT !.at = "reply", !.result = result],
             log' = IF TakesEffect(result) THEN Append(log, w) ELSE log
      PROVE  Inv'
  <2>1. /\ writer' \in HandsOf /\ writer'.at = "reply" /\ writer'.cmd = w
        /\ writer'.result = result
    BY <1>1, <1>4, <1>w DEF HandsOf, Hands, Answers, Working
  <2>2. log \in Seq(Writes) /\ ~Done(w) /\ Once(log)
    BY <1>1 DEF Inv, Typed, Life
  <2>3. log' \in Seq(Writes) /\ Once(log')
    BY <1>1, <1>4, <2>2, Appended, AppendedOnce DEF Done
  <2>4. Done(w)' <=> result = "ok"
    <3>1. CASE result = "ok"
      <4>1. log' = Append(log, w) /\ Len(log) + 1 \in 1 .. Len(log')
        BY <1>1, <1>4, <2>2, <3>1, Appended DEF TakesEffect
      <4>2. log'[Len(log) + 1] = w
        BY <1>1, <2>2, <4>1, Appended
      <4> QED
        BY <3>1, <4>1, <4>2 DEF Done
    <3>2. CASE result # "ok"
      BY <1>4, <2>2, <3>2 DEF TakesEffect, Done
    <3> QED
      BY <3>1, <3>2
  <2>5. \A v \in Writes : v # w => (Done(v)' <=> Done(v))
    <3>1. CASE result = "ok"
      <4>1. log' = Append(log, w)
        BY <1>4, <3>1 DEF TakesEffect
      <4>2. /\ Len(log) \in Nat /\ Len(log') = Len(log) + 1 /\ log'[Len(log) + 1] = w
            /\ \A i \in 1 .. Len(log) : log'[i] = log[i]
        BY <1>1, <2>2, <4>1, Appended
      <4> QED
        BY <4>2 DEF Done
    <3>2. CASE result # "ok"
      BY <1>4, <3>2 DEF TakesEffect, Done
    <3> QED
      BY <3>1, <3>2
  <2>6. \A v \in Writes : Life(v)'
    <3>1. SUFFICES ASSUME NEW v \in Writes PROVE Life(v)'
      OBVIOUS
    <3>2. /\ Life(v) /\ (InQueue(v)' <=> InQueue(v)) /\ (InHand(v)' <=> v = w)
          /\ (InHand(v) <=> v = w) /\ call' = call /\ answer' = answer
      BY <1>1, <1>2, <2>1 DEF Inv, InQueue, InHand, Working
    <3>3. CASE v = w
      BY <1>1, <1>4, <2>1, <2>4, <3>2, <3>3 DEF Life
    <3>4. CASE v # w
      BY <2>5, <3>2, <3>4 DEF Life
    <3> QED
      BY <3>3, <3>4
  <2> QED
    BY <1>1, <1>2, <2>1, <2>3, <2>6 DEF Inv, Typed, HandsInv, HandsOf, Once, Working
<1> QED
  BY <1>3, <1>4, <1>w DEF RunWrite

LEMMA ReplyWriteKeeps ==
  ASSUME Inv, ReplyWrite
  PROVE  Inv'
<1>w. PICK w \in Writes : w = writer.cmd
  BY DEF ReplyWrite, Inv, HandsInv, Working
<1>1. /\ writer.at = "reply" /\ w \in Writes /\ w \in Commands /\ Life(w) /\ InHand(w)
      /\ call[w] \in {"waiting", "gone"} /\ writer.result \in {"ok", "failed"}
      /\ writer.result = "ok" <=> Done(w)
  BY <1>w DEF ReplyWrite, Inv, HandsInv, Life, InHand, Working, Commands
<1>2. UNCHANGED <<wqueue, log, rqueue, reader>> /\ writer' = Resting
  BY DEF ReplyWrite, reading
<1>3. \A v \in Writes : (InQueue(v)' <=> InQueue(v)) /\ ~InHand(v)' /\ (Done(v)' <=> Done(v))
  BY <1>2, RestingTyped DEF InQueue, InHand, Done, Working
<1>4. CASE UNCHANGED calls
  <2>1. \A v \in Writes : Life(v)'
    BY <1>3, <1>4 DEF Inv, Life, calls
  <2> QED
    BY <1>2, <1>4, <2>1, RestingTyped DEF Inv, Typed, HandsInv, HandsOf, Once, Working, calls
<1>5. CASE Tell(w, writer.result)
  <2>1. /\ call' \in [Commands -> Calls] /\ call'[w] = "told"
        /\ \A c \in Commands : c # w => call'[c] = call[c]
    BY <1>1, <1>5, Put DEF Inv, Typed, Tell, Go, Calls
  <2>2. /\ answer' \in [Commands -> Answers] /\ answer'[w] = writer.result
        /\ \A c \in Commands : c # w => answer'[c] = answer[c]
    BY <1>1, <1>5, Put DEF Inv, Typed, Tell, Answers
  <2>3. \A v \in Writes : Life(v)'
    <3>1. SUFFICES ASSUME NEW v \in Writes PROVE Life(v)'
      OBVIOUS
    <3>2. Life(v) /\ v \in Commands
      BY DEF Inv, Commands
    <3>3. CASE v = w
      BY <1>1, <1>3, <2>1, <2>2, <3>2, <3>3 DEF Life
    <3>4. CASE v # w
      BY <1>3, <2>1, <2>2, <3>2, <3>4 DEF Life
    <3> QED
      BY <3>3, <3>4
  <2> QED
    BY <1>2, <2>1, <2>2, <2>3, RestingTyped DEF Inv, Typed, HandsInv, HandsOf, Once, Working
<1> QED
  BY <1>4, <1>5, <1>w DEF ReplyWrite, Deliver

LEMMA StopWriterKeeps ==
  ASSUME Inv, StopWriter
  PROVE  Inv'
<1>1. /\ writer' \in HandsOf /\ writer'.at = "exited" /\ writer.at = "recv"
  BY HandMoved DEF StopWriter, Inv, Typed, HandsOf, Working
<1>2. UNCHANGED <<call, answer, wqueue, log, rqueue, reader>>
  BY DEF StopWriter, calls, reading
<1>3. \A v \in Writes : Life(v)'
  BY <1>1, <1>2 DEF Inv, Life, InQueue, InHand, Done, Working
<1> QED
  BY <1>1, <1>2, <1>3 DEF Inv, Typed, HandsInv, HandsOf, Once, Working

----------------------------------------------------------------------------
(* send_read and read_loop: nothing of a write moves *)

ReadHands == Hands({"recv", "ready", "reply", "exited"})

LEMMA PutSomewhere ==
  ASSUME NEW S, NEW T, NEW f \in [S -> T], NEW x, NEW v, x \in S => v \in T
  PROVE  [f EXCEPT ![x] = v] \in [S -> T]
  OBVIOUS

LEMMA SendReadKeeps ==
  ASSUME Inv, NEW r \in Reads, SendRead(r)
  PROVE  Inv'
<1>1. r \in Commands /\ answer = [answer EXCEPT ![r] = answer[r]] /\ answer[r] \in Answers
  BY Same DEF Commands, Inv, Typed
<1>2. /\ UNCHANGED <<wqueue, writer, log, reader>>
      /\ rqueue \in [Threads -> Seq(Reads)] /\ reader \in [Threads -> ReadHands]
      /\ \A t \in Threads : reader[t].at \in {"ready", "reply"} => reader[t].cmd \in Reads
  BY DEF SendRead, writing, Inv, Typed, HandsInv, ReadHands
<1>3. CASE Tell(r, "full") /\ UNCHANGED rqueue
  BY <1>2, <1>3, ReadMoves DEF Tell, Go, Calls, Answers, ReadHands
<1>4. ASSUME NEW t, Go(r, "waiting"), UNCHANGED answer,
             rqueue' = [rqueue EXCEPT ![t] = Append(@, r)]
      PROVE  Inv'
  <2>1. rqueue' = [rqueue EXCEPT ![t] = Append(rqueue[t], r)]
    BY <1>4
  <2>2. t \in Threads => Append(rqueue[t], r) \in Seq(Reads)
    BY <1>2, Appended
  <2>3. rqueue' \in [Threads -> Seq(Reads)]
    BY <1>2, <2>1, <2>2, PutSomewhere
  <2> QED
    BY <1>1, <1>2, <1>4, <2>3, ReadMoves DEF Go, Calls, ReadHands
<1> QED
  BY <1>3, <1>4 DEF SendRead

\* A thread's next hand, if it fits a reader and holds a read while it works.
LEMMA HandPut ==
  ASSUME Inv, NEW t \in Threads, NEW h \in ReadHands,
         h.at \in {"ready", "reply"} => h.cmd \in Reads,
         reader' = [reader EXCEPT ![t] = h]
  PROVE  /\ reader' \in [Threads -> ReadHands]
         /\ \A u \in Threads : reader'[u].at \in {"ready", "reply"} => reader'[u].cmd \in Reads
<1>1. /\ reader' \in [Threads -> ReadHands] /\ reader'[t] = h
      /\ \A u \in Threads : u # t => reader'[u] = reader[u]
  BY Put DEF Inv, Typed, ReadHands
<1> QED
  BY <1>1 DEF Inv, HandsInv

LEMMA RestingReads == Resting \in ReadHands /\ Resting.at = "recv"
  BY DEF Resting, ReadHands, Hands, Answers

LEMMA TakeReadKeeps ==
  ASSUME Inv, NEW t \in Threads, TakeRead(t)
  PROVE  Inv'
<1>1. /\ rqueue \in [Threads -> Seq(Reads)] /\ reader[t] \in ReadHands
      /\ rqueue[t] \in Seq(Reads) /\ rqueue[t] # <<>>
  BY DEF TakeRead, Inv, Typed, ReadHands
<1>2. Head(rqueue[t]) \in Reads /\ Tail(rqueue[t]) \in Seq(Reads)
  BY <1>1, Taken
<1>3. rqueue' \in [Threads -> Seq(Reads)]
  BY <1>1, <1>2 DEF TakeRead
<1>h. PICK h : h = [[reader[t] EXCEPT !.at = "ready"] EXCEPT !.cmd = Head(rqueue[t])]
  OBVIOUS
<1>4. h \in ReadHands /\ h.cmd \in Reads
  BY <1>1, <1>2, <1>h DEF ReadHands, Hands, Commands
<1>5. reader' = [reader EXCEPT ![t] = h]
  BY <1>1, <1>h DEF TakeRead, Inv, Typed
<1> QED
  BY <1>3, <1>4, <1>5, HandPut, ReadersMove DEF TakeRead, writing, ReadHands

LEMMA RunReadKeeps ==
  ASSUME Inv, NEW t \in Threads, RunRead(t) \/ StopReader(t)
  PROVE  Inv'
<1>1. reader[t] \in ReadHands /\ rqueue \in [Threads -> Seq(Reads)]
  BY DEF Inv, Typed, ReadHands
<1>2. UNCHANGED <<calls, wqueue, writer, log, rqueue>>
  BY DEF RunRead, StopReader, writing
<1>3. ASSUME NEW h \in ReadHands, h.at \in {"ready", "reply"} => h.cmd \in Reads,
             reader' = [reader EXCEPT ![t] = h]
      PROVE  Inv'
  BY <1>1, <1>2, <1>3, HandPut, ReadersMove DEF ReadHands
<1>4. CASE reader' = [reader EXCEPT ![t] = Resting]
  BY <1>3, <1>4, RestingReads
<1>5. ASSUME NEW result \in {"ok", "failed"}, reader[t].at = "ready",
             reader' = [reader EXCEPT ![t].at = "reply", ![t].result = result]
      PROVE  Inv'
  <2>h. PICK h : h = [[reader[t] EXCEPT !.at = "reply"] EXCEPT !.result = result]
    OBVIOUS
  <2>1. h \in ReadHands /\ h.cmd \in Reads
    BY <1>1, <1>5, <2>h DEF ReadHands, Hands, Answers, Inv, HandsInv
  <2>2. reader' = [reader EXCEPT ![t] = h]
    BY <1>1, <1>5, <2>h DEF Inv, Typed
  <2> QED
    BY <1>3, <2>1, <2>2
<1>6. CASE reader' = [reader EXCEPT ![t].at = "exited"]
  <2>h. PICK h : h = [reader[t] EXCEPT !.at = "exited"]
    OBVIOUS
  <2>1. h \in ReadHands /\ h.at = "exited"
    BY <1>1, <2>h DEF ReadHands, Hands
  <2>2. reader' = [reader EXCEPT ![t] = h]
    BY <1>6, <2>h
  <2> QED
    BY <1>3, <2>1, <2>2
<1> QED
  BY <1>4, <1>5, <1>6 DEF RunRead, StopReader

LEMMA ReplyReadKeeps ==
  ASSUME Inv, NEW t \in Threads, ReplyRead(t)
  PROVE  Inv'
<1>1. /\ reader' \in [Threads -> ReadHands]
      /\ \A u \in Threads : reader'[u].at \in {"ready", "reply"} => reader'[u].cmd \in Reads
      /\ rqueue' \in [Threads -> Seq(Reads)] /\ UNCHANGED <<wqueue, writer, log>>
  BY RestingReads, HandPut DEF ReplyRead, writing, Inv, Typed
<1>r. PICK r \in Reads : r = reader[t].cmd
  BY DEF ReplyRead, Inv, HandsInv
<1>a. PICK a \in Answers : a = reader[t].result
  BY DEF ReplyRead, Inv, Typed, Hands
<1>2. CASE UNCHANGED calls
  BY <1>1, <1>2, ReadersMove DEF ReadHands
<1>3. CASE Tell(r, a)
  BY <1>1, <1>3, ReadMoves DEF Tell, Go, Calls, ReadHands
<1> QED
  BY <1>r, <1>a, <1>2, <1>3 DEF ReplyRead, Deliver

----------------------------------------------------------------------------
(* Dropped callers, close, all steps *)

LEMMA DropKeeps ==
  ASSUME Inv, NEW c \in Commands, Drop(c)
  PROVE  Inv'
<1>1. /\ UNCHANGED <<answer, wqueue, writer, log, rqueue, reader>> /\ call[c] = "waiting"
  BY DEF Drop, writing, reading
<1>2. /\ call' \in [Commands -> Calls] /\ call'[c] = "gone"
      /\ \A d \in Commands : d # c => call'[d] = call[d]
  BY Put DEF Drop, Go, Calls, Inv, Typed
<1>3. \A v \in Writes : Life(v)'
  <2>1. SUFFICES ASSUME NEW v \in Writes PROVE Life(v)'
    OBVIOUS
  <2>2. /\ Life(v) /\ v \in Commands /\ (InQueue(v)' <=> InQueue(v))
        /\ (InHand(v)' <=> InHand(v)) /\ (Done(v)' <=> Done(v))
    BY <1>1 DEF Inv, Commands, InQueue, InHand, Done
  <2>3. CASE v = c
    BY <1>1, <1>2, <2>2, <2>3 DEF Life
  <2>4. CASE v # c
    BY <1>1, <1>2, <2>2, <2>4 DEF Life
  <2> QED
    BY <2>3, <2>4
<1> QED
  BY <1>1, <1>2, <1>3 DEF Inv, Typed, HandsInv, Once

LEMMA InvUnchanged ==
  ASSUME Inv, UNCHANGED <<calls, wqueue, writer, log, rqueue, reader>>
  PROVE  Inv'
  BY ReadersMove DEF Inv, Typed, HandsInv, calls

LEMMA InvInit == Init => Inv
<1> SUFFICES ASSUME Init PROVE Inv
  OBVIOUS
<1>1. Typed /\ HandsInv
  BY RestingTyped, RestingReads
     DEF Init, Typed, HandsInv, Calls, Answers, HandsOf, ReadHands, Working
<1>2. wqueue = <<>> /\ log = <<>> /\ Len(<<>>) = 0
  BY DEF Init
<1>3. Once(wqueue) /\ Once(log)
  BY <1>2 DEF Once
<1>4. \A w \in Writes : Life(w)
  BY <1>2, RestingTyped DEF Init, Life, InQueue, InHand, Done, Working, Commands
<1> QED
  BY <1>1, <1>3, <1>4 DEF Inv

LEMMA InvNext == Inv /\ [Next]_vars => Inv'
<1> SUFFICES ASSUME Inv, [Next]_vars PROVE Inv'
  OBVIOUS
<1>1. ASSUME NEW w \in Writes, Caller(w) PROVE Inv'
  BY <1>1, CallerKeeps, TrySendKeeps DEF Caller
<1>2. ASSUME NEW r \in Reads, SendRead(r) PROVE Inv'
  BY <1>2, SendReadKeeps
<1>3. CASE Writer
  BY <1>3, TakeWriteKeeps, DeductKeeps, RunWriteKeeps, ReplyWriteKeeps, StopWriterKeeps
     DEF Writer
<1>4. ASSUME NEW t \in Threads, Reader(t) PROVE Inv'
  BY <1>4, TakeReadKeeps, RunReadKeeps, ReplyReadKeeps DEF Reader
<1>5. ASSUME NEW c \in Commands, Drop(c) PROVE Inv'
  BY <1>5, DropKeeps
<1>6. CASE Close \/ Joined
  BY <1>6, InvUnchanged DEF Close, Joined, writing, reading
<1>7. CASE UNCHANGED vars
  BY <1>7, InvUnchanged DEF vars, calls
<1> QED
  BY <1>1, <1>2, <1>3, <1>4, <1>5, <1>6, <1>7 DEF Next

LEMMA InvAlways == Spec => []Inv
  BY InvInit, InvNext, PTL DEF Spec

----------------------------------------------------------------------------
LEMMA AtMostOne ==
  ASSUME NEW S, \A x, y \in S : x = y
  PROVE  Cardinality(S) <= 1
<1>1. CASE S = {}
  BY <1>1, FS_EmptySet
<1>2. ASSUME NEW x \in S PROVE Cardinality(S) <= 1
  <2>1. S = {x}
    BY <1>2
  <2> QED
    BY <2>1, FS_Singleton
<1> QED
  BY <1>1, <1>2

\* A caller told "ok" has its write in the tables, a caller told anything else
\* never will, and no write takes effect twice: a dropped caller, a refusal, a
\* failed command and close all keep to it (db/worker.rs, write_loop).
THEOREM OutcomesAreTrue == Spec => []OutcomeTruthful
<1>1. Inv => OutcomeTruthful
  <2>1. SUFFICES ASSUME Inv, NEW w \in Writes
                 PROVE  /\ Cardinality({i \in DOMAIN log : log[i] = w}) <= 1
                        /\ answer[w] = "ok" => {i \in DOMAIN log : log[i] = w} # {}
                        /\ answer[w] \notin {"none", "ok"} =>
                             {i \in DOMAIN log : log[i] = w} = {}
    BY DEF OutcomeTruthful
  <2>2. DOMAIN log = 1 .. Len(log)
    BY <2>1 DEF Inv, Typed
  <2>3. Done(w) <=> {i \in DOMAIN log : log[i] = w} # {}
    BY <2>2 DEF Done
  <2>r. PICK runs : runs = {i \in DOMAIN log : log[i] = w}
    OBVIOUS
  <2>4. \A i, j \in runs : i = j
    <3>1. SUFFICES ASSUME NEW i \in runs, NEW j \in runs PROVE i = j
      OBVIOUS
    <3>2. i \in 1 .. Len(log) /\ j \in 1 .. Len(log) /\ log[i] = w /\ log[j] = w
      BY <2>2, <2>r
    <3>3. Once(log)
      BY <2>1 DEF Inv
    <3> QED
      BY <3>2, <3>3 DEF Once
  <2>5. Cardinality(runs) <= 1
    BY <2>4, AtMostOne
  <2>6. (answer[w] = "ok" => Done(w)) /\ (answer[w] \notin {"none", "ok"} => ~Done(w))
    BY <2>1 DEF Inv, Life
  <2> QED
    BY <2>3, <2>5, <2>6, <2>r
<1> QED
  BY <1>1, InvAlways, PTL

----------------------------------------------------------------------------
(* The bytes of a set of writes *)

BytesOfOne(w) == {w} \X (1 .. Size[w])

LEMMA OneCounted ==
  ASSUME NEW w \in Writes
  PROVE  IsFiniteSet(BytesOfOne(w)) /\ Cardinality(BytesOfOne(w)) = Size[w]
<1> DEFINE S == 1 .. Size[w]
           T == BytesOfOne(w)
           f == [i \in S |-> <<w, i>>]
<1>1. Size[w] \in Nat
  BY ConstantsOK
<1>2. IsFiniteSet(S) /\ Cardinality(S) = Size[w]
  BY <1>1, FS_Interval
<1>3. f \in Bijection(S, T)
  BY DEF Bijection, Injection, Surjection, IsInjective, BytesOfOne
<1>4. ExistsBijection(S, T)
  BY <1>3 DEF ExistsBijection
<1> HIDE DEF S, T
<1>5. IsFiniteSet(T) /\ Cardinality(T) = Size[w]
  BY <1>2, <1>4, FS_Bijection
<1> QED
  BY <1>5 DEF T

LEMMA BytesAdded ==
  ASSUME NEW W \in SUBSET Writes, IsFiniteSet(BytesOf(W)), NEW w \in Writes, w \notin W
  PROVE  /\ IsFiniteSet(BytesOf(W \cup {w}))
         /\ Cardinality(BytesOf(W \cup {w})) = Cardinality(BytesOf(W)) + Size[w]
         /\ Size[w] \in Nat /\ Cardinality(BytesOf(W)) \in Nat
<1>1. BytesOf(W \cup {w}) = BytesOf(W) \cup BytesOfOne(w)
  BY DEF BytesOf, BytesOfOne
<1>2. BytesOf(W) \cap BytesOfOne(w) = {}
  BY DEF BytesOf, BytesOfOne
<1>3. IsFiniteSet(BytesOfOne(w)) /\ Cardinality(BytesOfOne(w)) = Size[w]
  BY OneCounted
<1>4. Size[w] \in Nat /\ Cardinality(BytesOf(W)) \in Nat
  BY ConstantsOK, FS_CardinalityType
<1>5. ASSUME NEW S, NEW T, IsFiniteSet(S), IsFiniteSet(T), S \cap T = {}
      PROVE  /\ IsFiniteSet(S \cup T)
             /\ Cardinality(S \cup T) = Cardinality(S) + Cardinality(T)
  <2>1. /\ IsFiniteSet(S \cup T)
        /\ Cardinality(S \cup T) = Cardinality(S) + Cardinality(T) - Cardinality(S \cap T)
    BY <1>5, FS_Union, Zenon
  <2>2. Cardinality(S \cap T) = 0
    BY <1>5, FS_EmptySet
  <2>3. Cardinality(S) \in Nat /\ Cardinality(T) \in Nat
    BY <1>5, FS_CardinalityType
  <2> QED
    BY <2>1, <2>2, <2>3
<1> QED
  BY <1>1, <1>2, <1>3, <1>4, <1>5

LEMMA BytesRemoved ==
  ASSUME NEW W \in SUBSET Writes, IsFiniteSet(BytesOf(W)), NEW w \in W
  PROVE  /\ IsFiniteSet(BytesOf(W \ {w}))
         /\ Cardinality(BytesOf(W)) = Cardinality(BytesOf(W \ {w})) + Size[w]
         /\ Size[w] \in Nat /\ Cardinality(BytesOf(W \ {w})) \in Nat
<1>1. BytesOf(W \ {w}) \subseteq BytesOf(W)
  BY DEF BytesOf
<1>2. IsFiniteSet(BytesOf(W \ {w}))
  BY <1>1, FS_Subset
<1>3. (W \ {w}) \cup {w} = W /\ W \ {w} \in SUBSET Writes /\ w \notin W \ {w} /\ w \in Writes
  OBVIOUS
<1> DEFINE V == W \ {w}
<1> HIDE DEF V
<1>4. /\ Cardinality(BytesOf(V \cup {w})) = Cardinality(BytesOf(V)) + Size[w]
      /\ Size[w] \in Nat /\ Cardinality(BytesOf(V)) \in Nat
  BY <1>2, <1>3, BytesAdded DEF V
<1> QED
  BY <1>2, <1>3, <1>4 DEF V

----------------------------------------------------------------------------
(* The byte counter *)

\* The queues keep their limits, and the variables no write depends on their shape.
CapInv ==
    /\ Len(wqueue) <= WriteCapacity
    /\ \A t \in Threads : Len(rqueue[t]) <= ReadCapacity
    /\ next \in Threads /\ open \in [reads : BOOLEAN, writes : BOOLEAN]
    /\ closing \in {"no", "half", "joining", "closed"}

\* The counter is exact and within its limit.
PayloadInv ==
    /\ IsFiniteSet(BytesOf(InFlight))
    /\ payload = Cardinality(BytesOf(InFlight)) /\ payload <= PayloadLimit

\* The bytes of this write are counted: it is queued, on its way in, or taken out
\* and not deducted yet.
Flying(w) ==
    \/ InQueue(w) \/ call[w] \in {"reserved", "refused"}
    \/ writer.at = "taken" /\ writer.cmd = w

LEMMA InFlightIs ==
  ASSUME Inv
  PROVE  InFlight = {w \in Writes : Flying(w)}
<1>1. /\ wqueue \in Seq(Writes) /\ DOMAIN wqueue = 1 .. Len(wqueue)
      /\ writer.at = "taken" => writer.cmd \in Writes
  BY DEF Inv, Typed, HandsInv, Working
<1>2. Queued = {w \in Writes : InQueue(w)}
  BY <1>1 DEF Queued, InQueue
<1> QED
  BY <1>1, <1>2 DEF InFlight, Flying, Reserving, InTransit

\* The same of the next state.
LEMMA InFlightWillBe ==
  ASSUME Inv'
  PROVE  InFlight' = {w \in Writes : Flying(w)'}
<1>1. /\ wqueue' \in Seq(Writes) /\ DOMAIN wqueue' = 1 .. Len(wqueue')
      /\ writer'.at = "taken" => writer'.cmd \in Writes
  BY DEF Inv, Typed, HandsInv, Working
<1>2. Queued' = {w \in Writes : InQueue(w)'}
  BY <1>1 DEF Queued, InQueue
<1> QED
  BY <1>1, <1>2 DEF InFlight, Flying, Reserving, InTransit

\* A step that moves no bytes in or out.
LEMMA NothingCounted ==
  ASSUME Inv, Inv', PayloadInv, payload' = payload,
         \A w \in Writes : Flying(w)' <=> Flying(w)
  PROVE  PayloadInv'
<1>1. InFlight' = InFlight
  BY InFlightIs, InFlightWillBe
<1> QED
  BY <1>1 DEF PayloadInv, BytesOf

LEMMA ReservedCounted ==
  ASSUME Inv, Inv', PayloadInv, NEW w \in Writes, ~Flying(w), Flying(w)',
         \A v \in Writes : v # w => (Flying(v)' <=> Flying(v)),
         payload' = payload + Size[w], payload' <= PayloadLimit
  PROVE  PayloadInv'
<1>1. InFlight' = InFlight \cup {w} /\ w \notin InFlight /\ InFlight \in SUBSET Writes
  BY InFlightIs, InFlightWillBe
<1>2. BytesOf(InFlight') = BytesOf(InFlight \cup {w})
  BY <1>1
<1>3. /\ IsFiniteSet(BytesOf(InFlight \cup {w}))
      /\ Cardinality(BytesOf(InFlight \cup {w})) = Cardinality(BytesOf(InFlight)) + Size[w]
  BY <1>1, BytesAdded DEF PayloadInv
<1> QED
  BY <1>2, <1>3 DEF PayloadInv, BytesOf

LEMMA ReleasedCounted ==
  ASSUME Inv, Inv', PayloadInv, NEW w \in Writes, Flying(w), ~Flying(w)',
         \A v \in Writes : v # w => (Flying(v)' <=> Flying(v)),
         payload' = payload - Size[w]
  PROVE  PayloadInv'
<1>1. InFlight' = InFlight \ {w} /\ w \in InFlight /\ InFlight \in SUBSET Writes
  BY InFlightIs, InFlightWillBe
<1>2. BytesOf(InFlight') = BytesOf(InFlight \ {w})
  BY <1>1
<1>3. /\ IsFiniteSet(BytesOf(InFlight \ {w}))
      /\ Cardinality(BytesOf(InFlight)) = Cardinality(BytesOf(InFlight \ {w})) + Size[w]
      /\ Size[w] \in Nat /\ Cardinality(BytesOf(InFlight \ {w})) \in Nat
  BY <1>1, BytesRemoved DEF PayloadInv
<1>4. payload' = Cardinality(BytesOf(InFlight \ {w})) /\ payload' <= PayloadLimit
  BY <1>3, ConstantsOK DEF PayloadInv
<1>5. IsFiniteSet(BytesOf(InFlight \ {w}))
  BY <1>3
<1> QED
  BY <1>2, <1>4, <1>5 DEF PayloadInv, BytesOf

LEMMA ReserveBytesCounted ==
  ASSUME Inv, Inv', PayloadInv, NEW w \in Writes, ReserveBytes(w)
  PROVE  PayloadInv'
<1>1. /\ UNCHANGED <<wqueue, writer>> /\ call[w] = "new"
      /\ \A c \in Commands : c # w => call'[c] = call[c]
      /\ w \in Commands
  BY Put DEF ReserveBytes, Tell, Go, Inv, Typed, Commands, Calls
<1>2. \A v \in Writes : v # w => (Flying(v)' <=> Flying(v))
  BY <1>1 DEF Flying, InQueue, Commands
<1>3. ~Flying(w) /\ ~InQueue(w)
  BY <1>1 DEF Inv, Life, Flying, InHand, Working
<1>4. CASE Fits(w) /\ payload' = payload + Size[w] /\ Go(w, "reserved")
  <2>1. call'[w] = "reserved"
    BY <1>1, <1>4 DEF Go, Inv, Typed
  <2>2. Flying(w)'
    BY <2>1 DEF Flying
  <2> QED
    BY <1>2, <1>3, <1>4, <2>2, ReservedCounted DEF Fits
<1>5. CASE Tell(w, "toolarge") /\ payload' = payload
  <2>1. call'[w] = "told"
    BY <1>1, <1>5 DEF Tell, Go, Inv, Typed
  <2>2. ~Flying(w)'
    BY <1>1, <1>3, <2>1 DEF Flying, InQueue
  <2> QED
    BY <1>2, <1>3, <1>5, <2>2, NothingCounted
<1> QED
  BY <1>4, <1>5 DEF ReserveBytes

LEMMA TrySendCounted ==
  ASSUME Inv, Inv', PayloadInv, NEW w \in Writes, TrySend(w)
  PROVE  PayloadInv'
<1>1. /\ UNCHANGED <<payload, writer>> /\ call[w] = "reserved" /\ w \in Commands
      /\ \A c \in Commands : c # w => call'[c] = call[c]
  BY Put DEF TrySend, Go, Inv, Typed, Commands, Calls
<1>2. CASE wqueue' = wqueue /\ Go(w, "refused")
  <2>1. call'[w] = "refused"
    BY <1>1, <1>2 DEF Go, Inv, Typed
  <2> QED
    BY <1>1, <1>2, <2>1, NothingCounted DEF Flying, InQueue, Commands
<1>3. CASE wqueue' = Append(wqueue, w)
  <2>1. /\ Len(wqueue) \in Nat /\ Len(wqueue') = Len(wqueue) + 1 /\ wqueue'[Len(wqueue) + 1] = w
        /\ \A i \in 1 .. Len(wqueue) : wqueue'[i] = wqueue[i]
    BY <1>3, Appended DEF Inv, Typed
  <2>2. \A v \in Writes : InQueue(v)' <=> InQueue(v) \/ v = w
    BY <2>1 DEF InQueue
  <2> QED
    BY <1>1, <2>2, NothingCounted DEF Flying, Commands
<1> QED
  BY <1>2, <1>3 DEF TrySend

LEMMA GiveBackCounted ==
  ASSUME Inv, Inv', PayloadInv, NEW w \in Writes, GiveBack(w)
  PROVE  PayloadInv'
<1>1. /\ UNCHANGED <<wqueue, writer>> /\ call[w] = "refused" /\ w \in Commands
      /\ payload' = payload - Size[w] /\ call'[w] = "told"
      /\ \A c \in Commands : c # w => call'[c] = call[c]
  BY Put DEF GiveBack, Refund, Go, Inv, Typed, Commands, Calls
<1>2. Flying(w) /\ ~InQueue(w) /\ ~InHand(w)
  BY <1>1 DEF Inv, Life, Flying
<1>3. ~Flying(w)'
  BY <1>1, <1>2 DEF Flying, InQueue, InHand, Working
<1> QED
  BY <1>1, <1>2, <1>3, ReleasedCounted DEF Flying, InQueue, Commands

LEMMA TakeWriteCounted ==
  ASSUME Inv, Inv', PayloadInv, TakeWrite
  PROVE  PayloadInv'
<1>1. wqueue \in Seq(Writes) /\ wqueue # <<>> /\ writer \in HandsOf
  BY DEF TakeWrite, Inv, Typed, HandsOf
<1>w. PICK w \in Writes : w = Head(wqueue)
  BY <1>1, Taken
<1>2. /\ writer'.at = "taken" /\ writer'.cmd = w /\ writer.at = "recv"
      /\ UNCHANGED <<call, payload>> /\ wqueue' = Tail(wqueue)
  BY <1>1, <1>w DEF TakeWrite, calls, HandsOf, Hands
<1>3. ASSUME NEW v \in Writes PROVE InQueue(v) <=> InQueue(v)' \/ v = w
  <2>1. ASSUME NEW i \in 1 .. Len(wqueue), i # 1, wqueue[i] = v PROVE InQueue(v)'
    <3>1. i \in 2 .. Len(wqueue)
      BY <1>1, <2>1, Taken
    <3> QED
      BY <1>1, <1>2, <2>1, <3>1, Taken DEF InQueue
  <2>2. InQueue(v) => InQueue(v)' \/ v = w
    BY <1>1, <1>w, <2>1, Taken DEF InQueue
  <2>3. InQueue(v)' => InQueue(v)
    BY <1>1, <1>2, Taken DEF InQueue
  <2>4. InQueue(w)
    BY <1>1, <1>w, Taken DEF InQueue
  <2> QED
    BY <2>2, <2>3, <2>4
<1>4. \A v \in Writes : Flying(v)' <=> Flying(v)
  BY <1>2, <1>3 DEF Flying
<1> QED
  BY <1>2, <1>4, NothingCounted

LEMMA DeductCounted ==
  ASSUME Inv, Inv', PayloadInv, Deduct
  PROVE  PayloadInv'
<1>w. PICK w \in Writes : w = writer.cmd
  BY DEF Deduct, Inv, HandsInv, Working
<1>1. /\ writer.at = "taken" /\ writer'.at = "ready" /\ UNCHANGED <<call, wqueue>>
      /\ payload' = payload - Size[w]
  BY <1>w, HandMoved DEF Deduct, calls, Inv, Typed, HandsOf, Working
<1>2. InHand(w) /\ Flying(w) /\ ~InQueue(w) /\ call[w] \notin {"reserved", "refused"}
  BY <1>1, <1>w DEF Inv, Life, InHand, Flying, Working
<1>3. ~Flying(w)' /\ \A v \in Writes : v # w => (Flying(v)' <=> Flying(v))
  BY <1>1, <1>2, <1>w DEF Flying, InQueue
<1> QED
  BY <1>1, <1>2, <1>3, ReleasedCounted

\* The thread past the deduction.
LEMMA RestUncounted ==
  ASSUME Inv, Inv', PayloadInv, RunWrite \/ ReplyWrite \/ StopWriter
  PROVE  PayloadInv'
<1>1. UNCHANGED <<payload, wqueue>> /\ writer.at # "taken" /\ writer'.at # "taken"
  <2>1. UNCHANGED <<payload, wqueue>> /\ writer \in HandsOf
    BY DEF RunWrite, ReplyWrite, StopWriter, Inv, Typed, HandsOf
  <2>2. CASE writer' = Resting
    BY <2>1, <2>2, RestingTyped DEF RunWrite, ReplyWrite, StopWriter
  <2>3. CASE StopWriter
    BY <2>1, <2>3, HandMoved DEF StopWriter
  <2>4. CASE RunWrite /\ writer' # Resting
    <3>1. PICK result : writer' = [[writer EXCEPT !.at = "reply"] EXCEPT !.result = result]
      BY <2>1, <2>4 DEF RunWrite, HandsOf, Hands
    <3>2. writer'.at = "reply"
      BY <2>1, <3>1 DEF HandsOf, Hands
    <3> QED
      BY <2>1, <2>4, <3>2 DEF RunWrite
  <2> QED
    BY <2>2, <2>3, <2>4 DEF ReplyWrite
<1>2. ASSUME NEW v \in Writes
      PROVE  call'[v] \in {"reserved", "refused"} <=> call[v] \in {"reserved", "refused"}
  <2>1. CASE call' = call
    BY <2>1
  <2>2. ASSUME NEW w \in Writes, writer.at = "reply", w = writer.cmd, Tell(w, writer.result)
        PROVE  call'[v] \in {"reserved", "refused"} <=> call[v] \in {"reserved", "refused"}
    <3>1. call[w] \in {"waiting", "gone"} /\ w \in Commands /\ v \in Commands
      BY <2>2 DEF Inv, Life, InHand, Working, Commands
    <3>2. call'[w] = "told" /\ (v # w => call'[v] = call[v])
      BY <2>2, <3>1 DEF Tell, Go, Inv, Typed
    <3> QED
      BY <3>1, <3>2
  <2> QED
    BY <2>1, <2>2 DEF RunWrite, ReplyWrite, StopWriter, Deliver, calls, Inv, HandsInv, Working
<1>3. \A v \in Writes : Flying(v)' <=> Flying(v)
  BY <1>1, <1>2 DEF Flying, InQueue
<1> QED
  BY <1>1, <1>3, NothingCounted

\* A step that touches no write, or drops a caller that waits.
LEMMA OthersUncounted ==
  ASSUME Inv, Inv', PayloadInv, UNCHANGED <<payload, wqueue, writer>>,
         \A w \in Writes : call'[w] = call[w] \/ (call[w] = "waiting" /\ call'[w] = "gone")
  PROVE  PayloadInv'
<1>1. \A v \in Writes : Flying(v)' <=> Flying(v)
  BY DEF Flying, InQueue
<1> QED
  BY <1>1, NothingCounted

LEMMA ReadsUncounted ==
  ASSUME Inv, NEW r \in Reads, NEW p, call' = [call EXCEPT ![r] = p]
  PROVE  \A w \in Writes : call'[w] = call[w]
  BY ConstantsOK DEF Inv, Typed, Commands

LEMMA PayloadNext == Inv /\ Inv' /\ PayloadInv /\ [Next]_vars => PayloadInv'
<1> SUFFICES ASSUME Inv, Inv', PayloadInv, [Next]_vars PROVE PayloadInv'
  OBVIOUS
<1>1. ASSUME NEW w \in Writes, Caller(w) PROVE PayloadInv'
  BY <1>1, ReserveBytesCounted, TrySendCounted, GiveBackCounted DEF Caller
<1>2. ASSUME NEW r \in Reads, SendRead(r) PROVE PayloadInv'
  <2>1. UNCHANGED <<payload, wqueue, writer>> /\ \E p : call' = [call EXCEPT ![r] = p]
    BY <1>2 DEF SendRead, writing, Tell, Go
  <2> QED
    BY <2>1, ReadsUncounted, OthersUncounted
<1>3. CASE Writer
  BY <1>3, TakeWriteCounted, DeductCounted, RestUncounted DEF Writer
<1>4. ASSUME NEW t \in Threads, Reader(t) PROVE PayloadInv'
  <2>1. UNCHANGED <<payload, wqueue, writer>>
    BY <1>4 DEF Reader, TakeRead, RunRead, ReplyRead, StopReader, writing
  <2>2. CASE call' = call
    BY <2>1, <2>2, OthersUncounted
  <2>3. CASE ReplyRead(t) /\ call' # call
    <3>1. reader[t].cmd \in Reads /\ call' = [call EXCEPT ![reader[t].cmd] = "told"]
      BY <2>3 DEF ReplyRead, Deliver, Tell, Go, calls, Inv, HandsInv
    <3> QED
      BY <2>1, <3>1, ReadsUncounted, OthersUncounted
  <2> QED
    BY <1>4, <2>2, <2>3 DEF Reader, TakeRead, RunRead, StopReader, calls
<1>5. ASSUME NEW c \in Commands, Drop(c) PROVE PayloadInv'
  <2>1. UNCHANGED <<payload, wqueue, writer>>
    BY <1>5 DEF Drop, writing
  <2>2. ASSUME NEW w \in Writes
        PROVE  call'[w] = call[w] \/ (call[w] = "waiting" /\ call'[w] = "gone")
    BY <1>5 DEF Drop, Go, Inv, Typed, Commands
  <2> QED
    BY <2>1, <2>2, OthersUncounted
<1>6. CASE Close \/ Joined
  BY <1>6, OthersUncounted DEF Close, Joined, writing, calls
<1>7. CASE UNCHANGED vars
  BY <1>7, OthersUncounted DEF vars, calls
<1> QED
  BY <1>1, <1>2, <1>3, <1>4, <1>5, <1>6, <1>7 DEF Next

LEMMA PayloadInit == Init => PayloadInv
<1> SUFFICES ASSUME Init PROVE PayloadInv
  OBVIOUS
<1>1. InFlight = {}
  <2>1. DOMAIN <<>> = {} /\ wqueue = <<>>
    BY DEF Init
  <2>2. Queued = {} /\ Reserving = {} /\ InTransit = {}
    BY <2>1 DEF Init, Queued, Reserving, InTransit, Resting, Commands
  <2> QED
    BY <2>2 DEF InFlight
<1>2. BytesOf(InFlight) = {}
  BY <1>1 DEF BytesOf
<1> QED
  BY <1>2, FS_EmptySet, ConstantsOK DEF PayloadInv, Init

----------------------------------------------------------------------------
(* The queues' limits *)

\* Every set of numbers has a least one.
LEMMA Least ==
  ASSUME NEW T \in SUBSET Nat, T # {}
  PROVE  \E m \in T : \A k \in T : m <= k
<1> DEFINE R == StrictSubsetOrdering(Nat)
           P == {1 .. n : n \in T}
<1>1. P \subseteq FiniteSubsetsOf(Nat) /\ P # {}
  <2>1. ASSUME NEW n \in T PROVE 1 .. n \in FiniteSubsetsOf(Nat)
    <3>1. n \in Nat /\ 1 .. n \in SUBSET Nat
      OBVIOUS
    <3>2. IsFiniteSet(1 .. n)
      BY <3>1, FS_Interval
    <3> QED
      BY <3>1, <3>2 DEF FiniteSubsetsOf
  <2> QED
    BY <2>1
<1>2. IsWellFoundedOn(R, FiniteSubsetsOf(Nat))
  BY FS_StrictSubsetOrderingWellFounded
<1>3. PICK p \in P : \A q \in P : <<q, p>> \notin R
  <2> HIDE DEF R, P
  <2> QED
    BY <1>1, <1>2, WFMin
<1>4. PICK m \in T : p = 1 .. m
  BY <1>3
<1>5. ASSUME NEW k \in T PROVE m <= k
  <2>1. SUFFICES ASSUME k < m PROVE FALSE
    OBVIOUS
  <2>2. k \in Nat /\ m \in Nat
    OBVIOUS
  <2> DEFINE q == 1 .. k
  <2>3. q \subseteq p /\ q # p /\ q \in SUBSET Nat /\ p \in SUBSET Nat
    <3>1. m \in 1 .. m /\ m \notin 1 .. k
      BY <2>1, <2>2
    <3>2. \A i \in 1 .. k : i \in 1 .. m /\ i \in Nat
      BY <2>1, <2>2
    <3> QED
      BY <1>4, <2>2, <3>1, <3>2
  <2>4. <<q, p>> \in R
    <3> HIDE DEF q
    <3> QED
      BY <2>3 DEF StrictSubsetOrdering
  <2>5. q \in P
    OBVIOUS
  <2> QED
    BY <1>3, <2>4, <2>5
<1> QED
  BY <1>5

\* Every offset of the round robin is the turn of a queue.
LEMMA TurnInThreads ==
  ASSUME NEW i \in Threads, next \in Threads
  PROVE  Turn(i) \in Threads
<1>1. next + i \in Int /\ ReadThreads \in Nat \ {0}
  BY ConstantsOK DEF Threads
<1> QED
  BY <1>1 DEF Turn, Threads

LEMMA TwiceAround ==
  ASSUME NEW n \in Nat \ {0}, NEW t \in 0 .. n - 1, NEW m \in Int, m = t + n
  PROVE  m % n = t
<1>1. m % n \in 0 .. n - 1 /\ m = n * (m \div n) + (m % n)
  OBVIOUS
<1> QED
  BY <1>1

\* And every queue has its turn at some offset, wherever the search starts.
LEMMA EveryQueueHasATurn ==
  ASSUME NEW t \in Threads, next \in Threads
  PROVE  \E i \in Threads : Turn(i) = t
<1>1. /\ ReadThreads \in Nat \ {0}
      /\ t \in 0 .. ReadThreads - 1 /\ next \in 0 .. ReadThreads - 1
  BY ConstantsOK DEF Threads
<1>2. CASE next <= t
  <2>1. t - next \in Threads /\ next + (t - next) = t
    BY <1>1, <1>2 DEF Threads
  <2>2. t % ReadThreads = t
    BY <1>1
  <2>3. Turn(t - next) = t
    BY <2>1, <2>2 DEF Turn
  <2> QED
    BY <2>1, <2>3
<1>3. CASE next > t
  <2> DEFINE i == t + ReadThreads - next
  <2>1. i \in Threads /\ next + i = t + ReadThreads
    BY <1>1, <1>3 DEF Threads
  <2>2. next + i \in Int
    BY <1>1, <2>1
  <2> HIDE DEF i
  <2>3. (next + i) % ReadThreads = t
    BY <1>1, <2>1, <2>2, TwiceAround
  <2> QED
    BY <2>1, <2>3 DEF Turn
<1> QED
  BY <1>1, <1>2, <1>3

\* If an offset takes the command, one of them is the first.
LEMMA SomeoneFirst ==
  ASSUME Accepting # {}
  PROVE  \E j \in Accepting : \A k \in Accepting : j <= k
<1>1. Accepting \in SUBSET Nat
  BY DEF Accepting
<1> QED
  BY <1>1, Least

LEMMA CapNext == Inv /\ CapInv /\ [Next]_vars => CapInv'
<1> SUFFICES ASSUME Inv, CapInv, [Next]_vars PROVE CapInv'
  OBVIOUS
<1> USE DEF CapInv
<1>0. /\ wqueue \in Seq(Writes) /\ rqueue \in [Threads -> Seq(Reads)]
      /\ WriteCapacity \in Nat /\ ReadCapacity \in Nat /\ Len(wqueue) \in Nat
  BY ConstantsOK DEF Inv, Typed
<1>1. CASE UNCHANGED <<wqueue, rqueue, next, open, closing>>
  BY <1>1
<1>2. ASSUME NEW w \in Writes, TrySend(w), wqueue' = Append(wqueue, w) PROVE CapInv'
  <2>1. Len(wqueue) < WriteCapacity /\ UNCHANGED <<rqueue, next, open, closing>>
    <3>1. ~(Len(wqueue) >= WriteCapacity)
      <4>1. SUFFICES ASSUME Len(wqueue) >= WriteCapacity PROVE FALSE
        OBVIOUS
      <4>2. wqueue' = wqueue
        BY <1>2, <4>1 DEF TrySend
      <4>3. Len(wqueue') = Len(wqueue) + 1
        BY <1>0, <1>2, Appended
      <4> QED
        BY <1>0, <4>2, <4>3
    <3> QED
      BY <1>0, <1>2, <3>1 DEF TrySend, reading
  <2>2. Len(wqueue') = Len(wqueue) + 1
    BY <1>0, <1>2, Appended
  <2> QED
    BY <1>0, <2>1, <2>2
<1>3. CASE TakeWrite
  <2>1. Len(wqueue') = Len(wqueue) - 1 /\ UNCHANGED <<rqueue, next, open, closing>>
    BY <1>0, <1>3, Taken DEF TakeWrite, reading
  <2> QED
    BY <1>0, <2>1
<1>4. ASSUME NEW r \in Reads, SendRead(r) PROVE CapInv'
  <2>1. UNCHANGED <<wqueue, open, closing>>
    BY <1>4 DEF SendRead, writing
  <2>2. next' \in Threads
    BY <1>4, ConstantsOK DEF SendRead, Threads
  <2>3. CASE rqueue' = rqueue
    BY <2>1, <2>2, <2>3
  <2>4. CASE Accepting # {}
    <3> DEFINE i == CHOOSE j \in Accepting : \A k \in Accepting : j <= k
               t == Turn(i)
    <3>1. i \in Accepting
      BY <2>4, SomeoneFirst
    <3>2. i \in Threads /\ RoomIn(t)
      BY <3>1 DEF Accepting, Threads
    <3>3. rqueue' = [rqueue EXCEPT ![t] = Append(@, r)]
      BY <1>4, <2>4 DEF SendRead
    <3> HIDE DEF i
    <3>4. t \in Threads /\ Len(rqueue[t]) < ReadCapacity
      BY <3>2, TurnInThreads DEF RoomIn
    <3> HIDE DEF t
    <3>5. Len(rqueue'[t]) = Len(rqueue[t]) + 1 /\ Len(rqueue[t]) \in Nat
      BY <1>0, <3>3, <3>4, Appended
    <3>6. \A u \in Threads : u # t => rqueue'[u] = rqueue[u]
      BY <1>0, <3>3
    <3>7. Len(rqueue'[t]) <= ReadCapacity
      BY <1>0, <3>4, <3>5
    <3> QED
      BY <2>1, <2>2, <3>6, <3>7
  <2> QED
    BY <1>4, <2>3, <2>4 DEF SendRead
<1>5. ASSUME NEW t \in Threads, TakeRead(t) PROVE CapInv'
  <2>1. /\ UNCHANGED <<wqueue, next, open, closing>> /\ rqueue[t] # <<>>
        /\ rqueue' = [rqueue EXCEPT ![t] = Tail(rqueue[t])]
    BY <1>5 DEF TakeRead, writing
  <2>2. Len(rqueue'[t]) = Len(rqueue[t]) - 1 /\ Len(rqueue[t]) \in Nat
    BY <1>0, <2>1, Taken
  <2>3. \A u \in Threads : u # t => rqueue'[u] = rqueue[u]
    BY <1>0, <2>1
  <2> QED
    BY <1>0, <2>1, <2>2, <2>3
<1>6. CASE Close
  <2>1. UNCHANGED <<wqueue, rqueue, next>>
    BY <1>6 DEF Close, writing, reading
  <2>2. open' = [open EXCEPT !.reads = FALSE] \/ open' = AllClosed
    BY <1>6 DEF Close
  <2>3. [open EXCEPT !.reads = FALSE] \in [reads : BOOLEAN, writes : BOOLEAN]
    OBVIOUS
  <2>4. AllClosed \in [reads : BOOLEAN, writes : BOOLEAN]
    BY DEF AllClosed
  <2> QED
    BY <1>6, <2>1, <2>2, <2>3, <2>4 DEF Close
<1>7. CASE Joined
  BY <1>7 DEF Joined, writing, reading
<1>8. ASSUME NEW w \in Writes, Caller(w) PROVE CapInv'
  BY <1>1, <1>2, <1>8 DEF Caller, ReserveBytes, TrySend, GiveBack, reading
<1>9. CASE Writer
  BY <1>1, <1>3, <1>9 DEF Writer, Deduct, RunWrite, ReplyWrite, StopWriter, reading
<1>10. ASSUME NEW t \in Threads, Reader(t) PROVE CapInv'
  BY <1>1, <1>5, <1>10 DEF Reader, RunRead, ReplyRead, StopReader, writing
<1>11. ASSUME NEW c \in Commands, Drop(c) PROVE CapInv'
  BY <1>1, <1>11 DEF Drop, writing, reading
<1>12. CASE UNCHANGED vars
  BY <1>1, <1>12 DEF vars, writing, reading
<1> QED
  BY <1>4, <1>6, <1>7, <1>8, <1>9, <1>10, <1>11, <1>12 DEF Next

LEMMA CapInit == Init => CapInv
  BY ConstantsOK DEF Init, CapInv, Threads

\* The byte counter counts the bytes on their way in, in the queue and on their
\* way out, no more and no fewer, and the queues keep their limits (db/mod.rs:258).
THEOREM BytesAreCounted == Spec => []PayloadExact
<1>1. Inv /\ PayloadInv /\ CapInv => PayloadExact
  <2> SUFFICES ASSUME Inv, PayloadInv, CapInv PROVE PayloadExact
    OBVIOUS
  <2>1. payload \in 0 .. PayloadLimit
    <3>1. payload \in Nat
      BY FS_CardinalityType DEF PayloadInv
    <3> QED
      BY <3>1, ConstantsOK DEF PayloadInv
  <2>2. writer \in Hands({"recv", "taken", "ready", "reply", "exited"})
    BY DEF Inv, Typed, Hands, Working
  <2> QED
    BY <2>1, <2>2 DEF PayloadExact, TypeOK, Inv, Typed, PayloadInv, CapInv, Calls
<1> QED
  BY <1>1, InvInit, InvNext, PayloadInit, PayloadNext, CapInit, CapNext, PTL DEF Spec

----------------------------------------------------------------------------
(* Refused reads *)

\* A read thread never replies with a refusal: only a query's own outcome.
ReplyInv == \A t \in Threads : reader[t].at = "reply" =>
                reader[t].result \in {"ok", "failed"}

LEMMA ReplyInit == Init => ReplyInv
  BY DEF Init, ReplyInv, Resting

LEMMA ReplyNext == Inv /\ ReplyInv /\ [Next]_vars => ReplyInv'
<1> SUFFICES ASSUME Inv, ReplyInv, [Next]_vars PROVE ReplyInv'
  OBVIOUS
<1> USE DEF ReplyInv
<1>0. reader \in [Threads -> ReadHands]
  BY DEF Inv, Typed, ReadHands
<1>1. CASE reader' = reader
  BY <1>1
<1>2. ASSUME NEW t \in Threads, TakeRead(t) PROVE ReplyInv'
  BY <1>0, <1>2 DEF TakeRead, ReadHands, HandsOf
<1>3. ASSUME NEW t \in Threads, RunRead(t) PROVE ReplyInv'
  <2>1. CASE reader' = [reader EXCEPT ![t] = Resting]
    BY <1>0, <2>1 DEF Resting
  <2>2. ASSUME NEW result \in {"ok", "failed"},
               reader' = [reader EXCEPT ![t].at = "reply", ![t].result = result]
        PROVE  ReplyInv'
    BY <1>0, <2>2 DEF ReadHands
  <2> QED
    BY <1>3, <2>1, <2>2 DEF RunRead
<1>4. ASSUME NEW t \in Threads, ReplyRead(t) PROVE ReplyInv'
  BY <1>0, <1>4 DEF ReplyRead, Resting
<1>5. ASSUME NEW t \in Threads, StopReader(t) PROVE ReplyInv'
  BY <1>0, <1>5 DEF StopReader, ReadHands
<1>6. ASSUME NEW w \in Writes, Caller(w) PROVE ReplyInv'
  BY <1>1, <1>6 DEF Caller, ReserveBytes, TrySend, GiveBack, reading
<1>7. CASE Writer
  BY <1>1, <1>7 DEF Writer, TakeWrite, Deduct, RunWrite, ReplyWrite, StopWriter, reading
<1>8. ASSUME NEW t \in Threads, Reader(t) PROVE ReplyInv'
  BY <1>2, <1>3, <1>4, <1>5, <1>8 DEF Reader
<1>9. ASSUME NEW r \in Reads, SendRead(r) PROVE ReplyInv'
  BY <1>1, <1>9 DEF SendRead
<1>10. ASSUME NEW c \in Commands, Drop(c) PROVE ReplyInv'
  BY <1>1, <1>10 DEF Drop, reading
<1>11. CASE Close \/ Joined \/ UNCHANGED vars
  BY <1>1, <1>11 DEF Close, Joined, vars, reading
<1> QED
  BY <1>6, <1>7, <1>8, <1>9, <1>10, <1>11 DEF Next

NoRoom == ~open.reads \/ \A t \in Threads : Len(rqueue[t]) = ReadCapacity

RefusedFairly == \A r \in Reads : answer[r] = "none" /\ answer'[r] = "full" => NoRoom

\* A search that found no queue to take the command has tried them all.
LEMMA NoneAccepts == Inv /\ CapInv /\ Accepting = {} => NoRoom
<1> SUFFICES ASSUME Inv, CapInv, Accepting = {}, open.reads,
                    NEW t \in Threads
             PROVE  Len(rqueue[t]) = ReadCapacity
  BY DEF NoRoom
<1>a. PICK i \in Threads : Turn(i) = t
  BY EveryQueueHasATurn DEF CapInv
<1>1. ~RoomIn(t)
  BY <1>a DEF Accepting, Threads
<1>2. Len(rqueue[t]) \in Nat
  BY DEF Inv, Typed
<1>3. Len(rqueue[t]) <= ReadCapacity
  BY DEF CapInv
<1> QED
  BY <1>1, <1>2, <1>3, ConstantsOK DEF RoomIn

\* An answer given to somebody else says nothing to a read.
LEMMA ToldOther ==
  ASSUME Inv, NEW c \in Commands, NEW a, UNCHANGED answer \/ answer' = [answer EXCEPT ![c] = a],
         c \in Writes \/ a # "full"
  PROVE  RefusedFairly
<1> SUFFICES ASSUME NEW r \in Reads, answer[r] = "none", answer'[r] = "full" PROVE FALSE
  BY DEF RefusedFairly
<1>1. answer \in [Commands -> Answers] /\ r \in Commands
  BY DEF Inv, Typed, Commands
<1>2. answer' = [answer EXCEPT ![c] = a]
  OBVIOUS
<1>3. r = c
  BY <1>1, <1>2
<1>4. a = "full"
  BY <1>1, <1>2, <1>3
<1> QED
  BY <1>3, <1>4, ConstantsOK

LEMMA RefusalsStep == Inv /\ CapInv /\ ReplyInv /\ [Next]_vars => RefusedFairly
<1> SUFFICES ASSUME Inv, CapInv, ReplyInv, [Next]_vars PROVE RefusedFairly
  OBVIOUS
<1>1. CASE UNCHANGED answer
  BY <1>1 DEF RefusedFairly
<1>2. ASSUME NEW w \in Writes, Caller(w) PROVE RefusedFairly
  <2>1. w \in Commands
    BY DEF Commands
  <2>2. UNCHANGED answer \/ \E a \in Answers : answer' = [answer EXCEPT ![w] = a]
    BY <1>2 DEF Caller, ReserveBytes, TrySend, GiveBack, Tell, Answers
  <2> QED
    BY <1>1, <2>1, <2>2, ToldOther
<1>3. CASE Writer
  <2>1. CASE ReplyWrite
    <3>1. writer.cmd \in Writes
      BY <2>1 DEF Inv, HandsInv, ReplyWrite, Working
    <3>2. writer.cmd \in Commands
      BY <3>1 DEF Commands
    <3>3. UNCHANGED answer \/ answer' = [answer EXCEPT ![writer.cmd] = writer.result]
      BY <2>1 DEF ReplyWrite, Deliver, Tell, calls
    <3> QED
      BY <3>1, <3>2, <3>3, ToldOther
  <2> QED
    BY <1>1, <1>3, <2>1 DEF Writer, TakeWrite, Deduct, RunWrite, StopWriter, calls
<1>4. ASSUME NEW t \in Threads, Reader(t) PROVE RefusedFairly
  <2>1. CASE ReplyRead(t)
    <3>1. reader[t].cmd \in Commands
      BY <2>1 DEF Inv, HandsInv, ReplyRead, Commands
    <3>2. reader[t].result # "full"
      BY <2>1 DEF ReplyInv, ReplyRead
    <3>3. UNCHANGED answer \/ answer' = [answer EXCEPT ![reader[t].cmd] = reader[t].result]
      BY <2>1 DEF ReplyRead, Deliver, Tell, calls
    <3> QED
      BY <3>1, <3>2, <3>3, ToldOther
  <2> QED
    BY <1>1, <1>4, <2>1 DEF Reader, TakeRead, RunRead, StopReader, calls
<1>5. ASSUME NEW r \in Reads, SendRead(r) PROVE RefusedFairly
  <2>1. CASE Accepting = {}
    BY <2>1, NoneAccepts DEF RefusedFairly
  <2>2. CASE Accepting # {}
    BY <1>1, <1>5, <2>2 DEF SendRead
  <2> QED
    BY <2>1, <2>2
<1>6. ASSUME NEW c \in Commands, Drop(c) PROVE RefusedFairly
  BY <1>1, <1>6 DEF Drop
<1>7. CASE Close \/ Joined \/ UNCHANGED vars
  BY <1>1, <1>7 DEF Close, Joined, vars, calls
<1> QED
  BY <1>2, <1>3, <1>4, <1>5, <1>6, <1>7 DEF Next

\* The round robin refuses a read only when every queue is full, or the senders are
\* gone: wherever it starts and however many threads there are, its offsets come to
\* every queue; and no read thread tells a caller so (db/mod.rs:235).
THEOREM ReadsAreRefusedFairly == Spec => ReadsFindRoom
<1>1. Inv /\ CapInv /\ ReplyInv /\ [Next]_vars
        => [\A r \in Reads : answer[r] = "none" /\ answer'[r] = "full" =>
              ~open.reads \/ \A t \in Threads : Len(rqueue[t]) = ReadCapacity]_vars
  BY RefusalsStep DEF RefusedFairly, NoRoom
<1> QED
  BY <1>1, InvInit, InvNext, CapInit, CapNext, ReplyInit, ReplyNext, PTL
     DEF Spec, ReadsFindRoom

=============================================================================
