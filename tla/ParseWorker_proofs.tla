------------------------- MODULE ParseWorker_proofs -------------------------
(***************************************************************************)
(* For every set of files, every tags and every number of parses and       *)
(* crashes: a verdict is about the file that was asked for, and a child    *)
(* that is not the worker is gone, killed, or left by a server that died;  *)
(* and metadata is cut from its least important end.                       *)
(*                                                                         *)
(* The invariant follows the pipes of the worker. Between two files they   *)
(* are empty and the child waits; while the server reads, the file is in   *)
(* exactly one place: the input, the parser, or the answer. So there is    *)
(* nothing of an earlier file that a later one could be given. A worker    *)
(* for which this may not hold, as it timed out, is one that was killed    *)
(* and is never asked again.                                               *)
(*                                                                         *)
(* Trimming ends because every step makes the tags smaller. What a         *)
(* recursion over their size needs is that a set of sizes has a least one. *)
(***************************************************************************)
EXTENDS ParseWorker, FiniteSetTheorems, WellFoundedInduction, TLAPS

\* A worker between two files.
Quiet(kid) == kid.st # "parse" /\ kid.in = <<>> /\ kid.out = <<>>

\* A worker that was sent f.
Busy(kid, f) ==
    \/ kid.st = "read" /\ kid.in = <<f>> /\ kid.out = <<>>
    \/ kid.st = "parse" /\ kid.in = <<>> /\ kid.file = f /\ kid.out = <<>>
    \/ /\ kid.st # "parse" /\ kid.in = <<>>
       /\ kid.out = <<>> \/ \E a \in Responses : a.file = f /\ kid.out = <<a>>

Fits(kid) ==
    /\ at \in {"idle", "write"} => Quiet(kid)
    /\ at = "read" => Busy(kid, file)
    /\ at = "reap" => kid.killed

Standing ==
    /\ at \in {"spawn", "down"} => worker = 0
    /\ at \in {"idle", "down"} <=> file = NoFile

\* A child that parses has a file.
Held(kid) == kid.st = "parse" => kid.file \in Files

Inv == /\ TypeOK /\ Standing /\ OthersDoomed
       /\ worker # 0 => Fits(kids[worker])
       /\ \A k \in Kids : Held(kids[k])

----------------------------------------------------------------------------
(* Sequences *)

LEMMA NoItem == ASSUME NEW S PROVE <<>> \in Seq(S)
  OBVIOUS

LEMMA OneItem ==
  ASSUME NEW S, NEW x \in S, NEW q \in Seq(S), q = <<>>
  PROVE  Append(q, x) = <<x>> /\ Append(q, x) \in Seq(S)
  OBVIOUS

LEMMA Appended ==
  ASSUME NEW S, NEW x \in S, NEW q \in Seq(S)
  PROVE  Append(q, x) \in Seq(S)
  OBVIOUS

LEMMA FirstOf ==
  ASSUME NEW S, NEW q \in Seq(S), q # <<>>
  PROVE  Head(q) \in S /\ Tail(q) \in Seq(S)
  OBVIOUS

LEMMA OnlyOne ==
  ASSUME NEW x
  PROVE  Head(<<x>>) = x /\ Tail(<<x>>) = <<>> /\ <<x>> # <<>>
  OBVIOUS

LEMMA Replaced ==
  ASSUME NEW S, NEW q \in Seq(S), NEW k \in DOMAIN q, NEW x \in S,
         NEW r, r = [q EXCEPT ![k] = x]
  PROVE  /\ r \in Seq(S) /\ Len(r) = Len(q) /\ DOMAIN r = DOMAIN q
         /\ r[k] = x /\ \A j \in DOMAIN q : j # k => r[j] = q[j]
  OBVIOUS

LEMMA OneMore ==
  ASSUME NEW S, NEW q \in Seq(S), NEW x \in S, NEW r, r = Append(q, x)
  PROVE  /\ r \in Seq(S) /\ Len(r) = Len(q) + 1 /\ DOMAIN r = DOMAIN q \cup {Len(q) + 1}
         /\ r[Len(q) + 1] = x /\ \A j \in DOMAIN q : r[j] = q[j]
  OBVIOUS

LEMMA Positions ==
  ASSUME NEW S, NEW q \in Seq(S)
  PROVE  DOMAIN q = 1 .. Len(q) /\ Len(q) \in Nat
  OBVIOUS

----------------------------------------------------------------------------
(* What happens to a child *)

KilledKid(kid) == [kid EXCEPT !.killed = TRUE]
GoneKid(kid, out) == [kid EXCEPT !.st = "gone", !.in = <<>>, !.file = NoFile, !.out = out]
BegunKid(kid, rest, f) == [kid EXCEPT !.st = "parse", !.in = rest, !.file = f]
AnsweredKid(kid, out) == [kid EXCEPT !.st = "read", !.file = NoFile, !.out = out]

LEMMA KidTyped ==
  ASSUME NEW kid \in KidStates
  PROVE  /\ kid.st \in {"read", "parse", "gone"} /\ kid.in \in Seq(Files)
         /\ kid.file \in Files \cup {NoFile} /\ kid.out \in Seq(Responses)
         /\ kid.killed \in BOOLEAN /\ kid.tied \in BOOLEAN
  BY DEF KidStates

LEMMA KilledTyped ==
  ASSUME NEW kid \in KidStates
  PROVE  /\ KilledKid(kid) \in KidStates /\ KilledKid(kid).killed
         /\ KilledKid(kid).st = kid.st /\ KilledKid(kid).in = kid.in
         /\ KilledKid(kid).out = kid.out /\ KilledKid(kid).file = kid.file
  BY DEF KilledKid, KidStates

\* One field of a child replaced.
LEMMA StTyped ==
  ASSUME NEW kid \in KidStates, NEW v \in {"read", "parse", "gone"}
  PROVE  [kid EXCEPT !.st = v] \in KidStates
  BY DEF KidStates
LEMMA InTyped ==
  ASSUME NEW kid \in KidStates, NEW v \in Seq(Files)
  PROVE  [kid EXCEPT !.in = v] \in KidStates
  BY DEF KidStates
LEMMA FileTyped ==
  ASSUME NEW kid \in KidStates, NEW v \in Files \cup {NoFile}
  PROVE  [kid EXCEPT !.file = v] \in KidStates
  BY DEF KidStates
LEMMA OutTyped ==
  ASSUME NEW kid \in KidStates, NEW v \in Seq(Responses)
  PROVE  [kid EXCEPT !.out = v] \in KidStates
  BY DEF KidStates

LEMMA GoneTyped ==
  ASSUME NEW kid \in KidStates, NEW out \in Seq(Responses)
  PROVE  /\ GoneKid(kid, out) \in KidStates /\ GoneKid(kid, out).st = "gone"
         /\ GoneKid(kid, out).in = <<>> /\ GoneKid(kid, out).out = out
         /\ GoneKid(kid, out).killed = kid.killed
<1>1. \A b \in KidStates : /\ [b EXCEPT !.st = "gone"] \in KidStates
                           /\ [b EXCEPT !.in = <<>>] \in KidStates
  BY StTyped, InTyped, NoItem
<1>2. \A b \in KidStates : /\ [b EXCEPT !.file = NoFile] \in KidStates
                           /\ [b EXCEPT !.out = out] \in KidStates
  BY FileTyped, OutTyped
<1>3. GoneKid(kid, out) \in KidStates
  BY <1>1, <1>2 DEF GoneKid
<1> QED
  BY <1>3 DEF GoneKid, KidStates

LEMMA BegunTyped ==
  ASSUME NEW kid \in KidStates, NEW rest \in Seq(Files), NEW f \in Files
  PROVE  /\ BegunKid(kid, rest, f) \in KidStates /\ BegunKid(kid, rest, f).st = "parse"
         /\ BegunKid(kid, rest, f).in = rest /\ BegunKid(kid, rest, f).out = kid.out
         /\ BegunKid(kid, rest, f).file = f /\ BegunKid(kid, rest, f).killed = kid.killed
<1>1. \A b \in KidStates : /\ [b EXCEPT !.st = "parse"] \in KidStates
                           /\ [b EXCEPT !.in = rest] \in KidStates
                           /\ [b EXCEPT !.file = f] \in KidStates
  BY StTyped, InTyped, FileTyped
<1>2. BegunKid(kid, rest, f) \in KidStates
  BY <1>1 DEF BegunKid
<1> QED
  BY <1>2 DEF BegunKid, KidStates

LEMMA AnsweredTyped ==
  ASSUME NEW kid \in KidStates, NEW out \in Seq(Responses)
  PROVE  /\ AnsweredKid(kid, out) \in KidStates /\ AnsweredKid(kid, out).st = "read"
         /\ AnsweredKid(kid, out).in = kid.in /\ AnsweredKid(kid, out).out = out
         /\ AnsweredKid(kid, out).killed = kid.killed
<1>1. \A b \in KidStates : /\ [b EXCEPT !.st = "read"] \in KidStates
                           /\ [b EXCEPT !.file = NoFile] \in KidStates
                           /\ [b EXCEPT !.out = out] \in KidStates
  BY StTyped, OutTyped, FileTyped
<1>2. AnsweredKid(kid, out) \in KidStates
  BY <1>1 DEF AnsweredKid
<1> QED
  BY <1>2 DEF AnsweredKid, KidStates

LEMMA SentTyped ==
  ASSUME NEW kid \in KidStates, NEW in \in Seq(Files), NEW b, b = [kid EXCEPT !.in = in]
  PROVE  /\ b \in KidStates /\ b.in = in /\ b.st = kid.st /\ b.out = kid.out
         /\ b.killed = kid.killed
  BY DEF KidStates

LEMMA OutChanged ==
  ASSUME NEW kid \in KidStates, NEW out \in Seq(Responses), NEW b,
         b = [kid EXCEPT !.out = out]
  PROVE  /\ b \in KidStates /\ b.in = kid.in /\ b.st = kid.st /\ b.out = out
         /\ b.killed = kid.killed
  BY DEF KidStates

\* What TypeOK says of the children.
LEMMA KidsTyped ==
  ASSUME TypeOK
  PROVE  /\ Kids = 1 .. Len(kids) /\ Len(kids) \in Nat
         /\ \A k \in Kids : kids[k] \in KidStates
         /\ worker # 0 => worker \in Kids
<1>1. kids \in Seq(KidStates) /\ worker \in 0 .. Len(kids)
  BY DEF TypeOK
<1> QED
  BY <1>1, Positions DEF Kids

\* One child replaced, and nothing else in kids.
LEMMA Put ==
  ASSUME TypeOK, NEW k \in Kids, NEW kid \in KidStates, kids' = With(k, kid)
  PROVE  /\ kids' \in Seq(KidStates) /\ Len(kids') = Len(kids) /\ Kids' = Kids
         /\ kids'[k] = kid /\ \A j \in Kids : j # k => kids'[j] = kids[j]
<1>1. kids \in Seq(KidStates) /\ k \in DOMAIN kids
  BY DEF TypeOK, Kids
<1>2. kids' = [kids EXCEPT ![k] = kid]
  BY DEF With
<1> QED
  BY <1>1, <1>2, Replaced DEF Kids

----------------------------------------------------------------------------
(* The steps of a child *)

LEMMA KidKeeps ==
  ASSUME Inv, NEW k \in Kids, NEW kid \in KidStates, kids' = With(k, kid),
         UNCHANGED <<at, file, worker, verdict, lost, asks, crashes>>,
         Alive(k), kids[k].killed => kid.killed, Held(kid),
         k = worker => Fits(kid)
  PROVE  Inv'
<1>1. TypeOK
  BY DEF Inv
<1>2. /\ kids' \in Seq(KidStates) /\ Len(kids') = Len(kids) /\ Kids' = Kids
      /\ kids'[k] = kid /\ \A j \in Kids : j # k => kids'[j] = kids[j]
  BY <1>1, Put
<1>3. TypeOK'
  BY <1>1, <1>2 DEF TypeOK
<1>4. Standing'
  BY DEF Inv, Standing
<1>5. OthersDoomed'
  BY <1>2 DEF Inv, OthersDoomed, Alive
<1>6. worker' # 0 => Fits(kids[worker])'
  BY <1>1, <1>2, KidsTyped DEF Inv, Fits
<1>7. \A j \in Kids' : Held(kids[j])'
  BY <1>2 DEF Inv, Held
<1> QED
  BY <1>3, <1>4, <1>5, <1>6, <1>7 DEF Inv

LEMMA KidReadsKeeps ==
  ASSUME Inv, NEW k \in Kids, KidReads(k)
  PROVE  Inv'
<1>1. kids[k] \in KidStates /\ kids[k].st = "read" /\ Alive(k)
  BY KidsTyped DEF Inv, KidReads, Alive
<1>2. CASE kids[k].in # <<>> /\ kids' = Begun(k)
  <2> DEFINE rest == Tail(kids[k].in)
             f == Head(kids[k].in)
  <2>1. rest \in Seq(Files) /\ f \in Files
    BY <1>1, <1>2, KidTyped, FirstOf
  <2>2. kids' = With(k, BegunKid(kids[k], rest, f))
    BY <1>2 DEF Begun, BegunKid
  <2>3. k = worker /\ at = "read" => rest = <<>> /\ f = file /\ kids[k].out = <<>>
    <3> SUFFICES ASSUME k = worker, at = "read"
                 PROVE  rest = <<>> /\ f = file /\ kids[k].out = <<>>
      OBVIOUS
    <3>1. kids[k].in = <<file>> /\ kids[k].out = <<>>
      BY <1>1, <1>2, KidsTyped, ConstantsOK DEF Inv, Fits, Busy
    <3> QED
      BY <3>1, OnlyOne
  <2>4. k = worker => at \notin {"idle", "write"}
    BY <1>2, KidsTyped DEF Inv, Fits, Quiet
  <2> HIDE DEF rest, f
  <2> DEFINE kid == BegunKid(kids[k], rest, f)
  <2>5. /\ kid \in KidStates /\ kid.st = "parse" /\ kid.in = rest
        /\ kid.out = kids[k].out /\ kid.file = f /\ kid.killed = kids[k].killed
    BY <1>1, <2>1, BegunTyped
  <2>6. kids' = With(k, kid)
    BY <2>2
  <2> HIDE DEF kid
  <2>7. k = worker => Fits(kid)
    <3> SUFFICES ASSUME k = worker PROVE Fits(kid)
      OBVIOUS
    <3>1. worker # 0
      BY KidsTyped DEF Inv
    <3> QED
      BY <2>3, <2>4, <2>5, <3>1 DEF Inv, Fits, Busy
  <2> QED
    BY <1>1, <2>1, <2>5, <2>6, <2>7, KidKeeps DEF KidReads, Held
<1>3. CASE InputEnds(k) /\ kids' = Gone(k, <<>>)
  <2> DEFINE kid == GoneKid(kids[k], <<>>)
  <2>1. kids' = With(k, kid) /\ k # worker
    BY <1>3 DEF Gone, GoneKid, InputEnds, Unowned
  <2>2. kid \in KidStates /\ kid.killed = kids[k].killed /\ kid.st = "gone"
    BY <1>1, GoneTyped, NoItem
  <2> HIDE DEF kid
  <2> QED
    BY <1>1, <2>1, <2>2, KidKeeps DEF KidReads, Held
<1> QED
  BY <1>2, <1>3 DEF KidReads

\* A worker that is gone has all its say in the pipe.
LEMMA GoneFits ==
  ASSUME Inv, worker # 0, NEW out \in Seq(Responses),
         at \in {"idle", "write"} => out = <<>>,
         at = "read" => out = <<>> \/ \E a \in Responses : a.file = file /\ out = <<a>>
  PROVE  Fits(GoneKid(kids[worker], out))
<1> DEFINE kid == GoneKid(kids[worker], out)
<1>1. kids[worker] \in KidStates
  BY KidsTyped DEF Inv
<1>2. /\ kid.st = "gone" /\ kid.in = <<>> /\ kid.out = out
      /\ kid.killed = kids[worker].killed
  BY <1>1, GoneTyped
<1> HIDE DEF kid
<1>3. Fits(kid)
  BY <1>2 DEF Inv, Fits, Quiet, Busy
<1> QED
  BY <1>3 DEF kid

LEMMA GoneKeeps ==
  ASSUME Inv, NEW k \in Kids, Alive(k), NEW out \in Seq(Responses),
         kids' = Gone(k, out),
         UNCHANGED <<at, file, worker, verdict, lost, asks, crashes>>,
         k = worker /\ at \in {"idle", "write"} => out = <<>>,
         k = worker /\ at = "read" =>
             out = <<>> \/ \E a \in Responses : a.file = file /\ out = <<a>>
  PROVE  Inv'
<1> DEFINE kid == GoneKid(kids[k], out)
<1>1. kids[k] \in KidStates /\ k # 0
  BY KidsTyped DEF Inv
<1>2. kids' = With(k, kid)
  BY DEF Gone, GoneKid
<1>3. kid \in KidStates /\ kid.killed = kids[k].killed /\ kid.st = "gone"
  BY <1>1, GoneTyped
<1>4. k = worker => Fits(kid)
  BY <1>1, GoneFits
<1> HIDE DEF kid
<1> QED
  BY <1>2, <1>3, <1>4, KidKeeps DEF Held

\* What a child that parses has said already, if it is the worker that is waited
\* for: nothing, and the file in its hands is the right one.
LEMMA Parsing ==
  ASSUME Inv, NEW k \in Kids, kids[k].st = "parse"
  PROVE  /\ kids[k] \in KidStates /\ Alive(k) /\ k # 0
         /\ k = worker => at \notin {"idle", "write"}
         /\ k = worker /\ at = "read" =>
              kids[k].out = <<>> /\ kids[k].file = file /\ kids[k].in = <<>>
<1>1. kids[k] \in KidStates /\ Alive(k) /\ k # 0
  BY KidsTyped DEF Inv, Alive
<1> QED
  BY <1>1 DEF Inv, Fits, Quiet, Busy

LEMMA KidDiesKeeps ==
  ASSUME Inv, NEW k \in Kids, KidDies(k)
  PROVE  Inv'
<1> DEFINE out == kids[k].out
<1>1. kids[k] \in KidStates /\ k # 0
  BY KidsTyped DEF Inv
<1>2. out \in Seq(Responses)
  BY <1>1, KidTyped
<1>3. k = worker /\ at \in {"idle", "write"} => out = <<>>
  BY <1>1 DEF Inv, Fits, Quiet
<1>4. k = worker /\ at = "read" =>
        out = <<>> \/ \E a \in Responses : a.file = file /\ out = <<a>>
  BY <1>1 DEF Inv, Fits, Busy
<1>5. kids' = Gone(k, out)
  BY DEF KidDies
<1> HIDE DEF out
<1> QED
  BY <1>2, <1>3, <1>4, <1>5, GoneKeeps DEF KidDies

LEMMA GoodTyped ==
  ASSUME NEW f \in Files, NEW m \in Metas
  PROVE  Good(f, m) \in Responses /\ Good(f, m).file = f
<1> DEFINE n == Normalize(m)
<1>1. n \in {Normalize(t) : t \in Metas}
  OBVIOUS
<1> HIDE DEF n
<1>2. Good(f, m) = [kind |-> "good", file |-> f, tags |-> m, meta |-> n]
  BY DEF Good, n
<1> QED
  BY <1>1, <1>2 DEF Responses

LEMMA BadTyped ==
  ASSUME NEW f \in Files
  PROVE  /\ Bad(f) \in Responses /\ Bad(f).file = f
         /\ Junk(f) \in Responses /\ Junk(f).file = f
  BY DEF Bad, Junk, Responses

LEMMA KidAnswersKeeps ==
  ASSUME Inv, NEW k \in Kids, KidAnswers(k)
  PROVE  Inv'
<1>1. /\ kids[k].st = "parse"
      /\ UNCHANGED <<at, file, worker, verdict, lost, asks, crashes>>
  BY DEF KidAnswers
<1>2. /\ kids[k] \in KidStates /\ Alive(k) /\ k # 0 /\ kids[k].out \in Seq(Responses)
      /\ kids[k].file \in Files
  BY <1>1, Parsing, KidTyped DEF Inv, Held
<1>3. PICK a \in {Good(kids[k].file, m) : m \in Metas} \cup {Bad(kids[k].file)} :
        \/ Unowned(k) /\ kids' = Gone(k, kids[k].out)
        \/ kids' = Gone(k, kids[k].out)
        \/ kids' = Answered(k, a)
  BY DEF KidAnswers
<1>4. a \in Responses /\ a.file = kids[k].file
  BY <1>2, <1>3, GoodTyped, BadTyped
<1>5. CASE kids' = Gone(k, kids[k].out)
  BY <1>1, <1>2, <1>5, Parsing, GoneKeeps
<1>6. CASE kids' = Answered(k, a)
  <2> DEFINE out == Append(kids[k].out, a)
             kid == AnsweredKid(kids[k], out)
  <2>1. out \in Seq(Responses)
    BY <1>2, <1>4, Appended
  <2>2. kids[k].out = <<>> => out = <<a>>
    BY <1>2, <1>4, OneItem
  <2>3. kids' = With(k, kid)
    BY <1>6 DEF Answered, AnsweredKid
  <2> HIDE DEF out
  <2>4. /\ kid \in KidStates /\ kid.st = "read" /\ kid.in = kids[k].in
        /\ kid.out = out /\ kid.killed = kids[k].killed
    BY <1>2, <2>1, AnsweredTyped
  <2> HIDE DEF kid
  <2>5. k = worker /\ at = "read" => Busy(kid, file)
    BY <1>1, <1>4, <2>2, <2>4, Parsing DEF Busy
  <2>6. k = worker => Fits(kid)
    BY <1>1, <1>2, <2>4, <2>5, Parsing DEF Inv, Fits
  <2> QED
    BY <1>1, <1>2, <2>3, <2>4, <2>6, KidKeeps DEF Held
<1> QED
  BY <1>3, <1>5, <1>6

LEMMA KidFailsKeeps ==
  ASSUME Inv, NEW k \in Kids, KidFails(k)
  PROVE  Inv'
<1>1. /\ kids[k].st = "parse"
      /\ UNCHANGED <<at, file, worker, verdict, lost, asks, crashes>>
  BY DEF KidFails
<1>2. /\ kids[k] \in KidStates /\ Alive(k) /\ kids[k].out \in Seq(Responses)
      /\ kids[k].file \in Files
  BY <1>1, Parsing, KidTyped DEF Inv, Held
<1> DEFINE half == Append(kids[k].out, Junk(kids[k].file))
<1>3. PICK out \in {<<>>, kids[k].out, half} : kids' = Gone(k, out)
  BY DEF KidFails
<1>4. half \in Seq(Responses)
  BY <1>2, BadTyped, Appended
<1>5. kids[k].out = <<>> => half = <<Junk(kids[k].file)>>
  BY <1>2, BadTyped, OneItem
<1>6. Junk(kids[k].file) \in Responses /\ Junk(kids[k].file).file = kids[k].file
  BY <1>2, BadTyped
<1> HIDE DEF half
<1>7. out \in Seq(Responses)
  BY <1>2, <1>3, <1>4, NoItem
<1>8. k = worker /\ at = "read" =>
        out = <<>> \/ \E a \in Responses : a.file = file /\ out = <<a>>
  BY <1>1, <1>3, <1>5, <1>6, Parsing
<1> QED
  BY <1>1, <1>2, <1>3, <1>7, <1>8, Parsing, GoneKeeps

----------------------------------------------------------------------------
(* The steps of the server *)

LEMMA WorkerOK ==
  ASSUME Inv, worker # 0
  PROVE  /\ worker \in Kids /\ kids[worker] \in KidStates
         /\ Fits(kids[worker]) /\ Held(kids[worker])
  BY KidsTyped DEF Inv

LEMMA AskKeeps ==
  ASSUME Inv, NEW f \in Files, Ask(f)
  PROVE  Inv'
<1>1. /\ at = "idle" /\ asks < MaxAsks /\ file' = f /\ asks' = asks + 1
      /\ at' = Entry /\ verdict' = Failure
      /\ UNCHANGED <<worker, kids, lost, crashes>>
  BY DEF Ask, UnchangedByParse, Failure
<1>2. /\ Kids' = Kids
      /\ \/ at' = "spawn" /\ worker = 0
         \/ at' = "write" /\ worker # 0
  BY <1>1 DEF Kids, Entry
<1>3. TypeOK'
  BY <1>1, <1>2, ConstantsOK DEF Inv, TypeOK, Failure
<1>4. Standing' /\ OthersDoomed'
  BY <1>1, <1>2, ConstantsOK DEF Inv, Standing, OthersDoomed, Alive
<1>5. worker' # 0 => Fits(kids[worker])'
  BY <1>1, <1>2 DEF Inv, Fits
<1>6. \A k \in Kids' : Held(kids[k])'
  BY <1>1, <1>2 DEF Inv, Held
<1> QED
  BY <1>3, <1>4, <1>5, <1>6 DEF Inv

LEMMA ChildTyped ==
  ASSUME NEW tied \in BOOLEAN
  PROVE  Child(tied) \in KidStates /\ Quiet(Child(tied)) /\ Held(Child(tied))
<1>1. <<>> \in Seq(Files) /\ <<>> \in Seq(Responses)
  BY NoItem
<1> QED
  BY <1>1 DEF Child, KidStates, Quiet, Held

LEMMA SpawnKeeps ==
  ASSUME Inv, Spawn
  PROVE  Inv'
<1>1. at = "spawn" /\ worker = 0 /\ file # NoFile /\ file \in Files
  BY DEF Spawn, Inv, Standing, TypeOK
<1>2. UNCHANGED <<asks, lost, crashes>>
  BY DEF Spawn, UnchangedByParse
<1>3. CASE Return(Failure) /\ UNCHANGED <<worker, kids>>
  <2>1. at' = "idle" /\ file' = NoFile /\ verdict' = Failure /\ Kids' = Kids
    BY <1>3 DEF Return, Kids
  <2> QED
    BY <1>1, <1>2, <1>3, <2>1
    DEF Inv, TypeOK, Failure, Standing, OthersDoomed, Alive, Held
<1>4. CASE \E tied \in BOOLEAN : /\ kids' = Append(kids, Child(tied))
                                 /\ worker' = Len(kids) + 1 /\ at' = "write"
                                 /\ UNCHANGED <<file, verdict>>
  <2>1. PICK tied \in BOOLEAN : kids' = Append(kids, Child(tied))
    BY <1>4
  <2> DEFINE kid == Child(tied)
  <2>2. kid \in KidStates /\ Quiet(kid) /\ Held(kid)
    BY ChildTyped
  <2>3. kids' = Append(kids, kid)
    BY <2>1
  <2> HIDE DEF kid
  <2>4. kids \in Seq(KidStates) /\ Kids = 1 .. Len(kids) /\ Len(kids) \in Nat
    BY KidsTyped DEF Inv, TypeOK
  <2> DEFINE n == Len(kids) + 1
  <2>5. /\ kids' \in Seq(KidStates) /\ Len(kids') = n /\ DOMAIN kids' = Kids \cup {n}
        /\ kids'[n] = kid /\ \A j \in Kids : kids'[j] = kids[j]
    BY <2>2, <2>3, <2>4, OneMore DEF Kids
  <2>6. n \in Nat /\ n # 0 /\ n \in 0 .. n /\ n \notin Kids
    BY <2>4
  <2>7. Kids' = Kids \cup {n} /\ worker' = n /\ at' = "write" /\ UNCHANGED <<file, verdict>>
    BY <1>4, <2>5 DEF Kids
  <2> HIDE DEF n
  <2>8. TypeOK'
    BY <1>2, <2>5, <2>6, <2>7 DEF Inv, TypeOK
  <2>9. Standing'
    BY <1>1, <2>7 DEF Standing
  <2>10. OthersDoomed'
    BY <1>1, <1>2, <2>4, <2>5, <2>7 DEF Inv, OthersDoomed, Alive
  <2>11. Fits(kids[worker])'
    BY <2>2, <2>5, <2>7 DEF Fits, Quiet
  <2>12. \A k \in Kids' : Held(kids[k])'
    BY <2>2, <2>5, <2>7 DEF Inv, Held
  <2> QED
    BY <2>8, <2>9, <2>10, <2>11, <2>12 DEF Inv
<1> QED
  BY <1>3, <1>4 DEF Spawn

\* The child of the worker replaced by a step of the server, which keeps it.
LEMMA WorkerKeeps ==
  ASSUME Inv, worker # 0, NEW kid \in KidStates, kids' = With(worker, kid),
         UNCHANGED <<worker, asks, lost, crashes>>,
         at' \in {"idle", "read", "reap"},
         file' \in Files \cup {NoFile}, at' = "idle" <=> file' = NoFile,
         verdict' \in [ok : BOOLEAN, file : Files \cup {NoFile}],
         kid.st = kids[worker].st, Held(kid),
         at' = "idle" => Quiet(kid), at' = "read" => Busy(kid, file'),
         at' = "reap" => kid.killed
  PROVE  Inv'
<1>1. TypeOK /\ worker \in Kids
  BY WorkerOK DEF Inv
<1>2. /\ kids' \in Seq(KidStates) /\ Len(kids') = Len(kids) /\ Kids' = Kids
      /\ kids'[worker] = kid /\ \A j \in Kids : j # worker => kids'[j] = kids[j]
  BY <1>1, Put
<1>3. TypeOK'
  BY <1>1, <1>2 DEF TypeOK
<1>4. Standing' /\ OthersDoomed'
  BY <1>2 DEF Inv, Standing, OthersDoomed, Alive
<1>5. Fits(kids[worker])'
  BY <1>2 DEF Fits
<1>6. \A j \in Kids' : Held(kids[j])'
  BY <1>2 DEF Inv, Held
<1> QED
  BY <1>3, <1>4, <1>5, <1>6 DEF Inv

LEMMA FailKeeps ==
  ASSUME Inv, at \in {"write", "read"}, Fail, UnchangedByParse
  PROVE  Inv'
<1> DEFINE kid == KilledKid(kids[worker])
<1>1. worker # 0 /\ file # NoFile /\ file \in Files
  BY DEF Inv, TypeOK, Standing
<1>2. kids' = With(worker, kid)
  BY DEF Fail, Killed, KilledKid
<1>3. kid \in KidStates /\ kid.killed /\ kid.st = kids[worker].st /\ Held(kid)
  BY <1>1, WorkerOK, KilledTyped DEF Held
<1>4. verdict \in [ok : BOOLEAN, file : Files \cup {NoFile}]
  BY DEF Inv, TypeOK
<1>5. at' = "reap" /\ UNCHANGED <<file, worker, verdict, asks, lost, crashes>>
  BY DEF Fail, UnchangedByParse
<1> HIDE DEF kid
<1> QED
  BY <1>1, <1>2, <1>3, <1>4, <1>5, WorkerKeeps

LEMMA WriteKeeps ==
  ASSUME Inv, Write
  PROVE  Inv'
<1>1. /\ at = "write" /\ worker # 0 /\ file # NoFile /\ file \in Files
      /\ UnchangedByParse
  BY DEF Write, Inv, TypeOK, Standing
<1>2. CASE Fail
  BY <1>1, <1>2, FailKeeps
<1>3. CASE /\ Alive(worker) /\ kids' = Sent(worker) /\ at' = "read"
           /\ UNCHANGED <<file, worker, verdict, asks>>
  <2>1. kids[worker] \in KidStates /\ Quiet(kids[worker]) /\ Held(kids[worker])
    BY <1>1, WorkerOK DEF Fits
  <2> DEFINE in == Append(kids[worker].in, file)
             kid == [kids[worker] EXCEPT !.in = in]
  <2>2. in = <<file>> /\ in \in Seq(Files)
    BY <1>1, <2>1, KidTyped, OneItem DEF Quiet
  <2>3. kids' = With(worker, kid)
    BY <1>3 DEF Sent
  <2> HIDE DEF in
  <2>4. /\ kid \in KidStates /\ kid.in = in /\ kid.st = kids[worker].st
        /\ kid.out = kids[worker].out
    BY <2>1, <2>2 DEF KidStates
  <2> HIDE DEF kid
  <2>5. Busy(kid, file)
    <3>1. kid.st = "read"
      BY <1>3, <2>1, <2>4, KidTyped DEF Alive, Quiet
    <3> QED
      BY <2>1, <2>2, <2>4, <3>1 DEF Busy, Quiet
  <2>6. Held(kid)
    BY <2>1, <2>4 DEF Held, Quiet
  <2>7. verdict \in [ok : BOOLEAN, file : Files \cup {NoFile}]
    BY DEF Inv, TypeOK
  <2>8. UNCHANGED <<worker, asks, lost, crashes, file, verdict>>
    BY <1>1, <1>3 DEF UnchangedByParse
  <2> QED
    BY <1>1, <1>3, <2>3, <2>4, <2>5, <2>6, <2>7, <2>8, WorkerKeeps
<1> QED
  BY <1>1, <1>2, <1>3 DEF Write

\* What the server can read is about the file in flight.
LEMMA AnswerIsOfTheFile ==
  ASSUME Inv, at = "read", kids[worker].out # <<>>
  PROVE  /\ worker # 0 /\ file \in Files /\ file # NoFile
         /\ Head(kids[worker].out).file = file /\ Tail(kids[worker].out) = <<>>
         /\ Quiet([kids[worker] EXCEPT !.out = Tail(kids[worker].out)])
         /\ kids[worker].st # "parse"
<1>1. worker # 0 /\ file \in Files /\ file # NoFile
  BY DEF Inv, TypeOK, Standing
<1>2. kids[worker] \in KidStates /\ Busy(kids[worker], file)
  BY <1>1, WorkerOK DEF Fits
<1>3. PICK a \in Responses : a.file = file /\ kids[worker].out = <<a>>
  BY <1>2 DEF Busy
<1>4. kids[worker].st # "parse" /\ kids[worker].in = <<>>
  BY <1>2 DEF Busy
<1>5. Head(kids[worker].out) = a /\ Tail(kids[worker].out) = <<>>
  BY <1>3, OnlyOne
<1> DEFINE out == Tail(kids[worker].out)
           kid == [kids[worker] EXCEPT !.out = out]
<1>6. out = <<>> /\ out \in Seq(Responses)
  BY <1>5, NoItem
<1> HIDE DEF out
<1>7. kid.in = <<>> /\ kid.st # "parse" /\ kid.out = out
  BY <1>2, <1>4, <1>6, OutChanged
<1>8. Quiet(kid)
  BY <1>6, <1>7 DEF Quiet
<1> QED
  BY <1>1, <1>3, <1>4, <1>5, <1>8 DEF out

LEMMA ReadKeeps ==
  ASSUME Inv, Read
  PROVE  Inv'
<1>1. at = "read" /\ UnchangedByParse
  BY DEF Read
<1>2. CASE Fail
  BY <1>1, <1>2, FailKeeps
<1>3. CASE ~Fail
  <2> DEFINE a == Head(kids[worker].out)
             out == Tail(kids[worker].out)
             kid == [kids[worker] EXCEPT !.out = out]
  <2>1. /\ kids[worker].out # <<>> /\ kids' = Taken(worker)
        /\ Return(IF a.kind = "good" THEN Verdict(a) ELSE Failure)
        /\ UNCHANGED <<worker, asks>>
    BY <1>3 DEF Read
  <2>2. /\ worker # 0 /\ a.file \in Files /\ Quiet(kid) /\ out = <<>>
        /\ kids[worker].st # "parse"
    BY <1>1, <2>1, AnswerIsOfTheFile
  <2>3. kids' = With(worker, kid)
    BY <2>1 DEF Taken
  <2>4. kids[worker] \in KidStates /\ out \in Seq(Responses)
    BY <2>2, WorkerOK, NoItem
  <2>5. /\ at' = "idle" /\ file' = NoFile
        /\ verdict' \in {Verdict(a), Failure}
    BY <2>1 DEF Return
  <2>6. verdict' \in [ok : BOOLEAN, file : Files \cup {NoFile}]
    <3>1. a.file \in Files
      BY <2>2
    <3> HIDE DEF a
    <3>2. Verdict(a) \in [ok : BOOLEAN, file : Files \cup {NoFile}]
      BY <3>1 DEF Verdict
    <3>3. Failure \in [ok : BOOLEAN, file : Files \cup {NoFile}]
      BY DEF Failure
    <3> QED
      BY <2>5, <3>2, <3>3
  <2> HIDE DEF out
  <2>7. kid \in KidStates /\ kid.st = kids[worker].st
    BY <2>4, OutChanged
  <2>8. UNCHANGED <<worker, asks, lost, crashes>>
    BY <1>1, <2>1 DEF UnchangedByParse
  <2> HIDE DEF kid
  <2> QED
    BY <2>2, <2>3, <2>5, <2>6, <2>7, <2>8, WorkerKeeps DEF Held
<1> QED
  BY <1>2, <1>3

\* The child of the worker replaced by a step that leaves it: it is killed, or
\* its server died.
LEMMA LeaveKeeps ==
  ASSUME Inv, worker # 0, NEW kid \in KidStates, kids' = With(worker, kid),
         worker' = 0, at' \in {"idle", "down"}, file' = NoFile,
         verdict' \in [ok : BOOLEAN, file : Files \cup {NoFile}],
         lost' = lost \/ lost' = lost \cup {worker}, UNCHANGED asks,
         crashes' \in 0 .. MaxCrashes, Held(kid),
         kid.killed \/ worker \in lost'
  PROVE  Inv'
<1>1. TypeOK /\ worker \in Kids /\ lost \subseteq lost' /\ lost' \subseteq Kids
  BY WorkerOK DEF Inv, TypeOK
<1>2. /\ kids' \in Seq(KidStates) /\ Len(kids') = Len(kids) /\ Kids' = Kids
      /\ kids'[worker] = kid /\ \A j \in Kids : j # worker => kids'[j] = kids[j]
  BY <1>1, Put
<1>3. 0 \in 0 .. Len(kids')
  BY <1>1, <1>2, KidsTyped
<1>4. TypeOK'
  BY <1>1, <1>2, <1>3 DEF TypeOK
<1>5. Standing' /\ OthersDoomed'
  BY <1>1, <1>2 DEF Inv, Standing, OthersDoomed, Alive
<1>6. \A j \in Kids' : Held(kids[j])'
  BY <1>2 DEF Inv, Held
<1> QED
  BY <1>4, <1>5, <1>6 DEF Inv

LEMMA GiveUpKeeps ==
  ASSUME Inv, GiveUp
  PROVE  Inv'
<1>1. /\ at = "reap" /\ at' = "idle" /\ file' = NoFile /\ verdict' = Failure
      /\ worker' = 0 /\ kids' = Closed(worker)
      /\ UNCHANGED <<asks, lost, crashes>>
  BY DEF GiveUp, Return, WorkerAfterFailure, UnchangedByParse
<1>2. worker # 0 /\ verdict' \in [ok : BOOLEAN, file : Files \cup {NoFile}]
  BY <1>1 DEF Inv, TypeOK, Failure
<1> DEFINE kid == [kids[worker] EXCEPT !.out = <<>>]
<1>3. kids' = With(worker, kid)
  BY <1>1 DEF Closed
<1>4. kids[worker] \in KidStates /\ kids[worker].killed /\ Held(kids[worker])
  BY <1>1, <1>2, WorkerOK DEF Fits
<1>5. kid \in KidStates /\ kid.killed /\ Held(kid)
  <2>1. <<>> \in Seq(Responses)
    BY NoItem
  <2> QED
    BY <1>4, <2>1 DEF KidStates, Held
<1>6. crashes' \in 0 .. MaxCrashes
  BY <1>1 DEF Inv, TypeOK
<1> HIDE DEF kid
<1> QED
  BY <1>1, <1>2, <1>3, <1>5, <1>6, LeaveKeeps

LEMMA EndScanKeeps ==
  ASSUME Inv, EndScan
  PROVE  Inv'
<1>1. /\ at = "idle" /\ worker # 0 /\ kids' = Killed(worker) /\ worker' = 0
      /\ UNCHANGED <<at, file, verdict, asks, lost, crashes>>
  BY DEF EndScan, Dropped, UnchangedByParse
<1> DEFINE kid == KilledKid(kids[worker])
<1>2. kids' = With(worker, kid)
  BY <1>1 DEF Killed, KilledKid
<1>3. kid \in KidStates /\ kid.killed /\ Held(kid)
  BY <1>1, WorkerOK, KilledTyped DEF Held
<1>4. /\ file' = NoFile /\ verdict' \in [ok : BOOLEAN, file : Files \cup {NoFile}]
      /\ crashes' \in 0 .. MaxCrashes
  BY <1>1 DEF Inv, TypeOK, Standing
<1> HIDE DEF kid
<1> QED
  BY <1>1, <1>2, <1>3, <1>4, LeaveKeeps

LEMMA CrashKeeps ==
  ASSUME Inv, Crash
  PROVE  Inv'
<1>1. /\ at' = "down" /\ file' = NoFile /\ worker' = 0 /\ asks' = asks
      /\ crashes < MaxCrashes /\ crashes' = crashes + 1
      /\ verdict' = verdict \/ verdict' = Failure
      /\ lost' = lost \cup ({worker} \ {0})
  BY DEF Crash
<1>2. /\ crashes' \in 0 .. MaxCrashes
      /\ verdict' \in [ok : BOOLEAN, file : Files \cup {NoFile}]
  <2>1. Failure \in [ok : BOOLEAN, file : Files \cup {NoFile}]
    BY DEF Failure
  <2>2. /\ verdict \in [ok : BOOLEAN, file : Files \cup {NoFile}]
        /\ crashes \in 0 .. MaxCrashes
    BY DEF Inv, TypeOK
  <2> QED
    BY <1>1, <2>1, <2>2, ConstantsOK
<1>3. CASE worker = 0
  <2>1. UNCHANGED <<kids, worker, lost>> /\ Kids' = Kids
    BY <1>1, <1>3 DEF Crash, Kids
  <2> QED
    BY <1>1, <1>2, <1>3, <2>1
    DEF Inv, TypeOK, Standing, OthersDoomed, Alive, Held
<1>4. CASE worker # 0 /\ kids[worker].tied
  <2> DEFINE kid == KilledKid(kids[worker])
  <2>1. kids' = With(worker, kid)
    BY <1>4 DEF Crash, Killed, KilledKid
  <2>2. kid \in KidStates /\ kid.killed /\ Held(kid)
    BY <1>4, WorkerOK, KilledTyped DEF Held
  <2> HIDE DEF kid
  <2> QED
    BY <1>1, <1>2, <1>4, <2>1, <2>2, LeaveKeeps
<1>5. CASE worker # 0 /\ ~kids[worker].tied
  <2> DEFINE kid == kids[worker]
  <2>1. kid \in KidStates /\ Held(kid) /\ worker \in DOMAIN kids
    BY <1>5, WorkerOK DEF Kids
  <2>2. kids' = With(worker, kid)
    <3>1. kids' = kids /\ kids \in Seq(KidStates)
      BY <1>5 DEF Crash, Inv, TypeOK
    <3> QED
      BY <2>1, <3>1 DEF With
  <2> HIDE DEF kid
  <2> QED
    BY <1>1, <1>2, <1>5, <2>1, <2>2, LeaveKeeps
<1> QED
  BY <1>3, <1>4, <1>5

LEMMA RestartKeeps ==
  ASSUME Inv, Restart
  PROVE  Inv'
<1>1. /\ at = "down" /\ at' = "idle"
      /\ UNCHANGED <<file, worker, kids, verdict, lost, asks, crashes>>
  BY DEF Restart
<1> QED
  BY <1>1 DEF Inv, TypeOK, Standing, OthersDoomed, Alive, Held, Kids

LEMMA NextKeeps ==
  ASSUME Inv, [Next]_vars
  PROVE  Inv'
<1>1. CASE Parse
  BY <1>1, SpawnKeeps, WriteKeeps, ReadKeeps, GiveUpKeeps DEF Parse
<1>2. CASE Timeout
  BY <1>2, FailKeeps DEF Timeout
<1>3. CASE EndScan \/ Crash \/ Restart
  BY <1>3, EndScanKeeps, CrashKeeps, RestartKeeps
<1>4. CASE \E f \in Files : Ask(f)
  BY <1>4, AskKeeps
<1>5. CASE \E k \in Kids : KidReads(k) \/ KidAnswers(k) \/ KidFails(k) \/ KidDies(k)
  BY <1>5, KidReadsKeeps, KidAnswersKeeps, KidFailsKeeps, KidDiesKeeps
<1>6. CASE UNCHANGED vars
  BY <1>6 DEF vars, Inv, TypeOK, Standing, OthersDoomed, Alive, Fits, Quiet, Busy, Held,
              Kids
<1> QED
  BY <1>1, <1>2, <1>3, <1>4, <1>5, <1>6 DEF Next

LEMMA InitOK ==
  ASSUME Init
  PROVE  Inv
<1>1. /\ at = "idle" /\ file = NoFile /\ worker = 0 /\ kids = <<>> /\ lost = {}
      /\ verdict = Failure /\ asks = 0 /\ crashes = 0
  BY DEF Init, Failure
<1>2. kids \in Seq(KidStates) /\ Len(kids) = 0 /\ Kids = {}
  BY <1>1, NoItem DEF Kids
<1>3. verdict \in [ok : BOOLEAN, file : Files \cup {NoFile}]
  BY <1>1 DEF Failure
<1> QED
  BY <1>1, <1>2, <1>3, ConstantsOK DEF Inv, TypeOK, Standing, OthersDoomed

LEMMA Invariance == Spec => []Inv
<1>1. Init => Inv
  BY InitOK
<1>2. Inv /\ [Next]_vars => Inv'
  BY NextKeeps
<1> QED
  BY <1>1, <1>2, PTL DEF Spec

\* Type correctness: pipes carry files and responses, and a server that writes,
\* reads or reaps has a child (parse_one and ParseWorker::parse).
THEOREM WorkerTyped == Spec => []TypeOK
<1>1. Inv => TypeOK
  BY DEF Inv
<1> QED
  BY <1>1, Invariance, PTL

\* No second child is at work: whatever child still lives beside the worker was
\* killed, or left behind by a server that died (kill_on_drop, kill).
THEOREM NoSecondChild == Spec => []OthersDoomed
<1>1. Inv => OthersDoomed
  BY DEF Inv
<1> QED
  BY <1>1, Invariance, PTL

\* A step of the worker is a step of the oracle or none.
LEMMA StepIsOracles ==
  ASSUME Inv, [Next]_vars
  PROVE  [Oracle!Next]_(Oracle!vars)
<1> USE DEF Oracle!vars, Oracle!Next
<1>1. ASSUME Return(Failure), file # NoFile PROVE Oracle!Next
  BY <1>1 DEF Return, Failure, Oracle!Reply, Oracle!Failed, Oracle!NoVerdict
<1>2. ASSUME NEW f \in Files, Ask(f) PROVE Oracle!Next
  BY <1>2 DEF Ask, Oracle!Ask, Oracle!NoVerdict, Inv, Standing
<1>3. CASE Spawn
  BY <1>1, <1>3 DEF Spawn, Inv, Standing
<1>4. CASE Write
  BY <1>4 DEF Write, Fail
<1>5. CASE Read
  <2>1. CASE Fail
    BY <2>1 DEF Fail
  <2>2. CASE ~Fail
    <3> DEFINE a == Head(kids[worker].out)
    <3>1. /\ kids[worker].out # <<>> /\ at = "read"
          /\ Return(IF a.kind = "good" THEN Verdict(a) ELSE Failure)
      BY <1>5, <2>2 DEF Read
    <3>2. file # NoFile /\ a.file = file
      BY <3>1, AnswerIsOfTheFile
    <3>3. Return(Failure) \/ Return(Verdict(a))
      BY <3>1
    <3> HIDE DEF a
    <3>4. CASE Return(Verdict(a))
      BY <3>2, <3>4 DEF Return, Verdict, Oracle!Reply, Oracle!Metadata
    <3> QED
      BY <1>1, <3>2, <3>3, <3>4
  <2> QED
    BY <2>1, <2>2
<1>6. CASE GiveUp
  BY <1>1, <1>6 DEF GiveUp, Inv, Standing
<1>7. CASE Crash
  <2>1. file' = NoFile /\ verdict' = IF file = NoFile THEN verdict ELSE Failure
    BY <1>7 DEF Crash
  <2>2. CASE file = NoFile
    BY <2>1, <2>2
  <2>3. CASE file # NoFile
    BY <2>1, <2>3 DEF Failure, Oracle!Reply, Oracle!Failed, Oracle!NoVerdict
  <2> QED
    BY <2>2, <2>3
<1>8. CASE Timeout \/ EndScan \/ Restart
  BY <1>8 DEF Timeout, Fail, EndScan, Restart
<1>9. CASE \E k \in Kids : KidReads(k) \/ KidAnswers(k) \/ KidFails(k) \/ KidDies(k)
  BY <1>9 DEF KidReads, KidAnswers, KidFails, KidDies
<1>10. CASE UNCHANGED vars
  BY <1>10 DEF vars
<1> QED
  BY <1>2, <1>3, <1>4, <1>5, <1>6, <1>7, <1>8, <1>9, <1>10 DEF Next, Parse

\* What a scan relies on, without the promise of an answer: each call of parse_one
\* returns once, metadata of the file it was called with or a failure, although
\* answers carry no number and a timed-out child may still send one
\* (worker.rs:103, coordinator.rs:543).
THEOREM AnswersLikeTheOracle ==
  Spec => Oracle!Init /\ [][Oracle!Next]_(Oracle!vars)
<1>1. Init => Oracle!Init
  BY DEF Init, Oracle!Init, Oracle!NoVerdict
<1>2. Inv /\ [Next]_vars => [Oracle!Next]_(Oracle!vars)
  BY StepIsOracles
<1> QED
  BY <1>1, <1>2, Invariance, PTL DEF Spec

----------------------------------------------------------------------------
(* Trimming *)

LEMMA Halved ==
  ASSUME NEW n \in Nat
  PROVE  n \div 2 \in Nat /\ (n > 0 => n \div 2 < n)
  OBVIOUS

LEMMA SizeTyped ==
  ASSUME NEW m \in Meta
  PROVE  Size(m) \in Nat
  BY DEF Meta, Size

\* One step of trim_one: it gives something up, and what matters more is kept
\* until what matters less is gone.
Cut(m, r) ==
    /\ r \in Meta
    /\ r.title = m.title /\ r.truncated = m.truncated
    /\ r.artist <= m.artist /\ r.albumTitle <= m.albumTitle
    /\ r.albumArtist <= m.albumArtist /\ r.codec <= m.codec /\ r.mime <= m.mime
    /\ r.artist < m.artist => r.albumTitle = 0
    /\ r.albumTitle < m.albumTitle => r.albumArtist = 0
    /\ r.albumArtist < m.albumArtist => r.codec = 0 /\ r.mime = 0
    /\ r.mime < m.mime => r.codec = 0

LEMMA TrimOneCuts ==
  ASSUME NEW m \in Meta
  PROVE  Cut(m, TrimOne(m)) /\ (TrimOne(m) # m => Size(TrimOne(m)) < Size(m))
<1>1. /\ m.title \in Nat /\ m.artist \in Nat /\ m.albumTitle \in Nat /\ m.albumArtist \in Nat
      /\ m.codec \in {0, 1} /\ m.mime \in {0, 1} /\ m.truncated \in BOOLEAN
  BY DEF Meta
<1>2. Cut(m, m)
  BY <1>1 DEF Cut
<1>3. CASE m.codec = 1
  <2> DEFINE r == [m EXCEPT !.codec = 0]
  <2>1. TrimOne(m) = r
    BY <1>1, <1>3 DEF TrimOne
  <2>2. r \in Meta /\ r = [m EXCEPT !.codec = 0]
    BY DEF Meta
  <2> HIDE DEF r
  <2>3. /\ r.codec = 0 /\ r.title = m.title /\ r.artist = m.artist /\ r.albumTitle = m.albumTitle
        /\ r.albumArtist = m.albumArtist /\ r.mime = m.mime /\ r.truncated = m.truncated
    BY <2>2 DEF Meta
  <2>4. Cut(m, r)
    BY <1>1, <1>3, <2>2, <2>3 DEF Cut
  <2>5. Size(r) < Size(m)
    BY <1>1, <1>3, <2>3 DEF Size
  <2> QED
    BY <2>1, <2>4, <2>5
<1>4. CASE m.codec = 0 /\ m.mime = 1
  <2> DEFINE r == [m EXCEPT !.mime = 0]
  <2>1. TrimOne(m) = r
    BY <1>1, <1>4 DEF TrimOne
  <2>2. r \in Meta /\ r = [m EXCEPT !.mime = 0]
    BY DEF Meta
  <2> HIDE DEF r
  <2>3. /\ r.mime = 0 /\ r.title = m.title /\ r.artist = m.artist /\ r.albumTitle = m.albumTitle
        /\ r.albumArtist = m.albumArtist /\ r.codec = m.codec /\ r.truncated = m.truncated
    BY <2>2 DEF Meta
  <2>4. Cut(m, r)
    BY <1>1, <1>4, <2>2, <2>3 DEF Cut
  <2>5. Size(r) < Size(m)
    BY <1>1, <1>4, <2>3 DEF Size
  <2> QED
    BY <2>1, <2>4, <2>5
<1>5. CASE m.codec = 0 /\ m.mime = 0 /\ m.albumArtist > 0
  <2> DEFINE h == m.albumArtist \div 2
             r == [m EXCEPT !.albumArtist = h]
  <2>1. TrimOne(m) = r
    BY <1>1, <1>5 DEF TrimOne
  <2>2. h \in Nat /\ h < m.albumArtist
    BY <1>1, <1>5, Halved
  <2> HIDE DEF h
  <2>3. r \in Meta /\ r = [m EXCEPT !.albumArtist = h]
    BY <2>2 DEF Meta
  <2> HIDE DEF r
  <2>4. /\ r.albumArtist = h /\ r.title = m.title /\ r.artist = m.artist /\ r.albumTitle = m.albumTitle
        /\ r.codec = m.codec /\ r.mime = m.mime /\ r.truncated = m.truncated
    BY <2>3 DEF Meta
  <2>5. Cut(m, r)
    BY <1>1, <1>5, <2>2, <2>3, <2>4 DEF Cut
  <2>6. Size(r) < Size(m)
    BY <1>1, <1>5, <2>2, <2>4 DEF Size
  <2> QED
    BY <2>1, <2>5, <2>6
<1>6. CASE m.codec = 0 /\ m.mime = 0 /\ m.albumArtist = 0 /\ m.albumTitle > 0
  <2> DEFINE h == m.albumTitle \div 2
             r == [m EXCEPT !.albumTitle = h]
  <2>1. TrimOne(m) = r
    BY <1>1, <1>6 DEF TrimOne
  <2>2. h \in Nat /\ h < m.albumTitle
    BY <1>1, <1>6, Halved
  <2> HIDE DEF h
  <2>3. r \in Meta /\ r = [m EXCEPT !.albumTitle = h]
    BY <2>2 DEF Meta
  <2> HIDE DEF r
  <2>4. /\ r.albumTitle = h /\ r.title = m.title /\ r.artist = m.artist /\ r.albumArtist = m.albumArtist
        /\ r.codec = m.codec /\ r.mime = m.mime /\ r.truncated = m.truncated
    BY <2>3 DEF Meta
  <2>5. Cut(m, r)
    BY <1>1, <1>6, <2>2, <2>3, <2>4 DEF Cut
  <2>6. Size(r) < Size(m)
    BY <1>1, <1>6, <2>2, <2>4 DEF Size
  <2> QED
    BY <2>1, <2>5, <2>6
<1>7. CASE m.codec = 0 /\ m.mime = 0 /\ m.albumArtist = 0 /\ m.albumTitle = 0 /\ m.artist > 0
  <2> DEFINE h == m.artist \div 2
             r == [m EXCEPT !.artist = h]
  <2>1. TrimOne(m) = r
    BY <1>1, <1>7 DEF TrimOne
  <2>2. h \in Nat /\ h < m.artist
    BY <1>1, <1>7, Halved
  <2> HIDE DEF h
  <2>3. r \in Meta /\ r = [m EXCEPT !.artist = h]
    BY <2>2 DEF Meta
  <2> HIDE DEF r
  <2>4. /\ r.artist = h /\ r.title = m.title /\ r.albumTitle = m.albumTitle /\ r.albumArtist = m.albumArtist
        /\ r.codec = m.codec /\ r.mime = m.mime /\ r.truncated = m.truncated
    BY <2>3 DEF Meta
  <2>5. Cut(m, r)
    BY <1>1, <1>7, <2>2, <2>3, <2>4 DEF Cut
  <2>6. Size(r) < Size(m)
    BY <1>1, <1>7, <2>2, <2>4 DEF Size
  <2> QED
    BY <2>1, <2>5, <2>6
<1>8. CASE m.codec = 0 /\ m.mime = 0 /\ m.albumArtist = 0 /\ m.albumTitle = 0 /\ m.artist = 0
  <2>1. TrimOne(m) = m
    BY <1>1, <1>8 DEF TrimOne
  <2> QED
    BY <1>2, <2>1
<1> QED
  BY <1>1, <1>3, <1>4, <1>5, <1>6, <1>7, <1>8

\* Where nothing can be given up, only the title is left.
LEMMA NothingLeft ==
  ASSUME NEW m \in Meta, TrimOne(m) = m
  PROVE  Size(m) = m.title
<1>1. /\ m.title \in Nat /\ m.artist \in Nat /\ m.albumTitle \in Nat /\ m.albumArtist \in Nat
      /\ m.codec \in {0, 1} /\ m.mime \in {0, 1}
  BY DEF Meta
<1>2. m.codec = 0
  BY <1>1 DEF TrimOne, Meta
<1>3. m.mime = 0
  BY <1>1, <1>2 DEF TrimOne, Meta
<1>4. m.albumArtist = 0
  BY <1>1, <1>2, <1>3, Halved DEF TrimOne, Meta
<1>5. m.albumTitle = 0
  BY <1>1, <1>2, <1>3, <1>4, Halved DEF TrimOne, Meta
<1>6. m.artist = 0
  BY <1>1, <1>2, <1>3, <1>4, <1>5, Halved DEF TrimOne, Meta
<1> QED
  BY <1>1, <1>2, <1>3, <1>4, <1>5, <1>6 DEF Size

LEMMA CutsChain ==
  ASSUME NEW m \in Meta, NEW n \in Meta, Cut(m, n), NEW r, Cut(n, r)
  PROVE  Cut(m, r)
<1>1. /\ m.title \in Nat /\ m.artist \in Nat /\ m.albumTitle \in Nat /\ m.albumArtist \in Nat
      /\ m.codec \in {0, 1} /\ m.mime \in {0, 1} /\ m.truncated \in BOOLEAN
  BY DEF Meta
<1>2. /\ n.title \in Nat /\ n.artist \in Nat /\ n.albumTitle \in Nat /\ n.albumArtist \in Nat
      /\ n.codec \in {0, 1} /\ n.mime \in {0, 1} /\ n.truncated \in BOOLEAN
  BY DEF Meta
<1>3. /\ r.title \in Nat /\ r.artist \in Nat /\ r.albumTitle \in Nat /\ r.albumArtist \in Nat
      /\ r.codec \in {0, 1} /\ r.mime \in {0, 1} /\ r.truncated \in BOOLEAN /\ r \in Meta
  BY DEF Cut, Meta
<1> QED
  BY <1>1, <1>2, <1>3 DEF Cut

\* Every set of numbers has a least one.
LEMMA Least ==
  ASSUME NEW T \in SUBSET Nat, T # {}
  PROVE  \E m \in T : \A k \in T : m <= k
<1> DEFINE R == StrictSubsetOrdering(Nat)
           P == {1 .. n : n \in T}
<1>1. P \subseteq FiniteSubsetsOf(Nat) /\ P # {}
  <2>1. ASSUME NEW n \in T PROVE 1 .. n \in FiniteSubsetsOf(Nat)
    <3>1. n \in Nat /\ 1 .. n \in SUBSET Nat
      OBVIOUS
    <3>2. IsFiniteSet(1 .. n)
      BY <3>1, FS_Interval
    <3> QED
      BY <3>1, <3>2 DEF FiniteSubsetsOf
  <2> QED
    BY <2>1
<1>2. IsWellFoundedOn(R, FiniteSubsetsOf(Nat))
  BY FS_StrictSubsetOrderingWellFounded
<1>3. PICK p \in P : \A q \in P : <<q, p>> \notin R
  <2> HIDE DEF R, P
  <2> QED
    BY <1>1, <1>2, WFMin
<1>4. PICK m \in T : p = 1 .. m
  BY <1>3
<1>5. ASSUME NEW k \in T PROVE m <= k
  <2>1. SUFFICES ASSUME k < m PROVE FALSE
    OBVIOUS
  <2>2. k \in Nat /\ m \in Nat
    OBVIOUS
  <2> DEFINE q == 1 .. k
  <2>3. q \subseteq p /\ q # p /\ q \in SUBSET Nat /\ p \in SUBSET Nat
    <3>1. m \in 1 .. m /\ m \notin 1 .. k
      BY <2>1, <2>2
    <3>2. \A i \in 1 .. k : i \in 1 .. m /\ i \in Nat
      BY <2>1, <2>2
    <3> QED
      BY <1>4, <2>2, <3>1, <3>2
  <2>4. <<q, p>> \in R
    <3> HIDE DEF q
    <3> QED
      BY <2>3 DEF StrictSubsetOrdering
  <2>5. q \in P
    OBVIOUS
  <2> QED
    BY <1>3, <2>4, <2>5
<1> QED
  BY <1>5

Stop(m) == Size(m) <= MaxMeta \/ TrimOne(m) = m
UpTo(n) == {m \in Meta : Size(m) <= n}
\* f does on S what Trim does on Meta.
Trims(f, S) == f = [m \in S |-> IF Stop(m) THEN m ELSE f[TrimOne(m)]]

LEMMA Smaller ==
  ASSUME NEW n \in Nat, NEW m \in UpTo(n), ~Stop(m)
  PROVE  /\ TrimOne(m) \in UpTo(n) /\ TrimOne(m) \in Meta
         /\ Size(TrimOne(m)) < Size(m) /\ Size(TrimOne(m)) \in Nat /\ Size(m) \in Nat
<1>1. m \in Meta /\ Size(m) <= n /\ TrimOne(m) # m
  BY DEF UpTo, Stop
<1>2. TrimOne(m) \in Meta /\ Size(TrimOne(m)) < Size(m)
  BY <1>1, TrimOneCuts DEF Cut
<1>3. Size(TrimOne(m)) \in Nat /\ Size(m) \in Nat
  BY <1>1, <1>2, SizeTyped
<1> QED
  BY <1>1, <1>2, <1>3 DEF UpTo

LEMMA TrimsAgree ==
  ASSUME NEW n \in Nat, NEW k \in Nat,
         NEW f, Trims(f, UpTo(n)), NEW g, Trims(g, UpTo(k)),
         NEW m \in UpTo(n) \cap UpTo(k)
  PROVE  f[m] = g[m]
<1> DEFINE Differ == {x \in UpTo(n) \cap UpTo(k) : f[x] # g[x]}
           T == {Size(x) : x \in Differ}
<1>1. SUFFICES ASSUME Differ # {} PROVE FALSE
  OBVIOUS
<1>2. T \in SUBSET Nat /\ T # {}
  BY <1>1, SizeTyped DEF UpTo
<1>3. PICK s \in T : \A t \in T : s <= t
  <2> HIDE DEF T
  <2> QED
    BY <1>2, Least
<1>4. PICK x \in Differ : Size(x) = s
  OBVIOUS
<1>5. f[x] = (IF Stop(x) THEN x ELSE f[TrimOne(x)])
  BY DEF Trims
<1>6. g[x] = (IF Stop(x) THEN x ELSE g[TrimOne(x)])
  BY DEF Trims
<1>7. ~Stop(x) /\ f[TrimOne(x)] # g[TrimOne(x)]
  BY <1>5, <1>6
<1>8. /\ TrimOne(x) \in UpTo(n) /\ TrimOne(x) \in UpTo(k)
      /\ Size(TrimOne(x)) < Size(x) /\ Size(TrimOne(x)) \in Nat /\ Size(x) \in Nat
  BY <1>7, Smaller
<1>9. Size(TrimOne(x)) \in T
  BY <1>7, <1>8
<1> HIDE DEF T, Differ
<1> QED
  BY <1>3, <1>4, <1>8, <1>9

LEMMA TrimsExist ==
  ASSUME NEW k \in Nat
  PROVE  \E f : Trims(f, UpTo(k))
<1> DEFINE T == {n \in Nat : ~\E f : Trims(f, UpTo(n))}
<1>1. SUFFICES ASSUME T # {} PROVE FALSE
  OBVIOUS
<1>2. PICK n \in T : \A t \in T : n <= t
  <2>1. T \in SUBSET Nat
    OBVIOUS
  <2> HIDE DEF T
  <2> QED
    BY <1>1, <2>1, Least
<1>3. n \in Nat /\ ~\E f : Trims(f, UpTo(n))
  OBVIOUS
<1>4. CASE n = 0
  <2>1. \A m \in UpTo(n) : Stop(m)
    BY <1>4, SizeTyped, ConstantsOK DEF UpTo, Stop
  <2> DEFINE f == [m \in UpTo(n) |-> m]
  <2>2. Trims(f, UpTo(n))
    BY <2>1 DEF Trims
  <2> QED
    BY <1>3, <2>2
<1>5. CASE n # 0
  <2>1. n - 1 \in Nat /\ n - 1 \notin T
    BY <1>2, <1>3, <1>5
  <2>2. PICK f : Trims(f, UpTo(n - 1))
    BY <2>1
  <2> DEFINE g == [m \in UpTo(n) |-> IF m \in UpTo(n - 1) THEN f[m]
                                     ELSE IF Stop(m) THEN m ELSE f[TrimOne(m)]]
  <2>3. ASSUME NEW m \in UpTo(n)
        PROVE  g[m] = IF Stop(m) THEN m ELSE g[TrimOne(m)]
    <3>1. CASE m \in UpTo(n - 1)
      <4>1. f[m] = IF Stop(m) THEN m ELSE f[TrimOne(m)]
        BY <2>2, <3>1 DEF Trims
      <4>2. ~Stop(m) => TrimOne(m) \in UpTo(n - 1) /\ TrimOne(m) \in UpTo(n)
        BY <1>3, <2>1, <3>1, Smaller
      <4> QED
        BY <3>1, <4>1, <4>2
    <3>2. CASE m \notin UpTo(n - 1)
      <4>1. ~Stop(m) => TrimOne(m) \in UpTo(n - 1) /\ TrimOne(m) \in UpTo(n)
        BY <1>3, <2>1, Smaller DEF UpTo
      <4> QED
        BY <3>2, <4>1
    <3> QED
      BY <3>1, <3>2
  <2>4. g = [m \in UpTo(n) |-> IF Stop(m) THEN m ELSE g[TrimOne(m)]]
    <3>1. \A m \in UpTo(n) : g[m] = IF Stop(m) THEN m ELSE g[TrimOne(m)]
      BY <2>3
    <3>2. g = [m \in UpTo(n) |-> g[m]]
      OBVIOUS
    <3> HIDE DEF g
    <3> QED
      BY <3>1, <3>2
  <2> HIDE DEF g
  <2> QED
    BY <1>3, <2>4 DEF Trims
<1> QED
  BY <1>4, <1>5

\* Trim is what its definition says, as trim_one makes tags smaller.
LEMMA TrimIsDefined == Trims(Trim, Meta)
<1> DEFINE At(n) == CHOOSE f : Trims(f, UpTo(n))
           g == [m \in Meta |-> At(Size(m))[m]]
<1>1. \A n \in Nat : Trims(At(n), UpTo(n))
  BY TrimsExist
<1> HIDE DEF At
<1>2. ASSUME NEW m \in Meta
      PROVE  g[m] = IF Stop(m) THEN m ELSE g[TrimOne(m)]
  <2>1. Size(m) \in Nat /\ m \in UpTo(Size(m))
    BY SizeTyped DEF UpTo
  <2>2. Trims(At(Size(m)), UpTo(Size(m)))
    BY <1>1, <2>1
  <2>3. At(Size(m))[m] = IF Stop(m) THEN m ELSE At(Size(m))[TrimOne(m)]
    <3> DEFINE h == At(Size(m))
    <3>1. Trims(h, UpTo(Size(m)))
      BY <2>2
    <3> HIDE DEF h
    <3>2. h[m] = IF Stop(m) THEN m ELSE h[TrimOne(m)]
      BY <2>1, <3>1 DEF Trims
    <3> QED
      BY <3>2 DEF h
  <2>4. CASE Stop(m)
    BY <2>3, <2>4
  <2>5. CASE ~Stop(m)
    <3>1. /\ TrimOne(m) \in Meta /\ TrimOne(m) \in UpTo(Size(m))
          /\ Size(TrimOne(m)) \in Nat
      BY <2>1, <2>5, Smaller
    <3>2. TrimOne(m) \in UpTo(Size(TrimOne(m)))
      BY <3>1 DEF UpTo
    <3>3. Trims(At(Size(TrimOne(m))), UpTo(Size(TrimOne(m))))
      BY <1>1, <3>1
    <3>4. At(Size(m))[TrimOne(m)] = At(Size(TrimOne(m)))[TrimOne(m)]
      BY <2>1, <2>2, <3>1, <3>2, <3>3, TrimsAgree
    <3>5. g[TrimOne(m)] = At(Size(TrimOne(m)))[TrimOne(m)]
      BY <3>1
    <3> QED
      BY <2>3, <2>5, <3>4, <3>5
  <2> QED
    BY <2>4, <2>5
<1>3. g = [m \in Meta |-> IF Stop(m) THEN m ELSE g[TrimOne(m)]]
  <2>1. \A m \in Meta : g[m] = IF Stop(m) THEN m ELSE g[TrimOne(m)]
    BY <1>2
  <2>2. g = [m \in Meta |-> g[m]]
    OBVIOUS
  <2> HIDE DEF g
  <2> QED
    BY <2>1, <2>2
<1> HIDE DEF g
<1>4. \E f : f = [m \in Meta |-> IF Size(m) <= MaxMeta \/ TrimOne(m) = m THEN m
                                  ELSE f[TrimOne(m)]]
  BY <1>3 DEF Stop
<1>5. Trim = [m \in Meta |-> IF Size(m) <= MaxMeta \/ TrimOne(m) = m THEN m
                             ELSE Trim[TrimOne(m)]]
  BY <1>4 DEF Trim
<1> QED
  BY <1>5 DEF Trims, Stop

\* Trim gives up no more than it must, from the least important end.
LEMMA Trimmed ==
  ASSUME NEW t \in Meta
  PROVE  Trim[t] \in Meta /\ Cut(t, Trim[t]) /\ Stop(Trim[t])
<1> DEFINE Right(m) == Cut(m, Trim[m]) /\ Stop(Trim[m])
           Wrong == {m \in Meta : ~Right(m)}
           T == {Size(m) : m \in Wrong}
<1>1. Wrong = {}
  <2>1. SUFFICES ASSUME Wrong # {} PROVE FALSE
    OBVIOUS
  <2>2. T \in SUBSET Nat /\ T # {}
    BY <2>1, SizeTyped
  <2>3. PICK s \in T : \A k \in T : s <= k
    <3> HIDE DEF T
    <3> QED
      BY <2>2, Least
  <2>4. PICK m \in Wrong : Size(m) = s
    OBVIOUS
  <2>5. Trim[m] = IF Stop(m) THEN m ELSE Trim[TrimOne(m)]
    BY TrimIsDefined DEF Trims
  <2>6. ASSUME Stop(m) PROVE FALSE
    <3>1. Cut(m, m)
      BY DEF Cut, Meta
    <3> QED
      BY <2>4, <2>5, <2>6, <3>1
  <2>7. ASSUME ~Stop(m) PROVE FALSE
    <3>1. m \in UpTo(Size(m)) /\ Size(m) \in Nat
      BY SizeTyped DEF UpTo
    <3>2. /\ TrimOne(m) \in Meta /\ Size(TrimOne(m)) < Size(m) /\ Size(TrimOne(m)) \in Nat
      BY <2>7, <3>1, Smaller
    <3>3. TrimOne(m) \notin Wrong
      <4>1. Size(TrimOne(m)) \notin T
        <5> HIDE DEF T, Wrong
        <5> QED
          BY <2>3, <2>4, <3>1, <3>2
      <4> QED
        BY <4>1
    <3>4. Right(TrimOne(m))
      BY <3>2, <3>3
    <3>5. Cut(m, TrimOne(m))
      BY TrimOneCuts
    <3>6. Cut(m, Trim[TrimOne(m)])
      BY <3>2, <3>4, <3>5, CutsChain
    <3> QED
      BY <2>4, <2>5, <2>7, <3>4, <3>6
  <2> QED
    BY <2>6, <2>7
<1>2. Right(t)
  BY <1>1
<1> QED
  BY <1>2 DEF Cut

CappedMeta(t) == [t EXCEPT !.title = Capped(t.title), !.artist = Capped(t.artist),
                           !.albumTitle = Capped(t.albumTitle),
                           !.albumArtist = Capped(t.albumArtist)]

LEMMA CappedTyped ==
  ASSUME NEW t \in Meta
  PROVE  /\ CappedMeta(t) \in Meta
         /\ CappedMeta(t).title = Capped(t.title) /\ CappedMeta(t).artist = Capped(t.artist)
         /\ CappedMeta(t).albumTitle = Capped(t.albumTitle)
         /\ CappedMeta(t).albumArtist = Capped(t.albumArtist)
         /\ CappedMeta(t).codec = t.codec /\ CappedMeta(t).mime = t.mime
         /\ CappedMeta(t).truncated = t.truncated
         /\ Capped(t.title) <= MaxField
<1>1. /\ Capped(t.title) \in Nat /\ Capped(t.artist) \in Nat
      /\ Capped(t.albumTitle) \in Nat /\ Capped(t.albumArtist) \in Nat
      /\ Capped(t.title) <= MaxField
  BY ConstantsOK DEF Capped, Meta
<1> QED
  BY <1>1 DEF CappedMeta, Meta

\* The clauses of CutFromTheEnd for one response.
WellCut(m, t) ==
    /\ Size(m) <= MaxMeta
    /\ m.title = Capped(t.title)
    /\ m.artist < Capped(t.artist) => m.albumTitle = 0
    /\ m.albumTitle < Capped(t.albumTitle) => m.albumArtist = 0
    /\ m.albumArtist < Capped(t.albumArtist) => m.codec + m.mime = 0
    /\ m.mime < t.mime => m.codec = 0
    /\ m.truncated <=> \E f \in DOMAIN m \ {"truncated"} : m[f] # t[f]

\* What a child reports of any tags.
LEMMA NormalizeCuts ==
  ASSUME NEW t \in Metas
  PROVE  WellCut(Normalize(t), t)
<1>1. t \in Meta /\ ~t.truncated
  BY ConstantsOK
<1> DEFINE c == CappedMeta(t)
           r == Trim[c]
<1>2. c \in Meta
  BY <1>1, CappedTyped
<1>3. r \in Meta /\ Cut(c, r) /\ Stop(r)
  BY <1>2, Trimmed
<1>4. Normalize(t) = [r EXCEPT !.truncated = r.truncated \/ r # t]
  BY DEF Normalize, CappedMeta
<1>5. /\ c.title = Capped(t.title) /\ c.artist = Capped(t.artist)
      /\ c.albumTitle = Capped(t.albumTitle) /\ c.albumArtist = Capped(t.albumArtist)
      /\ c.codec = t.codec /\ c.mime = t.mime /\ c.truncated = t.truncated
      /\ Capped(t.title) <= MaxField
  BY <1>1, CappedTyped
<1> HIDE DEF c
<1>6. /\ r.title \in Nat /\ r.codec \in {0, 1} /\ r.mime \in {0, 1}
      /\ r.title = Capped(t.title) /\ ~r.truncated
  BY <1>1, <1>3, <1>5 DEF Cut, Meta
<1>7. Size(r) <= MaxMeta
  <2>1. CASE TrimOne(r) = r
    BY <1>3, <1>5, <1>6, <2>1, NothingLeft, SizeTyped, ConstantsOK
  <2> QED
    BY <1>3, <2>1 DEF Stop
<1>8. /\ r.artist < Capped(t.artist) => r.albumTitle = 0
      /\ r.albumTitle < Capped(t.albumTitle) => r.albumArtist = 0
      /\ r.albumArtist < Capped(t.albumArtist) => r.codec + r.mime = 0
      /\ r.mime < t.mime => r.codec = 0
  BY <1>3, <1>5 DEF Cut
<1>9. (r # t) <=> \E f \in DOMAIN r \ {"truncated"} : r[f] # t[f]
  <2>1. /\ DOMAIN r = {"title", "artist", "albumTitle", "albumArtist", "codec", "mime",
                       "truncated"}
        /\ DOMAIN t = DOMAIN r
        /\ r = [f \in DOMAIN r |-> r[f]] /\ t = [f \in DOMAIN t |-> t[f]]
    BY <1>1, <1>3 DEF Meta
  <2>2. r.truncated = t.truncated
    BY <1>1, <1>3, <1>5 DEF Cut
  <2> HIDE DEF r
  <2>3. ASSUME \A f \in DOMAIN r \ {"truncated"} : r[f] = t[f]
        PROVE  r = t
    <3>1. \A f \in DOMAIN r : r[f] = t[f]
      BY <2>2, <2>3
    <3> QED
      BY <2>1, <3>1
  <2> QED
    BY <2>3
<1> HIDE DEF r
<1> DEFINE n == Normalize(t)
<1>a. n = [r EXCEPT !.truncated = (r # t)]
  BY <1>4, <1>6
<1> HIDE DEF n
<1>b. /\ n.title = r.title /\ n.artist = r.artist /\ n.albumTitle = r.albumTitle
      /\ n.albumArtist = r.albumArtist /\ n.codec = r.codec /\ n.mime = r.mime
      /\ n.truncated = (r # t) /\ DOMAIN n = DOMAIN r
      /\ \A f \in DOMAIN r \ {"truncated"} : n[f] = r[f]
  BY <1>3, <1>a DEF Meta
<1>c. Size(n) <= MaxMeta
  BY <1>7, <1>b DEF Size
<1>d. n.truncated <=> \E f \in DOMAIN n \ {"truncated"} : n[f] # t[f]
  BY <1>9, <1>b
<1>e. WellCut(n, t)
  BY <1>6, <1>8, <1>b, <1>c, <1>d DEF WellCut
<1> QED
  BY <1>e DEF n

LEMMA ResponsesCut ==
  ASSUME NEW a \in Responses, a.kind = "good"
  PROVE  WellCut(a.meta, a.tags)
<1>1. PICK f \in Files, t \in Metas : a = Good(f, t)
  <2>1. a \notin [kind : {"bad", "junk"}, file : Files]
    OBVIOUS
  <2> QED
    BY <2>1 DEF Responses
<1> DEFINE n == Normalize(t)
<1>2. WellCut(n, t)
  BY NormalizeCuts
<1> HIDE DEF n
<1>3. a = [kind |-> "good", file |-> f, tags |-> t, meta |-> n]
  BY <1>1 DEF Good, n
<1>4. a.meta = n /\ a.tags = t
  BY <1>3
<1> QED
  BY <1>2, <1>4

\* Whatever the tags of a file, what a child reports of them fits its limit, has
\* the title, and lost only what matters least, with the loss reported
\* (protocol.rs:80).
THEOREM TagsAreCutFromTheEnd == Spec => []CutFromTheEnd
<1>1. TypeOK => CutFromTheEnd
  <2> SUFFICES ASSUME TypeOK PROVE CutFromTheEnd
    OBVIOUS
  <2>1. ASSUME NEW k \in Kids, NEW i \in DOMAIN kids[k].out, kids[k].out[i].kind = "good"
        PROVE  WellCut(kids[k].out[i].meta, kids[k].out[i].tags)
    <3>1. kids[k] \in KidStates
      BY DEF TypeOK, Kids
    <3>2. kids[k].out \in Seq(Responses)
      BY <3>1, KidTyped
    <3>3. kids[k].out[i] \in Responses
      BY <3>2
    <3> QED
      BY <2>1, <3>3, ResponsesCut
  <2> QED
    BY <2>1 DEF CutFromTheEnd, WellCut
<1> QED
  BY <1>1, WorkerTyped, PTL

============================================================================
