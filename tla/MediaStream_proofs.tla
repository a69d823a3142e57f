------------------------- MODULE MediaStream_proofs -------------------------
(***************************************************************************)
(* For every set of requests, every limit, file and chunk: the quota counts*)
(* just the guards alive, a range is answered with its bytes, and a client *)
(* that stays gets all that was announced.                                 *)
(*                                                                         *)
(* Two invariants: the counters are the cardinalities of the sets of       *)
(* requests that hold a guard; and of each stream, what its client has,    *)
(* what is in the channel, in the hand of the task and still to read is    *)
(* together what was announced.                                            *)
(***************************************************************************)
EXTENDS MediaStream, FiniteSetTheorems, TLAPS

----------------------------------------------------------------------------
(* The Range decision *)

LEMMA MinOfTwo ==
  ASSUME NEW a \in Int, NEW b \in Int
  PROVE  Min({a, b}) = IF a <= b THEN a ELSE b
<1> DEFINE m == IF a <= b THEN a ELSE b
<1>1. m \in {a, b} /\ \A y \in {a, b} : m <= y
  OBVIOUS
<1>2. \A x \in {a, b} : (\A y \in {a, b} : x <= y) => x = m
  OBVIOUS
<1> HIDE DEF m
<1>3. Min({a, b}) = m
  BY <1>1, <1>2 DEF Min
<1> QED
  BY <1>3 DEF m

LEMMA PairDecision ==
  ASSUME NEW h \in HeaderShape, NEW size \in Nat, size > 0, h.form = "pair", ~h.ifRange
  PROVE  Decision(h, size) =
           IF h.first > h.last \/ h.first >= size THEN Unsatisfiable
           ELSE Partial(h.first, IF h.last <= size - 1 THEN h.last ELSE size - 1)
<1>1. h.last \in Int /\ size - 1 \in Int
  BY DEF HeaderShape
<1>2. EndWithin(h.last, size) = IF h.last <= size - 1 THEN h.last ELSE size - 1
  BY <1>1, MinOfTwo DEF EndWithin
<1> QED
  BY <1>2 DEF Decision

LEMMA SuffixDecision ==
  ASSUME NEW h \in HeaderShape, NEW size \in Nat, size > 0, h.form = "suffix", ~h.ifRange
  PROVE  Decision(h, size) =
           IF h.last = 0 THEN Unsatisfiable
           ELSE Partial(IF h.last <= size THEN size - h.last ELSE 0, size - 1)
<1>1. h.last \in Int /\ size \in Int
  BY DEF HeaderShape
<1>2. Min({h.last, size}) = IF h.last <= size THEN h.last ELSE size
  BY <1>1, MinOfTwo
<1>3. size - Min({h.last, size}) = IF h.last <= size THEN size - h.last ELSE 0
  BY <1>1, <1>2
<1> HIDE DEF Partial
<1>4. Decision(h, size) = IF h.last = 0 THEN Unsatisfiable
                          ELSE Partial(size - Min({h.last, size}), size - 1)
  BY DEF Decision
<1> QED
  BY <1>3, <1>4

\* What decide_range returns: a range of the file, the whole file, or neither.
LEMMA DecisionTyped ==
  ASSUME NEW h \in HeaderShape, NEW size \in Nat
  PROVE  \/ /\ Decision(h, size) = Unsatisfiable /\ ~Ignored(h, size)
            /\ OneRange(h) => Asked(h, size) = {}
         \/ Decision(h, size) = Full /\ Ignored(h, size)
         \/ /\ OneRange(h) /\ ~Ignored(h, size) /\ size > 0
            /\ \E a \in 0 .. size - 1 : \E b \in a .. size - 1 :
                 /\ Decision(h, size) = Partial(a, b)
                 /\ Asked(h, size) = a .. b
<1>1. h.first \in Nat /\ h.last \in Nat /\ h.ifRange \in BOOLEAN
      /\ h.form \in Forms
  BY DEF HeaderShape
<1>2. CASE h.form \notin {"pair", "from", "suffix"} \/ h.ifRange \/ size = 0
  <2>1. CASE h.form = "opaque"
    BY <2>1 DEF Decision, Ignored, OneRange
  <2>2. CASE h.form # "opaque" /\ Ignored(h, size)
    BY <2>2 DEF Decision, Ignored
  <2>3. CASE h.form # "opaque" /\ ~Ignored(h, size)
    <3>1. h.form = "bad" /\ ~h.ifRange /\ size # 0
      BY <1>1, <1>2, <2>3 DEF Ignored, Forms
    <3> QED
      BY <2>3, <3>1 DEF Decision, OneRange
  <2> QED
    BY <2>1, <2>2, <2>3
<1>3. CASE h.form = "pair" /\ ~h.ifRange /\ size > 0
  <2>1. CASE h.first > h.last \/ h.first >= size
    BY <1>1, <1>3, <2>1, PairDecision DEF Asked, Ignored
  <2>2. CASE ~(h.first > h.last \/ h.first >= size)
    <3> DEFINE b == IF h.last <= size - 1 THEN h.last ELSE size - 1
    <3>1. Decision(h, size) = Partial(h.first, b)
      BY <1>3, <2>2, PairDecision
    <3>2. h.first \in 0 .. size - 1 /\ b \in h.first .. size - 1
      BY <1>1, <2>2
    <3>3. Asked(h, size) = h.first .. b
      BY <1>1, <1>3, <2>2 DEF Asked
    <3> HIDE DEF b
    <3> QED
      BY <1>3, <3>1, <3>2, <3>3 DEF OneRange, Ignored
  <2> QED
    BY <2>1, <2>2
<1>4. CASE h.form = "from" /\ ~h.ifRange /\ size > 0
  <2>1. /\ Decision(h, size) = IF h.first >= size THEN Unsatisfiable
                               ELSE Partial(h.first, size - 1)
        /\ h.first >= size => Asked(h, size) = {}
    BY <1>1, <1>4 DEF Decision, Asked
  <2>2. ~(h.first >= size) => /\ h.first \in 0 .. size - 1
                              /\ size - 1 \in h.first .. size - 1
                              /\ Asked(h, size) = h.first .. (size - 1)
    BY <1>1, <1>4 DEF Asked
  <2> QED
    BY <1>4, <2>1, <2>2 DEF OneRange, Ignored
<1>5. CASE h.form = "suffix" /\ ~h.ifRange /\ size > 0
  <2> DEFINE a == IF h.last <= size THEN size - h.last ELSE 0
  <2>1. Decision(h, size) = IF h.last = 0 THEN Unsatisfiable ELSE Partial(a, size - 1)
    BY <1>5, SuffixDecision
  <2>3. h.last = 0 => Asked(h, size) = {}
    BY <1>1, <1>5 DEF Asked
  <2>2. h.last # 0 => /\ a \in 0 .. size - 1 /\ size - 1 \in a .. size - 1
                      /\ Asked(h, size) = a .. (size - 1)
    BY <1>1, <1>5 DEF Asked
  <2> HIDE DEF a
  <2> QED
    BY <1>5, <2>1, <2>2, <2>3 DEF OneRange, Ignored
<1>6. size > 0 \/ size = 0
  OBVIOUS
<1> QED
  BY <1>1, <1>2, <1>3, <1>4, <1>5, <1>6

LEMMA RangeEqual ==
  ASSUME NEW a \in Int, NEW b \in Int, NEW n \in Nat, n > 0
  PROVE  a .. b = 0 .. n - 1 <=> a = 0 /\ b = n - 1
<1>1. CASE a .. b = 0 .. n - 1
  <2>1. 0 \in a .. b /\ n - 1 \in a .. b
    BY <1>1
  <2>2. a \in 0 .. n - 1 /\ b \in 0 .. n - 1
    BY <1>1, <2>1
  <2> QED
    BY <1>1, <2>1, <2>2
<1> QED
  BY <1>1

\* A response announces bytes of the file, and serves what is asked for.
LEMMA ResponseServes ==
  ASSUME NEW h \in HeaderShape, NEW size \in Nat
  PROVE  /\ Response(h, size).status \in {200, 206, 416}
         /\ Response(h, size).len \in 0 .. size
         /\ Serves(h, size)
<1> DEFINE d == Decision(h, size)
           r == Response(h, size)
<1> USE DEF Answer
<1>1. CASE /\ d = Unsatisfiable /\ ~Ignored(h, size)
           /\ OneRange(h) => Asked(h, size) = {}
  <2>1. r = Answer(416, 0, 0)
    BY <1>1 DEF Response, Unsatisfiable
  <2> HIDE DEF r, d
  <2>2. r.status = 416 /\ r.len = 0
    BY <2>1
  <2> QED
    BY <1>1, <2>2 DEF Serves, r
<1>2. CASE d = Full /\ Ignored(h, size)
  <2>1. r = Answer(200, 0, size)
    BY <1>2 DEF Response, Full
  <2> HIDE DEF r, d
  <2>2. r.status = 200 /\ r.len = size /\ r.start = 0
    BY <2>1
  <2>3. r.start .. r.start + r.len - 1 = 0 .. size - 1
    BY <2>2
  <2> QED
    BY <1>2, <2>2, <2>3 DEF Serves, Ignored, r
<1>3. CASE /\ OneRange(h) /\ ~Ignored(h, size) /\ size > 0
           /\ \E a \in 0 .. size - 1 : \E b \in a .. size - 1 :
                d = Partial(a, b) /\ Asked(h, size) = a .. b
  <2>a. PICK a \in 0 .. size - 1 : \E b \in a .. size - 1 :
               d = Partial(a, b) /\ Asked(h, size) = a .. b
    BY <1>3
  <2>1. PICK b \in a .. size - 1 : d = Partial(a, b) /\ Asked(h, size) = a .. b
    BY <2>a
  <2>2. a \in Nat /\ b \in Nat /\ a <= b /\ b < size
    BY <2>1
  <2> DEFINE n == b - a + 1
             full == a = 0 /\ n = size
  <2>3. r = IF full THEN Answer(200, 0, n) ELSE Answer(206, a, n)
    BY <2>1 DEF Response, Partial
  <2>4. n \in 1 .. size /\ a + n - 1 = b
    BY <2>2
  <2>5. full <=> a = 0 /\ b = size - 1
    BY <2>2
  <2> HIDE DEF r, d, n, full
  <2>6. /\ r.status = IF full THEN 200 ELSE 206
        /\ r.start = (IF full THEN 0 ELSE a) /\ r.len = n
    BY <2>3
  <2>7. r.start = a /\ r.start + r.len - 1 = b
    BY <2>4, <2>5, <2>6
  <2>8. a .. b # {}
    BY <2>2
  <2>9. r.status = 200 <=> a .. b = 0 .. size - 1
    BY <1>3, <2>2, <2>5, <2>6, RangeEqual
  <2>10. r.status # 416 /\ r.status \in {200, 206} /\ r.len \in 0 .. size
    BY <2>4, <2>6
  <2> QED
    BY <1>3, <2>1, <2>7, <2>8, <2>9, <2>10 DEF Serves, OneRange, r
<1> QED
  BY <1>1, <1>2, <1>3, DecisionTyped

----------------------------------------------------------------------------
(* The invariants *)

\* Where the bytes of a stream are.
Conserved(s, c, item) ==
    /\ c.got + Bytes(item) <= s.len
    /\ s.at \in {"new", "decide"} =>
         c.there /\ c.got = 0 /\ item = 0 /\ s.why = "none"
    /\ s.at \in {"read", "send", "sendError"} =>
         /\ s.why = "none"
         /\ c.there => item >= 0 /\ c.got + item + s.hand + s.left = s.len
    /\ s.at = "read" => s.hand = 0
    /\ s.why = "complete" /\ c.there => item >= 0 /\ c.got + item = s.len

Of(s) == {g \in Guarded : Session[g] = s}

QuotaInv ==
    /\ IsFiniteSet(Guarded) /\ QuotaExact

BytesInv == \A g \in Gets : Conserved(stream[g], client[g], chan[g])

Inv == TypeOK /\ QuotaInv /\ BytesInv

----------------------------------------------------------------------------
(* One stream changes *)

LEMMA Put ==
  ASSUME NEW S, NEW T, NEW f \in [S -> T], NEW x \in S, NEW v \in T,
         NEW g, g = [f EXCEPT ![x] = v]
  PROVE  g \in [S -> T] /\ g[x] = v /\ \A y \in S : y # x => g[y] = f[y]
  OBVIOUS

\* What a request's step may do to itself; the others stay as they are.
LEMMA OneStream ==
  ASSUME Inv, NEW g \in Gets, NEW r \in Streams, NEW item \in -1 .. ChunkBytes,
         NEW c \in Clients,
         Becomes(g, r), chan' = [chan EXCEPT ![g] = item],
         client' = [client EXCEPT ![g] = c],
         Conserved(r, c, item)
  PROVE  /\ stream' \in [Gets -> Streams] /\ chan' \in [Gets -> -1 .. ChunkBytes]
         /\ client' \in [Gets -> Clients] /\ BytesInv'
         /\ stream'[g] = r /\ \A h \in Gets : h # g => stream'[h] = stream[h]
<1>1. /\ stream \in [Gets -> Streams] /\ chan \in [Gets -> -1 .. ChunkBytes]
      /\ client \in [Gets -> Clients]
  BY DEF Inv, TypeOK
<1>2. /\ stream' \in [Gets -> Streams] /\ stream'[g] = r
      /\ \A h \in Gets : h # g => stream'[h] = stream[h]
  BY <1>1, Put DEF Becomes
<1>3. /\ chan' \in [Gets -> -1 .. ChunkBytes] /\ chan'[g] = item
      /\ \A h \in Gets : h # g => chan'[h] = chan[h]
  <2> DEFINE T == -1 .. ChunkBytes
  <2> HIDE DEF T
  <2>1. chan \in [Gets -> T] /\ item \in T
    BY <1>1 DEF T
  <2>2. /\ chan' \in [Gets -> T] /\ chan'[g] = item
        /\ \A h \in Gets : h # g => chan'[h] = chan[h]
    BY <2>1, Put
  <2> QED
    BY <2>2 DEF T
<1>4. /\ client' \in [Gets -> Clients] /\ client'[g] = c
      /\ \A h \in Gets : h # g => client'[h] = client[h]
  BY <1>1, Put
<1>5. \A h \in Gets : Conserved(stream'[h], client'[h], chan'[h])
  BY <1>2, <1>3, <1>4 DEF Inv, BytesInv
<1>6. BytesInv'
  BY <1>5 DEF BytesInv, Conserved, Bytes
<1> QED
  BY <1>2, <1>3, <1>4, <1>6

Guards(at) == at \notin {"new", "ended"}

\* The counters follow the guards.
LEMMA SameGuards ==
  ASSUME Inv, NEW g \in Gets, \A h \in Gets : h # g => stream'[h] = stream[h],
         Guards(stream[g].at) <=> Guards(stream'[g].at),
         UNCHANGED <<global, sessions>>
  PROVE  QuotaInv'
<1>1. Guarded' = Guarded
  BY DEF Guarded, Guards
<1> QED
  BY <1>1 DEF Inv, QuotaInv, QuotaExact

LEMMA OfFinite ==
  ASSUME Inv, NEW s
  PROVE  IsFiniteSet(Of(s)) /\ Cardinality(Of(s)) \in Nat
<1>1. IsFiniteSet(Guarded) /\ Of(s) \in SUBSET Guarded
  BY DEF Inv, QuotaInv, Of
<1> QED
  BY <1>1, FS_Subset, FS_CardinalityType

LEMMA NewGuard ==
  ASSUME Inv, NEW g \in Gets, \A h \in Gets : h # g => stream'[h] = stream[h],
         ~Guards(stream[g].at), Guards(stream'[g].at),
         ~GlobalFull, ~SessionFull(Session[g]),
         global' = global + 1,
         sessions' = [sessions EXCEPT ![Session[g]] = @ + 1]
  PROVE  QuotaInv' /\ global' \in Nat /\ sessions' \in [Sessions -> Nat]
<1>1. Guarded' = Guarded \cup {g} /\ g \notin Guarded
  BY DEF Guarded, Guards
<1>2. /\ IsFiniteSet(Guarded) /\ global = Cardinality(Guarded) /\ global \in Nat
      /\ sessions \in [Sessions -> Nat]
  BY DEF Inv, QuotaInv, QuotaExact, TypeOK
<1>3. IsFiniteSet(Guarded') /\ Cardinality(Guarded') = global'
  BY <1>1, <1>2, FS_AddElement
<1>4. global' \in Nat /\ global' <= GlobalLimit
  BY <1>2, ConstantsOK DEF GlobalFull
<1> DEFINE u == Session[g]
<1>5. u \in Sessions
  BY DEF Sessions
<1>6. sessions' \in [Sessions -> Nat] /\ sessions'[u] = sessions[u] + 1
      /\ \A s \in Sessions : s # u => sessions'[s] = sessions[s]
  BY <1>2, <1>5
<1>7. \A s \in Sessions : Of(s)' = IF s = u THEN Of(s) \cup {g} ELSE Of(s)
  BY <1>1 DEF Of
<1>8. ASSUME NEW s \in Sessions
      PROVE  sessions'[s] = Cardinality(Of(s)') /\ sessions'[s] <= SessionLimit
  <2>1. sessions[s] = Cardinality(Of(s)) /\ sessions[s] <= SessionLimit
    BY DEF Inv, QuotaInv, QuotaExact, Of
  <2>2. CASE s # u
    BY <1>6, <1>7, <2>1, <2>2
  <2>3. CASE s = u
    <3>1. g \notin Of(s) /\ IsFiniteSet(Of(s))
      BY <1>1, OfFinite DEF Of
    <3>2. Cardinality(Of(s) \cup {g}) = Cardinality(Of(s)) + 1
      BY <3>1, FS_AddElement
    <3>3. sessions[s] \in Nat /\ ~(sessions[s] >= SessionLimit)
      BY <1>2, <2>3 DEF SessionFull
    <3>4. Of(s)' = Of(s) \cup {g}
      BY <1>7, <2>3
    <3>5. Cardinality(Of(s)') = sessions[s] + 1
      BY <2>1, <3>2, <3>4
    <3>6. sessions'[s] = sessions[s] + 1
      BY <1>6, <2>3
    <3> QED
      BY <3>3, <3>5, <3>6, ConstantsOK
  <2> QED
    BY <2>2, <2>3
<1>9. QuotaExact'
  BY <1>3, <1>4, <1>8 DEF QuotaExact, Of
<1> QED
  BY <1>3, <1>4, <1>6, <1>9 DEF QuotaInv

LEMMA FreedGuard ==
  ASSUME Inv, NEW g \in Gets, \A h \in Gets : h # g => stream'[h] = stream[h],
         Guards(stream[g].at), ~Guards(stream'[g].at), Release(g)
  PROVE  QuotaInv' /\ global' \in Nat /\ sessions' \in [Sessions -> Nat]
<1>1. Guarded' = Guarded \ {g} /\ g \in Guarded
  BY DEF Guarded, Guards
<1>2. /\ IsFiniteSet(Guarded) /\ global = Cardinality(Guarded) /\ global \in Nat
      /\ sessions \in [Sessions -> Nat] /\ global <= GlobalLimit
  BY DEF Inv, QuotaInv, QuotaExact, TypeOK
<1>3. /\ IsFiniteSet(Guarded') /\ Cardinality(Guarded') = global'
      /\ Cardinality(Guarded') \in Nat
  BY <1>1, <1>2, FS_RemoveElement, FS_CardinalityType DEF Release
<1>4. global' \in Nat /\ global' <= GlobalLimit
  BY <1>2, <1>3, ConstantsOK DEF Release
<1> DEFINE u == Session[g]
<1>5. u \in Sessions /\ g \in Of(u)
  BY <1>1 DEF Sessions, Of
<1>6. \A s \in Sessions : sessions[s] = Cardinality(Of(s)) /\ sessions[s] <= SessionLimit
  BY DEF Inv, QuotaInv, QuotaExact, Of
<1>7. Cardinality(Of(u) \ {g}) = sessions[u] - 1 /\ sessions[u] - 1 \in Nat
  <2>1. IsFiniteSet(Of(u)) /\ IsFiniteSet(Of(u) \ {g})
    BY OfFinite, FS_RemoveElement
  <2> QED
    BY <1>5, <1>6, <2>1, FS_RemoveElement, FS_CardinalityType
<1>8. sessions' \in [Sessions -> Nat] /\ sessions'[u] = sessions[u] - 1
      /\ \A s \in Sessions : s # u => sessions'[s] = sessions[s]
  BY <1>2, <1>5, <1>7 DEF Release, SessionLess
<1>9. \A s \in Sessions : Of(s)' = IF s = u THEN Of(s) \ {g} ELSE Of(s)
  BY <1>1 DEF Of
<1>10. ASSUME NEW s \in Sessions
       PROVE  sessions'[s] = Cardinality(Of(s)') /\ sessions'[s] <= SessionLimit
  <2>1. sessions[s] \in Nat /\ sessions[s] <= SessionLimit
    BY <1>2, <1>6
  <2>2. CASE s = u
    <3>1. Of(s)' = Of(u) \ {g} /\ sessions'[s] = sessions[u] - 1
      BY <1>8, <1>9, <2>2
    <3>2. Cardinality(Of(s)') = sessions[u] - 1
      BY <1>7, <3>1
    <3> QED
      BY <1>7, <2>1, <2>2, <3>1, <3>2, ConstantsOK
  <2>3. CASE s # u
    <3>1. Of(s)' = Of(s) /\ sessions'[s] = sessions[s]
      BY <1>8, <1>9, <2>3
    <3> QED
      BY <1>6, <2>1, <3>1
  <2> QED
    BY <2>2, <2>3
<1>11. QuotaExact'
  BY <1>3, <1>4, <1>10 DEF QuotaExact, Of
<1> QED
  BY <1>3, <1>4, <1>8, <1>11 DEF QuotaInv

----------------------------------------------------------------------------
(* The steps *)

LEMMA SameAgain ==
  ASSUME NEW S, NEW T, NEW f \in [S -> T], NEW x \in S
  PROVE  f = [f EXCEPT ![x] = f[x]]
  OBVIOUS

LEMMA TypesAt ==
  ASSUME Inv, NEW g \in Gets
  PROVE  /\ stream[g] \in Streams /\ client[g] \in Clients
         /\ chan[g] \in -1 .. ChunkBytes
         /\ Conserved(stream[g], client[g], chan[g])
         /\ chan = [chan EXCEPT ![g] = chan[g]]
         /\ client = [client EXCEPT ![g] = client[g]]
<1>1. /\ stream \in [Gets -> Streams] /\ chan \in [Gets -> -1 .. ChunkBytes]
      /\ client \in [Gets -> Clients]
  BY DEF Inv, TypeOK
<1>2. client = [client EXCEPT ![g] = client[g]]
  BY <1>1, SameAgain
<1>3. chan = [chan EXCEPT ![g] = chan[g]]
  <2> DEFINE T == -1 .. ChunkBytes
  <2> HIDE DEF T
  <2>1. chan \in [Gets -> T]
    BY <1>1 DEF T
  <2> QED
    BY <2>1, SameAgain
<1> QED
  BY <1>1, <1>2, <1>3 DEF Inv, BytesInv

\* A step of a request that neither takes a guard nor gives one back.
LEMMA WithinGuard ==
  ASSUME Inv, NEW g \in Gets, NEW r \in Streams, NEW item \in -1 .. ChunkBytes,
         NEW c \in Clients,
         Becomes(g, r), chan' = [chan EXCEPT ![g] = item],
         client' = [client EXCEPT ![g] = c],
         Conserved(r, c, item),
         Guards(r.at) <=> Guards(stream[g].at),
         UNCHANGED <<global, sessions>>
  PROVE  Inv'
<1>1. /\ stream' \in [Gets -> Streams] /\ chan' \in [Gets -> -1 .. ChunkBytes]
      /\ client' \in [Gets -> Clients] /\ BytesInv'
      /\ stream'[g] = r /\ \A h \in Gets : h # g => stream'[h] = stream[h]
  BY OneStream
<1>2. TypeOK'
  BY <1>1 DEF Inv, TypeOK
<1>3. QuotaInv'
  BY <1>1, SameGuards
<1> QED
  BY <1>1, <1>2, <1>3 DEF Inv

\* The records a step makes.
SetTo(s, at) == [s EXCEPT !.at = at]
EndedBy(s, why) == [s EXCEPT !.at = "ended", !.why = why]
OverBy(s, why) == [s EXCEPT !.at = "drop", !.hand = 0, !.left = 0, !.why = why]
Held(s, n, left) == [s EXCEPT !.at = "send", !.hand = n, !.left = left]
Handed(s) == [s EXCEPT !.at = "read", !.hand = 0]

LEMMA AtTyped ==
  ASSUME NEW s \in Streams, NEW at \in Phases
  PROVE  /\ SetTo(s, at) \in Streams /\ SetTo(s, at).at = at
         /\ SetTo(s, at).len = s.len /\ SetTo(s, at).left = s.left
         /\ SetTo(s, at).hand = s.hand /\ SetTo(s, at).why = s.why
  BY DEF SetTo, Streams

LEMMA WhyTyped ==
  ASSUME NEW s \in Streams, NEW why \in Reasons
  PROVE  [s EXCEPT !.why = why] \in Streams
  BY DEF Streams
LEMMA HandTyped ==
  ASSUME NEW s \in Streams, NEW n \in 0 .. ChunkBytes
  PROVE  [s EXCEPT !.hand = n] \in Streams
  BY DEF Streams
LEMMA LeftTyped ==
  ASSUME NEW s \in Streams, NEW n \in 0 .. FileLen
  PROVE  [s EXCEPT !.left = n] \in Streams
  BY DEF Streams

LEMMA EndedTyped ==
  ASSUME NEW s \in Streams, NEW why \in Reasons
  PROVE  /\ EndedBy(s, why) \in Streams /\ EndedBy(s, why).at = "ended"
         /\ EndedBy(s, why).len = s.len /\ EndedBy(s, why).why = why
<1>1. \A t \in Streams : /\ [t EXCEPT !.at = "ended"] \in Streams
                         /\ [t EXCEPT !.why = why] \in Streams
  BY AtTyped, WhyTyped DEF SetTo, Phases
<1>2. EndedBy(s, why) \in Streams
  BY <1>1 DEF EndedBy
<1> QED
  BY <1>2 DEF EndedBy, Streams

LEMMA OverTyped ==
  ASSUME NEW s \in Streams, NEW why \in Reasons
  PROVE  /\ OverBy(s, why) \in Streams /\ OverBy(s, why).at = "drop"
         /\ OverBy(s, why).len = s.len /\ OverBy(s, why).why = why
<1>0. 0 \in 0 .. ChunkBytes /\ 0 \in 0 .. FileLen /\ "drop" \in Phases
  BY ConstantsOK DEF Phases
<1>1. \A t \in Streams : /\ [t EXCEPT !.at = "drop"] \in Streams
                         /\ [t EXCEPT !.why = why] \in Streams
  BY <1>0, AtTyped, WhyTyped DEF SetTo
<1>2. \A t \in Streams : /\ [t EXCEPT !.hand = 0] \in Streams
                         /\ [t EXCEPT !.left = 0] \in Streams
  BY <1>0, HandTyped, LeftTyped
<1>3. OverBy(s, why) \in Streams
  BY <1>1, <1>2 DEF OverBy
<1> QED
  BY <1>3 DEF OverBy, Streams

LEMMA HeldTyped ==
  ASSUME NEW s \in Streams, NEW n \in 0 .. ChunkBytes, NEW left \in 0 .. FileLen
  PROVE  /\ Held(s, n, left) \in Streams /\ Held(s, n, left).at = "send"
         /\ Held(s, n, left).len = s.len /\ Held(s, n, left).why = s.why
         /\ Held(s, n, left).hand = n /\ Held(s, n, left).left = left
<1>1. \A t \in Streams : /\ [t EXCEPT !.at = "send"] \in Streams
                         /\ [t EXCEPT !.hand = n] \in Streams
                         /\ [t EXCEPT !.left = left] \in Streams
  BY AtTyped, HandTyped, LeftTyped DEF SetTo, Phases
<1>2. Held(s, n, left) \in Streams
  BY <1>1 DEF Held
<1> QED
  BY <1>2 DEF Held, Streams

LEMMA HandedTyped ==
  ASSUME NEW s \in Streams
  PROVE  /\ Handed(s) \in Streams /\ Handed(s).at = "read" /\ Handed(s).hand = 0
         /\ Handed(s).len = s.len /\ Handed(s).why = s.why /\ Handed(s).left = s.left
<1>0. 0 \in 0 .. ChunkBytes /\ "read" \in Phases
  BY ConstantsOK DEF Phases
<1>1. \A t \in Streams : /\ [t EXCEPT !.at = "read"] \in Streams
                         /\ [t EXCEPT !.hand = 0] \in Streams
  BY <1>0, AtTyped, HandTyped DEF SetTo
<1>2. Handed(s) \in Streams
  BY <1>1 DEF Handed
<1> QED
  BY <1>2 DEF Handed, Streams

\* The numbers of a stream.
LEMMA Numbers ==
  ASSUME Inv, NEW g \in Gets
  PROVE  /\ stream[g].len \in Nat /\ stream[g].left \in 0 .. FileLen
         /\ stream[g].hand \in 0 .. ChunkBytes /\ stream[g].at \in Phases
         /\ client[g].got \in Nat /\ client[g].there \in BOOLEAN
         /\ chan[g] \in -1 .. ChunkBytes /\ chan[g] \in Int
         /\ Bytes(chan[g]) \in Nat
         /\ client[g].got + Bytes(chan[g]) <= stream[g].len
         /\ FileLen \in Nat /\ ChunkBytes \in Nat
<1>1. /\ stream[g] \in Streams /\ client[g] \in Clients /\ chan[g] \in -1 .. ChunkBytes
      /\ client[g].got + Bytes(chan[g]) <= stream[g].len
  BY TypesAt DEF Conserved
<1> QED
  BY <1>1, ConstantsOK DEF Streams, Clients, Bytes

\* The task gives up, with a reason that is not completion.
LEMMA OverKeeps ==
  ASSUME Inv, NEW g \in Gets, NEW why \in Reasons \ {"complete", "none"},
         stream[g].at \in {"read", "send", "sendError"},
         Over(g, why), UNCHANGED <<global, sessions, chan, client>>
  PROVE  Inv'
<1> DEFINE r == OverBy(stream[g], why)
<1>1. Becomes(g, r)
  BY DEF Over, OverBy
<1>2. r \in Streams /\ r.at = "drop" /\ r.len = stream[g].len /\ r.why = why
  BY TypesAt, OverTyped
<1> HIDE DEF r
<1>3. Conserved(r, client[g], chan[g])
  BY <1>2, Numbers DEF Conserved
<1>4. /\ chan' = [chan EXCEPT ![g] = chan[g]]
      /\ client' = [client EXCEPT ![g] = client[g]]
  BY TypesAt
<1>5. client[g] \in Clients /\ chan[g] \in -1 .. ChunkBytes
  BY TypesAt
<1>6. Guards(r.at) /\ Guards(stream[g].at) /\ UNCHANGED <<global, sessions>>
  BY <1>2 DEF Guards
<1> QED
  BY <1>1, <1>2, <1>3, <1>4, <1>5, <1>6, WithinGuard

LEMMA AcquireKeeps ==
  ASSUME Inv, NEW g \in Gets, Acquire(g)
  PROVE  Inv'
<1>1. stream[g].at = "new" /\ UNCHANGED <<chan, client>>
  BY DEF Acquire
<1>2. /\ chan' = [chan EXCEPT ![g] = chan[g]] /\ chan[g] \in -1 .. ChunkBytes
      /\ client' = [client EXCEPT ![g] = client[g]] /\ client[g] \in Clients
      /\ stream[g] \in Streams /\ Conserved(stream[g], client[g], chan[g])
  BY <1>1, TypesAt
<1>3. ASSUME NEW why \in {"busy", "limited"}, Refused(g, why), UNCHANGED <<global, sessions>>
      PROVE  Inv'
  <2> DEFINE r == EndedBy(stream[g], why)
  <2>1. Becomes(g, r)
    BY <1>3 DEF Refused, EndedBy
  <2>2. r \in Streams /\ r.at = "ended" /\ r.len = stream[g].len /\ r.why = why
    BY <1>2, <1>3, EndedTyped DEF Reasons
  <2> HIDE DEF r
  <2>3. Conserved(r, client[g], chan[g])
    BY <1>3, <2>2, Numbers DEF Conserved
  <2>4. Guards(r.at) <=> Guards(stream[g].at)
    BY <1>1, <2>2 DEF Guards
  <2> QED
    BY <1>2, <1>3, <2>1, <2>2, <2>3, <2>4, WithinGuard
<1>4. CASE /\ ~GlobalFull /\ ~SessionFull(Session[g]) /\ global' = global + 1
           /\ sessions' = [sessions EXCEPT ![Session[g]] = @ + 1]
           /\ Set(g, "decide")
  <2> DEFINE r == SetTo(stream[g], "decide")
  <2>1. Becomes(g, r)
    BY <1>4 DEF Set, SetTo
  <2>2. r \in Streams /\ r.at = "decide" /\ r.len = stream[g].len /\ r.why = stream[g].why
    BY <1>2, AtTyped DEF Phases
  <2> HIDE DEF r
  <2>3. Conserved(r, client[g], chan[g])
    BY <1>1, <1>2, <2>2 DEF Conserved
  <2>4. /\ stream' \in [Gets -> Streams] /\ chan' \in [Gets -> -1 .. ChunkBytes]
        /\ client' \in [Gets -> Clients] /\ BytesInv'
        /\ stream'[g] = r /\ \A h \in Gets : h # g => stream'[h] = stream[h]
    BY <1>2, <2>1, <2>2, <2>3, OneStream
  <2>5. ~Guards(stream[g].at) /\ Guards(stream'[g].at)
    BY <1>1, <2>2, <2>4 DEF Guards
  <2>6. QuotaInv' /\ global' \in Nat /\ sessions' \in [Sessions -> Nat]
    BY <1>4, <2>4, <2>5, NewGuard
  <2> QED
    BY <2>4, <2>6 DEF Inv, TypeOK
<1> QED
  BY <1>3, <1>4 DEF Acquire

LEMMA ReleaseKeeps ==
  ASSUME Inv, NEW g \in Gets, NEW r \in Streams, Becomes(g, r), Release(g),
         UNCHANGED <<chan, client>>, Conserved(r, client[g], chan[g]),
         Guards(stream[g].at), ~Guards(r.at)
  PROVE  Inv'
<1>1. /\ chan' = [chan EXCEPT ![g] = chan[g]] /\ chan[g] \in -1 .. ChunkBytes
      /\ client' = [client EXCEPT ![g] = client[g]] /\ client[g] \in Clients
  BY TypesAt
<1>2. /\ stream' \in [Gets -> Streams] /\ chan' \in [Gets -> -1 .. ChunkBytes]
      /\ client' \in [Gets -> Clients] /\ BytesInv'
      /\ stream'[g] = r /\ \A h \in Gets : h # g => stream'[h] = stream[h]
  BY <1>1, OneStream
<1>3. QuotaInv' /\ global' \in Nat /\ sessions' \in [Sessions -> Nat]
  BY <1>2, FreedGuard
<1> QED
  BY <1>2, <1>3 DEF Inv, TypeOK

LEMMA RespondKeeps ==
  ASSUME Inv, NEW g \in Gets, Respond(g)
  PROVE  Inv'
<1>1. stream[g].at = "decide" /\ UNCHANGED <<chan, client>>
  BY DEF Respond
<1>2. /\ chan' = [chan EXCEPT ![g] = chan[g]] /\ chan[g] \in -1 .. ChunkBytes
      /\ client' = [client EXCEPT ![g] = client[g]] /\ client[g] \in Clients
      /\ stream[g] \in Streams /\ Conserved(stream[g], client[g], chan[g])
  BY <1>1, TypesAt
<1>3. CASE Release(g) /\ Refused(g, "unsatisfiable")
  <2> DEFINE r == EndedBy(stream[g], "unsatisfiable")
  <2>1. Becomes(g, r)
    BY <1>3 DEF Refused, EndedBy
  <2>2. r \in Streams /\ r.at = "ended" /\ r.len = stream[g].len /\ r.why = "unsatisfiable"
    BY <1>2, EndedTyped DEF Reasons
  <2> HIDE DEF r
  <2>3. Conserved(r, client[g], chan[g])
    BY <2>2, Numbers DEF Conserved
  <2>4. Guards(stream[g].at) /\ ~Guards(r.at)
    BY <1>1, <2>2 DEF Guards
  <2> QED
    BY <1>1, <1>3, <2>1, <2>2, <2>3, <2>4, ReleaseKeeps
<1>4. CASE ~(Release(g) /\ Refused(g, "unsatisfiable"))
  <2>1. PICK h \in Headers :
          LET n == Response(h, FileLen).len IN
          /\ UNCHANGED <<global, sessions>>
          /\ Becomes(g, [at |-> IF n = 0 THEN "drop" ELSE "read",
                         len |-> n, left |-> n, hand |-> 0,
                         why |-> IF n = 0 THEN "complete" ELSE "none"])
    BY <1>4 DEF Respond
  <2> DEFINE n == Response(h, FileLen).len
             at == IF n = 0 THEN "drop" ELSE "read"
             why == IF n = 0 THEN "complete" ELSE "none"
             r == [at |-> at, len |-> n, left |-> n, hand |-> 0, why |-> why]
  <2>2. n \in 0 .. FileLen
    BY ResponseServes, ConstantsOK
  <2>3. Becomes(g, r) /\ UNCHANGED <<global, sessions>>
    BY <2>1
  <2> HIDE DEF n
  <2>4. at \in Phases /\ why \in Reasons /\ (n = 0 <=> at = "drop") /\ (n # 0 <=> at = "read")
        /\ (n = 0 <=> why = "complete") /\ (n # 0 <=> why = "none")
    BY DEF Phases, Reasons
  <2> HIDE DEF at, why
  <2>5. r \in Streams
    BY <2>2, <2>4, ConstantsOK DEF Streams
  <2>6. r.at = at /\ r.len = n /\ r.left = n /\ r.hand = 0 /\ r.why = why
    OBVIOUS
  <2> HIDE DEF r
  <2>7. client[g].there /\ client[g].got = 0 /\ chan[g] = 0
    BY <1>1, <1>2 DEF Conserved
  <2>8. Conserved(r, client[g], chan[g])
    BY <2>2, <2>4, <2>6, <2>7, ConstantsOK DEF Conserved, Bytes
  <2>9. Guards(r.at) <=> Guards(stream[g].at)
    BY <1>1, <2>4, <2>6 DEF Guards
  <2> QED
    BY <1>2, <2>3, <2>5, <2>8, <2>9, WithinGuard
<1> QED
  BY <1>3, <1>4

LEMMA ReadKeeps ==
  ASSUME Inv, NEW g \in Gets, Read(g)
  PROVE  Inv'
<1>1. stream[g].at = "read" /\ UNCHANGED <<global, sessions, chan, client>>
  BY DEF Read
<1>2. /\ chan' = [chan EXCEPT ![g] = chan[g]] /\ chan[g] \in -1 .. ChunkBytes
      /\ client' = [client EXCEPT ![g] = client[g]] /\ client[g] \in Clients
      /\ stream[g] \in Streams /\ Conserved(stream[g], client[g], chan[g])
  BY <1>1, TypesAt
<1> DEFINE want == Min({ChunkBytes, stream[g].left})
<1>3. CASE \E n \in 1 .. want : Holds(g, n)
  <2>1. PICK n \in 1 .. want : Holds(g, n)
    BY <1>3
  <2>2. want = IF ChunkBytes <= stream[g].left THEN ChunkBytes ELSE stream[g].left
    BY Numbers, MinOfTwo
  <2> HIDE DEF want
  <2> DEFINE left == stream[g].left - n
             r == Held(stream[g], n, left)
  <2>3. n \in 0 .. ChunkBytes /\ left \in 0 .. FileLen
    BY <2>2, Numbers
  <2>4. Becomes(g, r)
    BY <2>1 DEF Holds, Held
  <2>5. n + left = stream[g].left
    BY <2>3, Numbers
  <2> HIDE DEF left
  <2>6. /\ r \in Streams /\ r.at = "send" /\ r.len = stream[g].len
        /\ r.why = stream[g].why /\ r.hand = n /\ r.left = left
    BY <1>2, <2>3, HeldTyped
  <2> HIDE DEF r
  <2>7. Conserved(r, client[g], chan[g])
    BY <1>1, <1>2, <2>3, <2>5, <2>6, Numbers DEF Conserved
  <2>8. Guards(r.at) <=> Guards(stream[g].at)
    BY <1>1, <2>6 DEF Guards
  <2> QED
    BY <1>1, <1>2, <2>4, <2>6, <2>7, <2>8, WithinGuard
<1>4. CASE Over(g, "short")
  BY <1>1, <1>4, OverKeeps DEF Reasons
<1>5. CASE Set(g, "sendError")
  <2> DEFINE r == SetTo(stream[g], "sendError")
  <2>1. Becomes(g, r)
    BY <1>5 DEF Set, SetTo
  <2>2. /\ r \in Streams /\ r.at = "sendError" /\ r.len = stream[g].len
        /\ r.why = stream[g].why /\ r.hand = stream[g].hand /\ r.left = stream[g].left
    BY <1>2, AtTyped DEF Phases
  <2> HIDE DEF r
  <2>3. Conserved(r, client[g], chan[g])
    BY <1>1, <1>2, <2>2 DEF Conserved
  <2>4. Guards(r.at) <=> Guards(stream[g].at)
    BY <1>1, <2>2 DEF Guards
  <2> QED
    BY <1>1, <1>2, <2>1, <2>2, <2>3, <2>4, WithinGuard
<1> QED
  BY <1>3, <1>4, <1>5 DEF Read

LEMMA SendKeeps ==
  ASSUME Inv, NEW g \in Gets, Send(g)
  PROVE  Inv'
<1>1. stream[g].at = "send" /\ UNCHANGED <<global, sessions, client>>
  BY DEF Send
<1>2. /\ client' = [client EXCEPT ![g] = client[g]] /\ client[g] \in Clients
      /\ stream[g] \in Streams /\ Conserved(stream[g], client[g], chan[g])
  BY <1>1, TypesAt
<1>3. CASE ~client[g].there /\ Over(g, "gone") /\ UNCHANGED chan
  BY <1>1, <1>3, OverKeeps DEF Reasons
<1>4. CASE /\ client[g].there /\ chan[g] = 0
           /\ chan' = [chan EXCEPT ![g] = stream[g].hand]
           /\ IF stream[g].left = 0 THEN Over(g, "complete")
              ELSE Becomes(g, [stream[g] EXCEPT !.at = "read", !.hand = 0])
  <2>1. stream[g].hand \in -1 .. ChunkBytes /\ stream[g].hand \in Nat
    BY Numbers
  <2>2. CASE stream[g].left = 0
    <3> DEFINE r == OverBy(stream[g], "complete")
    <3>1. Becomes(g, r)
      BY <1>4, <2>2 DEF Over, OverBy
    <3>2. r \in Streams /\ r.at = "drop" /\ r.len = stream[g].len /\ r.why = "complete"
      BY <1>2, OverTyped DEF Reasons
    <3> HIDE DEF r
    <3>3. client[g].got + stream[g].hand = stream[g].len
      BY <1>1, <1>2, <1>4, <2>2, Numbers DEF Conserved
    <3>4. Conserved(r, client[g], stream[g].hand)
      BY <2>1, <3>2, <3>3, Numbers DEF Conserved, Bytes
    <3>5. Guards(r.at) <=> Guards(stream[g].at)
      BY <1>1, <3>2 DEF Guards
    <3> QED
      BY <1>1, <1>2, <1>4, <2>1, <3>1, <3>2, <3>4, <3>5, WithinGuard
  <2>3. CASE stream[g].left # 0
    <3> DEFINE r == Handed(stream[g])
    <3>1. Becomes(g, r)
      BY <1>4, <2>3 DEF Handed
    <3>2. /\ r \in Streams /\ r.at = "read" /\ r.hand = 0 /\ r.len = stream[g].len
          /\ r.why = stream[g].why /\ r.left = stream[g].left
      BY <1>2, HandedTyped
    <3> HIDE DEF r
    <3>3. client[g].got + stream[g].hand + stream[g].left = stream[g].len
      BY <1>1, <1>2, <1>4, Numbers DEF Conserved
    <3>4. Conserved(r, client[g], stream[g].hand)
      BY <1>1, <1>2, <2>1, <3>2, <3>3, Numbers DEF Conserved, Bytes
    <3>5. Guards(r.at) <=> Guards(stream[g].at)
      BY <1>1, <3>2 DEF Guards
    <3> QED
      BY <1>1, <1>2, <1>4, <2>1, <3>1, <3>2, <3>4, <3>5, WithinGuard
  <2> QED
    BY <2>2, <2>3
<1> QED
  BY <1>3, <1>4 DEF Send

LEMMA SendErrorKeeps ==
  ASSUME Inv, NEW g \in Gets, SendError(g)
  PROVE  Inv'
<1>1. /\ stream[g].at = "sendError" /\ Over(g, "error")
      /\ UNCHANGED <<global, sessions, client>>
  BY DEF SendError
<1>2. CASE UNCHANGED chan
  BY <1>1, <1>2, OverKeeps DEF Reasons
<1>3. CASE chan[g] = 0 /\ chan' = [chan EXCEPT ![g] = -1]
  <2> DEFINE r == OverBy(stream[g], "error")
  <2>1. Becomes(g, r)
    BY <1>1 DEF Over, OverBy
  <2>2. r \in Streams /\ r.at = "drop" /\ r.len = stream[g].len /\ r.why = "error"
    BY TypesAt, OverTyped DEF Reasons
  <2> HIDE DEF r
  <2>3. Conserved(r, client[g], -1)
    BY <1>3, <2>2, Numbers DEF Conserved, Bytes
  <2>4. -1 \in -1 .. ChunkBytes
    BY Numbers
  <2>5. client' = [client EXCEPT ![g] = client[g]] /\ client[g] \in Clients
    BY <1>1, TypesAt
  <2>6. Guards(r.at) <=> Guards(stream[g].at)
    BY <1>1, <2>2 DEF Guards
  <2> QED
    BY <1>1, <1>3, <2>1, <2>2, <2>3, <2>4, <2>5, <2>6, WithinGuard
<1> QED
  BY <1>2, <1>3 DEF SendError

LEMMA DropGuardKeeps ==
  ASSUME Inv, NEW g \in Gets, DropGuard(g)
  PROVE  Inv'
<1>1. /\ stream[g].at = "drop" /\ Set(g, "ended") /\ Release(g)
      /\ UNCHANGED <<chan, client>>
  BY DEF DropGuard
<1> DEFINE r == SetTo(stream[g], "ended")
<1>2. Becomes(g, r)
  BY <1>1 DEF Set, SetTo
<1>3. /\ r \in Streams /\ r.at = "ended" /\ r.len = stream[g].len /\ r.why = stream[g].why
  BY TypesAt, AtTyped DEF Phases
<1> HIDE DEF r
<1>4. Conserved(r, client[g], chan[g])
  BY <1>3, TypesAt DEF Conserved
<1>5. Guards(stream[g].at) /\ ~Guards(r.at)
  BY <1>1, <1>3 DEF Guards
<1> QED
  BY <1>1, <1>2, <1>3, <1>4, <1>5, ReleaseKeeps

\* A step of the client, which leaves the stream as it is.
LEMMA ClientKeeps ==
  ASSUME Inv, NEW g \in Gets, NEW item \in -1 .. ChunkBytes, NEW c \in Clients,
         chan' = [chan EXCEPT ![g] = item], client' = [client EXCEPT ![g] = c],
         UNCHANGED <<global, sessions, stream>>, Conserved(stream[g], c, item)
  PROVE  Inv'
<1>1. stream[g] \in Streams
  BY TypesAt
<1>2. Becomes(g, stream[g])
  <2>1. stream \in [Gets -> Streams]
    BY DEF Inv, TypeOK
  <2> QED
    BY <2>1, SameAgain DEF Becomes
<1> QED
  BY <1>1, <1>2, WithinGuard

LEMMA TakeKeeps ==
  ASSUME Inv, NEW g \in Gets, Take(g)
  PROVE  Inv'
<1>1. /\ client[g].there /\ chan[g] # 0 /\ chan' = [chan EXCEPT ![g] = 0]
      /\ UNCHANGED <<global, sessions, stream>>
  BY DEF Take
<1> DEFINE n == client[g].got + Bytes(chan[g])
           c == [there |-> TRUE, got |-> n]
<1>2. client' = [client EXCEPT ![g] = c]
  BY DEF Take
<1>3. n \in Nat /\ n <= stream[g].len /\ 0 \in -1 .. ChunkBytes
  BY Numbers
<1>4. chan[g] >= 0 => n = client[g].got + chan[g]
  BY Numbers DEF Bytes
<1> HIDE DEF n
<1>5. c \in Clients /\ c.there /\ c.got = n
  BY <1>3 DEF Clients
<1> HIDE DEF c
<1>6. Conserved(stream[g], client[g], chan[g])
  BY TypesAt
<1>7. Conserved(stream[g], c, 0)
  BY <1>1, <1>3, <1>4, <1>5, <1>6, Numbers DEF Conserved, Bytes
<1> QED
  BY <1>1, <1>2, <1>3, <1>5, <1>7, ClientKeeps

LEMMA LeaveKeeps ==
  ASSUME Inv, NEW g \in Gets, Leave(g)
  PROVE  Inv'
<1>1. /\ stream[g].at \notin {"new", "decide"} /\ chan' = [chan EXCEPT ![g] = 0]
      /\ UNCHANGED <<global, sessions, stream>>
  BY DEF Leave
<1> DEFINE c == [there |-> FALSE, got |-> 0]
<1>2. client' = [client EXCEPT ![g] = c]
  BY DEF Leave
<1>3. c \in Clients /\ ~c.there /\ c.got = 0
  BY DEF Clients
<1> HIDE DEF c
<1>4. 0 \in -1 .. ChunkBytes
  BY Numbers
<1>5. Conserved(stream[g], client[g], chan[g])
  BY TypesAt
<1>6. Conserved(stream[g], c, 0)
  BY <1>1, <1>3, <1>5, Numbers DEF Conserved, Bytes
<1> QED
  BY <1>1, <1>2, <1>3, <1>4, <1>6, ClientKeeps

LEMMA NextKeeps ==
  ASSUME Inv, [Next]_vars
  PROVE  Inv'
<1>1. CASE \E g \in Gets : Acquire(g) \/ Task(g) \/ Take(g) \/ Leave(g)
  <2>1. PICK g \in Gets : Acquire(g) \/ Task(g) \/ Take(g) \/ Leave(g)
    BY <1>1
  <2>2. CASE TimeOut(g)
    BY <2>2, OverKeeps DEF TimeOut, Reasons
  <2> QED
    BY <2>1, <2>2, AcquireKeeps, RespondKeeps, ReadKeeps, SendKeeps, SendErrorKeeps,
       DropGuardKeeps, TakeKeeps, LeaveKeeps DEF Task
<1>2. CASE UNCHANGED vars
  BY <1>2 DEF vars, Inv, TypeOK, QuotaInv, QuotaExact, BytesInv, Guarded
<1> QED
  BY <1>1, <1>2 DEF Next

LEMMA InitOK ==
  ASSUME Init
  PROVE  Inv
<1>1. /\ global = 0 /\ sessions = [s \in Sessions |-> 0]
      /\ stream = [g \in Gets |-> NoStream] /\ chan = [g \in Gets |-> 0]
      /\ client = [g \in Gets |-> [there |-> TRUE, got |-> 0]]
  BY DEF Init
<1>2. /\ NoStream \in Streams /\ NoStream.at = "new" /\ NoStream.why = "none"
      /\ NoStream.len = 0
  BY ConstantsOK DEF NoStream, Streams, Phases, Reasons
<1>3. TypeOK
  BY <1>1, <1>2, ConstantsOK DEF TypeOK, Clients
<1>4. Guarded = {}
  BY <1>1, <1>2 DEF Guarded
<1>5. QuotaInv
  <2>1. IsFiniteSet({}) /\ Cardinality({}) = 0
    BY FS_EmptySet
  <2>2. \A s \in Sessions : {g \in Guarded : Session[g] = s} = {}
    BY <1>4
  <2> QED
    BY <1>1, <1>4, <2>1, <2>2, ConstantsOK DEF QuotaInv, QuotaExact
<1>6. BytesInv
  BY <1>1, <1>2 DEF BytesInv, Conserved, Bytes
<1> QED
  BY <1>3, <1>5, <1>6 DEF Inv

LEMMA Invariance == Spec => []Inv
<1>1. Init => Inv
  BY InitOK
<1>2. Inv /\ [Next]_vars => Inv'
  BY NextKeeps
<1> QED
  BY <1>1, <1>2, PTL DEF Spec

----------------------------------------------------------------------------
\* The counters of the quota are the guards alive, in all and of each session, and
\* keep their limits, whatever requests, files and clients do (quota.rs).
THEOREM QuotaCountsGuards == Spec => []QuotaExact
<1>1. Inv => QuotaExact
  BY DEF Inv, QuotaInv
<1> QED
  BY <1>1, Invariance, PTL

\* Whatever files and headers there are: one range of a file that is not empty is
\* answered with just its bytes, and with 416 if it has none or cannot be read; what
\* decide_range passes over, every header of an empty file among it, with the file;
\* and a client that stays until a stream is complete has all that was announced,
\* never more (stream.rs).
THEOREM RangesAreServed == Spec => []RangeServed
<1>1. Inv => RangeServed
  <2> SUFFICES ASSUME Inv PROVE RangeServed
    OBVIOUS
  <2>1. TypeOK
    BY DEF Inv
  <2>2. BytesExact
    <3> SUFFICES ASSUME NEW g \in Gets
                 PROVE  /\ client[g].got <= stream[g].len
                        /\ stream[g].why = "complete" /\ client[g].there /\ chan[g] = 0 =>
                             client[g].got = stream[g].len
      BY DEF BytesExact
    <3>1. Conserved(stream[g], client[g], chan[g])
      BY TypesAt
    <3> QED
      BY <3>1, Numbers DEF Conserved
  <2>3. \A h \in Headers, size \in 0 .. FileLen + 2 : Serves(h, size)
    BY ResponseServes, ConstantsOK
  <2> QED
    BY <2>1, <2>2, <2>3 DEF RangeServed
<1> QED
  BY <1>1, Invariance, PTL

============================================================================
