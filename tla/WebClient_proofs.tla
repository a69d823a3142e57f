-------------------------- MODULE WebClient_proofs --------------------------
(***************************************************************************)
(* The search page and the player of the web client.                       *)
(*                                                                         *)
(* For every set of queries, every number of pages and every number of     *)
(* inputs: the list on the search page is a beginning of the results of    *)
(* the query it is shown for.                                              *)
(*                                                                         *)
(* The invariant says what may still arrive. A request of the present      *)
(* generation is for the present query; a first page only comes to an      *)
(* empty list, a further page only to the list that ends before it; and    *)
(* as loadingMore stays set while one is under way, of any generation,     *)
(* there is one further page at a time.                                    *)
(*                                                                         *)
(* For every queue, every limit of it and every number of clicks, ends and *)
(* failures: the queue names the track of the engine, a change of it is    *)
(* saved or about to be, and at rest the engine is playing exactly while   *)
(* the element sounds. The invariant says what is still on its way: every  *)
(* promise that has not been told carries the save it owes, and of the     *)
(* events that have not been delivered the last one that says whether      *)
(* there is sound says so truly, unless the engine knows already.          *)
(***************************************************************************)
EXTENDS WebSearch, Player, FiniteSetTheorems, TLAPS

----------------------------------------------------------------------------
(* The search page *)

\* What the pending requests may do to box s.
Pending(s) ==
    /\ \A r \in requests :
         /\ r.generation <= s.generation
         /\ r.page # 1 => s.loadingMore
         /\ r.generation = s.generation =>
              /\ r.query = s.query
              /\ r.page = 1 => s.items = <<>> /\ s.next = 0
              /\ r.page # 1 => r.page = s.next
    /\ \A r, t \in requests : r.page # 1 /\ t.page # 1 => r = t

\* ListIsOfItsQuery, of box s.
Listed(s) ==
    /\ \A i \in 1 .. Len(s.items) : s.items[i] = Item(s.query, i)
    /\ s.next # 0 => s.next = Len(s.items) + 1 /\ s.next <= PagesOf[s.query]
    /\ s.next # 1

Inv == TypeOK /\ Pending(box) /\ Listed(box)

\* How a box changes without an answer: the list stays, or a search begins.
Stays(s, t) ==
    /\ t.query = s.query /\ t.items = s.items /\ t.next = s.next
    /\ t.generation = s.generation /\ t.loadingMore = s.loadingMore
Begins(s, t) ==
    /\ t.generation > s.generation /\ t.items = <<>> /\ t.next = 0
    /\ t.loadingMore = s.loadingMore
Calm(s, t) == Stays(s, t) \/ Begins(s, t)

----------------------------------------------------------------------------
LEMMA EmptyListed == <<>> \in Seq(Items) /\ Len(<<>>) = 0
  OBVIOUS

\* A box whose list gives way to another query's.
Emptied(s, n, q, phase) ==
    [s EXCEPT !.generation = n, !.query = q, !.phase = phase, !.items = <<>>, !.next = 0]

LEMMA EmptiedTyped ==
  ASSUME NEW s \in Boxes, NEW n \in Nat, NEW q \in Queries \cup {Blank},
         NEW phase \in {"blank", "loading"}
  PROVE  Emptied(s, n, q, phase) \in Boxes
<1>1. \A b \in Boxes : [b EXCEPT !.generation = n] \in Boxes
  BY DEF Boxes
<1>2. \A b \in Boxes : [b EXCEPT !.phase = phase] \in Boxes
  BY DEF Boxes
<1>3. \A b \in Boxes : [b EXCEPT !.items = <<>>] \in Boxes
  BY EmptyListed DEF Boxes
<1>4. \A b \in Boxes : [b EXCEPT !.next = 0] \in Boxes
  BY DEF Boxes
<1>5. \A b \in Boxes : [b EXCEPT !.query = q] \in Boxes
  BY DEF Boxes
<1> QED
  BY <1>1, <1>2, <1>3, <1>4, <1>5 DEF Emptied

\* schedule keeps the list or empties it under a new generation.
LEMMA ScheduleCalm ==
  ASSUME NEW s \in Boxes
  PROVE  Schedule(s) \in Boxes /\ Calm(s, Schedule(s))
<1>1. CancelPending(s) \in Boxes /\ Stays(s, CancelPending(s))
  BY DEF CancelPending, Boxes, Stays
<1>2. CASE s.text = Blank
  <2> DEFINE c == CancelPending(s)
             n == c.generation + 1
  <2>1. Schedule(s) = Emptied(c, n, Blank, "blank")
    BY <1>2, ConstantsOK DEF Schedule, Emptied
  <2>2. n \in Nat /\ n > s.generation
    BY <1>1 DEF Stays, Boxes
  <2> HIDE DEF n, c
  <2>3. c \in Boxes
    BY <1>1 DEF c
  <2>4. Schedule(s) \in Boxes
    BY <2>1, <2>2, <2>3, EmptiedTyped
  <2>5. Begins(s, Schedule(s))
    BY <1>1, <2>1, <2>2, <2>3 DEF Begins, Boxes, Stays, Emptied, c
  <2> QED
    BY <2>4, <2>5 DEF Calm
<1>3. CASE s.text = TooLong
  BY <1>1, <1>3, ConstantsOK DEF Schedule, CancelPending, Boxes, Calm, Stays
<1>4. CASE s.text # Blank /\ s.text # TooLong
  BY <1>1, <1>4 DEF Schedule, CancelPending, Boxes, Calm, Stays
<1> QED
  BY <1>2, <1>3, <1>4

LEMMA CalmTwice ==
  ASSUME NEW s \in Boxes, NEW t \in Boxes, NEW u \in Boxes, Calm(s, t), Calm(t, u)
  PROVE  Calm(s, u)
  BY DEF Calm, Stays, Begins, Boxes

\* A step without an answer or a new request keeps the invariant.
LEMMA CalmKeeps ==
  ASSUME Inv, NEW s \in Boxes, Calm(box, s), box' = s, UNCHANGED requests,
         inputs' \in 0 .. MaxInputs
  PROVE  Inv'
<1>1. TypeOK'
  BY DEF Inv, TypeOK
<1>2. box \in Boxes /\ requests \subseteq Requests
  BY DEF Inv, TypeOK
<1>3. Pending(s)
  <2>1. CASE Stays(box, s)
    BY <1>2, <2>1 DEF Inv, Pending, Stays, Boxes, Requests
  <2>2. CASE Begins(box, s)
    BY <1>2, <2>2 DEF Inv, Pending, Begins, Boxes, Requests
  <2> QED
    BY <2>1, <2>2 DEF Calm
<1>4. Listed(s)
  <2>1. CASE Stays(box, s)
    BY <2>1 DEF Inv, Listed, Stays
  <2>2. CASE Begins(box, s)
    BY <2>2, EmptyListed DEF Listed, Begins
  <2> QED
    BY <2>1, <2>2 DEF Calm
<1> QED
  BY <1>1, <1>3, <1>4 DEF Inv, Pending, Listed

----------------------------------------------------------------------------
(* The steps that send a request *)

\* The fetch of a search that begins is the only one of its generation.
LEMMA RunKeeps ==
  ASSUME Inv, NEW s \in Boxes, Stays(box, s), Runs(s),
         box' = Run(s), requests' = requests \cup {Fetch(Run(s), 1)},
         inputs' \in 0 .. MaxInputs
  PROVE  Inv'
<1>1. box \in Boxes /\ requests \subseteq Requests
  BY DEF Inv, TypeOK
<1> DEFINE n == s.generation + 1
<1>2. n \in Nat /\ s.text \in Queries
  BY DEF Runs, Boxes
<1>3. box' = Emptied(s, n, s.text, "loading")
  BY DEF Run, Emptied
<1>4. box' \in Boxes
  <2> HIDE DEF n
  <2> QED
    BY <1>2, <1>3, EmptiedTyped
<1>5. /\ box'.generation = n /\ box'.query = s.text /\ box'.items = <<>>
      /\ box'.next = 0 /\ box'.loadingMore = box.loadingMore
  BY <1>3 DEF Boxes, Stays, Emptied
<1>6. n > box.generation
  BY <1>1 DEF Boxes, Stays
<1> DEFINE new == [generation |-> n, query |-> s.text, page |-> 1]
<1>7. requests' = requests \cup {new} /\ new \in Requests
  BY <1>2, <1>3, <1>5 DEF Fetch, Requests
<1> HIDE DEF n
<1>8. TypeOK'
  BY <1>1, <1>4, <1>7 DEF TypeOK
<1>9. Pending(box)'
  BY <1>1, <1>2, <1>5, <1>6, <1>7 DEF Inv, Pending, Requests, Boxes
<1>10. Listed(box)'
  BY <1>5, EmptyListed DEF Listed
<1> QED
  BY <1>8, <1>9, <1>10 DEF Inv

\* loadMore asks for the page behind the list, and nothing else is under way.
LEMMA LoadMoreKeeps ==
  ASSUME Inv, LoadMore
  PROVE  Inv'
<1>1. box \in Boxes /\ requests \subseteq Requests
  BY DEF Inv, TypeOK
<1> DEFINE new == [generation |-> box.generation, query |-> box.query, page |-> box.next]
<1>2. requests' = requests \cup {new}
  BY DEF LoadMore, Fetch
<1>3. new \in Requests
  BY <1>1 DEF LoadMore, Requests, Boxes
<1>4. box' \in Boxes /\ box' = [box EXCEPT !.loadingMore = TRUE]
  BY <1>1 DEF LoadMore, Boxes
<1>5. TypeOK'
  BY <1>2, <1>3, <1>4, ConstantsOK DEF Inv, TypeOK, LoadMore, Acts
<1>6. new.page # 1
  BY <1>1 DEF LoadMore, Inv, Listed, Boxes
<1>7. Pending(box)'
  BY <1>1, <1>2, <1>3, <1>4, <1>6 DEF LoadMore, Inv, Pending, Requests, Boxes
<1>8. Listed(box)'
  BY <1>1, <1>4 DEF Inv, Listed, Boxes
<1> QED
  BY <1>5, <1>7, <1>8 DEF Inv

----------------------------------------------------------------------------
(* The steps that receive an answer *)

\* Without a request, the others may still do what they could.
LEMMA FewerKeeps ==
  ASSUME Inv, NEW s \in Boxes, NEW r \in requests,
         s.query = box.query, s.items = box.items, s.next = box.next,
         s.generation = box.generation,
         s.loadingMore = box.loadingMore \/ r.page # 1,
         box' = s, requests' = requests \ {r}, UNCHANGED inputs
  PROVE  Inv'
<1>1. box \in Boxes /\ requests \subseteq Requests
  BY DEF Inv, TypeOK
<1>3. TypeOK'
  BY DEF Inv, TypeOK
<1>4. Pending(box)'
  BY <1>1 DEF Inv, Pending, Requests, Boxes
<1>5. Listed(box)'
  BY DEF Inv, Listed
<1> QED
  BY <1>3, <1>4, <1>5 DEF Inv

LEMMA OneItem ==
  ASSUME NEW S, NEW x \in S
  PROVE  <<x>> \in Seq(S) /\ Len(<<x>>) = 1 /\ <<x>>[1] = x
  OBVIOUS

LEMMA OneMore ==
  ASSUME NEW S, NEW q \in Seq(S), NEW x \in S, NEW t, t = q \o <<x>>
  PROVE  /\ t \in Seq(S) /\ Len(t) = Len(q) + 1 /\ t[Len(q) + 1] = x
         /\ \A i \in 1 .. Len(q) : t[i] = q[i]
  OBVIOUS

\* A page that arrives extends the list it was asked for.
LEMMA PageExtends ==
  ASSUME Inv, NEW r \in requests, IsCurrent(r)
  PROVE  /\ Extended(r) \in Seq(Items)
         /\ \A i \in 1 .. Len(Extended(r)) : Extended(r)[i] = Item(box.query, i)
         /\ NextPage(r.query, r.page) \in Nat \ {1}
         /\ NextPage(r.query, r.page) # 0 =>
              /\ NextPage(r.query, r.page) = Len(Extended(r)) + 1
              /\ NextPage(r.query, r.page) <= PagesOf[box.query]
<1> DEFINE items == Extended(r)
           after == NextPage(r.query, r.page)
<1> SUFFICES /\ items \in Seq(Items)
             /\ \A i \in 1 .. Len(items) : items[i] = Item(box.query, i)
             /\ after # 0 => after = Len(items) + 1 /\ after <= PagesOf[box.query]
             /\ after \in Nat \ {1}
  OBVIOUS
<1>1. box \in Boxes /\ r \in Requests /\ r.query = box.query
  BY DEF Inv, TypeOK, IsCurrent, Pending
<1>2. PagesOf[r.query] \in Nat /\ r.page \in Nat \ {0} /\ r.query \in Queries
  BY <1>1, ConstantsOK DEF Requests
<1>3. after \in Nat \ {1}
  BY <1>2 DEF NextPage
<1>4. after # 0 => r.page < PagesOf[r.query] /\ after = r.page + 1
  BY <1>2 DEF NextPage
<1> HIDE DEF after
<1>5. CASE r.page = 1 /\ 1 <= PagesOf[r.query]
  <2>1. items = <<Item(box.query, 1)>>
    BY <1>1, <1>5 DEF Extended, Found
  <2>2. Item(box.query, 1) \in Items
    BY <1>1, <1>2 DEF Item, Items
  <2> HIDE DEF items
  <2>3. items \in Seq(Items) /\ Len(items) = 1 /\ items[1] = Item(box.query, 1)
    BY <2>1, <2>2, OneItem
  <2> QED
    BY <1>1, <1>2, <1>3, <1>4, <1>5, <2>3
<1>6. CASE r.page = 1 /\ ~(1 <= PagesOf[r.query])
  <2>1. items = <<>>
    BY <1>6 DEF Extended, Found
  <2> HIDE DEF items
  <2>2. items \in Seq(Items) /\ Len(items) = 0
    BY <2>1, EmptyListed
  <2> QED
    BY <1>2, <1>3, <1>4, <1>6, <2>2
<1>7. CASE r.page # 1
  <2>1. r.page = Len(box.items) + 1 /\ r.page <= PagesOf[r.query]
    BY <1>1, <1>2, <1>7 DEF Inv, Pending, Listed, IsCurrent
  <2>2. items = box.items \o <<Item(r.query, r.page)>>
    BY <1>7, <2>1 DEF Extended, Found
  <2>3. box.items \in Seq(Items)
    BY <1>1 DEF Boxes
  <2>4. Item(r.query, r.page) \in Items
    BY <1>2 DEF Item, Items
  <2> HIDE DEF items
  <2>5. /\ items \in Seq(Items) /\ Len(items) = Len(box.items) + 1
        /\ items[Len(box.items) + 1] = Item(r.query, r.page)
        /\ \A i \in 1 .. Len(box.items) : items[i] = box.items[i]
    BY <2>2, <2>3, <2>4, OneMore
  <2>6. \A i \in 1 .. Len(box.items) : box.items[i] = Item(box.query, i)
    BY DEF Inv, Listed
  <2>7. Len(items) = r.page /\ Len(box.items) \in Nat
    BY <2>1, <2>3, <2>5
  <2>8. \A i \in 1 .. Len(items) : items[i] = Item(box.query, i)
    BY <1>1, <2>1, <2>5, <2>6, <2>7
  <2>9. after # 0 => after = Len(items) + 1 /\ after <= PagesOf[box.query]
    BY <1>1, <1>2, <1>4, <2>7
  <2> QED
    BY <1>3, <2>5, <2>8, <2>9
<1> QED
  BY <1>2, <1>5, <1>6, <1>7

LEMMA LoadedTyped ==
  ASSUME Inv, NEW r \in requests, IsCurrent(r)
  PROVE  /\ Loaded(r) \in Boxes
         /\ Loaded(r).items = Extended(r) /\ Loaded(r).query = box.query
         /\ Loaded(r).next = NextPage(r.query, r.page)
         /\ Loaded(r).generation = box.generation
         /\ Loaded(r).loadingMore = (box.loadingMore /\ r.page = 1)
<1> DEFINE items == Extended(r)
           after == NextPage(r.query, r.page)
           phase == IF r.page = 1 /\ Found(r) = <<>> THEN "empty" ELSE "ready"
           more == box.loadingMore /\ r.page = 1
<1>1. box \in Boxes
  BY DEF Inv, TypeOK
<1>2. items \in Seq(Items) /\ after \in Nat
  BY PageExtends
<1>3. phase \in {"empty", "ready"} /\ more \in BOOLEAN
  OBVIOUS
<1>4. Loaded(r) = [box EXCEPT !.items = items, !.next = after, !.phase = phase,
                              !.loadingMore = more]
  <2>1. more = (box.loadingMore /\ r.page = 1)
    OBVIOUS
  <2> QED
    BY <2>1 DEF Loaded
<1> HIDE DEF items, after, phase, more
<1>5. \A b \in Boxes : [b EXCEPT !.items = items] \in Boxes
  BY <1>2 DEF Boxes
<1>6. \A b \in Boxes : [b EXCEPT !.next = after] \in Boxes
  BY <1>2 DEF Boxes
<1>7. \A b \in Boxes : [b EXCEPT !.phase = phase] \in Boxes
  BY <1>3 DEF Boxes
<1>8. \A b \in Boxes : [b EXCEPT !.loadingMore = more] \in Boxes
  BY <1>3 DEF Boxes
<1>9. Loaded(r) \in Boxes
  BY <1>1, <1>4, <1>5, <1>6, <1>7, <1>8
<1>10. /\ Loaded(r).items = items /\ Loaded(r).query = box.query
       /\ Loaded(r).next = after /\ Loaded(r).generation = box.generation
       /\ Loaded(r).loadingMore = more
  BY <1>1, <1>4 DEF Boxes
<1> QED
  BY <1>9, <1>10 DEF items, after, more

LEMMA AnswerKeeps ==
  ASSUME Inv, NEW r \in requests, Answer(r)
  PROVE  Inv'
<1>1. box \in Boxes /\ requests \subseteq Requests /\ r \in Requests
  BY DEF Inv, TypeOK
<1>2. CASE ~IsCurrent(r)
  <2> DEFINE more == box.loadingMore /\ r.page = 1
             s == [box EXCEPT !.loadingMore = more]
  <2>1. more \in BOOLEAN /\ (more = box.loadingMore \/ r.page # 1)
    BY <1>1 DEF Boxes
  <2>2. box' = s
    BY <1>2 DEF Answer
  <2> HIDE DEF more
  <2>3. /\ s \in Boxes /\ s.query = box.query /\ s.items = box.items
        /\ s.next = box.next /\ s.generation = box.generation /\ s.loadingMore = more
    BY <1>1, <2>1 DEF Boxes
  <2>4. requests' = requests \ {r} /\ UNCHANGED inputs
    BY DEF Answer
  <2> HIDE DEF s
  <2> QED
    BY <2>1, <2>2, <2>3, <2>4, FewerKeeps
<1>3. CASE IsCurrent(r)
  <2>1. box' = Loaded(r) /\ requests' = requests \ {r} /\ UNCHANGED inputs
    BY <1>3 DEF Answer
  <2>2. TypeOK'
    BY <1>3, <2>1, LoadedTyped DEF Inv, TypeOK
  <2>3. \A t \in requests' : ~IsCurrent(t) /\ (t.page # 1 => r.page = 1)
    BY <1>1, <1>3, <2>1 DEF Inv, Pending, IsCurrent, Requests
  <2>4. Pending(box)'
    BY <1>1, <1>3, <2>1, <2>3, LoadedTyped DEF Inv, Pending, IsCurrent
  <2>5. Listed(box)'
    BY <1>3, <2>1, LoadedTyped, PageExtends DEF Listed
  <2> QED
    BY <2>2, <2>4, <2>5 DEF Inv
<1> QED
  BY <1>2, <1>3

LEMMA FailsKeeps ==
  ASSUME Inv, NEW r \in requests, Fails(r)
  PROVE  Inv'
<1>1. box \in Boxes /\ requests \subseteq Requests
  BY DEF Inv, TypeOK
<1>2. requests' = requests \ {r} /\ UNCHANGED inputs
  BY DEF Fails
<1>3. CASE ~IsCurrent(r)
  <2>1. box' = box
    BY <1>3 DEF Fails
  <2> QED
    BY <1>1, <1>2, <2>1, FewerKeeps
<1>4. CASE IsCurrent(r)
  <2> DEFINE more == box.loadingMore /\ r.page = 1
             b == [box EXCEPT !.phase = "error"]
             s == [b EXCEPT !.loadingMore = more]
  <2>1. more \in BOOLEAN /\ (more = box.loadingMore \/ r.page # 1)
    BY <1>1 DEF Boxes
  <2>2. box' = s
    BY <1>4 DEF Fails
  <2> HIDE DEF more
  <2>3. /\ b \in Boxes /\ b.query = box.query /\ b.items = box.items
        /\ b.next = box.next /\ b.generation = box.generation
    BY <1>1 DEF Boxes
  <2> HIDE DEF b
  <2>4. /\ s \in Boxes /\ s.query = b.query /\ s.items = b.items
        /\ s.next = b.next /\ s.generation = b.generation /\ s.loadingMore = more
    BY <2>1, <2>3 DEF Boxes
  <2> HIDE DEF s
  <2> QED
    BY <1>2, <2>1, <2>2, <2>3, <2>4, FewerKeeps
<1> QED
  BY <1>3, <1>4

----------------------------------------------------------------------------
(* All steps *)

LEMMA ActsCounted == ASSUME Inv, Acts PROVE inputs' \in 0 .. MaxInputs
  BY ConstantsOK DEF Inv, TypeOK, Acts

\* Search, of a box that has only cleared its timer.
LEMMA SearchKeeps ==
  ASSUME Inv, Search(CancelPending(box)), inputs' \in 0 .. MaxInputs
  PROVE  Inv'
<1> DEFINE s == CancelPending(box)
<1>1. s \in Boxes /\ Stays(box, s)
  BY DEF CancelPending, Inv, TypeOK, Boxes, Stays
<1>2. Search(s)
  OBVIOUS
<1> HIDE DEF s
<1>3. CASE Runs(s)
  BY <1>1, <1>2, <1>3, RunKeeps DEF Search
<1>4. CASE ~Runs(s)
  BY <1>1, <1>2, <1>4, CalmKeeps DEF Search, Calm
<1> QED
  BY <1>3, <1>4

LEMMA InvInit == Init => Inv
<1> SUFFICES ASSUME Init PROVE Inv
  OBVIOUS
<1>1. /\ box.query = Blank /\ box.items = <<>> /\ box.next = 0 /\ requests = {}
  BY DEF Init
<1>2. box \in Boxes
  BY EmptyListed DEF Init, Boxes, Texts
<1>3. TypeOK
  BY <1>2, ConstantsOK DEF Init, TypeOK
<1>4. Listed(box)
  BY <1>1, EmptyListed DEF Listed
<1> QED
  BY <1>1, <1>3, <1>4 DEF Inv, Pending

LEMMA InvNext == Inv /\ [Next]_vars => Inv'
<1> SUFFICES ASSUME Inv, [Next]_vars PROVE Inv'
  OBVIOUS
<1>1. box \in Boxes /\ inputs \in 0 .. MaxInputs
  BY DEF Inv, TypeOK
<1>2. ASSUME NEW t \in Texts, Type(t) PROVE Inv'
  <2> DEFINE s == [box EXCEPT !.text = t]
  <2>1. s \in Boxes /\ Stays(box, s)
    BY <1>1 DEF Boxes, Stays
  <2>2. box' = Schedule(s) /\ UNCHANGED requests /\ Acts
    BY <1>2 DEF Type
  <2> HIDE DEF s
  <2>3. Schedule(s) \in Boxes /\ Calm(box, Schedule(s))
    BY <1>1, <2>1, ScheduleCalm, CalmTwice DEF Calm
  <2> QED
    BY <2>2, <2>3, ActsCounted, CalmKeeps
<1>3. CASE Compose
  <2> DEFINE b == CancelPending(box)
             s == [b EXCEPT !.composing = TRUE, !.phase = "composing"]
  <2>1. b \in Boxes /\ Stays(box, b)
    BY <1>1 DEF CancelPending, Boxes, Stays
  <2>2. box' = s /\ UNCHANGED requests /\ Acts
    BY <1>3 DEF Compose
  <2> HIDE DEF b
  <2>3. s \in Boxes /\ Stays(b, s)
    BY <2>1 DEF Boxes, Stays
  <2> HIDE DEF s
  <2>4. Calm(box, s)
    BY <1>1, <2>1, <2>3, CalmTwice DEF Calm
  <2> QED
    BY <2>2, <2>3, <2>4, ActsCounted, CalmKeeps
<1>4. ASSUME NEW t \in Texts, Composed(t) PROVE Inv'
  <2> DEFINE b == [box EXCEPT !.composing = FALSE]
             c == Schedule(b)
             d == [c EXCEPT !.text = t]
  <2>1. b \in Boxes /\ Stays(box, b)
    BY <1>1 DEF Boxes, Stays
  <2>2. box' = Schedule(d) /\ UNCHANGED requests /\ Acts
    BY <1>4 DEF Composed
  <2> HIDE DEF b
  <2>3. c \in Boxes /\ Calm(box, c)
    BY <1>1, <2>1, ScheduleCalm, CalmTwice DEF Calm
  <2> HIDE DEF c
  <2>4. d \in Boxes /\ Stays(c, d)
    BY <2>3 DEF Boxes, Stays
  <2> HIDE DEF d
  <2>5. Calm(box, d)
    BY <1>1, <2>3, <2>4, CalmTwice DEF Calm
  <2>6. Schedule(d) \in Boxes /\ Calm(box, Schedule(d))
    BY <1>1, <2>4, <2>5, ScheduleCalm, CalmTwice
  <2> QED
    BY <2>2, <2>6, ActsCounted, CalmKeeps
<1>5. CASE Submit
  BY <1>5, ActsCounted, SearchKeeps DEF Submit
<1>6. CASE Fire
  BY <1>1, <1>6, SearchKeeps DEF Fire
<1>7. CASE LoadMore
  BY <1>7, LoadMoreKeeps
<1>8. ASSUME NEW r \in requests, Ends(r) PROVE Inv'
  BY <1>8, AnswerKeeps, FailsKeeps DEF Ends
<1>9. CASE UNCHANGED vars
  BY <1>9 DEF vars, Inv, TypeOK, Pending, Listed
<1> QED
  BY <1>2, <1>3, <1>4, <1>5, <1>6, <1>7, <1>8, <1>9 DEF Next

LEMMA InvAlways == Spec => []Inv
  BY InvInit, InvNext, PTL DEF Spec

\* Boxes and requests keep their types.
THEOREM SearchTyped == Spec => []TypeOK
<1>1. Inv => TypeOK
  BY DEF Inv
<1> QED
  BY <1>1, InvAlways, PTL

\* The list is a beginning of the results of the query it is shown for, each
\* page once and in order, whatever is typed and however late answers arrive.
THEOREM ListBelongsToQuery == Spec => []ListIsOfItsQuery
<1>1. Inv => ListIsOfItsQuery
  <2> SUFFICES ASSUME Inv PROVE ListIsOfItsQuery
    OBVIOUS
  <2>1. box.items \in Seq(Items)
    BY DEF Inv, TypeOK, Boxes
  <2>2. DOMAIN box.items = 1 .. Len(box.items)
    BY <2>1
  <2> QED
    BY <2>2 DEF Inv, Listed, ListIsOfItsQuery
<1> QED
  BY <1>1, InvAlways, PTL

----------------------------------------------------------------------------
(* Input methods *)

QuietInv == Inv /\ (box.composing => ~box.timer)

LEMMA ScheduleComposing ==
  ASSUME NEW s \in Boxes
  PROVE  Schedule(s).composing = s.composing
<1> DEFINE c == CancelPending(s)
<1>1. c \in Boxes /\ c.composing = s.composing
  BY DEF CancelPending, Boxes
<1> HIDE DEF c
<1>2. CASE s.text = Blank
  <2>1. Schedule(s) = Emptied(c, c.generation + 1, Blank, "blank")
    BY <1>2, ConstantsOK DEF Schedule, Emptied, c
  <2> QED
    BY <1>1, <2>1 DEF Emptied, Boxes
<1>3. CASE s.text = TooLong
  BY <1>1, <1>3, ConstantsOK DEF Schedule, Boxes, c
<1>4. CASE s.text # Blank /\ s.text # TooLong
  BY <1>1, <1>4 DEF Schedule, Boxes, c
<1> QED
  BY <1>2, <1>3, <1>4

\* What a step does to composition and timer.
LEMMA QuietStep ==
  ASSUME QuietInv, Next
  PROVE  /\ box'.composing => ~box'.timer
         /\ box.composing /\ box'.composing =>
              box'.generation = box.generation /\ ~box'.timer
<1>1. box \in Boxes
  BY DEF QuietInv, Inv, TypeOK
<1>2. ASSUME NEW t \in Texts, Type(t) PROVE ~box'.composing
  <2> DEFINE s == [box EXCEPT !.text = t]
  <2>1. s \in Boxes /\ ~s.composing
    BY <1>1, <1>2 DEF Boxes, Type
  <2>2. box' = Schedule(s)
    BY <1>2 DEF Type
  <2> HIDE DEF s
  <2> QED
    BY <2>1, <2>2, ScheduleComposing
<1>3. CASE Compose
  <2> DEFINE b == CancelPending(box)
  <2>1. b \in Boxes /\ ~b.timer
    BY <1>1 DEF CancelPending, Boxes
  <2>2. box' = [b EXCEPT !.composing = TRUE, !.phase = "composing"] /\ ~box.composing
    BY <1>3 DEF Compose
  <2> HIDE DEF b
  <2> QED
    BY <2>1, <2>2 DEF Boxes
<1>4. ASSUME NEW t \in Texts, Composed(t) PROVE ~box'.composing
  <2> DEFINE b == [box EXCEPT !.composing = FALSE]
             c == Schedule(b)
             d == [c EXCEPT !.text = t]
  <2>1. b \in Boxes /\ ~b.composing
    BY <1>1 DEF Boxes
  <2>2. box' = Schedule(d)
    BY <1>4 DEF Composed
  <2> HIDE DEF b
  <2>3. c \in Boxes /\ ~c.composing
    BY <2>1, ScheduleCalm, ScheduleComposing
  <2> HIDE DEF c
  <2>4. d \in Boxes /\ ~d.composing
    BY <2>3 DEF Boxes
  <2> HIDE DEF d
  <2> QED
    BY <2>2, <2>4, ScheduleComposing
<1>5. ASSUME ~box.composing, Search(CancelPending(box)) PROVE ~box'.composing
  <2> DEFINE s == CancelPending(box)
  <2>1. s \in Boxes /\ ~s.composing
    BY <1>1, <1>5 DEF CancelPending, Boxes
  <2>2. Search(s)
    BY <1>5
  <2> HIDE DEF s
  <2>3. CASE Runs(s)
    <3>1. box' = Emptied(s, s.generation + 1, s.text, "loading")
      BY <2>2, <2>3 DEF Search, Run, Emptied
    <3> QED
      BY <2>1, <3>1 DEF Emptied, Boxes
  <2>4. CASE ~Runs(s)
    BY <2>1, <2>2, <2>4 DEF Search
  <2> QED
    BY <2>3, <2>4
<1>6. CASE Submit
  BY <1>5, <1>6 DEF Submit
<1>7. CASE Fire
  BY <1>5, <1>7 DEF Fire, QuietInv
<1>8. CASE LoadMore
  BY <1>1, <1>8 DEF LoadMore, QuietInv, Boxes
<1>9. ASSUME NEW r \in requests, Ends(r)
      PROVE  /\ box'.composing = box.composing /\ box'.timer = box.timer
             /\ box'.generation = box.generation
  <2>1. CASE Answer(r) /\ IsCurrent(r)
    <3>1. box' = Loaded(r)
      BY <2>1 DEF Answer
    <3> QED
      BY <1>1, <3>1 DEF Loaded, Boxes
  <2>2. CASE Answer(r) /\ ~IsCurrent(r)
    BY <1>1, <2>2 DEF Answer, Boxes
  <2>3. CASE Fails(r)
    BY <1>1, <2>3 DEF Fails, Boxes
  <2> QED
    BY <1>9, <2>1, <2>2, <2>3 DEF Ends
<1> QED
  BY <1>2, <1>3, <1>4, <1>6, <1>7, <1>8, <1>9 DEF Next, QuietInv

\* While an input method composes nothing new is searched for: the generation stays
\* and no timer is left that could begin another, whatever was typed, submitted and
\* under way before. The list may still change: an answer of the present generation
\* is shown (search.ts:5).
THEOREM QuietWhileTyping == Spec => QuietWhileComposing
<1>1. Init => QuietInv
  BY InvInit DEF Init, QuietInv
<1>2. QuietInv /\ [Next]_vars => QuietInv'
  <2> SUFFICES ASSUME QuietInv, [Next]_vars PROVE QuietInv'
    OBVIOUS
  <2>1. Inv'
    BY InvNext DEF QuietInv
  <2>2. CASE Next
    BY <2>1, <2>2, QuietStep DEF QuietInv
  <2>3. CASE UNCHANGED vars
    BY <2>1, <2>3 DEF QuietInv, vars
  <2> QED
    BY <2>2, <2>3
<1>3. QuietInv /\ [Next]_vars =>
        [box.composing /\ box'.composing =>
           box'.generation = box.generation /\ ~box'.timer]_vars
  BY QuietStep
<1> QED
  BY <1>1, <1>2, <1>3, PTL DEF Spec, QuietWhileComposing

----------------------------------------------------------------------------
(* The player: sequences *)

LEMMA PlacesInOrder ==
  ASSUME NEW m \in Nat, NEW S \in SUBSET (1 .. m)
  PROVE  /\ Cardinality(S) \in Nat
         /\ \A n \in 1 .. Cardinality(S) : \E i \in S : Cardinality(S \cap (1 .. i)) = n
         /\ \A i \in S : Cardinality(S \cap (1 .. i)) \in 1 .. Cardinality(S)
         /\ \A i, j \in S : Cardinality(S \cap (1 .. i)) = Cardinality(S \cap (1 .. j)) => i = j
<1> DEFINE Before(i) == S \cap (1 .. i)
           f == [i \in S |-> Cardinality(Before(i))]
<1>1. IsFiniteSet(S) /\ Cardinality(S) \in Nat /\ S \subseteq Nat
  <2>1. IsFiniteSet(1 .. m)
    BY FS_Interval
  <2>2. IsFiniteSet(S)
    BY <2>1, FS_Subset
  <2> QED
    BY <2>2, FS_CardinalityType
<1>2. ASSUME NEW i \in S
      PROVE  /\ IsFiniteSet(Before(i)) /\ Cardinality(Before(i)) \in 1 .. Cardinality(S)
             /\ i \in Before(i)
  <2>1. i \in Before(i) /\ Before(i) \in SUBSET S
    BY <1>1
  <2> HIDE DEF Before
  <2>2. IsFiniteSet(Before(i)) /\ Cardinality(Before(i)) <= Cardinality(S)
    BY <1>1, <2>1, FS_Subset
  <2>3. Cardinality(Before(i)) \in Nat /\ Cardinality(Before(i)) # 0
    BY <2>1, <2>2, FS_CardinalityType, FS_EmptySet
  <2> QED
    BY <1>1, <2>1, <2>2, <2>3
<1>3. ASSUME NEW i \in S, NEW j \in S, i < j
      PROVE  Cardinality(Before(i)) # Cardinality(Before(j))
  <2>1. Before(i) \in SUBSET Before(j) /\ j \notin Before(i)
    BY <1>1, <1>3
  <2>2. j \in Before(j) /\ IsFiniteSet(Before(j))
    BY <1>2
  <2> HIDE DEF Before
  <2> QED
    BY <2>1, <2>2, FS_Subset
<1> HIDE DEF Before
<1>4. f \in Injection(S, 1 .. Cardinality(S))
  <2>1. f \in [S -> 1 .. Cardinality(S)]
    BY <1>2
  <2>2. ASSUME NEW i \in S, NEW j \in S, f[i] = f[j] PROVE i = j
    BY <1>1, <1>3, <2>2
  <2> HIDE DEF f
  <2> QED
    BY <2>1, <2>2 DEF Injection, IsInjective
<1>5. IsFiniteSet(1 .. Cardinality(S)) /\ Cardinality(1 .. Cardinality(S)) = Cardinality(S)
  BY <1>1, FS_Interval
<1>6. f \in Surjection(S, 1 .. Cardinality(S))
  <2> HIDE DEF f
  <2> QED
    BY <1>4, <1>5, FS_Injection
<1>7. \A n \in 1 .. Cardinality(S) : \E i \in S : f[i] = n
  <2> HIDE DEF f
  <2> QED
    BY <1>6 DEF Surjection
<1>8. \A i, j \in S : Cardinality(Before(i)) = Cardinality(Before(j)) => i = j
  BY <1>1, <1>3
<1> QED
  BY <1>1, <1>2, <1>7, <1>8 DEF Before

LEMMA OneMoreTask ==
  ASSUME NEW S, NEW q \in Seq(S), NEW x \in S
  PROVE  /\ Append(q, x) \in Seq(S) /\ Len(Append(q, x)) = Len(q) + 1
         /\ DOMAIN Append(q, x) = 1 .. Len(q) + 1 /\ DOMAIN q = 1 .. Len(q) /\ Len(q) \in Nat
         /\ \A i \in 1 .. Len(q) : Append(q, x)[i] = q[i]
         /\ Append(q, x)[Len(q) + 1] = x
  OBVIOUS

LEMMA Joined ==
  ASSUME NEW S, NEW q \in Seq(S), NEW r \in Seq(S)
  PROVE  /\ q \o r \in Seq(S) /\ Len(q \o r) = Len(q) + Len(r)
         /\ DOMAIN (q \o r) = 1 .. Len(q) + Len(r)
         /\ DOMAIN q = 1 .. Len(q) /\ Len(q) \in Nat /\ DOMAIN r = 1 .. Len(r) /\ Len(r) \in Nat
         /\ \A i \in 1 .. Len(q) : (q \o r)[i] = q[i]
         /\ \A i \in 1 .. Len(r) : (q \o r)[Len(q) + i] = r[i]
  OBVIOUS

LEMMA HeadAndTail ==
  ASSUME NEW S, NEW q \in Seq(S), q # <<>>
  PROVE  /\ Head(q) \in S /\ Head(q) = q[1] /\ Tail(q) \in Seq(S)
         /\ Len(q) \in Nat \ {0} /\ Len(Tail(q)) = Len(q) - 1
         /\ DOMAIN q = 1 .. Len(q) /\ DOMAIN Tail(q) = 1 .. Len(q) - 1
         /\ \A i \in 1 .. Len(q) - 1 : Tail(q)[i] = q[i + 1]
  OBVIOUS

LEMMA NoneYet ==
  ASSUME NEW S
  PROVE  <<>> \in Seq(S) /\ Len(<<>>) = 0 /\ DOMAIN <<>> = {}
  OBVIOUS

LEMMA JustOne ==
  ASSUME NEW S, NEW x \in S
  PROVE  <<x>> \in Seq(S) /\ Len(<<x>>) = 1 /\ DOMAIN <<x>> = {1} /\ <<x>>[1] = x
         /\ Head(<<x>>) = x /\ Tail(<<x>>) = <<>> /\ <<x>> # <<>>
  OBVIOUS

----------------------------------------------------------------------------
(* PlaybackQueue *)

Queues == [ids : Seq(Tracks), cursor : Nat, shuffle : BOOLEAN, repeatOne : BOOLEAN]
QueueOK(q) == q \in Queues /\ Len(q.ids) <= Limit /\ q.cursor <= Len(q.ids)

LEMMA QueueParts ==
  ASSUME NEW q, QueueOK(q)
  PROVE  /\ q.ids \in Seq(Tracks) /\ DOMAIN q.ids = 1 .. Len(q.ids) /\ Len(q.ids) \in Nat
         /\ q.cursor \in 0 .. Len(q.ids) /\ Len(q.ids) <= Limit /\ Limit \in Nat
         /\ q.shuffle \in BOOLEAN /\ q.repeatOne \in BOOLEAN
         /\ \A i \in DOMAIN q.ids : q.ids[i] \in Tracks
         /\ q.cursor # 0 => Current(q) \in Tracks /\ Current(q) = q.ids[q.cursor]
         /\ q.cursor = 0 => Current(q) = NoTrack
         /\ Current(q) = NoTrack <=> q.cursor = 0
<1>1. /\ q.ids \in Seq(Tracks) /\ DOMAIN q.ids = 1 .. Len(q.ids) /\ Len(q.ids) \in Nat
      /\ q.cursor \in 0 .. Len(q.ids) /\ Len(q.ids) <= Limit /\ Limit \in Nat
      /\ q.shuffle \in BOOLEAN /\ q.repeatOne \in BOOLEAN
  BY PlayerConstantsOK DEF QueueOK, Queues
<1>2. \A i \in DOMAIN q.ids : q.ids[i] \in Tracks
  BY <1>1
<1> QED
  BY <1>1, <1>2, PlayerConstantsOK DEF Current

\* The queue r has the track of q under its cursor, if q has one there.
SameCurrent(q, r) == QueueOK(r) /\ Current(r) = Current(q)

LEMMA CursorMoved ==
  ASSUME NEW q, QueueOK(q), NEW i \in DOMAIN q.ids, NEW r, r = [q EXCEPT !.cursor = i]
  PROVE  QueueOK(r) /\ Current(r) = q.ids[i] /\ q.ids[i] \in Tracks /\ r.ids = q.ids
<1>1. q.ids[i] \in Tracks /\ i # 0
  BY QueueParts
<1>2. i \in Nat /\ i <= Len(q.ids)
  BY QueueParts
<1> QED
  BY <1>1, <1>2 DEF QueueOK, Queues, Current

LEMMA AddedOK ==
  ASSUME NEW q, QueueOK(q), NEW ids \in Seq(Tracks)
  PROVE  SameCurrent(q, Added(q, ids)) /\ Added(q, ids).cursor = q.cursor
<1> DEFINE all == q.ids \o ids
           n == IF Limit < Len(all) THEN Limit ELSE Len(all)
           new == SubSeq(all, 1, n)
           r == [q EXCEPT !.ids = new]
<1>1. /\ q.ids \in Seq(Tracks) /\ Len(q.ids) \in Nat /\ q.cursor \in 0 .. Len(q.ids)
      /\ Len(q.ids) <= Limit /\ Limit \in Nat
  BY QueueParts
<1>2. /\ all \in Seq(Tracks) /\ Len(all) \in Nat /\ Len(q.ids) <= Len(all)
      /\ \A i \in 1 .. Len(q.ids) : all[i] = q.ids[i]
  BY <1>1
<1> HIDE DEF all
<1>3. n \in Nat /\ n <= Len(all) /\ Len(q.ids) <= n /\ n <= Limit
  BY <1>1, <1>2
<1> HIDE DEF n
<1>4. new \in Seq(Tracks) /\ Len(new) = n /\ \A i \in 1 .. Len(q.ids) : new[i] = q.ids[i]
  BY <1>1, <1>2, <1>3
<1> HIDE DEF new
<1>5. r = Added(q, ids)
  BY DEF Added, Take, new, n, all
<1>6. QueueOK(r) /\ r.ids = new /\ r.cursor = q.cursor
  BY <1>1, <1>3, <1>4 DEF QueueOK, Queues
<1> HIDE DEF r
<1>7. Current(r) = Current(q)
  BY <1>1, <1>4, <1>6 DEF Current
<1> QED
  BY <1>5, <1>6, <1>7 DEF SameCurrent

LEMMA Inserted ==
  ASSUME NEW s, NEW i, NEW e
  PROVE  InsertAt(s, i, e) = SubSeq(s, 1, i - 1) \o <<e>> \o SubSeq(s, i, Len(s))
  BY DEF InsertAt

LEMMA AddedNextOK ==
  ASSUME NEW q, QueueOK(q), NEW t \in Tracks
  PROVE  SameCurrent(q, AddedNext(q, t))
<1>1. /\ q.ids \in Seq(Tracks) /\ Len(q.ids) \in Nat /\ q.cursor \in 0 .. Len(q.ids)
      /\ Len(q.ids) <= Limit /\ Limit \in Nat
  BY QueueParts
<1>2. CASE Len(q.ids) >= Limit
  BY <1>2 DEF AddedNext, SameCurrent
<1>3. CASE Len(q.ids) < Limit
  <2> DEFINE front == SubSeq(q.ids, 1, q.cursor)
             back == SubSeq(q.ids, q.cursor + 1, Len(q.ids))
             new == front \o <<t>> \o back
             r == [q EXCEPT !.ids = new]
  <2>1. /\ front \in Seq(Tracks) /\ Len(front) = q.cursor
        /\ \A i \in 1 .. q.cursor : front[i] = q.ids[i]
    BY <1>1
  <2>2. back \in Seq(Tracks) /\ Len(back) = Len(q.ids) - q.cursor
    BY <1>1
  <2> HIDE DEF front, back
  <2> DEFINE head == front \o <<t>>
  <2>a. /\ head \in Seq(Tracks) /\ Len(head) = q.cursor + 1
        /\ \A i \in 1 .. q.cursor : head[i] = q.ids[i]
    <3>1. <<t>> \in Seq(Tracks) /\ Len(<<t>>) = 1
      OBVIOUS
    <3> QED
      BY <1>1, <2>1, <3>1, Joined
  <2> HIDE DEF head
  <2>b. new = head \o back
    BY DEF head
  <2> HIDE DEF new
  <2>3. /\ new \in Seq(Tracks) /\ Len(new) = Len(q.ids) + 1
        /\ \A i \in 1 .. q.cursor : new[i] = q.ids[i]
    <3>1. /\ new \in Seq(Tracks) /\ Len(new) = Len(head) + Len(back)
          /\ \A i \in 1 .. Len(head) : new[i] = head[i]
      BY <2>2, <2>a, <2>b, Joined
    <3> QED
      BY <1>1, <2>2, <2>a, <3>1
  <2>4. r = AddedNext(q, t)
    <3>1. new = InsertAt(q.ids, q.cursor + 1, t)
      <4>1. PICK i : i = q.cursor + 1
        OBVIOUS
      <4>2. i - 1 = q.cursor
        BY <1>1, <4>1
      <4>3. InsertAt(q.ids, i, t)
              = SubSeq(q.ids, 1, i - 1) \o <<t>> \o SubSeq(q.ids, i, Len(q.ids))
        BY Inserted
      <4>4. SubSeq(q.ids, 1, i - 1) = front /\ SubSeq(q.ids, i, Len(q.ids)) = back
        BY <4>1, <4>2 DEF front, back
      <4>5. InsertAt(q.ids, q.cursor + 1, t) = InsertAt(q.ids, i, t)
        BY <4>1
      <4>6. InsertAt(q.ids, i, t) = front \o <<t>> \o back
        BY <4>3, <4>4
      <4> QED
        BY <4>5, <4>6 DEF new
    <3>2. ~(Len(q.ids) >= Limit)
      BY <1>1, <1>3
    <3> QED
      BY <3>1, <3>2 DEF AddedNext
  <2>5. QueueOK(r) /\ r.ids = new /\ r.cursor = q.cursor
    BY <1>1, <1>3, <2>3 DEF QueueOK, Queues
  <2> HIDE DEF r
  <2>6. Current(r) = Current(q)
    BY <1>1, <2>3, <2>5 DEF Current
  <2> QED
    BY <2>4, <2>5, <2>6 DEF SameCurrent
<1> QED
  BY <1>1, <1>2, <1>3

LEMMA RemovedOK ==
  ASSUME NEW q, QueueOK(q), NEW i \in DOMAIN q.ids
  PROVE  QueueOK(Removed(q, i)) /\ (i # q.cursor => Current(Removed(q, i)) = Current(q))
<1> DEFINE front == SubSeq(q.ids, 1, i - 1)
           back == SubSeq(q.ids, i + 1, Len(q.ids))
           new == front \o back
           c == CursorWithout(q, i)
           r == [q EXCEPT !.ids = new, !.cursor = c]
<1>1. /\ q.ids \in Seq(Tracks) /\ Len(q.ids) \in Nat /\ q.cursor \in 0 .. Len(q.ids)
      /\ Len(q.ids) <= Limit /\ Limit \in Nat /\ i \in 1 .. Len(q.ids)
  BY QueueParts
<1>2. front \in Seq(Tracks) /\ Len(front) = i - 1 /\ \A j \in 1 .. i - 1 : front[j] = q.ids[j]
  BY <1>1
<1>3. /\ back \in Seq(Tracks) /\ Len(back) = Len(q.ids) - i
      /\ \A j \in 1 .. Len(q.ids) - i : back[j] = q.ids[i + j]
  BY <1>1
<1> HIDE DEF front, back
<1>4. /\ new \in Seq(Tracks) /\ Len(new) = Len(q.ids) - 1
      /\ \A j \in 1 .. i - 1 : new[j] = q.ids[j]
      /\ \A j \in 1 .. Len(q.ids) : j >= i /\ j < Len(q.ids) => new[j] = q.ids[j + 1]
  <2>1. /\ new \in Seq(Tracks) /\ Len(new) = Len(q.ids) - 1
        /\ \A j \in 1 .. i - 1 : new[j] = q.ids[j]
    <3>1. /\ new \in Seq(Tracks) /\ Len(new) = Len(front) + Len(back)
          /\ \A j \in 1 .. Len(front) : new[j] = front[j]
      <4>1. front \in Seq(Tracks) /\ back \in Seq(Tracks)
        BY <1>2, <1>3
      <4> QED
        BY <4>1, Joined
    <3> HIDE DEF new
    <3>2. Len(front) = i - 1 /\ Len(back) = Len(q.ids) - i
      BY <1>2, <1>3
    <3>3. Len(front) + Len(back) = Len(q.ids) - 1
      BY <1>1, <3>2
    <3>4. \A j \in 1 .. i - 1 : new[j] = q.ids[j]
      BY <1>2, <3>1, <3>2
    <3> QED
      BY <3>1, <3>3, <3>4
  <2>2. ASSUME NEW j \in 1 .. Len(q.ids), j >= i, j < Len(q.ids)
        PROVE  new[j] = q.ids[j + 1]
    <3> DEFINE k == j - i + 1
    <3>1. k \in 1 .. Len(q.ids) - i /\ j = (i - 1) + k /\ i + k = j + 1
      BY <1>1, <2>2
    <3> HIDE DEF k
    <3>2. new[Len(front) + k] = back[k]
      <4>1. front \in Seq(Tracks) /\ back \in Seq(Tracks) /\ k \in 1 .. Len(back)
        BY <1>2, <1>3, <3>1
      <4> QED
        BY <4>1, Joined
    <3> QED
      BY <1>2, <1>3, <3>1, <3>2
  <2> QED
    BY <2>1, <2>2
<1> HIDE DEF new
<1>5. c \in Nat /\ c <= Len(new)
  BY <1>1, <1>4 DEF CursorWithout
<1>6. i # q.cursor /\ q.cursor # 0 => c # 0 /\ new[c] = q.ids[q.cursor]
  <2> SUFFICES ASSUME i # q.cursor, q.cursor # 0
               PROVE  c # 0 /\ new[c] = q.ids[q.cursor]
    OBVIOUS
  <2>1. CASE i < q.cursor
    <3>1. c = q.cursor - 1
      BY <2>1 DEF CursorWithout
    <3> HIDE DEF c
    <3>2. /\ q.cursor - 1 \in 1 .. Len(q.ids) /\ q.cursor - 1 >= i
          /\ q.cursor - 1 < Len(q.ids) /\ q.cursor - 1 + 1 = q.cursor
      BY <1>1, <2>1
    <3>3. new[q.cursor - 1] = q.ids[q.cursor - 1 + 1]
      BY <1>4, <3>2
    <3> QED
      BY <3>1, <3>2, <3>3
  <2>2. CASE q.cursor < i
    <3>1. c = q.cursor
      BY <1>1, <2>2 DEF CursorWithout
    <3> QED
      BY <1>1, <1>4, <2>2, <3>1
  <2> QED
    BY <1>1, <2>1, <2>2
<1>7. q.cursor = 0 => c = 0
  BY <1>1 DEF CursorWithout
<1> HIDE DEF c
<1>9. r = Removed(q, i) /\ r = [q EXCEPT !.ids = new, !.cursor = c]
  BY DEF Removed, RemoveAt, new, front, back, c
<1> HIDE DEF r
<1>a. new \in Seq(Tracks) /\ c \in Nat /\ Len(new) <= Limit /\ c <= Len(new)
  BY <1>1, <1>4, <1>5
<1>8. QueueOK(r) /\ r.ids = new /\ r.cursor = c
  BY <1>9, <1>a DEF QueueOK, Queues
<1>10. i # q.cursor => Current(r) = Current(q)
  BY <1>6, <1>7, <1>8 DEF Current
<1> QED
  BY <1>8, <1>9, <1>10

LEMMA ClearedOK ==
  ASSUME NEW q, QueueOK(q)
  PROVE  QueueOK(Cleared(q)) /\ Cleared(q).ids = <<>> /\ Cleared(q).cursor = 0
<1> DEFINE r == Cleared(q)
           e == <<>>
<1>1. e \in Seq(Tracks) /\ Len(e) = 0 /\ Limit \in Nat
  BY PlayerConstantsOK
<1>2. r = [q EXCEPT !.ids = e, !.cursor = 0]
  BY DEF Cleared
<1> HIDE DEF r, e
<1>3. r \in Queues /\ r.ids = e /\ r.cursor = 0
  BY <1>1, <1>2 DEF QueueOK, Queues
<1>4. QueueOK(r)
  BY <1>1, <1>3 DEF QueueOK
<1> QED
  BY <1>3, <1>4 DEF r, e

LEMMA ShuffledOK ==
  ASSUME NEW q, QueueOK(q), NEW r \in Shuffled(q)
  PROVE  SameCurrent(q, r)
<1>1. /\ q.ids \in Seq(Tracks) /\ Len(q.ids) \in Nat /\ q.cursor \in 0 .. Len(q.ids)
      /\ Len(q.ids) <= Limit /\ Limit \in Nat /\ DOMAIN q.ids = 1 .. Len(q.ids)
  BY QueueParts
<1> DEFINE tail == {i \in DOMAIN q.ids : i > q.cursor}
<1>2. PICK f \in Bijection(tail, tail) :
        r = [q EXCEPT !.shuffle = TRUE,
               !.ids = [i \in DOMAIN q.ids |-> IF i \in tail THEN q.ids[f[i]] ELSE q.ids[i]]]
  BY DEF Shuffled
<1>3. f \in [tail -> tail]
  BY DEF Bijection, Injection
<1> DEFINE new == [i \in DOMAIN q.ids |-> IF i \in tail THEN q.ids[f[i]] ELSE q.ids[i]]
<1>4. /\ new \in Seq(Tracks) /\ Len(new) = Len(q.ids)
      /\ \A i \in 1 .. Len(q.ids) : i <= q.cursor => new[i] = q.ids[i]
  <2>1. \A i \in DOMAIN q.ids : new[i] \in Tracks
    BY <1>1, <1>3
  <2>2. \A i \in 1 .. Len(q.ids) : i <= q.cursor => new[i] = q.ids[i]
    BY <1>1
  <2>3. DOMAIN new = 1 .. Len(q.ids) /\ new = [i \in 1 .. Len(q.ids) |-> new[i]]
    BY <1>1
  <2> HIDE DEF new
  <2>4. new \in [1 .. Len(q.ids) -> Tracks]
    BY <1>1, <2>1, <2>3
  <2>5. new \in Seq(Tracks)
    BY <1>1, <2>4
  <2>6. Len(new) = Len(q.ids)
    BY <1>1, <2>3, <2>5
  <2> QED
    BY <2>2, <2>5, <2>6
<1>5. r = [q EXCEPT !.shuffle = TRUE, !.ids = new]
  BY <1>2
<1> HIDE DEF new
<1>6. QueueOK(r) /\ r.ids = new /\ r.cursor = q.cursor
  BY <1>1, <1>4, <1>5 DEF QueueOK, Queues
<1>7. Current(r) = Current(q)
  BY <1>1, <1>4, <1>6 DEF Current
<1> QED
  BY <1>6, <1>7 DEF SameCurrent

LEMMA FlagsOK ==
  ASSUME NEW q, QueueOK(q), NEW b \in BOOLEAN
  PROVE  /\ SameCurrent(q, [q EXCEPT !.repeatOne = b])
         /\ SameCurrent(q, [q EXCEPT !.shuffle = b])
<1>1. QueueOK([q EXCEPT !.repeatOne = b]) /\ QueueOK([q EXCEPT !.shuffle = b])
  BY DEF QueueOK, Queues
<1>2. \A r : r.ids = q.ids /\ r.cursor = q.cursor => Current(r) = Current(q)
  BY DEF Current
<1> QED
  BY <1>1, <1>2 DEF SameCurrent, QueueOK, Queues

LEMMA AfterOK ==
  ASSUME NEW q, QueueOK(q), After(q) # 0
  PROVE  After(q) \in DOMAIN q.ids
<1>1. DOMAIN q.ids = 1 .. Len(q.ids) /\ Len(q.ids) \in Nat /\ q.cursor \in 0 .. Len(q.ids)
  BY QueueParts
<1> QED
  BY <1>1 DEF After

----------------------------------------------------------------------------
(* Types *)

TaskRecs == [type : {"loadstart", "loadeddata", "canplay", "playing", "waiting", "pause",
                     "error", "ended", "none"},
             settles : {"no", "resolved", "abort", "failed"}, save : BOOLEAN]
MicroRecs == [type : {"play", "resolved", "denied", "abort", "failed"}, save : BOOLEAN]
Engines == [track : Tracks \cup {NoTrack},
            state : {"idle", "loading", "buffering", "playing", "paused", "error"}]
Elements == [src : Tracks \cup {NoTrack},
             data : {"none", "loading", "ready", "stalled", "failed"},
             paused : BOOLEAN, ended : BOOLEAN, pending : BOOLEAN, save : BOOLEAN, on : BOOLEAN,
             broken : BOOLEAN]

\* What a task may settle.
TaskOK(e) ==
    /\ e.settles = "resolved" => e.type \in {"playing", "none"}
    /\ e.settles = "abort" => e.type = "pause"
    /\ e.settles = "failed" => e.type = "error"
    /\ e.type = "none" => e.settles = "resolved"

PlayerTypeOK ==
    /\ QueueOK(queue) /\ (QueueOK(saved) \/ saved = NoQueue)
    /\ engine \in Engines /\ audio \in Elements
    /\ tasks \in Seq(TaskRecs) /\ micro \in Seq(MicroRecs)
    /\ awaited \in BOOLEAN /\ strayed \in BOOLEAN

\* A play() of the engine comes after the reactions to what load() settled, and
\* there is more than one reaction only after a load().
PlayerOrder ==
    /\ \A i \in 1 .. Len(tasks) : TaskOK(tasks[i])
    /\ \A i \in 1 .. Len(micro) : micro[i].type = "play" => i = Len(micro)
    /\ audio.ended => audio.paused /\ audio.data = "ready"
    /\ Len(micro) > 1 => audio.data \in {"none", "loading"}

TasksOK(s) == s \in Seq(TaskRecs) /\ \A i \in 1 .. Len(s) : TaskOK(s[i])
\* Reactions to promises, of which there is one for each that settled.
Told(s) == s \in Seq(MicroRecs) /\ \A i \in 1 .. Len(s) : s[i].type # "play"

LEMMA ReactionsOK ==
  ASSUME NEW events \in Seq(TaskRecs)
  PROVE  /\ Told(Reactions(events))
         /\ Len(Reactions(events)) <= Len(events)
         /\ \A i \in 1 .. Len(events) : events[i].settles # "no" =>
              \E n \in 1 .. Len(Reactions(events)) : Reactions(events)[n] = Reaction(events[i])
         /\ \A n \in 1 .. Len(Reactions(events)) : \E i \in 1 .. Len(events) :
              events[i].settles # "no" /\ Reactions(events)[n] = Reaction(events[i])
<1> DEFINE places == {i \in DOMAIN events : events[i].settles # "no"}
           nth(n) == CHOOSE i \in places : Cardinality(places \cap (1 .. i)) = n
           c == Cardinality(places)
           r == Reactions(events)
<1>1. DOMAIN events = 1 .. Len(events) /\ Len(events) \in Nat /\ places \in SUBSET (1 .. Len(events))
  OBVIOUS
<1>2. /\ c \in Nat
      /\ \A n \in 1 .. c : \E i \in places : Cardinality(places \cap (1 .. i)) = n
      /\ \A i \in places : Cardinality(places \cap (1 .. i)) \in 1 .. c
      /\ \A i, j \in places :
           Cardinality(places \cap (1 .. i)) = Cardinality(places \cap (1 .. j)) => i = j
  <2> HIDE DEF places
  <2> QED
    BY <1>1, PlacesInOrder
<1>3. r = [n \in 1 .. c |-> Reaction(events[nth(n)])]
  BY DEF Reactions
<1>4. c <= Len(events)
  <2>1. IsFiniteSet(1 .. Len(events)) /\ Cardinality(1 .. Len(events)) = Len(events)
    BY <1>1, FS_Interval
  <2> HIDE DEF places
  <2>2. Cardinality(places) <= Cardinality(1 .. Len(events))
    BY <1>1, <2>1, FS_Subset
  <2> QED
    BY <2>1, <2>2
<1>5. \A n \in 1 .. c : nth(n) \in places
  <2> HIDE DEF places
  <2> QED
    BY <1>2
<1>6. \A i \in places : nth(Cardinality(places \cap (1 .. i))) = i
  <2> HIDE DEF places
  <2> QED
    BY <1>2
<1>7. \A i \in places : i \in 1 .. Len(events) /\ events[i].settles # "no" /\ events[i] \in TaskRecs
  OBVIOUS
<1> HIDE DEF r, nth
<1>8. \A i \in places : Reaction(events[i]) \in MicroRecs /\ Reaction(events[i]).type # "play"
  BY <1>7 DEF Reaction, TaskRecs, MicroRecs
<1>9. \A n \in 1 .. c : r[n] = Reaction(events[nth(n)]) /\ r[n] \in MicroRecs /\ r[n].type # "play"
  BY <1>3, <1>5, <1>8
<1>a. r \in Seq(MicroRecs) /\ Len(r) = c
  <2>1. r = [n \in 1 .. c |-> r[n]]
    BY <1>3
  <2>2. r \in [1 .. c -> MicroRecs]
    BY <1>9, <2>1
  <2>3. r \in Seq(MicroRecs)
    BY <1>2, <2>2
  <2> QED
    BY <1>2, <2>1, <2>3
<1>b. ASSUME NEW i \in 1 .. Len(events), events[i].settles # "no"
      PROVE  \E n \in 1 .. c : r[n] = Reaction(events[i])
  <2>1. i \in places
    BY <1>1, <1>b
  <2> HIDE DEF places
  <2> QED
    BY <1>2, <1>6, <1>9, <2>1
<1>c. ASSUME NEW n \in 1 .. c
      PROVE  \E i \in 1 .. Len(events) : events[i].settles # "no" /\ r[n] = Reaction(events[i])
  <2> HIDE DEF places
  <2> QED
    BY <1>5, <1>7, <1>9
<1> HIDE DEF c, places
<1>d. /\ Told(r) /\ Len(r) <= Len(events)
      /\ \A i \in 1 .. Len(events) : events[i].settles # "no" =>
           \E n \in 1 .. Len(r) : r[n] = Reaction(events[i])
      /\ \A n \in 1 .. Len(r) : \E i \in 1 .. Len(events) :
           events[i].settles # "no" /\ r[n] = Reaction(events[i])
  BY <1>4, <1>9, <1>a, <1>b, <1>c DEF Told
<1> QED
  BY <1>d DEF r

\* A save that a task or the pending promise carries is among the reactions of load().
SaveDue ==
    \/ audio.pending /\ audio.save
    \/ \E i \in 1 .. Len(tasks) : tasks[i].settles # "no" /\ tasks[i].save

LEMMA InterruptedOK ==
  ASSUME PlayerTypeOK
  PROVE  /\ Told(Interrupted)
         /\ SaveDue => \E n \in 1 .. Len(Interrupted) : Interrupted[n].save
<1> DEFINE r == Reactions(tasks)
           x == [type |-> "abort", save |-> audio.save]
           p == IF audio.pending THEN <<x>> ELSE <<>>
<1>1. tasks \in Seq(TaskRecs) /\ audio.save \in BOOLEAN
  BY DEF PlayerTypeOK, Elements
<1>2. /\ Told(r)
      /\ \A i \in 1 .. Len(tasks) : tasks[i].settles # "no" =>
           \E n \in 1 .. Len(r) : r[n] = Reaction(tasks[i])
  BY <1>1, ReactionsOK
<1>3. x \in MicroRecs /\ x.type # "play" /\ x.save = audio.save
  BY <1>1 DEF MicroRecs
<1> HIDE DEF r, x
<1>4. /\ p \in Seq(MicroRecs) /\ Len(p) \in Nat /\ \A i \in 1 .. Len(p) : p[i].type # "play"
      /\ audio.pending => Len(p) = 1 /\ p[1] = x
  BY <1>3
<1>5. Interrupted = r \o p
  BY DEF Interrupted, r, x
<1> HIDE DEF p
<1>6. /\ r \o p \in Seq(MicroRecs) /\ Len(r \o p) = Len(r) + Len(p)
      /\ Len(r) \in Nat
      /\ \A i \in 1 .. Len(r) : (r \o p)[i] = r[i]
      /\ \A i \in 1 .. Len(p) : (r \o p)[Len(r) + i] = p[i]
  <2>1. r \in Seq(MicroRecs) /\ p \in Seq(MicroRecs)
    BY <1>2, <1>4 DEF Told
  <2> QED
    BY <2>1, Joined
<1> DEFINE all == r \o p
<1>e. /\ Len(all) = Len(r) + Len(p)
      /\ \A i \in 1 .. Len(p) : all[Len(r) + i] = p[i]
  BY <1>6
<1> HIDE DEF all
<1>7. ASSUME NEW i \in 1 .. Len(all) PROVE all[i].type # "play"
  <2>1. CASE i <= Len(r)
    BY <1>2, <1>6, <2>1 DEF all, Told
  <2>2. CASE i > Len(r)
    <3>1. i - Len(r) \in 1 .. Len(p) /\ i = Len(r) + (i - Len(r))
      BY <1>4, <1>6, <2>2 DEF all
    <3>2. all[Len(r) + (i - Len(r))] = p[i - Len(r)]
      BY <1>6, <3>1 DEF all
    <3> QED
      BY <1>4, <3>1, <3>2
  <2> QED
    BY <1>6, <2>1, <2>2 DEF all
<1>8. ASSUME audio.pending, audio.save PROVE \E n \in 1 .. Len(all) : all[n].save
  <2>c. Len(p) = 1 /\ p[1] = x
    BY <1>4, <1>8, Zenon
  <2>a. Len(p) = 1 /\ p[1] = x /\ 1 \in 1 .. Len(p)
    BY <2>c
  <2>b. all[Len(r) + 1] = p[1] /\ Len(all) = Len(r) + Len(p)
    BY <1>e, <2>a
  <2>1. Len(r) + 1 \in 1 .. Len(all) /\ all[Len(r) + 1] = x
    BY <1>6, <2>a, <2>b
  <2> QED
    BY <1>3, <1>8, <2>1
<1>9. ASSUME NEW i \in 1 .. Len(tasks), tasks[i].settles # "no", tasks[i].save
      PROVE  \E n \in 1 .. Len(all) : all[n].save
  <2>1. PICK n \in 1 .. Len(r) : r[n] = Reaction(tasks[i])
    BY <1>2, <1>9
  <2>2. n \in 1 .. Len(all) /\ all[n] = Reaction(tasks[i])
    BY <1>4, <1>6, <2>1 DEF all
  <2>3. all[n].save = tasks[i].save
    BY <2>2 DEF Reaction
  <2> QED
    BY <1>9, <2>2, <2>3
<1>10. all \in Seq(MicroRecs)
  BY <1>6 DEF all
<1> QED
  BY <1>5, <1>7, <1>8, <1>9, <1>10 DEF SaveDue, Told, all

----------------------------------------------------------------------------
(* The player: the parts of the invariant *)

\* Without an element the engine has a track only from an album that arrived after
\* the user had signed out.
Off ==
    ~audio.on =>
        /\ audio = NoAudio /\ tasks = <<>>
        /\ engine.track = NoTrack
           \/ (~awaited /\ ~strayed /\ (micro = ThenPlay \/ (micro = <<>> /\ saved = queue)))

\* The queue is saved, or a save is on its way.
SavedNow == saved = queue \/ (saved = NoQueue /\ queue.ids = <<>>)
Saves == SavedNow \/ SaveDue \/ \E i \in 1 .. Len(micro) : micro[i].save

Available(t) == t \in Tracks \ Unavailable

\* The element has the engine's track, if there is one to be had.
Src ==
    audio.on =>
        IF Available(engine.track)
        THEN audio.src = engine.track /\ audio.data # "none"
        ELSE audio = Source(NoTrack) /\ tasks = <<>>

\* An engine without a track to be had does not play, or is about to be refused.
Muted ==
    audio.on /\ engine.track \in Unavailable =>
        \/ micro # <<>> /\ micro[Len(micro)].type = "play"
        \/ micro = <<>> /\ engine.state # "playing"

Sounding == audio.data = "ready" /\ ~audio.paused
Working == Sounding /\ ~audio.broken

\* A task that makes the engine play, and one that makes it stop, if it is delivered
\* with the element as it is in e.
Yes(t, e) == t.type = "playing" \/ t.settles = "resolved" \/ (t.type = "canplay" /\ ~e.paused)
No(t, e) == t.type \in {"loadstart", "waiting", "error", "ended"} \/ (t.type = "pause" /\ ~e.ended)

AnyNo(s, e) == \E i \in 1 .. Len(s) : No(s[i], e)
\* The last of them says yes.
LastYes(s, e) ==
    \E i \in 1 .. Len(s) : Yes(s[i], e) /\ \A j \in 1 .. Len(s) : j > i => ~No(s[j], e)
\* Each that says yes is followed by one that says no.
AllHushed(s, e) ==
    \A i \in 1 .. Len(s) : Yes(s[i], e) => \E j \in 1 .. Len(s) : j > i /\ No(s[j], e)

\* What sounds is told to the engine, or the engine knows, unless it broke.
SoundTold ==
    Working =>
        \/ LastYes(tasks, audio)
        \/ /\ ~AnyNo(tasks, audio)
           /\ \/ micro = <<>> /\ engine.state = "playing"
              \/ Len(micro) = 1 /\ micro[1].type = "resolved"

\* So is what does not.
SilenceTold ==
    audio.on /\ Available(engine.track) /\ ~Sounding =>
        /\ AllHushed(tasks, audio)
        /\ engine.state = "playing" \/ (\E i \in 1 .. Len(micro) : micro[i].type = "resolved") =>
             AnyNo(tasks, audio)

PlayerInv == /\ PlayerTypeOK /\ PlayerOrder /\ CursorNamesTrack /\ Off /\ Saves /\ Src /\ Muted /\ SoundTold /\ SilenceTold

----------------------------------------------------------------------------
(* Tasks that are added and delivered *)

LEMMA AddedOne ==
  ASSUME NEW s, NEW S, s \in Seq(S), NEW x \in S
  PROVE  s \o <<x>> = Append(s, x)
  OBVIOUS

LEMMA AddedTwo ==
  ASSUME NEW S, NEW s \in Seq(S), NEW x \in S, NEW y \in S
  PROVE  s \o <<x, y>> = Append(Append(s, x), y)
  OBVIOUS

LEMMA AddedThree ==
  ASSUME NEW S, NEW s \in Seq(S), NEW x \in S, NEW y \in S, NEW z \in S
  PROVE  s \o (<<x, y>> \o <<z>>) = Append(Append(Append(s, x), y), z)
  OBVIOUS

LEMMA AddedNone ==
  ASSUME NEW S, NEW s \in Seq(S)
  PROVE  s \o <<>> = s /\ <<>> \o s = s
  OBVIOUS

LEMMA OneMoreSays ==
  ASSUME NEW s \in Seq(TaskRecs), NEW t \in TaskRecs, NEW e
  PROVE  /\ Yes(t, e) => LastYes(Append(s, t), e)
         /\ ~No(t, e) /\ LastYes(s, e) => LastYes(Append(s, t), e)
         /\ No(t, e) => AnyNo(Append(s, t), e)
         /\ AnyNo(s, e) => AnyNo(Append(s, t), e)
         /\ No(t, e) /\ ~Yes(t, e) => AllHushed(Append(s, t), e)
         /\ ~Yes(t, e) /\ AllHushed(s, e) => AllHushed(Append(s, t), e)
<1> DEFINE r == Append(s, t)
           y(i) == Yes(r[i], e)
           n(i) == No(r[i], e)
<1>1. /\ Len(r) = Len(s) + 1 /\ Len(s) \in Nat /\ r[Len(s) + 1] = t
      /\ \A i \in 1 .. Len(s) : r[i] = s[i]
  BY OneMoreTask
<1> HIDE DEF r
<1>2. /\ Len(s) + 1 \in 1 .. Len(r)
      /\ \A i \in 1 .. Len(s) : i \in 1 .. Len(r) /\ Len(s) + 1 > i
      /\ \A i \in 1 .. Len(r) : i \in 1 .. Len(s) \/ i = Len(s) + 1
      /\ \A i \in 1 .. Len(r) : ~(i > Len(s) + 1)
  BY <1>1
<1>3. /\ Yes(r[Len(s) + 1], e) = Yes(t, e) /\ No(r[Len(s) + 1], e) = No(t, e)
      /\ \A i \in 1 .. Len(s) : Yes(r[i], e) = Yes(s[i], e) /\ No(r[i], e) = No(s[i], e)
  BY <1>1
<1>4. Yes(t, e) => LastYes(r, e)
  BY <1>2, <1>3 DEF LastYes
<1>5. ~No(t, e) /\ LastYes(s, e) => LastYes(r, e)
  BY <1>2, <1>3 DEF LastYes
<1>6. (No(t, e) => AnyNo(r, e)) /\ (AnyNo(s, e) => AnyNo(r, e))
  BY <1>2, <1>3 DEF AnyNo
<1>7. No(t, e) /\ ~Yes(t, e) => AllHushed(r, e)
  BY <1>2, <1>3 DEF AllHushed
<1>8. ~Yes(t, e) /\ AllHushed(s, e) => AllHushed(r, e)
  BY <1>2, <1>3 DEF AllHushed
<1> QED
  BY <1>4, <1>5, <1>6, <1>7, <1>8 DEF r

LEMMA OneLessSays ==
  ASSUME NEW s \in Seq(TaskRecs), s # <<>>, NEW e
  PROVE  /\ LastYes(s, e) => LastYes(Tail(s), e) \/ (Yes(Head(s), e) /\ ~AnyNo(Tail(s), e))
         /\ ~AnyNo(s, e) => ~No(Head(s), e) /\ ~AnyNo(Tail(s), e)
         /\ AllHushed(s, e) => AllHushed(Tail(s), e) /\ (Yes(Head(s), e) => AnyNo(Tail(s), e))
         /\ AnyNo(s, e) /\ ~No(Head(s), e) => AnyNo(Tail(s), e)
<1> DEFINE r == Tail(s)
<1>1. /\ Len(s) \in Nat \ {0} /\ Len(r) = Len(s) - 1 /\ s[1] = Head(s)
      /\ \A i \in 1 .. Len(s) - 1 : r[i] = s[i + 1]
  BY HeadAndTail
<1> HIDE DEF r
<1>2. /\ 1 \in 1 .. Len(s) /\ 1 .. Len(r) = 1 .. Len(s) - 1
      /\ \A i \in 1 .. Len(r) : i + 1 \in 1 .. Len(s) /\ i + 1 > 1
      /\ \A i, j \in 1 .. Len(r) : j + 1 > i + 1 <=> j > i
      /\ \A i \in 1 .. Len(s) : i = 1 \/ \E j \in 1 .. Len(r) : i = j + 1
  <2>1. \A i \in 1 .. Len(s) : i = 1 \/ (i - 1 \in 1 .. Len(r) /\ i = (i - 1) + 1)
    BY <1>1
  <2>2. /\ 1 \in 1 .. Len(s) /\ 1 .. Len(r) = 1 .. Len(s) - 1
        /\ \A i \in 1 .. Len(r) : i + 1 \in 1 .. Len(s) /\ i + 1 > 1
        /\ \A i, j \in 1 .. Len(r) : j + 1 > i + 1 <=> j > i
    BY <1>1
  <2> QED
    BY <2>1, <2>2
<1>3. /\ Yes(s[1], e) = Yes(Head(s), e) /\ No(s[1], e) = No(Head(s), e)
      /\ \A i \in 1 .. Len(r) : Yes(r[i], e) = Yes(s[i + 1], e) /\ No(r[i], e) = No(s[i + 1], e)
  BY <1>1, <1>2
<1>4. ASSUME LastYes(s, e) PROVE LastYes(r, e) \/ (Yes(Head(s), e) /\ ~AnyNo(r, e))
  <2>1. PICK i \in 1 .. Len(s) : Yes(s[i], e) /\ \A j \in 1 .. Len(s) : j > i => ~No(s[j], e)
    BY <1>4 DEF LastYes
  <2>2. CASE i = 1
    <3>1. \A j \in 1 .. Len(r) : ~No(r[j], e)
      BY <1>2, <1>3, <2>1, <2>2
    <3> QED
      BY <1>3, <2>1, <2>2, <3>1 DEF AnyNo
  <2>3. CASE i # 1
    <3>1. PICK k \in 1 .. Len(r) : i = k + 1
      BY <1>2, <2>3
    <3>2. Yes(r[k], e)
      BY <1>3, <2>1, <3>1
    <3>3. ASSUME NEW j \in 1 .. Len(r), j > k PROVE ~No(r[j], e)
      <4>1. j + 1 \in 1 .. Len(s) /\ j + 1 > i
        BY <1>2, <3>1, <3>3
      <4>2. ~No(s[j + 1], e)
        BY <2>1, <4>1
      <4> QED
        BY <1>3, <4>2
    <3> QED
      BY <3>2, <3>3 DEF LastYes
  <2> QED
    BY <2>2, <2>3
<1>5. ~AnyNo(s, e) => ~No(Head(s), e) /\ ~AnyNo(r, e)
  BY <1>2, <1>3 DEF AnyNo
<1>6. ASSUME AllHushed(s, e) PROVE AllHushed(r, e) /\ (Yes(Head(s), e) => AnyNo(r, e))
  <2>1. ASSUME NEW i \in 1 .. Len(r), Yes(r[i], e)
        PROVE  \E j \in 1 .. Len(r) : j > i /\ No(r[j], e)
    <3>1. i + 1 \in 1 .. Len(s) /\ Yes(s[i + 1], e)
      BY <1>2, <1>3, <2>1
    <3>2. PICK k \in 1 .. Len(s) : k > i + 1 /\ No(s[k], e)
      BY <1>6, <3>1 DEF AllHushed
    <3>3. k # 1
      BY <1>2, <3>2
    <3>4. PICK j \in 1 .. Len(r) : k = j + 1
      BY <1>2, <3>3
    <3>5. j > i /\ No(r[j], e)
      BY <1>2, <1>3, <3>2, <3>4
    <3> QED
      BY <3>5
  <2>2. ASSUME Yes(Head(s), e) PROVE AnyNo(r, e)
    <3>1. PICK k \in 1 .. Len(s) : k > 1 /\ No(s[k], e)
      BY <1>2, <1>3, <1>6, <2>2 DEF AllHushed
    <3>2. PICK j \in 1 .. Len(r) : k = j + 1
      BY <1>2, <3>1
    <3> QED
      BY <1>3, <3>1, <3>2 DEF AnyNo
  <2> QED
    BY <2>1, <2>2 DEF AllHushed
<1>7. AnyNo(s, e) /\ ~No(Head(s), e) => AnyNo(r, e)
  <2> SUFFICES ASSUME AnyNo(s, e), ~No(Head(s), e) PROVE AnyNo(r, e)
    OBVIOUS
  <2>1. PICK k \in 1 .. Len(s) : No(s[k], e)
    BY DEF AnyNo
  <2>2. k # 1
    BY <1>3, <2>1
  <2>3. PICK j \in 1 .. Len(r) : k = j + 1
    BY <1>2, <2>2
  <2> QED
    BY <1>3, <2>1, <2>3 DEF AnyNo
<1> QED
  BY <1>4, <1>5, <1>6, <1>7 DEF r

----------------------------------------------------------------------------
(* What the operators of the element and the engine do *)

LEMMA SourceOK ==
  ASSUME NEW t \in Tracks \cup {NoTrack}
  PROVE  /\ Source(t) \in Elements /\ Source(t).src = t /\ Source(t).on
         /\ Source(t).data = (IF t = NoTrack THEN "none" ELSE "loading")
         /\ Source(t).paused /\ ~Source(t).ended /\ ~Source(t).pending /\ ~Source(t).save
<1> DEFINE d == IF t = NoTrack THEN "none" ELSE "loading"
<1>2. d \in {"none", "loading"}
  OBVIOUS
<1>3. d = IF t = NoTrack THEN "none" ELSE "loading"
  OBVIOUS
<1>0. Source(t) = [NoAudio EXCEPT !.src = t, !.on = TRUE, !.data = d]
  BY DEF Source
<1> HIDE DEF d
<1>1. Source(t) = [src |-> t, data |-> d, paused |-> TRUE,
                   ended |-> FALSE, pending |-> FALSE, save |-> FALSE, on |-> TRUE,
                   broken |-> FALSE]
  BY <1>0 DEF NoAudio
<1>4. /\ Source(t) \in Elements /\ Source(t).src = t /\ Source(t).on /\ Source(t).data = d
      /\ Source(t).paused /\ ~Source(t).ended /\ ~Source(t).pending /\ ~Source(t).save
  BY <1>1, <1>2 DEF Elements
<1> QED
  BY <1>3, <1>4

LEMMA EventOK ==
  ASSUME NEW type \in {"loadstart", "loadeddata", "canplay", "playing", "waiting", "pause",
                       "error", "ended"}
  PROVE  /\ Event(type) \in TaskRecs /\ TaskOK(Event(type))
         /\ Event(type).type = type /\ Event(type).settles = "no"
  BY DEF Event, TaskRecs, TaskOK

LEMMA SettlingOK ==
  ASSUME PlayerTypeOK, NEW type, NEW outcome,
         <<type, outcome>> \in {<<"playing", "resolved">>, <<"pause", "abort">>, <<"error", "failed">>}
  PROVE  /\ Settling(type, outcome) \in TaskRecs /\ TaskOK(Settling(type, outcome))
         /\ Settling(type, outcome).type = type
         /\ Settling(type, outcome).settles # "no" <=> audio.pending
         /\ audio.pending => Settling(type, outcome).save = audio.save
<1>1. audio.save \in BOOLEAN /\ audio.pending \in BOOLEAN
  BY DEF PlayerTypeOK, Elements
<1>4. type \in {"playing", "pause", "error"} /\ outcome # "no"
  OBVIOUS
<1>2. CASE audio.pending
  <2>1. Settling(type, outcome) = [type |-> type, settles |-> outcome, save |-> audio.save]
    BY <1>2 DEF Settling
  <2> QED
    BY <1>1, <1>2, <2>1 DEF TaskRecs, TaskOK
<1>3. CASE ~audio.pending
  <2>1. Settling(type, outcome) = [type |-> type, settles |-> "no", save |-> FALSE]
    BY <1>3 DEF Settling, Event
  <2> DEFINE x == [type |-> type, settles |-> "no", save |-> FALSE]
  <2>2. x \in TaskRecs /\ x.type = type /\ x.settles = "no" /\ type # "none"
    BY <1>4 DEF TaskRecs
  <2> HIDE DEF x
  <2>3. TaskOK(x)
    BY <2>2 DEF TaskOK
  <2> QED
    BY <1>3, <2>1, <2>2, <2>3 DEF x
<1> QED
  BY <1>2, <1>3

LEMMA OneTask ==
  ASSUME NEW t \in TaskRecs, TaskOK(t)
  PROVE  TasksOK(<<t>>) /\ Len(<<t>>) = 1 /\ <<t>>[1] = t
  BY JustOne DEF TasksOK

LEMMA MoreTasksOK ==
  ASSUME NEW s, NEW t \in TaskRecs, TasksOK(s), TaskOK(t)
  PROVE  TasksOK(Append(s, t))
<1>1. s \in Seq(TaskRecs)
  BY DEF TasksOK
<1>2. /\ Append(s, t) \in Seq(TaskRecs) /\ Len(Append(s, t)) = Len(s) + 1 /\ Len(s) \in Nat
      /\ \A i \in 1 .. Len(s) : Append(s, t)[i] = s[i]
      /\ Append(s, t)[Len(s) + 1] = t
  BY <1>1, OneMoreTask
<1>3. \A i \in 1 .. Len(s) + 1 : i \in 1 .. Len(s) \/ i = Len(s) + 1
  BY <1>2
<1> DEFINE r == Append(s, t)
<1> HIDE DEF r
<1>4. \A i \in 1 .. Len(r) : TaskOK(r[i])
  BY <1>2, <1>3 DEF r, TasksOK
<1> QED
  BY <1>2, <1>4 DEF r, TasksOK

LEMMA FewerTasksOK ==
  ASSUME NEW s, s # <<>>, TasksOK(s)
  PROVE  TasksOK(Tail(s)) /\ Head(s) \in TaskRecs /\ TaskOK(Head(s))
<1>1. s \in Seq(TaskRecs)
  BY DEF TasksOK
<1>2. /\ Head(s) \in TaskRecs /\ Head(s) = s[1] /\ Tail(s) \in Seq(TaskRecs)
      /\ Len(s) \in Nat \ {0} /\ Len(Tail(s)) = Len(s) - 1
      /\ \A i \in 1 .. Len(s) - 1 : Tail(s)[i] = s[i + 1]
  BY <1>1, HeadAndTail
<1>3. 1 \in 1 .. Len(s) /\ \A i \in 1 .. Len(s) - 1 : i + 1 \in 1 .. Len(s)
  BY <1>2
<1> DEFINE r == Tail(s)
<1> HIDE DEF r
<1>4. \A i \in 1 .. Len(r) : TaskOK(r[i])
  BY <1>2, <1>3 DEF r, TasksOK
<1> QED
  BY <1>2, <1>3, <1>4 DEF r, TasksOK

\* What load makes of the state, with a play() to follow.
LoadDone(t) ==
    /\ engine' \in Engines /\ engine'.track = t /\ engine'.state # "playing"
    /\ micro' \in Seq(MicroRecs) /\ Len(micro') \in Nat \ {0}
    /\ \A i \in 1 .. Len(micro') : micro'[i].type = "play" <=> i = Len(micro')
    /\ micro'[Len(micro')].save
    /\ \/ ~audio.on /\ UNCHANGED <<audio, tasks>> /\ micro' = ThenPlay
       \/ audio.on /\ Available(t) /\ audio' = Source(t) /\ tasks' = <<Event("loadstart")>>
       \/ audio.on /\ ~Available(t) /\ audio' = Source(NoTrack) /\ tasks' = <<>>

LEMMA ThenPlayOK ==
  /\ ThenPlay \in Seq(MicroRecs) /\ Len(ThenPlay) = 1 /\ ThenPlay # <<>>
  /\ ThenPlay[1].type = "play" /\ ThenPlay[1].save
<1> DEFINE x == [type |-> "play", save |-> TRUE]
<1>1. x \in MicroRecs /\ x.type = "play" /\ x.save
  BY DEF MicroRecs
<1> HIDE DEF x
<1>2. ThenPlay = <<x>>
  BY DEF ThenPlay, x
<1> QED
  BY <1>1, <1>2, JustOne

LEMMA LoadOK ==
  ASSUME PlayerTypeOK, NEW t \in Tracks, Load(t, ThenPlay)
  PROVE  LoadDone(t)
<1>1. Told(Interrupted)
  BY InterruptedOK
<1> DEFINE m == Interrupted
<1>2. /\ m \o ThenPlay \in Seq(MicroRecs) /\ Len(m \o ThenPlay) = Len(m) + Len(ThenPlay)
      /\ Len(m) \in Nat
      /\ \A i \in 1 .. Len(m) : (m \o ThenPlay)[i] = m[i]
      /\ \A i \in 1 .. Len(ThenPlay) : (m \o ThenPlay)[Len(m) + i] = ThenPlay[i]
  <2>1. m \in Seq(MicroRecs) /\ ThenPlay \in Seq(MicroRecs)
    BY <1>1, ThenPlayOK DEF Told
  <2> HIDE DEF m
  <2> QED
    BY <2>1, Joined
<1> DEFINE n == m \o ThenPlay
<1>3. /\ n \in Seq(MicroRecs) /\ Len(n) = Len(m) + 1 /\ Len(n) \in Nat \ {0}
      /\ \A i \in 1 .. Len(m) : n[i] = m[i]
      /\ n[Len(m) + 1] = ThenPlay[1]
  <2>1. 1 \in 1 .. Len(ThenPlay)
    BY ThenPlayOK
  <2>2. n[Len(m) + 1] = ThenPlay[1]
    BY <1>2, <2>1
  <2> HIDE DEF m
  <2> QED
    BY <1>2, <2>2, ThenPlayOK
<1> HIDE DEF n
<1>4. /\ \A i \in 1 .. Len(n) : n[i].type = "play" <=> i = Len(n)
      /\ n[Len(n)].save
  <2>1. \A i \in 1 .. Len(n) : i \in 1 .. Len(m) \/ i = Len(m) + 1
    BY <1>2, <1>3
  <2>2. \A i \in 1 .. Len(m) : m[i].type # "play" /\ i # Len(m) + 1
    BY <1>1, <1>2 DEF Told
  <2> QED
    BY <1>3, <2>1, <2>2, ThenPlayOK
<1>5. PICK state \in {"error", "loading"} :
        /\ engine' = [track |-> t, state |-> state]
        /\ \/ ~audio.on /\ UNCHANGED <<audio, tasks>> /\ micro' = ThenPlay
           \/ /\ audio.on /\ Available(t) /\ audio' = Source(t) /\ tasks' = <<Event("loadstart")>>
              /\ micro' = n
           \/ /\ audio.on /\ ~Available(t) /\ audio' = Source(NoTrack) /\ tasks' = <<>>
              /\ micro' = n
  BY DEF Load, Available, n
<1>6. engine' \in Engines /\ engine'.track = t /\ engine'.state # "playing"
  BY <1>5 DEF Engines
<1>7. /\ micro' \in Seq(MicroRecs) /\ Len(micro') \in Nat \ {0}
      /\ \A i \in 1 .. Len(micro') : micro'[i].type = "play" <=> i = Len(micro')
      /\ micro'[Len(micro')].save
  <2>1. CASE micro' = n
    BY <1>3, <1>4, <2>1
  <2>2. CASE micro' = ThenPlay
    BY <2>2, ThenPlayOK
  <2> QED
    BY <1>5, <2>1, <2>2
<1> QED
  BY <1>5, <1>6, <1>7 DEF LoadDone

\* The ways play() goes.
Playable == audio.on /\ Available(engine.track)
Refused(save) ==
    /\ ~Playable /\ engine' = [engine EXCEPT !.state = "error"] /\ micro' = <<>>
    /\ saved' = IF save THEN queue ELSE saved
    /\ UNCHANGED <<audio, tasks>>
Denied(save) ==
    /\ Playable /\ UNCHANGED <<engine, saved, audio, tasks>>
    /\ \E x \in MicroRecs : x.type \notin {"play", "resolved"} /\ x.save = save /\ micro' = <<x>>
Starts(save) ==
    /\ Playable /\ audio.data = "ready" /\ UNCHANGED <<engine, saved>> /\ micro' = <<>>
    /\ audio' = [audio EXCEPT !.paused = FALSE, !.ended = FALSE, !.pending = FALSE, !.save = FALSE]
    /\ \E x \in TaskRecs : /\ TaskOK(x) /\ x.settles = "resolved" /\ x.save = (audio.save \/ save)
                           /\ tasks' = Append(tasks, x)
Waits(save) ==
    /\ Playable /\ audio.data \notin {"ready", "failed"} /\ UNCHANGED <<engine, saved>>
    /\ micro' = <<>>
    /\ audio' = [audio EXCEPT !.paused = FALSE, !.pending = TRUE, !.save = audio.save \/ save]
    /\ tasks' = IF audio.paused /\ audio.src # NoTrack THEN Append(tasks, Event("waiting")) ELSE tasks

LEMMA PlayForms ==
  ASSUME PlayerTypeOK, NEW save \in BOOLEAN, Len(micro) <= 1, Play(save)
  PROVE  Refused(save) \/ Denied(save) \/ Starts(save) \/ Waits(save)
<1> DEFINE rest == IF micro = <<>> THEN <<>> ELSE Tail(micro)
<1>1. rest = <<>>
  <2>1. CASE micro # <<>>
    <3>1. micro \in Seq(MicroRecs)
      BY DEF PlayerTypeOK
    <3>2. Tail(micro) \in Seq(MicroRecs) /\ Len(micro) \in Nat \ {0} /\ Len(Tail(micro)) = Len(micro) - 1
      BY <2>1, <3>1, HeadAndTail
    <3>3. Len(Tail(micro)) = 0
      BY <3>2
    <3> QED
      BY <2>1, <3>2, <3>3
  <2> QED
    BY <2>1
<1>2. engine.track \in Tracks \cup {NoTrack} /\ audio.save \in BOOLEAN /\ audio \in Elements
  BY DEF PlayerTypeOK, Engines, Elements
<1>3. Playable <=> ~(~audio.on \/ engine.track \in Unavailable \cup {NoTrack})
  BY <1>2, PlayerConstantsOK DEF Playable, Available
<1> HIDE DEF rest
<1>4. CASE ~Playable
  BY <1>1, <1>3, <1>4 DEF Play, Refused, rest
<1>5. CASE Playable
  <2> DEFINE x(k) == [type |-> k, save |-> save]
             y == [type |-> IF audio.paused THEN "playing" ELSE "none",
                   settles |-> "resolved", save |-> audio.save \/ save]
             asked == [audio EXCEPT !.pending = TRUE, !.save = audio.save \/ save]
  <2>1. \A k \in Refusals : /\ x(k) \in MicroRecs /\ x(k).type \notin {"play", "resolved"}
                             /\ x(k).save = save
    BY DEF MicroRecs, Refusals
  <2>2. y \in TaskRecs /\ TaskOK(y) /\ y.settles = "resolved" /\ y.save = (audio.save \/ save)
    BY <1>2 DEF TaskRecs, TaskOK
  <2>3. asked.save = (audio.save \/ save)
    BY <1>2 DEF Elements
  <2>4. [asked EXCEPT !.paused = FALSE]
          = [audio EXCEPT !.paused = FALSE, !.pending = TRUE, !.save = audio.save \/ save]
    BY <1>2 DEF Elements
  <2>5. [type |-> IF audio.paused THEN "playing" ELSE "none",
         settles |-> "resolved", save |-> asked.save] = y
    BY <2>3
  <2>6. /\ UNCHANGED <<engine, saved>>
        /\ \/ /\ \E k \in Refusals : micro' = <<>> \o <<x(k)>>
              /\ UNCHANGED <<audio, tasks>>
           \/ /\ audio.data = "ready" /\ micro' = <<>>
              /\ audio' = [audio EXCEPT !.paused = FALSE, !.ended = FALSE,
                                        !.pending = FALSE, !.save = FALSE]
              /\ tasks' = Append(tasks, y)
           \/ /\ audio.data \notin {"ready", "failed"} /\ micro' = <<>>
              /\ audio' = [asked EXCEPT !.paused = FALSE]
              /\ tasks' = IF audio.paused /\ audio.src # NoTrack
                          THEN Append(tasks, Event("waiting")) ELSE tasks
    <3> HIDE DEF x, y
    <3> QED
      BY <1>1, <1>3, <1>5, <2>5 DEF Play, rest, x, asked
  <2>7. ASSUME NEW k \in Refusals PROVE <<>> \o <<x(k)>> = <<x(k)>>
    <3>1. <<x(k)>> \in Seq(MicroRecs)
      BY <2>1, JustOne
    <3> QED
      BY <3>1, AddedNone
  <2> HIDE DEF x, y, asked
  <2>8. CASE (\E k \in Refusals : micro' = <<>> \o <<x(k)>>) /\ UNCHANGED <<audio, tasks>>
    BY <1>5, <2>1, <2>6, <2>7, <2>8 DEF Denied
  <2>9. CASE /\ audio.data = "ready" /\ micro' = <<>>
             /\ audio' = [audio EXCEPT !.paused = FALSE, !.ended = FALSE,
                                       !.pending = FALSE, !.save = FALSE]
             /\ tasks' = Append(tasks, y)
    BY <1>5, <2>2, <2>6, <2>9 DEF Starts
  <2>10. CASE /\ audio.data \notin {"ready", "failed"} /\ micro' = <<>>
              /\ audio' = [asked EXCEPT !.paused = FALSE]
              /\ tasks' = IF audio.paused /\ audio.src # NoTrack
                          THEN Append(tasks, Event("waiting")) ELSE tasks
    BY <1>5, <2>4, <2>6, <2>10 DEF Waits, asked
  <2> QED
    BY <2>6, <2>8, <2>9, <2>10
<1> QED
  BY <1>4, <1>5

----------------------------------------------------------------------------
(* The forms that the steps take: each step of the player is of one of them, and
   says no more than its parts of the invariant need. *)

Reacts ==
    /\ micro # <<>> /\ Head(micro).type # "play" /\ micro' = Tail(micro)
    /\ \E s \in {"playing", "paused", "loading", "error"} :
          engine' = [engine EXCEPT !.state = s] /\ (s = "playing" => Head(micro).type = "resolved")
                                                /\ (Head(micro).type = "resolved" => s = "playing")
    /\ saved' = queue \/ (~Head(micro).save /\ saved' = saved)
    /\ UNCHANGED <<queue, audio, tasks, awaited, strayed>>

Asks(save) ==
    \/ micro = <<>> /\ audio.on /\ engine.state # "playing" /\ ~save
    \/ Len(micro) = 1 /\ micro[1].type = "play" /\ micro[1].save = save
Plays ==
    /\ \E save \in BOOLEAN :
          Asks(save) /\ (Refused(save) \/ Denied(save) \/ Starts(save) \/ Waits(save))
    /\ UNCHANGED <<queue, awaited, strayed>>

Delivers ==
    /\ micro = <<>> /\ tasks # <<>> /\ Head(tasks).type # "ended" /\ tasks' = Tail(tasks)
    /\ micro' = IF Head(tasks).settles = "no" THEN <<>> ELSE <<Reaction(Head(tasks))>>
    /\ \/ engine.track = NoTrack /\ UNCHANGED engine
       \/ /\ engine.track # NoTrack
          /\ engine' = [engine EXCEPT !.state = StateAfter(Head(tasks).type)]
    /\ saved' \in {saved, queue}
    /\ UNCHANGED <<queue, audio, awaited, strayed>>

\* The end of a track that is delivered and begins no other.
Stops ==
    /\ micro = <<>> /\ tasks # <<>> /\ Head(tasks).type = "ended" /\ tasks' = Tail(tasks)
    /\ engine' \in {engine, [engine EXCEPT !.state = "idle"]} /\ saved' \in {saved, queue}
    /\ engine.track # NoTrack => engine'.state = "idle"
    /\ \/ UNCHANGED <<audio, micro>>
       \/ /\ engine.track # NoTrack /\ audio' = [audio EXCEPT !.ended = FALSE]
          /\ micro' = <<[type |-> "play", save |-> FALSE]>>
    /\ UNCHANGED <<queue, awaited, strayed>>

Loads ==
    /\ micro = <<>> /\ QueueOK(queue') /\ (QueueOK(saved') \/ saved' = NoQueue)
    /\ awaited' \in BOOLEAN /\ strayed' \in BOOLEAN
    /\ \E t \in Tracks : LoadDone(t) /\ (strayed' \/ Current(queue') = t)
    /\ audio.on \/ (awaited /\ ~awaited' /\ ~strayed')

\* The element goes on by itself.
Sounds ==
    /\ micro = <<>> /\ audio.data # "none"
    /\ audio' \in Elements /\ audio'.src = audio.src /\ audio'.on = audio.on /\ audio'.data # "none"
    /\ TasksOK(tasks') /\ (SaveDue => SaveDue')
    /\ UNCHANGED <<queue, engine, micro, saved, awaited, strayed>>
Arrives ==
    /\ Sounds /\ audio.data # "ready" /\ audio'.data = "ready"
    /\ audio'.paused = audio.paused /\ audio'.ended = audio.ended
    /\ ~audio.paused => LastYes(tasks', audio')
    /\ audio.paused /\ AllHushed(tasks, audio) => AllHushed(tasks', audio')
    /\ AnyNo(tasks, audio) => AnyNo(tasks', audio')
Falters ==
    /\ Sounds /\ AllHushed(tasks', audio') /\ AnyNo(tasks', audio')
    /\ audio'.data # "ready" \/ audio'.paused \/ audio'.broken
    /\ audio'.ended => audio'.paused /\ audio'.data = "ready"

Pauses ==
    /\ micro = <<>> /\ audio.on /\ engine' = [engine EXCEPT !.state = "paused"]
    /\ audio' = [audio EXCEPT !.pending = FALSE, !.save = FALSE, !.paused = TRUE]
    /\ tasks' = IF audio.paused THEN tasks ELSE Append(tasks, Settling("pause", "abort"))
    /\ saved' = queue
    /\ UNCHANGED <<queue, micro, awaited, strayed>>

\* Only the queue is touched, and it is saved.
Edits ==
    /\ micro = <<>> /\ (audio.on \/ awaited) /\ QueueOK(queue')
    /\ saved' = queue' \/ UNCHANGED <<queue, saved>>
    /\ awaited' \in BOOLEAN /\ strayed' \in BOOLEAN
    /\ strayed' \/ (~strayed /\ Current(queue') = Current(queue))
    /\ UNCHANGED <<engine, audio, tasks, micro>>

Forgets ==
    /\ micro = <<>> /\ audio.on /\ engine' = [track |-> NoTrack, state |-> "idle"]
    /\ QueueOK(queue') /\ queue'.ids = <<>> /\ saved' = NoQueue
    /\ audio' \in {Source(NoTrack), NoAudio} /\ tasks' = <<>> /\ micro' = Interrupted
    /\ ~strayed' /\ strayed' \in BOOLEAN /\ UNCHANGED awaited

Restores ==
    /\ micro = <<>> /\ micro' = <<>> /\ UNCHANGED saved /\ ~strayed' /\ strayed' \in BOOLEAN
    /\ awaited' \in BOOLEAN
    /\ QueueOK(queue') /\ (saved # NoQueue => queue' = saved)
    /\ audio.on /\ saved = NoQueue => queue' = EmptyQueue
    /\ ~audio.on /\ saved = NoQueue => queue' = queue
    /\ \/ /\ saved = NoQueue \/ Current(queue') = NoTrack
          /\ audio' = Source(NoTrack) /\ tasks' = <<>>
          /\ engine' \in Engines /\ (audio.on => engine'.track = NoTrack) /\ (~audio.on => engine' = engine)
       \/ /\ saved # NoQueue /\ Current(queue') \in Unavailable
          /\ audio' = Source(NoTrack) /\ tasks' = <<>>
          /\ engine' = [track |-> Current(queue'), state |-> "error"]
       \/ /\ saved # NoQueue /\ Available(Current(queue'))
          /\ audio' = Source(Current(queue')) /\ tasks' = <<Event("loadstart")>>
          /\ engine' = [track |-> Current(queue'), state |-> "loading"]

LEMMA ReactForm ==
  ASSUME PlayerTypeOK, React
  PROVE  Reacts
<1> DEFINE r == Head(micro)
           state == CASE r.type = "resolved" -> "playing"
                      [] r.type = "denied" -> "paused"
                      [] r.type = "abort" -> "loading"
                      [] OTHER -> "error"
<1>1. /\ state \in {"playing", "paused", "loading", "error"}
      /\ state = "playing" <=> r.type = "resolved"
  OBVIOUS
<1>2. /\ micro # <<>> /\ r.type # "play" /\ micro' = Tail(micro)
      /\ engine' = [engine EXCEPT !.state = state]
      /\ IF r.save THEN saved' = queue ELSE MayPersist(state, queue)
      /\ UNCHANGED <<queue, audio, tasks, awaited, strayed>>
  BY DEF React
<1> HIDE DEF r, state
<1>3. saved' = queue \/ (~r.save /\ saved' = saved)
  BY <1>2 DEF MayPersist
<1> QED
  BY <1>1, <1>2, <1>3 DEF Reacts, r

LEMMA OnlyPlay ==
  ASSUME PlayerTypeOK, PlayerOrder, micro # <<>>, Head(micro).type = "play"
  PROVE  Len(micro) = 1 /\ micro[1] = Head(micro) /\ Head(micro).save \in BOOLEAN
<1>1. micro \in Seq(MicroRecs)
  BY DEF PlayerTypeOK
<1>2. Len(micro) \in Nat \ {0} /\ Head(micro) = micro[1] /\ Head(micro) \in MicroRecs
  BY <1>1, HeadAndTail
<1>3. 1 \in 1 .. Len(micro) /\ micro[1].type = "play"
  BY <1>2
<1>4. 1 = Len(micro)
  BY <1>3 DEF PlayerOrder
<1> QED
  BY <1>2, <1>4 DEF MicroRecs

LEMMA PlayNowForm ==
  ASSUME PlayerTypeOK, PlayerOrder, PlayNow
  PROVE  Plays
<1>1. micro # <<>> /\ Head(micro).type = "play" /\ Play(Head(micro).save)
      /\ UNCHANGED <<queue, awaited, strayed>>
  BY DEF PlayNow
<1>2. Len(micro) = 1 /\ micro[1] = Head(micro) /\ Head(micro).save \in BOOLEAN
  BY <1>1, OnlyPlay
<1> DEFINE save == Head(micro).save
<1> HIDE DEF save
<1>3. save \in BOOLEAN /\ Asks(save) /\ Play(save)
  BY <1>1, <1>2 DEF Asks, save
<1>4. Refused(save) \/ Denied(save) \/ Starts(save) \/ Waits(save)
  BY <1>2, <1>3, PlayForms
<1> QED
  BY <1>1, <1>3, <1>4 DEF Plays

LEMMA ToggleForm ==
  ASSUME PlayerTypeOK, Toggle
  PROVE  Plays \/ Pauses
<1>1. micro = <<>> /\ audio.on /\ UNCHANGED <<queue, awaited, strayed>>
  BY DEF Toggle, Clicks
<1>2. CASE engine.state \in {"playing", "buffering"}
  <2>1. [Settled EXCEPT !.paused = TRUE]
          = [audio EXCEPT !.pending = FALSE, !.save = FALSE, !.paused = TRUE]
    BY DEF Settled
  <2> QED
    BY <1>1, <1>2, <2>1 DEF Toggle, Pauses
<1>3. CASE engine.state \notin {"playing", "buffering"}
  <2>1. Play(FALSE)
    BY <1>3 DEF Toggle
  <2>2. Len(micro) <= 1
    BY <1>1
  <2>3. Refused(FALSE) \/ Denied(FALSE) \/ Starts(FALSE) \/ Waits(FALSE)
    BY <2>1, <2>2, PlayForms
  <2>4. Asks(FALSE)
    BY <1>1, <1>3 DEF Asks
  <2> QED
    BY <1>1, <2>3, <2>4 DEF Plays
<1> QED
  BY <1>2, <1>3

LEMMA DeliverForm ==
  ASSUME PlayerTypeOK, Deliver
  PROVE  Delivers
<1> DEFINE t == Head(tasks)
           m == Reactions(<<t>>)
<1>1. /\ micro = <<>> /\ tasks # <<>> /\ t.type # "ended" /\ tasks' = Tail(tasks) /\ micro' = m
      /\ UNCHANGED <<queue, audio, awaited, strayed>>
  BY DEF Deliver
<1>2. t \in TaskRecs
  <2>1. tasks \in Seq(TaskRecs)
    BY DEF PlayerTypeOK
  <2> QED
    BY <1>1, <2>1, HeadAndTail
<1>3. m = IF t.settles = "no" THEN <<>> ELSE <<Reaction(t)>>
  <2> DEFINE s == <<t>>
  <2> HIDE DEF t
  <2>1. s \in Seq(TaskRecs) /\ Len(s) = 1 /\ s[1] = t
    BY <1>2, JustOne
  <2> HIDE DEF s
  <2> DEFINE n == Reactions(s)
  <2>2. /\ Told(n) /\ Len(n) <= Len(s)
        /\ \A i \in 1 .. Len(s) : s[i].settles # "no" => \E k \in 1 .. Len(n) : n[k] = Reaction(s[i])
        /\ \A k \in 1 .. Len(n) : \E i \in 1 .. Len(s) : s[i].settles # "no" /\ n[k] = Reaction(s[i])
    BY <2>1, ReactionsOK
  <2> HIDE DEF n
  <2>3. n \in Seq(MicroRecs) /\ Len(n) \in Nat
    BY <2>2 DEF Told
  <2>4. CASE t.settles = "no"
    <3>1. Len(n) = 0
      <4>1. \A k \in 1 .. Len(n) : FALSE
        <5>1. \A i \in 1 .. Len(s) : s[i].settles = "no"
          BY <2>1, <2>4
        <5> QED
          BY <2>2, <5>1
      <4> QED
        BY <2>3, <4>1
    <3>2. n = <<>>
      BY <2>3, <3>1
    <3> QED
      BY <2>4, <3>2 DEF n, s
  <2>5. CASE t.settles # "no"
    <3>1. PICK k \in 1 .. Len(n) : n[k] = Reaction(t)
      BY <2>1, <2>2, <2>5
    <3>2. Len(n) = 1 /\ k = 1
      BY <2>1, <2>2, <2>3, <3>1
    <3>3. n[1] = Reaction(t)
      BY <3>1, <3>2
    <3> HIDE DEF Reaction
    <3>4. n = <<Reaction(t)>>
      BY <2>3, <3>2, <3>3
    <3> QED
      BY <2>5, <3>4 DEF n, s
  <2> QED
    BY <2>4, <2>5
<1>4. CASE engine.track = NoTrack
  <2>1. UNCHANGED <<engine, saved>>
    BY <1>4 DEF Deliver
  <2> QED
    BY <1>1, <1>3, <1>4, <2>1 DEF Delivers
<1>5. CASE engine.track # NoTrack
  <2>1. engine' = [engine EXCEPT !.state = StateAfter(t.type)] /\ MayPersist(engine'.state, queue)
    BY <1>5 DEF Deliver
  <2>2. saved' \in {saved, queue}
    BY <2>1 DEF MayPersist
  <2> QED
    BY <1>1, <1>3, <1>5, <2>1, <2>2 DEF Delivers
<1> QED
  BY <1>4, <1>5

----------------------------------------------------------------------------
(* The actions, and the forms of step they are *)

LEMMA MovedForm ==
  ASSUME PlayerTypeOK, NEW q, QueueOK(q), NEW i \in DOMAIN q.ids, PlayAt(q, i)
  PROVE  /\ QueueOK(queue') /\ strayed' = FALSE
         /\ \E t \in Tracks : LoadDone(t) /\ Current(queue') = t
<1>1. q.ids[i] \in Tracks
  BY QueueParts
<1>2. queue' = [q EXCEPT !.cursor = i] /\ strayed' = FALSE /\ Load(q.ids[i], ThenPlay)
  BY DEF PlayAt
<1>3. QueueOK(queue') /\ Current(queue') = q.ids[i]
  BY <1>2, CursorMoved
<1>4. LoadDone(q.ids[i])
  BY <1>1, <1>2, LoadOK
<1> QED
  BY <1>1, <1>2, <1>3, <1>4

LEMMA EndedForm ==
  ASSUME PlayerTypeOK, PlayerOrder, Off, Ended
  PROVE  Stops \/ Loads
<1>1. /\ micro = <<>> /\ tasks # <<>> /\ Head(tasks).type = "ended"
      /\ QueueOK(queue) /\ awaited \in BOOLEAN /\ (QueueOK(saved) \/ saved = NoQueue)
  BY DEF Ended, PlayerTypeOK
<1>2. UNCHANGED awaited
  BY DEF Ended
<1>3. CASE engine.track = NoTrack \/ (After(queue) = 0 /\ ~queue.repeatOne)
  <2>1. /\ engine' = IF engine.track = NoTrack THEN engine ELSE [engine EXCEPT !.state = "idle"]
        /\ saved' = IF engine.track = NoTrack THEN saved ELSE queue
        /\ tasks' = Tail(tasks)
        /\ UNCHANGED <<queue, audio, micro, strayed>>
    BY <1>3 DEF Ended
  <2>2. engine \in Engines
    BY DEF PlayerTypeOK
  <2>3. engine.track # NoTrack => engine'.state = "idle"
    BY <2>1, <2>2 DEF Engines
  <2> QED
    BY <1>1, <1>2, <2>1, <2>3 DEF Stops
<1>4. CASE ~(engine.track = NoTrack \/ (After(queue) = 0 /\ ~queue.repeatOne)) /\ queue.repeatOne
  <2>1. /\ engine' = [engine EXCEPT !.state = "idle"]
        /\ audio' = [audio EXCEPT !.ended = FALSE]
        /\ tasks' = Tail(tasks)
        /\ micro' = <<[type |-> "play", save |-> FALSE]>>
        /\ UNCHANGED <<queue, saved, strayed>>
    BY <1>4 DEF Ended
  <2>2. engine \in Engines
    BY DEF PlayerTypeOK
  <2>3. engine'.state = "idle" /\ engine.track # NoTrack
    BY <1>4, <2>1, <2>2 DEF Engines
  <2> QED
    BY <1>1, <1>2, <2>1, <2>3 DEF Stops
<1>5. CASE ~(engine.track = NoTrack \/ (After(queue) = 0 /\ ~queue.repeatOne)) /\ ~queue.repeatOne
  <2>1. PlayAt(queue, After(queue)) /\ UNCHANGED saved /\ After(queue) # 0
    BY <1>5 DEF Ended
  <2>2. After(queue) \in DOMAIN queue.ids
    BY <1>1, <2>1, AfterOK
  <2>3. /\ QueueOK(queue') /\ strayed' = FALSE
        /\ \E t \in Tracks : LoadDone(t) /\ Current(queue') = t
    BY <1>1, <2>1, <2>2, MovedForm
  <2>4. audio.on
    BY <1>1 DEF Off, PlayerTypeOK, Elements
  <2> QED
    BY <1>1, <1>2, <2>1, <2>3, <2>4 DEF Loads
<1> QED
  BY <1>3, <1>4, <1>5

LEMMA LeastPlace ==
  ASSUME NEW n \in Nat, NEW S \in SUBSET (1 .. n), S # {}
  PROVE  \E i \in S : \A j \in S : i <= j
<1>1. PICK i \in S : Cardinality(S \cap (1 .. i)) = 1
  <2>1. Cardinality(S) \in Nat /\ IsFiniteSet(S)
    <3>1. IsFiniteSet(1 .. n)
      BY FS_Interval
    <3>2. IsFiniteSet(S)
      BY <3>1, FS_Subset
    <3> QED
      BY <3>2, FS_CardinalityType
  <2>2. Cardinality(S) # 0
    BY <2>1, FS_EmptySet
  <2>3. 1 \in 1 .. Cardinality(S)
    BY <2>1, <2>2
  <2>4. \A k \in 1 .. Cardinality(S) : \E i \in S : Cardinality(S \cap (1 .. i)) = k
    BY PlacesInOrder
  <2> QED
    BY <2>3, <2>4
<1>2. ASSUME NEW j \in S, j < i PROVE FALSE
  <2>1. S \cap (1 .. j) \in SUBSET (S \cap (1 .. i)) /\ i \in S \cap (1 .. i) /\ i \notin S \cap (1 .. j)
    BY <1>2
  <2>2. IsFiniteSet(S \cap (1 .. i))
    <3>1. IsFiniteSet(1 .. n) /\ S \cap (1 .. i) \in SUBSET (1 .. n)
      BY FS_Interval
    <3> QED
      BY <3>1, FS_Subset
  <2>3. Cardinality(S \cap (1 .. j)) # Cardinality(S \cap (1 .. i))
        /\ Cardinality(S \cap (1 .. j)) <= Cardinality(S \cap (1 .. i))
    <3> DEFINE A == S \cap (1 .. j)
               B == S \cap (1 .. i)
    <3>1. A \in SUBSET B /\ IsFiniteSet(B) /\ A # B
      BY <2>1, <2>2
    <3> HIDE DEF A, B
    <3>2. Cardinality(A) <= Cardinality(B) /\ Cardinality(A) # Cardinality(B)
      BY <3>1, FS_Subset
    <3> QED
      BY <3>2 DEF A, B
  <2>4. Cardinality(S \cap (1 .. j)) \in 1 .. Cardinality(S) /\ Cardinality(S) \in Nat
    BY PlacesInOrder
  <2> QED
    BY <1>1, <2>3, <2>4
<1> QED
  BY <1>2

LEMMA PlayTrackForm ==
  ASSUME PlayerTypeOK, NEW t \in Tracks, PlayTrack(t)
  PROVE  Loads
<1> DEFINE q == IF t \in Range(queue.ids) THEN queue ELSE Added(queue, <<t>>)
           places == {i \in DOMAIN q.ids : q.ids[i] = t}
           first == CHOOSE i \in places : \A j \in places : i <= j
<1>1. micro = <<>> /\ audio.on /\ UNCHANGED <<saved, awaited, trouble>>
  BY DEF PlayTrack, Clicks
<1>2. QueueOK(queue) /\ awaited \in BOOLEAN /\ (QueueOK(saved) \/ saved = NoQueue)
  BY DEF PlayerTypeOK
<1>3. QueueOK(q)
  <2>1. <<t>> \in Seq(Tracks)
    BY JustOne
  <2>2. QueueOK(Added(queue, <<t>>))
    BY <1>2, <2>1, AddedOK DEF SameCurrent
  <2> QED
    BY <1>2, <2>2
<1>4. IF places # {} THEN PlayAt(q, first)
      ELSE queue' = [q EXCEPT !.cursor = 0] /\ strayed' = TRUE /\ Load(t, ThenPlay)
  BY DEF PlayTrack
<1> HIDE DEF q
<1>5. CASE places # {}
  <2>1. first \in places
    <3>1. places \subseteq 1 .. Len(q.ids) /\ Len(q.ids) \in Nat
      BY <1>3, QueueParts
    <3> DEFINE c == \E i \in places : \A j \in places : i <= j
    <3>2. c
      BY <1>5, <3>1, LeastPlace
    <3> QED
      BY <3>2
  <2>2. first \in DOMAIN q.ids
    BY <2>1
  <2> HIDE DEF first
  <2>3. /\ QueueOK(queue') /\ strayed' = FALSE
        /\ \E u \in Tracks : LoadDone(u) /\ Current(queue') = u
    BY <1>3, <1>4, <1>5, <2>2, MovedForm
  <2> QED
    BY <1>1, <1>2, <2>3 DEF Loads
<1>6. CASE places = {}
  <2>1. queue' = [q EXCEPT !.cursor = 0] /\ strayed' = TRUE /\ Load(t, ThenPlay)
    BY <1>4, <1>6
  <2>2. LoadDone(t)
    BY <2>1, LoadOK
  <2>3. QueueOK(queue')
    BY <1>3, <2>1 DEF QueueOK, Queues
  <2> QED
    BY <1>1, <1>2, <2>1, <2>2, <2>3 DEF Loads
<1> QED
  BY <1>5, <1>6

LEMMA PlayEntryForm ==
  ASSUME PlayerTypeOK, PlayEntry
  PROVE  Loads
<1>1. micro = <<>> /\ audio.on /\ UNCHANGED <<saved, awaited, trouble>>
  BY DEF PlayEntry, Clicks
<1>2. QueueOK(queue) /\ awaited \in BOOLEAN /\ (QueueOK(saved) \/ saved = NoQueue)
  BY DEF PlayerTypeOK
<1>3. \E i \in DOMAIN queue.ids : PlayAt(queue, i)
  <2>1. CASE After(queue) # 0 /\ PlayAt(queue, After(queue))
    BY <1>2, <2>1, AfterOK
  <2>2. CASE queue.cursor > 1 /\ PlayAt(queue, queue.cursor - 1)
    <3>1. DOMAIN queue.ids = 1 .. Len(queue.ids) /\ Len(queue.ids) \in Nat
          /\ queue.cursor \in 0 .. Len(queue.ids)
      BY <1>2, QueueParts
    <3>2. queue.cursor - 1 \in DOMAIN queue.ids
      BY <2>2, <3>1
    <3> QED
      BY <2>2, <3>2
  <2> QED
    BY <2>1, <2>2 DEF PlayEntry
<1>4. PICK i \in DOMAIN queue.ids : PlayAt(queue, i)
  BY <1>3
<1>5. /\ QueueOK(queue') /\ strayed' = FALSE
      /\ \E t \in Tracks : LoadDone(t) /\ Current(queue') = t
  BY <1>2, <1>4, MovedForm
<1> QED
  BY <1>1, <1>2, <1>5 DEF Loads

LEMMA EditForm ==
  ASSUME PlayerTypeOK, EditQueue
  PROVE  Edits
<1>1. /\ micro = <<>> /\ audio.on /\ saved' = queue'
      /\ UNCHANGED <<engine, audio, tasks, micro, awaited, strayed>>
  BY DEF EditQueue, Clicks
<1>2. QueueOK(queue) /\ awaited \in BOOLEAN /\ strayed \in BOOLEAN
  BY DEF PlayerTypeOK
<1>3. SameCurrent(queue, queue')
  <2>1. CASE \E t \in Tracks : queue' = Added(queue, <<t>>)
    <3>1. PICK t \in Tracks : queue' = Added(queue, <<t>>)
      BY <2>1
    <3>2. <<t>> \in Seq(Tracks)
      BY JustOne
    <3> QED
      BY <1>2, <3>1, <3>2, AddedOK
  <2>2. CASE \E t \in Tracks : queue' = AddedNext(queue, t)
    BY <1>2, <2>2, AddedNextOK
  <2>3. CASE queue' = [queue EXCEPT !.repeatOne = ~@]
    <3>1. (~queue.repeatOne) \in BOOLEAN
      BY <1>2, QueueParts
    <3> QED
      BY <1>2, <2>3, <3>1, FlagsOK
  <2>4. CASE queue' = [queue EXCEPT !.shuffle = FALSE]
    BY <1>2, <2>4, FlagsOK
  <2>5. CASE queue' \in Shuffled(queue)
    BY <1>2, <2>5, ShuffledOK
  <2> QED
    BY <2>1, <2>2, <2>3, <2>4, <2>5 DEF EditQueue
<1> QED
  BY <1>1, <1>2, <1>3 DEF Edits, SameCurrent

LEMMA ShortenForm ==
  ASSUME PlayerTypeOK, ShortenQueue
  PROVE  Edits
<1>1. /\ micro = <<>> /\ audio.on /\ saved' = queue'
      /\ UNCHANGED <<engine, audio, tasks, micro, awaited>>
  BY DEF ShortenQueue, Clicks
<1>2. QueueOK(queue) /\ awaited \in BOOLEAN /\ strayed \in BOOLEAN
  BY DEF PlayerTypeOK
<1>3. CASE \E i \in DOMAIN queue.ids :
             queue' = Removed(queue, i) /\ strayed' = (strayed \/ i = queue.cursor)
  <2>1. PICK i \in DOMAIN queue.ids :
             queue' = Removed(queue, i) /\ strayed' = (strayed \/ i = queue.cursor)
    BY <1>3
  <2>2. QueueOK(queue') /\ (i # queue.cursor => Current(queue') = Current(queue))
    BY <1>2, <2>1, RemovedOK
  <2> QED
    BY <1>1, <1>2, <2>1, <2>2 DEF Edits
<1>4. CASE queue' = Cleared(queue) /\ strayed' = TRUE
  <2>1. QueueOK(queue')
    BY <1>2, <1>4, ClearedOK
  <2> QED
    BY <1>1, <1>2, <1>4, <2>1 DEF Edits
<1> QED
  BY <1>3, <1>4 DEF ShortenQueue

LEMMA AskForm ==
  ASSUME PlayerTypeOK, AskAlbum
  PROVE  Edits
<1>1. /\ micro = <<>> /\ audio.on /\ awaited' = TRUE
      /\ UNCHANGED <<queue, engine, audio, tasks, micro, saved, strayed>>
  BY DEF AskAlbum, Clicks
<1>2. QueueOK(queue) /\ strayed \in BOOLEAN
  BY DEF PlayerTypeOK
<1> QED
  BY <1>1, <1>2 DEF Edits

LEMMA AlbumFailsForm ==
  ASSUME PlayerTypeOK, AlbumFails
  PROVE  Edits
<1>1. /\ micro = <<>> /\ awaited /\ awaited' = FALSE
      /\ UNCHANGED <<queue, engine, audio, tasks, micro, saved, strayed>>
  BY DEF AlbumFails
<1>2. QueueOK(queue) /\ strayed \in BOOLEAN
  BY DEF PlayerTypeOK
<1> QED
  BY <1>1, <1>2 DEF Edits

LEMMA AlbumForm ==
  ASSUME PlayerTypeOK, NEW ids \in Albums, AlbumArrives(ids)
  PROVE  Loads \/ Edits
<1> DEFINE q == Added(Cleared(queue), ids)
<1>1. /\ micro = <<>> /\ awaited /\ awaited' = FALSE /\ saved' = q
      /\ IF ids # <<>> THEN PlayAt(q, 1)
         ELSE queue' = q /\ strayed' = TRUE /\ UNCHANGED <<engine, audio, tasks, micro>>
  BY DEF AlbumArrives
<1>2. QueueOK(queue) /\ ids \in Seq(Tracks)
  BY PlayerConstantsOK DEF PlayerTypeOK
<1>3. QueueOK(Cleared(queue)) /\ Cleared(queue).ids = <<>>
  BY <1>2, ClearedOK
<1>4. QueueOK(q)
  BY <1>2, <1>3, AddedOK DEF SameCurrent
<1>5. CASE ids # <<>>
  <2>1. 1 \in DOMAIN q.ids
    <3> DEFINE n == IF Limit < Len(ids) THEN Limit ELSE Len(ids)
    <3>1. q.ids = Take(<<>> \o ids, Limit)
      <4>1. Cleared(queue) \in Queues
        BY <1>3 DEF QueueOK
      <4> DEFINE c == Cleared(queue)
      <4>2. q = [c EXCEPT !.ids = Take(c.ids \o ids, Limit)]
        BY DEF Added
      <4> HIDE DEF c
      <4>3. q.ids = Take(c.ids \o ids, Limit)
        BY <4>1, <4>2 DEF c, Queues
      <4> QED
        BY <1>3, <4>3 DEF c
    <3>2. <<>> \o ids = ids
      BY <1>2, AddedNone
    <3>3. Len(ids) \in Nat \ {0} /\ Limit \in Nat \ {0}
      BY <1>2, <1>5, PlayerConstantsOK
    <3>4. n \in 1 .. Len(ids)
      BY <3>3
    <3>5. q.ids = SubSeq(ids, 1, n)
      BY <3>1, <3>2 DEF Take
    <3> HIDE DEF n, q
    <3>6. Len(q.ids) = n
      BY <1>2, <3>4, <3>5
    <3> QED
      BY <1>4, <3>4, <3>6, QueueParts
  <2> HIDE DEF q
  <2>2. /\ QueueOK(queue') /\ strayed' = FALSE
        /\ \E t \in Tracks : LoadDone(t) /\ Current(queue') = t
    BY <1>1, <1>4, <1>5, <2>1, MovedForm
  <2> QED
    BY <1>1, <1>4, <2>2 DEF Loads
<1>6. CASE ids = <<>>
  <2> HIDE DEF q
  <2> QED
    BY <1>1, <1>4, <1>6 DEF Edits
<1> QED
  BY <1>5, <1>6

LEMMA AddedBoth ==
  ASSUME NEW S, NEW s \in Seq(S), NEW x \in S, NEW y \in S
  PROVE  s \o (<<x>> \o <<y>>) = Append(Append(s, x), y)
  OBVIOUS

LEMMA AddedAfter ==
  ASSUME NEW S, NEW s \in Seq(S), NEW r \in Seq(S), NEW x \in S
  PROVE  s \o (r \o <<x>>) = Append(s \o r, x)
  OBVIOUS

LEMMA SameElement ==
  ASSUME NEW e, NEW f, e.paused = f.paused, e.ended = f.ended, NEW s
  PROVE  /\ LastYes(s, e) = LastYes(s, f) /\ AnyNo(s, e) = AnyNo(s, f)
         /\ AllHushed(s, e) = AllHushed(s, f)
<1>1. \A t : Yes(t, e) = Yes(t, f) /\ No(t, e) = No(t, f)
  BY DEF Yes, No
<1> QED
  BY <1>1 DEF LastYes, AnyNo, AllHushed

LEMMA TasksAreOK ==
  ASSUME PlayerTypeOK, PlayerOrder
  PROVE  TasksOK(tasks)
  BY DEF PlayerTypeOK, PlayerOrder, TasksOK

\* The events that tell of the promise take its save with them.
Tells(events) ==
    (\E i \in 1 .. Len(events) : events[i].settles # "no") =>
        \E i \in 1 .. Len(events) : events[i].settles # "no" /\ events[i].save = audio.save

LEMMA SaveStaysDue ==
  ASSUME PlayerTypeOK, NEW events \in Seq(TaskRecs), Tells(events), tasks' = tasks \o events,
         (\A i \in 1 .. Len(events) : events[i].settles = "no") =>
           audio'.pending = audio.pending /\ audio'.save = audio.save,
         SaveDue
  PROVE  SaveDue'
<1>1. tasks \in Seq(TaskRecs)
  BY DEF PlayerTypeOK
<1>2. /\ Len(tasks') = Len(tasks) + Len(events) /\ Len(tasks) \in Nat /\ Len(events) \in Nat
      /\ \A i \in 1 .. Len(tasks) : tasks'[i] = tasks[i]
      /\ \A i \in 1 .. Len(events) : tasks'[Len(tasks) + i] = events[i]
  BY <1>1, Joined
<1>3. CASE \E i \in 1 .. Len(tasks) : tasks[i].settles # "no" /\ tasks[i].save
  <2>1. PICK i \in 1 .. Len(tasks) : tasks[i].settles # "no" /\ tasks[i].save
    BY <1>3
  <2>2. i \in 1 .. Len(tasks') /\ tasks'[i] = tasks[i]
    BY <1>2
  <2> QED
    BY <2>1, <2>2 DEF SaveDue
<1>4. CASE audio.pending /\ audio.save /\ \E i \in 1 .. Len(events) : events[i].settles # "no"
  <2>1. PICK i \in 1 .. Len(events) : events[i].settles # "no" /\ events[i].save = audio.save
    BY <1>4 DEF Tells
  <2>2. Len(tasks) + i \in 1 .. Len(tasks') /\ tasks'[Len(tasks) + i] = events[i]
    BY <1>2
  <2> QED
    BY <1>4, <2>1, <2>2 DEF SaveDue
<1>5. CASE audio.pending /\ audio.save /\ ~\E i \in 1 .. Len(events) : events[i].settles # "no"
  BY <1>5 DEF SaveDue
<1> QED
  BY <1>3, <1>4, <1>5 DEF SaveDue

LEMMA JoinedTasksOK ==
  ASSUME NEW s, NEW r, TasksOK(s), TasksOK(r)
  PROVE  TasksOK(s \o r)
<1>1. s \in Seq(TaskRecs) /\ r \in Seq(TaskRecs)
  BY DEF TasksOK
<1> DEFINE n == s \o r
<1>2. /\ n \in Seq(TaskRecs) /\ Len(n) = Len(s) + Len(r) /\ Len(s) \in Nat /\ Len(r) \in Nat
      /\ \A i \in 1 .. Len(s) : n[i] = s[i]
      /\ \A i \in 1 .. Len(r) : n[Len(s) + i] = r[i]
  BY <1>1, Joined
<1> HIDE DEF n
<1>3. ASSUME NEW i \in 1 .. Len(n) PROVE TaskOK(n[i])
  <2>1. CASE i \in 1 .. Len(s)
    BY <1>2, <2>1 DEF TasksOK
  <2>2. CASE i \notin 1 .. Len(s)
    <3>1. i - Len(s) \in 1 .. Len(r) /\ Len(s) + (i - Len(s)) = i
      BY <1>2, <2>2
    <3>2. n[Len(s) + (i - Len(s))] = r[i - Len(s)]
      BY <1>2, <3>1
    <3> QED
      BY <3>1, <3>2 DEF TasksOK
  <2> QED
    BY <2>1, <2>2
<1> QED
  BY <1>2, <1>3 DEF TasksOK, n

LEMMA ElementForm ==
  ASSUME PlayerTypeOK, PlayerOrder, micro = <<>>, audio.data # "none",
         NEW d \in {"ready", "stalled", "failed"}, NEW events, TasksOK(events), Tells(events),
         Element(d, events)
  PROVE  /\ Sounds /\ audio'.data = d /\ audio'.paused = audio.paused /\ audio'.ended = audio.ended
         /\ tasks' = tasks \o events
<1> DEFINE settling == \E i \in DOMAIN events : events[i].settles # "no"
<1>1. /\ audio' = [IF settling THEN Settled ELSE audio EXCEPT !.data = d]
      /\ tasks' = tasks \o events
      /\ UNCHANGED <<queue, engine, micro, saved, awaited, strayed>>
  BY DEF Element
<1>2. events \in Seq(TaskRecs) /\ DOMAIN events = 1 .. Len(events)
  BY DEF TasksOK
<1>3. audio \in Elements
  BY DEF PlayerTypeOK
<1>4. /\ audio' \in Elements /\ audio'.src = audio.src /\ audio'.on = audio.on /\ audio'.data = d
      /\ audio'.paused = audio.paused /\ audio'.ended = audio.ended
      /\ ~settling => audio'.pending = audio.pending /\ audio'.save = audio.save
  <2>1. CASE settling
    <3>1. audio' = [Settled EXCEPT !.data = d]
      BY <1>1, <2>1
    <3> HIDE DEF settling
    <3> QED
      BY <1>3, <2>1, <3>1 DEF Settled, Elements
  <2>2. CASE ~settling
    <3>1. audio' = [audio EXCEPT !.data = d]
      BY <1>1, <2>2
    <3> HIDE DEF settling
    <3> QED
      BY <1>3, <2>2, <3>1 DEF Elements
  <2> QED
    BY <2>1, <2>2
<1>5. TasksOK(tasks')
  BY <1>1, TasksAreOK, JoinedTasksOK
<1>6. SaveDue => SaveDue'
  <2>1. (\A i \in 1 .. Len(events) : events[i].settles = "no") => ~settling
    BY <1>2
  <2> HIDE DEF settling
  <2> QED
    BY <1>1, <1>2, <1>4, <2>1, SaveStaysDue
<1> QED
  BY <1>1, <1>4, <1>5, <1>6 DEF Sounds

LEMMA NoneTells ==
  ASSUME NEW events, \A i \in 1 .. Len(events) : events[i].settles = "no"
  PROVE  Tells(events)
  BY DEF Tells

LEMMA StallsForm ==
  ASSUME PlayerTypeOK, PlayerOrder, Stalls
  PROVE  Falters
<1> DEFINE t == Event("waiting")
           events == <<t>>
<1>1. t \in TaskRecs /\ TaskOK(t) /\ t.type = "waiting" /\ t.settles = "no"
  BY EventOK
<1> HIDE DEF t
<1>2. TasksOK(events) /\ Len(events) = 1 /\ events[1] = t
  BY <1>1, OneTask
<1>3. micro = <<>> /\ audio.data = "ready" /\ ~audio.paused /\ Element("stalled", events)
  BY DEF Stalls, t
<1>4. Tells(events)
  <2> HIDE DEF events
  <2>1. \A i \in 1 .. Len(events) : events[i].settles = "no"
    BY <1>1, <1>2
  <2> QED
    BY <2>1, NoneTells
<1>5. /\ Sounds /\ audio'.data = "stalled" /\ audio'.paused = audio.paused
      /\ audio'.ended = audio.ended /\ tasks' = tasks \o events
  <2> HIDE DEF events
  <2> QED
    BY <1>2, <1>3, <1>4, ElementForm
<1>6. tasks \in Seq(TaskRecs)
  BY DEF PlayerTypeOK
<1>7. tasks' = Append(tasks, t)
  BY <1>1, <1>5, <1>6, AddedOne
<1>8. No(t, audio') /\ ~Yes(t, audio')
  BY <1>1 DEF No, Yes
<1>9. AllHushed(tasks', audio') /\ AnyNo(tasks', audio')
  BY <1>1, <1>6, <1>7, <1>8, OneMoreSays
<1>a. ~audio'.ended
  BY <1>3, <1>5 DEF PlayerOrder
<1> QED
  BY <1>5, <1>9, <1>a DEF Falters

LEMMA LoadFailsForm ==
  ASSUME PlayerTypeOK, PlayerOrder, LoadFails
  PROVE  Falters
<1> DEFINE t == Settling("error", "failed")
           events == <<t>>
<1>1. /\ t \in TaskRecs /\ TaskOK(t) /\ t.type = "error"
      /\ t.settles # "no" => t.save = audio.save
  BY EventOK, SettlingOK
<1> HIDE DEF t
<1>2. TasksOK(events) /\ Len(events) = 1 /\ events[1] = t
  BY <1>1, OneTask
<1>3. micro = <<>> /\ audio.data = "loading" /\ Element("failed", events)
  BY DEF LoadFails, t
<1>4. Tells(events)
  <2> HIDE DEF events
  <2> QED
    BY <1>1, <1>2 DEF Tells
<1>5. /\ Sounds /\ audio'.data = "failed" /\ audio'.paused = audio.paused
      /\ audio'.ended = audio.ended /\ tasks' = tasks \o events
  <2> HIDE DEF events
  <2> QED
    BY <1>2, <1>3, <1>4, ElementForm
<1>6. tasks \in Seq(TaskRecs)
  BY DEF PlayerTypeOK
<1>7. tasks' = Append(tasks, t)
  BY <1>1, <1>5, <1>6, AddedOne
<1>8. No(t, audio') /\ ~Yes(t, audio')
  <2>1. t.settles # "resolved"
    BY <1>1 DEF TaskOK
  <2> QED
    BY <1>1, <2>1 DEF No, Yes
<1>9. AllHushed(tasks', audio') /\ AnyNo(tasks', audio')
  BY <1>1, <1>6, <1>7, <1>8, OneMoreSays
<1>a. ~audio'.ended
  BY <1>3, <1>5 DEF PlayerOrder
<1> QED
  BY <1>5, <1>9, <1>a DEF Falters

LEMMA BreaksForm ==
  ASSUME PlayerTypeOK, PlayerOrder, Breaks
  PROVE  Falters
<1> DEFINE t == Event("error")
<1>1. t \in TaskRecs /\ TaskOK(t) /\ t.type = "error" /\ t.settles = "no"
  BY EventOK
<1> HIDE DEF t
<1>2. /\ micro = <<>> /\ audio.data # "none" /\ tasks' = Append(tasks, t)
      /\ audio' = [audio EXCEPT !.broken = TRUE]
      /\ UNCHANGED <<queue, engine, micro, saved, awaited, strayed>>
  BY DEF Breaks, t
<1>3. audio \in Elements /\ tasks \in Seq(TaskRecs)
  BY DEF PlayerTypeOK
<1>4. /\ audio' \in Elements /\ audio'.src = audio.src /\ audio'.on = audio.on
      /\ audio'.data = audio.data /\ audio'.paused = audio.paused /\ audio'.broken
      /\ audio'.ended = audio.ended /\ audio'.pending = audio.pending
      /\ audio'.save = audio.save
  BY <1>2, <1>3 DEF Elements
<1>5. tasks' = tasks \o <<t>>
  BY <1>1, <1>2, <1>3, AddedOne
<1> DEFINE events == <<t>>
<1>6. TasksOK(events) /\ Len(events) = 1 /\ events[1] = t
  BY <1>1, OneTask
<1> HIDE DEF events
<1>7. TasksOK(tasks')
  BY <1>5, <1>6, TasksAreOK, JoinedTasksOK DEF events
<1>8. SaveDue => SaveDue'
  <2>1. /\ \A k \in 1 .. Len(events) : events[k].settles = "no"
        /\ events \in Seq(TaskRecs) /\ tasks' = tasks \o events
    BY <1>1, <1>5, <1>6 DEF TasksOK, events
  <2>2. Tells(events)
    BY <2>1, NoneTells
  <2> QED
    BY <1>4, <2>1, <2>2, SaveStaysDue
<1>9. Sounds
  BY <1>2, <1>4, <1>7, <1>8 DEF Sounds
<1>10. No(t, audio') /\ ~Yes(t, audio')
  BY <1>1 DEF No, Yes
<1>11. AllHushed(tasks', audio') /\ AnyNo(tasks', audio')
  BY <1>1, <1>2, <1>3, <1>10, OneMoreSays
<1>12. audio'.ended => audio'.paused /\ audio'.data = "ready"
  BY <1>4 DEF PlayerOrder
<1> QED
  BY <1>4, <1>9, <1>11, <1>12 DEF Falters

LEMMA TrackEndsForm ==
  ASSUME PlayerTypeOK, PlayerOrder, TrackEnds
  PROVE  Falters
<1> DEFINE x == Settling("pause", "abort")
           y == Event("ended")
           events == <<x>> \o <<y>>
<1>1. /\ x \in TaskRecs /\ TaskOK(x) /\ x.type = "pause"
      /\ x.settles # "no" <=> audio.pending
      /\ audio.pending => x.save = audio.save
  BY SettlingOK
<1>2. y \in TaskRecs /\ TaskOK(y) /\ y.type = "ended" /\ y.settles = "no"
  BY EventOK
<1>3. /\ micro = <<>> /\ audio.data = "ready"
      /\ audio' = [Settled EXCEPT !.paused = TRUE, !.ended = TRUE]
      /\ tasks' = tasks \o <<x, y>>
      /\ UNCHANGED <<queue, engine, micro, saved, awaited, strayed>>
  BY DEF TrackEnds
<1> HIDE DEF x, y
<1>4. tasks \in Seq(TaskRecs) /\ audio \in Elements
  BY DEF PlayerTypeOK
<1>5. tasks' = Append(Append(tasks, x), y)
  BY <1>1, <1>2, <1>3, <1>4, AddedTwo
<1>6. /\ audio' \in Elements /\ audio'.src = audio.src /\ audio'.on = audio.on
      /\ audio'.data = "ready" /\ audio'.paused /\ audio'.ended
  BY <1>3, <1>4 DEF Settled, Elements
<1>7. TasksOK(Append(tasks, x)) /\ TasksOK(tasks')
  BY <1>1, <1>2, <1>5, TasksAreOK, MoreTasksOK
<1>8. No(y, audio') /\ ~Yes(y, audio')
  BY <1>2 DEF No, Yes
<1>9. AllHushed(tasks', audio') /\ AnyNo(tasks', audio')
  BY <1>2, <1>5, <1>7, <1>8, OneMoreSays DEF TasksOK
<1>10. SaveDue => SaveDue'
  <2>1. /\ <<x>> \in Seq(TaskRecs) /\ <<y>> \in Seq(TaskRecs)
        /\ Len(<<x>>) = 1 /\ <<x>>[1] = x /\ Len(<<y>>) = 1 /\ <<y>>[1] = y
    BY <1>1, <1>2, JustOne
  <2>2. /\ events \in Seq(TaskRecs) /\ Len(events) = 2 /\ events[1] = x /\ events[2] = y
    BY <1>1, <1>2
  <2>3. tasks' = tasks \o events
    <3>1. x \in TaskRecs /\ y \in TaskRecs
      BY <1>1, <1>2
    <3>2. tasks \o (<<x>> \o <<y>>) = Append(Append(tasks, x), y)
      BY <1>4, <3>1, AddedBoth
    <3> QED
      BY <1>5, <3>2
  <2> HIDE DEF events
  <2>4. Tells(events)
    BY <1>1, <1>2, <2>2 DEF Tells
  <2>6. CASE audio.pending
    <3>1. ~\A i \in 1 .. Len(events) : events[i].settles = "no"
      BY <1>1, <2>2, <2>6
    <3> QED
      BY <2>2, <2>3, <2>4, <3>1, SaveStaysDue
  <2>7. CASE ~audio.pending
    <3>1. SaveDue => \E i \in 1 .. Len(tasks) : tasks[i].settles # "no" /\ tasks[i].save
      BY <2>7 DEF SaveDue
    <3>2. /\ Len(tasks') = Len(tasks) + 2 /\ Len(tasks) \in Nat
          /\ \A i \in 1 .. Len(tasks) : tasks'[i] = tasks[i]
      <4>1. /\ Len(tasks \o events) = Len(tasks) + Len(events) /\ Len(tasks) \in Nat
            /\ \A i \in 1 .. Len(tasks) : (tasks \o events)[i] = tasks[i]
        BY <1>4, <2>2, Joined
      <4> QED
        BY <2>2, <2>3, <4>1
    <3>3. \A i \in 1 .. Len(tasks) : i \in 1 .. Len(tasks')
      BY <3>2
    <3> QED
      BY <3>1, <3>2, <3>3 DEF SaveDue
  <2> QED
    BY <2>6, <2>7
<1> QED
  BY <1>3, <1>6, <1>7, <1>9, <1>10 DEF Falters, Sounds

\* The tasks of an element that has data again: some that say nothing when it is
\* paused, and one that says yes when it is not.
LEMMA StartedForm ==
  ASSUME PlayerTypeOK, PlayerOrder, micro = <<>>, audio.data \in {"loading", "stalled"},
         NEW first, TasksOK(first), \A i \in 1 .. Len(first) : first[i].settles = "no",
         Element("ready", first \o Started),
         audio.paused /\ AllHushed(tasks, audio) => AllHushed(tasks \o first, audio),
         AnyNo(tasks, audio) => AnyNo(tasks \o first, audio)
  PROVE  Arrives
<1> DEFINE t == Settling("playing", "resolved")
<1>1. /\ t \in TaskRecs /\ TaskOK(t) /\ t.type = "playing"
      /\ t.settles # "no" <=> audio.pending
      /\ audio.pending => t.save = audio.save
  BY SettlingOK
<1> HIDE DEF t
<1>2. Started = IF audio.paused THEN <<>> ELSE <<t>>
  BY DEF Started, t
<1>3. tasks \in Seq(TaskRecs) /\ first \in Seq(TaskRecs)
  BY DEF PlayerTypeOK, TasksOK
<1> DEFINE base == tasks \o first
<1>4. base \in Seq(TaskRecs)
  BY <1>3, Joined
<1>5. CASE audio.paused
  <2>1. first \o Started = first
    BY <1>2, <1>3, <1>5, AddedNone
  <2>2. Element("ready", first) /\ Tells(first)
    BY <2>1, NoneTells
  <2>3. /\ Sounds /\ audio'.data = "ready" /\ audio'.paused = audio.paused
        /\ audio'.ended = audio.ended /\ tasks' = base
    BY <2>2, ElementForm
  <2> HIDE DEF base
  <2>4. /\ AllHushed(tasks', audio') = AllHushed(base, audio)
        /\ AnyNo(tasks', audio') = AnyNo(base, audio)
    BY <2>3, SameElement
  <2> QED
    BY <1>5, <2>3, <2>4 DEF Arrives, base
<1>6. CASE ~audio.paused
  <2> DEFINE events == first \o <<t>>
  <2>1. first \o Started = events
    BY <1>2, <1>6
  <2>2. <<t>> \in Seq(TaskRecs) /\ Len(<<t>>) = 1 /\ <<t>>[1] = t /\ TasksOK(<<t>>)
    BY <1>1, JustOne, OneTask
  <2>3. /\ events \in Seq(TaskRecs) /\ Len(events) = Len(first) + 1 /\ Len(first) \in Nat
        /\ \A i \in 1 .. Len(first) : events[i] = first[i]
        /\ events[Len(first) + 1] = t
    <3>1. events = Append(first, t)
      BY <1>1, <1>3, AddedOne
    <3> HIDE DEF events
    <3> QED
      BY <1>1, <1>3, <3>1, OneMoreTask
  <2>4. TasksOK(events)
    BY <2>2, JoinedTasksOK
  <2>5. tasks \o events = Append(base, t)
    <3>1. tasks \o (first \o <<t>>) = Append(tasks \o first, t)
      BY <1>1, <1>3, AddedAfter
    <3> QED
      BY <3>1
  <2> HIDE DEF events, base
  <2>6. Tells(events)
    <3>1. ASSUME NEW i \in 1 .. Len(events), events[i].settles # "no"
          PROVE  i = Len(first) + 1
      <4>1. i \notin 1 .. Len(first)
        BY <2>3, <3>1
      <4> QED
        BY <2>3, <4>1
    <3>2. Len(first) + 1 \in 1 .. Len(events)
      BY <2>3
    <3> QED
      BY <1>1, <2>3, <3>1, <3>2 DEF Tells
  <2>7. /\ Sounds /\ audio'.data = "ready" /\ audio'.paused = audio.paused
        /\ audio'.ended = audio.ended /\ tasks' = tasks \o events
    BY <2>1, <2>4, <2>6, ElementForm
  <2>8. tasks' = Append(base, t) /\ Yes(t, audio')
    BY <1>1, <2>5, <2>7 DEF Yes
  <2>9. LastYes(tasks', audio')
    BY <1>1, <1>4, <2>8, OneMoreSays DEF base
  <2>10. AnyNo(tasks, audio) => AnyNo(tasks', audio')
    <3>1. AnyNo(tasks, audio) => AnyNo(base, audio)
      BY DEF base
    <3>2. AnyNo(base, audio) = AnyNo(base, audio')
      BY <2>7, SameElement
    <3>3. base \in Seq(TaskRecs)
      BY <1>4 DEF base
    <3>4. AnyNo(base, audio') => AnyNo(tasks', audio')
      BY <1>1, <2>8, <3>3, OneMoreSays
    <3> QED
      BY <3>1, <3>2, <3>4
  <2> QED
    BY <1>6, <2>7, <2>9, <2>10 DEF Arrives
<1> QED
  BY <1>5, <1>6

LEMMA QuietTasks ==
  ASSUME NEW s \in Seq(TaskRecs), NEW type \in {"loadeddata", "canplay"}, NEW e
  PROVE  /\ Append(s, Event(type)) \in Seq(TaskRecs)
         /\ e.paused /\ AllHushed(s, e) => AllHushed(Append(s, Event(type)), e)
         /\ AnyNo(s, e) => AnyNo(Append(s, Event(type)), e)
<1> DEFINE t == Event(type)
<1>1. t \in TaskRecs /\ t.type = type /\ t.settles = "no"
  BY EventOK
<1> HIDE DEF t
<1>2. e.paused => ~Yes(t, e)
  BY <1>1 DEF Yes
<1>3. Append(s, t) \in Seq(TaskRecs)
  BY <1>1, OneMoreTask
<1> QED
  BY <1>1, <1>2, <1>3, OneMoreSays DEF t

LEMMA DataArrivesForm ==
  ASSUME PlayerTypeOK, PlayerOrder, DataArrives
  PROVE  Arrives
<1> DEFINE x == Event("loadeddata")
           y == Event("canplay")
           first == <<x, y>>
<1>1. /\ x \in TaskRecs /\ TaskOK(x) /\ x.settles = "no"
      /\ y \in TaskRecs /\ TaskOK(y) /\ y.settles = "no"
  BY EventOK
<1>2. micro = <<>> /\ audio.data = "loading" /\ Element("ready", first \o Started)
  BY DEF DataArrives
<1>3. tasks \in Seq(TaskRecs)
  BY DEF PlayerTypeOK
<1>4. /\ Append(tasks, x) \in Seq(TaskRecs)
      /\ audio.paused /\ AllHushed(tasks, audio) => AllHushed(Append(Append(tasks, x), y), audio)
      /\ AnyNo(tasks, audio) => AnyNo(Append(Append(tasks, x), y), audio)
  <2>1. /\ Append(tasks, x) \in Seq(TaskRecs)
        /\ audio.paused /\ AllHushed(tasks, audio) => AllHushed(Append(tasks, x), audio)
        /\ AnyNo(tasks, audio) => AnyNo(Append(tasks, x), audio)
    BY <1>3, QuietTasks
  <2> DEFINE s == Append(tasks, x)
  <2> HIDE DEF s
  <2>2. s \in Seq(TaskRecs)
    BY <2>1 DEF s
  <2>3. /\ audio.paused /\ AllHushed(s, audio) => AllHushed(Append(s, y), audio)
        /\ AnyNo(s, audio) => AnyNo(Append(s, y), audio)
    BY <2>2, QuietTasks
  <2> HIDE DEF x, y
  <2> QED
    BY <2>1, <2>3 DEF s
<1> HIDE DEF x, y
<1>5. tasks \o first = Append(Append(tasks, x), y)
  BY <1>1, <1>3, AddedTwo
<1>6. Len(first) = 2 /\ first[1] = x /\ first[2] = y /\ first \in Seq(TaskRecs)
  BY <1>1
<1> HIDE DEF first
<1>7. TasksOK(first) /\ \A i \in 1 .. Len(first) : first[i].settles = "no"
  BY <1>1, <1>6 DEF TasksOK
<1>8. /\ audio.paused /\ AllHushed(tasks, audio) => AllHushed(tasks \o first, audio)
      /\ AnyNo(tasks, audio) => AnyNo(tasks \o first, audio)
  BY <1>4, <1>5
<1> QED
  BY <1>2, <1>7, <1>8, StartedForm

LEMMA ResumesForm ==
  ASSUME PlayerTypeOK, PlayerOrder, Resumes
  PROVE  Arrives
<1> DEFINE y == Event("canplay")
           first == <<y>>
<1>1. y \in TaskRecs /\ TaskOK(y) /\ y.settles = "no"
  BY EventOK
<1>2. micro = <<>> /\ audio.data = "stalled" /\ Element("ready", first \o Started)
  BY DEF Resumes
<1>3. tasks \in Seq(TaskRecs)
  BY DEF PlayerTypeOK
<1>4. /\ audio.paused /\ AllHushed(tasks, audio) => AllHushed(Append(tasks, y), audio)
      /\ AnyNo(tasks, audio) => AnyNo(Append(tasks, y), audio)
  BY <1>3, QuietTasks
<1> HIDE DEF y
<1>5. tasks \o first = Append(tasks, y)
  BY <1>1, <1>3, AddedOne
<1>6. TasksOK(first) /\ Len(first) = 1 /\ first[1] = y
  BY <1>1, OneTask
<1> HIDE DEF first
<1>7. \A i \in 1 .. Len(first) : first[i].settles = "no"
  BY <1>1, <1>6
<1>8. /\ audio.paused /\ AllHushed(tasks, audio) => AllHushed(tasks \o first, audio)
      /\ AnyNo(tasks, audio) => AnyNo(tasks \o first, audio)
  BY <1>4, <1>5
<1> QED
  BY <1>2, <1>6, <1>7, <1>8, StartedForm

LEMMA ForgetForm ==
  ASSUME PlayerTypeOK, Forget
  PROVE  Forgets
<1>1. /\ micro = <<>> /\ audio.on /\ engine' = [track |-> NoTrack, state |-> "idle"]
      /\ queue' = Cleared(queue) /\ saved' = NoQueue
      /\ audio' \in {Source(NoTrack), NoAudio} /\ tasks' = <<>> /\ micro' = Interrupted
      /\ strayed' = FALSE /\ UNCHANGED awaited
  BY DEF Forget, Clicks
<1>2. QueueOK(queue') /\ queue'.ids = <<>>
  BY <1>1, ClearedOK DEF PlayerTypeOK
<1> QED
  BY <1>1, <1>2 DEF Forgets

LEMMA EmptyOK ==
  QueueOK(EmptyQueue) /\ EmptyQueue.ids = <<>> /\ Current(EmptyQueue) = NoTrack
<1> DEFINE e == <<>>
<1>1. e \in Seq(Tracks) /\ Len(e) = 0 /\ Limit \in Nat
  BY PlayerConstantsOK
<1> HIDE DEF e
<1>2. EmptyQueue = [ids |-> e, cursor |-> 0, shuffle |-> FALSE, repeatOne |-> FALSE]
  BY DEF EmptyQueue, e
<1>3. EmptyQueue \in Queues /\ EmptyQueue.ids = e /\ EmptyQueue.cursor = 0
  BY <1>1, <1>2 DEF Queues
<1> QED
  BY <1>1, <1>3 DEF QueueOK, Current, e

LEMMA NoQueueIsNone ==
  ASSUME NEW q, QueueOK(q)
  PROVE  q # NoQueue
<1>1. q.cursor \in Nat
  BY DEF QueueOK, Queues
<1>2. NoQueue.cursor = -1
  BY DEF NoQueue, EmptyQueue
<1> QED
  BY <1>1, <1>2

LEMMA RestoreForm ==
  ASSUME PlayerTypeOK, NEW q, QueueOK(q), Restore(q), NEW e \in Engines,
         engine' = RestoredEngine(e)
  PROVE  /\ QueueOK(queue') /\ (saved # NoQueue => queue' = saved)
         /\ saved = NoQueue => queue' = q
         /\ micro' = <<>> /\ UNCHANGED saved
         /\ \/ /\ saved = NoQueue \/ Current(queue') = NoTrack
               /\ audio' = Source(NoTrack) /\ tasks' = <<>> /\ engine' = e
            \/ /\ saved # NoQueue /\ Current(queue') \in Unavailable
               /\ audio' = Source(NoTrack) /\ tasks' = <<>>
               /\ engine' = [track |-> Current(queue'), state |-> "error"]
            \/ /\ saved # NoQueue /\ Available(Current(queue'))
               /\ audio' = Source(Current(queue')) /\ tasks' = <<Event("loadstart")>>
               /\ engine' = [track |-> Current(queue'), state |-> "loading"]
<1> DEFINE t == Current(queue')
<1>1. queue' = (IF saved = NoQueue THEN q ELSE saved) /\ micro' = <<>> /\ UNCHANGED saved
  BY DEF Restore
<1>2. QueueOK(queue')
  BY <1>1 DEF PlayerTypeOK
<1>3. t \in Tracks \cup {NoTrack}
  BY <1>2, QueueParts
<1>4. IF saved = NoQueue \/ t = NoTrack
      THEN audio' = Source(NoTrack) /\ tasks' = <<>>
      ELSE /\ audio' = Source(IF t \in Unavailable THEN NoTrack ELSE t)
           /\ tasks' = IF t \in Unavailable THEN <<>> ELSE <<Event("loadstart")>>
  BY DEF Restore
<1>5. engine' = IF saved = NoQueue \/ t = NoTrack THEN e
                ELSE [track |-> t, state |-> IF t \in Unavailable THEN "error" ELSE "loading"]
  BY DEF RestoredEngine
<1> HIDE DEF t
<1>6. CASE saved = NoQueue \/ t = NoTrack
  BY <1>1, <1>2, <1>4, <1>5, <1>6 DEF t
<1>7. CASE ~(saved = NoQueue \/ t = NoTrack) /\ t \in Unavailable
  BY <1>1, <1>2, <1>4, <1>5, <1>7 DEF t
<1>8. CASE ~(saved = NoQueue \/ t = NoTrack) /\ t \notin Unavailable
  <2>1. Available(t)
    BY <1>3, <1>8 DEF Available
  <2> QED
    BY <1>1, <1>2, <1>4, <1>5, <1>8, <2>1 DEF t
<1> QED
  BY <1>6, <1>7, <1>8

LEMMA SignInForm ==
  ASSUME PlayerTypeOK, SignIn
  PROVE  Restores
<1>1. /\ ~audio.on /\ micro = <<>> /\ Restore(queue) /\ engine' = RestoredEngine(engine)
      /\ strayed' = FALSE /\ UNCHANGED awaited
  BY DEF SignIn
<1>2. QueueOK(queue) /\ engine \in Engines /\ awaited \in BOOLEAN
  BY DEF PlayerTypeOK
<1> DEFINE e == engine
<1>3. /\ QueueOK(queue') /\ (saved # NoQueue => queue' = saved)
      /\ saved = NoQueue => queue' = queue
      /\ micro' = <<>> /\ UNCHANGED saved
      /\ \/ /\ saved = NoQueue \/ Current(queue') = NoTrack
            /\ audio' = Source(NoTrack) /\ tasks' = <<>> /\ engine' = engine
         \/ /\ saved # NoQueue /\ Current(queue') \in Unavailable
            /\ audio' = Source(NoTrack) /\ tasks' = <<>>
            /\ engine' = [track |-> Current(queue'), state |-> "error"]
         \/ /\ saved # NoQueue /\ Available(Current(queue'))
            /\ audio' = Source(Current(queue')) /\ tasks' = <<Event("loadstart")>>
            /\ engine' = [track |-> Current(queue'), state |-> "loading"]
  BY <1>1, <1>2, RestoreForm
<1> QED
  BY <1>1, <1>2, <1>3 DEF Restores

LEMMA ReloadForm ==
  ASSUME PlayerTypeOK, Reload
  PROVE  Restores
<1> DEFINE e == [track |-> NoTrack, state |-> "idle"]
<1>1. /\ audio.on /\ micro = <<>> /\ Restore(EmptyQueue) /\ engine' = RestoredEngine(e)
      /\ strayed' = FALSE /\ awaited' = FALSE
  BY DEF Reload, Clicks
<1>2. e \in Engines /\ e.track = NoTrack
  BY DEF Engines
<1> HIDE DEF e
<1>3. /\ QueueOK(queue') /\ (saved # NoQueue => queue' = saved)
      /\ saved = NoQueue => queue' = EmptyQueue
      /\ micro' = <<>> /\ UNCHANGED saved
      /\ \/ /\ saved = NoQueue \/ Current(queue') = NoTrack
            /\ audio' = Source(NoTrack) /\ tasks' = <<>> /\ engine' = e
         \/ /\ saved # NoQueue /\ Current(queue') \in Unavailable
            /\ audio' = Source(NoTrack) /\ tasks' = <<>>
            /\ engine' = [track |-> Current(queue'), state |-> "error"]
         \/ /\ saved # NoQueue /\ Available(Current(queue'))
            /\ audio' = Source(Current(queue')) /\ tasks' = <<Event("loadstart")>>
            /\ engine' = [track |-> Current(queue'), state |-> "loading"]
  BY <1>1, <1>2, EmptyOK, RestoreForm
<1> QED
  BY <1>1, <1>2, <1>3 DEF Restores

StepTaken == \/ Reacts \/ Plays \/ Delivers \/ Stops \/ Loads \/ Arrives \/ Falters \/ Pauses
         \/ Edits \/ Forgets \/ Restores

LEMMA StepForms ==
  ASSUME PlayerTypeOK, PlayerOrder, Off, PlayerNext
  PROVE  StepTaken
<1>1. CASE React
  BY <1>1, ReactForm DEF StepTaken
<1>2. CASE PlayNow
  BY <1>2, PlayNowForm DEF StepTaken
<1>3. CASE Deliver
  BY <1>3, DeliverForm DEF StepTaken
<1>4. CASE Ended
  BY <1>4, EndedForm DEF StepTaken
<1>5. CASE DataArrives \/ Resumes
  BY <1>5, DataArrivesForm, ResumesForm DEF StepTaken
<1>6. CASE Stalls \/ LoadFails \/ Breaks \/ TrackEnds
  BY <1>6, StallsForm, LoadFailsForm, BreaksForm, TrackEndsForm DEF StepTaken
<1>7. CASE PlayEntry
  BY <1>7, PlayEntryForm DEF StepTaken
<1>8. CASE Toggle
  BY <1>8, ToggleForm DEF StepTaken
<1>9. CASE EditQueue \/ ShortenQueue \/ AskAlbum \/ AlbumFails
  BY <1>9, EditForm, ShortenForm, AskForm, AlbumFailsForm DEF StepTaken
<1>10. CASE Forget
  BY <1>10, ForgetForm DEF StepTaken
<1>11. CASE SignIn \/ Reload
  BY <1>11, SignInForm, ReloadForm DEF StepTaken
<1>12. ASSUME NEW t \in Tracks, PlayTrack(t) PROVE StepTaken
  BY <1>12, PlayTrackForm DEF StepTaken
<1>13. ASSUME NEW ids \in Albums, AlbumArrives(ids) PROVE StepTaken
  BY <1>13, AlbumForm DEF StepTaken
<1> QED
  BY <1>1, <1>2, <1>3, <1>4, <1>5, <1>6, <1>7, <1>8, <1>9, <1>10, <1>11, <1>12, <1>13
     DEF PlayerNext

----------------------------------------------------------------------------
(* The invariant under each form of step *)

LEMMA StateSet ==
  ASSUME PlayerTypeOK, NEW s \in {"idle", "loading", "buffering", "playing", "paused", "error"},
         NEW e, e = [engine EXCEPT !.state = s]
  PROVE  e \in Engines /\ e.track = engine.track /\ e.state = s
  BY DEF PlayerTypeOK, Engines

LEMMA ShortMicro ==
  /\ <<>> \in Seq(MicroRecs) /\ Len(<<>>) = 0 /\ \A i \in 1 .. Len(<<>>) : FALSE
  /\ \A x \in MicroRecs : /\ <<x>> \in Seq(MicroRecs) /\ Len(<<x>>) = 1 /\ <<x>>[1] = x
                          /\ <<x>> # <<>> /\ \A i \in 1 .. Len(<<x>>) : i = 1
<1>1. \A i \in 1 .. 0 : FALSE
  OBVIOUS
<1>2. \A i \in 1 .. 1 : i = 1
  OBVIOUS
<1> QED
  BY <1>1, <1>2, JustOne, NoneYet

LEMMA ReactsType ==
  ASSUME PlayerTypeOK, PlayerOrder, Reacts
  PROVE  PlayerTypeOK' /\ PlayerOrder'
<1>1. micro \in Seq(MicroRecs) /\ micro # <<>>
  BY DEF PlayerTypeOK, Reacts
<1>2. /\ micro' \in Seq(MicroRecs) /\ Len(micro) \in Nat \ {0} /\ Len(micro') = Len(micro) - 1
      /\ \A i \in 1 .. Len(micro) - 1 : micro'[i] = micro[i + 1]
  BY <1>1, HeadAndTail DEF Reacts
<1>3. \A i \in 1 .. Len(micro') : micro'[i].type = "play" => i = Len(micro')
  <2> TAKE i \in 1 .. Len(micro')
  <2>1. i + 1 \in 1 .. Len(micro) /\ micro'[i] = micro[i + 1]
    BY <1>2
  <2>2. micro[i + 1].type = "play" => i + 1 = Len(micro)
    BY <2>1 DEF PlayerOrder
  <2> QED
    BY <1>2, <2>1, <2>2
<1>4. Len(micro') > 1 => Len(micro) > 1
  BY <1>2
<1>5. engine' \in Engines
  <2>1. PICK s \in {"playing", "paused", "loading", "error"} : engine' = [engine EXCEPT !.state = s]
    BY DEF Reacts
  <2> QED
    BY <2>1, StateSet
<1>6. (saved' = queue \/ saved' = saved) /\ UNCHANGED <<queue, audio, tasks, awaited, strayed>>
  BY DEF Reacts
<1>7. PlayerTypeOK'
  BY <1>2, <1>5, <1>6 DEF PlayerTypeOK
<1>8. PlayerOrder'
  BY <1>3, <1>4, <1>6 DEF PlayerOrder
<1> QED
  BY <1>7, <1>8

LEMMA PlaysType ==
  ASSUME PlayerTypeOK, PlayerOrder, Plays
  PROVE  PlayerTypeOK' /\ PlayerOrder'
<1>1. PICK save \in BOOLEAN :
        Asks(save) /\ (Refused(save) \/ Denied(save) \/ Starts(save) \/ Waits(save))
  BY DEF Plays
<1>2. UNCHANGED <<queue, awaited, strayed>>
  BY DEF Plays
<1>3. audio \in Elements /\ engine \in Engines /\ TasksOK(tasks)
  BY TasksAreOK DEF PlayerTypeOK
<1>4. saved' \in {saved, queue} /\ engine' \in Engines
  BY <1>1, <1>3, StateSet DEF Refused, Denied, Starts, Waits
<1>5. /\ micro' \in Seq(MicroRecs) /\ Len(micro') \in {0, 1}
      /\ \A i \in 1 .. Len(micro') : i = Len(micro')
  <2>1. micro' = <<>> \/ \E x \in MicroRecs : micro' = <<x>>
    BY <1>1 DEF Refused, Denied, Starts, Waits
  <2> QED
    BY <2>1, ShortMicro
<1>6. /\ audio' \in Elements /\ TasksOK(tasks')
      /\ audio'.ended => audio'.paused /\ audio'.data = "ready"
  <2>1. CASE Refused(save) \/ Denied(save)
    BY <1>3, <2>1 DEF Refused, Denied, PlayerOrder
  <2>2. CASE Starts(save)
    <3>1. audio' \in Elements /\ ~audio'.ended
      BY <1>3, <2>2 DEF Starts, Elements
    <3>2. PICK x \in TaskRecs : TaskOK(x) /\ tasks' = Append(tasks, x)
      BY <2>2 DEF Starts
    <3> QED
      BY <1>3, <3>1, <3>2, MoreTasksOK
  <2>3. CASE Waits(save)
    <3>1. ~audio.ended
      BY <2>3 DEF Waits, PlayerOrder
    <3>2. audio' \in Elements /\ audio'.ended = audio.ended
      BY <1>3, <2>3 DEF Waits, Elements
    <3>3. Event("waiting") \in TaskRecs /\ TaskOK(Event("waiting"))
      BY EventOK
    <3>4. tasks' = tasks \/ tasks' = Append(tasks, Event("waiting"))
      BY <2>3 DEF Waits
    <3> QED
      BY <1>3, <3>1, <3>2, <3>3, <3>4, MoreTasksOK
  <2> QED
    BY <1>1, <2>1, <2>2, <2>3
<1>7. PlayerTypeOK'
  BY <1>2, <1>4, <1>5, <1>6 DEF PlayerTypeOK, TasksOK
<1>8. PlayerOrder'
  BY <1>5, <1>6 DEF PlayerOrder, TasksOK
<1> QED
  BY <1>7, <1>8

LEMMA ReactionType ==
  ASSUME NEW t \in TaskRecs, t.settles # "no"
  PROVE  Reaction(t) \in MicroRecs /\ Reaction(t).type = t.settles /\ Reaction(t).save = t.save
  BY DEF Reaction, TaskRecs, MicroRecs

LEMMA DeliversType ==
  ASSUME PlayerTypeOK, PlayerOrder, Delivers
  PROVE  PlayerTypeOK' /\ PlayerOrder'
<1>1. UNCHANGED <<queue, audio, awaited, strayed>> /\ saved' \in {saved, queue}
  BY DEF Delivers
<1>2. tasks # <<>> /\ TasksOK(tasks) /\ tasks' = Tail(tasks)
  BY TasksAreOK DEF Delivers
<1>3. TasksOK(tasks') /\ Head(tasks) \in TaskRecs
  BY <1>2, FewerTasksOK
<1>4. /\ micro' \in Seq(MicroRecs) /\ Len(micro') \in {0, 1}
      /\ \A i \in 1 .. Len(micro') : i = Len(micro')
  <2>1. micro' = <<>> \/ \E x \in MicroRecs : micro' = <<x>>
    BY <1>3, ReactionType DEF Delivers
  <2> QED
    BY <2>1, ShortMicro
<1>5. engine' \in Engines
  <2>1. engine \in Engines
    BY DEF PlayerTypeOK
  <2>2. \A type : StateAfter(type) \in {"idle", "loading", "buffering", "playing", "paused", "error"}
    BY <2>1 DEF StateAfter, WhenItCanPlay, Engines
  <2> HIDE DEF StateAfter
  <2> QED
    BY <2>1, <2>2, StateSet DEF Delivers
<1>6. PlayerTypeOK'
  BY <1>1, <1>3, <1>4, <1>5 DEF PlayerTypeOK, TasksOK
<1>7. PlayerOrder'
  BY <1>1, <1>3, <1>4 DEF PlayerOrder, TasksOK
<1> QED
  BY <1>6, <1>7

LEMMA StopsType ==
  ASSUME PlayerTypeOK, PlayerOrder, Stops
  PROVE  PlayerTypeOK' /\ PlayerOrder'
<1>1. UNCHANGED <<queue, awaited, strayed>> /\ saved' \in {saved, queue}
  BY DEF Stops
<1>2. tasks # <<>> /\ TasksOK(tasks) /\ tasks' = Tail(tasks)
  BY TasksAreOK DEF Stops
<1>3. TasksOK(tasks')
  BY <1>2, FewerTasksOK
<1>4. /\ micro' \in Seq(MicroRecs) /\ Len(micro') \in {0, 1}
      /\ \A i \in 1 .. Len(micro') : i = Len(micro')
  <2> DEFINE x == [type |-> "play", save |-> FALSE]
  <2>1. x \in MicroRecs
    BY DEF MicroRecs
  <2>2. micro' = <<>> \/ micro' = <<x>>
    BY DEF Stops
  <2> HIDE DEF x
  <2> QED
    BY <2>1, <2>2, ShortMicro
<1>5. engine' \in Engines
  BY StateSet DEF Stops, PlayerTypeOK
<1>6. audio' \in Elements /\ (audio'.ended => audio'.paused /\ audio'.data = "ready")
  <2>1. audio \in Elements /\ (audio.ended => audio.paused /\ audio.data = "ready")
    BY DEF PlayerTypeOK, PlayerOrder
  <2>2. audio' = audio \/ audio' = [audio EXCEPT !.ended = FALSE]
    BY DEF Stops
  <2> QED
    BY <2>1, <2>2 DEF Elements
<1>7. PlayerTypeOK'
  BY <1>1, <1>3, <1>4, <1>5, <1>6 DEF PlayerTypeOK, TasksOK
<1>8. PlayerOrder'
  BY <1>3, <1>4, <1>6 DEF PlayerOrder, TasksOK
<1> QED
  BY <1>7, <1>8

LEMMA LoadedType ==
  ASSUME PlayerTypeOK, PlayerOrder, NEW t \in Tracks, LoadDone(t)
  PROVE  /\ audio' \in Elements /\ audio'.on = audio.on /\ TasksOK(tasks') /\ engine' \in Engines
         /\ micro' \in Seq(MicroRecs) /\ PlayerOrder'
<1>1. /\ engine' \in Engines /\ micro' \in Seq(MicroRecs) /\ Len(micro') \in Nat \ {0}
      /\ \A i \in 1 .. Len(micro') : micro'[i].type = "play" <=> i = Len(micro')
  BY DEF LoadDone
<1>2. audio \in Elements /\ TasksOK(tasks)
  BY TasksAreOK DEF PlayerTypeOK
<1>3. CASE ~audio.on
  <2>1. UNCHANGED <<audio, tasks>> /\ micro' = ThenPlay
    BY <1>3 DEF LoadDone
  <2>2. Len(micro') = 1
    BY <2>1, ThenPlayOK
  <2>3. PlayerOrder'
    BY <1>1, <2>1, <2>2 DEF PlayerOrder
  <2> QED
    BY <1>1, <1>2, <2>1, <2>3
<1>4. CASE audio.on
  <2>1. /\ \E s \in Tracks \cup {NoTrack} : audio' = Source(s)
        /\ tasks' = <<>> \/ tasks' = <<Event("loadstart")>>
    BY <1>4 DEF LoadDone
  <2>2. /\ audio' \in Elements /\ audio'.on /\ audio'.data \in {"none", "loading"}
        /\ ~audio'.ended
    BY <2>1, SourceOK
  <2>3. TasksOK(tasks')
    <3>1. Event("loadstart") \in TaskRecs /\ TaskOK(Event("loadstart"))
      BY EventOK
    <3>2. TasksOK(<<Event("loadstart")>>)
      BY <3>1, OneTask
    <3>3. TasksOK(<<>>)
      <4>1. \A i \in 1 .. 0 : FALSE
        OBVIOUS
      <4> QED
        BY <4>1, NoneYet DEF TasksOK
    <3> QED
      BY <2>1, <3>2, <3>3
  <2>4. PlayerOrder'
    BY <1>1, <2>2, <2>3 DEF PlayerOrder, TasksOK
  <2>5. audio'.on = audio.on
    BY <1>2, <1>4, <2>2 DEF Elements
  <2> QED
    BY <1>1, <2>2, <2>3, <2>4, <2>5
<1> QED
  BY <1>3, <1>4

LEMMA LoadsType ==
  ASSUME PlayerTypeOK, PlayerOrder, Loads
  PROVE  PlayerTypeOK' /\ PlayerOrder'
<1>1. PICK t \in Tracks : LoadDone(t)
  BY DEF Loads
<1>2. /\ audio' \in Elements /\ TasksOK(tasks') /\ engine' \in Engines
      /\ micro' \in Seq(MicroRecs) /\ PlayerOrder'
  BY <1>1, LoadedType
<1> QED
  BY <1>2 DEF PlayerTypeOK, TasksOK, Loads

LEMMA ElementType ==
  ASSUME PlayerTypeOK, PlayerOrder, Arrives \/ Falters
  PROVE  PlayerTypeOK' /\ PlayerOrder'
<1>1. /\ micro' = <<>> /\ audio' \in Elements /\ TasksOK(tasks')
      /\ UNCHANGED <<queue, engine, saved, awaited, strayed>>
  BY DEF Arrives, Falters, Sounds
<1>2. audio'.ended => audio'.paused /\ audio'.data = "ready"
  BY DEF Arrives, Falters, PlayerOrder
<1>3. /\ micro' \in Seq(MicroRecs) /\ Len(micro') = 0 /\ \A i \in 1 .. Len(micro') : FALSE
  BY <1>1, ShortMicro
<1>4. PlayerTypeOK'
  BY <1>1, <1>3 DEF PlayerTypeOK, TasksOK
<1>5. PlayerOrder'
  BY <1>1, <1>2, <1>3 DEF PlayerOrder, TasksOK
<1> QED
  BY <1>4, <1>5

LEMMA PausesType ==
  ASSUME PlayerTypeOK, PlayerOrder, Pauses
  PROVE  PlayerTypeOK' /\ PlayerOrder'
<1>1. /\ micro' = <<>> /\ saved' = queue /\ UNCHANGED <<queue, awaited, strayed>>
  BY DEF Pauses
<1>2. audio \in Elements /\ (audio.ended => audio.paused /\ audio.data = "ready")
  BY DEF PlayerTypeOK, PlayerOrder
<1>3. /\ audio' \in Elements /\ audio'.ended = audio.ended /\ audio'.paused
      /\ audio'.data = audio.data
  BY <1>2 DEF Pauses, Elements
<1>4. TasksOK(tasks')
  <2>1. Settling("pause", "abort") \in TaskRecs /\ TaskOK(Settling("pause", "abort"))
    BY SettlingOK
  <2>2. tasks' = tasks \/ tasks' = Append(tasks, Settling("pause", "abort"))
    BY DEF Pauses
  <2> QED
    BY <2>1, <2>2, TasksAreOK, MoreTasksOK
<1>5. /\ micro' \in Seq(MicroRecs) /\ Len(micro') = 0 /\ \A i \in 1 .. Len(micro') : FALSE
  BY <1>1, ShortMicro
<1>6. engine' \in Engines
  BY StateSet DEF Pauses
<1>7. PlayerTypeOK'
  BY <1>1, <1>3, <1>4, <1>5, <1>6 DEF PlayerTypeOK, TasksOK
<1>8. PlayerOrder'
  BY <1>2, <1>3, <1>4, <1>5 DEF PlayerOrder, TasksOK
<1> QED
  BY <1>7, <1>8

LEMMA EditsType ==
  ASSUME PlayerTypeOK, PlayerOrder, Edits
  PROVE  PlayerTypeOK' /\ PlayerOrder'
<1>1. /\ QueueOK(queue') /\ awaited' \in BOOLEAN /\ strayed' \in BOOLEAN
      /\ saved' = queue' \/ UNCHANGED <<queue, saved>>
      /\ UNCHANGED <<engine, audio, tasks, micro>>
  BY DEF Edits
<1> QED
  BY <1>1 DEF PlayerTypeOK, PlayerOrder

LEMMA FreshTasks ==
  /\ TasksOK(<<>>) /\ TasksOK(<<Event("loadstart")>>)
<1>1. Event("loadstart") \in TaskRecs /\ TaskOK(Event("loadstart"))
  BY EventOK
<1>2. TasksOK(<<Event("loadstart")>>)
  BY <1>1, OneTask
<1>3. \A i \in 1 .. 0 : FALSE
  OBVIOUS
<1> QED
  BY <1>2, <1>3, NoneYet DEF TasksOK

LEMMA ForgetsType ==
  ASSUME PlayerTypeOK, PlayerOrder, Forgets
  PROVE  PlayerTypeOK' /\ PlayerOrder'
<1>1. /\ engine' = [track |-> NoTrack, state |-> "idle"] /\ QueueOK(queue') /\ saved' = NoQueue
      /\ audio' \in {Source(NoTrack), NoAudio} /\ tasks' = <<>> /\ micro' = Interrupted
      /\ strayed' \in BOOLEAN /\ UNCHANGED awaited
  BY DEF Forgets
<1>2. Told(micro')
  BY <1>1, InterruptedOK
<1>3. engine' \in Engines
  BY <1>1 DEF Engines
<1>4. audio' \in Elements /\ ~audio'.ended /\ audio'.data = "none"
  <2>1. NoAudio \in Elements /\ ~NoAudio.ended /\ NoAudio.data = "none"
    BY DEF NoAudio, Elements
  <2> QED
    BY <1>1, <2>1, SourceOK
<1>5. TasksOK(tasks')
  BY <1>1, FreshTasks
<1>6. PlayerTypeOK'
  BY <1>1, <1>2, <1>3, <1>4, <1>5 DEF PlayerTypeOK, TasksOK, Told
<1>7. PlayerOrder'
  BY <1>2, <1>4, <1>5 DEF PlayerOrder, TasksOK, Told
<1> QED
  BY <1>6, <1>7

LEMMA RestoresType ==
  ASSUME PlayerTypeOK, PlayerOrder, Restores
  PROVE  PlayerTypeOK' /\ PlayerOrder'
<1>1. /\ micro' = <<>> /\ UNCHANGED saved /\ strayed' \in BOOLEAN /\ awaited' \in BOOLEAN
      /\ QueueOK(queue')
  BY DEF Restores
<1> DEFINE t == Current(queue')
<1>2. t \in Tracks \cup {NoTrack}
  BY <1>1, QueueParts
<1> HIDE DEF t
<1>3. engine' \in Engines
  <2>1. \/ engine' \in Engines
        \/ engine' = [track |-> t, state |-> "error"]
        \/ engine' = [track |-> t, state |-> "loading"]
    BY DEF Restores, t
  <2> QED
    BY <1>2, <2>1 DEF Engines
<1>4. audio' \in Elements /\ ~audio'.ended
  <2>1. audio' = Source(NoTrack) \/ audio' = Source(t)
    BY DEF Restores, t
  <2> QED
    BY <1>2, <2>1, SourceOK
<1>5. TasksOK(tasks')
  <2>1. tasks' = <<>> \/ tasks' = <<Event("loadstart")>>
    BY DEF Restores
  <2> QED
    BY <2>1, FreshTasks
<1>6. /\ micro' \in Seq(MicroRecs) /\ Len(micro') = 0 /\ \A i \in 1 .. Len(micro') : FALSE
  BY <1>1, ShortMicro
<1>7. PlayerTypeOK'
  BY <1>1, <1>3, <1>4, <1>5, <1>6 DEF PlayerTypeOK, TasksOK
<1>8. PlayerOrder'
  BY <1>4, <1>5, <1>6 DEF PlayerOrder, TasksOK
<1> QED
  BY <1>7, <1>8

LEMMA TypeStep ==
  ASSUME PlayerTypeOK, PlayerOrder, StepTaken
  PROVE  PlayerTypeOK' /\ PlayerOrder'
  BY ReactsType, PlaysType, DeliversType, StopsType, LoadsType, ElementType, PausesType,
     EditsType, ForgetsType, RestoresType DEF StepTaken

LEMMA SameTrack ==
  ASSUME PlayerTypeOK, Reacts \/ Plays \/ Delivers \/ Stops \/ Arrives \/ Falters \/ Pauses
  PROVE  engine'.track = engine.track /\ UNCHANGED <<queue, awaited, strayed>>
<1>1. CASE Reacts
  <2>1. PICK s \in {"playing", "paused", "loading", "error"} : engine' = [engine EXCEPT !.state = s]
    BY <1>1 DEF Reacts
  <2> QED
    BY <1>1, <2>1, StateSet DEF Reacts
<1>2. CASE Plays
  <2>1. engine' = [engine EXCEPT !.state = "error"] \/ engine' = engine
    BY <1>2 DEF Plays, Refused, Denied, Starts, Waits
  <2> QED
    BY <1>2, <2>1, StateSet DEF Plays
<1>3. CASE Delivers
  <2>1. engine \in Engines
    BY DEF PlayerTypeOK
  <2>2. engine' = engine \/ \E s : engine' = [engine EXCEPT !.state = s]
    BY <1>3 DEF Delivers
  <2>3. engine'.track = engine.track
    BY <2>1, <2>2 DEF Engines
  <2> QED
    BY <1>3, <2>3 DEF Delivers
<1>4. CASE Stops
  <2>1. engine' = engine \/ engine' = [engine EXCEPT !.state = "idle"]
    BY <1>4 DEF Stops
  <2> QED
    BY <1>4, <2>1, StateSet DEF Stops
<1>5. CASE Arrives \/ Falters
  BY <1>5 DEF Arrives, Falters, Sounds
<1>6. CASE Pauses
  <2>1. engine' = [engine EXCEPT !.state = "paused"]
    BY <1>6 DEF Pauses
  <2> QED
    BY <1>6, <2>1, StateSet DEF Pauses
<1> QED
  BY <1>1, <1>2, <1>3, <1>4, <1>5, <1>6

\* Who signs in finds the engine as it was left: without a track, or with the one
\* that the saved queue names.
LEMMA LeftBehind ==
  ASSUME PlayerTypeOK, Off, CursorNamesTrack, ~audio.on, micro = <<>>
  PROVE  \/ engine.track = NoTrack
         \/ saved = queue /\ saved # NoQueue /\ Current(queue) = engine.track
<1>1. micro # ThenPlay
  BY ThenPlayOK
<1>2. engine.track = NoTrack \/ (~strayed /\ saved = queue)
  BY <1>1 DEF Off
<1>3. queue # NoQueue
  BY NoQueueIsNone DEF PlayerTypeOK
<1> QED
  BY <1>2, <1>3 DEF CursorNamesTrack

\* A new element has the track of the queue, if it is to be had.
LEMMA RestoredParts ==
  ASSUME PlayerTypeOK, Off, CursorNamesTrack, Restores
  PROVE  \/ engine'.track = NoTrack /\ audio' = Source(NoTrack) /\ tasks' = <<>>
         \/ /\ engine'.track \in Unavailable /\ engine'.track = Current(queue')
            /\ audio' = Source(NoTrack) /\ tasks' = <<>> /\ engine'.state = "error"
         \/ /\ Available(engine'.track) /\ engine'.track = Current(queue')
            /\ audio' = Source(engine'.track) /\ tasks' = <<Event("loadstart")>>
            /\ engine'.state = "loading"
<1>1. CASE /\ saved # NoQueue /\ Current(queue') \in Unavailable
           /\ audio' = Source(NoTrack) /\ tasks' = <<>>
           /\ engine' = [track |-> Current(queue'), state |-> "error"]
  <2>1. engine'.track = Current(queue') /\ engine'.state = "error"
    BY <1>1
  <2> QED
    BY <1>1, <2>1
<1>2. CASE /\ saved # NoQueue /\ Available(Current(queue'))
           /\ audio' = Source(Current(queue')) /\ tasks' = <<Event("loadstart")>>
           /\ engine' = [track |-> Current(queue'), state |-> "loading"]
  <2>1. engine'.track = Current(queue') /\ engine'.state = "loading"
    BY <1>2
  <2> QED
    BY <1>2, <2>1
<1>3. CASE /\ saved = NoQueue \/ Current(queue') = NoTrack
           /\ audio' = Source(NoTrack) /\ tasks' = <<>>
           /\ audio.on => engine'.track = NoTrack
           /\ ~audio.on => engine' = engine
  <2>1. engine'.track = NoTrack
    <3>1. CASE ~audio.on
      <4>1. \/ engine.track = NoTrack
            \/ saved = queue /\ saved # NoQueue /\ Current(queue) = engine.track
        BY <3>1, LeftBehind DEF Restores
      <4>2. CASE saved = queue /\ saved # NoQueue /\ Current(queue) = engine.track
        <5>1. queue' = queue
          BY <4>2 DEF Restores
        <5> QED
          BY <1>3, <3>1, <4>2, <5>1
      <4> QED
        BY <1>3, <3>1, <4>1, <4>2
    <3> QED
      BY <1>3, <3>1
  <2> QED
    BY <1>3, <2>1
<1> QED
  BY <1>1, <1>2, <1>3 DEF Restores

LEMMA CursorStep ==
  ASSUME PlayerTypeOK, Off, CursorNamesTrack, StepTaken
  PROVE  CursorNamesTrack'
<1>1. CASE Reacts \/ Plays \/ Delivers \/ Stops \/ Arrives \/ Falters \/ Pauses
  <2>1. engine'.track = engine.track /\ UNCHANGED <<queue, strayed>>
    BY <1>1, SameTrack
  <2> QED
    BY <2>1 DEF CursorNamesTrack, Current
<1>2. CASE Loads
  <2>1. PICK t \in Tracks : LoadDone(t) /\ (strayed' \/ Current(queue') = t)
    BY <1>2 DEF Loads
  <2>2. engine'.track = t
    BY <2>1 DEF LoadDone
  <2> QED
    BY <2>1, <2>2 DEF CursorNamesTrack, Current
<1>3. CASE Edits
  <2>1. UNCHANGED engine /\ (strayed' \/ (~strayed /\ Current(queue') = Current(queue)))
    BY <1>3 DEF Edits
  <2> QED
    BY <2>1 DEF CursorNamesTrack, Current
<1>4. CASE Forgets
  <2>1. engine'.track = NoTrack
    BY <1>4 DEF Forgets
  <2> QED
    BY <2>1 DEF CursorNamesTrack
<1>5. CASE Restores
  <2>1. engine'.track = NoTrack \/ engine'.track = Current(queue')
    BY <1>5, RestoredParts
  <2> QED
    BY <2>1 DEF CursorNamesTrack, Current
<1> QED
  BY <1>1, <1>2, <1>3, <1>4, <1>5 DEF StepTaken

LEMMA OffStep ==
  ASSUME PlayerTypeOK, PlayerOrder, Off, CursorNamesTrack, StepTaken
  PROVE  Off'
<1>1. SUFFICES ASSUME ~audio'.on
               PROVE  /\ audio' = NoAudio /\ tasks' = <<>>
                      /\ engine'.track = NoTrack
                         \/ (~awaited' /\ ~strayed' /\ (micro' = ThenPlay \/ (micro' = <<>> /\ saved' = queue')))
  BY DEF Off, ThenPlay
<1>0. audio \in Elements
  BY DEF PlayerTypeOK
<1>2. CASE Reacts
  <2>1. ~audio.on /\ UNCHANGED <<audio, tasks>> /\ micro # <<>> /\ Head(micro).type # "play"
    BY <1>1, <1>2 DEF Reacts
  <2>2. micro # ThenPlay
    BY <2>1 DEF ThenPlay
  <2>3. engine.track = NoTrack
    BY <2>1, <2>2 DEF Off
  <2> QED
    BY <1>2, <2>1, <2>3, SameTrack DEF Off
<1>3. CASE Plays
  <2>1. PICK save \in BOOLEAN :
          Asks(save) /\ (Refused(save) \/ Denied(save) \/ Starts(save) \/ Waits(save))
    BY <1>3 DEF Plays
  <2>2. ~audio.on
    BY <1>0, <1>1, <2>1 DEF Refused, Denied, Starts, Waits, Playable, Elements
  <2>3. Refused(save) /\ Len(micro) = 1 /\ micro[1].save = save
    BY <2>1, <2>2 DEF Denied, Starts, Waits, Playable, Asks
  <2>4. UNCHANGED <<audio, tasks, queue, awaited, strayed>> /\ micro' = <<>>
        /\ engine'.track = engine.track /\ saved' = IF save THEN queue ELSE saved
    BY <1>3, <2>3, SameTrack DEF Refused
  <2>5. CASE engine.track = NoTrack
    BY <2>2, <2>4, <2>5 DEF Off
  <2>6. CASE engine.track # NoTrack
    <3>1. ~awaited /\ ~strayed /\ (micro = ThenPlay \/ micro = <<>>)
      BY <2>2, <2>6 DEF Off
    <3>2. micro # <<>>
      BY <2>3
    <3>3. save
      BY <2>3, <3>1, <3>2, ThenPlayOK
    <3> QED
      BY <2>2, <2>4, <3>1, <3>3 DEF Off
  <2> QED
    BY <2>5, <2>6
<1>4. CASE Delivers \/ Stops
  <2>1. tasks # <<>> /\ audio'.on = audio.on
    BY <1>0, <1>4 DEF Delivers, Stops, Elements
  <2> QED
    BY <1>1, <2>1 DEF Off
<1>5. CASE Loads
  <2>1. PICK t \in Tracks : LoadDone(t)
    BY <1>5 DEF Loads
  <2>2. ~audio.on /\ UNCHANGED <<audio, tasks>> /\ micro' = ThenPlay
    <3>1. audio'.on = audio.on
      BY <2>1, LoadedType
    <3> QED
      BY <1>1, <2>1, <3>1 DEF LoadDone
  <2>3. ~awaited' /\ ~strayed'
    BY <1>5, <2>2 DEF Loads
  <2> QED
    BY <2>2, <2>3 DEF Off
<1>6. CASE Arrives \/ Falters
  <2>1. audio.data # "none" /\ ~audio.on
    BY <1>1, <1>6 DEF Arrives, Falters, Sounds
  <2>2. audio = NoAudio
    BY <2>1 DEF Off
  <2> QED
    BY <2>1, <2>2 DEF NoAudio
<1>7. CASE Pauses
  <2>1. audio'.on
    BY <1>0, <1>7 DEF Pauses, Elements
  <2> QED
    BY <1>1, <2>1
<1>8. CASE Edits
  <2>1. UNCHANGED <<engine, audio, tasks, micro>> /\ awaited
    BY <1>1, <1>8 DEF Edits
  <2>2. engine.track = NoTrack /\ audio = NoAudio /\ tasks = <<>>
    BY <1>1, <2>1 DEF Off
  <2> QED
    BY <2>1, <2>2
<1>9. CASE Forgets
  <2>1. Source(NoTrack).on
    BY SourceOK
  <2>2. audio' = NoAudio /\ tasks' = <<>> /\ engine'.track = NoTrack
    BY <1>1, <1>9, <2>1 DEF Forgets
  <2> QED
    BY <2>2
<1>10. CASE Restores
  <2>1. Current(queue') \in Tracks \cup {NoTrack}
    BY <1>10, QueueParts DEF Restores
  <2>2. audio'.on
    BY <1>10, <2>1, SourceOK DEF Restores
  <2> QED
    BY <1>1, <2>2
<1> QED
  BY <1>2, <1>3, <1>4, <1>5, <1>6, <1>7, <1>8, <1>9, <1>10 DEF StepTaken

LEMMA SavesStep ==
  ASSUME PlayerTypeOK, PlayerOrder, Off, CursorNamesTrack, Saves, StepTaken
  PROVE  Saves'
<1>0. /\ audio \in Elements /\ TasksOK(tasks) /\ tasks \in Seq(TaskRecs) /\ micro \in Seq(MicroRecs)
      /\ Len(tasks) \in Nat
  BY TasksAreOK DEF PlayerTypeOK
<1>1. CASE Reacts
  <2>1. /\ micro # <<>> /\ micro' = Tail(micro) /\ UNCHANGED <<queue, audio, tasks>>
        /\ saved' = queue \/ (~Head(micro).save /\ saved' = saved)
    BY <1>1 DEF Reacts
  <2>2. CASE saved' = queue
    BY <2>1, <2>2 DEF Saves, SavedNow
  <2>3. CASE ~Head(micro).save /\ saved' = saved
    <3>1. /\ Len(micro) \in Nat \ {0} /\ Head(micro) = micro[1] /\ Len(micro') = Len(micro) - 1
          /\ \A i \in 1 .. Len(micro) - 1 : micro'[i] = micro[i + 1]
      BY <1>0, <2>1, HeadAndTail
    <3>2. ASSUME NEW i \in 1 .. Len(micro), micro[i].save
          PROVE  \E j \in 1 .. Len(micro') : micro'[j].save
      <4>1. i # 1
        BY <2>3, <3>1, <3>2
      <4>2. i - 1 \in 1 .. Len(micro') /\ (i - 1) + 1 = i
        BY <3>1, <4>1
      <4>3. micro'[i - 1] = micro[(i - 1) + 1]
        BY <3>1, <4>2
      <4> QED
        BY <3>2, <4>2, <4>3
    <3>3. SaveDue => SaveDue'
      BY <2>1 DEF SaveDue
    <3>4. SavedNow => SavedNow'
      BY <2>1, <2>3 DEF SavedNow
    <3> QED
      BY <3>2, <3>3, <3>4 DEF Saves
  <2> QED
    BY <2>1, <2>2, <2>3
<1>2. CASE Plays
  <2>1. PICK save \in BOOLEAN :
          Asks(save) /\ (Refused(save) \/ Denied(save) \/ Starts(save) \/ Waits(save))
    BY <1>2 DEF Plays
  <2>2. UNCHANGED queue /\ (saved' = queue \/ saved' = saved)
    BY <1>2, <2>1 DEF Plays, Refused, Denied, Starts, Waits
  <2>3. CASE saved' = queue
    BY <2>2, <2>3 DEF Saves, SavedNow
  <2>4. SavedNow => SavedNow'
    BY <2>2 DEF SavedNow
  <2>5. (\E i \in 1 .. Len(micro) : micro[i].save) => save
    <3>1. CASE micro = <<>>
      BY <3>1, ShortMicro
    <3>2. CASE Len(micro) = 1 /\ micro[1].save = save
      <4>1. \A i \in 1 .. Len(micro) : i = 1
        BY <3>2
      <4> QED
        BY <3>2, <4>1
    <3> QED
      BY <2>1, <3>1, <3>2 DEF Asks
  <2>6. CASE Refused(save) /\ ~save
    <3>1. SaveDue => SaveDue'
      BY <2>6 DEF Refused, SaveDue
    <3> QED
      BY <2>4, <2>5, <2>6, <3>1 DEF Saves
  <2>7. CASE Refused(save) /\ save
    <3>1. saved' = queue
      BY <2>7 DEF Refused
    <3> QED
      BY <2>3, <3>1
  <2>8. CASE Denied(save)
    <3>1. SaveDue => SaveDue'
      BY <2>8 DEF Denied, SaveDue
    <3>2. save => \E i \in 1 .. Len(micro') : micro'[i].save
      <4>1. PICK x \in MicroRecs : x.save = save /\ micro' = <<x>>
        BY <2>8 DEF Denied
      <4>2. Len(micro') = 1 /\ micro'[1] = x
        BY <4>1, ShortMicro
      <4>3. 1 \in 1 .. Len(micro')
        BY <4>2
      <4> QED
        BY <4>1, <4>2, <4>3
    <3> QED
      BY <2>4, <2>5, <3>1, <3>2 DEF Saves
  <2>9. CASE Starts(save)
    <3>1. PICK x \in TaskRecs : /\ x.settles = "resolved" /\ x.save = (audio.save \/ save)
                                /\ tasks' = Append(tasks, x)
      BY <2>9 DEF Starts
    <3>2. /\ Len(tasks') = Len(tasks) + 1 /\ tasks'[Len(tasks) + 1] = x
          /\ \A i \in 1 .. Len(tasks) : tasks'[i] = tasks[i]
      BY <1>0, <3>1, OneMoreTask
    <3>3. Len(tasks) + 1 \in 1 .. Len(tasks') /\ \A i \in 1 .. Len(tasks) : i \in 1 .. Len(tasks')
      BY <1>0, <3>2
    <3>4. save \/ audio.save => SaveDue'
      BY <3>1, <3>2, <3>3 DEF SaveDue
    <3>5. (\E i \in 1 .. Len(tasks) : tasks[i].settles # "no" /\ tasks[i].save) => SaveDue'
      BY <3>2, <3>3 DEF SaveDue
    <3> QED
      BY <2>4, <2>5, <3>4, <3>5 DEF Saves, SaveDue
  <2>10. CASE Waits(save)
    <3>1. audio'.pending /\ audio'.save = (audio.save \/ save)
      BY <1>0, <2>10 DEF Waits, Elements
    <3>2. save \/ audio.save => SaveDue'
      BY <3>1 DEF SaveDue
    <3>3. /\ Len(tasks') \in Nat /\ Len(tasks') >= Len(tasks)
          /\ \A i \in 1 .. Len(tasks) : tasks'[i] = tasks[i]
      <4>1. Event("waiting") \in TaskRecs
        BY EventOK
      <4>2. tasks' = tasks \/ tasks' = Append(tasks, Event("waiting"))
        BY <2>10 DEF Waits
      <4>3. CASE tasks' = tasks
        BY <1>0, <4>3
      <4>4. CASE tasks' = Append(tasks, Event("waiting"))
        <5>1. /\ Len(tasks') = Len(tasks) + 1
              /\ \A i \in 1 .. Len(tasks) : tasks'[i] = tasks[i]
          BY <1>0, <4>1, <4>4, OneMoreTask
        <5> QED
          BY <1>0, <5>1
      <4> QED
        BY <4>2, <4>3, <4>4
    <3>4. \A i \in 1 .. Len(tasks) : i \in 1 .. Len(tasks')
      BY <1>0, <3>3
    <3>5. (\E i \in 1 .. Len(tasks) : tasks[i].settles # "no" /\ tasks[i].save) => SaveDue'
      BY <3>3, <3>4 DEF SaveDue
    <3> QED
      BY <2>4, <2>5, <3>2, <3>5 DEF Saves, SaveDue
  <2> QED
    BY <2>1, <2>6, <2>7, <2>8, <2>9, <2>10
<1>3. CASE Delivers \/ Stops
  <2>1. /\ micro = <<>> /\ tasks # <<>> /\ tasks' = Tail(tasks) /\ saved' \in {saved, queue}
        /\ UNCHANGED queue
    BY <1>3 DEF Delivers, Stops
  <2>2. CASE saved' = queue
    BY <2>1, <2>2 DEF Saves, SavedNow
  <2>3. SavedNow => SavedNow'
    BY <2>1 DEF SavedNow
  <2>4. ~\E i \in 1 .. Len(micro) : micro[i].save
    BY <2>1, ShortMicro
  <2>5. audio.pending /\ audio.save => SaveDue'
    <3>1. audio'.pending = audio.pending /\ audio'.save = audio.save
      BY <1>0, <1>3 DEF Delivers, Stops, Elements
    <3> QED
      BY <3>1 DEF SaveDue
  <2>6. ASSUME NEW i \in 1 .. Len(tasks), tasks[i].settles # "no", tasks[i].save
        PROVE  Saves'
    <3>1. /\ Head(tasks) = tasks[1] /\ Len(tasks') = Len(tasks) - 1
          /\ \A j \in 1 .. Len(tasks) - 1 : tasks'[j] = tasks[j + 1]
      BY <1>0, <2>1, HeadAndTail
    <3>2. CASE i # 1
      <4>1. i - 1 \in 1 .. Len(tasks') /\ (i - 1) + 1 = i /\ i - 1 \in 1 .. Len(tasks) - 1
        BY <1>0, <3>1, <3>2
      <4>2. tasks'[i - 1] = tasks[(i - 1) + 1]
        BY <3>1, <4>1
      <4> QED
        BY <2>6, <4>1, <4>2 DEF Saves, SaveDue
    <3>3. CASE i = 1
      <4>1. Head(tasks).settles # "no" /\ Head(tasks).save
        BY <2>6, <3>1, <3>3
      <4>2. Head(tasks) \in TaskRecs /\ TaskOK(Head(tasks))
        BY <1>0, <2>1, FewerTasksOK
      <4>3. Head(tasks).type # "ended"
        BY <4>1, <4>2 DEF TaskOK, TaskRecs
      <4>4. Delivers
        BY <1>3, <4>3 DEF Stops
      <4>5. micro' = <<Reaction(Head(tasks))>>
        BY <4>1, <4>4 DEF Delivers
      <4>6. Reaction(Head(tasks)) \in MicroRecs /\ Reaction(Head(tasks)).save
        BY <4>1, <4>2, ReactionType
      <4>7. Len(micro') = 1 /\ micro'[1].save
        BY <4>5, <4>6, ShortMicro
      <4>8. 1 \in 1 .. Len(micro')
        BY <4>7
      <4> QED
        BY <4>7, <4>8 DEF Saves
    <3> QED
      BY <3>2, <3>3
  <2>7. SaveDue => Saves'
    BY <2>5, <2>6 DEF SaveDue, Saves
  <2> QED
    BY <2>3, <2>4, <2>7 DEF Saves
<1>4. CASE Loads
  <2>1. PICK t \in Tracks : LoadDone(t)
    BY <1>4 DEF Loads
  <2>2. Len(micro') \in 1 .. Len(micro') /\ micro'[Len(micro')].save
    BY <2>1 DEF LoadDone
  <2> QED
    BY <2>2 DEF Saves
<1>5. CASE Arrives \/ Falters
  <2>1. (SaveDue => SaveDue') /\ micro = <<>> /\ UNCHANGED <<queue, saved>>
    BY <1>5 DEF Arrives, Falters, Sounds
  <2>2. ~\E i \in 1 .. Len(micro) : micro[i].save
    BY <2>1, ShortMicro
  <2> QED
    BY <2>1, <2>2 DEF Saves, SavedNow
<1>6. CASE Pauses
  BY <1>6 DEF Pauses, Saves, SavedNow
<1>7. CASE Edits
  <2>1. saved' = queue' \/ UNCHANGED <<queue, saved>>
    BY <1>7 DEF Edits
  <2>2. UNCHANGED <<audio, tasks, micro>>
    BY <1>7 DEF Edits
  <2> QED
    BY <2>1, <2>2 DEF Saves, SavedNow, SaveDue
<1>8. CASE Forgets
  BY <1>8 DEF Forgets, Saves, SavedNow
<1>9. CASE Restores
  <2>1. CASE saved # NoQueue
    BY <1>9, <2>1 DEF Restores, Saves, SavedNow
  <2>2. CASE saved = NoQueue /\ audio.on
    BY <1>9, <2>2, EmptyOK DEF Restores, Saves, SavedNow
  <2>3. CASE saved = NoQueue /\ ~audio.on
    <3>1. micro = <<>> /\ UNCHANGED saved /\ queue' = queue
      BY <1>9, <2>3 DEF Restores
    <3>2. audio = NoAudio /\ tasks = <<>>
      BY <2>3 DEF Off
    <3>3. ~SaveDue /\ ~\E i \in 1 .. Len(micro) : micro[i].save
      <4>1. \A i \in 1 .. Len(tasks) : FALSE
        BY <3>2, ShortMicro
      <4>2. ~audio.pending
        BY <3>2 DEF NoAudio
      <4> QED
        BY <3>1, <4>1, <4>2, ShortMicro DEF SaveDue
    <3>4. SavedNow
      BY <3>3 DEF Saves
    <3> QED
      BY <3>1, <3>4 DEF Saves, SavedNow
  <2> QED
    BY <1>0, <2>1, <2>2, <2>3 DEF Elements
<1> QED
  BY <1>1, <1>2, <1>3, <1>4, <1>5, <1>6, <1>7, <1>8, <1>9 DEF StepTaken

LEMMA NoTrackIsNone ==
  /\ ~Available(NoTrack)
  /\ \A t \in Unavailable : ~Available(t) /\ t # NoTrack
  /\ \A t \in Tracks \cup {NoTrack} : Available(t) \/ t \in Unavailable \/ t = NoTrack
  BY PlayerConstantsOK DEF Available

LEMMA SilentOK ==
  /\ Source(NoTrack).data = "none" /\ Source(NoTrack).on /\ Source(NoTrack).paused
  /\ Source(NoTrack) \in Elements /\ Source(NoTrack).src = NoTrack
  /\ ~Source(NoTrack).ended /\ ~Source(NoTrack).pending /\ ~Source(NoTrack).save
  BY SourceOK

LEMMA SourceIs ==
  ASSUME NEW t, Available(t)
  PROVE  /\ Source(t).src = t /\ Source(t).data = "loading" /\ Source(t).on /\ Source(t).paused
         /\ ~Source(t).ended
<1>1. t \in Tracks /\ t # NoTrack
  BY PlayerConstantsOK DEF Available
<1> QED
  BY <1>1, SourceOK

\* What is loaded, and whether it is there, is known of every step that loads.
LEMMA LoadedParts ==
  ASSUME PlayerTypeOK, PlayerOrder, NEW t \in Tracks, LoadDone(t)
  PROVE  /\ audio'.on = audio.on /\ engine'.track = t /\ engine'.state # "playing"
         /\ audio.on => IF Available(t)
                        THEN audio' = Source(t) /\ tasks' = <<Event("loadstart")>>
                        ELSE audio' = Source(NoTrack) /\ tasks' = <<>>
         /\ micro' # <<>> /\ micro'[Len(micro')].type = "play"
<1>1. audio'.on = audio.on
  BY LoadedType
<1>2. Len(micro') \in 1 .. Len(micro') /\ micro' \in Seq(MicroRecs)
  BY DEF LoadDone
<1>3. micro' # <<>>
  BY <1>2
<1> QED
  BY <1>1, <1>2, <1>3 DEF LoadDone

LEMMA SrcStep ==
  ASSUME PlayerTypeOK, PlayerOrder, CursorNamesTrack, Off, Src, StepTaken
  PROVE  Src'
<1>0. audio \in Elements /\ engine \in Engines
  BY DEF PlayerTypeOK
<1>s. SUFFICES ASSUME audio'.on
               PROVE  IF Available(engine'.track)
                      THEN audio'.src = engine'.track /\ audio'.data # "none"
                      ELSE audio' = Source(NoTrack) /\ tasks' = <<>>
  BY DEF Src, Available, Source, NoAudio
<1>1. CASE Reacts
  <2>1. UNCHANGED <<audio, tasks>> /\ engine'.track = engine.track
    BY <1>1, SameTrack DEF Reacts
  <2> QED
    BY <1>s, <2>1 DEF Src
<1>2. CASE Plays
  <2>1. PICK save \in BOOLEAN :
          Asks(save) /\ (Refused(save) \/ Denied(save) \/ Starts(save) \/ Waits(save))
    BY <1>2 DEF Plays
  <2>2. engine'.track = engine.track
    BY <1>2, SameTrack
  <2>3. CASE Refused(save) \/ Denied(save)
    <3>1. UNCHANGED <<audio, tasks>>
      BY <2>3 DEF Refused, Denied
    <3> QED
      BY <1>s, <2>2, <3>1 DEF Src
  <2>4. CASE Starts(save) \/ Waits(save)
    <3>1. audio.on /\ Available(engine.track)
      BY <2>4 DEF Starts, Waits, Playable
    <3>2. audio'.src = audio.src /\ audio'.data = audio.data
      BY <1>0, <2>4 DEF Starts, Waits, Elements
    <3> QED
      BY <2>2, <3>1, <3>2 DEF Src
  <2> QED
    BY <2>1, <2>3, <2>4
<1>3. CASE Delivers \/ Stops
  <2>1. /\ tasks # <<>> /\ engine'.track = engine.track
        /\ audio' = audio \/ audio' = [audio EXCEPT !.ended = FALSE]
    BY <1>3, SameTrack DEF Delivers, Stops
  <2>2. audio'.on = audio.on /\ audio'.src = audio.src /\ audio'.data = audio.data
    BY <1>0, <2>1 DEF Elements
  <2> QED
    BY <1>s, <2>1, <2>2 DEF Src
<1>4. CASE Loads
  <2>1. PICK t \in Tracks : LoadDone(t)
    BY <1>4 DEF Loads
  <2>2. /\ audio'.on = audio.on /\ engine'.track = t
        /\ audio.on => IF Available(t)
                       THEN audio' = Source(t) /\ tasks' = <<Event("loadstart")>>
                       ELSE audio' = Source(NoTrack) /\ tasks' = <<>>
    BY <2>1, LoadedParts
  <2> QED
    BY <1>s, <2>2, SourceIs
<1>5. CASE Arrives \/ Falters
  <2>1. /\ audio'.on = audio.on /\ audio'.src = audio.src /\ audio'.data # "none"
        /\ audio.data # "none" /\ engine'.track = engine.track
    BY <1>5 DEF Arrives, Falters, Sounds
  <2>2. audio.on /\ audio # Source(NoTrack)
    BY <1>s, <2>1, SilentOK
  <2> QED
    BY <2>1, <2>2 DEF Src
<1>6. CASE Pauses
  <2>1. engine'.track = engine.track /\ audio.on
    BY <1>6, SameTrack DEF Pauses
  <2>2. /\ audio'.src = audio.src /\ audio'.data = audio.data
    BY <1>0, <1>6 DEF Pauses, Elements
  <2>3. CASE Available(engine.track)
    BY <2>1, <2>2, <2>3 DEF Src
  <2>4. CASE ~Available(engine.track)
    <3>1. audio = Source(NoTrack) /\ tasks = <<>>
      BY <2>1, <2>4 DEF Src
    <3>2. audio' = audio
      <4>1. audio' = [audio EXCEPT !.pending = FALSE, !.save = FALSE, !.paused = TRUE]
        BY <1>6 DEF Pauses
      <4>2. audio.pending = FALSE /\ audio.save = FALSE /\ audio.paused = TRUE
        BY <3>1 DEF Source, NoAudio
      <4> QED
        BY <1>0, <4>1, <4>2 DEF Elements
    <3>3. tasks' = tasks
      BY <1>6, <3>1, SilentOK DEF Pauses
    <3> QED
      BY <2>1, <2>4, <3>1, <3>2, <3>3
  <2> QED
    BY <2>3, <2>4
<1>7. CASE Edits
  <2>1. UNCHANGED <<engine, audio, tasks>>
    BY <1>7 DEF Edits
  <2> QED
    BY <1>s, <2>1 DEF Src
<1>8. CASE Forgets
  <2>1. engine'.track = NoTrack /\ audio' \in {Source(NoTrack), NoAudio} /\ tasks' = <<>>
    BY <1>8 DEF Forgets
  <2>2. ~NoAudio.on
    BY DEF NoAudio
  <2> QED
    BY <1>s, <2>1, <2>2, NoTrackIsNone
<1>9. CASE Restores
  BY <1>9, RestoredParts, NoTrackIsNone, SourceIs
<1> QED
  BY <1>1, <1>2, <1>3, <1>4, <1>5, <1>6, <1>7, <1>8, <1>9 DEF StepTaken

LEMMA MutedStep ==
  ASSUME PlayerTypeOK, PlayerOrder, CursorNamesTrack, Off, Src, Muted, StepTaken
  PROVE  Muted'
<1>0. audio \in Elements /\ engine \in Engines /\ micro \in Seq(MicroRecs)
  BY DEF PlayerTypeOK
<1>s. SUFFICES ASSUME audio'.on, engine'.track \in Unavailable
               PROVE  \/ micro' # <<>> /\ micro'[Len(micro')].type = "play"
                      \/ micro' = <<>> /\ engine'.state # "playing"
  BY DEF Muted
<1>1. CASE Reacts
  <2>1. UNCHANGED audio /\ engine'.track = engine.track
        /\ micro # <<>> /\ Head(micro).type # "play" /\ micro' = Tail(micro)
    BY <1>1, SameTrack DEF Reacts
  <2>2. micro[Len(micro)].type = "play"
    BY <1>s, <2>1 DEF Muted
  <2>3. /\ Len(micro) \in Nat \ {0} /\ Head(micro) = micro[1] /\ Len(micro') = Len(micro) - 1
        /\ \A i \in 1 .. Len(micro) - 1 : micro'[i] = micro[i + 1]
        /\ micro' \in Seq(MicroRecs)
    BY <1>0, <2>1, HeadAndTail
  <2>4. Len(micro) # 1
    BY <2>1, <2>2, <2>3
  <2>5. Len(micro') \in 1 .. Len(micro) - 1 /\ Len(micro') + 1 = Len(micro) /\ Len(micro') # 0
    BY <2>3, <2>4
  <2>6. micro'[Len(micro')] = micro[Len(micro') + 1]
    BY <2>3, <2>5
  <2>7. micro' # <<>>
    BY <2>5, ShortMicro
  <2> QED
    BY <2>2, <2>5, <2>6, <2>7
<1>2. CASE Plays
  <2>1. PICK save \in BOOLEAN :
          Asks(save) /\ (Refused(save) \/ Denied(save) \/ Starts(save) \/ Waits(save))
    BY <1>2 DEF Plays
  <2>2. engine'.track = engine.track
    BY <1>2, SameTrack
  <2>3. Refused(save)
    BY <1>s, <2>1, <2>2, NoTrackIsNone DEF Denied, Starts, Waits, Playable
  <2>4. micro' = <<>> /\ engine' = [engine EXCEPT !.state = "error"]
    BY <2>3 DEF Refused
  <2>5. engine'.state = "error"
    BY <2>4, StateSet
  <2> QED
    BY <2>4, <2>5
<1>3. CASE Delivers \/ Stops
  <2>1. tasks # <<>> /\ engine'.track = engine.track
        /\ (audio' = audio \/ audio' = [audio EXCEPT !.ended = FALSE])
    BY <1>3, SameTrack DEF Delivers, Stops
  <2>2. audio.on
    BY <1>0, <1>s, <2>1 DEF Elements
  <2>3. tasks = <<>>
    BY <1>s, <2>1, <2>2, NoTrackIsNone DEF Src
  <2> QED
    BY <2>1, <2>3
<1>4. CASE Loads
  <2>1. PICK t \in Tracks : LoadDone(t)
    BY <1>4 DEF Loads
  <2> QED
    BY <2>1, LoadedParts
<1>5. CASE Arrives \/ Falters
  <2>1. /\ audio'.on = audio.on /\ audio.data # "none" /\ engine'.track = engine.track
    BY <1>5 DEF Arrives, Falters, Sounds
  <2>2. audio = Source(NoTrack)
    BY <1>s, <2>1, NoTrackIsNone DEF Src
  <2> QED
    BY <2>1, <2>2, SilentOK
<1>6. CASE Pauses
  <2>1. micro' = <<>> /\ engine' = [engine EXCEPT !.state = "paused"]
    BY <1>6 DEF Pauses
  <2>2. engine'.state = "paused"
    BY <2>1, StateSet
  <2> QED
    BY <2>1, <2>2
<1>7. CASE Edits
  <2>1. UNCHANGED <<engine, audio, micro>>
    BY <1>7 DEF Edits
  <2> QED
    BY <1>s, <2>1 DEF Muted
<1>8. CASE Forgets
  <2>1. engine'.track = NoTrack
    BY <1>8 DEF Forgets
  <2> QED
    BY <1>s, <2>1, NoTrackIsNone
<1>9. CASE Restores
  <2>1. micro' = <<>>
    BY <1>9 DEF Restores
  <2>2. engine'.state # "playing"
    BY <1>9, <1>s, RestoredParts, NoTrackIsNone
  <2> QED
    BY <2>1, <2>2
<1> QED
  BY <1>1, <1>2, <1>3, <1>4, <1>5, <1>6, <1>7, <1>8, <1>9 DEF StepTaken

\* What sounds has a track, and has not ended.
LEMMA WorkingParts ==
  ASSUME PlayerTypeOK, PlayerOrder, Off, Src, Working
  PROVE  Playable /\ audio.data = "ready" /\ audio.paused = FALSE /\ audio.ended = FALSE
<1>1. audio.data = "ready" /\ ~audio.paused /\ audio \in Elements
  BY DEF Working, Sounding, PlayerTypeOK
<1>2. audio.on
  BY <1>1 DEF Off, NoAudio
<1>3. Available(engine.track)
  BY <1>1, <1>2, SilentOK DEF Src
<1> QED
  BY <1>1, <1>2, <1>3 DEF Playable, PlayerOrder, Elements

\* What the engine makes of a task that does not say no.
LEMMA HeadSays ==
  ASSUME PlayerTypeOK, PlayerOrder, Delivers, engine.track # NoTrack
  PROVE  /\ Head(tasks) \in TaskRecs /\ TaskOK(Head(tasks)) /\ engine'.state = StateAfter(Head(tasks).type)
         /\ Head(tasks).settles = "resolved" =>
              Len(micro') = 1 /\ micro'[1].type = "resolved"
         /\ Head(tasks).settles # "resolved" =>
              \A i \in 1 .. Len(micro') : micro'[i].type # "resolved"
         /\ Head(tasks).settles = "no" => micro' = <<>>
<1> DEFINE t == Head(tasks)
<1>1. t \in TaskRecs /\ TaskOK(t)
  BY TasksAreOK, FewerTasksOK DEF Delivers
<1>2. micro' = IF t.settles = "no" THEN <<>> ELSE <<Reaction(t)>>
  BY DEF Delivers
<1>3. engine'.state = StateAfter(t.type)
  <2>1. engine' = [engine EXCEPT !.state = StateAfter(t.type)] /\ engine \in Engines
    BY DEF Delivers, PlayerTypeOK
  <2> HIDE DEF t
  <2> QED
    BY <2>1 DEF Engines
<1> HIDE DEF t
<1>4. CASE t.settles = "no"
  BY <1>1, <1>2, <1>3, <1>4, ShortMicro DEF t
<1>5. CASE t.settles # "no"
  <2> DEFINE x == Reaction(t)
  <2>1. x \in MicroRecs /\ x.type = t.settles
    BY <1>1, <1>5, ReactionType
  <2>2. micro' = <<x>>
    BY <1>2, <1>5
  <2> HIDE DEF x
  <2>3. Len(micro') = 1 /\ micro'[1] = x /\ \A i \in 1 .. Len(micro') : i = 1
    BY <2>1, <2>2, ShortMicro
  <2> QED
    BY <1>1, <1>3, <1>5, <2>1, <2>3 DEF t
<1> QED
  BY <1>4, <1>5

LEMMA SoundStep ==
  ASSUME PlayerTypeOK, PlayerOrder, CursorNamesTrack, Off, Src, SoundTold, StepTaken
  PROVE  SoundTold'
<1>0. audio \in Elements /\ engine \in Engines /\ micro \in Seq(MicroRecs) /\ tasks \in Seq(TaskRecs)
  BY DEF PlayerTypeOK
<1>s. SUFFICES ASSUME audio'.data = "ready", ~audio'.paused, ~audio'.broken
               PROVE  \/ LastYes(tasks', audio')
                      \/ /\ ~AnyNo(tasks', audio')
                         /\ \/ micro' = <<>> /\ engine'.state = "playing"
                            \/ Len(micro') = 1 /\ micro'[1].type = "resolved"
  BY DEF SoundTold, Working, Sounding, LastYes, AnyNo, Yes, No
<1>1. CASE Reacts
  <2>1. UNCHANGED <<audio, tasks>> /\ micro # <<>> /\ micro' = Tail(micro)
    BY <1>1 DEF Reacts
  <2>2. Working
    BY <1>s, <2>1 DEF Working, Sounding
  <2>3. CASE LastYes(tasks, audio)
    BY <2>1, <2>3
  <2>4. CASE ~AnyNo(tasks, audio) /\ Len(micro) = 1 /\ micro[1].type = "resolved"
    <3>1. Head(micro) = micro[1] /\ Len(micro') = Len(micro) - 1 /\ micro' \in Seq(MicroRecs)
      BY <1>0, <2>1, HeadAndTail
    <3>2. Len(micro') = 0
      BY <2>4, <3>1
    <3>3. micro' = <<>>
      BY <3>1, <3>2
    <3>4. PICK s \in {"playing", "paused", "loading", "error"} :
            engine' = [engine EXCEPT !.state = s] /\ (Head(micro).type = "resolved" => s = "playing")
      BY <1>1 DEF Reacts
    <3>5. engine'.state = "playing"
      BY <2>4, <3>1, <3>4, StateSet
    <3> QED
      BY <2>1, <2>4, <3>3, <3>5
  <2> QED
    BY <2>1, <2>2, <2>3, <2>4 DEF SoundTold
<1>2. CASE Plays
  <2>1. PICK save \in BOOLEAN :
          Asks(save) /\ (Refused(save) \/ Denied(save) \/ Starts(save) \/ Waits(save))
    BY <1>2 DEF Plays
  <2>2. CASE Refused(save)
    <3>1. UNCHANGED audio /\ ~Playable
      BY <2>2 DEF Refused
    <3>2. Working
      BY <1>s, <3>1 DEF Working, Sounding
    <3> QED
      BY <3>1, <3>2, WorkingParts
  <2>3. CASE Denied(save)
    <3>1. UNCHANGED <<audio, tasks>>
      BY <2>3 DEF Denied
    <3>2. Working
      BY <1>s, <3>1 DEF Working, Sounding
    <3>3. ~(micro = <<>> /\ engine.state = "playing")
      BY <2>1, ShortMicro DEF Asks
    <3>4. ~(Len(micro) = 1 /\ micro[1].type = "resolved")
      BY <2>1, ShortMicro DEF Asks
    <3>5. LastYes(tasks, audio)
      BY <3>2, <3>3, <3>4 DEF SoundTold
    <3> QED
      BY <3>1, <3>5
  <2>4. CASE Starts(save)
    <3>1. PICK x \in TaskRecs : x.settles = "resolved" /\ tasks' = Append(tasks, x)
      BY <2>4 DEF Starts
    <3>2. Yes(x, audio')
      BY <3>1 DEF Yes
    <3> QED
      BY <1>0, <3>1, <3>2, OneMoreSays
  <2>5. CASE Waits(save)
    <3>1. audio'.data # "ready"
      BY <1>0, <2>5 DEF Waits, Elements
    <3> QED
      BY <1>s, <3>1
  <2> QED
    BY <2>1, <2>2, <2>3, <2>4, <2>5
<1>3. CASE Delivers
  <2>1. UNCHANGED audio /\ micro = <<>> /\ tasks # <<>> /\ tasks' = Tail(tasks)
        /\ Head(tasks).type # "ended"
    BY <1>3 DEF Delivers
  <2>2. Working
    BY <1>s, <2>1 DEF Working, Sounding
  <2>3. Available(engine.track) /\ audio.ended = FALSE
    BY <2>2, WorkingParts DEF Playable
  <2> DEFINE t == Head(tasks)
  <2>4. /\ t \in TaskRecs /\ TaskOK(t) /\ engine'.state = StateAfter(t.type)
        /\ t.settles = "resolved" => Len(micro') = 1 /\ micro'[1].type = "resolved"
        /\ t.settles = "no" => micro' = <<>>
    BY <1>3, <2>3, NoTrackIsNone, HeadSays
  <2>5. /\ LastYes(tasks, audio) => LastYes(tasks', audio) \/ (Yes(t, audio) /\ ~AnyNo(tasks', audio))
        /\ ~AnyNo(tasks, audio) => ~No(t, audio) /\ ~AnyNo(tasks', audio)
    BY <1>0, <2>1, OneLessSays
  <2>7. t.type # "ended"
    BY <2>1
  <2> HIDE DEF t
  <2>6. CASE LastYes(tasks, audio)
    <3>1. CASE LastYes(tasks', audio)
      BY <2>1, <3>1
    <3>2. CASE Yes(t, audio) /\ ~AnyNo(tasks', audio)
      <4>1. CASE t.settles = "resolved"
        BY <2>1, <2>4, <3>2, <4>1
      <4>2. CASE t.settles # "resolved"
        <5>1. t.type \in {"playing", "canplay"}
          BY <3>2, <4>2 DEF Yes
        <5>2. t.settles = "no"
          BY <2>4, <4>2, <5>1 DEF TaskOK, TaskRecs
        <5>3. StateAfter(t.type) = "playing"
          BY <1>s, <2>1, <5>1 DEF StateAfter, WhenItCanPlay
        <5> QED
          BY <2>1, <2>4, <3>2, <5>2, <5>3
      <4> QED
        BY <4>1, <4>2
    <3> QED
      BY <2>5, <2>6, <3>1, <3>2
  <2>8. CASE ~AnyNo(tasks, audio) /\ engine.state = "playing"
    <3>1. ~No(t, audio) /\ ~AnyNo(tasks', audio)
      BY <2>5, <2>8
    <3>2. t.type \in {"loadeddata", "canplay", "playing", "none"}
      BY <2>3, <2>4, <3>1 DEF No, TaskRecs
    <3>3. t.settles \in {"no", "resolved"}
      BY <2>4, <3>2 DEF TaskOK, TaskRecs
    <3>4. StateAfter(t.type) = "playing"
      BY <2>8, <3>2 DEF StateAfter, WhenItCanPlay
    <3> QED
      BY <2>1, <2>4, <3>1, <3>3, <3>4
  <2> QED
    BY <2>1, <2>2, <2>6, <2>8, ShortMicro DEF SoundTold
<1>4. CASE Stops
  <2>1. /\ tasks # <<>> /\ tasks' = Tail(tasks) /\ Head(tasks).type = "ended" /\ micro = <<>>
        /\ audio' = audio \/ audio' = [audio EXCEPT !.ended = FALSE]
    BY <1>4 DEF Stops
  <2>2. /\ audio'.data = audio.data /\ audio'.paused = audio.paused
        /\ audio'.broken = audio.broken
        /\ audio'.ended = audio.ended \/ audio'.ended = FALSE
    BY <1>0, <2>1 DEF Elements
  <2>3. Working
    BY <1>s, <2>2 DEF Working, Sounding
  <2>4. audio'.ended = audio.ended
    BY <2>2, <2>3, WorkingParts
  <2>5. Head(tasks) \in TaskRecs /\ TaskOK(Head(tasks))
    BY <2>1, TasksAreOK, FewerTasksOK
  <2>6. No(Head(tasks), audio) /\ ~Yes(Head(tasks), audio)
    BY <2>1, <2>5 DEF No, Yes, TaskOK
  <2>7. LastYes(tasks, audio)
    <3>1. AnyNo(tasks, audio)
      BY <1>0, <2>1, <2>6, OneLessSays
    <3> QED
      BY <2>3, <3>1 DEF SoundTold
  <2>8. LastYes(tasks', audio)
    BY <1>0, <2>1, <2>6, <2>7, OneLessSays
  <2> QED
    BY <2>2, <2>4, <2>8, SameElement
<1>5. CASE Loads
  <2>1. PICK t \in Tracks : LoadDone(t)
    BY <1>5 DEF Loads
  <2>2. CASE audio.on
    <3>1. audio' = Source(NoTrack) \/ (Available(t) /\ audio' = Source(t))
      BY <2>1, <2>2, LoadedParts
    <3> QED
      BY <1>s, <3>1, SilentOK, SourceIs
  <2>3. CASE ~audio.on
    <3>1. audio' = audio
      BY <2>1, <2>3 DEF LoadDone
    <3> QED
      BY <1>s, <2>3, <3>1 DEF Off, NoAudio
  <2> QED
    BY <2>2, <2>3
<1>6. CASE Arrives
  BY <1>6, <1>s DEF Arrives
<1>7. CASE Falters
  BY <1>7, <1>s DEF Falters
<1>8. CASE Pauses
  <2>1. audio'.paused
    BY <1>0, <1>8 DEF Pauses, Elements
  <2> QED
    BY <1>s, <2>1
<1>9. CASE Edits
  <2>1. UNCHANGED <<engine, audio, tasks, micro>>
    BY <1>9 DEF Edits
  <2>2. Working
    BY <1>s, <2>1 DEF Working, Sounding
  <2> QED
    BY <2>1, <2>2 DEF SoundTold
<1>10. CASE Forgets
  <2>1. audio' \in {Source(NoTrack), NoAudio}
    BY <1>10 DEF Forgets
  <2>2. NoAudio.data = "none"
    BY DEF NoAudio
  <2> QED
    BY <1>s, <2>1, <2>2, SilentOK
<1>11. CASE Restores
  BY <1>11, <1>s, RestoredParts, SilentOK, SourceIs
<1> QED
  BY <1>1, <1>2, <1>3, <1>4, <1>5, <1>6, <1>7, <1>8, <1>9, <1>10, <1>11 DEF StepTaken

LEMMA MoreNo ==
  ASSUME NEW e, NEW f, e.paused = f.paused, f.ended => e.ended, NEW s, AllHushed(s, e)
  PROVE  AllHushed(s, f)
<1>1. \A t : Yes(t, e) = Yes(t, f) /\ (No(t, e) => No(t, f))
  BY DEF Yes, No
<1> QED
  BY <1>1 DEF AllHushed

LEMMA LoadstartSays ==
  ASSUME NEW e
  PROVE  AnyNo(<<Event("loadstart")>>, e) /\ AllHushed(<<Event("loadstart")>>, e)
<1> DEFINE t == Event("loadstart")
           s == <<t>>
<1>1. t \in TaskRecs /\ t.type = "loadstart" /\ t.settles = "no"
  BY EventOK
<1> HIDE DEF t
<1>2. No(t, e) /\ ~Yes(t, e)
  BY <1>1 DEF No, Yes
<1>3. Len(s) = 1 /\ s[1] = t
  BY <1>1, JustOne
<1> HIDE DEF s
<1>4. 1 \in 1 .. Len(s) /\ \A i \in 1 .. Len(s) : i = 1
  BY <1>3
<1>5. AnyNo(s, e) /\ AllHushed(s, e)
  BY <1>2, <1>3, <1>4 DEF AnyNo, AllHushed
<1> QED
  BY <1>5 DEF s, t

LEMMA SilenceStep ==
  ASSUME PlayerTypeOK, PlayerOrder, CursorNamesTrack, Off, Src, SilenceTold, StepTaken
  PROVE  SilenceTold'
<1>0. audio \in Elements /\ engine \in Engines /\ micro \in Seq(MicroRecs) /\ tasks \in Seq(TaskRecs)
  BY DEF PlayerTypeOK
<1> DEFINE resolved == \E i \in 1 .. Len(micro') : micro'[i].type = "resolved"
<1>s. SUFFICES ASSUME audio'.on, Available(engine'.track),
                      ~(audio'.data = "ready" /\ ~audio'.paused)
               PROVE  /\ AllHushed(tasks', audio')
                      /\ engine'.state = "playing" \/ resolved => AnyNo(tasks', audio')
  BY DEF SilenceTold, Sounding, AllHushed, AnyNo, Yes, No, Available
<1>n. micro' = <<>> => ~resolved
  BY ShortMicro
<1>1. CASE Reacts
  <2>1. UNCHANGED <<audio, tasks>> /\ micro # <<>> /\ micro' = Tail(micro)
        /\ engine'.track = engine.track
    BY <1>1, SameTrack DEF Reacts
  <2>2. /\ AllHushed(tasks, audio)
        /\ (\E i \in 1 .. Len(micro) : micro[i].type = "resolved") => AnyNo(tasks, audio)
    BY <1>s, <2>1 DEF SilenceTold, Sounding
  <2>3. /\ Len(micro) \in Nat \ {0} /\ Head(micro) = micro[1] /\ Len(micro') = Len(micro) - 1
        /\ \A i \in 1 .. Len(micro) - 1 : micro'[i] = micro[i + 1]
    BY <1>0, <2>1, HeadAndTail
  <2>4. engine'.state = "playing" => \E i \in 1 .. Len(micro) : micro[i].type = "resolved"
    <3>1. PICK s \in {"playing", "paused", "loading", "error"} :
            engine' = [engine EXCEPT !.state = s] /\ (s = "playing" => Head(micro).type = "resolved")
      BY <1>1 DEF Reacts
    <3>2. engine'.state = s
      BY <3>1, StateSet
    <3>3. 1 \in 1 .. Len(micro)
      BY <2>3
    <3> QED
      BY <2>3, <3>1, <3>2, <3>3
  <2>5. resolved => \E i \in 1 .. Len(micro) : micro[i].type = "resolved"
    <3>1. \A i \in 1 .. Len(micro') : i + 1 \in 1 .. Len(micro) /\ micro'[i] = micro[i + 1]
      BY <2>3
    <3> QED
      BY <3>1
  <2> HIDE DEF resolved
  <2> QED
    BY <2>1, <2>2, <2>4, <2>5
<1>2. CASE Plays
  <2>1. PICK save \in BOOLEAN :
          Asks(save) /\ (Refused(save) \/ Denied(save) \/ Starts(save) \/ Waits(save))
    BY <1>2 DEF Plays
  <2>2. engine'.track = engine.track
    BY <1>2, SameTrack
  <2>3. CASE Refused(save)
    BY <1>s, <2>2, <2>3 DEF Refused, Playable
  <2>4. CASE Denied(save)
    <3>1. UNCHANGED <<audio, tasks, engine>>
      BY <2>4 DEF Denied
    <3>2. PICK x \in MicroRecs : x.type # "resolved" /\ micro' = <<x>>
      BY <2>4 DEF Denied
    <3>3. ~resolved
      BY <3>2, ShortMicro
    <3> HIDE DEF resolved
    <3> QED
      BY <1>s, <3>1, <3>3 DEF SilenceTold, Sounding
  <2>5. CASE Starts(save)
    <3>1. audio'.data = "ready" /\ ~audio'.paused
      BY <1>0, <2>5 DEF Starts, Elements
    <3> QED
      BY <1>s, <3>1
  <2>6. CASE Waits(save)
    <3>1. /\ Playable /\ audio.data # "ready" /\ UNCHANGED engine /\ micro' = <<>>
          /\ tasks' = IF audio.paused /\ audio.src # NoTrack THEN Append(tasks, Event("waiting"))
                      ELSE tasks
      BY <2>6 DEF Waits
    <3>2. audio'.paused = FALSE /\ audio'.ended = audio.ended
      BY <1>0, <2>6 DEF Waits, Elements
    <3>3. audio.src # NoTrack
      BY <3>1, NoTrackIsNone DEF Src, Playable
    <3>4. CASE audio.paused
      <4>1. tasks' = Append(tasks, Event("waiting"))
        BY <3>1, <3>3, <3>4
      <4> DEFINE t == Event("waiting")
      <4>2. t \in TaskRecs /\ t.type = "waiting" /\ t.settles = "no"
        BY EventOK
      <4> HIDE DEF t
      <4>3. No(t, audio') /\ ~Yes(t, audio')
        BY <4>2 DEF No, Yes
      <4>4. tasks' = Append(tasks, t)
        BY <4>1 DEF t
      <4> QED
        BY <1>0, <4>2, <4>3, <4>4, OneMoreSays
    <3>5. CASE ~audio.paused
      <4>1. tasks' = tasks /\ audio.paused = FALSE
        BY <1>0, <3>1, <3>5 DEF Elements
      <4>2. AllHushed(tasks, audio) /\ (engine.state = "playing" => AnyNo(tasks, audio))
        BY <3>1 DEF SilenceTold, Sounding, Playable
      <4>3. AllHushed(tasks, audio') /\ (engine.state = "playing" => AnyNo(tasks, audio'))
        BY <3>2, <4>1, <4>2, SameElement
      <4> QED
        BY <1>n, <3>1, <4>1, <4>3
    <3> QED
      BY <3>4, <3>5
  <2> QED
    BY <2>1, <2>3, <2>4, <2>5, <2>6
<1>3. CASE Delivers
  <2>1. UNCHANGED audio /\ micro = <<>> /\ tasks # <<>> /\ tasks' = Tail(tasks)
        /\ Head(tasks).type # "ended" /\ engine'.track = engine.track
    BY <1>3, SameTrack DEF Delivers
  <2>2. AllHushed(tasks, audio) /\ (engine.state = "playing" => AnyNo(tasks, audio))
    BY <1>s, <2>1 DEF SilenceTold, Sounding
  <2> DEFINE t == Head(tasks)
  <2>3. /\ t \in TaskRecs /\ TaskOK(t) /\ engine'.state = StateAfter(t.type)
        /\ t.settles # "resolved" => ~resolved
    <3>1. engine.track # NoTrack
      BY <1>s, <2>1, NoTrackIsNone
    <3> QED
      BY <1>3, <3>1, HeadSays
  <2>4. /\ AllHushed(tasks', audio) /\ (Yes(t, audio) => AnyNo(tasks', audio))
        /\ AnyNo(tasks, audio) /\ ~No(t, audio) => AnyNo(tasks', audio)
    BY <1>0, <2>1, <2>2, OneLessSays
  <2>5. t.type # "ended"
    BY <2>1
  <2> HIDE DEF t, resolved
  <2>6. StateAfter(t.type) = "playing" => Yes(t, audio) \/ (engine.state = "playing" /\ ~No(t, audio))
    <3>1. t.type = "none" => t.settles = "resolved"
      BY <2>3 DEF TaskOK
    <3> QED
      BY <2>3, <2>5, <3>1 DEF StateAfter, WhenItCanPlay, Yes, No, TaskRecs
  <2>7. t.settles = "resolved" => Yes(t, audio)
    BY DEF Yes
  <2> QED
    BY <2>1, <2>2, <2>3, <2>4, <2>6, <2>7
<1>4. CASE Stops
  <2>1. /\ tasks # <<>> /\ tasks' = Tail(tasks) /\ micro = <<>>
        /\ audio' = audio \/ audio' = [audio EXCEPT !.ended = FALSE]
        /\ engine'.track = engine.track
        /\ engine.track # NoTrack => engine'.state = "idle"
    BY <1>4, SameTrack DEF Stops
  <2>2. /\ audio'.data = audio.data /\ audio'.paused = audio.paused /\ audio'.on = audio.on
        /\ audio'.ended => audio.ended
    BY <1>0, <2>1 DEF Elements
  <2>3. AllHushed(tasks, audio)
    BY <1>s, <2>1, <2>2 DEF SilenceTold, Sounding
  <2>4. AllHushed(tasks', audio)
    BY <1>0, <2>1, <2>3, OneLessSays
  <2>5. AllHushed(tasks', audio')
    BY <2>2, <2>4, MoreNo
  <2>6. engine'.state # "playing"
    BY <1>s, <2>1, NoTrackIsNone
  <2>7. ~resolved
    <3> DEFINE x == [type |-> "play", save |-> FALSE]
    <3>1. x \in MicroRecs /\ x.type # "resolved"
      BY DEF MicroRecs
    <3>2. micro' = <<>> \/ micro' = <<x>>
      BY <1>4 DEF Stops
    <3> HIDE DEF x
    <3> QED
      BY <1>n, <3>1, <3>2, ShortMicro
  <2> QED
    BY <2>5, <2>6, <2>7
<1>5. CASE Loads
  <2>1. PICK t \in Tracks : LoadDone(t)
    BY <1>5 DEF Loads
  <2>2. tasks' = <<Event("loadstart")>>
    BY <1>s, <2>1, LoadedParts
  <2> QED
    BY <2>2, LoadstartSays
<1>6. CASE Arrives
  <2>1. /\ audio.data # "ready" /\ audio'.data = "ready" /\ audio'.paused = audio.paused
        /\ audio.paused /\ AllHushed(tasks, audio) => AllHushed(tasks', audio')
        /\ AnyNo(tasks, audio) => AnyNo(tasks', audio')
        /\ UNCHANGED <<engine, micro>> /\ micro = <<>> /\ audio'.on = audio.on
    BY <1>6 DEF Arrives, Sounds
  <2>2. AllHushed(tasks, audio) /\ (engine.state = "playing" => AnyNo(tasks, audio))
    BY <1>s, <2>1 DEF SilenceTold, Sounding
  <2> QED
    BY <1>n, <1>s, <2>1, <2>2
<1>7. CASE Falters
  BY <1>7 DEF Falters
<1>8. CASE Pauses
  <2>1. /\ micro' = <<>> /\ audio.on /\ engine' = [engine EXCEPT !.state = "paused"]
        /\ tasks' = IF audio.paused THEN tasks ELSE Append(tasks, Settling("pause", "abort"))
    BY <1>8 DEF Pauses
  <2>2. engine'.track = engine.track /\ engine'.state = "paused"
    BY <2>1, StateSet
  <2>3. audio'.paused = TRUE /\ audio'.ended = audio.ended
    BY <1>0, <1>8 DEF Pauses, Elements
  <2>4. CASE audio.paused
    <3>1. AllHushed(tasks, audio)
      BY <1>s, <2>1, <2>2, <2>4 DEF SilenceTold, Sounding
    <3>2. audio.paused = TRUE
      BY <1>0, <2>4 DEF Elements
    <3>3. AllHushed(tasks, audio')
      BY <2>3, <3>1, <3>2, SameElement
    <3> QED
      BY <1>n, <2>1, <2>2, <2>4, <3>3
  <2>5. CASE ~audio.paused
    <3> DEFINE t == Settling("pause", "abort")
    <3>1. t \in TaskRecs /\ TaskOK(t) /\ t.type = "pause"
      BY SettlingOK
    <3>2. tasks' = Append(tasks, t)
      BY <2>1, <2>5
    <3> HIDE DEF t
    <3>3. ~audio'.ended
      BY <2>3, <2>5 DEF PlayerOrder
    <3>4. No(t, audio') /\ ~Yes(t, audio')
      BY <3>1, <3>3 DEF No, Yes, TaskOK
    <3> QED
      BY <1>0, <3>1, <3>2, <3>4, OneMoreSays
  <2> QED
    BY <2>4, <2>5
<1>9. CASE Edits
  <2>1. UNCHANGED <<engine, audio, tasks, micro>>
    BY <1>9 DEF Edits
  <2> QED
    BY <1>s, <2>1 DEF SilenceTold, Sounding
<1>10. CASE Forgets
  <2>1. engine'.track = NoTrack
    BY <1>10 DEF Forgets
  <2> QED
    BY <1>s, <2>1, NoTrackIsNone
<1>11. CASE Restores
  <2>1. tasks' = <<Event("loadstart")>>
    BY <1>11, <1>s, RestoredParts, NoTrackIsNone
  <2> QED
    BY <2>1, LoadstartSays
<1> QED
  BY <1>1, <1>2, <1>3, <1>4, <1>5, <1>6, <1>7, <1>8, <1>9, <1>10, <1>11 DEF StepTaken

----------------------------------------------------------------------------
(* What holds of the player *)

LEMMA PlayerInvInit ==
  ASSUME PlayerInit
  PROVE  PlayerInv
<1>1. /\ queue = EmptyQueue /\ saved = NoQueue /\ engine = [track |-> NoTrack, state |-> "idle"]
      /\ audio = Source(NoTrack) /\ tasks = <<>> /\ micro = <<>>
      /\ awaited = FALSE /\ strayed = FALSE
  BY DEF PlayerInit
<1>2. QueueOK(queue) /\ queue.ids = <<>>
  BY <1>1, EmptyOK
<1>3. engine \in Engines /\ engine.track = NoTrack /\ engine.state = "idle"
  BY <1>1 DEF Engines
<1>4. /\ audio \in Elements /\ audio.data = "none" /\ audio.on /\ ~audio.ended
  BY <1>1, SilentOK
<1>5. TasksOK(tasks)
  BY <1>1, FreshTasks
<1>6. /\ micro \in Seq(MicroRecs) /\ Len(micro) = 0 /\ \A i \in 1 .. Len(micro) : FALSE
  BY <1>1, ShortMicro
<1>7. PlayerTypeOK
  BY <1>1, <1>2, <1>3, <1>4, <1>5, <1>6 DEF PlayerTypeOK, TasksOK
<1>8. PlayerOrder
  BY <1>4, <1>5, <1>6 DEF PlayerOrder, TasksOK
<1>9. CursorNamesTrack /\ Off /\ Muted
  BY <1>3, <1>4, NoTrackIsNone DEF CursorNamesTrack, Off, Muted
<1>10. Saves
  BY <1>1, <1>2 DEF Saves, SavedNow
<1>11. Src
  BY <1>1, <1>3, NoTrackIsNone DEF Src
<1>12. SoundTold /\ SilenceTold
  BY <1>3, <1>4, NoTrackIsNone DEF SoundTold, SilenceTold, Working, Sounding
<1> QED
  BY <1>7, <1>8, <1>9, <1>10, <1>11, <1>12 DEF PlayerInv

LEMMA PlayerInvNext ==
  ASSUME PlayerInv, [PlayerNext]_playerVars
  PROVE  PlayerInv'
<1>1. CASE PlayerNext
  <2>1. StepTaken
    BY <1>1, StepForms DEF PlayerInv
  <2>2. PlayerTypeOK' /\ PlayerOrder'
    BY <2>1, TypeStep DEF PlayerInv
  <2>3. CursorNamesTrack' /\ Off' /\ Saves'
    BY <2>1, CursorStep, OffStep, SavesStep DEF PlayerInv
  <2>4. Src' /\ Muted'
    BY <2>1, SrcStep, MutedStep DEF PlayerInv
  <2>5. SoundTold' /\ SilenceTold'
    BY <2>1, SoundStep, SilenceStep DEF PlayerInv
  <2> QED
    BY <2>2, <2>3, <2>4, <2>5 DEF PlayerInv
<1>2. CASE UNCHANGED playerVars
  <2>1. UNCHANGED <<queue, engine, audio, tasks, micro, saved, awaited, strayed>>
    BY <1>2 DEF playerVars
  <2>2. PlayerTypeOK' /\ PlayerOrder'
    BY <2>1 DEF PlayerInv, PlayerTypeOK, PlayerOrder
  <2>3. CursorNamesTrack' /\ Off' /\ Saves'
    BY <2>1 DEF PlayerInv, CursorNamesTrack, Current, Off, Saves, SavedNow, SaveDue
  <2>4. Src' /\ Muted'
    BY <2>1 DEF PlayerInv, Src, Muted
  <2>5. SoundTold' /\ SilenceTold'
    BY <2>1 DEF PlayerInv, SoundTold, SilenceTold, Working, Sounding
  <2> QED
    BY <2>2, <2>3, <2>4, <2>5 DEF PlayerInv
<1> QED
  BY <1>1, <1>2

LEMMA PlayerInvariant == PlayerSpec => []PlayerInv
  BY PlayerInvInit, PlayerInvNext, PTL DEF PlayerSpec

\* Every variable of the player keeps its type: the cursor stays within the queue
\* and the queue within QUEUE_LIMIT (queue.ts:6, queue.ts:52).
THEOREM PlayerTyped == PlayerSpec => []PlayerTypeOK
<1>1. PlayerInv => PlayerTypeOK
  BY DEF PlayerInv
<1> QED
  BY <1>1, PlayerInvariant, PTL

\* The queue names the track the engine has, whatever is added, removed and shuffled
\* around it, until the current entry itself is taken away (queue.ts:128, queue.ts:167).
THEOREM QueueNamesTrack == PlayerSpec => []CursorNamesTrack
<1>1. PlayerInv => CursorNamesTrack
  BY DEF PlayerInv
<1> QED
  BY <1>1, PlayerInvariant, PTL

LEMMA SavedWhenNothingIsDue ==
  ASSUME PlayerInv
  PROVE  SavedAtRest
<1> SUFFICES ASSUME micro = <<>>, ~audio.pending, \A i \in DOMAIN tasks : tasks[i].settles = "no"
             PROVE  SavedNow
  BY DEF SavedAtRest, SavedNow
<1>1. tasks \in Seq(TaskRecs)
  BY DEF PlayerInv, PlayerTypeOK
<1>2. \A i \in 1 .. Len(tasks) : tasks[i].settles = "no"
  BY <1>1
<1>3. ~SaveDue /\ ~\E i \in 1 .. Len(micro) : micro[i].save
  BY <1>2, ShortMicro DEF SaveDue
<1> QED
  BY <1>3 DEF PlayerInv, Saves

\* A reload loses no change of the queue but a change of track that is still being
\* prepared (PlayerStore.persist, state.ts:233).
THEOREM QueueIsSaved == PlayerSpec => []SavedAtRest
  BY SavedWhenNothingIsDue, PlayerInvariant, PTL

LEMMA HeardAtRest ==
  ASSUME PlayerInv
  PROVE  PlayingIsHeard
<1> SUFFICES ASSUME AtRest, audio.on, engine.track # NoTrack
             PROVE  /\ engine.state = "playing" => Audible
                    /\ Audible /\ ~audio.broken => engine.state = "playing"
  BY DEF PlayingIsHeard
<1>1. micro = <<>> /\ tasks = <<>> /\ engine.track \in Tracks \cup {NoTrack}
  BY DEF AtRest, PlayerInv, PlayerTypeOK, Engines
<1>2. ~AnyNo(tasks, audio) /\ ~LastYes(tasks, audio)
  BY <1>1, ShortMicro DEF AnyNo, LastYes
<1>3. CASE Available(engine.track)
  <2>1. audio.src = engine.track
    BY <1>3 DEF PlayerInv, Src
  <2>2. Working => engine.state = "playing"
    BY <1>1, <1>2, ShortMicro DEF PlayerInv, SoundTold
  <2>3. ~Sounding => engine.state # "playing"
    BY <1>2, <1>3 DEF PlayerInv, SilenceTold
  <2> QED
    BY <2>1, <2>2, <2>3 DEF Working, Sounding, Audible
<1>4. CASE engine.track \in Unavailable
  <2>1. audio = Source(NoTrack)
    BY <1>4, NoTrackIsNone DEF PlayerInv, Src
  <2>2. audio.data # "ready"
    BY <2>1, SilentOK
  <2>3. engine.state # "playing"
    BY <1>1, <1>4 DEF PlayerInv, Muted
  <2> QED
    BY <2>2, <2>3 DEF Audible
<1> QED
  BY <1>1, <1>3, <1>4, NoTrackIsNone

\* Once every event and promise has been told, in whatever order they came, "playing"
\* is shown only while the element plays the selected track, and whenever it does,
\* also when errors came before, with or after the others (engine.ts:3). What the
\* element plays after a fatal error need not be heard: MCPlayerBroken.cfg.
THEOREM PlayingMeansSound == PlayerSpec => []PlayingIsHeard
  BY HeardAtRest, PlayerInvariant, PTL

=============================================================================
