------------------------------ MODULE WebSearch ------------------------------
(***************************************************************************)
(* The search page of the web client: SearchController and the SearchBox   *)
(* that drives it. Typing waits for a timer, input methods compose, every  *)
(* search has a generation, and answers arrive in any order or not at all. *)
(*                                                                         *)
(* An aborted request is one of an older generation here: run and schedule *)
(* abort exactly when they begin a new generation. Nothing in the client   *)
(* calls cancel or reset, which would do only one of the two.              *)
(***************************************************************************)
EXTENDS Integers, Sequences

CONSTANTS Queries,  \* texts that can be searched
          Blank,    \* a text of spaces, or none
          TooLong,  \* a text of more than maxChars
          PagesOf,  \* how many pages of results the server has for a query
          MaxInputs \* bound: how often the user acts

Texts == Queries \cup {Blank, TooLong}

ASSUME ConstantsOK ==
    /\ Blank \notin Queries /\ TooLong \notin Queries /\ Blank # TooLong
    /\ PagesOf \in [Queries -> Nat]
    /\ MaxInputs \in Nat

VARIABLES
    box,      \* the controller: its state, timer and generation
    requests, \* the fetches without an answer
    inputs    \* how often the user acted

vars == <<box, requests, inputs>>

----------------------------------------------------------------------------
(* The controller *)

\* has_more and next_cursor: the number of the next page, 0 for none.
NextPage(q, n) == IF n < PagesOf[q] THEN n + 1 ELSE 0

Fetch(s, page) == [generation |-> s.generation, query |-> s.query, page |-> page]

\* The timer not cleared, a mutant.
TimerKept(s) == s
\* cancelPending
CancelPending(s) == [s EXCEPT !.timer = FALSE]

\* schedule, after every change of the text.
Schedule(s) ==
    LET c == CancelPending(s) IN
    CASE s.text = Blank ->
           [c EXCEPT !.generation = @ + 1, !.query = Blank, !.phase = "blank",
                     !.items = <<>>, !.next = 0]
      [] s.text = TooLong -> [c EXCEPT !.phase = "too-long"]
      [] OTHER -> [c EXCEPT !.timer = TRUE]

\* A query that is shown already left alone, a mutant.
RunsIfNew(s) == s.text \in Queries /\ ~s.composing /\ s.text # s.query
\* run has nothing to search for, or must not disturb the input method.
Runs(s) == s.text \in Queries /\ ~s.composing

Run(s) ==
    [s EXCEPT !.generation = @ + 1, !.query = s.text, !.phase = "loading",
              !.items = <<>>, !.next = 0]

Init ==
    /\ box = [text |-> Blank, query |-> Blank, phase |-> "blank", items |-> <<>>,
              next |-> 0, loadingMore |-> FALSE, composing |-> FALSE,
              timer |-> FALSE, generation |-> 0]
    /\ requests = {} /\ inputs = 0

Acts == inputs < MaxInputs /\ inputs' = inputs + 1

\* setText; the box keeps what an input method shows meanwhile to itself.
Type(t) ==
    /\ ~box.composing /\ Acts
    /\ box' = Schedule([box EXCEPT !.text = t])
    /\ UNCHANGED requests

\* setComposing(true)
Compose ==
    /\ ~box.composing /\ Acts
    /\ box' = [CancelPending(box) EXCEPT !.composing = TRUE, !.phase = "composing"]
    /\ UNCHANGED requests

\* setComposing(false) schedules the text of before, then setText the new one.
Composed(t) ==
    /\ box.composing /\ Acts
    /\ box' = Schedule([Schedule([box EXCEPT !.composing = FALSE]) EXCEPT !.text = t])
    /\ UNCHANGED requests

Search(s) ==
    IF Runs(s) THEN /\ box' = Run(s)
                    /\ requests' = requests \cup {Fetch(Run(s), 1)}
               ELSE box' = s /\ UNCHANGED requests

\* submit, by the Enter key or the button to try again.
Submit ==
    /\ ~box.composing /\ Acts
    /\ Search(CancelPending(box))

\* The timer of schedule.
Fire ==
    /\ box.timer
    /\ Search(CancelPending(box))
    /\ UNCHANGED inputs

\* loadMore
LoadMore ==
    /\ box.next # 0 /\ ~box.loadingMore /\ box.query # Blank /\ Acts
    /\ box' = [box EXCEPT !.loadingMore = TRUE]
    /\ requests' = requests \cup {Fetch(box, box.next)}

\* Late answers taken for new ones, a mutant.
AnyGeneration(r) == TRUE
IsCurrent(r) == r.generation = box.generation

Item(q, n) == [query |-> q, page |-> n]
Found(r) == IF r.page <= PagesOf[r.query] THEN <<Item(r.query, r.page)>> ELSE <<>>

\* A page replaces the list or is appended to it.
Extended(r) == IF r.page = 1 THEN Found(r) ELSE box.items \o Found(r)
Loaded(r) ==
    [box EXCEPT !.items = Extended(r), !.next = NextPage(r.query, r.page),
                !.phase = IF r.page = 1 /\ Found(r) = <<>> THEN "empty" ELSE "ready",
                !.loadingMore = @ /\ r.page = 1]

Answer(r) ==
    /\ r \in requests
    /\ requests' = requests \ {r}
    /\ box' = IF IsCurrent(r) THEN Loaded(r)
              ELSE [box EXCEPT !.loadingMore = @ /\ r.page = 1]
    /\ UNCHANGED inputs

\* A fetch fails, or ends because it was aborted. A loadMore of an older
\* generation leaves loadingMore as it is.
Fails(r) ==
    /\ r \in requests
    /\ requests' = requests \ {r}
    /\ box' = IF IsCurrent(r)
              THEN [box EXCEPT !.phase = "error", !.loadingMore = @ /\ r.page = 1]
              ELSE box
    /\ UNCHANGED inputs

Ends(r) == Answer(r) \/ Fails(r)

Next ==
    \/ Compose \/ Submit \/ Fire \/ LoadMore
    \/ \E t \in Texts : Type(t) \/ Composed(t)
    \/ \E r \in requests : Ends(r)

Spec == Init /\ [][Next]_vars

\* Timers fire and the browser gives every fetch an end; users owe nothing.
Fairness == WF_vars(Fire) /\ WF_vars(\E r \in requests : Ends(r))
FairSpec == Spec /\ Fairness

----------------------------------------------------------------------------
(* Properties *)

Requests == [generation : Nat, query : Queries, page : Nat \ {0}]
Items == [query : Queries, page : Nat \ {0}]
Boxes == [text : Texts, query : Queries \cup {Blank},
          phase : {"blank", "too-long", "composing", "loading", "ready",
                   "empty", "error"},
          items : Seq(Items), next : Nat,
          loadingMore : BOOLEAN, composing : BOOLEAN, timer : BOOLEAN,
          generation : Nat]

\* Every variable keeps its type.
TypeOK ==
    /\ box \in Boxes
    /\ requests \subseteq Requests
    /\ inputs \in 0 .. MaxInputs

\* The list is a beginning of the results of the query it is shown for, each
\* page once and in order, and the cursor is that of its end: whatever is
\* typed, and in whatever order the answers of this and of older searches
\* arrive (search.ts:68, search.ts:212).
ListIsOfItsQuery ==
    /\ \A i \in DOMAIN box.items : box.items[i] = Item(box.query, i)
    /\ box.next # 0 => box.next = Len(box.items) + 1 /\ box.next <= PagesOf[box.query]

\* A text that stays is searched in the end and gets its answer or an error,
\* however many timers, searches and compositions it took the place of. A blank
\* text ends with an empty list.
LastTextAnswered ==
    <>[](\/ box.composing \/ box.text = TooLong
         \/ box.text = Blank /\ box.phase = "blank" /\ box.items = <<>>
         \/ box.query = box.text /\ box.phase \in {"ready", "empty", "error"})

\* While an input method composes nothing new is searched for: no generation begins
\* and no timer is left to begin one (search.ts:5). Pages of what was searched for
\* before may still come, and change the list.
QuietWhileComposing ==
    [][box.composing /\ box'.composing =>
         box'.generation = box.generation /\ ~box'.timer]_vars

\* Which the test of loadMore takes for granted (player.test.ts:557): more can be
\* asked for once nothing more is on its way. It does not hold: a loadMore that
\* fails after a newer search began leaves loadingMore set.
MoreIsUnderWay == box.loadingMore => \E r \in requests : r.page > 1

============================================================================
