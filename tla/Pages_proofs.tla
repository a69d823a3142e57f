---------------------------- MODULE Pages_proofs ----------------------------
(***************************************************************************)
(* For every set of tracks, every page size and whatever scans write       *)
(* between and during the pages: a listing shows no untouched track twice, *)
(* and a complete one of one query per page shows every untouched match    *)
(* exactly once.                                                           *)
(*                                                                         *)
(* The argument is that of the cursor. An untouched row has been shown     *)
(* just if its entry is not behind the cursor; the rows of a query are     *)
(* behind it; and as the order of entries is total, a page that was cut    *)
(* has left out only what is behind its own last row.                      *)
(***************************************************************************)
EXTENDS Pages, FiniteSetTheorems, TLAPS

\* The entry of a row as the table has it.
Own(id) == Entry(scope, id, table[id])
Meets(id) == Matches(scope, table[id])
\* The pages up to the cursor cover the entry.
Covered(id) == cursor # NoEntry /\ ~Behind(Own(id), cursor)

Paging == at \in {"query", "build", "ready"}

\* Rows of the page in the making are behind the cursor: of untouched tracks,
\* those not yet covered.
RowsInv ==
    \A e \in rows :
        /\ cursor # NoEntry => Behind(e, cursor)
        /\ e.id \in Untouched => e = Own(e.id) /\ ~Covered(e.id)

ShownInv ==
    \A id \in Untouched :
        /\ shown[id] <= 1
        /\ Paging /\ shown[id] = 1 => Covered(id)

\* A page that is ready to be built has all matches, or as many as do not fit
\* and come first.
BuiltFrom(id) ==
    /\ Own(id) \in rows => Meets(id)
    /\ Meets(id) /\ ~Covered(id) /\ Own(id) \notin rows =>
         Cardinality(rows) > Limit /\ \A e \in rows : After(Own(id), e)

\* Listings of one query per page.
SingleInv ==
    scope # "prefix" =>
        /\ at = "query" => todo = <<scope>> /\ rows = {}
        /\ Paging => \A id \in Untouched :
             shown[id] = IF Meets(id) /\ Covered(id) THEN 1 ELSE 0
        /\ at = "build" => \A id \in Untouched : BuiltFrom(id)
        /\ at = "done" => \A id \in Untouched :
             shown[id] = IF Meets(id) THEN 1 ELSE 0

Inv == /\ TypeOK /\ RowsInv /\ ShownInv /\ SingleInv
       /\ IsFiniteSet(rows) /\ (at = "query" => todo # <<>>)

----------------------------------------------------------------------------
(* The order of entries *)

LEMMA EntryFields ==
  ASSUME NEW e \in Entries
  PROVE  e.key \in Int /\ e.id \in Int /\ e.id # 0
         /\ e = [id |-> e.id, key |-> e.key]
<1>1. e.key \in Int /\ e.id \in Ids /\ e = [id |-> e.id, key |-> e.key]
  BY DEF Entries
<1> QED
  BY <1>1, ConstantsOK

LEMMA OrderTotal ==
  ASSUME NEW e \in Entries, NEW f \in Entries, e # f
  PROVE  After(e, f) \/ After(f, e)
<1>1. e.key # f.key \/ e.id # f.id
  BY EntryFields
<1> QED
  BY <1>1, EntryFields DEF After

LEMMA OrderStrict ==
  ASSUME NEW e \in Entries, NEW f \in Entries, After(e, f)
  PROVE  ~After(f, e) /\ e # f
  BY EntryFields DEF After

LEMMA OrderTransitive ==
  ASSUME NEW e \in Entries, NEW f \in Entries, NEW g \in Entries,
         After(e, f), After(f, g)
  PROVE  After(e, g)
  BY EntryFields DEF After

LEMMA EntryTyped ==
  ASSUME NEW s \in AllScopes, NEW id \in Ids, NEW row \in Row
  PROVE  Entry(s, id, row) \in Entries /\ Entry(s, id, row).id = id
<1>1. Key(s, id, row) \in Int
  <2>1. CASE s = "recent"
    BY <2>1, ConstantsOK DEF Key
  <2>2. CASE s = "album"
    BY <2>2, ConstantsOK DEF Key, Row
  <2>3. CASE s # "recent" /\ s # "album"
    BY <2>3, ConstantsOK DEF Key, Row
  <2> QED
    BY <2>1, <2>2, <2>3
<1> QED
  BY <1>1 DEF Entry, Entries

LEMMA EntriesNotNone == NoEntry \notin Entries
  BY EntryFields DEF NoEntry

\* Types used again and again.
LEMMA Typed ==
  ASSUME TypeOK
  PROVE  /\ scope \in AllScopes
         /\ \A id \in Ids : table[id] # NoRow => Own(id) \in Entries /\ Own(id).id = id
         /\ rows \subseteq Entries
         /\ cursor # NoEntry => cursor \in Entries
         /\ Untouched \subseteq Ids
         /\ \A id \in Untouched : table[id] # NoRow
<1>1. scope \in AllScopes /\ table \in [Ids -> Row \cup {NoRow}]
  BY ConstantsOK DEF TypeOK
<1>2. \A id \in Ids : table[id] # NoRow => Own(id) \in Entries /\ Own(id).id = id
  BY <1>1, EntryTyped DEF Own
<1> QED
  BY <1>1, <1>2 DEF TypeOK, Untouched

\* How often a set of entries with one entry per track has one of it.
LEMMA CountOne ==
  ASSUME TypeOK, NEW items, NEW id \in Ids, NEW x \in items, x.id = id,
         \A e \in items : e.id = id => e = x, shown[id] = 0
  PROVE  Count(items)[id] = 1
<1>1. {e \in items : e.id = id} = {x}
  OBVIOUS
<1>2. Cardinality({e \in items : e.id = id}) = 1
  BY <1>1, FS_Singleton
<1> QED
  BY <1>2 DEF Count

LEMMA CountNone ==
  ASSUME TypeOK, NEW items, NEW id \in Ids, \A e \in items : e.id # id,
         shown[id] <= 1
  PROVE  Count(items)[id] = shown[id]
<1>1. {e \in items : e.id = id} = {}
  OBVIOUS
<1>2. Cardinality({e \in items : e.id = id}) = 0
  BY <1>1, FS_EmptySet
<1>3. shown[id] \in 0 .. 2
  BY DEF TypeOK
<1> QED
  BY <1>2, <1>3 DEF Count

LEMMA CountTyped ==
  ASSUME TypeOK, IsFiniteSet(rows), NEW items \in SUBSET rows
  PROVE  Count(items) \in [Ids -> 0 .. 2]
<1> SUFFICES ASSUME NEW id \in Ids PROVE Count(items)[id] \in 0 .. 2
  BY DEF Count
<1> DEFINE mine == {e \in items : e.id = id}
<1>1. Cardinality(mine) \in Nat
  <2>1. mine \in SUBSET rows
    OBVIOUS
  <2> HIDE DEF mine
  <2> QED
    BY <2>1, FS_Subset, FS_CardinalityType
<1>2. shown[id] \in 0 .. 2
  BY DEF TypeOK
<1>3. Count(items)[id] = IF shown[id] + Cardinality(mine) > 2 THEN 2
                         ELSE shown[id] + Cardinality(mine)
  BY DEF Count
<1> HIDE DEF mine
<1> QED
  BY <1>1, <1>2, <1>3

LEMMA FoundFinite ==
  ASSUME TypeOK, NEW query
  PROVE  IsFiniteSet(Found(query))
<1> DEFINE S == {i \in Ids : Matches(query, table[i])}
           f == [id \in S |-> Entry(scope, id, table[id])]
<1>1. IsFiniteSet(S)
  <2>1. S \in SUBSET Ids
    OBVIOUS
  <2> HIDE DEF S
  <2> QED
    BY <2>1, FS_Subset, ConstantsOK
<1>2. f \in Surjection(S, Found(query))
  BY DEF Surjection, Found
<1> HIDE DEF S, f
<1> QED
  BY <1>1, <1>2, FS_Surjection

----------------------------------------------------------------------------
(* The steps *)

\* A step that keeps the listing of the untouched tracks as it is.
LEMMA SameListing ==
  ASSUME Inv, TypeOK', UNCHANGED <<scope, at, cursor, todo, rows, shown>>,
         \A id \in Untouched' : id \in Untouched /\ table'[id] = table[id]
  PROVE  Inv'
<1>1. \A id \in Untouched' : /\ Own(id)' = Own(id) /\ Covered(id)' = Covered(id)
                              /\ Meets(id)' = Meets(id)
  BY DEF Own, Covered, Meets
<1>2. Untouched' \subseteq Untouched
  OBVIOUS
<1>3. RowsInv'
  BY <1>1, <1>2 DEF Inv, RowsInv
<1>4. ShownInv'
  BY <1>1, <1>2 DEF Inv, ShownInv, Paging
<1>5. \A id \in Untouched' : BuiltFrom(id)' = BuiltFrom(id)
  BY <1>1 DEF BuiltFrom
<1>6. SingleInv'
  BY <1>1, <1>2, <1>5 DEF Inv, SingleInv, Paging
<1> QED
  BY <1>3, <1>4, <1>6 DEF Inv

LEMMA UpsertKeeps ==
  ASSUME Inv, NEW id \in Ids, NEW row \in Rows, Upsert(id, row)
  PROVE  Inv'
<1>1. TypeOK'
  BY ConstantsOK DEF Inv, TypeOK, Upsert
<1>2. \A i \in Untouched' : i \in Untouched /\ table'[i] = table[i]
  BY DEF Untouched, Upsert, Inv, TypeOK
<1> QED
  BY <1>1, <1>2, SameListing DEF Upsert

LEMMA ScopesOK == Scopes \subseteq AllScopes
  BY ConstantsOK

LEMMA QueriesTyped ==
  ASSUME NEW s \in AllScopes
  PROVE  /\ QueriesOf(s) \in Seq(AllScopes \cup Columns)
         /\ s # "prefix" => QueriesOf(s) = <<s>>
         /\ QueriesOf(s) # <<>>
<1> DEFINE all == AllScopes \cup Columns
<1>1. s \in all /\ \A c \in {"sort_title", "sort_artist", "sort_album"} : c \in all
  BY DEF Columns
<1> HIDE DEF all
<1>2. <<s>> \in Seq(all) /\ <<"sort_title", "sort_artist", "sort_album">> \in Seq(all)
  BY <1>1
<1> QED
  BY <1>2 DEF QueriesOf, all

LEMMA OpenKeeps ==
  ASSUME Inv, NEW s \in Scopes, Open(s)
  PROVE  Inv'
<1>1. /\ scope' = s /\ at' = "query" /\ cursor' = NoEntry /\ todo' = QueriesOf(s)
      /\ rows' = {} /\ shown' = [id \in Ids |-> 0] /\ changed' = {}
      /\ listings' = listings + 1 /\ listings < MaxListings
      /\ UNCHANGED <<table, changes, failures>>
  BY DEF Open
<1>2. IsFiniteSet(rows') /\ Cardinality(rows') = 0
  BY <1>1, FS_EmptySet
<1>3. TypeOK'
  BY <1>1, <1>2, ScopesOK, QueriesTyped, ConstantsOK DEF Inv, TypeOK
<1>4. \A id \in Ids : shown'[id] = 0
  BY <1>1
<1>5. Untouched' \subseteq Ids
  BY DEF Untouched
<1>6. RowsInv' /\ ShownInv'
  BY <1>1, <1>4, <1>5 DEF RowsInv, ShownInv
<1>7. \A id \in Ids : ~Covered(id)'
  BY <1>1 DEF Covered
<1>8. SingleInv'
  BY <1>1, <1>4, <1>5, <1>7, ScopesOK, QueriesTyped DEF SingleInv
<1> QED
  BY <1>1, <1>2, <1>3, <1>6, <1>8, ScopesOK, QueriesTyped DEF Inv

LEMMA MoreKeeps ==
  ASSUME Inv, NEW s \in Scopes, More(s)
  PROVE  Inv'
<1>1. /\ s = scope /\ at = "ready" /\ at' = "query" /\ todo' = QueriesOf(scope)
      /\ rows' = {}
      /\ UNCHANGED <<table, scope, shown, changed, cursor, changes, listings, failures>>
  BY DEF More, SameDigest
<1>2. IsFiniteSet(rows') /\ Cardinality(rows') = 0
  BY <1>1, FS_EmptySet
<1>3. TypeOK'
  BY <1>1, <1>2, ScopesOK, QueriesTyped, ConstantsOK DEF Inv, TypeOK
<1>4. Untouched' = Untouched
  BY <1>1 DEF Untouched
<1>5. \A id \in Untouched : /\ Covered(id)' = Covered(id) /\ Meets(id)' = Meets(id)
  BY <1>1 DEF Own, Covered, Meets
<1>6. RowsInv' /\ ShownInv'
  BY <1>1, <1>4, <1>5 DEF Inv, RowsInv, ShownInv, Paging
<1>7. SingleInv'
  BY <1>1, <1>4, <1>5, ScopesOK, QueriesTyped DEF Inv, SingleInv, Paging
<1> QED
  BY <1>1, <1>2, <1>3, <1>6, <1>7, ScopesOK, QueriesTyped DEF Inv

\* One query of a page; it is the only one if the listing is not a prefix search.
LEMMA QueryKeeps ==
  ASSUME Inv, Query
  PROVE  Inv'
<1> DEFINE q == Head(todo)
<1>1. /\ at = "query" /\ todo' = Tail(todo)
      /\ at' = IF Tail(todo) = <<>> THEN "build" ELSE "query"
      /\ UNCHANGED <<table, scope, cursor, shown, changed, changes, listings, failures>>
  BY DEF Query
<1>2. PICK some \in SUBSET Rest(q) :
        IsFirst(some, Rest(q), Fetched) /\ rows' = rows \cup some
  BY DEF Query
<1>3. some \subseteq Found(q)
  BY DEF Rest
<1>4. \A e \in Found(q) : e \in Entries /\ e.id \in Ids /\ e = Own(e.id)
                          /\ Matches(q, table[e.id])
  <2> SUFFICES ASSUME NEW e \in Found(q)
               PROVE  e \in Entries /\ e.id \in Ids /\ e = Own(e.id)
                      /\ Matches(q, table[e.id])
    OBVIOUS
  <2>1. PICK id \in Ids : Matches(q, table[id]) /\ e = Own(id)
    BY DEF Found, Own
  <2>2. table[id] # NoRow
    BY <2>1 DEF Matches
  <2> QED
    BY <2>1, <2>2, Typed DEF Inv
<1>5. IsFiniteSet(some)
  <2> HIDE DEF q
  <2> QED
    BY <1>3, FoundFinite, FS_Subset DEF Inv
<1>6. IsFiniteSet(rows')
  BY <1>2, <1>5, FS_Union DEF Inv
<1>7. at' \in {"query", "build"} /\ (at' = "query" => todo' # <<>>)
  BY <1>1
<1>8. Untouched' = Untouched /\ Untouched \subseteq Ids
  BY <1>1 DEF Untouched
<1>9. \A id \in Untouched : /\ Own(id)' = Own(id) /\ Covered(id)' = Covered(id)
                            /\ Meets(id)' = Meets(id)
  BY <1>1 DEF Own, Covered, Meets
<1>10. \A e \in some : ~Covered(e.id) /\ (cursor # NoEntry => Behind(e, cursor))
  BY <1>3, <1>4 DEF Rest, Covered
<1>11. RowsInv'
  BY <1>1, <1>2, <1>3, <1>4, <1>8, <1>9, <1>10 DEF Inv, RowsInv
<1>12. ShownInv'
  BY <1>1, <1>7, <1>8, <1>9 DEF Inv, ShownInv, Paging
<1>13. CASE scope = "prefix"
  <2>1. todo' \in Seq(AllScopes \cup Columns)
    <3> DEFINE S == AllScopes \cup Columns
    <3>1. todo \in Seq(S) /\ todo # <<>>
      BY <1>1 DEF Inv, TypeOK
    <3> HIDE DEF S
    <3>2. Tail(todo) \in Seq(S)
      BY <3>1
    <3> QED
      BY <1>1, <3>2 DEF S
  <2>2. TypeOK'
    BY <1>1, <1>2, <1>3, <1>4, <1>7, <1>13, <2>1 DEF Inv, TypeOK
  <2>3. SingleInv'
    <3>1. scope' = "prefix"
      BY <1>1, <1>13
    <3> QED
      BY <3>1 DEF SingleInv
  <2> QED
    BY <1>6, <1>7, <1>11, <1>12, <2>2, <2>3 DEF Inv
<1>14. CASE scope # "prefix"
  <2>1. q = scope /\ rows = {} /\ Tail(todo) = <<>>
    <3>1. todo = <<scope>> /\ rows = {}
      BY <1>1, <1>14 DEF Inv, SingleInv
    <3>2. \A x : Head(<<x>>) = x /\ Tail(<<x>>) = <<>>
      OBVIOUS
    <3> QED
      BY <3>1, <3>2
  <2>2. rows' = some /\ at' = "build" /\ todo' = <<>>
    BY <1>1, <1>2, <2>1
  <2>3. /\ \A e \in some, f \in Rest(scope) \ some : After(f, e)
        /\ Cardinality(some) <= Limit + 1
        /\ some = Rest(scope) \/ Cardinality(some) = Limit + 1
    BY <1>2, <2>1 DEF IsFirst, Fetched
  <2>4. TypeOK'
    BY <1>1, <1>3, <1>4, <2>2, <2>3 DEF Inv, TypeOK
  <2>5. \A id \in Untouched : Meets(id) /\ ~Covered(id) => Own(id) \in Rest(scope)
    BY <1>8 DEF Meets, Covered, Own, Rest, Found
  <2>6. \A id \in Untouched : Own(id) \in some => Meets(id)
    BY <1>3, <1>4, <1>8, <2>1, Typed DEF Meets, Inv
  <2>7. \A id \in Untouched : BuiltFrom(id)'
    BY <1>9, <2>2, <2>3, <2>5, <2>6, ConstantsOK DEF BuiltFrom
  <2>8. SingleInv'
    BY <1>1, <1>8, <1>9, <1>14, <2>2, <2>7 DEF Inv, SingleInv, Paging
  <2> QED
    BY <1>6, <1>7, <1>11, <1>12, <2>4, <2>8 DEF Inv
<1> QED
  BY <1>13, <1>14

\* A page of all rows that are left.
LEMMA BuildLastKeeps ==
  ASSUME Inv, BuildLast
  PROVE  Inv'
<1>1. /\ at = "build" /\ Cardinality(rows) <= Limit /\ shown' = Count(rows)
      /\ at' = "done" /\ cursor' = NoEntry /\ rows' = {}
      /\ UNCHANGED <<table, scope, todo, changed, changes, listings, failures>>
  BY DEF BuildLast
<1>2. IsFiniteSet(rows') /\ Cardinality(rows') = 0
  BY <1>1, FS_EmptySet
<1>3. TypeOK'
  BY <1>1, <1>2, CountTyped, ConstantsOK DEF Inv, TypeOK
<1>4. Untouched' = Untouched /\ Untouched \subseteq Ids
  BY <1>1 DEF Untouched
<1>5. \A id \in Untouched : Own(id).id = id
  BY Typed, <1>4 DEF Inv
<1>6. \A id \in Untouched : Own(id) \in rows =>
        ~Covered(id) /\ shown'[id] = 1
  <2> SUFFICES ASSUME NEW id \in Untouched, Own(id) \in rows
               PROVE  ~Covered(id) /\ shown'[id] = 1
    OBVIOUS
  <2>1. ~Covered(id)
    BY <1>5 DEF Inv, RowsInv
  <2>2. shown[id] = 0
    <3>1. shown[id] \in 0 .. 2 /\ shown[id] <= 1 /\ shown[id] # 1
      BY <1>1, <1>4, <2>1 DEF Inv, TypeOK, ShownInv, Paging
    <3> QED
      BY <3>1
  <2>3. \A e \in rows : e.id = id => e = Own(id)
    BY DEF Inv, RowsInv
  <2> QED
    BY <1>1, <1>4, <1>5, <2>1, <2>2, <2>3, CountOne DEF Inv
<1>7. \A id \in Untouched : Own(id) \notin rows => shown'[id] = shown[id]
  <2> SUFFICES ASSUME NEW id \in Untouched, Own(id) \notin rows
               PROVE  shown'[id] = shown[id]
    OBVIOUS
  <2>1. \A e \in rows : e.id # id
    BY DEF Inv, RowsInv
  <2> QED
    BY <1>1, <1>4, <2>1, CountNone DEF Inv, ShownInv
<1>8. RowsInv'
  BY <1>1 DEF RowsInv
<1>9. ShownInv'
  BY <1>1, <1>4, <1>6, <1>7 DEF Inv, ShownInv, Paging
<1>10. SingleInv'
  <2> SUFFICES ASSUME scope # "prefix", NEW id \in Untouched
               PROVE  shown'[id] = IF Meets(id) THEN 1 ELSE 0
    BY <1>1, <1>4 DEF SingleInv, Meets, Paging
  <2>1. /\ shown[id] = IF Meets(id) /\ Covered(id) THEN 1 ELSE 0
        /\ BuiltFrom(id)
    BY <1>1 DEF Inv, SingleInv, Paging
  <2>2. Cardinality(rows) \in Nat /\ ~(Cardinality(rows) > Limit)
    BY <1>1, FS_CardinalityType, ConstantsOK DEF Inv
  <2> QED
    BY <1>6, <1>7, <2>1, <2>2 DEF BuiltFrom
<1> QED
  BY <1>1, <1>2, <1>3, <1>8, <1>9, <1>10 DEF Inv

\* A page that was cut, and the cursor at its end.
LEMMA BuildMoreKeeps ==
  ASSUME Inv, BuildMore
  PROVE  Inv'
<1>1. PICK extra \in rows, last \in rows :
        LET items == rows \ {extra} IN
        /\ Last(rows, extra) /\ Last(items, last)
        /\ IF Encodable(last)
           THEN shown' = Count(items) /\ at' = "ready" /\ cursor' = last
           ELSE at' = "failed" /\ cursor' = NoEntry /\ UNCHANGED shown
  BY DEF BuildMore
<1> DEFINE items == rows \ {extra}
<1>2. /\ at = "build" /\ rows' = {}
      /\ UNCHANGED <<table, scope, todo, changed, changes, listings, failures>>
  BY DEF BuildMore
<1>3. IsFiniteSet(rows') /\ Cardinality(rows') = 0
  BY <1>2, FS_EmptySet
<1>4. Untouched' = Untouched /\ Untouched \subseteq Ids
  BY <1>2 DEF Untouched
<1>5. RowsInv'
  BY <1>2 DEF RowsInv
<1>6. CASE ~Encodable(last)
  <2>1. at' = "failed" /\ cursor' = NoEntry /\ UNCHANGED shown
    BY <1>1, <1>6
  <2>2. TypeOK'
    BY <1>2, <1>3, <2>1, ConstantsOK DEF Inv, TypeOK
  <2>3. ShownInv' /\ SingleInv'
    BY <1>4, <2>1 DEF Inv, ShownInv, SingleInv, Paging
  <2> QED
    BY <1>3, <1>5, <2>1, <2>2, <2>3 DEF Inv
<1>7. CASE Encodable(last)
  <2>1. shown' = Count(items) /\ at' = "ready" /\ cursor' = last
    BY <1>1, <1>7
  <2>2. items \in SUBSET rows
    OBVIOUS
  <2>3. TypeOK'
    BY <1>2, <1>3, <2>1, <2>2, CountTyped, Typed, ConstantsOK DEF Inv, TypeOK
  <2>4. /\ \A f \in items : After(extra, f)
        /\ last \in items /\ \A f \in items \ {last} : After(last, f)
    BY <1>1 DEF Last
  <2>5. rows \subseteq Entries /\ last # NoEntry /\ last \in Entries
    BY Typed, EntriesNotNone DEF Inv
  <2>6. \A id \in Untouched :
          Own(id)' = Own(id) /\ Own(id) \in Entries /\ Own(id).id = id
    BY <1>2, <1>4, Typed DEF Inv, Own
  <2>7. \A id \in Untouched : /\ Covered(id)' <=> ~After(Own(id), last)
                              /\ Meets(id)' = Meets(id)
    BY <1>2, <2>1, <2>5, <2>6 DEF Covered, Behind, Meets
  \* What the page shows is covered by it,
  <2>8. \A id \in Untouched : Own(id) \in items =>
          shown'[id] = 1 /\ Covered(id)' /\ ~Covered(id)
    <3> SUFFICES ASSUME NEW id \in Untouched, Own(id) \in items
                 PROVE  shown'[id] = 1 /\ Covered(id)' /\ ~Covered(id)
      OBVIOUS
    <3>1. ~Covered(id)
      BY <2>2, <2>6 DEF Inv, RowsInv
    <3>2. shown[id] \in 0 .. 2 /\ shown[id] <= 1 /\ shown[id] # 1
      BY <1>2, <1>4, <3>1 DEF Inv, TypeOK, ShownInv, Paging
    <3>3. shown[id] = 0
      BY <3>2
    <3>4. \A e \in items : e.id = id => e = Own(id)
      BY DEF Inv, RowsInv
    <3>5. shown'[id] = 1
      BY <1>4, <2>1, <2>6, <3>3, <3>4, CountOne DEF Inv
    <3>6. ~After(Own(id), last)
      BY <2>4, <2>5, <2>6, OrderStrict
    <3> QED
      BY <2>7, <3>1, <3>5, <3>6
  \* the row that was popped is not,
  <2>9. \A id \in Untouched : Own(id) \notin items => shown'[id] = shown[id]
    <3> SUFFICES ASSUME NEW id \in Untouched, Own(id) \notin items
                 PROVE  shown'[id] = shown[id]
      OBVIOUS
    <3>1. \A e \in items : e.id # id
      BY DEF Inv, RowsInv
    <3> QED
      BY <1>4, <2>1, <3>1, CountNone DEF Inv, ShownInv
  <2>10. \A id \in Untouched : Own(id) = extra => ~Covered(id)' /\ ~Covered(id)
    BY <2>4, <2>6, <2>7 DEF Inv, RowsInv
  \* and what was covered before still is.
  <2>11. \A id \in Untouched : Covered(id) => Covered(id)'
    <3> SUFFICES ASSUME NEW id \in Untouched, Covered(id), After(Own(id), last)
                 PROVE  FALSE
      BY <2>7
    <3>1. cursor \in Entries /\ After(last, cursor) /\ ~After(Own(id), cursor)
      BY Typed DEF Inv, RowsInv, Covered, Behind
    <3> QED
      BY <2>5, <2>6, <3>1, OrderTransitive
  <2>12. ShownInv'
    BY <1>2, <1>4, <2>8, <2>9, <2>11 DEF Inv, ShownInv, Paging
  <2>13. SingleInv'
    <3> SUFFICES ASSUME scope # "prefix", NEW id \in Untouched
                 PROVE  shown'[id] = IF Meets(id) /\ Covered(id)' THEN 1 ELSE 0
      BY <1>2, <1>4, <2>1, <2>7 DEF SingleInv
    <3>1. /\ shown[id] = IF Meets(id) /\ Covered(id) THEN 1 ELSE 0
          /\ BuiltFrom(id)
      BY <1>2 DEF Inv, SingleInv, Paging
    <3>2. CASE Own(id) \in items
      BY <2>2, <2>8, <3>1, <3>2 DEF BuiltFrom
    <3>3. CASE Own(id) = extra
      BY <2>9, <2>10, <3>1, <3>3
    <3>4. CASE Own(id) \notin rows
      <4>1. Meets(id) /\ ~Covered(id) => ~Covered(id)'
        BY <2>7, <3>1, <3>4 DEF BuiltFrom
      <4> QED
        BY <2>9, <2>11, <3>1, <3>4, <4>1
    <3> QED
      BY <3>2, <3>3, <3>4
  <2> QED
    BY <1>3, <1>5, <2>1, <2>3, <2>12, <2>13 DEF Inv
<1> QED
  BY <1>6, <1>7

\* A query that fails drops the page in the making; the client keeps its cursor.
LEMMA QueryFailsKeeps ==
  ASSUME Inv, QueryFails
  PROVE  Inv'
<1>1. /\ at = "query" /\ at' \in {"closed", "ready"}
      /\ todo' = <<>> /\ rows' = {} /\ failures' = failures + 1
      /\ failures < MaxFailures
      /\ UNCHANGED <<table, scope, cursor, shown, changed, changes, listings>>
  BY DEF QueryFails
<1>2. IsFiniteSet(rows') /\ Cardinality(rows') = 0
  BY <1>1, FS_EmptySet
<1>3. TypeOK'
  BY <1>1, <1>2, ConstantsOK DEF Inv, TypeOK
<1>4. Untouched' = Untouched
  BY <1>1 DEF Untouched
<1>5. \A id \in Untouched : /\ Covered(id)' = Covered(id) /\ Meets(id)' = Meets(id)
  BY <1>1 DEF Covered, Meets, Own
<1>6. RowsInv' /\ ShownInv'
  BY <1>1, <1>4, <1>5 DEF Inv, RowsInv, ShownInv, Paging
<1>7. SingleInv'
  BY <1>1, <1>4, <1>5 DEF Inv, SingleInv, Paging
<1> QED
  BY <1>1, <1>2, <1>3, <1>6, <1>7 DEF Inv

----------------------------------------------------------------------------
(* All steps *)

LEMMA InvInit == Init => Inv
<1> SUFFICES ASSUME Init PROVE Inv
  OBVIOUS
<1>1. IsFiniteSet(rows) /\ Cardinality(rows) = 0
  BY FS_EmptySet DEF Init
<1>2. TypeOK
  BY <1>1, ConstantsOK DEF Init, TypeOK
<1>3. RowsInv /\ ShownInv /\ SingleInv
  BY DEF Init, RowsInv, ShownInv, SingleInv, Paging, Untouched
<1> QED
  BY <1>1, <1>2, <1>3 DEF Inv, Init

LEMMA InvNext == Inv /\ [Next]_vars => Inv'
<1> SUFFICES ASSUME Inv, [Next]_vars PROVE Inv'
  OBVIOUS
<1>1. CASE Query \/ QueryFails
  BY <1>1, QueryKeeps, QueryFailsKeeps
<1>2. CASE BuildLast
  BY <1>2, BuildLastKeeps
<1>3. CASE BuildMore
  BY <1>3, BuildMoreKeeps
<1>4. ASSUME NEW s \in Scopes, Open(s) \/ More(s) PROVE Inv'
  BY <1>4, OpenKeeps, MoreKeeps
<1>5. ASSUME NEW id \in Ids, NEW row \in Rows, Upsert(id, row) PROVE Inv'
  BY <1>5, UpsertKeeps
<1>6. CASE UNCHANGED vars
  <2>1. TypeOK'
    BY <1>6 DEF vars, Inv, TypeOK
  <2>2. \A i \in Untouched' : i \in Untouched /\ table'[i] = table[i]
    BY <1>6 DEF vars, Untouched
  <2> QED
    BY <1>6, <2>1, <2>2, SameListing DEF vars
<1> QED
  BY <1>1, <1>2, <1>3, <1>4, <1>5, <1>6 DEF Next

LEMMA InvAlways == Spec => []Inv
  BY InvInit, InvNext, PTL DEF Spec

\* Table, cursor and pages keep their types, and no page of one query has more
\* than one row too many.
THEOREM PagesTyped == Spec => []TypeOK
<1>1. Inv => TypeOK
  BY DEF Inv
<1> QED
  BY <1>1, InvAlways, PTL

\* No untouched track is shown twice, and a complete listing of one query per
\* page shows every untouched match exactly once, whatever scans write meanwhile.
THEOREM EveryMatchListedOnce == Spec => []ListedOnce
<1>1. Inv => ListedOnce
  <2> SUFFICES ASSUME Inv PROVE ListedOnce
    OBVIOUS
  <2>1. \A id \in Untouched : shown[id] <= 1
    BY DEF Inv, ShownInv
  <2>2. scope # "prefix" => \A id \in Untouched : Wanted(id) <=> Meets(id)
    <3> SUFFICES ASSUME scope # "prefix", NEW id \in Untouched
                 PROVE  Wanted(id) <=> Meets(id)
      OBVIOUS
    <3> DEFINE queries == QueriesOf(scope)
    <3>1. queries = <<scope>>
      BY QueriesTyped, Typed DEF Inv
    <3>2. \A x : DOMAIN <<x>> = {1} /\ <<x>>[1] = x
      OBVIOUS
    <3>3. Wanted(id) <=> \E i \in DOMAIN queries : Matches(queries[i], table[id])
      BY DEF Wanted
    <3> HIDE DEF queries
    <3>4. DOMAIN queries = {1} /\ queries[1] = scope
      BY <3>1, <3>2
    <3> QED
      BY <3>3, <3>4 DEF Meets
  <2> QED
    BY <2>1, <2>2 DEF Inv, SingleInv, ListedOnce
<1> QED
  BY <1>1, InvAlways, PTL

============================================================================
