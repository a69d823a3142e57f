------------------------------- MODULE Pages -------------------------------
(***************************************************************************)
(* Keyset paging over tables that scans change: tracks_page, albums_page,  *)
(* album_tracks_page, search_page and the cursors that travel with clients.*)
(*                                                                         *)
(* A row is what a listing sees of it: the key it sorts by and whether it  *)
(* matches. A page is a set of entries; their order is that of the keys. A *)
(* cursor is the entry a page ended with, and the listing it belongs to.   *)
(***************************************************************************)
EXTENDS Integers, Sequences, FiniteSets

CONSTANTS Ids,        \* ids of tracks
          Scopes,     \* bound: the listings a client asks for
          Titles,     \* sort_title, as numbers in NOCASE order
          LongTitles, \* those whose cursor does not fit MAX_CURSOR_BYTES
          Places,     \* (disc_no, track_no), as numbers in order
          Rows,       \* bound: what a scan may write into a row
          FirstTables,\* bound: the tables at first
          Limit,      \* rows per page
          MaxChanges, \* bound: how many rows scans write
          MaxListings,\* bound: how many listings begin
          MaxFailures \* bound: how many queries fail

Columns == {"sort_title", "sort_artist", "sort_album"}

\* tracks and albums in title order, one artist's tracks, recent, one album's
\* tracks, a phrase search, and a search for one or two characters.
AllScopes == {"tracks", "artist", "recent", "album", "fts", "prefix"}

\* hits are the columns that match the filter of the listing: hold the phrase,
\* begin with the prefix, are the artist or belong to the album asked for.
Row == [title : Titles, place : Places, hits : SUBSET Columns]
NoRow == [title |-> 0, place |-> 0, hits |-> {}]

ASSUME ConstantsOK ==
    /\ Ids \subseteq Nat \ {0} /\ IsFiniteSet(Ids)
    /\ Titles \subseteq Nat \ {0} /\ LongTitles \subseteq Titles
    /\ Places \subseteq Nat /\ Scopes \subseteq AllScopes
    /\ Rows \subseteq Row /\ FirstTables \subseteq [Ids -> Row \cup {NoRow}]
    /\ Limit \in Nat \ {0} /\ MaxChanges \in Nat /\ MaxListings \in Nat
    /\ MaxFailures \in Nat

VARIABLES
    table,    \* the rows
    scope,    \* the listing the client is at
    at,       \* closed, query, build, ready (has_more), done, or failed
    cursor,   \* the entry the last page ended with, or NoEntry
    todo,     \* the queries of the page that are still to run
    rows,     \* the entries its queries have returned
    shown,    \* history: how often this listing has shown a track
    changed,  \* history: the tracks written since it began
    changes,  \* how many rows scans wrote
    listings, \* how many listings began
    failures  \* how many queries failed

vars == <<table, scope, at, cursor, todo, rows, shown, changed, changes, listings,
          failures>>

----------------------------------------------------------------------------
(* Entries *)

NoEntry == [id |-> 0, key |-> 0]

Key(s, id, row) ==
    CASE s = "recent" -> -id
      [] s = "album" -> row.place
      [] OTHER -> row.title
Entry(s, id, row) == [id |-> id, key |-> Key(s, id, row)]

\* ORDER BY key, id.
After(e, c) == e.key > c.key \/ (e.key = c.key /\ e.id > c.id)

\* The id left out of the cursor's predicate, two mutants.
KeyAfter(e, c) == e.key > c.key
KeyFrom(e, c) == e.key >= c.key
\* add_keyset, or the predicates on the id and on (disc_no, track_no, id).
Behind(e, c) == After(e, c)

\* The WHERE clause of a query: the listing's, or one column of a prefix search.
Matches(query, row) ==
    /\ row # NoRow
    /\ CASE query \in {"tracks", "recent"} -> TRUE
         [] query = "artist" -> "sort_artist" \in row.hits
         [] query = "album" -> "sort_album" \in row.hits
         [] query = "fts" -> row.hits # {}
         [] OTHER -> query \in row.hits

QueriesOf(s) == IF s = "prefix" THEN <<"sort_title", "sort_artist", "sort_album">>
                                ELSE <<s>>

Found(query) ==
    {Entry(scope, id, table[id]) : id \in {i \in Ids : Matches(query, table[i])}}
Rest(query) == {e \in Found(query) : cursor = NoEntry \/ Behind(e, cursor)}

\* LIMIT n over a set of entries.
IsFirst(some, all, n) ==
    /\ \A e \in some, f \in all \ some : After(f, e)
    /\ Cardinality(some) <= n
    /\ some = all \/ Cardinality(some) = n

----------------------------------------------------------------------------
(* Actions *)

Init ==
    /\ table \in FirstTables
    /\ scope \in Scopes
    /\ at = "closed" /\ cursor = NoEntry /\ todo = <<>> /\ rows = {}
    /\ shown = [id \in Ids |-> 0]
    /\ changed = {} /\ changes = 0 /\ listings = 0 /\ failures = 0

\* A scan inserts or updates a row; tracks and albums are never deleted.
Upsert(id, row) ==
    /\ changes < MaxChanges
    /\ table[id] # row
    /\ table' = [table EXCEPT ![id] = row]
    /\ changed' = changed \cup {id}
    /\ changes' = changes + 1
    /\ UNCHANGED <<scope, at, cursor, todo, rows, shown, listings, failures>>

\* A request without a cursor: the listing begins anew.
Open(s) ==
    /\ at \notin {"query", "build"} /\ listings < MaxListings
    /\ scope' = s
    /\ at' = "query" /\ cursor' = NoEntry /\ todo' = QueriesOf(s) /\ rows' = {}
    /\ shown' = [id \in Ids |-> 0] /\ changed' = {}
    /\ listings' = listings + 1
    /\ UNCHANGED <<table, changes, failures>>

SameDigest(s) == s = scope

\* The cursor of the last page, sent with whatever filters the client has now;
\* decode refuses it when they are not the filters it was made for.
More(s) ==
    /\ at = "ready" /\ SameDigest(s)
    /\ scope' = s
    /\ at' = "query" /\ todo' = QueriesOf(s) /\ rows' = {}
    /\ shown' = IF s = scope THEN shown ELSE [id \in Ids |-> 0]
    /\ changed' = IF s = scope THEN changed ELSE {}
    /\ UNCHANGED <<table, cursor, changes, listings, failures>>

\* One row more tells whether there are more.
Fetched == Limit + 1

\* The result of a query, several of which make one page of a prefix search.
Query ==
    /\ at = "query"
    /\ \E some \in SUBSET Rest(Head(todo)) :
         /\ IsFirst(some, Rest(Head(todo)), Fetched)
         /\ rows' = rows \cup some
    /\ todo' = Tail(todo)
    /\ at' = IF Tail(todo) = <<>> THEN "build" ELSE "query"
    /\ UNCHANGED <<table, scope, cursor, shown, changed, changes, listings, failures>>

\* A query is refused or fails, and with it the page: what the other queries
\* found is dropped, and the client still has the cursor it sent.
QueryFails ==
    /\ at = "query" /\ failures < MaxFailures
    /\ at' = IF cursor = NoEntry THEN "closed" ELSE "ready"
    /\ todo' = <<>> /\ rows' = {}
    /\ failures' = failures + 1
    /\ UNCHANGED <<table, scope, cursor, shown, changed, changes, listings>>

Last(some, e) == e \in some /\ \A f \in some \ {e} : After(e, f)

\* A long key is a title; numbers always fit.
Encodable(e) == scope \notin {"recent", "album"} => e.key \notin LongTitles

\* 2 stands for twice or more often.
Count(items) ==
    [id \in Ids |-> LET n == shown[id] + Cardinality({e \in items : e.id = id})
                    IN IF n > 2 THEN 2 ELSE n]

\* A page of all rows: has_more is false.
BuildLast ==
    /\ at = "build" /\ Cardinality(rows) <= Limit
    /\ shown' = Count(rows)
    /\ at' = "done" /\ cursor' = NoEntry /\ rows' = {}
    /\ UNCHANGED <<table, scope, todo, changed, changes, listings, failures>>

\* The last row is popped, the page ends with the one before it. A key that is
\* too long makes the answer an error.
BuildMore ==
    /\ at = "build" /\ Cardinality(rows) > Limit
    /\ \E extra, last \in rows :
         LET items == rows \ {extra} IN
         /\ Last(rows, extra) /\ Last(items, last)
         /\ IF Encodable(last)
            THEN shown' = Count(items) /\ at' = "ready" /\ cursor' = last
            ELSE at' = "failed" /\ cursor' = NoEntry /\ UNCHANGED shown
    /\ rows' = {}
    /\ UNCHANGED <<table, scope, todo, changed, changes, listings, failures>>

Next ==
    \/ Query \/ QueryFails \/ BuildLast \/ BuildMore
    \/ \E s \in Scopes : Open(s) \/ More(s)
    \/ \E id \in Ids, row \in Rows : Upsert(id, row)

Spec == Init /\ [][Next]_vars

\* The server answers, and this client pages on; nobody must begin a listing.
Fairness == WF_vars(Query \/ BuildLast \/ BuildMore)
            /\ WF_vars(\E s \in Scopes : More(s))
FairSpec == Spec /\ Fairness

----------------------------------------------------------------------------
(* Properties *)

Entries == [id : Ids, key : Int]

\* Every variable keeps its type; a listing of one query never has more than
\* one row too many.
TypeOK ==
    /\ table \in [Ids -> Row \cup {NoRow}]
    /\ scope \in Scopes
    /\ at \in {"closed", "query", "build", "ready", "done", "failed"}
    /\ cursor \in Entries \cup {NoEntry}
    /\ todo \in Seq(AllScopes \cup Columns)
    /\ rows \subseteq Entries
    /\ shown \in [Ids -> 0 .. 2]
    /\ changed \subseteq Ids
    /\ changes \in 0 .. MaxChanges /\ listings \in 0 .. MaxListings
    /\ failures \in 0 .. MaxFailures
    /\ scope # "prefix" => Cardinality(rows) <= Limit + 1

\* What the listing shows, of all of the rows that no scan has touched.
Untouched == {id \in Ids \ changed : table[id] # NoRow}
Wanted(id) == \E i \in DOMAIN QueriesOf(scope) :
                 Matches(QueriesOf(scope)[i], table[id])

\* No listing shows a track twice that did not change, the merged columns of a
\* prefix search included. A complete one of one query per page has shown every
\* track that matched and did not change exactly once and no other untouched one,
\* although others were inserted, renamed and moved between its pages
\* (library_api.rs:305).
ListedOnce ==
    /\ \A id \in Untouched : shown[id] <= 1
    /\ at = "done" /\ scope # "prefix" =>
         \A id \in Untouched : shown[id] = IF Wanted(id) THEN 1 ELSE 0

\* Paging comes to its end: a cursor never leads back.
ListingEnds == <>[](at \in {"closed", "done", "failed"})

\* What the test of paging says (library_api.rs:285 and 305), applied to the
\* short search: nothing is left out while nothing changes.
SearchListsEveryMatch ==
    at = "done" /\ changes = 0 => \A id \in Ids : Wanted(id) => shown[id] >= 1

============================================================================
