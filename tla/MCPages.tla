------------------------------ MODULE MCPages ------------------------------
(* Three tracks, pages of one, titles that tie and titles that do not.        *)
EXTENDS Pages

R(t, p, h) == [title |-> t, place |-> p, hits |-> h]
MCRows == {R(1, 2, {"sort_album"}), R(1, 1, Columns),
           R(2, 1, {"sort_artist"}), R(3, 1, {"sort_title"})}
MCFirstTables == [Ids -> MCRows \cup {NoRow}]

\* Rows that match a short search by one column each.
SearchRows == {R(1, 1, {c}) : c \in Columns}
SearchTables == [Ids -> SearchRows]
============================================================================
