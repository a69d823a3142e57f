----------------------------- MODULE MCWebSearch -----------------------------
(* Two queries, one with three pages of results and one with none.            *)
EXTENDS WebSearch

CONSTANTS p, q

MCPagesOf == [x \in Queries |-> IF x = p THEN 3 ELSE 0]
============================================================================
