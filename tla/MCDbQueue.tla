----------------------------- MODULE MCDbQueue -----------------------------
(* Three writes, of which any two fit the byte limit unless both are large, *)
(* meet a queue of one; three reads meet two threads with queues of one.    *)
EXTENDS DbQueue

CONSTANTS w1, w2, w3, q1, q2, q3

MCSize == [w \in Writes |-> IF w = w1 THEN 3 ELSE 1]
============================================================================
