------------------------- MODULE MCScanCoordinator -------------------------
(* A small service. Three requests, alike before they are sent, choose among*)
(* a body, its reuse of the key for another payload, and two other keys:    *)
(* enough for a retry, a conflict, a second scan and a full dedup table.    *)
EXTENDS ScanCoordinator, TLC

CONSTANTS r1, r2, r3, k1, k2, k3, p1, p2, c1

MCBodies == {[key |-> k1, payload |-> p1], [key |-> k1, payload |-> p2],
             [key |-> k2, payload |-> p1], [key |-> k3, payload |-> p1]}

Alike == Permutations(Requests)
============================================================================
