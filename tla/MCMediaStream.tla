--------------------------- MODULE MCMediaStream ---------------------------
(* Three streams of two sessions over a file of two bytes, read by two:     *)
(* both quotas can be the one that refuses, reads can be short, and each    *)
(* form of range falls inside, across and past the end of the file.         *)
EXTENDS MediaStream

CONSTANTS g1, g2, g3, s1, s2

MCSession == [g \in Gets |-> IF g = g3 THEN s2 ELSE s1]

One(form, first, last) ==
    [form |-> form, first |-> first, last |-> last, ifRange |-> FALSE]

MCHeaders ==
    {One("none", 0, 0), One("multi", 0, 0), One("bad", 0, 0),
     One("badMulti", 0, 0), One("opaque", 0, 0),
     [form |-> "from", first |-> 1, last |-> 0, ifRange |-> TRUE]}
    \cup {One("pair", f, l) : f \in 0 .. 3, l \in 0 .. 4}
    \cup {One("from", f, 0) : f \in 0 .. 3}
    \cup {One("suffix", 0, l) : l \in 0 .. 4}
============================================================================
