------------------------------ MODULE MCStartup ------------------------------
(* Two servers and two commands; roots that are renamed, moved, exchanged and *)
(* added between starts.                                                      *)
EXTENDS Startup

CONSTANTS s1, s2, a1, a2

R(n, d) == [name |-> n, path |-> d]
MCConfigs == {<<R("m", "x"), R("n", "y")>>, <<R("n", "x"), R("m", "y")>>,
              <<R("m", "y"), R("o", "x")>>}
Row(n, d, e) == [name |-> n, path |-> d, enabled |-> e]
MCFirstRows == {<<>>, <<Row("m", "x", FALSE), Row("n", "y", TRUE)>>, <<Row("m", "z", TRUE)>>,
                <<Row("m", "y", TRUE)>>}
============================================================================
