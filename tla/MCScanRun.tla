----------------------------- MODULE MCScanRun -----------------------------
(* Two scans over two or three paths that are alike. A channel of one and a *)
(* batch of two are empty, filling and full as those of 64 and 100 are.     *)
EXTENDS ScanRun, TLC

CONSTANTS a, b, c

Alike == Permutations(Paths)
============================================================================
