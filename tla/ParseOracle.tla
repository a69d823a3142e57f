---------------------------- MODULE ParseOracle ----------------------------
(***************************************************************************)
(* What a scan relies on when it has a file parsed: one file at a time is  *)
(* asked for, and the verdict is metadata of that file or a failure. The   *)
(* scan may end, fail or die meanwhile. Module ScanRun uses the worker this*)
(* way (its actions Parsed and ParseFailed), module ParseWorker implements *)
(* it with child processes behind pipes.                                   *)
(***************************************************************************)
CONSTANTS Files, NoFile

VARIABLES
    asked,   \* the file asked for, or NoFile
    verdict  \* what the last call returned: metadata of a file, or a failure

vars == <<asked, verdict>>

NoVerdict == [ok |-> FALSE, file |-> NoFile]
Failed == NoVerdict
Metadata(f) == [ok |-> TRUE, file |-> f]

Init == asked = NoFile /\ verdict = NoVerdict

Ask(f) ==
    /\ asked = NoFile
    /\ asked' = f
    /\ verdict' = NoVerdict

Reply ==
    /\ asked # NoFile
    /\ asked' = NoFile
    /\ verdict' \in {Metadata(asked), Failed}

Next == Reply \/ \E f \in Files : Ask(f)

Spec == Init /\ [][Next]_vars /\ WF_vars(Reply)

============================================================================
