--------------------------- MODULE ScanLifecycle ---------------------------
(***************************************************************************)
(* What the scan service promises of its job table, with nothing of how    *)
(* requests, locks and queues bring it about: one job is worked on at a    *)
(* time, a row moves only while it is, an ended row never moves again, and *)
(* after a restart no row looks alive.                                     *)
(***************************************************************************)
EXTENDS Naturals, Sequences

VARIABLES states,   \* the state column of scan_jobs, by row id
          active,   \* the row being worked on, 0 if none
          up        \* the process is alive

lifecycle == <<states, active, up>>

Outcomes == {"completed", "failed", "cancelled"}

Init == states = <<>> /\ active = 0 /\ up = TRUE

Create ==
    /\ up /\ active = 0
    /\ states' = Append(states, "queued")
    /\ active' = Len(states) + 1
    /\ UNCHANGED up

Run ==
    /\ active # 0 /\ states[active] = "queued"
    /\ states' = [states EXCEPT ![active] = "running"]
    /\ UNCHANGED <<active, up>>

End ==
    /\ active # 0 /\ states[active] = "running"
    /\ \E s \in Outcomes : states' = [states EXCEPT ![active] = s]
    /\ UNCHANGED <<active, up>>

\* Work on the row stops: it ended, or an error or a lost request left it.
Leave == active # 0 /\ active' = 0 /\ UNCHANGED <<states, up>>

Crash == up /\ up' = FALSE /\ active' = 0 /\ UNCHANGED states

Restart ==
    /\ ~up /\ up' = TRUE
    /\ states' = [j \in 1 .. Len(states) |->
           IF states[j] \in {"queued", "running"} THEN "interrupted" ELSE states[j]]
    /\ UNCHANGED active

Next == Create \/ Run \/ End \/ Leave \/ Crash \/ Restart

Spec == Init /\ [][Next]_lifecycle
============================================================================
