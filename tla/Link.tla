-------------------------------- MODULE Link --------------------------------
(***************************************************************************)
(* What the widget's reader and the program thread promise each other      *)
(* about a lost widget, whatever else runs: a reader fails and says so, it *)
(* dies only while the program thread sleeps, the program thread takes     *)
(* notice in a render, waits in the reconnect until that reader is dead,   *)
(* and clears mk2c_lost only after a new reader was started.  Desk takes   *)
(* the reconnect in two steps, Widget in single lines with the pointers;   *)
(* both implement this.                                                    *)
(***************************************************************************)
VARIABLES
    reader,     \* the widget's reader: "runs", "failed" or "dead"
    lost,       \* mk2c_lost
    prog        \* prog_runner: "sleeps", "renders", "reconnects" or "restores"

link == <<reader, lost, prog>>

Init == reader = "runs" /\ ~lost /\ prog = "sleeps"

Fail ==
    /\ reader = "runs"
    /\ reader' = "failed"
    /\ lost' = TRUE
    /\ UNCHANGED prog

Die ==
    /\ reader = "failed" /\ prog = "sleeps"
    /\ reader' = "dead"
    /\ UNCHANGED <<lost, prog>>

Wake == prog = "sleeps" /\ prog' = "renders" /\ UNCHANGED <<reader, lost>>
Sleep == prog = "renders" /\ prog' = "sleeps" /\ UNCHANGED <<reader, lost>>
Notice == prog = "renders" /\ lost /\ prog' = "reconnects" /\ UNCHANGED <<reader, lost>>

Connect ==
    /\ prog = "reconnects" /\ reader = "dead"
    /\ \/ reader' = "runs" /\ prog' = "restores"
       \/ prog' = "sleeps" /\ UNCHANGED reader
    /\ UNCHANGED lost

\* the flush that follows may end in the same step
Restore ==
    /\ prog = "restores"
    /\ lost' = FALSE
    /\ prog' \in {"renders", "sleeps"}
    /\ UNCHANGED reader

Next == Fail \/ Die \/ Wake \/ Sleep \/ Notice \/ Connect \/ Restore

Spec == Init /\ [][Next]_link

=============================================================================
