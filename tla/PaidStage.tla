----------------------------- MODULE PaidStage -----------------------------
(* What a stage that costs money promises (the cascade pays an API, pass@k *)
(* an hour of the one GPU): at most one process works at it, a complete    *)
(* result is final, and no process is launched once there is one.          *)
CONSTANTS Process, Final

VARIABLES alive,  \* processes at work on the stage
          result  \* what its manifest says

Init == alive = {} /\ result = "none"

Launch ==
    /\ alive = {} /\ result \notin Final
    /\ \E p \in Process : alive' = {p}
    /\ UNCHANGED result

Work ==
    /\ alive # {} /\ result \notin Final
    /\ result' \in Final \cup {"torn", "interrupted"}
    /\ UNCHANGED alive

End == alive # {} /\ alive' = {} /\ UNCHANGED result

Spec == Init /\ [][Launch \/ Work \/ End]_<<alive, result>>

=============================================================================
