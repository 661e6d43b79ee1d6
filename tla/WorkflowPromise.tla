-------------------------- MODULE WorkflowPromise --------------------------
(***************************************************************************)
(* What a workflow run promises the people who drive it: its steps are     *)
(* done strictly in order, each step once per revision; a gate is one of   *)
(* the steps, so nothing behind it is done before it is approved; only a   *)
(* rejection takes steps back, and always a whole suffix of what was done; *)
(* a run completes exactly when every step is done, and an ended run stays *)
(* as it is.  Nothing is said of statements, requests or rows.             *)
(***************************************************************************)
EXTENDS Naturals

CONSTANT Lengths    \* possible numbers of steps of a definition

VARIABLES
    status,     \* "none", "live", or how the run ended
    length,     \* number of steps of the run's definition
    done        \* steps 1 .. done are done, the others are not

vars == <<status, length, done>>

Init == status = "none" /\ length = 0 /\ done = 0

Start == /\ status = "none"
         /\ status' = "live"
         /\ length' \in Lengths
         /\ done' = 0

DoNextStep == /\ status \notin {"none", "completed"}
              /\ done < length
              /\ done' = done + 1
              /\ UNCHANGED <<status, length>>

Reopen == /\ status \notin {"none", "completed"}
          /\ done' \in 0 .. done
          /\ UNCHANGED <<status, length>>

Complete == /\ status = "live"
            /\ done = length
            /\ status' = "completed"
            /\ UNCHANGED <<length, done>>

Stop == /\ \/ status = "live"
              /\ status' \in {"failed", "cancelled", "qa_failed", "blocked_future_feature"}
           \/ status \in {"qa_failed", "blocked_future_feature"}
              /\ status' \in {"failed", "cancelled"}
        /\ UNCHANGED <<length, done>>

Next == Start \/ DoNextStep \/ Reopen \/ Complete \/ Stop

Spec == Init /\ [][Next]_vars
=============================================================================
