----------------------------- MODULE JobPromise -----------------------------
(***************************************************************************)
(* What the worker promises for a job it was sent, whatever it does to     *)
(* keep the promise: as long as neither the Backend's record of the job is *)
(* closed nor an operator was handed the job, the broker still owes it to  *)
(* a worker.  A record, once closed, keeps its outcome.                    *)
(***************************************************************************)
CONSTANT Outcomes   \* how a job may end

VARIABLES
    owed,      \* the broker holds a message for the job
    outcome,   \* how the job's record ended, "open" until it does
    parked     \* an operator was handed the job

vars == <<owed, outcome, parked>>

Settled == outcome # "open" \/ parked

Init == /\ owed = TRUE
        /\ outcome \in Outcomes \cup {"open"}
        /\ parked = FALSE

Close == /\ outcome = "open"
         /\ outcome' \in Outcomes
         /\ UNCHANGED <<owed, parked>>

Park == /\ parked' = TRUE
        /\ UNCHANGED <<owed, outcome>>

Release == /\ owed
           /\ Settled
           /\ owed' = FALSE
           /\ UNCHANGED <<outcome, parked>>

\* A duplicate of a settled job's message may do more work for it.
Reopen == /\ ~owed
          /\ Settled
          /\ owed' = TRUE
          /\ UNCHANGED <<outcome, parked>>

Next == Close \/ Park \/ Release \/ Reopen

Spec == Init /\ [][Next]_vars
=============================================================================
