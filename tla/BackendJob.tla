----------------------------- MODULE BackendJob -----------------------------
(***************************************************************************)
(* The Backend's record of one AI job, as the worker sees it through       *)
(* app/backend_client.py.  The Backend is a service of its own: what is    *)
(* modelled is what the worker's code relies on.                           *)
(*                                                                         *)
(*   - an update is recorded only if its sequence is greater than the last *)
(*     one recorded (the `duplicate_sequence' entry of the fixtures'       *)
(*     manifest) and the job is still active;                              *)
(*   - a cancelled job still takes the worker's acknowledgement;           *)
(*   - anything else is answered 409, and so may be any update of a job    *)
(*     whose cancellation was requested;                                   *)
(*   - with the fault "race", 409 may also answer an update that collided  *)
(*     with another write of the record and could have been recorded.      *)
(***************************************************************************)
EXTENDS Integers

CONSTANT Faults   \* what may go wrong in the environment, see AllFaults

VARIABLES
    status,            \* the job's status
    cancelRequested,   \* the user asked to cancel it
    lastSeq,           \* last_update_sequence: the last sequence recorded
    recorded           \* a worker's terminal update closed the record

backendVars == <<status, cancelRequested, lastSeq, recorded>>

(***************************************************************************)
(* The faults a run may enable.                                            *)
(*   outage      an HTTP call fails before it reaches the Backend          *)
(*   lost        an update is recorded but its answer is lost              *)
(*   late        an update is recorded after its caller gave up on it      *)
(*   race        409 for an update that could have been recorded           *)
(*   refusal     401 or 404                                                *)
(*   exception   an error of a kind the HTTP client code does not catch    *)
(*   cancel      the user cancels the job, or it is superseded             *)
(*   crash       the worker process dies                                   *)
(*   redelivery  the broker hands out a message that is being worked on    *)
(***************************************************************************)
AllFaults == {"outage", "lost", "late", "race", "refusal", "exception",
              "cancel", "crash", "redelivery"}

ASSUME FaultsAssumption == Faults \subseteq AllFaults

Active == {"queued", "running"}
TerminalStatus == {"completed", "failed", "cancelled"}
JobStatus == Active \cup TerminalStatus \cup {"superseded"}
UpdateStatus == {"started", "progress"} \cup TerminalStatus

Update == [seq : Nat, status : UpdateStatus]
Result == [seq : Nat, status : TerminalStatus]
NoUpdate == [seq |-> 0, status |-> "none"]
IsTerminal(u) == u.status \in TerminalStatus

BackendTypeOK ==
    /\ status \in JobStatus
    /\ cancelRequested \in BOOLEAN
    /\ lastSeq \in Nat
    /\ recorded \in BOOLEAN

\* The user may have cancelled the job while it waited in the queue.
BackendInit ==
    /\ cancelRequested \in (IF "cancel" \in Faults THEN BOOLEAN ELSE {FALSE})
    /\ status \in (IF cancelRequested THEN {"queued", "cancelled"} ELSE {"queued"})
    /\ lastSeq = 0
    /\ recorded = FALSE

CanRecord(u) ==
    /\ u.seq > lastSeq
    /\ \/ status \in Active
       \/ status = "cancelled" /\ u.status = "cancelled"

Record(u) ==
    /\ CanRecord(u)
    /\ lastSeq' = u.seq
    /\ status' = IF IsTerminal(u) THEN u.status ELSE "running"
    /\ recorded' = (recorded \/ IsTerminal(u))
    /\ UNCHANGED cancelRequested

MayConflict(u) ==
    \/ ~CanRecord(u)
    \/ cancelRequested
    \/ "race" \in Faults

\* check_cancellation's reading of the job.
CancelSeen == cancelRequested \/ status \in {"cancelled", "superseded"}

\* _should_retry_terminal_conflict's reading of the job.
WorthRetrying(u) ==
    /\ status \in Active
    /\ ~cancelRequested
    /\ lastSeq < u.seq

RequestCancellation ==
    /\ "cancel" \in Faults
    /\ status \in Active
    /\ ~cancelRequested
    /\ cancelRequested' = TRUE
    /\ status' \in {status, "cancelled"}
    /\ UNCHANGED <<lastSeq, recorded>>

Supersede ==
    /\ "cancel" \in Faults
    /\ status \in Active
    /\ status' = "superseded"
    /\ UNCHANGED <<cancelRequested, lastSeq, recorded>>

\* The job's record says how it ended.
Closed == status \notin Active
=============================================================================
