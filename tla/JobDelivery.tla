----------------------------- MODULE JobDelivery -----------------------------
(***************************************************************************)
(* One job on its way through the worker: the messages the Celery broker   *)
(* holds for it, the worker processes that execute them (app/worker.py),   *)
(* the HTTP client each of them calls (app/backend_client.py) and the      *)
(* Backend's record of the job (BackendJob).                               *)
(*                                                                         *)
(* A message is either a job to run or, with `upd', a result whose         *)
(* delivery is tried again.  The broker keeps a message until a worker     *)
(* acknowledges it (acks_late), so one that dies leaves it for another.    *)
(* What the pipeline computes is abstract here: an execution may post      *)
(* progress, notice a cancellation, and end in one of the ways process_job *)
(* tells apart.                                                            *)
(***************************************************************************)
EXTENDS BackendJob, FiniteSets

CONSTANTS
    Workers,              \* worker processes
    Kinds,                \* the envelopes the job may come in, see AllKinds
    MaxPostAttempts,      \* max_attempts of BackendClient.send_update
    MaxProviderRetries,   \* MAX_PROVIDER_RETRIES
    MaxCallbackRetries,   \* MAX_CALLBACK_RETRIES
    MaxProgress,          \* bound: progress updates of one execution
    MaxCrashes,           \* bound: worker processes that die
    MaxRedeliveries,      \* bound: messages handed out while being worked on
    MaxLate,              \* bound: updates that are late at the same time
    MaxCounted            \* bound: how far the history counters count

(***************************************************************************)
(* analysis      analyze_session, analyze_answer or generate_report        *)
(* erase         erase_ai_data, which ignores cancellation                 *)
(* invalid       an envelope that names its job and fails validation       *)
(* unidentified  an envelope that fails validation and names no job        *)
(***************************************************************************)
AllKinds == {"analysis", "erase", "invalid", "unidentified"}

ASSUME DeliveryAssumption ==
    /\ Kinds \subseteq AllKinds
    /\ MaxPostAttempts \in Nat \ {0}
    /\ MaxProviderRetries \in Nat
    /\ MaxCallbackRetries \in Nat
    /\ MaxProgress \in Nat
    /\ MaxCrashes \in Nat
    /\ MaxRedeliveries \in Nat
    /\ MaxLate \in Nat
    /\ MaxCounted \in Nat

MaxTaskRetries == MaxProviderRetries + MaxCallbackRetries

Count(n) == IF n < MaxCounted THEN n + 1 ELSE n

VARIABLES
    kind,           \* the envelope's kind
    broker,         \* the messages not acknowledged yet
    nextId,         \* the id of the next message published
    ex,             \* what each worker is executing
    quarantine,     \* the records sent to AI_QUARANTINE_QUEUE
    late,           \* updates on the wire whose caller has given up
    computed,       \* how many results executions have produced
    dispatched,     \* how many times a pipeline was run
    crashes,        \* how many workers have died
    redeliveries    \* how many messages were handed out twice at once

queueVars == <<kind, broker, nextId>>
counters == <<computed, dispatched>>
envVars == <<late, crashes, redeliveries>>
vars == <<backendVars, queueVars, ex, quarantine, counters, envVars>>

Message == [id : Nat, retries : 0..MaxTaskRetries, upd : Result \cup {NoUpdate}]
NoMessage == [id |-> 0, retries |-> 0, upd |-> NoUpdate]

\* Where an execution stands: the call it is about to make.
Place == {"idle", "check", "sequence", "post", "reread", "run", "failed", "ack"}
Refusals == {"unauthorized", "not_found"}
Reason == Refusals \cup {"none", "malformed", "conflict", "unavailable",
                         "exception", "provider"}

Execution == [
    pc : Place,
    held : Message,       \* the message being executed
    seq : Nat,            \* MonotonicUpdateTracker.sequence
    out : Update \cup {NoUpdate},     \* the update being posted
    attempt : 0..(MaxPostAttempts - 1),  \* failed attempts to post it
    err : Reason,         \* why the execution failed
    emitted : 0..MaxProgress,  \* progress updates sent
    cancelled : BOOLEAN,  \* cancelled_before_dispatch
    knew : BOOLEAN]       \* the job was cancelled when the message arrived

Idle == [pc |-> "idle", held |-> NoMessage, seq |-> 0, out |-> NoUpdate,
         attempt |-> 0, err |-> "none", emitted |-> 0,
         cancelled |-> FALSE, knew |-> FALSE]

\* What an operator is given: why, and the result to deliver if there is one.
QuarantineRecord == [reason : Reason, result : TerminalStatus \cup {"none"}]

TypeOK ==
    /\ BackendTypeOK
    /\ kind \in AllKinds
    /\ broker \subseteq Message
    /\ nextId \in Nat
    /\ ex \in [Workers -> Execution]
    /\ quarantine \subseteq QuarantineRecord
    /\ late \subseteq Update
    /\ computed \in 0..MaxCounted
    /\ dispatched \in 0..MaxCounted
    /\ crashes \in Nat
    /\ redeliveries \in Nat

Init ==
    /\ BackendInit
    /\ kind \in Kinds
    /\ broker = {[id |-> 1, retries |-> 0, upd |-> NoUpdate]}
    /\ nextId = 2
    /\ ex = [w \in Workers |-> Idle]
    /\ quarantine = {}
    /\ late = {}
    /\ computed = 0
    /\ dispatched = 0
    /\ crashes = 0
    /\ redeliveries = 0

Busy(w) == ex[w].pc # "idle"
Carried(u) == u # NoUpdate

-----------------------------------------------------------------------------
(* Taking a message and finding out where the job stands.                  *)

\* Mutant: the check for a cancellation before dispatch is forgotten.
FirstCallUnchecked == IF kind = "unidentified" THEN "failed" ELSE "sequence"

FirstCall == CASE kind = "analysis"     -> "check"
               [] kind = "unidentified" -> "failed"
               [] OTHER                 -> "sequence"

\* A message that no worker executes, or one the broker's visibility timeout
\* gives to a second worker.
Deliver(w) ==
    /\ ~Busy(w)
    /\ \E m \in broker :
        /\ IF \E v \in Workers : Busy(v) /\ ex[v].held = m
           THEN /\ "redelivery" \in Faults
                /\ redeliveries < MaxRedeliveries
                /\ redeliveries' = redeliveries + 1
           ELSE UNCHANGED redeliveries
        /\ ex' = [ex EXCEPT ![w] =
                    [Idle EXCEPT
                        !.held = m,
                        !.knew = CancelSeen,
                        !.pc = IF Carried(m.upd) THEN "post" ELSE FirstCall,
                        !.out = m.upd,
                        !.err = IF ~Carried(m.upd) /\ kind = "unidentified"
                                THEN "malformed" ELSE "none"]]
    /\ UNCHANGED <<backendVars, queueVars, quarantine, counters, late, crashes>>

\* How a call of the Backend's job status may end without an answer.
GetFailure == (IF "outage" \in Faults THEN {"unavailable"} ELSE {})
              \cup (IF "refusal" \in Faults THEN Refusals ELSE {})
              \cup (IF "exception" \in Faults THEN {"exception"} ELSE {})

\* What remains of an execution that has done with its pipeline.
Leaving(w, pc) == [Idle EXCEPT !.pc = pc, !.held = ex[w].held]

\* Mutant: the failure of a delivery forgets the update.
GiveUpEmptyHanded(w, e) ==
    ex' = [ex EXCEPT ![w] = [Leaving(w, "failed") EXCEPT !.err = e]]

GiveUp(w, e) ==
    ex' = [ex EXCEPT ![w] =
             [Leaving(w, "failed") EXCEPT
                !.err = e,
                !.out = IF IsTerminal(ex[w].out) THEN ex[w].out ELSE NoUpdate]]

\* Without a result to deliver, an error that no handler names fails the Celery
\* task, which acknowledges its message.
Abort(w, e) ==
    IF e = "exception" /\ ~IsTerminal(ex[w].out)
    THEN ex' = [ex EXCEPT ![w] = Leaving(w, "ack")]
    ELSE GiveUp(w, e)

CheckBeforeDispatch(w) ==
    /\ ex[w].pc = "check"
    /\ \/ ex' = [ex EXCEPT ![w].pc = "sequence", ![w].cancelled = CancelSeen]
       \/ \E e \in GetFailure : Abort(w, e)
    /\ UNCHANGED <<backendVars, queueVars, quarantine, counters, envVars>>

\* Mutant: an execution numbers its updates from 1.
PostNextFromOne(w, seq, update) ==
    ex' = [ex EXCEPT ![w].pc = "post", ![w].seq = 1,
                     ![w].out = [seq |-> 1, status |-> update]]

\* The execution posts an update of its own, under its next sequence.
PostNext(w, seq, update) ==
    ex' = [ex EXCEPT ![w].pc = "post", ![w].seq = seq + 1,
                     ![w].out = [seq |-> seq + 1, status |-> update]]

\* Its terminal update takes the next sequence too, and is all that is left.
Conclude(w, seq, outcome) ==
    /\ ex' = [ex EXCEPT ![w] =
                 [Leaving(w, "post") EXCEPT
                    !.knew = ex[w].knew,
                    !.out = [seq |-> seq + 1, status |-> outcome]]]
    /\ computed' = Count(computed)

\* get_last_update_sequence, and what follows it at once: the rejection of an
\* invalid envelope, the acknowledgement of a cancellation, or STARTED.
ReadSequence(w) ==
    /\ ex[w].pc = "sequence"
    /\ \/ /\ kind = "invalid"
          /\ Conclude(w, lastSeq, "failed")
       \/ /\ kind # "invalid"
          /\ ex[w].cancelled
          /\ Conclude(w, lastSeq, "cancelled")
       \/ /\ kind # "invalid"
          /\ ~ex[w].cancelled
          /\ PostNext(w, lastSeq, "started")
          /\ UNCHANGED computed
       \/ /\ \E e \in GetFailure : Abort(w, e)
          /\ UNCHANGED computed
    /\ UNCHANGED <<backendVars, queueVars, quarantine, dispatched, envVars>>

-----------------------------------------------------------------------------
(* BackendClient.send_update: one attempt to post ex[w].out.               *)

MaxOf(a, b) == IF a > b THEN a ELSE b

\* The caller goes on as if the update was delivered.
Delivered(w, acknowledged) ==
    /\ ex' = [ex EXCEPT ![w] =
                 IF IsTerminal(ex[w].out) THEN Leaving(w, "ack")
                 ELSE [ex[w] EXCEPT !.pc = "run", !.out = NoUpdate, !.attempt = 0,
                                    !.seq = MaxOf(@, acknowledged)]]
    /\ dispatched' = IF ex[w].out.status = "started" THEN Count(dispatched)
                     ELSE dispatched

\* The call raises; progress updates are best effort.
Raise(w, e) ==
    /\ IF ex[w].out.status = "progress"
       THEN ex' = [ex EXCEPT ![w].pc = "run", ![w].out = NoUpdate,
                             ![w].attempt = 0]
       ELSE Abort(w, e)
    /\ UNCHANGED dispatched

TryAgain(w) ==
    IF ex[w].attempt + 1 < MaxPostAttempts
    THEN /\ ex' = [ex EXCEPT ![w].attempt = @ + 1]
         /\ UNCHANGED dispatched
    ELSE Raise(w, "unavailable")

PostRecorded(w) ==
    /\ Record(ex[w].out)
    /\ Delivered(w, lastSeq')
    /\ UNCHANGED late

PostUnanswered(w) ==
    /\ \/ "outage" \in Faults /\ UNCHANGED <<backendVars, late>>
       \/ "lost" \in Faults /\ Record(ex[w].out) /\ UNCHANGED late
       \/ /\ "late" \in Faults
          /\ Cardinality(late) < MaxLate
          /\ late' = late \cup {ex[w].out}
          /\ UNCHANGED backendVars
    /\ TryAgain(w)

PostConflict(w) ==
    /\ MayConflict(ex[w].out)
    /\ IF IsTerminal(ex[w].out)
       THEN /\ ex' = [ex EXCEPT ![w].pc = "reread"]
            /\ UNCHANGED dispatched
       ELSE Raise(w, "conflict")
    /\ UNCHANGED <<backendVars, late>>

PostRefused(w) ==
    /\ "refusal" \in Faults
    /\ \E e \in Refusals : Raise(w, e)
    /\ UNCHANGED <<backendVars, late>>

PostBroken(w) ==
    /\ "exception" \in Faults
    /\ Record(ex[w].out) \/ UNCHANGED backendVars
    /\ Raise(w, "exception")
    /\ UNCHANGED late

Post(w) ==
    /\ ex[w].pc = "post"
    /\ \/ PostRecorded(w)
       \/ PostUnanswered(w)
       \/ PostConflict(w)
       \/ PostRefused(w)
       \/ PostBroken(w)
    /\ UNCHANGED <<queueVars, quarantine, computed, crashes, redeliveries>>

\* _should_retry_terminal_conflict.  The attempt counts, and when it was the
\* last one send_update leaves its loop and returns None.
RereadAfterConflict(w) ==
    /\ ex[w].pc = "reread"
    /\ \/ /\ WorthRetrying(ex[w].out)
          /\ IF ex[w].attempt + 1 < MaxPostAttempts
             THEN ex' = [ex EXCEPT ![w].pc = "post", ![w].attempt = @ + 1]
             ELSE ex' = [ex EXCEPT ![w] = Leaving(w, "ack")]
       \/ /\ ~WorthRetrying(ex[w].out)
          /\ GiveUp(w, "conflict")
       \/ \E e \in GetFailure : Abort(w, e)
    /\ UNCHANGED <<backendVars, queueVars, quarantine, counters, envVars>>

-----------------------------------------------------------------------------
(* The pipeline of one execution.                                          *)

EmitProgress(w) ==
    /\ ex[w].pc = "run"
    /\ kind = "analysis"
    /\ ex[w].emitted < MaxProgress
    /\ ex' = [ex EXCEPT ![w].pc = "post", ![w].seq = @ + 1, ![w].emitted = @ + 1,
                        ![w].out = [seq |-> ex[w].seq + 1, status |-> "progress"]]
    /\ UNCHANGED <<backendVars, queueVars, quarantine, counters, envVars>>

CheckCancellation(w) ==
    /\ ex[w].pc = "run"
    /\ kind = "analysis"
    /\ \/ CancelSeen /\ Conclude(w, ex[w].seq, "cancelled")
       \/ /\ \E e \in GetFailure \ {"exception"} : GiveUp(w, e)
          /\ UNCHANGED computed
    /\ UNCHANGED <<backendVars, queueVars, quarantine, dispatched, envVars>>

Finish(w) ==
    /\ ex[w].pc = "run"
    /\ \E outcome \in {"completed", "failed"} : Conclude(w, ex[w].seq, outcome)
    /\ UNCHANGED <<backendVars, queueVars, quarantine, dispatched, envVars>>

\* StageTransientError: the job is run again while provider retries are left,
\* then fails for good.
FailTransiently(w) ==
    /\ ex[w].pc = "run"
    /\ kind = "analysis"
    /\ IF ex[w].held.retries < MaxProviderRetries
       THEN GiveUp(w, "provider") /\ UNCHANGED computed
       ELSE Conclude(w, ex[w].seq, "failed")
    /\ UNCHANGED <<backendVars, queueVars, quarantine, dispatched, envVars>>

-----------------------------------------------------------------------------
(* retry_or_quarantine, and the end of the execution.                      *)

\* Conflicts and unnamed errors are worth another try only for a result.
Retryable(w) ==
    \/ ex[w].err = "unavailable"
    \/ ex[w].err \in {"conflict", "exception"} /\ Carried(ex[w].out)

\* Mutant: one retry too many.
WillRetryOnceMore(w) == \/ ex[w].err = "provider"
                        \/ Retryable(w) /\ ex[w].held.retries <= MaxTaskRetries

WillRetry(w) == \/ ex[w].err = "provider"
                \/ Retryable(w) /\ ex[w].held.retries < MaxTaskRetries

\* Mutant: the retry is published without delivery_update.
PublishRerun(w) ==
    /\ ex[w].pc = "failed"
    /\ WillRetry(w)
    /\ broker' = broker \cup {[id |-> nextId, retries |-> ex[w].held.retries + 1,
                               upd |-> NoUpdate]}
    /\ nextId' = nextId + 1
    /\ ex' = [ex EXCEPT ![w] = Leaving(w, "ack")]
    /\ UNCHANGED <<backendVars, kind, quarantine, counters, envVars>>

\* Mutant: the retry counter does not advance.
PublishUncounted(w) ==
    /\ ex[w].pc = "failed"
    /\ WillRetry(w)
    /\ broker' = broker \cup {[id |-> nextId, retries |-> ex[w].held.retries,
                               upd |-> ex[w].out]}
    /\ nextId' = nextId + 1
    /\ ex' = [ex EXCEPT ![w] = Leaving(w, "ack")]
    /\ UNCHANGED <<backendVars, kind, quarantine, counters, envVars>>

PublishRetry(w) ==
    /\ ex[w].pc = "failed"
    /\ WillRetry(w)
    /\ broker' = broker \cup {[id |-> nextId,
                               retries |-> ex[w].held.retries + 1,
                               upd |-> ex[w].out]}
    /\ nextId' = nextId + 1
    /\ ex' = [ex EXCEPT ![w] = Leaving(w, "ack")]
    /\ UNCHANGED <<backendVars, kind, quarantine, counters, envVars>>

\* Mutant: the failure is logged and nobody is handed the job.
QuarantineNothing(w) ==
    /\ ex[w].pc = "failed"
    /\ ~WillRetry(w)
    /\ ex' = [ex EXCEPT ![w] = Leaving(w, "ack")]
    /\ UNCHANGED <<backendVars, queueVars, quarantine, counters, envVars>>

Quarantine(w) ==
    /\ ex[w].pc = "failed"
    /\ ~WillRetry(w)
    /\ quarantine' = quarantine \cup {[reason |-> ex[w].err,
                                        result |-> ex[w].out.status]}
    /\ ex' = [ex EXCEPT ![w] = Leaving(w, "ack")]
    /\ UNCHANGED <<backendVars, queueVars, counters, envVars>>

\* Mutant: the broker takes the message back when its execution ends.
Requeue(w) ==
    /\ ex[w].pc = "ack"
    /\ ex' = [ex EXCEPT ![w] = Idle]
    /\ UNCHANGED <<backendVars, queueVars, quarantine, counters, envVars>>

\* Mutant: a message is acknowledged before its execution ends.
AcknowledgeEarly(w) ==
    /\ ex[w].pc \in {"run", "ack"}
    /\ broker' = broker \ {ex[w].held}
    /\ ex' = IF ex[w].pc = "ack" THEN [ex EXCEPT ![w] = Idle] ELSE ex
    /\ UNCHANGED <<backendVars, kind, nextId, quarantine, counters, envVars>>

\* acks_late: only now does the broker forget the message.
Acknowledge(w) ==
    /\ ex[w].pc = "ack"
    /\ broker' = broker \ {ex[w].held}
    /\ ex' = [ex EXCEPT ![w] = Idle]
    /\ UNCHANGED <<backendVars, kind, nextId, quarantine, counters, envVars>>

-----------------------------------------------------------------------------
(* The environment.                                                        *)

\* reject_on_worker_lost: the message stays with the broker, and an update the
\* worker was posting may still arrive.
Crash(w) ==
    /\ "crash" \in Faults
    /\ crashes < MaxCrashes
    /\ Busy(w)
    /\ ex' = [ex EXCEPT ![w] = Idle]
    /\ crashes' = crashes + 1
    /\ \/ UNCHANGED late
       \/ /\ "late" \in Faults
          /\ ex[w].pc = "post"
          /\ Cardinality(late) < MaxLate
          /\ late' = late \cup {ex[w].out}
    /\ UNCHANGED <<backendVars, queueVars, quarantine, counters, redeliveries>>

LateArrival ==
    /\ \E u \in late :
        /\ late' = late \ {u}
        /\ IF CanRecord(u) THEN Record(u) ELSE UNCHANGED backendVars
    /\ UNCHANGED <<queueVars, ex, quarantine, counters, crashes, redeliveries>>

UserAction ==
    /\ RequestCancellation \/ Supersede
    /\ UNCHANGED <<queueVars, ex, quarantine, counters, envVars>>

-----------------------------------------------------------------------------
Step(w) ==
    \/ CheckBeforeDispatch(w)
    \/ ReadSequence(w)
    \/ Post(w)
    \/ RereadAfterConflict(w)
    \/ EmitProgress(w)
    \/ CheckCancellation(w)
    \/ Finish(w)
    \/ FailTransiently(w)
    \/ PublishRetry(w)
    \/ Quarantine(w)
    \/ Acknowledge(w)

Next ==
    \/ \E w \in Workers : Deliver(w) \/ Step(w) \/ Crash(w)
    \/ LateArrival
    \/ UserAction

Spec == Init /\ [][Next]_vars

\* The Backend and the worker processes keep going; nothing obliges a fault, a
\* user or a second delivery of a held message to happen.
DeliverFree(w) == Deliver(w) /\ UNCHANGED redeliveries

Fairness == /\ WF_vars(\E w \in Workers : DeliverFree(w))
            /\ \A w \in Workers : WF_vars(Step(w))

FairSpec == Spec /\ Fairness

-----------------------------------------------------------------------------
(* What is checked.                                                        *)

\* The job's record is closed, or an operator was handed the job.
Settled == Closed \/ quarantine # {}

\* The job is never lost: until it is settled the broker holds a message for
\* it, whatever crashes, is delivered twice, times out or is refused.
NoJobLost == Settled \/ broker # {}

\* The comment on step 2 of _async_process_job_task: a retry of the terminal
\* callback resends the result and does not run the pipeline again.  So, as
\* long as no worker dies and no message is handed out twice, one job has at
\* most one result.
OneResult == crashes = 0 /\ redeliveries = 0 => computed <= 1

\* The retry counter is shared by every reason to retry: a job whose workers
\* stay alive runs at most 1 + MAX_TASK_RETRIES times, whatever mix of
\* provider failures and Backend outages it meets.
RunsAreBounded == crashes = 0 /\ redeliveries = 0
                    => dispatched <= 1 + MaxTaskRetries

\* A result that was computed is recorded by the Backend, still on its way,
\* or in the operators' hands (as long as no worker dies with it).
ResultKept ==
    computed > 0 /\ crashes = 0 /\ redeliveries = 0 =>
        \/ recorded
        \/ \E w \in Workers : IsTerminal(ex[w].out)
        \/ \E m \in broker : IsTerminal(m.upd)
        \/ \E q \in quarantine : q.result # "none"

\* A job that was cancelled before a worker took its message is not run for
\* that message, nor reported as anything but cancelled; erasure goes on.
CancelledBeforeTaken ==
    \A w \in Workers :
        ex[w].knew /\ kind = "analysis" /\ ~Carried(ex[w].held.upd) =>
            /\ ex[w].pc # "run"
            /\ ex[w].out.status \in {"none", "cancelled"}

\* The comment in MonotonicUpdateTracker.send_update: a redelivered job resumes
\* the Backend's sequence instead of replaying 1, 2.  With a single worker and
\* no late update, the first post of each update that an execution numbers
\* itself is above everything recorded.
ResumesAboveRecorded ==
    Cardinality(Workers) = 1 /\ "late" \notin Faults =>
        \A w \in Workers :
            /\ ex[w].pc = "post"
            /\ ex[w].attempt = 0
            /\ ~Carried(ex[w].held.upd)
            => ex[w].out.seq > lastSeq

\* README.md: "Backend 401, 404, and 409 responses stop the affected task
\* rather than triggering unsafe retries".
RejectionStopsTask ==
    [][\A w \in Workers :
          /\ ex[w].pc = "post" /\ (PostConflict(w) \/ PostRefused(w))
                => ex'[w].pc # "run"
          /\ PublishRetry(w) => ex[w].err \notin Refusals \cup {"conflict"}]_vars

\* The test "A callback race must not orphan a report that was already
\* uploaded": a job whose workers are alive does not lose a result to
\* conflicts with other writes of its record.
ResultSurvivesRace == NoJobLost

JobSettles == <>Settled
BrokerDrains == <>[](broker = {})

Promise == INSTANCE JobPromise WITH
    Outcomes <- JobStatus \ Active,
    owed <- broker # {},
    outcome <- IF status \in Active THEN "open" ELSE status,
    parked <- quarantine # {}

ImplementsPromise == Promise!Spec
=============================================================================
