---------------------------- MODULE RedisConsumer ----------------------------
(***************************************************************************)
(* The Redis consumers (app/queue_consumer.py): processes that claim jobs  *)
(* from Redis lists, run each with process_job, and keep a claimed job in  *)
(* a processing list until its outcome is known.  All consumers of a queue *)
(* share its processing list.                                              *)
(*                                                                         *)
(* A step is one Redis command, or one call of process_job, whose inside   *)
(* is JobDelivery's subject: here it reports the job, or raises.           *)
(* JobDelivery's fault "race" is left out, so what is reported is recorded.*)
(***************************************************************************)
EXTENDS Naturals, FiniteSets, SequencesExt

CONSTANTS
    Consumers,         \* consumer processes
    Jobs,              \* queued items, each with a text of its own
    NoJob,             \* no item
    Forms,             \* the forms an item may have, see AllForms
    NumQueues,         \* queue_names, polled in this order
    DeadLetterLimit,   \* dead_letter_limit, at least 1
    MaxFailures,       \* bound: calls that fail by chance
    MaxInterruptions,  \* bound: consumers that die or are told to stop
    MaxLostClaims      \* bound: claims whose answer is lost

(***************************************************************************)
(* valid      a QueueMessage                                               *)
(* named      anything else that has the job_id of a job                   *)
(* nameless   anything else                                                *)
(***************************************************************************)
AllForms == {"valid", "named", "nameless"}

ASSUME ConsumerAssumption ==
    /\ NoJob \notin Jobs
    /\ Forms \subseteq AllForms
    /\ NumQueues \in Nat \ {0}
    /\ DeadLetterLimit \in Nat \ {0}
    /\ MaxFailures \in Nat
    /\ MaxInterruptions \in Nat
    /\ MaxLostClaims \in Nat

Queues == 1..NumQueues

VARIABLES
    form,           \* each item's form
    record,         \* the Backend's record of each job
    ready,          \* the list of each queue: the head is claimed first
    pending,        \* its processing list
    deadLetters,    \* the dead-letter list of the first queue
    lettered,       \* history: the items that were put on it
    consumer,       \* what each consumer is doing
    failures, interruptions, lostClaims

lists == <<ready, pending>>
letterVars == <<deadLetters, lettered>>
vars == <<form, record, lists, letterVars, consumer,
          failures, interruptions, lostClaims>>

(***************************************************************************)
(* none        not queued yet                                              *)
(* open        waiting or running                                          *)
(* reported    completed or failed, as a consumer reported                 *)
(* cancelled   cancelled, and takes a consumer's acknowledgement           *)
(* superseded  superseded, and answers 409 to everything                   *)
(***************************************************************************)
Record == {"none", "open", "reported", "cancelled", "superseded"}

\* The command or call that a consumer is about to make.
Place == {"down", "recover", "poll", "work", "letter", "trim", "return", "remove"}

Consumer == [pc : Place, q : Queues, job : Jobs \cup {NoJob}, stopping : BOOLEAN]
Down == [pc |-> "down", q |-> 1, job |-> NoJob, stopping |-> FALSE]

TypeOK ==
    /\ form \in [Jobs -> AllForms]
    /\ record \in [Jobs -> Record]
    /\ ready \in [Queues -> Seq(Jobs)]
    /\ pending \in [Queues -> Seq(Jobs)]
    /\ deadLetters \in Seq(Jobs)
    /\ lettered \subseteq Jobs
    /\ consumer \in [Consumers -> Consumer]
    /\ failures \in 0..MaxFailures
    /\ interruptions \in 0..MaxInterruptions
    /\ lostClaims \in 0..MaxLostClaims

Init ==
    /\ form \in [Jobs -> Forms]
    /\ record = [j \in Jobs |-> "none"]
    /\ ready = [q \in Queues |-> <<>>]
    /\ pending = [q \in Queues |-> <<>>]
    /\ deadLetters = <<>>
    /\ lettered = {}
    /\ consumer = [c \in Consumers |-> Down]
    /\ failures = 0
    /\ interruptions = 0
    /\ lostClaims = 0

At(c, pc) == consumer[c].pc = pc
Queue(c) == consumer[c].q
Job(c) == consumer[c].job
Goto(c, pc) == consumer' = [consumer EXCEPT ![c].pc = pc]

\* Back to the condition of run's loop.
Loop(c) ==
    consumer' = [consumer EXCEPT ![c] = IF consumer[c].stopping THEN Down
                                        ELSE [Down EXCEPT !.pc = "poll"]]

\* A call fails: by chance, or because shutdown, which the signal called, closes
\* the connections that the job in hand still uses.
Fail(c) == \/ failures < MaxFailures /\ failures' = failures + 1
           \/ consumer[c].stopping /\ UNCHANGED failures

-----------------------------------------------------------------------------
(* Starting, and moving what was left pending back to the queues.          *)

Start(c) ==
    /\ At(c, "down")
    /\ consumer' = [consumer EXCEPT ![c] = [Down EXCEPT !.pc = "recover"]]
    /\ UNCHANGED <<form, record, lists, letterVars,
                   failures, interruptions, lostClaims>>

\* RPOPLPUSH and LMOVE RIGHT LEFT: the last of the pending items becomes the
\* first of the ready ones.
MoveBack(q) ==
    IF pending[q] = <<>> THEN UNCHANGED lists
    ELSE /\ ready' = [ready EXCEPT ![q] = <<Last(pending[q])>> \o @]
         /\ pending' = [pending EXCEPT ![q] = Front(@)]

\* Mutant: only the first queue's processing list is recovered.
RecoverFirstQueue(c) ==
    /\ At(c, "recover")
    /\ MoveBack(Queue(c))
    /\ IF pending[Queue(c)] # <<>> THEN UNCHANGED consumer ELSE Loop(c)
    /\ UNCHANGED <<form, record, letterVars, failures, interruptions, lostClaims>>

Recover(c) ==
    /\ At(c, "recover")
    /\ MoveBack(Queue(c))
    /\ IF pending[Queue(c)] # <<>> THEN UNCHANGED consumer
       ELSE IF Queue(c) < NumQueues
            THEN consumer' = [consumer EXCEPT ![c].q = @ + 1]
            ELSE Loop(c)
    /\ UNCHANGED <<form, record, letterVars, failures, interruptions, lostClaims>>

-----------------------------------------------------------------------------
(* Claiming an item: BLMOVE LEFT RIGHT.                                    *)

\* Mutant: the item is moved to the left of the processing list.
TakeHeadLeft(q) ==
    /\ ready[q] # <<>>
    /\ ready' = [ready EXCEPT ![q] = Tail(@)]
    /\ pending' = [pending EXCEPT ![q] = <<Head(ready[q])>> \o @]

TakeHead(q) ==
    /\ ready[q] # <<>>
    /\ ready' = [ready EXCEPT ![q] = Tail(@)]
    /\ pending' = [pending EXCEPT ![q] = Append(@, Head(ready[q]))]

Claim(c) ==
    /\ At(c, "poll")
    /\ TakeHead(Queue(c))
    /\ LET j == Head(ready[Queue(c)])
       IN consumer' = [consumer EXCEPT ![c].job = j,
                          ![c].pc = IF form[j] = "nameless" THEN "letter" ELSE "work"]
    /\ UNCHANGED <<form, record, letterVars, failures, interruptions, lostClaims>>

\* Mutant: the item is popped and pushed by two commands, and lost between them.
LosePoppedItem(c) ==
    /\ At(c, "poll")
    /\ lostClaims < MaxLostClaims
    /\ ready[Queue(c)] # <<>>
    /\ ready' = [ready EXCEPT ![Queue(c)] = Tail(@)]
    /\ Loop(c)
    /\ lostClaims' = lostClaims + 1
    /\ UNCHANGED <<form, record, pending, letterVars, failures, interruptions>>

\* Redis moved the item and its answer did not arrive.
LoseClaim(c) ==
    /\ At(c, "poll")
    /\ lostClaims < MaxLostClaims
    /\ TakeHead(Queue(c))
    /\ Loop(c)
    /\ lostClaims' = lostClaims + 1
    /\ UNCHANGED <<form, record, letterVars, failures, interruptions>>

FailToClaim(c) ==
    /\ At(c, "poll")
    /\ Fail(c)
    /\ Loop(c)
    /\ UNCHANGED <<form, record, lists, letterVars, interruptions, lostClaims>>

\* Mutant: one queue too many is polled.
PollBeyond(c) ==
    /\ At(c, "poll")
    /\ ready[Queue(c)] = <<>>
    /\ IF Queue(c) <= NumQueues
       THEN consumer' = [consumer EXCEPT ![c].q = @ + 1]
       ELSE Loop(c)
    /\ UNCHANGED <<form, record, lists, letterVars,
                   failures, interruptions, lostClaims>>

\* The queue stays empty for a second: the next one is polled.
PollNext(c) ==
    /\ At(c, "poll")
    /\ ready[Queue(c)] = <<>>
    /\ IF Queue(c) < NumQueues
       THEN consumer' = [consumer EXCEPT ![c].q = @ + 1]
       ELSE Loop(c)
    /\ UNCHANGED <<form, record, lists, letterVars,
                   failures, interruptions, lostClaims>>

-----------------------------------------------------------------------------
(* Processing a claimed item.                                              *)

RecordAs(j, r) == record' = [record EXCEPT ![j] = r]

\* The Backend takes what the consumer reports of a claimed item.
Reportable(j) ==
    record[j] = "open" \/ (record[j] = "cancelled" /\ form[j] = "valid")

Report(c) ==
    /\ At(c, "work")
    /\ Reportable(Job(c))
    /\ IF record[Job(c)] = "open" THEN RecordAs(Job(c), "reported")
       ELSE UNCHANGED record
    /\ Goto(c, "remove")
    /\ UNCHANGED <<form, lists, letterVars, failures, interruptions, lostClaims>>

\* The report was recorded, but no answer says so; what is sent again is
\* answered 409, or nothing is.
ReportUnanswered(c) ==
    /\ At(c, "work")
    /\ record[Job(c)] = "open"
    /\ Fail(c)
    /\ RecordAs(Job(c), "reported")
    /\ \/ Goto(c, "return")
       \/ form[Job(c)] = "named" /\ Goto(c, "letter")
    /\ UNCHANGED <<form, lists, letterVars, interruptions, lostClaims>>

\* 409: process_job raises.  A malformed item, also one whose job the Backend does not
\* know (404), becomes a dead letter.
Rejected(c) ==
    /\ At(c, "work")
    /\ IF form[Job(c)] = "valid"
       THEN ~Reportable(Job(c)) /\ Goto(c, "return")
       ELSE Goto(c, "letter")
    /\ UNCHANGED <<form, record, lists, letterVars,
                   failures, interruptions, lostClaims>>

\* Any other error before anything was reported.
FailToWork(c) ==
    /\ At(c, "work")
    /\ Fail(c)
    /\ Goto(c, "return")
    /\ UNCHANGED <<form, record, lists, letterVars, interruptions, lostClaims>>

\* LPUSH of a record of the malformed item.
PushLetter(c) ==
    /\ At(c, "letter")
    /\ deadLetters' = <<Job(c)>> \o deadLetters
    /\ lettered' = lettered \cup {Job(c)}
    /\ Goto(c, "trim")
    /\ UNCHANGED <<form, record, lists, failures, interruptions, lostClaims>>

\* Mutant: LTRIM's last index taken for a length.
TrimmedToLength ==
    SubSeq(deadLetters, 1, IF Len(deadLetters) <= DeadLetterLimit
                           THEN Len(deadLetters) ELSE DeadLetterLimit + 1)

Trimmed ==
    SubSeq(deadLetters, 1, IF Len(deadLetters) <= DeadLetterLimit
                           THEN Len(deadLetters) ELSE DeadLetterLimit)

\* LTRIM.
TrimLetters(c) ==
    /\ At(c, "trim")
    /\ deadLetters' = Trimmed
    /\ Goto(c, "remove")
    /\ UNCHANGED <<form, record, lists, lettered,
                   failures, interruptions, lostClaims>>

\* Redis fails LPUSH (once it has done it, the next place is "trim"), LTRIM,
\* having done it or not, or the EXPIRE after them.
FailToLetter(c) ==
    /\ \/ At(c, "letter") /\ UNCHANGED deadLetters
       \/ At(c, "trim") /\ deadLetters' \in {deadLetters, Trimmed}
    /\ Fail(c)
    /\ Goto(c, "return")
    /\ UNCHANGED <<form, record, lists, lettered, interruptions, lostClaims>>

-----------------------------------------------------------------------------
(* Putting the item back, or taking it out.                                *)

\* Mutant: the failed item is forgotten, as if its processing had succeeded.
ReturnNothing(c) ==
    /\ At(c, "return")
    /\ pending' = [pending EXCEPT ![Queue(c)] = RemoveFirst(@, Job(c))]
    /\ UNCHANGED ready
    /\ Loop(c)
    /\ UNCHANGED <<form, record, letterVars, failures, interruptions, lostClaims>>

Return(c) ==
    /\ At(c, "return")
    /\ MoveBack(Queue(c))
    /\ Loop(c)
    /\ UNCHANGED <<form, record, letterVars, failures, interruptions, lostClaims>>

\* LREM 1.
Release(c) ==
    /\ At(c, "remove")
    /\ pending' = [pending EXCEPT ![Queue(c)] = RemoveFirst(@, Job(c))]
    /\ Loop(c)
    /\ UNCHANGED <<form, record, ready, letterVars,
                   failures, interruptions, lostClaims>>

-----------------------------------------------------------------------------
(* The environment.                                                        *)

\* The process dies, is cancelled, or meets an error of Redis that run does
\* not catch; a command it was waiting for was done before, or never will be.
Interrupt(c) ==
    /\ ~At(c, "down")
    /\ interruptions < MaxInterruptions
    /\ interruptions' = interruptions + 1
    /\ consumer' = [consumer EXCEPT ![c] = Down]
    /\ UNCHANGED <<form, record, lists, letterVars, failures, lostClaims>>

\* SIGTERM or SIGINT: shutdown.  The job in hand goes on.
Stop(c) ==
    /\ ~At(c, "down")
    /\ ~consumer[c].stopping
    /\ interruptions < MaxInterruptions
    /\ interruptions' = interruptions + 1
    /\ consumer' = [consumer EXCEPT ![c].stopping = TRUE]
    /\ UNCHANGED <<form, record, lists, letterVars, failures, lostClaims>>

\* A producer queues an item (RPUSH).
Enqueue(j) ==
    /\ record[j] = "none"
    /\ RecordAs(j, "open")
    /\ \E q \in Queues : ready' = [ready EXCEPT ![q] = Append(@, j)]
    /\ UNCHANGED <<form, pending, letterVars, consumer,
                   failures, interruptions, lostClaims>>

Cancel(j) ==
    /\ record[j] = "open"
    /\ \E r \in {"cancelled", "superseded"} : RecordAs(j, r)
    /\ UNCHANGED <<form, lists, letterVars, consumer,
                   failures, interruptions, lostClaims>>

-----------------------------------------------------------------------------
Step(c) ==
    \/ Start(c) \/ Recover(c)
    \/ Claim(c) \/ LoseClaim(c) \/ FailToClaim(c) \/ PollNext(c)
    \/ Report(c) \/ ReportUnanswered(c) \/ Rejected(c) \/ FailToWork(c)
    \/ PushLetter(c) \/ TrimLetters(c) \/ FailToLetter(c)
    \/ Return(c) \/ Release(c)

Next ==
    \/ \E c \in Consumers : Step(c) \/ Interrupt(c) \/ Stop(c)
    \/ \E j \in Jobs : Enqueue(j) \/ Cancel(j)

Spec == Init /\ [][Next]_vars

\* Consumers keep going, and one that went down is started again.
FairSpec == Spec /\ \A c \in Consumers : WF_vars(Step(c))

-----------------------------------------------------------------------------
(* What is checked.                                                        *)

Settled == {j \in Jobs : record[j] \in {"reported", "cancelled", "superseded"}}
           \cup lettered

TheLine == [q \in Queues |-> pending[q] \o ready[q]]

\* However many consumers share a queue, die, recover each other's items or
\* return the wrong one: no item leaves the queue before its end is known,
\* and the pending items followed by the ready ones keep the order in which
\* the items came.
Line == INSTANCE JobLine WITH line <- TheLine, settled <- Settled

ImplementsLine == Line!Spec

\* The dead-letter list outgrows its limit by no more than the letters whose
\* trimming is still to come, failed or was cut short.
DeadLettersBounded ==
    Len(deadLetters) <= DeadLetterLimit
                        + Cardinality({c \in Consumers : At(c, "trim")})
                        + failures + interruptions

\* The comment in run: "BLMOVE claims into the right side of the pending list;
\* LMOVE atomically returns the failed item to the ready head."  So the item
\* that LMOVE is about to move is the one that failed.
ReturnsFailedItem ==
    \A c \in Consumers :
        At(c, "return") => /\ pending[Queue(c)] # <<>>
                           /\ Last(pending[Queue(c)]) = Job(c)

InLine(j) == \E q \in Queues : Contains(TheLine[q], j)

\* A valid item that process_job will never get done: each try is answered 409
\* and puts it back at the head of its queue.
Poison(j) == /\ InLine(j)
             /\ form[j] = "valid"
             /\ record[j] \in {"reported", "superseded"}

\* An item whose claim was lost waits for the next start of a consumer.
Stranded(j) == /\ lostClaims > 0
               /\ \E q \in Queues : Contains(pending[q], j)

\* A lone consumer deals with every item in the end, unless it keeps trying one
\* that it can never get done or the claim of the item was lost.
EveryItemLeaves ==
    \A j \in Jobs : \/ <>[]~InLine(j)
                    \/ <>[]Stranded(j)
                    \/ \E k \in Jobs : <>[]Poison(k)
=============================================================================
