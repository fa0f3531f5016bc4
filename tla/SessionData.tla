------------------------------ MODULE SessionData ------------------------------
(***************************************************************************)
(* What the jobs of one practice session leave behind: artifacts and       *)
(* checkpoints in object storage, chunks in the document store, files on   *)
(* the worker's disk (app/pipeline.py, app/stages/checkpoint.py).  Runs of *)
(* jobs follow each other or overlap; some write, some erase.              *)
(*                                                                         *)
(* One presentation, one answer and one report; object keys are names.     *)
(* A step of a run is what lies between two calls that leave the process.  *)
(* How runs come about and are reported is JobDelivery's subject.          *)
(***************************************************************************)
EXTENDS Naturals, FiniteSets, Sequences

CONSTANTS
    Runs,       \* runs of jobs (a retried job runs again)
    Kinds,      \* the kinds of jobs that occur, see AllKinds
    MaxActive   \* bound: runs at the same time; a lone worker has one

Deletions == {"erasure", "retention", "answerRetention"}
AllKinds == {"analysis", "answer", "report"} \cup Deletions

ASSUME SessionAssumption ==
    /\ Kinds \subseteq AllKinds
    /\ MaxActive \in Nat \ {0}

Checkpoints == {"speech", "vision", "audio"}
Published == {"transcript", "assessment", "evaluation", "report"}
Objects == Checkpoints \cup Published \cup {"analysis"}
Names == Objects \cup {"chunks"}

\* The directories temp_media/<id> of the presentation, of the answer's audio
\* and of the session, and the temporary files of ffmpeg's output.
Scratch == {"media", "answerAudio", "documents", "normalized"}

\* The steps of a run, in their order.  A step with a name of Names puts it there,
\* one with a name of Scratch leaves it there; write and unlink are about the file
\* from which a report is uploaded.
AnalysisScript ==
    <<"media", "normalized", "check",
      "findSpeech", "findVision", "findAudio", "transcribe", "speech", "check",
      "fork", "join", "check",
      "documents", "chunks", "check",
      "panel", "check", "analysis">>

AnswerScript ==
    <<"check", "answerAudio", "normalized", "transcribe", "transcript",
      "check", "assess", "assessment">>

ReportScript ==
    <<"check", "check", "compose", "check", "evaluation", "write", "report", "unlink">>

DeletionScript ==
    <<"deleteChunks", "list", "delete", "clean">>

Script(kind) ==
    CASE kind = "analysis" -> AnalysisScript
      [] kind = "answer" -> AnswerScript
      [] kind = "report" -> ReportScript
      [] kind \in Deletions -> DeletionScript

\* The steps that only take time, or fail.
Thinking == {"transcribe", "panel", "assess", "compose"}

Finds == [findSpeech |-> "speech", findVision |-> "vision", findAudio |-> "audio"]

VARIABLES
    run,        \* each run, see Run
    task,       \* the two coroutines that gather runs for an analysis
    stored,     \* what is in the two stores
    scratch,    \* what is on the worker's disk
    markdown,   \* the runs whose report is there, in temp_reports
    found,      \* history: what each erasure found and is still there
    late        \* history: what of it a coroutine wrote after its run's end

stores == <<stored, found, late>>
disk == <<scratch, markdown>>
vars == <<run, task, stores, disk>>

Gathered == {"vision", "audio"}
TaskState == {"none", "running", "saving", "done", "failed"}

\* undisturbed is a history: no run in conflict with this one has overlapped with
\* it, or has started since.
Run == [kind : AllKinds, status : {"new", "active", "completed", "failed", "cancelled"},
        pos : Nat \ {0}, cached : SUBSET Checkpoints, listed : SUBSET Objects,
        cancelled : BOOLEAN, undisturbed : BOOLEAN]

TypeOK ==
    /\ run \in [Runs -> Run]
    /\ \A r \in Runs : run[r].pos <= Len(Script(run[r].kind))
    /\ task \in [Runs -> [Gathered -> TaskState]]
    /\ stored \subseteq Names
    /\ scratch \subseteq Scratch
    /\ markdown \subseteq Runs
    /\ found \in [Runs -> SUBSET stored]
    /\ late \subseteq stored

\* A run at the beginning of its script.
Fresh(kind, status, undisturbed) ==
    [kind |-> kind, status |-> status, pos |-> 1, cached |-> {}, listed |-> {},
     cancelled |-> FALSE, undisturbed |-> undisturbed]

New == Fresh("analysis", "new", FALSE)

Idle == [s \in Gathered |-> "none"]

Init ==
    /\ run = [r \in Runs |-> New]
    /\ task = [r \in Runs |-> Idle]
    /\ stored = {}
    /\ scratch = {}
    /\ markdown = {}
    /\ found = [r \in Runs |-> {}]
    /\ late = {}

Active == {r \in Runs : run[r].status = "active"}

Step(r) == Script(run[r].kind)[run[r].pos]
At(r, step) == r \in Active /\ Step(r) = step
Cached(r, stage) == stage \in run[r].cached

-----------------------------------------------------------------------------
(* How a run goes on and ends.                                             *)

\* Mutant: the end of the script is missed.
AdvancedPast(r) ==
    IF run[r].pos > Len(Script(run[r].kind))
    THEN [run[r] EXCEPT !.status = "completed", !.cached = {}, !.listed = {}]
    ELSE [run[r] EXCEPT !.pos = @ + 1]

\* At the end of its script a run completes.
Advanced(r) ==
    IF run[r].pos = Len(Script(run[r].kind))
    THEN [run[r] EXCEPT !.status = "completed", !.cached = {}, !.listed = {}]
    ELSE [run[r] EXCEPT !.pos = @ + 1]

Advance(r) == run' = [run EXCEPT ![r] = Advanced(r)]

\* A run that ends early leaves nothing behind but its effects.
End(r, status) == run' = [run EXCEPT ![r] = Fresh("analysis", status, FALSE)]

\* A deletion changes what any other run sees.
Conflict(kind, other) == kind \in Deletions \/ other \in Deletions

Start(r) ==
    /\ run[r].status = "new"
    /\ Cardinality(Active) < MaxActive
    /\ \E kind \in Kinds :
         /\ run' = [q \in Runs |->
               IF q = r
               THEN Fresh(kind, "active", \A p \in Active : ~ Conflict(kind, run[p].kind))
               ELSE [run[q] EXCEPT !.undisturbed = @ /\ ~ Conflict(run[q].kind, kind)]]
         /\ found' = [found EXCEPT ![r] = IF kind = "erasure" THEN stored ELSE {}]
    /\ UNCHANGED <<task, stored, late, disk>>

\* Object n is uploaded, or the chunks are stored, by a run or too late.
Put(r, n) ==
    /\ stored' = stored \cup {n}
    /\ found' = [q \in Runs |-> found[q] \ {n}]
    /\ late' = IF r \in Active THEN late \ {n} ELSE late \cup {n}

Remove(names) ==
    /\ stored' = stored \ names
    /\ found' = [q \in Runs |-> found[q] \ names]
    /\ late' = late \ names

\* The speech stage uses a checkpoint that was found: there is nothing to transcribe
\* or to save.
Reused(r) == Step(r) \in {"transcribe", "speech"} /\ Cached(r, "speech")

\* A step's effect on the stores and on the shared directories.
Effect(r) ==
    /\ IF Step(r) \in Names /\ ~ Reused(r) THEN Put(r, Step(r)) ELSE UNCHANGED stores
    /\ scratch' = scratch \cup ({Step(r)} \cap Scratch)

\* A step that writes, or takes time.
Work(r) ==
    /\ r \in Active
    /\ Step(r) \in Names \cup Scratch \cup Thinking
    /\ Effect(r)
    /\ Advance(r)
    /\ UNCHANGED <<task, markdown>>

\* The report is written to a file that is this run's alone, for its name comes from
\* the time of the run.
Write(r) ==
    /\ At(r, "write")
    /\ markdown' = markdown \cup {r}
    /\ Advance(r)
    /\ UNCHANGED <<task, stores, scratch>>

\* The upload is over and the file is removed.
Unlink(r) ==
    /\ At(r, "unlink")
    /\ markdown' = markdown \ {r}
    /\ Advance(r)
    /\ UNCHANGED <<task, stores, scratch>>

\* A file that is there, or no recording at all, is not fetched and converted,
\* documents that cannot be fetched are left out, without text there are no chunks.
Skip(r) ==
    /\ r \in Active
    /\ Step(r) \in Scratch \cup {"chunks"}
    /\ Advance(r)
    /\ UNCHANGED <<task, stores, disk>>

\* A step raises, its effect having come about or not.  A report's file is removed
\* all the same, unless that raises in its turn.  Documents are fetched and
\* checkpoints read without raising; for fork, join, delete and clean see there.
Fails(r) ==
    /\ r \in Active
    /\ Step(r) \notin {"fork", "join", "documents", "delete", "clean"} \cup DOMAIN Finds
    /\ Effect(r) \/ UNCHANGED <<stores, scratch>>
    /\ markdown' \in {markdown, markdown \ {r}}
    /\ End(r, "failed")
    /\ UNCHANGED task

\* The process dies, and the run's coroutines with it.
Crash(r) ==
    /\ r \in Active
    /\ End(r, "failed")
    /\ task' = [task EXCEPT ![r] = Idle]
    /\ UNCHANGED <<stores, disk>>

-----------------------------------------------------------------------------
(* Cancellation.                                                           *)

StepsAhead(r) ==
    LET script == Script(run[r].kind) IN {script[i] : i \in run[r].pos..Len(script)}

\* The Backend marks the job as cancelled.  After a run's last inspection point
\* this changes nothing here.
Cancel(r) ==
    /\ r \in Active
    /\ ~ run[r].cancelled
    /\ "check" \in StepsAhead(r)
    /\ run' = [run EXCEPT ![r].cancelled = TRUE]
    /\ UNCHANGED <<task, stores, disk>>

\* The directories that are removed for a cancelled job.
OwnDirectories(kind) ==
    {"documents"} \cup (CASE kind = "analysis" -> {"media"}
                          [] kind = "answer" -> {"answerAudio"}
                          [] OTHER -> {})

\* Mutant: the last inspection point is left out.
CheckEarly(r) ==
    /\ At(r, "check")
    /\ IF run[r].cancelled /\ \E i \in run[r].pos + 1..Len(Script(run[r].kind)) :
                                 Script(run[r].kind)[i] = "check"
       THEN End(r, "cancelled") /\ scratch' = scratch \ OwnDirectories(run[r].kind)
       ELSE Advance(r) /\ UNCHANGED scratch
    /\ UNCHANGED <<task, stores, markdown>>

\* An inspection point.
Check(r) ==
    /\ At(r, "check")
    /\ IF run[r].cancelled
       THEN End(r, "cancelled") /\ scratch' = scratch \ OwnDirectories(run[r].kind)
       ELSE Advance(r) /\ UNCHANGED scratch
    /\ UNCHANGED <<task, stores, markdown>>

-----------------------------------------------------------------------------
(* Checkpoints, and the stages that run at the same time.                  *)

\* A retry looks for a stage's checkpoint and may find it; a first attempt does
\* not look, and what cannot be read or is not valid counts as missing.
Find(r) ==
    /\ r \in Active
    /\ Step(r) \in DOMAIN Finds
    /\ \E hit \in SUBSET ({Finds[Step(r)]} \cap stored) :
         run' = [run EXCEPT ![r] = [Advanced(r) EXCEPT !.cached = @ \cup hit]]
    /\ UNCHANGED <<task, stores, disk>>

\* Both stages start.  One whose checkpoint was found ends at once, with its
\* result or, if that is not what it should be, with an error.
Fork(r) ==
    /\ At(r, "fork")
    /\ \E valid \in SUBSET run[r].cached :
         task' = [task EXCEPT ![r] = [s \in Gathered |->
                    IF s \in valid THEN "done"
                    ELSE IF Cached(r, s) THEN "failed" ELSE "running"]]
    /\ Advance(r)
    /\ UNCHANGED <<stores, disk>>

\* What a coroutine ends with is of no interest after its run.
Becomes(r, s, state) ==
    task' = [task EXCEPT ![r][s] =
               IF r \notin Active /\ state \in {"done", "failed"} THEN "none" ELSE state]

\* A stage's result, after the retries of with_transient_retries, or its failure.
Compute(r, s) ==
    /\ task[r][s] = "running"
    /\ \E state \in {"saving", "failed"} : Becomes(r, s, state)
    /\ UNCHANGED <<run, stores, disk>>

\* The result is uploaded as a checkpoint, or that fails and the stage with it.
Save(r, s) ==
    /\ task[r][s] = "saving"
    /\ \/ Put(r, s) /\ Becomes(r, s, "done")
       \/ (Put(r, s) \/ UNCHANGED stores) /\ Becomes(r, s, "failed")
    /\ UNCHANGED <<run, disk>>

Unfinished(r) ==
    [s \in Gathered |-> IF task[r][s] \in {"running", "saving"} THEN task[r][s] ELSE "none"]

\* Mutant: the run goes on with the first result.
JoinFirst(r) ==
    /\ At(r, "join")
    /\ \/ (\E s \in Gathered : task[r][s] = "done") /\ Advance(r)
       \/ (\E s \in Gathered : task[r][s] = "failed") /\ End(r, "failed")
    /\ task' = [task EXCEPT ![r] = Unfinished(r)]
    /\ UNCHANGED <<stores, disk>>

\* gather returns both results, or raises the first error and leaves the other
\* coroutine to run on.
Join(r) ==
    /\ At(r, "join")
    /\ \/ (\A s \in Gathered : task[r][s] = "done") /\ Advance(r)
       \/ (\E s \in Gathered : task[r][s] = "failed") /\ End(r, "failed")
    /\ task' = [task EXCEPT ![r] = Unfinished(r)]
    /\ UNCHANGED <<stores, disk>>

-----------------------------------------------------------------------------
(* Erasure and retention.                                                  *)

\* By session, or by asset version: the Backend may name the documents' or not.
DeleteChunks(r) ==
    /\ At(r, "deleteChunks")
    /\ Remove({"chunks"}) \/ (run[r].kind # "erasure" /\ UNCHANGED stores)
    /\ Advance(r)
    /\ UNCHANGED <<task, disk>>

\* Mutant: erasure spares what retention spares.
ErasableButPublished(kind) ==
    IF kind = "answerRetention" THEN {} ELSE Objects \ Published

\* The objects under the prefix that the deletion does not spare; those of an
\* answer are all spared by retention.
Erasable(kind) ==
    CASE kind = "erasure" -> Objects
      [] kind = "retention" -> Objects \ Published
      [] kind = "answerRetention" -> {"transcript", "assessment"} \ Published

List(r) ==
    /\ At(r, "list")
    /\ run' = [run EXCEPT ![r] = [Advanced(r) EXCEPT
                                    !.listed = stored \cap Erasable(run[r].kind)]]
    /\ UNCHANGED <<task, stores, disk>>

\* What was listed is deleted, or some of it until an error.
Delete(r) ==
    /\ At(r, "delete")
    /\ \/ Remove(run[r].listed) /\ Advance(r)
       \/ (\E some \in SUBSET run[r].listed : Remove(some)) /\ End(r, "failed")
    /\ UNCHANGED <<task, disk>>

\* Mutant: only the session's own directory is removed.
CleanSession(r) ==
    /\ At(r, "clean")
    /\ \/ scratch' = scratch \ {"documents"} /\ Advance(r)
       \/ scratch' \in {scratch \ some : some \in SUBSET {"documents"}} /\ End(r, "failed")
    /\ UNCHANGED <<task, stores, markdown>>

\* The directories of the session and of the asset versions that the Backend
\* names are removed, or some of them until an error.
Clean(r) ==
    /\ At(r, "clean")
    /\ LET directories == {"documents", "media", "answerAudio"} IN
       \/ scratch' = scratch \ directories /\ Advance(r)
       \/ scratch' \in {scratch \ some : some \in SUBSET directories} /\ End(r, "failed")
    /\ UNCHANGED <<task, stores, markdown>>

-----------------------------------------------------------------------------
Next ==
    \E r \in Runs :
       \/ Start(r) \/ Work(r) \/ Write(r) \/ Unlink(r) \/ Skip(r) \/ Fails(r) \/ Crash(r)
       \/ Cancel(r) \/ Check(r)
       \/ Find(r) \/ Fork(r) \/ Join(r)
       \/ \E s \in Gathered : Compute(r, s) \/ Save(r, s)
       \/ DeleteChunks(r) \/ List(r) \/ Delete(r) \/ Clean(r)

Spec == Init /\ [][Next]_vars

-----------------------------------------------------------------------------
(* What is checked.                                                        *)

Completed(r, kind) == run[r].status = "completed" /\ run[r].kind = kind

\* A completed erasure (erase_data) has removed all that it found, however the
\* runs that overlapped with it wrote: what is there was written meanwhile.
SurvivorsAreNew ==
    \A r \in Runs : Completed(r, "erasure") => found[r] = {}

\* If no other run overlapped with the erasure, all that may be there after it is
\* a checkpoint that a coroutine saved after its analysis had failed (gather in
\* analyze_session), and on the disk what ffmpeg wrote (split_media) and the reports
\* of runs that died, or could not clean up, between the writing of the file and its
\* removal (generate_report): none of a run that completed or was cancelled.
OnlyLateCheckpointsSurvive ==
    \A r \in Runs : Completed(r, "erasure") /\ run[r].undisturbed =>
        /\ stored \subseteq late \cap Gathered
        /\ scratch \subseteq {"normalized"}
        /\ \A q \in markdown : run[q].status = "failed"

\* README.md: "Purges AI observations, checkpoints, scratch media, vector chunks,
\* transcripts, evaluations, and final reports."
ErasurePurges ==
    \A r \in Runs : Completed(r, "erasure") /\ run[r].undisturbed =>
        stored = {} /\ scratch = {} /\ markdown = {}

\* A job that is cancelled before its last inspection point (_check_cancellation)
\* does not complete, wherever the other runs and its own coroutines are.
CancelledNeverCompletes ==
    \A r \in Runs : run[r].status = "completed" => ~ run[r].cancelled

Outputs ==
    [analysis |-> Checkpoints \cup {"analysis"},
     answer |-> {"transcript", "assessment"},
     report |-> {"evaluation", "report"}]

\* What a completed job's result refers to, and an analysis' checkpoints, are in
\* object storage unless something was deleted meanwhile or since.
CompletedIsStored ==
    \A r \in Runs :
        run[r].status = "completed" /\ run[r].undisturbed /\ run[r].kind \notin Deletions
        => Outputs[run[r].kind] \subseteq stored
=============================================================================
