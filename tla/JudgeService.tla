------------------------------ MODULE JudgeService ------------------------------
(***************************************************************************)
(* The jobs of a worker process that ask Groq: the judges' questions, the  *)
(* assessment of an answer, the feedback for the report, and before them   *)
(* transcription (app/providers/groq_judge.py, groq_speech.py,             *)
(* app/stages/questions.py, answer_assessment.py).                         *)
(*                                                                         *)
(* A process has one event loop and runs one job at a time; only the three *)
(* judges ask at the same time.  A step is what happens between two posts  *)
(* to the service.                                                         *)
(***************************************************************************)
EXTENDS JudgePanel, GroqKeyPool

CONSTANTS
    Bundles,        \* the sequences of evidence items that an analysis may have
    Candidates,     \* what a judge's model may answer
    Assessments,    \* what the model may answer about an answer
    Feedbacks,      \* and about the session
    Speakers,       \* the speakers with a delivery profile
    UsableSets,     \* sets of keys that may be those that never refuse
    MaxJobs         \* bound: jobs that the process runs

Askers == Judges \cup {"transcriber", "assessor", "reporter"}

\* Those who call the pools, and the providers that have one.
ASSUME CallersAssumption == Callers = Askers /\ Pools = {"speech", "judge"}

ASSUME MaxJobsAssumption == MaxJobs \in Nat

ASSUME EvidenceAssumption == Bundles \subseteq Seq(Item)

ASSUME ScoresAssumption == \A answer \in Assessments : answer.score \in Int

VARIABLES
    usable,     \* the keys that never refuse; the others may at any time
    asker,      \* where each asker is and what it has got
    job,        \* the job and its inputs
    delivered,  \* what the job has come to
    jobs,       \* the number of jobs so far
    starved     \* history: whether every key has refused in some attempt

vars == <<poolVars, usable, asker, job, delivered, jobs, starved>>

\* The stages of a job, each with those who ask in it.
Stages ==
    [analysis |-> <<{"transcriber"}, Judges>>,
     answer |-> <<{"transcriber"}, {"assessor"}>>,
     report |-> <<{"reporter"}>>]

PoolOf(a) == IF a = "transcriber" THEN "speech" ELSE "judge"

NoKey == 1000

\* The key that an attempt asks for; a transcription asks for none.
PreferredBy(a, attempt) ==
    IF a = "transcriber" THEN NoKey
    ELSE IF attempt = 2 THEN SpareKey
    ELSE IF a \in Judges THEN PreferredKey[a]
    ELSE 0

Attempts(a) == IF a = "transcriber" THEN 1 ELSE 2

\* An asker has made no attempt and has got nothing; aided is whether a model's answer
\* was of use.
Waiting == [attempt |-> 0, done |-> FALSE, aided |-> FALSE, got |-> <<>>]

\* An asker that asks no more.
Done(aided, got) == [attempt |-> 0, done |-> TRUE, aided |-> aided, got |-> got]

NoJob == [kind |-> "none", stage |-> 0, items |-> <<>>, spoken |-> "fine", remaining |-> 0]

Nothing == [job |-> NoJob, status |-> "none", got |-> <<>>, declared |-> {}]

Init ==
    /\ PoolInit
    /\ usable \in {set \in UsableSets : set \subseteq Keys}
    /\ asker = [a \in Askers |-> Waiting]
    /\ job = NoJob
    /\ delivered = Nothing
    /\ jobs = 0
    /\ starved = FALSE

Busy == job.kind # "none"

InStage(a) == Busy /\ a \in Stages[job.kind][job.stage]

StageDone == \A a \in Stages[job.kind][job.stage] : asker[a].done

-----------------------------------------------------------------------------
(* Asking.                                                                 *)

\* A job begins, with what the presentation or the answer holds: the items are the
\* evidence of the presentation, or that of the question that is answered.  An analysis
\* that has a checkpoint of its transcription starts behind it.
StartJob(kind) ==
    /\ ~ Busy
    /\ jobs < MaxJobs
    /\ \E items \in IF kind = "report" THEN {<<>>} ELSE Bundles,
          stage \in IF kind = "analysis" THEN {1, 2} ELSE {1},
          spoken \in IF kind = "answer" THEN {"blank", "insult", "fine"} ELSE {"fine"},
          remaining \in IF kind = "answer" THEN {0, 1} ELSE {0} :
            job' = [kind |-> kind, stage |-> stage, items |-> items, spoken |-> spoken,
                    remaining |-> remaining]
    /\ jobs' = jobs + 1
    /\ delivered' = Nothing
    /\ UNCHANGED <<poolVars, usable, asker, starved>>

\* The first attempt.
Ask(a) ==
    /\ InStage(a)
    /\ asker[a].attempt = 0 /\ ~ asker[a].done
    /\ Begin(a, PoolOf(a), PreferredBy(a, 1))
    /\ asker' = [asker EXCEPT ![a].attempt = 1]
    /\ UNCHANGED <<usable, job, delivered, jobs, starved>>

\* What an asker has without a model.
Unaided(a) ==
    IF a \in Judges THEN <<FallbackQuestion(a, job.items)>>
    ELSE IF a = "assessor" THEN <<NoCredit>>
    ELSE IF a = "reporter" THEN <<FallbackFeedback(Speakers)>>
    ELSE <<>>

\* Mutant: an asker whose last attempt fails waits for a model all the same.
GiveUpNever(a) ==
    IF asker[a].attempt < Attempts(a)
    THEN /\ Begin(a, PoolOf(a), PreferredBy(a, asker[a].attempt + 1))
         /\ asker' = [asker EXCEPT ![a].attempt = @ + 1]
    ELSE Return(a) /\ UNCHANGED asker

\* An attempt comes to nothing: the next one begins at once, or the asker makes do
\* without a model.
GiveUp(a) ==
    IF asker[a].attempt < Attempts(a)
    THEN /\ Begin(a, PoolOf(a), PreferredBy(a, asker[a].attempt + 1))
         /\ asker' = [asker EXCEPT ![a].attempt = @ + 1]
    ELSE /\ Return(a)
         /\ asker' = [asker EXCEPT ![a] = Done(FALSE, Unaided(a))]

\* Mutant: the key that refuses ends the attempt.
RefuseOnce(a) ==
    /\ Calling(a)
    /\ Asked(a) \notin usable
    /\ GiveUp(a)
    /\ starved' = TRUE
    /\ UNCHANGED <<usable, job, delivered, jobs>>

\* A key refuses, or cannot be reached in time; after the last the call raises.
Refuse(a) ==
    /\ Calling(a)
    /\ Asked(a) \notin usable
    /\ \/ OnLastKey(a) /\ GiveUp(a) /\ starved' = TRUE
       \/ Rotate(a) /\ UNCHANGED <<asker, starved>>
    /\ UNCHANGED <<usable, job, delivered, jobs>>

\* The recording is larger than the service takes: no other key is asked.
TooLarge(a) ==
    /\ Calling(a)
    /\ a = "transcriber"
    /\ GiveUp(a)
    /\ UNCHANGED <<usable, job, delivered, jobs, starved>>

\* What a model's answer amounts to for each asker, if it is accepted.
Accepted(a) ==
    IF a \in Judges
    THEN {<<Validated(a, c, job.items)>> :
             c \in {c \in Candidates : AcceptableQuestion(c, job.items)}}
    ELSE IF a = "assessor"
    THEN {<<Assessment(c, job.remaining)>> :
             c \in {c \in Assessments : AcceptableAssessment(c)}}
    ELSE IF a = "reporter"
    THEN {<<Feedback(c, Speakers)>> : c \in {c \in Feedbacks : AcceptableFeedback(c)}}
    ELSE {<<>>}

\* The asker uses what it is answered.
Use(a) ==
    /\ Calling(a)
    /\ \E got \in Accepted(a) :
         asker' = [asker EXCEPT ![a] = Done(TRUE, got)]
    /\ Return(a)
    /\ UNCHANGED <<usable, job, delivered, jobs, starved>>

\* The answer is not what it should be: the pool's call has returned and asks no
\* other key.
Reject(a) ==
    /\ Calling(a)
    /\ GiveUp(a)
    /\ UNCHANGED <<usable, job, delivered, jobs, starved>>

-----------------------------------------------------------------------------
(* The job's stages.                                                       *)

ForgetAskers == asker' = [a \in Askers |-> Waiting]

\* What a job comes to: its status, its result and what it declares.
EndJob(status, got, declared) ==
    /\ delivered' = [job |-> job, status |-> status, got |-> got, declared |-> declared]
    /\ job' = NoJob
    /\ ForgetAskers
    /\ UNCHANGED <<poolVars, usable, jobs, starved>>

\* Mutant: every answer is assessed.
AssessAnyway ==
    /\ Busy /\ job.stage = 1 /\ job.kind # "report"
    /\ StageDone
    /\ IF ~ asker["transcriber"].aided
       THEN EndJob("failed", <<>>, {})
       ELSE /\ job' = [job EXCEPT !.stage = 2]
            /\ ForgetAskers
            /\ UNCHANGED <<poolVars, usable, delivered, jobs, starved>>

\* Without a transcription the job fails; an answer that is blank or insults the
\* judges is not assessed.
AfterTranscription ==
    /\ Busy /\ job.stage = 1 /\ job.kind # "report"
    /\ StageDone
    /\ IF ~ asker["transcriber"].aided
       THEN EndJob("failed", <<>>, {})
       ELSE IF job.spoken # "fine"
       THEN EndJob("completed", <<NoCredit>>, {})
       ELSE /\ job' = [job EXCEPT !.stage = 2]
            /\ ForgetAskers
            /\ UNCHANGED <<poolVars, usable, delivered, jobs, starved>>

\* Mutant: only what the panel fills in is declared.
NoneDeclared == {}

\* The judges that declare that their question is not a model's.
Declared == {j \in Judges : ~ asker[j].aided}

\* The provider puts the panel together and the stage does so again; the contract
\* refuses a question without evidence, and then the job fails.
FormPanel ==
    /\ job.kind = "analysis" /\ job.stage = 2
    /\ StageDone
    /\ \E asked \in {[i \in DOMAIN Panel |-> asker[Panel[i]].got[1]]} :
       \E first \in {PanelQuestions(asked, job.items)} :
       \E second \in {PanelQuestions(first, job.items)} :
          EndJob(IF \A i \in DOMAIN second : second[i].evidence # {}
                 THEN "completed" ELSE "failed",
                 second,
                 Declared \cup FillDeclared(asked, job.items)
                          \cup FillDeclared(first, job.items))

\* A follow-up question refers to the evidence of the question; without any there is none.
ConcludeAnswer ==
    /\ job.kind = "answer" /\ job.stage = 2
    /\ StageDone
    /\ EndJob("completed",
              <<[asker["assessor"].got[1] EXCEPT !.followUp = @ /\ job.items # <<>>]>>, {})

ConcludeReport ==
    /\ job.kind = "report"
    /\ StageDone
    /\ EndJob("completed", asker["reporter"].got, {})

\* The event loop goes on with the job, with whichever post is answered or times out.
Work ==
    \/ \E a \in Askers :
          Ask(a) \/ Refuse(a) \/ TooLarge(a) \/ Use(a) \/ Reject(a)
    \/ AfterTranscription \/ FormPanel \/ ConcludeAnswer \/ ConcludeReport

Next ==
    \/ \E kind \in DOMAIN Stages : StartJob(kind)
    \/ Work

Spec == Init /\ [][Next]_vars /\ WF_vars(Work)

-----------------------------------------------------------------------------
(* What is checked.                                                        *)

TypeOK ==
    /\ PoolTypeOK
    /\ usable \subseteq Keys
    /\ \A a \in Askers :
          /\ asker[a].attempt \in 0..Attempts(a)
          /\ asker[a].done => ~ Calling(a)
    /\ job.kind \in DOMAIN Stages \cup {"none"}
    /\ delivered.status \in {"none", "completed", "failed"}
    /\ jobs \in 0..MaxJobs
    /\ starved \in BOOLEAN

\* With a key for each judge the judges begin with different keys (_build_attempt_order,
\* preferred_key_index), whatever the pool has been through and whoever is behind.
OwnKeyFirst ==
    \A j, k \in Judges :
        j # k /\ keys >= Len(Panel) /\ Calling(j) /\ Calling(k)
              /\ asker[j].attempt = 1 /\ asker[k].attempt = 1
        => call[j].order[1] # call[k].order[1]

\* While one key never refuses, no attempt of anybody fails for want of a key (call,
\* post_multipart), however the others refuse and wherever an attempt begins.
UsableKeySuffices ==
    usable # {} => ~ starved

DeliveredPanel == delivered.job.kind = "analysis" /\ delivered.job.stage = 2

\* Whatever the judges are answered, unless a model asks word for word what a judge asks
\* without one, the panel asks three different questions, and each refers to some of the
\* evidence and to nothing else (generate_questions, run_question_stage); so an analysis
\* that has evidence completes.
PanelOfThree ==
    DeliveredPanel =>
        LET panel == delivered.got IN
        /\ Len(panel) = PanelSize
        /\ \A m, n \in DOMAIN panel : m # n => panel[m].text # panel[n].text
        /\ \A n \in DOMAIN panel : panel[n].evidence \subseteq Ids(delivered.job.items)
        /\ delivered.job.items # <<>> => delivered.status = "completed"

\* A question that no model asked is declared as a limitation, whether its judge made
\* do without a model or the panel filled it in (judge_model_fallback_used,
\* missing_judge_question_filled).
FallbackIsDeclared ==
    DeliveredPanel =>
        \A n \in DOMAIN delivered.got :
            delivered.got[n].text \in Judges => delivered.got[n].text \in delivered.declared

\* An answer gets credit only from a model, and neither for silence nor for an insult;
\* it is followed up only if a follow-up is left and the question has evidence for it
\* (run_answer_assessment_stage, _create_fallback_assessment, analyze_answer).
CreditIsEarned ==
    delivered.job.kind = "answer" /\ delivered.status = "completed" =>
        LET credit == delivered.got[1] IN
        /\ credit.score \in 0..100
        /\ credit.score > 0 => credit.byModel /\ delivered.job.spoken = "fine"
        /\ credit.followUp => delivered.job.remaining > 0 /\ delivered.job.items # <<>>

\* Every speaker gets a strength and an improvement, none of which a guardrail
\* rejects, whatever the models leave out (_parse_report_feedback).
FeedbackForEverySpeaker ==
    delivered.job.kind = "report" =>
        \A s \in Speakers : \A kind \in FindingKinds :
            delivered.got[1][s][kind] \in {"fine", "default"}

\* A job that has begun ends, for every key that refuses another one is asked and
\* every attempt that fails is the last or is followed by one (_ask_judge).
JobsEnd == Busy ~> ~ Busy
=============================================================================
