# TLA+ models of the VirtuJudge AI worker

The AI worker takes jobs from a queue (analyse a session, analyse an answer, generate a
report, erase data), runs a pipeline of media and LLM stages for each, stores artifacts in
object storage, and reports to the Backend over HTTP. Two things are hard about it. A job's
result must reach the Backend exactly once although workers die, the broker delivers twice,
answers are lost or late, users cancel, and three judges share one pool of rate-limited keys.
And what the services answer (overlapping turns, times outside the recording, missing scores,
half an assessment) must come out as a report that says nothing it has no ground for. This directory holds TLA+ models of those
parts, the TLC configurations that check them on small instances, and TLAPS proofs of the
properties that matter most.

## Running

    tlc -config DeliverySingle.cfg JobDelivery      # likewise the other configurations
    tlapm JobDeliveryProofs.tla
    tlapm JobOutcomeProofs.tla
    tlapm JobResultProofs.tla
    tlapm RedisConsumerProofs.tla
    tlapm SessionDataProofs.tla
    tlapm JudgeServiceProofs.tla
    tlapm JudgeResultProofs.tla
    tlapm SessionReportProofs.tla

Configurations of symmetric or enumerated instances belong to an MC module: `tlc -config
Judges.cfg MCJudges`, and so on; the table of runs names the modules.

`PROJECT.json` lists the runs, the theorems, the code lines behind each definition (`map`),
the hazards of the code with the properties that cover them, and for each checked property a
mutant: a plausible bug in a definition that makes the property fail. The mutants' operators
stand in the modules just before the definitions they replace, under a comment that starts
with `Mutant:`; nothing else uses them.

## Inventory

| Component | State it keeps | Operations | Hard behaviour | What makes it correct |
|---|---|---|---|---|
| Job delivery: `app/worker.py`, `app/celery_app.py` | the message being executed, its retry counter and `delivery_update`; `MonotonicUpdateTracker`'s sequence; `cancelled_before_dispatch` | take a message, check for cancellation, read the last sequence, post STARTED, run the pipeline, post the outcome, retry, quarantine, acknowledge | `acks_late` and `reject_on_worker_lost`: crashes and duplicate executions; one retry counter with two limits; results that must be resent and not recomputed | no job is lost; one result per job; bounded reruns; a cancelled job is not run; sequences resume |
| Backend HTTP client: `app/backend_client.py` | the attempt counter of a call | post an update, read the last sequence, check for cancellation, re-read after a 409 | lost answers, timeouts, refusals, conflicts with other writes | an update is delivered or an error raised; a conflict worth another try gets one |
| Backend's job record (a service, not in this repository) | status, cancellation request, last sequence | record an update, answer 409, cancel, supersede | writes that race with the worker | sequences only grow; a closed record keeps its outcome |
| Redis consumer: `app/queue_consumer.py` | per queue a ready, a processing and a dead-letter list in Redis | recover, claim (BLMOVE), process, return (LMOVE), remove (LREM), dead-letter | several consumers share one processing list; crashes; lost claims; poison items | no item is lost; order is kept; an item is handled in the end |
| Pipeline: `app/pipeline.py` | the results of finished stages, artifacts uploaded | stages in order, concurrent pairs, progress, cancellation checks, uploads | `gather` leaves a sibling running after a failure; cancellation between check and upload | an artifact's references exist; nothing is published for half an outcome |
| Checkpoints and stage retries: `app/stages/checkpoint.py`, `common.py` | one record per stage in object storage | save, load with version and checksum checks, retry a stage | a stale or torn checkpoint, retries of a retry | a stage is reused only if its inputs and version are the same |
| Object storage: `app/storage/` | keys and bytes | put, get, list, delete by prefix | writes after an erasure | what a job says it wrote is there |
| Erasure and retention: `FakePipeline.erase_data` | (the three stores it deletes from) | delete chunks, objects, scratch files | partial failure; an analysis in flight; files that a dead worker left | after erasure nothing of the session is left |
| Document store: `app/document_store.py` | chunks and embeddings per document | store (replace), search, delete | replacing while searching | a document's chunks are of one version |
| Groq key pool: `app/providers/groq_pool.py` | round-robin index, keys, cool-downs | call with failover | three concurrent users of one index | each key is tried once per call |
| Judge panel, question stage, answer assessment: `app/stages/judge_panel.py`, `questions.py`, `answer_assessment.py`, `providers/groq_judge.py` | each asker's attempt and what it has got | three concurrent judges, second attempt with a spare key, deterministic fallback, deduplication and filling | one judge of three fails, two ask the same, evidence is missing | three different questions that refer to evidence; what no model said is declared; credit is earned |
| Speech stage: `app/stages/speech.py`, `providers/groq_speech.py` | none (pure) | read the response, validate against the duration, attribute, fall back to one speaker | negative, inverted and overlong times; unknown speakers | every span lies within the recording |
| Aggregation and timed evidence: `app/stages/timed_evidence.py`, `aggregation.py` | none (pure) | attribute observations, merge turns, windows, summaries | ties, borders of windows, simultaneous speakers | nothing is lost or counted twice |
| Scoring: `app/stages/scoring.py` | none (pure) | delivery and timing scores, answers, effective weights, labels | missing dimensions, rounding, skipped questions | the overall score is the weighted mean; skipping never pays |
| Report loading and Markdown: `app/stages/report_loader.py`, `reporting.py`, `report_markdown.py` | none | load artifacts, fall back, assemble | fallbacks in live mode | nobody is praised for what was not recorded |
| Provider adapters, media, document, vision and audio stages, prompts, contracts, readiness, start-up | none of their own | calls to ffmpeg, models and services; validation; probes | third-party failures | (outside the models, see below) |

How they interact. Celery or the Redis consumer calls `process_job`; it calls the Backend
client for the job's state and every update, and the pipeline in between. The pipeline calls
back into the tracker for progress and into the client for cancellation checks; its stages
call providers and read and write object storage, where the checkpoints
live too. The providers of speech and of the judges each have a key pool of their own, made
from the same keys. The stages of an analysis hand their results on in memory, and the report
reads them back from object storage. Two executions of one job share the Backend's record, the broker, and the
checkpoints. An erasure shares the stores with any analysis of the session.

## Modules

| Module | What it is |
|---|---|
| `BackendJob` | the Backend's record of one job, as the client relies on it (external) |
| `JobDelivery` | one job through broker, workers, HTTP client and record; EXTENDS `BackendJob` |
| `JobPromise` | abstract specification of what the worker promises for a job |
| `MCDelivery` | two interchangeable workers for TLC |
| `JobDeliveryProofs` | type correctness of `JobDelivery`, for all constants; no job is lost, and `JobDelivery` implements `JobPromise` |
| `JobOutcomeProofs` | one result, a bounded number of runs, and no run of a job already cancelled, for all constants |
| `JobResultProofs` | no result is lost, without a crash, a duplicate delivery or a conflict by mistake; a lone worker resumes the Backend's numbering |
| `RedisConsumer` | the Redis consumers, their lists and the dead letters |
| `JobLine` | abstract specification of what the consumers promise for a queue |
| `MCRedis` | interchangeable consumers and items for TLC |
| `RedisConsumerProofs` | type correctness of `RedisConsumer`, that it implements `JobLine`, what a lone consumer returns, and the bound on the dead letters |
| `SessionData` | what the jobs of a session leave in the stores and on disk, and what erasure removes |
| `MCSession` | interchangeable runs for TLC |
| `SessionDataProofs` | types, erasure, cancellation and completion of `SessionData`, for any runs |
| `GroqKeyPool` | the pools of keys: the order in which a call asks them |
| `JudgePanel` | what a question, an assessment and feedback must be like and what replaces it |
| `JudgeService` | the jobs that ask Groq, with three judges at a time; EXTENDS both |
| `MCJudges` | small sets of evidence and of models' answers for TLC |
| `JudgeServiceProofs` | types of `JudgeService`, and the properties of its keys |
| `JudgeResultProofs` | what its answers, reports and panels come to |
| `SpeechStage` | reading, validating and attributing a transcript |
| `TimedEvidence` | from turns and observations to the speakers' profiles; EXTENDS `SpeechStage` |
| `Scoring` | the scores; EXTENDS `TimedEvidence` |
| `SessionReport` | a session from the recording to the report; EXTENDS `Scoring` |
| `SessionReportProofs` | spans, turns, praise and scores of `SessionReport`, for any answers of the services |
| `MCReport` | small sets of what the services may answer, for TLC |

Celery and the Redis consumer are two ways into the same `process_job`. `JobDelivery` models
the inside of a delivery, for one job; `RedisConsumer` models what is around it, for many
jobs, and takes of a delivery only how it ends. `SessionData` is what `JobDelivery` abstracts as `run`:
the inside of `dispatch_job`, for several jobs on the same data. `JudgeService` and `SessionReport`
are what `SessionData` abstracts as steps that only take time or fail: the first keeps the
concurrency and abstracts the content, the second keeps the content of one session and runs
its stages one after the other.

### BackendJob

`status`, `cancelRequested` and `lastSeq` are the three fields that `_get_job_status` parses;
`recorded` is history: a worker's terminal update closed the record. The Backend is not in
this repository. The model has what the client's code relies on: an update is recorded only
above the last sequence (the fixtures' `duplicate_sequence` case); a closed record takes no
further update, except that a cancelled job still takes its CANCELLED acknowledgement; what
is not recorded is answered 409. A 409 is also possible while a cancellation is requested
and, with the fault `race`, for an update that could have been recorded (the case
`_should_retry_terminal_conflict` exists for). That a superseded job does not take CANCELLED
is an assumption of the same kind.

### JobDelivery

A worker's execution `ex[w]` stands at the call it is about to make:

| `pc` | The code |
|---|---|
| `idle` | the worker waits for a message |
| `check` | `check_cancellation` before dispatch (`process_job`) |
| `sequence` | `get_last_update_sequence`, then the choice of what to post first |
| `post` | one attempt of `BackendClient.send_update` |
| `reread` | `_get_job_status` in `_should_retry_terminal_conflict` |
| `run` | inside `dispatch_job`: progress, cancellation checks, the outcome |
| `failed` | in `retry_or_quarantine` |
| `ack` | the task function has returned; Celery acknowledges |

Between two places nothing is awaited that another actor can see, so a step is atomic. A
message is a job to run or, with `upd`, Celery's `delivery_update` argument: a result whose
callback is tried again. Retries are new messages with `retries + 1`, as `apply_async`
publishes them, and the old message stays in `broker` until `Acknowledge`. The four kinds of
envelope are those the task tells apart: analyses, erasures (which ignore cancellation),
invalid envelopes that name their job (reported FAILED) and those that do not (quarantined).

Each fault is switched on by name, so that a run says which world it speaks of: `outage`,
`lost` (recorded, but the answer is lost), `late` (recorded after its caller gave up), `race`,
`refusal` (401, 404), `exception` (an error kind the client does not catch), `cancel`,
`crash`, `redelivery` (the visibility timeout hands a message out twice).

Four values are history, read by properties only: `computed` and `dispatched` count results
and pipeline runs (up to `MaxCounted`), `ex[w].knew` says whether the job was cancelled when
its message was taken, `recorded` is described above.

### JobPromise

Three variables: is the job `owed` by the broker, what is the record's `outcome`, was the
job `parked` with an operator. The broker may forget a job only once it is settled, and an
outcome is never replaced. Refined with `owed <- broker # {}`, `outcome <- ` the record's
status if closed, `parked <- quarantine # {}`.

### RedisConsumer

Each queue has two lists: `ready[q]`, whose head is claimed first, and `pending[q]`, the
processing list, which all consumers of the queue share. An item is claimed from the left of
the first to the right of the second. A consumer stands at the command or call it is about
to make:

| `pc` | The code |
|---|---|
| `down` | the process does not run |
| `recover` | RPOPLPUSH on the queue `q` (`_recover_pending_messages`) |
| `poll` | BLMOVE on the queue `q`, with its timeout of a second |
| `work` | inside `process_job`, or the report of a malformed item that names its job |
| `letter`, `trim` | LPUSH and LTRIM (with EXPIRE) of `_handle_malformed_message` |
| `return` | LMOVE after an exception |
| `remove` | LREM after success |

`Loop` is the return to the `while` of `run`, which ends it when `shutdown` has set
`_stopping`. `Stop` is the signal handler: it calls `shutdown` while a job is in hand, and
`shutdown` closes the Backend client and the Redis connection that the job uses, so from
then on each call may fail (`Fail`). `Interrupt` is every other end of the process: a crash,
a cancelled task, an error of LMOVE or LREM, which `run` does not catch. The three forms of
items are those the code tells apart: a `QueueMessage`; anything else with a `job_id` that
is a ULID, reported FAILED; the rest, dead letters.

The Backend is external here too: `record` is the part of `BackendJob`'s record that decides
whether a report is taken. The fault `race` is left out (the first finding below would lose
items through it). So are answers 401 and 404 that never end for a valid item: here they are among
the finitely many failures of `FailToWork`. Every item's text is taken to be its own: LREM removes by text, and a
message holds its job's id. `lettered` is history, read by properties only.

### JobLine

Two variables: for each queue the `line` of its jobs, in the order they came, and the set of
jobs `settled`. A job joins at the end and leaves, from any place, only once it is settled.
Refined with `line[q] <- pending[q] \o ready[q]`: the pending items are those before the
ready ones, so neither claim, nor return, nor recovery may change the line, whichever item
each of them moves. `settled` is what is reported, cancelled or superseded, or was written
to the dead-letter list.

### SessionData

The pipeline's methods are sequences of awaits with hardly a branch, so each kind of run has
a script of its steps (`AnalysisScript`, `AnswerScript`, `ReportScript`, `DeletionScript`) and
`run[r].pos` is the step it is about to make. A step named after an object or a scratch
directory puts it there; the others have actions of their own:

| Action | The code |
|---|---|
| `Work`, `Skip`, `Fails` | a step has its effect, is not needed, or raises (after its effect or before) |
| `Check` | `_check_cancellation`, and for a cancelled job the removal of its directories in `worker.py` |
| `Find` | `get_stage_checkpoint` |
| `Fork`, `Compute`, `Save`, `Join` | `asyncio.gather` of the vision and the audio stage, each with its checkpoint |
| `Write`, `Unlink` | the Markdown file of a report: written before the upload, removed at the end |
| `DeleteChunks`, `List`, `Delete`, `Clean` | `erase_data`; `delete_prefix` lists first and deletes then |
| `Crash`, `Cancel` | the worker dies; the Backend marks the job |

`gather` raises the first error and does not cancel the other coroutine. The worker keeps one
event loop for all its jobs, so that coroutine goes on when the next job runs the loop, and
saves its checkpoint into a session that may have been erased. `task[r]` therefore outlives
the run. A run that is tried again is another run; only then does it look for checkpoints,
which `Find` leaves open because not finding any is the same as not looking.

`scratch` and `markdown` are the worker's disk: the directories and files of the session's
media, and the runs whose report lies in `.storage/temp_reports`. The report's file is named
after its run's time to the millisecond, so each run has its own; `finally` removes it however the upload
ends (`Fails`, unless the removal itself fails), but not when the worker dies.

Three values are history: `found[r]` is what an erasure found and is still there, `late` what
a coroutine saved after its run had ended, `undisturbed` whether a run in conflict (one of the
two deletes) has overlapped or started since.

The three deletions are those `erase_data` tells apart: erasure, retention of a session's raw
data, and retention that names an answer, which spares all of the answer's objects and does
not touch the others. The Backend is assumed to name the asset versions of the presentation
and of the answer's audio in `asset_version_ids` (`tests/test_retention_erasure.py:51` does;
the field may also be empty).

### GroqKeyPool, JudgePanel and JudgeService

A call of `GroqKeyPool.call` or `post_multipart` fixes its order of the keys when it begins
(`_build_attempt_order`, under the pool's lock) and then posts with one after another;
`call[c]` holds that order and the place of the key being asked. Between two posts nothing is
awaited that anybody else could see, so each step of `JudgeService` goes from one post to the
next:

| Action | The code |
|---|---|
| `StartJob` | a job begins, with the evidence it has, its recording or what was said |
| `Ask` | the first attempt of an asker: one of the three judges of `generate_questions`, the assessment, the feedback, the transcription |
| `Refuse` | a key refuses (429, 5xx, no connection, no JSON): the next one, or the attempt fails |
| `TooLarge` | 413 from transcription, which is raised at once |
| `Use`, `Reject` | the answer is accepted, or fails validation, which no other key is asked to mend |
| `GiveUp` (within these) | the second attempt begins, with the spare key, or the deterministic fallback takes over |
| `AfterTranscription`, `FormPanel`, `ConcludeAnswer`, `ConcludeReport` | what the pipeline makes of the answers |

`JudgePanel` holds what is decided about an answer. A text is a name, and the three kinds of
text that the guardrails tell apart (fine, rejected, missing) are marked. `PanelQuestions` is
`validate_panel_questions`, applied twice because the provider and the stage both do; `declared` is
the set of judges for which a limitation says that no model asked the question.

`usable` is the set of keys that never refuse. It is chosen once, so that a property can say
what one good key is worth; the other keys refuse or answer as they like. `turns` and `starved`
are history.

Not in the model: which status codes count as a refusal, the texts of the prompts, the
rubric lookups by alias (`evaluate_rubric`), and answers without a recording, which the
provider takes for blank without asking. An error of transcription is not tried again in the
job (`Attempts("transcriber") = 1`); the retry of the job is `JobDelivery`'s.

### SpeechStage, TimedEvidence, Scoring and SessionReport

Times are milliseconds, scores ten-thousandths and weights hundredths, so that the code's rounding is
`RoundedQuotient` and comparisons are exact. `SessionReport` is the line of stages:

| Action | The code |
|---|---|
| `Listen` | `GroqSpeechProvider.transcribe` reads the response (`Transcript`), `run_speech_stage` validates and attributes it (`SpeechResult`) |
| `Observe` | the observations of vision and acoustics after `validate_observation_timestamps`; a stage that failed has none |
| `Aggregate` | `combine_timed_evidence` (`Combined`) and `aggregate_speaker_observations` (`Profiles`) |
| `Load` | `load_report_evidence`: what is missing fails a live report and is synthetic otherwise |
| `MakeReport` | `run_report_stage`: scores, effective weights, feedback for each presenter |

The pure functions are operators in the three modules below it; each is a definition over
sets and sequences where the code has loops, and the properties compare what the line makes
with what its input says. `transcript` is history. Team means are rounded to ten-thousandths
here, which the code leaves out: a mean may differ by half of one, and a display score or a label
with it at a border. An assessment's score is looked for where the code does: in the
assessment, one level deeper (`Normalized`), and under a second name (`ScoreOf`). The two labels of
`Persons` stand for the people in a picture, of whom there may be more. Not in the model: the
strict timestamp mode, which the pipeline does not use; texts, confidences and metadata;
`SpeechStage` clamps negative times when it reads a response, as `groq_speech.py` does, so
`inverted_timestamps` is declared only for spans that clamping to the duration turned round.

## Runs

| Run | Instance | Checks |
|---|---|---|
| `delivery_crash` | 2 workers; outage, lost, late, crash, redelivery; 1 each | `TypeOK`, `NoJobLost`, `ImplementsPromise` |
| `delivery_single` | 1 worker; all faults but late and redelivery; all kinds of envelope; 2 attempts, 1 retry, 1 progress update | `OneResult`, `RunsAreBounded`, `CancelledBeforeTaken`, `ResumesAboveRecorded` |
| `delivery_liveness` | 2 workers, fair; outage, cancel, crash | `ResultKept`, `JobSettles`, `BrokerDrains` |
| `delivery_race` | 1 worker; race; the code's own limits (3 attempts, 3 + 3 retries) | `ResultSurvivesRace`: violated |
| `delivery_rejection` | 1 worker; refusal, cancel; the code's own limits | `RejectionStopsTask`: violated |
| `redis_pair` | 2 consumers, 1 queue, 3 items, valid or nameless; a failure, an interruption or signal | `TypeOK`, `DeadLettersBounded`, `ImplementsLine` |
| `redis_single` | 1 consumer, fair, 2 queues, 2 items of all forms; a failure, an interruption or signal, a lost claim | `ReturnsFailedItem`, `ImplementsLine`, `EveryItemLeaves` |
| `redis_return` | 2 consumers, 1 queue, 2 items; a failure | `ReturnsFailedItem`: violated |
| `session_pair` | 2 runs of all 6 kinds, at the same time or not | `TypeOK`, `SurvivorsAreNew`, `OnlyLateCheckpointsSurvive`, `CancelledNeverCompletes`, `CompletedIsStored` |
| `session_erasure` | 2 runs, an analysis or a report and an erasure, not at the same time | `ErasurePurges`: violated |
| `judges` (`MCJudges`) | 2 or 3 keys, none or the second of them reliable; 2 jobs of 3 kinds; 6 candidates, 18 assessments, 50 feedbacks; fair | `TypeOK`, `EveryKeyOnce`, `EvenTurns`, `OwnKeyFirst`, `UsableKeySuffices`, `PanelOfThree`, `FallbackIsDeclared`, `CreditIsEarned`, `FeedbackForEverySpeaker`, `JobsEnd` |
| `report` (`MCReport`) | 5 responses, 5 diarizations, 2 durations, with or without pictures and sounds, 3 rounds, 3 opinions, 2 mappings, both modes | `SpansWithinRecording`, `CleaningKeepsSpeech`, `FillersAddUp`, `OverallIsTheMean`, `SkippingNeverPays`, `PraiseIsGrounded` |

What they show. A job whose record is open and that no operator was given is always owed by
the broker, whatever mix of crashes, duplicate executions, lost answers and late updates
happens. While no worker dies and no message is handed out twice, a job gets one result and
at most 1 + `MAX_TASK_RETRIES` pipeline runs, and its result is recorded, on its way or with
an operator. A job cancelled before its message was taken is not run. A lone worker numbers
its updates above all that was recorded. Under fair scheduling the job settles and the
broker is emptied.

`OneResult`, `RunsAreBounded` and `ResultKept` are conditional on no crash and no duplicate
delivery because the code promises nothing more: a redelivered message runs the pipeline
again. `ResumesAboveRecorded` is conditional on a single worker and no late update because
two executions that read the same last sequence do collide. What those collisions cannot
break is covered by `delivery_crash`. `CancelledBeforeTaken` speaks of a cancellation that precedes the
taking of the message: one that comes while the worker asks for the job's state is noticed at
the pipeline's first inspection point only.

However many consumers share a queue, and although they return and recover each other's
items, no item leaves its queue unsettled and none overtakes another: an item may be worked
on twice, not lost. The dead-letter list may outgrow its limit by the letters whose trim is
still to come or was cut short. A lone consumer returns the item that failed, and removes
every item in the end, with two exceptions that `EveryItemLeaves` names: an item whose
claim's answer was lost stays pending until a consumer starts again (`Stranded`), and an
item that the Backend answers 409 for good is returned to the head of its queue forever and
blocks it (`Poison`; a superseded job, or one whose report was recorded while its answer was
lost).

`ReturnsFailedItem` and `EveryItemLeaves` are checked for a lone consumer because with two
they do not hold: see the finding for the first; for the second, an item that was returned
in the place of another leaves that other one pending until the next start.

Whatever runs at the same time, a completed erasure has removed all that it found. If
nothing overlapped with it, three things may be left: a checkpoint of a coroutine that outlived
its analysis, ffmpeg's output files, and the report files of runs that failed, which means
here that the worker died or could not remove the file. Nothing is said of an erasure that
failed, nor of what is saved while one runs. A completed job's artifacts and an analysis'
checkpoints are stored, although checkpoints may be another run's, unless a deletion
came in between. A job that is cancelled before its last inspection point does not complete; one
that is cancelled after it may.

Three judges may share a pool in any interleaving: each starts with its own key, no call asks
a key twice, and while one key answers no attempt fails for want of a key. Whatever the
models answer, an analysis with evidence ends with three different questions that refer to
it, and says for which judges no model asked (unless a model asks word for word what a judge
asks without one, see `ModelsAskTheirOwn` below); silence and insults earn no credit; every
speaker has feedback. Each job ends.

Whatever the services answer about times, what is kept lies within the recording, cleaning
turns neither loses speech nor bridges a pause, and a filler that one speaker alone can have
uttered counts once, for that speaker. The overall score is the weighted mean of what was
scored, up to the rounding of the effective weights: they are rounded to four digits and need
not add up to one, so the mean may be missed by a few hundredths (with all scores at their
maximum the sum may exceed it). A team cannot gain by skipping a question. In a live session
nobody is praised for a delivery of which nothing was recorded. `PraiseIsGrounded` speaks of
the mode `live`: under its alias `groq` (README.md:217) the loader falls back to synthetic
evidence, as in every mode but `live`.

### Findings

* `delivery_race`: if all three attempts to post a result are answered 409 and each re-read
  says that the record is open and behind, `send_update` falls out of its loop and returns
  `None`, which the worker takes for success. The result is neither recorded, retried nor
  quarantined. `tests/test_backend_client.py:234` covers one such conflict: "A callback race
  must not orphan a report that was already uploaded."
* `delivery_rejection`: the repository's README says at line 95 that 401, 404 and 409
  "stop the affected task rather than triggering unsafe retries". A rejected progress update
  is logged and the pipeline goes on, and a result answered 409 is published for another
  try.
* `redis_return`: the comment at `app/queue_consumer.py:327` says that "LMOVE atomically
  returns the failed item to the ready head". It returns the rightmost pending item. With
  two consumers of the queue that is the item the other one claimed since, which is then
  claimed and worked on a second time while the failed one stays pending.
* `session_erasure`: the repository's README says at line 130 that erasure "Purges AI
  observations, checkpoints, scratch media, [...]". `split_media` and `normalize_media` write
  ffmpeg's output with `tempfile.mkstemp`, and nothing removes it. The run's trace shows that
  for an analysis. With `Kinds` {"report", "erasure"} it shows what the sentence's end, "and
  final reports", gets: `generate_report` writes the report to `.storage/temp_reports` before it
  uploads it and removes the file at the end (pipeline.py:957, 965); a worker that dies in
  between leaves it, the next run writes another file, and an erasure looks only into
  `.storage/temp_media`. What else may be left is what `OnlyLateCheckpointsSurvive` allows for.

### Bounds

| Bound | Why it is enough |
|---|---|
| `MaxPostAttempts` 1 or 2 (code: 3) | 2 separates the first, a further and the last attempt, which is all that the code tells apart; 1 where two workers and late updates make the state space large. The violation runs use 3. |
| `MaxProviderRetries` 1, `MaxCallbackRetries` 0 (code: 3, 3) | both limits differ from 0 and the counter reaches `MaxTaskRetries`: a run, its retry, and the refusal of a second. The proofs cover every value. |
| `MaxProgress` 0 or 1 | one update between STARTED and the outcome shows every order of the three |
| `MaxCrashes`, `MaxRedeliveries`, `MaxLate` 1 | each of them reaches every place of an execution; combinations of the three are in `delivery_crash`. The proofs cover every value. |
| `MaxCounted` 4 | above the 2 results and 2 runs that the properties bound, so the counters do not saturate below a violation |
| `NumQueues` 1 or 2 (code: 1 or 2) | 2 shows the order of polling and recovery; consumers of different queues share only the dead letters |
| 2 consumers, 3 items | two items in hand and one to wait or to come later, so that returned, recovered and claimed items are all different ones |
| `DeadLetterLimit` 1 (code: 1000) | the least the code uses (`max(1, ...)`): two letters exceed it |
| `MaxFailures`, `MaxInterruptions`, `MaxLostClaims` 1 or 0 | each of them reaches every place of a consumer, and each is switched off where the state space would be too large. The proofs cover every value. |
| 2 runs, `MaxActive` 2 | each kind of run overlaps with, precedes and follows each kind; coroutines outlive the first run and work during the second. Three runs one after the other (`MaxActive` 1, 10^6 states) were checked once, with the same outcome. |
| 2 or 3 keys (code: 1 or more) | with 3 every judge has a key of its own; with 2 a preferred key and the spare key are missing. The proofs cover every number. |
| 2 jobs | a job begins with the pools as another one left them, with the index behind every key; all pairs of kinds occur. The proofs cover every number. |
| `MCUsableSets` {{}, {1}} | no key can be relied on, or one that is neither the first nor the last of three. The proofs cover every set. |
| the sets of `MCJudges` | one candidate breaks each rule, two are accepted and may be equal; scores below, within and above the scale; speakers who are left out, unknown ones, findings of every kind |
| the sets of `MCReport` | for each branch a member that takes it (its comments say which): boundaries of 100 and 300 ms, of windows, of the recording; 12 and 15 s so that a window is cut |

Sequence numbers and message ids are not bounded: the retry and attempt limits bound them.
Deadlock checking is off because a drained broker is the end of the system.

### Fairness

`FairSpec` has weak fairness of each worker's `Step` (a process that is scheduled makes its
next call; every HTTP call has a timeout, so it ends one way or the other) and of handing a
message that nobody executes to some worker (the broker delivers as long as a consumer is
connected). Nothing obliges a fault, a cancellation or a second delivery to happen, and no
call is obliged to succeed: liveness rests on the limits on retries and on the quarantine.
It is checked without a symmetry set, which would be unsound for it. The environment's
finite faults (`MaxCrashes`) are an assumption that liveness needs: workers that die at
every message never settle a job.

For the Redis consumers `FairSpec` has weak fairness of each consumer's `Step`, which
includes `Start`: a consumer that went down is started again. The repository holds no
supervisor: that there is one is an assumption about the deployment, and without it nothing
that a dead consumer left pending is ever done. Producers, cancellations and signals are not
fair. The finite number of failures is again an assumption.

`JudgeService` has weak fairness of `Work` as a whole: the event loop runs on, and each post
is answered or times out (the clients have timeouts). Which asker goes on is not fair, nor is
any answer good; `JobsEnd` rests on the finite orders of keys and the two attempts.

## Proofs

`JobDeliveryProofs` proves `TypeCorrect == Spec => []TypeOK`. `TypeOK` is not inductive: that
a retry's counter stays within `MaxTaskRetries` when a provider failure publishes it needs
that an execution at `failed` with reason `provider` holds a message below the provider
limit, and that an execution's message and terminal update are well typed where they are
used. `Sound` says so for one execution, `TypeInv` conjoins it with `TypeOK`, and there is
one lemma per action.

It proves further, under `NoResultLost` (the faults `race` and `exception` do not
occur), that `NoJobLost` is an invariant (`JobIsNeverLost`) and that every behaviour
implements `JobPromise` (`DeliveryImplementsPromise`). The inductive invariant `PromiseInv`
says more than `NoJobLost`, which a step that acknowledges could break:

* ids are below `nextId`, so a message just published is not one that a worker holds;
* while the job is not settled, the latest message is with the broker (`LatestHeld`);
* an execution that is about to acknowledge holds a message that is not the latest one, or
  the job is settled (`AckIsSafe`): it published a retry first, or its result was recorded,
  or it quarantined the job, in that order;
* a conflict that is about to be re-read is one that another try cannot mend
  (`ConflictIsFinal`): without `race`, what is answered 409 could not have been recorded.

`NoResultLost` excludes exactly the two ways in which the code lets a job go: the one in the
first finding, and an error that no handler names before there is a result, which fails the
Celery task and so acknowledges its message.

`JobOutcomeProofs` proves `OneResult`, `RunsAreBounded` and `CancelledBeforeTaken` for all
constants, with no assumption on the faults. Its invariant `OutcomeInv` has a part for each
execution and a part for calm behaviours, those without a crash or a duplicate delivery so
far:

* between the calls nothing is to be posted (`ExecutionsClear`), and an execution whose job was
  cancelled before it took the message is still before its run, with the cancellation in the
  record (`WarnedAreSpared`);
* in calm behaviours the latest message is the only one whose execution is not over: every
  older one is only to be acknowledged (`MessagesSound`);
* once there is a result, all that is executed or waits carries it (`ResultsSound`), so no run
  is left to compute another;
* each message counts the runs before it in its retries (`RunsCounted`), which
  `retry_or_quarantine` bounds.

Most actions advance one execution (`Advances`): it goes on, concludes with a result, or enters
the pipeline (`Onward`, `Concludes`, `Enters`), and one lemma shows that none of these breaks
the invariant; deliveries, retries, acknowledgements and crashes have lemmas of their own.

`JobResultProofs` proves `ResultKept` under `NoRace`: with `race` a result that could have been
recorded is acknowledged in the end, as the first finding shows. `KeptInv` joins
`OutcomeInv` and `ConflictIsFinal` with `Kept`, which is stronger than `ResultKept` where that is
not inductive: an execution that has the result must not be over, and a message that has it
counts only while no worker holds it, for an acknowledgement removes it.

`JobResumesSequence` proves `ResumesAboveRecorded` for all limits and faults. `NumberingInv` says
where a worker that numbers its own updates stands: in the pipeline its sequence is not below
the last one recorded, an update that is posted for the first time is above it, and one that
is posted again is the last one recorded or later (its first try may have been recorded with
the answer lost). The theorem's hypothesis is that the set of workers is finite, as the
property speaks of its cardinality.

`RedisConsumerProofs` proves `ConsumerTypeCorrect == Spec => []TypeOK` and
`ConsumersImplementLine == Spec => ImplementsLine`, for every set of consumers and items and
every number of queues. The inductive invariant `ConsumerInv` adds to `TypeOK` that a consumer
which works has an item, that the item whose letter is to be trimmed was lettered, and that
the item about to be removed is settled: without the last, LREM could take an unsettled item
from the line. What the commands do to the lists is stated in lemmas about sequences
(`MoveBackKeepsLine`, `TakeHeadKeepsLine`, `RemoveAtConcat`, `RemoveFirstRemoves`); each
action then has a lemma of its own that it preserves `ConsumerInv` and is a step or a stutter
of the line. No assumption says that a consumer moves its own item, and none could: the
theorem holds although it may not.

`LoneConsumerReturnsFailedItem` proves `ReturnsFailedItem` under `LoneConsumer`, as the run
`redis_return` shows it false for two consumers. The invariant `HeldIsLast` covers all places of a
consumer with an item in hand: the item is the last of the pending ones from the claim to the
return, as only the consumer itself moves items to that end.

`DeadLettersStayBounded` proves `DeadLettersBounded` for any finite set of consumers. The property
is not inductive: a consumer that is stopped may fail to trim without using up a failure, and
nothing says that it was stopped by one of the interruptions counted. `LettersInv` has the
interruptions pay for it in advance: the length, with the consumers that are stopping and have
not yet failed (`Spare`), stays within the limit, the trims to come, the failures and the
interruptions; and the consumers that are stopping are no more than the interruptions.

`SessionDataProofs` proves `TypeOK`, `SurvivorsAreNew` and `CancelledNeverCompletes` for any set
of runs. The inductive invariant `SessionInv` says of each run where its promise stands: an
erasure behind its first step has no chunks left of what it found, one that has listed the
objects has all that is left among them, and one behind its deletion has nothing left
(`ErasureSound`); a run that is marked as cancelled has an inspection point ahead
(`CancelSound`). What other runs do can only shrink what an erasure found (`FoundShrinks`),
which is why the number of runs does not matter.

`CompletedJobIsStored` and `UndisturbedErasurePurges` prove `CompletedIsStored` and
`OnlyLateCheckpointsSurvive` from `CompletionInv`. An undisturbed run shares its time with none that
conflicts with it (`UndisturbedAlone`), and a run that is new or deletes has no coroutines
(`TasksOwned`). While it is undisturbed, all that a run has passed in its script, has found as a
checkpoint or has had saved by a coroutine is stored (`Keeps`: what it found and did not write
itself is the part that a unit test of one run cannot see), and an erasure's steps behind it
are done (`Erases`). Each action has a lemma for the run that moves and uses
`UndisturbedAlone` for the others. Of the report files `FilesInvariance` says who may have one: a
report run that is about to upload or to remove it, or a run that failed (`FilesSound`). So a run
that completed or was cancelled has none, whatever runs at the same time: a file is removed at
the end of the script (`FileStepCompletes`), and no inspection point comes while it is there.

`JudgeServiceProofs` proves `TypeOK`, `EveryKeyOnce`, `EvenTurns`, `OwnKeyFirst` and
`UsableKeySuffices` for any positive number of keys, any callers and jobs. The invariant
`ServiceInv` is `PoolInv` with what each asker may be doing. `PoolInv` says that a call's order
is a permutation of the keys (`Complete`) of which those already asked are not usable
(`CallsSound`: so a call on its last key has found every other one useless), and that the keys
before a pool's starting point have had exactly one turn more than the others (`TurnsSound`:
`EvenTurns` alone is not inductive, as it does not say whose turn is next). That both
orders are permutations is the arithmetic of the modules' `Rotation` and `PreferredFirst`,
proved as lemmas.

`JudgeResultProofs` proves `CreditIsEarned` and `FeedbackForEverySpeaker` for any sets of
answers. Its invariant `ResultInv` follows a result from the asker to the job's end: what an
assessor or a reporter has got is well formed as soon as it is done, an asker is at work only
in its job's stage, and an answer that is blank or an insult never reaches the second stage.

`PanelIsThreeQuestions` and `FallbacksAreDeclared` prove `PanelOfThree` and `FallbackIsDeclared` for any
evidence. `PanelInv` adds that a judge that is done has one question, which cites only the
evidence, and which is a deterministic one only if no model helped, and then its own. The
rest is about `validate_panel_questions`: its loops take three steps each, over three questions
and three judges, and lemmas follow them (`DeduplicatedSound`, `FilledSound`, `PanelSound`): the
questions that are kept differ; a judge whose question was dropped or whose dimension is not
covered fills in with one that is not there yet; three judges with three default dimensions
always fill the panel, so that the last loop, which declares nothing, has nothing to do; and
the second pass, in the stage, keeps what the first one, in the provider, declared. Both
theorems assume `ModelsAskTheirOwn`: no model asks word for word what a judge asks without one.
Without it they do not hold, as TLC shows: if a model puts another judge's deterministic
question and that judge has to do without a model, the two are taken for duplicates, one is
dropped, and the judge whose dimension is then missing fills in with the same text again,
after the duplicates were looked for.

Assumptions on the constants are `ConsumerAssumption` (there is a queue, the limit is
positive, the forms are among those named), `SessionAssumption` (kinds among those named),
`KeyCountsAssumption` (a pool has a key), `CallersAssumption`, `MaxJobsAssumption`,
`EvidenceAssumption` (evidence is a sequence of items of the four sources) and
`ScoresAssumption` (scores are integers), `FaultsAssumption` and `DeliveryAssumption`: the
faults and kinds are among those named, the limits are naturals and there is at least one
attempt. The sets of workers, consumers, items and runs are arbitrary, infinite ones included,
but for the two theorems that count workers or consumers.

`SessionReportProofs` proves `SpansWithinRecording`, `CleaningKeepsSpeech`, `FillersAddUp`,
`PraiseIsGrounded`, `OverallIsTheMean` and `SkippingNeverPays`. The steps of `SessionReport` are
few; what has to be proved is what its operators compute of sequences of any length. They go
through a sequence as recursive functions, and the library's induction theorems, which take an
operator as parameter, cannot be used for those. `Induction` is stated for sets of numbers
instead and rests on `WFMin`, that a well-founded relation has minimal elements; `Loop` is the
existence of the function that a recursion defines. From there:

* `ChosenPicks` says what `Chosen`, the model's filter, makes of a sequence: the members at the
  places, in their order. `TotalMonotone` and `TotalNotNegative` are about sums.
* `SortedIsInOrder`: there is one order of a speaker's turns by start and end, and `Sorted` is
  it. `MergeInv` is the loop invariant of the merging of turns in `clean_diarization_turns`: what
  is merged so far lies apart by more than the gap, covers the turns seen and bridges only gaps
  between them. `MergedIsIdle` is the other half, that turns which lie apart stay as they are,
  whence cleaning is idempotent.
* `ValidatedIs`: repaired spans lie within the recording, and a repair changes a transcript just
  when it is declared. It needs that a transcript as it is read does not run backwards
  (`TranscriptIs`), as `groq_speech.py` clamps what it reads: that an inverted span is declared is
  vacuous there.
* `RubricSumIs` writes a sum over the rubric as six terms. Each effective weight is off by
  half a ten-thousandth at most, which with a score of at most 10000 shifts the sum by half a
  ten-thousandth per dimension; six dimensions and the last rounding make 3.5, below the four
  that the property allows (`OverallIs`).
* `SkippedCredit`: a skip that is appended takes one question's credit and no other's; the mean of
  the credits, the clamping, the effective weights (the same dimensions are scored) and the
  weighted sum are monotone (`OverallMonotone`).
* `ChosenTotal` makes a sum over what passes a test a sum over all places, with 0 where the test
  fails, so that nested filters become conditions; `BlocksTotal` exchanges the two sums of what
  is added up window by window, or speaker by speaker. With them a profile's count of fillers,
  which goes through the labels, the clean turns, the windows and their summary, is one sum over
  the observations that were heard (`ProfileCounts`). `AloneIsCredited` compares those with the
  observations of a lone speaker, and `CountsAddUp` uses that an observation has one label.

The inductive invariants are `AnalysisInv` (the speech result is what `SpeechResult` makes of the
transcript, and observations lie in the recording), `ReportInv` (profiles come from the speech
result, and a live report's evidence from them) and `ScoreInv` (the evidence is well formed and
the report is scored as the code does). The constants' assumptions are `DurationsAssumption`, that
the length of the recording is known and positive, `ServicesAssumption` and `RoundsAssumption`:
what the services, the stages and the judge answer has the types that their Pydantic models
give it (times are whole milliseconds, labels and metrics are strings, a score is a number).
Of the values nothing is assumed but that no count of fillers is negative (`FillersAssumption`:
`librosa_audio.py` counts them up from 0), without which a speaker's count could be less than
what was heard of that speaker alone. Times may be negative, beyond the end or inverted, and
scores out of any scale.

Every invariant and every action property of a passing run is proved. Only model-checked is
liveness (`JobSettles`, `BrokerDrains`, `EveryItemLeaves`, `JobsEnd`), which is out of the
prover's reach, as ENABLED is.

## Not modelled

* The hazards without a property. Where the models have the behaviour (a cancellation behind
  the last inspection point, data saved during an erasure, an erasure that fails half way, an
  item that is returned for ever, the alias `groq`), no document says what is to happen, and
  the properties make an exception of it: the notes in `PROJECT.json` say which.
* The broker and the quarantine queue accept what is published. A publisher that fails is a
  hazard (`worker.py:470`) without a property yet.
* Sleeps and backoff, logging, settings, event-loop management.
* Of a session's data: what the artifacts hold, more than one answer or report, and projects of
  several sessions. An erasure that does not name the asset versions leaves their
  directories. An erasure of the scope `asset`, which deletes chunks by asset version, is left
  out.
* Valid items of the Redis queues that are answered 401 or 404 for good.
* The consumer's heartbeat, the result key that it sets for others to read, the expiry of the
  dead-letter list, and `max_jobs`.
* Validation of envelope fields beyond the four kinds.
* Media, vision, audio and document processing: calls into third-party code and numeric
  signal processing (their results are inputs of `SessionReport`). Of the provider adapters
  only Groq's are modelled; pyannote, MediaPipe, librosa and the embedding models are not.
* Prompts and Markdown are text. Readiness, start-up and configuration are probes and I/O
  without state of their own.
* Search in the document store, and the synthetic providers of the tests.

## Plan

In this order, the most important behaviour first:

1. **Job delivery** (done): `BackendJob`, `JobDelivery`, `JobPromise`, their proofs.
2. **Redis consumers** (done): `RedisConsumer`, `JobLine`, their proofs.
3. **Session data** (done): `SessionData`, its proofs.
4. **Judges** (done): `GroqKeyPool`, `JudgePanel`, `JudgeService`, their proofs.
5. **From the recording to the report** (done): `SpeechStage`, `TimedEvidence`, `Scoring`,
   `SessionReport`, their proofs.
6. **Proofs of every invariant and action property of the runs** (done).
7. **Open**: properties for the hazards that have none yet, and the lemmas about operators that
   these would need.
