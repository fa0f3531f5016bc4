----------------------------- MODULE SessionReport -----------------------------
(***************************************************************************)
(* A session from the recording to the report: the stages of an analysis   *)
(* hand their results on, the analysis is stored, and a report is made of  *)
(* it and of the round of questions and answers (app/pipeline.py,          *)
(* app/stages/report_loader.py, app/stages/reporting.py).                  *)
(*                                                                         *)
(* When and how often the jobs run is the matter of JobDelivery and of     *)
(* SessionData; here each stage runs once, on everything that its services *)
(* may answer.                                                             *)
(***************************************************************************)
EXTENDS Scoring, FiniteSets

CONSTANTS
    Responses,      \* what the speech service may answer
    Diarizations,   \* and the diarization
    Durations,      \* lengths of the recording; always known here
    Pictures,       \* sequences of observations that vision may make
    Sounds,         \* and those that the acoustic analysis may make
    Rounds,         \* questions with their answers and assessments
    Opinions,       \* what a judge may say about the session
    Mappings        \* the speakers that users were mapped to; none if there is no mapping

ASSUME DurationsAssumption == Durations \subseteq Nat \ {0}

Observations == [label : STRING, metric : STRING, value : Int, start : Int, end : Int]

\* Times are whole milliseconds, and nothing else is taken for granted of them.
ASSUME ServicesAssumption ==
    /\ LET spans == [start : Int, end : Int]
           segments == [start : Int, end : Int, words : Seq(spans)]
           turns == [start : Int, end : Int, speaker : STRING]
       IN  /\ Responses \subseteq
                 [segments : Seq(segments), words : Seq(spans), text : BOOLEAN, duration : Int]
           /\ Diarizations \subseteq
                 [failed : BOOLEAN, turns : Seq(turns), labels : Seq(STRING),
                  uncertain : BOOLEAN]
    /\ Pictures \cup Sounds \subseteq Seq(Observations)

\* The acoustic analysis counts fillers up from none (librosa_audio.py).
ASSUME FillersAssumption ==
    \A sounds \in Sounds : \A i \in DOMAIN sounds :
        sounds[i].metric = "filler_count" => sounds[i].value >= 0

ASSUME RoundsAssumption ==
    /\ LET answers == [question : STRING, status : STRING]
           assessments == [question : STRING, score : Int, nested : Int, normalized : Int]
       IN  Rounds \subseteq [questions : Seq(STRING), answers : Seq(answers),
                             assessments : Seq(assessments)]
    /\ Opinions \subseteq [scores : [Rubric -> Int], members : SUBSET STRING]

VARIABLES
    stage,          \* the stage that is next
    transcript,     \* history: the transcript as it was read
    speech,         \* the results of the stages
    observed,
    profiles,
    evidence,       \* what the report is made of
    report

vars == <<stage, transcript, speech, observed, profiles, evidence, report>>

Nothing == <<>>

Init ==
    /\ stage = "speech"
    /\ transcript = Nothing
    /\ speech = Nothing
    /\ observed = Nothing
    /\ profiles = Nothing
    /\ evidence = Nothing
    /\ report = Nothing

-----------------------------------------------------------------------------
(* The analysis.                                                           *)

Listen ==
    /\ stage = "speech"
    /\ \E response \in Responses, diarization \in Diarizations, duration \in Durations :
          /\ transcript' = Transcript(response)
          /\ speech' = SpeechResult(transcript', diarization, duration)
    /\ stage' = "observation"
    /\ UNCHANGED <<observed, profiles, evidence, report>>

\* Vision and acoustics run side by side; one that fails has observed nothing.
Observe ==
    /\ stage = "observation"
    /\ \E pictures \in Pictures \cup {<<>>}, sounds \in Sounds \cup {<<>>} :
          observed' = [visual |-> ValidObservations(pictures, speech.duration),
                       audio |-> ValidObservations(sounds, speech.duration)]
    /\ stage' = "aggregation"
    /\ UNCHANGED <<transcript, speech, profiles, evidence, report>>

Aggregate ==
    /\ stage = "aggregation"
    /\ profiles' = Profiles(speech, Combined(speech, observed.visual, observed.audio))
    /\ stage' = "loading"
    /\ UNCHANGED <<transcript, speech, observed, evidence, report>>

-----------------------------------------------------------------------------
(* The report.                                                             *)

\* build_synthetic_analysis_data, build_synthetic_qa_data.
SyntheticProfile(start, end, rate, pause) ==
    [time |-> end - start, intervals |-> <<[start |-> start, end |-> end]>>,
     windows |-> <<[start |-> ((start + end) \div (2 * WindowSize)) * WindowSize,
                    acoustic |-> [speaking_rate_wpm |-> rate, pause_duration_ms |-> pause,
                                  pause_count |-> 1, filler_count |-> 0],
                    visual |-> [gaze_direction |-> 100, posture_openness |-> 85,
                                shoulder_symmetry_ratio |-> 96]]>>]

SyntheticProfiles ==
    [SPEAKER_00 |-> SyntheticProfile(0, 9200, 1380, 250),
     SPEAKER_01 |-> SyntheticProfile(9300, 14000, 1350, 200)]

SyntheticRound ==
    [questions |-> <<"q_01", "q_02", "q_03">>,
     answers |-> [n \in 1..3 |-> [question |-> <<"q_01", "q_02", "q_03">>[n],
                                  status |-> "submitted"]],
     assessments |-> [n \in 1..3 |-> [question |-> <<"q_01", "q_02", "q_03">>[n],
                                      score |-> <<8500, 8000, 7800>>[n], nested |-> NoScore,
                                      normalized |-> NoScore]]]

\* An assessment's score may stand one level deeper.
Normalized(assessments) ==
    [i \in DOMAIN assessments |->
        [question |-> assessments[i].question,
         score |-> IF assessments[i].score # NoScore THEN assessments[i].score
                   ELSE assessments[i].nested,
         normalized |-> assessments[i].normalized]]

\* Either artifact may be missing: in live mode the report fails, otherwise synthetic
\* evidence takes its place.
Load(mode) ==
    /\ stage = "loading"
    /\ \E read \in SUBSET {"analysis", "qa"}, round \in Rounds :
          IF mode = "live" /\ read # {"analysis", "qa"}
          THEN stage' = "failed" /\ UNCHANGED evidence
          ELSE LET qa == IF "qa" \in read THEN round ELSE SyntheticRound IN
               /\ stage' = "reporting"
               /\ evidence' =
                    [mode |-> mode,
                     profiles |-> IF "analysis" \in read THEN profiles ELSE SyntheticProfiles,
                     questions |-> qa.questions, answers |-> qa.answers,
                     assessments |-> Normalized(qa.assessments)]
    /\ UNCHANGED <<transcript, speech, observed, profiles, report>>

\* The mean of the speakers' scores, or what the judge says where there are none.  It is
\* rounded to a score here, which the code leaves out.
TeamScore(scores, otherwise) ==
    LET some == {s \in DOMAIN scores : scores[s] # NoScore} IN
    IF some = {} THEN otherwise
    ELSE RoundedQuotient(SumOver(some, LAMBDA s : scores[s]), Cardinality(some))

\* The scores that go into the rubric.
RawScores(from, opinion) ==
    [d \in Rubric |->
        CASE d = "qa_quality" ->
               IF from.questions = <<>> THEN NoScore
               ELSE QaScore(from.questions, from.answers, from.assessments)
          [] d = "delivery_and_body_language" ->
               TeamScore([s \in DOMAIN from.profiles |-> DeliveryScore(from.profiles[s])],
                         opinion.scores[d])
          [] d = "timing_and_speech_mechanics" ->
               TeamScore([s \in DOMAIN from.profiles |-> TimingScore(from.profiles[s])],
                         opinion.scores[d])
          [] OTHER -> opinion.scores[d]]

ProfileIn(from, speaker) ==
    IF speaker \in DOMAIN from.profiles THEN from.profiles[speaker]
    ELSE [time |-> 0, intervals |-> <<>>, windows |-> <<>>]

\* Mutant: a speaker without delivery data is praised like the others.
AnyDeliveryData(profile) == TRUE

HasDeliveryData(profile) ==
    profile.intervals # <<>> \/ profile.windows # <<>> \/ profile.time > 0

\* What a presenter is told, with default findings where the judge has none.
MemberFeedback(from, opinion, speaker) ==
    LET profile == ProfileIn(from, speaker) IN
    [speaker |-> speaker, intervals |-> profile.intervals,
     findings |-> IF ~ HasDeliveryData(profile) THEN "none"
                  ELSE IF speaker \in opinion.members THEN "judge" ELSE "default",
     delivery |-> DeliveryScore(profile), timing |-> TimingScore(profile)]

\* Those who are told something: who was mapped, or else who has a profile.
Presenters(from, mapping) ==
    IF mapping # {} THEN mapping
    ELSE IF DOMAIN from.profiles # {} THEN DOMAIN from.profiles
    ELSE {"SPEAKER_00"}

MakeReport ==
    /\ stage = "reporting"
    /\ \E opinion \in Opinions, mapping \in Mappings :
          LET components == Components(RawScores(evidence, opinion)) IN
          report' = [opinion |-> opinion, components |-> components,
                     overall |-> OverallScore(components),
                     members |-> {MemberFeedback(evidence, opinion, s) :
                                     s \in Presenters(evidence, mapping)}]
    /\ stage' = "done"
    /\ UNCHANGED <<transcript, speech, observed, profiles, evidence>>

Next ==
    \/ Listen \/ Observe \/ Aggregate
    \/ \E mode \in {"live", "groq"} : Load(mode)
    \/ MakeReport

Spec == Init /\ [][Next]_vars
-----------------------------------------------------------------------------
(* What is checked.                                                        *)

In(span, duration) == 0 <= span.start /\ span.start <= span.end /\ span.end <= duration

\* Whatever the services answer, segments, words and the turns that are made of segments
\* lie within the recording and do not run backwards, observations last, and a
\* transcript that had to be changed says so (validate_word_timestamps,
\* validate_observation_timestamps).
SpansWithinRecording ==
    /\ speech # Nothing =>
          /\ \A s \in Spans(speech.segments) : In(s, speech.duration)
          /\ "diarization_unavailable" \in speech.declared =>
                \A i \in DOMAIN speech.turns : In(speech.turns[i], speech.duration)
          /\ speech.segments # transcript <=>
                speech.declared \cap {"timestamp_out_of_bounds", "inverted_timestamps"} # {}
    /\ observed # Nothing =>
          \A o \in ToSet(observed.visual) \cup ToSet(observed.audio) :
             In(o, speech.duration) /\ o.start < o.end

\* What cleaning makes of a speaker's turns: it loses no turn that is long enough, keeps
\* turns apart that a pause divides, bridges no longer pause, and leaves what is clean
\* as it is (clean_diarization_turns).
CleaningKeepsSpeech ==
    stage = "observation" => \A s \in Participants(speech) :
        LET raw == OwnTurns(speech.turns, s)
            clean == CleanTurns(speech.turns, s)
        IN  /\ \A turn \in raw : turn.end - turn.start >= ShortestTurn =>
                  \E i \in DOMAIN clean :
                     clean[i].start <= turn.start /\ turn.end <= clean[i].end
            /\ \A i, j \in DOMAIN clean : i < j => clean[i].end + MergeGap < clean[j].start
            /\ \A i \in DOMAIN clean : \A turn \in raw :
                  clean[i].start <= turn.end /\ turn.end < clean[i].end =>
                     \E next \in raw : /\ next.start <= turn.end + MergeGap
                                       /\ next.end > turn.end
            /\ CleanTurns(clean, s) = clean

\* Fillers that were heard while one speaker alone had the floor, for a turn that is long
\* enough, count for that speaker, and no filler counts twice (combine_timed_evidence,
\* filter_active_speaker_observations, aggregate_speaker_observations).
FillersAddUp ==
    stage = "loading" =>
        LET heard == Filtered(observed.audio, LAMBDA o : o.metric = "filler_count")
            Alone(o, s) ==
                /\ o.label \in {"", s}
                /\ \E i \in DOMAIN speech.turns :
                      /\ speech.turns[i].speaker = s
                      /\ speech.turns[i].end - speech.turns[i].start >= ShortestTurn
                      /\ Overlap(o, speech.turns[i]) > 0
                /\ \A i \in DOMAIN speech.turns :
                      Overlap(o, speech.turns[i]) > 0 => speech.turns[i].speaker = s
            Own(s) == SumOf(heard, LAMBDA o : Alone(o, s), LAMBDA o : o.value)
            Counted(s) == IF "filler_count" \in DOMAIN profiles[s].summary
                          THEN profiles[s].summary["filler_count"] ELSE 0
        IN  /\ \A s \in ToSet(KnownOnly(speech.labels)) :
                  Own(s) > 0 => s \in DOMAIN profiles /\ Counted(s) >= Own(s)
            /\ SumOver(DOMAIN profiles, Counted)
                  <= SumOf(heard, LAMBDA o : TRUE, LAMBDA o : o.value)

\* The overall score is the mean of the scored dimensions by their weights, however many
\* are missing, up to what rounding the weights may add (normalize_effective_weights).
OverallIsTheMean ==
    stage = "done" =>
        LET components == report.components
            scored == {d \in Rubric : components[d].status = "scored"}
            weight == RubricSum(scored, Weight)
            total == RubricSum(scored, [d \in scored |-> Weight[d] * components[d].score])
        IN  IF scored = {} THEN report.overall = NoScore
            ELSE Distance(report.overall * weight, total) <= 4 * weight

\* A team that had skipped one of its questions would not have scored better
\* (calculate_qa_score), with everything else the same.
SkippingNeverPays ==
    stage = "done" => \A i \in DOMAIN evidence.questions :
        LET skip == [question |-> evidence.questions[i], status |-> "skipped"]
            other == [evidence EXCEPT !.answers = Append(@, skip)]
        IN  OverallScore(Components(RawScores(other, report.opinion))) <= report.overall

\* In a live session nobody is praised or advised for a delivery of which nothing was
\* recorded, whatever the judge says and whoever was mapped (run_report_stage,
\* load_report_evidence).
PraiseIsGrounded ==
    stage = "done" /\ evidence.mode = "live" => \A m \in report.members :
        m.findings # "none" =>
            /\ SpeakingTime(CleanTurns(speech.turns, m.speaker)) > 0
            /\ m.intervals = CleanTurns(speech.turns, m.speaker)
=============================================================================
