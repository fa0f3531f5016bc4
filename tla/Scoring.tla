-------------------------------- MODULE Scoring --------------------------------
(***************************************************************************)
(* The rubric's scores (app/stages/scoring.py).                            *)
(*                                                                         *)
(* A score is a number of ten-thousandths, the precision to which the code *)
(* rounds, a display score one of hundredths.  The scores of the delivery  *)
(* are put together from hundredths.                                       *)
(***************************************************************************)
EXTENDS TimedEvidence

\* Not evaluated.
NoScore == -1000000

\* STARTUP_PITCH_RUBRIC_V1, in hundredths.
Weight ==
    [pitch_content_and_evidence |-> 25, business_and_problem_solution_reasoning |-> 20,
     technical_feasibility |-> 15, delivery_and_body_language |-> 15,
     timing_and_speech_mechanics |-> 5, qa_quality |-> 20]

Rubric == DOMAIN Weight

Dimensions ==
    <<"pitch_content_and_evidence", "business_and_problem_solution_reasoning",
      "technical_feasibility", "delivery_and_body_language", "timing_and_speech_mechanics",
      "qa_quality">>

\* The sum of a number for each member of a set.
SumOver(S, Number(_)) ==
    LET members == SetToSeq(S) IN Total([i \in DOMAIN members |-> Number(members[i])])

\* A sum over some dimensions of the rubric.
RubricSum(S, number) ==
    LET sum[n \in 0..Len(Dimensions)] ==
            IF n = 0 THEN 0
            ELSE IF Dimensions[n] \in S THEN sum[n - 1] + number[Dimensions[n]]
            ELSE sum[n - 1]
    IN  sum[Len(Dimensions)]

Clamped(score) == Min({10000, Max({0, score})})

Display(score) == Min({100, Max({0, (score + 50) \div 100})})

Label(score) ==
    CASE Display(score) < 45 -> "needs_work"
      [] Display(score) \in 45..64 -> "developing"
      [] Display(score) \in 65..84 -> "good"
      [] OTHER -> "strong"

-----------------------------------------------------------------------------
(* The rubric: the scored dimensions share the whole weight.               *)

Scored(raw) == {d \in Rubric : raw[d] # NoScore}

\* Mutant: the weights of the dimensions that are not scored are lost.
ConfiguredWeight(dimension, scored) == Weight[dimension] * 100

EffectiveWeight(dimension, scored) ==
    RoundedQuotient(Weight[dimension] * 10000, RubricSum(scored, Weight))

\* A dimension's component; what it leaves out is not evaluated.
Component(score, weight) ==
    IF score = NoScore THEN [status |-> "not_evaluated"]
    ELSE [status |-> "scored", score |-> Clamped(score), display |-> Display(Clamped(score)),
          label |-> Label(Clamped(score)), weight |-> weight]

Components(raw) ==
    [d \in Rubric |->
        Component(raw[d], IF raw[d] = NoScore THEN 0 ELSE EffectiveWeight(d, Scored(raw)))]

OverallScore(components) ==
    LET scored == {d \in Rubric : components[d].status = "scored"} IN
    IF scored = {} THEN NoScore
    ELSE RoundedQuotient(
            RubricSum(scored, [d \in scored |-> components[d].score * components[d].weight]),
            10000)

-----------------------------------------------------------------------------
(* Questions and answers.  An answer, or an assessment, stands for the     *)
(* last one that the question has got.                                     *)

LastFor(items, question) ==
    {items[i] : i \in {i \in DOMAIN items :
                          /\ items[i].question = question
                          /\ \A j \in i + 1..Len(items) : items[j].question # question}}

\* What an assessment gives, under either of two names.
ScoreOf(assessment) ==
    IF assessment.score # NoScore THEN assessment.score ELSE assessment.normalized

\* An answer that is skipped has no credit, nor has one that is not assessed.
Credit(question, answers, assessments) ==
    IF \E answer \in LastFor(answers, question) : answer.status # "skipped"
    THEN LET scores == {ScoreOf(a) : a \in LastFor(assessments, question)} \ {NoScore}
         IN  IF scores = {} THEN 0 ELSE Clamped(CHOOSE score \in scores : TRUE)
    ELSE 0

\* Mutant: the questions that are skipped are not counted.
AnsweredScore(questions, answers, assessments) ==
    LET answered == Filtered(questions, LAMBDA q :
                        \E answer \in LastFor(answers, q) : answer.status # "skipped")
    IN  IF answered = <<>> THEN 0
        ELSE RoundedMean([i \in DOMAIN answered |->
                             Credit(answered[i], answers, assessments)])

\* Every question counts.
QaScore(questions, answers, assessments) ==
    IF questions = <<>> THEN 0
    ELSE RoundedMean([i \in DOMAIN questions |-> Credit(questions[i], answers, assessments)])

-----------------------------------------------------------------------------
(* A speaker's delivery, from the means and sums of the profile's windows. *)

\* Whether the mean of some numbers lies in a range, bounds included.
MeanIn(numbers, low, high) ==
    /\ Total(numbers) >= low * Len(numbers)
    /\ Total(numbers) <= high * Len(numbers)

AtLeast(numbers, low) == Total(numbers) >= low * Len(numbers)

\* Words in a minute, in tenths.
PaceScore(rates) ==
    IF rates = <<>> THEN 85
    ELSE IF MeanIn(rates, 1300, 1600) THEN 95
    ELSE IF MeanIn(rates, 1100, 1800) THEN 80
    ELSE 60

\* Pauses as a share of the speaking time.
PauseScore(pauses, time) ==
    LET AtMost(percent) == Total(pauses) * 100 <= percent * Max({time, 1}) IN
    IF pauses = <<>> THEN 85
    ELSE IF AtMost(12) THEN 95
    ELSE IF AtMost(20) THEN 80
    ELSE 60

\* Fillers in a minute, of twelve seconds at least.
FillerScore(fillers, time) ==
    LET rate == Total(fillers) * 60000
        AtMost(n) == rate <= n * Max({time, 12000})
    IN  IF fillers = <<>> THEN 90
        ELSE IF AtMost(1) THEN 95
        ELSE IF AtMost(3) THEN 80
        ELSE IF AtMost(5) THEN 65
        ELSE 45

TimingScore(profile) ==
    LET values(m) == WindowValues(profile.windows, m) IN
    IF profile.time > 0 /\ \E i \in DOMAIN profile.windows :
                              DOMAIN profile.windows[i].acoustic # {}
    THEN 40 * PaceScore(values("speaking_rate_wpm"))
         + 35 * PauseScore(values("pause_duration_ms"), profile.time)
         + 25 * FillerScore(values("filler_count"), profile.time)
    ELSE NoScore

\* Gaze, posture and symmetry in hundredths.
GazeScore(gazes) ==
    IF gazes = <<>> THEN 80
    ELSE IF MeanIn(gazes, 90, 130) THEN 92
    ELSE IF MeanIn(gazes, 130, 170) THEN 82
    ELSE 70

PostureScore(postures) ==
    IF postures = <<>> THEN 80
    ELSE IF AtLeast(postures, 80) THEN 90
    ELSE IF AtLeast(postures, 65) THEN 78
    ELSE 60

SymmetryScore(ratios) ==
    IF ratios = <<>> THEN 85
    ELSE IF AtLeast(ratios, 92) THEN 92
    ELSE IF AtLeast(ratios, 85) THEN 80
    ELSE 65

DeliveryScore(profile) ==
    LET values(m) == WindowValues(profile.windows, m) IN
    IF \E i \in DOMAIN profile.windows : DOMAIN profile.windows[i].visual # {}
    THEN 40 * GazeScore(values("gaze_direction"))
         + 35 * PostureScore(values("posture_openness"))
         + 25 * SymmetryScore(values("shoulder_symmetry_ratio"))
    ELSE NoScore
=============================================================================
