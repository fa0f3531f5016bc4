------------------------------- MODULE JudgePanel -------------------------------
(***************************************************************************)
(* What the judges' questions must be like, and what takes the place of a  *)
(* question that is missing (app/stages/judge_panel.py), and the same for  *)
(* the feedback on answers and on the whole session                        *)
(* (app/providers/groq_judge.py).                                          *)
(*                                                                         *)
(* Texts are names; a text that a guardrail rejects is marked as banned.   *)
(* Scores are percentages.                                                 *)
(***************************************************************************)
EXTENDS Integers, FiniteSets, SequencesExt

\* JUDGE_PANEL, in its order.
Panel == <<"business_strategist", "technical_evaluator", "product_analyst">>
Judges == ToSet(Panel)

PreferredKey ==
    [business_strategist |-> 0, technical_evaluator |-> 1, product_analyst |-> 2]

DefaultDimension ==
    [business_strategist |-> "market_and_business_model",
     technical_evaluator |-> "technology_and_moat",
     product_analyst |-> "execution_and_milestones"]

Dimensions ==
    [business_strategist |->
        {"market_and_business_model", "business_reasoning", "customer_retention"},
     technical_evaluator |-> {"technology_and_moat", "technical_feasibility"},
     product_analyst |-> {"execution_and_milestones", "pitch_content_and_evidence"}]

\* The key of every second attempt.
SpareKey == 3

PanelSize == 3

-----------------------------------------------------------------------------
(* Evidence: a sequence of items, each with its id and its source.         *)

\* The dimensions that an item of each source is evidence for.
SourceDimensions ==
    [speech |-> {"market_and_business_model", "technology_and_moat",
                 "execution_and_milestones", "business_reasoning",
                 "technical_feasibility", "pitch_content_and_evidence"},
     documents |-> {"market_and_business_model", "technology_and_moat",
                    "execution_and_milestones", "pitch_content_and_evidence"},
     vision |-> {"visual_delivery", "individual_feedback"},
     audio |-> {"acoustic_prosody", "individual_feedback"}]

Item == [id : STRING, source : DOMAIN SourceDimensions]

Ids(items) == {items[i].id : i \in DOMAIN items}

Textual(item) == item.source \in {"speech", "documents"}

\* The first item that a test accepts, as a set.
First(items, Test(_)) ==
    {items[i].id : i \in {i \in DOMAIN items :
                            Test(items[i]) /\ \A j \in 1..i - 1 : ~ Test(items[j])}}

\* Mutant: only what was said or written is evidence.
TextualGrounding(judge, items) == First(items, Textual)

\* What a deterministic question refers to: what was said or written about the
\* judge's dimensions, or about anything, or else any item.
Grounding(judge, items) ==
    LET onTopic == First(items, LAMBDA item : Textual(item) /\
                       SourceDimensions[item.source] \cap Dimensions[judge] # {})
        textual == First(items, Textual)
    IN  IF onTopic # {} THEN onTopic
        ELSE IF textual # {} THEN textual
        ELSE First(items, LAMBDA item : TRUE)

\* The text of a judge's deterministic question is named after the judge.
FallbackQuestion(judge, items) ==
    [text |-> judge, dimension |-> DefaultDimension[judge],
     evidence |-> Grounding(judge, items)]

-----------------------------------------------------------------------------
(* A model's candidate for a question.                                     *)

AcceptableQuestion(candidate, items) ==
    /\ candidate.text # ""
    /\ candidate.reason
    /\ ~ candidate.banned
    /\ candidate.evidence \cap Ids(items) # {}

\* Another judge's dimension is let stand, an unknown one replaced.
JudgedDimension(judge, dimension) ==
    IF dimension \in UNION {Dimensions[j] : j \in Judges}
    THEN dimension ELSE DefaultDimension[judge]

Validated(judge, candidate, items) ==
    [text |-> candidate.text,
     dimension |-> JudgedDimension(judge, candidate.dimension),
     evidence |-> candidate.evidence \cap Ids(items)]

-----------------------------------------------------------------------------
(* The panel: three questions, no two the same.                            *)

Deduplicated(questions) ==
    LET kept[n \in 0..Len(questions)] ==
            IF n = 0 THEN <<>>
            ELSE IF \E m \in 1..n - 1 : questions[m].text = questions[n].text
            THEN kept[n - 1]
            ELSE Append(kept[n - 1], questions[n])
    IN  kept[Len(questions)]

Covered(questions) == {questions[i].dimension : i \in DOMAIN questions}

\* The deterministic questions of the judges whose default dimension is missing fill
\* the panel, as far as there are places left.
Filled(questions, items) ==
    LET filled[n \in 0..Len(Panel)] ==
            IF n = 0 THEN questions
            ELSE IF /\ Len(filled[n - 1]) < PanelSize
                    /\ DefaultDimension[Panel[n]] \notin Covered(filled[n - 1])
            THEN Append(filled[n - 1], FallbackQuestion(Panel[n], items))
            ELSE filled[n - 1]
    IN  filled[Len(Panel)]

\* And if that was not enough, those of the judges whose places are left.
Padded(questions, items) ==
    questions \o [i \in 1..PanelSize - Len(questions) |->
                     FallbackQuestion(Panel[Len(questions) + i], items)]

PanelQuestions(questions, items) ==
    Padded(Filled(Deduplicated(questions), items), items)

\* The judges for which the panel declares that it filled in.
FillDeclared(questions, items) ==
    LET kept == Deduplicated(questions)
        filled == Filled(kept, items)
    IN  {filled[i].text : i \in Len(kept) + 1..Len(filled)}

-----------------------------------------------------------------------------
(* The assessment of an answer, and the feedback on the session.           *)

Clamped(score) == IF score < 0 THEN 0 ELSE IF score > 100 THEN 100 ELSE score

NoCredit == [score |-> 0, byModel |-> FALSE, followUp |-> FALSE]

\* A model's answer that is not an assessment is rejected.
AcceptableAssessment(answer) == answer.text = "fine"

\* A follow-up question is kept if one is left and it is in order.
Assessment(answer, remaining) ==
    [score |-> Clamped(answer.score), byModel |-> TRUE,
     followUp |-> remaining > 0 /\ answer.followUp = "fine"]

FindingKinds == {"strength", "improvement"}

\* A finding that cannot be read makes the whole feedback unusable.
AcceptableFeedback(answer) ==
    /\ answer.summary = "fine"
    /\ \A s \in DOMAIN answer.findings : \A kind \in FindingKinds :
           answer.findings[s][kind] # "broken"

\* Mutant: findings that a guardrail rejects are kept.
UncheckedFeedback(answer, speakers) ==
    [s \in DOMAIN answer.findings \cup speakers |-> [kind \in FindingKinds |->
        IF s \in DOMAIN answer.findings THEN answer.findings[s][kind] ELSE "default"]]

\* What is left of the findings about each speaker; the speakers who are known get
\* a default for what they are left without.
Feedback(answer, speakers) ==
    [s \in DOMAIN answer.findings \cup speakers |-> [kind \in FindingKinds |->
        IF s \in DOMAIN answer.findings /\ answer.findings[s][kind] = "fine"
        THEN "fine"
        ELSE IF s \in speakers THEN "default" ELSE "none"]]

\* The feedback when no model gives any.
FallbackFeedback(speakers) ==
    [s \in IF speakers = {} THEN {"SPEAKER_00"} ELSE speakers |->
        [kind \in FindingKinds |-> "default"]]
=============================================================================
