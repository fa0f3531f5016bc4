-------------------------------- MODULE MCJudges --------------------------------
(* JudgeService with small sets of evidence and of models' answers.         *)
EXTENDS JudgeService

Spoken == [id |-> "ev_speech_001", source |-> "speech"]
Seen == [id |-> "ev_vision_001", source |-> "vision"]

\* Evidence of two kinds, only what was seen, none.
MCBundles == {<<Spoken, Seen>>, <<Seen>>, <<>>}

\* No key can be relied on, or the second one.
MCUsableSets == {{}, {1}}

Candidate(text, dimension, evidence) ==
    [text |-> text, reason |-> TRUE, banned |-> FALSE, dimension |-> dimension,
     evidence |-> evidence]

\* Two texts; a dimension of one of the judges and an unknown one; known and unknown
\* references; and for each rule a candidate that breaks it.
MCCandidates ==
    {Candidate("A", "technology_and_moat", {"ev_speech_001", "ev_none"}),
     Candidate("B", "elsewhere", {"ev_vision_001"}),
     Candidate("A", "elsewhere", {"ev_none"}),
     Candidate("", "elsewhere", {"ev_vision_001"}),
     [Candidate("B", "elsewhere", {"ev_vision_001"}) EXCEPT !.reason = FALSE],
     [Candidate("B", "elsewhere", {"ev_vision_001"}) EXCEPT !.banned = TRUE]}

\* Scores below, within and above the scale.
MCAssessments ==
    [text : {"fine", "banned"}, score : {-20, 60, 120}, followUp : {"none", "fine", "banned"}]

Findings == [FindingKinds -> {"fine", "banned", "none", "broken"}]

\* The models may leave a speaker out, and name one that is not known.
MCFeedbacks ==
    [summary : {"fine", "banned"},
     findings : UNION {[s -> Findings] : s \in SUBSET {"SPEAKER_00", "SPEAKER_09"}}]
=============================================================================
