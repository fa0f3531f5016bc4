-------------------------------- MODULE MCReport --------------------------------
(* SessionReport with small sets of what the services may answer.           *)
EXTENDS SessionReport

Span(start, end) == [start |-> start, end |-> end]

Segment(start, end, words) == [start |-> start, end |-> end, words |-> words]

Response(segments, words, text) ==
    [segments |-> segments, words |-> words, text |-> text, duration |-> 12000]

\* Words within their segment, beside the segments and alone; a segment that begins
\* before the recording, one that ends behind it, one that begins behind it and one
\* that runs backwards; nothing but a text; nothing.
MCResponses ==
    {Response(<<Segment(0, 4000, <<Span(0, 900)>>), Segment(4200, 4100, <<>>)>>, <<>>, TRUE),
     Response(<<Segment(-50, 9000, <<>>), Segment(15500, 16000, <<>>)>>,
              <<Span(-20, 400), Span(14000, 15800)>>, TRUE),
     Response(<<>>, <<Span(200, 100), Span(800, 15200)>>, TRUE),
     Response(<<>>, <<>>, TRUE),
     Response(<<>>, <<>>, FALSE)}

Turn(speaker, start, end) == [start |-> start, end |-> end, speaker |-> speaker]

Diarization(turns, labels) ==
    [failed |-> FALSE, turns |-> turns, labels |-> labels, uncertain |-> FALSE]

A == "SPEAKER_00"
B == "SPEAKER_01"

\* Turns with short and long pauses, within each other, too short, of two speakers at a
\* time, of somebody unknown; and no diarization.
MCDiarizations ==
    {[Diarization(<<>>, <<>>) EXCEPT !.failed = TRUE],
     Diarization(<<Turn(A, 0, 3000), Turn(A, 3300, 8000), Turn(B, 8400, 12000)>>, <<A, B>>),
     Diarization(<<Turn(A, 0, 9000), Turn(A, 500, 700), Turn(A, 9301, 9390),
                   Turn(B, 6000, 11000)>>, <<A, B>>),
     Diarization(<<Turn(A, 200, 290), Turn(B, 150, 9950)>>, <<A, B>>),
     Diarization(<<Turn("SPEAKER_UNKNOWN", 0, 5000)>>, <<"SPEAKER_UNKNOWN">>)}

MCDurations == {12000, 15000}

Observation(label, metric, value, start, end) ==
    [label |-> label, metric |-> metric, value |-> value, start |-> start, end |-> end]

\* Two persons, one of whom moves the mouth during the turns of the second speaker; and a
\* picture without a label.
MCPictures ==
    {<<Observation("PERSON_00", Mouth, 1, 0, 6000), Observation("PERSON_01", Mouth, 5, 8000, 11000),
       Observation("PERSON_01", "gaze_direction", 160, 8000, 11000),
       Observation("", "posture_openness", 70, 1000, 2000)>>}

\* Fillers within a turn, across the border of two windows, across two turns, of a
\* speaker who is known, and some that begin behind the end of the recording.
MCSounds ==
    {<<Observation("", "filler_count", 2, 1000, 2000), Observation("", "filler_count", 1, 9500, 10900),
       Observation("", "speaking_rate_wpm", 1400, 1000, 2000),
       Observation("", "pause_duration_ms", 900, 1000, 2000)>>,
     <<Observation("", "filler_count", 1, 7000, 9000), Observation(B, "filler_count", 3, 9000, 9900),
       Observation("", "filler_count", 1, 13000, 16000)>>}

Answer(question, status) == [question |-> question, status |-> status]

Assessed(question, score, nested, normalized) ==
    [question |-> question, score |-> score, nested |-> nested, normalized |-> normalized]

\* Answers that are skipped, repeated or missing; assessments with a score at each
\* place or none; no questions.
MCRounds ==
    {[questions |-> <<"q1", "q2", "q3">>,
      answers |-> <<Answer("q1", "submitted"), Answer("q2", "skipped"), Answer("q3", "submitted")>>,
      assessments |-> <<Assessed("q1", 7000, NoScore, 100), Assessed("q2", 9000, NoScore, NoScore),
                        Assessed("q3", NoScore, 3333, NoScore)>>],
     [questions |-> <<"q1", "q2">>,
      answers |-> <<Answer("q1", "skipped"), Answer("q1", "submitted")>>,
      assessments |-> <<Assessed("q1", 12000, NoScore, NoScore),
                        Assessed("q1", NoScore, NoScore, 6500),
                        Assessed("q2", NoScore, NoScore, NoScore)>>],
     [questions |-> <<>>, answers |-> <<>>, assessments |-> <<>>]}

Opinion(scores, members) ==
    [scores |-> [d \in Rubric |-> IF d \in DOMAIN scores THEN scores[d] ELSE NoScore],
     members |-> members]

\* Scores for some dimensions, scores off the scale, no score; findings about somebody
\* who did not speak.
MCOpinions ==
    {Opinion([pitch_content_and_evidence |-> 8449, business_and_problem_solution_reasoning |-> 6450,
              technical_feasibility |-> 4450], {A}),
     Opinion([pitch_content_and_evidence |-> 13000, technical_feasibility |-> -200,
              delivery_and_body_language |-> 7700], {A, B}),
     Opinion(<<>>, {})}

MCMappings == {{}, {A, "SPEAKER_07"}}
=============================================================================
