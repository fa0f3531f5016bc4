----------------------------- MODULE TimedEvidence -----------------------------
(***************************************************************************)
(* From what was seen and heard to a profile of each speaker               *)
(* (app/stages/common.py, app/pipeline.py, app/stages/aggregation.py).     *)
(*                                                                         *)
(* An observation is a span with a metric, a value and a label: of a       *)
(* speaker, of a person in the picture, or none ("").  A value is a number *)
(* of the smallest unit to which the code rounds the metric's mean, the    *)
(* mouth's aspect ratio one of tenths.  A mean that lies half-way between  *)
(* two such numbers is rounded up.                                         *)
(***************************************************************************)
EXTENDS SpeechStage

ShortestTurn == 100
MergeGap == 300
WindowSize == 10000

\* The labels of the people in the picture; two stand for any number.
Persons == {"PERSON_00", "PERSON_01"}

\* Metrics that are averaged over a window or added up, and the metric that only tells
\* who speaks.
Averaged == {"speaking_rate_wpm", "pitch_mean_hz", "pitch_std_hz"}
AddedUp == {"pause_duration_ms", "pause_count", "filler_count"}
VisualMetrics == {"gaze_direction", "head_pitch_degrees", "head_yaw_degrees",
                  "posture_openness", "shoulder_symmetry_ratio", "upper_body_movement_px"}
Mouth == "mouth_aspect_ratio"

\* The sum of a number for each member of a sequence that passes a test.
SumOf(items, Test(_), Number(_)) ==
    LET chosen == Filtered(items, Test) IN
    Total([i \in DOMAIN chosen |-> Number(chosen[i])])

-----------------------------------------------------------------------------
(* Observations are kept within the recording or dropped.                  *)

Ordered(span) ==
    [span EXCEPT !.start = Min({span.start, span.end}), !.end = Max({span.start, span.end})]

Bounded(span, duration) ==
    [Ordered(span) EXCEPT !.start = Max({0, @}),
                          !.end = IF duration > 0 THEN Min({@, duration}) ELSE @]

\* What does not last within the recording is dropped.
ValidObservations(observations, duration) ==
    Filtered([i \in DOMAIN observations |-> Bounded(observations[i], duration)],
              LAMBDA o : o.start < o.end)

-----------------------------------------------------------------------------
(* Observations are given the speakers' labels.                            *)

\* The turns of a speaker who is among the diarization's labels.
TurnsOf(speech, speaker) ==
    IF Known(speaker) /\ Contains(speech.labels, speaker)
    THEN Filtered(speech.turns, LAMBDA turn : turn.speaker = speaker) ELSE <<>>

\* How long an observation lasts while a speaker has the floor.
Presence(observation, speech, speaker) ==
    LET turns == TurnsOf(speech, speaker) IN
    Total([i \in DOMAIN turns |-> Overlap(observation, turns[i])])

\* The speakers in the order of their first turn that goes with an observation.
Present(observation, speech) ==
    LET turns == Filtered(speech.turns, LAMBDA turn :
                     Presence(observation, speech, turn.speaker) > 0
                     /\ Overlap(observation, turn) > 0)
    IN  [i \in DOMAIN turns |-> turns[i].speaker]

\* What was heard is given to who had the floor for most of it.
Attributed(observation, speech) ==
    LET present == Present(observation, speech) IN
    IF observation.label # "" \/ present = <<>> THEN observation
    ELSE [observation EXCEPT !.label =
             present[Greatest([i \in DOMAIN present |->
                                  Presence(observation, speech, present[i])])]]

\* How much a person's presence, and the movement of the mouth, go with a speaker's turns.
Affinity(person, visual, speech, speaker) ==
    SumOf(visual, LAMBDA o : o.label = person,
          LAMBDA o : Presence(o, speech, speaker) *
                     (1 + IF o.metric = Mouth THEN Max({0, o.value}) ELSE 0))

\* The speaker that a person in the picture is, as a set; several may be the same one.
SpeakerOf(person, visual, speech) ==
    LET speakers == KnownOnly(speech.labels)
        affinity == [i \in DOMAIN speakers |-> Affinity(person, visual, speech, speakers[i])]
    IN  IF \E i \in DOMAIN speakers : affinity[i] > 0 THEN {speakers[Greatest(affinity)]}
        ELSE IF Len(speakers) = 1 THEN {speakers[1]}
        ELSE {}

\* The turn that an unlabelled picture overlaps most.
LongestWith(observation, speech) ==
    LET turns == Filtered(speech.turns, LAMBDA turn :
                     Known(turn.speaker) /\ Contains(speech.labels, turn.speaker))
    IN  HeardFrom(observation, turns)

Relabelled(observation, visual, speech) ==
    IF observation.label = "" THEN [observation EXCEPT !.label = LongestWith(observation, speech)]
    ELSE IF observation.label \in Persons
            /\ SpeakerOf(observation.label, visual, speech) # {}
    THEN [observation EXCEPT !.label =
             CHOOSE s \in SpeakerOf(observation.label, visual, speech) : TRUE]
    ELSE observation

\* combine_timed_evidence; the persons that are nobody's picture are declared.
Combined(speech, visual, audio) ==
    [visual |-> [i \in DOMAIN visual |-> Relabelled(visual[i], visual, speech)],
     audio |-> [i \in DOMAIN audio |-> Attributed(audio[i], speech)],
     ambiguous |-> {p \in Persons : /\ \E i \in DOMAIN visual : visual[i].label = p
                                    /\ SpeakerOf(p, visual, speech) = {}}]

-----------------------------------------------------------------------------
(* The turns are cleaned of noise.                                         *)

Earlier(a, b) == a.start < b.start \/ (a.start = b.start /\ a.end < b.end)

\* A set of one speaker's turns in the order in which they begin and end.
Sorted(turns) ==
    CHOOSE s \in [1..Cardinality(turns) -> turns] :
        \A i, j \in DOMAIN s : i < j => Earlier(s[i], s[j])

Adjacent(merged, turn) == merged # <<>> /\ turn.start <= Last(merged).end + MergeGap

\* Mutant: a turn that is merged ends where the last one does.
JoinedToLast(merged, turn) ==
    IF Adjacent(merged, turn)
    THEN [merged EXCEPT ![Len(merged)].end = turn.end]
    ELSE Append(merged, turn)

\* A turn that overlaps the last one or nearly meets it becomes part of it.
Joined(merged, turn) ==
    IF Adjacent(merged, turn)
    THEN [merged EXCEPT ![Len(merged)].end = Max({@, turn.end})]
    ELSE Append(merged, turn)

Merged(turns) ==
    LET merged[n \in 0..Len(turns)] ==
            IF n = 0 THEN <<>> ELSE Joined(merged[n - 1], turns[n])
    IN  merged[Len(turns)]

OwnTurns(turns, speaker) ==
    {Ordered(turns[i]) : i \in {i \in DOMAIN turns : turns[i].speaker = speaker}}

\* A speaker's turns, without what is too short for speech.
CleanTurns(turns, speaker) ==
    IF ~ Known(speaker) THEN <<>>
    ELSE Filtered(Merged(Sorted(OwnTurns(turns, speaker))),
                  LAMBDA turn : turn.end - turn.start >= ShortestTurn)

SpeakingTime(turns) == SumOf(turns, LAMBDA t : TRUE, LAMBDA t : t.end - t.start)

\* What was observed while its speaker had the floor.
Active(observations, turns, speaker) ==
    Filtered(observations, LAMBDA o :
        o.label = speaker /\ \E i \in DOMAIN turns : Overlap(o, turns[i]) > 0)

-----------------------------------------------------------------------------
(* The profiles.                                                           *)

RoundedQuotient(m, n) == (2 * m + n) \div (2 * n)

RoundedMean(numbers) == RoundedQuotient(Total(numbers), Len(numbers))

\* Mutant: an observation counts in the windows of both its ends.
EndsIn(observation, window) ==
    window \in {observation.start \div WindowSize, (observation.end - 1) \div WindowSize}

\* The window that an observation's middle lies in.
LiesIn(observation, window) ==
    window = (observation.start + observation.end) \div (2 * WindowSize)

Values(observations, window, metric) ==
    LET chosen == Filtered(observations, LAMBDA o : LiesIn(o, window) /\ o.metric = metric)
    IN  [i \in DOMAIN chosen |-> chosen[i].value]

\* The metrics of a window; what was not measured in it is left out.
Measured(observations, window, metrics) ==
    [m \in {m \in metrics : Values(observations, window, m) # <<>>} |->
        IF m \in AddedUp THEN Total(Values(observations, window, m))
        ELSE RoundedMean(Values(observations, window, m))]

\* Windows in which nothing was measured are left out.
Windows(visual, audio, duration) ==
    Filtered([n \in 1..duration \div WindowSize + 1 |->
                  [start |-> (n - 1) * WindowSize,
                   acoustic |-> Measured(audio, n - 1, Averaged \cup AddedUp),
                   visual |-> Measured(visual, n - 1, VisualMetrics)]],
              LAMBDA w : DOMAIN w.acoustic # {} \/ DOMAIN w.visual # {})

\* A metric in the windows that have it.
WindowValues(windows, metric) ==
    LET kind == IF metric \in VisualMetrics THEN "visual" ELSE "acoustic"
        with == Filtered(windows, LAMBDA w : metric \in DOMAIN w[kind])
    IN  [i \in DOMAIN with |-> with[i][kind][metric]]

\* A metric over all windows; pauses are counted wherever their length is known.
Summary(windows) ==
    LET reported == {"speaking_rate_wpm", "pitch_mean_hz", "pause_duration_ms", "filler_count",
                     "gaze_direction", "posture_openness", "upper_body_movement_px"}
        measured == {m \in reported : WindowValues(windows, m) # <<>>}
    IN  [m \in measured \cup
             (IF "pause_duration_ms" \in measured THEN {"pause_count"} ELSE {}) |->
            IF m \in AddedUp THEN Total(WindowValues(windows, m))
            ELSE RoundedMean(WindowValues(windows, m))]

Participants(speech) ==
    {s \in ToSet(speech.labels) \cup {speech.turns[i].speaker : i \in DOMAIN speech.turns} :
        Known(s)}

ProfileOf(speaker, speech, combined) ==
    LET turns == CleanTurns(speech.turns, speaker)
        windows == Windows(Active(combined.visual, turns, speaker),
                           Active(combined.audio, turns, speaker), speech.duration)
    IN  [time |-> SpeakingTime(turns), intervals |-> turns, windows |-> windows,
         summary |-> Summary(windows)]

\* aggregate_speaker_observations; who neither spoke nor was observed has no profile.
Profiles(speech, combined) ==
    LET all == [s \in Participants(speech) |-> ProfileOf(s, speech, combined)]
    IN  [s \in {s \in DOMAIN all : all[s].time > 0 \/ all[s].windows # <<>>} |-> all[s]]
=============================================================================
