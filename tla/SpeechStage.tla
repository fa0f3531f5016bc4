------------------------------ MODULE SpeechStage ------------------------------
(***************************************************************************)
(* What the services say was spoken, by whom and when, and what the speech *)
(* stage makes of it (app/providers/groq_speech.py, app/stages/speech.py). *)
(*                                                                         *)
(* A span is a record with a start and an end, in milliseconds.  Texts,    *)
(* confidences and metadata are left out.                                  *)
(***************************************************************************)
EXTENDS Integers, SequencesExt

\* The members of a sequence at some of its places.
Chosen(items, places) ==
    LET chosen[n \in 0..Len(items)] ==
            IF n = 0 THEN <<>>
            ELSE IF n \in places THEN Append(chosen[n - 1], items[n]) ELSE chosen[n - 1]
    IN  chosen[Len(items)]

\* Those that pass a test.
Filtered(items, Test(_)) == Chosen(items, {n \in DOMAIN items : Test(items[n])})

\* The sum of a sequence of numbers.
Total(numbers) ==
    LET total[n \in 0..Len(numbers)] == IF n = 0 THEN 0 ELSE total[n - 1] + numbers[n]
    IN  total[Len(numbers)]

Overlap(a, b) == Max({0, Min({a.end, b.end}) - Max({a.start, b.start})})

Distance(m, n) == IF m < n THEN n - m ELSE m - n

\* The first of the places at which a sequence of numbers is greatest.
Greatest(numbers) ==
    Min({i \in DOMAIN numbers : \A j \in DOMAIN numbers : numbers[j] <= numbers[i]})

Known(speaker) == speaker \notin {"SPEAKER_UNKNOWN", "UNKNOWN", ""}

-----------------------------------------------------------------------------
(* The transcript that is read out of the service's response.              *)

Read(span) == [start |-> Max({0, span.start}), end |-> Max({0, span.start, span.end})]

ReadAll(spans) == [i \in DOMAIN spans |-> Read(spans[i])]

\* The segment that a word belongs to: the one it overlaps most, or else the nearest.
Place(word, segments) ==
    LET overlaps == [i \in DOMAIN segments |-> Overlap(segments[i], word)]
        nearness == [i \in DOMAIN segments |->
                        -Distance(segments[i].start + segments[i].end, word.start + word.end)]
    IN  IF \E i \in DOMAIN segments : overlaps[i] > 0 THEN Greatest(overlaps)
        ELSE Greatest(nearness)

\* The words stand in their segments or beside them; without segments the whole is one.
Transcript(response) ==
    LET words == ReadAll(response.words)
        segments ==
            [i \in DOMAIN response.segments |->
                [start |-> Read(response.segments[i]).start,
                 end |-> Read(response.segments[i]).end,
                 words |-> ReadAll(response.segments[i].words)]]
        end == IF words # <<>> THEN Last(words).end ELSE response.duration
        start == IF words # <<>> THEN words[1].start ELSE 0
    IN  IF segments = <<>>
        THEN IF ~ response.text /\ words = <<>> THEN <<>>
             ELSE <<[start |-> start, end |-> Max({start, end}), words |-> words]>>
        ELSE IF \E i \in DOMAIN segments : segments[i].words # <<>> THEN segments
        ELSE [i \in DOMAIN segments |->
                [segments[i] EXCEPT !.words =
                    Filtered(words, LAMBDA word : Place(word, segments) = i)]]

-----------------------------------------------------------------------------
(* Validation against the length of the recording, in the lenient mode     *)
(* that the pipeline uses.                                                 *)

Outside(span, duration) ==
    span.start < 0 \/ span.start > duration \/ span.end > duration

Within(span, duration) ==
    [start |-> Min({Max({0, span.start}), duration}), end |-> Min({span.end, duration})]

Inverted(span, duration) == Within(span, duration).start > Within(span, duration).end

\* Mutant: a start behind the end of the recording is put right by the exchange alone.
UnclampedStart(span, duration) ==
    LET end == Min({span.end, duration}) IN
    [start |-> Min({Max({0, span.start}), end}), end |-> Max({span.start, end})]

Repaired(span, duration) ==
    LET within == Within(span, duration) IN
    [start |-> Min({within.start, within.end}), end |-> Max({within.start, within.end})]

\* Without a known length nothing is compared with it.
Validated(segments, duration) ==
    IF duration <= 0 THEN segments
    ELSE [i \in DOMAIN segments |->
            [start |-> Repaired(segments[i], duration).start,
             end |-> Repaired(segments[i], duration).end,
             words |-> [n \in DOMAIN segments[i].words |->
                           Repaired(segments[i].words[n], duration)]]]

Spans(segments) ==
    UNION {{segments[i]} \cup ToSet(segments[i].words) : i \in DOMAIN segments}

Declared(code, condition) == IF condition THEN {code} ELSE {}

RepairsDeclared(segments, duration) ==
    LET compared == IF duration <= 0 THEN {} ELSE Spans(segments) IN
    Declared("timestamp_out_of_bounds", \E s \in compared : Outside(s, duration))
    \cup Declared("inverted_timestamps", \E s \in compared : Inverted(s, duration))

-----------------------------------------------------------------------------
(* Who spoke.                                                              *)

\* The speaker of the turn that a segment overlaps most, none if it overlaps none.
HeardFrom(segment, turns) ==
    LET overlaps == [i \in DOMAIN turns |-> Overlap(segment, turns[i])]
    IN  IF \E i \in DOMAIN turns : overlaps[i] > 0
        THEN turns[Greatest(overlaps)].speaker ELSE ""

\* Whether it is open who spoke some of the time.
Doubtful(segments, diarization) ==
    LET turns == diarization.turns IN
    \/ diarization.uncertain
    \/ \E i \in DOMAIN turns : ~ Known(turns[i].speaker)
    \/ turns # <<>> /\ \E n \in DOMAIN segments : ~ Known(HeardFrom(segments[n], turns))

OneSpeaker(segments) ==
    [i \in DOMAIN segments |->
        [start |-> segments[i].start, end |-> segments[i].end, speaker |-> "SPEAKER_00"]]

KnownOnly(labels) == Filtered(labels, Known)

\* The speech stage's result.  When diarization fails the segments of the transcript
\* become the turns of one speaker.
SpeechResult(transcript, diarization, duration) ==
    LET segments == Validated(transcript, duration)
        repairs == RepairsDeclared(transcript, duration)
    IN  IF diarization.failed
        THEN [segments |-> segments, turns |-> OneSpeaker(segments),
              labels |-> <<"SPEAKER_00">>, duration |-> duration,
              declared |-> repairs \cup {"diarization_unavailable"}]
        ELSE [segments |-> segments, turns |-> diarization.turns,
              labels |-> diarization.labels, duration |-> duration,
              declared |->
                  repairs
                  \cup Declared("uncertain_speaker_assignment",
                                Doubtful(segments, diarization))
                  \cup Declared("no_speakers_detected",
                                KnownOnly(diarization.labels) = <<>> /\ segments # <<>>)]
=============================================================================
