------------------------------- MODULE JobLine -------------------------------
(***************************************************************************)
(* What the Redis consumers promise for the queues they serve, however     *)
(* many of them there are and whatever becomes of them: each queue is a    *)
(* line that jobs join at the end, keep their places in, and leave only    *)
(* once they are settled.                                                  *)
(***************************************************************************)
EXTENDS Naturals, SequencesExt

CONSTANTS Queues, Jobs

VARIABLES
    line,      \* the jobs in each queue, in the order they came
    settled    \* the jobs whose end the Backend or an operator knows of

vars == <<line, settled>>

Init == /\ line = [q \in Queues |-> <<>>]
        /\ settled = {}

Join == /\ \E q \in Queues, j \in Jobs : line' = [line EXCEPT ![q] = Append(@, j)]
        /\ UNCHANGED settled

Settle == /\ \E j \in Jobs : settled' = settled \cup {j}
          /\ UNCHANGED line

Leave == /\ \E q \in Queues : \E i \in 1..Len(line[q]) :
              /\ line[q][i] \in settled
              /\ line' = [line EXCEPT ![q] = RemoveAt(@, i)]
         /\ UNCHANGED settled

Next == Join \/ Settle \/ Leave

Spec == Init /\ [][Next]_vars
=============================================================================
