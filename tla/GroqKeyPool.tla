------------------------------ MODULE GroqKeyPool ------------------------------
(***************************************************************************)
(* The pools of API keys (app/providers/groq_pool.py): a call asks the     *)
(* service with one key after another, in an order that is fixed when the  *)
(* call begins, until a key's answer is usable.  The judges' provider and  *)
(* the speech provider have a pool each, with the same keys.               *)
(*                                                                         *)
(* The steps of a call are put together with what its caller does next in  *)
(* JudgeService.  Why a key refuses (no connection, a status, a body that  *)
(* is not JSON) is told apart only where the code does.                    *)
(***************************************************************************)
EXTENDS Naturals, Sequences

CONSTANTS
    Pools,
    Callers,
    KeyCounts   \* the numbers of keys that are configured in the environment

\* Without a key the pool cannot be constructed.
ASSUME KeyCountsAssumption == KeyCounts \subseteq Nat \ {0}

VARIABLES
    keys,       \* the number of keys
    index,      \* each pool's starting point for the next rotation
    call,       \* each caller's call: the order of the keys and the one being asked
    turns       \* history: the rotations of each pool that started with each key

poolVars == <<keys, index, call, turns>>

Keys == 0..keys - 1

\* No call.
Idle == [order |-> <<>>, at |-> 1]

PoolInit ==
    /\ keys \in KeyCounts
    /\ index = [p \in Pools |-> 0]
    /\ call = [c \in Callers |-> Idle]
    /\ turns = [p \in Pools |-> [k \in Keys |-> 0]]

\* Mutant: the first key counts as none, as in "if preferred_key_index".
TruePreferred(preferred) == preferred \in Keys /\ preferred > 0

\* A key that is asked for counts only if there are that many.
Preferred(preferred) == preferred \in Keys

\* Mutant: the rotation ends with the last key.
CutRotation(start) == [i \in 1..keys - start |-> start + i - 1]

\* All keys, from the starting point round.
Rotation(start) == [i \in 1..keys |-> (start + i - 1) % keys]

\* The preferred key and then the others in their order.
PreferredFirst(preferred) ==
    [i \in 1..keys |->
        IF i = 1 THEN preferred ELSE IF i - 1 <= preferred THEN i - 2 ELSE i - 1]

\* Mutant: the starting point moves with a preferred key as well, to the key after it.
BeginAfterPreferred(c, p, preferred) ==
    IF Preferred(preferred)
    THEN /\ call' = [call EXCEPT ![c] = [order |-> PreferredFirst(preferred), at |-> 1]]
         /\ index' = [index EXCEPT ![p] = (preferred + 1) % keys]
         /\ UNCHANGED <<turns, keys>>
    ELSE /\ call' = [call EXCEPT ![c] = [order |-> Rotation(index[p]), at |-> 1]]
         /\ index' = [index EXCEPT ![p] = (@ + 1) % keys]
         /\ turns' = [turns EXCEPT ![p][index[p]] = @ + 1]
         /\ UNCHANGED keys

\* Mutant: the starting point is not brought back to the first key.
BeginUnbounded(c, p, preferred) ==
    /\ call' = [call EXCEPT ![c] = [order |-> Rotation(index[p]), at |-> 1]]
    /\ index' = [index EXCEPT ![p] = @ + 1]
    /\ UNCHANGED <<turns, keys>>

\* The order of a call is chosen under the pool's lock, in one step.
Begin(c, p, preferred) ==
    IF Preferred(preferred)
    THEN /\ call' = [call EXCEPT ![c] = [order |-> PreferredFirst(preferred), at |-> 1]]
         /\ UNCHANGED <<index, turns, keys>>
    ELSE /\ call' = [call EXCEPT ![c] = [order |-> Rotation(index[p]), at |-> 1]]
         /\ index' = [index EXCEPT ![p] = (@ + 1) % keys]
         /\ turns' = [turns EXCEPT ![p][index[p]] = @ + 1]
         /\ UNCHANGED keys

Calling(c) == call[c].order # <<>>

\* The key whose answer a call is waiting for.
Asked(c) == call[c].order[call[c].at]

OnLastKey(c) == call[c].at = Len(call[c].order)

\* The key refuses and the next one is asked.
Rotate(c) ==
    /\ ~ OnLastKey(c)
    /\ call' = [call EXCEPT ![c].at = @ + 1]
    /\ UNCHANGED <<keys, index, turns>>

\* The call returns or raises.
Return(c) ==
    /\ call' = [call EXCEPT ![c] = Idle]
    /\ UNCHANGED <<keys, index, turns>>

-----------------------------------------------------------------------------
PoolTypeOK ==
    /\ keys \in KeyCounts
    /\ index \in [Pools -> Keys]
    /\ call \in [Callers -> [order : Seq(Keys), at : Nat \ {0}]]
    /\ turns \in [Pools -> [Keys -> Nat]]

\* A call goes through every key exactly once (_build_attempt_order), whatever the
\* other calls do to the pool meanwhile.
EveryKeyOnce ==
    \A c \in Callers : Calling(c) =>
        \A k \in Keys : \E i \in DOMAIN call[c].order :
            /\ call[c].order[i] = k
            /\ \A j \in DOMAIN call[c].order : call[c].order[j] = k => j = i

\* The calls that ask for no key in particular are spread evenly over the keys
\* (_current_index), with any number of them under way at a time.
EvenTurns ==
    \A p \in Pools : \A k, other \in Keys : turns[p][k] <= turns[p][other] + 1
=============================================================================
