-------------------------- MODULE JudgeServiceProofs --------------------------
(***************************************************************************)
(* Type correctness of JudgeService, and what the pools of keys promise,   *)
(* for any numbers of keys and jobs and whatever the models answer.        *)
(***************************************************************************)
EXTENDS JudgeService, SequenceTheorems, TLAPS

-----------------------------------------------------------------------------
(* The orders of keys.                                                     *)

\* Each of n keys stands in an order at one place.
Complete(order, n) ==
    /\ order \in [1..n -> 0..n - 1]
    /\ \A k \in 0..n - 1 : \E i \in 1..n :
          /\ order[i] = k
          /\ \A j \in 1..n : order[j] = k => j = i

\* The key behind a key, round.
LEMMA NextKey ==
    ASSUME NEW n \in Nat \ {0}, NEW x \in 0..n - 1
    PROVE  (x + 1) % n = IF x = n - 1 THEN 0 ELSE x + 1
  BY SMT

\* The key that many places behind a key, round.
LEMMA KeyBehind ==
    ASSUME NEW n \in Nat \ {0}, NEW x \in 0..n - 1, NEW i \in 1..n
    PROVE  (x + i - 1) % n = IF x + i - 1 < n THEN x + i - 1 ELSE x + i - 1 - n
  <1>1. CASE x + i - 1 < n
    BY <1>1, SMT
  <1>2. CASE ~ (x + i - 1 < n)
    BY <1>2, SMT
  <1> QED
    BY <1>1, <1>2

\* The rotation from a starting point is the keys behind it and then the others.
LEMMA RotationComplete ==
    ASSUME NEW n \in Nat \ {0}, keys = n, NEW start \in Keys
    PROVE  Complete(Rotation(start), n)
  <1> DEFINE place(k) == IF k >= start THEN k - start + 1 ELSE k - start + 1 + n
  <1>1. ASSUME NEW i \in 1..n
        PROVE  Rotation(start)[i] = IF start + i - 1 < n THEN start + i - 1 ELSE start + i - 1 - n
    <2>1. start \in 0..n - 1
      BY DEF Keys
    <2>2. Rotation(start)[i] = (start + i - 1) % n
      BY DEF Rotation
    <2> QED
      BY <2>1, <2>2, KeyBehind
  <1>2. Rotation(start) \in [1..n -> 0..n - 1]
    <2>1. Rotation(start) = [i \in 1..n |-> Rotation(start)[i]]
      BY DEF Rotation
    <2>2. \A i \in 1..n : Rotation(start)[i] \in 0..n - 1
      BY <1>1 DEF Keys
    <2> QED
      BY <2>1, <2>2
  <1>3. ASSUME NEW k \in 0..n - 1
        PROVE  /\ place(k) \in 1..n
               /\ Rotation(start)[place(k)] = k
               /\ \A j \in 1..n : Rotation(start)[j] = k => j = place(k)
    <2>1. place(k) \in 1..n
      BY DEF Keys
    <2>2. Rotation(start)[place(k)] = k
      BY <1>1, <2>1 DEF Keys
    <2>3. ASSUME NEW j \in 1..n, Rotation(start)[j] = k PROVE j = place(k)
      BY <1>1, <2>3 DEF Keys
    <2> QED
      BY <2>1, <2>2, <2>3
  <1> QED
    <2> HIDE DEF place
    <2> QED
      BY <1>2, <1>3 DEF Complete

\* So is the preferred key with the others behind it.
LEMMA PreferredFirstComplete ==
    ASSUME NEW n \in Nat \ {0}, keys = n, NEW preferred \in Keys
    PROVE  /\ Complete(PreferredFirst(preferred), n)
           /\ PreferredFirst(preferred)[1] = preferred
  <1> DEFINE place(k) == IF k = preferred THEN 1 ELSE IF k < preferred THEN k + 2 ELSE k + 1
  <1>1. ASSUME NEW i \in 1..n
        PROVE  PreferredFirst(preferred)[i] =
                   IF i = 1 THEN preferred ELSE IF i - 1 <= preferred THEN i - 2 ELSE i - 1
    BY DEF PreferredFirst
  <1>2. PreferredFirst(preferred) \in [1..n -> 0..n - 1]
    <2>1. PreferredFirst(preferred) = [i \in 1..n |-> PreferredFirst(preferred)[i]]
      BY DEF PreferredFirst
    <2>2. \A i \in 1..n : PreferredFirst(preferred)[i] \in 0..n - 1
      BY <1>1 DEF Keys
    <2> QED
      BY <2>1, <2>2
  <1>3. ASSUME NEW k \in 0..n - 1
        PROVE  /\ place(k) \in 1..n
               /\ PreferredFirst(preferred)[place(k)] = k
               /\ \A j \in 1..n : PreferredFirst(preferred)[j] = k => j = place(k)
    <2>1. place(k) \in 1..n
      BY DEF Keys
    <2>2. PreferredFirst(preferred)[place(k)] = k
      BY <1>1, <2>1 DEF Keys
    <2>3. ASSUME NEW j \in 1..n, PreferredFirst(preferred)[j] = k PROVE j = place(k)
      BY <1>1, <2>3 DEF Keys
    <2> QED
      BY <2>1, <2>2, <2>3
  <1>4. PreferredFirst(preferred)[1] = preferred
    BY <1>1
  <1> QED
    <2> HIDE DEF place
    <2> QED
      BY <1>2, <1>3, <1>4 DEF Complete

-----------------------------------------------------------------------------
(* The invariant of the pools.                                             *)

\* A call that is under way has an order of all keys, and those that it has asked
\* cannot be relied on.
UnderWay(m) ==
    /\ m = [order |-> m.order, at |-> m.at]
    /\ Complete(m.order, keys)
    /\ m.at \in 1..keys
    /\ \A i \in 1..m.at - 1 : m.order[i] \notin usable

CallsSound ==
    /\ call = [c \in Callers |-> call[c]]
    /\ \A c \in Callers : call[c] = Idle \/ UnderWay(call[c])

\* The keys before the starting point have had one turn more than the others.
TurnsSound ==
    \A p \in Pools : \A k \in Keys :
        turns[p][k] = turns[p][keys - 1] + IF k < index[p] THEN 1 ELSE 0

CountsTyped ==
    /\ keys \in KeyCounts
    /\ index \in [Pools -> Keys]
    /\ turns \in [Pools -> [Keys -> Nat]]

PoolInv == CountsTyped /\ CallsSound /\ TurnsSound

LEMMA KeysPositive == CountsTyped => keys \in Nat \ {0}
  BY KeyCountsAssumption DEF CountsTyped

\* An order of some keys is not empty, so who has one is calling.
LEMMA UnderWayCalls ==
    ASSUME CountsTyped, NEW c \in Callers
    PROVE  /\ UnderWay(call[c]) => Calling(c)
           /\ call[c] = Idle => ~ Calling(c)
  <1>1. ASSUME UnderWay(call[c]) PROVE Calling(c)
    <2>1. call[c].order \in [1..keys -> 0..keys - 1] /\ keys \in Nat \ {0}
      BY <1>1, KeysPositive DEF UnderWay, Complete
    <2>2. DOMAIN call[c].order = 1..keys
      BY <2>1
    <2>3. 1 \in 1..keys
      BY <2>1
    <2>4. 1 \notin DOMAIN <<>>
      OBVIOUS
    <2> QED
      BY <2>2, <2>3, <2>4 DEF Calling
  <1>2. ASSUME call[c] = Idle PROVE ~ Calling(c)
    BY <1>2 DEF Idle, Calling
  <1> QED
    BY <1>1, <1>2

\* A caller's call may become none or another one that is sound.
LEMMA CallReplaced ==
    ASSUME CallsSound, UNCHANGED <<keys, usable>>, NEW c \in Callers,
           NEW m, m = Idle \/ UnderWay(m),
           call' = [call EXCEPT ![c] = m]
    PROVE  CallsSound' /\ call'[c] = m /\ \A d \in Callers \ {c} : call'[d] = call[d]
  <1>1. call'[c] = m /\ \A d \in Callers \ {c} : call'[d] = call[d]
    BY DEF CallsSound
  <1>2. call' = [d \in Callers |-> call'[d]]
    BY DEF CallsSound
  <1>3. \A n : UnderWay(n) => UnderWay(n)'
    BY DEF UnderWay
  <1>4. ASSUME NEW d \in Callers PROVE call'[d] = Idle \/ UnderWay(call[d])'
    <2>1. call'[d] = Idle \/ UnderWay(call'[d])
      BY <1>1 DEF CallsSound
    <2> QED
      BY <2>1 DEF UnderWay
  <1> QED
    BY <1>1, <1>2, <1>4 DEF CallsSound, Idle

LEMMA BeginStep ==
    ASSUME PoolInv, usable' = usable, NEW c \in Callers, NEW p \in Pools, NEW preferred,
           Begin(c, p, preferred)
    PROVE  /\ PoolInv'
           /\ UnderWay(call[c])'
           /\ \A d \in Callers \ {c} : call'[d] = call[d]
           /\ preferred \in Keys => call'[c].order[1] = preferred
  <1> DEFINE m(order) == [order |-> order, at |-> 1]
  <1>1. keys \in Nat \ {0}
    BY KeysPositive DEF PoolInv
  <1>2. ASSUME NEW order, Complete(order, keys) PROVE UnderWay(m(order))
    BY <1>1, <1>2 DEF UnderWay
  <1>3. ASSUME NEW order, Complete(order, keys), call' = [call EXCEPT ![c] = m(order)],
               keys' = keys
        PROVE  /\ CallsSound' /\ UnderWay(call[c])' /\ call'[c] = m(order)
               /\ \A d \in Callers \ {c} : call'[d] = call[d]
    <2>1. /\ CallsSound' /\ call'[c] = m(order)
          /\ \A d \in Callers \ {c} : call'[d] = call[d]
      BY <1>2, <1>3, CallReplaced DEF PoolInv
    <2>2. UnderWay(call[c])'
      BY <1>2, <1>3, <2>1 DEF UnderWay
    <2> QED
      BY <2>1, <2>2
  <1>4. CASE preferred \in Keys
    <2>1. /\ call' = [call EXCEPT ![c] = m(PreferredFirst(preferred))]
          /\ UNCHANGED <<index, turns, keys>>
      BY <1>4 DEF Begin, Preferred
    <2>2. /\ Complete(PreferredFirst(preferred), keys)
          /\ PreferredFirst(preferred)[1] = preferred
      BY <1>1, <1>4, PreferredFirstComplete
    <2>3. CountsTyped' /\ TurnsSound'
      BY <2>1 DEF PoolInv, CountsTyped, TurnsSound, Keys
    <2>4. /\ CallsSound' /\ UnderWay(call[c])'
          /\ call'[c] = m(PreferredFirst(preferred))
          /\ \A d \in Callers \ {c} : call'[d] = call[d]
      <3> HIDE DEF m
      <3> QED
        BY <1>3, <2>1, <2>2
    <2>5. call'[c].order = PreferredFirst(preferred)
      BY <2>4
    <2> QED
      BY <2>2, <2>3, <2>4, <2>5 DEF PoolInv
  <1>5. CASE preferred \notin Keys
    <2>1. /\ call' = [call EXCEPT ![c] = m(Rotation(index[p]))]
          /\ index' = [index EXCEPT ![p] = (@ + 1) % keys]
          /\ turns' = [turns EXCEPT ![p][index[p]] = @ + 1]
          /\ keys' = keys
      BY <1>5 DEF Begin, Preferred
    <2>2. index[p] \in Keys /\ index \in [Pools -> Keys] /\ turns \in [Pools -> [Keys -> Nat]]
      BY DEF PoolInv, CountsTyped
    <2>3. Complete(Rotation(index[p]), keys)
      BY <1>1, <2>2, RotationComplete
    <2>4. /\ index'[p] = IF index[p] = keys - 1 THEN 0 ELSE index[p] + 1
          /\ index'[p] \in Keys
          /\ \A q \in Pools \ {p} : index'[q] = index[q]
      <3>1. (index[p] + 1) % keys = IF index[p] = keys - 1 THEN 0 ELSE index[p] + 1
        BY <1>1, <2>2, NextKey DEF Keys
      <3>2. index'[p] = (index[p] + 1) % keys
        BY <2>1, <2>2
      <3> QED
        BY <1>1, <2>1, <2>2, <3>1, <3>2 DEF Keys
    <2>5. /\ \A k \in Keys : turns'[p][k] = turns[p][k] + IF k = index[p] THEN 1 ELSE 0
          /\ \A q \in Pools \ {p} : turns'[q] = turns[q]
      BY <2>1, <2>2
    <2>6. CountsTyped'
      <3>1. index' \in [Pools -> Keys]
        BY <2>1, <2>2, <2>4
      <3>2. turns' \in [Pools -> [Keys -> Nat]]
        BY <2>1, <2>2
      <3> QED
        BY <2>1, <3>1, <3>2 DEF PoolInv, CountsTyped, Keys
    <2>7. TurnsSound'
      <3> SUFFICES ASSUME NEW q \in Pools, NEW k \in Keys
                   PROVE  turns'[q][k] = turns'[q][keys - 1] + IF k < index'[q] THEN 1 ELSE 0
        BY <2>1 DEF TurnsSound, Keys
      <3>1. /\ turns[q][k] = turns[q][keys - 1] + IF k < index[q] THEN 1 ELSE 0
            /\ keys - 1 \in Keys /\ k \in Nat /\ index[q] \in Keys
            /\ turns[q][k] \in Nat /\ turns[q][keys - 1] \in Nat
        BY SMTT(30), <1>1, <2>2 DEF PoolInv, TurnsSound, Keys
      <3>2. CASE q # p
        BY <2>4, <2>5, <3>1, <3>2
      <3>3. CASE q = p
        <4>1. /\ turns'[p][k] = turns[p][k] + IF k = index[p] THEN 1 ELSE 0
              /\ turns'[p][keys - 1] = turns[p][keys - 1] + IF keys - 1 = index[p] THEN 1 ELSE 0
          BY <2>5, <3>1
        <4> QED
          BY <1>1, <2>4, <3>1, <3>3, <4>1 DEF Keys
      <3> QED
        BY <3>2, <3>3
    <2> QED
      BY <1>3, <1>5, <2>1, <2>3, <2>6, <2>7 DEF PoolInv
  <1> QED
    BY <1>4, <1>5

LEMMA ReturnStep ==
    ASSUME PoolInv, usable' = usable, NEW c \in Callers, Return(c)
    PROVE  PoolInv' /\ call'[c] = Idle /\ \A d \in Callers \ {c} : call'[d] = call[d]
  <1>1. CallsSound' /\ call'[c] = Idle /\ \A d \in Callers \ {c} : call'[d] = call[d]
    BY CallReplaced DEF PoolInv, Return
  <1>2. CountsTyped' /\ TurnsSound'
    BY DEF Return, PoolInv, CountsTyped, TurnsSound, Keys
  <1> QED
    BY <1>1, <1>2 DEF PoolInv

LEMMA RotateStep ==
    ASSUME PoolInv, usable' = usable, NEW c \in Callers, Calling(c), Asked(c) \notin usable,
           Rotate(c)
    PROVE  /\ PoolInv'
           /\ call'[c].order = call[c].order
           /\ \A d \in Callers \ {c} : call'[d] = call[d]
  <1> DEFINE m == [order |-> call[c].order, at |-> call[c].at + 1]
  <1>1. UnderWay(call[c]) /\ keys \in Nat \ {0}
    BY KeysPositive, UnderWayCalls DEF PoolInv, CallsSound
  <1>2. Len(call[c].order) = keys /\ call[c].at \in 1..keys
    BY <1>1 DEF UnderWay, Complete
  <1>3. call[c].at + 1 \in 1..keys
    BY <1>1, <1>2 DEF Rotate, OnLastKey
  <1>4. UnderWay(m)
    <2>1. \A i \in 1..call[c].at : call[c].order[i] \notin usable
      BY <1>1, <1>2 DEF UnderWay, Asked
    <2> QED
      BY <1>1, <1>2, <1>3, <2>1 DEF UnderWay
  <1>5. call' = [call EXCEPT ![c] = m]
    <2>1. [call[c] EXCEPT !.at = @ + 1] = m
      BY <1>1 DEF UnderWay
    <2>2. call' = [call EXCEPT ![c] = [call[c] EXCEPT !.at = @ + 1]]
      BY DEF Rotate
    <2> QED
      BY <2>1, <2>2
  <1>6. /\ CallsSound' /\ call'[c] = m
        /\ \A d \in Callers \ {c} : call'[d] = call[d]
    <2> HIDE DEF m
    <2> QED
      BY <1>4, <1>5, CallReplaced DEF PoolInv, Rotate
  <1>7. CountsTyped' /\ TurnsSound'
    BY DEF Rotate, PoolInv, CountsTyped, TurnsSound, Keys
  <1> QED
    BY <1>6, <1>7 DEF PoolInv

LEMMA PoolStutters ==
    ASSUME PoolInv, usable' = usable, UNCHANGED poolVars
    PROVE  PoolInv'
  BY DEF PoolInv, poolVars, CountsTyped, CallsSound, TurnsSound, UnderWay, Keys, Idle

\* A call that is refused by its last key was refused by all.
LEMMA LastKeyRefuses ==
    ASSUME PoolInv, usable \subseteq Keys, NEW c \in Callers, Calling(c),
           Asked(c) \notin usable, OnLastKey(c)
    PROVE  usable = {}
  <1>1. UnderWay(call[c]) /\ keys \in Nat \ {0}
    BY KeysPositive, UnderWayCalls DEF PoolInv, CallsSound
  <1>2. Len(call[c].order) = keys /\ call[c].at = keys
    BY <1>1 DEF UnderWay, Complete, OnLastKey
  <1>3. \A i \in 1..keys : call[c].order[i] \notin usable
    BY <1>1, <1>2 DEF UnderWay, Asked
  <1>4. \A k \in Keys : \E i \in 1..keys : call[c].order[i] = k
    BY <1>1 DEF UnderWay, Complete, Keys
  <1> QED
    BY <1>3, <1>4

-----------------------------------------------------------------------------
(* The invariant of the service.                                           *)

\* A judge's first attempt begins with the judge's own key, if there is one.
OwnKeyAsked(a) ==
    a \in Judges /\ asker[a].attempt = 1 /\ Calling(a) /\ PreferredKey[a] \in Keys
        => call[a].order[1] = PreferredKey[a]

AskerSound(a) ==
    /\ asker[a] = [attempt |-> asker[a].attempt, done |-> asker[a].done,
                   aided |-> asker[a].aided, got |-> asker[a].got]
    /\ asker[a].attempt \in 0..Attempts(a)
    /\ asker[a].done \in BOOLEAN
    /\ asker[a].done => ~ Calling(a)
    /\ OwnKeyAsked(a)

AskersSound ==
    /\ asker = [a \in Askers |-> asker[a]]
    /\ \A a \in Askers : AskerSound(a)

JobSound ==
    /\ job = [kind |-> job.kind, stage |-> job.stage, items |-> job.items,
              spoken |-> job.spoken, remaining |-> job.remaining]
    /\ job.kind \in DOMAIN Stages \cup {"none"}
    /\ delivered.status \in {"none", "completed", "failed"}
    /\ jobs \in 0..MaxJobs

KeysSound ==
    /\ usable \subseteq Keys
    /\ starved \in BOOLEAN
    /\ starved => usable = {}

ServiceInv == PoolInv /\ AskersSound /\ JobSound /\ KeysSound

LEMMA AttemptsPositive == \A a : Attempts(a) \in Nat \ {0}
  BY DEF Attempts

\* What is said of an asker depends on the asker and its call.
LEMMA AskerReplaced ==
    ASSUME AskersSound, keys' = keys, NEW a \in Askers,
           \A d \in Callers \ {a} : call'[d] = call[d],
           asker' = [asker EXCEPT ![a] = asker'[a]],
           AskerSound(a)'
    PROVE  AskersSound'
  <1>1. asker' = [d \in Askers |-> asker'[d]]
    BY DEF AskersSound
  <1>2. ASSUME NEW d \in Askers, d # a PROVE AskerSound(d)'
    <2>1. asker'[d] = asker[d] /\ call'[d] = call[d]
      BY <1>2, CallersAssumption DEF AskersSound
    <2>2. AskerSound(d)
      BY DEF AskersSound
    <2> QED
      BY <2>1, <2>2 DEF AskerSound, OwnKeyAsked, Calling, Keys
  <1> QED
    BY <1>1, <1>2 DEF AskersSound

\* An attempt begins.
LEMMA BeginAttempt ==
    ASSUME PoolInv, AskersSound, usable' = usable, NEW a \in Askers, ~ asker[a].done,
           NEW n \in 1..Attempts(a),
           Begin(a, PoolOf(a), PreferredBy(a, n)),
           asker' = [asker EXCEPT ![a].attempt = n]
    PROVE  PoolInv' /\ AskersSound'
  <1>1. a \in Callers /\ PoolOf(a) \in Pools
    BY CallersAssumption DEF PoolOf
  <1>2. /\ PoolInv'
        /\ \A d \in Callers \ {a} : call'[d] = call[d]
        /\ PreferredBy(a, n) \in Keys => call'[a].order[1] = PreferredBy(a, n)
    BY <1>1, BeginStep
  <1>3. keys' = keys
    BY DEF Begin
  <1>4. AskerSound(a)
    BY DEF AskersSound
  <1>5. /\ asker'[a] = [attempt |-> n, done |-> asker[a].done,
                        aided |-> asker[a].aided, got |-> asker[a].got]
        /\ asker' = [asker EXCEPT ![a] = asker'[a]]
    <2>1. [asker[a] EXCEPT !.attempt = n]
              = [attempt |-> n, done |-> asker[a].done,
                 aided |-> asker[a].aided, got |-> asker[a].got]
      BY <1>4 DEF AskerSound
    <2>2. asker' = [asker EXCEPT ![a] = [asker[a] EXCEPT !.attempt = n]]
      OBVIOUS
    <2>3. asker'[a] = [asker[a] EXCEPT !.attempt = n]
      BY <2>2 DEF AskersSound
    <2> QED
      BY <2>1, <2>2, <2>3
  <1>6. asker'[a].attempt = n /\ asker'[a].done = FALSE
    BY <1>4, <1>5 DEF AskerSound
  <1>7. OwnKeyAsked(a)'
    <2>1. a \in Judges /\ n = 1 => PreferredBy(a, n) = PreferredKey[a]
      BY DEF PreferredBy, Judges, Panel, ToSet
    <2> QED
      BY <1>2, <1>3, <1>6, <2>1 DEF OwnKeyAsked, Keys
  <1>8. AskerSound(a)'
    <2>1. asker'[a].attempt \in 0..Attempts(a)
      BY <1>6, AttemptsPositive
    <2>2. asker'[a] = [attempt |-> asker'[a].attempt, done |-> asker'[a].done,
                       aided |-> asker'[a].aided, got |-> asker'[a].got]
      BY <1>5
    <2>3. asker'[a].done \in BOOLEAN /\ (asker'[a].done => ~ Calling(a)')
      BY <1>6
    <2> QED
      BY <1>7, <2>1, <2>2, <2>3, Zenon DEF AskerSound, Attempts
  <1> QED
    BY <1>2, <1>3, <1>5, <1>8, AskerReplaced

\* A call returns to an asker that is done then.
LEMMA ReturnDone ==
    ASSUME PoolInv, AskersSound, usable' = usable, NEW a \in Askers, Return(a),
           NEW aided, NEW got,
           asker' = [asker EXCEPT ![a] = Done(aided, got)]
    PROVE  PoolInv' /\ AskersSound'
  <1>1. a \in Callers
    BY CallersAssumption
  <1>2. PoolInv' /\ call'[a] = Idle /\ \A d \in Callers \ {a} : call'[d] = call[d]
    BY <1>1, ReturnStep
  <1>3. keys' = keys
    BY DEF Return
  <1>4. asker'[a] = [attempt |-> 0, done |-> TRUE, aided |-> aided, got |-> got]
    BY DEF AskersSound, Done
  <1>5. ~ Calling(a)'
    BY <1>2 DEF Calling, Idle
  <1>6. AskerSound(a)'
    <2>1. asker'[a].attempt = 0 /\ asker'[a].done = TRUE
      BY <1>4
    <2>2. asker'[a].attempt \in 0..Attempts(a)
      BY <2>1, AttemptsPositive
    <2>3. asker'[a] = [attempt |-> asker'[a].attempt, done |-> asker'[a].done,
                       aided |-> asker'[a].aided, got |-> asker'[a].got]
      BY <1>4
    <2>4. OwnKeyAsked(a)'
      BY <1>5 DEF OwnKeyAsked
    <2> QED
      BY <1>5, <2>1, <2>2, <2>3, <2>4, Zenon DEF AskerSound, Attempts
  <1> QED
    BY <1>2, <1>3, <1>4, <1>6, AskerReplaced

LEMMA GiveUpStep ==
    ASSUME PoolInv, AskersSound, usable' = usable, NEW a \in Askers, Calling(a), GiveUp(a)
    PROVE  PoolInv' /\ AskersSound'
  <1>1. asker[a].attempt \in 0..Attempts(a) /\ ~ asker[a].done
    BY DEF AskersSound, AskerSound
  <1>2. CASE asker[a].attempt < Attempts(a)
    <2>1. asker[a].attempt + 1 \in 1..Attempts(a)
      BY <1>1, <1>2, AttemptsPositive
    <2>2. /\ Begin(a, PoolOf(a), PreferredBy(a, asker[a].attempt + 1))
          /\ asker' = [asker EXCEPT ![a].attempt = asker[a].attempt + 1]
      BY <1>2 DEF GiveUp
    <2> QED
      BY <1>1, <2>1, <2>2, BeginAttempt
  <1>3. CASE ~ (asker[a].attempt < Attempts(a))
    <2>1. Return(a) /\ asker' = [asker EXCEPT ![a] = Done(FALSE, Unaided(a))]
      BY <1>3 DEF GiveUp
    <2> QED
      BY <2>1, ReturnDone
  <1> QED
    BY <1>2, <1>3

\* The askers that are waiting are sound, whatever their calls are.
LEMMA Forgotten ==
    ASSUME ForgetAskers
    PROVE  AskersSound'
  <1>1. asker' = [a \in Askers |-> asker'[a]] /\ \A a \in Askers : asker'[a] = Waiting
    BY DEF ForgetAskers
  <1>2. ASSUME NEW a \in Askers PROVE AskerSound(a)'
    <2>1. /\ asker'[a].attempt = 0 /\ asker'[a].done = FALSE
          /\ asker'[a] = [attempt |-> asker'[a].attempt, done |-> asker'[a].done,
                          aided |-> asker'[a].aided, got |-> asker'[a].got]
      BY <1>1 DEF Waiting
    <2>2. asker'[a].attempt \in 0..Attempts(a)
      BY <2>1, AttemptsPositive
    <2>3. OwnKeyAsked(a)'
      BY <2>1 DEF OwnKeyAsked
    <2> QED
      BY <2>1, <2>2, <2>3, Zenon DEF AskerSound, Attempts
  <1> QED
    BY <1>1, <1>2 DEF AskersSound

LEMMA AskersStutter ==
    ASSUME AskersSound, UNCHANGED <<asker, call, keys>>
    PROVE  AskersSound'
  BY DEF AskersSound, AskerSound, OwnKeyAsked, Calling, Keys

LEMMA KeysStutter ==
    ASSUME KeysSound, UNCHANGED <<usable, keys, starved>>
    PROVE  KeysSound'
  BY DEF KeysSound, Keys

LEMMA JobStutters ==
    ASSUME JobSound, UNCHANGED <<job, delivered, jobs>>
    PROVE  JobSound'
  BY DEF JobSound

-----------------------------------------------------------------------------
(* The actions.                                                            *)

LEMMA StartJobStep ==
    ASSUME ServiceInv, NEW kind \in DOMAIN Stages, StartJob(kind)
    PROVE  ServiceInv'
  <1>1. PoolInv' /\ AskersSound' /\ KeysSound'
    BY PoolStutters, AskersStutter, KeysStutter DEF ServiceInv, StartJob, poolVars
  <1>2. JobSound'
    <2>1. PICK items, stage, spoken, remaining :
              job' = [kind |-> kind, stage |-> stage, items |-> items, spoken |-> spoken,
                      remaining |-> remaining]
      BY DEF StartJob
    <2>2. jobs' \in 0..MaxJobs
      BY MaxJobsAssumption DEF ServiceInv, JobSound, StartJob
    <2>3. delivered'.status = "none"
      BY DEF StartJob, Nothing
    <2>4. /\ job' = [kind |-> job'.kind, stage |-> job'.stage, items |-> job'.items,
                     spoken |-> job'.spoken, remaining |-> job'.remaining]
          /\ job'.kind = kind
      BY <2>1
    <2> QED
      BY <2>2, <2>3, <2>4 DEF JobSound, Stages
  <1> QED
    BY <1>1, <1>2 DEF ServiceInv

LEMMA AskStep ==
    ASSUME ServiceInv, NEW a \in Askers, Ask(a)
    PROVE  ServiceInv'
  <1>1. PoolInv' /\ AskersSound'
    <2>1. 1 \in 1..Attempts(a)
      BY AttemptsPositive
    <2>2. /\ ~ asker[a].done /\ usable' = usable
          /\ Begin(a, PoolOf(a), PreferredBy(a, 1))
          /\ asker' = [asker EXCEPT ![a].attempt = 1]
      BY DEF Ask
    <2> QED
      BY <2>1, <2>2, BeginAttempt DEF ServiceInv
  <1>2. KeysSound' /\ JobSound'
    BY KeysStutter, JobStutters DEF ServiceInv, Ask, Begin
  <1> QED
    BY <1>1, <1>2 DEF ServiceInv

LEMMA RefuseStep ==
    ASSUME ServiceInv, NEW a \in Askers, Refuse(a)
    PROVE  ServiceInv'
  <1>1. a \in Callers /\ Calling(a) /\ Asked(a) \notin usable /\ usable \subseteq Keys
    BY CallersAssumption DEF Refuse, ServiceInv, KeysSound
  <1>2. JobSound' /\ usable' = usable
    BY JobStutters DEF ServiceInv, Refuse
  <1>3. CASE OnLastKey(a) /\ GiveUp(a) /\ starved' = TRUE
    <2>1. PoolInv' /\ AskersSound'
      BY <1>1, <1>2, <1>3, GiveUpStep DEF ServiceInv
    <2>2. usable = {}
      BY <1>1, <1>3, LastKeyRefuses DEF ServiceInv
    <2>3. KeysSound'
      BY <1>2, <1>3, <2>2 DEF KeysSound
    <2> QED
      BY <1>2, <2>1, <2>3 DEF ServiceInv
  <1>4. CASE Rotate(a) /\ UNCHANGED <<asker, starved>>
    <2>1. /\ PoolInv' /\ keys' = keys
          /\ call'[a].order = call[a].order
          /\ \A d \in Callers \ {a} : call'[d] = call[d]
      BY <1>1, <1>2, <1>4, RotateStep DEF ServiceInv, Rotate
    <2>2. AskersSound'
      <3>1. \A d \in Callers : call'[d].order = call[d].order
        BY <2>1
      <3> QED
        BY <1>4, <2>1, <3>1, CallersAssumption
        DEF ServiceInv, AskersSound, AskerSound, OwnKeyAsked, Calling, Keys
    <2> QED
      BY <1>2, <1>4, <2>1, <2>2, KeysStutter DEF ServiceInv
  <1> QED
    BY <1>3, <1>4 DEF Refuse

LEMMA GiveUpKeeps ==
    ASSUME ServiceInv, NEW a \in Askers, Calling(a), GiveUp(a),
           UNCHANGED <<usable, job, delivered, jobs, starved>>
    PROVE  ServiceInv'
  <1>1. PoolInv' /\ AskersSound'
    BY GiveUpStep DEF ServiceInv
  <1>2. keys' = keys
    BY DEF GiveUp, Begin, Return
  <1>3. KeysSound' /\ JobSound'
    BY <1>2, KeysStutter, JobStutters DEF ServiceInv
  <1> QED
    BY <1>1, <1>3 DEF ServiceInv

LEMMA TooLargeStep ==
    ASSUME ServiceInv, NEW a \in Askers, TooLarge(a)
    PROVE  ServiceInv'
  BY GiveUpKeeps DEF TooLarge

LEMMA RejectStep ==
    ASSUME ServiceInv, NEW a \in Askers, Reject(a)
    PROVE  ServiceInv'
  BY GiveUpKeeps DEF Reject

LEMMA UseStep ==
    ASSUME ServiceInv, NEW a \in Askers, Use(a)
    PROVE  ServiceInv'
  <1>1. PICK got \in Accepted(a) : asker' = [asker EXCEPT ![a] = Done(TRUE, got)]
    BY DEF Use
  <1>2. PoolInv' /\ AskersSound'
    BY <1>1, ReturnDone DEF ServiceInv, Use
  <1>3. KeysSound' /\ JobSound'
    BY KeysStutter, JobStutters DEF ServiceInv, Use, Return
  <1> QED
    BY <1>2, <1>3 DEF ServiceInv

\* A job ends, whatever it comes to.
LEMMA EndJobStep ==
    ASSUME ServiceInv, NEW status \in {"completed", "failed"}, NEW got, NEW declared,
           EndJob(status, got, declared)
    PROVE  ServiceInv'
  <1>1. PoolInv' /\ AskersSound' /\ KeysSound'
    BY PoolStutters, Forgotten, KeysStutter DEF ServiceInv, EndJob, poolVars
  <1>2. JobSound'
    <2>1. /\ job' = NoJob
          /\ delivered'.status = status
          /\ jobs' = jobs
      BY DEF EndJob
    <2> QED
      BY <2>1 DEF ServiceInv, JobSound, NoJob
  <1> QED
    BY <1>1, <1>2 DEF ServiceInv

LEMMA AfterTranscriptionStep ==
    ASSUME ServiceInv, AfterTranscription
    PROVE  ServiceInv'
  <1>1. CASE EndJob("failed", <<>>, {}) \/ EndJob("completed", <<NoCredit>>, {})
    BY <1>1, EndJobStep
  <1>2. CASE /\ job' = [job EXCEPT !.stage = 2]
             /\ ForgetAskers
             /\ UNCHANGED <<poolVars, usable, delivered, jobs, starved>>
    <2>1. PoolInv' /\ AskersSound' /\ KeysSound'
      BY <1>2, PoolStutters, Forgotten, KeysStutter DEF ServiceInv, poolVars
    <2>2. JobSound'
      <3>1. job = [kind |-> job.kind, stage |-> job.stage, items |-> job.items,
                   spoken |-> job.spoken, remaining |-> job.remaining]
        BY DEF ServiceInv, JobSound
      <3>2. job' = [kind |-> job.kind, stage |-> 2, items |-> job.items,
                    spoken |-> job.spoken, remaining |-> job.remaining]
        BY <1>2, <3>1
      <3> QED
        BY <1>2, <3>2 DEF ServiceInv, JobSound
    <2> QED
      BY <2>1, <2>2 DEF ServiceInv
  <1> QED
    BY <1>1, <1>2 DEF AfterTranscription

LEMMA FormPanelStep ==
    ASSUME ServiceInv, FormPanel
    PROVE  ServiceInv'
  <1>1. \E status \in {"completed", "failed"} : \E got, declared :
            EndJob(status, got, declared)
    BY DEF FormPanel
  <1> QED
    BY <1>1, EndJobStep

LEMMA ConcludeStep ==
    ASSUME ServiceInv, ConcludeAnswer \/ ConcludeReport
    PROVE  ServiceInv'
  <1>1. PICK got : EndJob("completed", got, {})
    BY DEF ConcludeAnswer, ConcludeReport
  <1> QED
    BY <1>1, EndJobStep

LEMMA ServiceStutters ==
    ASSUME ServiceInv, UNCHANGED vars
    PROVE  ServiceInv'
  BY PoolStutters, AskersStutter, KeysStutter, JobStutters DEF ServiceInv, vars, poolVars

LEMMA InitSound == Init => ServiceInv
  <1> SUFFICES ASSUME Init PROVE ServiceInv
    OBVIOUS
  <1>1. keys \in Nat \ {0}
    BY KeyCountsAssumption DEF Init, PoolInit
  <1>2. CountsTyped /\ TurnsSound
    BY <1>1 DEF Init, PoolInit, CountsTyped, TurnsSound, Keys
  <1>3. CallsSound
    BY DEF Init, PoolInit, CallsSound
  <1>4. AskersSound
    <2>1. asker = [a \in Askers |-> asker[a]] /\ \A a \in Askers : asker[a] = Waiting
      BY DEF Init
    <2>2. ASSUME NEW a \in Askers PROVE AskerSound(a)
      <3>1. /\ asker[a].attempt = 0 /\ asker[a].done = FALSE
            /\ asker[a] = [attempt |-> asker[a].attempt, done |-> asker[a].done,
                           aided |-> asker[a].aided, got |-> asker[a].got]
        BY <2>1 DEF Waiting
      <3>2. asker[a].attempt \in 0..Attempts(a)
        BY <3>1, AttemptsPositive
      <3>3. OwnKeyAsked(a)
        BY <3>1 DEF OwnKeyAsked
      <3> QED
        BY <3>1, <3>2, <3>3, Zenon DEF AskerSound
    <2> QED
      BY <2>1, <2>2 DEF AskersSound
  <1>5. JobSound
    BY MaxJobsAssumption DEF Init, JobSound, NoJob, Nothing
  <1>6. KeysSound
    BY DEF Init, KeysSound
  <1> QED
    BY <1>2, <1>3, <1>4, <1>5, <1>6 DEF ServiceInv, PoolInv

LEMMA NextSound == ServiceInv /\ [Next]_vars => ServiceInv'
  <1> SUFFICES ASSUME ServiceInv, [Next]_vars PROVE ServiceInv'
    OBVIOUS
  <1>1. ASSUME NEW kind \in DOMAIN Stages, StartJob(kind) PROVE ServiceInv'
    BY <1>1, StartJobStep
  <1>2. ASSUME NEW a \in Askers, Ask(a) PROVE ServiceInv'
    BY <1>2, AskStep
  <1>3. ASSUME NEW a \in Askers, Refuse(a) PROVE ServiceInv'
    BY <1>3, RefuseStep
  <1>4. ASSUME NEW a \in Askers, TooLarge(a) PROVE ServiceInv'
    BY <1>4, TooLargeStep
  <1>5. ASSUME NEW a \in Askers, Use(a) PROVE ServiceInv'
    BY <1>5, UseStep
  <1>6. ASSUME NEW a \in Askers, Reject(a) PROVE ServiceInv'
    BY <1>6, RejectStep
  <1>7. CASE AfterTranscription
    BY <1>7, AfterTranscriptionStep
  <1>8. CASE FormPanel
    BY <1>8, FormPanelStep
  <1>9. CASE ConcludeAnswer \/ ConcludeReport
    BY <1>9, ConcludeStep
  <1>10. CASE UNCHANGED vars
    BY <1>10, ServiceStutters
  <1> QED
    BY <1>1, <1>2, <1>3, <1>4, <1>5, <1>6, <1>7, <1>8, <1>9, <1>10 DEF Next, Work

LEMMA ServiceInvariant == Spec => []ServiceInv
  BY InitSound, NextSound, PTL DEF Spec

-----------------------------------------------------------------------------
(* The theorems.                                                           *)

LEMMA PoolTyped == PoolInv => PoolTypeOK
  <1> SUFFICES ASSUME PoolInv PROVE PoolTypeOK
    OBVIOUS
  <1>1. keys \in Nat \ {0} /\ CountsTyped
    BY KeysPositive DEF PoolInv
  <1>2. ASSUME NEW c \in Callers PROVE call[c] \in [order : Seq(Keys), at : Nat \ {0}]
    <2>1. CASE call[c] = Idle
      BY <2>1 DEF Idle
    <2>2. CASE UnderWay(call[c])
      <3>1. call[c].order \in Seq(Keys)
        <4>1. call[c].order \in [1..keys -> Keys]
          BY <2>2 DEF UnderWay, Complete, Keys
        <4> QED
          BY <1>1, <4>1, SeqDef
      <3> QED
        BY <1>1, <2>2, <3>1 DEF UnderWay
    <2> QED
      BY <2>1, <2>2 DEF PoolInv, CallsSound
  <1>3. call \in [Callers -> [order : Seq(Keys), at : Nat \ {0}]]
    BY <1>2 DEF PoolInv, CallsSound
  <1> QED
    BY <1>1, <1>3 DEF PoolTypeOK, CountsTyped

\* The variables of the pools and of the service keep their types, for any numbers of
\* keys, jobs and inputs.
THEOREM ServiceTypeCorrect == Spec => []TypeOK
  <1>1. ServiceInv => TypeOK
    BY PoolTyped DEF ServiceInv, TypeOK, AskersSound, AskerSound, JobSound, KeysSound
  <1> QED
    BY <1>1, ServiceInvariant, PTL

\* With any number of keys a call goes through each exactly once.
THEOREM KeysAskedOnce == Spec => []EveryKeyOnce
  <1>1. ServiceInv => EveryKeyOnce
    <2> SUFFICES ASSUME ServiceInv, NEW c \in Callers, Calling(c)
                 PROVE  \A k \in Keys : \E i \in DOMAIN call[c].order :
                            /\ call[c].order[i] = k
                            /\ \A j \in DOMAIN call[c].order : call[c].order[j] = k => j = i
      BY DEF EveryKeyOnce
    <2>1. UnderWay(call[c])
      BY UnderWayCalls DEF ServiceInv, PoolInv, CallsSound
    <2> DEFINE order == call[c].order
    <2>2. Complete(order, keys)
      BY <2>1 DEF UnderWay
    <2> HIDE DEF order
    <2>3. DOMAIN order = 1..keys
      BY <2>2 DEF Complete
    <2>4. \A k \in 0..keys - 1 : \E i \in 1..keys :
             order[i] = k /\ \A j \in 1..keys : order[j] = k => j = i
      BY <2>2 DEF Complete
    <2>5. \A k \in Keys : \E i \in DOMAIN order :
             order[i] = k /\ \A j \in DOMAIN order : order[j] = k => j = i
      BY <2>3, <2>4, Zenon DEF Keys
    <2> QED
      BY <2>5, Zenon DEF order
  <1> QED
    BY <1>1, ServiceInvariant, PTL

\* With any number of keys the turns of two keys differ by one at most.
THEOREM TurnsAreEven == Spec => []EvenTurns
  <1>1. ServiceInv => EvenTurns
    <2> SUFFICES ASSUME ServiceInv, NEW p \in Pools, NEW k \in Keys, NEW other \in Keys
                 PROVE  turns[p][k] <= turns[p][other] + 1
      BY DEF EvenTurns
    <2>1. /\ turns[p][k] = turns[p][keys - 1] + IF k < index[p] THEN 1 ELSE 0
          /\ turns[p][other] = turns[p][keys - 1] + IF other < index[p] THEN 1 ELSE 0
      BY DEF ServiceInv, PoolInv, TurnsSound
    <2>2. keys \in Nat \ {0} /\ turns \in [Pools -> [Keys -> Nat]]
      BY KeysPositive DEF ServiceInv, PoolInv, CountsTyped
    <2>3. keys - 1 \in Keys
      BY <2>2 DEF Keys
    <2>4. turns[p][keys - 1] \in Nat
      BY <2>2, <2>3
    <2> QED
      BY <2>1, <2>4
  <1> QED
    BY <1>1, ServiceInvariant, PTL

\* With a key for each judge no two judges begin with the same key.
THEOREM JudgesBeginApart == Spec => []OwnKeyFirst
  <1>1. ServiceInv => OwnKeyFirst
    <2> SUFFICES ASSUME ServiceInv, NEW j \in Judges, NEW k \in Judges, j # k,
                        keys >= Len(Panel), Calling(j), Calling(k),
                        asker[j].attempt = 1, asker[k].attempt = 1
                 PROVE  call[j].order[1] # call[k].order[1]
      BY DEF OwnKeyFirst
    <2>1. /\ PreferredKey[j] \in 0..2 /\ PreferredKey[k] \in 0..2
          /\ PreferredKey[j] # PreferredKey[k]
      BY DEF PreferredKey, Judges, Panel, ToSet
    <2>2. keys \in Nat /\ Len(Panel) = 3
      BY KeysPositive DEF ServiceInv, PoolInv, Panel
    <2>3. PreferredKey[j] \in Keys /\ PreferredKey[k] \in Keys
      BY <2>1, <2>2 DEF Keys
    <2>4. OwnKeyAsked(j) /\ OwnKeyAsked(k)
      BY DEF ServiceInv, AskersSound, AskerSound, Askers
    <2> QED
      BY <2>1, <2>3, <2>4 DEF OwnKeyAsked
  <1> QED
    BY <1>1, ServiceInvariant, PTL

\* With any set of keys that never refuse, unless it is empty, no attempt fails for want
\* of a key.
THEOREM UsableKeyIsFound == Spec => []UsableKeySuffices
  <1>1. ServiceInv => UsableKeySuffices
    BY DEF ServiceInv, KeysSound, UsableKeySuffices
  <1> QED
    BY <1>1, ServiceInvariant, PTL
=============================================================================
