------------------------- MODULE RedisConsumerProofs -------------------------
(***************************************************************************)
(* Type correctness of RedisConsumer, and that it implements JobLine, for  *)
(* any set of consumers, any set of items and any number of queues; that a *)
(* consumer which shares its lists with no other returns the item that     *)
(* failed; and the bound on the dead-letter list, for finitely many        *)
(* consumers.                                                              *)
(***************************************************************************)
EXTENDS RedisConsumer, SequenceTheorems, FiniteSetTheorems, TLAPS

-----------------------------------------------------------------------------
(* What the commands of Redis do to lists.                                 *)

\* The last item and the ones before it make up a list.
LEMMA FrontLast ==
    ASSUME NEW S, NEW p \in Seq(S), p # <<>>
    PROVE  /\ Front(p) \in Seq(S)
           /\ Last(p) \in S
           /\ p = Front(p) \o <<Last(p)>>
  <1>1. Len(p) \in 1..Len(p) /\ p[Len(p)] \in S
    BY EmptySeq, ElementOfSeq, LenProperties
  <1>2. SubSeq(p, 1, Len(p)) = SubSeq(p, 1, Len(p) - 1) \o <<p[Len(p)]>>
    BY <1>1, SubSeqRecursiveSecond
  <1>3. SubSeq(p, 1, Len(p) - 1) \in Seq(S)
    BY <1>1, SubSeqProperties, ElementOfSeq
  <1> QED
    BY <1>1, <1>2, <1>3, SubSeqFull DEF Front, Last

\* Moving an item back to its queue keeps the line of pending and ready items.
LEMMA MoveBackKeepsLine ==
    ASSUME NEW S, NEW p \in Seq(S), NEW r \in Seq(S), p # <<>>
    PROVE  /\ Front(p) \in Seq(S)
           /\ <<Last(p)>> \o r \in Seq(S)
           /\ Front(p) \o (<<Last(p)>> \o r) = p \o r
  <1>1. Front(p) \in Seq(S) /\ <<Last(p)>> \in Seq(S)
    <2>1. Front(p) \in Seq(S) /\ Last(p) \in S
      BY FrontLast
    <2>2. \A x \in S : <<x>> \in Seq(S)
      OBVIOUS
    <2> QED
      BY <2>1, <2>2
  <1>2. (Front(p) \o <<Last(p)>>) \o r = Front(p) \o (<<Last(p)>> \o r)
    BY <1>1, ConcatAssociative
  <1> QED
    BY <1>1, <1>2, FrontLast, ConcatProperties

\* So does claiming one.
LEMMA TakeHeadKeepsLine ==
    ASSUME NEW S, NEW p \in Seq(S), NEW r \in Seq(S), r # <<>>
    PROVE  /\ Append(p, Head(r)) \in Seq(S)
           /\ Tail(r) \in Seq(S)
           /\ Append(p, Head(r)) \o Tail(r) = p \o r
  <1>1. /\ Head(r) \in S
        /\ Tail(r) \in Seq(S)
        /\ r = <<Head(r)>> \o Tail(r)
    OBVIOUS
  <1> QED
    BY <1>1, AppendIsConcat, AppendProperties, ConcatAssociative

\* A set of natural numbers has a least one: the intervals 1..k of its members
\* are ordered by inclusion, which is well founded on finite sets.
LEMMA LeastNumber ==
    ASSUME NEW I \in SUBSET Nat, I # {}
    PROVE  Min(I) \in I
  <1> DEFINE T == {1..k : k \in I}
             R == StrictSubsetOrdering(Nat)
  <1>1. T \subseteq FiniteSubsetsOf(Nat) /\ T # {}
    <2>1. ASSUME NEW k \in I PROVE 1..k \in FiniteSubsetsOf(Nat)
      <3>1. IsFiniteSet(1..k)
        BY FS_Interval
      <3> QED
        BY <3>1 DEF FiniteSubsetsOf
    <2> QED
      BY <2>1
  <1>2. IsWellFoundedOn(R, FiniteSubsetsOf(Nat))
    BY FS_StrictSubsetOrderingWellFounded
  <1>3. PICK t \in T : \A u \in T : ~(<<u, t>> \in R)
    <2> HIDE DEF T, R
    <2> QED BY <1>1, <1>2, WFMin
  <1>4. PICK k \in I : t = 1..k
    OBVIOUS
  <1>5. ASSUME NEW n \in I, n < k PROVE FALSE
    <2>1. k \in 1..k /\ k \notin 1..n /\ 1..n \subseteq 1..k
      BY <1>5
    <2>2. <<1..n, 1..k>> \in R
      BY <2>1 DEF StrictSubsetOrdering
    <2> QED
      BY <1>3, <1>4, <2>2
  <1>6. \A n \in I : k <= n
    BY <1>5
  <1> QED
    BY <1>6 DEF Min

\* LREM removes one occurrence of the item, or nothing.
LEMMA RemoveFirstRemoves ==
    ASSUME NEW S, NEW p \in Seq(S), NEW j
    PROVE  \/ RemoveFirst(p, j) = p
           \/ \E i \in 1..Len(p) : p[i] = j /\ RemoveFirst(p, j) = RemoveAt(p, i)
  <1> DEFINE I == {i \in 1..Len(p) : p[i] = j}
  <1>1. CASE I = {}
    BY <1>1 DEF RemoveFirst
  <1>2. CASE I # {}
    <2>1. I \in SUBSET Nat
      OBVIOUS
    <2>2. \A J \in SUBSET Nat : J # {} => Min(J) \in J
      BY LeastNumber
    <2>3. Min(I) \in I
      BY <1>2, <2>1, <2>2
    <2>4. RemoveFirst(p, j) = RemoveAt(p, Min(I))
      BY <1>2 DEF RemoveFirst, SelectInSeq
    <2> QED
      BY <2>3, <2>4
  <1> QED
    BY <1>1, <1>2

\* Removing a pending item removes it from the line.
LEMMA RemoveAtConcat ==
    ASSUME NEW S, NEW p \in Seq(S), NEW r \in Seq(S), NEW i \in 1..Len(p)
    PROVE  /\ RemoveAt(p, i) \in Seq(S)
           /\ i \in 1..Len(p \o r)
           /\ (p \o r)[i] = p[i]
           /\ RemoveAt(p, i) \o r = RemoveAt(p \o r, i)
  <1> DEFINE a == SubSeq(p, 1, i - 1)
             b == SubSeq(p, i + 1, Len(p))
             c == SubSeq(p \o r, i + 1, Len(p \o r))
  <1>1. /\ p \o r \in Seq(S)
        /\ Len(p \o r) = Len(p) + Len(r)
        /\ \A k \in 1..Len(p) + Len(r) :
              (p \o r)[k] = IF k <= Len(p) THEN p[k] ELSE r[k - Len(p)]
    BY ConcatProperties
  <1>2. /\ a \in Seq(S) /\ Len(a) = i - 1
        /\ \A k \in 1..i-1 : a[k] = p[k]
    BY SubSeqProperties, ElementOfSeq
  <1>3. /\ b \in Seq(S) /\ Len(b) = Len(p) - i
        /\ \A k \in 1..Len(p)-i : b[k] = p[k + i]
    BY SubSeqProperties, ElementOfSeq
  <1>4. /\ c \in Seq(S) /\ Len(c) = Len(p) + Len(r) - i
        /\ \A k \in 1..Len(p)+Len(r)-i : c[k] = (p \o r)[k + i]
    BY <1>1, SubSeqProperties, ElementOfSeq
  <1>5. SubSeq(p \o r, 1, i - 1) = a
    BY <1>1, <1>2, SubSeqProperties, ElementOfSeq, SeqEqual
  <1> HIDE DEF a, b, c
  <1>6. /\ b \o r \in Seq(S)
        /\ Len(b \o r) = Len(c)
        /\ \A k \in 1..Len(c) : (b \o r)[k] = c[k]
    <2>1. /\ b \o r \in Seq(S)
          /\ Len(b \o r) = Len(p) - i + Len(r)
          /\ \A k \in 1..Len(p) - i + Len(r) :
                (b \o r)[k] = IF k <= Len(p) - i THEN b[k]
                               ELSE r[k - (Len(p) - i)]
      <3>1. b \in Seq(S) /\ Len(b) = Len(p) - i
        BY <1>3
      <3>2. /\ b \o r \in Seq(S)
            /\ Len(b \o r) = Len(b) + Len(r)
            /\ \A k \in 1..Len(b) + Len(r) :
                  (b \o r)[k] = IF k <= Len(b) THEN b[k] ELSE r[k - Len(b)]
        BY <3>1, ConcatProperties
      <3> QED
        BY <3>1, <3>2
    <2>2. Len(p) \in Nat /\ Len(r) \in Nat
      BY LenProperties
    <2>3. ASSUME NEW k \in 1..Len(c) PROVE (b \o r)[k] = c[k]
      <3>1. /\ k + i \in 1..Len(p) + Len(r)
            /\ c[k] = (p \o r)[k + i]
        BY <1>4, <2>2
      <3>2. CASE k <= Len(p) - i
        BY <1>1, <1>3, <1>4, <2>1, <2>2, <3>1, <3>2
      <3>3. CASE k > Len(p) - i
        <4>1. k + i > Len(p) /\ k + i - Len(p) = k - (Len(p) - i)
          BY <2>2, <3>3
        <4>2. c[k] = r[k + i - Len(p)]
          BY <1>1, <2>2, <3>1, <4>1
        <4> QED
          BY <1>4, <2>1, <2>2, <3>3, <4>1, <4>2
      <3>4. k <= Len(p) - i \/ k > Len(p) - i
        BY <2>2
      <3> QED
        BY <3>2, <3>3, <3>4
    <2> QED
      BY <1>4, <2>1, <2>2, <2>3
  <1>7. b \o r = c
    BY <1>4, <1>6, SeqEqual
  <1>8. (a \o b) \o r = a \o c
    <2>1. a \in Seq(S) /\ b \in Seq(S)
      BY <1>2, <1>3
    <2>3. (a \o b) \o r = a \o (b \o r)
      BY <2>1
    <2> QED
      BY <2>3, <1>7
  <1>9. RemoveAt(p, i) = a \o b /\ RemoveAt(p \o r, i) = a \o c
    BY <1>5 DEF RemoveAt, a, b, c
  <1>10. a \o b \in Seq(S)
    BY <1>2, <1>3, ConcatProperties
  <1>11. i \in 1..Len(p \o r) /\ (p \o r)[i] = p[i]
    BY <1>1, LenProperties
  <1> QED
    BY <1>8, <1>9, <1>10, <1>11

\* An item that joins a queue joins the line's end.
LEMMA JoinKeepsLine ==
    ASSUME NEW S, NEW p \in Seq(S), NEW r \in Seq(S), NEW j \in S
    PROVE  /\ Append(r, j) \in Seq(S)
           /\ p \o Append(r, j) = Append(p \o r, j)
  <1>1. Append(r, j) = r \o <<j>> /\ Append(p \o r, j) = (p \o r) \o <<j>>
    BY AppendIsConcat, ConcatProperties
  <1>2. <<j>> \in Seq(S)
    OBVIOUS
  <1>3. (p \o r) \o <<j>> = p \o (r \o <<j>>)
    BY <1>2
  <1> QED
    BY <1>1, <1>3, AppendProperties

-----------------------------------------------------------------------------
(* The inductive invariant.                                                *)

InHand == {"work", "letter", "trim", "return", "remove"}

\* A consumer that works has an item, the one it is about to remove is settled
\* and the one whose letter it is about to trim was written.
Sound(x, written, ended) ==
    /\ x \in Consumer
    /\ x.pc \in InHand => x.job \in Jobs
    /\ x.pc = "trim" => x.job \in written
    /\ x.pc = "remove" => x.job \in ended

ConsumersSound ==
    /\ consumer \in [Consumers -> Consumer]
    /\ \A c \in Consumers : Sound(consumer[c], lettered, Settled)

ConsumerInv == TypeOK /\ ConsumersSound

ListsTyped == ready \in [Queues -> Seq(Jobs)] /\ pending \in [Queues -> Seq(Jobs)]

\* A consumer that goes down or back to polling is sound.
LEMMA DownSound ==
    ASSUME NEW written, NEW ended
    PROVE  /\ Sound(Down, written, ended)
           /\ Sound([Down EXCEPT !.pc = "poll"], written, ended)
           /\ Sound([Down EXCEPT !.pc = "recover"], written, ended)
  <1>1. 1 \in Queues
    BY ConsumerAssumption DEF Queues
  <1> QED
    BY <1>1 DEF Sound, Down, Consumer, Place, InHand

\* The step of one consumer leaves the others sound, as what is settled or
\* written stays so.
LEMMA ReplaceSound ==
    ASSUME ConsumersSound, NEW c \in Consumers, NEW x,
           Sound(x, lettered', Settled'), consumer' = [consumer EXCEPT ![c] = x],
           Settled \subseteq Settled', lettered \subseteq lettered'
    PROVE  ConsumersSound'
  BY DEF ConsumersSound, Sound

LEMMA UnchangedSound ==
    ASSUME ConsumersSound, UNCHANGED consumer,
           Settled \subseteq Settled', lettered \subseteq lettered'
    PROVE  ConsumersSound'
  BY DEF ConsumersSound, Sound

LEMMA LoopSound ==
    ASSUME ConsumersSound, NEW c \in Consumers, Loop(c),
           Settled \subseteq Settled', lettered \subseteq lettered'
    PROVE  ConsumersSound'
  <1> DEFINE x == IF consumer[c].stopping THEN Down ELSE [Down EXCEPT !.pc = "poll"]
  <1>1. consumer' = [consumer EXCEPT ![c] = x]
    BY DEF Loop
  <1>2. Sound(x, lettered', Settled')
    BY DownSound
  <1> HIDE DEF x
  <1> QED
    BY <1>1, <1>2, ReplaceSound

\* Going on to another place with the same item.
LEMMA GotoSound ==
    ASSUME ConsumersSound, NEW c \in Consumers, NEW pc \in InHand, Goto(c, pc),
           consumer[c].pc \in InHand,
           pc = "trim" => Job(c) \in lettered',
           pc = "remove" => Job(c) \in Settled',
           Settled \subseteq Settled', lettered \subseteq lettered'
    PROVE  ConsumersSound'
  <1> DEFINE x == [consumer[c] EXCEPT !.pc = pc]
  <1>1. consumer' = [consumer EXCEPT ![c] = x]
    BY DEF Goto
  <1>2. x \in Consumer /\ x.pc = pc /\ x.job = consumer[c].job
    BY DEF ConsumersSound, Consumer, Place, InHand
  <1>3. consumer[c].job \in Jobs
    BY DEF ConsumersSound, Sound
  <1>4. Sound(x, lettered', Settled')
    BY <1>2, <1>3 DEF Sound, Job
  <1> HIDE DEF x
  <1> QED
    BY <1>1, <1>4, ReplaceSound

-----------------------------------------------------------------------------
(* What the actions do to the lists and to the settled items.              *)

LEMMA MoveBackLists ==
    ASSUME ListsTyped, NEW q \in Queues, MoveBack(q)
    PROVE  ListsTyped' /\ TheLine' = TheLine
  <1>1. CASE pending[q] = <<>>
    BY <1>1 DEF MoveBack, lists, ListsTyped, TheLine
  <1>2. CASE pending[q] # <<>>
    <2> DEFINE p == Front(pending[q])
               r == <<Last(pending[q])>> \o ready[q]
    <2>1. p \in Seq(Jobs) /\ r \in Seq(Jobs) /\ p \o r = pending[q] \o ready[q]
      BY SMTT(30), <1>2, MoveBackKeepsLine DEF ListsTyped
    <2>2. pending' = [pending EXCEPT ![q] = p] /\ ready' = [ready EXCEPT ![q] = r]
      BY <1>2 DEF MoveBack
    <2> HIDE DEF p, r
    <2>3. ListsTyped'
      BY <2>1, <2>2 DEF ListsTyped
    <2>4. \A k \in Queues : pending'[k] \o ready'[k] = pending[k] \o ready[k]
      BY <2>1, <2>2 DEF ListsTyped
    <2> QED
      BY <2>3, <2>4 DEF TheLine
  <1> QED
    BY <1>1, <1>2

LEMMA TakeHeadLists ==
    ASSUME ListsTyped, NEW q \in Queues, TakeHead(q)
    PROVE  ListsTyped' /\ TheLine' = TheLine
  <1> DEFINE p == Append(pending[q], Head(ready[q]))
             r == Tail(ready[q])
  <1>1. p \in Seq(Jobs) /\ r \in Seq(Jobs) /\ p \o r = pending[q] \o ready[q]
    BY TakeHeadKeepsLine DEF ListsTyped, TakeHead
  <1>2. pending' = [pending EXCEPT ![q] = p] /\ ready' = [ready EXCEPT ![q] = r]
    BY DEF TakeHead
  <1> HIDE DEF p, r
  <1>3. ListsTyped'
    BY <1>1, <1>2 DEF ListsTyped
  <1>4. \A k \in Queues : pending'[k] \o ready'[k] = pending[k] \o ready[k]
    BY <1>1, <1>2 DEF ListsTyped
  <1> QED
    BY <1>3, <1>4 DEF TheLine

\* A change of one queue's lists changes that queue's line.
LEMMA LineReplaced ==
    ASSUME NEW q \in Queues, NEW x, pending'[q] \o ready'[q] = x,
           \A k \in Queues \ {q} : pending'[k] \o ready'[k] = pending[k] \o ready[k]
    PROVE  TheLine' = [TheLine EXCEPT ![q] = x]
  <1>1. \A k \in Queues : TheLine'[k] = IF k = q THEN x ELSE TheLine[k]
    BY DEF TheLine
  <1>2. /\ TheLine = [k \in Queues |-> TheLine[k]]
        /\ TheLine' = [k \in Queues |-> TheLine'[k]]
    BY DEF TheLine
  <1> HIDE DEF TheLine
  <1> QED
    BY <1>1, <1>2

LEMMA LREMLists ==
    ASSUME ListsTyped, NEW q \in Queues, NEW j, UNCHANGED ready,
           pending' = [pending EXCEPT ![q] = RemoveFirst(@, j)]
    PROVE  /\ ListsTyped'
           /\ \/ TheLine' = TheLine
              \/ \E i \in 1..Len(TheLine[q]) :
                    /\ TheLine[q][i] = j
                    /\ TheLine' = [TheLine EXCEPT ![q] = RemoveAt(@, i)]
  <1>1. /\ pending[q] \in Seq(Jobs) /\ ready[q] \in Seq(Jobs)
        /\ TheLine[q] = pending[q] \o ready[q]
    BY DEF ListsTyped, TheLine
  <1>2. CASE RemoveFirst(pending[q], j) = pending[q]
    <2>1. pending' = pending
      BY <1>2 DEF ListsTyped
    <2> QED
      BY <2>1 DEF ListsTyped, TheLine
  <1>3. CASE \E i \in 1..Len(pending[q]) :
                pending[q][i] = j /\ RemoveFirst(pending[q], j) = RemoveAt(pending[q], i)
    <2>1. PICK i \in 1..Len(pending[q]) :
              pending[q][i] = j /\ RemoveFirst(pending[q], j) = RemoveAt(pending[q], i)
      BY <1>3
    <2> DEFINE p == RemoveAt(pending[q], i)
    <2>2. /\ p \in Seq(Jobs)
          /\ i \in 1..Len(TheLine[q]) /\ TheLine[q][i] = j
          /\ p \o ready[q] = RemoveAt(TheLine[q], i)
      <3>1. /\ p \in Seq(Jobs)
            /\ i \in 1..Len(pending[q] \o ready[q])
            /\ (pending[q] \o ready[q])[i] = pending[q][i]
            /\ p \o ready[q] = RemoveAt(pending[q] \o ready[q], i)
        <4>1. \A x \in Seq(Jobs), y \in Seq(Jobs) : \A k \in 1..Len(x) :
                 /\ RemoveAt(x, k) \in Seq(Jobs)
                 /\ k \in 1..Len(x \o y)
                 /\ (x \o y)[k] = x[k]
                 /\ RemoveAt(x, k) \o y = RemoveAt(x \o y, k)
          BY RemoveAtConcat
        <4> QED
          BY <1>1, <4>1
      <3> QED
        BY <1>1, <2>1, <3>1
    <2>3. pending' = [pending EXCEPT ![q] = p]
      BY <2>1
    <2> HIDE DEF p
    <2>4. ListsTyped'
      BY <2>2, <2>3 DEF ListsTyped
    <2>5. /\ pending'[q] \o ready'[q] = p \o ready[q]
          /\ \A k \in Queues \ {q} : pending'[k] \o ready'[k] = pending[k] \o ready[k]
      BY <2>2, <2>3 DEF ListsTyped
    <2>6. TheLine' = [TheLine EXCEPT ![q] = RemoveAt(@, i)]
      BY <2>2, <2>5, LineReplaced
    <2> QED
      BY <2>2, <2>4, <2>6
  <1> QED
    BY <1>1, <1>2, <1>3, RemoveFirstRemoves

LEMMA RPUSHLists ==
    ASSUME ListsTyped, NEW q \in Queues, NEW j \in Jobs, UNCHANGED pending,
           ready' = [ready EXCEPT ![q] = Append(@, j)]
    PROVE  ListsTyped' /\ TheLine' = [TheLine EXCEPT ![q] = Append(@, j)]
  <1> DEFINE r == Append(ready[q], j)
  <1>1. /\ r \in Seq(Jobs)
        /\ pending[q] \o r = Append(pending[q] \o ready[q], j)
    BY JoinKeepsLine DEF ListsTyped
  <1>2. ready' = [ready EXCEPT ![q] = r]
    OBVIOUS
  <1> HIDE DEF r
  <1>3. ListsTyped'
    BY <1>1, <1>2 DEF ListsTyped
  <1>4. /\ pending'[q] \o ready'[q] = pending[q] \o r
        /\ \A k \in Queues \ {q} : pending'[k] \o ready'[k] = pending[k] \o ready[k]
    BY <1>1, <1>2 DEF ListsTyped
  <1>5. TheLine[q] = pending[q] \o ready[q]
    BY DEF TheLine
  <1>6. TheLine' = [TheLine EXCEPT ![q] = pending[q] \o r]
    BY <1>4, LineReplaced
  <1> HIDE DEF TheLine
  <1> QED
    BY <1>1, <1>3, <1>5, <1>6

\* What is settled depends on two variables, and only grows.
LEMMA SettledSame ==
    ASSUME UNCHANGED <<record, lettered>>
    PROVE  Settled' = Settled
  BY DEF Settled

LEMMA RecordingSettles ==
    ASSUME record \in [Jobs -> Record], NEW j \in Jobs, record[j] = "open",
           NEW r \in {"reported", "cancelled", "superseded"}, RecordAs(j, r),
           UNCHANGED lettered
    PROVE  record' \in [Jobs -> Record] /\ Settled' = Settled \cup {j}
  BY DEF RecordAs, Settled, Record

LEMMA LetterSettles ==
    ASSUME NEW j, UNCHANGED record, lettered' = lettered \cup {j}
    PROVE  Settled' = Settled \cup {j}
  BY DEF Settled

-----------------------------------------------------------------------------
(* How the steps of the consumers map to those of the line.                *)

LineStep == [Line!Next]_(Line!vars)

LEMMA LineStutters ==
    ASSUME UNCHANGED <<TheLine, Settled>>
    PROVE  LineStep
  BY DEF LineStep, Line!vars

LEMMA LineSettles ==
    ASSUME NEW j \in Jobs, UNCHANGED TheLine, Settled' = Settled \cup {j}
    PROVE  LineStep
  BY DEF LineStep, Line!Next, Line!Settle

LEMMA LineJoins ==
    ASSUME NEW q \in Queues, NEW j \in Jobs, UNCHANGED Settled,
           TheLine' = [TheLine EXCEPT ![q] = Append(@, j)]
    PROVE  LineStep
  BY DEF LineStep, Line!Next, Line!Join

LEMMA LineLeaves ==
    ASSUME NEW q \in Queues, NEW i \in 1..Len(TheLine[q]), UNCHANGED Settled,
           TheLine[q][i] \in Settled,
           TheLine' = [TheLine EXCEPT ![q] = RemoveAt(@, i)]
    PROVE  LineStep
  BY DEF LineStep, Line!Next, Line!Leave, Line!RemoveAt, RemoveAt

-----------------------------------------------------------------------------
(* Each action preserves the invariant and is a step of the line.          *)

DataTyped ==
    /\ form \in [Jobs -> AllForms]
    /\ record \in [Jobs -> Record]
    /\ deadLetters \in Seq(Jobs)
    /\ lettered \subseteq Jobs
    /\ failures \in 0..MaxFailures
    /\ interruptions \in 0..MaxInterruptions
    /\ lostClaims \in 0..MaxLostClaims

LEMMA InvParts == ConsumerInv <=> DataTyped /\ ListsTyped /\ ConsumersSound
  BY DEF ConsumerInv, TypeOK, DataTyped, ListsTyped, ConsumersSound

LEMMA InvPartsNext ==
    ASSUME DataTyped', ListsTyped', ConsumersSound'
    PROVE  ConsumerInv'
  BY DEF ConsumerInv, TypeOK, DataTyped, ListsTyped, ConsumersSound

FailuresStep ==
    \/ UNCHANGED failures
    \/ failures < MaxFailures /\ failures' = failures + 1

\* A failure, an interruption or a lost claim is within its bound.
LEMMA CountsTyped ==
    ASSUME DataTyped, UNCHANGED <<form, record, deadLetters, lettered>>,
           FailuresStep,
           \/ UNCHANGED interruptions
           \/ interruptions < MaxInterruptions /\ interruptions' = interruptions + 1,
           \/ UNCHANGED lostClaims
           \/ lostClaims < MaxLostClaims /\ lostClaims' = lostClaims + 1
    PROVE  DataTyped'
  BY ConsumerAssumption DEF DataTyped, FailuresStep

\* A step that touches neither lists nor what is settled.
LEMMA QuietStep ==
    ASSUME ConsumerInv, DataTyped', ConsumersSound', UNCHANGED <<record, lists, lettered>>
    PROVE  ConsumerInv' /\ LineStep
  <1>1. ListsTyped' /\ UNCHANGED TheLine
    BY InvParts DEF ListsTyped, TheLine, lists
  <1>2. UNCHANGED Settled
    BY SettledSame
  <1> QED
    BY <1>1, <1>2, InvPartsNext, LineStutters

LEMMA StartStep ==
    ASSUME ConsumerInv, NEW c \in Consumers, Start(c)
    PROVE  ConsumerInv' /\ LineStep
  <1>1. DataTyped'
    BY InvParts, CountsTyped DEF Start, letterVars, FailuresStep
  <1>2. ConsumersSound'
    <2>1. Sound([Down EXCEPT !.pc = "recover"], lettered', Settled')
      BY DownSound
    <2> DEFINE x == [Down EXCEPT !.pc = "recover"]
    <2>2. consumer' = [consumer EXCEPT ![c] = x]
      BY DEF Start
    <2> HIDE DEF x
    <2> QED
      BY <2>1, <2>2, InvParts, SettledSame, ReplaceSound DEF Start, letterVars, x
  <1> QED
    BY <1>1, <1>2, QuietStep DEF Start, letterVars

\* The place, queue and item of a consumer.
LEMMA InHandTyped ==
    ASSUME ConsumersSound, NEW c \in Consumers
    PROVE  /\ consumer[c] \in Consumer
           /\ Queue(c) \in Queues
           /\ consumer[c].pc \in InHand => Job(c) \in Jobs
           /\ consumer[c].pc = "remove" => Job(c) \in Settled
           /\ consumer[c].pc = "trim" => Job(c) \in lettered
  BY DEF ConsumersSound, Sound, Consumer, Queue, Job

\* Polling or recovering the next queue.
LEMMA NextQueueSound ==
    ASSUME ConsumersSound, NEW c \in Consumers, Queue(c) < NumQueues,
           consumer[c].pc \in {"poll", "recover"},
           consumer' = [consumer EXCEPT ![c].q = @ + 1],
           Settled' = Settled, lettered' = lettered
    PROVE  ConsumersSound'
  <1> DEFINE x == [consumer[c] EXCEPT !.q = @ + 1]
  <1>1. consumer' = [consumer EXCEPT ![c] = x]
    OBVIOUS
  <1>2. consumer[c] \in Consumer
    BY InHandTyped
  <1>3. consumer[c].q + 1 \in Queues
    BY <1>2, ConsumerAssumption DEF Consumer, Queues, Queue
  <1>4. x \in Consumer /\ x.pc = consumer[c].pc
    BY <1>2, <1>3 DEF Consumer
  <1>5. Sound(x, lettered', Settled')
    BY <1>4 DEF Sound, InHand
  <1> HIDE DEF x
  <1> QED
    BY <1>1, <1>5, ReplaceSound

LEMMA FailToClaimStep ==
    ASSUME ConsumerInv, NEW c \in Consumers, FailToClaim(c)
    PROVE  ConsumerInv' /\ LineStep
  <1>1. UNCHANGED <<form, record, lists, deadLetters, lettered>>
    BY DEF FailToClaim, letterVars
  <1>2. DataTyped'
    BY <1>1, InvParts, CountsTyped DEF FailToClaim, Fail, FailuresStep
  <1>3. ConsumersSound'
    BY <1>1, InvParts, SettledSame, LoopSound DEF FailToClaim
  <1> QED
    BY <1>1, <1>2, <1>3, QuietStep

LEMMA PollNextStep ==
    ASSUME ConsumerInv, NEW c \in Consumers, PollNext(c)
    PROVE  ConsumerInv' /\ LineStep
  <1>1. UNCHANGED <<form, record, lists, deadLetters, lettered>>
    BY DEF PollNext, letterVars
  <1>2. DataTyped'
    BY <1>1, InvParts, CountsTyped DEF PollNext, FailuresStep
  <1>3. ConsumersSound /\ UNCHANGED <<Settled, lettered>>
    BY <1>1, InvParts, SettledSame
  <1>4. CASE Queue(c) < NumQueues
    BY <1>1, <1>2, <1>3, <1>4, NextQueueSound, QuietStep DEF PollNext, At
  <1>5. CASE ~(Queue(c) < NumQueues)
    BY <1>1, <1>2, <1>3, <1>5, LoopSound, QuietStep DEF PollNext
  <1> QED
    BY <1>4, <1>5

\* Going on with the item after a step that settles nothing.
LEMMA GotoStep ==
    ASSUME ConsumerInv, NEW c \in Consumers, NEW pc \in InHand, Goto(c, pc),
           consumer[c].pc \in InHand,
           pc = "trim" => Job(c) \in lettered,
           pc = "remove" => Job(c) \in Settled,
           UNCHANGED <<record, lists, lettered>>, DataTyped'
    PROVE  ConsumerInv' /\ LineStep
  <1>1. UNCHANGED Settled
    BY SettledSame
  <1>2. ConsumersSound'
    BY <1>1, InvParts, GotoSound
  <1> QED
    BY <1>2, QuietStep

LEMMA RejectedStep ==
    ASSUME ConsumerInv, NEW c \in Consumers, Rejected(c)
    PROVE  ConsumerInv' /\ LineStep
  <1>1. UNCHANGED <<form, record, lists, deadLetters, lettered>>
    BY DEF Rejected, letterVars
  <1>2. DataTyped'
    BY <1>1, InvParts, CountsTyped DEF Rejected, FailuresStep
  <1>3. consumer[c].pc \in InHand
    BY DEF Rejected, At, InHand
  <1>4. Goto(c, "return") \/ Goto(c, "letter")
    BY DEF Rejected
  <1>5. CASE Goto(c, "return")
    BY <1>1, <1>2, <1>3, <1>5, GotoStep DEF InHand
  <1>6. CASE Goto(c, "letter")
    BY <1>1, <1>2, <1>3, <1>6, GotoStep DEF InHand
  <1> QED
    BY <1>4, <1>5, <1>6

LEMMA FailToWorkStep ==
    ASSUME ConsumerInv, NEW c \in Consumers, FailToWork(c)
    PROVE  ConsumerInv' /\ LineStep
  <1>1. UNCHANGED <<form, record, lists, deadLetters, lettered>>
    BY DEF FailToWork, letterVars
  <1>2. DataTyped'
    BY <1>1, InvParts, CountsTyped DEF FailToWork, Fail, FailuresStep
  <1> QED
    BY <1>1, <1>2, GotoStep DEF FailToWork, At, InHand

\* A trimmed list of items is a list of items.
LEMMA TrimmedTyped ==
    ASSUME DataTyped
    PROVE  Trimmed \in Seq(Jobs)
  <1> DEFINE m == IF Len(deadLetters) <= DeadLetterLimit
                  THEN Len(deadLetters) ELSE DeadLetterLimit
  <1>1. deadLetters \in Seq(Jobs) /\ Len(deadLetters) \in Nat
    BY LenProperties DEF DataTyped
  <1>2. m \in Nat /\ m <= Len(deadLetters)
    BY <1>1, ConsumerAssumption
  <1>3. Trimmed = SubSeq(deadLetters, 1, m)
    BY DEF Trimmed
  <1> HIDE DEF m
  <1>4. \A i \in 1..m : deadLetters[i] \in Jobs
    BY <1>1, <1>2, ElementOfSeq
  <1> QED
    BY <1>2, <1>3, <1>4, SubSeqProperties

LEMMA FailToLetterStep ==
    ASSUME ConsumerInv, NEW c \in Consumers, FailToLetter(c)
    PROVE  ConsumerInv' /\ LineStep
  <1>1. /\ UNCHANGED <<form, record, lists, lettered, interruptions, lostClaims>>
        /\ consumer[c].pc \in InHand
        /\ deadLetters' \in {deadLetters, Trimmed}
    BY DEF FailToLetter, At, InHand
  <1>2. DataTyped'
    BY <1>1, InvParts, TrimmedTyped, ConsumerAssumption DEF DataTyped, Fail, FailToLetter
  <1> QED
    BY <1>1, <1>2, GotoStep DEF FailToLetter, InHand

LEMMA TrimLettersStep ==
    ASSUME ConsumerInv, NEW c \in Consumers, TrimLetters(c)
    PROVE  ConsumerInv' /\ LineStep
  <1>1. UNCHANGED <<form, record, lists, lettered, failures, interruptions, lostClaims>>
    BY DEF TrimLetters
  <1>2. DataTyped'
    BY <1>1, InvParts, TrimmedTyped DEF DataTyped, TrimLetters
  <1>3. Job(c) \in Settled
    BY InvParts, InHandTyped DEF TrimLetters, At, Settled, DataTyped
  <1> QED
    BY <1>1, <1>2, <1>3, GotoStep DEF TrimLetters, At, InHand

\* A step that moves an item within its line.
LEMMA MovingStep ==
    ASSUME ConsumerInv, ListsTyped', UNCHANGED TheLine, ConsumersSound', DataTyped',
           UNCHANGED <<record, lettered>>
    PROVE  ConsumerInv' /\ LineStep
  BY InvPartsNext, SettledSame, LineStutters

LEMMA RecoverStep ==
    ASSUME ConsumerInv, NEW c \in Consumers, Recover(c)
    PROVE  ConsumerInv' /\ LineStep
  <1>1. UNCHANGED <<form, record, deadLetters, lettered>>
    BY DEF Recover, letterVars
  <1>2. DataTyped'
    BY <1>1, InvParts, CountsTyped DEF Recover, FailuresStep
  <1>3. ConsumersSound /\ UNCHANGED <<Settled, lettered>> /\ Queue(c) \in Queues
    BY <1>1, InvParts, SettledSame, InHandTyped
  <1>4. ListsTyped' /\ UNCHANGED TheLine
    BY <1>3, InvParts, MoveBackLists DEF Recover
  <1>5. ConsumersSound'
    <2>1. CASE UNCHANGED consumer
      BY <1>3, <2>1, UnchangedSound
    <2>2. CASE /\ Queue(c) < NumQueues
               /\ consumer' = [consumer EXCEPT ![c].q = @ + 1]
      BY <1>3, <2>2, NextQueueSound DEF Recover, At
    <2>3. CASE Loop(c)
      BY <1>3, <2>3, LoopSound
    <2> QED
      BY <2>1, <2>2, <2>3 DEF Recover
  <1> QED
    BY <1>1, <1>2, <1>4, <1>5, MovingStep

LEMMA ReturnStep ==
    ASSUME ConsumerInv, NEW c \in Consumers, Return(c)
    PROVE  ConsumerInv' /\ LineStep
  <1>1. UNCHANGED <<form, record, deadLetters, lettered>>
    BY DEF Return, letterVars
  <1>2. DataTyped'
    BY <1>1, InvParts, CountsTyped DEF Return, FailuresStep
  <1>3. ConsumersSound /\ UNCHANGED <<Settled, lettered>> /\ Queue(c) \in Queues
    BY <1>1, InvParts, SettledSame, InHandTyped
  <1>4. ListsTyped' /\ UNCHANGED TheLine
    BY <1>3, InvParts, MoveBackLists DEF Return
  <1>5. ConsumersSound'
    BY <1>3, LoopSound DEF Return
  <1> QED
    BY <1>1, <1>2, <1>4, <1>5, MovingStep

LEMMA LoseClaimStep ==
    ASSUME ConsumerInv, NEW c \in Consumers, LoseClaim(c)
    PROVE  ConsumerInv' /\ LineStep
  <1>1. UNCHANGED <<form, record, deadLetters, lettered>>
    BY DEF LoseClaim, letterVars
  <1>2. DataTyped'
    BY <1>1, InvParts, CountsTyped DEF LoseClaim, FailuresStep
  <1>3. ConsumersSound /\ UNCHANGED <<Settled, lettered>> /\ Queue(c) \in Queues
    BY <1>1, InvParts, SettledSame, InHandTyped
  <1>4. ListsTyped' /\ UNCHANGED TheLine
    BY <1>3, InvParts, TakeHeadLists DEF LoseClaim
  <1>5. ConsumersSound'
    BY <1>3, LoopSound DEF LoseClaim
  <1> QED
    BY <1>1, <1>2, <1>4, <1>5, MovingStep

LEMMA ClaimStep ==
    ASSUME ConsumerInv, NEW c \in Consumers, Claim(c)
    PROVE  ConsumerInv' /\ LineStep
  <1>1. UNCHANGED <<form, record, deadLetters, lettered>>
    BY DEF Claim, letterVars
  <1>2. DataTyped'
    BY <1>1, InvParts, CountsTyped DEF Claim, FailuresStep
  <1>3. ConsumersSound /\ UNCHANGED <<Settled, lettered>> /\ Queue(c) \in Queues
    BY <1>1, InvParts, SettledSame, InHandTyped
  <1>4. ListsTyped' /\ UNCHANGED TheLine
    BY <1>3, InvParts, TakeHeadLists DEF Claim
  <1>5. ConsumersSound'
    <2> DEFINE j == Head(ready[Queue(c)])
               pc == IF form[j] = "nameless" THEN "letter" ELSE "work"
               x == [consumer[c] EXCEPT !.job = j, !.pc = pc]
    <2>1. consumer' = [consumer EXCEPT ![c] = x]
      BY DEF Claim
    <2>2. j \in Jobs
      BY <1>3, InvParts DEF Claim, TakeHead, ListsTyped
    <2>3. pc \in {"letter", "work"}
      OBVIOUS
    <2> HIDE DEF j, pc
    <2>4. x \in Consumer /\ x.job = j /\ x.pc = pc
      BY <1>3, <2>2, <2>3, InHandTyped DEF Consumer, Place
    <2>5. Sound(x, lettered', Settled')
      BY <2>2, <2>3, <2>4 DEF Sound
    <2> HIDE DEF x
    <2> QED
      BY <1>3, <2>1, <2>5, ReplaceSound
  <1> QED
    BY <1>1, <1>2, <1>4, <1>5, MovingStep

\* A consumer that dies.
LEMMA InterruptStep ==
    ASSUME ConsumerInv, NEW c \in Consumers, Interrupt(c)
    PROVE  ConsumerInv' /\ LineStep
  <1>1. UNCHANGED <<form, record, lists, deadLetters, lettered>>
    BY DEF Interrupt, letterVars
  <1>2. DataTyped'
    BY <1>1, InvParts, CountsTyped DEF Interrupt, FailuresStep
  <1>3. Sound(Down, lettered', Settled')
    BY DownSound
  <1>4. ConsumersSound'
    BY <1>1, <1>3, InvParts, SettledSame, ReplaceSound DEF Interrupt
  <1> QED
    BY <1>1, <1>2, <1>4, QuietStep

\* A consumer that is told to stop.
LEMMA StopStep ==
    ASSUME ConsumerInv, NEW c \in Consumers, Stop(c)
    PROVE  ConsumerInv' /\ LineStep
  <1>1. UNCHANGED <<form, record, lists, deadLetters, lettered>>
    BY DEF Stop, letterVars
  <1>2. DataTyped'
    BY <1>1, InvParts, CountsTyped DEF Stop, FailuresStep
  <1> DEFINE x == [consumer[c] EXCEPT !.stopping = TRUE]
  <1>3. consumer' = [consumer EXCEPT ![c] = x]
    BY DEF Stop
  <1>4. ConsumersSound /\ UNCHANGED Settled
    BY <1>1, InvParts, SettledSame
  <1>5. Sound(consumer[c], lettered, Settled)
    BY <1>4 DEF ConsumersSound
  <1>6. Sound(x, lettered', Settled')
    BY <1>1, <1>4, <1>5 DEF Sound, Consumer
  <1> HIDE DEF x
  <1>7. ConsumersSound'
    BY <1>1, <1>3, <1>4, <1>6, ReplaceSound
  <1> QED
    BY <1>1, <1>2, <1>7, QuietStep

-----------------------------------------------------------------------------
(* The actions that settle an item, and those that change the line.        *)

\* A consumer that goes on with an item that it has just settled.
LEMMA SettlingStep ==
    ASSUME ConsumerInv, DataTyped', UNCHANGED lists,
           NEW j \in Jobs, Settled' = Settled \cup {j}, ConsumersSound'
    PROVE  ConsumerInv' /\ LineStep
  <1>1. ListsTyped' /\ UNCHANGED TheLine
    BY InvParts DEF ListsTyped, TheLine, lists
  <1> QED
    BY <1>1, InvPartsNext, LineSettles

LEMMA ReportStep ==
    ASSUME ConsumerInv, NEW c \in Consumers, Report(c)
    PROVE  ConsumerInv' /\ LineStep
  <1>1. /\ UNCHANGED <<form, lists, deadLetters, lettered,
                       failures, interruptions, lostClaims>>
        /\ Goto(c, "remove")
        /\ consumer[c].pc \in InHand
    BY DEF Report, letterVars, At, InHand
  <1>2. ConsumersSound /\ Job(c) \in Jobs /\ record \in [Jobs -> Record]
    BY <1>1, InvParts, InHandTyped DEF DataTyped
  <1>3. CASE record[Job(c)] = "open"
    <2>1. RecordAs(Job(c), "reported")
      BY <1>3 DEF Report
    <2>2. record' \in [Jobs -> Record] /\ Settled' = Settled \cup {Job(c)}
      BY <1>1, <1>2, <1>3, <2>1, RecordingSettles
    <2>3. DataTyped'
      BY <1>1, <2>2, InvParts DEF DataTyped
    <2>4. ConsumersSound'
      BY <1>1, <1>2, <2>2, GotoSound DEF InHand
    <2> QED
      BY <1>1, <1>2, <2>2, <2>3, <2>4, SettlingStep
  <1>4. CASE record[Job(c)] = "cancelled"
    <2>1. UNCHANGED record
      BY <1>4 DEF Report
    <2>2. DataTyped'
      BY <1>1, <2>1, InvParts DEF DataTyped
    <2>3. Job(c) \in Settled
      BY <1>2, <1>4 DEF Settled
    <2> QED
      BY <1>1, <2>1, <2>2, <2>3, GotoStep DEF InHand
  <1> QED
    BY <1>3, <1>4 DEF Report, Reportable

LEMMA ReportUnansweredStep ==
    ASSUME ConsumerInv, NEW c \in Consumers, ReportUnanswered(c)
    PROVE  ConsumerInv' /\ LineStep
  <1>1. /\ UNCHANGED <<form, lists, deadLetters, lettered, interruptions, lostClaims>>
        /\ Fail(c)
        /\ consumer[c].pc \in InHand
        /\ record[Job(c)] = "open"
        /\ RecordAs(Job(c), "reported")
    BY DEF ReportUnanswered, letterVars, At, InHand
  <1>2. ConsumersSound /\ Job(c) \in Jobs /\ record \in [Jobs -> Record]
    BY <1>1, InvParts, InHandTyped DEF DataTyped
  <1>3. record' \in [Jobs -> Record] /\ Settled' = Settled \cup {Job(c)}
    BY <1>1, <1>2, RecordingSettles
  <1>4. DataTyped'
    BY <1>1, <1>3, InvParts, ConsumerAssumption DEF DataTyped, Fail
  <1>5. ConsumersSound'
    <2>1. CASE Goto(c, "return")
      BY <1>1, <1>2, <1>3, <2>1, GotoSound DEF InHand
    <2>2. CASE Goto(c, "letter")
      BY <1>1, <1>2, <1>3, <2>2, GotoSound DEF InHand
    <2> QED
      BY <2>1, <2>2 DEF ReportUnanswered
  <1> QED
    BY <1>1, <1>2, <1>3, <1>4, <1>5, SettlingStep

LEMMA PushLetterStep ==
    ASSUME ConsumerInv, NEW c \in Consumers, PushLetter(c)
    PROVE  ConsumerInv' /\ LineStep
  <1>1. /\ UNCHANGED <<form, record, lists, failures, interruptions, lostClaims>>
        /\ Goto(c, "trim")
        /\ consumer[c].pc \in InHand
        /\ lettered' = lettered \cup {Job(c)}
    BY DEF PushLetter, At, InHand
  <1>2. ConsumersSound /\ Job(c) \in Jobs /\ deadLetters \in Seq(Jobs)
    BY <1>1, InvParts, InHandTyped DEF DataTyped
  <1>3. Settled' = Settled \cup {Job(c)}
    BY <1>1, LetterSettles
  <1>4. deadLetters' \in Seq(Jobs)
    <2>1. <<Job(c)>> \in Seq(Jobs)
      BY <1>2
    <2> QED
      BY <1>2, <2>1, ConcatProperties DEF PushLetter
  <1>5. DataTyped'
    BY <1>1, <1>2, <1>4, InvParts DEF DataTyped
  <1>6. ConsumersSound'
    BY <1>1, <1>2, <1>3, GotoSound DEF InHand
  <1> QED
    BY <1>1, <1>2, <1>3, <1>5, <1>6, SettlingStep

LEMMA CancelStep ==
    ASSUME ConsumerInv, NEW j \in Jobs, Cancel(j)
    PROVE  ConsumerInv' /\ LineStep
  <1>1. UNCHANGED <<form, lists, deadLetters, lettered, consumer,
                    failures, interruptions, lostClaims>>
    BY DEF Cancel, letterVars
  <1>2. PICK r \in {"cancelled", "superseded"} : RecordAs(j, r)
    BY DEF Cancel
  <1>3. record' \in [Jobs -> Record] /\ Settled' = Settled \cup {j}
    BY <1>1, <1>2, InvParts, RecordingSettles DEF Cancel, DataTyped
  <1>4. DataTyped'
    BY <1>1, <1>3, InvParts DEF DataTyped
  <1>5. ConsumersSound'
    BY <1>1, <1>3, InvParts, UnchangedSound
  <1> QED
    BY <1>1, <1>3, <1>4, <1>5, SettlingStep

LEMMA ReleaseStep ==
    ASSUME ConsumerInv, NEW c \in Consumers, Release(c)
    PROVE  ConsumerInv' /\ LineStep
  <1>1. UNCHANGED <<form, record, ready, deadLetters, lettered,
                    failures, interruptions, lostClaims>>
    BY DEF Release, letterVars
  <1>2. /\ ConsumersSound /\ UNCHANGED Settled
        /\ Queue(c) \in Queues /\ Job(c) \in Settled
    BY <1>1, InvParts, SettledSame, InHandTyped DEF Release, At
  <1>3. DataTyped'
    BY <1>1, InvParts DEF DataTyped
  <1>4. ConsumersSound'
    BY <1>1, <1>2, LoopSound DEF Release
  <1>5. /\ ListsTyped'
        /\ \/ UNCHANGED TheLine
           \/ \E i \in 1..Len(TheLine[Queue(c)]) :
                 /\ TheLine[Queue(c)][i] = Job(c)
                 /\ TheLine' = [TheLine EXCEPT ![Queue(c)] = RemoveAt(@, i)]
    BY <1>1, <1>2, InvParts, LREMLists DEF Release
  <1>6. LineStep
    BY <1>2, <1>5, LineStutters, LineLeaves
  <1> QED
    BY <1>3, <1>4, <1>5, <1>6, InvPartsNext

LEMMA EnqueueStep ==
    ASSUME ConsumerInv, NEW j \in Jobs, Enqueue(j)
    PROVE  ConsumerInv' /\ LineStep
  <1>1. /\ UNCHANGED <<form, pending, deadLetters, lettered, consumer,
                       failures, interruptions, lostClaims>>
        /\ record[j] = "none" /\ record' = [record EXCEPT ![j] = "open"]
    BY DEF Enqueue, letterVars, RecordAs
  <1>2. record' \in [Jobs -> Record] /\ UNCHANGED Settled
    BY <1>1, InvParts DEF DataTyped, Record, Settled
  <1>3. DataTyped'
    BY <1>1, <1>2, InvParts DEF DataTyped
  <1>4. ConsumersSound'
    BY <1>1, <1>2, InvParts, UnchangedSound
  <1>5. PICK q \in Queues : ready' = [ready EXCEPT ![q] = Append(@, j)]
    BY DEF Enqueue
  <1>6. ListsTyped' /\ TheLine' = [TheLine EXCEPT ![q] = Append(@, j)]
    BY <1>1, <1>5, InvParts, RPUSHLists
  <1> QED
    BY <1>2, <1>3, <1>4, <1>6, InvPartsNext, LineJoins

-----------------------------------------------------------------------------
(* The theorems.                                                           *)

LEMMA InitSound == Init => ConsumerInv /\ Line!Init
  <1> SUFFICES ASSUME Init PROVE ConsumerInv /\ Line!Init
    OBVIOUS
  <1>1. DataTyped
    BY ConsumerAssumption DEF Init, DataTyped, Record
  <1>2. ListsTyped
    BY DEF Init, ListsTyped
  <1>3. ConsumersSound
    BY DownSound DEF Init, ConsumersSound, Sound
  <1>4. Settled = {}
    BY DEF Init, Settled
  <1>5. TheLine = [q \in Queues |-> <<>>]
    <2>1. \A q \in Queues : pending[q] \o ready[q] = <<>>
      <3>1. ASSUME NEW q \in Queues PROVE pending[q] = <<>> /\ ready[q] = <<>>
        BY DEF Init
      <3>2. <<>> \o <<>> = <<>>
        OBVIOUS
      <3> QED
        BY <3>1, <3>2
    <2> QED
      BY <2>1 DEF TheLine
  <1> QED
    BY <1>1, <1>2, <1>3, <1>4, <1>5, InvParts DEF Line!Init

LEMMA NextSound ==
    ASSUME ConsumerInv, [Next]_vars
    PROVE  ConsumerInv' /\ LineStep
  <1>1. ASSUME NEW c \in Consumers, Step(c) PROVE ConsumerInv' /\ LineStep
    BY <1>1, StartStep, RecoverStep, ClaimStep, LoseClaimStep, FailToClaimStep,
       PollNextStep, ReportStep, ReportUnansweredStep, RejectedStep, FailToWorkStep,
       PushLetterStep, TrimLettersStep, FailToLetterStep, ReturnStep, ReleaseStep
       DEF Step
  <1>2. ASSUME NEW c \in Consumers, Interrupt(c) \/ Stop(c) PROVE ConsumerInv' /\ LineStep
    BY <1>2, InterruptStep, StopStep
  <1>3. ASSUME NEW j \in Jobs, Enqueue(j) \/ Cancel(j) PROVE ConsumerInv' /\ LineStep
    BY <1>3, EnqueueStep, CancelStep
  <1>4. CASE UNCHANGED vars
    <2>1. UNCHANGED <<form, record, lists, deadLetters, lettered, consumer,
                      failures, interruptions, lostClaims>>
      BY <1>4 DEF vars, letterVars
    <2>2. DataTyped' /\ ConsumersSound'
      BY <2>1, InvParts, CountsTyped, SettledSame, UnchangedSound DEF FailuresStep
    <2> QED
      BY <2>1, <2>2, QuietStep
  <1> QED
    BY <1>1, <1>2, <1>3, <1>4 DEF Next

\* The state of the consumers, of their lists and of the Backend's records stays
\* within its types, whatever the consumers are interrupted in.
THEOREM ConsumerTypeCorrect == Spec => []TypeOK
  <1>1. Init => ConsumerInv
    BY InitSound
  <1>2. ConsumerInv /\ [Next]_vars => ConsumerInv'
    BY NextSound
  <1>3. ConsumerInv => TypeOK
    BY DEF ConsumerInv
  <1> QED
    BY <1>1, <1>2, <1>3, PTL DEF Spec

\* Any number of consumers that claim, return, recover, remove, fail and die
\* keep each queue a line: no item leaves it unsettled, and none changes places.
THEOREM ConsumersImplementLine == Spec => ImplementsLine
  <1>1. Init => ConsumerInv /\ Line!Init
    BY InitSound
  <1>2. ConsumerInv /\ [Next]_vars => ConsumerInv' /\ [Line!Next]_(Line!vars)
    BY NextSound DEF LineStep
  <1> QED
    BY <1>1, <1>2, PTL DEF Spec, ImplementsLine, Line!Spec

-----------------------------------------------------------------------------
(* A lone consumer returns the item that failed.                           *)

\* No consumer shares a processing list with another.
LoneConsumer == \A b, c \in Consumers : b = c

\* The item in hand is the last of the pending ones.
HeldIsLast ==
    \A c \in Consumers :
        consumer[c].pc \in InHand => /\ pending[Queue(c)] # <<>>
                                     /\ Last(pending[Queue(c)]) = Job(c)

\* A consumer that has nothing in hand.
LEMMA EmptyHanded ==
    ASSUME LoneConsumer, NEW c \in Consumers, consumer'[c].pc \notin InHand
    PROVE  HeldIsLast'
  BY DEF LoneConsumer, HeldIsLast

LEMMA LoopEmptyHanded ==
    ASSUME ConsumerInv, LoneConsumer, NEW c \in Consumers, Loop(c)
    PROVE  HeldIsLast'
  <1> DEFINE x == IF consumer[c].stopping THEN Down ELSE [Down EXCEPT !.pc = "poll"]
  <1>1. x.pc \in {"down", "poll"}
    BY DEF Down
  <1>2. consumer' = [consumer EXCEPT ![c] = x]
    BY DEF Loop
  <1> HIDE DEF x
  <1>3. consumer'[c] = x
    BY <1>2 DEF ConsumerInv, TypeOK
  <1> QED
    BY <1>1, <1>3, EmptyHanded DEF InHand

\* A consumer that goes on with its item and leaves the pending ones alone.
LEMMA KeepsHolding ==
    ASSUME ConsumerInv, LoneConsumer, HeldIsLast, NEW c \in Consumers, UNCHANGED pending,
           consumer[c].pc \in InHand, NEW pc, Goto(c, pc)
    PROVE  HeldIsLast'
  <1> DEFINE x == [consumer[c] EXCEPT !.pc = pc]
  <1>1. consumer[c] \in Consumer
    BY DEF ConsumerInv, TypeOK
  <1>2. x.q = consumer[c].q /\ x.job = consumer[c].job
    BY <1>1 DEF Consumer
  <1>3. consumer' = [consumer EXCEPT ![c] = x]
    BY DEF Goto
  <1> HIDE DEF x
  <1>4. consumer'[c] = x
    BY <1>3 DEF ConsumerInv, TypeOK
  <1>5. UNCHANGED <<Queue(c), Job(c)>>
    BY <1>2, <1>4 DEF Queue, Job
  <1> QED
    BY <1>5 DEF LoneConsumer, HeldIsLast

\* What is claimed is the last of the pending items.
LEMMA ClaimHolds ==
    ASSUME ConsumerInv, LoneConsumer, NEW c \in Consumers, Claim(c)
    PROVE  HeldIsLast'
  <1> DEFINE j == Head(ready[Queue(c)])
             p == Append(pending[Queue(c)], j)
             pc == IF form[j] = "nameless" THEN "letter" ELSE "work"
             x == [consumer[c] EXCEPT !.job = j, !.pc = pc]
  <1>1. /\ consumer[c] \in Consumer /\ Queue(c) \in Queues
        /\ pending \in [Queues -> Seq(Jobs)] /\ ready \in [Queues -> Seq(Jobs)]
    BY DEF ConsumerInv, TypeOK, Consumer, Queue
  <1>2. j \in Jobs
    <2>1. ready[Queue(c)] \in Seq(Jobs) /\ ready[Queue(c)] # <<>>
      BY <1>1 DEF Claim, TakeHead
    <2> QED
      BY <2>1
  <1>3. p # <<>> /\ Last(p) = j
    <2>1. pending[Queue(c)] \in Seq(Jobs)
      BY <1>1
    <2>2. /\ Len(p) = Len(pending[Queue(c)]) + 1 /\ p[Len(p)] = j
          /\ Len(p) > 0
      BY <1>2, <2>1
    <2> QED
      BY <2>2 DEF Last
  <1>4. consumer' = [consumer EXCEPT ![c] = x]
    BY DEF Claim
  <1>5. pending' = [pending EXCEPT ![Queue(c)] = p]
    BY DEF Claim, TakeHead
  <1> HIDE DEF pc, p, j
  <1>6. x.q = Queue(c) /\ x.job = j
    BY <1>1 DEF Consumer, Queue
  <1> HIDE DEF x
  <1>7. consumer'[c] = x
    BY <1>4 DEF ConsumerInv, TypeOK
  <1>8. Queue(c)' = Queue(c) /\ Job(c)' = j
    BY <1>6, <1>7 DEF Queue, Job
  <1>9. pending'[Queue(c)] = p
    BY <1>1, <1>5
  <1> QED
    BY <1>3, <1>8, <1>9 DEF LoneConsumer, HeldIsLast

\* The other steps of a consumer.
LEMMA StepHolds ==
    ASSUME ConsumerInv, LoneConsumer, HeldIsLast, NEW c \in Consumers, Step(c)
    PROVE  HeldIsLast'
  <1>1. consumer \in [Consumers -> Consumer]
    BY DEF ConsumerInv, TypeOK
  <1>2. CASE Start(c)
    <2>1. consumer'[c].pc = "recover"
      BY <1>1, <1>2 DEF Start, Down
    <2> QED
      BY <2>1, EmptyHanded DEF InHand
  <1>3. CASE consumer[c].pc \in {"recover", "poll"} /\ UNCHANGED consumer
    BY <1>3, EmptyHanded DEF InHand
  <1>4. CASE /\ consumer[c].pc \in {"recover", "poll"}
             /\ consumer' = [consumer EXCEPT ![c].q = @ + 1]
    <2>1. consumer'[c].pc = consumer[c].pc
      BY <1>1, <1>4 DEF Consumer
    <2> QED
      BY <1>4, <2>1, EmptyHanded DEF InHand
  <1>5. CASE Loop(c)
    BY <1>5, LoopEmptyHanded
  <1>6. CASE Claim(c)
    BY <1>6, ClaimHolds
  <1>7. CASE \/ Report(c) \/ ReportUnanswered(c) \/ Rejected(c) \/ FailToWork(c)
             \/ PushLetter(c) \/ TrimLetters(c) \/ FailToLetter(c)
    <2>1. UNCHANGED pending /\ consumer[c].pc \in InHand
      BY <1>7 DEF Report, ReportUnanswered, Rejected, FailToWork, PushLetter,
                  TrimLetters, FailToLetter, lists, At, InHand
    <2>2. PICK pc \in InHand : Goto(c, pc)
      BY <1>7 DEF Report, ReportUnanswered, Rejected, FailToWork, PushLetter,
                  TrimLetters, FailToLetter, InHand
    <2> QED
      BY <2>1, <2>2, KeepsHolding
  <1>8. CASE Recover(c)
    BY <1>3, <1>4, <1>5, <1>8 DEF Recover, At
  <1>9. CASE PollNext(c)
    BY <1>4, <1>5, <1>9 DEF PollNext, At
  <1>10. CASE LoseClaim(c) \/ FailToClaim(c) \/ Return(c) \/ Release(c)
    BY <1>5, <1>10 DEF LoseClaim, FailToClaim, Return, Release
  <1> QED
    BY <1>2, <1>6, <1>7, <1>8, <1>9, <1>10 DEF Step

LEMMA NextHolds ==
    ASSUME ConsumerInv, LoneConsumer, HeldIsLast, [Next]_vars
    PROVE  HeldIsLast'
  <1>1. consumer \in [Consumers -> Consumer]
    BY DEF ConsumerInv, TypeOK
  <1>2. ASSUME NEW c \in Consumers, Interrupt(c) PROVE HeldIsLast'
    <2>1. consumer'[c].pc = "down"
      BY <1>1, <1>2 DEF Interrupt, Down
    <2> QED
      BY <2>1, EmptyHanded DEF InHand
  <1>3. ASSUME NEW c \in Consumers, Stop(c) PROVE HeldIsLast'
    <2>1. UNCHANGED <<consumer[c].pc, Queue(c), Job(c), pending>>
      BY <1>1, <1>3 DEF Stop, lists, Consumer, Queue, Job
    <2> QED
      BY <2>1 DEF LoneConsumer, HeldIsLast
  <1>4. CASE UNCHANGED <<pending, consumer>>
    BY <1>4 DEF HeldIsLast, Queue, Job
  <1>5. ASSUME NEW j \in Jobs, Enqueue(j) \/ Cancel(j) PROVE HeldIsLast'
    BY <1>4, <1>5 DEF Enqueue, Cancel, lists
  <1>6. CASE UNCHANGED vars
    BY <1>4, <1>6 DEF vars, lists
  <1> QED
    BY <1>2, <1>3, <1>5, <1>6, StepHolds DEF Next

\* What the comment in run promises is so as long as the consumer is alone: the
\* item that LMOVE is about to return is the one that failed.
THEOREM LoneConsumerReturnsFailedItem ==
    ASSUME LoneConsumer
    PROVE  Spec => []ReturnsFailedItem
  <1>1. Init => ConsumerInv
    BY InitSound
  <1>2. Init => HeldIsLast
    BY DEF Init, HeldIsLast, Down, InHand
  <1>3. ConsumerInv /\ HeldIsLast /\ [Next]_vars => ConsumerInv' /\ HeldIsLast'
    BY NextSound, NextHolds
  <1>4. HeldIsLast => ReturnsFailedItem
    BY DEF HeldIsLast, ReturnsFailedItem, At, InHand
  <1> QED
    BY <1>1, <1>2, <1>3, <1>4, PTL DEF Spec

-----------------------------------------------------------------------------
(* The dead-letter list is bounded.                                        *)

Trimming == {c \in Consumers : consumer[c].pc = "trim"}
Stopping == {c \in Consumers : consumer[c].stopping}

\* The consumers whose stopping may still excuse a trim that fails.
Spare == {c \in Consumers : consumer[c].stopping /\ consumer[c].pc # "return"}

\* The letters whose trimming failed are as many as the failures and the
\* interruptions, even if a consumer that stops fails without using up a failure:
\* it does so once, as it is at its place "return" then, and goes down next.
LettersInv ==
    /\ Len(deadLetters) + Cardinality(Spare)
          <= DeadLetterLimit + Cardinality(Trimming) + failures + interruptions
    /\ Cardinality(Stopping) <= interruptions

One(p) == IF p THEN 1 ELSE 0

\* What a consumer's state adds to the counts.
Trims(x) == One(x.pc = "trim")
Stops(x) == One(x.stopping)
Spares(x) == One(x.stopping /\ x.pc # "return")

\* One member's part in the size of a set.
LEMMA CountOne ==
    ASSUME NEW S, IsFiniteSet(S), NEW T \in SUBSET S, NEW c
    PROVE  /\ Cardinality(T) \in Nat
           /\ Cardinality(T \ {c}) \in Nat
           /\ Cardinality(T) = Cardinality(T \ {c}) + One(c \in T)
  <1>1. IsFiniteSet(T) /\ IsFiniteSet(T \ {c})
    BY FS_Subset
  <1>2. Cardinality(T) \in Nat /\ Cardinality(T \ {c}) \in Nat
    BY <1>1, FS_CardinalityType
  <1>3. CASE c \in T
    <2>1. Cardinality(T \ {c}) = Cardinality(T) - 1
      BY <1>1, <1>3, FS_RemoveElement
    <2> QED
      BY <1>2, <1>3, <2>1 DEF One
  <1>4. CASE c \notin T
    <2>1. T \ {c} = T
      BY <1>4
    <2> QED
      BY SMTT(30), <1>2, <1>4, <2>1 DEF One
  <1> QED
    BY <1>2, <1>3, <1>4

\* A consumer's step changes the counts by its own part in them.
LEMMA CountsChange ==
    ASSUME IsFiniteSet(Consumers), consumer \in [Consumers -> Consumer],
           NEW c \in Consumers, NEW x, consumer' = [consumer EXCEPT ![c] = x]
    PROVE  /\ Cardinality(Trimming)' - Cardinality(Trimming)
                = Trims(x) - Trims(consumer[c])
           /\ Cardinality(Stopping)' - Cardinality(Stopping)
                = Stops(x) - Stops(consumer[c])
           /\ Cardinality(Spare)' - Cardinality(Spare)
                = Spares(x) - Spares(consumer[c])
  <1>1. consumer'[c] = x /\ \A b \in Consumers \ {c} : consumer'[b] = consumer[b]
    OBVIOUS
  <1>2. /\ Trimming' \ {c} = Trimming \ {c}
        /\ Stopping' \ {c} = Stopping \ {c}
        /\ Spare' \ {c} = Spare \ {c}
    BY <1>1 DEF Trimming, Stopping, Spare
  <1>3. /\ Trimming \in SUBSET Consumers /\ Trimming' \in SUBSET Consumers
        /\ Stopping \in SUBSET Consumers /\ Stopping' \in SUBSET Consumers
        /\ Spare \in SUBSET Consumers /\ Spare' \in SUBSET Consumers
    BY DEF Trimming, Stopping, Spare
  <1>4. /\ (c \in Trimming) = (consumer[c].pc = "trim")
        /\ (c \in Trimming') = (x.pc = "trim")
        /\ (c \in Spare) <=> (consumer[c].stopping /\ consumer[c].pc # "return")
        /\ (c \in Spare') <=> (x.stopping /\ x.pc # "return")
        /\ (c \in Stopping) <=> consumer[c].stopping
        /\ (c \in Stopping') <=> x.stopping
    BY <1>1 DEF Trimming, Stopping, Spare
  <1>5. /\ One(c \in Trimming) = Trims(consumer[c]) /\ One(c \in Trimming') = Trims(x)
        /\ One(c \in Stopping) = Stops(consumer[c]) /\ One(c \in Stopping') = Stops(x)
        /\ One(c \in Spare) = Spares(consumer[c]) /\ One(c \in Spare') = Spares(x)
    BY <1>4 DEF One, Trims, Stops, Spares
  <1>6. \A T \in SUBSET Consumers :
           /\ Cardinality(T) \in Nat
           /\ Cardinality(T \ {c}) \in Nat
           /\ Cardinality(T) = Cardinality(T \ {c}) + One(c \in T)
    BY CountOne
  <1>7. Trims(x) \in {0, 1} /\ Stops(x) \in {0, 1} /\ Spares(x) \in {0, 1}
    BY DEF Trims, Stops, Spares, One
  <1>8. /\ Trims(consumer[c]) \in {0, 1} /\ Stops(consumer[c]) \in {0, 1}
        /\ Spares(consumer[c]) \in {0, 1}
    BY DEF Trims, Stops, Spares, One
  <1>9. /\ Cardinality(Trimming)' = Cardinality(Trimming \ {c}) + Trims(x)
        /\ Cardinality(Trimming) = Cardinality(Trimming \ {c}) + Trims(consumer[c])
        /\ Cardinality(Trimming \ {c}) \in Nat
    BY <1>2, <1>3, <1>5, <1>6
  <1>10. /\ Cardinality(Stopping)' = Cardinality(Stopping \ {c}) + Stops(x)
         /\ Cardinality(Stopping) = Cardinality(Stopping \ {c}) + Stops(consumer[c])
         /\ Cardinality(Stopping \ {c}) \in Nat
    BY <1>2, <1>3, <1>5, <1>6
  <1>11. /\ Cardinality(Spare)' = Cardinality(Spare \ {c}) + Spares(x)
         /\ Cardinality(Spare) = Cardinality(Spare \ {c}) + Spares(consumer[c])
         /\ Cardinality(Spare \ {c}) \in Nat
    BY <1>2, <1>3, <1>5, <1>6
  <1> QED
    BY <1>7, <1>8, <1>9, <1>10, <1>11

\* What a step owes: the letters grow by no more than the credit it gives, or they
\* are trimmed.
Pays(old, x) ==
    /\ Stops(x) - Stops(old) <= interruptions' - interruptions
    /\ \/ (Len(deadLetters') - Len(deadLetters)) + (Spares(x) - Spares(old))
            <= (Trims(x) - Trims(old)) + (failures' - failures)
               + (interruptions' - interruptions)
       \/ Len(deadLetters') <= DeadLetterLimit

LEMMA StepPays ==
    ASSUME IsFiniteSet(Consumers), ConsumerInv, ConsumerInv', LettersInv,
           NEW c \in Consumers, NEW x, consumer' = [consumer EXCEPT ![c] = x],
           Pays(consumer[c], x)
    PROVE  LettersInv'
  <1>1. /\ Cardinality(Trimming)' - Cardinality(Trimming) = Trims(x) - Trims(consumer[c])
        /\ Cardinality(Stopping)' - Cardinality(Stopping) = Stops(x) - Stops(consumer[c])
        /\ Cardinality(Spare)' - Cardinality(Spare) = Spares(x) - Spares(consumer[c])
    BY CountsChange DEF ConsumerInv, TypeOK
  <1>2. /\ Cardinality(Trimming) \in Nat /\ Cardinality(Trimming)' \in Nat
        /\ Cardinality(Stopping) \in Nat /\ Cardinality(Stopping)' \in Nat
        /\ Cardinality(Spare) \in Nat /\ Cardinality(Spare)' \in Nat
    <2>1. /\ Trimming \subseteq Consumers /\ Trimming' \subseteq Consumers
          /\ Stopping \subseteq Consumers /\ Stopping' \subseteq Consumers
          /\ Spare \subseteq Consumers /\ Spare' \subseteq Consumers
      BY DEF Trimming, Stopping, Spare
    <2> QED
      BY <2>1, FS_Subset, FS_CardinalityType
  <1>3. /\ failures \in Nat /\ failures' \in Nat
        /\ interruptions \in Nat /\ interruptions' \in Nat
        /\ Len(deadLetters) \in Nat /\ Len(deadLetters') \in Nat
        /\ DeadLetterLimit \in Nat
    BY ConsumerAssumption DEF ConsumerInv, TypeOK
  <1>4. Cardinality(Spare)' <= Cardinality(Stopping)'
    <2>1. IsFiniteSet(Stopping') /\ Spare' \subseteq Stopping'
      BY FS_Subset DEF Stopping, Spare
    <2> QED
      BY <2>1, FS_Subset
  <1>5. /\ Cardinality(Stopping)' - Cardinality(Stopping) <= interruptions' - interruptions
        /\ \/ (Len(deadLetters') - Len(deadLetters))
                 + (Cardinality(Spare)' - Cardinality(Spare))
                <= (Cardinality(Trimming)' - Cardinality(Trimming))
                   + (failures' - failures) + (interruptions' - interruptions)
           \/ Len(deadLetters') <= DeadLetterLimit
    BY <1>1 DEF Pays
  <1>6. PICK k \in Nat, n \in Nat, s \in Nat, u \in Nat, f \in Nat, i \in Nat :
           /\ k = Len(deadLetters) /\ n = Cardinality(Trimming)
           /\ s = Cardinality(Stopping) /\ u = Cardinality(Spare)
           /\ f = failures /\ i = interruptions
    BY <1>2, <1>3
  <1>7. PICK k2 \in Nat, n2 \in Nat, s2 \in Nat, u2 \in Nat, f2 \in Nat, i2 \in Nat :
           /\ k2 = Len(deadLetters') /\ n2 = Cardinality(Trimming)'
           /\ s2 = Cardinality(Stopping)' /\ u2 = Cardinality(Spare)'
           /\ f2 = failures' /\ i2 = interruptions'
    BY <1>2, <1>3
  <1>8. k + u <= DeadLetterLimit + n + f + i /\ s <= i
    BY <1>6 DEF LettersInv
  <1>9. /\ u2 <= s2 /\ s2 - s <= i2 - i
        /\ \/ (k2 - k) + (u2 - u) <= (n2 - n) + (f2 - f) + (i2 - i)
           \/ k2 <= DeadLetterLimit
    BY <1>4, <1>5, <1>6, <1>7
  <1>10. k2 + u2 <= DeadLetterLimit + n2 + f2 + i2 /\ s2 <= i2
    BY <1>3, <1>8, <1>9
  <1> QED
    BY <1>7, <1>10 DEF LettersInv

-----------------------------------------------------------------------------
(* Each step pays for the letters it leaves.                               *)

\* The places that a step of a consumer that goes on with its item leads to.
LEMMA GotoPays ==
    ASSUME IsFiniteSet(Consumers), ConsumerInv, ConsumerInv', LettersInv,
           NEW c \in Consumers, NEW pc, Goto(c, pc), UNCHANGED interruptions,
           \/ /\ UNCHANGED deadLetters
              /\ UNCHANGED failures \/ Fail(c)
              /\ consumer[c].pc \notin {"trim", "return"}
           \/ /\ UNCHANGED deadLetters
              /\ Fail(c)
              /\ pc = "return"
              /\ consumer[c].pc # "return"
           \/ /\ UNCHANGED failures
              /\ Len(deadLetters') = Len(deadLetters) + 1
              /\ consumer[c].pc = "letter" /\ pc = "trim"
           \/ Len(deadLetters') <= DeadLetterLimit /\ (UNCHANGED failures \/ Fail(c))
    PROVE  LettersInv'
  <1> DEFINE old == consumer[c]
             x == [consumer[c] EXCEPT !.pc = pc]
  <1>1. consumer[c] \in Consumer
    BY DEF ConsumerInv, TypeOK
  <1>2. x.pc = pc /\ x.stopping = old.stopping /\ old.stopping \in BOOLEAN
    BY <1>1 DEF Consumer
  <1>3. consumer' = [consumer EXCEPT ![c] = x]
    BY DEF Goto
  <1>4. /\ failures \in Nat /\ interruptions \in Nat
        /\ Len(deadLetters) \in Nat /\ Len(deadLetters') \in Nat
    BY ConsumerAssumption DEF ConsumerInv, TypeOK
  <1>5. Fail(c) => \/ failures' = failures + 1
                   \/ old.stopping /\ failures' = failures
    BY DEF Fail
  <1>6. PICK k \in Nat, k2 \in Nat, f \in Nat, f2 \in Nat, i \in Nat :
           /\ k = Len(deadLetters) /\ k2 = Len(deadLetters')
           /\ f = failures /\ f2 = failures' /\ i = interruptions
    <2>1. failures' \in Nat
      BY ConsumerAssumption DEF ConsumerInv, TypeOK
    <2> QED
      BY <1>4, <2>1
  <1>7. PICK a \in {0, 1}, b \in {0, 1}, d \in {0, 1} :
           /\ a = Trims(old) /\ b = Spares(old) /\ d = Stops(old)
    BY DEF Trims, Spares, Stops, One
  <1>8. PICK a2 \in {0, 1}, b2 \in {0, 1} :
           /\ a2 = Trims(x) /\ b2 = Spares(x)
    BY DEF Trims, Spares, One
  <1> HIDE DEF old, x
  <1>9. Stops(x) = d
    BY <1>2, <1>7 DEF Stops
  <1>10. d - d <= i - i
    BY <1>6, <1>7
  <1>11. \/ (k2 - k) + (b2 - b) <= (a2 - a) + (f2 - f) + (i - i)
         \/ k2 <= DeadLetterLimit
    <2>1. CASE /\ UNCHANGED deadLetters
               /\ UNCHANGED failures \/ Fail(c)
               /\ old.pc \notin {"trim", "return"}
      <3>1. k2 = k /\ f <= f2 /\ a = 0
        BY <1>5, <1>6, <1>7, <2>1 DEF Trims, One
      <3>2. b2 <= b
        BY <1>2, <1>7, <1>8, <2>1 DEF Spares, One
      <3> QED
        BY <3>1, <3>2
    <2>2. CASE /\ UNCHANGED deadLetters
               /\ Fail(c)
               /\ pc = "return"
               /\ old.pc # "return"
      <3>1. k2 = k /\ b2 = 0
        BY <1>2, <1>6, <1>8, <2>2 DEF Spares, One
      <3>2. \/ f2 = f + 1
            \/ f2 = f /\ b = 1
        BY <1>5, <1>6, <1>7, <2>2 DEF Spares, One
      <3> QED
        BY <3>1, <3>2
    <2>3. CASE /\ UNCHANGED failures
               /\ Len(deadLetters') = Len(deadLetters) + 1
               /\ old.pc = "letter" /\ pc = "trim"
      <3>1. k2 = k + 1 /\ f2 = f
        BY <1>6, <2>3
      <3>2. a = 0 /\ a2 = 1 /\ b2 = b
        BY <1>2, <1>7, <1>8, <2>3 DEF Trims, Spares, One
      <3> QED
        BY <3>1, <3>2
    <2>4. CASE Len(deadLetters') <= DeadLetterLimit
      BY <1>6, <2>4
    <2> QED
      BY <2>1, <2>2, <2>3, <2>4 DEF old
  <1>12. Pays(old, x)
    BY <1>6, <1>7, <1>8, <1>9, <1>10, <1>11 DEF Pays
  <1> QED
    BY <1>3, <1>12, StepPays DEF old

\* A consumer that has nothing more in hand, once its letter is trimmed.
LEMMA LeavePays ==
    ASSUME IsFiniteSet(Consumers), ConsumerInv, ConsumerInv', LettersInv,
           NEW c \in Consumers, NEW x, consumer' = [consumer EXCEPT ![c] = x],
           x.pc # "trim", x.stopping = FALSE, UNCHANGED deadLetters,
           consumer[c].pc = "trim" => interruptions' = interruptions + 1,
           interruptions' \in {interruptions, interruptions + 1},
           UNCHANGED failures \/ Fail(c)
    PROVE  LettersInv'
  <1> DEFINE old == consumer[c]
  <1>1. /\ failures \in Nat /\ interruptions \in Nat /\ Len(deadLetters) \in Nat
        /\ old.stopping \in BOOLEAN
    BY ConsumerAssumption DEF ConsumerInv, TypeOK, Consumer
  <1>2. failures' \in {failures, failures + 1}
    BY DEF Fail
  <1>3. old.pc = "trim" => interruptions' = interruptions + 1
    OBVIOUS
  <1>4. PICK k \in Nat, f \in Nat, f2 \in Nat, i \in Nat, i2 \in Nat :
           /\ k = Len(deadLetters) /\ k = Len(deadLetters')
           /\ f = failures /\ f2 = failures'
           /\ i = interruptions /\ i2 = interruptions'
    BY <1>1, <1>2
  <1>5. PICK a \in {0, 1}, b \in {0, 1}, d \in {0, 1} :
           /\ a = Trims(old) /\ b = Spares(old) /\ d = Stops(old)
    BY DEF Trims, Spares, Stops, One
  <1>6. Trims(x) = 0 /\ Spares(x) = 0 /\ Stops(x) = 0
    BY DEF Trims, Spares, Stops, One
  <1> HIDE DEF old
  <1>7. f <= f2 /\ i <= i2 /\ (a = 1 => i2 = i + 1)
    BY <1>1, <1>2, <1>3, <1>4, <1>5 DEF Trims, One
  <1>8. /\ 0 - d <= i2 - i
        /\ (k - k) + (0 - b) <= (0 - a) + (f2 - f) + (i2 - i)
    BY <1>7
  <1>9. Pays(old, x)
    BY <1>4, <1>5, <1>6, <1>8 DEF Pays
  <1> QED
    BY <1>9, StepPays DEF old

LEMMA LoopPays ==
    ASSUME IsFiniteSet(Consumers), ConsumerInv, ConsumerInv', LettersInv,
           NEW c \in Consumers, Loop(c), consumer[c].pc # "trim",
           UNCHANGED <<deadLetters, interruptions>>, UNCHANGED failures \/ Fail(c)
    PROVE  LettersInv'
  <1> DEFINE x == IF consumer[c].stopping THEN Down ELSE [Down EXCEPT !.pc = "poll"]
  <1>1. consumer' = [consumer EXCEPT ![c] = x]
    BY DEF Loop
  <1>2. x.pc # "trim" /\ x.stopping = FALSE
    BY DEF Down
  <1> HIDE DEF x
  <1> QED
    BY <1>1, <1>2, LeavePays

\* A step that leaves the consumer's place and its stopping as they are.
LEMMA SamePlacePays ==
    ASSUME IsFiniteSet(Consumers), ConsumerInv, LettersInv,
           NEW c \in Consumers, UNCHANGED <<deadLetters, failures, interruptions>>,
           \/ UNCHANGED consumer
           \/ consumer' = [consumer EXCEPT ![c].q = @ + 1]
    PROVE  LettersInv'
  <1>1. consumer \in [Consumers -> Consumer]
    BY DEF ConsumerInv, TypeOK
  <1>2. \A b \in Consumers : UNCHANGED <<consumer[b].pc, consumer[b].stopping>>
    BY <1>1 DEF Consumer
  <1>3. UNCHANGED <<Trimming, Stopping, Spare>>
    BY <1>2 DEF Trimming, Stopping, Spare
  <1> QED
    BY <1>3 DEF LettersInv

\* LTRIM cuts the list to its limit.
LEMMA TrimmedBounded ==
    ASSUME ConsumerInv
    PROVE  Len(Trimmed) <= DeadLetterLimit
  <1>1. deadLetters \in Seq(Jobs) /\ DeadLetterLimit \in Nat /\ Len(deadLetters) \in Nat
    BY ConsumerAssumption DEF ConsumerInv, TypeOK
  <1> DEFINE n == IF Len(deadLetters) <= DeadLetterLimit
                  THEN Len(deadLetters) ELSE DeadLetterLimit
  <1>2. n \in Nat /\ n <= DeadLetterLimit /\ n <= Len(deadLetters)
    BY <1>1
  <1>3. Len(SubSeq(deadLetters, 1, n)) = n
    <2> HIDE DEF n
    <2>1. \A k \in 1..n : deadLetters[k] \in Jobs
      BY <1>1, <1>2, ElementOfSeq
    <2> QED
      BY <1>1, <1>2, <2>1, SubSeqProperties
  <1> QED
    BY <1>2, <1>3 DEF Trimmed

LEMMA StepLetters ==
    ASSUME IsFiniteSet(Consumers), ConsumerInv, ConsumerInv', LettersInv,
           NEW c \in Consumers, Step(c)
    PROVE  LettersInv'
  <1>1. CASE Start(c)
    <2> DEFINE x == [Down EXCEPT !.pc = "recover"]
    <2>1. consumer' = [consumer EXCEPT ![c] = x] /\ consumer[c].pc = "down"
      BY <1>1 DEF Start, At
    <2>2. x.pc = "recover" /\ x.stopping = FALSE
      BY DEF Down
    <2>3. UNCHANGED <<deadLetters, failures, interruptions>>
      BY <1>1 DEF Start, letterVars
    <2> HIDE DEF x
    <2> QED
      BY <2>1, <2>2, <2>3, LeavePays
  <1>2. CASE Recover(c) \/ PollNext(c)
    <2>1. /\ UNCHANGED <<deadLetters, failures, interruptions>>
          /\ consumer[c].pc # "trim"
          /\ \/ UNCHANGED consumer
             \/ consumer' = [consumer EXCEPT ![c].q = @ + 1]
             \/ Loop(c)
      BY <1>2 DEF Recover, PollNext, letterVars, At
    <2> QED
      BY <2>1, SamePlacePays, LoopPays
  <1>3. CASE Claim(c)
    <2> DEFINE j == Head(ready[Queue(c)])
               pc == IF form[j] = "nameless" THEN "letter" ELSE "work"
               x == [consumer[c] EXCEPT !.job = j, !.pc = pc]
    <2>1. /\ consumer' = [consumer EXCEPT ![c] = x] /\ consumer[c].pc = "poll"
          /\ UNCHANGED <<deadLetters, failures, interruptions>>
      BY <1>3 DEF Claim, At, letterVars
    <2>2. pc # "trim" /\ pc # "return"
      OBVIOUS
    <2> HIDE DEF j, pc
    <2>3. consumer[c] \in Consumer
      BY DEF ConsumerInv, TypeOK
    <2>4. x.pc = pc /\ x.stopping = consumer[c].stopping
      BY <2>3 DEF Consumer
    <2>5. /\ Stops(x) = Stops(consumer[c]) /\ Spares(x) = Spares(consumer[c])
          /\ Trims(x) = Trims(consumer[c])
      BY <2>1, <2>2, <2>4 DEF Stops, Spares, Trims, One
    <2> HIDE DEF x
    <2>6. Pays(consumer[c], x)
      <3>1. \A n \in Int : n - n = 0
        OBVIOUS
      <3>2. /\ Stops(x) \in Int /\ Spares(x) \in Int /\ Trims(x) \in Int
            /\ failures \in Int /\ interruptions \in Int /\ Len(deadLetters) \in Int
        BY ConsumerAssumption DEF ConsumerInv, TypeOK, Stops, Spares, Trims, One
      <3>3. /\ Stops(x) - Stops(consumer[c]) = 0 /\ Spares(x) - Spares(consumer[c]) = 0
            /\ Trims(x) - Trims(consumer[c]) = 0 /\ failures' - failures = 0
            /\ interruptions' - interruptions = 0
            /\ Len(deadLetters') - Len(deadLetters) = 0
        BY <2>1, <2>5, <3>1, <3>2
      <3>4. 0 <= 0 /\ 0 + 0 <= 0 + 0 + 0
        OBVIOUS
      <3> QED
        BY <3>3, <3>4 DEF Pays
    <2> QED
      BY <2>1, <2>6, StepPays
  <1>4. CASE LoseClaim(c) \/ FailToClaim(c) \/ Return(c) \/ Release(c)
    <2>1. /\ UNCHANGED <<deadLetters, interruptions>>
          /\ Loop(c) /\ consumer[c].pc # "trim"
          /\ UNCHANGED failures \/ Fail(c)
      BY <1>4 DEF LoseClaim, FailToClaim, Return, Release, letterVars, At
    <2> QED
      BY <2>1, LoopPays
  <1>5. CASE Report(c) \/ Rejected(c)
    <2>1. /\ UNCHANGED <<deadLetters, failures, interruptions>>
          /\ consumer[c].pc = "work"
      BY <1>5 DEF Report, Rejected, letterVars, At
    <2>2. PICK pc \in InHand : Goto(c, pc)
      BY <1>5 DEF Report, Rejected, InHand
    <2> QED
      BY <2>1, <2>2, GotoPays
  <1>6. CASE FailToWork(c)
    <2>1. /\ UNCHANGED <<deadLetters, interruptions>> /\ Fail(c)
          /\ consumer[c].pc = "work" /\ Goto(c, "return")
      BY <1>6 DEF FailToWork, letterVars, At
    <2> QED
      BY <2>1, GotoPays
  <1>7. CASE ReportUnanswered(c)
    <2>1. /\ UNCHANGED <<deadLetters, interruptions>> /\ Fail(c)
          /\ consumer[c].pc = "work"
          /\ Goto(c, "return") \/ Goto(c, "letter")
      BY <1>7 DEF ReportUnanswered, letterVars, At
    <2>2. CASE Goto(c, "return")
      BY <2>1, <2>2, GotoPays
    <2>3. CASE Goto(c, "letter")
      BY <2>1, <2>3, GotoPays
    <2> QED
      BY <2>1, <2>2, <2>3
  <1>8. CASE PushLetter(c)
    <2>1. /\ UNCHANGED <<failures, interruptions>>
          /\ consumer[c].pc = "letter" /\ Goto(c, "trim")
          /\ deadLetters' = <<Job(c)>> \o deadLetters
      BY <1>8 DEF PushLetter, At
    <2>2. deadLetters \in Seq(Jobs) /\ <<Job(c)>> \in Seq(Jobs \cup {NoJob})
      BY DEF ConsumerInv, TypeOK, Consumer, Job
    <2>3. Len(deadLetters') = Len(deadLetters) + 1
      BY <2>1, <2>2
    <2> QED
      BY <2>1, <2>3, GotoPays
  <1>9. CASE TrimLetters(c)
    <2>1. /\ UNCHANGED <<failures, interruptions>> /\ Goto(c, "remove")
          /\ deadLetters' = Trimmed
      BY <1>9 DEF TrimLetters
    <2> QED
      BY <2>1, TrimmedBounded, GotoPays
  <1>10. CASE FailToLetter(c)
    <2>1. /\ UNCHANGED interruptions /\ Fail(c) /\ Goto(c, "return")
          /\ consumer[c].pc \in {"letter", "trim"}
          /\ deadLetters' \in {deadLetters, Trimmed}
      BY <1>10 DEF FailToLetter, At
    <2> QED
      BY <2>1, TrimmedBounded, GotoPays
  <1> QED
    BY <1>1, <1>2, <1>3, <1>4, <1>5, <1>6, <1>7, <1>8, <1>9, <1>10 DEF Step

LEMMA NextLetters ==
    ASSUME IsFiniteSet(Consumers), ConsumerInv, LettersInv, [Next]_vars
    PROVE  LettersInv'
  <1>1. ConsumerInv'
    BY NextSound
  <1>2. ASSUME NEW c \in Consumers, Interrupt(c) PROVE LettersInv'
    <2>1. /\ UNCHANGED <<deadLetters, failures>>
          /\ interruptions' = interruptions + 1
          /\ consumer' = [consumer EXCEPT ![c] = Down]
          /\ interruptions' \in {interruptions, interruptions + 1}
      BY <1>2 DEF Interrupt, letterVars
    <2>2. Down.pc # "trim" /\ Down.stopping = FALSE
      BY DEF Down
    <2> QED
      BY <1>1, <2>1, <2>2, LeavePays
  <1>3. ASSUME NEW c \in Consumers, Stop(c) PROVE LettersInv'
    <2> DEFINE x == [consumer[c] EXCEPT !.stopping = TRUE]
               old == consumer[c]
    <2>1. /\ UNCHANGED <<deadLetters, failures>>
          /\ interruptions' = interruptions + 1
          /\ consumer' = [consumer EXCEPT ![c] = x]
          /\ ~old.stopping
      BY <1>3 DEF Stop, letterVars
    <2>2. /\ failures \in Nat /\ interruptions \in Nat /\ Len(deadLetters) \in Nat
          /\ old \in Consumer
      BY ConsumerAssumption DEF ConsumerInv, TypeOK
    <2>3. x.stopping /\ x.pc = old.pc
      BY <2>2 DEF Consumer
    <2> HIDE DEF x, old
    <2>4. PICK k \in Nat, f \in Nat, i \in Nat, a \in {0, 1}, b \in {0, 1}, b2 \in {0, 1} :
             /\ k = Len(deadLetters) /\ f = failures /\ i = interruptions
             /\ a = Trims(old) /\ b = Spares(old) /\ b2 = Spares(x)
      BY <2>2 DEF Trims, Spares, One
    <2>5. Stops(old) = 0 /\ Stops(x) = 1 /\ b = 0 /\ Trims(x) = a
      BY <2>1, <2>3, <2>4 DEF Stops, Spares, Trims, One
    <2>6. /\ 1 - 0 <= (i + 1) - i
          /\ (k - k) + (b2 - b) <= (a - a) + (f - f) + ((i + 1) - i)
      BY <2>4, <2>5
    <2>7. Pays(old, x)
      BY <2>1, <2>4, <2>5, <2>6 DEF Pays
    <2> QED
      BY <1>1, <2>1, <2>7, StepPays DEF old
  <1>4. CASE UNCHANGED <<deadLetters, consumer, failures, interruptions>>
    BY <1>4 DEF LettersInv, Trimming, Stopping, Spare
  <1>5. ASSUME NEW j \in Jobs, Enqueue(j) \/ Cancel(j) PROVE LettersInv'
    BY <1>4, <1>5 DEF Enqueue, Cancel, letterVars
  <1>6. CASE UNCHANGED vars
    BY <1>4, <1>6 DEF vars, letterVars
  <1> QED
    BY <1>1, <1>2, <1>3, <1>5, <1>6, StepLetters DEF Next

\* A consumer trims the dead-letter list after each letter, so the list outgrows
\* its limit by no more than the trims that are to come, failed or were cut short.
THEOREM DeadLettersStayBounded ==
    ASSUME IsFiniteSet(Consumers)
    PROVE  Spec => []DeadLettersBounded
  <1>1. Init => ConsumerInv
    BY InitSound
  <1>2. Init => LettersInv
    <2> SUFFICES ASSUME Init PROVE LettersInv
      OBVIOUS
    <2>1. Trimming = {} /\ Stopping = {} /\ Spare = {}
      BY DEF Init, Trimming, Stopping, Spare, Down
    <2>2. Cardinality({}) = 0 /\ Len(deadLetters) = 0
      BY FS_EmptySet DEF Init
    <2> QED
      BY <2>1, <2>2, ConsumerAssumption DEF Init, LettersInv
  <1>3. ConsumerInv /\ LettersInv /\ [Next]_vars => ConsumerInv' /\ LettersInv'
    BY NextSound, NextLetters
  <1>4. ConsumerInv /\ LettersInv => DeadLettersBounded
    <2> SUFFICES ASSUME ConsumerInv, LettersInv PROVE DeadLettersBounded
      OBVIOUS
    <2>1. Trimming = {c \in Consumers : At(c, "trim")}
      BY DEF Trimming, At
    <2>2. /\ Cardinality(Spare) \in Nat /\ Cardinality(Trimming) \in Nat
          /\ Len(deadLetters) \in Nat /\ DeadLetterLimit \in Nat
          /\ failures \in Nat /\ interruptions \in Nat
      <3>1. Spare \subseteq Consumers /\ Trimming \subseteq Consumers
        BY DEF Spare, Trimming
      <3>2. Cardinality(Spare) \in Nat /\ Cardinality(Trimming) \in Nat
        BY <3>1, FS_Subset, FS_CardinalityType
      <3> QED
        BY <3>2, ConsumerAssumption DEF ConsumerInv, TypeOK
    <2> HIDE DEF Spare, Trimming
    <2>3. Len(deadLetters) <= DeadLetterLimit + Cardinality(Trimming) + failures + interruptions
      BY <2>2 DEF LettersInv
    <2> QED
      BY <2>1, <2>3 DEF DeadLettersBounded
  <1> QED
    BY <1>1, <1>2, <1>3, <1>4, PTL DEF Spec
=============================================================================
