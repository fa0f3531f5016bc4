--------------------------- MODULE JudgeResultProofs ---------------------------
(***************************************************************************)
(* What the jobs of JudgeService come to, for any numbers of keys and      *)
(* jobs, any speakers and any evidence: the credit for an answer is earned *)
(* and every speaker gets feedback, whatever the models answer; and the    *)
(* panel is three different questions about the evidence, with the ones    *)
(* that no model asked declared, unless a model asks word for word what a  *)
(* judge asks without one.                                                 *)
(***************************************************************************)
EXTENDS JudgeServiceProofs

-----------------------------------------------------------------------------
(* How the panel is put together (JudgePanel).                             *)

\* What deduplicating and filling do with the n-th question and the n-th judge.
KeptStep(qs, before, n) ==
    IF \E m \in 1..n - 1 : qs[m].text = qs[n].text THEN before ELSE Append(before, qs[n])

FillStep(before, items, n) ==
    IF /\ Len(before) < PanelSize
       /\ DefaultDimension[Panel[n]] \notin Covered(before)
    THEN Append(before, FallbackQuestion(Panel[n], items))
    ELSE before

LEMMA PanelThree ==
    /\ Len(Panel) = 3 /\ DOMAIN Panel = 1..3
    /\ Judges = {Panel[1], Panel[2], Panel[3]}
    /\ \A n \in 1..3 : Panel[n] \in Judges
  BY DEF Panel, Judges, ToSet

\* Three steps make up the loops over three questions and three judges: the function
\* that each loop defines exists, as it can be written down.
LEMMA DeduplicatedSteps ==
    ASSUME NEW S, NEW qs \in Seq(S), Len(qs) = 3
    PROVE  Deduplicated(qs) = KeptStep(qs, KeptStep(qs, KeptStep(qs, <<>>, 1), 2), 3)
  <1> DEFINE k1 == KeptStep(qs, <<>>, 1)
             k2 == KeptStep(qs, k1, 2)
             k3 == KeptStep(qs, k2, 3)
             Body(f, n) == IF n = 0 THEN <<>> ELSE KeptStep(qs, f[n - 1], n)
             Eqn(f) == f = [n \in 0..Len(qs) |-> Body(f, n)]
             g == [n \in 0..3 |-> IF n = 0 THEN <<>> ELSE IF n = 1 THEN k1
                                  ELSE IF n = 2 THEN k2 ELSE k3]
  <1>1. Deduplicated(qs) = (CHOOSE f : Eqn(f))[Len(qs)]
    BY DEF Deduplicated, KeptStep
  <1>2. g[0] = <<>> /\ g[1] = k1 /\ g[2] = k2 /\ g[3] = k3
    <2> HIDE DEF k1, k2, k3
    <2> QED
      OBVIOUS
  <1>3. \A n \in 0..3 : g[n] = Body(g, n)
    <2>1. Body(g, 0) = <<>>
      OBVIOUS
    <2>2. Body(g, 1) = k1
      BY <1>2
    <2>3. Body(g, 2) = k2
      BY <1>2
    <2>4. Body(g, 3) = k3
      BY <1>2
    <2>5. \A n \in 0..3 : n = 0 \/ n = 1 \/ n = 2 \/ n = 3
      OBVIOUS
    <2> HIDE DEF g, Body, k1, k2, k3
    <2> QED
      BY <1>2, <2>1, <2>2, <2>3, <2>4, <2>5
  <1>4. Eqn(g)
    <2>1. g = [n \in 0..3 |-> g[n]]
      OBVIOUS
    <2> HIDE DEF g, Body
    <2> QED
      BY <1>3, <2>1
  <1>5. Eqn(CHOOSE f : Eqn(f))
    <2> HIDE DEF Eqn, g
    <2> QED
      BY <1>4
  <1>6. PICK f : f = (CHOOSE h : Eqn(h)) /\ Eqn(f)
    BY <1>5
  <1>7. f[0] = Body(f, 0) /\ f[1] = Body(f, 1) /\ f[2] = Body(f, 2) /\ f[3] = Body(f, 3)
    <2>1. f = [n \in 0..3 |-> Body(f, n)]
      BY <1>6
    <2> HIDE DEF Body
    <2> QED
      BY <2>1
  <1>8. f[0] = <<>> /\ f[1] = k1 /\ f[2] = k2 /\ f[3] = k3
    BY <1>7
  <1> QED
    BY <1>1, <1>6, <1>8

LEMMA FilledSteps ==
    ASSUME NEW qs, NEW items
    PROVE  Filled(qs, items)
             = FillStep(FillStep(FillStep(qs, items, 1), items, 2), items, 3)
  <1> DEFINE k1 == FillStep(qs, items, 1)
             k2 == FillStep(k1, items, 2)
             k3 == FillStep(k2, items, 3)
             Body(f, n) == IF n = 0 THEN qs ELSE FillStep(f[n - 1], items, n)
             Eqn(f) == f = [n \in 0..Len(Panel) |-> Body(f, n)]
             g == [n \in 0..3 |-> IF n = 0 THEN qs ELSE IF n = 1 THEN k1
                                  ELSE IF n = 2 THEN k2 ELSE k3]
  <1>1. Filled(qs, items) = (CHOOSE f : Eqn(f))[Len(Panel)]
    BY DEF Filled, FillStep
  <1>2. g[0] = qs /\ g[1] = k1 /\ g[2] = k2 /\ g[3] = k3
    <2> HIDE DEF k1, k2, k3
    <2> QED
      OBVIOUS
  <1>3. \A n \in 0..3 : g[n] = Body(g, n)
    <2>1. Body(g, 0) = qs
      OBVIOUS
    <2>2. Body(g, 1) = k1
      BY <1>2
    <2>3. Body(g, 2) = k2
      BY <1>2
    <2>4. Body(g, 3) = k3
      BY <1>2
    <2>5. \A n \in 0..3 : n = 0 \/ n = 1 \/ n = 2 \/ n = 3
      OBVIOUS
    <2> HIDE DEF g, Body, k1, k2, k3
    <2> QED
      BY <1>2, <2>1, <2>2, <2>3, <2>4, <2>5
  <1>4. Eqn(g)
    <2>1. g = [n \in 0..3 |-> g[n]]
      OBVIOUS
    <2> HIDE DEF g, Body
    <2> QED
      BY <1>3, <2>1, PanelThree
  <1>5. Eqn(CHOOSE f : Eqn(f))
    <2> HIDE DEF Eqn, g
    <2> QED
      BY <1>4
  <1>6. PICK f : f = (CHOOSE h : Eqn(h)) /\ Eqn(f)
    BY <1>5
  <1>7. f[0] = Body(f, 0) /\ f[1] = Body(f, 1) /\ f[2] = Body(f, 2) /\ f[3] = Body(f, 3)
    <2>1. f = [n \in 0..3 |-> Body(f, n)]
      BY <1>6, PanelThree
    <2> HIDE DEF Body
    <2> QED
      BY <2>1
  <1>8. f[0] = qs /\ f[1] = k1 /\ f[2] = k2 /\ f[3] = k3
    BY <1>7
  <1> QED
    BY <1>1, <1>6, <1>8, PanelThree

\* What a question for the panel must be like: it refers to some of the evidence, if
\* there is any, and a judge's deterministic question has the judge's dimension.
QuestionSound(q, items) ==
    /\ q.evidence \subseteq Ids(items)
    /\ items # <<>> => q.evidence # {}
    /\ q.text \in Judges => q.dimension = DefaultDimension[q.text]

AllDiffer(qs) == \A m, n \in 1..Len(qs) : m # n => qs[m].text # qs[n].text

LEMMA GroundingSound ==
    ASSUME NEW judge, NEW items \in Seq(Item)
    PROVE  /\ Grounding(judge, items) \subseteq Ids(items)
           /\ items # <<>> => Grounding(judge, items) # {}
  <1> DEFINE OnTopic(item) == Textual(item) /\
                 SourceDimensions[item.source] \cap Dimensions[judge] # {}
             onTopic == {items[i].id : i \in {i \in DOMAIN items :
                 OnTopic(items[i]) /\ \A j \in 1..i - 1 : ~ OnTopic(items[j])}}
             textual == {items[i].id : i \in {i \in DOMAIN items :
                 Textual(items[i]) /\ \A j \in 1..i - 1 : ~ Textual(items[j])}}
             any == {items[i].id : i \in {i \in DOMAIN items :
                 TRUE /\ \A j \in 1..i - 1 : ~ TRUE}}
  <1>1. Grounding(judge, items) = IF onTopic # {} THEN onTopic
                                  ELSE IF textual # {} THEN textual ELSE any
    BY DEF Grounding, First
  <1>2. onTopic \subseteq Ids(items) /\ textual \subseteq Ids(items) /\ any \subseteq Ids(items)
    BY DEF Ids
  <1>3. ASSUME items # <<>> PROVE any # {}
    <2>1. 1 \in DOMAIN items
      BY <1>3, EmptySeq
    <2>2. \A j \in 1..1 - 1 : ~ TRUE
      OBVIOUS
    <2>3. items[1].id \in any
      BY <2>1, <2>2
    <2> QED
      BY <2>3
  <1> HIDE DEF onTopic, textual, any
  <1> QED
    BY <1>1, <1>2, <1>3

LEMMA FallbackSound ==
    ASSUME NEW judge \in Judges, NEW items \in Seq(Item)
    PROVE  /\ QuestionSound(FallbackQuestion(judge, items), items)
           /\ FallbackQuestion(judge, items).text = judge
           /\ FallbackQuestion(judge, items).dimension = DefaultDimension[judge]
  <1> DEFINE q == FallbackQuestion(judge, items)
  <1>1. /\ q.text = judge /\ q.dimension = DefaultDimension[judge]
        /\ q.evidence = Grounding(judge, items)
    BY DEF FallbackQuestion
  <1> HIDE DEF q
  <1>2. QuestionSound(q, items)
    BY <1>1, GroundingSound DEF QuestionSound
  <1> QED
    BY <1>1, <1>2 DEF q

\* The questions of a panel come from a set of sound ones, which has the fallbacks.
Questions(S, items) ==
    /\ items \in Seq(Item)
    /\ \A q \in S : QuestionSound(q, items)
    /\ \A judge \in Judges : FallbackQuestion(judge, items) \in S

\* Of the first n questions, those that are kept.
KeptSound(qs, kept, n) ==
    /\ Len(kept) <= n
    /\ n > 0 => Len(kept) > 0
    /\ AllDiffer(kept)
    /\ \A i \in 1..Len(kept) : \E m \in 1..n : kept[i] = qs[m]

LEMMA KeptStepSound ==
    ASSUME NEW S, NEW qs \in Seq(S), NEW kept \in Seq(S), NEW n \in 1..Len(qs),
           KeptSound(qs, kept, n - 1)
    PROVE  KeptStep(qs, kept, n) \in Seq(S) /\ KeptSound(qs, KeptStep(qs, kept, n), n)
  <1>1. /\ n \in Nat /\ n > 0 /\ Len(kept) \in Nat /\ qs[n] \in S
        /\ Len(kept) <= n - 1
    BY DEF KeptSound
  <1>2. CASE \E m \in 1..n - 1 : qs[m].text = qs[n].text
    <2>1. KeptStep(qs, kept, n) = kept
      BY <1>2 DEF KeptStep
    <2>2. n - 1 > 0
      BY <1>1, <1>2
    <2>3. Len(kept) <= n /\ Len(kept) > 0
      BY <1>1, <2>2 DEF KeptSound
    <2>4. \A m \in 1..n - 1 : m \in 1..n
      BY <1>1
    <2> QED
      BY <2>1, <2>3, <2>4 DEF KeptSound
  <1>3. CASE ~ \E m \in 1..n - 1 : qs[m].text = qs[n].text
    <2> DEFINE next == Append(kept, qs[n])
    <2>1. KeptStep(qs, kept, n) = next
      BY <1>3 DEF KeptStep
    <2>2. /\ next \in Seq(S) /\ Len(next) = Len(kept) + 1
          /\ \A i \in 1..Len(kept) : next[i] = kept[i]
          /\ next[Len(kept) + 1] = qs[n]
      BY <1>1, AppendProperties
    <2> HIDE DEF next
    <2>3. \A i \in 1..Len(next) : i \in 1..Len(kept) \/ i = Len(kept) + 1
      BY <1>1, <2>2
    <2>4. ASSUME NEW i \in 1..Len(kept)
          PROVE  kept[i].text # qs[n].text /\ \E m \in 1..n : kept[i] = qs[m]
      <3>1. PICK m \in 1..n - 1 : kept[i] = qs[m]
        BY DEF KeptSound
      <3>2. m \in 1..n
        BY <1>1
      <3> QED
        BY <1>3, <3>1, <3>2
    <2>5. AllDiffer(next)
      <3> SUFFICES ASSUME NEW i \in 1..Len(next), NEW j \in 1..Len(next), i # j
                   PROVE  next[i].text # next[j].text
        BY DEF AllDiffer
      <3>1. CASE i \in 1..Len(kept) /\ j \in 1..Len(kept)
        BY <2>2, <3>1 DEF KeptSound, AllDiffer
      <3>2. CASE i \in 1..Len(kept) /\ j = Len(kept) + 1
        BY <2>2, <2>4, <3>2
      <3>3. CASE i = Len(kept) + 1 /\ j \in 1..Len(kept)
        BY <2>2, <2>4, <3>3
      <3> QED
        BY <2>3, <3>1, <3>2, <3>3
    <2>6. \A i \in 1..Len(next) : \E m \in 1..n : next[i] = qs[m]
      <3>1. n \in 1..n
        BY <1>1
      <3> QED
        BY <2>2, <2>3, <2>4, <3>1
    <2>7. Len(next) <= n /\ Len(next) > 0
      BY <1>1, <2>2
    <2> QED
      BY <2>1, <2>2, <2>5, <2>6, <2>7 DEF KeptSound
  <1> QED
    BY <1>2, <1>3

\* Deduplicating keeps one to three different questions of those that were asked.
LEMMA DeduplicatedSound ==
    ASSUME NEW S, NEW qs \in Seq(S), Len(qs) = 3
    PROVE  Deduplicated(qs) \in Seq(S) /\ KeptSound(qs, Deduplicated(qs), 3)
  <1> DEFINE k1 == KeptStep(qs, <<>>, 1)
             k2 == KeptStep(qs, k1, 2)
             k3 == KeptStep(qs, k2, 3)
  <1>1. <<>> \in Seq(S) /\ KeptSound(qs, <<>>, 0)
    BY DEF KeptSound, AllDiffer
  <1>2. 1 \in 1..Len(qs) /\ 2 \in 1..Len(qs) /\ 3 \in 1..Len(qs)
        /\ 1 - 1 = 0 /\ 2 - 1 = 1 /\ 3 - 1 = 2
    OBVIOUS
  <1>3. k1 \in Seq(S) /\ KeptSound(qs, k1, 1)
    BY <1>1, <1>2, KeptStepSound
  <1> HIDE DEF k1
  <1>4. k2 \in Seq(S) /\ KeptSound(qs, k2, 2)
    BY <1>2, <1>3, KeptStepSound
  <1> HIDE DEF k2
  <1>5. k3 \in Seq(S) /\ KeptSound(qs, k3, 3)
    BY <1>2, <1>4, KeptStepSound
  <1>6. Deduplicated(qs) = k3
    BY DeduplicatedSteps DEF k1, k2
  <1> QED
    BY <1>5, <1>6

Has(qs, m) == DefaultDimension[Panel[m]] \in Covered(qs)

\* What the first n judges have filled in behind the questions that were kept.
FillSound(kept, filled, items, n) ==
    /\ Len(kept) <= Len(filled) /\ Len(filled) <= 3
    /\ AllDiffer(filled)
    /\ \A i \in 1..Len(kept) : filled[i] = kept[i]
    /\ Len(filled) = 3 \/ \A m \in 1..n : Has(filled, m)

LEMMA FillStepSound ==
    ASSUME NEW S, NEW items, Questions(S, items), NEW kept \in Seq(S),
           NEW filled \in Seq(S), NEW n \in 1..3, FillSound(kept, filled, items, n - 1)
    PROVE  /\ FillStep(filled, items, n) \in Seq(S)
           /\ FillSound(kept, FillStep(filled, items, n), items, n)
  <1>1. /\ n \in Nat /\ n > 0 /\ Len(filled) \in Nat /\ Len(kept) \in Nat
        /\ Len(kept) <= Len(filled) /\ Len(filled) <= 3
        /\ \A m \in 1..n : m \in 1..n - 1 \/ m = n
    BY DEF FillSound
  <1>2. Len(filled) < 3 => \A m \in 1..n - 1 : Has(filled, m)
    BY <1>1 DEF FillSound
  <1>3. CASE ~ (Len(filled) < 3) \/ DefaultDimension[Panel[n]] \in Covered(filled)
    <2>1. FillStep(filled, items, n) = filled
      BY <1>3 DEF FillStep, PanelSize
    <2>2. Len(filled) = 3 \/ \A m \in 1..n : Has(filled, m)
      <3>1. CASE ~ (Len(filled) < 3)
        <4>1. \A k \in Nat : k <= 3 /\ ~ (k < 3) => k = 3
          OBVIOUS
        <4>2. Len(filled) = 3
          BY <1>1, <3>1, <4>1
        <4> QED
          BY <4>2
      <3>2. CASE Len(filled) < 3
        <4>1. Has(filled, n) /\ \A m \in 1..n - 1 : Has(filled, m)
          BY <1>2, <1>3, <3>2 DEF Has
        <4> QED
          BY <1>1, <4>1
      <3> QED
        BY <3>1, <3>2
    <2> QED
      BY <2>1, <2>2 DEF FillSound
  <1>4. CASE Len(filled) < 3 /\ DefaultDimension[Panel[n]] \notin Covered(filled)
    <2> DEFINE q == FallbackQuestion(Panel[n], items)
               next == Append(filled, q)
    <2>1. FillStep(filled, items, n) = next
      BY <1>4 DEF FillStep, PanelSize
    <2>2. q \in S /\ q.text = Panel[n] /\ q.dimension = DefaultDimension[Panel[n]]
      BY PanelThree, FallbackSound DEF Questions
    <2> HIDE DEF q
    <2>3. /\ next \in Seq(S) /\ Len(next) = Len(filled) + 1
          /\ \A i \in 1..Len(filled) : next[i] = filled[i]
          /\ next[Len(filled) + 1] = q
      BY <2>2, AppendProperties
    <2> HIDE DEF next
    <2>4. \A i \in 1..Len(next) : i \in 1..Len(filled) \/ i = Len(filled) + 1
      BY <1>1, <2>3
    <2>5. ASSUME NEW i \in 1..Len(filled) PROVE filled[i].text # q.text
      <3>1. filled[i].dimension \in Covered(filled)
        BY DEF Covered
      <3>2. filled[i] \in S
        BY ElementOfSeq
      <3>3. QuestionSound(filled[i], items) /\ Panel[n] \in Judges
        BY <3>2, PanelThree DEF Questions
      <3> QED
        BY <1>4, <2>2, <3>1, <3>3 DEF QuestionSound
    <2>6. AllDiffer(next)
      <3> SUFFICES ASSUME NEW i \in 1..Len(next), NEW j \in 1..Len(next), i # j
                   PROVE  next[i].text # next[j].text
        BY DEF AllDiffer
      <3>1. CASE i \in 1..Len(filled) /\ j \in 1..Len(filled)
        BY <2>3, <3>1 DEF FillSound, AllDiffer
      <3>2. CASE i \in 1..Len(filled) /\ j = Len(filled) + 1
        BY <2>3, <2>5, <3>2
      <3>3. CASE i = Len(filled) + 1 /\ j \in 1..Len(filled)
        BY <2>3, <2>5, <3>3
      <3> QED
        BY <2>4, <3>1, <3>2, <3>3
    <2>7. /\ Len(kept) <= Len(next) /\ Len(next) <= 3
          /\ \A i \in 1..Len(kept) : next[i] = kept[i]
      <3>1. \A i \in 1..Len(kept) : i \in 1..Len(filled)
        BY <1>1
      <3> QED
        BY <1>1, <1>4, <2>3, <3>1 DEF FillSound
    <2>8. \A m \in 1..n : Has(next, m)
      <3>1. \A i \in 1..Len(filled) : i \in DOMAIN next
        BY <1>1, <2>3
      <3>2. Len(filled) + 1 \in DOMAIN next
        BY <1>1, <2>3
      <3>3. Covered(filled) \subseteq Covered(next)
        BY <2>3, <3>1 DEF Covered
      <3>4. Has(next, n)
        BY <2>2, <2>3, <3>2 DEF Covered, Has
      <3>5. \A m \in 1..n - 1 : Has(next, m)
        BY <1>2, <1>4, <3>3 DEF Has
      <3> QED
        BY <1>1, <3>4, <3>5
    <2> QED
      BY <2>1, <2>3, <2>6, <2>7, <2>8 DEF FillSound
  <1> QED
    BY <1>1, <1>3, <1>4

\* Filling makes the panel three different questions, for the default dimensions are
\* three and two questions cover no more than two.
LEMMA FilledSound ==
    ASSUME NEW S, NEW items, Questions(S, items), NEW kept \in Seq(S),
           Len(kept) <= 3, AllDiffer(kept)
    PROVE  /\ Filled(kept, items) \in Seq(S)
           /\ Len(Filled(kept, items)) = 3
           /\ AllDiffer(Filled(kept, items))
           /\ \A i \in 1..Len(kept) : Filled(kept, items)[i] = kept[i]
  <1> DEFINE k1 == FillStep(kept, items, 1)
             k2 == FillStep(k1, items, 2)
             k3 == FillStep(k2, items, 3)
  <1>1. 1 \in 1..3 /\ 2 \in 1..3 /\ 3 \in 1..3 /\ 1 - 1 = 0 /\ 2 - 1 = 1 /\ 3 - 1 = 2
    OBVIOUS
  <1>2. FillSound(kept, kept, items, 0)
    BY DEF FillSound
  <1>3. k1 \in Seq(S) /\ FillSound(kept, k1, items, 1)
    BY <1>1, <1>2, FillStepSound
  <1> HIDE DEF k1
  <1>4. k2 \in Seq(S) /\ FillSound(kept, k2, items, 2)
    BY <1>1, <1>3, FillStepSound
  <1> HIDE DEF k2
  <1>5. k3 \in Seq(S) /\ FillSound(kept, k3, items, 3)
    BY <1>1, <1>4, FillStepSound
  <1>6. Filled(kept, items) = k3
    BY FilledSteps DEF k1, k2
  <1> HIDE DEF k3
  <1>7. Len(k3) = 3
    <2> SUFFICES ASSUME Len(k3) # 3 PROVE FALSE
      OBVIOUS
    <2>1. Len(k3) \in Nat /\ Len(k3) <= 3
      BY <1>5 DEF FillSound
    <2>2. DOMAIN k3 \subseteq {1, 2}
      BY SMTT(30), <1>5, <2>1
    <2>3. Covered(k3) \subseteq {k3[1].dimension, k3[2].dimension}
      BY <2>2 DEF Covered
    <2>4. /\ DefaultDimension[Panel[1]] \in Covered(k3)
          /\ DefaultDimension[Panel[2]] \in Covered(k3)
          /\ DefaultDimension[Panel[3]] \in Covered(k3)
      BY <1>1, <1>5 DEF FillSound, Has
    <2>5. /\ DefaultDimension[Panel[1]] # DefaultDimension[Panel[2]]
          /\ DefaultDimension[Panel[1]] # DefaultDimension[Panel[3]]
          /\ DefaultDimension[Panel[2]] # DefaultDimension[Panel[3]]
      BY DEF DefaultDimension, Panel
    <2> QED
      BY <2>3, <2>4, <2>5
  <1> QED
    BY <1>5, <1>6, <1>7 DEF FillSound

\* The panel is three different questions; each is one of those that were asked or is
\* declared as filled in.
LEMMA PanelSound ==
    ASSUME NEW S, NEW items, Questions(S, items), NEW qs \in Seq(S), Len(qs) = 3
    PROVE  LET panel == PanelQuestions(qs, items) IN
           /\ panel \in Seq(S) /\ Len(panel) = 3 /\ AllDiffer(panel)
           /\ \A i \in 1..3 : \/ \E m \in 1..3 : panel[i] = qs[m]
                              \/ panel[i].text \in FillDeclared(qs, items)
  <1> DEFINE kept == Deduplicated(qs)
             filled == Filled(kept, items)
             none == [i \in 1..0 |-> FallbackQuestion(Panel[Len(filled) + i], items)]
  <1>1. kept \in Seq(S) /\ KeptSound(qs, kept, 3)
    BY DeduplicatedSound
  <1>2. FillDeclared(qs, items) = {filled[i].text : i \in Len(kept) + 1..Len(filled)}
    BY DEF FillDeclared
  <1>3. PanelQuestions(qs, items) = Padded(filled, items)
    BY DEF PanelQuestions
  <1> HIDE DEF kept
  <1>4. Len(kept) \in Nat /\ Len(kept) <= 3 /\ AllDiffer(kept)
    BY <1>1 DEF KeptSound
  <1>5. /\ filled \in Seq(S) /\ Len(filled) = 3 /\ AllDiffer(filled)
        /\ \A i \in 1..Len(kept) : filled[i] = kept[i]
    BY <1>1, <1>4, FilledSound
  <1> HIDE DEF filled
  <1>6. Padded(filled, items) = filled
    <2>1. PanelSize - Len(filled) = 0
      BY <1>5 DEF PanelSize
    <2>2. Padded(filled, items) = filled \o none
      BY <2>1 DEF Padded
    <2>3. none = <<>>
      <3>1. none \in Seq({}) /\ Len(none) = 0
        OBVIOUS
      <3> QED
        BY <3>1, EmptySeq
    <2> QED
      BY <1>5, <2>2, <2>3, ConcatEmptySeq
  <1>7. ASSUME NEW i \in 1..3
        PROVE  \/ \E m \in 1..3 : filled[i] = qs[m]
               \/ filled[i].text \in FillDeclared(qs, items)
    <2>1. CASE i \in 1..Len(kept)
      BY <1>1, <1>5, <2>1 DEF KeptSound
    <2>2. CASE i \in Len(kept) + 1..Len(filled)
      BY <1>2, <2>2
    <2> QED
      BY <1>4, <1>5, <2>1, <2>2
  <1> QED
    BY <1>3, <1>5, <1>6, <1>7

-----------------------------------------------------------------------------
(* Assessments and feedback.                                               *)

\* Only those who belong to the job's stage ask or have got anything.
AskersInStage ==
    \A a \in Askers : asker[a] # Waiting \/ Calling(a) => InStage(a)

\* An assessment that is in order, with some follow-ups left.
Earned(got, remaining) ==
    \E x : /\ got = <<x>>
           /\ x = [score |-> x.score, byModel |-> x.byModel, followUp |-> x.followUp]
           /\ x.score \in 0..100
           /\ x.score > 0 => x.byModel
           /\ x.followUp => remaining > 0

\* Feedback that leaves no speaker out.
Covering(got) ==
    \A s \in Speakers : \A kind \in FindingKinds : got[1][s][kind] \in {"fine", "default"}

ResultSound(a, got, remaining) ==
    /\ a = "assessor" => Earned(got, remaining)
    /\ a = "reporter" => Covering(got)

ResultsSound ==
    \A a \in Askers : asker[a].done => ResultSound(a, asker[a].got, job.remaining)

\* What is known of a job by its stage.
StageSound ==
    /\ job.kind = "answer" /\ job.stage = 2 => job.spoken = "fine"
    /\ job.kind = "report" => job.stage = 1

ResultInv ==
    /\ ServiceInv
    /\ AskersInStage /\ ResultsSound /\ StageSound
    /\ CreditIsEarned /\ FeedbackForEverySpeaker

-----------------------------------------------------------------------------
(* What the askers get.                                                    *)

LEMMA JudgesAreOthers == "assessor" \notin Judges /\ "reporter" \notin Judges
  BY DEF Judges, Panel, ToSet

LEMMA NoCreditEarned == \A remaining : Earned(<<NoCredit>>, remaining)
  <1>1. /\ NoCredit.score = 0 /\ NoCredit.byModel = FALSE /\ NoCredit.followUp = FALSE
        /\ NoCredit = [score |-> NoCredit.score, byModel |-> NoCredit.byModel,
                       followUp |-> NoCredit.followUp]
    BY DEF NoCredit
  <1> QED
    BY <1>1 DEF Earned

LEMMA UnaidedSound ==
    ASSUME NEW a \in Askers
    PROVE  \A remaining : ResultSound(a, Unaided(a), remaining)
  <1>1. CASE a = "assessor"
    <2>1. Unaided(a) = <<NoCredit>>
      BY <1>1, JudgesAreOthers DEF Unaided
    <2> QED
      BY <1>1, <2>1, NoCreditEarned DEF ResultSound
  <1>2. CASE a = "reporter"
    <2>1. Unaided(a) = <<FallbackFeedback(Speakers)>>
      BY <1>2, JudgesAreOthers DEF Unaided
    <2>2. ASSUME NEW s \in Speakers, NEW kind \in FindingKinds
          PROVE  FallbackFeedback(Speakers)[s][kind] = "default"
      BY DEF FallbackFeedback
    <2>3. Unaided(a)[1] = FallbackFeedback(Speakers)
      BY <2>1
    <2> QED
      BY <1>2, <2>2, <2>3 DEF ResultSound, Covering
  <1>3. CASE a \notin {"assessor", "reporter"}
    BY <1>3 DEF ResultSound
  <1> QED
    BY <1>1, <1>2, <1>3

LEMMA AcceptedSound ==
    ASSUME NEW a \in Askers, NEW got \in Accepted(a)
    PROVE  ResultSound(a, got, job.remaining)
  <1>1. CASE a = "assessor"
    <2>1. PICK c \in Assessments : got = <<Assessment(c, job.remaining)>>
      BY <1>1, JudgesAreOthers DEF Accepted
    <2> DEFINE x == Assessment(c, job.remaining)
    <2>2. x = [score |-> Clamped(c.score), byModel |-> TRUE,
               followUp |-> job.remaining > 0 /\ c.followUp = "fine"]
      BY DEF Assessment
    <2>3. Clamped(c.score) \in 0..100
      <3>1. c.score \in Int
        BY ScoresAssumption
      <3> QED
        BY <3>1 DEF Clamped
    <2>4. /\ x.score = Clamped(c.score) /\ x.byModel = TRUE
          /\ x.followUp = (job.remaining > 0 /\ c.followUp = "fine")
          /\ x = [score |-> x.score, byModel |-> x.byModel, followUp |-> x.followUp]
      <3> HIDE DEF x
      <3> QED
        BY <2>2
    <2>5. Earned(got, job.remaining)
      <3> HIDE DEF x
      <3>1. got = <<x>>
        BY <2>1 DEF x
      <3> QED
        BY <2>3, <2>4, <3>1 DEF Earned
    <2> QED
      BY <1>1, <2>5 DEF ResultSound
  <1>2. CASE a = "reporter"
    <2>1. PICK c \in Feedbacks : got = <<Feedback(c, Speakers)>>
      BY <1>2, JudgesAreOthers DEF Accepted
    <2>2. ASSUME NEW s \in Speakers, NEW kind \in FindingKinds
          PROVE  Feedback(c, Speakers)[s][kind] \in {"fine", "default"}
      BY DEF Feedback
    <2>3. got[1] = Feedback(c, Speakers)
      BY <2>1
    <2> QED
      BY <1>2, <2>2, <2>3 DEF ResultSound, Covering
  <1>3. CASE a \notin {"assessor", "reporter"}
    BY <1>3 DEF ResultSound
  <1> QED
    BY <1>1, <1>2, <1>3

-----------------------------------------------------------------------------
(* The actions.                                                            *)

\* What is said of the results when the job goes on.
Going == UNCHANGED <<job, delivered>>

\* One asker of the stage moves on.
LEMMA OneMoves ==
    ASSUME ResultInv, Going, NEW a \in Askers, InStage(a),
           asker' = [asker EXCEPT ![a] = asker'[a]],
           \A d \in Callers \ {a} : call'[d] = call[d],
           asker'[a].done => ResultSound(a, asker'[a].got, job.remaining)
    PROVE  /\ AskersInStage' /\ ResultsSound' /\ StageSound'
           /\ CreditIsEarned' /\ FeedbackForEverySpeaker'
  <1>1. \A d \in Askers \ {a} : asker'[d] = asker[d] /\ call'[d] = call[d]
    BY CallersAssumption DEF ResultInv, ServiceInv, AskersSound
  <1>2. \A d \in Askers : InStage(d)' <=> InStage(d)
    BY DEF Going, InStage, Busy
  <1>3. AskersInStage'
    BY <1>1, <1>2 DEF ResultInv, AskersInStage, Calling
  <1>4. ResultsSound'
    BY <1>1 DEF ResultInv, ResultsSound, Going, ResultSound
  <1>5. StageSound' /\ CreditIsEarned' /\ FeedbackForEverySpeaker'
    BY DEF Going, ResultInv, StageSound, CreditIsEarned, FeedbackForEverySpeaker
  <1> QED
    BY <1>3, <1>4, <1>5

\* While the stage is done nobody of it is calling, nor is anybody else.
LEMMA NobodyCalls ==
    ASSUME ResultInv, StageDone
    PROVE  \A a \in Askers : ~ Calling(a)
  <1> SUFFICES ASSUME NEW a \in Askers, Calling(a) PROVE FALSE
    OBVIOUS
  <1>1. InStage(a)
    BY DEF ResultInv, AskersInStage
  <1>2. asker[a].done
    BY <1>1 DEF StageDone, InStage
  <1> QED
    BY <1>2 DEF ResultInv, ServiceInv, AskersSound, AskerSound

LEMMA AllForgotten ==
    ASSUME ResultInv, StageDone, ForgetAskers, UNCHANGED poolVars
    PROVE  AskersInStage' /\ ResultsSound'
  <1>1. \A a \in Askers : asker'[a] = Waiting
    BY DEF ForgetAskers
  <1>2. \A a \in Askers : ~ Calling(a)'
    BY NobodyCalls DEF Calling, poolVars
  <1>3. \A a \in Askers : ~ asker'[a].done
    BY <1>1 DEF Waiting
  <1> QED
    BY <1>1, <1>2, <1>3 DEF AskersInStage, ResultsSound

LEMMA AttemptMoves ==
    ASSUME ResultInv, NEW a \in Askers, ~ asker[a].done, NEW n,
           asker' = [asker EXCEPT ![a].attempt = n]
    PROVE  asker' = [asker EXCEPT ![a] = asker'[a]] /\ ~ asker'[a].done
  <1>1. asker[a].done = FALSE /\ asker = [d \in Askers |-> asker[d]]
    BY DEF ResultInv, ServiceInv, AskersSound, AskerSound
  <1>2. asker'[a] = [asker[a] EXCEPT !.attempt = n]
    BY <1>1
  <1>3. asker'[a].done = asker[a].done
    BY <1>2 DEF ResultInv, ServiceInv, AskersSound, AskerSound
  <1> QED
    BY <1>1, <1>2, <1>3

LEMMA DoneMoves ==
    ASSUME ResultInv, NEW a \in Askers, NEW aided, NEW got,
           asker' = [asker EXCEPT ![a] = Done(aided, got)]
    PROVE  asker' = [asker EXCEPT ![a] = asker'[a]] /\ asker'[a].got = got
  BY DEF ResultInv, ServiceInv, AskersSound, Done

LEMMA BeginMoves ==
    ASSUME ResultInv, NEW c \in Callers, NEW p, NEW preferred, Begin(c, p, preferred)
    PROVE  \A d \in Callers \ {c} : call'[d] = call[d]
  BY DEF Begin, ResultInv, ServiceInv, PoolInv, CallsSound

LEMMA ReturnMoves ==
    ASSUME ResultInv, NEW c \in Callers, Return(c)
    PROVE  \A d \in Callers \ {c} : call'[d] = call[d]
  BY DEF Return, ResultInv, ServiceInv, PoolInv, CallsSound

LEMMA CallerInStage ==
    ASSUME ResultInv, NEW a \in Askers, Calling(a)
    PROVE  InStage(a) /\ ~ asker[a].done /\ a \in Callers
  BY CallersAssumption DEF ResultInv, AskersInStage, ServiceInv, AskersSound, AskerSound

LEMMA GiveUpMoves ==
    ASSUME ResultInv, NEW a \in Askers, Calling(a), GiveUp(a), Going
    PROVE  /\ AskersInStage' /\ ResultsSound' /\ StageSound'
           /\ CreditIsEarned' /\ FeedbackForEverySpeaker'
  <1>1. InStage(a) /\ ~ asker[a].done /\ a \in Callers
    BY CallerInStage
  <1>2. CASE asker[a].attempt < Attempts(a)
    <2>1. /\ Begin(a, PoolOf(a), PreferredBy(a, asker[a].attempt + 1))
          /\ asker' = [asker EXCEPT ![a].attempt = asker[a].attempt + 1]
      BY <1>2 DEF GiveUp
    <2>2. asker' = [asker EXCEPT ![a] = asker'[a]] /\ ~ asker'[a].done
      BY <1>1, <2>1, AttemptMoves
    <2>3. \A d \in Callers \ {a} : call'[d] = call[d]
      BY <1>1, <2>1, BeginMoves
    <2> QED
      BY <1>1, <2>2, <2>3, OneMoves
  <1>3. CASE ~ (asker[a].attempt < Attempts(a))
    <2>1. Return(a) /\ asker' = [asker EXCEPT ![a] = Done(FALSE, Unaided(a))]
      BY <1>3 DEF GiveUp
    <2>2. asker' = [asker EXCEPT ![a] = asker'[a]] /\ asker'[a].got = Unaided(a)
      BY <2>1, DoneMoves
    <2>3. \A d \in Callers \ {a} : call'[d] = call[d]
      BY <1>1, <2>1, ReturnMoves
    <2>4. ResultSound(a, asker'[a].got, job.remaining)
      BY <2>2, UnaidedSound
    <2> QED
      BY <1>1, <2>2, <2>3, <2>4, OneMoves
  <1> QED
    BY <1>2, <1>3

ResultsKept ==
    /\ AskersInStage /\ ResultsSound /\ StageSound
    /\ CreditIsEarned /\ FeedbackForEverySpeaker

LEMMA AskKeeps ==
    ASSUME ResultInv, NEW a \in Askers, Ask(a)
    PROVE  ResultsKept'
  <1>1. /\ InStage(a) /\ ~ asker[a].done /\ a \in Callers /\ Going
        /\ Begin(a, PoolOf(a), PreferredBy(a, 1))
        /\ asker' = [asker EXCEPT ![a].attempt = 1]
    BY CallersAssumption DEF Ask, Going
  <1>2. asker' = [asker EXCEPT ![a] = asker'[a]] /\ ~ asker'[a].done
    BY <1>1, AttemptMoves
  <1>3. \A d \in Callers \ {a} : call'[d] = call[d]
    BY <1>1, BeginMoves
  <1> QED
    BY <1>1, <1>2, <1>3, OneMoves DEF ResultsKept

LEMMA RefuseKeeps ==
    ASSUME ResultInv, NEW a \in Askers, Refuse(a)
    PROVE  ResultsKept'
  <1>1. Going /\ Calling(a)
    BY DEF Going, Refuse
  <1>2. CASE GiveUp(a)
    BY <1>1, <1>2, GiveUpMoves DEF ResultsKept
  <1>3. CASE Rotate(a) /\ UNCHANGED asker
    <2>1. InStage(a) /\ ~ asker[a].done /\ a \in Callers
      BY <1>1, CallerInStage
    <2>2. \A d \in Callers \ {a} : call'[d] = call[d]
      BY <1>3 DEF Rotate, ResultInv, ServiceInv, PoolInv, CallsSound
    <2>3. asker' = [asker EXCEPT ![a] = asker'[a]] /\ ~ asker'[a].done
      BY <1>3, <2>1 DEF ResultInv, ServiceInv, AskersSound
    <2> QED
      BY <1>1, <2>1, <2>2, <2>3, OneMoves DEF ResultsKept
  <1> QED
    BY <1>2, <1>3 DEF Refuse

LEMMA UseKeeps ==
    ASSUME ResultInv, NEW a \in Askers, Use(a)
    PROVE  ResultsKept'
  <1>1. PICK got \in Accepted(a) : asker' = [asker EXCEPT ![a] = Done(TRUE, got)]
    BY DEF Use
  <1>2. InStage(a) /\ a \in Callers /\ Going /\ Return(a)
    BY CallerInStage DEF Use, Going
  <1>3. asker' = [asker EXCEPT ![a] = asker'[a]] /\ asker'[a].got = got
    BY <1>1, DoneMoves
  <1>4. \A d \in Callers \ {a} : call'[d] = call[d]
    BY <1>2, ReturnMoves
  <1>5. ResultSound(a, got, job.remaining)
    BY AcceptedSound
  <1> QED
    BY <1>2, <1>3, <1>4, <1>5, OneMoves DEF ResultsKept

LEMMA NothingLeftKeeps ==
    ASSUME ResultInv, NEW a \in Askers, TooLarge(a) \/ Reject(a)
    PROVE  ResultsKept'
  BY GiveUpMoves DEF TooLarge, Reject, Going, ResultsKept

LEMMA StartJobKeeps ==
    ASSUME ResultInv, NEW kind \in DOMAIN Stages, StartJob(kind)
    PROVE  ResultsKept'
  <1>1. \A a \in Askers : asker[a] = Waiting /\ ~ Calling(a)
    BY DEF ResultInv, AskersInStage, InStage, StartJob
  <1>2. AskersInStage' /\ ResultsSound'
    <2>1. \A a \in Askers : asker'[a] = Waiting /\ ~ Calling(a)'
      BY <1>1 DEF StartJob, poolVars, Calling
    <2>2. ~ Waiting.done
      BY DEF Waiting
    <2> QED
      BY <2>1, <2>2 DEF AskersInStage, ResultsSound
  <1>3. StageSound'
    <2>1. job'.kind = kind /\ (kind # "analysis" => job'.stage = 1)
      <3>1. PICK items \in IF kind = "report" THEN {<<>>} ELSE Bundles,
                 stage \in IF kind = "analysis" THEN {1, 2} ELSE {1},
                 spoken \in IF kind = "answer" THEN {"blank", "insult", "fine"} ELSE {"fine"},
                 remaining \in IF kind = "answer" THEN {0, 1} ELSE {0} :
                job' = [kind |-> kind, stage |-> stage, items |-> items, spoken |-> spoken,
                        remaining |-> remaining]
        BY DEF StartJob
      <3> QED
        BY <3>1
    <2> QED
      BY <2>1 DEF StageSound
  <1>4. CreditIsEarned' /\ FeedbackForEverySpeaker'
    <2>1. delivered'.job.kind = "none"
      BY DEF StartJob, Nothing, NoJob
    <2> QED
      BY <2>1 DEF CreditIsEarned, FeedbackForEverySpeaker
  <1> QED
    BY <1>2, <1>3, <1>4 DEF ResultsKept

\* What the end of a job delivers.
LEMMA EndJobDelivers ==
    ASSUME NEW status, NEW got, NEW declared, EndJob(status, got, declared)
    PROVE  /\ delivered'.job = job /\ delivered'.status = status /\ delivered'.got = got
           /\ job'.kind = "none"
           /\ ForgetAskers /\ UNCHANGED poolVars
           /\ StageSound'
  BY DEF EndJob, NoJob, StageSound

LEMMA AfterTranscriptionKeeps ==
    ASSUME ResultInv, AfterTranscription
    PROVE  ResultsKept'
  <1>1. StageDone /\ job.kind # "report" /\ job.stage = 1
    BY DEF AfterTranscription
  <1>2. CASE EndJob("failed", <<>>, {})
    <2>1. /\ delivered'.job = job /\ delivered'.status = "failed"
          /\ ForgetAskers /\ UNCHANGED poolVars /\ StageSound'
      BY <1>2, EndJobDelivers
    <2> QED
      BY <1>1, <2>1, AllForgotten DEF ResultsKept, CreditIsEarned, FeedbackForEverySpeaker
  <1>3. CASE EndJob("completed", <<NoCredit>>, {})
    <2>1. /\ delivered'.job = job /\ delivered'.got = <<NoCredit>>
          /\ ForgetAskers /\ UNCHANGED poolVars /\ StageSound'
      BY <1>3, EndJobDelivers
    <2>2. /\ delivered'.got[1].score = 0
          /\ delivered'.got[1].byModel = FALSE
          /\ delivered'.got[1].followUp = FALSE
      BY <2>1 DEF NoCredit
    <2>3. CreditIsEarned' /\ FeedbackForEverySpeaker'
      BY <1>1, <2>1, <2>2 DEF CreditIsEarned, FeedbackForEverySpeaker
    <2> QED
      BY <1>1, <2>1, <2>3, AllForgotten DEF ResultsKept
  <1>4. CASE /\ job.spoken = "fine"
             /\ job' = [job EXCEPT !.stage = 2]
             /\ ForgetAskers
             /\ UNCHANGED <<poolVars, usable, delivered, jobs, starved>>
    <2>1. AskersInStage' /\ ResultsSound'
      BY <1>1, <1>4, AllForgotten
    <2>2. job'.kind = job.kind /\ job'.spoken = job.spoken
      BY <1>4 DEF ResultInv, ServiceInv, JobSound
    <2>3. StageSound'
      BY <1>1, <1>4, <2>2 DEF StageSound
    <2>4. CreditIsEarned' /\ FeedbackForEverySpeaker'
      BY <1>4 DEF ResultInv, CreditIsEarned, FeedbackForEverySpeaker
    <2> QED
      BY <2>1, <2>3, <2>4 DEF ResultsKept
  <1> QED
    BY <1>2, <1>3, <1>4 DEF AfterTranscription

LEMMA FormPanelKeeps ==
    ASSUME ResultInv, FormPanel
    PROVE  ResultsKept'
  <1>1. PICK status, got, declared : EndJob(status, got, declared)
    BY DEF FormPanel
  <1>2. StageDone /\ job.kind = "analysis"
    BY DEF FormPanel
  <1>3. /\ delivered'.job = job
        /\ ForgetAskers /\ UNCHANGED poolVars /\ StageSound'
    BY <1>1, EndJobDelivers
  <1> QED
    BY <1>2, <1>3, AllForgotten DEF ResultsKept, CreditIsEarned, FeedbackForEverySpeaker

LEMMA ConcludeAnswerKeeps ==
    ASSUME ResultInv, ConcludeAnswer
    PROVE  ResultsKept'
  <1>1. StageDone /\ job.kind = "answer" /\ job.stage = 2 /\ job.spoken = "fine"
    BY DEF ConcludeAnswer, ResultInv, StageSound
  <1>2. asker["assessor"].done
    <2>1. "assessor" \in Stages[job.kind][job.stage]
      BY <1>1 DEF Stages
    <2> QED
      BY <1>1, <2>1 DEF StageDone
  <1>3. PICK x : /\ asker["assessor"].got = <<x>>
                 /\ x = [score |-> x.score, byModel |-> x.byModel, followUp |-> x.followUp]
                 /\ x.score \in 0..100
                 /\ x.score > 0 => x.byModel
                 /\ x.followUp => job.remaining > 0
    BY <1>2 DEF ResultInv, ResultsSound, ResultSound, Earned, Askers
  <1> DEFINE y == [x EXCEPT !.followUp = @ /\ job.items # <<>>]
  <1>4. /\ y.score = x.score /\ y.byModel = x.byModel
        /\ y.followUp = (x.followUp /\ job.items # <<>>)
    BY <1>3
  <1>5. EndJob("completed", <<y>>, {})
    <2>1. asker["assessor"].got[1] = x
      BY <1>3
    <2> QED
      BY <2>1 DEF ConcludeAnswer
  <1>6. /\ delivered'.job = job /\ delivered'.got[1] = y
        /\ ForgetAskers /\ UNCHANGED poolVars /\ StageSound'
    <2> HIDE DEF y
    <2>1. /\ delivered'.job = job /\ delivered'.got = <<y>>
          /\ ForgetAskers /\ UNCHANGED poolVars /\ StageSound'
      BY <1>5, EndJobDelivers
    <2> QED
      BY <2>1
  <1>7. CreditIsEarned' /\ FeedbackForEverySpeaker'
    <2> HIDE DEF y
    <2> QED
      BY <1>1, <1>3, <1>4, <1>6 DEF CreditIsEarned, FeedbackForEverySpeaker
  <1> QED
    BY <1>1, <1>6, <1>7, AllForgotten DEF ResultsKept

LEMMA ConcludeReportKeeps ==
    ASSUME ResultInv, ConcludeReport
    PROVE  ResultsKept'
  <1>1. StageDone /\ job.kind = "report" /\ job.stage = 1
    BY DEF ConcludeReport, ResultInv, StageSound
  <1>2. asker["reporter"].done
    <2>1. "reporter" \in Stages[job.kind][job.stage]
      BY <1>1 DEF Stages
    <2> QED
      BY <1>1, <2>1 DEF StageDone
  <1>3. Covering(asker["reporter"].got)
    BY <1>2 DEF ResultInv, ResultsSound, ResultSound, Askers
  <1>4. /\ delivered'.job = job /\ delivered'.got = asker["reporter"].got
        /\ ForgetAskers /\ UNCHANGED poolVars /\ StageSound'
    BY EndJobDelivers DEF ConcludeReport
  <1>5. CreditIsEarned' /\ FeedbackForEverySpeaker'
    BY <1>1, <1>3, <1>4 DEF CreditIsEarned, FeedbackForEverySpeaker, Covering
  <1> QED
    BY <1>1, <1>4, <1>5, AllForgotten DEF ResultsKept

LEMMA ResultsStutter ==
    ASSUME ResultInv, UNCHANGED vars
    PROVE  ResultsKept'
  BY DEF ResultInv, ResultsKept, vars, poolVars, AskersInStage, Calling, InStage, Busy,
         ResultsSound, ResultSound, StageSound, CreditIsEarned, FeedbackForEverySpeaker

-----------------------------------------------------------------------------
(* The theorems.                                                           *)

LEMMA ResultInit == Init => ResultInv
  <1> SUFFICES ASSUME Init PROVE ResultInv
    OBVIOUS
  <1>1. ServiceInv
    BY InitSound
  <1>2. \A a \in Askers : asker[a] = Waiting /\ ~ Calling(a)
    BY CallersAssumption DEF Init, PoolInit, Calling, Idle
  <1>3. AskersInStage /\ ResultsSound
    BY <1>2 DEF AskersInStage, ResultsSound, Waiting
  <1>4. job.kind = "none" /\ delivered.job.kind = "none"
    BY DEF Init, Nothing, NoJob
  <1>5. StageSound /\ CreditIsEarned /\ FeedbackForEverySpeaker
    BY <1>4 DEF StageSound, CreditIsEarned, FeedbackForEverySpeaker
  <1> QED
    BY <1>1, <1>3, <1>5 DEF ResultInv

LEMMA ResultNext == ResultInv /\ [Next]_vars => ResultInv'
  <1> SUFFICES ASSUME ResultInv, [Next]_vars PROVE ResultInv'
    OBVIOUS
  <1>1. ServiceInv'
    BY NextSound DEF ResultInv
  <1>2. ASSUME NEW kind \in DOMAIN Stages, StartJob(kind) PROVE ResultsKept'
    BY <1>2, StartJobKeeps
  <1>3. ASSUME NEW a \in Askers, Ask(a) PROVE ResultsKept'
    BY <1>3, AskKeeps
  <1>4. ASSUME NEW a \in Askers, Refuse(a) PROVE ResultsKept'
    BY <1>4, RefuseKeeps
  <1>5. ASSUME NEW a \in Askers, TooLarge(a) \/ Reject(a) PROVE ResultsKept'
    BY <1>5, NothingLeftKeeps
  <1>6. ASSUME NEW a \in Askers, Use(a) PROVE ResultsKept'
    BY <1>6, UseKeeps
  <1>7. AfterTranscription => ResultsKept'
    BY AfterTranscriptionKeeps
  <1>8. FormPanel => ResultsKept'
    BY FormPanelKeeps
  <1>9. ConcludeAnswer => ResultsKept'
    BY ConcludeAnswerKeeps
  <1>10. ConcludeReport => ResultsKept'
    BY ConcludeReportKeeps
  <1>11. (UNCHANGED vars) => ResultsKept'
    BY ResultsStutter
  <1>12. ResultsKept'
    BY <1>2, <1>3, <1>4, <1>5, <1>6, <1>7, <1>8, <1>9, <1>10, <1>11 DEF Next, Work
  <1> QED
    BY <1>1, <1>12 DEF ResultInv, ResultsKept

LEMMA ResultInvariant == Spec => []ResultInv
  BY ResultInit, ResultNext, PTL DEF Spec

\* Credit comes from a model and neither for silence nor for an insult, whatever the
\* models answer.
THEOREM CreditIsAlwaysEarned == Spec => []CreditIsEarned
  <1>1. ResultInv => CreditIsEarned
    BY DEF ResultInv
  <1> QED
    BY <1>1, ResultInvariant, PTL

\* Every one of any number of speakers gets a strength and an improvement.
THEOREM EverySpeakerGetsFeedback == Spec => []FeedbackForEverySpeaker
  <1>1. ResultInv => FeedbackForEverySpeaker
    BY DEF ResultInv
  <1> QED
    BY <1>1, ResultInvariant, PTL

-----------------------------------------------------------------------------
(* What the judges get, and the panel of an analysis.                      *)

\* No model asks, word for word, what a judge asks without a model; names stand for
\* texts, and such a question is named after its judge.
ModelsAskTheirOwn == \A c \in Candidates : c.text \notin Judges

\* A judge has a sound question, which is the deterministic one only if no model
\* helped, and then it is the judge's own.
QuestionOf(a, aided, got, items) ==
    \E q : /\ got = <<q>>
           /\ QuestionSound(q, items)
           /\ q.text \in Judges => ~ aided /\ q.text = a

ItemsSound == job.items \in Seq(Item)

JudgesSound ==
    \A a \in Judges : asker[a].done => QuestionOf(a, asker[a].aided, asker[a].got, job.items)

PanelKept == ItemsSound /\ JudgesSound /\ PanelOfThree /\ FallbackIsDeclared

PanelInv == ResultInv /\ PanelKept

\* A judge without a model.
LEMMA UnaidedQuestion ==
    ASSUME NEW a \in Judges, ItemsSound
    PROVE  QuestionOf(a, FALSE, Unaided(a), job.items)
  <1> DEFINE q == FallbackQuestion(a, job.items)
  <1>1. Unaided(a) = <<q>>
    BY DEF Unaided
  <1>2. QuestionSound(q, job.items) /\ q.text = a
    BY FallbackSound DEF ItemsSound
  <1> HIDE DEF q
  <1> QED
    BY <1>1, <1>2 DEF QuestionOf

\* A judge whose model's answer is accepted.
LEMMA AcceptedQuestion ==
    ASSUME ModelsAskTheirOwn, NEW a \in Judges, NEW got \in Accepted(a)
    PROVE  QuestionOf(a, TRUE, got, job.items)
  <1>1. PICK c \in Candidates : /\ AcceptableQuestion(c, job.items)
                                /\ got = <<Validated(a, c, job.items)>>
    BY DEF Accepted
  <1> DEFINE q == Validated(a, c, job.items)
  <1>2. q.text = c.text /\ q.evidence = c.evidence \cap Ids(job.items)
    BY DEF Validated
  <1>3. c.text \notin Judges /\ c.evidence \cap Ids(job.items) # {}
    BY <1>1 DEF ModelsAskTheirOwn, AcceptableQuestion
  <1>4. got = <<q>>
    BY <1>1
  <1> HIDE DEF q
  <1>5. QuestionSound(q, job.items)
    BY <1>2, <1>3 DEF QuestionSound
  <1> QED
    BY <1>2, <1>3, <1>4, <1>5 DEF QuestionOf

\* One asker moves on, and the job with it.
LEMMA JudgeMoves ==
    ASSUME PanelInv, Going, NEW a \in Askers, asker' = [asker EXCEPT ![a] = asker'[a]],
           a \in Judges /\ asker'[a].done
              => QuestionOf(a, asker'[a].aided, asker'[a].got, job.items)
    PROVE  PanelKept'
  <1>1. \A d \in Askers \ {a} : asker'[d] = asker[d]
    BY DEF PanelInv, ResultInv, ServiceInv, AskersSound
  <1>2. job' = job /\ delivered' = delivered /\ Judges \subseteq Askers
    BY DEF Going, Askers
  <1>3. JudgesSound'
    BY <1>1, <1>2 DEF PanelInv, PanelKept, JudgesSound
  <1> QED
    BY <1>2, <1>3 DEF PanelInv, PanelKept, ItemsSound, PanelOfThree, FallbackIsDeclared,
                      DeliveredPanel

\* Nobody has got anything yet.
LEMMA NobodyHas ==
    ASSUME \A a \in Askers : asker'[a] = Waiting
    PROVE  JudgesSound'
  BY DEF JudgesSound, Waiting, Askers

LEMMA DoneIs ==
    ASSUME PanelInv, NEW a \in Askers, NEW aided, NEW got,
           asker' = [asker EXCEPT ![a] = Done(aided, got)]
    PROVE  asker'[a].got = got /\ asker'[a].aided = aided
  BY DEF PanelInv, ResultInv, ServiceInv, AskersSound, Done

LEMMA GiveUpPanel ==
    ASSUME PanelInv, NEW a \in Askers, Calling(a), GiveUp(a), Going
    PROVE  PanelKept'
  <1>1. ~ asker[a].done /\ ResultInv
    BY CallerInStage DEF PanelInv
  <1>2. CASE asker[a].attempt < Attempts(a)
    <2>1. asker' = [asker EXCEPT ![a].attempt = asker[a].attempt + 1]
      BY <1>2 DEF GiveUp
    <2>2. asker' = [asker EXCEPT ![a] = asker'[a]] /\ ~ asker'[a].done
      BY <1>1, <2>1, AttemptMoves
    <2> QED
      BY <2>2, JudgeMoves
  <1>3. CASE ~ (asker[a].attempt < Attempts(a))
    <2>1. asker' = [asker EXCEPT ![a] = Done(FALSE, Unaided(a))]
      BY <1>3 DEF GiveUp
    <2>2. asker' = [asker EXCEPT ![a] = asker'[a]]
      BY <1>1, <2>1, DoneMoves
    <2>3. asker'[a].got = Unaided(a) /\ asker'[a].aided = FALSE
      BY <2>1, DoneIs
    <2>4. a \in Judges => QuestionOf(a, asker'[a].aided, asker'[a].got, job.items)
      BY <2>3, UnaidedQuestion DEF PanelInv, PanelKept
    <2> QED
      BY <2>2, <2>4, JudgeMoves
  <1> QED
    BY <1>2, <1>3

LEMMA AskerPanel ==
    ASSUME ModelsAskTheirOwn, PanelInv, NEW a \in Askers,
           Ask(a) \/ Refuse(a) \/ TooLarge(a) \/ Use(a) \/ Reject(a)
    PROVE  PanelKept'
  <1>1. Going /\ ResultInv
    BY DEF Going, Ask, Refuse, TooLarge, Use, Reject, PanelInv
  <1>2. CASE Ask(a)
    <2>1. ~ asker[a].done /\ asker' = [asker EXCEPT ![a].attempt = 1]
      BY <1>2 DEF Ask
    <2>2. asker' = [asker EXCEPT ![a] = asker'[a]] /\ ~ asker'[a].done
      BY <1>1, <2>1, AttemptMoves
    <2> QED
      BY <1>1, <2>2, JudgeMoves
  <1>3. CASE Calling(a) /\ GiveUp(a)
    BY <1>1, <1>3, GiveUpPanel
  <1>4. CASE Calling(a) /\ UNCHANGED asker
    <2>1. ~ asker[a].done
      BY <1>1, <1>4, CallerInStage
    <2>2. asker' = [asker EXCEPT ![a] = asker'[a]] /\ ~ asker'[a].done
      BY <1>1, <1>4, <2>1 DEF ResultInv, ServiceInv, AskersSound
    <2> QED
      BY <1>1, <2>2, JudgeMoves
  <1>5. CASE Use(a)
    <2>1. PICK got \in Accepted(a) : asker' = [asker EXCEPT ![a] = Done(TRUE, got)]
      BY <1>5 DEF Use
    <2>2. asker' = [asker EXCEPT ![a] = asker'[a]]
      BY <1>1, <2>1, DoneMoves
    <2>3. asker'[a].got = got /\ asker'[a].aided = TRUE
      BY <2>1, DoneIs
    <2>4. a \in Judges => QuestionOf(a, asker'[a].aided, asker'[a].got, job.items)
      BY <2>3, AcceptedQuestion
    <2> QED
      BY <1>1, <2>2, <2>4, JudgeMoves
  <1>6. Refuse(a) => Calling(a) /\ (GiveUp(a) \/ UNCHANGED asker)
    BY DEF Refuse
  <1>7. TooLarge(a) \/ Reject(a) => Calling(a) /\ GiveUp(a)
    BY DEF TooLarge, Reject
  <1> QED
    BY <1>2, <1>3, <1>4, <1>5, <1>6, <1>7

LEMMA StartJobPanel ==
    ASSUME PanelInv, NEW kind \in DOMAIN Stages, StartJob(kind)
    PROVE  PanelKept'
  <1>1. \A a \in Askers : asker'[a] = Waiting
    BY DEF PanelInv, ResultInv, AskersInStage, InStage, StartJob
  <1>2. ItemsSound'
    <2>1. PICK items \in IF kind = "report" THEN {<<>>} ELSE Bundles,
               stage \in IF kind = "analysis" THEN {1, 2} ELSE {1},
               spoken \in IF kind = "answer" THEN {"blank", "insult", "fine"} ELSE {"fine"},
               remaining \in IF kind = "answer" THEN {0, 1} ELSE {0} :
              job' = [kind |-> kind, stage |-> stage, items |-> items, spoken |-> spoken,
                      remaining |-> remaining]
      BY DEF StartJob
    <2>2. items \in Seq(Item)
      <3>1. <<>> \in Seq(Item)
        OBVIOUS
      <3> QED
        BY <3>1, EvidenceAssumption
    <2>3. job'.items = items
      BY <2>1
    <2> QED
      BY <2>2, <2>3 DEF ItemsSound
  <1>3. delivered'.job.kind = "none"
    BY DEF StartJob, Nothing, NoJob
  <1> QED
    BY <1>1, <1>2, <1>3, NobodyHas DEF PanelKept, PanelOfThree, FallbackIsDeclared, DeliveredPanel

\* A job ends that is no analysis, or before its panel is formed.
LEMMA OtherEndPanel ==
    ASSUME PanelInv, NEW status, NEW got, NEW declared, EndJob(status, got, declared),
           job.kind # "analysis" \/ job.stage # 2
    PROVE  PanelKept'
  <1>1. delivered'.job = job /\ job' = NoJob /\ ForgetAskers
    BY DEF EndJob
  <1>2. JudgesSound'
    BY <1>1, NobodyHas DEF ForgetAskers
  <1>3. ItemsSound'
    BY <1>1 DEF ItemsSound, NoJob
  <1> QED
    BY <1>1, <1>2, <1>3 DEF PanelKept, PanelOfThree, FallbackIsDeclared, DeliveredPanel

LEMMA AfterTranscriptionPanel ==
    ASSUME PanelInv, AfterTranscription
    PROVE  PanelKept'
  <1>1. job.stage = 1
    BY DEF AfterTranscription
  <1>2. CASE \E status, got, declared : EndJob(status, got, declared)
    BY <1>1, <1>2, OtherEndPanel
  <1>3. CASE /\ job' = [job EXCEPT !.stage = 2]
             /\ ForgetAskers
             /\ UNCHANGED <<poolVars, usable, delivered, jobs, starved>>
    <2>1. JudgesSound'
      BY <1>3, NobodyHas DEF ForgetAskers
    <2>2. job'.items = job.items
      BY <1>3 DEF PanelInv, ResultInv, ServiceInv, JobSound
    <2> QED
      BY <1>3, <2>1, <2>2 DEF PanelInv, PanelKept, ItemsSound, PanelOfThree,
                              FallbackIsDeclared, DeliveredPanel
  <1> QED
    BY <1>2, <1>3 DEF AfterTranscription

\* The panel is formed.
LEMMA FormPanelPanel ==
    ASSUME PanelInv, FormPanel
    PROVE  PanelKept'
  <1> DEFINE items == job.items
             asked == [i \in DOMAIN Panel |-> asker[Panel[i]].got[1]]
             first == PanelQuestions(asked, items)
             second == PanelQuestions(first, items)
             S == {asked[i] : i \in 1..3} \cup {FallbackQuestion(j, items) : j \in Judges}
             status == IF \A i \in DOMAIN second : second[i].evidence # {}
                       THEN "completed" ELSE "failed"
             declared == Declared \cup FillDeclared(asked, items)
                                  \cup FillDeclared(first, items)
  <1>1. EndJob(status, second, declared) /\ job.kind = "analysis" /\ job.stage = 2 /\ StageDone
    BY DEF FormPanel
  <1>2. \A i \in 1..3 : /\ QuestionSound(asked[i], items)
                        /\ asked[i].text \in Judges => asked[i].text \in Declared
    <2> SUFFICES ASSUME NEW i \in 1..3
                 PROVE  /\ QuestionSound(asked[i], items)
                        /\ asked[i].text \in Judges => asked[i].text \in Declared
      OBVIOUS
    <2>1. Panel[i] \in Judges
      BY PanelThree
    <2>2. asker[Panel[i]].done
      <3>1. Stages["analysis"][2] = Judges
        BY DEF Stages
      <3> QED
        BY <1>1, <2>1, <3>1 DEF StageDone
    <2>3. PICK q : /\ asker[Panel[i]].got = <<q>>
                   /\ QuestionSound(q, items)
                   /\ q.text \in Judges => ~ asker[Panel[i]].aided /\ q.text = Panel[i]
      BY <2>1, <2>2 DEF PanelInv, PanelKept, JudgesSound, QuestionOf
    <2>4. asked[i] = q
      BY <2>3, PanelThree
    <2> QED
      BY <2>1, <2>3, <2>4 DEF Declared
  <1>3. asked \in Seq(S) /\ Len(asked) = 3
    <2>1. asked = [i \in 1..3 |-> asked[i]]
      BY PanelThree
    <2>2. \A i \in 1..3 : asked[i] \in S
      OBVIOUS
    <2> HIDE DEF asked, S
    <2> QED
      BY <2>1, <2>2
  <1>4. Questions(S, items)
    <2>1. \A j \in Judges : QuestionSound(FallbackQuestion(j, items), items)
      BY FallbackSound DEF PanelInv, PanelKept, ItemsSound
    <2>2. \A q \in S : QuestionSound(q, items)
      BY <1>2, <2>1
    <2> QED
      BY <2>2 DEF Questions, PanelInv, PanelKept, ItemsSound
  <1> HIDE DEF asked, S
  <1>5. /\ first \in Seq(S) /\ Len(first) = 3
        /\ \A i \in 1..3 : \/ \E m \in 1..3 : first[i] = asked[m]
                           \/ first[i].text \in FillDeclared(asked, items)
    BY <1>3, <1>4, PanelSound
  <1> HIDE DEF first
  <1>6. /\ second \in Seq(S) /\ Len(second) = 3 /\ AllDiffer(second)
        /\ \A i \in 1..3 : \/ \E m \in 1..3 : second[i] = first[m]
                           \/ second[i].text \in FillDeclared(first, items)
    BY <1>4, <1>5, PanelSound
  <1> HIDE DEF second
  <1>7. DOMAIN second = 1..3 /\ \A i \in 1..3 : second[i] \in S
    BY <1>6
  <1>8. \A i \in 1..3 : QuestionSound(second[i], items)
    BY <1>4, <1>7 DEF Questions
  <1>9. items # <<>> => status = "completed"
    BY <1>7, <1>8 DEF QuestionSound
  <1>10. \A i \in 1..3 : second[i].text \in Judges => second[i].text \in declared
    BY <1>2, <1>5, <1>6
  <1> HIDE DEF status, declared
  <1>11. /\ delivered'.job = job /\ delivered'.status = status
         /\ delivered'.got = second /\ delivered'.declared = declared
         /\ job' = NoJob /\ ForgetAskers
    BY <1>1 DEF EndJob
  <1>12. PanelOfThree'
    <2>1. /\ Len(delivered'.got) = PanelSize /\ DOMAIN delivered'.got = 1..3
          /\ delivered'.job.items = items
      BY <1>6, <1>7, <1>11 DEF PanelSize
    <2>2. \A m, n \in 1..3 : m # n => second[m].text # second[n].text
      BY <1>6 DEF AllDiffer
    <2>3. \A n \in 1..3 : second[n].evidence \subseteq Ids(items)
      BY <1>8 DEF QuestionSound
    <2> HIDE DEF items
    <2> QED
      BY <1>9, <1>11, <2>1, <2>2, <2>3 DEF PanelOfThree
  <1>13. FallbackIsDeclared'
    BY <1>7, <1>10, <1>11 DEF FallbackIsDeclared
  <1>14. JudgesSound' /\ ItemsSound'
    BY <1>11, NobodyHas DEF ForgetAskers, ItemsSound, NoJob
  <1> QED
    BY <1>12, <1>13, <1>14 DEF PanelKept

LEMMA PanelNext == ModelsAskTheirOwn /\ PanelInv /\ [Next]_vars => PanelInv'
  <1> SUFFICES ASSUME ModelsAskTheirOwn, PanelInv, [Next]_vars PROVE PanelInv'
    OBVIOUS
  <1>1. ResultInv'
    BY ResultNext DEF PanelInv
  <1>2. ASSUME NEW a \in Askers, Ask(a) \/ Refuse(a) \/ TooLarge(a) \/ Use(a) \/ Reject(a)
        PROVE  PanelKept'
    BY <1>2, AskerPanel
  <1>3. ASSUME NEW kind \in DOMAIN Stages, StartJob(kind) PROVE PanelKept'
    BY <1>3, StartJobPanel
  <1>4. AfterTranscription => PanelKept'
    BY AfterTranscriptionPanel
  <1>5. FormPanel => PanelKept'
    BY FormPanelPanel
  <1>6. ConcludeAnswer => PanelKept'
    <2> SUFFICES ASSUME ConcludeAnswer PROVE PanelKept'
      OBVIOUS
    <2>1. PICK got : EndJob("completed", got, {})
      BY DEF ConcludeAnswer
    <2>2. job.kind # "analysis"
      BY DEF ConcludeAnswer
    <2> QED
      BY <2>1, <2>2, OtherEndPanel
  <1>7. ConcludeReport => PanelKept'
    BY OtherEndPanel DEF ConcludeReport
  <1>8. CASE UNCHANGED vars
    <2>1. job' = job /\ asker' = asker /\ delivered' = delivered
      BY <1>8 DEF vars
    <2>2. ItemsSound' /\ JudgesSound'
      BY <2>1 DEF PanelInv, PanelKept, ItemsSound, JudgesSound
    <2>3. PanelOfThree'
      BY <2>1 DEF PanelInv, PanelKept, PanelOfThree, DeliveredPanel
    <2>4. FallbackIsDeclared'
      BY <2>1 DEF PanelInv, PanelKept, FallbackIsDeclared, DeliveredPanel
    <2> QED
      BY <1>1, <2>2, <2>3, <2>4 DEF PanelInv, PanelKept
  <1> QED
    BY <1>1, <1>2, <1>3, <1>4, <1>5, <1>6, <1>7, <1>8 DEF Next, Work, PanelInv

LEMMA PanelInit == Init => PanelInv
  <1> SUFFICES ASSUME Init PROVE PanelInv
    OBVIOUS
  <1>1. ResultInv
    BY ResultInit
  <1>2. ItemsSound /\ JudgesSound
    BY DEF Init, ItemsSound, NoJob, JudgesSound, Waiting, Askers
  <1>3. delivered.job.kind = "none"
    BY DEF Init, Nothing, NoJob
  <1> QED
    BY <1>1, <1>2, <1>3 DEF PanelInv, PanelKept, PanelOfThree, FallbackIsDeclared, DeliveredPanel

\* Whatever evidence there is and whatever the judges' models answer, as long as no
\* model asks word for word what a judge asks without one: the panel is three different
\* questions about the evidence.
THEOREM PanelIsThreeQuestions ==
    ASSUME ModelsAskTheirOwn
    PROVE  Spec => []PanelOfThree
  <1>1. PanelInv /\ [Next]_vars => PanelInv'
    BY PanelNext
  <1>2. PanelInv => PanelOfThree
    BY DEF PanelInv, PanelKept
  <1> QED
    BY <1>1, <1>2, PanelInit, PTL DEF Spec

\* And whichever question of the panel no model asked is declared.
THEOREM FallbacksAreDeclared ==
    ASSUME ModelsAskTheirOwn
    PROVE  Spec => []FallbackIsDeclared
  <1>1. PanelInv /\ [Next]_vars => PanelInv'
    BY PanelNext
  <1>2. PanelInv => FallbackIsDeclared
    BY DEF PanelInv, PanelKept
  <1> QED
    BY <1>1, <1>2, PanelInit, PTL DEF Spec
=============================================================================
