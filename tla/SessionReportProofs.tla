-------------------------- MODULE SessionReportProofs --------------------------
(***************************************************************************)
(* What TLAPS proves of SessionReport: its invariants, for any recording,  *)
(* anything that the services may answer, any round of questions and any   *)
(* opinion of the judge.                                                   *)
(*                                                                         *)
(* Most of the operators of the model go through a sequence, and are       *)
(* recursive functions.  What they compute is proved by an induction that  *)
(* is stated for sets of numbers (Induction), which rests on the library's *)
(* well-founded relations and takes no operator as a parameter; Loop is    *)
(* the existence of the functions.                                         *)
(***************************************************************************)
EXTENDS SessionReport, SequenceTheorems, FiniteSetTheorems, WellFoundedInduction, TLAPS

-----------------------------------------------------------------------------
(* Induction, stated for sets of numbers.                                  *)

Less == {ss \in Nat \X Nat : ss[1] < ss[2]}

LEMMA LessWellFounded == IsWellFoundedOn(Less, Nat)
  BY NatLessThanWellFounded, Zenon DEF OpToRel, Less

LEMMA LeastMember ==
    ASSUME NEW T, T \subseteq Nat, T # {}
    PROVE  \E m \in T : \A k \in T : m <= k
  <1>1. \E m \in T : \A k \in T : ~ (<<k, m>> \in Less)
    BY LessWellFounded, WFMin, Zenon
  <1>2. PICK m \in T : \A k \in T : ~ (<<k, m>> \in Less)
    BY <1>1
  <1>3. ASSUME NEW k \in T, ~(m <= k) PROVE FALSE
    <2>1. k \in Nat /\ m \in Nat /\ k < m
      BY <1>3
    <2>2. <<k, m>> \in Less
      BY <2>1 DEF Less
    <2> QED
      BY <1>2, <2>2
  <1> QED
    BY <1>3

\* A set has all the numbers up to a bound if it has 0 and with a number the next one.
LEMMA Induction ==
    ASSUME NEW N \in Nat, NEW T, 0 \in T, \A n \in 1..N : n - 1 \in T => n \in T
    PROVE  \A n \in 0..N : n \in T
  <1> DEFINE D == (0..N) \ T
  <1> SUFFICES ASSUME D # {} PROVE FALSE
    OBVIOUS
  <1>1. PICK m \in D : \A k \in D : m <= k
    <2>1. D \subseteq Nat
      OBVIOUS
    <2> HIDE DEF D
    <2> QED
      BY <2>1, LeastMember
  <1>2. m \in 1..N /\ m - 1 \in 0..N /\ ~(m <= m - 1)
    BY <1>1
  <1>3. m - 1 \in T
    BY <1>1, <1>2
  <1> QED
    BY <1>1, <1>2, <1>3

-----------------------------------------------------------------------------
(* Sequences.                                                              *)

IsSeq(s) == \E n \in Nat : s = [i \in 1..n |-> s[i]]

Members(s) == {s[i] : i \in DOMAIN s}

LEMMA SeqIs ==
    ASSUME NEW s, IsSeq(s)
    PROVE  /\ s \in Seq(Members(s)) /\ Len(s) \in Nat /\ DOMAIN s = 1..Len(s)
           /\ s = [i \in 1..Len(s) |-> s[i]]
  <1>1. PICK n \in Nat : s = [i \in 1..n |-> s[i]]
    BY DEF IsSeq
  <1>2. DOMAIN s = 1..n
    BY <1>1
  <1>3. s \in [1..n -> Members(s)]
    BY <1>1, <1>2 DEF Members
  <1>4. s \in Seq(Members(s))
    BY <1>3
  <1>5. Len(s) = n
    BY <1>2, <1>4
  <1> QED
    BY <1>1, <1>2, <1>4, <1>5

LEMMA IsSeqOf ==
    ASSUME NEW S, NEW s \in Seq(S)
    PROVE  IsSeq(s)
  BY LenProperties DEF IsSeq

LEMMA FunctionIsSeq ==
    ASSUME NEW n \in Nat, NEW S, NEW s \in [1..n -> S]
    PROVE  s \in Seq(S) /\ Len(s) = n
  OBVIOUS

LEMMA SeqMade ==
    ASSUME NEW n \in Nat, NEW s, s = [i \in 1..n |-> s[i]]
    PROVE  IsSeq(s) /\ Len(s) = n /\ DOMAIN s = 1..n
  <1>1. IsSeq(s)
    BY DEF IsSeq
  <1>2. DOMAIN s = 1..n /\ Len(s) \in Nat /\ DOMAIN s = 1..Len(s)
    BY <1>1, SeqIs
  <1> QED
    BY <1>1, <1>2

\* There is a function with a first value and a step from each value to the next one.
Loops(N, V, start, step) ==
    \E f \in [0..N -> V] :
        f[0] = start /\ \A n \in 1..N : f[n] = step[<<f[n - 1], n>>]

\* A function that is defined by its value at 0 and by the step to the next value exists,
\* and keeps to a set that the steps do not leave.
LEMMA Loop ==
    ASSUME NEW N \in Nat, NEW V, NEW start \in V, NEW step \in [V \X (1..N) -> V]
    PROVE  Loops(N, V, start, step)
  <1> DEFINE Eqn(f, m) == /\ f \in [0..m -> V]
                          /\ f[0] = start
                          /\ \A n \in 1..m : f[n] = step[<<f[n - 1], n>>]
             T == {m \in 0..N : \E f : Eqn(f, m)}
  <1>1. 0 \in T
    <2> DEFINE f == [n \in 0..0 |-> start]
    <2>1. Eqn(f, 0)
      OBVIOUS
    <2> HIDE DEF f, Eqn
    <2>2. \E g : Eqn(g, 0)
      BY <2>1
    <2> QED
      BY <2>2
  <1>2. ASSUME NEW m \in 1..N, m - 1 \in T PROVE m \in T
    <2>1. PICK f : Eqn(f, m - 1)
      BY <1>2
    <2>2. /\ m - 1 \in 0..N /\ m \in 0..N /\ m - 1 \in 0..m - 1
          /\ \A n \in 0..m : n # m => n \in 0..m - 1
          /\ \A n \in 1..m - 1 : n # m /\ n - 1 # m /\ n \in 0..m /\ n - 1 \in 0..m - 1
                                 /\ n - 1 \in 0..m
          /\ 0 # m /\ 0 \in 0..m /\ m - 1 # m /\ m - 1 \in 0..m /\ m \in 0..m
          /\ \A n \in 1..m : n # m => n \in 1..m - 1
      OBVIOUS
    <2> DEFINE last == step[<<f[m - 1], m>>]
               g == [n \in 0..m |-> IF n = m THEN last ELSE f[n]]
    <2>3. last \in V
      BY <2>1, <2>2
    <2>4. g \in [0..m -> V]
      BY <2>1, <2>2, <2>3
    <2>5. g[0] = start /\ g[m] = last /\ \A n \in 0..m : n # m => g[n] = f[n]
      BY <2>1, <2>2
    <2>6. ASSUME NEW n \in 1..m PROVE g[n] = step[<<g[n - 1], n>>]
      <3> HIDE DEF g
      <3>1. CASE n = m
        BY <2>2, <2>5, <3>1
      <3>2. CASE n # m
        BY <2>1, <2>2, <2>5, <3>2
      <3> QED
        BY <3>1, <3>2
    <2>7. Eqn(g, m)
      BY <2>4, <2>5, <2>6
    <2> HIDE DEF g, Eqn
    <2>8. \E h : Eqn(h, m)
      BY <2>7
    <2> QED
      BY <2>2, <2>8
  <1>3. N \in T
    <2> HIDE DEF T
    <2> QED
      BY <1>1, <1>2, Induction
  <1>4. PICK f : Eqn(f, N)
    BY <1>3
  <1> QED
    BY <1>4 DEF Loops

LEMMA ChosenLoop ==
    ASSUME NEW S, NEW s \in Seq(S), NEW I
    PROVE  \E f : /\ f[0] = <<>>
                  /\ \A n \in 1..Len(s) :
                        f[n] = IF n \in I THEN Append(f[n - 1], s[n]) ELSE f[n - 1]
                  /\ Chosen(s, I) = f[Len(s)]
  <1> DEFINE N == Len(s)
             Eqn(f) == f = [n \in 0..N |->
                              IF n = 0 THEN <<>>
                              ELSE IF n \in I THEN Append(f[n - 1], s[n]) ELSE f[n - 1]]
             step == [p \in Seq(S) \X (1..N) |->
                        IF p[2] \in I THEN Append(p[1], s[p[2]]) ELSE p[1]]
  <1>1. N \in Nat /\ <<>> \in Seq(S) /\ \A n \in 1..N : s[n] \in S
    BY LenProperties, EmptySeq
  <1>2. Chosen(s, I) = (CHOOSE f : Eqn(f))[N]
    BY DEF Chosen
  <1> HIDE DEF N
  <1>3. step \in [Seq(S) \X (1..N) -> Seq(S)]
    BY <1>1, AppendProperties
  <1>4. \A v \in Seq(S), n \in 1..N :
           step[<<v, n>>] = IF n \in I THEN Append(v, s[n]) ELSE v
    OBVIOUS
  <1>5. PICK f \in [0..N -> Seq(S)] :
               f[0] = <<>> /\ \A n \in 1..N : f[n] = step[<<f[n - 1], n>>]
    <2> HIDE DEF step
    <2>1. Loops(N, Seq(S), <<>>, step)
      BY <1>1, <1>3, Loop
    <2> QED
      BY <2>1 DEF Loops
  <1>6. Eqn(f)
    <2> HIDE DEF step
    <2>1. \A n \in 0..N : n # 0 => n \in 1..N /\ f[n - 1] \in Seq(S)
      BY <1>1, <1>5
    <2>2. \A n \in 0..N : f[n] = IF n = 0 THEN <<>>
                              ELSE IF n \in I THEN Append(f[n - 1], s[n]) ELSE f[n - 1]
      BY <1>4, <1>5, <2>1
    <2>3. f = [n \in 0..N |-> f[n]]
      OBVIOUS
    <2> QED
      BY <2>2, <2>3
  <1> DEFINE g == CHOOSE h : Eqn(h)
  <1>7. Eqn(g)
    <2> HIDE DEF Eqn
    <2> QED
      BY <1>6
  <1>8. g[0] = <<>> /\ \A n \in 1..N : g[n] = IF n \in I THEN Append(g[n - 1], s[n]) ELSE g[n - 1]
    <2> HIDE DEF g
    <2>1. 0 \in 0..N /\ \A n \in 1..N : n \in 0..N /\ n # 0
      BY <1>1
    <2> QED
      BY <1>7, <2>1
  <1> HIDE DEF g
  <1> QED
    BY <1>2, <1>8 DEF N, g

-----------------------------------------------------------------------------
(* What is chosen of a sequence, and what is added up.                     *)

\* h tells at which of the first m places the members of c stand in s.
Picks(h, c, s, I, m) ==
    /\ h \in [1..Len(c) -> 1..m]
    /\ \A i \in 1..Len(c) : h[i] \in I /\ c[i] = s[h[i]]
    /\ \A i, j \in 1..Len(c) : i < j => h[i] < h[j]
    /\ \A n \in 1..m : n \in I => \E i \in 1..Len(c) : h[i] = n

\* What is chosen are the members at the places, in their order.
LEMMA ChosenPicks ==
    ASSUME NEW S, NEW s \in Seq(S), NEW I
    PROVE  Chosen(s, I) \in Seq(S) /\ \E h : Picks(h, Chosen(s, I), s, I, Len(s))
  <1>1. PICK f : /\ f[0] = <<>>
                 /\ \A n \in 1..Len(s) :
                       f[n] = IF n \in I THEN Append(f[n - 1], s[n]) ELSE f[n - 1]
                 /\ Chosen(s, I) = f[Len(s)]
    BY ChosenLoop
  <1> DEFINE N == Len(s)
             T == {m \in 0..N : f[m] \in Seq(S) /\ \E h : Picks(h, f[m], s, I, m)}
  <1>2. N \in Nat /\ \A n \in 1..N : s[n] \in S
    BY LenProperties
  <1> HIDE DEF N
  <1>3. 0 \in T
    <2>1. Picks(<<>>, <<>>, s, I, 0) /\ <<>> \in Seq(S)
      <3>1. <<>> \in Seq(S) /\ Len(<<>>) = 0 /\ 1..0 = {}
        BY EmptySeq
      <3>2. <<>> \in [{} -> 1..0]
        OBVIOUS
      <3> QED
        BY <3>1, <3>2 DEF Picks
    <2>2. f[0] \in Seq(S) /\ \E h : Picks(h, f[0], s, I, 0)
      BY <1>1, <2>1
    <2>3. 0 \in 0..N
      BY <1>2
    <2> QED
      BY <2>2, <2>3
  <1>4. ASSUME NEW m \in 1..N, m - 1 \in T PROVE m \in T
    <2> DEFINE c == f[m - 1]
    <2>1. c \in Seq(S) /\ m \in Nat
      BY <1>4
    <2>2. PICK h : Picks(h, c, s, I, m - 1)
      BY <1>4
    <2>3. Len(c) \in Nat
      BY <2>1, LenProperties
    <2> HIDE DEF c
    <2>4. CASE m \notin I
      <3>1. f[m] = c
        BY <1>1, <2>4 DEF N, c
      <3>2. Picks(h, c, s, I, m)
        BY <1>2, <2>1, <2>2, <2>3, <2>4 DEF Picks
      <3> QED
        BY <2>1, <3>1, <3>2
    <2>5. CASE m \in I
      <3> DEFINE d == Append(c, s[m])
                 g == [i \in 1..Len(c) + 1 |-> IF i = Len(c) + 1 THEN m ELSE h[i]]
      <3>1. f[m] = d
        BY <1>1, <2>5 DEF N, c
      <3>2. /\ d \in Seq(S) /\ Len(d) = Len(c) + 1
            /\ \A i \in 1..Len(c) : d[i] = c[i]
            /\ d[Len(c) + 1] = s[m]
        BY <1>2, <2>1, AppendProperties
      <3> HIDE DEF d
      <3>3. /\ h \in [1..Len(c) -> 1..m - 1]
            /\ \A i, j \in 1..Len(c) : i < j => h[i] < h[j]
        BY <2>2 DEF Picks
      <3>4. \A i \in 1..Len(c) : i # Len(c) + 1 /\ i \in 1..Len(c) + 1
        BY <2>3
      <3>5. Len(c) + 1 \in 1..Len(c) + 1 /\ m \in 1..m /\ 1..m - 1 \subseteq 1..m
        BY <2>1, <2>3
      <3>6. \A i \in 1..Len(c) + 1 : i = Len(c) + 1 \/ i \in 1..Len(c)
        BY <2>3
      <3>7. /\ \A i \in 1..Len(c) : g[i] = h[i] /\ h[i] \in 1..m - 1
            /\ g[Len(c) + 1] = m
            /\ g \in [1..Len(c) + 1 -> 1..m]
        <4>1. \A i \in 1..Len(c) : h[i] \in 1..m - 1 /\ h[i] \in 1..m
          BY <3>3, <3>5
        <4>2. g[Len(c) + 1] = m
          BY <3>5
        <4>3. \A i \in 1..Len(c) : g[i] = h[i]
          BY <3>4
        <4>4. \A i \in 1..Len(c) + 1 : g[i] \in 1..m
          <5> HIDE DEF g
          <5> QED
            BY <3>5, <3>6, <4>1, <4>2, <4>3
        <4> QED
          BY <4>1, <4>2, <4>3, <4>4
      <3> HIDE DEF g
      <3>8. \A i \in 1..Len(d) : g[i] \in I /\ d[i] = s[g[i]]
        BY <2>2, <2>5, <3>2, <3>7, <3>6 DEF Picks
      <3>9. ASSUME NEW i \in 1..Len(d), NEW j \in 1..Len(d), i < j PROVE g[i] < g[j]
        <4>1. i \in 1..Len(c)
          BY <2>3, <3>2, <3>9
        <4>2. CASE j \in 1..Len(c)
          BY <3>3, <3>7, <3>9, <4>1, <4>2
        <4>3. CASE j = Len(c) + 1
          BY SMTT(30), <2>1, <3>7, <4>1, <4>3
        <4> QED
          BY <3>2, <3>6, <4>2, <4>3
      <3>10. ASSUME NEW n \in 1..m, n \in I PROVE \E i \in 1..Len(d) : g[i] = n
        <4>1. CASE n = m
          BY <2>3, <3>2, <3>7, <4>1
        <4>2. CASE n # m
          <5>1. n \in 1..m - 1
            BY <2>1, <4>2
          <5>2. PICK i \in 1..Len(c) : h[i] = n
            BY <2>2, <3>10, <5>1 DEF Picks
          <5>3. i \in 1..Len(d) /\ g[i] = n
            BY <2>3, <3>2, <3>7, <5>2
          <5> QED
            BY <5>3
        <4> QED
          BY <4>1, <4>2
      <3>11. Picks(g, d, s, I, m)
        BY <3>2, <3>7, <3>8, <3>9, <3>10 DEF Picks
      <3>12. d \in Seq(S) /\ \E k : Picks(k, d, s, I, m)
        BY <3>2, <3>11
      <3> QED
        BY <3>1, <3>12
    <2> QED
      BY <2>4, <2>5
  <1>5. N \in T
    <2> HIDE DEF T
    <2>1. N \in Nat /\ N \in 0..N /\ \A m \in 1..N : m - 1 \in T => m \in T
      BY <1>2, <1>4
    <2>2. \A m \in 0..N : m \in T
      BY <1>3, <2>1, Induction
    <2> QED
      BY <2>1, <2>2
  <1> QED
    BY <1>1, <1>5 DEF N

\* All members are chosen if all places are.
LEMMA ChosenAll ==
    ASSUME NEW S, NEW s \in Seq(S), NEW I, 1..Len(s) \subseteq I
    PROVE  Chosen(s, I) = s
  <1>1. PICK f : /\ f[0] = <<>>
                 /\ \A n \in 1..Len(s) :
                       f[n] = IF n \in I THEN Append(f[n - 1], s[n]) ELSE f[n - 1]
                 /\ Chosen(s, I) = f[Len(s)]
    BY ChosenLoop
  <1> DEFINE N == Len(s)
             T == {m \in 0..N : f[m] = SubSeq(s, 1, m)}
  <1>2. N \in Nat /\ \A n \in 1..N : s[n] \in S
    BY LenProperties
  <1>3. 0 \in T
    <2>1. SubSeq(s, 1, 0) = <<>> /\ 0 \in 0..N
      BY <1>2, SubSeqEmpty
    <2> QED
      BY <1>1, <2>1
  <1>4. ASSUME NEW m \in 1..N, m - 1 \in T PROVE m \in T
    <2>1. f[m] = Append(SubSeq(s, 1, m - 1), s[m])
      BY <1>1, <1>4
    <2>2. SubSeq(s, 1, m) = SubSeq(s, 1, m - 1) \o <<s[m]>> /\ SubSeq(s, 1, m - 1) \in Seq(S)
      <3>1. (\A i \in 1..m - 1 : s[i] \in S) /\ m - 1 \in Int /\ 1 \in Int
        BY <1>2
      <3>2. SubSeq(s, 1, m - 1) \in Seq(S)
        BY <3>1, SubSeqProperties
      <3>3. 1 \in 1..Len(s) /\ m \in 1..Len(s)
        BY <1>2
      <3>4. SubSeq(s, 1, m) = SubSeq(s, 1, m - 1) \o <<s[m]>>
        BY <3>3, SubSeqRecursiveSecond
      <3> QED
        BY <3>2, <3>4
    <2>3. SubSeq(s, 1, m) = Append(SubSeq(s, 1, m - 1), s[m])
      BY <1>2, <2>2, AppendIsConcat
    <2> QED
      BY <2>1, <2>3
  <1>5. N \in T
    <2> HIDE DEF T, N
    <2>1. N \in Nat /\ N \in 0..N /\ \A m \in 1..N : m - 1 \in T => m \in T
      BY <1>2, <1>4
    <2>2. \A m \in 0..N : m \in T
      BY <1>3, <2>1, Induction
    <2> QED
      BY <2>1, <2>2
  <1> QED
    BY <1>1, <1>5, SubSeqFull

\* Nothing is chosen from nothing.
LEMMA NothingChosen ==
    ASSUME NEW I
    PROVE  Chosen(<<>>, I) = <<>>
  <1>1. <<>> \in Seq({}) /\ Len(<<>>) = 0
    BY EmptySeq
  <1>2. 1..Len(<<>>) \subseteq I
    BY <1>1
  <1> QED
    BY <1>1, <1>2, ChosenAll

LEMMA TotalLoop ==
    ASSUME NEW s \in Seq(Int)
    PROVE  \E f : /\ f[0] = 0
                  /\ \A n \in 1..Len(s) : f[n] = f[n - 1] + s[n]
                  /\ \A n \in 0..Len(s) : f[n] \in Int
                  /\ Total(s) = f[Len(s)]
  <1> DEFINE N == Len(s)
             Eqn(f) == f = [n \in 0..N |-> IF n = 0 THEN 0 ELSE f[n - 1] + s[n]]
             step == [p \in Int \X (1..N) |-> p[1] + s[p[2]]]
  <1>1. N \in Nat /\ \A n \in 1..N : s[n] \in Int
    BY LenProperties
  <1>2. Total(s) = (CHOOSE f : Eqn(f))[N]
    BY DEF Total
  <1> HIDE DEF N
  <1>3. step \in [Int \X (1..N) -> Int]
    BY <1>1
  <1>4. \A v \in Int, n \in 1..N : step[<<v, n>>] = v + s[n]
    OBVIOUS
  <1>5. PICK f \in [0..N -> Int] : f[0] = 0 /\ \A n \in 1..N : f[n] = step[<<f[n - 1], n>>]
    <2> HIDE DEF step
    <2> DEFINE V == Int
    <2>1. N \in Nat /\ 0 \in V /\ step \in [V \X (1..N) -> V]
      BY <1>1, <1>3
    <2> HIDE DEF V
    <2>2. Loops(N, V, 0, step)
      BY <2>1, Loop
    <2> QED
      BY <2>2 DEF Loops, V
  <1>6. Eqn(f)
    <2> HIDE DEF step
    <2>1. \A n \in 0..N : n # 0 => n \in 1..N /\ f[n - 1] \in Int
      BY <1>1, <1>5
    <2>2. \A n \in 0..N : f[n] = IF n = 0 THEN 0 ELSE f[n - 1] + s[n]
      BY <1>4, <1>5, <2>1
    <2>3. f = [n \in 0..N |-> f[n]]
      OBVIOUS
    <2> QED
      BY <2>2, <2>3
  <1> DEFINE g == CHOOSE h : Eqn(h)
  <1>7. Eqn(g)
    <2> HIDE DEF Eqn
    <2> QED
      BY <1>6
  <1>8. g[0] = 0 /\ \A n \in 1..N : g[n] = g[n - 1] + s[n]
    <2> HIDE DEF g
    <2>1. 0 \in 0..N /\ \A n \in 1..N : n \in 0..N /\ n # 0
      BY <1>1
    <2> QED
      BY <1>7, <2>1
  <1> HIDE DEF g
  <1>9. \A n \in 0..N : g[n] \in Int
    <2> DEFINE T == {n \in 0..N : g[n] \in Int}
    <2>1. 0 \in T
      BY <1>1, <1>8
    <2>2. ASSUME NEW n \in 1..N, n - 1 \in T PROVE n \in T
      <3>1. g[n] = g[n - 1] + s[n] /\ n \in 0..N
        BY <1>1, <1>8
      <3> HIDE DEF g
      <3> QED
        BY SMTT(30), <1>1, <2>2, <3>1
    <2> HIDE DEF T
    <2>3. \A n \in 0..N : n \in T
      BY <1>1, <2>1, <2>2, Induction
    <2> QED
      BY <2>3 DEF T
  <1> QED
    BY <1>2, <1>8, <1>9 DEF N, g

LEMMA TotalOfNothing == Total(<<>>) = 0
  <1>1. <<>> \in Seq(Int) /\ Len(<<>>) = 0
    BY EmptySeq
  <1> QED
    BY <1>1, TotalLoop

\* Greater numbers have a greater sum.
LEMMA TotalMonotone ==
    ASSUME NEW s \in Seq(Int), NEW t \in Seq(Int), Len(s) = Len(t),
           \A i \in 1..Len(s) : s[i] <= t[i]
    PROVE  Total(s) \in Int /\ Total(t) \in Int /\ Total(s) <= Total(t)
  <1> DEFINE N == Len(s)
  <1>1. N \in Nat /\ \A n \in 1..N : s[n] \in Int /\ t[n] \in Int /\ s[n] <= t[n]
    BY LenProperties
  <1>2. PICK f : /\ f[0] = 0
                 /\ \A n \in 1..N : f[n] = f[n - 1] + s[n]
                 /\ \A n \in 0..N : f[n] \in Int
                 /\ Total(s) = f[N]
    BY TotalLoop
  <1>3. PICK g : /\ g[0] = 0
                 /\ \A n \in 1..N : g[n] = g[n - 1] + t[n]
                 /\ \A n \in 0..N : g[n] \in Int
                 /\ Total(t) = g[N]
    BY TotalLoop
  <1> HIDE DEF N
  <1> DEFINE T == {n \in 0..N : f[n] <= g[n]}
  <1>4. 0 \in T
    BY <1>1, <1>2, <1>3
  <1>5. ASSUME NEW n \in 1..N, n - 1 \in T PROVE n \in T
    <2>1. n \in 0..N /\ n - 1 \in 0..N
      BY <1>1
    <2>2. f[n] = f[n - 1] + s[n] /\ g[n] = g[n - 1] + t[n] /\ f[n - 1] <= g[n - 1]
      BY <1>2, <1>3, <1>5
    <2>3. f[n - 1] \in Int /\ g[n - 1] \in Int /\ s[n] \in Int /\ t[n] \in Int /\ s[n] <= t[n]
      BY <1>1, <1>2, <1>3, <2>1
    <2>4. f[n] <= g[n]
      BY SMTT(30), <2>2, <2>3
    <2> QED
      BY <2>1, <2>4
  <1>6. N \in T
    <2> HIDE DEF T
    <2>1. N \in 0..N /\ \A n \in 1..N : n - 1 \in T => n \in T
      BY <1>1, <1>5
    <2>2. \A n \in 0..N : n \in T
      BY <1>1, <1>4, <2>1, Induction
    <2> QED
      BY <2>1, <2>2
  <1> QED
    BY <1>1, <1>2, <1>3, <1>6

\* Numbers that are positive have a sum that is not less than how many they are.
LEMMA TotalPositive ==
    ASSUME NEW s \in Seq(Int), \A i \in 1..Len(s) : s[i] >= 1
    PROVE  Total(s) \in Int /\ Total(s) >= Len(s)
  <1> DEFINE N == Len(s)
  <1>1. N \in Nat /\ \A n \in 1..N : s[n] \in Int /\ s[n] >= 1
    BY LenProperties
  <1>2. PICK f : /\ f[0] = 0
                 /\ \A n \in 1..N : f[n] = f[n - 1] + s[n]
                 /\ \A n \in 0..N : f[n] \in Int
                 /\ Total(s) = f[N]
    BY TotalLoop
  <1> HIDE DEF N
  <1> DEFINE T == {n \in 0..N : f[n] >= n}
  <1>3. 0 \in T
    BY <1>1, <1>2
  <1>4. ASSUME NEW n \in 1..N, n - 1 \in T PROVE n \in T
    <2>1. n \in 0..N /\ n - 1 \in 0..N
      BY <1>1
    <2>2. f[n] = f[n - 1] + s[n] /\ f[n - 1] >= n - 1
      BY <1>2, <1>4
    <2> QED
      BY <1>1, <1>2, <2>1, <2>2
  <1>5. N \in T
    <2> HIDE DEF T
    <2>1. N \in 0..N /\ \A n \in 1..N : n - 1 \in T => n \in T
      BY <1>1, <1>4
    <2>2. \A n \in 0..N : n \in T
      BY <1>1, <1>3, <2>1, Induction
    <2> QED
      BY <2>1, <2>2
  <1> QED
    BY <1>1, <1>2, <1>5 DEF N

-----------------------------------------------------------------------------
(* Turns in their order.                                                   *)

\* The provers do not know that a string that is spelled out is a STRING.
Labels == STRING \cup {"SPEAKER_00"}

Turns == [start : Int, end : Int, speaker : Labels]

\* Turns of one speaker.
Own(S) == S \subseteq Turns /\ \A a, b \in S : a.speaker = b.speaker

LEMMA TurnFields ==
    ASSUME NEW a \in Turns
    PROVE  /\ a.start \in Int /\ a.end \in Int /\ a.speaker \in Labels
           /\ a = [start |-> a.start, end |-> a.end, speaker |-> a.speaker]
  BY DEF Turns

LEMMA EarlierIsOrder ==
    ASSUME NEW S, Own(S), NEW a \in S, NEW b \in S, NEW c \in S
    PROVE  /\ ~ Earlier(a, a)
           /\ Earlier(a, b) /\ Earlier(b, c) => Earlier(a, c)
           /\ a = b \/ Earlier(a, b) \/ Earlier(b, a)
  <1>1. /\ a.start \in Int /\ a.end \in Int /\ b.start \in Int /\ b.end \in Int
        /\ c.start \in Int /\ c.end \in Int
        /\ a = [start |-> a.start, end |-> a.end, speaker |-> a.speaker]
        /\ b = [start |-> b.start, end |-> b.end, speaker |-> b.speaker]
        /\ a.speaker = b.speaker
    BY TurnFields DEF Own
  <1>2. a.start = b.start /\ a.end = b.end => a = b
    BY <1>1
  <1> QED
    BY <1>1, <1>2 DEF Earlier

Latest(S, x) == x \in S /\ \A y \in S : y = x \/ Earlier(y, x)

LEMMA LatestExists ==
    ASSUME NEW Z, IsFiniteSet(Z), Own(Z)
    PROVE  \A S \in SUBSET Z : S # {} => \E x : Latest(S, x)
  <1> DEFINE N == Cardinality(Z)
             T == {n \in 0..N : \A S \in SUBSET Z : Cardinality(S) = n /\ S # {} =>
                                                       \E x : Latest(S, x)}
  <1>1. N \in Nat /\ \A S \in SUBSET Z : IsFiniteSet(S) /\ Cardinality(S) \in 0..N
    <2>1. N \in Nat
      BY FS_CardinalityType
    <2>2. ASSUME NEW S \in SUBSET Z PROVE IsFiniteSet(S) /\ Cardinality(S) \in 0..N
      BY <2>1, FS_Subset, FS_CardinalityType
    <2> QED
      BY <2>1, <2>2
  <1> HIDE DEF N
  <1>2. 0 \in T
    BY <1>1, FS_EmptySet
  <1>3. ASSUME NEW n \in 1..N, n - 1 \in T PROVE n \in T
    <2>1. n \in 0..N
      BY <1>1
    <2>2. ASSUME NEW S \in SUBSET Z, Cardinality(S) = n, S # {} PROVE \E x : Latest(S, x)
      <3>1. PICK y \in S : TRUE
        BY <2>2
      <3> DEFINE R == S \ {y}
      <3>2. R \in SUBSET Z /\ Cardinality(R) = n - 1
        BY <1>1, <2>2, <3>1, FS_RemoveElement
      <3>3. CASE R = {}
        BY <3>1, <3>3 DEF Latest
      <3>4. CASE R # {}
        <4>1. PICK x : Latest(R, x)
          BY <1>3, <3>2, <3>4
        <4>2. x \in Z /\ y \in Z /\ x \in S
          BY <3>1, <4>1 DEF Latest
        <4>3. CASE Earlier(y, x)
          <5>1. Latest(S, x)
            BY <4>1, <4>2, <4>3 DEF Latest
          <5> QED
            BY <5>1
        <4>4. CASE ~ Earlier(y, x)
          <5>1. x = y \/ Earlier(x, y)
            BY <4>2, <4>4, EarlierIsOrder
          <5>2. ASSUME NEW z \in S PROVE z = y \/ Earlier(z, y)
            <6>1. CASE z = y
              BY <6>1
            <6>2. CASE z # y
              <7>1. z = x \/ Earlier(z, x)
                BY <4>1, <6>2 DEF Latest
              <7>2. z \in Z
                OBVIOUS
              <7> QED
                BY <4>2, <5>1, <7>1, <7>2, EarlierIsOrder
            <6> QED
              BY <6>1, <6>2
          <5>3. Latest(S, y)
            BY <3>1, <5>2 DEF Latest
          <5> QED
            BY <5>3
        <4> QED
          BY <4>3, <4>4
      <3> QED
        BY <3>3, <3>4
    <2> QED
      BY <2>1, <2>2
  <1>4. \A n \in 0..N : n \in T
    <2> HIDE DEF T
    <2> QED
      BY <1>1, <1>2, <1>3, Induction
  <1> QED
    BY <1>1, <1>4

\* s is a set of turns in their order.
InOrder(s, S) ==
    /\ s \in [1..Cardinality(S) -> S]
    /\ \A i, j \in 1..Cardinality(S) : i < j => Earlier(s[i], s[j])

LEMMA OrderExists ==
    ASSUME NEW Z, IsFiniteSet(Z), Own(Z)
    PROVE  \E s : InOrder(s, Z)
  <1> DEFINE N == Cardinality(Z)
             T == {n \in 0..N : \A S \in SUBSET Z : Cardinality(S) = n => \E s : InOrder(s, S)}
  <1>1. N \in Nat /\ \A S \in SUBSET Z : IsFiniteSet(S) /\ Cardinality(S) \in 0..N
    <2>1. N \in Nat
      BY FS_CardinalityType
    <2>2. ASSUME NEW S \in SUBSET Z PROVE IsFiniteSet(S) /\ Cardinality(S) \in 0..N
      BY <2>1, FS_Subset, FS_CardinalityType
    <2> QED
      BY <2>1, <2>2
  <1>2. 0 \in T
    <2>1. ASSUME NEW S \in SUBSET Z, Cardinality(S) = 0 PROVE \E s : InOrder(s, S)
      <3>1. InOrder(<<>>, S)
        BY <2>1 DEF InOrder
      <3> QED
        BY <3>1
    <2> HIDE DEF N
    <2> QED
      BY <1>1, <2>1
  <1>3. ASSUME NEW n \in 1..N, n - 1 \in T PROVE n \in T
    <2>1. n \in 0..N /\ n \in Nat /\ n \in 1..n /\ \A i \in 1..n : i = n \/ i \in 1..n - 1
      BY <1>1
    <2>2. ASSUME NEW S \in SUBSET Z, Cardinality(S) = n PROVE \E s : InOrder(s, S)
      <3>1. S # {}
        BY <1>1, <2>2, FS_EmptySet
      <3>2. PICK x : Latest(S, x)
        BY <3>1, LatestExists
      <3> DEFINE R == S \ {x}
      <3>3. R \in SUBSET Z /\ Cardinality(R) = n - 1 /\ R \subseteq S /\ x \in S
        BY <1>1, <2>2, <3>2, FS_RemoveElement DEF Latest
      <3>4. PICK t : InOrder(t, R)
        BY <1>3, <3>3
      <3> DEFINE s == [i \in 1..n |-> IF i = n THEN x ELSE t[i]]
      <3>5. s[n] = x /\ \A i \in 1..n - 1 : i \in 1..n /\ s[i] = t[i] /\ t[i] \in R
        <4>1. t \in [1..n - 1 -> R]
          BY <3>3, <3>4 DEF InOrder
        <4> HIDE DEF R
        <4> QED
          BY <2>1, <4>1
      <3>6. s \in [1..n -> S]
        BY <2>1, <3>3, <3>5
      <3> HIDE DEF s
      <3>7. ASSUME NEW i \in 1..n, NEW j \in 1..n, i < j PROVE Earlier(s[i], s[j])
        <4>1. i \in 1..n - 1
          BY <2>1, <3>7
        <4>2. CASE j = n
          BY <3>2, <3>5, <4>1, <4>2 DEF Latest
        <4>3. CASE j \in 1..n - 1
          BY <3>3, <3>4, <3>5, <3>7, <4>1, <4>3 DEF InOrder
        <4> QED
          BY <2>1, <4>2, <4>3
      <3>8. InOrder(s, S)
        BY <2>2, <3>6, <3>7 DEF InOrder
      <3> QED
        BY <3>8
    <2> QED
      BY <2>1, <2>2
  <1>4. \A n \in 0..N : n \in T
    <2> HIDE DEF T, N
    <2> QED
      BY <1>1, <1>2, <1>3, Induction
  <1> QED
    BY <1>1, <1>4

\* The turns of a set in their order are all of them, each at one place.
LEMMA OrderIsComplete ==
    ASSUME NEW S, IsFiniteSet(S), Own(S), NEW s, InOrder(s, S)
    PROVE  \A turn \in S : \E i \in 1..Cardinality(S) : s[i] = turn
  <1> DEFINE N == Cardinality(S)
  <1>1. N \in Nat
    BY FS_CardinalityType
  <1>2. ASSUME NEW i \in 1..N, NEW j \in 1..N, s[i] = s[j] PROVE i = j
    <2>1. s[i] \in S /\ s[j] \in S
      BY DEF InOrder
    <2>2. ~ Earlier(s[i], s[j]) /\ ~ Earlier(s[j], s[i])
      BY <1>2, <2>1, EarlierIsOrder
    <2>3. ~(i < j) /\ ~(j < i)
      BY <2>2 DEF InOrder
    <2> QED
      BY <1>1, <2>3
  <1>3. s \in Injection(1..N, S)
    BY <1>2 DEF Injection, IsInjective, InOrder
  <1>4. Cardinality(1..N) = N
    BY <1>1, FS_Interval
  <1>5. s \in Surjection(1..N, S)
    BY <1>3, <1>4, FS_Injection
  <1> QED
    BY <1>5 DEF Surjection

\* There is no other order.
LEMMA OrderIsUnique ==
    ASSUME NEW S, IsFiniteSet(S), Own(S), NEW s, InOrder(s, S), NEW t, InOrder(t, S)
    PROVE  s = t
  <1> DEFINE N == Cardinality(S)
  <1>1. N \in Nat
    BY FS_CardinalityType
  <1>2. s \in [1..N -> S] /\ t \in [1..N -> S]
    BY DEF InOrder
  <1>3. /\ \A turn \in S : \E i \in 1..N : s[i] = turn
        /\ \A turn \in S : \E i \in 1..N : t[i] = turn
    BY OrderIsComplete
  <1>4. \A i, j \in 1..N : i < j => Earlier(s[i], s[j]) /\ Earlier(t[i], t[j])
    BY DEF InOrder
  <1> HIDE DEF N
  <1>5. SUFFICES ASSUME {i \in 1..N : s[i] # t[i]} # {} PROVE FALSE
    <2>1. SUFFICES ASSUME \A i \in 1..N : s[i] = t[i] PROVE s = t
      OBVIOUS
    <2>2. s = [i \in 1..N |-> s[i]] /\ t = [i \in 1..N |-> t[i]]
      BY <1>2
    <2> QED
      BY <2>1, <2>2
  <1>6. PICK i \in 1..N : s[i] # t[i] /\ \A j \in 1..N : s[j] # t[j] => i <= j
    <2> DEFINE T == {j \in 1..N : s[j] # t[j]}
    <2>1. T \subseteq Nat /\ T # {}
      BY <1>5
    <2>2. \E m \in T : \A k \in T : m <= k
      <3> HIDE DEF T
      <3> QED
        BY <2>1, LeastMember
    <2> QED
      BY <2>2
  <1>7. s[i] \in S /\ t[i] \in S
    BY <1>2
  <1>8. CASE Earlier(s[i], t[i])
    <2>1. PICK j \in 1..N : t[j] = s[i]
      BY <1>3, <1>7
    <2>2. CASE j < i
      <3>1. s[j] = t[j]
        BY <1>6, <2>2
      <3>2. Earlier(s[j], s[i]) /\ s[j] = s[i]
        BY <1>4, <2>1, <2>2, <3>1
      <3> QED
        BY <1>7, <3>2, EarlierIsOrder
    <2>3. CASE j = i
      BY <1>6, <2>1, <2>3
    <2>4. CASE i < j
      <3>1. Earlier(t[i], s[i])
        BY <1>4, <2>1, <2>4
      <3>2. Earlier(s[i], s[i])
        BY <1>7, <1>8, <3>1, EarlierIsOrder
      <3> QED
        BY <1>7, <3>2, EarlierIsOrder
    <2> QED
      BY <1>1, <2>2, <2>3, <2>4
  <1>9. CASE Earlier(t[i], s[i])
    <2>1. PICK j \in 1..N : s[j] = t[i]
      BY <1>3, <1>7
    <2>2. CASE j < i
      <3>1. s[j] = t[j]
        BY <1>6, <2>2
      <3>2. Earlier(t[j], t[i]) /\ t[j] = t[i]
        BY <1>4, <2>1, <2>2, <3>1
      <3> QED
        BY <1>7, <3>2, EarlierIsOrder
    <2>3. CASE j = i
      BY <1>6, <2>1, <2>3
    <2>4. CASE i < j
      <3>1. Earlier(s[i], t[i])
        BY <1>4, <2>1, <2>4
      <3>2. Earlier(t[i], t[i])
        BY <1>7, <1>9, <3>1, EarlierIsOrder
      <3> QED
        BY <1>7, <3>2, EarlierIsOrder
    <2> QED
      BY <1>1, <2>2, <2>3, <2>4
  <1> QED
    BY <1>6, <1>7, <1>8, <1>9, EarlierIsOrder

LEMMA SortedIsInOrder ==
    ASSUME NEW S, IsFiniteSet(S), Own(S)
    PROVE  /\ InOrder(Sorted(S), S)
           /\ Sorted(S) \in Seq(S) /\ Len(Sorted(S)) = Cardinality(S)
           /\ \A i, j \in 1..Len(Sorted(S)) : i < j => Earlier(Sorted(S)[i], Sorted(S)[j])
           /\ \A turn \in S : \E i \in 1..Len(Sorted(S)) : Sorted(S)[i] = turn
  <1> DEFINE N == Cardinality(S)
             Right(s) == \A i, j \in DOMAIN s : i < j => Earlier(s[i], s[j])
             z == CHOOSE s \in [1..N -> S] : Right(s)
  <1>1. N \in Nat
    BY FS_CardinalityType
  <1>2. PICK s : InOrder(s, S)
    BY OrderExists
  <1>3. s \in [1..N -> S] /\ Right(s)
    BY <1>2 DEF InOrder
  <1>4. z \in [1..N -> S] /\ Right(z)
    <2> HIDE DEF Right, N
    <2> QED
      BY <1>3
  <1>5. Sorted(S) = z
    BY DEF Sorted
  <1> HIDE DEF z
  <1>6. InOrder(z, S)
    BY <1>4 DEF InOrder
  <1>7. z \in Seq(S) /\ Len(z) = N
    BY <1>1, <1>4
  <1> QED
    BY <1>5, <1>6, <1>7, OrderIsComplete DEF InOrder

-----------------------------------------------------------------------------
(* Turns that are merged.                                                  *)

LEMMA MaxIs ==
    ASSUME NEW a \in Int, NEW b \in Int
    PROVE  Max({a, b}) = IF a >= b THEN a ELSE b
  <1> DEFINE m == IF a >= b THEN a ELSE b
  <1>1. m \in {a, b} /\ \A y \in {a, b} : m >= y
    OBVIOUS
  <1>2. ASSUME NEW x \in {a, b}, \A y \in {a, b} : x >= y PROVE x = m
    BY <1>2
  <1> HIDE DEF m
  <1>3. (CHOOSE x \in {a, b} : \A y \in {a, b} : x >= y) = m
    BY <1>1, <1>2
  <1> QED
    BY <1>3 DEF m, Max

LEMMA MinIs ==
    ASSUME NEW a \in Int, NEW b \in Int
    PROVE  Min({a, b}) = IF a <= b THEN a ELSE b
  <1> DEFINE m == IF a <= b THEN a ELSE b
  <1>1. m \in {a, b} /\ \A y \in {a, b} : m <= y
    OBVIOUS
  <1>2. ASSUME NEW x \in {a, b}, \A y \in {a, b} : x <= y PROVE x = m
    BY <1>2
  <1> HIDE DEF m
  <1>3. (CHOOSE x \in {a, b} : \A y \in {a, b} : x <= y) = m
    BY <1>1, <1>2
  <1> QED
    BY <1>3 DEF m, Min

LEMMA MaxOfThree ==
    ASSUME NEW a \in Int, NEW b \in Int, NEW c \in Int
    PROVE  /\ Max({a, b, c}) \in {a, b, c}
           /\ Max({a, b, c}) >= a /\ Max({a, b, c}) >= b /\ Max({a, b, c}) >= c
  <1>1. \E x \in {a, b, c} : \A y \in {a, b, c} : x >= y
    <2>1. CASE a >= b /\ a >= c
      BY <2>1
    <2>2. CASE b >= a /\ b >= c
      BY <2>2
    <2>3. CASE c >= a /\ c >= b
      BY <2>3
    <2> QED
      BY <2>1, <2>2, <2>3
  <1>2. /\ Max({a, b, c}) \in {a, b, c}
        /\ \A y \in {a, b, c} : Max({a, b, c}) >= y
    <2> DEFINE S == {a, b, c}
    <2> HIDE DEF S
    <2>1. Max(S) \in S /\ \A y \in S : Max(S) >= y
      BY <1>1 DEF Max, S
    <2> QED
      BY <2>1 DEF S
  <1> QED
    BY <1>2

-----------------------------------------------------------------------------

Forward == {turn \in Turns : turn.start <= turn.end}

LEMMA JoinedIs ==
    ASSUME NEW m \in Seq(Forward), NEW turn \in Forward
    PROVE  /\ Joined(m, turn) \in Seq(Forward)
           /\ Adjacent(m, turn) =>
                 /\ Len(m) >= 1 /\ m[Len(m)] \in Forward
                 /\ turn.start <= m[Len(m)].end + MergeGap
                 /\ Len(Joined(m, turn)) = Len(m)
                 /\ \A i \in 1..Len(m) : i # Len(m) => Joined(m, turn)[i] = m[i]
                 /\ Joined(m, turn)[Len(m)] =
                       [start |-> m[Len(m)].start, speaker |-> m[Len(m)].speaker,
                        end |-> IF m[Len(m)].end >= turn.end THEN m[Len(m)].end ELSE turn.end]
           /\ ~ Adjacent(m, turn) =>
                 /\ Len(m) >= 1 => ~(turn.start <= m[Len(m)].end + MergeGap)
                 /\ Len(Joined(m, turn)) = Len(m) + 1
                 /\ \A i \in 1..Len(m) : Joined(m, turn)[i] = m[i]
                 /\ Joined(m, turn)[Len(m) + 1] = turn
  <1> DEFINE L == Len(m)
  <1>1. L \in Nat /\ (m # <<>> => L >= 1) /\ \A i \in 1..L : m[i] \in Forward
    <2>1. Len(m) \in Nat /\ \A i \in 1..Len(m) : m[i] \in Forward
      BY LenProperties
    <2>2. m # <<>> => Len(m) >= 1
      BY <2>1, EmptySeq
    <2> QED
      BY <2>1, <2>2
  <1>2. CASE Adjacent(m, turn)
    <2>1. L >= 1 /\ L \in 1..L /\ m[L] \in Forward /\ turn.start <= m[L].end + MergeGap
      BY <1>1, <1>2 DEF Adjacent, Last
    <2> DEFINE end == IF m[L].end >= turn.end THEN m[L].end ELSE turn.end
               new == [start |-> m[L].start, speaker |-> m[L].speaker, end |-> end]
    <2>2. /\ m[L].start \in Int /\ m[L].end \in Int /\ turn.end \in Int
          /\ m[L].speaker \in Labels /\ m[L].start <= m[L].end
          /\ m[L] = [start |-> m[L].start, end |-> m[L].end, speaker |-> m[L].speaker]
      BY <2>1, TurnFields DEF Forward
    <2>3. Max({m[L].end, turn.end}) = end
      BY <2>2, MaxIs
    <2>4. [m[L] EXCEPT !.end = Max({m[L].end, turn.end})] = new
      BY <2>2, <2>3
    <2>5. new \in Forward
      BY <2>2 DEF Forward, Turns
    <2>6. Joined(m, turn) = [m EXCEPT ![L] = [m[L] EXCEPT !.end = Max({m[L].end, turn.end})]]
      BY <1>2, <2>1 DEF Joined
    <2>7. Joined(m, turn) = [m EXCEPT ![L] = new]
      BY <2>4, <2>6
    <2> HIDE DEF new
    <2>8. /\ Joined(m, turn) \in Seq(Forward) /\ Len(Joined(m, turn)) = L
          /\ \A i \in 1..L : Joined(m, turn)[i] = IF i = L THEN new ELSE m[i]
      BY <2>1, <2>5, <2>7, ExceptSeq
    <2> QED
      BY <1>2, <2>1, <2>8 DEF new
  <1>3. CASE ~ Adjacent(m, turn)
    <2>1. Joined(m, turn) = Append(m, turn)
      BY <1>3 DEF Joined
    <2>2. Len(m) >= 1 => ~(turn.start <= m[Len(m)].end + MergeGap)
      BY <1>1, <1>3, EmptySeq DEF Adjacent, Last
    <2> QED
      BY <1>3, <2>1, <2>2, AppendProperties
  <1> QED
    BY <1>2, <1>3

-----------------------------------------------------------------------------

\* Parts of a sequence of turns that the cleaning relies on.
Apart(m) == \A i, j \in 1..Len(m) : i < j => m[i].end + MergeGap < m[j].start

Covers(m, s, k) ==
    \A j \in 1..k : \E i \in 1..Len(m) : m[i].start <= s[j].start /\ s[j].end <= m[i].end

Bridges(m, s, k) ==
    \A i \in 1..Len(m), e \in Int :
        m[i].start <= e /\ e < m[i].end =>
           \E j \in 1..k : s[j].start <= e + MergeGap /\ e < s[j].end

BelongsTo(m, speaker) == \A i \in 1..Len(m) : m[i].speaker = speaker

MergeInv(m, s, k, speaker) ==
    /\ m \in Seq(Forward)
    /\ k >= 1 => Len(m) >= 1 /\ m[Len(m)].start <= s[k].start
    /\ k = 0 => Len(m) = 0
    /\ Apart(m)
    /\ Covers(m, s, k)
    /\ Bridges(m, s, k)
    /\ BelongsTo(m, speaker)

LEMMA MergeStep ==
    ASSUME NEW s \in Seq(Forward), NEW speaker, BelongsTo(s, speaker),
           \A i, j \in 1..Len(s) : i < j => s[i].start <= s[j].start,
           NEW k \in 1..Len(s), NEW m, MergeInv(m, s, k - 1, speaker)
    PROVE  MergeInv(Joined(m, s[k]), s, k, speaker)
  <1> DEFINE L == Len(m)
             n == Joined(m, s[k])
  <1>1. /\ m \in Seq(Forward) /\ s[k] \in Forward /\ L \in Nat /\ Len(s) \in Nat
        /\ s[k].speaker = speaker
        /\ \A i \in 1..L : m[i] \in Forward
    BY LenProperties DEF MergeInv, BelongsTo
  <1>2. \A t \in Forward : t.start \in Int /\ t.end \in Int /\ t.start <= t.end
    BY TurnFields DEF Forward
  <1>3. L >= 1 => m[L].start <= s[k].start
    <2>1. CASE k = 1
      BY <2>1 DEF MergeInv
    <2>2. CASE k # 1
      <3>1. k - 1 \in 1..Len(s) /\ k - 1 < k /\ k - 1 >= 1
        BY <1>1, <2>2
      <3>2. s[k - 1] \in Forward /\ s[k - 1].start <= s[k].start
        BY <3>1, LenProperties
      <3>3. L >= 1 /\ m[L].start <= s[k - 1].start /\ m[L] \in Forward
        BY <1>1, <3>1 DEF MergeInv
      <3> QED
        BY <1>1, <1>2, <3>2, <3>3
    <2> QED
      BY <2>1, <2>2
  <1>4. n \in Seq(Forward)
    BY <1>1, JoinedIs
  <1>5. \A j \in 1..k : j = k \/ j \in 1..k - 1
    BY <1>1
  <1>6. k \in 1..k /\ 1..k - 1 \subseteq 1..k /\ k # 0 /\ \A j \in 1..k : s[j] \in Forward
    <2>1. \A j \in 1..k : j \in 1..Len(s)
      BY <1>1
    <2> QED
      BY <1>1, <2>1, LenProperties
  <1>7. CASE Adjacent(m, s[k])
    <2> DEFINE end == IF m[L].end >= s[k].end THEN m[L].end ELSE s[k].end
    <2>1. /\ L >= 1 /\ L \in 1..L /\ m[L] \in Forward
          /\ s[k].start <= m[L].end + MergeGap
          /\ Len(n) = L
          /\ \A i \in 1..L : i # L => n[i] = m[i]
          /\ n[L].start = m[L].start /\ n[L].speaker = m[L].speaker /\ n[L].end = end
      <3>1. /\ L >= 1 /\ m[L] \in Forward /\ s[k].start <= m[L].end + MergeGap
            /\ Len(n) = L
            /\ \A i \in 1..L : i # L => n[i] = m[i]
            /\ n[L] = [start |-> m[L].start, speaker |-> m[L].speaker, end |-> end]
        BY <1>1, <1>7, JoinedIs
      <3> HIDE DEF n, end
      <3> QED
        BY <1>1, <3>1
    <2>2. /\ m[L].start \in Int /\ m[L].end \in Int /\ m[L].start <= m[L].end
          /\ s[k].start \in Int /\ s[k].end \in Int /\ s[k].start <= s[k].end
          /\ end \in Int /\ end >= m[L].end /\ end >= s[k].end
      BY <1>1, <1>2, <2>1
    <2> HIDE DEF n
    <2>3. Apart(n)
      <3>1. ASSUME NEW i \in 1..L, NEW j \in 1..L, i < j PROVE n[i].end + MergeGap < n[j].start
        <4>1. i # L /\ n[i] = m[i]
          BY <1>1, <2>1, <3>1
        <4>2. n[j].start = m[j].start
          BY <2>1
        <4> QED
          BY <3>1, <4>1, <4>2 DEF MergeInv, Apart
      <3> QED
        BY <2>1, <3>1 DEF Apart
    <2>4. Covers(n, s, k)
      <3>1. ASSUME NEW j \in 1..k
            PROVE  \E i \in 1..L : n[i].start <= s[j].start /\ s[j].end <= n[i].end
        <4>1. CASE j = k
          BY <1>3, <2>1, <2>2, <4>1
        <4>2. CASE j \in 1..k - 1
          <5>1. PICK i \in 1..L : m[i].start <= s[j].start /\ s[j].end <= m[i].end
            BY <4>2 DEF MergeInv, Covers
          <5>2. CASE i # L
            BY <2>1, <5>1, <5>2
          <5>3. CASE i = L
            <6>1. s[j].end \in Int
              BY <1>2, <1>6
            <6>2. n[L].start <= s[j].start /\ s[j].end <= n[L].end
              BY <2>1, <2>2, <5>1, <5>3, <6>1
            <6> QED
              BY <2>1, <6>2
          <5> QED
            BY <5>2, <5>3
        <4> QED
          BY <1>5, <4>1, <4>2
      <3> QED
        BY <2>1, <3>1 DEF Covers
    <2>5. Bridges(n, s, k)
      <3>1. ASSUME NEW i \in 1..L, NEW e \in Int, n[i].start <= e, e < n[i].end
            PROVE  \E j \in 1..k : s[j].start <= e + MergeGap /\ e < s[j].end
        <4>1. CASE m[i].start <= e /\ e < m[i].end
          BY <1>6, <4>1 DEF MergeInv, Bridges
        <4>2. CASE ~(m[i].start <= e /\ e < m[i].end)
          <5>1. i = L
            BY <2>1, <3>1, <4>2
          <5>2. m[L].end <= e /\ e < s[k].end
            BY <2>1, <2>2, <3>1, <4>2, <5>1
          <5>3. s[k].start <= e + MergeGap
            BY SMTT(30), <2>1, <2>2, <5>2 DEF MergeGap
          <5> QED
            BY <1>6, <5>2, <5>3
        <4> QED
          BY <4>1, <4>2
      <3> QED
        BY <2>1, <3>1 DEF Bridges
    <2>6. BelongsTo(n, speaker)
      <3>1. \A i \in 1..L : m[i].speaker = speaker
        BY DEF MergeInv, BelongsTo
      <3>2. \A i \in 1..L : n[i].speaker = m[i].speaker
        BY <2>1
      <3> QED
        BY <2>1, <3>1, <3>2 DEF BelongsTo
    <2>7. Len(n) >= 1 /\ n[Len(n)].start <= s[k].start
      BY <1>3, <2>1
    <2> QED
      BY <1>4, <1>6, <2>3, <2>4, <2>5, <2>6, <2>7 DEF MergeInv, n
  <1>8. CASE ~ Adjacent(m, s[k])
    <2>1. /\ L >= 1 => ~(s[k].start <= m[L].end + MergeGap)
          /\ Len(n) = L + 1
          /\ \A i \in 1..L : n[i] = m[i]
          /\ n[L + 1] = s[k]
      BY <1>1, <1>8, JoinedIs
    <2>2. \A i \in 1..L + 1 : i = L + 1 \/ i \in 1..L
      BY <1>1
    <2>3. L + 1 \in 1..L + 1 /\ 1..L \subseteq 1..L + 1
      BY <1>1
    <2> HIDE DEF n
    <2>4. Apart(n)
      <3>1. ASSUME NEW i \in 1..L + 1, NEW j \in 1..L + 1, i < j
            PROVE  n[i].end + MergeGap < n[j].start
        <4>1. i \in 1..L /\ n[i] = m[i]
          BY <1>1, <2>1, <2>2, <3>1
        <4>2. CASE j \in 1..L
          BY <2>1, <3>1, <4>1, <4>2 DEF MergeInv, Apart
        <4>3. CASE j = L + 1
          <5>1. L \in 1..L /\ m[L] \in Forward /\ m[L].end + MergeGap < s[k].start
            BY <1>1, <1>2, <2>1, <4>1 DEF MergeGap
          <5>2. CASE i = L
            BY <2>1, <4>1, <4>3, <5>1, <5>2
          <5>3. CASE i # L
            <6>1. m[i].end + MergeGap < m[L].start
              BY <1>1, <4>1, <5>1, <5>3 DEF MergeInv, Apart
            <6>2. m[i] \in Forward /\ m[L].start <= s[k].start
              BY <1>1, <1>3, <4>1
            <6>3. m[i].end \in Int /\ m[L].start \in Int /\ s[k].start \in Int
              BY <1>1, <1>2, <5>1, <6>2
            <6>4. m[i].end + MergeGap < s[k].start
              BY SMTT(30), <6>1, <6>2, <6>3 DEF MergeGap
            <6> QED
              BY <2>1, <4>1, <4>3, <6>4
          <5> QED
            BY <5>2, <5>3
        <4> QED
          BY <2>2, <4>2, <4>3
      <3> QED
        BY <2>1, <3>1 DEF Apart
    <2>5. Covers(n, s, k)
      <3>1. ASSUME NEW j \in 1..k
            PROVE  \E i \in 1..L + 1 : n[i].start <= s[j].start /\ s[j].end <= n[i].end
        <4>1. CASE j = k
          <5>1. s[k].start <= s[k].start /\ s[k].end <= s[k].end
            BY <1>1, <1>2
          <5> QED
            BY <2>1, <2>3, <4>1, <5>1
        <4>2. CASE j \in 1..k - 1
          <5>1. PICK i \in 1..L : m[i].start <= s[j].start /\ s[j].end <= m[i].end
            BY <4>2 DEF MergeInv, Covers
          <5> QED
            BY <2>1, <2>3, <5>1
        <4> QED
          BY <1>5, <4>1, <4>2
      <3> QED
        BY <2>1, <3>1 DEF Covers
    <2>6. Bridges(n, s, k)
      <3>1. ASSUME NEW i \in 1..L + 1, NEW e \in Int, n[i].start <= e, e < n[i].end
            PROVE  \E j \in 1..k : s[j].start <= e + MergeGap /\ e < s[j].end
        <4>1. CASE i \in 1..L
          BY <1>6, <2>1, <3>1, <4>1 DEF MergeInv, Bridges
        <4>2. CASE i = L + 1
          <5>1. s[k].start <= e /\ e < s[k].end /\ s[k].start \in Int
            BY <1>1, <1>2, <2>1, <3>1, <4>2
          <5>2. s[k].start <= e + MergeGap
            BY <5>1 DEF MergeGap
          <5> QED
            BY <1>6, <5>1, <5>2
        <4> QED
          BY <2>2, <4>1, <4>2
      <3> QED
        BY <2>1, <3>1 DEF Bridges
    <2>7. BelongsTo(n, speaker)
      <3>1. \A i \in 1..L : m[i].speaker = speaker
        BY DEF MergeInv, BelongsTo
      <3> QED
        BY <1>1, <2>1, <2>2, <3>1 DEF BelongsTo
    <2>8. Len(n) >= 1 /\ n[Len(n)].start <= s[k].start
      BY <1>1, <1>2, <2>1
    <2> QED
      BY <1>4, <1>6, <2>4, <2>5, <2>6, <2>7, <2>8 DEF MergeInv, n
  <1> QED
    BY <1>7, <1>8

LEMMA MergedLoop ==
    ASSUME NEW s \in Seq(Forward)
    PROVE  \E f : /\ f[0] = <<>>
                  /\ \A n \in 1..Len(s) : f[n] = Joined(f[n - 1], s[n])
                  /\ Merged(s) = f[Len(s)]
  <1> DEFINE N == Len(s)
             Eqn(f) == f = [n \in 0..N |-> IF n = 0 THEN <<>> ELSE Joined(f[n - 1], s[n])]
             step == [p \in Seq(Forward) \X (1..N) |-> Joined(p[1], s[p[2]])]
  <1>1. N \in Nat /\ <<>> \in Seq(Forward) /\ \A n \in 1..N : s[n] \in Forward
    BY LenProperties, EmptySeq
  <1>2. Merged(s) = (CHOOSE f : Eqn(f))[N]
    BY DEF Merged
  <1> HIDE DEF N
  <1>3. step \in [Seq(Forward) \X (1..N) -> Seq(Forward)]
    <2>1. \A v \in Seq(Forward), n \in 1..N : Joined(v, s[n]) \in Seq(Forward)
      BY <1>1, JoinedIs
    <2> QED
      BY <2>1
  <1>4. \A v \in Seq(Forward), n \in 1..N : step[<<v, n>>] = Joined(v, s[n])
    OBVIOUS
  <1>5. PICK f \in [0..N -> Seq(Forward)] :
               f[0] = <<>> /\ \A n \in 1..N : f[n] = step[<<f[n - 1], n>>]
    <2> HIDE DEF step
    <2>1. Loops(N, Seq(Forward), <<>>, step)
      BY <1>1, <1>3, Loop
    <2> QED
      BY <2>1 DEF Loops
  <1>6. Eqn(f)
    <2> HIDE DEF step
    <2>1. \A n \in 0..N : n # 0 => n \in 1..N /\ f[n - 1] \in Seq(Forward)
      BY <1>1, <1>5
    <2>2. \A n \in 0..N : f[n] = IF n = 0 THEN <<>> ELSE Joined(f[n - 1], s[n])
      BY <1>4, <1>5, <2>1
    <2>3. f = [n \in 0..N |-> f[n]]
      OBVIOUS
    <2> QED
      BY <2>2, <2>3
  <1> DEFINE g == CHOOSE h : Eqn(h)
  <1>7. Eqn(g)
    <2> HIDE DEF Eqn
    <2> QED
      BY <1>6
  <1>8. g[0] = <<>> /\ \A n \in 1..N : g[n] = Joined(g[n - 1], s[n])
    <2> HIDE DEF g
    <2>1. 0 \in 0..N /\ \A n \in 1..N : n \in 0..N /\ n # 0
      BY <1>1
    <2> QED
      BY <1>7, <2>1
  <1> HIDE DEF g
  <1> QED
    BY <1>2, <1>8 DEF N, g

LEMMA MergedKeeps ==
    ASSUME NEW s \in Seq(Forward), NEW speaker, BelongsTo(s, speaker),
           \A i, j \in 1..Len(s) : i < j => s[i].start <= s[j].start
    PROVE  MergeInv(Merged(s), s, Len(s), speaker)
  <1>1. PICK f : /\ f[0] = <<>>
                 /\ \A n \in 1..Len(s) : f[n] = Joined(f[n - 1], s[n])
                 /\ Merged(s) = f[Len(s)]
    BY MergedLoop
  <1> DEFINE N == Len(s)
             T == {n \in 0..N : MergeInv(f[n], s, n, speaker)}
  <1>2. N \in Nat
    BY LenProperties
  <1>3. 0 \in T
    <2>1. <<>> \in Seq(Forward) /\ Len(<<>>) = 0 /\ 1..0 = {}
      BY EmptySeq
    <2>2. MergeInv(<<>>, s, 0, speaker)
      BY <2>1 DEF MergeInv, Apart, Covers, Bridges, BelongsTo
    <2> QED
      BY <1>1, <1>2, <2>2
  <1>4. ASSUME NEW n \in 1..N, n - 1 \in T PROVE n \in T
    <2>1. MergeInv(f[n - 1], s, n - 1, speaker) /\ n \in 0..N
      BY <1>2, <1>4
    <2>2. MergeInv(Joined(f[n - 1], s[n]), s, n, speaker)
      BY <2>1, MergeStep
    <2> QED
      BY <1>1, <2>1, <2>2
  <1>5. N \in T
    <2> HIDE DEF T, N
    <2>1. N \in Nat /\ N \in 0..N /\ \A n \in 1..N : n - 1 \in T => n \in T
      BY <1>2, <1>4
    <2>2. \A n \in 0..N : n \in T
      BY <1>3, <2>1, Induction
    <2> QED
      BY <2>1, <2>2
  <1> QED
    BY <1>1, <1>5

\* What lies apart stays apart.
LEMMA MergedIsIdle ==
    ASSUME NEW s \in Seq(Forward), Apart(s)
    PROVE  Merged(s) = s
  <1>1. PICK f : /\ f[0] = <<>>
                 /\ \A n \in 1..Len(s) : f[n] = Joined(f[n - 1], s[n])
                 /\ Merged(s) = f[Len(s)]
    BY MergedLoop
  <1> DEFINE N == Len(s)
             T == {n \in 0..N : f[n] = SubSeq(s, 1, n)}
  <1>2. N \in Nat /\ \A n \in 1..N : s[n] \in Forward
    BY LenProperties
  <1>3. 0 \in T
    <2>1. SubSeq(s, 1, 0) = <<>> /\ 0 \in 0..N
      BY <1>2, SubSeqEmpty
    <2> QED
      BY <1>1, <2>1
  <1>4. ASSUME NEW n \in 1..N, n - 1 \in T PROVE n \in T
    <2> DEFINE p == SubSeq(s, 1, n - 1)
    <2>1. f[n] = Joined(p, s[n])
      BY <1>1, <1>4
    <2>2. /\ p \in Seq(Forward) /\ Len(p) = n - 1
          /\ \A i \in 1..n - 1 : p[i] = s[i]
      <3>1. \A i \in 1..n - 1 : s[i] \in Forward
        BY <1>2
      <3>2. n - 1 \in Nat /\ 1 \in Int /\ n - 1 \in Int
        BY <1>2
      <3>3. /\ SubSeq(s, 1, n - 1) \in Seq(Forward)
            /\ Len(SubSeq(s, 1, n - 1)) = IF 1 <= n - 1 THEN n - 1 - 1 + 1 ELSE 0
            /\ \A i \in 1..n - 1 - 1 + 1 : SubSeq(s, 1, n - 1)[i] = s[1 + i - 1]
        BY <3>1, <3>2, SubSeqProperties
      <3>4. \A i \in 1..n - 1 : i \in 1..n - 1 - 1 + 1 /\ 1 + i - 1 = i
        BY <3>2
      <3> QED
        BY <3>2, <3>3, <3>4
    <2>3. SubSeq(s, 1, n) = Append(p, s[n])
      <3>1. SubSeq(s, 1, n) = p \o <<s[n]>> /\ s[n] \in Forward
        BY <1>2, SubSeqRecursiveSecond
      <3> QED
        BY <2>2, <3>1, AppendIsConcat
    <2> HIDE DEF p
    <2>4. ~ Adjacent(p, s[n])
      <3>1. CASE p = <<>>
        BY <3>1 DEF Adjacent
      <3>2. CASE p # <<>>
        <4>1. n - 1 >= 1
          BY <1>2, <2>2, <3>2, EmptySeq
        <4>2. n - 1 \in 1..N /\ n - 1 < n /\ n - 1 \in 1..n - 1
          BY <1>2, <4>1
        <4>3. s[n - 1].end + MergeGap < s[n].start /\ Last(p) = s[n - 1]
          BY <2>2, <4>2 DEF Apart, Last
        <4>4. s[n - 1].end \in Int /\ s[n].start \in Int
          BY <1>2, <4>2, TurnFields DEF Forward
        <4> QED
          BY <4>3, <4>4 DEF Adjacent, MergeGap
      <3> QED
        BY <3>1, <3>2
    <2>5. f[n] = Append(p, s[n])
      BY <2>1, <2>4 DEF Joined
    <2>6. f[n] = SubSeq(s, 1, n) /\ n \in 0..N
      BY <1>2, <2>3, <2>5
    <2> QED
      BY <2>6
  <1>5. N \in T
    <2> HIDE DEF T, N
    <2>1. N \in Nat /\ N \in 0..N /\ \A n \in 1..N : n - 1 \in T => n \in T
      BY <1>2, <1>4
    <2>2. \A n \in 0..N : n \in T
      BY <1>3, <2>1, Induction
    <2> QED
      BY <2>1, <2>2
  <1> QED
    BY <1>1, <1>5, SubSeqFull

-----------------------------------------------------------------------------

LEMMA OrderedIs ==
    ASSUME NEW turn \in Turns
    PROVE  /\ Ordered(turn) \in Forward
           /\ Ordered(turn).speaker = turn.speaker
           /\ turn \in Forward => Ordered(turn) = turn
  <1>1. /\ turn.start \in Int /\ turn.end \in Int /\ turn.speaker \in Labels
        /\ turn = [start |-> turn.start, end |-> turn.end, speaker |-> turn.speaker]
    BY TurnFields
  <1> DEFINE a == Min({turn.start, turn.end})
             b == Max({turn.start, turn.end})
  <1>2. /\ a = IF turn.start <= turn.end THEN turn.start ELSE turn.end
        /\ b = IF turn.start >= turn.end THEN turn.start ELSE turn.end
    BY <1>1, MinIs, MaxIs
  <1>3. Ordered(turn) = [turn EXCEPT !.start = a, !.end = b]
    BY DEF Ordered
  <1> HIDE DEF a, b
  <1>4. Ordered(turn) = [start |-> a, end |-> b, speaker |-> turn.speaker]
    BY <1>1, <1>3
  <1>5. a \in Int /\ b \in Int /\ a <= b
    BY <1>1, <1>2
  <1>6. Ordered(turn) \in Forward
    BY <1>1, <1>4, <1>5 DEF Forward, Turns
  <1>7. ASSUME turn \in Forward PROVE Ordered(turn) = turn
    <2>1. a = turn.start /\ b = turn.end
      BY <1>1, <1>2, <1>7 DEF Forward
    <2> QED
      BY <1>1, <1>4, <2>1
  <1> QED
    BY <1>4, <1>6, <1>7

LEMMA OwnTurnsAreOwn ==
    ASSUME NEW turns \in Seq(Turns), NEW speaker
    PROVE  LET own == OwnTurns(turns, speaker) IN
           /\ IsFiniteSet(own) /\ Own(own) /\ own \subseteq Forward
           /\ \A turn \in own : turn.speaker = speaker
  <1> DEFINE own == OwnTurns(turns, speaker)
             D == {i \in DOMAIN turns : turns[i].speaker = speaker}
             g == [i \in D |-> Ordered(turns[i])]
  <1>1. DOMAIN turns = 1..Len(turns) /\ Len(turns) \in Nat
        /\ \A i \in DOMAIN turns : turns[i] \in Turns
    BY LenProperties
  <1>2. IsFiniteSet(D)
    <2>1. IsFiniteSet(1..Len(turns)) /\ D \in SUBSET (1..Len(turns))
      BY <1>1, FS_Interval
    <2> QED
      BY <2>1, FS_Subset
  <1>3. g \in Surjection(D, own)
    BY DEF Surjection, OwnTurns
  <1>4. IsFiniteSet(own)
    <2> HIDE DEF D, own, g
    <2> QED
      BY <1>2, <1>3, FS_Surjection
  <1>5. \A turn \in own : turn \in Forward /\ turn.speaker = speaker
    BY <1>1, OrderedIs DEF OwnTurns
  <1>6. own \subseteq Turns
    BY <1>5 DEF Forward
  <1> QED
    BY <1>4, <1>5, <1>6 DEF Own

-----------------------------------------------------------------------------
(* The clean turns of a speaker.                                           *)

Long(turn) == turn.end - turn.start >= ShortestTurn

LongPlaces(m) == {n \in DOMAIN m : Long(m[n])}

LEMMA CleanTurnsAre ==
    ASSUME NEW turns, NEW speaker, Known(speaker)
    PROVE  LET m == Merged(Sorted(OwnTurns(turns, speaker))) IN
           CleanTurns(turns, speaker) = Chosen(m, LongPlaces(m))
  BY DEF CleanTurns, Filtered, LongPlaces, Long

\* c has the members of m at some places and no others.
Selects(c, m, I) ==
    /\ \A i \in 1..Len(c) : \E k \in 1..Len(m) : k \in I /\ c[i] = m[k]
    /\ \A k \in 1..Len(m) : k \in I => \E i \in 1..Len(c) : c[i] = m[k]

\* What is chosen of turns that lie apart lies apart.
LEMMA ChosenApart ==
    ASSUME NEW m \in Seq(Forward), Apart(m), NEW I
    PROVE  /\ Chosen(m, I) \in Seq(Forward) /\ Apart(Chosen(m, I))
           /\ Selects(Chosen(m, I), m, I)
  <1> DEFINE c == Chosen(m, I)
  <1>1. c \in Seq(Forward) /\ \E h : Picks(h, c, m, I, Len(m))
    BY ChosenPicks
  <1>2. PICK h : Picks(h, c, m, I, Len(m))
    BY <1>1
  <1>3. Len(c) \in Nat /\ Len(m) \in Nat
    BY <1>1, LenProperties
  <1> HIDE DEF c
  <1>4. /\ \A i \in 1..Len(c) : h[i] \in 1..Len(m) /\ h[i] \in I /\ c[i] = m[h[i]]
        /\ \A i, j \in 1..Len(c) : i < j => h[i] < h[j]
        /\ \A n \in 1..Len(m) : n \in I => \E i \in 1..Len(c) : h[i] = n
    <2>1. h \in [1..Len(c) -> 1..Len(m)]
      BY <1>2 DEF Picks
    <2>2. \A i \in 1..Len(c) : h[i] \in I /\ c[i] = m[h[i]]
      BY <1>2 DEF Picks
    <2>3. \A i, j \in 1..Len(c) : i < j => h[i] < h[j]
      BY <1>2 DEF Picks
    <2>4. \A n \in 1..Len(m) : n \in I => \E i \in 1..Len(c) : h[i] = n
      BY <1>2 DEF Picks
    <2> QED
      BY <2>1, <2>2, <2>3, <2>4
  <1>5. Apart(c)
    <2> SUFFICES ASSUME NEW i \in 1..Len(c), NEW j \in 1..Len(c), i < j
                 PROVE  c[i].end + MergeGap < c[j].start
      BY DEF Apart
    <2>1. /\ h[i] \in 1..Len(m) /\ h[j] \in 1..Len(m) /\ h[i] < h[j]
          /\ c[i] = m[h[i]] /\ c[j] = m[h[j]]
      BY <1>4
    <2>2. m[h[i]].end + MergeGap < m[h[j]].start
      BY <2>1 DEF Apart
    <2> QED
      BY <2>1, <2>2
  <1>6. \A i \in 1..Len(c) : \E k \in 1..Len(m) : k \in I /\ c[i] = m[k]
    BY <1>4
  <1>7. \A k \in 1..Len(m) : k \in I => \E i \in 1..Len(c) : c[i] = m[k]
    BY <1>4
  <1> QED
    BY <1>1, <1>5, <1>6, <1>7 DEF c, Selects

\* A speaker's clean turns.
IsClean(c, speaker) ==
    /\ c \in Seq(Forward)
    /\ Apart(c)
    /\ BelongsTo(c, speaker)
    /\ \A i \in 1..Len(c) : Long(c[i])

LEMMA CleanTurnsAreClean ==
    ASSUME NEW turns \in Seq(Turns), NEW speaker
    PROVE  LET c == CleanTurns(turns, speaker)
               own == OwnTurns(turns, speaker)
           IN  /\ IsClean(c, speaker)
               /\ Known(speaker) => \A turn \in own : Long(turn) =>
                     \E i \in 1..Len(c) : c[i].start <= turn.start /\ turn.end <= c[i].end
               /\ \A i \in 1..Len(c), e \in Int :
                     c[i].start <= e /\ e < c[i].end =>
                        \E next \in own : next.start <= e + MergeGap /\ e < next.end
  <1> DEFINE c == CleanTurns(turns, speaker)
             own == OwnTurns(turns, speaker)
             s == Sorted(own)
             m == Merged(s)
             I == LongPlaces(m)
  <1>1. CASE ~ Known(speaker)
    <2>1. c = <<>> /\ Len(<<>>) = 0 /\ <<>> \in Seq(Forward)
      BY <1>1, EmptySeq DEF CleanTurns
    <2>2. IsClean(<<>>, speaker)
      BY <2>1 DEF IsClean, Apart, BelongsTo
    <2> HIDE DEF c
    <2> QED
      BY <1>1, <2>1, <2>2 DEF c
  <1>2. CASE Known(speaker)
    <2>1. /\ IsFiniteSet(own) /\ Own(own) /\ own \subseteq Forward
          /\ \A turn \in own : turn.speaker = speaker
      BY OwnTurnsAreOwn
    <2>2. c = Chosen(m, I)
      BY <1>2, CleanTurnsAre
    <2> HIDE DEF own
    <2>3. /\ s \in Seq(own)
          /\ \A i, j \in 1..Len(s) : i < j => Earlier(s[i], s[j])
          /\ \A turn \in own : \E i \in 1..Len(s) : s[i] = turn
      BY <2>1, SortedIsInOrder
    <2> HIDE DEF s
    <2>4. s \in Seq(Forward) /\ Len(s) \in Nat /\ \A i \in 1..Len(s) : s[i] \in own
      BY <2>1, <2>3, SeqMonotonic, LenProperties
    <2>5. BelongsTo(s, speaker)
      BY <2>1, <2>4 DEF BelongsTo
    <2>6. ASSUME NEW i \in 1..Len(s), NEW j \in 1..Len(s), i < j
          PROVE  s[i].start <= s[j].start
      <3>1. s[i].start \in Int /\ s[j].start \in Int /\ Earlier(s[i], s[j])
        BY <2>1, <2>3, <2>4, <2>6, TurnFields DEF Own
      <3> QED
        BY <3>1 DEF Earlier
    <2>7. MergeInv(m, s, Len(s), speaker)
      BY <2>4, <2>5, <2>6, MergedKeeps
    <2> HIDE DEF m
    <2>8. /\ m \in Seq(Forward) /\ Apart(m) /\ BelongsTo(m, speaker)
          /\ Covers(m, s, Len(s)) /\ Bridges(m, s, Len(s))
          /\ DOMAIN m = 1..Len(m)
      BY <2>7, LenProperties DEF MergeInv
    <2>9. /\ c \in Seq(Forward) /\ Apart(c)
          /\ \A i \in 1..Len(c) : \E k \in 1..Len(m) : k \in I /\ c[i] = m[k]
          /\ \A k \in 1..Len(m) : k \in I => \E i \in 1..Len(c) : c[i] = m[k]
      <3> HIDE DEF c, I
      <3>1. /\ Chosen(m, I) \in Seq(Forward) /\ Apart(Chosen(m, I))
            /\ Selects(Chosen(m, I), m, I)
        BY <2>8, ChosenApart
      <3> QED
        BY <2>2, <3>1 DEF Selects
    <2> HIDE DEF c
    <2>10. BelongsTo(c, speaker) /\ \A i \in 1..Len(c) : Long(c[i])
      BY SMTT(30), <2>8, <2>9 DEF BelongsTo, LongPlaces
    <2>11. IsClean(c, speaker)
      BY <2>9, <2>10 DEF IsClean
    <2>12. ASSUME NEW turn \in own, Long(turn)
           PROVE  \E i \in 1..Len(c) : c[i].start <= turn.start /\ turn.end <= c[i].end
      <3>1. PICK j \in 1..Len(s) : s[j] = turn
        BY <2>3
      <3>2. PICK k \in 1..Len(m) : m[k].start <= turn.start /\ turn.end <= m[k].end
        BY <2>8, <3>1 DEF Covers
      <3>3. /\ m[k].start \in Int /\ m[k].end \in Int /\ turn.start \in Int /\ turn.end \in Int
        <4>1. m[k] \in Turns /\ turn \in Turns
          BY <2>1, <2>8, LenProperties DEF Forward
        <4> QED
          BY <4>1, TurnFields
      <3>4. Long(m[k])
        BY <2>12, <3>2, <3>3 DEF Long, ShortestTurn
      <3>5. k \in I
        BY <2>8, <3>4 DEF LongPlaces
      <3> QED
        BY <2>9, <3>2, <3>5
    <2>13. ASSUME NEW i \in 1..Len(c), NEW e \in Int, c[i].start <= e, e < c[i].end
           PROVE  \E next \in own : next.start <= e + MergeGap /\ e < next.end
      <3>1. PICK k \in 1..Len(m) : c[i] = m[k]
        BY <2>9
      <3>2. PICK j \in 1..Len(s) : s[j].start <= e + MergeGap /\ e < s[j].end
        BY <2>8, <2>13, <3>1 DEF Bridges
      <3> QED
        BY <2>4, <3>2
    <2> QED
      BY <2>11, <2>12, <2>13 DEF c, own
  <1> QED
    BY <1>1, <1>2

\* Cleaning what is clean changes nothing.
LEMMA CleanTurnsAreKept ==
    ASSUME NEW c, NEW speaker, Known(speaker), IsClean(c, speaker)
    PROVE  CleanTurns(c, speaker) = c
  <1> DEFINE own == OwnTurns(c, speaker)
             N == Len(c)
  <1>1. /\ c \in Seq(Forward) /\ N \in Nat /\ DOMAIN c = 1..N /\ c \in [1..N -> Forward]
        /\ c \in Seq(Turns)
    <2>1. c \in Seq(Forward) /\ Forward \subseteq Turns
      BY DEF IsClean, Forward
    <2> QED
      BY <2>1, LenProperties, SeqMonotonic
  <1>2. \A i \in 1..N : c[i].speaker = speaker /\ Ordered(c[i]) = c[i]
    <2>1. \A i \in 1..N : c[i] \in Turns /\ c[i] \in Forward
      BY <1>1 DEF Forward
    <2> QED
      BY <2>1, OrderedIs DEF IsClean, BelongsTo
  <1>3. IsFiniteSet(own) /\ Own(own) /\ own \subseteq Forward
    BY <1>1, OwnTurnsAreOwn
  <1>4. own = {c[i] : i \in 1..N}
    BY <1>1, <1>2 DEF OwnTurns
  <1> HIDE DEF own, N
  <1>5. ASSUME NEW i \in 1..N, NEW j \in 1..N, i < j PROVE c[i].start < c[j].start
    <2>1. c[i].end + MergeGap < c[j].start
      BY <1>5 DEF IsClean, Apart, N
    <2>2. /\ c[i].start \in Int /\ c[i].end \in Int /\ c[i].start <= c[i].end
          /\ c[j].start \in Int
      <3>1. c[i] \in Forward /\ c[j] \in Forward
        BY <1>1
      <3> QED
        BY <3>1, TurnFields DEF Forward
    <2> QED
      BY <2>1, <2>2 DEF MergeGap
  <1>6. ASSUME NEW i \in 1..N, NEW j \in 1..N, c[i] = c[j] PROVE i = j
    <2>1. c[i].start \in Int /\ c[i].start = c[j].start
      <3>1. c[i] \in Turns
        BY <1>1 DEF Forward
      <3> QED
        BY <1>6, <3>1, TurnFields
    <2>2. ~(i < j) /\ ~(j < i)
      BY <1>5, <2>1
    <2> QED
      BY <1>1, <2>2
  <1>7. c \in Surjection(1..N, own) /\ c \in Injection(1..N, own)
    <2>1. c \in [1..N -> own]
      BY <1>1, <1>4
    <2> QED
      BY <1>1, <1>4, <1>6, <2>1 DEF Surjection, Injection, IsInjective
  <1>8. Cardinality(own) = N
    <2>1. IsFiniteSet(1..N) /\ Cardinality(1..N) = N
      BY <1>1, FS_Interval
    <2> QED
      BY <1>7, <2>1, FS_Surjection
  <1>9. InOrder(c, own)
    BY <1>5, <1>7, <1>8 DEF InOrder, Earlier, Injection
  <1>10. Sorted(own) = c
    BY <1>3, <1>9, SortedIsInOrder, OrderIsUnique
  <1>11. Merged(c) = c
    BY MergedIsIdle DEF IsClean
  <1>12. CleanTurns(c, speaker) = Chosen(c, LongPlaces(c))
    BY <1>10, <1>11, CleanTurnsAre DEF own
  <1>13. 1..Len(c) \subseteq LongPlaces(c)
    BY <1>1 DEF IsClean, LongPlaces, N
  <1> QED
    BY <1>1, <1>12, <1>13, ChosenAll

-----------------------------------------------------------------------------
(* The transcript and its validation.                                      *)

\* Spans as they are read: within the time before the end of the world.
Stretches == {s \in [start : Int, end : Int] : 0 <= s.start /\ s.start <= s.end}

Segments ==
    {s \in [start : Int, end : Int, words : Seq(Stretches)] : 0 <= s.start /\ s.start <= s.end}

LEMMA ReadIs ==
    ASSUME NEW span, span.start \in Int, span.end \in Int
    PROVE  Read(span) \in Stretches
  <1> DEFINE a == Max({0, span.start})
             b == Max({0, span.start, span.end})
  <1>1. a = IF 0 >= span.start THEN 0 ELSE span.start
    BY MaxIs
  <1>2. b \in {0, span.start, span.end} /\ b >= 0 /\ b >= span.start
    <2>1. 0 \in Int /\ span.start \in Int /\ span.end \in Int
      OBVIOUS
    <2> QED
      BY <2>1, MaxOfThree, Zenon
  <1>3. Read(span) = [start |-> a, end |-> b]
    BY DEF Read
  <1> HIDE DEF a, b
  <1>4. a \in Int /\ b \in Int /\ 0 <= a /\ a <= b
    BY <1>1, <1>2
  <1> QED
    BY <1>3, <1>4 DEF Stretches

LEMMA ReadAllIs ==
    ASSUME NEW spans \in Seq([start : Int, end : Int])
    PROVE  ReadAll(spans) \in Seq(Stretches) /\ Len(ReadAll(spans)) = Len(spans)
  <1>1. /\ Len(spans) \in Nat /\ DOMAIN spans = 1..Len(spans)
        /\ \A i \in 1..Len(spans) : spans[i].start \in Int /\ spans[i].end \in Int
    <2>1. \A i \in 1..Len(spans) : spans[i] \in [start : Int, end : Int]
      BY ElementOfSeq
    <2>2. \A i \in 1..Len(spans) : spans[i].start \in Int /\ spans[i].end \in Int
      BY <2>1
    <2> QED
      BY <2>2, LenProperties
  <1>2. \A i \in 1..Len(spans) : Read(spans[i]) \in Stretches
    BY <1>1, ReadIs
  <1>3. ReadAll(spans) = [i \in 1..Len(spans) |-> Read(spans[i])]
    BY <1>1 DEF ReadAll
  <1> QED
    BY <1>1, <1>2, <1>3

LEMMA StretchFields ==
    ASSUME NEW s \in Stretches
    PROVE  /\ s.start \in Int /\ s.end \in Int /\ 0 <= s.start /\ s.start <= s.end
           /\ s = [start |-> s.start, end |-> s.end]
  BY DEF Stretches

LEMMA SegmentFields ==
    ASSUME NEW s \in Segments
    PROVE  /\ s.start \in Int /\ s.end \in Int /\ 0 <= s.start /\ s.start <= s.end
           /\ s.words \in Seq(Stretches)
           /\ s = [start |-> s.start, end |-> s.end, words |-> s.words]
  BY DEF Segments

LEMMA TranscriptIs ==
    ASSUME NEW r \in [segments : Seq([start : Int, end : Int,
                                      words : Seq([start : Int, end : Int])]),
                      words : Seq([start : Int, end : Int]), text : BOOLEAN, duration : Int]
    PROVE  Transcript(r) \in Seq(Segments)
  <1> DEFINE words == ReadAll(r.words)
             segments == [i \in DOMAIN r.segments |->
                            [start |-> Read(r.segments[i]).start,
                             end |-> Read(r.segments[i]).end,
                             words |-> ReadAll(r.segments[i].words)]]
             end == IF words # <<>> THEN Last(words).end ELSE r.duration
             start == IF words # <<>> THEN words[1].start ELSE 0
             whole == [start |-> start, end |-> Max({start, end}), words |-> words]
             N == Len(r.segments)
  <1>1. words \in Seq(Stretches) /\ r.duration \in Int
    BY ReadAllIs
  <1>2. /\ N \in Nat /\ DOMAIN r.segments = 1..N
        /\ \A i \in 1..N : /\ r.segments[i].start \in Int /\ r.segments[i].end \in Int
                           /\ r.segments[i].words \in Seq([start : Int, end : Int])
    <2> DEFINE spans == [start : Int, end : Int]
    <2> HIDE DEF spans
    <2>1. r.segments \in Seq([start : Int, end : Int, words : Seq(spans)])
      BY DEF spans
    <2>2. \A i \in 1..N : r.segments[i] \in [start : Int, end : Int, words : Seq(spans)]
      BY <2>1, ElementOfSeq
    <2>3. \A i \in 1..N : /\ r.segments[i].start \in Int /\ r.segments[i].end \in Int
                           /\ r.segments[i].words \in Seq(spans)
      BY <2>2
    <2>4. N \in Nat /\ DOMAIN r.segments = 1..N
      BY <2>1, LenProperties
    <2> QED
      BY <2>3, <2>4 DEF spans
  <1>3. \A i \in 1..N : segments[i] \in Segments
    <2> SUFFICES ASSUME NEW i \in 1..N PROVE segments[i] \in Segments
      OBVIOUS
    <2> DEFINE a == Read(r.segments[i])
               w == ReadAll(r.segments[i].words)
    <2>1. a \in Stretches /\ w \in Seq(Stretches)
      BY <1>2, ReadIs, ReadAllIs
    <2>2. segments[i] = [start |-> a.start, end |-> a.end, words |-> w]
      BY <1>2
    <2> HIDE DEF a, w, segments
    <2> QED
      BY <2>1, <2>2, StretchFields DEF Segments
  <1>4. segments \in Seq(Segments) /\ Len(segments) = N /\ DOMAIN segments = 1..N
    <2>1. segments \in [1..N -> Segments]
      BY <1>2, <1>3
    <2> HIDE DEF segments, N
    <2> QED
      BY <1>2, <2>1
  <1>5. start \in Int /\ end \in Int /\ 0 <= start
    <2>1. CASE words = <<>>
      BY <1>1, <2>1
    <2>2. CASE words # <<>>
      <3>1. Len(words) \in 1..Len(words) /\ 1 \in 1..Len(words)
        BY <1>1, <2>2, EmptySeq, LenProperties
      <3>2. words[1] \in Stretches /\ words[Len(words)] \in Stretches
        BY <1>1, <3>1, LenProperties
      <3> HIDE DEF words
      <3> QED
        BY <2>2, <3>2, StretchFields DEF Last
    <2> QED
      BY <2>1, <2>2
  <1>6. whole \in Segments
    <2> DEFINE m == Max({start, end})
    <2>1. m \in Int /\ start <= m
      <3> HIDE DEF start, end
      <3>1. m = IF start >= end THEN start ELSE end
        BY <1>5, MaxIs
      <3> HIDE DEF m
      <3> QED
        BY <1>5, <3>1
    <2> HIDE DEF start, end, words, m
    <2>2. whole = [start |-> start, end |-> m, words |-> words]
      BY DEF m
    <2> QED
      BY <1>1, <1>5, <2>1, <2>2 DEF Segments
  <1> DEFINE filled == [i \in DOMAIN segments |->
                          [segments[i] EXCEPT !.words =
                              Filtered(words, LAMBDA word : Place(word, segments) = i)]]
  <1>7. filled \in Seq(Segments)
    <2> HIDE DEF words, segments
    <2>1. ASSUME NEW i \in 1..N PROVE filled[i] \in Segments
      <3> DEFINE I == {n \in DOMAIN words : Place(words[n], segments) = i}
      <3>1. Chosen(words, I) \in Seq(Stretches)
        BY <1>1, ChosenPicks
      <3>2. filled[i] = [segments[i] EXCEPT !.words = Chosen(words, I)]
        BY <1>4 DEF Filtered
      <3>3. segments[i] \in Segments
        BY <1>4, LenProperties
      <3> HIDE DEF I, filled
      <3>4. filled[i] = [start |-> segments[i].start, end |-> segments[i].end,
                         words |-> Chosen(words, I)]
        BY <3>2, <3>3, SegmentFields
      <3> QED
        BY <3>1, <3>3, <3>4, SegmentFields DEF Segments
    <2>2. filled \in [1..N -> Segments]
      BY <1>4, <2>1
    <2> HIDE DEF filled, N
    <2> QED
      BY <1>2, <2>2, FunctionIsSeq
  <1>8. Transcript(r) \in {<<>>, <<whole>>, segments, filled}
    BY DEF Transcript
  <1>9. <<>> \in Seq(Segments) /\ <<whole>> \in Seq(Segments)
    <2> HIDE DEF whole
    <2> QED
      BY <1>6, EmptySeq
  <1> HIDE DEF whole, segments, filled
  <1> QED
    BY <1>4, <1>7, <1>8, <1>9

LEMMA RepairedIs ==
    ASSUME NEW span, span.start \in Int, span.end \in Int, 0 <= span.start,
           span.start <= span.end, NEW d \in Nat \ {0}
    PROVE  /\ Repaired(span, d) \in Stretches /\ In(Repaired(span, d), d)
           /\ ~ Inverted(span, d)
           /\ Outside(span, d) <=>
                 ~(Repaired(span, d).start = span.start /\ Repaired(span, d).end = span.end)
  <1> DEFINE a == IF span.start <= d THEN span.start ELSE d
             b == IF span.end <= d THEN span.end ELSE d
  <1>1. a \in Int /\ b \in Int /\ 0 <= a /\ a <= b /\ b <= d
    OBVIOUS
  <1>2. Within(span, d) = [start |-> a, end |-> b]
    <2>1. Max({0, span.start}) = span.start
      BY MaxIs
    <2>2. Min({span.start, d}) = a /\ Min({span.end, d}) = b
      BY MinIs
    <2> QED
      BY <2>1, <2>2 DEF Within
  <1> HIDE DEF a, b
  <1>3. Min({a, b}) = a /\ Max({a, b}) = b
    BY <1>1, MinIs, MaxIs
  <1>4. Repaired(span, d) = [start |-> a, end |-> b]
    BY <1>2, <1>3 DEF Repaired
  <1>5. Repaired(span, d) \in Stretches /\ In(Repaired(span, d), d)
    BY <1>1, <1>4 DEF Stretches, In
  <1>6. ~ Inverted(span, d)
    BY <1>1, <1>2 DEF Inverted
  <1>7. Outside(span, d) <=> ~(a = span.start /\ b = span.end)
    BY DEF Outside, a, b
  <1> QED
    BY <1>4, <1>5, <1>6, <1>7

LEMMA RepairedStretch ==
    ASSUME NEW span \in Stretches, NEW d \in Nat \ {0}
    PROVE  /\ Repaired(span, d) \in Stretches /\ In(Repaired(span, d), d)
           /\ ~ Inverted(span, d)
           /\ Outside(span, d) <=> Repaired(span, d) # span
  <1>1. /\ span.start \in Int /\ span.end \in Int /\ 0 <= span.start
        /\ span.start <= span.end /\ span = [start |-> span.start, end |-> span.end]
    BY StretchFields
  <1>2. /\ Repaired(span, d) \in Stretches /\ In(Repaired(span, d), d)
        /\ ~ Inverted(span, d)
        /\ Outside(span, d) <=>
              ~(Repaired(span, d).start = span.start /\ Repaired(span, d).end = span.end)
    BY <1>1, RepairedIs
  <1>3. Repaired(span, d) = [start |-> Repaired(span, d).start, end |-> Repaired(span, d).end]
    BY <1>2, StretchFields
  <1> QED
    BY <1>1, <1>2, <1>3

ValidWords(words, d) == [n \in DOMAIN words |-> Repaired(words[n], d)]

LEMMA ValidWordsAre ==
    ASSUME NEW words \in Seq(Stretches), NEW d \in Nat \ {0}
    PROVE  /\ ValidWords(words, d) \in Seq(Stretches)
           /\ \A n \in DOMAIN ValidWords(words, d) : In(ValidWords(words, d)[n], d)
           /\ (\E n \in DOMAIN words : Outside(words[n], d)) <=> ValidWords(words, d) # words
           /\ \A n \in DOMAIN words : ~ Inverted(words[n], d)
  <1> DEFINE N == Len(words)
             v == ValidWords(words, d)
  <1>1. N \in Nat /\ DOMAIN words = 1..N /\ \A n \in 1..N : words[n] \in Stretches
    BY LenProperties
  <1>2. words = [n \in 1..N |-> words[n]]
    BY LenProperties
  <1>3. v = [n \in 1..N |-> Repaired(words[n], d)]
    BY <1>1 DEF ValidWords
  <1>4. \A n \in 1..N : /\ Repaired(words[n], d) \in Stretches /\ In(Repaired(words[n], d), d)
                        /\ ~ Inverted(words[n], d)
                        /\ Outside(words[n], d) <=> Repaired(words[n], d) # words[n]
    BY <1>1, RepairedStretch
  <1> HIDE DEF v, N
  <1>5. v \in Seq(Stretches)
    BY <1>1, <1>3, <1>4
  <1>6. \A n \in DOMAIN v : In(v[n], d)
    BY <1>3, <1>4
  <1>7. (\E n \in 1..N : Outside(words[n], d)) <=> v # words
    <2>1. (\A n \in 1..N : v[n] = words[n]) <=> v = words
      BY <1>2, <1>3
    <2>2. \A n \in 1..N : v[n] = Repaired(words[n], d)
      BY <1>3
    <2> QED
      BY <1>4, <2>1, <2>2
  <1> QED
    BY <1>1, <1>4, <1>5, <1>6, <1>7 DEF v

ValidSegment(s, d) ==
    [start |-> Repaired(s, d).start, end |-> Repaired(s, d).end,
     words |-> ValidWords(s.words, d)]

\* What is compared of a segment, and what is made of it.
OfSegment(s) == {s} \cup ToSet(s.words)

LEMMA ValidSegmentIs ==
    ASSUME NEW s \in Segments, NEW d \in Nat \ {0}
    PROVE  /\ ValidSegment(s, d) \in Segments
           /\ \A span \in OfSegment(ValidSegment(s, d)) : In(span, d)
           /\ (\E span \in OfSegment(s) : Outside(span, d)) <=> ValidSegment(s, d) # s
           /\ \A span \in OfSegment(s) : ~ Inverted(span, d)
  <1> DEFINE r == Repaired(s, d)
             w == ValidWords(s.words, d)
             v == ValidSegment(s, d)
  <1>1. /\ s.start \in Int /\ s.end \in Int /\ 0 <= s.start /\ s.start <= s.end
        /\ s.words \in Seq(Stretches)
        /\ s = [start |-> s.start, end |-> s.end, words |-> s.words]
    BY SegmentFields
  <1>2. /\ r \in Stretches /\ In(r, d) /\ ~ Inverted(s, d)
        /\ Outside(s, d) <=> ~(r.start = s.start /\ r.end = s.end)
    BY <1>1, RepairedIs
  <1>3. /\ w \in Seq(Stretches)
        /\ \A n \in DOMAIN w : In(w[n], d)
        /\ (\E n \in DOMAIN s.words : Outside(s.words[n], d)) <=> w # s.words
        /\ \A n \in DOMAIN s.words : ~ Inverted(s.words[n], d)
    BY <1>1, ValidWordsAre
  <1>4. v = [start |-> r.start, end |-> r.end, words |-> w]
    BY DEF ValidSegment
  <1> HIDE DEF r, w, v
  <1>5. v \in Segments
    BY <1>2, <1>3, <1>4, StretchFields DEF Segments
  <1>6. \A span \in OfSegment(v) : In(span, d)
    <2>1. In(v, d)
      BY <1>2, <1>4 DEF In
    <2>2. \A span \in ToSet(v.words) : In(span, d)
      BY <1>3, <1>4 DEF ToSet
    <2> QED
      BY <2>1, <2>2 DEF OfSegment
  <1>7. (\E span \in OfSegment(s) : Outside(span, d)) <=> v # s
    <2>1. (\E span \in OfSegment(s) : Outside(span, d)) <=>
             Outside(s, d) \/ \E n \in DOMAIN s.words : Outside(s.words[n], d)
      BY DEF OfSegment, ToSet
    <2>2. v = s <=> r.start = s.start /\ r.end = s.end /\ w = s.words
      BY <1>1, <1>4
    <2> QED
      BY <1>2, <1>3, <2>1, <2>2
  <1>8. \A span \in OfSegment(s) : ~ Inverted(span, d)
    BY <1>2, <1>3 DEF OfSegment, ToSet
  <1> QED
    BY <1>5, <1>6, <1>7, <1>8 DEF v

LEMMA ValidatedIs ==
    ASSUME NEW t \in Seq(Segments), NEW d \in Nat \ {0}
    PROVE  /\ Validated(t, d) \in Seq(Segments)
           /\ \A span \in Spans(Validated(t, d)) : In(span, d)
           /\ RepairsDeclared(t, d) =
                 IF Validated(t, d) # t THEN {"timestamp_out_of_bounds"} ELSE {}
  <1> DEFINE N == Len(t)
             v == Validated(t, d)
  <1>1. N \in Nat /\ DOMAIN t = 1..N /\ \A n \in 1..N : t[n] \in Segments
    BY LenProperties
  <1>2. t = [n \in 1..N |-> t[n]]
    BY LenProperties
  <1>3. v = [n \in 1..N |-> ValidSegment(t[n], d)]
    BY <1>1 DEF Validated, ValidSegment, ValidWords
  <1>4. \A n \in 1..N :
           /\ ValidSegment(t[n], d) \in Segments
           /\ \A span \in OfSegment(ValidSegment(t[n], d)) : In(span, d)
           /\ (\E span \in OfSegment(t[n]) : Outside(span, d)) <=> ValidSegment(t[n], d) # t[n]
           /\ \A span \in OfSegment(t[n]) : ~ Inverted(span, d)
    BY <1>1, ValidSegmentIs
  <1>5. \A m : Spans(m) = UNION {OfSegment(m[n]) : n \in DOMAIN m}
    BY DEF Spans, OfSegment
  <1> HIDE DEF v, N
  <1>6. v \in Seq(Segments)
    BY <1>1, <1>3, <1>4
  <1>7. \A span \in Spans(v) : In(span, d)
    BY <1>3, <1>4, <1>5
  <1>8. (\E span \in Spans(t) : Outside(span, d)) <=> v # t
    <2>1. (\A n \in 1..N : v[n] = t[n]) <=> v = t
      BY <1>2, <1>3
    <2>2. \A n \in 1..N : v[n] = ValidSegment(t[n], d)
      BY <1>3
    <2>3. (\E span \in Spans(t) : Outside(span, d)) <=>
             \E n \in 1..N : \E span \in OfSegment(t[n]) : Outside(span, d)
      BY <1>1, <1>5
    <2> QED
      BY <1>4, <2>1, <2>2, <2>3
  <1>9. ~ \E span \in Spans(t) : Inverted(span, d)
    BY <1>1, <1>4, <1>5
  <1>10. ~(d <= 0)
    OBVIOUS
  <1>11. RepairsDeclared(t, d) = IF v # t THEN {"timestamp_out_of_bounds"} ELSE {}
    BY <1>8, <1>9, <1>10 DEF RepairsDeclared, Declared
  <1> QED
    BY <1>6, <1>7, <1>11 DEF v

-----------------------------------------------------------------------------
(* Observations.                                                           *)

LEMMA BoundedIs ==
    ASSUME NEW o \in Observations, NEW d \in Nat \ {0}
    PROVE  /\ Bounded(o, d) \in Observations
           /\ Bounded(o, d).start < Bounded(o, d).end => In(Bounded(o, d), d)
           /\ Bounded(o, d).metric = o.metric /\ Bounded(o, d).value = o.value
  <1>1. /\ o.start \in Int /\ o.end \in Int /\ o.label \in STRING /\ o.metric \in STRING
        /\ o.value \in Int
        /\ o = [label |-> o.label, metric |-> o.metric, value |-> o.value,
                start |-> o.start, end |-> o.end]
    BY DEF Observations
  <1> DEFINE a == Min({o.start, o.end})
             b == Max({o.start, o.end})
             e == Max({0, a})
             f == Min({b, d})
  <1>2. a \in Int /\ b \in Int
    <2>1. /\ a = IF o.start <= o.end THEN o.start ELSE o.end
          /\ b = IF o.start >= o.end THEN o.start ELSE o.end
      BY <1>1, MinIs, MaxIs
    <2> HIDE DEF a, b
    <2> QED
      BY <1>1, <2>1
  <1>3. Ordered(o) = [label |-> o.label, metric |-> o.metric, value |-> o.value,
                      start |-> a, end |-> b]
    <2>1. Ordered(o) = [o EXCEPT !.start = a, !.end = b]
      BY DEF Ordered
    <2> HIDE DEF a, b
    <2> QED
      BY <1>1, <2>1
  <1> HIDE DEF a, b
  <1>4. e \in Int /\ f \in Int /\ 0 <= e /\ f <= d
    <2>1. (e = IF 0 >= a THEN 0 ELSE a) /\ (f = IF b <= d THEN b ELSE d)
      BY <1>2, MinIs, MaxIs
    <2> HIDE DEF e, f
    <2> QED
      BY <1>2, <2>1
  <1>5. Bounded(o, d) = [label |-> o.label, metric |-> o.metric, value |-> o.value,
                         start |-> e, end |-> f]
    <2> DEFINE q == Ordered(o)
               g == IF d > 0 THEN Min({q.end, d}) ELSE q.end
    <2>1. Bounded(o, d) = [q EXCEPT !.start = Max({0, q.start}), !.end = g]
      BY DEF Bounded
    <2>2. q.start = a /\ q.end = b /\ d > 0
      BY <1>3
    <2>3. g = f /\ Max({0, q.start}) = e
      BY <2>2
    <2>4. q = [label |-> o.label, metric |-> o.metric, value |-> o.value,
               start |-> a, end |-> b]
      BY <1>3
    <2> HIDE DEF q, g, e, f
    <2>5. Bounded(o, d) = [q EXCEPT !.start = e, !.end = f]
      BY <2>1, <2>3
    <2> QED
      BY <2>4, <2>5
  <1> HIDE DEF e, f
  <1> QED
    BY <1>1, <1>4, <1>5 DEF Observations, In

LEMMA ValidObservationsAre ==
    ASSUME NEW os \in Seq(Observations), NEW d \in Nat \ {0}
    PROVE  /\ ValidObservations(os, d) \in Seq(Observations)
           /\ \A o \in ToSet(ValidObservations(os, d)) :
                 /\ In(o, d) /\ o.start < o.end
                 /\ \E n \in DOMAIN os : o.metric = os[n].metric /\ o.value = os[n].value
  <1> DEFINE N == Len(os)
             b == [i \in DOMAIN os |-> Bounded(os[i], d)]
             I == {n \in DOMAIN b : b[n].start < b[n].end}
             v == Chosen(b, I)
  <1>1. N \in Nat /\ DOMAIN os = 1..N /\ \A n \in 1..N : os[n] \in Observations
    BY LenProperties
  <1>2. \A n \in 1..N : /\ b[n] \in Observations
                        /\ b[n].start < b[n].end => In(b[n], d)
                        /\ b[n].metric = os[n].metric /\ b[n].value = os[n].value
    BY <1>1, BoundedIs
  <1>3. ValidObservations(os, d) = v
    BY DEF ValidObservations, Filtered
  <1>4. b \in [1..N -> Observations]
    BY <1>1, <1>2
  <1> HIDE DEF N, b
  <1>5. b \in Seq(Observations) /\ Len(b) = N /\ DOMAIN b = 1..N
    BY <1>1, <1>4
  <1>6. v \in Seq(Observations) /\ \E h : Picks(h, v, b, I, Len(b))
    <2> HIDE DEF I
    <2> QED
      BY <1>5, ChosenPicks
  <1>7. PICK h : Picks(h, v, b, I, N)
    BY <1>5, <1>6
  <1> HIDE DEF v
  <1>8. DOMAIN v = 1..Len(v)
    BY <1>6, LenProperties
  <1>9. ASSUME NEW o \in ToSet(v)
        PROVE  /\ In(o, d) /\ o.start < o.end
               /\ \E n \in DOMAIN os : o.metric = os[n].metric /\ o.value = os[n].value
    <2>1. PICK i \in 1..Len(v) : o = v[i]
      BY <1>8 DEF ToSet
    <2>2. h[i] \in 1..N /\ h[i] \in I /\ v[i] = b[h[i]]
      BY <1>7 DEF Picks
    <2>3. h[i] \in DOMAIN os
      BY <1>1, <2>2 DEF N
    <2> QED
      BY <1>2, <2>1, <2>2, <2>3
  <1> QED
    BY <1>3, <1>6, <1>9

-----------------------------------------------------------------------------
(* What there is of a speaker without turns.                               *)

LEMMA NoneChosen ==
    ASSUME NEW S, NEW s \in Seq(S), NEW I, \A n \in 1..Len(s) : n \notin I
    PROVE  Chosen(s, I) = <<>>
  <1> DEFINE c == Chosen(s, I)
  <1>1. c \in Seq(S) /\ \E h : Picks(h, c, s, I, Len(s))
    BY ChosenPicks
  <1>2. PICK h : Picks(h, c, s, I, Len(s))
    BY <1>1
  <1> HIDE DEF c
  <1>3. Len(c) \in Nat
    BY <1>1, LenProperties
  <1>4. \A i \in 1..Len(c) : h[i] \in I /\ h[i] \in 1..Len(s)
    BY <1>2 DEF Picks
  <1>5. c = <<>>
    <2>1. ASSUME c # <<>> PROVE FALSE
      <3>1. 1 \in 1..Len(c)
        BY <1>1, <1>3, <2>1, EmptySeq
      <3> QED
        BY <1>4, <3>1
    <2> QED
      BY <2>1
  <1> QED
    BY <1>5 DEF c

\* Where there are no turns nothing is observed of a speaker.
LEMMA NoTurnsNoWindows ==
    ASSUME NEW n \in Nat, NEW visual, visual = [i \in 1..n |-> visual[i]],
           NEW k \in Nat, NEW audio, audio = [i \in 1..k |-> audio[i]],
           NEW speaker, NEW d \in Nat
    PROVE  Windows(Active(visual, <<>>, speaker), Active(audio, <<>>, speaker), d) = <<>>
  <1>1. ASSUME NEW j \in Nat, NEW o, o = [i \in 1..j |-> o[i]]
        PROVE  Active(o, <<>>, speaker) = <<>>
    <2> DEFINE I == {i \in DOMAIN o : o[i].label = speaker
                                      /\ \E m \in DOMAIN <<>> : Overlap(o[i], <<>>[m]) > 0}
    <2>1. o \in Seq(Members(o)) /\ Len(o) = j
      BY <1>1, SeqMade, SeqIs
    <2>2. I = {}
      OBVIOUS
    <2>3. Active(o, <<>>, speaker) = Chosen(o, I)
      BY DEF Active, Filtered
    <2> HIDE DEF I
    <2>4. Chosen(o, I) = <<>>
      BY <2>1, <2>2, NoneChosen
    <2> QED
      BY <2>3, <2>4
  <1>2. Active(visual, <<>>, speaker) = <<>> /\ Active(audio, <<>>, speaker) = <<>>
    BY <1>1
  <1>3. ASSUME NEW window, NEW metric PROVE Values(<<>>, window, metric) = <<>>
    <2> DEFINE I == {i \in DOMAIN <<>> : LiesIn(<<>>[i], window) /\ <<>>[i].metric = metric}
    <2>1. Chosen(<<>>, I) = <<>>
      <3> HIDE DEF I
      <3> QED
        BY NothingChosen
    <2>2. Values(<<>>, window, metric) =
          [i \in DOMAIN Chosen(<<>>, I) |-> Chosen(<<>>, I)[i].value]
      BY DEF Values, Filtered
    <2> HIDE DEF I
    <2> QED
      BY <2>1, <2>2
  <1>4. ASSUME NEW window, NEW metrics PROVE DOMAIN Measured(<<>>, window, metrics) = {}
    <2>1. {m \in metrics : Values(<<>>, window, m) # <<>>} = {}
      BY <1>3
    <2> QED
      BY <2>1 DEF Measured
  <1> DEFINE N == d \div WindowSize + 1
             w == [i \in 1..N |->
                     [start |-> (i - 1) * WindowSize,
                      acoustic |-> Measured(<<>>, i - 1, Averaged \cup AddedUp),
                      visual |-> Measured(<<>>, i - 1, VisualMetrics)]]
             J == {i \in DOMAIN w : DOMAIN w[i].acoustic # {} \/ DOMAIN w[i].visual # {}}
  <1>5. Windows(<<>>, <<>>, d) = Chosen(w, J)
    BY DEF Windows, Filtered
  <1>6. J = {}
    BY <1>4
  <1>7. w \in Seq(Members(w))
    <2>1. N \in Nat
      BY DEF WindowSize
    <2>2. w = [i \in 1..N |-> w[i]]
      OBVIOUS
    <2> HIDE DEF w, N
    <2> QED
      BY <2>1, <2>2, SeqMade, SeqIs
  <1>8. Chosen(w, J) = <<>>
    <2> HIDE DEF w, J
    <2> QED
      BY <1>6, <1>7, NoneChosen
  <1> QED
    BY <1>2, <1>5, <1>8

\* Who has clean turns has spoken, and who has none has not.
LEMMA SpeakingTimeIs ==
    ASSUME NEW c \in Seq(Forward), \A i \in 1..Len(c) : Long(c[i])
    PROVE  /\ SpeakingTime(c) \in Int
           /\ c # <<>> => SpeakingTime(c) > 0
           /\ c = <<>> => SpeakingTime(c) = 0
  <1> DEFINE N == Len(c)
             I == {n \in DOMAIN c : TRUE}
             t == [i \in DOMAIN c |-> c[i].end - c[i].start]
  <1>1. N \in Nat /\ DOMAIN c = 1..N /\ \A i \in 1..N : c[i] \in Forward
    BY LenProperties
  <1>2. Chosen(c, I) = c
    <2>1. 1..Len(c) \subseteq I
      BY <1>1
    <2> HIDE DEF I
    <2> QED
      BY <2>1, ChosenAll
  <1>3. SpeakingTime(c) = Total([i \in DOMAIN Chosen(c, I) |->
                                   Chosen(c, I)[i].end - Chosen(c, I)[i].start])
    BY DEF SpeakingTime, SumOf, Filtered
  <1>4. SpeakingTime(c) = Total(t)
    <2> HIDE DEF I
    <2> QED
      BY <1>2, <1>3
  <1>5. \A i \in 1..N : c[i].end - c[i].start \in Int /\ c[i].end - c[i].start >= 1
    <2> SUFFICES ASSUME NEW i \in 1..N
                 PROVE  c[i].end - c[i].start \in Int /\ c[i].end - c[i].start >= 1
      OBVIOUS
    <2>1. c[i].end \in Int /\ c[i].start \in Int
      BY <1>1, TurnFields DEF Forward
    <2>2. c[i].end - c[i].start >= 100
      BY DEF Long, ShortestTurn
    <2> QED
      BY <2>1, <2>2
  <1>6. t \in [1..N -> Int] /\ \A i \in 1..N : t[i] >= 1
    BY <1>1, <1>5
  <1> HIDE DEF t, N
  <1>7. t \in Seq(Int) /\ Len(t) = N
    BY <1>1, <1>6
  <1>8. Total(t) \in Int /\ Total(t) >= N
    BY <1>6, <1>7, TotalPositive
  <1>9. c # <<>> => N >= 1
    BY <1>1, EmptySeq DEF N
  <1>10. c = <<>> => Total(t) = 0
    <2> SUFFICES ASSUME c = <<>> PROVE Total(t) = 0
      OBVIOUS
    <2>1. N = 0
      BY EmptySeq DEF N
    <2>2. t = <<>>
      BY <1>6, <2>1
    <2> QED
      BY <2>2, TotalOfNothing
  <1> QED
    BY <1>1, <1>4, <1>8, <1>9, <1>10

-----------------------------------------------------------------------------
(* The analysis: spans lie within the recording, cleaning keeps speech.    *)

Repairs == {"timestamp_out_of_bounds", "inverted_timestamps"}

\* What the speech stage has made of the recording.
Heard ==
    /\ transcript \in Seq(Segments)
    /\ speech.duration \in Durations
    /\ speech.segments = Validated(transcript, speech.duration)
    /\ speech.turns \in Seq(Turns)
    /\ IsSeq(speech.labels)
    /\ speech.declared \cap Repairs = RepairsDeclared(transcript, speech.duration)
    /\ "diarization_unavailable" \in speech.declared =>
          speech.turns = OneSpeaker(speech.segments)

\* What has been observed of it.
Seen ==
    /\ observed.visual \in Seq(Observations)
    /\ observed.audio \in Seq(Observations)
    /\ \A o \in ToSet(observed.visual) \cup ToSet(observed.audio) :
          In(o, speech.duration) /\ o.start < o.end
    /\ \A o \in ToSet(observed.audio) : o.metric = "filler_count" => o.value >= 0

AnalysisInv ==
    /\ stage \in {"speech", "observation", "aggregation", "loading", "failed", "reporting", "done"}
    /\ IF stage = "speech" THEN speech = Nothing ELSE Heard
    /\ IF stage \in {"speech", "observation"} THEN observed = Nothing ELSE Seen

LEMMA OneSpeakerIs ==
    ASSUME NEW g \in Seq(Segments)
    PROVE  /\ OneSpeaker(g) \in Seq(Turns)
           /\ \A i \in DOMAIN OneSpeaker(g) : \E s \in Spans(g) :
                 OneSpeaker(g)[i].start = s.start /\ OneSpeaker(g)[i].end = s.end
  <1> DEFINE N == Len(g)
             o == OneSpeaker(g)
  <1>1. N \in Nat /\ DOMAIN g = 1..N /\ \A i \in 1..N : g[i] \in Segments
    BY LenProperties
  <1>2. o = [i \in 1..N |->
               [start |-> g[i].start, end |-> g[i].end, speaker |-> "SPEAKER_00"]]
    BY <1>1 DEF OneSpeaker
  <1>3. \A i \in 1..N : g[i].start \in Int /\ g[i].end \in Int
    BY <1>1, SegmentFields
  <1> HIDE DEF o, N
  <1>4. o \in [1..N -> Turns]
    <2>1. \A a, b \in Int : [start |-> a, end |-> b, speaker |-> "SPEAKER_00"] \in Turns
      BY DEF Turns, Labels
    <2> QED
      BY <1>2, <1>3, <2>1
  <1>5. o \in Seq(Turns)
    BY <1>1, <1>4
  <1>6. \A i \in 1..N : g[i] \in Spans(g)
    BY <1>1 DEF Spans
  <1>7. \A i \in DOMAIN o : \E s \in Spans(g) : o[i].start = s.start /\ o[i].end = s.end
    BY <1>2, <1>6
  <1> QED
    BY <1>5, <1>7 DEF o

LEMMA HeardBy ==
    ASSUME NEW t \in Seq(Segments), NEW z \in Diarizations, NEW d \in Durations
    PROVE  LET r == SpeechResult(t, z, d) IN
           /\ r.duration = d
           /\ r.segments = Validated(t, d)
           /\ r.turns \in Seq(Turns)
           /\ IsSeq(r.labels)
           /\ r.declared \cap Repairs = RepairsDeclared(t, d)
           /\ "diarization_unavailable" \in r.declared => r.turns = OneSpeaker(r.segments)
  <1> DEFINE r == SpeechResult(t, z, d)
             v == Validated(t, d)
             p == RepairsDeclared(t, d)
  <1>1. d \in Nat \ {0} /\ z.turns \in Seq(Turns) /\ IsSeq(z.labels)
    <2>1. d \in Nat \ {0}
      BY DurationsAssumption
    <2> DEFINE turns == [start : Int, end : Int, speaker : STRING]
    <2>2. turns \subseteq Turns
      BY DEF Turns, Labels
    <2> HIDE DEF turns
    <2>3. z.turns \in Seq(turns)
      BY ServicesAssumption DEF turns
    <2>4. z.turns \in Seq(Turns)
      BY <2>2, <2>3, SeqMonotonic
    <2>5. IsSeq(z.labels)
      <3>1. z.labels \in Seq(STRING)
        BY ServicesAssumption
      <3> QED
        BY <3>1, IsSeqOf
    <2> QED
      BY <2>1, <2>4, <2>5
  <1>2. v \in Seq(Segments) /\ p \subseteq {"timestamp_out_of_bounds"}
    BY <1>1, ValidatedIs
  <1>3. OneSpeaker(v) \in Seq(Turns)
    BY <1>2, OneSpeakerIs
  <1> HIDE DEF v, p
  <1>4. CASE z.failed
    <2>1. r = [segments |-> v, turns |-> OneSpeaker(v), labels |-> <<"SPEAKER_00">>,
               duration |-> d, declared |-> p \cup {"diarization_unavailable"}]
      BY <1>4 DEF SpeechResult, v, p
    <2> HIDE DEF r
    <2>2. r.declared \cap Repairs = p
      BY <1>2, <2>1 DEF Repairs
    <2>3. IsSeq(<<"SPEAKER_00">>)
      <3>1. <<"SPEAKER_00">> \in Seq({"SPEAKER_00"})
        OBVIOUS
      <3> QED
        BY <3>1, IsSeqOf
    <2> QED
      BY <1>3, <2>1, <2>2, <2>3 DEF r, v, p
  <1>5. CASE ~ z.failed
    <2> DEFINE e == Declared("uncertain_speaker_assignment", Doubtful(v, z))
               f == Declared("no_speakers_detected", KnownOnly(z.labels) = <<>> /\ v # <<>>)
    <2>1. r = [segments |-> v, turns |-> z.turns, labels |-> z.labels,
               duration |-> d, declared |-> p \cup e \cup f]
      BY <1>5 DEF SpeechResult, v, p
    <2>2. e \subseteq {"uncertain_speaker_assignment"} /\ f \subseteq {"no_speakers_detected"}
      BY DEF Declared
    <2> HIDE DEF r, e, f
    <2>3. r.declared \cap Repairs = p /\ "diarization_unavailable" \notin r.declared
      BY <1>2, <2>1, <2>2 DEF Repairs
    <2> QED
      BY <1>1, <2>1, <2>3 DEF r, v, p
  <1> QED
    BY <1>4, <1>5

LEMMA AnalysisStep ==
    ASSUME AnalysisInv, [Next]_vars
    PROVE  AnalysisInv'
  <1>1. CASE Listen
    <2>1. PICK r \in Responses, z \in Diarizations, d \in Durations :
             transcript' = Transcript(r) /\ speech' = SpeechResult(transcript', z, d)
      BY <1>1 DEF Listen
    <2>2. transcript' \in Seq(Segments)
      BY <2>1, ServicesAssumption, TranscriptIs
    <2>3. Heard'
      BY <2>1, <2>2, HeardBy DEF Heard
    <2>4. stage = "speech" /\ stage' = "observation" /\ observed' = Nothing
      BY <1>1 DEF Listen, AnalysisInv
    <2> QED
      BY <2>3, <2>4 DEF AnalysisInv
  <1>2. CASE Observe
    <2>1. PICK p \in Pictures \cup {<<>>}, s \in Sounds \cup {<<>>} :
             observed' = [visual |-> ValidObservations(p, speech.duration),
                          audio |-> ValidObservations(s, speech.duration)]
      BY <1>2 DEF Observe
    <2>2. p \in Seq(Observations) /\ s \in Seq(Observations)
      BY ServicesAssumption, EmptySeq
    <2>3. Heard /\ speech.duration \in Nat \ {0}
      BY <1>2, DurationsAssumption DEF Observe, AnalysisInv, Heard
    <2>4. /\ ValidObservations(p, speech.duration) \in Seq(Observations)
          /\ \A o \in ToSet(ValidObservations(p, speech.duration)) :
                In(o, speech.duration) /\ o.start < o.end
          /\ ValidObservations(s, speech.duration) \in Seq(Observations)
          /\ \A o \in ToSet(ValidObservations(s, speech.duration)) :
                /\ In(o, speech.duration) /\ o.start < o.end
                /\ \E n \in DOMAIN s : o.metric = s[n].metric /\ o.value = s[n].value
      BY <2>2, <2>3, ValidObservationsAre
    <2>5. \A n \in DOMAIN s : s[n].metric = "filler_count" => s[n].value >= 0
      <3>1. CASE s \in Sounds
        BY <3>1, FillersAssumption
      <3>2. CASE s = <<>>
        BY <3>2
      <3> QED
        BY <3>1, <3>2
    <2>6. \A o \in ToSet(ValidObservations(s, speech.duration)) :
             o.metric = "filler_count" => o.value >= 0
      BY <2>4, <2>5
    <2>7. speech' = speech /\ transcript' = transcript /\ stage' = "aggregation"
      BY <1>2 DEF Observe
    <2>8. Heard' /\ Seen'
      BY <2>1, <2>3, <2>4, <2>6, <2>7 DEF Heard, Seen
    <2> QED
      BY <2>7, <2>8 DEF AnalysisInv
  <1>3. CASE /\ UNCHANGED <<transcript, speech, observed>>
             /\ stage \notin {"speech", "observation"}
             /\ stage' \in {"aggregation", "loading", "failed", "reporting", "done"}
    BY <1>3 DEF AnalysisInv, Heard, Seen
  <1>4. CASE Aggregate \/ (\E mode \in {"live", "groq"} : Load(mode)) \/ MakeReport
    <2>1. /\ UNCHANGED <<transcript, speech, observed>>
          /\ stage \notin {"speech", "observation"}
          /\ stage' \in {"aggregation", "loading", "failed", "reporting", "done"}
      BY <1>4 DEF Aggregate, Load, MakeReport
    <2> QED
      BY <1>3, <2>1
  <1>5. CASE UNCHANGED vars
    BY <1>5 DEF vars, AnalysisInv, Heard, Seen
  <1> QED
    BY <1>1, <1>2, <1>4, <1>5 DEF Next

LEMMA AnalysisHolds == Spec => []AnalysisInv
  <1>1. Init => AnalysisInv
    BY DEF Init, AnalysisInv
  <1>2. AnalysisInv /\ [Next]_vars => AnalysisInv'
    BY AnalysisStep
  <1> QED
    BY <1>1, <1>2, PTL DEF Spec

\* Whatever the services answer, what is kept of it lies within the recording and does not
\* run backwards, and a transcript that had to be changed says so (validate_word_timestamps,
\* validate_observation_timestamps).
THEOREM SpansStayWithin == Spec => []SpansWithinRecording
  <1>1. AnalysisInv => SpansWithinRecording
    <2> SUFFICES ASSUME AnalysisInv PROVE SpansWithinRecording
      OBVIOUS
    <2>1. ASSUME speech # Nothing
          PROVE  /\ \A s \in Spans(speech.segments) : In(s, speech.duration)
                 /\ "diarization_unavailable" \in speech.declared =>
                       \A i \in DOMAIN speech.turns : In(speech.turns[i], speech.duration)
                 /\ speech.segments # transcript <=> speech.declared \cap Repairs # {}
      <3>1. Heard /\ speech.duration \in Nat \ {0}
        BY <2>1, DurationsAssumption DEF AnalysisInv, Heard
      <3>2. /\ speech.segments \in Seq(Segments)
            /\ \A s \in Spans(speech.segments) : In(s, speech.duration)
            /\ speech.declared \cap Repairs =
                  IF speech.segments # transcript THEN {"timestamp_out_of_bounds"} ELSE {}
        BY <3>1, ValidatedIs DEF Heard
      <3>3. ASSUME "diarization_unavailable" \in speech.declared, NEW i \in DOMAIN speech.turns
            PROVE  In(speech.turns[i], speech.duration)
        <4>1. speech.turns = OneSpeaker(speech.segments)
          BY <3>1, <3>3 DEF Heard
        <4>2. PICK s \in Spans(speech.segments) :
                 speech.turns[i].start = s.start /\ speech.turns[i].end = s.end
          BY <3>2, <3>3, <4>1, OneSpeakerIs
        <4> QED
          BY <3>2, <4>2 DEF In
      <3> QED
        BY <3>2, <3>3
    <2>2. ASSUME observed # Nothing
          PROVE  \A o \in ToSet(observed.visual) \cup ToSet(observed.audio) :
                    In(o, speech.duration) /\ o.start < o.end
      BY <2>2 DEF AnalysisInv, Seen
    <2> QED
      BY <2>1, <2>2 DEF SpansWithinRecording, Repairs
  <1> QED
    BY <1>1, AnalysisHolds, PTL

\* Cleaning a speaker's turns loses none that is long enough, keeps turns apart that a
\* pause divides, bridges no longer pause, and changes nothing a second time
\* (clean_diarization_turns).
THEOREM CleaningKeeps == Spec => []CleaningKeepsSpeech
  <1>1. AnalysisInv => CleaningKeepsSpeech
    <2> SUFFICES ASSUME AnalysisInv, stage = "observation", NEW speaker \in Participants(speech)
                 PROVE  LET raw == OwnTurns(speech.turns, speaker)
                            clean == CleanTurns(speech.turns, speaker)
                        IN  /\ \A turn \in raw : turn.end - turn.start >= ShortestTurn =>
                                  \E i \in DOMAIN clean :
                                     clean[i].start <= turn.start /\ turn.end <= clean[i].end
                            /\ \A i, j \in DOMAIN clean :
                                  i < j => clean[i].end + MergeGap < clean[j].start
                            /\ \A i \in DOMAIN clean : \A turn \in raw :
                                  clean[i].start <= turn.end /\ turn.end < clean[i].end =>
                                     \E next \in raw : /\ next.start <= turn.end + MergeGap
                                                       /\ next.end > turn.end
                            /\ CleanTurns(clean, speaker) = clean
      BY DEF CleaningKeepsSpeech
    <2> DEFINE raw == OwnTurns(speech.turns, speaker)
               clean == CleanTurns(speech.turns, speaker)
    <2>1. speech.turns \in Seq(Turns) /\ Known(speaker)
      BY DEF AnalysisInv, Heard, Participants
    <2>2. /\ IsClean(clean, speaker)
          /\ \A turn \in raw : Long(turn) =>
                \E i \in 1..Len(clean) :
                   clean[i].start <= turn.start /\ turn.end <= clean[i].end
          /\ \A i \in 1..Len(clean), e \in Int :
                clean[i].start <= e /\ e < clean[i].end =>
                   \E next \in raw : next.start <= e + MergeGap /\ e < next.end
      BY <2>1, CleanTurnsAreClean
    <2>3. CleanTurns(clean, speaker) = clean
      BY <2>1, <2>2, CleanTurnsAreKept
    <2>4. raw \subseteq Forward
      BY <2>1, OwnTurnsAreOwn
    <2> HIDE DEF raw, clean
    <2>5. DOMAIN clean = 1..Len(clean) /\ Apart(clean)
      BY <2>2, LenProperties DEF IsClean
    <2>6. \A turn \in raw : turn.end \in Int
      BY <2>4, TurnFields DEF Forward
    <2>7. ASSUME NEW i \in DOMAIN clean, NEW turn \in raw,
                 clean[i].start <= turn.end, turn.end < clean[i].end
          PROVE  \E next \in raw : next.start <= turn.end + MergeGap /\ next.end > turn.end
      <3>1. PICK next \in raw : next.start <= turn.end + MergeGap /\ turn.end < next.end
        BY <2>2, <2>5, <2>6, <2>7
      <3>2. next.end > turn.end
        BY <2>6, <3>1
      <3> QED
        BY <3>1, <3>2
    <2> QED
      BY <2>2, <2>3, <2>5, <2>7 DEF Long, Apart, raw, clean
  <1> QED
    BY <1>1, AnalysisHolds, PTL

-----------------------------------------------------------------------------
(* The report: praise is grounded.                                         *)

\* What the report has been made of, and what it tells the presenters.
Loaded == evidence.mode = "live" => evidence.profiles = profiles

Told ==
    \E opinion \in Opinions, mapping \in Mappings :
        report.members =
            {MemberFeedback(evidence, opinion, s) : s \in Presenters(evidence, mapping)}

ReportInv ==
    /\ stage \in {"loading", "reporting", "done"} =>
          profiles = Profiles(speech, Combined(speech, observed.visual, observed.audio))
    /\ stage \in {"reporting", "done"} => Loaded
    /\ stage = "done" => Told

LEMMA ReportStep ==
    ASSUME ReportInv, [Next]_vars
    PROVE  ReportInv'
  <1>1. CASE Listen
    BY <1>1 DEF Listen, ReportInv
  <1>2. CASE Observe
    BY <1>2 DEF Observe, ReportInv
  <1>3. CASE Aggregate
    BY <1>3 DEF Aggregate, ReportInv
  <1>4. ASSUME NEW mode \in {"live", "groq"}, Load(mode) PROVE ReportInv'
    <2>1. stage = "loading" /\ UNCHANGED <<profiles, speech, observed, report>>
      BY <1>4 DEF Load
    <2>2. PICK read \in SUBSET {"analysis", "qa"}, round \in Rounds :
             IF mode = "live" /\ read # {"analysis", "qa"}
             THEN stage' = "failed" /\ UNCHANGED evidence
             ELSE LET qa == IF "qa" \in read THEN round ELSE SyntheticRound IN
                  /\ stage' = "reporting"
                  /\ evidence' =
                       [mode |-> mode,
                        profiles |-> IF "analysis" \in read THEN profiles ELSE SyntheticProfiles,
                        questions |-> qa.questions, answers |-> qa.answers,
                        assessments |-> Normalized(qa.assessments)]
      BY <1>4 DEF Load
    <2>3. CASE mode = "live" /\ read # {"analysis", "qa"}
      BY <2>1, <2>2, <2>3 DEF ReportInv
    <2>4. CASE ~(mode = "live" /\ read # {"analysis", "qa"})
      <3>1. /\ stage' = "reporting"
            /\ evidence'.mode = mode
            /\ evidence'.profiles =
                  IF "analysis" \in read THEN profiles ELSE SyntheticProfiles
        BY <2>2, <2>4
      <3>2. Loaded'
        BY <2>1, <2>4, <3>1 DEF Loaded
      <3> QED
        BY <2>1, <3>1, <3>2 DEF ReportInv
    <2> QED
      BY <2>3, <2>4
  <1>5. CASE MakeReport
    <2>1. /\ stage = "reporting" /\ stage' = "done"
          /\ UNCHANGED <<profiles, speech, observed, evidence>>
      BY <1>5 DEF MakeReport
    <2>2. PICK opinion \in Opinions, mapping \in Mappings :
             report'.members =
                {MemberFeedback(evidence, opinion, s) : s \in Presenters(evidence, mapping)}
      BY <1>5 DEF MakeReport
    <2>3. Told'
      BY <2>1, <2>2 DEF Told
    <2> QED
      BY <2>1, <2>3 DEF ReportInv, Loaded
  <1>6. CASE UNCHANGED vars
    BY <1>6 DEF vars, ReportInv, Loaded, Told
  <1> QED
    BY <1>1, <1>2, <1>3, <1>4, <1>5, <1>6 DEF Next

LEMMA ReportHolds == Spec => []ReportInv
  <1>1. Init => ReportInv
    BY DEF Init, ReportInv
  <1>2. ReportInv /\ [Next]_vars => ReportInv'
    BY ReportStep
  <1> QED
    BY <1>1, <1>2, PTL DEF Spec

\* A profile with anything in it is one of a speaker who has clean turns.
LEMMA ProfileIsGrounded ==
    ASSUME NEW speaker, speech.turns \in Seq(Turns), speech.duration \in Nat,
           observed.visual \in Seq(Observations), observed.audio \in Seq(Observations),
           HasDeliveryData(ProfileOf(speaker, speech,
                                     Combined(speech, observed.visual, observed.audio)))
    PROVE  SpeakingTime(CleanTurns(speech.turns, speaker)) > 0
  <1> DEFINE c == CleanTurns(speech.turns, speaker)
             b == Combined(speech, observed.visual, observed.audio)
             w == Windows(Active(b.visual, c, speaker), Active(b.audio, c, speaker),
                          speech.duration)
             p == ProfileOf(speaker, speech, b)
  <1>1. c \in Seq(Forward) /\ \A i \in 1..Len(c) : Long(c[i])
    BY CleanTurnsAreClean DEF IsClean
  <1>2. p.intervals = c /\ p.windows = w /\ p.time = SpeakingTime(c)
    BY DEF ProfileOf
  <1>3. \E n \in Nat : b.visual = [i \in 1..n |-> b.visual[i]]
    <2>1. b.visual = [i \in DOMAIN observed.visual |->
                        Relabelled(observed.visual[i], observed.visual, speech)]
      BY DEF Combined
    <2>2. DOMAIN observed.visual = 1..Len(observed.visual) /\ Len(observed.visual) \in Nat
      BY LenProperties
    <2> HIDE DEF b
    <2> QED
      BY <2>1, <2>2
  <1>4. \E n \in Nat : b.audio = [i \in 1..n |-> b.audio[i]]
    <2>1. b.audio = [i \in DOMAIN observed.audio |-> Attributed(observed.audio[i], speech)]
      BY DEF Combined
    <2>2. DOMAIN observed.audio = 1..Len(observed.audio) /\ Len(observed.audio) \in Nat
      BY LenProperties
    <2> HIDE DEF b
    <2> QED
      BY <2>1, <2>2
  <1>5. p.intervals # <<>> \/ p.windows # <<>> \/ p.time > 0
    BY DEF HasDeliveryData
  <1> HIDE DEF b, p
  <1>6. c # <<>>
    <2> SUFFICES ASSUME c = <<>> PROVE FALSE
      OBVIOUS
    <2>1. w = Windows(Active(b.visual, <<>>, speaker), Active(b.audio, <<>>, speaker),
                      speech.duration)
      OBVIOUS
    <2>2. w = <<>>
      <3> HIDE DEF c, w
      <3>1. PICK n \in Nat : b.visual = [i \in 1..n |-> b.visual[i]]
        BY <1>3
      <3>2. PICK k \in Nat : b.audio = [i \in 1..k |-> b.audio[i]]
        BY <1>4
      <3>3. Windows(Active(b.visual, <<>>, speaker), Active(b.audio, <<>>, speaker),
                    speech.duration) = <<>>
        BY SMTT(30), <3>1, <3>2, NoTurnsNoWindows
      <3> QED
        BY <2>1, <3>3
    <2>3. SpeakingTime(c) = 0
      BY <1>1, SpeakingTimeIs
    <2> HIDE DEF c, w
    <2> QED
      BY <1>2, <1>5, <2>2, <2>3
  <1> QED
    BY <1>1, <1>6, SpeakingTimeIs

\* Who is praised in a live session has spoken in it, and is shown the turns in which that
\* was (run_report_stage, load_report_evidence).
THEOREM PraiseStaysGrounded == Spec => []PraiseIsGrounded
  <1>1. AnalysisInv /\ ReportInv => PraiseIsGrounded
    <2> SUFFICES ASSUME AnalysisInv, ReportInv, stage = "done", evidence.mode = "live",
                        NEW m \in report.members, m.findings # "none"
                 PROVE  /\ SpeakingTime(CleanTurns(speech.turns, m.speaker)) > 0
                        /\ m.intervals = CleanTurns(speech.turns, m.speaker)
      BY DEF PraiseIsGrounded
    <2> DEFINE b == Combined(speech, observed.visual, observed.audio)
               P == Profiles(speech, b)
    <2>1. evidence.profiles = P
      BY DEF ReportInv, Loaded
    <2>2. \E opinion \in Opinions : \E s : m = MemberFeedback(evidence, opinion, s)
      BY DEF ReportInv, Told
    <2>3. PICK opinion \in Opinions : \E s : m = MemberFeedback(evidence, opinion, s)
      BY <2>2
    <2>4. PICK speaker : m = MemberFeedback(evidence, opinion, speaker)
      BY <2>3
    <2> DEFINE profile == ProfileIn(evidence, speaker)
    <2>5. /\ m.speaker = speaker /\ m.intervals = profile.intervals
          /\ HasDeliveryData(profile)
      <3> DEFINE findings == IF ~ HasDeliveryData(profile) THEN "none"
                             ELSE IF speaker \in opinion.members THEN "judge" ELSE "default"
      <3>1. /\ m.speaker = speaker /\ m.intervals = profile.intervals
            /\ m.findings = findings
        BY <2>4 DEF MemberFeedback
      <3> QED
        BY <3>1
    <2>6. speaker \in DOMAIN P /\ profile = P[speaker]
      <3>1. profile = IF speaker \in DOMAIN evidence.profiles THEN evidence.profiles[speaker]
                      ELSE [time |-> 0, intervals |-> <<>>, windows |-> <<>>]
        BY DEF ProfileIn
      <3> HIDE DEF P, profile
      <3>2. CASE speaker \in DOMAIN P
        BY <2>1, <3>1, <3>2
      <3>3. CASE speaker \notin DOMAIN P
        <4>1. profile = [time |-> 0, intervals |-> <<>>, windows |-> <<>>]
          BY <2>1, <3>1, <3>3
        <4>2. ~ HasDeliveryData(profile)
          BY <4>1 DEF HasDeliveryData
        <4> QED
          BY <2>5, <4>2
      <3> QED
        BY <3>2, <3>3
    <2>7. P[speaker] = ProfileOf(speaker, speech, b)
      <3> HIDE DEF b
      <3> QED
        BY <2>6 DEF Profiles
    <2>8. /\ speech.turns \in Seq(Turns) /\ speech.duration \in Nat
          /\ observed.visual \in Seq(Observations) /\ observed.audio \in Seq(Observations)
      BY DurationsAssumption DEF AnalysisInv, Heard, Seen
    <2>9. profile = ProfileOf(speaker, speech, b)
      BY <2>6, <2>7
    <2> HIDE DEF profile, P
    <2>10. SpeakingTime(CleanTurns(speech.turns, speaker)) > 0
      BY <2>5, <2>8, <2>9, ProfileIsGrounded
    <2>11. profile.intervals = CleanTurns(speech.turns, speaker)
      BY <2>9 DEF ProfileOf
    <2> QED
      BY <2>5, <2>10, <2>11
  <1> QED
    BY <1>1, AnalysisHolds, ReportHolds, PTL

-----------------------------------------------------------------------------
(* The overall score is the mean of the scored dimensions.                 *)

\* What a dimension contributes to a sum over some of them.
Part(S, number, d) == IF d \in S THEN number[d] ELSE 0

LEMMA RubricSumIs ==
    ASSUME NEW S, NEW number, \A d \in S : number[d] \in Int
    PROVE  RubricSum(S, number) =
              Part(S, number, "pitch_content_and_evidence")
              + Part(S, number, "business_and_problem_solution_reasoning")
              + Part(S, number, "technical_feasibility")
              + Part(S, number, "delivery_and_body_language")
              + Part(S, number, "timing_and_speech_mechanics")
              + Part(S, number, "qa_quality")
  <1> DEFINE N == Len(Dimensions)
             Eqn(f) == f = [n \in 0..N |->
                              IF n = 0 THEN 0
                              ELSE IF Dimensions[n] \in S THEN f[n - 1] + number[Dimensions[n]]
                              ELSE f[n - 1]]
             step == [p \in Int \X (1..N) |-> p[1] + Part(S, number, Dimensions[p[2]])]
  <1>1. N = 6
    BY DEF Dimensions
  <1>2. /\ Dimensions[1] = "pitch_content_and_evidence"
        /\ Dimensions[2] = "business_and_problem_solution_reasoning"
        /\ Dimensions[3] = "technical_feasibility"
        /\ Dimensions[4] = "delivery_and_body_language"
        /\ Dimensions[5] = "timing_and_speech_mechanics"
        /\ Dimensions[6] = "qa_quality"
    BY DEF Dimensions
  <1>3. RubricSum(S, number) = (CHOOSE f : Eqn(f))[N]
    BY DEF RubricSum
  <1> HIDE DEF N
  <1>4. \A d : Part(S, number, d) \in Int
    BY DEF Part
  <1>5. step \in [Int \X (1..N) -> Int]
    BY <1>4
  <1>6. \A v \in Int, n \in 1..N : step[<<v, n>>] = v + Part(S, number, Dimensions[n])
    OBVIOUS
  <1>7. PICK f \in [0..N -> Int] : f[0] = 0 /\ \A n \in 1..N : f[n] = step[<<f[n - 1], n>>]
    <2> HIDE DEF step
    <2> DEFINE V == Int
    <2>1. N \in Nat /\ 0 \in V /\ step \in [V \X (1..N) -> V]
      BY <1>1, <1>5
    <2> HIDE DEF V
    <2>2. Loops(N, V, 0, step)
      BY <2>1, Loop
    <2> QED
      BY <2>2 DEF Loops, V
  <1>8. Eqn(f)
    <2> HIDE DEF step
    <2>1. \A n \in 0..N : n # 0 => n \in 1..N /\ f[n - 1] \in Int
      BY <1>1, <1>7
    <2>2. \A n \in 0..N : f[n] = IF n = 0 THEN 0
                              ELSE IF Dimensions[n] \in S THEN f[n - 1] + number[Dimensions[n]]
                              ELSE f[n - 1]
      <3> SUFFICES ASSUME NEW n \in 0..N
                   PROVE  f[n] = IF n = 0 THEN 0
                              ELSE IF Dimensions[n] \in S THEN f[n - 1] + number[Dimensions[n]]
                              ELSE f[n - 1]
        OBVIOUS
      <3>1. CASE n = 0
        BY <1>7, <3>1
      <3>2. CASE n # 0
        <4>1. n \in 1..N /\ f[n - 1] \in Int
          BY <2>1, <3>2
        <4>2. f[n] = f[n - 1] + Part(S, number, Dimensions[n])
          BY <1>6, <1>7, <4>1
        <4>3. CASE Dimensions[n] \in S
          BY <3>2, <4>2, <4>3 DEF Part
        <4>4. CASE Dimensions[n] \notin S
          BY <3>2, <4>1, <4>2, <4>4 DEF Part
        <4> QED
          BY <4>3, <4>4
      <3> QED
        BY <3>1, <3>2
    <2>3. f = [n \in 0..N |-> f[n]]
      OBVIOUS
    <2> QED
      BY <2>2, <2>3
  <1> DEFINE g == CHOOSE h : Eqn(h)
  <1>9. Eqn(g)
    <2> HIDE DEF Eqn
    <2> QED
      BY <1>8
  <1>10. /\ g[0] = 0
         /\ \A n \in 1..6 : g[n] = IF Dimensions[n] \in S THEN g[n - 1] + number[Dimensions[n]]
                                   ELSE g[n - 1]
    <2> HIDE DEF g
    <2>1. 0 \in 0..N /\ \A n \in 1..6 : n \in 0..N /\ n # 0
      BY <1>1
    <2> QED
      BY <1>9, <2>1
  <1>11. RubricSum(S, number) = g[6]
    BY <1>1, <1>3
  <1> HIDE DEF g
  <1>12. ASSUME NEW n \in 1..6, g[n - 1] \in Int
         PROVE  g[n] = g[n - 1] + Part(S, number, Dimensions[n]) /\ g[n] \in Int
    <2>1. g[n] = IF Dimensions[n] \in S THEN g[n - 1] + number[Dimensions[n]] ELSE g[n - 1]
      BY <1>10
    <2>2. CASE Dimensions[n] \in S
      BY <1>12, <2>1, <2>2 DEF Part
    <2>3. CASE Dimensions[n] \notin S
      BY <1>12, <2>1, <2>3 DEF Part
    <2> QED
      BY <2>2, <2>3
  <1> DEFINE P(n) == Part(S, number, Dimensions[n])
  <1>13. \A n \in 1..6 : P(n) \in Int
    BY <1>4
  <1> HIDE DEF P
  <1>14. g[1] = P(1) /\ g[1] \in Int
    BY <1>10, <1>12, <1>13 DEF P
  <1>15. g[2] = P(1) + P(2) /\ g[2] \in Int
    BY <1>12, <1>14 DEF P
  <1>16. g[3] = P(1) + P(2) + P(3) /\ g[3] \in Int
    BY <1>12, <1>15 DEF P
  <1>17. g[4] = P(1) + P(2) + P(3) + P(4) /\ g[4] \in Int
    BY <1>12, <1>16 DEF P
  <1>18. g[5] = P(1) + P(2) + P(3) + P(4) + P(5) /\ g[5] \in Int
    BY <1>12, <1>17 DEF P
  <1>19. g[6] = P(1) + P(2) + P(3) + P(4) + P(5) + P(6)
    BY <1>12, <1>18 DEF P
  <1> QED
    BY <1>2, <1>11, <1>19 DEF P

LEMMA QuotientIs ==
    ASSUME NEW m \in Int, NEW n \in Nat \ {0}
    PROVE  /\ RoundedQuotient(m, n) \in Int
           /\ 2 * (n * RoundedQuotient(m, n)) <= 2 * m + n
           /\ 2 * m + n < 2 * (n * RoundedQuotient(m, n)) + 2 * n
  <1> DEFINE a == 2 * m + n
             b == 2 * n
             q == a \div b
  <1>1. a \in Int /\ b \in Nat /\ b > 0 /\ n \in Nat
    OBVIOUS
  <1> HIDE DEF a, b
  <1>2. q \in Int /\ b * q <= a /\ a < b * q + b
    BY <1>1
  <1> HIDE DEF q
  <1>3. b * q = 2 * (n * q)
    BY <1>1, <1>2 DEF b
  <1>4. RoundedQuotient(m, n) = q
    BY DEF RoundedQuotient, q, a, b
  <1> QED
    BY <1>2, <1>3, <1>4 DEF a, b

LEMMA QuotientMonotone ==
    ASSUME NEW m \in Int, NEW k \in Int, NEW n \in Nat \ {0}, m <= k
    PROVE  RoundedQuotient(m, n) <= RoundedQuotient(k, n)
  <1> DEFINE q == RoundedQuotient(m, n)
             r == RoundedQuotient(k, n)
  <1>1. /\ q \in Int /\ r \in Int /\ n \in Int /\ n > 0
        /\ 2 * (n * q) <= 2 * m + n
        /\ 2 * k + n < 2 * (n * r) + 2 * n
    BY QuotientIs
  <1> HIDE DEF q, r
  <1>2. n * q < n * r + n
    BY <1>1
  <1>3. ASSUME r < q PROVE FALSE
    <2>1. r + 1 <= q /\ r + 1 \in Int
      BY <1>1, <1>3
    <2>2. n * (r + 1) <= n * q
      BY <1>1, <2>1
    <2>3. n * (r + 1) = n * r + n
      BY <1>1
    <2> QED
      BY <1>1, <1>2, <2>2, <2>3
  <1> QED
    BY <1>1, <1>3 DEF q, r

\* The scale of a score.
Scale == {n \in Int : 0 <= n /\ n <= 10000}

LEMMA ClampedIs ==
    ASSUME NEW x \in Int
    PROVE  Clamped(x) \in Scale
  <1> DEFINE a == Max({0, x})
  <1>1. a = IF 0 >= x THEN 0 ELSE x
    BY MaxIs
  <1> HIDE DEF a
  <1> DEFINE m == Min({10000, a})
  <1>2. m = IF 10000 <= a THEN 10000 ELSE a
    BY <1>1, MinIs
  <1>3. Clamped(x) = m
    BY DEF Clamped, a
  <1>4. a \in Int /\ 0 <= a
    BY <1>1
  <1> HIDE DEF m
  <1>5. m \in 0..10000
    BY <1>2, <1>4
  <1> QED
    BY <1>3, <1>5 DEF Scale

LEMMA DistanceIs ==
    ASSUME NEW m \in Int, NEW n \in Int
    PROVE  /\ Distance(m, n) \in Nat
           /\ \A c \in Int : Distance(m, n) <= c <=> m - n <= c /\ n - m <= c
  BY DEF Distance

\* What rounding its weight may add to a dimension's share, and how far it may round.
WeightRounds(k, w, W) ==
    /\ 2 * (W * w) <= 2 * (k * 10000) + W
    /\ 2 * (k * 10000) + W < 2 * (W * w) + 2 * W

Near(s, k, w, W) ==
    /\ s * w \in Int
    /\ (s * w) * W - (k * s) * 10000 <= 5000 * W
    /\ (k * s) * 10000 - (s * w) * W <= 5000 * W

LEMMA ShareIs ==
    ASSUME NEW s \in Scale, NEW k \in Nat, NEW W \in Nat \ {0}, NEW w \in Int,
           WeightRounds(k, w, W)
    PROVE  Near(s, k, w, W)
  <1> DEFINE e == W * w - k * 10000
  <1>3. /\ w \in Int /\ W \in Int /\ W > 0 /\ k \in Int /\ s \in Int /\ 0 <= s /\ s <= 10000
        /\ 2 * (W * w) <= 2 * (k * 10000) + W
        /\ 2 * (k * 10000) + W < 2 * (W * w) + 2 * W
    BY DEF WeightRounds, Scale
  <1>4. e \in Int /\ 2 * e <= W /\ -W <= 2 * e
    BY <1>3
  <1>5. s * e = (s * w) * W - (k * s) * 10000
    <2>1. s * (W * w) = (s * w) * W /\ s * (k * 10000) = (k * s) * 10000
      BY <1>3
    <2>2. W * w \in Int /\ k * 10000 \in Int
      BY <1>3
    <2>3. \A a, b \in Int : s * (a - b) = s * a - s * b
      BY <1>3
    <2> QED
      BY <2>1, <2>2, <2>3
  <1> HIDE DEF e
  <1>6. s * (2 * e) <= s * W /\ s * (-W) <= s * (2 * e)
    BY <1>3, <1>4
  <1>7. s * W <= 10000 * W
    BY <1>3
  <1>8. s * (2 * e) = 2 * (s * e) /\ s * (-W) = -(s * W) /\ s * e \in Int /\ s * W \in Int
    BY <1>3, <1>4
  <1>9. s * e <= 5000 * W /\ -(s * e) <= 5000 * W
    <2> DEFINE p == s * e
               q == s * W
    <2>1. p \in Int /\ q \in Int /\ 2 * p <= q /\ -q <= 2 * p /\ q <= 10000 * W
      BY <1>6, <1>7, <1>8
    <2> HIDE DEF p, q
    <2>2. p <= 5000 * W /\ -p <= 5000 * W
      BY <1>3, <2>1
    <2> QED
      BY <2>2 DEF p
  <1>10. (s * w) * W \in Int /\ (k * s) * 10000 \in Int /\ s * w \in Int
    BY <1>3
  <1> QED
    BY <1>3, <1>5, <1>9, <1>10 DEF Near

LEMMA TermIs ==
    ASSUME NEW v \in Int, NEW k \in Nat, NEW W \in Nat \ {0},
           NEW s, s = Clamped(v), NEW w, w = RoundedQuotient(k * 10000, W)
    PROVE  /\ s * w \in Int /\ k * s \in Int
           /\ (s * w) * W - (k * s) * 10000 <= 5000 * W
           /\ (k * s) * 10000 - (s * w) * W <= 5000 * W
  <1>1. s \in Scale
    BY ClampedIs
  <1>2. w \in Int /\ WeightRounds(k, w, W)
    <2>1. k * 10000 \in Int
      OBVIOUS
    <2>2. LET z == RoundedQuotient(k * 10000, W) IN
          /\ z \in Int
          /\ 2 * (W * z) <= 2 * (k * 10000) + W
          /\ 2 * (k * 10000) + W < 2 * (W * z) + 2 * W
      BY <2>1, QuotientIs
    <2> QED
      BY <2>2 DEF WeightRounds
  <1>3. Near(s, k, w, W)
    BY <1>1, <1>2, ShareIs
  <1>4. k * s \in Int
    BY <1>1 DEF Scale
  <1> QED
    BY <1>3, <1>4 DEF Near

LEMMA SixShares ==
    ASSUME NEW W \in Nat \ {0},
           NEW a \in Int, NEW b \in Int, NEW c \in Int, NEW d \in Int, NEW e \in Int, NEW f \in Int
    PROVE  (a + b + c + d + e + f) * W = a * W + b * W + c * W + d * W + e * W + f * W
  OBVIOUS

LEMMA WeightIs ==
    /\ Rubric = {"pitch_content_and_evidence", "business_and_problem_solution_reasoning",
                 "technical_feasibility", "delivery_and_body_language",
                 "timing_and_speech_mechanics", "qa_quality"}
    /\ \A d \in Rubric : Weight[d] \in Nat \ {0}
  BY DEF Rubric, Weight

LEMMA ComponentsAre ==
    ASSUME NEW raw \in [Rubric -> Int]
    PROVE  LET c == Components(raw)
               W == RubricSum(Scored(raw), Weight)
           IN  /\ {d \in Rubric : c[d].status = "scored"} = Scored(raw)
               /\ \A d \in Scored(raw) :
                     /\ c[d].score = Clamped(raw[d])
                     /\ c[d].weight = RoundedQuotient(Weight[d] * 10000, W)
  <1> DEFINE c == Components(raw)
  <1>1. \A d \in Rubric : c[d] = Component(raw[d], IF raw[d] = NoScore THEN 0
                                                   ELSE EffectiveWeight(d, Scored(raw)))
    BY DEF Components
  <1> HIDE DEF c
  <1>2. ASSUME NEW d \in Rubric, raw[d] = NoScore PROVE c[d].status # "scored"
    <2>1. c[d] = [status |-> "not_evaluated"]
      BY <1>1, <1>2 DEF Component
    <2> QED
      BY <2>1
  <1>3. ASSUME NEW d \in Rubric, raw[d] # NoScore
        PROVE  /\ c[d].status = "scored" /\ c[d].score = Clamped(raw[d])
               /\ c[d].weight = EffectiveWeight(d, Scored(raw))
    <2> DEFINE s == Clamped(raw[d])
               w == EffectiveWeight(d, Scored(raw))
    <2>1. c[d] = [status |-> "scored", score |-> s, display |-> Display(s),
                  label |-> Label(s), weight |-> w]
      BY <1>1, <1>3 DEF Component
    <2> HIDE DEF s, w
    <2>2. c[d].status = "scored" /\ c[d].score = s /\ c[d].weight = w
      BY <2>1
    <2> QED
      BY <2>2 DEF s, w
  <1>4. \A d \in Rubric : d \in Scored(raw) <=> raw[d] # NoScore
    BY DEF Scored
  <1>5. {d \in Rubric : c[d].status = "scored"} = Scored(raw)
    BY <1>2, <1>3, <1>4 DEF Scored
  <1>6. \A d \in Scored(raw) : d \in Rubric
    BY DEF Scored
  <1> QED
    BY <1>3, <1>4, <1>5, <1>6 DEF c, EffectiveWeight

\* The whole weight of the dimensions that are scored.
LEMMA WholeWeight ==
    ASSUME NEW S \in SUBSET Rubric
    PROVE  RubricSum(S, Weight) \in Nat /\ (S # {} => RubricSum(S, Weight) \in Nat \ {0})
  <1> DEFINE P(d) == Part(S, Weight, d)
  <1>1. \A d \in Rubric : P(d) \in Nat /\ (d \in S => P(d) >= 1)
    BY WeightIs DEF Part
  <1>2. \A d \in S : Weight[d] \in Int
    BY WeightIs
  <1>3. RubricSum(S, Weight) =
           P("pitch_content_and_evidence") + P("business_and_problem_solution_reasoning")
           + P("technical_feasibility") + P("delivery_and_body_language")
           + P("timing_and_speech_mechanics") + P("qa_quality")
    BY <1>2, RubricSumIs
  <1> HIDE DEF P
  <1>4. /\ P("pitch_content_and_evidence") \in Nat
        /\ P("business_and_problem_solution_reasoning") \in Nat
        /\ P("technical_feasibility") \in Nat /\ P("delivery_and_body_language") \in Nat
        /\ P("timing_and_speech_mechanics") \in Nat /\ P("qa_quality") \in Nat
    BY <1>1, WeightIs
  <1>5. ASSUME S # {} PROVE RubricSum(S, Weight) > 0
    <2>1. PICK d \in S : TRUE
      BY <1>5
    <2>2. d \in Rubric /\ P(d) >= 1
      BY <1>1, <2>1
    <2> QED
      BY <1>3, <1>4, <2>2, WeightIs
  <1> QED
    BY <1>3, <1>4, <1>5

LEMMA OverallIs ==
    ASSUME NEW raw \in [Rubric -> Int], Scored(raw) # {}
    PROVE  LET c == Components(raw)
               W == RubricSum(Scored(raw), Weight)
               Y == RubricSum(Scored(raw), [d \in Scored(raw) |-> Weight[d] * c[d].score])
           IN  Distance(OverallScore(c) * W, Y) <= 4 * W
  <1> DEFINE c == Components(raw)
             S == Scored(raw)
             W == RubricSum(S, Weight)
             x == [d \in S |-> c[d].score * c[d].weight]
             y == [d \in S |-> Weight[d] * c[d].score]
             X == RubricSum(S, x)
             Y == RubricSum(S, y)
             o == OverallScore(c)
  <1>1. S \in SUBSET Rubric /\ W \in Nat \ {0}
    <2>1. S \in SUBSET Rubric
      BY DEF Scored
    <2> QED
      BY <2>1, WholeWeight
  <1>2. /\ {d \in Rubric : c[d].status = "scored"} = S
        /\ \A d \in S : /\ c[d].score = Clamped(raw[d])
                        /\ c[d].weight = RoundedQuotient(Weight[d] * 10000, W)
    BY ComponentsAre
  <1>3. o = RoundedQuotient(X, 10000)
    <2> DEFINE T == {d \in Rubric : c[d].status = "scored"}
    <2>1. o = IF T = {} THEN NoScore
              ELSE RoundedQuotient(RubricSum(T, [d \in T |-> c[d].score * c[d].weight]), 10000)
      BY DEF OverallScore
    <2>2. T = S
      BY <1>2
    <2> HIDE DEF c, S, T, o
    <2>3. S # {}
      BY DEF S
    <2> QED
      BY <2>1, <2>2, <2>3
  <1> HIDE DEF c, S, W
  <1>4. ASSUME NEW d \in S
        PROVE  /\ x[d] \in Int /\ y[d] \in Int
               /\ x[d] * W - y[d] * 10000 <= 5000 * W
               /\ y[d] * 10000 - x[d] * W <= 5000 * W
    <2>1. raw[d] \in Int /\ Weight[d] \in Nat /\ d \in Rubric
      BY <1>1, WeightIs
    <2>2. c[d].score = Clamped(raw[d]) /\ c[d].weight = RoundedQuotient(Weight[d] * 10000, W)
      BY <1>2
    <2>3. x[d] = c[d].score * c[d].weight /\ y[d] = Weight[d] * c[d].score
      OBVIOUS
    <2> HIDE DEF x, y
    <2> DEFINE v == raw[d]
               k == Weight[d]
               s == c[d].score
               w == c[d].weight
    <2>4. /\ v \in Int /\ k \in Nat /\ W \in Nat \ {0}
          /\ s = Clamped(v) /\ w = RoundedQuotient(k * 10000, W)
          /\ x[d] = s * w /\ y[d] = k * s
      BY <1>1, <2>1, <2>2, <2>3
    <2> HIDE DEF v, k, s, w
    <2>5. /\ s * w \in Int /\ k * s \in Int
          /\ (s * w) * W - (k * s) * 10000 <= 5000 * W
          /\ (k * s) * 10000 - (s * w) * W <= 5000 * W
      BY <2>4, TermIs
    <2> QED
      BY <2>4, <2>5
  <1> HIDE DEF x, y
  <1> DEFINE P(d) == Part(S, x, d)
             Q(d) == Part(S, y, d)
  <1>5. ASSUME NEW d
        PROVE  /\ P(d) \in Int /\ Q(d) \in Int /\ P(d) * W \in Int
               /\ P(d) * W - Q(d) * 10000 <= 5000 * W
               /\ Q(d) * 10000 - P(d) * W <= 5000 * W
    <2>1. CASE d \in S
      <3>1. P(d) = x[d] /\ Q(d) = y[d]
        BY <2>1 DEF Part
      <3>2. x[d] * W \in Int
        BY <1>1, <1>4, <2>1
      <3> QED
        BY <1>4, <2>1, <3>1, <3>2
    <2>2. CASE d \notin S
      <3>1. P(d) = 0 /\ Q(d) = 0
        BY <2>2 DEF Part
      <3>2. 0 * W = 0
        BY <1>1
      <3> HIDE DEF P, Q
      <3> QED
        BY <1>1, <3>1, <3>2
    <2> QED
      BY <2>1, <2>2
  <1>6. X = P("pitch_content_and_evidence") + P("business_and_problem_solution_reasoning")
            + P("technical_feasibility") + P("delivery_and_body_language")
            + P("timing_and_speech_mechanics") + P("qa_quality")
    BY <1>4, RubricSumIs
  <1>7. Y = Q("pitch_content_and_evidence") + Q("business_and_problem_solution_reasoning")
            + Q("technical_feasibility") + Q("delivery_and_body_language")
            + Q("timing_and_speech_mechanics") + Q("qa_quality")
    BY <1>4, RubricSumIs
  <1> HIDE DEF X, Y, P, Q
  <1>8. X \in Int /\ Y \in Int
    BY <1>5, <1>6, <1>7
  <1>9. X * W = P("pitch_content_and_evidence") * W
                + P("business_and_problem_solution_reasoning") * W
                + P("technical_feasibility") * W + P("delivery_and_body_language") * W
                + P("timing_and_speech_mechanics") * W + P("qa_quality") * W
    BY <1>1, <1>5, <1>6, SixShares
  <1>10. X * W - Y * 10000 <= 30000 * W /\ Y * 10000 - X * W <= 30000 * W
    BY <1>1, <1>5, <1>7, <1>9
  <1>11. /\ o \in Int
         /\ 10000 * o - X <= 5000
         /\ X - 10000 * o <= 5000
    <2>1. /\ RoundedQuotient(X, 10000) \in Int
          /\ 2 * (10000 * RoundedQuotient(X, 10000)) <= 2 * X + 10000
          /\ 2 * X + 10000 < 2 * (10000 * RoundedQuotient(X, 10000)) + 2 * 10000
      BY <1>8, QuotientIs
    <2> HIDE DEF o
    <2> QED
      BY <1>3, <1>8, <2>1
  <1> HIDE DEF o
  <1> DEFINE r == 10000 * o - X
  <1>12. r \in Int /\ r <= 5000 /\ -5000 <= r
    BY <1>8, <1>11
  <1>13. r * W = 10000 * (o * W) - X * W /\ o * W \in Int /\ X * W \in Int
    BY <1>1, <1>8, <1>11
  <1> HIDE DEF r
  <1>14. r * W <= 5000 * W /\ -(5000 * W) <= r * W
    BY <1>1, <1>12
  <1>15. o * W - Y <= 4 * W /\ Y - o * W <= 4 * W
    BY <1>1, <1>8, <1>10, <1>13, <1>14
  <1>16. Distance(o * W, Y) <= 4 * W
    BY SMTT(30), <1>1, <1>8, <1>13, <1>15, DistanceIs
  <1> QED
    BY <1>16 DEF o, Y, y, W, S, c

\* Numbers that are not negative have a sum that is not.
LEMMA TotalNotNegative ==
    ASSUME NEW s \in Seq(Int), \A i \in 1..Len(s) : s[i] >= 0
    PROVE  Total(s) \in Int /\ Total(s) >= 0
  <1> DEFINE N == Len(s)
  <1>1. N \in Nat /\ \A n \in 1..N : s[n] \in Int /\ s[n] >= 0
    BY LenProperties
  <1>2. PICK f : /\ f[0] = 0
                 /\ \A n \in 1..N : f[n] = f[n - 1] + s[n]
                 /\ \A n \in 0..N : f[n] \in Int
                 /\ Total(s) = f[N]
    BY TotalLoop
  <1> HIDE DEF N
  <1> DEFINE T == {n \in 0..N : f[n] >= 0}
  <1>3. 0 \in T
    BY <1>1, <1>2
  <1>4. ASSUME NEW n \in 1..N, n - 1 \in T PROVE n \in T
    <2>1. n \in 0..N /\ n - 1 \in 0..N
      BY <1>1
    <2>2. f[n] = f[n - 1] + s[n] /\ f[n - 1] >= 0
      BY <1>2, <1>4
    <2> QED
      BY <1>1, <1>2, <2>1, <2>2
  <1>5. N \in T
    <2> HIDE DEF T
    <2>1. N \in 0..N /\ \A n \in 1..N : n - 1 \in T => n \in T
      BY <1>1, <1>4
    <2>2. \A n \in 0..N : n \in T
      BY <1>1, <1>3, <2>1, Induction
    <2> QED
      BY <2>1, <2>2
  <1> QED
    BY <1>1, <1>2, <1>5

LEMMA SetToSeqIs ==
    ASSUME NEW S, IsFiniteSet(S)
    PROVE  /\ Cardinality(S) \in Nat
           /\ SetToSeq(S) \in [1..Cardinality(S) -> S]
           /\ \A i, j \in 1..Cardinality(S) : SetToSeq(S)[i] = SetToSeq(S)[j] => i = j
  <1> DEFINE n == Cardinality(S)
  <1>1. n \in Nat /\ ExistsBijection(1..n, S)
    BY FS_CardinalityType
  <1>2. \E f \in [1..n -> S] : IsInjective(f)
    BY <1>1 DEF ExistsBijection, Bijection, Injection
  <1> DEFINE c == CHOOSE f \in [1..n -> S] : IsInjective(f)
  <1>3. c \in [1..n -> S] /\ IsInjective(c)
    <2> HIDE DEF n
    <2> DEFINE P(f) == f \in [1..n -> S] /\ IsInjective(f)
    <2>1. \E f : P(f)
      BY <1>2
    <2> HIDE DEF P
    <2>2. P(CHOOSE f : P(f))
      BY <2>1, Zenon
    <2> QED
      BY <2>2 DEF P
  <1>4. SetToSeq(S) = c
    BY DEF SetToSeq
  <1> HIDE DEF c, n
  <1>5. \A i, j \in 1..n : c[i] = c[j] => i = j
    BY <1>3 DEF IsInjective
  <1> QED
    BY <1>1, <1>3, <1>4, <1>5 DEF n

LEMMA TeamScoreIs ==
    ASSUME NEW scores, IsFiniteSet(DOMAIN scores), \A s \in DOMAIN scores : scores[s] \in Int,
           NEW otherwise \in Int
    PROVE  TeamScore(scores, otherwise) \in Int
  <1> DEFINE some == {s \in DOMAIN scores : scores[s] # NoScore}
             members == SetToSeq(some)
             values == [i \in DOMAIN members |-> scores[members[i]]]
             n == Cardinality(some)
  <1>1. TeamScore(scores, otherwise) =
           IF some = {} THEN otherwise ELSE RoundedQuotient(Total(values), n)
    BY DEF TeamScore, SumOver
  <1>2. IsFiniteSet(some) /\ \A s \in some : scores[s] \in Int
    BY FS_Subset
  <1> HIDE DEF some
  <1>3. n \in Nat /\ members \in [1..n -> some] /\ (some # {} => n # 0)
    BY <1>2, SetToSeqIs, FS_EmptySet
  <1> HIDE DEF n, members
  <1>4. values \in [1..n -> Int]
    BY <1>2, <1>3
  <1>5. values \in Seq(Int)
    BY <1>3, <1>4
  <1> HIDE DEF values
  <1>6. Total(values) \in Int
    <2>1. Len(values) \in 0..Len(values)
      BY <1>5, LenProperties
    <2> QED
      BY <1>5, <2>1, TotalLoop
  <1>7. some # {} => RoundedQuotient(Total(values), n) \in Int
    BY <1>3, <1>6, QuotientIs
  <1> QED
    BY <1>1, <1>7

LEMMA DeliveryScoreIs ==
    ASSUME NEW profile
    PROVE  DeliveryScore(profile) \in Int
  <1>1. \A g : GazeScore(g) \in Int
    BY DEF GazeScore
  <1>2. \A g : PostureScore(g) \in Int
    BY DEF PostureScore
  <1>3. \A g : SymmetryScore(g) \in Int
    BY DEF SymmetryScore
  <1> QED
    BY <1>1, <1>2, <1>3 DEF DeliveryScore, NoScore

LEMMA TimingScoreIs ==
    ASSUME NEW profile
    PROVE  TimingScore(profile) \in Int
  <1>1. \A g : PaceScore(g) \in Int
    BY DEF PaceScore
  <1>2. \A g, t : PauseScore(g, t) \in Int
    BY DEF PauseScore
  <1>3. \A g, t : FillerScore(g, t) \in Int
    BY DEF FillerScore
  <1> QED
    BY <1>1, <1>2, <1>3 DEF TimingScore, NoScore

LEMMA CreditIs ==
    ASSUME NEW question, NEW answers, NEW assessments,
           \A i \in DOMAIN assessments : ScoreOf(assessments[i]) \in Int
    PROVE  Credit(question, answers, assessments) \in Scale
  <1> DEFINE scores == {ScoreOf(a) : a \in LastFor(assessments, question)} \ {NoScore}
             x == CHOOSE score \in scores : TRUE
  <1>1. scores \subseteq Int
    BY DEF LastFor
  <1>2. Credit(question, answers, assessments) \in {0, Clamped(x)} \/
        (scores = {} /\ Credit(question, answers, assessments) = 0)
    BY DEF Credit
  <1>3. scores # {} => x \in Int
    BY <1>1
  <1>4. 0 \in Scale
    BY DEF Scale
  <1> QED
    <2>1. CASE scores = {}
      BY <1>4, <2>1 DEF Credit
    <2>2. CASE scores # {}
      <3>1. Clamped(x) \in Scale
        BY <1>3, <2>2, ClampedIs
      <3> QED
        BY <1>2, <1>4, <2>2, <3>1
    <2> QED
      BY <2>1, <2>2

LEMMA QaScoreIs ==
    ASSUME NEW questions, IsSeq(questions), questions # <<>>, NEW answers, NEW assessments,
           \A i \in DOMAIN assessments : ScoreOf(assessments[i]) \in Int
    PROVE  LET credits == [i \in DOMAIN questions |->
                              Credit(questions[i], answers, assessments)]
           IN  /\ credits \in Seq(Int)
               /\ Len(credits) = Len(questions) /\ Len(questions) \in Nat \ {0}
               /\ QaScore(questions, answers, assessments) =
                     RoundedQuotient(Total(credits), Len(questions))
               /\ QaScore(questions, answers, assessments) \in Nat
  <1> DEFINE credits == [i \in DOMAIN questions |->
                            Credit(questions[i], answers, assessments)]
             n == Len(questions)
  <1>1. /\ n \in Nat /\ DOMAIN questions = 1..n /\ n # 0
        /\ questions \in Seq(Members(questions))
    BY SeqIs, EmptySeq
  <1>2. \A i \in 1..n : Credit(questions[i], answers, assessments) \in Int
                        /\ Credit(questions[i], answers, assessments) >= 0
    <2>1. \A q : Credit(q, answers, assessments) \in Scale
      BY CreditIs
    <2> SUFFICES ASSUME NEW i \in 1..n
                 PROVE  LET c == Credit(questions[i], answers, assessments)
                        IN  c \in Int /\ c >= 0
      OBVIOUS
    <2> DEFINE c == Credit(questions[i], answers, assessments)
    <2>2. c \in Scale
      BY <2>1
    <2> HIDE DEF c
    <2>3. c \in Int /\ c >= 0
      BY <2>2 DEF Scale
    <2> QED
      BY <2>3 DEF c
  <1>3. QaScore(questions, answers, assessments) = RoundedQuotient(Total(credits), Len(credits))
    BY DEF QaScore, RoundedMean
  <1> HIDE DEF n
  <1>4. credits \in [1..n -> Int] /\ \A i \in 1..n : credits[i] >= 0
    BY <1>1, <1>2
  <1>5. credits \in Seq(Int) /\ Len(credits) = n
    BY <1>1, <1>4
  <1> HIDE DEF credits
  <1>6. Total(credits) \in Int /\ Total(credits) >= 0
    BY <1>4, <1>5, TotalNotNegative
  <1>7. RoundedQuotient(Total(credits), n) \in Nat
    <2> DEFINE t == Total(credits)
    <2>0. t \in Int /\ t >= 0
      BY <1>6
    <2> HIDE DEF t
    <2> DEFINE q == RoundedQuotient(t, n)
    <2> n \in Nat \ {0}
      BY <1>1
    <2>1. /\ q \in Int /\ n \in Int /\ n > 0 /\ t \in Int /\ t >= 0
          /\ 2 * t + n < 2 * (n * q) + 2 * n
      BY <2>0, QuotientIs
    <2> HIDE DEF q
    <2>2. ASSUME q < 0 PROVE FALSE
      <3>1. q + 1 <= 0 /\ q + 1 \in Int
        BY <2>1, <2>2
      <3>2. n * (q + 1) <= 0
        BY <2>1, <3>1
      <3>3. n * (q + 1) = n * q + n
        BY <2>1
      <3> QED
        BY <2>1, <3>2, <3>3
    <2> QED
      BY <2>1, <2>2 DEF q, t
  <1> QED
    BY <1>1, <1>3, <1>5, <1>7 DEF credits, n

LEMMA FewMembers ==
    ASSUME NEW s, NEW n \in Nat, DOMAIN s = 1..n
    PROVE  IsFiniteSet({s[i] : i \in 1..n})
  <1> DEFINE T == {s[i] : i \in 1..n}
             f == [i \in 1..n |-> s[i]]
  <1>1. f \in Surjection(1..n, T)
    BY DEF Surjection
  <1>2. IsFiniteSet(1..n)
    BY FS_Interval
  <1> HIDE DEF f, T
  <1>3. IsFiniteSet(T)
    BY <1>1, <1>2, FS_Surjection
  <1> QED
    BY <1>3 DEF T

LEMMA FewSpeakers ==
    ASSUME NEW a, NEW b
    PROVE  IsFiniteSet({a, b})
  <1>1. IsFiniteSet({a} \cup {b})
    BY FS_Singleton, FS_AddElement
  <1>2. {a} \cup {b} = {a, b}
    OBVIOUS
  <1> QED
    BY <1>1, <1>2

LEMMA FewProfiles ==
    ASSUME IsSeq(speech.labels), speech.turns \in Seq(Turns), NEW combined
    PROVE  IsFiniteSet(DOMAIN Profiles(speech, combined))
  <1> DEFINE n == Len(speech.labels)
             k == Len(speech.turns)
             s == [i \in 1..k |-> speech.turns[i].speaker]
  <1>1. n \in Nat /\ DOMAIN speech.labels = 1..n
    BY SeqIs
  <1>2. k \in Nat /\ DOMAIN speech.turns = 1..k
    BY LenProperties
  <1> HIDE DEF n, k
  <1>3. IsFiniteSet(ToSet(speech.labels))
    <2>1. ToSet(speech.labels) = {speech.labels[i] : i \in 1..n}
      BY <1>1 DEF ToSet
    <2> QED
      BY <1>1, <2>1, FewMembers
  <1>4. IsFiniteSet({s[i] : i \in 1..k})
    <2>1. DOMAIN s = 1..k
      OBVIOUS
    <2> HIDE DEF s
    <2> QED
      BY <1>2, <2>1, FewMembers
  <1>5. {speech.turns[i].speaker : i \in DOMAIN speech.turns} = {s[i] : i \in 1..k}
    BY <1>2
  <1>6. IsFiniteSet(ToSet(speech.labels) \cup {s[i] : i \in 1..k})
    BY <1>3, <1>4, FS_Union
  <1>7. Participants(speech) \subseteq ToSet(speech.labels) \cup {s[i] : i \in 1..k}
    BY <1>5 DEF Participants
  <1>8. DOMAIN Profiles(speech, combined) \subseteq Participants(speech)
    BY DEF Profiles
  <1> HIDE DEF s
  <1>9. DOMAIN Profiles(speech, combined)
           \in SUBSET (ToSet(speech.labels) \cup {s[i] : i \in 1..k})
    BY <1>7, <1>8
  <1> QED
    BY <1>6, <1>9, FS_Subset

\* What goes into the scores.
Gathered(e) ==
    /\ e = [mode |-> e.mode, profiles |-> e.profiles, questions |-> e.questions,
            answers |-> e.answers, assessments |-> e.assessments]
    /\ IsFiniteSet(DOMAIN e.profiles)
    /\ IsSeq(e.questions)
    /\ IsSeq(e.answers)
    /\ \A i \in DOMAIN e.assessments : ScoreOf(e.assessments[i]) \in Int

ScoredAs(opinion) ==
    /\ report.opinion = opinion
    /\ report.components = Components(RawScores(evidence, opinion))
    /\ report.overall = OverallScore(report.components)

ScoreInv ==
    /\ stage = "loading" => IsFiniteSet(DOMAIN profiles)
    /\ stage \in {"reporting", "done"} => Gathered(evidence)
    /\ stage = "done" => \E opinion \in Opinions : ScoredAs(opinion)

\* A round of questions and answers, from the session or made up.
LEMMA RoundIs ==
    ASSUME NEW round \in Rounds \cup {SyntheticRound}
    PROVE  /\ IsSeq(round.questions) /\ IsSeq(round.answers)
           /\ \A i \in DOMAIN Normalized(round.assessments) :
                 ScoreOf(Normalized(round.assessments)[i]) \in Int
  <1> DEFINE N == Normalized(round.assessments)
  <1>1. ASSUME \A i \in DOMAIN round.assessments :
                  LET a == round.assessments[i]
                  IN  a.score \in Int /\ a.nested \in Int /\ a.normalized \in Int
        PROVE  \A i \in DOMAIN N : ScoreOf(N[i]) \in Int
    <2>1. /\ DOMAIN N = DOMAIN round.assessments
          /\ \A i \in DOMAIN N :
                /\ N[i].score = IF round.assessments[i].score # NoScore
                                THEN round.assessments[i].score
                                ELSE round.assessments[i].nested
                /\ N[i].normalized = round.assessments[i].normalized
      BY DEF Normalized
    <2> HIDE DEF N
    <2>2. \A i \in DOMAIN N : N[i].score \in Int /\ N[i].normalized \in Int
      BY <1>1, <2>1
    <2> QED
      BY <2>2 DEF ScoreOf
  <1>2. CASE round \in Rounds
    <2> DEFINE answers == [question : STRING, status : STRING]
               assessments == [question : STRING, score : Int, nested : Int,
                               normalized : Int]
    <2>1. /\ round.questions \in Seq(STRING) /\ round.answers \in Seq(answers)
          /\ round.assessments \in Seq(assessments)
      BY <1>2, RoundsAssumption
    <2>2. \A a \in assessments : /\ a.score \in Int /\ a.nested \in Int
                             /\ a.normalized \in Int
      OBVIOUS
    <2> HIDE DEF answers, assessments, N
    <2>3. IsSeq(round.questions) /\ IsSeq(round.answers)
      BY <2>1, IsSeqOf
    <2>4. \A i \in DOMAIN round.assessments : round.assessments[i] \in assessments
      BY <2>1, LenProperties
    <2> QED
      BY <1>1, <2>2, <2>3, <2>4 DEF N
  <1>3. CASE round = SyntheticRound
    <2>1. round.questions = <<"q_01", "q_02", "q_03">>
      BY <1>3 DEF SyntheticRound
    <2>2. round.answers = [n \in 1..3 |-> [question |-> <<"q_01", "q_02", "q_03">>[n],
                                           status |-> "submitted"]]
      BY <1>3 DEF SyntheticRound
    <2>3. round.assessments = [n \in 1..3 |-> [question |-> <<"q_01", "q_02", "q_03">>[n],
                                               score |-> <<8500, 8000, 7800>>[n],
                                               nested |-> NoScore,
                                               normalized |-> NoScore]]
      BY <1>3 DEF SyntheticRound
    <2>4. IsSeq(round.questions)
      <3>1. <<"q_01", "q_02", "q_03">> \in Seq({"q_01", "q_02", "q_03"})
        OBVIOUS
      <3> QED
        BY <2>1, <3>1, IsSeqOf
    <2>5. IsSeq(round.answers)
      <3>1. round.answers = [n \in 1..3 |-> round.answers[n]]
        BY <2>2
      <3> QED
        BY <3>1, SeqMade
    <2>6. \A i \in 1..3 : <<8500, 8000, 7800>>[i] \in Int
      OBVIOUS
    <2>7. /\ DOMAIN round.assessments = 1..3
          /\ \A i \in 1..3 : /\ round.assessments[i].score = <<8500, 8000, 7800>>[i]
                             /\ round.assessments[i].nested = NoScore
                             /\ round.assessments[i].normalized = NoScore
      BY <2>3
    <2> HIDE DEF N
    <2> QED
      BY <1>1, <2>4, <2>5, <2>6, <2>7 DEF N, NoScore
  <1> QED
    BY <1>2, <1>3

LEMMA ScoreStep ==
    ASSUME AnalysisInv, ScoreInv, [Next]_vars
    PROVE  ScoreInv'
  <1>1. CASE Listen
    BY <1>1 DEF Listen, ScoreInv
  <1>2. CASE Observe
    BY <1>2 DEF Observe, ScoreInv
  <1>3. CASE Aggregate
    <2>1. Heard /\ stage' = "loading"
      BY <1>3 DEF Aggregate, AnalysisInv
    <2>2. profiles' = Profiles(speech, Combined(speech, observed.visual, observed.audio))
      BY <1>3 DEF Aggregate
    <2>3. IsFiniteSet(DOMAIN profiles')
      BY <2>1, <2>2, FewProfiles DEF Heard
    <2> QED
      BY <2>1, <2>3 DEF ScoreInv
  <1>4. ASSUME NEW mode \in {"live", "groq"}, Load(mode) PROVE ScoreInv'
    <2>1. stage = "loading" /\ UNCHANGED <<profiles, speech, observed, report>>
      BY <1>4 DEF Load
    <2>2. PICK read \in SUBSET {"analysis", "qa"}, round \in Rounds :
             IF mode = "live" /\ read # {"analysis", "qa"}
             THEN stage' = "failed" /\ UNCHANGED evidence
             ELSE LET qa == IF "qa" \in read THEN round ELSE SyntheticRound IN
                  /\ stage' = "reporting"
                  /\ evidence' =
                       [mode |-> mode,
                        profiles |-> IF "analysis" \in read THEN profiles ELSE SyntheticProfiles,
                        questions |-> qa.questions, answers |-> qa.answers,
                        assessments |-> Normalized(qa.assessments)]
      BY <1>4 DEF Load
    <2>3. CASE mode = "live" /\ read # {"analysis", "qa"}
      BY <2>1, <2>2, <2>3 DEF ScoreInv
    <2>4. CASE ~(mode = "live" /\ read # {"analysis", "qa"})
      <3> DEFINE qa == IF "qa" \in read THEN round ELSE SyntheticRound
                 some == IF "analysis" \in read THEN profiles ELSE SyntheticProfiles
      <3>1. /\ stage' = "reporting"
            /\ evidence' = [mode |-> mode, profiles |-> some, questions |-> qa.questions,
                            answers |-> qa.answers,
                            assessments |-> Normalized(qa.assessments)]
        BY <2>2, <2>4
      <3>2. IsFiniteSet(DOMAIN some)
        <4>1. IsFiniteSet(DOMAIN profiles)
          BY <2>1 DEF ScoreInv
        <4>2. IsFiniteSet(DOMAIN SyntheticProfiles)
          <5>1. IsFiniteSet({"SPEAKER_00", "SPEAKER_01"})
            BY FewSpeakers
          <5>2. DOMAIN SyntheticProfiles = {"SPEAKER_00", "SPEAKER_01"}
            BY DEF SyntheticProfiles
          <5> QED
            BY <5>1, <5>2
        <4> QED
          BY <4>1, <4>2
      <3>3. qa \in Rounds \cup {SyntheticRound}
        OBVIOUS
      <3> HIDE DEF qa, some
      <3>4. /\ IsSeq(qa.questions) /\ IsSeq(qa.answers)
            /\ \A i \in DOMAIN Normalized(qa.assessments) :
                  ScoreOf(Normalized(qa.assessments)[i]) \in Int
        BY <3>3, RoundIs
      <3>5. /\ evidence'.mode = mode /\ evidence'.profiles = some
            /\ evidence'.questions = qa.questions /\ evidence'.answers = qa.answers
            /\ evidence'.assessments = Normalized(qa.assessments)
        BY <3>1
      <3>6. Gathered(evidence)'
        BY <3>1, <3>2, <3>4, <3>5 DEF Gathered
      <3> QED
        BY <3>1, <3>6 DEF ScoreInv
    <2> QED
      BY <2>3, <2>4
  <1>5. CASE MakeReport
    <2>1. /\ stage = "reporting" /\ stage' = "done"
          /\ UNCHANGED <<profiles, speech, observed, evidence>>
      BY <1>5 DEF MakeReport
    <2>2. PICK opinion \in Opinions, mapping \in Mappings :
             LET components == Components(RawScores(evidence, opinion)) IN
             report' = [opinion |-> opinion, components |-> components,
                        overall |-> OverallScore(components),
                        members |-> {MemberFeedback(evidence, opinion, s) :
                                        s \in Presenters(evidence, mapping)}]
      BY <1>5 DEF MakeReport
    <2>3. /\ report'.opinion = opinion
          /\ report'.components = Components(RawScores(evidence, opinion))
          /\ report'.overall = OverallScore(report'.components)
      <3> DEFINE components == Components(RawScores(evidence, opinion))
                 overall == OverallScore(components)
                 members == {MemberFeedback(evidence, opinion, s) :
                                s \in Presenters(evidence, mapping)}
      <3>1. report' = [opinion |-> opinion, components |-> components,
                       overall |-> overall, members |-> members]
        BY <2>2
      <3> HIDE DEF overall, members
      <3>2. report'.opinion = opinion /\ report'.components = components
            /\ report'.overall = overall
        BY <3>1
      <3> QED
        BY <3>2 DEF overall
    <2>4. ScoredAs(opinion)'
      BY <2>1, <2>3 DEF ScoredAs, RawScores
    <2>5. \E o \in Opinions : ScoredAs(o)'
      BY <2>4
    <2> QED
      BY <2>1, <2>5 DEF ScoreInv, Gathered
  <1>6. CASE UNCHANGED vars
    BY <1>6 DEF vars, ScoreInv, Gathered, ScoredAs
  <1> QED
    BY <1>1, <1>2, <1>3, <1>4, <1>5, <1>6 DEF Next

LEMMA ScoreHolds == Spec => []ScoreInv
  <1>1. Init => ScoreInv
    BY DEF Init, ScoreInv
  <1>2. AnalysisInv /\ ScoreInv /\ [Next]_vars => ScoreInv'
    BY ScoreStep
  <1> QED
    BY <1>1, <1>2, AnalysisHolds, PTL DEF Spec

LEMMA RawScoresAre ==
    ASSUME NEW e, Gathered(e), NEW opinion \in Opinions
    PROVE  LET r == RawScores(e, opinion) IN
           /\ r \in [Rubric -> Int]
           /\ r["qa_quality"] = IF e.questions = <<>> THEN NoScore
                                ELSE QaScore(e.questions, e.answers, e.assessments)
           /\ r["qa_quality"] = NoScore <=> e.questions = <<>>
  <1> DEFINE r == RawScores(e, opinion)
             b == "delivery_and_body_language"
             t == "timing_and_speech_mechanics"
             delivery == [s \in DOMAIN e.profiles |-> DeliveryScore(e.profiles[s])]
             timing == [s \in DOMAIN e.profiles |-> TimingScore(e.profiles[s])]
  <1>1. \A d \in Rubric : opinion.scores[d] \in Int
    BY RoundsAssumption
  <1>2. TeamScore(delivery, opinion.scores[b]) \in Int
    <2>1. IsFiniteSet(DOMAIN delivery) /\ \A s \in DOMAIN delivery : delivery[s] \in Int
      BY DeliveryScoreIs DEF Gathered
    <2>2. opinion.scores[b] \in Int
      BY <1>1, WeightIs
    <2> HIDE DEF delivery
    <2> QED
      BY <2>1, <2>2, TeamScoreIs
  <1>3. TeamScore(timing, opinion.scores[t]) \in Int
    <2>1. IsFiniteSet(DOMAIN timing) /\ \A s \in DOMAIN timing : timing[s] \in Int
      BY TimingScoreIs DEF Gathered
    <2>2. opinion.scores[t] \in Int
      BY <1>1, WeightIs
    <2> HIDE DEF timing
    <2> QED
      BY <2>1, <2>2, TeamScoreIs
  <1>4. e.questions # <<>> => QaScore(e.questions, e.answers, e.assessments) \in Nat
    BY QaScoreIs DEF Gathered
  <1> DEFINE qa == IF e.questions = <<>> THEN NoScore
                   ELSE QaScore(e.questions, e.answers, e.assessments)
  <1>5. qa \in Int /\ (qa = NoScore <=> e.questions = <<>>)
    BY <1>4 DEF NoScore
  <1>6. r = [d \in Rubric |->
               CASE d = "qa_quality" -> qa
                 [] d = b -> TeamScore(delivery, opinion.scores[d])
                 [] d = t -> TeamScore(timing, opinion.scores[d])
                 [] OTHER -> opinion.scores[d]]
    BY DEF RawScores
  <1> HIDE DEF r, delivery, timing, qa
  <1>7. r["qa_quality"] = qa
    BY <1>6, WeightIs
  <1>8. r = [d \in Rubric |-> r[d]]
    BY <1>6
  <1>9. ASSUME NEW d \in Rubric PROVE r[d] \in Int
    <2>1. CASE d = "qa_quality"
      BY <1>5, <1>7, <2>1
    <2>2. CASE d = b
      BY <1>2, <1>6, <2>2
    <2>3. CASE d = t
      BY <1>3, <1>6, <2>3
    <2>4. CASE d \notin {"qa_quality", b, t}
      BY <1>1, <1>6, <2>4
    <2> QED
      BY <2>1, <2>2, <2>3, <2>4
  <1>10. r \in [Rubric -> Int]
    BY <1>8, <1>9
  <1> QED
    BY <1>5, <1>7, <1>10 DEF r, qa

\* The overall score is the mean of the scored dimensions by their weights, up to four
\* ten-thousandths, whichever dimensions are missing (normalize_effective_weights).
THEOREM OverallStaysTheMean == Spec => []OverallIsTheMean
  <1>1. ScoreInv => OverallIsTheMean
    <2> SUFFICES ASSUME ScoreInv, stage = "done" PROVE OverallIsTheMean
      BY DEF OverallIsTheMean
    <2>1. PICK opinion \in Opinions : ScoredAs(opinion)
      BY DEF ScoreInv
    <2>2. Gathered(evidence)
      BY DEF ScoreInv
    <2> DEFINE raw == RawScores(evidence, opinion)
               c == report.components
               T == {d \in Rubric : c[d].status = "scored"}
    <2>3. raw \in [Rubric -> Int]
      BY <2>2, RawScoresAre
    <2>4. c = Components(raw) /\ report.overall = OverallScore(c)
      BY <2>1 DEF ScoredAs
    <2> HIDE DEF raw, c
    <2>5. T = Scored(raw)
      BY <2>3, <2>4, ComponentsAre
    <2>6. CASE T = {}
      <3>1. report.overall = NoScore
        BY <2>4, <2>6 DEF OverallScore
      <3> QED
        BY <2>6, <3>1 DEF OverallIsTheMean, c
    <2>7. CASE T # {}
      <3> DEFINE W == RubricSum(T, Weight)
                 Y == RubricSum(T, [d \in T |-> Weight[d] * c[d].score])
      <3>1. Distance(report.overall * W, Y) <= 4 * W
        <4> HIDE DEF T
        <4> QED
          BY <2>3, <2>4, <2>5, <2>7, OverallIs
      <3> QED
        BY <2>7, <3>1 DEF OverallIsTheMean, c
    <2> QED
      BY <2>6, <2>7
  <1> QED
    BY <1>1, ScoreHolds, PTL

-----------------------------------------------------------------------------
(* Skipping a question never pays.                                         *)

LEMMA ClampedMonotone ==
    ASSUME NEW x \in Int, NEW y \in Int, x <= y
    PROVE  Clamped(x) <= Clamped(y)
  <1> DEFINE a == Max({0, x})
             b == Max({0, y})
  <1>1. a = (IF 0 >= x THEN 0 ELSE x) /\ b = (IF 0 >= y THEN 0 ELSE y)
    BY MaxIs
  <1> HIDE DEF a, b
  <1>2. a \in Int /\ b \in Int /\ a <= b
    BY <1>1
  <1> DEFINE m == Min({10000, a})
             n == Min({10000, b})
  <1>3. m = (IF 10000 <= a THEN 10000 ELSE a) /\ n = (IF 10000 <= b THEN 10000 ELSE b)
    BY <1>2, MinIs
  <1>4. Clamped(x) = m /\ Clamped(y) = n
    BY DEF Clamped, a, b
  <1> HIDE DEF m, n
  <1>5. m <= n
    BY <1>2, <1>3
  <1> QED
    BY <1>4, <1>5

\* A weight is not negative.
LEMMA EffectiveWeightIs ==
    ASSUME NEW k \in Nat, NEW W \in Nat \ {0}
    PROVE  RoundedQuotient(k * 10000, W) \in Nat
  <1> DEFINE m == k * 10000
  <1>1. m \in Int /\ m >= 0
    OBVIOUS
  <1> HIDE DEF m
  <1> DEFINE q == RoundedQuotient(m, W)
  <1>2. q \in Int /\ 2 * m + W < 2 * (W * q) + 2 * W
    BY <1>1, QuotientIs
  <1> HIDE DEF q
  <1>3. ASSUME q < 0 PROVE FALSE
    <2>1. q + 1 <= 0 /\ q + 1 \in Int
      BY <1>2, <1>3
    <2>2. W * (q + 1) <= 0
      BY <2>1
    <2>3. W * (q + 1) = W * q + W
      BY <1>2
    <2> QED
      BY <1>1, <1>2, <2>2, <2>3
  <1> QED
    BY <1>2, <1>3 DEF q, m

\* Scores that are not less have an overall score that is not.
LEMMA OverallMonotone ==
    ASSUME NEW r \in [Rubric -> Int], NEW q \in [Rubric -> Int], Scored(r) = Scored(q),
           \A d \in Rubric : r[d] <= q[d]
    PROVE  OverallScore(Components(r)) <= OverallScore(Components(q))
  <1> DEFINE c == Components(r)
             e == Components(q)
             S == Scored(r)
             W == RubricSum(S, Weight)
             x == [d \in S |-> c[d].score * c[d].weight]
             y == [d \in S |-> e[d].score * e[d].weight]
             Tc == {d \in Rubric : c[d].status = "scored"}
             Te == {d \in Rubric : e[d].status = "scored"}
  <1>1. OverallScore(c) =
           IF Tc = {} THEN NoScore
           ELSE RoundedQuotient(RubricSum(Tc, [d \in Tc |-> c[d].score * c[d].weight]), 10000)
    BY DEF OverallScore
  <1>2. OverallScore(e) =
           IF Te = {} THEN NoScore
           ELSE RoundedQuotient(RubricSum(Te, [d \in Te |-> e[d].score * e[d].weight]), 10000)
    BY DEF OverallScore
  <1>3. /\ Tc = S
        /\ \A d \in S : /\ c[d].score = Clamped(r[d])
                        /\ c[d].weight = RoundedQuotient(Weight[d] * 10000, W)
    BY ComponentsAre
  <1>4. /\ Te = S
        /\ \A d \in S : /\ e[d].score = Clamped(q[d])
                        /\ e[d].weight = RoundedQuotient(Weight[d] * 10000, W)
    BY ComponentsAre
  <1>5. S \in SUBSET Rubric
    BY DEF Scored
  <1> HIDE DEF Tc, Te, c, e
  <1>6. CASE S = {}
    BY <1>1, <1>2, <1>3, <1>4, <1>6 DEF NoScore, c, e
  <1>7. CASE S # {}
    <2>1. W \in Nat \ {0}
      BY <1>5, <1>7, WholeWeight
    <2>2. OverallScore(c) = RoundedQuotient(RubricSum(S, x), 10000)
      BY <1>1, <1>3, <1>7
    <2>3. OverallScore(e) = RoundedQuotient(RubricSum(S, y), 10000)
      BY <1>2, <1>4, <1>7
    <2> HIDE DEF W, S
    <2>4. ASSUME NEW d \in S PROVE x[d] \in Int /\ y[d] \in Int /\ x[d] <= y[d]
      <3> DEFINE s == Clamped(r[d])
                 t == Clamped(q[d])
                 w == RoundedQuotient(Weight[d] * 10000, W)
      <3>1. d \in Rubric /\ r[d] \in Int /\ q[d] \in Int /\ r[d] <= q[d] /\ Weight[d] \in Nat
        BY <1>5, WeightIs
      <3>2. s \in Scale /\ t \in Scale /\ s <= t
        BY <3>1, ClampedIs, ClampedMonotone
      <3>3. w \in Nat
        BY <2>1, <3>1, EffectiveWeightIs
      <3>4. x[d] = s * w /\ y[d] = t * w
        BY <1>3, <1>4
      <3> HIDE DEF s, t, w, x, y
      <3>5. s \in Int /\ t \in Int /\ w \in Int /\ w >= 0
        BY <3>2, <3>3 DEF Scale
      <3>6. s * w <= t * w /\ s * w \in Int /\ t * w \in Int
        BY <3>2, <3>5
      <3> QED
        BY <3>4, <3>6
    <2> HIDE DEF x, y
    <2> DEFINE P(d) == Part(S, x, d)
               Q(d) == Part(S, y, d)
               X == RubricSum(S, x)
               Y == RubricSum(S, y)
    <2>5. ASSUME NEW d PROVE P(d) \in Int /\ Q(d) \in Int /\ P(d) <= Q(d)
      BY <2>4 DEF Part
    <2>6. X = P("pitch_content_and_evidence") + P("business_and_problem_solution_reasoning")
              + P("technical_feasibility") + P("delivery_and_body_language")
              + P("timing_and_speech_mechanics") + P("qa_quality")
      BY <2>4, RubricSumIs
    <2>7. Y = Q("pitch_content_and_evidence") + Q("business_and_problem_solution_reasoning")
              + Q("technical_feasibility") + Q("delivery_and_body_language")
              + Q("timing_and_speech_mechanics") + Q("qa_quality")
      BY <2>4, RubricSumIs
    <2> HIDE DEF X, Y, P, Q
    <2>8. X \in Int /\ Y \in Int /\ X <= Y
      BY <2>5, <2>6, <2>7
    <2>9. RoundedQuotient(X, 10000) <= RoundedQuotient(Y, 10000)
      BY <2>8, QuotientMonotone
    <2> QED
      BY <2>2, <2>3, <2>9 DEF X, Y, c, e
  <1> QED
    BY <1>6, <1>7

Skip(question) == [question |-> question, status |-> "skipped"]

\* A skip takes its question's credit and leaves the others theirs.
LEMMA SkippedCredit ==
    ASSUME NEW question, NEW skipped, NEW answers, IsSeq(answers), NEW assessments,
           \A i \in DOMAIN assessments : ScoreOf(assessments[i]) \in Int
    PROVE  Credit(question, Append(answers, Skip(skipped)), assessments)
              <= Credit(question, answers, assessments)
  <1> DEFINE skip == Skip(skipped)
             longer == Append(answers, skip)
             n == Len(answers)
             x == Credit(question, longer, assessments)
             y == Credit(question, answers, assessments)
  <1> SUFFICES x <= y
    OBVIOUS
  <1>1. x \in Scale /\ y \in Scale
    BY CreditIs
  <1>2. skip.question = skipped /\ skip.status = "skipped"
    BY DEF Skip
  <1>3. /\ n \in Nat /\ Len(longer) = n + 1 /\ DOMAIN longer = 1..n + 1
        /\ DOMAIN answers = 1..n /\ longer[n + 1] = skip
        /\ \A i \in 1..n : longer[i] = answers[i]
    <2>1. answers \in Seq(Members(answers)) /\ n \in Nat /\ DOMAIN answers = 1..n
      BY SeqIs
    <2> HIDE DEF skip
    <2> DEFINE M == Members(answers) \cup {skip}
    <2>2. answers \in Seq(M) /\ skip \in M
      BY <2>1, SeqMonotonic
    <2> HIDE DEF M
    <2> QED
      BY <2>1, <2>2, AppendProperties
  <1> HIDE DEF skip, longer, n
  <1>4. CASE question = skipped
    <2>1. LastFor(longer, question) \subseteq {skip}
      <3> SUFFICES ASSUME NEW i \in 1..n + 1, \A j \in i + 1..n + 1 : longer[j].question # question
                   PROVE  longer[i] = skip
        BY <1>3 DEF LastFor
      <3>1. CASE i = n + 1
        BY <1>3, <3>1
      <3>2. CASE i # n + 1
        <4>1. n + 1 \in i + 1..n + 1
          BY <1>3, <3>2
        <4> QED
          BY <1>2, <1>3, <1>4, <4>1
      <3> QED
        BY <3>1, <3>2
    <2>2. ~ \E answer \in LastFor(longer, question) : answer.status # "skipped"
      BY <1>2, <2>1
    <2>3. x = 0
      BY <2>2 DEF Credit
    <2> HIDE DEF x, y
    <2>4. y \in Scale
      BY <1>1
    <2>5. 0 <= y
      BY <2>4 DEF Scale
    <2> QED
      BY <2>3, <2>5, Zenon
  <1>5. CASE question # skipped
    <2>1. ASSUME NEW i \in 1..n + 1
          PROVE  /\ longer[i].question = question
                 /\ \A j \in i + 1..n + 1 : longer[j].question # question
                 <=> /\ i \in 1..n
                     /\ answers[i].question = question
                     /\ \A j \in i + 1..n : answers[j].question # question
      <3>1. CASE i = n + 1
        BY <1>2, <1>3, <1>5, <3>1
      <3>2. CASE i # n + 1
        <4>1. i \in 1..n /\ \A j : j \in i + 1..n + 1 <=> j \in i + 1..n \/ j = n + 1
          BY <1>3, <3>2
        <4>2. \A j \in i + 1..n : longer[j] = answers[j]
          BY <1>3, <4>1
        <4> QED
          BY <1>2, <1>3, <1>5, <4>1, <4>2
      <3> QED
        BY <3>1, <3>2
    <2>2. \A i \in 1..n : i \in 1..n + 1
      BY <1>3
    <2> DEFINE A == {i \in 1..n + 1 : /\ longer[i].question = question
                                      /\ \A j \in i + 1..n + 1 : longer[j].question # question}
               B == {i \in 1..n : /\ answers[i].question = question
                                  /\ \A j \in i + 1..n : answers[j].question # question}
    <2>3. A = B
      BY <2>1, <2>2
    <2>4. LastFor(longer, question) = {longer[i] : i \in A}
      BY <1>3 DEF LastFor
    <2>5. LastFor(answers, question) = {answers[i] : i \in B}
      BY <1>3 DEF LastFor, n
    <2>6. \A i \in B : longer[i] = answers[i]
      BY <1>3
    <2> HIDE DEF A, B
    <2>7. LastFor(longer, question) = LastFor(answers, question)
      BY <2>3, <2>4, <2>5, <2>6
    <2>8. x = y
      BY <2>7 DEF Credit
    <2> HIDE DEF x, y
    <2> QED
      BY <1>1, <2>8 DEF Scale
  <1> QED
    BY <1>4, <1>5

LEMMA SkippedQaScore ==
    ASSUME NEW questions, IsSeq(questions), questions # <<>>, NEW skipped,
           NEW answers, IsSeq(answers), NEW assessments,
           \A i \in DOMAIN assessments : ScoreOf(assessments[i]) \in Int
    PROVE  QaScore(questions, Append(answers, Skip(skipped)), assessments)
              <= QaScore(questions, answers, assessments)
  <1> DEFINE longer == Append(answers, Skip(skipped))
             n == Len(questions)
  <1>1. /\ n \in Nat \ {0} /\ DOMAIN questions = 1..n
    BY SeqIs, QaScoreIs
  <1>2. \A q : Credit(q, longer, assessments) <= Credit(q, answers, assessments)
    BY SkippedCredit
  <1> HIDE DEF longer
  <1> DEFINE s == [i \in DOMAIN questions |-> Credit(questions[i], longer, assessments)]
             t == [i \in DOMAIN questions |-> Credit(questions[i], answers, assessments)]
  <1>3. /\ s \in Seq(Int) /\ Len(s) = n
        /\ QaScore(questions, longer, assessments) = RoundedQuotient(Total(s), n)
    BY QaScoreIs
  <1>4. /\ t \in Seq(Int) /\ Len(t) = n
        /\ QaScore(questions, answers, assessments) = RoundedQuotient(Total(t), n)
    BY QaScoreIs
  <1>5. \A i \in 1..n : s[i] <= t[i]
    BY <1>1, <1>2
  <1> HIDE DEF s, t, n
  <1>6. Total(s) \in Int /\ Total(t) \in Int /\ Total(s) <= Total(t)
    BY <1>3, <1>4, <1>5, TotalMonotone
  <1>7. RoundedQuotient(Total(s), n) <= RoundedQuotient(Total(t), n)
    BY <1>1, <1>6, QuotientMonotone
  <1> QED
    BY <1>3, <1>4, <1>7 DEF longer

LEMMA GatheredWith ==
    ASSUME NEW e, Gathered(e), NEW skipped
    PROVE  LET o == [e EXCEPT !.answers = Append(@, Skip(skipped))] IN
           /\ Gathered(o)
           /\ o.answers = Append(e.answers, Skip(skipped))
           /\ o.profiles = e.profiles /\ o.questions = e.questions
           /\ o.assessments = e.assessments
  <1> DEFINE a == Append(e.answers, Skip(skipped))
             o == [e EXCEPT !.answers = Append(@, Skip(skipped))]
  <1>1. /\ e = [mode |-> e.mode, profiles |-> e.profiles, questions |-> e.questions,
                answers |-> e.answers, assessments |-> e.assessments]
        /\ IsFiniteSet(DOMAIN e.profiles) /\ IsSeq(e.questions) /\ IsSeq(e.answers)
        /\ \A i \in DOMAIN e.assessments : ScoreOf(e.assessments[i]) \in Int
    BY DEF Gathered
  <1>2. o = [e EXCEPT !.answers = a]
    OBVIOUS
  <1>3. IsSeq(a)
    <2> DEFINE skip == Skip(skipped)
               M == Members(e.answers) \cup {skip}
    <2>1. e.answers \in Seq(Members(e.answers))
      BY <1>1, SeqIs
    <2> HIDE DEF skip
    <2>2. e.answers \in Seq(M) /\ skip \in M
      BY <2>1, SeqMonotonic
    <2> HIDE DEF M
    <2>3. Append(e.answers, skip) \in Seq(M)
      BY <2>2
    <2>4. IsSeq(Append(e.answers, skip))
      BY <2>3, IsSeqOf
    <2> QED
      BY <2>4 DEF skip
  <1> HIDE DEF a, o
  <1>4. /\ o.mode = e.mode /\ o.profiles = e.profiles /\ o.questions = e.questions
        /\ o.answers = a /\ o.assessments = e.assessments
    BY <1>1, <1>2
  <1>5. o = [mode |-> o.mode, profiles |-> o.profiles, questions |-> o.questions,
             answers |-> o.answers, assessments |-> o.assessments]
    BY <1>1, <1>2, <1>4
  <1>6. Gathered(o)
    BY <1>1, <1>3, <1>4, <1>5 DEF Gathered
  <1> QED
    BY <1>4, <1>6 DEF a, o

\* The other scores do not look at the answers.
LEMMA SkippedRawScores ==
    ASSUME NEW e, Gathered(e), NEW o, Gathered(o), NEW skipped, NEW opinion \in Opinions,
           o.answers = Append(e.answers, Skip(skipped)), o.profiles = e.profiles,
           o.questions = e.questions, o.assessments = e.assessments
    PROVE  LET r == RawScores(o, opinion)
               q == RawScores(e, opinion)
           IN  Scored(r) = Scored(q) /\ \A d \in Rubric : r[d] <= q[d]
  <1> DEFINE r == RawScores(o, opinion)
             q == RawScores(e, opinion)
  <1>1. /\ r \in [Rubric -> Int]
        /\ r["qa_quality"] = IF o.questions = <<>> THEN NoScore
                             ELSE QaScore(o.questions, o.answers, o.assessments)
        /\ r["qa_quality"] = NoScore <=> o.questions = <<>>
    BY RawScoresAre
  <1>2. /\ q \in [Rubric -> Int]
        /\ q["qa_quality"] = IF e.questions = <<>> THEN NoScore
                             ELSE QaScore(e.questions, e.answers, e.assessments)
        /\ q["qa_quality"] = NoScore <=> e.questions = <<>>
    BY RawScoresAre
  <1>3. \A d \in Rubric \ {"qa_quality"} : r[d] = q[d]
    BY DEF RawScores
  <1> HIDE DEF r, q
  <1>4. r["qa_quality"] <= q["qa_quality"]
    <2>1. CASE e.questions = <<>>
      BY <1>1, <1>2, <2>1 DEF NoScore
    <2>2. CASE e.questions # <<>>
      <3>1. IsSeq(e.questions) /\ IsSeq(e.answers)
            /\ \A i \in DOMAIN e.assessments : ScoreOf(e.assessments[i]) \in Int
        BY DEF Gathered
      <3>2. QaScore(e.questions, Append(e.answers, Skip(skipped)), e.assessments)
               <= QaScore(e.questions, e.answers, e.assessments)
        BY <2>2, <3>1, SkippedQaScore
      <3> QED
        BY <1>1, <1>2, <2>2, <3>2
    <2> QED
      BY <2>1, <2>2
  <1>5. \A d \in Rubric : r[d] <= q[d]
    <2> SUFFICES ASSUME NEW d \in Rubric PROVE r[d] <= q[d]
      OBVIOUS
    <2>1. r[d] \in Int /\ q[d] \in Int
      BY <1>1, <1>2
    <2> QED
      BY <1>3, <1>4, <2>1
  <1>6. \A d \in Rubric : r[d] = NoScore <=> q[d] = NoScore
    BY <1>1, <1>2, <1>3
  <1>7. Scored(r) = Scored(q)
    BY <1>6 DEF Scored
  <1> QED
    BY <1>5, <1>7 DEF r, q

\* A team that had skipped one of its questions would not have scored better, whatever the
\* answers, the assessments and the other scores (calculate_qa_score).
THEOREM SkippingStaysUnpaid == Spec => []SkippingNeverPays
  <1>1. ScoreInv => SkippingNeverPays
    <2> SUFFICES ASSUME ScoreInv, stage = "done", NEW i \in DOMAIN evidence.questions
                 PROVE  LET other == [evidence EXCEPT !.answers =
                                         Append(@, Skip(evidence.questions[i]))]
                        IN  OverallScore(Components(RawScores(other, report.opinion)))
                               <= report.overall
      BY DEF SkippingNeverPays, Skip
    <2>1. PICK opinion \in Opinions : ScoredAs(opinion)
      BY DEF ScoreInv
    <2>2. Gathered(evidence)
      BY DEF ScoreInv
    <2> DEFINE skipped == evidence.questions[i]
               other == [evidence EXCEPT !.answers = Append(@, Skip(skipped))]
               r == RawScores(other, opinion)
               q == RawScores(evidence, opinion)
    <2> HIDE DEF skipped
    <2>3. /\ Gathered(other)
          /\ other.answers = Append(evidence.answers, Skip(skipped))
          /\ other.profiles = evidence.profiles /\ other.questions = evidence.questions
          /\ other.assessments = evidence.assessments
      BY <2>2, GatheredWith
    <2> HIDE DEF other
    <2>4. r \in [Rubric -> Int] /\ q \in [Rubric -> Int]
      BY <2>2, <2>3, RawScoresAre
    <2>5. Scored(r) = Scored(q) /\ \A d \in Rubric : r[d] <= q[d]
      BY <2>2, <2>3, SkippedRawScores
    <2>6. report.opinion = opinion /\ report.overall = OverallScore(Components(q))
      BY <2>1 DEF ScoredAs
    <2> HIDE DEF r, q
    <2>7. OverallScore(Components(r)) <= OverallScore(Components(q))
      BY <2>4, <2>5, OverallMonotone
    <2> QED
      BY <2>6, <2>7 DEF r, other, skipped
  <1> QED
    BY <1>1, ScoreHolds, PTL

-----------------------------------------------------------------------------
(* Fillers add up.                                                         *)

LEMMA TotalAppend ==
    ASSUME NEW u \in Seq(Int), NEW x \in Int
    PROVE  Append(u, x) \in Seq(Int) /\ Total(u) \in Int /\ Total(Append(u, x)) = Total(u) + x
  <1> DEFINE N == Len(u)
             w == Append(u, x)
  <1>1. N \in Nat /\ w \in Seq(Int) /\ Len(w) = N + 1 /\ w[N + 1] = x
        /\ \A n \in 1..N : w[n] = u[n]
    BY LenProperties, AppendProperties
  <1>2. PICK f : /\ f[0] = 0
                 /\ \A n \in 1..N : f[n] = f[n - 1] + u[n]
                 /\ \A n \in 0..N : f[n] \in Int
                 /\ Total(u) = f[N]
    BY TotalLoop
  <1>3. PICK g : /\ g[0] = 0
                 /\ \A n \in 1..Len(w) : g[n] = g[n - 1] + w[n]
                 /\ \A n \in 0..Len(w) : g[n] \in Int
                 /\ Total(w) = g[Len(w)]
    BY <1>1, TotalLoop
  <1> HIDE DEF N, w
  <1>4. /\ \A n \in 1..N : g[n] = g[n - 1] + u[n]
        /\ g[N + 1] = g[N] + x
        /\ Total(w) = g[N + 1]
    <2>1. \A n \in 1..N : n \in 1..N + 1
      BY <1>1
    <2>2. N + 1 \in 1..N + 1 /\ (N + 1) - 1 = N
      BY <1>1
    <2> QED
      BY <1>1, <1>3, <2>1, <2>2
  <1> DEFINE T == {n \in 0..N : g[n] = f[n]}
  <1>5. 0 \in T
    BY <1>1, <1>2, <1>3
  <1>6. ASSUME NEW n \in 1..N, n - 1 \in T PROVE n \in T
    <2>1. n \in 0..N
      BY <1>1
    <2> QED
      BY <1>2, <1>4, <1>6, <2>1
  <1>7. N \in T
    <2> HIDE DEF T
    <2>1. N \in 0..N /\ \A n \in 1..N : n - 1 \in T => n \in T
      BY <1>1, <1>6
    <2>2. \A n \in 0..N : n \in T
      BY <1>1, <1>5, <2>1, Induction
    <2> QED
      BY <2>1, <2>2
  <1>8. g[N] = f[N] /\ f[N] \in Int
    BY <1>1, <1>2, <1>7
  <1> QED
    BY <1>1, <1>2, <1>4, <1>8 DEF w

LEMMA TotalIsInt ==
    ASSUME NEW s \in Seq(Int)
    PROVE  Total(s) \in Int
  <1>1. Len(s) = Len(s) /\ \A i \in 1..Len(s) : s[i] <= s[i]
    BY LenProperties
  <1> QED
    BY <1>1, TotalMonotone

\* A number for each member of a sequence, and for each at some of its places.
Weighed(s, G) == [i \in DOMAIN s |-> G[s[i]]]

Shares(s, I, G) == [i \in DOMAIN s |-> IF i \in I THEN G[s[i]] ELSE 0]

LEMMA WeighedIs ==
    ASSUME NEW S, NEW s \in Seq(S), NEW I, NEW G \in [S -> Int]
    PROVE  /\ Weighed(s, G) \in Seq(Int) /\ Len(Weighed(s, G)) = Len(s)
           /\ Shares(s, I, G) \in Seq(Int) /\ Len(Shares(s, I, G)) = Len(s)
  <1> DEFINE N == Len(s)
             a == Weighed(s, G)
             b == Shares(s, I, G)
  <1>1. N \in Nat /\ DOMAIN s = 1..N /\ \A n \in 1..N : G[s[n]] \in Int
    BY LenProperties
  <1>2. a \in [1..N -> Int] /\ b \in [1..N -> Int]
    BY <1>1 DEF Weighed, Shares
  <1> HIDE DEF N, a, b
  <1>3. a \in Seq(Int) /\ Len(a) = N /\ b \in Seq(Int) /\ Len(b) = N
    BY <1>1, <1>2
  <1> QED
    BY <1>3 DEF N, a, b

Chooses(f, s, I) ==
    /\ f[0] = <<>>
    /\ \A n \in 1..Len(s) : f[n] = IF n \in I THEN Append(f[n - 1], s[n]) ELSE f[n - 1]
    /\ Chosen(s, I) = f[Len(s)]

LEMMA ChosenSteps ==
    ASSUME NEW S, NEW s \in Seq(S), NEW I
    PROVE  \E f : Chooses(f, s, I)
  BY ChosenLoop DEF Chooses

\* The sum over what is chosen is the sum over the places.
LEMMA ChosenTotal ==
    ASSUME NEW S, NEW s \in Seq(S), NEW I, NEW G \in [S -> Int]
    PROVE  Total(Weighed(Chosen(s, I), G)) = Total(Shares(s, I, G))
  <1>0. \E f : Chooses(f, s, I)
    BY ChosenSteps
  <1>2. PICK f : /\ f[0] = <<>>
                 /\ \A n \in 1..Len(s) :
                       f[n] = IF n \in I THEN Append(f[n - 1], s[n]) ELSE f[n - 1]
                 /\ Chosen(s, I) = f[Len(s)]
    BY <1>0 DEF Chooses
  <1> DEFINE N == Len(s)
             b == Shares(s, I, G)
  <1>1. /\ N \in Nat /\ DOMAIN s = 1..N /\ b \in Seq(Int) /\ Len(b) = N
        /\ \A n \in 1..N : s[n] \in S /\ G[s[n]] \in Int
    BY WeighedIs, LenProperties
  <1>3. PICK g : /\ g[0] = 0
                 /\ \A n \in 1..N : g[n] = g[n - 1] + b[n]
                 /\ \A n \in 0..N : g[n] \in Int
                 /\ Total(b) = g[N]
    BY <1>1, TotalLoop
  <1>4. \A n \in 1..N : b[n] = IF n \in I THEN G[s[n]] ELSE 0
    BY <1>1 DEF Shares
  <1> HIDE DEF N, b
  <1> DEFINE T == {n \in 0..N : f[n] \in Seq(S) /\ Total(Weighed(f[n], G)) = g[n]}
  <1>5. 0 \in T
    <2>1. <<>> \in Seq(S) /\ Weighed(<<>>, G) = <<>>
      BY EmptySeq DEF Weighed
    <2>2. Total(Weighed(<<>>, G)) = g[0]
      BY <1>3, <2>1, TotalOfNothing
    <2>3. 0 \in 0..N
      BY <1>1
    <2> QED
      BY <1>2, <2>1, <2>2, <2>3
  <1>6. ASSUME NEW n \in 1..N, n - 1 \in T PROVE n \in T
    <2> DEFINE u == f[n - 1]
    <2>1. n \in 0..N /\ n - 1 \in 0..N /\ u \in Seq(S) /\ Total(Weighed(u, G)) = g[n - 1]
      BY <1>1, <1>6
    <2>2. g[n - 1] \in Int /\ g[n] = g[n - 1] + b[n]
      BY <1>3, <2>1
    <2>3. f[n] = IF n \in I THEN Append(u, s[n]) ELSE u
      BY <1>2 DEF N
    <2> HIDE DEF u
    <2>4. CASE n \in I
      <3> DEFINE x == s[n]
      <3>1. x \in S /\ G[x] \in Int /\ f[n] = Append(u, x) /\ b[n] = G[x]
        BY <1>1, <1>4, <2>3, <2>4
      <3> HIDE DEF x
      <3>2. Append(u, x) \in Seq(S)
        BY <2>1, <3>1, AppendProperties
      <3>3. Weighed(u, G) \in Seq(Int)
        BY <2>1, WeighedIs
      <3>4. Weighed(Append(u, x), G) = Append(Weighed(u, G), G[x])
        <4> DEFINE k == Len(u)
                   v == Weighed(Append(u, x), G)
                   w == Append(Weighed(u, G), G[x])
        <4>1. k \in Nat /\ DOMAIN u = 1..k /\ Len(Append(u, x)) = k + 1
              /\ DOMAIN Append(u, x) = 1..k + 1
              /\ (\A i \in 1..k : Append(u, x)[i] = u[i]) /\ Append(u, x)[k + 1] = x
          BY <2>1, <3>1, <3>2, LenProperties, AppendProperties
        <4>2. Len(Weighed(u, G)) = k
          BY <2>1, WeighedIs
        <4>3. w \in Seq(Int) /\ Len(w) = k + 1 /\ w[k + 1] = G[x]
              /\ \A i \in 1..k : w[i] = Weighed(u, G)[i]
          BY <3>1, <3>3, <4>2, AppendProperties
        <4>4. DOMAIN w = 1..k + 1 /\ w = [i \in 1..k + 1 |-> w[i]]
          BY <4>3, LenProperties
        <4>5. v = [i \in 1..k + 1 |-> G[Append(u, x)[i]]]
          BY <4>1 DEF Weighed
        <4>6. \A i \in 1..k : Weighed(u, G)[i] = G[u[i]]
          BY <4>1 DEF Weighed
        <4> HIDE DEF w, k
        <4>7. \A i \in 1..k + 1 : G[Append(u, x)[i]] = w[i]
          <5> SUFFICES ASSUME NEW i \in 1..k + 1 PROVE G[Append(u, x)[i]] = w[i]
            OBVIOUS
          <5>1. CASE i = k + 1
            BY <4>1, <4>3, <5>1
          <5>2. CASE i \in 1..k
            BY <4>1, <4>3, <4>6, <5>2
          <5>3. i = k + 1 \/ i \in 1..k
            BY <4>1
          <5> QED
            BY <5>1, <5>2, <5>3
        <4>8. v = w
          BY <4>4, <4>5, <4>7
        <4> QED
          BY <4>8 DEF w
      <3>5. Total(Append(Weighed(u, G), G[x])) = Total(Weighed(u, G)) + G[x]
        BY <3>1, <3>3, TotalAppend
      <3> QED
        BY <2>1, <2>2, <3>1, <3>2, <3>4, <3>5
    <2>5. CASE n \notin I
      <3>1. f[n] = u /\ b[n] = 0
        BY <1>4, <2>3, <2>5
      <3> QED
        BY <2>1, <2>2, <3>1
    <2> QED
      BY <2>4, <2>5
  <1>7. N \in T
    <2> HIDE DEF T
    <2>1. N \in 0..N /\ \A n \in 1..N : n - 1 \in T => n \in T
      BY <1>1, <1>6
    <2>2. \A n \in 0..N : n \in T
      BY <1>1, <1>5, <2>1, Induction
    <2> QED
      BY <2>1, <2>2
  <1>8. Total(Weighed(f[N], G)) = g[N]
    BY <1>7
  <1> QED
    BY <1>2, <1>3, <1>8 DEF b, N

LEMMA TotalPlus ==
    ASSUME NEW n \in Nat, NEW a \in [1..n -> Int], NEW b \in [1..n -> Int],
           NEW c \in [1..n -> Int], \A i \in 1..n : c[i] = a[i] + b[i]
    PROVE  Total(a) \in Int /\ Total(b) \in Int /\ Total(c) = Total(a) + Total(b)
  <1>1. /\ a \in Seq(Int) /\ Len(a) = n /\ b \in Seq(Int) /\ Len(b) = n
        /\ c \in Seq(Int) /\ Len(c) = n
    BY FunctionIsSeq
  <1>2. PICK f : /\ f[0] = 0
                 /\ \A i \in 1..n : f[i] = f[i - 1] + a[i]
                 /\ \A i \in 0..n : f[i] \in Int
                 /\ Total(a) = f[n]
    BY <1>1, TotalLoop
  <1>3. PICK g : /\ g[0] = 0
                 /\ \A i \in 1..n : g[i] = g[i - 1] + b[i]
                 /\ \A i \in 0..n : g[i] \in Int
                 /\ Total(b) = g[n]
    BY <1>1, TotalLoop
  <1>4. PICK h : /\ h[0] = 0
                 /\ \A i \in 1..n : h[i] = h[i - 1] + c[i]
                 /\ \A i \in 0..n : h[i] \in Int
                 /\ Total(c) = h[n]
    BY <1>1, TotalLoop
  <1> DEFINE T == {i \in 0..n : h[i] = f[i] + g[i]}
  <1>5. 0 \in T
    BY <1>2, <1>3, <1>4
  <1>6. ASSUME NEW i \in 1..n, i - 1 \in T PROVE i \in T
    <2>1. i \in 0..n /\ i - 1 \in 0..n
      OBVIOUS
    <2>2. /\ f[i - 1] \in Int /\ g[i - 1] \in Int /\ a[i] \in Int /\ b[i] \in Int
          /\ h[i - 1] = f[i - 1] + g[i - 1]
      BY <1>2, <1>3, <1>6, <2>1
    <2>3. /\ f[i] = f[i - 1] + a[i] /\ g[i] = g[i - 1] + b[i]
          /\ h[i] = h[i - 1] + (a[i] + b[i])
      BY <1>2, <1>3, <1>4
    <2>4. h[i] = f[i] + g[i]
      BY <2>2, <2>3
    <2> QED
      BY <2>1, <2>4
  <1>7. n \in T
    <2> HIDE DEF T
    <2>1. n \in 0..n /\ \A i \in 1..n : i - 1 \in T => i \in T
      BY <1>6
    <2>2. \A i \in 0..n : i \in T
      BY <1>5, <2>1, Induction
    <2> QED
      BY <2>1, <2>2
  <1> QED
    BY <1>2, <1>3, <1>4, <1>7

\* The numbers that belong to a block, and those that belong to one of the first blocks.
InBlock(v, at, w) == [i \in DOMAIN v |-> IF at[i] = w THEN v[i] ELSE 0]

InBlocks(v, at, m) == [i \in DOMAIN v |-> IF at[i] \in 1..m THEN v[i] ELSE 0]

BlockSums(v, at, m) == [w \in 1..m |-> Total(InBlock(v, at, w))]

\* What is added up block by block is the sum of all that lies in the blocks.
LEMMA BlocksTotal ==
    ASSUME NEW n \in Nat, NEW v \in [1..n -> Int], NEW at \in [1..n -> Int], NEW M \in Nat
    PROVE  Total(BlockSums(v, at, M)) = Total(InBlocks(v, at, M))
  <1> DEFINE sums == BlockSums(v, at, M)
  <1>1. \A m \in Int : InBlock(v, at, m) \in [1..n -> Int]
                       /\ InBlocks(v, at, m) \in [1..n -> Int]
    BY DEF InBlock, InBlocks
  <1>2. \A m \in Int : Total(InBlock(v, at, m)) \in Int /\ Total(InBlocks(v, at, m)) \in Int
    <2> SUFFICES ASSUME NEW m \in Int
                 PROVE  Total(InBlock(v, at, m)) \in Int /\ Total(InBlocks(v, at, m)) \in Int
      OBVIOUS
    <2> DEFINE a == InBlock(v, at, m)
               b == InBlocks(v, at, m)
    <2>1. a \in [1..n -> Int] /\ b \in [1..n -> Int]
      BY <1>1
    <2> HIDE DEF a, b
    <2>2. a \in Seq(Int) /\ b \in Seq(Int)
      BY <2>1, FunctionIsSeq
    <2>3. Total(a) \in Int /\ Total(b) \in Int
      BY <2>2, TotalIsInt
    <2> QED
      BY <2>3 DEF a, b
  <1>3. sums \in [1..M -> Int] /\ \A w \in 1..M : sums[w] = Total(InBlock(v, at, w))
    BY <1>2 DEF BlockSums
  <1> HIDE DEF sums
  <1>4. sums \in Seq(Int) /\ Len(sums) = M
    BY <1>3, FunctionIsSeq
  <1>5. PICK f : /\ f[0] = 0
                 /\ \A w \in 1..M : f[w] = f[w - 1] + sums[w]
                 /\ \A w \in 0..M : f[w] \in Int
                 /\ Total(sums) = f[M]
    BY <1>4, TotalLoop
  <1> DEFINE T == {m \in 0..M : f[m] = Total(InBlocks(v, at, m))}
  <1>6. 0 \in T
    <2> DEFINE z == InBlocks(v, at, 0)
    <2>1. z \in [1..n -> Int] /\ \A i \in 1..n : z[i] = z[i] + z[i]
      BY DEF InBlocks
    <2> HIDE DEF z
    <2>2. Total(z) \in Int /\ Total(z) = Total(z) + Total(z)
      BY <2>1, TotalPlus
    <2>3. Total(z) = 0
      BY <2>2
    <2> QED
      BY <1>5, <2>3 DEF z
  <1>7. ASSUME NEW m \in 1..M, m - 1 \in T PROVE m \in T
    <2> DEFINE a == InBlocks(v, at, m - 1)
               b == InBlock(v, at, m)
               c == InBlocks(v, at, m)
    <2>1. m \in Int /\ m - 1 \in Int /\ m \in 0..M /\ m - 1 \in 0..M
      OBVIOUS
    <2>2. a \in [1..n -> Int] /\ b \in [1..n -> Int] /\ c \in [1..n -> Int]
      BY <1>1, <2>1
    <2>3. ASSUME NEW i \in 1..n PROVE c[i] = a[i] + b[i]
      <3>1. /\ a[i] = IF at[i] \in 1..m - 1 THEN v[i] ELSE 0
            /\ b[i] = IF at[i] = m THEN v[i] ELSE 0
            /\ c[i] = IF at[i] \in 1..m THEN v[i] ELSE 0
        BY DEF InBlock, InBlocks
      <3>2. v[i] \in Int /\ at[i] \in Int
        OBVIOUS
      <3> HIDE DEF a, b, c
      <3> QED
        BY <3>1, <3>2
    <2> HIDE DEF a, b, c
    <2>4. Total(c) = Total(a) + Total(b)
      BY <2>2, <2>3, TotalPlus
    <2>5. f[m] = f[m - 1] + sums[m] /\ sums[m] = Total(b) /\ f[m - 1] = Total(a)
      BY <1>3, <1>5, <1>7 DEF a, b
    <2>6. f[m] = Total(c)
      BY <2>4, <2>5
    <2> QED
      BY <2>1, <2>6 DEF c
  <1>8. M \in T
    <2> HIDE DEF T
    <2>1. M \in 0..M /\ \A m \in 1..M : m - 1 \in T => m \in T
      BY <1>7
    <2>2. \A m \in 0..M : m \in T
      BY <1>6, <2>1, Induction
    <2> QED
      BY <2>1, <2>2
  <1>9. f[M] = Total(InBlocks(v, at, M))
    BY <1>8
  <1> QED
    BY <1>5, <1>9 DEF sums

\* Nothing is lost of a sum if what is not chosen counts nothing.
LEMMA ChosenTotalAll ==
    ASSUME NEW S, NEW s \in Seq(S), NEW I, NEW G \in [S -> Int],
           \A n \in 1..Len(s) : n \notin I => G[s[n]] = 0
    PROVE  Total(Weighed(Chosen(s, I), G)) = Total(Weighed(s, G))
  <1>1. DOMAIN s = 1..Len(s)
    BY LenProperties
  <1>2. Shares(s, I, G) = Weighed(s, G)
    BY <1>1 DEF Shares, Weighed
  <1> QED
    BY <1>2, ChosenTotal

\* What is heard of speakers.
Sounded == [label : Labels, metric : STRING, value : Int, start : Int, end : Int]

\* The fillers in a sequence of observations, and the windows they belong to.
Fillers(audio) ==
    [i \in DOMAIN audio |-> IF audio[i].metric = "filler_count" THEN audio[i].value ELSE 0]

WindowsOf(audio) ==
    [i \in DOMAIN audio |-> (audio[i].start + audio[i].end) \div (2 * WindowSize) + 1]

LEMMA FillersAre ==
    ASSUME NEW audio \in Seq(Sounded)
    PROVE  /\ DOMAIN audio = 1..Len(audio) /\ Len(audio) \in Nat
           /\ Fillers(audio) \in [1..Len(audio) -> Int]
           /\ WindowsOf(audio) \in [1..Len(audio) -> Int]
  <1>1. DOMAIN audio = 1..Len(audio) /\ Len(audio) \in Nat
        /\ \A i \in 1..Len(audio) : audio[i] \in Sounded
    BY LenProperties
  <1>2. \A o \in Sounded : o.value \in Int /\ o.start \in Int /\ o.end \in Int
    BY DEF Sounded
  <1>3. Fillers(audio) \in [1..Len(audio) -> Int]
    BY <1>1, <1>2 DEF Fillers
  <1>4. \A a, b \in Int : (a + b) \div (2 * WindowSize) + 1 \in Int
    BY DEF WindowSize
  <1>5. WindowsOf(audio) \in [1..Len(audio) -> Int]
    BY <1>1, <1>2, <1>4 DEF WindowsOf
  <1> QED
    BY <1>1, <1>3, <1>5

\* The fillers of a window add up to those that lie in it.
LEMMA ValuesTotal ==
    ASSUME NEW audio \in Seq(Sounded), NEW k \in Int
    PROVE  Total(Values(audio, k, "filler_count"))
              = Total(InBlock(Fillers(audio), WindowsOf(audio), k + 1))
  <1> DEFINE N == Len(audio)
             I == {n \in DOMAIN audio : LiesIn(audio[n], k) /\ audio[n].metric = "filler_count"}
             G == [o \in Sounded |-> o.value]
             c == Chosen(audio, I)
             b == InBlock(Fillers(audio), WindowsOf(audio), k + 1)
  <1>1. /\ N \in Nat /\ DOMAIN audio = 1..N /\ \A n \in 1..N : audio[n] \in Sounded
        /\ Fillers(audio) \in [1..N -> Int] /\ WindowsOf(audio) \in [1..N -> Int]
    BY FillersAre, LenProperties
  <1>2. G \in [Sounded -> Int]
    BY DEF Sounded
  <1>3. Values(audio, k, "filler_count") = [i \in DOMAIN c |-> c[i].value]
    BY DEF Values, Filtered
  <1>4. c \in Seq(Sounded)
    <2> HIDE DEF I
    <2> QED
      BY ChosenPicks
  <1>5. DOMAIN c = 1..Len(c) /\ \A i \in DOMAIN c : c[i] \in Sounded
    <2> HIDE DEF c
    <2> QED
      BY <1>4, LenProperties
  <1>6. Values(audio, k, "filler_count") = Weighed(c, G)
    <2> HIDE DEF c
    <2> QED
      BY <1>3, <1>5 DEF Weighed
  <1>7. Total(Weighed(c, G)) = Total(Shares(audio, I, G))
    <2> HIDE DEF I, G
    <2> QED
      BY <1>2, ChosenTotal
  <1>8. Shares(audio, I, G) = b
    <2>1. b = [i \in 1..N |-> IF WindowsOf(audio)[i] = k + 1 THEN Fillers(audio)[i] ELSE 0]
      BY <1>1 DEF InBlock
    <2>2. Shares(audio, I, G) = [i \in 1..N |-> IF i \in I THEN G[audio[i]] ELSE 0]
      BY <1>1 DEF Shares
    <2>3. ASSUME NEW i \in 1..N
          PROVE  (IF WindowsOf(audio)[i] = k + 1 THEN Fillers(audio)[i] ELSE 0)
                    = (IF i \in I THEN G[audio[i]] ELSE 0)
      <3> DEFINE m == (audio[i].start + audio[i].end) \div (2 * WindowSize)
      <3>1. m \in Int
        <4>1. audio[i].start \in Int /\ audio[i].end \in Int
          BY <1>1 DEF Sounded
        <4> QED
          BY <4>1 DEF WindowSize
      <3>2. WindowsOf(audio)[i] = m + 1
        BY <1>1 DEF WindowsOf
      <3>3. Fillers(audio)[i] = IF audio[i].metric = "filler_count" THEN audio[i].value ELSE 0
        BY <1>1 DEF Fillers
      <3>4. i \in I <=> k = m /\ audio[i].metric = "filler_count"
        BY <1>1 DEF LiesIn
      <3>5. G[audio[i]] = audio[i].value
        BY <1>1
      <3> HIDE DEF m, I, G
      <3>6. m + 1 = k + 1 <=> k = m
        BY <3>1
      <3> QED
        BY <3>2, <3>3, <3>4, <3>5, <3>6
    <2> HIDE DEF I, G
    <2> QED
      BY <2>1, <2>2, <2>3
  <1> QED
    BY <1>6, <1>7, <1>8

\* The windows of a profile before the empty ones are left out.
AllWindows(visual, audio, duration) ==
    [n \in 1..duration \div WindowSize + 1 |->
        [start |-> (n - 1) * WindowSize,
         acoustic |-> Measured(audio, n - 1, Averaged \cup AddedUp),
         visual |-> Measured(visual, n - 1, VisualMetrics)]]

FillersOf(window) ==
    IF "filler_count" \in DOMAIN window.acoustic THEN window.acoustic["filler_count"] ELSE 0

LEMMA MeasuredFillers ==
    ASSUME NEW audio, NEW k
    PROVE  LET m == Measured(audio, k, Averaged \cup AddedUp)
               v == Values(audio, k, "filler_count")
           IN  /\ "filler_count" \in DOMAIN m <=> v # <<>>
               /\ "filler_count" \in DOMAIN m => m["filler_count"] = Total(v)
  <1> DEFINE M == {m \in Averaged \cup AddedUp : Values(audio, k, m) # <<>>}
  <1>1. "filler_count" \in AddedUp
    BY DEF AddedUp
  <1>2. "filler_count" \in M <=> Values(audio, k, "filler_count") # <<>>
    BY <1>1
  <1>3. Measured(audio, k, Averaged \cup AddedUp) =
           [m \in M |-> IF m \in AddedUp THEN Total(Values(audio, k, m))
                        ELSE RoundedMean(Values(audio, k, m))]
    BY DEF Measured
  <1> HIDE DEF M
  <1> QED
    BY <1>1, <1>2, <1>3

LEMMA AllWindowsAre ==
    ASSUME NEW visual, NEW audio \in Seq(Sounded), NEW d \in Nat
    PROVE  LET raw == AllWindows(visual, audio, d)
               M == d \div WindowSize + 1
           IN  /\ M \in Nat /\ raw = [n \in 1..M |-> raw[n]]
               /\ \A n \in 1..M :
                     /\ FillersOf(raw[n])
                           = Total(InBlock(Fillers(audio), WindowsOf(audio), n))
                     /\ FillersOf(raw[n]) \in Int
                     /\ DOMAIN raw[n].acoustic = {} => FillersOf(raw[n]) = 0
  <1> DEFINE raw == AllWindows(visual, audio, d)
             M == d \div WindowSize + 1
  <1>1. M \in Nat
    BY DEF WindowSize
  <1>2. raw = [n \in 1..M |->
                 [start |-> (n - 1) * WindowSize,
                  acoustic |-> Measured(audio, n - 1, Averaged \cup AddedUp),
                  visual |-> Measured(visual, n - 1, VisualMetrics)]]
    BY DEF AllWindows
  <1> HIDE DEF raw, M
  <1>3. raw = [n \in 1..M |-> raw[n]]
    BY <1>2
  <1>4. ASSUME NEW n \in 1..M
        PROVE  /\ FillersOf(raw[n]) = Total(InBlock(Fillers(audio), WindowsOf(audio), n))
               /\ FillersOf(raw[n]) \in Int
               /\ DOMAIN raw[n].acoustic = {} => FillersOf(raw[n]) = 0
    <2> DEFINE m == Measured(audio, n - 1, Averaged \cup AddedUp)
               v == Values(audio, n - 1, "filler_count")
               b == InBlock(Fillers(audio), WindowsOf(audio), n)
    <2>1. raw[n].acoustic = m
      BY <1>2
    <2>2. /\ "filler_count" \in DOMAIN m <=> v # <<>>
          /\ "filler_count" \in DOMAIN m => m["filler_count"] = Total(v)
      BY MeasuredFillers
    <2>3. n \in Int /\ n - 1 \in Int /\ (n - 1) + 1 = n
      OBVIOUS
    <2>4. Total(v) = Total(b)
      <3> DEFINE k == n - 1
      <3>1. k \in Int /\ k + 1 = n
        BY <2>3
      <3> HIDE DEF k
      <3>2. Total(Values(audio, k, "filler_count"))
               = Total(InBlock(Fillers(audio), WindowsOf(audio), k + 1))
        BY <3>1, ValuesTotal
      <3> QED
        BY <3>1, <3>2 DEF k
    <2>5. Total(b) \in Int
      <3>1. Fillers(audio) \in [1..Len(audio) -> Int] /\ Len(audio) \in Nat
        BY FillersAre
      <3>2. b \in [1..Len(audio) -> Int]
        BY <3>1 DEF InBlock
      <3> HIDE DEF b
      <3>3. b \in Seq(Int)
        BY <3>1, <3>2, FunctionIsSeq
      <3> QED
        BY <3>3, TotalIsInt
    <2> HIDE DEF m, v, b
    <2>6. FillersOf(raw[n]) = IF "filler_count" \in DOMAIN m THEN m["filler_count"] ELSE 0
      BY <2>1 DEF FillersOf
    <2>7. v = <<>> => Total(v) = 0
      BY TotalOfNothing
    <2>8. FillersOf(raw[n]) = Total(b)
      BY <2>2, <2>4, <2>6, <2>7
    <2> QED
      BY <2>1, <2>5, <2>6, <2>8 DEF b
  <1> QED
    BY <1>1, <1>3, <1>4 DEF raw, M

\* The fillers that a profile's windows hold are those that were heard, if each belongs to
\* one of the windows.
LEMMA WindowsTotal ==
    ASSUME NEW visual, NEW audio \in Seq(Sounded), NEW d \in Nat,
           \A i \in 1..Len(audio) : WindowsOf(audio)[i] \in 1..d \div WindowSize + 1
    PROVE  Total(WindowValues(Windows(visual, audio, d), "filler_count"))
              = Total(Fillers(audio))
  <1> DEFINE raw == AllWindows(visual, audio, d)
             M == d \div WindowSize + 1
             S == Members(raw)
             G == [w \in S |-> FillersOf(w)]
             J == {n \in DOMAIN raw :
                      DOMAIN raw[n].acoustic # {} \/ DOMAIN raw[n].visual # {}}
             windows == Windows(visual, audio, d)
             K == {n \in DOMAIN windows : "filler_count" \in DOMAIN windows[n].acoustic}
             with == Chosen(windows, K)
             v == Fillers(audio)
             at == WindowsOf(audio)
  <1>1. /\ M \in Nat /\ raw = [n \in 1..M |-> raw[n]]
        /\ \A n \in 1..M : /\ FillersOf(raw[n]) = Total(InBlock(v, at, n))
                           /\ FillersOf(raw[n]) \in Int
                           /\ DOMAIN raw[n].acoustic = {} => FillersOf(raw[n]) = 0
    BY AllWindowsAre
  <1>2. windows = Chosen(raw, J)
    BY DEF Windows, Filtered, AllWindows
  <1>3. WindowValues(windows, "filler_count") =
           [i \in DOMAIN with |-> with[i].acoustic["filler_count"]]
    <2>1. "filler_count" \notin VisualMetrics
      BY DEF VisualMetrics
    <2> HIDE DEF windows
    <2> QED
      BY <2>1 DEF WindowValues, Filtered
  <1> HIDE DEF raw, M, v, at
  <1>4. raw \in Seq(S) /\ Len(raw) = M /\ DOMAIN raw = 1..M /\ \A n \in 1..M : raw[n] \in S
    <2>1. IsSeq(raw) /\ Len(raw) = M /\ DOMAIN raw = 1..M
      BY <1>1, SeqMade
    <2> QED
      BY <2>1, SeqIs DEF Members
  <1>5. G \in [S -> Int]
    <2>1. \A w \in S : FillersOf(w) \in Int
      BY <1>1, <1>4 DEF Members
    <2> HIDE DEF S
    <2> QED
      BY <2>1
  <1> HIDE DEF S
  <1>6. windows \in Seq(S) /\ DOMAIN windows = 1..Len(windows)
        /\ \A n \in DOMAIN windows : windows[n] \in S
    <2>1. Chosen(raw, J) \in Seq(S)
      <3> HIDE DEF J
      <3> QED
        BY <1>4, ChosenPicks
    <2> HIDE DEF J, windows
    <2> QED
      BY <1>2, <2>1, LenProperties
  <1>7. Total(Weighed(windows, G)) = Total(Weighed(raw, G))
    <2>1. \A n \in 1..Len(raw) : n \notin J => G[raw[n]] = 0
      BY <1>1, <1>4
    <2> HIDE DEF J, G, windows
    <2> QED
      BY <1>2, <1>4, <1>5, <2>1, ChosenTotalAll
  <1>8. Total(Weighed(raw, G)) = Total(v)
    <2> DEFINE sums == BlockSums(v, at, M)
    <2>1. Weighed(raw, G) = sums
      <3>1. Weighed(raw, G) = [n \in 1..M |-> G[raw[n]]]
        BY <1>4 DEF Weighed
      <3>2. \A n \in 1..M : G[raw[n]] = Total(InBlock(v, at, n))
        BY <1>1, <1>4
      <3> HIDE DEF G
      <3> QED
        BY <3>1, <3>2 DEF BlockSums
    <2>2. v \in [1..Len(audio) -> Int] /\ at \in [1..Len(audio) -> Int] /\ Len(audio) \in Nat
      BY FillersAre DEF v, at
    <2>3. Total(sums) = Total(InBlocks(v, at, M))
      BY <1>1, <2>2, BlocksTotal
    <2>4. InBlocks(v, at, M) = v
      <3>1. \A i \in 1..Len(audio) : at[i] \in 1..M
        BY DEF at, M
      <3>2. InBlocks(v, at, M) = [i \in 1..Len(audio) |-> v[i]]
        BY <2>2, <3>1 DEF InBlocks
      <3> QED
        BY <2>2, <3>2
    <2> QED
      BY <2>1, <2>3, <2>4
  <1> HIDE DEF windows, J
  <1>9. Total(Weighed(with, G)) = Total(Weighed(windows, G))
    <2>1. \A n \in 1..Len(windows) : n \notin K => G[windows[n]] = 0
      BY <1>6 DEF FillersOf
    <2> HIDE DEF K, G
    <2> QED
      BY <1>5, <1>6, <2>1, ChosenTotalAll
  <1>10. WindowValues(windows, "filler_count") = Weighed(with, G)
    <2>1. with \in Seq(S) /\ \E h : Picks(h, with, windows, K, Len(windows))
      <3> HIDE DEF K
      <3> QED
        BY <1>6, ChosenPicks
    <2>2. PICK h : Picks(h, with, windows, K, Len(windows))
      BY <2>1
    <2> HIDE DEF with
    <2>3. DOMAIN with = 1..Len(with) /\ \A i \in 1..Len(with) : with[i] \in S
      BY <2>1, LenProperties
    <2>4. \A i \in 1..Len(with) : "filler_count" \in DOMAIN with[i].acoustic
      BY <2>2 DEF Picks
    <2>5. \A i \in 1..Len(with) : G[with[i]] = with[i].acoustic["filler_count"]
      BY <2>3, <2>4 DEF FillersOf
    <2> HIDE DEF G
    <2>6. Weighed(with, G) = [i \in DOMAIN with |-> with[i].acoustic["filler_count"]]
      BY <2>3, <2>5 DEF Weighed
    <2> QED
      BY <1>3, <2>6
  <1> HIDE DEF with, G
  <1> QED
    BY <1>7, <1>8, <1>9, <1>10 DEF windows, v

LEMMA OverlapIs ==
    ASSUME NEW a, a.start \in Int, a.end \in Int, NEW b, b.start \in Int, b.end \in Int
    PROVE  /\ Overlap(a, b) \in Int /\ Overlap(a, b) >= 0
           /\ Overlap(a, b) > 0 <=> /\ a.start < a.end /\ a.start < b.end
                                    /\ b.start < a.end /\ b.start < b.end
  <1> DEFINE e == Min({a.end, b.end})
             s == Max({a.start, b.start})
             m == Max({0, e - s})
  <1>1. /\ e = IF a.end <= b.end THEN a.end ELSE b.end
        /\ s = IF a.start >= b.start THEN a.start ELSE b.start
    BY MinIs, MaxIs
  <1>2. Overlap(a, b) = m
    BY DEF Overlap
  <1> HIDE DEF e, s
  <1>3. e \in Int /\ s \in Int /\ e - s \in Int
    BY <1>1
  <1>4. m = IF 0 >= e - s THEN 0 ELSE e - s
    BY <1>3, MaxIs
  <1> HIDE DEF m
  <1>5. m \in Int /\ m >= 0 /\ (m > 0 <=> s < e)
    BY <1>3, <1>4
  <1>6. s < e <=> /\ a.start < a.end /\ a.start < b.end
                  /\ b.start < a.end /\ b.start < b.end
    BY <1>1
  <1> QED
    BY <1>2, <1>5, <1>6

\* A sum of numbers that are not negative is positive if one of them is.
LEMMA TotalWithPositive ==
    ASSUME NEW s \in Seq(Int), \A i \in 1..Len(s) : s[i] >= 0,
           NEW k \in 1..Len(s), s[k] > 0
    PROVE  Total(s) \in Int /\ Total(s) > 0
  <1> DEFINE N == Len(s)
  <1>1. N \in Nat /\ k \in 1..N /\ \A n \in 1..N : s[n] \in Int /\ s[n] >= 0
    BY LenProperties
  <1>2. PICK f : /\ f[0] = 0
                 /\ \A n \in 1..N : f[n] = f[n - 1] + s[n]
                 /\ \A n \in 0..N : f[n] \in Int
                 /\ Total(s) = f[N]
    BY TotalLoop
  <1> HIDE DEF N
  <1> DEFINE T == {n \in 0..N : f[n] >= 0 /\ (n >= k => f[n] > 0)}
  <1>3. 0 \in T
    BY <1>1, <1>2
  <1>4. ASSUME NEW n \in 1..N, n - 1 \in T PROVE n \in T
    <2>1. n \in 0..N /\ n - 1 \in 0..N
      BY <1>1
    <2>2. f[n] = f[n - 1] + s[n] /\ f[n - 1] >= 0 /\ (n - 1 >= k => f[n - 1] > 0)
      BY <1>2, <1>4
    <2>3. f[n - 1] \in Int /\ s[n] \in Int /\ s[n] >= 0 /\ k \in Int
      BY SMTT(30), <1>1, <1>2, <2>1
    <2>4. CASE n = k
      BY <2>1, <2>2, <2>3, <2>4
    <2>5. CASE n # k
      BY SMTT(30), <2>1, <2>2, <2>3, <2>5
    <2> QED
      BY <2>4, <2>5
  <1>5. N \in T
    <2> HIDE DEF T
    <2>1. N \in 0..N /\ \A n \in 1..N : n - 1 \in T => n \in T
      BY <1>1, <1>4
    <2>2. \A n \in 0..N : n \in T
      BY <1>1, <1>3, <2>1, Induction
    <2> QED
      BY <2>1, <2>2
  <1> QED
    BY <1>1, <1>2, <1>5

\* There is a first of the places at which a number is greatest.
LEMMA GreatestIs ==
    ASSUME NEW s \in Seq(Int), s # <<>>
    PROVE  Greatest(s) \in DOMAIN s
  <1> DEFINE N == Len(s)
             M == {i \in DOMAIN s : \A j \in DOMAIN s : s[j] <= s[i]}
             T == {n \in 0..N : n = 0 \/ \E i \in 1..n : \A j \in 1..n : s[j] <= s[i]}
  <1>1. N \in Nat /\ DOMAIN s = 1..N /\ \A n \in 1..N : s[n] \in Int
    BY LenProperties
  <1>2. N # 0
    BY <1>1, EmptySeq
  <1> HIDE DEF N
  <1>3. 0 \in T
    BY <1>1
  <1>4. ASSUME NEW n \in 1..N, n - 1 \in T PROVE n \in T
    <2>1. n \in 0..N /\ n \in 1..n /\ \A j \in 1..n : j = n \/ j \in 1..n - 1
      BY <1>1
    <2>2. CASE n = 1
      <3>1. \A j \in 1..n : s[j] <= s[n]
        BY <1>1, <2>2
      <3> QED
        BY <2>1, <3>1
    <2>3. CASE n # 1
      <3>1. PICK i \in 1..n - 1 : \A j \in 1..n - 1 : s[j] <= s[i]
        BY <1>4, <2>3
      <3>2. i \in 1..n /\ i \in 1..N /\ s[i] \in Int /\ s[n] \in Int
            /\ \A j \in 1..n - 1 : s[j] \in Int
        BY <1>1
      <3>3. CASE s[n] <= s[i]
        BY <2>1, <3>1, <3>2, <3>3
      <3>4. CASE ~(s[n] <= s[i])
        <4>1. \A j \in 1..n : s[j] <= s[n]
          BY <2>1, <3>1, <3>2, <3>4
        <4> QED
          BY <2>1, <4>1
      <3> QED
        BY <3>3, <3>4
    <2> QED
      BY <2>2, <2>3
  <1>5. N \in T
    <2> HIDE DEF T
    <2>1. N \in 0..N /\ \A n \in 1..N : n - 1 \in T => n \in T
      BY <1>1, <1>4
    <2>2. \A n \in 0..N : n \in T
      BY <1>1, <1>3, <2>1, Induction
    <2> QED
      BY <2>1, <2>2
  <1>6. M # {} /\ M \subseteq Nat /\ M \subseteq DOMAIN s
    <2>1. PICK i \in 1..N : \A j \in 1..N : s[j] <= s[i]
      BY <1>2, <1>5
    <2>2. i \in M
      BY <1>1, <2>1
    <2>3. M \subseteq 1..N
      BY <1>1
    <2> HIDE DEF M
    <2> QED
      BY <1>1, <2>2, <2>3
  <1> HIDE DEF M
  <1>7. PICK m \in M : \A k \in M : m <= k
    BY <1>6, LeastMember
  <1>8. Min(M) \in M
    <2>1. \E x \in M : \A y \in M : x <= y
      BY <1>7
    <2> QED
      BY <2>1 DEF Min
  <1>9. Greatest(s) = Min(M)
    BY DEF Greatest, M
  <1> QED
    BY <1>6, <1>8, <1>9

LEMMA PresenceIs ==
    ASSUME NEW o, o.start \in Int, o.end \in Int, speech.turns \in Seq(Turns), NEW speaker
    PROVE  /\ Presence(o, speech, speaker) \in Int
           /\ Known(speaker) /\ Contains(speech.labels, speaker) =>
                 \A k \in DOMAIN speech.turns :
                    speech.turns[k].speaker = speaker /\ Overlap(o, speech.turns[k]) > 0 =>
                       Presence(o, speech, speaker) > 0
  <1> DEFINE turns == speech.turns
             N == Len(turns)
             t == TurnsOf(speech, speaker)
             I == {n \in DOMAIN turns : turns[n].speaker = speaker}
             G == [turn \in Turns |-> Overlap(o, turn)]
  <1>1. N \in Nat /\ DOMAIN turns = 1..N /\ \A n \in 1..N : turns[n] \in Turns
    BY LenProperties
  <1>2. G \in [Turns -> Int] /\ \A turn \in Turns : G[turn] = Overlap(o, turn) /\ G[turn] >= 0
    <2>1. \A turn \in Turns : Overlap(o, turn) \in Int /\ Overlap(o, turn) >= 0
      BY TurnFields, OverlapIs
    <2> QED
      BY <2>1
  <1> HIDE DEF N, G
  <1>3. t = IF Known(speaker) /\ Contains(speech.labels, speaker) THEN Chosen(turns, I) ELSE <<>>
    BY DEF TurnsOf, Filtered
  <1>4. t \in Seq(Turns)
    <2>1. Chosen(turns, I) \in Seq(Turns)
      <3> HIDE DEF I
      <3> QED
        BY ChosenPicks
    <2> HIDE DEF t, I
    <2> QED
      BY <1>3, <2>1, EmptySeq
  <1>5. Presence(o, speech, speaker) = Total([i \in DOMAIN t |-> Overlap(o, t[i])])
    BY DEF Presence
  <1> HIDE DEF t
  <1>6. Presence(o, speech, speaker) = Total(Weighed(t, G))
    <2>1. \A i \in DOMAIN t : t[i] \in Turns
      BY <1>4, LenProperties
    <2>2. Weighed(t, G) = [i \in DOMAIN t |-> Overlap(o, t[i])]
      BY <1>2, <2>1 DEF Weighed
    <2> QED
      BY <1>5, <2>2
  <1>7. Total(Weighed(t, G)) \in Int
    BY <1>2, <1>4, WeighedIs, TotalIsInt
  <1>8. ASSUME Known(speaker), Contains(speech.labels, speaker),
               NEW k \in DOMAIN turns, turns[k].speaker = speaker, Overlap(o, turns[k]) > 0
        PROVE  Total(Weighed(t, G)) > 0
    <2> DEFINE b == Shares(turns, I, G)
    <2>1. Total(Weighed(t, G)) = Total(b)
      <3>1. Total(Weighed(Chosen(turns, I), G)) = Total(b)
        <4> HIDE DEF I
        <4> QED
          BY <1>2, ChosenTotal
      <3> QED
        BY <1>3, <1>8, <3>1
    <2>2. b \in Seq(Int) /\ Len(b) = N
      <3> HIDE DEF I
      <3> QED
        BY <1>2, WeighedIs DEF N
    <2>3. \A i \in 1..N : b[i] = IF i \in I THEN G[turns[i]] ELSE 0
      BY <1>1 DEF Shares
    <2>4. k \in 1..N /\ k \in I
      BY <1>1, <1>8
    <2> HIDE DEF b, I
    <2>5. (\A i \in 1..N : b[i] >= 0) /\ b[k] > 0
      BY SMTT(30), <1>1, <1>2, <1>8, <2>3, <2>4
    <2>6. Total(b) > 0
      BY <2>2, <2>4, <2>5, TotalWithPositive
    <2> QED
      BY <2>1, <2>6
  <1> QED
    BY <1>6, <1>7, <1>8

\* The speakers who are present are those of turns that go with the observation.
LEMMA PresentAre ==
    ASSUME NEW o, o.start \in Int, o.end \in Int, speech.turns \in Seq(Turns)
    PROVE  LET p == Present(o, speech) IN
           /\ p \in Seq(Labels)
           /\ \A i \in DOMAIN p : \E k \in DOMAIN speech.turns :
                 p[i] = speech.turns[k].speaker /\ Overlap(o, speech.turns[k]) > 0
           /\ \A k \in DOMAIN speech.turns :
                 /\ Overlap(o, speech.turns[k]) > 0
                 /\ Presence(o, speech, speech.turns[k].speaker) > 0
                 => p # <<>>
  <1> DEFINE turns == speech.turns
             N == Len(turns)
             I == {n \in DOMAIN turns : /\ Presence(o, speech, turns[n].speaker) > 0
                                        /\ Overlap(o, turns[n]) > 0}
             c == Chosen(turns, I)
             p == Present(o, speech)
  <1>1. N \in Nat /\ DOMAIN turns = 1..N /\ \A n \in 1..N : turns[n] \in Turns
    BY LenProperties
  <1>2. p = [i \in DOMAIN c |-> c[i].speaker]
    BY DEF Present, Filtered
  <1>3. c \in Seq(Turns) /\ \E h : Picks(h, c, turns, I, N)
    <2> HIDE DEF I
    <2> QED
      BY ChosenPicks
  <1>4. PICK h : Picks(h, c, turns, I, N)
    BY <1>3
  <1> HIDE DEF c, p, N
  <1>5. /\ DOMAIN c = 1..Len(c) /\ Len(c) \in Nat
        /\ \A i \in 1..Len(c) : c[i] \in Turns /\ c[i].speaker \in Labels
    BY <1>3, LenProperties, TurnFields
  <1>6. p \in Seq(Labels) /\ DOMAIN p = 1..Len(c) /\ Len(p) = Len(c)
    <2>1. p \in [1..Len(c) -> Labels]
      BY <1>2, <1>5
    <2> QED
      BY <1>5, <2>1, FunctionIsSeq
  <1>7. ASSUME NEW i \in DOMAIN p
        PROVE  \E k \in DOMAIN turns : p[i] = turns[k].speaker /\ Overlap(o, turns[k]) > 0
    <2>1. h[i] \in 1..N /\ h[i] \in I /\ c[i] = turns[h[i]]
      BY <1>4, <1>6, <1>7 DEF Picks
    <2> QED
      BY <1>1, <1>2, <1>5, <1>6, <2>1
  <1>8. ASSUME NEW k \in DOMAIN turns, Overlap(o, turns[k]) > 0,
               Presence(o, speech, turns[k].speaker) > 0
        PROVE  p # <<>>
    <2>1. k \in 1..N /\ k \in I
      BY <1>1, <1>8
    <2>2. PICK i \in 1..Len(c) : h[i] = k
      BY <1>4, <2>1 DEF Picks
    <2>3. i \in DOMAIN p
      BY <1>6, <2>2
    <2> QED
      BY <2>3
  <1> QED
    BY <1>6, <1>7, <1>8 DEF p

\* An observation is given a label and nothing else; one that has none, and goes with a
\* turn, that of such a turn.
Labelled(a, o) ==
    /\ a \in Sounded
    /\ a.metric = o.metric /\ a.value = o.value /\ a.start = o.start /\ a.end = o.end
    /\ o.label # "" => a.label = o.label
    /\ o.label = "" /\ Present(o, speech) # <<>> =>
          \E k \in DOMAIN speech.turns :
             a.label = speech.turns[k].speaker /\ Overlap(o, speech.turns[k]) > 0

LEMMA AttributedIs ==
    ASSUME NEW o \in Observations, speech.turns \in Seq(Turns)
    PROVE  Labelled(Attributed(o, speech), o)
  <1> DEFINE a == Attributed(o, speech)
             p == Present(o, speech)
             q == [i \in DOMAIN p |-> Presence(o, speech, p[i])]
             g == Greatest(q)
  <1>1. /\ o.start \in Int /\ o.end \in Int /\ o.label \in STRING /\ o.metric \in STRING
        /\ o.value \in Int
        /\ o = [label |-> o.label, metric |-> o.metric, value |-> o.value,
                start |-> o.start, end |-> o.end]
    BY DEF Observations
  <1>2. /\ p \in Seq(Labels)
        /\ \A i \in DOMAIN p : \E k \in DOMAIN speech.turns :
              p[i] = speech.turns[k].speaker /\ Overlap(o, speech.turns[k]) > 0
    BY <1>1, PresentAre
  <1>3. a = IF o.label # "" \/ p = <<>> THEN o ELSE [o EXCEPT !.label = p[g]]
    BY DEF Attributed
  <1> HIDE DEF p, a
  <1>4. CASE o.label # "" \/ p = <<>>
    <2>1. a = o
      BY <1>3, <1>4
    <2>2. o \in Sounded
      BY <1>1 DEF Sounded, Labels
    <2>3. Labelled(a, o)
      BY <1>4, <2>1, <2>2 DEF Labelled, p
    <2> QED
      BY <2>3 DEF a
  <1>5. CASE o.label = "" /\ p # <<>>
    <2>1. g \in DOMAIN p
      <3> DEFINE n == Len(p)
      <3>1. n \in Nat /\ DOMAIN p = 1..n
        BY <1>2, LenProperties
      <3> HIDE DEF n
      <3>2. q \in [1..n -> Int]
        BY <1>1, <3>1, PresenceIs
      <3>3. n # 0
        BY <1>2, <1>5, EmptySeq DEF n
      <3> HIDE DEF q
      <3>4. q \in Seq(Int) /\ Len(q) = n /\ DOMAIN q = 1..n
        BY <3>1, <3>2, FunctionIsSeq
      <3>5. q # <<>>
        BY <3>3, <3>4, EmptySeq
      <3>6. Greatest(q) \in DOMAIN q
        BY <3>4, <3>5, GreatestIs
      <3> QED
        BY <3>1, <3>4, <3>6
    <2> HIDE DEF g
    <2>2. p[g] \in Labels
      BY <1>2, <2>1, LenProperties
    <2>3. a = [label |-> p[g], metric |-> o.metric, value |-> o.value,
               start |-> o.start, end |-> o.end]
      BY <1>1, <1>3, <1>5
    <2>4. a \in Sounded
      BY <1>1, <2>2, <2>3 DEF Sounded
    <2>5. \E k \in DOMAIN speech.turns :
             a.label = speech.turns[k].speaker /\ Overlap(o, speech.turns[k]) > 0
      BY <1>2, <2>1, <2>3
    <2>6. Labelled(a, o)
      BY <1>5, <2>3, <2>4, <2>5 DEF Labelled
    <2> QED
      BY <2>6 DEF a
  <1> QED
    BY <1>4, <1>5

\* Who alone had the floor, and is not said to be somebody else.
Alone(o, speaker) ==
    /\ o.label \in {"", speaker}
    /\ \E i \in DOMAIN speech.turns :
          /\ speech.turns[i].speaker = speaker
          /\ speech.turns[i].end - speech.turns[i].start >= ShortestTurn
          /\ Overlap(o, speech.turns[i]) > 0
    /\ \A i \in DOMAIN speech.turns :
          Overlap(o, speech.turns[i]) > 0 => speech.turns[i].speaker = speaker

\* Observations that are a speaker's and go with one of the clean turns.
Credited(o, speaker) ==
    /\ o.label = speaker
    /\ \E i \in DOMAIN CleanTurns(speech.turns, speaker) :
          Overlap(o, CleanTurns(speech.turns, speaker)[i]) > 0

\* What is heard while one speaker alone has the floor is credited to that speaker.
LEMMA AloneIsCredited ==
    ASSUME NEW o \in Observations, speech.turns \in Seq(Turns),
           NEW speaker, Known(speaker), Contains(speech.labels, speaker), Alone(o, speaker)
    PROVE  Credited(Attributed(o, speech), speaker)
  <1> DEFINE a == Attributed(o, speech)
             c == CleanTurns(speech.turns, speaker)
             own == OwnTurns(speech.turns, speaker)
  <1>1. o.start \in Int /\ o.end \in Int
    BY DEF Observations
  <1>2. PICK k \in DOMAIN speech.turns :
           /\ speech.turns[k].speaker = speaker
           /\ speech.turns[k].end - speech.turns[k].start >= ShortestTurn
           /\ Overlap(o, speech.turns[k]) > 0
    BY DEF Alone
  <1>3. Presence(o, speech, speaker) > 0
    BY <1>1, <1>2, PresenceIs
  <1>4. Present(o, speech) # <<>>
    BY <1>1, <1>2, <1>3, PresentAre
  <1>5. /\ a \in Sounded /\ a.start = o.start /\ a.end = o.end
        /\ o.label # "" => a.label = o.label
        /\ o.label = "" =>
              \E i \in DOMAIN speech.turns :
                 a.label = speech.turns[i].speaker /\ Overlap(o, speech.turns[i]) > 0
    BY <1>4, AttributedIs DEF Labelled
  <1> HIDE DEF a
  <1>6. a.label = speaker
    BY <1>5 DEF Alone
  <1> DEFINE turn == speech.turns[k]
  <1>7. turn \in Turns
    BY <1>2, LenProperties
  <1>8. /\ turn.start \in Int /\ turn.end \in Int /\ turn.start <= turn.end
        /\ turn.end - turn.start >= ShortestTurn /\ turn.speaker = speaker
    <2>1. turn.start \in Int /\ turn.end \in Int
      BY <1>7, TurnFields
    <2> HIDE DEF turn
    <2>2. turn.end - turn.start >= ShortestTurn /\ turn.speaker = speaker
      BY <1>2 DEF turn
    <2> QED
      BY <2>1, <2>2 DEF ShortestTurn
  <1>9. turn \in own
    <2>1. Ordered(turn) = turn
      BY <1>7, <1>8, OrderedIs DEF Forward
    <2> QED
      BY <1>2, <2>1 DEF OwnTurns
  <1>10. Overlap(o, turn) > 0
    BY <1>2
  <1> HIDE DEF turn
  <1>11. PICK i \in 1..Len(c) : c[i].start <= turn.start /\ turn.end <= c[i].end
    <2>1. Long(turn)
      BY <1>8 DEF Long
    <2> HIDE DEF own, c
    <2> QED
      BY <1>9, <2>1, CleanTurnsAreClean DEF own, c
  <1>12. c \in Seq(Forward)
    BY CleanTurnsAreClean DEF IsClean
  <1> HIDE DEF c
  <1>13. i \in DOMAIN c /\ c[i].start \in Int /\ c[i].end \in Int
    <2>1. DOMAIN c = 1..Len(c) /\ \A n \in 1..Len(c) : c[n] \in Turns
      BY <1>12, LenProperties DEF Forward
    <2> QED
      BY <2>1, TurnFields
  <1>14. Overlap(a, c[i]) > 0
    <2>1. o.start < o.end /\ o.start < turn.end /\ turn.start < o.end /\ turn.start < turn.end
      BY <1>1, <1>8, <1>10, OverlapIs
    <2>2. turn.start \in Int /\ turn.end \in Int
      BY <1>8
    <2>3. o.start < c[i].end /\ c[i].start < o.end /\ c[i].start < c[i].end
      BY SMTT(30), <1>1, <1>11, <1>13, <2>1, <2>2
    <2>4. /\ a.start < a.end /\ a.start < c[i].end
          /\ c[i].start < a.end /\ c[i].start < c[i].end
      BY <1>5, <2>1, <2>3
    <2> QED
      BY <1>1, <1>5, <1>13, <2>4, OverlapIs
  <1> QED
    BY <1>6, <1>13, <1>14 DEF Credited, a, c

\* The fillers that a profile tells of.
CountOf(profile) ==
    IF "filler_count" \in DOMAIN profile.summary THEN profile.summary["filler_count"] ELSE 0

LEMMA SummaryFillers ==
    ASSUME NEW profile, NEW windows, profile.summary = Summary(windows)
    PROVE  CountOf(profile) = Total(WindowValues(windows, "filler_count"))
  <1> DEFINE reported == {"speaking_rate_wpm", "pitch_mean_hz", "pause_duration_ms",
                          "filler_count", "gaze_direction", "posture_openness",
                          "upper_body_movement_px"}
             measured == {m \in reported : WindowValues(windows, m) # <<>>}
             pauses == IF "pause_duration_ms" \in measured THEN {"pause_count"} ELSE {}
             v == WindowValues(windows, "filler_count")
  <1>1. "filler_count" \in measured <=> v # <<>>
    OBVIOUS
  <1>2. "filler_count" \notin pauses
    OBVIOUS
  <1>3. Summary(windows) = [m \in measured \cup pauses |->
                              IF m \in AddedUp THEN Total(WindowValues(windows, m))
                              ELSE RoundedMean(WindowValues(windows, m))]
    BY DEF Summary
  <1>4. "filler_count" \in AddedUp
    BY DEF AddedUp
  <1> HIDE DEF measured, pauses
  <1>5. CASE v = <<>>
    <2>1. "filler_count" \notin DOMAIN Summary(windows)
      BY <1>1, <1>2, <1>3, <1>5
    <2> QED
      BY <1>5, <2>1, TotalOfNothing DEF CountOf
  <1>6. CASE v # <<>>
    <2>1. /\ "filler_count" \in DOMAIN Summary(windows)
          /\ Summary(windows)["filler_count"] = Total(v)
      BY <1>1, <1>3, <1>4, <1>6
    <2> QED
      BY <2>1 DEF CountOf
  <1> QED
    BY <1>5, <1>6

\* The fillers among what was heard that count for a speaker.
CountedFor(speaker) ==
    [i \in DOMAIN observed.audio |->
        IF /\ observed.audio[i].metric = "filler_count"
           /\ Credited(Attributed(observed.audio[i], speech), speaker)
        THEN observed.audio[i].value ELSE 0]

\* An observation within the recording belongs to one of its windows.
LEMMA InAWindow ==
    ASSUME NEW a \in Int, NEW b \in Int, NEW d \in Nat, 0 <= a, a < b, b <= d
    PROVE  (a + b) \div (2 * WindowSize) + 1 \in 1..d \div WindowSize + 1
  BY DEF WindowSize

\* A profile tells of the fillers that count for its speaker.
LEMMA ProfileCounts ==
    ASSUME Seen, speech.turns \in Seq(Turns), speech.duration \in Nat, NEW speaker
    PROVE  CountOf(ProfileOf(speaker, speech,
                             Combined(speech, observed.visual, observed.audio)))
              = Total(CountedFor(speaker))
  <1> DEFINE audio == observed.audio
             N == Len(audio)
             b == Combined(speech, observed.visual, audio)
             c == CleanTurns(speech.turns, speaker)
             p == ProfileOf(speaker, speech, b)
             A == {n \in DOMAIN b.audio :
                      /\ b.audio[n].label = speaker
                      /\ \E i \in DOMAIN c : Overlap(b.audio[n], c[i]) > 0}
             active == Active(b.audio, c, speaker)
             w == Windows(Active(b.visual, c, speaker), active, speech.duration)
             H == [o \in Sounded |-> IF o.metric = "filler_count" THEN o.value ELSE 0]
  <1>1. /\ N \in Nat /\ DOMAIN audio = 1..N
        /\ \A n \in 1..N : /\ audio[n] \in Observations
                           /\ In(audio[n], speech.duration) /\ audio[n].start < audio[n].end
    <2>1. audio \in Seq(Observations)
      BY DEF Seen
    <2>2. DOMAIN audio = 1..N /\ N \in Nat /\ \A n \in 1..N : audio[n] \in Observations
      BY <2>1, LenProperties
    <2>3. \A n \in 1..N : audio[n] \in ToSet(observed.audio)
      BY <2>2 DEF ToSet
    <2>4. \A n \in 1..N : In(audio[n], speech.duration) /\ audio[n].start < audio[n].end
      BY <2>3 DEF Seen
    <2> QED
      BY <2>2, <2>4
  <1>2. b.audio = [i \in 1..N |-> Attributed(audio[i], speech)]
    BY <1>1 DEF Combined
  <1>3. p.summary = Summary(w)
    BY DEF ProfileOf
  <1>4. active = Chosen(b.audio, A)
    BY DEF Active, Filtered
  <1> HIDE DEF p, b, c, N, audio
  <1>5. \A n \in 1..N : Labelled(b.audio[n], audio[n])
    BY <1>1, <1>2, AttributedIs
  <1>6. /\ b.audio \in Seq(Sounded) /\ Len(b.audio) = N /\ DOMAIN b.audio = 1..N
        /\ \A n \in 1..N : b.audio[n] \in Sounded
    <2>1. b.audio \in [1..N -> Sounded]
      BY <1>2, <1>5 DEF Labelled
    <2> QED
      BY <1>1, <2>1, FunctionIsSeq
  <1>7. active \in Seq(Sounded) /\ \E h : Picks(h, active, b.audio, A, N)
    <2>1. LET k == Chosen(b.audio, A) IN
          k \in Seq(Sounded) /\ \E h : Picks(h, k, b.audio, A, Len(b.audio))
      <3> HIDE DEF A
      <3> QED
        BY <1>6, ChosenPicks
    <2> HIDE DEF A, active
    <2> QED
      BY <1>4, <1>6, <2>1
  <1>8. PICK h : Picks(h, active, b.audio, A, N)
    BY <1>7
  <1> HIDE DEF active, A, w
  <1>9. ASSUME NEW i \in 1..Len(active)
        PROVE  WindowsOf(active)[i] \in 1..speech.duration \div WindowSize + 1
    <2>1. /\ DOMAIN active = 1..Len(active) /\ h[i] \in 1..N
          /\ active[i] = b.audio[h[i]]
      BY <1>7, <1>8, LenProperties DEF Picks
    <2> DEFINE o == audio[h[i]]
    <2>2. Labelled(active[i], o) /\ o \in Observations /\ In(o, speech.duration) /\ o.start < o.end
      BY <1>1, <1>5, <2>1
    <2> HIDE DEF o
    <2>3. /\ active[i].start = o.start /\ active[i].end = o.end
          /\ o.start \in Int /\ o.end \in Int /\ 0 <= o.start /\ o.start < o.end
          /\ o.end <= speech.duration
      BY <2>2 DEF Labelled, Observations, In
    <2>4. WindowsOf(active)[i] = (o.start + o.end) \div (2 * WindowSize) + 1
      BY <2>1, <2>3 DEF WindowsOf
    <2> QED
      BY <2>3, <2>4, InAWindow
  <1>10. CountOf(p) = Total(Fillers(active))
    <2>1. Total(WindowValues(w, "filler_count")) = Total(Fillers(active))
      BY <1>7, <1>9, WindowsTotal DEF w
    <2> QED
      BY <1>3, <2>1, SummaryFillers
  <1>11. H \in [Sounded -> Int]
    BY DEF Sounded
  <1>12. Fillers(active) = Weighed(active, H)
    <2>1. \A i \in DOMAIN active : active[i] \in Sounded
      BY <1>7, LenProperties
    <2> QED
      BY <2>1 DEF Fillers, Weighed
  <1>13. Total(Weighed(active, H)) = Total(Shares(b.audio, A, H))
    <2> HIDE DEF H
    <2> QED
      BY <1>4, <1>6, <1>11, ChosenTotal
  <1>14. Shares(b.audio, A, H) = CountedFor(speaker)
    <2>1. Shares(b.audio, A, H) = [i \in 1..N |-> IF i \in A THEN H[b.audio[i]] ELSE 0]
      BY <1>6 DEF Shares
    <2>2. CountedFor(speaker) =
             [i \in 1..N |-> IF /\ audio[i].metric = "filler_count"
                                /\ Credited(b.audio[i], speaker)
                             THEN audio[i].value ELSE 0]
      BY <1>1, <1>2 DEF CountedFor, audio
    <2>3. ASSUME NEW i \in 1..N
          PROVE  (IF i \in A THEN H[b.audio[i]] ELSE 0)
                    = (IF /\ audio[i].metric = "filler_count"
                          /\ Credited(b.audio[i], speaker)
                       THEN audio[i].value ELSE 0)
      <3>1. i \in A <=> Credited(b.audio[i], speaker)
        BY <1>6 DEF A, Credited, c
      <3>2. H[b.audio[i]] = IF b.audio[i].metric = "filler_count" THEN b.audio[i].value ELSE 0
        BY <1>6
      <3>3. b.audio[i].metric = audio[i].metric /\ b.audio[i].value = audio[i].value
        BY <1>5 DEF Labelled
      <3> HIDE DEF H
      <3> QED
        BY <3>1, <3>2, <3>3
    <2> HIDE DEF H
    <2> QED
      BY <2>1, <2>2, <2>3
  <1> QED
    BY <1>10, <1>12, <1>13, <1>14 DEF p, b, audio

\* The fillers that were heard, and those of some observations, place by place.
Heards == Chosen(observed.audio,
                 {n \in DOMAIN observed.audio : observed.audio[n].metric = "filler_count"})

FillersIn(Q) ==
    [i \in DOMAIN observed.audio |->
        IF observed.audio[i].metric = "filler_count" /\ observed.audio[i] \in Q
        THEN observed.audio[i].value ELSE 0]

LEMMA HeardTotal ==
    ASSUME observed.audio \in Seq(Observations), NEW Q
    PROVE  LET c == Chosen(Heards, {n \in DOMAIN Heards : Heards[n] \in Q}) IN
           /\ \A n \in DOMAIN Heards : Heards[n] \in Observations
           /\ Total([i \in DOMAIN c |-> c[i].value]) = Total(FillersIn(Q))
  <1> DEFINE audio == observed.audio
             F == {n \in DOMAIN audio : audio[n].metric = "filler_count"}
             heard == Heards
             I == {n \in DOMAIN heard : heard[n] \in Q}
             c == Chosen(heard, I)
             G == [o \in Observations |-> o.value]
             GQ == [o \in Observations |-> IF o \in Q THEN o.value ELSE 0]
  <1>1. DOMAIN audio = 1..Len(audio) /\ \A n \in DOMAIN audio : audio[n] \in Observations
    BY LenProperties
  <1>2. heard \in Seq(Observations) /\ heard = Chosen(audio, F)
    <2>1. heard = Chosen(audio, F)
      BY DEF Heards
    <2> HIDE DEF F, heard
    <2> QED
      BY <2>1, ChosenPicks
  <1>3. G \in [Observations -> Int] /\ GQ \in [Observations -> Int]
    BY DEF Observations
  <1> HIDE DEF heard
  <1>4. \A n \in DOMAIN heard : heard[n] \in Observations
    BY <1>2, LenProperties
  <1>5. c \in Seq(Observations) /\ \A i \in DOMAIN c : c[i] \in Observations
    <2>1. c \in Seq(Observations)
      <3> HIDE DEF I
      <3> QED
        BY <1>2, ChosenPicks
    <2> HIDE DEF c
    <2> QED
      BY <2>1, LenProperties
  <1>6. [i \in DOMAIN c |-> c[i].value] = Weighed(c, G)
    <2> HIDE DEF c
    <2> QED
      BY <1>5 DEF Weighed
  <1>7. Total(Weighed(c, G)) = Total(Shares(heard, I, G))
    <2> HIDE DEF I, G
    <2> QED
      BY <1>2, <1>3, ChosenTotal
  <1>8. Shares(heard, I, G) = Weighed(heard, GQ)
    BY <1>4 DEF Shares, Weighed
  <1>9. Total(Weighed(heard, GQ)) = Total(Shares(audio, F, GQ))
    <2>1. Total(Weighed(Chosen(audio, F), GQ)) = Total(Shares(audio, F, GQ))
      <3> HIDE DEF F, GQ
      <3> QED
        BY <1>3, ChosenTotal
    <2> HIDE DEF F, GQ
    <2> QED
      BY <1>2, <2>1
  <1>10. Shares(audio, F, GQ) = FillersIn(Q)
    <2>1. Shares(audio, F, GQ) = [i \in DOMAIN audio |-> IF i \in F THEN GQ[audio[i]] ELSE 0]
      BY DEF Shares
    <2>2. \A i \in DOMAIN audio :
             (IF i \in F THEN GQ[audio[i]] ELSE 0)
                = (IF audio[i].metric = "filler_count" /\ audio[i] \in Q
                   THEN audio[i].value ELSE 0)
      BY <1>1
    <2> HIDE DEF F, GQ
    <2> QED
      BY <2>1, <2>2 DEF FillersIn
  <1>11. Total([i \in DOMAIN c |-> c[i].value]) = Total(FillersIn(Q))
    <2> HIDE DEF c, I, G, GQ
    <2> QED
      BY <1>6, <1>7, <1>8, <1>9, <1>10
  <1> QED
    BY <1>4, <1>11 DEF heard

LEMMA HeardAre ==
    ASSUME Seen
    PROVE  LET audio == observed.audio
               N == Len(audio)
           IN  /\ audio \in Seq(Observations)
               /\ N \in Nat /\ DOMAIN audio = 1..N
               /\ \A i \in 1..N :
                     /\ audio[i] \in Observations /\ audio[i].value \in Int
                     /\ audio[i].metric = "filler_count" => audio[i].value >= 0
  <1> DEFINE audio == observed.audio
             N == Len(audio)
  <1>1. audio \in Seq(Observations)
    BY DEF Seen
  <1>2. N \in Nat /\ DOMAIN audio = 1..N /\ \A i \in 1..N : audio[i] \in Observations
    BY <1>1, LenProperties
  <1>3. \A i \in 1..N : audio[i] \in ToSet(observed.audio)
    BY <1>2 DEF ToSet
  <1>4. \A i \in 1..N : audio[i].metric = "filler_count" => audio[i].value >= 0
    BY <1>3 DEF Seen
  <1> QED
    BY <1>1, <1>2, <1>4 DEF Observations

\* The fillers of some observations, and those that count for a speaker, are as many
\* numbers as there are observations, and none is negative.
LEMMA FillersInAre ==
    ASSUME Seen, NEW Q, NEW speaker
    PROVE  LET N == Len(observed.audio) IN
           /\ FillersIn(Q) \in [1..N -> Int] /\ CountedFor(speaker) \in [1..N -> Int]
           /\ FillersIn(Q) \in Seq(Int) /\ Len(FillersIn(Q)) = N
           /\ CountedFor(speaker) \in Seq(Int) /\ Len(CountedFor(speaker)) = N
           /\ \A i \in 1..N : FillersIn(Q)[i] >= 0
           /\ \A i \in 1..N : CountedFor(speaker)[i] >= 0
  <1> DEFINE audio == observed.audio
             N == Len(audio)
             f == FillersIn(Q)
             g == CountedFor(speaker)
  <1>1. /\ N \in Nat /\ DOMAIN audio = 1..N
        /\ \A i \in 1..N :
              /\ audio[i] \in Observations /\ audio[i].value \in Int
              /\ audio[i].metric = "filler_count" => audio[i].value >= 0
    BY HeardAre
  <1>2. f = [i \in 1..N |-> IF audio[i].metric = "filler_count" /\ audio[i] \in Q
                            THEN audio[i].value ELSE 0]
    BY <1>1 DEF FillersIn
  <1>3. g = [i \in 1..N |-> IF /\ audio[i].metric = "filler_count"
                               /\ Credited(Attributed(audio[i], speech), speaker)
                            THEN audio[i].value ELSE 0]
    BY <1>1 DEF CountedFor
  <1> HIDE DEF f, g, N, audio
  <1>4. f \in [1..N -> Int] /\ \A i \in 1..N : f[i] >= 0
    BY <1>1, <1>2
  <1>5. g \in [1..N -> Int] /\ \A i \in 1..N : g[i] >= 0
    BY <1>1, <1>3
  <1>6. f \in Seq(Int) /\ Len(f) = N /\ g \in Seq(Int) /\ Len(g) = N
    BY <1>1, <1>4, <1>5, FunctionIsSeq
  <1> QED
    BY <1>4, <1>5, <1>6 DEF f, g, N, audio

LEMMA TotalOfZeros ==
    ASSUME NEW n \in Nat, NEW s \in [1..n -> Int], \A i \in 1..n : s[i] = 0
    PROVE  Total(s) = 0
  <1>1. \A i \in 1..n : s[i] = s[i] + s[i]
    OBVIOUS
  <1>2. Total(s) \in Int /\ Total(s) = Total(s) + Total(s)
    BY <1>1, TotalPlus
  <1> QED
    BY <1>2

\* Fillers that were heard while one speaker alone had the floor count for that speaker,
\* who has then spoken.
LEMMA OwnCounts ==
    ASSUME Seen, speech.turns \in Seq(Turns),
           NEW speaker, Known(speaker), Contains(speech.labels, speaker)
    PROVE  LET own == FillersIn({o \in Observations : Alone(o, speaker)}) IN
           /\ Total(own) \in Int /\ Total(CountedFor(speaker)) \in Int
           /\ Total(own) <= Total(CountedFor(speaker))
           /\ Total(own) > 0 => SpeakingTime(CleanTurns(speech.turns, speaker)) > 0
  <1> DEFINE audio == observed.audio
             N == Len(audio)
             Q == {o \in Observations : Alone(o, speaker)}
             f == FillersIn(Q)
             g == CountedFor(speaker)
             c == CleanTurns(speech.turns, speaker)
  <1>1. /\ N \in Nat /\ DOMAIN audio = 1..N
        /\ \A i \in 1..N :
              /\ audio[i] \in Observations /\ audio[i].value \in Int
              /\ audio[i].metric = "filler_count" => audio[i].value >= 0
    BY HeardAre
  <1>2. /\ f \in [1..N -> Int] /\ g \in [1..N -> Int]
        /\ f \in Seq(Int) /\ Len(f) = N /\ g \in Seq(Int) /\ Len(g) = N
        /\ \A i \in 1..N : g[i] >= 0
    <2> HIDE DEF Q
    <2> QED
      BY FillersInAre
  <1>3. \A i \in 1..N : f[i] = IF audio[i].metric = "filler_count" /\ Alone(audio[i], speaker)
                               THEN audio[i].value ELSE 0
    BY <1>1 DEF FillersIn
  <1>4. \A i \in 1..N : g[i] = IF /\ audio[i].metric = "filler_count"
                                  /\ Credited(Attributed(audio[i], speech), speaker)
                               THEN audio[i].value ELSE 0
    BY <1>1 DEF CountedFor
  <1>5. \A i \in 1..N : Alone(audio[i], speaker) =>
                           Credited(Attributed(audio[i], speech), speaker)
    BY <1>1, AloneIsCredited
  <1> HIDE DEF f, g, N, audio
  <1>6. \A i \in 1..N : f[i] <= g[i]
    <2> SUFFICES ASSUME NEW i \in 1..N PROVE f[i] <= g[i]
      OBVIOUS
    <2>1. CASE audio[i].metric = "filler_count" /\ Alone(audio[i], speaker)
      <3>1. f[i] = audio[i].value /\ g[i] = audio[i].value /\ audio[i].value \in Int
        BY <1>1, <1>3, <1>4, <1>5, <2>1
      <3> QED
        BY <3>1
    <2>2. CASE ~(audio[i].metric = "filler_count" /\ Alone(audio[i], speaker))
      <3>1. f[i] = 0 /\ g[i] >= 0
        BY <1>2, <1>3, <2>2
      <3> QED
        BY <3>1
    <2> QED
      BY <2>1, <2>2
  <1>7. Total(f) \in Int /\ Total(g) \in Int /\ Total(f) <= Total(g)
    BY <1>2, <1>6, TotalMonotone
  <1>8. ASSUME Total(f) > 0 PROVE SpeakingTime(c) > 0
    <2>1. PICK i \in 1..N : f[i] # 0
      <3>1. ASSUME \A i \in 1..N : f[i] = 0 PROVE FALSE
        <4>1. Total(f) = 0
          BY <1>1, <1>2, <3>1, TotalOfZeros
        <4> QED
          BY <1>8, <4>1
      <3> QED
        BY <3>1
    <2>2. Credited(Attributed(audio[i], speech), speaker)
      BY <1>3, <1>5, <2>1
    <2>3. PICK j \in DOMAIN c : TRUE
      BY <2>2 DEF Credited
    <2>4. c # <<>>
      BY <2>3
    <2>5. c \in Seq(Forward) /\ \A k \in 1..Len(c) : Long(c[k])
      BY CleanTurnsAreClean DEF IsClean
    <2> HIDE DEF c
    <2> QED
      BY <2>4, <2>5, SpeakingTimeIs
  <1> QED
    BY <1>7, <1>8 DEF f, g

CountsOf(m) == [j \in DOMAIN m |-> Total(CountedFor(m[j]))]

\* What counts for different speakers is never more than what was heard.
LEMMA CountsAddUp ==
    ASSUME Seen, NEW n \in Nat, NEW S, NEW m \in [1..n -> S],
           \A j, k \in 1..n : m[j] = m[k] => j = k
    PROVE  Total(CountsOf(m)) <= Total(FillersIn(Observations))
  <1> DEFINE audio == observed.audio
             N == Len(audio)
             label == [i \in 1..N |-> Attributed(audio[i], speech).label]
             v == [i \in 1..N |->
                     IF /\ audio[i].metric = "filler_count"
                        /\ Credited(Attributed(audio[i], speech), label[i])
                     THEN audio[i].value ELSE 0]
             at == [i \in 1..N |-> IF \E j \in 1..n : m[j] = label[i]
                                   THEN CHOOSE j \in 1..n : m[j] = label[i] ELSE 0]
             b == InBlocks(v, at, n)
             f == FillersIn(Observations)
  <1>1. /\ N \in Nat /\ DOMAIN audio = 1..N
        /\ \A i \in 1..N :
              /\ audio[i] \in Observations /\ audio[i].value \in Int
              /\ audio[i].metric = "filler_count" => audio[i].value >= 0
    BY HeardAre
  <1>2. \A i \in 1..N : v[i] \in Int /\ v[i] >= 0 /\ at[i] \in Int
    <2>1. \A i \in 1..N : v[i] \in Int /\ v[i] >= 0
      BY <1>1
    <2>2. \A i \in 1..N : at[i] \in Int
      <3> HIDE DEF label
      <3> QED
        OBVIOUS
    <2> QED
      BY <2>1, <2>2
  <1>3. v \in [1..N -> Int] /\ at \in [1..N -> Int]
    BY <1>2
  <1>4. \A i \in 1..N, j \in 1..n : at[i] = j <=> m[j] = label[i]
    <2> HIDE DEF label
    <2> SUFFICES ASSUME NEW i \in 1..N, NEW j \in 1..n PROVE at[i] = j <=> m[j] = label[i]
      OBVIOUS
    <2>1. CASE \E k \in 1..n : m[k] = label[i]
      <3>1. at[i] \in 1..n /\ m[at[i]] = label[i]
        BY <2>1
      <3> HIDE DEF at
      <3> QED
        BY <3>1
    <2>2. CASE ~ \E k \in 1..n : m[k] = label[i]
      <3>1. at[i] = 0
        BY <2>2
      <3> HIDE DEF at
      <3> QED
        BY <2>2, <3>1
    <2> QED
      BY <2>1, <2>2
  <1>5. \A j \in 1..n : CountedFor(m[j]) = InBlock(v, at, j)
    <2> SUFFICES ASSUME NEW j \in 1..n PROVE CountedFor(m[j]) = InBlock(v, at, j)
      OBVIOUS
    <2>1. CountedFor(m[j]) = [i \in 1..N |->
             IF /\ audio[i].metric = "filler_count"
                /\ Credited(Attributed(audio[i], speech), m[j])
             THEN audio[i].value ELSE 0]
      BY <1>1 DEF CountedFor
    <2>2. InBlock(v, at, j) = [i \in 1..N |-> IF at[i] = j THEN v[i] ELSE 0]
      BY DEF InBlock
    <2>3. ASSUME NEW i \in 1..N
          PROVE  (IF /\ audio[i].metric = "filler_count"
                     /\ Credited(Attributed(audio[i], speech), m[j])
                  THEN audio[i].value ELSE 0)
                    = (IF at[i] = j THEN v[i] ELSE 0)
      <3>1. at[i] = j <=> m[j] = label[i]
        BY <1>4
      <3>2. v[i] = IF /\ audio[i].metric = "filler_count"
                      /\ Credited(Attributed(audio[i], speech), label[i])
                   THEN audio[i].value ELSE 0
        OBVIOUS
      <3>3. label[i] = Attributed(audio[i], speech).label
        OBVIOUS
      <3>4. Credited(Attributed(audio[i], speech), m[j]) => m[j] = label[i]
        BY <3>3 DEF Credited
      <3> HIDE DEF at, v, label
      <3> QED
        BY <3>1, <3>2, <3>4
    <2> HIDE DEF at, v
    <2> QED
      BY <2>1, <2>2, <2>3
  <1> HIDE DEF v, at, N, audio, f
  <1>6. Total(CountsOf(m)) = Total(b)
    <2>1. CountsOf(m) = BlockSums(v, at, n)
      BY <1>5 DEF BlockSums, CountsOf
    <2>2. Total(BlockSums(v, at, n)) = Total(b)
      BY <1>1, <1>3, BlocksTotal
    <2> QED
      BY <2>1, <2>2
  <1>7. /\ f \in [1..N -> Int] /\ f \in Seq(Int) /\ Len(f) = N
        /\ \A i \in 1..N : f[i] = IF audio[i].metric = "filler_count"
                                  THEN audio[i].value ELSE 0
    <2>1. f \in [1..N -> Int] /\ f \in Seq(Int) /\ Len(f) = N
      BY FillersInAre DEF f, N, audio
    <2>2. f = [i \in DOMAIN audio |-> IF audio[i].metric = "filler_count"
                                         /\ audio[i] \in Observations
                                      THEN audio[i].value ELSE 0]
      BY DEF f, FillersIn, audio
    <2> QED
      BY <1>1, <2>1, <2>2
  <1>8. \A i \in 1..N : b[i] = (IF at[i] \in 1..n THEN v[i] ELSE 0)
                        /\ b[i] \in Int /\ b[i] <= f[i]
    <2> SUFFICES ASSUME NEW i \in 1..N
                 PROVE  b[i] = (IF at[i] \in 1..n THEN v[i] ELSE 0)
                        /\ b[i] \in Int /\ b[i] <= f[i]
      OBVIOUS
    <2>1. b[i] = IF at[i] \in 1..n THEN v[i] ELSE 0
      BY <1>3 DEF InBlocks
    <2>2. v[i] \in Int /\ v[i] >= 0 /\ v[i] <= f[i] /\ f[i] >= 0
      BY <1>1, <1>2, <1>7 DEF v
    <2> HIDE DEF b
    <2> QED
      BY <1>7, <2>1, <2>2
  <1>9. b \in Seq(Int) /\ Len(b) = N
    <2>1. b = [i \in 1..N |-> IF at[i] \in 1..n THEN v[i] ELSE 0]
      BY <1>3 DEF InBlocks
    <2>2. b \in [1..N -> Int]
      BY <1>2, <2>1
    <2> HIDE DEF b
    <2> QED
      BY <1>1, <2>2, FunctionIsSeq
  <1> HIDE DEF b
  <1>10. Total(b) <= Total(f)
    BY <1>7, <1>8, <1>9, TotalMonotone
  <1> QED
    BY <1>6, <1>10 DEF f

LEMMA ProfilesAre ==
    ASSUME NEW combined
    PROVE  LET p == Profiles(speech, combined) IN
           /\ DOMAIN p \subseteq Participants(speech)
           /\ \A s \in DOMAIN p : p[s] = ProfileOf(s, speech, combined)
           /\ \A s \in Participants(speech) :
                 SpeakingTime(CleanTurns(speech.turns, s)) > 0 => s \in DOMAIN p
  <1> DEFINE all == [s \in Participants(speech) |-> ProfileOf(s, speech, combined)]
             D == {s \in DOMAIN all : all[s].time > 0 \/ all[s].windows # <<>>}
             p == Profiles(speech, combined)
  <1>1. p = [s \in D |-> all[s]]
    BY DEF Profiles
  <1>2. D \subseteq Participants(speech)
    OBVIOUS
  <1>3. \A s \in Participants(speech) : all[s] = ProfileOf(s, speech, combined)
    OBVIOUS
  <1>4. \A s \in Participants(speech) :
           SpeakingTime(CleanTurns(speech.turns, s)) > 0 => s \in D
    BY DEF ProfileOf
  <1> HIDE DEF all, D
  <1>5. DOMAIN p = D /\ \A s \in D : p[s] = all[s]
    BY <1>1
  <1> HIDE DEF p
  <1> QED
    BY <1>2, <1>3, <1>4, <1>5 DEF p

LEMMA KnownSpeaker ==
    ASSUME IsSeq(speech.labels), NEW s \in ToSet(KnownOnly(speech.labels))
    PROVE  Known(s) /\ Contains(speech.labels, s) /\ s \in Participants(speech)
  <1> DEFINE labels == speech.labels
             I == {n \in DOMAIN labels : Known(labels[n])}
             c == Chosen(labels, I)
  <1>1. labels \in Seq(Members(labels)) /\ DOMAIN labels = 1..Len(labels)
    BY SeqIs
  <1>2. s \in ToSet(c)
    BY DEF KnownOnly, Filtered
  <1>3. c \in Seq(Members(labels)) /\ \E h : Picks(h, c, labels, I, Len(labels))
    <2> HIDE DEF I
    <2> QED
      BY <1>1, ChosenPicks
  <1>4. PICK h : Picks(h, c, labels, I, Len(labels))
    BY <1>3
  <1> HIDE DEF c
  <1>5. PICK i \in 1..Len(c) : s = c[i]
    BY <1>2, <1>3, LenProperties DEF ToSet
  <1>6. h[i] \in 1..Len(labels) /\ h[i] \in I /\ c[i] = labels[h[i]]
    BY <1>4 DEF Picks
  <1>7. Known(s) /\ Contains(labels, s)
    BY <1>5, <1>6 DEF Contains
  <1>8. s \in ToSet(labels)
    BY <1>1, <1>5, <1>6 DEF ToSet
  <1> QED
    BY <1>7, <1>8 DEF Participants

LEMMA FillersCount ==
    ASSUME AnalysisInv, ReportInv
    PROVE  FillersAddUp
  <1> SUFFICES ASSUME stage = "loading" PROVE FillersAddUp
    BY DEF FillersAddUp
  <1> DEFINE heard == Filtered(observed.audio, LAMBDA o : o.metric = "filler_count")
             combined == Combined(speech, observed.visual, observed.audio)
             Lone(o, s) ==
                /\ o.label \in {"", s}
                /\ \E i \in DOMAIN speech.turns :
                      /\ speech.turns[i].speaker = s
                      /\ speech.turns[i].end - speech.turns[i].start >= ShortestTurn
                      /\ Overlap(o, speech.turns[i]) > 0
                /\ \A i \in DOMAIN speech.turns :
                      Overlap(o, speech.turns[i]) > 0 => speech.turns[i].speaker = s
             OwnSum(s) == SumOf(heard, LAMBDA o : Lone(o, s), LAMBDA o : o.value)
             Counted(s) == IF "filler_count" \in DOMAIN profiles[s].summary
                           THEN profiles[s].summary["filler_count"] ELSE 0
             all == SumOf(heard, LAMBDA o : TRUE, LAMBDA o : o.value)
  <1>1. /\ Heard /\ Seen
        /\ speech.turns \in Seq(Turns) /\ IsSeq(speech.labels) /\ speech.duration \in Nat
        /\ observed.audio \in Seq(Observations)
        /\ profiles = Profiles(speech, combined)
    BY DurationsAssumption DEF AnalysisInv, ReportInv, Heard, Seen
  <1>2. /\ DOMAIN profiles \subseteq Participants(speech)
        /\ \A s \in DOMAIN profiles : profiles[s] = ProfileOf(s, speech, combined)
        /\ \A s \in Participants(speech) :
              SpeakingTime(CleanTurns(speech.turns, s)) > 0 => s \in DOMAIN profiles
    <2> HIDE DEF combined
    <2> QED
      BY <1>1, ProfilesAre
  <1>3. \A s \in DOMAIN profiles : Counted(s) = Total(CountedFor(s))
    <2> SUFFICES ASSUME NEW s \in DOMAIN profiles PROVE Counted(s) = Total(CountedFor(s))
      OBVIOUS
    <2>1. CountOf(profiles[s]) = Total(CountedFor(s))
      BY <1>1, <1>2, ProfileCounts
    <2> QED
      BY <2>1 DEF CountOf
  <1>4. heard = Heards
    BY DEF Filtered, Heards
  <1>5. ASSUME NEW s
        PROVE  OwnSum(s) = Total(FillersIn({o \in Observations : Alone(o, s)}))
    <2> DEFINE Q == {o \in Observations : Alone(o, s)}
               c == Chosen(heard, {n \in DOMAIN heard : Lone(heard[n], s)})
               e == Chosen(Heards, {n \in DOMAIN Heards : Heards[n] \in Q})
    <2>1. OwnSum(s) = Total([i \in DOMAIN c |-> c[i].value])
      BY DEF SumOf, Filtered
    <2>2. /\ \A n \in DOMAIN Heards : Heards[n] \in Observations
          /\ Total([i \in DOMAIN e |-> e[i].value]) = Total(FillersIn(Q))
      <3> HIDE DEF Q
      <3> QED
        BY <1>1, HeardTotal
    <2>3. c = e
      <3>1. {n \in DOMAIN heard : Lone(heard[n], s)} = {n \in DOMAIN Heards : Heards[n] \in Q}
        <4> HIDE DEF heard
        <4> QED
          BY <1>4, <2>2 DEF Alone
      <3> HIDE DEF heard, Lone
      <3> QED
        BY <1>4, <3>1
    <2> HIDE DEF c, e, OwnSum, Q
    <2> QED
      BY <2>1, <2>2, <2>3 DEF Q
  <1>6. all = Total(FillersIn(Observations))
    <2> DEFINE c == Chosen(heard, {n \in DOMAIN heard : TRUE})
               e == Chosen(Heards, {n \in DOMAIN Heards : Heards[n] \in Observations})
    <2>1. all = Total([i \in DOMAIN c |-> c[i].value])
      BY DEF SumOf, Filtered
    <2>2. /\ \A n \in DOMAIN Heards : Heards[n] \in Observations
          /\ Total([i \in DOMAIN e |-> e[i].value]) = Total(FillersIn(Observations))
      BY <1>1, HeardTotal
    <2>3. c = e
      <3>1. {n \in DOMAIN heard : TRUE} = {n \in DOMAIN Heards : Heards[n] \in Observations}
        <4> HIDE DEF heard
        <4> QED
          BY <1>4, <2>2
      <3> HIDE DEF heard
      <3> QED
        BY <1>4, <3>1
    <2> HIDE DEF c, e, all
    <2> QED
      BY <2>1, <2>2, <2>3
  <1>7. ASSUME NEW s \in ToSet(KnownOnly(speech.labels)), OwnSum(s) > 0
        PROVE  s \in DOMAIN profiles /\ Counted(s) >= OwnSum(s)
    <2>1. Known(s) /\ Contains(speech.labels, s) /\ s \in Participants(speech)
      BY <1>1, KnownSpeaker
    <2> DEFINE own == Total(FillersIn({o \in Observations : Alone(o, s)}))
               counted == Total(CountedFor(s))
    <2>2. /\ own \in Int /\ counted \in Int /\ own <= counted
          /\ own > 0 => SpeakingTime(CleanTurns(speech.turns, s)) > 0
      BY <1>1, <2>1, OwnCounts
    <2>3. OwnSum(s) = own
      BY <1>5
    <2> HIDE DEF own, OwnSum, Counted
    <2>4. s \in DOMAIN profiles
      BY <1>2, <1>7, <2>1, <2>2, <2>3
    <2>5. Counted(s) = counted
      BY <1>3, <2>4
    <2> HIDE DEF counted
    <2> QED
      BY <2>2, <2>3, <2>4, <2>5
  <1>8. SumOver(DOMAIN profiles, Counted) <= all
    <2> DEFINE S == DOMAIN profiles
               n == Cardinality(S)
               m == SetToSeq(S)
    <2>1. IsFiniteSet(S)
      <3>1. IsFiniteSet(DOMAIN Profiles(speech, combined))
        <4> HIDE DEF combined
        <4> QED
          BY <1>1, FewProfiles
      <3> QED
        BY <1>1, <3>1
    <2>2. SumOver(S, Counted) = Total([j \in DOMAIN m |-> Counted(m[j])])
      BY DEF SumOver
    <2> HIDE DEF S
    <2>3. n \in Nat /\ m \in [1..n -> S] /\ \A j, k \in 1..n : m[j] = m[k] => j = k
      BY <2>1, SetToSeqIs
    <2> HIDE DEF n, m
    <2>4. [j \in DOMAIN m |-> Counted(m[j])] = CountsOf(m)
      <3>1. DOMAIN m = 1..n /\ \A j \in 1..n : m[j] \in DOMAIN profiles
        BY <2>3 DEF S
      <3> HIDE DEF Counted
      <3> QED
        BY <1>3, <3>1 DEF CountsOf
    <2>5. Total(CountsOf(m)) <= Total(FillersIn(Observations))
      BY <1>1, <2>3, CountsAddUp
    <2> HIDE DEF all, Counted
    <2>6. SumOver(S, Counted) <= all
      BY <1>6, <2>2, <2>4, <2>5
    <2> QED
      BY <2>6 DEF S
  <1>9. \A s \in ToSet(KnownOnly(speech.labels)) :
           OwnSum(s) > 0 => s \in DOMAIN profiles /\ Counted(s) >= OwnSum(s)
    <2> HIDE DEF OwnSum, Counted
    <2> QED
      BY <1>7
  <1> QED
    BY <1>8, <1>9 DEF FillersAddUp

\* Fillers that were heard while one speaker alone had the floor, for a turn that is long
\* enough, count for that speaker, and no filler counts twice (combine_timed_evidence,
\* filter_active_speaker_observations, aggregate_speaker_observations).
THEOREM FillersKeepAddingUp == Spec => []FillersAddUp
  <1>1. AnalysisInv /\ ReportInv => FillersAddUp
    BY FillersCount
  <1> QED
    BY <1>1, AnalysisHolds, ReportHolds, PTL
=============================================================================
