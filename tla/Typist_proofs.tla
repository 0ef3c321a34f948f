---------------------------- MODULE Typist_proofs ----------------------------
(***************************************************************************)
(* What Typist guarantees for every layout, sweep, length of text and of   *)
(* the queue: the phone hears what was asked for, in order and once.       *)
(*                                                                         *)
(* What a fold makes of a text of any length needs an induction.  The      *)
(* library's induction theorems quantify over operators; here the property *)
(* is a set of numbers instead, and its least element comes from the       *)
(* well-foundedness of strict inclusion on finite sets.                    *)
(***************************************************************************)
EXTENDS Typist, FiniteSetTheorems, SequenceTheorems, TLAPS

-----------------------------------------------------------------------------
(***************************************************************************)
(* Induction on the natural numbers, with the property a set.              *)
(***************************************************************************)
LEMMA LeastNumber ==
  ASSUME NEW B \in SUBSET Nat, B # {}
  PROVE  \E n \in B : \A m \in B : n <= m
<1> DEFINE T == {1..n : n \in B}
           R == StrictSubsetOrdering(Nat)
<1>1. T \subseteq FiniteSubsetsOf(Nat) /\ T # {}
  <2>1. \A n \in B : IsFiniteSet(1..n) /\ 1..n \in SUBSET Nat
    BY FS_Interval
  <2> QED BY <2>1 DEF FiniteSubsetsOf
<1>2. IsWellFoundedOn(R, FiniteSubsetsOf(Nat))
  BY FS_StrictSubsetOrderingWellFounded
<1> HIDE DEF T, R
<1>3. PICK x \in T : \A y \in T : ~(<<y, x>> \in R)
  BY <1>1, <1>2, WFMin
<1>4. PICK n \in B : x = 1..n
  BY DEF T
<1>5. ASSUME NEW m \in B, ~(n <= m)
      PROVE  FALSE
  <2>1. 1..m \in T
    BY DEF T
  <2>2. 1..m \subseteq 1..n /\ n \in 1..n /\ n \notin 1..m
    BY <1>5
  <2>3. <<1..m, 1..n>> \in R
    BY <2>2 DEF R, StrictSubsetOrdering
  <2> QED BY <1>3, <1>4, <2>1, <2>3
<1> QED BY <1>5

LEMMA UpTo ==
  ASSUME NEW N \in Nat, NEW B,
         0 \in B, \A n \in 1..N : n - 1 \in B => n \in B
  PROVE  \A n \in 0..N : n \in B
<1> DEFINE Bad == {n \in 0..N : n \notin B}
<1>1. ASSUME Bad # {}
      PROVE  FALSE
  <2>1. PICK n \in Bad : \A m \in Bad : n <= m
    <3>1. Bad \in SUBSET Nat
      OBVIOUS
    <3> HIDE DEF Bad
    <3> QED BY <1>1, <3>1, LeastNumber
  <2>2. n \in 1..N
    OBVIOUS
  <2>3. n - 1 \in 0..N /\ n - 1 \notin Bad
    BY <2>1, <2>2
  <2> QED BY <2>2, <2>3
<1> QED BY <1>1

-----------------------------------------------------------------------------
(***************************************************************************)
(* Folds.  FoldLeft takes the greatest of the indices left at each turn:   *)
(* what it has made of the first i elements is a function of i.            *)
(***************************************************************************)
LEMMA GreatestOf ==
  ASSUME NEW n \in Nat \ {0}, NEW s \in SUBSET (1..n), n \in s
  PROVE  Max(s) = n
<1>1. \A y \in s : n >= y
  OBVIOUS
<1>2. \A x \in s : (\A y \in s : x >= y) => x = n
  OBVIOUS
<1> QED BY <1>1, <1>2 DEF Max

\* That g is the fold of F over the numbers to N, for each set of them.
Folding(g, X, base, N, F) ==
  /\ g \in [SUBSET (1..N) -> X]
  /\ g = [s \in SUBSET (1..N) |->
            IF s = {} THEN base ELSE F[<<g[s \ {Max(s)}], Max(s)>>]]

\* A fold of a step that stays within X is defined, for any number of steps.
LEMMA FoldExists ==
  ASSUME NEW X, NEW base \in X, NEW N \in Nat, NEW F \in [X \X (1..N) -> X]
  PROVE  \E g : Folding(g, X, base, N, F)
<1> DEFINE Folds(n, g) ==
             /\ g \in [SUBSET (1..n) -> X]
             /\ g = [s \in SUBSET (1..n) |->
                       IF s = {} THEN base ELSE F[<<g[s \ {Max(s)}], Max(s)>>]]
           B == {n \in 0..N : \E g : Folds(n, g)}
<1>1. 0 \in B
  <2>1. Folds(0, [s \in SUBSET (1..0) |-> base])
    BY SMT
  <2> QED BY <2>1
<1>2. ASSUME NEW n \in 1..N, n - 1 \in B
      PROVE  n \in B
  <2>1. PICK g : Folds(n - 1, g)
    BY <1>2
  <2> DEFINE h == [s \in SUBSET (1..n) |->
                  IF n \in s THEN F[<<g[s \ {n}], n>>] ELSE g[s]]
  <2>2. \A s \in SUBSET (1..n) : n \in s => Max(s) = n /\ s \ {n} \in SUBSET (1..n - 1)
    BY GreatestOf
  <2>3. \A s \in SUBSET (1..n) : n \notin s => s \in SUBSET (1..n - 1)
    OBVIOUS
  <2>4. h \in [SUBSET (1..n) -> X]
    <3>1. ASSUME NEW s \in SUBSET (1..n) PROVE h[s] \in X
      <4>1. CASE n \in s
        <5>1. g[s \ {n}] \in X /\ n \in 1..N
          BY <2>1, <2>2, <4>1
        <5>2. h[s] = F[<<g[s \ {n}], n>>]
          BY <4>1
        <5> QED BY <5>1, <5>2
      <4>2. CASE n \notin s
        BY <2>1, <2>3, <4>2
      <4> QED BY <4>1, <4>2
    <3> QED BY <3>1
  <2>5. ASSUME NEW s \in SUBSET (1..n)
        PROVE  h[s] = IF s = {} THEN base ELSE F[<<h[s \ {Max(s)}], Max(s)>>]
    <3>1. CASE n \in s
      <4>1. Max(s) = n /\ s \ {n} \in SUBSET (1..n) /\ n \notin s \ {n}
        BY <2>2, <3>1
      <4>2. h[s \ {n}] = g[s \ {n}]
        BY <4>1
      <4> QED BY <3>1, <4>1, <4>2
    <3>2. CASE n \notin s
      <4>1. s \in SUBSET (1..n - 1)
        BY <2>3, <3>2
      <4>2. h[s] = g[s]
        BY <3>2
      <4>3. g[s] = IF s = {} THEN base ELSE F[<<g[s \ {Max(s)}], Max(s)>>]
        BY <2>1, <4>1
      <4>4. s \ {Max(s)} \in SUBSET (1..n) /\ n \notin s \ {Max(s)}
        BY <3>2
      <4>5. h[s \ {Max(s)}] = g[s \ {Max(s)}]
        BY <4>4
      <4> QED BY <4>2, <4>3, <4>5
    <3> QED BY <3>1, <3>2
  <2>6. Folds(n, h)
    <3> HIDE DEF h
    <3>1. h = [s \in SUBSET (1..n) |-> h[s]]
      BY <2>4
    <3> QED BY <2>4, <2>5, <3>1
  <2> HIDE DEF h, Folds
  <2> QED BY <2>6
<1> HIDE DEF B
<1>3. N \in B
  BY <1>1, <1>2, UpTo
<1> QED BY <1>3 DEF B, Folding

LEMMA GreatestIn ==
  ASSUME NEW N \in Nat, NEW s \in SUBSET (1..N), s # {}
  PROVE  Max(s) \in s
<1> DEFINE B == {n \in Nat : \A y \in s : n >= y}
<1>1. N \in B /\ B \in SUBSET Nat
  OBVIOUS
<1> HIDE DEF B
<1>2. PICK n \in B : \A m \in B : n <= m
  BY <1>1, LeastNumber
<1>3. n \in Nat /\ \A y \in s : n >= y
  BY DEF B
<1>4. n \in s
  <2>1. n # 0
    <3>1. PICK y \in s : y \in 1..N
      OBVIOUS
    <3> QED BY <1>3, <3>1
  <2>2. ASSUME n \notin s PROVE n - 1 \in B
    <3>1. n - 1 \in Nat
      BY <1>3, <2>1
    <3>2. \A y \in s : n - 1 >= y
      BY <1>3, <2>2
    <3> QED BY <3>1, <3>2 DEF B
  <2> QED BY <1>2, <1>3, <2>2
<1> QED BY <1>3, <1>4 DEF Max

\* The indices of the first i elements.
LEMMA FirstOnes ==
  ASSUME NEW N \in Nat, NEW i \in 1..N
  PROVE  /\ 1..i \in SUBSET (1..N) /\ 1..i # {}
         /\ Max(1..i) = i
         /\ (1..i) \ {i} = 1..i - 1
<1>1. 1..i \in SUBSET (1..i) /\ i \in 1..i /\ i \in Nat \ {0}
  OBVIOUS
<1>2. Max(1..i) = i
  BY <1>1, GreatestOf
<1>3. (1..i) \ {i} = 1..i - 1
  OBVIOUS
<1> QED BY <1>1, <1>2, <1>3

-----------------------------------------------------------------------------
(***************************************************************************)
(* Reports: a press names one key, a gap none.                             *)
(***************************************************************************)
PressOf(s) == Report(s.mods, {s.key})

Modifiers == UNION {s.mods : s \in Stroke}

Reports == [mods : SUBSET Modifiers,
            keys : {{}} \cup {{s.key} : s \in Stroke}]

LEMMA ReportTypes ==
  /\ \A s \in Stroke : PressOf(s) \in Reports
  /\ \A m \in SUBSET Modifiers : Report(m, {}) \in Reports
  /\ Released \in Reports
BY DEF PressOf, Modifiers, Reports, Report, Released

LEMMA TwoReports ==
  ASSUME NEW a \in Reports, NEW b \in Reports
  PROVE  /\ <<a, b>> \in Seq(Reports) /\ Len(<<a, b>>) = 2
         /\ <<a, b>>[1] = a /\ <<a, b>>[2] = b
OBVIOUS

Gap(q, s) == Report(Last(q).mods \cap s.mods, {})

\* _stroke adds a press, and before it a gap where one is needed.
LEMMA StrokeAdds ==
  ASSUME NEW q \in Seq(Reports), NEW s \in Stroke
  PROVE  /\ PressOf(s) \in Reports
         /\ \/ /\ q # <<>> /\ Gap(q, s) \in Reports
               /\ QueueStroke(q, s) = q \o <<Gap(q, s), PressOf(s)>>
            \/ /\ q = <<>> \/ (Last(q).keys # {s.key} /\ Last(q).mods = s.mods)
               /\ QueueStroke(q, s) = Append(q, PressOf(s))
         /\ QueueStroke(q, s) \in Seq(Reports)
<1>1. PressOf(s) \in Reports
  BY ReportTypes
<1>2. CASE q # <<>> /\ (Last(q).keys = {s.key} \/ Last(q).mods # s.mods)
  <2>1. Gap(q, s) \in Reports
    <3>1. Last(q).mods \cap s.mods \in SUBSET Modifiers
      BY DEF Modifiers
    <3> QED BY <3>1, ReportTypes DEF Gap
  <2>2. QueueStroke(q, s) = q \o <<Gap(q, s), PressOf(s)>>
    BY <1>2 DEF QueueStroke, Gap, PressOf
  <2> QED BY <1>1, <1>2, <2>1, <2>2, TwoReports, ConcatProperties
<1>3. CASE ~(q # <<>> /\ (Last(q).keys = {s.key} \/ Last(q).mods # s.mods))
  <2>1. QueueStroke(q, s) = Append(q, PressOf(s))
    BY <1>3 DEF QueueStroke, PressOf
  <2>2. Append(q, PressOf(s)) \in Seq(Reports)
    BY <1>1, AppendProperties
  <2>3. q = <<>> \/ (Last(q).keys # {s.key} /\ Last(q).mods = s.mods)
    BY <1>3
  <2> QED BY <1>1, <2>1, <2>2, <2>3
<1> QED BY <1>2, <1>3

-----------------------------------------------------------------------------
(***************************************************************************)
(* The three folds, step by step.                                          *)
(***************************************************************************)
LEMMA QueueAllSteps ==
  ASSUME NEW q \in Seq(Reports), NEW ss \in Seq(Stroke)
  PROVE  \E f \in [0..Len(ss) -> Seq(Reports)] :
           /\ f[0] = q
           /\ \A i \in 1..Len(ss) : f[i] = QueueStroke(f[i - 1], ss[i])
           /\ QueueAll(q, ss) = f[Len(ss)]
<1> DEFINE N == Len(ss)
           F == [p \in Seq(Reports) \X (1..N) |-> QueueStroke(p[1], ss[p[2]])]
           Folds(g) == g = [s \in SUBSET (1..N) |->
                              IF s = {} THEN q
                              ELSE QueueStroke(g[s \ {Max(s)}], ss[Max(s)])]
           it == CHOOSE g : Folds(g)
           f == [i \in 0..N |-> it[1..i]]
<1>1. N \in Nat /\ DOMAIN ss = 1..N /\ \A i \in 1..N : ss[i] \in Stroke
  BY LenProperties, ElementOfSeq
<1>2. QueueAll(q, ss) = it[1..N]
  BY <1>1 DEF QueueAll, FoldLeft, MapThenFoldSet
<1>3. \E g : Folds(g)
  <2>1. F \in [Seq(Reports) \X (1..N) -> Seq(Reports)]
    BY <1>1, StrokeAdds
  <2> HIDE DEF F, N
  <2>2. PICK g : Folding(g, Seq(Reports), q, N, F)
    BY <1>1, <2>1, FoldExists
  <2>3. ASSUME NEW s \in SUBSET (1..N), s # {}
        PROVE  F[<<g[s \ {Max(s)}], Max(s)>>]
                 = QueueStroke(g[s \ {Max(s)}], ss[Max(s)])
    <3>1. Max(s) \in 1..N
      BY <1>1, <2>3, GreatestIn
    <3>2. g[s \ {Max(s)}] \in Seq(Reports)
      BY <2>2 DEF Folding
    <3> QED BY <3>1, <3>2 DEF F
  <2>4. Folds(g)
    BY <2>2, <2>3 DEF Folding
  <2> HIDE DEF Folds
  <2> QED BY <2>4
<1>4. Folds(it)
  <2> HIDE DEF Folds
  <2> QED BY <1>3
<1>5. it[{}] = q
  BY <1>4
<1>6. ASSUME NEW i \in 1..N
      PROVE  it[1..i] = QueueStroke(it[1..i - 1], ss[i])
  <2>1. /\ 1..i \in SUBSET (1..N) /\ 1..i # {}
        /\ Max(1..i) = i
        /\ (1..i) \ {i} = 1..i - 1
    BY <1>1, FirstOnes
  <2> HIDE DEF it, N
  <2> QED BY <1>4, <2>1
<1> HIDE DEF it, F
<1>7. f[0] = q
  BY <1>1, <1>5
<1>8. \A i \in 1..N : f[i] = QueueStroke(f[i - 1], ss[i])
  BY <1>1, <1>6
<1>9. f \in [0..N -> Seq(Reports)]
  <2> DEFINE B == {i \in 0..N : f[i] \in Seq(Reports)}
  <2>1. 0 \in B
    BY <1>1, <1>7
  <2>2. \A n \in 1..N : n - 1 \in B => n \in B
    BY <1>1, <1>8, StrokeAdds
  <2> HIDE DEF B
  <2>3. \A n \in 0..N : n \in B
    BY <1>1, <2>1, <2>2, UpTo
  <2> QED BY <2>3 DEF B
<1>10. QueueAll(q, ss) = f[N]
  BY <1>1, <1>2
<1> HIDE DEF f
<1> QED BY <1>7, <1>8, <1>9, <1>10

\* A stroke, and a release of its own.
PlainStroke(q, s) == q \o <<PressOf(s), Released>>

LEMMA PlainAdds ==
  ASSUME NEW q \in Seq(Reports), NEW s \in Stroke
  PROVE  PlainStroke(q, s) \in Seq(Reports)
BY ReportTypes, TwoReports, ConcatProperties DEF PlainStroke

LEMMA PlainlySteps ==
  ASSUME NEW ss \in Seq(Stroke)
  PROVE  \E f \in [0..Len(ss) -> Seq(Reports)] :
           /\ f[0] = <<>>
           /\ \A i \in 1..Len(ss) : f[i] = PlainStroke(f[i - 1], ss[i])
           /\ Plainly(ss) = f[Len(ss)]
<1> DEFINE N == Len(ss)
           F == [p \in Seq(Reports) \X (1..N) |-> PlainStroke(p[1], ss[p[2]])]
           Folds(g) == g = [s \in SUBSET (1..N) |->
                              IF s = {} THEN <<>>
                              ELSE PlainStroke(g[s \ {Max(s)}], ss[Max(s)])]
           it == CHOOSE g : Folds(g)
           f == [i \in 0..N |-> it[1..i]]
<1>1. N \in Nat /\ DOMAIN ss = 1..N /\ \A i \in 1..N : ss[i] \in Stroke
  BY LenProperties, ElementOfSeq
<1>2. Plainly(ss) = it[1..N]
  BY <1>1 DEF Plainly, PlainStroke, PressOf, FoldLeft, MapThenFoldSet
<1>3. \E g : Folds(g)
  <2>1. F \in [Seq(Reports) \X (1..N) -> Seq(Reports)]
    BY <1>1, PlainAdds
  <2> HIDE DEF F, N
  <2>2. PICK g : Folding(g, Seq(Reports), <<>>, N, F)
    BY <1>1, <2>1, EmptySeq, FoldExists
  <2>3. ASSUME NEW s \in SUBSET (1..N), s # {}
        PROVE  F[<<g[s \ {Max(s)}], Max(s)>>]
                 = PlainStroke(g[s \ {Max(s)}], ss[Max(s)])
    <3>1. Max(s) \in 1..N
      BY <1>1, <2>3, GreatestIn
    <3>2. g[s \ {Max(s)}] \in Seq(Reports)
      BY <2>2 DEF Folding
    <3> QED BY <3>1, <3>2 DEF F
  <2>4. Folds(g)
    BY <2>2, <2>3 DEF Folding
  <2> HIDE DEF Folds
  <2> QED BY <2>4
<1>4. Folds(it)
  <2> HIDE DEF Folds
  <2> QED BY <1>3
<1>5. it[{}] = <<>>
  BY <1>4
<1>6. ASSUME NEW i \in 1..N
      PROVE  it[1..i] = PlainStroke(it[1..i - 1], ss[i])
  <2>1. /\ 1..i \in SUBSET (1..N) /\ 1..i # {}
        /\ Max(1..i) = i
        /\ (1..i) \ {i} = 1..i - 1
    BY <1>1, FirstOnes
  <2> HIDE DEF it, N
  <2> QED BY <1>4, <2>1
<1> HIDE DEF it, F
<1>7. f[0] = <<>>
  BY <1>1, <1>5
<1>8. \A i \in 1..N : f[i] = PlainStroke(f[i - 1], ss[i])
  BY <1>1, <1>6
<1>9. Plainly(ss) = f[N]
  BY <1>1, <1>2
<1>10. f = [i \in 0..N |-> f[i]]
  OBVIOUS
<1> HIDE DEF f
<1>11. f \in [0..N -> Seq(Reports)]
  <2> DEFINE B == {i \in 0..N : f[i] \in Seq(Reports)}
  <2> HIDE DEF N
  <2>1. 0 \in B
    <3>1. <<>> \in Seq(Reports)
      BY EmptySeq
    <3>2. f[0] \in Seq(Reports)
      BY <1>7, <3>1, Zenon
    <3> QED BY <1>1, <3>2
  <2>2. ASSUME NEW n \in 1..N, n - 1 \in B
        PROVE  n \in B
    <3>1. f[n - 1] \in Seq(Reports)
      BY <2>2
    <3>2. f[n] \in Seq(Reports)
      BY <1>1, <1>8, <3>1, PlainAdds
    <3> QED BY <1>1, <3>2
  <2> HIDE DEF B
  <2>3. \A n \in 0..N : n \in B
    BY <1>1, <2>1, <2>2, UpTo
  <2> QED BY <1>10, <2>3 DEF B
<1> QED BY <1>7, <1>8, <1>9, <1>11

\* What decoding makes of one more character.
DecodeChar(s, c) ==
  IF c = Rest /\ s # <<>> /\ Last(s) = Esc
    THEN Append(Front(s), Arrow) ELSE Append(s, c)

\* The text decoded: all but an Escape at its end.
Kept(text) == IF Incomplete(text) THEN Front(text) ELSE text

LEMMA KeptType ==
  ASSUME NEW text \in Seq(Chars)
  PROVE  Kept(text) \in Seq(Chars)
<1>1. CASE Incomplete(text)
  <2>1. Len(text) \in Nat \ {0} /\ \A i \in 1..Len(text) - 1 : text[i] \in Chars
    BY <1>1, EmptySeq, ElementOfSeq DEF Incomplete
  <2> QED BY <1>1, <2>1, SubSeqProperties DEF Kept, Front
<1>2. CASE ~Incomplete(text)
  BY <1>2 DEF Kept
<1> QED BY <1>1, <1>2

LEMMA DecodeAdds ==
  ASSUME NEW s \in Seq(Stroke), NEW c \in Chars
  PROVE  DecodeChar(s, c) \in Seq(Stroke)
<1>1. c \in Stroke /\ Arrow \in Stroke
  BY DEF Stroke
<1>2. CASE s # <<>>
  <2>1. Len(s) \in Nat \ {0} /\ \A i \in 1..Len(s) - 1 : s[i] \in Stroke
    BY <1>2, EmptySeq, ElementOfSeq
  <2>2. Front(s) \in Seq(Stroke)
    BY <2>1, SubSeqProperties DEF Front
  <2> QED BY <1>1, <2>2, AppendProperties DEF DecodeChar
<1>3. CASE s = <<>>
  BY <1>1, <1>3, AppendProperties DEF DecodeChar
<1> QED BY <1>2, <1>3

LEMMA DecodedSteps ==
  ASSUME NEW text \in Seq(Chars)
  PROVE  \E f \in [0..Len(Kept(text)) -> Seq(Stroke)] :
           /\ f[0] = <<>>
           /\ \A i \in 1..Len(Kept(text)) : f[i] = DecodeChar(f[i - 1], Kept(text)[i])
           /\ Decoded(text) = f[Len(Kept(text))]
<1> DEFINE N == Len(Kept(text))
           F == [p \in Seq(Stroke) \X (1..N) |-> DecodeChar(p[1], Kept(text)[p[2]])]
           Folds(g) == g = [s \in SUBSET (1..N) |->
                              IF s = {} THEN <<>>
                              ELSE DecodeChar(g[s \ {Max(s)}], Kept(text)[Max(s)])]
           it == CHOOSE g : Folds(g)
           f == [i \in 0..N |-> it[1..i]]
<1>1. N \in Nat /\ DOMAIN Kept(text) = 1..N /\ \A i \in 1..N : Kept(text)[i] \in Chars
  BY KeptType, LenProperties, ElementOfSeq
<1>2. Decoded(text) = it[1..N]
  BY <1>1 DEF Decoded, DecodeChar, Kept, FoldLeft, MapThenFoldSet
<1>3. \E g : Folds(g)
  <2>1. F \in [Seq(Stroke) \X (1..N) -> Seq(Stroke)]
    BY <1>1, DecodeAdds
  <2> HIDE DEF F, N
  <2>2. PICK g : Folding(g, Seq(Stroke), <<>>, N, F)
    BY <1>1, <2>1, EmptySeq, FoldExists
  <2>3. ASSUME NEW s \in SUBSET (1..N), s # {}
        PROVE  F[<<g[s \ {Max(s)}], Max(s)>>]
                 = DecodeChar(g[s \ {Max(s)}], Kept(text)[Max(s)])
    <3>1. Max(s) \in 1..N
      BY <1>1, <2>3, GreatestIn
    <3>2. g[s \ {Max(s)}] \in Seq(Stroke)
      BY <2>2 DEF Folding
    <3> QED BY <3>1, <3>2 DEF F
  <2>4. Folds(g)
    BY <2>2, <2>3 DEF Folding
  <2> HIDE DEF Folds
  <2> QED BY <2>4
<1>4. Folds(it)
  <2> HIDE DEF Folds
  <2> QED BY <1>3
<1>5. it[{}] = <<>>
  BY <1>4
<1>6. ASSUME NEW i \in 1..N
      PROVE  it[1..i] = DecodeChar(it[1..i - 1], Kept(text)[i])
  <2>1. /\ 1..i \in SUBSET (1..N) /\ 1..i # {}
        /\ Max(1..i) = i
        /\ (1..i) \ {i} = 1..i - 1
    BY <1>1, FirstOnes
  <2> HIDE DEF it, N
  <2> QED BY <1>4, <2>1
<1> HIDE DEF it, F
<1>7. f[0] = <<>>
  BY <1>1, <1>5
<1>8. \A i \in 1..N : f[i] = DecodeChar(f[i - 1], Kept(text)[i])
  BY <1>1, <1>6
<1>9. Decoded(text) = f[N]
  BY <1>1, <1>2
<1>10. f = [i \in 0..N |-> f[i]]
  OBVIOUS
<1> HIDE DEF f
<1>11. f \in [0..N -> Seq(Stroke)]
  <2> DEFINE B == {i \in 0..N : f[i] \in Seq(Stroke)}
  <2> HIDE DEF N
  <2>1. 0 \in B
    <3>1. <<>> \in Seq(Stroke)
      BY EmptySeq
    <3>2. f[0] \in Seq(Stroke)
      BY <1>7, <3>1, Zenon
    <3> QED BY <1>1, <3>2
  <2>2. ASSUME NEW n \in 1..N, n - 1 \in B
        PROVE  n \in B
    <3>1. f[n - 1] \in Seq(Stroke)
      BY <2>2
    <3>2. f[n] \in Seq(Stroke)
      BY <1>1, <1>8, <3>1, DecodeAdds
    <3> QED BY <1>1, <3>2
  <2> HIDE DEF B
  <2>3. \A n \in 0..N : n \in B
    BY <1>1, <2>1, <2>2, UpTo
  <2> QED BY <1>10, <2>3 DEF B
<1> QED BY <1>7, <1>8, <1>9, <1>11

LEMMA DecodedType ==
  ASSUME NEW text \in Seq(Chars)
  PROVE  Decoded(text) \in Seq(Stroke)
<1>1. Len(Kept(text)) \in Nat
  BY KeptType, LenProperties
<1> QED BY <1>1, DecodedSteps
-----------------------------------------------------------------------------
(***************************************************************************)
(* What a queue spells: counted from the strokes heard so far, each press  *)
(* in it is the next stroke asked for, and the last is the last.           *)
(***************************************************************************)
Counts(f, q, h, all) ==
  /\ f \in [0..Len(q) -> Nat]
  /\ f[0] = h /\ f[Len(q)] = Len(all)
  /\ \A j \in 1..Len(q) :
       \/ q[j].keys = {} /\ f[j] = f[j - 1]
       \/ /\ f[j] = f[j - 1] + 1 /\ f[j] \in 1..Len(all)
          /\ q[j] = PressOf(all[f[j]])

Spells(q, h, all) == \E f : Counts(f, q, h, all)

\* Each press in it is news after the report before it, and lets go of no
\* modifier.
Parted(r, next) ==
  next.keys # {} => r.keys \cap next.keys = {} /\ r.mods \subseteq next.mods

Apart(q) == \A j \in 1..Len(q) - 1 : Parted(q[j], q[j + 1])

LEMMA SpellsNothing ==
  ASSUME NEW all \in Seq(Stroke)
  PROVE  Spells(<<>>, Len(all), all)
<1>1. Len(<<>>) = 0 /\ Len(all) \in Nat
  BY EmptySeq, LenProperties
<1>2. Counts([j \in 0..0 |-> Len(all)], <<>>, Len(all), all)
  BY <1>1 DEF Counts
<1> QED BY <1>2 DEF Spells

LEMMA SpellsGap ==
  ASSUME NEW q \in Seq(Reports), NEW r \in Reports, r.keys = {},
         NEW h, NEW all, Spells(q, h, all)
  PROVE  Spells(Append(q, r), h, all)
<1>1. PICK f : Counts(f, q, h, all)
  BY DEF Spells
<1> DEFINE q2 == Append(q, r)
           n == Len(q)
           g == [j \in 0..n + 1 |-> IF j = n + 1 THEN f[n] ELSE f[j]]
<1>2. /\ n \in Nat /\ Len(q2) = n + 1 /\ q2[n + 1] = r
      /\ \A j \in 1..n : q2[j] = q[j]
  BY AppendProperties, LenProperties
<1>3. f \in [0..n -> Nat] /\ f[0] = h /\ f[n] = Len(all)
  BY <1>1 DEF Counts
<1>4. /\ g \in [0..n + 1 -> Nat] /\ g[0] = h /\ g[n + 1] = Len(all)
      /\ g[n] = f[n] /\ \A j \in 0..n : g[j] = f[j]
  BY <1>2, <1>3
<1> HIDE DEF g, n, q2
<1>5. ASSUME NEW j \in 1..n + 1
      PROVE  \/ q2[j].keys = {} /\ g[j] = g[j - 1]
             \/ /\ g[j] = g[j - 1] + 1 /\ g[j] \in 1..Len(all)
                /\ q2[j] = PressOf(all[g[j]])
  <2>1. CASE j = n + 1
    BY <1>2, <1>3, <1>4, <2>1
  <2>2. CASE j \in 1..n
    <3>0. j \in 0..n /\ j - 1 \in 0..n
      BY <1>2, <2>2
    <3>1. g[j] = f[j] /\ g[j - 1] = f[j - 1] /\ q2[j] = q[j]
      <4>1. g[j] = f[j] /\ g[j - 1] = f[j - 1]
        BY <1>4, <3>0
      <4>2. q2[j] = q[j]
        BY <1>2, <2>2
      <4> QED BY <4>1, <4>2
    <3> QED BY <1>1, <2>2, <3>1 DEF Counts, n
  <2> QED BY <1>2, <2>1, <2>2
<1>6. Counts(g, q2, h, all)
  BY <1>2, <1>4, <1>5 DEF Counts
<1> QED BY <1>6 DEF Spells, q2

LEMMA SpellsPress ==
  ASSUME NEW q \in Seq(Reports), NEW s \in Stroke,
         NEW h, NEW all \in Seq(Stroke), Spells(q, h, all)
  PROVE  Spells(Append(q, PressOf(s)), h, Append(all, s))
<1>1. PICK f : Counts(f, q, h, all)
  BY DEF Spells
<1> DEFINE q2 == Append(q, PressOf(s))
           all2 == Append(all, s)
           n == Len(q)
           m == Len(all)
           g == [j \in 0..n + 1 |-> IF j = n + 1 THEN m + 1 ELSE f[j]]
<1>2. /\ n \in Nat /\ Len(q2) = n + 1 /\ q2[n + 1] = PressOf(s)
      /\ \A j \in 1..n : q2[j] = q[j]
  BY ReportTypes, AppendProperties, LenProperties
<1>3. /\ m \in Nat /\ Len(all2) = m + 1 /\ all2[m + 1] = s
      /\ \A j \in 1..m : all2[j] = all[j]
  BY AppendProperties, LenProperties
<1>4. f \in [0..n -> Nat] /\ f[0] = h /\ f[n] = m
  BY <1>1 DEF Counts
<1>5. /\ g \in [0..n + 1 -> Nat] /\ g[0] = h /\ g[n + 1] = m + 1
      /\ g[n] = m /\ \A j \in 0..n : g[j] = f[j]
  BY <1>2, <1>3, <1>4
<1> HIDE DEF g, n, m, q2, all2
<1>6. ASSUME NEW j \in 1..n + 1
      PROVE  \/ q2[j].keys = {} /\ g[j] = g[j - 1]
             \/ /\ g[j] = g[j - 1] + 1 /\ g[j] \in 1..m + 1
                /\ q2[j] = PressOf(all2[g[j]])
  <2>1. CASE j = n + 1
    BY <1>2, <1>3, <1>5, <2>1
  <2>2. CASE j \in 1..n
    <3>0. j \in 0..n /\ j - 1 \in 0..n
      BY <1>2, <2>2
    <3>1. g[j] = f[j] /\ g[j - 1] = f[j - 1] /\ q2[j] = q[j]
      <4>1. g[j] = f[j] /\ g[j - 1] = f[j - 1]
        BY <1>5, <3>0
      <4>2. q2[j] = q[j]
        BY <1>2, <2>2
      <4> QED BY <4>1, <4>2
    <3>2. \/ q[j].keys = {} /\ f[j] = f[j - 1]
          \/ f[j] = f[j - 1] + 1 /\ f[j] \in 1..m /\ q[j] = PressOf(all[f[j]])
      BY <1>1, <2>2 DEF Counts, n, m
    <3> QED BY <1>3, <3>1, <3>2
  <2> QED BY <1>2, <2>1, <2>2
<1>7. Counts(g, q2, h, all2)
  BY <1>2, <1>3, <1>5, <1>6 DEF Counts
<1> QED BY <1>7 DEF Spells, q2, all2

LEMMA ApartAppend ==
  ASSUME NEW q \in Seq(Reports), NEW r \in Reports, Apart(q),
         q # <<>> => Parted(Last(q), r)
  PROVE  /\ Apart(Append(q, r))
         /\ Append(q, r) # <<>> /\ Last(Append(q, r)) = r
         /\ Append(q, r)[1] = IF q = <<>> THEN r ELSE q[1]
<1> DEFINE q2 == Append(q, r)
           n == Len(q)
<1>1. /\ n \in Nat /\ Len(q2) = n + 1 /\ q2[n + 1] = r /\ q2 # <<>>
      /\ \A j \in 1..n : q2[j] = q[j]
      /\ q # <<>> => n # 0
      /\ q = <<>> => n = 0
  BY AppendProperties, LenProperties, EmptySeq
<1>2. q # <<>> => Parted(q[n], r)
  BY DEF Last
<1> HIDE DEF q2
<1>3. ASSUME NEW j \in 1..Len(q2) - 1
      PROVE  Parted(q2[j], q2[j + 1])
  <2>1. CASE j = n
    BY <1>1, <1>2, <2>1
  <2>2. CASE j \in 1..n - 1
    <3>1. q2[j] = q[j] /\ q2[j + 1] = q[j + 1]
      BY <1>1, <2>2
    <3> QED BY <2>2, <3>1 DEF Apart
  <2> QED BY <1>1, <2>1, <2>2
<1>4. q2[1] = IF q = <<>> THEN r ELSE q[1]
  BY <1>1
<1> QED BY <1>1, <1>3, <1>4 DEF Apart, Last, q2

LEMMA AppendTwo ==
  ASSUME NEW q \in Seq(Reports), NEW a \in Reports, NEW b \in Reports
  PROVE  q \o <<a, b>> = Append(Append(q, a), b)
<1> DEFINE l == q \o <<a, b>>
           r == Append(Append(q, a), b)
<1>1. /\ l \in Seq(Reports) /\ Len(l) = Len(q) + 2
      /\ \A i \in 1..Len(l) : l[i] = IF i <= Len(q) THEN q[i] ELSE <<a, b>>[i - Len(q)]
  BY TwoReports, ConcatProperties
<1>2. Append(q, a) \in Seq(Reports) /\ Len(Append(q, a)) = Len(q) + 1
  BY AppendProperties
<1>3. r \in Seq(Reports) /\ Len(r) = Len(q) + 2
  BY <1>2, AppendProperties, LenProperties
<1>4. ASSUME NEW i \in 1..Len(q) + 2 PROVE l[i] = r[i]
  BY <1>1, AppendProperties, LenProperties, TwoReports
<1> HIDE DEF l, r
<1>5. l = r
  BY <1>1, <1>3, <1>4, SeqEqual
<1> QED BY <1>5 DEF l, r

LEMMA OneKey ==
  ASSUME NEW q \in Seq(Reports), q # <<>>
  PROVE  /\ Last(q) \in Reports /\ q[1] \in Reports
         /\ \A s \in Stroke : Last(q).keys # {s.key} => Last(q).keys \cap {s.key} = {}
<1>1. Len(q) \in Nat \ {0}
  BY EmptySeq, LenProperties
<1>2. Last(q) \in Reports /\ q[1] \in Reports
  BY <1>1, ElementOfSeq DEF Last
<1> QED BY <1>2 DEF Reports

\* _stroke keeps the reports apart and the queue spelling what was asked for.
LEMMA StrokeQueued ==
  ASSUME NEW q \in Seq(Reports), NEW s \in Stroke, Apart(q)
  PROVE  LET q2 == QueueStroke(q, s)
         IN  /\ q2 \in Seq(Reports) /\ q2 # <<>> /\ Apart(q2)
             /\ q2[1] = IF q = <<>> THEN PressOf(s) ELSE q[1]
             /\ \A h : \A all \in Seq(Stroke) :
                  Spells(q, h, all) => Spells(q2, h, Append(all, s))
<1> DEFINE q2 == QueueStroke(q, s)
           gap == Gap(q, s)
           p == PressOf(s)
<1>1. p \in Reports /\ p.mods = s.mods /\ p.keys = {s.key}
  BY ReportTypes DEF PressOf, Report
<1>2. CASE q # <<>> /\ gap \in Reports /\ q2 = q \o <<gap, p>>
  <2> DEFINE q1 == Append(q, gap)
  <2>1. q2 = Append(q1, p)
    BY <1>1, <1>2, AppendTwo
  <2>2. gap.keys = {} /\ gap.mods \subseteq p.mods
    BY <1>1 DEF Gap, Report
  <2> HIDE DEF gap, p, q2
  <2>3. /\ q1 \in Seq(Reports)
        /\ Apart(q1) /\ q1 # <<>> /\ Last(q1) = gap /\ q1[1] = q[1]
    BY <1>2, <2>2, ApartAppend, AppendProperties DEF Parted
  <2> HIDE DEF q1
  <2>4. q2 \in Seq(Reports) /\ Apart(q2) /\ q2 # <<>> /\ q2[1] = q[1]
    BY <1>1, <2>1, <2>2, <2>3, ApartAppend, AppendProperties DEF Parted
  <2>5. ASSUME NEW h, NEW all \in Seq(Stroke), Spells(q, h, all)
        PROVE  Spells(q2, h, Append(all, s))
    <3>1. Spells(q1, h, all)
      BY <1>2, <2>2, <2>5, SpellsGap DEF q1
    <3> QED BY <2>1, <2>3, <3>1, SpellsPress DEF p
  <2> QED BY <1>2, <2>4, <2>5 DEF q2
<1>3. CASE /\ q = <<>> \/ (Last(q).keys # {s.key} /\ Last(q).mods = s.mods)
           /\ q2 = Append(q, p)
  <2>1. q # <<>> => Parted(Last(q), p)
    BY <1>1, <1>3, OneKey DEF Parted
  <2> HIDE DEF p, q2
  <2>2. /\ q2 \in Seq(Reports) /\ Apart(q2) /\ q2 # <<>>
        /\ q2[1] = IF q = <<>> THEN p ELSE q[1]
    BY <1>1, <1>3, <2>1, ApartAppend, AppendProperties
  <2>3. \A h : \A all \in Seq(Stroke) :
          Spells(q, h, all) => Spells(q2, h, Append(all, s))
    BY <1>3, SpellsPress DEF p
  <2> QED BY <2>2, <2>3 DEF q2, p
<1> QED BY <1>2, <1>3, StrokeAdds

\* A press with a release of its own, after another or at the start.
Free(q) == q = <<>> \/ Last(q) = Released

LEMMA PlainQueued ==
  ASSUME NEW q \in Seq(Reports), NEW s \in Stroke, Apart(q), Free(q)
  PROVE  LET q2 == PlainStroke(q, s)
         IN  /\ q2 \in Seq(Reports) /\ q2 # <<>> /\ Apart(q2) /\ Free(q2)
             /\ q2[1] = IF q = <<>> THEN PressOf(s) ELSE q[1]
             /\ \A h : \A all \in Seq(Stroke) :
                  Spells(q, h, all) => Spells(q2, h, Append(all, s))
<1> DEFINE q2 == PlainStroke(q, s)
           p == PressOf(s)
           q1 == Append(q, p)
<1>1. p \in Reports /\ Released \in Reports
      /\ Released.mods = {} /\ Released.keys = {}
  BY ReportTypes DEF Released, Report
<1>2. q2 = Append(q1, Released)
  BY <1>1, AppendTwo DEF PlainStroke
<1> HIDE DEF p, q2
<1>3. q # <<>> => Parted(Last(q), p)
  BY <1>1 DEF Free, Parted
<1>4. /\ q1 \in Seq(Reports) /\ Apart(q1) /\ q1 # <<>> /\ Last(q1) = p
      /\ q1[1] = IF q = <<>> THEN p ELSE q[1]
  BY <1>1, <1>3, ApartAppend, AppendProperties
<1> HIDE DEF q1
<1>5. Parted(Last(q1), Released)
  BY <1>1 DEF Parted
<1>6. /\ q2 \in Seq(Reports) /\ Apart(q2) /\ q2 # <<>> /\ Free(q2)
      /\ q2[1] = q1[1]
  BY <1>1, <1>2, <1>4, <1>5, ApartAppend, AppendProperties DEF Free
<1>7. ASSUME NEW h, NEW all \in Seq(Stroke), Spells(q, h, all)
      PROVE  Spells(q2, h, Append(all, s))
  <2>1. Spells(q1, h, Append(all, s))
    BY <1>7, SpellsPress DEF p, q1
  <2> QED BY <1>1, <1>2, <1>4, <2>1, SpellsGap
<1> QED BY <1>4, <1>6, <1>7 DEF q2, p

\* What has been asked for, with the first i strokes more.
LEMMA AskedMore ==
  ASSUME NEW all \in Seq(Stroke), NEW ss \in Seq(Stroke)
  PROVE  /\ all \o SubSeq(ss, 1, 0) = all
         /\ all \o SubSeq(ss, 1, Len(ss)) = all \o ss
         /\ \A i \in 1..Len(ss) :
              /\ all \o SubSeq(ss, 1, i - 1) \in Seq(Stroke)
              /\ Append(all \o SubSeq(ss, 1, i - 1), ss[i]) = all \o SubSeq(ss, 1, i)
<1>1. /\ Len(ss) \in Nat /\ Len(all) \in Nat
      /\ \A i \in 1..Len(ss) : ss[i] \in Stroke
  BY LenProperties, ElementOfSeq
<1>2. ASSUME NEW i \in 0..Len(ss)
      PROVE  /\ SubSeq(ss, 1, i) \in Seq(Stroke) /\ Len(SubSeq(ss, 1, i)) = i
             /\ \A j \in 1..i : SubSeq(ss, 1, i)[j] = ss[j]
  BY <1>1, SubSeqProperties
<1>3. SubSeq(ss, 1, 0) = <<>>
  BY <1>1, <1>2, EmptySeq
<1>4. all \o SubSeq(ss, 1, 0) = all
  BY <1>3, ConcatEmptySeq
<1>5. SubSeq(ss, 1, Len(ss)) = ss
  BY <1>1, <1>2, SeqEqual
<1>6. ASSUME NEW i \in 1..Len(ss)
      PROVE  /\ all \o SubSeq(ss, 1, i - 1) \in Seq(Stroke)
             /\ Append(all \o SubSeq(ss, 1, i - 1), ss[i]) = all \o SubSeq(ss, 1, i)
  <2> DEFINE a == SubSeq(ss, 1, i - 1)
             b == SubSeq(ss, 1, i)
             l == Append(all \o a, ss[i])
             r == all \o b
  <2>1. /\ a \in Seq(Stroke) /\ Len(a) = i - 1 /\ \A j \in 1..i - 1 : a[j] = ss[j]
        /\ b \in Seq(Stroke) /\ Len(b) = i /\ \A j \in 1..i : b[j] = ss[j]
    BY <1>1, <1>2
  <2> HIDE DEF a, b
  <2>2. /\ all \o a \in Seq(Stroke) /\ Len(all \o a) = Len(all) + (i - 1)
        /\ \A j \in 1..Len(all) + (i - 1) :
             (all \o a)[j] = IF j <= Len(all) THEN all[j] ELSE a[j - Len(all)]
    <3>1. /\ all \o a \in Seq(Stroke) /\ Len(all \o a) = Len(all) + Len(a)
          /\ \A j \in 1..Len(all) + Len(a) :
               (all \o a)[j] = IF j <= Len(all) THEN all[j] ELSE a[j - Len(all)]
      BY <2>1, ConcatProperties
    <3> QED BY <2>1, <3>1
  <2>3. /\ r \in Seq(Stroke) /\ Len(r) = Len(all) + i
        /\ \A j \in 1..Len(all) + i :
             r[j] = IF j <= Len(all) THEN all[j] ELSE b[j - Len(all)]
    BY <1>1, <2>1, ConcatProperties
  <2>4. /\ l \in Seq(Stroke) /\ Len(l) = Len(all) + i
        /\ l[Len(all) + i] = ss[i]
        /\ \A j \in 1..Len(all) + (i - 1) : l[j] = (all \o a)[j]
    BY <1>1, <2>2, AppendProperties
  <2> HIDE DEF l, r
  <2>5. ASSUME NEW j \in 1..Len(all) + i PROVE l[j] = r[j]
    <3>1. CASE j = Len(all) + i
      <4>1. ~(j <= Len(all)) /\ j - Len(all) = i /\ i \in 1..i
        BY <1>1, <3>1
      <4> QED BY <2>1, <2>3, <2>4, <3>1, <4>1
    <3>2. CASE j <= Len(all)
      <4>1. j \in 1..Len(all) + (i - 1)
        BY <1>1, <3>2
      <4> QED BY <2>2, <2>3, <2>4, <3>2, <4>1
    <3>3. CASE j # Len(all) + i /\ ~(j <= Len(all))
      <4>1. j \in 1..Len(all) + (i - 1) /\ j - Len(all) \in 1..i - 1
        BY <1>1, <3>3
      <4>2. j - Len(all) \in 1..i
        BY <4>1
      <4> QED BY <2>1, <2>2, <2>3, <2>4, <3>3, <4>1, <4>2
    <3> QED BY <3>1, <3>2, <3>3
  <2>6. l = r
    BY <1>1, <2>3, <2>4, <2>5, SeqEqual
  <2> QED BY <2>2, <2>6 DEF a, b, l, r
<1> QED BY <1>4, <1>5, <1>6

\* A whole text queued behind what was there already.
LEMMA TextQueued ==
  ASSUME NEW q \in Seq(Reports), NEW ss \in Seq(Stroke), Apart(q)
  PROVE  LET q2 == QueueAll(q, ss)
         IN  /\ q2 \in Seq(Reports) /\ Apart(q2)
             /\ ss = <<>> => q2 = q
             /\ ss # <<>> => /\ q2 # <<>> /\ ss[1] \in Stroke
                             /\ q2[1] = IF q = <<>> THEN PressOf(ss[1]) ELSE q[1]
             /\ \A h : \A all \in Seq(Stroke) :
                  Spells(q, h, all) => Spells(q2, h, all \o ss)
<1> DEFINE N == Len(ss)
           q2 == QueueAll(q, ss)
           First == IF q = <<>> THEN PressOf(ss[1]) ELSE q[1]
           Good(r, i) ==
             /\ Apart(r)
             /\ i # 0 => r # <<>> /\ r[1] = First
             /\ i = 0 => r = q
             /\ \A h : \A all \in Seq(Stroke) :
                  Spells(q, h, all) => Spells(r, h, all \o SubSeq(ss, 1, i))
<1>1. PICK f \in [0..N -> Seq(Reports)] :
        /\ f[0] = q
        /\ \A i \in 1..N : f[i] = QueueStroke(f[i - 1], ss[i])
        /\ q2 = f[N]
  BY QueueAllSteps
<1> DEFINE B == {i \in 0..N : Good(f[i], i)}
<1>2. N \in Nat /\ \A i \in 1..N : ss[i] \in Stroke
  BY LenProperties, ElementOfSeq
<1> HIDE DEF q2
<1>3. 0 \in B
  <2>1. Good(q, 0)
    BY AskedMore
  <2> HIDE DEF Good
  <2> QED BY <1>1, <1>2, <2>1
<1>4. ASSUME NEW n \in 1..N, n - 1 \in B
      PROVE  n \in B
  <2> DEFINE r == f[n - 1]
             r2 == f[n]
  <2>1. /\ r \in Seq(Reports) /\ Good(r, n - 1) /\ r2 = QueueStroke(r, ss[n])
        /\ ss[n] \in Stroke
    BY <1>1, <1>2, <1>4
  <2> HIDE DEF r, r2
  <2>2. /\ Apart(r2) /\ r2 # <<>>
        /\ r2[1] = IF r = <<>> THEN PressOf(ss[n]) ELSE r[1]
        /\ \A h : \A all \in Seq(Stroke) :
             Spells(r, h, all) => Spells(r2, h, Append(all, ss[n]))
    BY <2>1, StrokeQueued
  <2>3. r2[1] = First
    BY <2>1, <2>2
  <2>4. ASSUME NEW h, NEW all \in Seq(Stroke), Spells(q, h, all)
        PROVE  Spells(r2, h, all \o SubSeq(ss, 1, n))
    <3>1. Spells(r, h, all \o SubSeq(ss, 1, n - 1))
      BY <2>1, <2>4
    <3>2. /\ all \o SubSeq(ss, 1, n - 1) \in Seq(Stroke)
          /\ Append(all \o SubSeq(ss, 1, n - 1), ss[n]) = all \o SubSeq(ss, 1, n)
      BY AskedMore
    <3>3. Spells(r2, h, Append(all \o SubSeq(ss, 1, n - 1), ss[n]))
      BY <2>2, <3>1, <3>2
    <3> QED BY <3>2, <3>3
  <2>5. Good(r2, n)
    BY <2>2, <2>3, <2>4
  <2> HIDE DEF Good
  <2> QED BY <1>2, <2>5 DEF r2
<1> HIDE DEF B, Good
<1>5. Good(q2, N)
  <2>1. \A n \in 0..N : n \in B
    BY <1>2, <1>3, <1>4, UpTo
  <2>2. N \in B
    BY <1>2, <2>1
  <2> QED BY <1>1, <2>2 DEF B
<1>6. q2 \in Seq(Reports)
  BY <1>1, <1>2
<1>7. (ss = <<>> <=> N = 0) /\ (ss # <<>> => 1 \in 1..N)
  BY <1>2, EmptySeq
<1>8. \A all \in Seq(Stroke) : all \o SubSeq(ss, 1, N) = all \o ss
  BY AskedMore
<1> QED BY <1>2, <1>5, <1>6, <1>7, <1>8 DEF Good, q2

\* A sweep queued, with nothing there before it.
LEMMA SweepQueued ==
  ASSUME NEW ss \in Seq(Stroke)
  PROVE  LET q2 == Plainly(ss)
         IN  /\ q2 \in Seq(Reports) /\ Apart(q2)
             /\ q2 # <<>> => ss[1] \in Stroke /\ q2[1] = PressOf(ss[1])
             /\ \A all \in Seq(Stroke) : Spells(q2, Len(all), all \o ss)
<1> DEFINE N == Len(ss)
           q2 == Plainly(ss)
           Good(r, i) ==
             /\ Apart(r) /\ Free(r)
             /\ i # 0 => r # <<>> /\ r[1] = PressOf(ss[1])
             /\ i = 0 => r = <<>>
             /\ \A all \in Seq(Stroke) :
                  Spells(r, Len(all), all \o SubSeq(ss, 1, i))
<1>1. PICK f \in [0..N -> Seq(Reports)] :
        /\ f[0] = <<>>
        /\ \A i \in 1..N : f[i] = PlainStroke(f[i - 1], ss[i])
        /\ q2 = f[N]
  BY PlainlySteps
<1> DEFINE B == {i \in 0..N : Good(f[i], i)}
<1>2. N \in Nat /\ \A i \in 1..N : ss[i] \in Stroke
  BY LenProperties, ElementOfSeq
<1> HIDE DEF q2
<1>3. 0 \in B
  <2>1. \A all \in Seq(Stroke) : Spells(<<>>, Len(all), all \o SubSeq(ss, 1, 0))
    BY AskedMore, SpellsNothing
  <2>2. Apart(<<>>) /\ Free(<<>>)
    BY EmptySeq DEF Apart, Free
  <2>3. Good(<<>>, 0)
    BY <2>1, <2>2
  <2> HIDE DEF Good
  <2> QED BY <1>1, <1>2, <2>3
<1>4. ASSUME NEW n \in 1..N, n - 1 \in B
      PROVE  n \in B
  <2> DEFINE r == f[n - 1]
             r2 == f[n]
  <2>1. /\ r \in Seq(Reports) /\ Good(r, n - 1) /\ r2 = PlainStroke(r, ss[n])
        /\ ss[n] \in Stroke
    BY <1>1, <1>2, <1>4
  <2> HIDE DEF r, r2
  <2>2. /\ Apart(r2) /\ Free(r2) /\ r2 # <<>>
        /\ r2[1] = IF r = <<>> THEN PressOf(ss[n]) ELSE r[1]
        /\ \A h : \A all \in Seq(Stroke) :
             Spells(r, h, all) => Spells(r2, h, Append(all, ss[n]))
    BY <2>1, PlainQueued
  <2>3. r2[1] = PressOf(ss[1])
    BY <2>1, <2>2
  <2>4. ASSUME NEW all \in Seq(Stroke)
        PROVE  Spells(r2, Len(all), all \o SubSeq(ss, 1, n))
    <3>1. Spells(r, Len(all), all \o SubSeq(ss, 1, n - 1))
      BY <2>1
    <3>2. /\ all \o SubSeq(ss, 1, n - 1) \in Seq(Stroke)
          /\ Append(all \o SubSeq(ss, 1, n - 1), ss[n]) = all \o SubSeq(ss, 1, n)
      BY AskedMore
    <3>3. Spells(r2, Len(all), Append(all \o SubSeq(ss, 1, n - 1), ss[n]))
      BY <2>2, <3>1, <3>2
    <3> QED BY <3>2, <3>3
  <2>5. Good(r2, n)
    BY <2>2, <2>3, <2>4
  <2> HIDE DEF Good
  <2> QED BY <1>2, <2>5 DEF r2
<1> HIDE DEF B, Good
<1>5. Good(q2, N)
  <2>1. \A n \in 0..N : n \in B
    BY <1>2, <1>3, <1>4, UpTo
  <2>2. N \in B
    BY <1>2, <2>1
  <2> QED BY <1>1, <2>2 DEF B
<1>6. q2 \in Seq(Reports)
  BY <1>1, <1>2
<1>7. N # 0 => 1 \in 1..N
  BY <1>2
<1>8. \A all \in Seq(Stroke) : all \o SubSeq(ss, 1, N) = all \o ss
  BY AskedMore
<1> QED BY <1>2, <1>5, <1>6, <1>7, <1>8 DEF Good, q2

\* The first report taken off a queue: a gap, or the next stroke's press.
LEMMA QueueDrained ==
  ASSUME NEW q \in Seq(Reports), q # <<>>, Apart(q)
  PROVE  /\ Head(q) = q[1] /\ Head(q) \in Reports
         /\ Tail(q) \in Seq(Reports) /\ Apart(Tail(q))
         /\ Tail(q) # <<>> => Parted(Head(q), Head(Tail(q)))
<1> DEFINE t == Tail(q)
<1>1. /\ Len(q) \in Nat \ {0} /\ Head(q) = q[1] /\ q[1] \in Reports
      /\ t \in Seq(Reports) /\ Len(t) = Len(q) - 1
      /\ \A j \in 1..Len(q) - 1 : t[j] = q[j + 1]
  BY EmptySeq, LenProperties, ElementOfSeq, HeadTailProperties
<1>2. t # <<>> => Len(t) # 0 /\ Head(t) = t[1]
  BY <1>1, EmptySeq, HeadTailProperties
<1> HIDE DEF t
<1>3. Apart(t)
  <2>1. ASSUME NEW j \in 1..Len(t) - 1 PROVE Parted(t[j], t[j + 1])
    <3>1. t[j] = q[j + 1] /\ t[j + 1] = q[(j + 1) + 1] /\ j + 1 \in 1..Len(q) - 1
      BY <1>1
    <3> QED BY <3>1 DEF Apart
  <2> QED BY <2>1 DEF Apart
<1>4. t # <<>> => Parted(q[1], t[1])
  <2>1. t # <<>> => 1 \in 1..Len(q) - 1
    BY <1>1, <1>2
  <2> QED BY <1>1, <2>1 DEF Apart
<1> QED BY <1>1, <1>2, <1>3, <1>4 DEF t

LEMMA SpellsTail ==
  ASSUME NEW q \in Seq(Reports), q # <<>>,
         NEW h, NEW all \in Seq(Stroke), Spells(q, h, all)
  PROVE  \/ Head(q).keys = {} /\ Spells(Tail(q), h, all)
         \/ /\ h \in Nat /\ h + 1 \in 1..Len(all) /\ Head(q) = PressOf(all[h + 1])
            /\ Spells(Tail(q), h + 1, all)
<1> DEFINE t == Tail(q)
           n == Len(q)
<1>1. PICK f : Counts(f, q, h, all)
  BY DEF Spells
<1>2. /\ n \in Nat \ {0} /\ Head(q) = q[1] /\ Len(t) = n - 1
      /\ \A j \in 1..n - 1 : t[j] = q[j + 1]
  BY EmptySeq, LenProperties, HeadTailProperties
<1> DEFINE g == [j \in 0..n - 1 |-> f[j + 1]]
<1>3. f \in [0..n -> Nat] /\ f[0] = h /\ f[n] = Len(all)
  BY <1>1 DEF Counts
<1>4. /\ g \in [0..n - 1 -> Nat] /\ g[0] = f[1] /\ g[n - 1] = Len(all)
      /\ \A j \in 0..n - 1 : g[j] = f[j + 1]
  BY <1>2, <1>3
<1>5. \A j \in 1..n :
        \/ q[j].keys = {} /\ f[j] = f[j - 1]
        \/ /\ f[j] = f[j - 1] + 1 /\ f[j] \in 1..Len(all)
           /\ q[j] = PressOf(all[f[j]])
  BY <1>1 DEF Counts
<1> HIDE DEF g, t, n
<1>6. ASSUME NEW j \in 1..n - 1
      PROVE  \/ t[j].keys = {} /\ g[j] = g[j - 1]
             \/ /\ g[j] = g[j - 1] + 1 /\ g[j] \in 1..Len(all)
                /\ t[j] = PressOf(all[g[j]])
  <2>1. /\ j + 1 \in 1..n /\ (j + 1) - 1 = j /\ (j - 1) + 1 = j
        /\ j - 1 \in 0..n - 1 /\ j \in 0..n - 1
    BY <1>2
  <2>2. t[j] = q[j + 1] /\ g[j] = f[j + 1] /\ g[j - 1] = f[j]
    BY <1>2, <1>4, <2>1
  <2> QED BY <1>5, <2>1, <2>2
<1>7. Spells(t, f[1], all)
  <2>1. Len(t) = n - 1
    BY <1>2
  <2>2. Counts(g, t, f[1], all)
    BY <1>4, <1>6, <2>1 DEF Counts
  <2> QED BY <2>2 DEF Spells
<1>8. 1 \in 1..n /\ 1 - 1 = 0
  BY <1>2
<1>9. \/ q[1].keys = {} /\ f[1] = h
      \/ f[1] = h + 1 /\ f[1] \in 1..Len(all) /\ q[1] = PressOf(all[f[1]])
  BY <1>3, <1>5, <1>8
<1>10. h \in Nat
  BY <1>2, <1>3
<1> QED BY <1>2, <1>7, <1>9, <1>10 DEF t

LEMMA SpelledOut ==
  ASSUME NEW h, NEW all, Spells(<<>>, h, all)
  PROVE  h = Len(all)
BY EmptySeq DEF Spells, Counts

-----------------------------------------------------------------------------
(***************************************************************************)
(* The link is given back.                                                 *)
(***************************************************************************)
GivenInv == LinkGivenBack /\ (~connected => host = Released)

\* That no cancel comes between the last report and the tick after it.
NoLateCancel == "latecancel" \notin Environment

\* Whatever the keyboard does, its keys and modifiers are reported.
LEMMA KeyboardSends ==
  ASSUME Keyboard
  PROVE  \E p, m : SendKeys(p, m)
<1>1. CASE PressKey
  BY <1>1 DEF PressKey
<1>2. CASE ReleaseKey \/ ReleaseAll
  BY <1>2 DEF ReleaseKey, ReleaseAll
<1>3. CASE PressModifier \/ ReleaseModifier
  BY <1>3 DEF PressModifier, ReleaseModifier
<1> QED BY <1>1, <1>2, <1>3 DEF Keyboard

LEMMA GivenStep ==
  ASSUME NoLateCancel, GivenInv, [Next]_vars
  PROVE  GivenInv'
<1> USE DEF GivenInv, LinkGivenBack
<1>1. ASSUME SendKeys(pressed, modifiers), UNCHANGED connected PROVE GivenInv'
  BY <1>1 DEF SendKeys, Report, Released
<1>2. CASE TextInput
  BY <1>2 DEF TextInput, Type, keys
<1>3. CASE GiveUpWaiting
  BY <1>3 DEF GiveUpWaiting, Type, keys
<1>4. CASE Drain
  <2>1. CASE DrainDropped
    BY <2>1 DEF DrainDropped, keys
  <2>2. CASE DrainEmpty
    BY <1>1, <2>2 DEF DrainEmpty
  <2>3. CASE DrainReport
    BY <2>3 DEF DrainReport, Unlinked, keys
  <2> QED BY <1>4, <2>1, <2>2, <2>3 DEF Drain
<1>5. CASE Learn
  BY <1>5 DEF Learn, keys
<1>6. CASE Poll
  <2>1. CASE PollStopped
    BY <2>1 DEF PollStopped, Clear, SendKeys
  <2>2. CASE PollDone
    BY <2>2 DEF PollDone, typing, keys
  <2>3. CASE PollLate
    BY <2>3 DEF PollLate, typing, keys
  <2> QED BY <1>6, <2>1, <2>2, <2>3 DEF Poll
<1>7. CASE Cancel
  <2>1. CASE queue # <<>>
    BY <1>1, <1>7, <2>1 DEF Cancel, Clear
  <2>2. CASE queue = <<>>
    BY <1>7, <2>2 DEF Cancel, Clear, Idle, NoLateCancel
  <2> QED BY <2>1, <2>2
<1>8. CASE Keyboard
  <2>1. PICK p, m : SendKeys(p, m)
    BY <1>8, KeyboardSends
  <2>2. UNCHANGED <<timer, connected>>
    BY <1>8 DEF Keyboard, typing
  <2> QED BY <2>1, <2>2 DEF SendKeys, Report
<1>9. CASE LinkDown
  BY <1>9 DEF LinkDown, Unlinked
<1>10. CASE LinkUp
  BY <1>10 DEF LinkUp, Report, Released
<1>11. CASE UNCHANGED vars
  BY <1>11 DEF vars, typing, keys
<1> QED
  BY <1>2, <1>3, <1>4, <1>5, <1>6, <1>7, <1>8, <1>9, <1>10, <1>11 DEF Next

\* With nothing being typed, nothing is down on the phone but the keys and
\* the modifiers of the keyboard (drain, clear).
THEOREM GivenBack ==
  ASSUME NoLateCancel
  PROVE  Spec => []LinkGivenBack
<1>1. Init => GivenInv
  BY DEF Init, GivenInv, LinkGivenBack, Released, Report
<1>2. GivenInv /\ [Next]_vars => GivenInv'
  BY GivenStep
<1>3. GivenInv => LinkGivenBack
  BY DEF GivenInv
<1> QED
  BY <1>1, <1>2, <1>3, PTL DEF Spec

-----------------------------------------------------------------------------
(***************************************************************************)
(* The phone hears what was asked for.                                     *)
(***************************************************************************)
Begins(s, t) == Len(s) <= Len(t) /\ \A i \in 1..Len(s) : s[i] = t[i]

\* A report is news to the host after what it has read last, but for what the
\* keyboard holds.
News(next) ==
  next.keys # {} => /\ host.keys \cap next.keys \subseteq pressed
                    /\ host.mods \ modifiers \subseteq next.mods

\* Each report in the queue is news to the host after the one before it; what
\* the queue spells is what was asked for and not heard yet.
TypistInv ==
  /\ queue \in Seq(Reports) /\ asked \in Seq(Stroke) /\ heard \in Seq(Stroke)
  /\ GivenInv
  /\ queue # <<>> => timer
  /\ Begins(heard, asked)
  /\ ~timer => heard = asked
  /\ Apart(queue)
  /\ connected => Spells(queue, Len(heard), asked)
  /\ connected /\ queue # <<>> => News(queue[1])

\* That nothing comes between the last report and the tick after it.
NoLate == {"latetext", "latesweep", "latecancel"} \cap Environment = {}

LEMMA PositionsType == Positions \in Seq(Stroke)
<1>1. Positions \in Seq(Range(Positions)) /\ Range(Positions) \subseteq Stroke
  BY TypistAssumption DEF Stroke
<1>2. Len(Positions) \in Nat /\ \A i \in 1..Len(Positions) : Positions[i] \in Stroke
  BY <1>1, LenProperties, ElementOfSeq
<1> QED BY <1>1, <1>2

\* The strokes of text.
LEMMA TextType ==
  ASSUME NEW n \in Nat, NEW chunk \in [1..n -> Chars]
  PROVE  Decoded(chunk) \in Seq(Stroke) /\ Decoded(<<Esc>> \o chunk) \in Seq(Stroke)
<1>1. chunk \in Seq(Chars)
  OBVIOUS
<1>2. <<Esc>> \in Seq(Chars)
  BY DEF Chars
<1>3. <<Esc>> \o chunk \in Seq(Chars)
  BY <1>1, <1>2, ConcatProperties
<1> QED BY <1>1, <1>3, DecodedType

\* More asked for: what has been heard is still the beginning of it.
LEMMA BeginsMore ==
  ASSUME NEW s \in Seq(Stroke), NEW t \in Seq(Stroke), NEW u \in Seq(Stroke),
         Begins(s, t)
  PROVE  /\ t \o u \in Seq(Stroke) /\ Begins(s, t \o u)
         /\ Len(t \o u) = Len(t) + Len(u) /\ Begins(t, t \o u)
<1>1. /\ Len(s) \in Nat /\ Len(t) \in Nat /\ Len(u) \in Nat
      /\ t \o u \in Seq(Stroke) /\ Len(t \o u) = Len(t) + Len(u)
      /\ \A i \in 1..Len(t) + Len(u) :
           (t \o u)[i] = IF i <= Len(t) THEN t[i] ELSE u[i - Len(t)]
  BY LenProperties, ConcatProperties
<1>2. \A i \in 1..Len(t) : (t \o u)[i] = t[i]
  BY <1>1
<1> QED BY <1>1, <1>2 DEF Begins

LEMMA TypeStep ==
  ASSUME TypistInv, NEW strokes \in Seq(Stroke), Type(strokes), ~Idle,
         UNCHANGED <<keys, host, heard>>
  PROVE  TypistInv'
<1> USE DEF TypistInv
<1>1. /\ queue' \in Seq(Reports) /\ Apart(queue')
      /\ strokes = <<>> => queue' = queue
      /\ strokes # <<>> => /\ queue' # <<>> /\ strokes[1] \in Stroke
                           /\ queue'[1] = IF queue = <<>> THEN PressOf(strokes[1])
                                          ELSE queue[1]
      /\ \A h : \A all \in Seq(Stroke) :
           Spells(queue, h, all) => Spells(queue', h, all \o strokes)
  BY TextQueued DEF Type
<1>2. asked' = asked \o strokes /\ heard' = heard /\ host' = host
      /\ connected' = connected /\ UNCHANGED <<pressed, modifiers>>
  BY DEF Type, keys
<1>3. asked' \in Seq(Stroke) /\ Begins(heard', asked')
  BY <1>2, BeginsMore
<1>4. strokes = <<>> => asked' = asked
  BY <1>2, ConcatEmptySeq
<1>5. queue' # <<>> => timer'
  BY DEF Type
<1>6. ~timer' => ~timer /\ strokes = <<>>
  BY <1>1 DEF Type
<1>7. GivenInv'
  BY <1>2, <1>6 DEF GivenInv, LinkGivenBack
<1>8. ~timer' => heard' = asked'
  BY <1>2, <1>4, <1>6
<1>9. connected' => Spells(queue', Len(heard'), asked')
  BY <1>1, <1>2
<1>10. ASSUME connected', queue' # <<>>
       PROVE  News(queue[1])'
  <2>1. CASE queue # <<>>
    BY <1>1, <1>2, <1>10, <2>1 DEF News
  <2>2. CASE queue = <<>>
    BY <1>2, <1>10, <2>2 DEF Idle, GivenInv, LinkGivenBack, News
  <2> QED BY <2>1, <2>2
<1> QED BY <1>1, <1>2, <1>3, <1>5, <1>7, <1>8, <1>9, <1>10

LEMMA ForgetStep ==
  ASSUME TypistInv, GivenInv', queue' = <<>>, Forget, heard' = heard
  PROVE  TypistInv'
<1>1. asked' = heard /\ heard \in Seq(Stroke)
  BY DEF Forget, TypistInv
<1>2. <<>> \in Seq(Reports) /\ Apart(<<>>)
  BY EmptySeq DEF Apart
<1>3. Begins(heard, heard) /\ Spells(<<>>, Len(heard), heard)
  BY <1>1, LenProperties, SpellsNothing DEF Begins
<1> QED BY <1>1, <1>2, <1>3 DEF TypistInv

LEMMA TypistInit ==
  ASSUME Init
  PROVE  TypistInv
<1>1. /\ queue = <<>> /\ asked = <<>> /\ heard = <<>>
      /\ timer = FALSE
  BY DEF Init
<1>2. <<>> \in Seq(Reports) /\ <<>> \in Seq(Stroke) /\ Len(<<>>) = 0
  BY EmptySeq
<1>3. GivenInv
  BY DEF Init, GivenInv, LinkGivenBack, Released, Report
<1>4. Apart(<<>>) /\ Begins(<<>>, <<>>)
  BY <1>2 DEF Apart, Begins
<1>5. Spells(<<>>, Len(<<>>), <<>>)
  BY <1>2, SpellsNothing
<1> QED BY <1>1, <1>2, <1>3, <1>4, <1>5 DEF TypistInv

\* What a report the host reads makes of the queue and what has been heard.
LEMMA ReportRead ==
  ASSUME TypistInv, DrainReport, connected'
  PROVE  /\ host' = Head(queue) /\ UNCHANGED keys
         /\ News(Head(queue))
         /\ \/ /\ heard' = heard
               /\ Spells(queue', Len(heard), asked)
            \/ /\ Len(heard) + 1 \in 1..Len(asked)
               /\ heard' = Append(heard, asked[Len(heard) + 1])
               /\ Spells(queue', Len(heard) + 1, asked)
<1> USE DEF TypistInv
<1> DEFINE r == Head(queue)
           h == Len(heard)
<1>1. /\ connected /\ queue # <<>> /\ queue' = Tail(queue)
      /\ host' = r /\ UNCHANGED keys
      /\ heard' = IF New(r) = {} /\ ~Held(r) THEN heard
                  ELSE Append(heard, [mods |-> r.mods, key |-> CHOOSE k \in r.keys : TRUE])
  BY DEF DrainReport, Unlinked
<1>2. r = queue[1] /\ News(r)
  BY <1>1, QueueDrained
<1>3. \/ r.keys = {} /\ Spells(queue', h, asked)
      \/ /\ h \in Nat /\ h + 1 \in 1..Len(asked) /\ r = PressOf(asked[h + 1])
         /\ Spells(queue', h + 1, asked)
  BY <1>1, SpellsTail
<1> HIDE DEF r, h
<1>4. CASE r.keys = {} /\ Spells(queue', h, asked)
  BY <1>1, <1>2, <1>4 DEF New, Held, r, h
<1>5. CASE /\ h \in Nat /\ h + 1 \in 1..Len(asked) /\ r = PressOf(asked[h + 1])
           /\ Spells(queue', h + 1, asked)
  <2> DEFINE s == asked[h + 1]
  <2>1. s \in Stroke /\ s = [mods |-> s.mods, key |-> s.key]
    BY <1>5, ElementOfSeq, TypistAssumption
  <2>2. r.mods = s.mods /\ r.keys = {s.key}
    BY <1>5 DEF PressOf, Report
  <2> HIDE DEF s
  <2>3. New(r) # {} \/ Held(r)
    BY <1>2, <2>2 DEF New, Held, News
  <2>4. (CHOOSE k \in r.keys : TRUE) = s.key
    BY <2>2
  <2>5. heard' = Append(heard, s)
    BY <1>1, <2>1, <2>2, <2>3, <2>4
  <2> QED BY <1>1, <1>2, <1>5, <2>5 DEF s, r, h
<1> QED BY <1>3, <1>4, <1>5

LEMMA ReportStep ==
  ASSUME NoLate, TypistInv, GivenInv', DrainReport
  PROVE  TypistInv'
<1> USE DEF TypistInv
<1>1. /\ queue # <<>> /\ queue' = Tail(queue) /\ asked' = asked
      /\ timer /\ timer' = timer
  BY DEF DrainReport
<1>2. /\ Head(queue) = queue[1] /\ queue' \in Seq(Reports) /\ Apart(queue')
      /\ queue' # <<>> => Parted(Head(queue), queue'[1])
  BY <1>1, QueueDrained
<1>3. CASE ~connected'
  <2>1. heard' = heard
    BY <1>3, <1>1 DEF DrainReport, Unlinked, keys
  <2> QED BY <1>1, <1>2, <1>3, <2>1
<1>4. CASE connected'
  <2>1. /\ host' = Head(queue) /\ UNCHANGED keys
        /\ \/ /\ heard' = heard
              /\ Spells(queue', Len(heard), asked)
           \/ /\ Len(heard) + 1 \in 1..Len(asked)
              /\ heard' = Append(heard, asked[Len(heard) + 1])
              /\ Spells(queue', Len(heard) + 1, asked)
    BY <1>4, ReportRead
  <2>2. queue' # <<>> => News(queue[1])'
    BY <1>2, <2>1 DEF News, Parted
  <2>3. CASE heard' = heard /\ Spells(queue', Len(heard), asked)
    BY <1>1, <1>2, <2>1, <2>3, <2>2 DEF keys
  <2>4. CASE /\ Len(heard) + 1 \in 1..Len(asked)
             /\ heard' = Append(heard, asked[Len(heard) + 1])
             /\ Spells(queue', Len(heard) + 1, asked)
    <3>1. asked[Len(heard) + 1] \in Stroke
      BY <2>4, ElementOfSeq
    <3>2. /\ heard' \in Seq(Stroke) /\ Len(heard') = Len(heard) + 1
          /\ \A i \in 1..Len(heard) : heard'[i] = heard[i]
          /\ heard'[Len(heard) + 1] = asked[Len(heard) + 1]
          /\ Len(heard) \in Nat
      BY <2>4, <3>1, AppendProperties, LenProperties
    <3>3. Begins(heard', asked')
      <4>1. ASSUME NEW i \in 1..Len(heard') PROVE heard'[i] = asked[i]
        <5>1. i \in 1..Len(heard) \/ i = Len(heard) + 1
          BY <3>2
        <5> QED BY <3>2, <5>1 DEF Begins
      <4>2. Len(heard') <= Len(asked)
        BY <2>4, <3>2
      <4> QED BY <1>1, <4>1, <4>2 DEF Begins
    <3> QED BY <1>1, <1>2, <2>1, <2>4, <2>2, <3>2, <3>3 DEF keys
  <2> QED BY <2>1, <2>3, <2>4
<1> QED BY <1>3, <1>4

LEMMA SweepStep ==
  ASSUME NoLate, TypistInv, Learn
  PROVE  TypistInv'
<1> USE DEF TypistInv
<1>1. /\ connected /\ ~timer /\ queue = <<>> /\ heard = asked
      /\ queue' = queue \o Plainly(Positions) /\ timer' = TRUE
      /\ asked' = asked \o Positions
      /\ UNCHANGED <<keys, host, heard>>
  BY DEF Learn, NoLate
<1>2. /\ Plainly(Positions) \in Seq(Reports) /\ Apart(Plainly(Positions))
      /\ Plainly(Positions) # <<>> =>
           Positions[1] \in Stroke /\ Plainly(Positions)[1] = PressOf(Positions[1])
      /\ Spells(Plainly(Positions), Len(asked), asked \o Positions)
  BY PositionsType, SweepQueued
<1>3. queue' = Plainly(Positions)
  BY <1>1, <1>2, ConcatEmptySeq
<1>4. asked' \in Seq(Stroke) /\ Begins(heard', asked')
  BY <1>1, PositionsType, BeginsMore
<1>5. connected' => Spells(queue', Len(heard'), asked')
  BY <1>1, <1>2, <1>3
<1>6. News(queue[1])'
  BY <1>1 DEF GivenInv, LinkGivenBack, News, keys
<1>7. GivenInv'
  BY <1>1 DEF GivenInv, LinkGivenBack, keys
<1>8. queue' \in Seq(Reports) /\ Apart(queue')
  BY <1>2, <1>3
<1> QED BY <1>1, <1>4, <1>5, <1>6, <1>7, <1>8

LEMMA KeysStep ==
  ASSUME TypistInv, GivenInv', UNCHANGED <<queue, timer, asked, heard>>,
         connected' => connected \/ (queue = <<>> /\ heard = asked),
         \/ UNCHANGED <<host, pressed, modifiers>>
         \/ ~connected'
         \/ host' = Report(modifiers', pressed')
  PROVE  TypistInv'
<1> USE DEF TypistInv
<1>1. connected' => Spells(queue', Len(heard'), asked')
  <2>1. CASE connected
    BY <2>1
  <2>2. CASE queue = <<>> /\ heard = asked
    BY <2>2, SpellsNothing
  <2> QED BY <2>1, <2>2
<1>2. ASSUME connected', queue' # <<>>
      PROVE  News(queue[1])'
  <2>1. CASE UNCHANGED <<host, pressed, modifiers>>
    <3>1. connected
      BY <1>2
    <3> QED BY <1>2, <2>1, <3>1 DEF News
  <2>2. CASE host' = Report(modifiers', pressed')
    BY <2>2 DEF News, Report
  <2> QED BY <1>2, <2>1, <2>2
<1> QED BY <1>1, <1>2

\* What text, or an Escape no more of which comes, asks for.
LEMMA TextAsks ==
  ASSUME TextInput \/ GiveUpWaiting
  PROVE  \E strokes \in Seq(Stroke) : Type(strokes) /\ (NoLate => ~Idle)
<1>1. CASE TextInput
  <2>1. PICK n \in 1..MaxChunk : \E chunk \in [1..n -> Chars] :
          Type(Decoded(IF pending THEN <<Esc>> \o chunk ELSE chunk))
    BY <1>1 DEF TextInput
  <2>2. n \in Nat
    BY TypistAssumption
  <2>3. \A chunk \in [1..n -> Chars] :
          Decoded(IF pending THEN <<Esc>> \o chunk ELSE chunk) \in Seq(Stroke)
    BY <2>2, TextType
  <2>4. (NoLate => ~Idle)
    BY <1>1 DEF TextInput, Idle, NoLate
  <2> QED BY <2>1, <2>3, <2>4
<1>2. CASE GiveUpWaiting
  <2> DEFINE strokes == IF pending THEN <<Esc>> ELSE <<>>
  <2>1. strokes \in Seq(Stroke)
    <3>1. <<Esc>> \in Seq(Stroke)
      BY DEF Stroke, Chars
    <3>2. <<>> \in Seq(Stroke)
      BY EmptySeq
    <3> QED BY <3>1, <3>2
  <2>2. Type(strokes) /\ (NoLate => ~Idle)
    BY <1>2 DEF GiveUpWaiting, Idle, NoLate
  <2> HIDE DEF strokes
  <2> QED BY <2>1, <2>2
<1> QED BY <1>1, <1>2

LEMMA TypistStep ==
  ASSUME NoLate, TypistInv, [Next]_vars
  PROVE  TypistInv'
<1>1. GivenInv'
  BY GivenStep DEF NoLate, NoLateCancel, TypistInv
<1>2. queue # <<>> => timer
  BY DEF TypistInv
<1>3. CASE TextInput \/ GiveUpWaiting
  <2>1. PICK strokes \in Seq(Stroke) : Type(strokes) /\ ~Idle
    BY <1>3, TextAsks DEF Idle
  <2>2. UNCHANGED <<keys, host, heard>>
    BY <1>3 DEF TextInput, GiveUpWaiting
  <2> QED BY <2>1, <2>2, TypeStep
<1>4. CASE Drain
  <2>1. CASE DrainDropped
    BY <1>1, <1>2, <2>1, ForgetStep DEF DrainDropped, keys
  <2>2. CASE DrainEmpty
    <3>1. /\ connected /\ queue = <<>> /\ UNCHANGED <<queue, connected, asked, heard>>
          /\ timer' = FALSE /\ SendKeys(pressed, modifiers)
      BY <2>2 DEF DrainEmpty
    <3>2. Len(heard) = Len(asked)
      BY <3>1, SpelledOut DEF TypistInv
    <3>3. heard = asked
      BY <3>2, SeqEqual DEF TypistInv, Begins
    <3> QED BY <1>1, <1>2, <3>1, <3>3 DEF TypistInv, SendKeys
  <2>3. CASE DrainReport
    BY <1>1, <2>3, ReportStep
  <2> QED BY <1>4, <2>1, <2>2, <2>3 DEF Drain
<1>5. CASE Learn
  BY <1>5, SweepStep
<1>6. CASE Poll
  <2>1. CASE PollStopped
    BY <1>1, <1>2, <2>1, ForgetStep DEF PollStopped, Clear, SendKeys
  <2>2. CASE PollDone
    BY <1>1, <1>2, <2>2, KeysStep DEF PollDone, typing, keys
  <2>3. CASE PollLate
    BY <1>1, <1>2, <2>3, KeysStep DEF PollLate, typing, keys
  <2> QED BY <1>6, <2>1, <2>2, <2>3 DEF Poll
<1>7. CASE Cancel
  BY <1>1, <1>2, <1>7, ForgetStep DEF Cancel, Clear, SendKeys
<1>8. CASE Keyboard
  <2>1. PICK p, m : SendKeys(p, m)
    BY <1>8, KeyboardSends
  <2>2. UNCHANGED <<queue, timer, connected, asked, heard>>
    BY <1>8 DEF Keyboard, typing
  <2> QED BY <1>1, <2>1, <2>2, KeysStep DEF SendKeys
<1>9. CASE LinkDown
  BY <1>1, <1>2, <1>9, KeysStep DEF LinkDown, Unlinked, typing
<1>10. CASE LinkUp
  <2>1. ~timer /\ heard = asked /\ queue = <<>>
    BY <1>10, <1>2 DEF LinkUp, TypistInv
  <2> QED BY <1>1, <1>2, <1>10, <2>1, KeysStep DEF LinkUp, typing
<1>11. CASE UNCHANGED vars
  BY <1>1, <1>2, <1>11, KeysStep DEF vars, typing, keys
<1> QED
  BY <1>3, <1>4, <1>5, <1>6, <1>7, <1>8, <1>9, <1>10, <1>11 DEF Next

LEMMA TypistAlways ==
  ASSUME NoLate
  PROVE  Spec => []TypistInv
<1>1. Init => TypistInv
  BY TypistInit
<1>2. TypistInv /\ [Next]_vars => TypistInv'
  BY TypistStep
<1> QED BY <1>1, <1>2, PTL DEF Spec

\* Once nothing is being typed, all that was asked for and not given up has
\* been heard (_stroke), strokes of a key held on the keyboard excepted: no
\* text comes where the violating run has it come.
THEOREM AllIsHeard ==
  ASSUME NoLate
  PROVE  Spec => []AllHeard
<1>1. TypistInv => AllHeard
  BY DEF TypistInv, AllHeard
<1> QED BY <1>1, TypistAlways, PTL

-----------------------------------------------------------------------------
(***************************************************************************)
(* The typist does what TypedText promises.                                *)
(***************************************************************************)
LEMMA AsksMore ==
  ASSUME TypistInv, NEW strokes \in Seq(Stroke),
         asked' = asked \o strokes, heard' = heard
  PROVE  Promise!Ask \/ UNCHANGED <<asked, heard>>
<1>1. /\ Len(asked) \in Nat /\ Len(strokes) \in Nat
      /\ asked' \in Seq(Stroke) /\ Len(asked') = Len(asked) + Len(strokes)
      /\ \A i \in 1..Len(asked) : asked'[i] = asked[i]
  BY LenProperties, BeginsMore DEF TypistInv, Begins
<1>2. CASE strokes = <<>>
  BY <1>2, ConcatEmptySeq DEF TypistInv
<1>3. CASE strokes # <<>>
  <2>1. Len(strokes) # 0
    BY <1>3, EmptySeq
  <2>2. /\ SubSeq(asked', 1, Len(asked)) \in Seq(Stroke)
        /\ Len(SubSeq(asked', 1, Len(asked))) = Len(asked)
        /\ \A i \in 1..Len(asked) : SubSeq(asked', 1, Len(asked))[i] = asked[i]
    <3>1. \A i \in 1..Len(asked) : asked'[i] \in Stroke
      BY <1>1, ElementOfSeq
    <3> QED BY <1>1, <3>1, SubSeqProperties
  <2>3. SubSeq(asked', 1, Len(asked)) = asked
    BY <2>2, SeqEqual DEF TypistInv
  <2>4. \E n \in 1..Len(asked') - Len(asked) :
          /\ Len(asked') = Len(asked) + n
          /\ SubSeq(asked', 1, Len(asked)) = asked
    <3>1. Len(strokes) \in 1..Len(asked') - Len(asked)
      BY <1>1, <2>1
    <3> QED BY <1>1, <2>3, <3>1
  <2> QED BY <2>4 DEF Promise!Ask
<1> QED BY <1>2, <1>3

LEMMA PromiseStep ==
  ASSUME NoLate, TypistInv, [Next]_vars
  PROVE  [Promise!Next]_<<asked, heard>>
<1> DEFINE Promised == \/ Promise!Ask \/ Promise!Hear \/ Promise!GiveUp
                       \/ UNCHANGED <<asked, heard>>
<1> SUFFICES Promised
  BY DEF Promise!Next
<1>1. ASSUME Forget, heard' = heard PROVE Promised
  BY <1>1 DEF Forget, Promise!GiveUp
<1>2. CASE TextInput \/ GiveUpWaiting
  <2>1. PICK strokes \in Seq(Stroke) : asked' = asked \o strokes
    BY <1>2, TextAsks DEF Type
  <2>2. heard' = heard
    BY <1>2 DEF TextInput, GiveUpWaiting
  <2> QED BY <2>1, <2>2, AsksMore
<1>3. CASE Drain
  <2>1. CASE DrainDropped
    BY <1>1, <2>1 DEF DrainDropped
  <2>2. CASE DrainEmpty
    BY <2>2 DEF DrainEmpty
  <2>3. CASE DrainReport
    <3>1. asked' = asked
      BY <2>3 DEF DrainReport
    <3>2. CASE ~connected'
      BY <2>3, <3>1, <3>2 DEF DrainReport, keys, TypistInv
    <3>3. CASE connected'
      <4>1. \/ heard' = heard
            \/ /\ Len(heard) + 1 \in 1..Len(asked)
               /\ heard' = Append(heard, asked[Len(heard) + 1])
        BY <2>3, <3>3, ReportRead
      <4>2. Len(heard) \in Nat
        BY LenProperties DEF TypistInv
      <4> QED BY <3>1, <4>1, <4>2 DEF Promise!Hear
    <3> QED BY <3>2, <3>3
  <2> QED BY <1>3, <2>1, <2>2, <2>3 DEF Drain
<1>4. CASE Learn
  <2>1. asked' = asked \o Positions /\ heard' = heard
    BY <1>4 DEF Learn
  <2> QED BY <2>1, PositionsType, AsksMore
<1>5. CASE Poll
  BY <1>1, <1>5 DEF Poll, PollStopped, Clear, PollDone, PollLate
<1>6. CASE Cancel
  BY <1>1, <1>6 DEF Cancel, Clear
<1>7. CASE Keyboard \/ LinkDown \/ LinkUp \/ UNCHANGED vars
  BY <1>7 DEF Keyboard, LinkDown, LinkUp, vars
<1> QED BY <1>2, <1>3, <1>4, <1>5, <1>6, <1>7 DEF Next

\* The phone hears what was asked for, each stroke once and in order, up to
\* what is given up (typist._stroke), whatever is pressed on the keyboard
\* meanwhile; a stroke of a key held there counts as heard.
THEOREM PromiseIsKept ==
  ASSUME NoLate
  PROVE  Spec => PromiseKept
<1>1. Init => Promise!Init
  BY DEF Init, Promise!Init
<1>2. TypistInv /\ [Next]_vars => [Promise!Next]_<<asked, heard>>
  BY PromiseStep
<1> QED
  BY <1>1, <1>2, TypistAlways, PTL DEF Spec, PromiseKept, Promise!Spec

-----------------------------------------------------------------------------
\* No report of a paste presses a key and at once lets go of a modifier that
\* a stroke before it pressed (_stroke), whatever the keyboard does meanwhile.
THEOREM ReleaseIsApart ==
  ASSUME NoLate
  PROVE  Spec => ReleasesApart
<1> DEFINE Act == DrainReport /\ connected' /\ New(Head(queue)) # {}
                    => host.mods \ modifiers \subseteq host'.mods
<1>1. ASSUME TypistInv, DrainReport, connected', New(Head(queue)) # {}
      PROVE  host.mods \ modifiers \subseteq host'.mods
  <2>1. host' = Head(queue) /\ News(Head(queue))
    BY <1>1, ReportRead
  <2>2. Head(queue).keys # {}
    BY <1>1 DEF New
  <2> QED BY <2>1, <2>2 DEF News
<1>2. TypistInv /\ [Next]_vars => [Act]_vars
  BY <1>1
<1> HIDE DEF Act
<1>3. Spec => [][Act]_vars
  BY <1>2, TypistAlways, PTL DEF Spec
<1> QED BY <1>3 DEF ReleasesApart, Act

-----------------------------------------------------------------------------
(***************************************************************************)
(* A sweep is heard whole.                                                 *)
(***************************************************************************)
\* While a sweep has not seen the link go, what it asked for is asked for.
SweepInv == goal \in Nat /\ (sweeping /\ connected => Len(asked) >= goal)

\* That a sweep sees the link go before it is back.
NoQuickBack == "quickback" \notin Environment

LEMMA SweepInvStep ==
  ASSUME NoLate, NoQuickBack, TypistInv, SweepInv, [Next]_vars
  PROVE  SweepInv'
<1>1. ASSUME NEW strokes \in Seq(Stroke), asked' = asked \o strokes
      PROVE  Len(asked') \in Nat /\ Len(asked) \in Nat /\ Len(asked') >= Len(asked)
  BY <1>1, BeginsMore, LenProperties DEF TypistInv
<1>2. CASE TextInput \/ GiveUpWaiting
  <2>1. UNCHANGED <<sweep, connected>>
    BY <1>2 DEF TextInput, GiveUpWaiting, keys
  <2>2. PICK strokes \in Seq(Stroke) : asked' = asked \o strokes
    BY <1>2, TextAsks DEF Type
  <2> QED BY <1>1, <2>1, <2>2 DEF SweepInv, sweep
<1>3. CASE Drain
  BY <1>3 DEF Drain, DrainDropped, DrainEmpty, DrainReport, Unlinked, SweepInv,
              sweep, keys
<1>4. CASE Learn
  BY <1>1, <1>4, PositionsType DEF Learn, SweepInv
<1>5. CASE Poll
  BY <1>5 DEF Poll, PollStopped, PollDone, PollLate, Finish, SweepInv
<1>6. CASE Cancel
  BY <1>6 DEF Cancel, Finish, SweepInv
<1>7. CASE Keyboard \/ LinkDown
  BY <1>7 DEF Keyboard, LinkDown, Unlinked, SweepInv, sweep
<1>8. CASE LinkUp
  BY <1>8 DEF LinkUp, NoQuickBack, SweepInv, sweep
<1>9. CASE UNCHANGED vars
  BY <1>9 DEF vars, keys, sweep, SweepInv
<1> QED
  BY <1>2, <1>3, <1>4, <1>5, <1>6, <1>7, <1>8, <1>9 DEF Next

\* A sweep that says it is done was heard whole (Sweep.poll).
THEOREM DoneIsDone ==
  ASSUME NoLate, NoQuickBack
  PROVE  Spec => DoneIsWhole
<1> DEFINE Act == verdict' = "done" /\ sweeping /\ ~sweeping' => Len(heard) >= goal
<1>1. Init => SweepInv
  BY DEF Init, SweepInv
<1>2. TypistInv /\ SweepInv /\ [Next]_vars => SweepInv'
  BY SweepInvStep
<1>3. ASSUME TypistInv, SweepInv, Next, verdict' = "done", sweeping, ~sweeping'
      PROVE  Len(heard) >= goal
  <2>1. PollDone
    BY <1>3 DEF Next, TextInput, GiveUpWaiting, Drain, DrainDropped, DrainEmpty,
                DrainReport, Learn, Poll, PollStopped, PollLate, Cancel, Finish,
                Keyboard, LinkDown, LinkUp, sweep
  <2>2. connected /\ queue = <<>>
    BY <2>1 DEF PollDone
  <2>3. Len(heard) = Len(asked)
    BY <1>3, <2>2, SpelledOut DEF TypistInv
  <2> QED BY <1>3, <2>2, <2>3 DEF SweepInv
<1>4. TypistInv /\ SweepInv /\ [Next]_vars => [Act]_vars
  BY <1>3
<1> HIDE DEF Act
<1>5. Spec => []SweepInv
  BY <1>1, <1>2, TypistAlways, PTL DEF Spec
<1>6. Spec => [][Act]_vars
  BY <1>4, <1>5, TypistAlways, PTL DEF Spec
<1> QED BY <1>6 DEF DoneIsWhole, Act
=============================================================================
