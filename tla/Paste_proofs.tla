---------------------------- MODULE Paste_proofs ----------------------------
(***************************************************************************)
(* That what the phone writes of a text is the text, for every phone and   *)
(* console, every text and every way it is cut up on its way.              *)
(*                                                                         *)
(* In the order of the argument: decode is the same however a text is cut; *)
(* keystrokes are typed one after the other, whatever was there before;    *)
(* decode finds in a text what a whole sequence is said to be; each        *)
(* keymap there can be types each character as it comes; and so the text   *)
(* is typed as it reads.                                                   *)
(*                                                                         *)
(* decode, FoldLeft and FlattenSeq are recursive: what they compute is     *)
(* said of every text by induction over a set of its indices (UpTo).       *)
(***************************************************************************)
EXTENDS Paste, FiniteSetTheorems, SequenceTheorems, TLAPS

-----------------------------------------------------------------------------
(***************************************************************************)
(* Numbers.                                                                *)
(***************************************************************************)
\* A set of naturals has a least one.
LEMMA LeastNumber ==
  ASSUME NEW B \in SUBSET Nat, B # {}
  PROVE  \E n \in B : \A m \in B : n <= m
<1> DEFINE T == {1..n : n \in B}
           R == StrictSubsetOrdering(Nat)
<1>1. T \subseteq FiniteSubsetsOf(Nat) /\ T # {}
  <2>1. \A n \in B : IsFiniteSet(1..n) /\ 1..n \in SUBSET Nat
    BY FS_Interval
  <2> QED BY <2>1 DEF FiniteSubsetsOf
<1>2. IsWellFoundedOn(R, FiniteSubsetsOf(Nat))
  BY FS_StrictSubsetOrderingWellFounded
<1> HIDE DEF T, R
<1>3. PICK x \in T : \A y \in T : ~(<<y, x>> \in R)
  BY <1>1, <1>2, WFMin
<1>4. PICK n \in B : x = 1..n
  BY DEF T
<1>5. ASSUME NEW m \in B, ~(n <= m)
      PROVE  FALSE
  <2>1. 1..m \in T
    BY DEF T
  <2>2. 1..m \subseteq 1..n /\ n \in 1..n /\ n \notin 1..m
    BY <1>5
  <2>3. <<1..m, 1..n>> \in R
    BY <2>2 DEF R, StrictSubsetOrdering
  <2> QED BY <1>3, <1>4, <2>1, <2>3
<1> QED BY <1>5

\* Induction up to N, of a set.
LEMMA UpTo ==
  ASSUME NEW N \in Nat, NEW B,
         0 \in B, \A n \in 1..N : n - 1 \in B => n \in B
  PROVE  \A n \in 0..N : n \in B
<1> DEFINE Bad == {n \in 0..N : n \notin B}
<1>1. ASSUME Bad # {}
      PROVE  FALSE
  <2>1. PICK n \in Bad : \A m \in Bad : n <= m
    <3>1. Bad \in SUBSET Nat
      OBVIOUS
    <3> HIDE DEF Bad
    <3> QED BY <1>1, <3>1, LeastNumber
  <2>2. n \in 1..N
    OBVIOUS
  <2>3. n - 1 \in 0..N /\ n - 1 \notin Bad
    BY <2>1, <2>2
  <2> QED BY <2>2, <2>3
<1> QED BY <1>1

-----------------------------------------------------------------------------
(***************************************************************************)
(* A recursive walk: what it makes of a text from position i on depends    *)
(* on what it makes of it from a later one on.                             *)
(***************************************************************************)
Walk(f, X, n, next, F, base) ==
  /\ f \in [1..n + 1 -> X]
  /\ f[n + 1] = base
  /\ \A i \in 1..n : f[i] = F[<<i, f[next[i]]>>]

\* A walk whose steps stay within X is defined.
LEMMA WalkExists ==
  ASSUME NEW X, NEW n \in Nat, NEW base \in X,
         NEW next \in [1..n -> 2..n + 1], \A i \in 1..n : next[i] > i,
         NEW F \in [(1..n) \X X -> X]
  PROVE  \E f : Walk(f, X, n, next, F, base)
<1> DEFINE From(f, m) == /\ f \in [1..n + 1 -> X]
                         /\ f[n + 1] = base
                         /\ \A i \in n - m + 1..n : f[i] = F[<<i, f[next[i]]>>]
           B == {m \in 0..n : \E f : From(f, m)}
<1>1. 0 \in B
  <2>1. From([i \in 1..n + 1 |-> base], 0)
    OBVIOUS
  <2> QED BY <2>1
<1>2. ASSUME NEW m \in 1..n, m - 1 \in B
      PROVE  m \in B
  <2>1. PICK f : From(f, m - 1)
    BY <1>2
  <2> DEFINE k == n - m + 1
             g == [f EXCEPT ![k] = F[<<k, f[next[k]]>>]]
  <2>2. k \in 1..n /\ next[k] \in 1..n + 1 /\ f[next[k]] \in X
    BY <2>1
  <2>3. F[<<k, f[next[k]]>>] \in X
    BY <2>2
  <2>4. g \in [1..n + 1 -> X] /\ g[n + 1] = base
    BY <2>1, <2>2, <2>3
  <2>5. ASSUME NEW i \in k..n
        PROVE  g[i] = F[<<i, g[next[i]]>>]
    <3>1. i \in 1..n /\ next[i] \in 2..n + 1 /\ next[i] > i
      BY <2>2
    <3>2. g[next[i]] = f[next[i]]
      BY <2>1, <3>1
    <3>3. CASE i = k
      <4>1. g[k] = F[<<k, f[next[k]]>>]
        BY <2>1, <2>2
      <4> QED BY <3>2, <3>3, <4>1
    <3>4. CASE i # k
      <4>1. i \in n - (m - 1) + 1..n
        BY <3>4
      <4>2. g[i] = f[i]
        BY <2>1, <3>1, <3>4
      <4> QED BY <2>1, <3>2, <4>1, <4>2
    <3> QED BY <3>3, <3>4
  <2>6. From(g, m)
    <3> HIDE DEF g
    <3> QED BY <2>4, <2>5
  <2> HIDE DEF g, From
  <2> QED BY <2>6
<1>2a. \A m \in 1..n : m - 1 \in B => m \in B
  BY <1>2
<1> HIDE DEF B
<1>3. \A m \in 0..n : m \in B
  BY <1>1, <1>2a, UpTo
<1>4. PICK f : From(f, n)
  BY <1>3, n \in 0..n DEF B
<1>5. n - n + 1 = 1
  OBVIOUS
<1> QED BY <1>4, <1>5 DEF Walk

\* Two walks of the same steps are the same.
Agree(f, g, n, next) ==
  /\ n \in Nat
  /\ next \in [1..n -> 2..n + 1]
  /\ \A i \in 1..n : next[i] > i
  /\ f[n + 1] = g[n + 1]
  /\ \A i \in 1..n : f[next[i]] = g[next[i]] => f[i] = g[i]

\* Walks that agree on what comes next are one.
LEMMA WalkUnique ==
  ASSUME NEW f, NEW g, NEW n, NEW next, Agree(f, g, n, next)
  PROVE  \A i \in 1..n + 1 : f[i] = g[i]
<1> USE DEF Agree
<1> DEFINE B == {m \in 0..n : \A i \in n + 1 - m..n + 1 : f[i] = g[i]}
<1>1. 0 \in B
  OBVIOUS
<1>2. ASSUME NEW m \in 1..n, m - 1 \in B
      PROVE  m \in B
  <2>1. \A i \in n + 1 - m + 1..n + 1 : f[i] = g[i]
    <3>1. \A i \in n + 1 - (m - 1)..n + 1 : f[i] = g[i]
      BY <1>2
    <3>2. n + 1 - (m - 1) = n + 1 - m + 1
      OBVIOUS
    <3> QED BY <3>1, <3>2
  <2>2. n + 1 - m \in 1..n /\ next[n + 1 - m] \in n + 1 - m + 1..n + 1
    OBVIOUS
  <2>3. f[n + 1 - m] = g[n + 1 - m]
    BY <2>1, <2>2
  <2>4. \A i \in n + 1 - m..n + 1 : i = n + 1 - m \/ i \in n + 1 - m + 1..n + 1
    OBVIOUS
  <2> QED BY <2>1, <2>3, <2>4
<1>2a. \A m \in 1..n : m - 1 \in B => m \in B
  BY <1>2
<1> HIDE DEF B
<1>3. \A m \in 0..n : m \in B
  BY <1>1, <1>2a, UpTo
<1>4. \A i \in n + 1 - n..n + 1 : f[i] = g[i]
  BY <1>3, n \in 0..n DEF B
<1> QED BY <1>4

-----------------------------------------------------------------------------
(***************************************************************************)
(* match.                                                                  *)
(***************************************************************************)

\* Parameters end at the one place where they do.
LEMMA FinalIs ==
  ASSUME NEW S, NEW t \in Seq(S), Len(t) > 1
  PROVE  /\ Final(t) \in 3..Len(t) + 1
         /\ \A j \in 3..Final(t) - 1 : t[j] \in ParameterChars
         /\ Final(t) <= Len(t) => t[Final(t)] \notin ParameterChars
<1> DEFINE Ends(i) == /\ \A j \in 3..i - 1 : t[j] \in ParameterChars
                      /\ i <= Len(t) => t[i] \notin ParameterChars
           B == {i \in 3..Len(t) : t[i] \notin ParameterChars}
<1>0. Len(t) \in Nat
  OBVIOUS
<1>1. \E i \in 3..Len(t) + 1 : Ends(i)
  <2>1. CASE B = {}
    <3>1. Ends(Len(t) + 1)
      BY <1>0, <2>1
    <3> QED BY <1>0, <3>1
  <2>2. CASE B # {}
    <3>1. B \in SUBSET Nat
      BY <1>0
    <3> HIDE DEF B
    <3>2. PICK i \in B : \A m \in B : i <= m
      BY <2>2, <3>1, LeastNumber
    <3>3. Ends(i) /\ i \in 3..Len(t)
      BY <1>0, <3>2 DEF B
    <3> QED BY <1>0, <3>3
  <2> QED BY <2>1, <2>2
<1> HIDE DEF Ends
<1>2. Final(t) \in 3..Len(t) + 1 /\ Ends(Final(t))
  <2>1. Final(t) = CHOOSE i \in 3..Len(t) + 1 : Ends(i)
    BY DEF Final, Ends
  <2> QED BY <1>1, <2>1
<1> QED BY <1>2 DEF Ends

\* Final is the first character after the parameters.
LEMMA FinalOnce ==
  ASSUME NEW S, NEW t \in Seq(S), NEW i \in 3..Len(t),
         \A j \in 3..i - 1 : t[j] \in ParameterChars,
         t[i] \notin ParameterChars
  PROVE  Final(t) = i
<1>1. Len(t) \in Nat /\ Len(t) > 1
  OBVIOUS
<1>2. /\ Final(t) \in 3..Len(t) + 1
      /\ \A j \in 3..Final(t) - 1 : t[j] \in ParameterChars
      /\ Final(t) <= Len(t) => t[Final(t)] \notin ParameterChars
  BY <1>1, FinalIs
<1>3. ~(Final(t) < i)
  BY <1>1, <1>2
<1>4. ~(Final(t) > i)
  BY <1>1, <1>2
<1> QED BY <1>1, <1>2, <1>3, <1>4

\* What Control finds, if anything, is there whatever comes after it.
LEMMA ControlStable ==
  ASSUME NEW S, NEW t \in Seq(S), NEW u \in Seq(S), Len(t) > 1,
         Control(t).length # 0
  PROVE  /\ Control(t \o u) = Control(t)
         /\ Control(t).length = Final(t) /\ Final(t) \in 3..Len(t)
<1>0. Len(t) \in Nat /\ Len(u) \in Nat /\ t \o u \in Seq(S) /\ Len(t \o u) = Len(t) + Len(u)
  OBVIOUS
<1>1. /\ Final(t) \in 3..Len(t) + 1
      /\ \A j \in 3..Final(t) - 1 : t[j] \in ParameterChars
      /\ Final(t) <= Len(t) => t[Final(t)] \notin ParameterChars
  BY FinalIs
<1>2. Final(t) <= Len(t)
  BY <1>1 DEF Control, Arriving, Found
<1>3. \A j \in 1..Len(t) : (t \o u)[j] = t[j]
  BY <1>0
<1>4. Final(t \o u) = Final(t)
  <2>1. Final(t) \in 3..Len(t \o u) /\ (t \o u)[Final(t)] \notin ParameterChars
    BY <1>0, <1>1, <1>2, <1>3
  <2>2. \A j \in 3..Final(t) - 1 : (t \o u)[j] \in ParameterChars
    BY <1>0, <1>1, <1>2, <1>3
  <2> QED BY <1>0, <2>1, <2>2, FinalOnce
<1>5. SubSeq(t \o u, 3, Final(t) - 1) = SubSeq(t, 3, Final(t) - 1)
  <2>1. CASE Final(t) = 3
    BY <2>1
  <2>2. CASE Final(t) > 3
    BY <1>0, <1>1, <1>2, <2>2, SubSeqOfConcat1
  <2> QED BY <1>1, <2>1, <2>2
<1>6. (t \o u)[Final(t)] = t[Final(t)]
  BY <1>1, <1>2, <1>3
<1>7. Control(t \o u) = Control(t)
  <2> DEFINE Of(i, params, c) ==
        LET ns     == Parameters(params)
            mods   == ModifiersFrom(IF Len(ns) > 1 THEN ns[2] ELSE 1)
            number == IF ns[1] \in DOMAIN FinalNumbers THEN FinalNumbers[ns[1]]
                      ELSE "none"
        IN  CASE c = "~" /\ number = "none" -> Found(<<>>, i)
              [] c = "~" /\ number # "none" -> Found(<<Stroke(number, mods)>>, i)
              [] c # "~" -> Found(Keyed(FinalLetters, c,
                                       mods \cup ImplicitModifiers(c)), i)
  <2>1. ~(Final(t) > Len(t)) /\ ~(Final(t \o u) > Len(t \o u))
    BY <1>0, <1>1, <1>2, <1>4
  <2>2. Control(t) = Of(Final(t), SubSeq(t, 3, Final(t) - 1), t[Final(t)])
    BY <2>1, Zenon DEF Control
  <2>3. Control(t \o u) = Of(Final(t \o u), SubSeq(t \o u, 3, Final(t \o u) - 1),
                             (t \o u)[Final(t \o u)])
    BY <2>1, Zenon DEF Control
  <2> HIDE DEF Of
  <2> QED BY <1>4, <1>5, <1>6, <2>2, <2>3
<1>8. Control(t).length = Final(t)
  BY <1>1, <1>2 DEF Control, Found
<1> QED BY <1>1, <1>2, <1>7, <1>8

\* What match finds is no longer than the text, and is there whatever comes
\* after it.
LEMMA MatchLength ==
  ASSUME NEW S, NEW t \in Seq(S)
  PROVE  Match(t).length \in 0..Len(t)
<1>0. Len(t) \in Nat
  OBVIOUS
<1>1. CASE Len(t) > 2 /\ t[2] = "[" /\ t[3] # "["
  <2>1. Match(t) = Control(t)
    BY <1>0, <1>1 DEF Match
  <2>2. CASE Control(t).length = 0
    BY <1>0, <2>1, <2>2
  <2>3. CASE Control(t).length # 0
    BY <1>0, <1>1, <2>1, <2>3, ControlStable
  <2> QED BY <2>2, <2>3
<1>2. CASE Len(t) < 2 \/ (Len(t) > 1 /\ t[2] \notin {"O", "["})
  BY <1>0, <1>2 DEF Match, Arriving, Found
<1>3. CASE Len(t) = 2 /\ t[2] \in {"O", "["}
  BY <1>0, <1>3 DEF Match, Arriving, Found
<1>4. CASE Len(t) > 2 /\ t[2] = "O"
  BY <1>0, <1>4 DEF Match, Arriving, Found
<1>5. CASE Len(t) > 2 /\ t[2] = "[" /\ t[3] = "["
  BY <1>0, <1>5 DEF Match, Arriving, Found
<1>6. \/ Len(t) < 2
      \/ Len(t) > 1 /\ t[2] \notin {"O", "["}
      \/ Len(t) = 2 /\ t[2] \in {"O", "["}
      \/ Len(t) > 2 /\ t[2] \in {"O", "["}
  <2>1. Len(t) < 2 \/ (Len(t) > 1 /\ (Len(t) = 2 \/ Len(t) > 2))
    <3>1. \A n \in Nat : n < 2 \/ (n > 1 /\ (n = 2 \/ n > 2))
      OBVIOUS
    <3> QED BY <1>0, <3>1, Zenon
  <2> QED BY <2>1, Zenon
<1>7. CASE Len(t) > 2 /\ t[2] \in {"O", "["}
  BY <1>1, <1>4, <1>5, <1>7, Zenon
<1> QED BY <1>2, <1>3, <1>6, <1>7

\* What matched matches the same of a longer text.
LEMMA MatchStable ==
  ASSUME NEW S, NEW t \in Seq(S), NEW u \in Seq(S), Match(t).length # 0
  PROVE  Match(t \o u) = Match(t)
<1>0. /\ Len(t) \in Nat /\ Len(u) \in Nat /\ t \o u \in Seq(S)
      /\ Len(t \o u) = Len(t) + Len(u)
      /\ \A i \in 1..Len(t) : (t \o u)[i] = t[i]
  OBVIOUS
<1>1. Len(t) > 1
  BY <1>0 DEF Match, Arriving, Found
<1>2. (t \o u)[2] = t[2] /\ Len(t \o u) > 1
  BY <1>0, <1>1
<1>3. CASE t[2] \notin {"O", "["}
  BY <1>0, <1>1, <1>2, <1>3 DEF Match
<1>4. CASE t[2] \in {"O", "["}
  <2>1. Len(t) > 2
    BY <1>0, <1>1, <1>4 DEF Match, Arriving, Found
  <2>2. (t \o u)[3] = t[3] /\ Len(t \o u) > 2
    BY <1>0, <2>1
  <2>3. CASE t[2] = "O"
    BY <1>0, <1>2, <2>1, <2>2, <2>3 DEF Match
  <2>4. CASE t[2] = "[" /\ t[3] = "["
    <3>1. Len(t) >= 4
      BY <1>0, <2>1, <2>4 DEF Match, Arriving, Found
    <3>2. (t \o u)[4] = t[4] /\ Len(t \o u) >= 4
      BY <1>0, <3>1
    <3> QED BY <1>0, <1>2, <2>1, <2>2, <2>4, <3>1, <3>2 DEF Match
  <2>5. CASE t[2] = "[" /\ t[3] # "["
    <3>1. Match(t) = Control(t)
      BY <1>0, <2>1, <2>5 DEF Match
    <3>2. Match(t \o u) = Control(t \o u)
      BY <1>0, <1>2, <2>1, <2>2, <2>5 DEF Match
    <3> QED BY <1>1, <3>1, <3>2, ControlStable
  <2> QED BY <1>4, <2>3, <2>4, <2>5
<1> QED BY <1>3, <1>4

-----------------------------------------------------------------------------
(***************************************************************************)
(* decode.                                                                 *)
(***************************************************************************)

\* The items there may be in a text of the characters S.
Items(S) == {Char(c) : c \in S} \cup {Steps(Match(r).steps) : r \in Seq(S)}
              \cup {Unknown}

\* What decode answers of a text over S.
DecodeType(S) == [items : Seq(Items(S)), tail : Seq(S)]

\* decode takes some of a text or, of an escape, waits for more.
LEMMA BeginningIs ==
  ASSUME NEW S, NEW t \in Seq(S), t # <<>>
  PROVE  /\ Beginning(t).length \in 0..Len(t)
         /\ Beginning(t).item \in Items(S)
         /\ Beginning(t).length = 0 => t[1] = Esc
<1>1. Len(t) \in Nat \ {0} /\ t[1] \in S /\ Match(t).length \in 0..Len(t)
  BY MatchLength
<1>2. CASE t[1] # Esc
  BY <1>1, <1>2 DEF Beginning, Items
<1>3. CASE t[1] = Esc
  <2> DEFINE item == CASE Match(t).length = 1 -> Char(Esc)
                       [] Match(t).length # 1 /\ Match(t).steps = <<>> -> Unknown
                       [] Match(t).length # 1 /\ Match(t).steps # <<>> -> Steps(Match(t).steps)
  <2>1. Beginning(t) = [item |-> item, length |-> Match(t).length]
    BY <1>3 DEF Beginning
  <2>2. Char(Esc) \in Items(S) /\ Unknown \in Items(S) /\ Steps(Match(t).steps) \in Items(S)
    BY <1>1, <1>3 DEF Items
  <2>3. item \in Items(S)
    BY <2>2
  <2> HIDE DEF item
  <2> QED BY <1>1, <1>3, <2>1, <2>3
<1> QED BY <1>2, <1>3

\* What it took it takes of a longer text.
LEMMA BeginningStable ==
  ASSUME NEW S, NEW t \in Seq(S), NEW u \in Seq(S), t # <<>>,
         Beginning(t).length # 0
  PROVE  Beginning(t \o u) = Beginning(t)
<1>1. (t \o u)[1] = t[1]
  OBVIOUS
<1>2. CASE t[1] # Esc
  BY <1>1, <1>2 DEF Beginning
<1>3. CASE t[1] = Esc
  <2>1. Beginning(t).length = Match(t).length
    BY <1>3 DEF Beginning
  <2>2. Match(t \o u) = Match(t)
    BY <2>1, MatchStable
  <2> QED BY <1>1, <2>2 DEF Beginning
<1> QED BY <1>2, <1>3

\* A text from its i'th character on.
Rest(t, i) == SubSeq(t, i, Len(t))

\* The rest of a text, character by character.
LEMMA RestIs ==
  ASSUME NEW S, NEW t \in Seq(S), NEW i \in 1..Len(t) + 1
  PROVE  /\ Rest(t, i) \in Seq(S)
         /\ Len(Rest(t, i)) = Len(t) - i + 1
         /\ \A k \in 1..Len(t) - i + 1 : Rest(t, i)[k] = t[i + k - 1]
         /\ i <= Len(t) => Rest(t, i) # <<>>
<1>1. Len(t) \in Nat /\ \A k \in i..Len(t) : t[k] \in S
  OBVIOUS
<1>2. i \in Int /\ Len(t) \in Int
  BY <1>1
<1>3. /\ Rest(t, i) \in Seq(S)
      /\ Len(Rest(t, i)) = IF i <= Len(t) THEN Len(t) - i + 1 ELSE 0
      /\ \A k \in 1..Len(t) - i + 1 : Rest(t, i)[k] = t[i + k - 1]
  BY <1>1, <1>2, SubSeqProperties DEF Rest
<1> QED BY <1>1, <1>3

\* The rest of a rest is a rest.
LEMMA RestOfRest ==
  ASSUME NEW S, NEW t \in Seq(S), NEW i \in 1..Len(t) + 1,
         NEW k \in 1..Len(t) - i + 2
  PROVE  Rest(Rest(t, i), k) = Rest(t, i + k - 1)
<1>0. Len(t) \in Nat
  OBVIOUS
<1>1. /\ Rest(t, i) \in Seq(S) /\ Len(Rest(t, i)) = Len(t) - i + 1
      /\ \A j \in 1..Len(t) - i + 1 : Rest(t, i)[j] = t[i + j - 1]
  BY RestIs
<1>2. k \in 1..Len(Rest(t, i)) + 1 /\ i + k - 1 \in 1..Len(t) + 1
  BY <1>0, <1>1
<1> DEFINE a == Rest(Rest(t, i), k)
           b == Rest(t, i + k - 1)
<1>3. /\ a \in Seq(S) /\ Len(a) = Len(Rest(t, i)) - k + 1
      /\ \A j \in 1..Len(Rest(t, i)) - k + 1 : a[j] = Rest(t, i)[k + j - 1]
  BY <1>1, <1>2, RestIs
<1>4. /\ b \in Seq(S) /\ Len(b) = Len(t) - (i + k - 1) + 1
      /\ \A j \in 1..Len(t) - (i + k - 1) + 1 : b[j] = t[i + k - 1 + j - 1]
  BY <1>2, RestIs
<1> HIDE DEF a, b
<1>5. Len(a) = Len(b) /\ \A j \in 1..Len(a) : a[j] = b[j]
  BY <1>0, <1>1, <1>3, <1>4
<1> QED BY <1>3, <1>4, <1>5, SeqEqual DEF a, b

\* That f says of each position of t what decode makes of it from there.
Decodes(f, t) ==
  f = [i \in 1..Len(t) + 1 |->
         IF i > Len(t) THEN [items |-> <<>>, tail |-> <<>>]
         ELSE IF Beginning(Rest(t, i)).length = 0
           THEN [items |-> <<>>, tail |-> Rest(t, i)]
         ELSE [items |-> <<Beginning(Rest(t, i)).item>>
                         \o f[i + Beginning(Rest(t, i)).length].items,
               tail  |-> f[i + Beginning(Rest(t, i)).length].tail]]

\* Where decode goes on from position i.
NextOf(t, i) == IF Beginning(Rest(t, i)).length = 0 THEN i + 1
                ELSE i + Beginning(Rest(t, i)).length

\* decode goes forward, and no further than the end.
LEMMA NextIs ==
  ASSUME NEW S, NEW t \in Seq(S)
  PROVE  /\ [i \in 1..Len(t) |-> NextOf(t, i)] \in [1..Len(t) -> 2..Len(t) + 1]
         /\ \A i \in 1..Len(t) : /\ NextOf(t, i) > i
                                 /\ Beginning(Rest(t, i)).length \in 0..Len(t) - i + 1
<1>1. ASSUME NEW i \in 1..Len(t)
      PROVE  /\ Beginning(Rest(t, i)).length \in 0..Len(t) - i + 1
             /\ NextOf(t, i) \in 2..Len(t) + 1 /\ NextOf(t, i) > i
  <2>1. Len(t) \in Nat
    OBVIOUS
  <2>2. /\ Rest(t, i) \in Seq(S) /\ Rest(t, i) # <<>>
        /\ Len(Rest(t, i)) = Len(t) - i + 1
    BY <2>1, RestIs
  <2>3. Beginning(Rest(t, i)).length \in 0..Len(t) - i + 1
    BY <2>2, BeginningIs
  <2> QED BY <2>1, <2>3 DEF NextOf
<1> QED BY <1>1

\* There is such a decoding of every text.
LEMMA DecodesExists ==
  ASSUME NEW S, NEW t \in Seq(S)
  PROVE  \E f \in [1..Len(t) + 1 -> DecodeType(S)] : Decodes(f, t)
<1> DEFINE X == DecodeType(S)
           n == Len(t)
           next == [i \in 1..n |-> NextOf(t, i)]
           b(i) == Beginning(Rest(t, i))
           F == [p \in (1..n) \X X |->
                   IF b(p[1]).length = 0 THEN [items |-> <<>>, tail |-> Rest(t, p[1])]
                   ELSE [items |-> <<b(p[1]).item>> \o p[2].items, tail |-> p[2].tail]]
           base == [items |-> <<>>, tail |-> <<>>]
<1>1. n \in Nat /\ base \in X
  BY DEF DecodeType
<1>2. ASSUME NEW i \in 1..n, NEW x \in X
      PROVE  /\ [items |-> <<>>, tail |-> Rest(t, i)] \in X
             /\ [items |-> <<b(i).item>> \o x.items, tail |-> x.tail] \in X
  <2>1. Rest(t, i) \in Seq(S) /\ Rest(t, i) # <<>>
    BY <1>1, RestIs
  <2>2. b(i).item \in Items(S)
    BY <2>1, BeginningIs
  <2>3. <<b(i).item>> \o x.items \in Seq(Items(S))
    BY <2>2 DEF DecodeType
  <2> QED BY <2>1, <2>3 DEF DecodeType
<1>3. F \in [(1..n) \X X -> X]
  BY <1>2
<1>4. next \in [1..n -> 2..n + 1] /\ \A i \in 1..n : next[i] > i /\ next[i] = NextOf(t, i)
  BY NextIs
<1>5. \A i \in 1..n : b(i).length \in 0..n - i + 1
  BY NextIs
<1>6. \A i \in 1..n, x \in X :
        F[<<i, x>>] = IF b(i).length = 0 THEN [items |-> <<>>, tail |-> Rest(t, i)]
                      ELSE [items |-> <<b(i).item>> \o x.items, tail |-> x.tail]
  OBVIOUS
<1> HIDE DEF X, n, F, next, base, b
<1>7. PICK f : Walk(f, X, n, next, F, base)
  BY <1>1, <1>3, <1>4, WalkExists
<1>8. f \in [1..n + 1 -> X] /\ f[n + 1] = base
  BY <1>7 DEF Walk
<1>9. ASSUME NEW i \in 1..n + 1
      PROVE  f[i] = IF i > n THEN base
                    ELSE IF b(i).length = 0 THEN [items |-> <<>>, tail |-> Rest(t, i)]
                    ELSE [items |-> <<b(i).item>> \o f[i + b(i).length].items,
                          tail  |-> f[i + b(i).length].tail]
  <2>1. CASE i = n + 1
    BY <1>1, <1>8, <2>1
  <2>2. CASE i # n + 1
    <3>1. i \in 1..n /\ b(i).length \in 0..n - i + 1
      BY <1>1, <1>5, <2>2
    <3>2. f[i] = F[<<i, f[next[i]]>>] /\ next[i] \in 1..n + 1
      BY <1>1, <1>4, <1>7, <3>1 DEF Walk
    <3>3. f[next[i]] \in X
      BY <1>8, <3>2
    <3>4. CASE b(i).length = 0
      <4>1. f[i] = [items |-> <<>>, tail |-> Rest(t, i)]
        BY <1>6, <3>1, <3>2, <3>3, <3>4
      <4> QED BY <1>1, <3>1, <3>4, <4>1
    <3>5. CASE b(i).length > 0
      <4>1. next[i] = i + b(i).length
        BY <1>4, <3>1, <3>5 DEF NextOf, b
      <4>2. f[i] = [items |-> <<b(i).item>> \o f[next[i]].items,
                    tail  |-> f[next[i]].tail]
        BY <1>6, <3>1, <3>2, <3>3, <3>5, b(i).length # 0, Zenon
      <4> QED BY <1>1, <3>1, <3>5, <4>1, <4>2
    <3> QED BY <1>1, <3>1, <3>4, <3>5
  <2> QED BY <2>1, <2>2
<1>10. Decodes(f, t)
  BY <1>8, <1>9, Zenon DEF Decodes, n, b, base
<1> QED BY <1>8, <1>10 DEF n, X

\* One step of it.
DecodesFrom(f, t, i) ==
  /\ Beginning(Rest(t, i)).length = 0 =>
       f[i] = [items |-> <<>>, tail |-> Rest(t, i)]
  /\ Beginning(Rest(t, i)).length # 0 =>
       f[i] = [items |-> <<Beginning(Rest(t, i)).item>>
                         \o f[i + Beginning(Rest(t, i)).length].items,
               tail  |-> f[i + Beginning(Rest(t, i)).length].tail]

\* Each step is what Decodes says.
LEMMA DecodesAt ==
  ASSUME NEW S, NEW t \in Seq(S), NEW f, Decodes(f, t)
  PROVE  /\ f[Len(t) + 1] = [items |-> <<>>, tail |-> <<>>]
         /\ \A i \in 1..Len(t) : DecodesFrom(f, t, i)
<1>0. Len(t) \in Nat
  OBVIOUS
<1> DEFINE e(i) == IF i > Len(t) THEN [items |-> <<>>, tail |-> <<>>]
                   ELSE IF Beginning(Rest(t, i)).length = 0
                     THEN [items |-> <<>>, tail |-> Rest(t, i)]
                   ELSE [items |-> <<Beginning(Rest(t, i)).item>>
                                   \o f[i + Beginning(Rest(t, i)).length].items,
                         tail  |-> f[i + Beginning(Rest(t, i)).length].tail]
<1>1. f = [i \in 1..Len(t) + 1 |-> e(i)]
  BY DEF Decodes
<1> HIDE DEF e
<1>2. \A i \in 1..Len(t) + 1 : f[i] = e(i)
  BY <1>1
<1>3. f[Len(t) + 1] = e(Len(t) + 1) /\ Len(t) + 1 > Len(t)
  BY <1>0, <1>2
<1>4. \A i \in 1..Len(t) : f[i] = e(i) /\ ~(i > Len(t))
  BY <1>0, <1>2
<1> QED BY <1>3, <1>4, Zenon DEF e, DecodesFrom

\* There is one such f, and decode returns what it makes of the whole.
LEMMA DecodesIs ==
  ASSUME NEW S, NEW t \in Seq(S), NEW f, Decodes(f, t)
  PROVE  Decode(t) = f[1]
<1> DEFINE n == Len(t)
           From == CHOOSE g : Decodes(g, t)
           next == [i \in 1..n |-> NextOf(t, i)]
<1>1. Decode(t) = From[1]
  BY DEF Decode, Decodes, Rest
<1>2. Decodes(From, t)
  OBVIOUS
<1> HIDE DEF From
<1>3. n \in Nat
  OBVIOUS
<1>4. /\ next \in [1..n -> 2..n + 1]
      /\ \A i \in 1..n : /\ next[i] > i /\ next[i] = NextOf(t, i)
                         /\ Beginning(Rest(t, i)).length \in 0..n - i + 1
  BY NextIs
<1> HIDE DEF next
<1>5. ASSUME NEW i \in 1..n, From[next[i]] = f[next[i]]
      PROVE  From[i] = f[i]
  <2> DEFINE len == Beginning(Rest(t, i)).length
  <2>0. DecodesFrom(From, t, i) /\ DecodesFrom(f, t, i)
    BY <1>2, DecodesAt
  <2>1. CASE len = 0
    BY <2>0, <2>1 DEF DecodesFrom
  <2>2. CASE len # 0
    <3>1. next[i] = i + len
      BY <1>4, <2>2 DEF NextOf
    <3>2. From[i] = [items |-> <<Beginning(Rest(t, i)).item>> \o From[i + len].items,
                     tail  |-> From[i + len].tail]
      BY <2>0, <2>2 DEF DecodesFrom
    <3>3. f[i] = [items |-> <<Beginning(Rest(t, i)).item>> \o f[i + len].items,
                  tail  |-> f[i + len].tail]
      BY <2>0, <2>2 DEF DecodesFrom
    <3> QED BY <1>5, <3>1, <3>2, <3>3
  <2> QED BY <2>1, <2>2
<1>6. From[n + 1] = f[n + 1]
  BY <1>2, DecodesAt
<1>7. \A i \in 1..n : From[next[i]] = f[next[i]] => From[i] = f[i]
  BY <1>5
<1>8. next \in [1..n -> 2..n + 1] /\ \A i \in 1..n : next[i] > i
  BY <1>4
<1> HIDE DEF n
<1>9. \A i \in 1..n + 1 : From[i] = f[i]
  <2>1. Agree(From, f, n, next)
    BY <1>3, <1>6, <1>7, <1>8 DEF Agree
  <2> QED BY <2>1, WalkUnique
<1> QED BY <1>1, <1>3, <1>9

\* And of the rest of the text from a position on, what f makes of it there.
LEMMA DecodesRest ==
  ASSUME NEW S, NEW t \in Seq(S), NEW f, Decodes(f, t), NEW i \in 1..Len(t) + 1
  PROVE  Decode(Rest(t, i)) = f[i]
<1> DEFINE n == Len(t)
           r == Rest(t, i)
           g == [k \in 1..Len(r) + 1 |-> f[i + k - 1]]
<1>1. n \in Nat /\ r \in Seq(S) /\ Len(r) = n - i + 1
  BY RestIs
<1>2. ASSUME NEW k \in 1..Len(r) + 1
      PROVE  g[k] = IF k > Len(r) THEN [items |-> <<>>, tail |-> <<>>]
                    ELSE IF Beginning(Rest(r, k)).length = 0
                      THEN [items |-> <<>>, tail |-> Rest(r, k)]
                    ELSE [items |-> <<Beginning(Rest(r, k)).item>>
                                    \o g[k + Beginning(Rest(r, k)).length].items,
                          tail  |-> g[k + Beginning(Rest(r, k)).length].tail]
  <2>1. Rest(r, k) = Rest(t, i + k - 1) /\ i + k - 1 \in 1..n + 1
    BY <1>1, RestOfRest
  <2>2. g[k] = f[i + k - 1]
    OBVIOUS
  <2>3. CASE k > Len(r)
    <3>1. i + k - 1 > n
      BY <1>1, <2>3
    <3> QED BY <2>1, <2>2, <2>3, <3>1 DEF Decodes
  <2>4. CASE k <= Len(r)
    <3>1. i + k - 1 \in 1..n /\ i + k - 1 <= n /\ ~(k > Len(r))
      BY <1>1, <2>4
    <3>2. Beginning(Rest(t, i + k - 1)).length \in 0..n - (i + k - 1) + 1
      BY <3>1, NextIs
    <3>a. DecodesFrom(f, t, i + k - 1)
      BY <3>1, DecodesAt
    <3> DEFINE len == Beginning(Rest(t, i + k - 1)).length
    <3>3. CASE len = 0
      <4>1. f[i + k - 1] = [items |-> <<>>, tail |-> Rest(t, i + k - 1)]
        BY <3>3, <3>a DEF DecodesFrom
      <4> QED BY <2>1, <2>2, <2>4, <3>1, <3>3, <4>1
    <3>4. CASE len > 0
      <4>1. k + len \in 1..Len(r) + 1 /\ i + (k + len) - 1 = (i + k - 1) + len
        BY <1>1, <3>1, <3>2
      <4>2. g[k + len] = f[(i + k - 1) + len]
        BY <4>1
      <4>3. f[i + k - 1] = [items |-> <<Beginning(Rest(t, i + k - 1)).item>>
                                        \o f[(i + k - 1) + len].items,
                            tail  |-> f[(i + k - 1) + len].tail]
        BY <3>4, <3>a DEF DecodesFrom
      <4> HIDE DEF g
      <4> QED BY <2>1, <2>2, <2>4, <3>1, <3>4, <4>2, <4>3
    <3> QED BY <3>2, <3>3, <3>4
  <2> QED BY <1>1, <2>3, <2>4
<1>3. Decodes(g, r)
  <2>1. g = [k \in 1..Len(r) + 1 |-> g[k]]
    OBVIOUS
  <2> HIDE DEF g, r
  <2> QED BY <1>2, <2>1, Zenon DEF Decodes
<1>4. Decode(r) = g[1]
  <2> HIDE DEF g, r
  <2> QED BY <1>1, <1>3, DecodesIs
<1>5. g[1] = f[i]
  BY <1>1
<1> QED BY <1>4, <1>5

\* What decode makes of a text: of its beginning, and of the rest.
LEMMA DecodeNothing == Decode(<<>>) = [items |-> <<>>, tail |-> <<>>]
<1>1. <<>> \in Seq({})
  OBVIOUS
<1>2. PICK f : Decodes(f, <<>>)
  BY <1>1, DecodesExists
<1>3. Decode(<<>>) = f[1]
  BY <1>1, <1>2, DecodesIs
<1>4. f[1] = [items |-> <<>>, tail |-> <<>>]
  BY <1>2 DEF Decodes
<1> QED BY <1>3, <1>4

\* decode, a step at a time.
LEMMA DecodeOn ==
  ASSUME NEW S, NEW t \in Seq(S), t # <<>>
  PROVE  /\ Decode(t) \in DecodeType(S)
         /\ Beginning(t).length = 0 => Decode(t) = [items |-> <<>>, tail |-> t]
         /\ Beginning(t).length # 0 =>
              LET after == Decode(Rest(t, Beginning(t).length + 1))
              IN  Decode(t) = [items |-> <<Beginning(t).item>> \o after.items,
                               tail  |-> after.tail]
<1>1. PICK f \in [1..Len(t) + 1 -> DecodeType(S)] : Decodes(f, t)
  BY DecodesExists
<1>2. Decode(t) = f[1] /\ Len(t) \in Nat \ {0}
  BY <1>1, DecodesIs
<1>3. Rest(t, 1) = t
  BY DEF Rest
<1>4. Beginning(t).length \in 0..Len(t)
  BY BeginningIs
<1>a. DecodesFrom(f, t, 1)
  BY <1>1, <1>2, 1 \in 1..Len(t), DecodesAt
<1>5. CASE Beginning(t).length = 0
  BY <1>2, <1>3, <1>5, <1>a DEF DecodesFrom
<1>6. CASE Beginning(t).length # 0
  <2>1. Beginning(t).length + 1 \in 1..Len(t) + 1
    BY <1>2, <1>4
  <2>2. Decode(Rest(t, Beginning(t).length + 1)) = f[Beginning(t).length + 1]
    BY <1>1, <2>1, DecodesRest
  <2>3. f[1] = [items |-> <<Beginning(t).item>> \o f[1 + Beginning(t).length].items,
                tail  |-> f[1 + Beginning(t).length].tail]
    BY <1>3, <1>6, <1>a DEF DecodesFrom
  <2>4. 1 + Beginning(t).length = Beginning(t).length + 1
    BY <1>4
  <2>5. f[1] \in DecodeType(S)
    BY <1>1, <1>2
  <2> QED BY <1>2, <1>6, <2>2, <2>3, <2>4, <2>5
<1> QED BY <1>5, <1>6, <1>1, <1>2, 1 \in 1..Len(t) + 1

\* Concatenation is associative.
AssocAt(x, y, z) == x \o (y \o z) = (x \o y) \o z

\* Of sequences over one set.
LEMMA Assoc ==
  ASSUME NEW S, NEW x \in Seq(S), NEW y \in Seq(S), NEW z \in Seq(S)
  PROVE  AssocAt(x, y, z)
BY ConcatAssociative DEF AssocAt

\* The rest of a longer text goes on after that of a shorter one.
LEMMA RestOfConcat ==
  ASSUME NEW S, NEW t \in Seq(S), NEW u \in Seq(S), NEW i \in 1..Len(t) + 1
  PROVE  Rest(t \o u, i) = Rest(t, i) \o u
<1> DEFINE a == Rest(t \o u, i)
           b == Rest(t, i) \o u
<1>0. /\ Len(t) \in Nat /\ Len(u) \in Nat /\ t \o u \in Seq(S)
      /\ Len(t \o u) = Len(t) + Len(u)
  OBVIOUS
<1>1. i \in 1..Len(t \o u) + 1
  BY <1>0
<1>2. /\ a \in Seq(S) /\ Len(a) = Len(t) + Len(u) - i + 1
      /\ \A k \in 1..Len(t) + Len(u) - i + 1 : a[k] = (t \o u)[i + k - 1]
  <2> DEFINE w == t \o u
  <2>1. w \in Seq(S) /\ i \in 1..Len(w) + 1
    BY <1>0, <1>1
  <2> HIDE DEF w
  <2>2. /\ Rest(w, i) \in Seq(S) /\ Len(Rest(w, i)) = Len(w) - i + 1
        /\ \A k \in 1..Len(w) - i + 1 : Rest(w, i)[k] = w[i + k - 1]
    BY <2>1, RestIs
  <2>3. Len(w) = Len(t) + Len(u)
    BY <1>0 DEF w
  <2> QED BY <2>2, <2>3 DEF w
<1>3. /\ Rest(t, i) \in Seq(S) /\ Len(Rest(t, i)) = Len(t) - i + 1
      /\ \A k \in 1..Len(t) - i + 1 : Rest(t, i)[k] = t[i + k - 1]
  BY RestIs
<1>4. b \in Seq(S) /\ Len(b) = Len(t) + Len(u) - i + 1
  <2> HIDE DEF a
  <2> DEFINE c == Rest(t, i)
  <2>0. c \in Seq(S)
    BY <1>3
  <2>1. b \in Seq(S) /\ Len(b) = Len(Rest(t, i)) + Len(u)
    <3> HIDE DEF c
    <3>1. c \o u \in Seq(S) /\ Len(c \o u) = Len(c) + Len(u)
      BY <2>0
    <3> QED BY <3>1 DEF c
  <2> QED BY <1>0, <1>3, <2>1
<1>5. ASSUME NEW k \in 1..Len(t) + Len(u) - i + 1
      PROVE  a[k] = b[k]
  <2>1. CASE k <= Len(t) - i + 1
    <3>1. b[k] = Rest(t, i)[k]
      BY <1>0, <1>3, <2>1
    <3>2. (t \o u)[i + k - 1] = t[i + k - 1]
      BY <1>0, <2>1
    <3> QED BY <1>2, <1>3, <2>1, <3>1, <3>2
  <2>2. CASE k > Len(t) - i + 1
    <3>1. b[k] = u[k - (Len(t) - i + 1)]
      BY <1>0, <1>3, <2>2
    <3>2. (t \o u)[i + k - 1] = u[i + k - 1 - Len(t)]
      BY <1>0, <2>2
    <3>3. k - (Len(t) - i + 1) = i + k - 1 - Len(t)
      BY <1>0
    <3> QED BY <1>2, <3>1, <3>2, <3>3
  <2>3. k <= Len(t) - i + 1 \/ k > Len(t) - i + 1
    BY <1>0
  <2> QED BY <2>1, <2>2, <2>3
<1> HIDE DEF a, b
<1> QED BY <1>2, <1>4, <1>5, SeqEqual DEF a, b

\* What decoding in two goes says of decoding in one.
CutAnywhere(t, u) ==
  LET d == Decode(t)
      r == Decode(d.tail \o u)
  IN  Decode(t \o u) = [items |-> d.items \o r.items, tail |-> r.tail]

\* decode answers items, and a tail to keep.
LEMMA DecodeTyped ==
  ASSUME NEW S, NEW t \in Seq(S)
  PROVE  Decode(t) \in DecodeType(S)
<1>1. CASE t = <<>>
  <2>1. <<>> \in Seq(Items(S)) /\ <<>> \in Seq(S)
    OBVIOUS
  <2>2. [items |-> <<>>, tail |-> <<>>] \in DecodeType(S)
    BY <2>1 DEF DecodeType
  <2> QED BY <1>1, <2>2, DecodeNothing, Zenon
<1> QED BY <1>1, DecodeOn

\* A text that arrives in two chunks, the tail of the first put before the
\* second, is decoded as it is whole (escapes.decode, typist.type_text): cutting
\* a text changes nothing of what is typed.
THEOREM DecodeCutAnywhere ==
  ASSUME NEW S, NEW t \in Seq(S), NEW u \in Seq(S)
  PROVE  LET d == Decode(t)
             r == Decode(d.tail \o u)
         IN  Decode(t \o u) = [items |-> d.items \o r.items, tail |-> r.tail]
<1> DEFINE B == {n \in 0..Len(t) : \A s \in Seq(S) : Len(s) <= n => CutAnywhere(s, u)}
<1>1. 0 \in B
  <2>1. ASSUME NEW s \in Seq(S), Len(s) <= 0
        PROVE  CutAnywhere(s, u)
    <3>1. s = <<>> /\ <<>> \o u = u
      BY <2>1
    <3>2. Decode(u) \in DecodeType(S)
      BY DecodeTyped
    <3>3. Decode(u) = [items |-> <<>> \o Decode(u).items, tail |-> Decode(u).tail]
      BY <3>2 DEF DecodeType
    <3> DEFINE e == Decode(<<>>)
               v == Decode(u)
    <3>4. e.items = <<>> /\ e.tail = <<>>
      BY DecodeNothing
    <3>5. s \o u = u
      BY <3>1
    <3>6. v = [items |-> e.items \o v.items, tail |-> v.tail]
      BY <3>3, <3>4
    <3> QED BY <3>1, <3>4, <3>5, <3>6, Zenon DEF CutAnywhere
  <2> QED BY <2>1
<1>2. ASSUME NEW n \in 1..Len(t), n - 1 \in B
      PROVE  n \in B
  <2>1. \A s \in Seq(S) : Len(s) <= n - 1 => CutAnywhere(s, u)
    BY <1>2
  <2>2. ASSUME NEW s \in Seq(S), Len(s) <= n, s # <<>>
        PROVE  CutAnywhere(s, u)
    <3> DEFINE b == Beginning(s)
               k == Beginning(s).length + 1
               after == Decode(Rest(s, k))
    <3>1. Len(s) \in Nat \ {0} /\ Beginning(s).length \in 0..Len(s)
      BY <2>2, BeginningIs
    <3>2. s \o u \in Seq(S) /\ s \o u # <<>>
      BY <2>2
    <3>3. CASE Beginning(s).length = 0
      <4>1. Decode(s) = [items |-> <<>>, tail |-> s]
        BY <2>2, <3>3, DecodeOn
      <4>2. Decode(s \o u) \in DecodeType(S)
        BY <3>2, DecodeTyped
      <4>3. Decode(s \o u) = [items |-> <<>> \o Decode(s \o u).items, tail |-> Decode(s \o u).tail]
        BY <4>2 DEF DecodeType
      <4> QED BY <4>1, <4>3 DEF CutAnywhere
    <3>4. CASE Beginning(s).length # 0
      <4>1. k \in 2..Len(s) + 1
        BY <3>1, <3>4
      <4>2. Rest(s, k) \in Seq(S) /\ Len(Rest(s, k)) <= n - 1
        BY <2>2, <3>1, <4>1, RestIs
      <4>3. CutAnywhere(Rest(s, k), u)
        BY <2>1, <4>2
      <4>4. Decode(s) = [items |-> <<b.item>> \o after.items, tail |-> after.tail]
        BY <2>2, <3>4, DecodeOn
      <4>a. Beginning(s \o u) = Beginning(s)
        BY <2>2, <3>4, BeginningStable
      <4>b. k \in 1..Len(s) + 1
        BY <3>1, <4>1
      <4>c. Rest(s \o u, k) = Rest(s, k) \o u
        <5> HIDE DEF k
        <5> QED BY <2>2, <4>b, RestOfConcat
      <4>5. Beginning(s \o u) = Beginning(s) /\ Rest(s \o u, k) = Rest(s, k) \o u
        BY <4>a, <4>c
      <4>6. Decode(s \o u) = [items |-> <<b.item>> \o Decode(Rest(s, k) \o u).items,
                              tail |-> Decode(Rest(s, k) \o u).tail]
        BY <3>2, <3>4, <4>5, DecodeOn
      <4>7. b.item \in Items(S) /\ after \in DecodeType(S)
        BY <2>2, <4>2, BeginningIs, DecodeTyped
      <4>8. Decode(after.tail \o u) \in DecodeType(S)
        <5> HIDE DEF after
        <5>1. after.tail \in Seq(S)
          BY <4>7 DEF DecodeType
        <5>2. after.tail \o u \in Seq(S)
          BY <5>1
        <5> QED BY <5>2, DecodeTyped
      <4> DEFINE r == Decode(after.tail \o u)
      <4>9. Decode(Rest(s, k) \o u) = [items |-> after.items \o r.items, tail |-> r.tail]
        BY <4>3 DEF CutAnywhere
      <4> HIDE DEF after, r, b, k
      <4>10. <<b.item>> \o (after.items \o r.items) = (<<b.item>> \o after.items) \o r.items
        <5>1. <<b.item>> \in Seq(Items(S)) /\ after.items \in Seq(Items(S)) /\ r.items \in Seq(Items(S))
          BY <4>7, <4>8 DEF DecodeType, r
        <5>2. AssocAt(<<b.item>>, after.items, r.items)
          BY <5>1, Assoc, Zenon
        <5> QED BY <5>2, Zenon DEF AssocAt
      <4>11. Decode(s).items = <<b.item>> \o after.items /\ Decode(s).tail = after.tail
        BY <4>4
      <4>12. Decode(s \o u) = [items |-> Decode(s).items \o r.items, tail |-> r.tail]
        <5> DEFINE q == Decode(Rest(s, k) \o u)
        <5>0. q = [items |-> after.items \o r.items, tail |-> r.tail]
          BY <4>9
        <5>1. q.items = after.items \o r.items /\ q.tail = r.tail
          <6> HIDE DEF q
          <6> QED BY <5>0
        <5> HIDE DEF q
        <5> QED BY <4>6, <4>10, <4>11, <5>1 DEF q
      <4> QED BY <4>11, <4>12 DEF CutAnywhere, r
    <3> QED BY <3>3, <3>4
  <2>3. \A s \in Seq(S) : Len(s) <= n => CutAnywhere(s, u)
    <3>1. ASSUME NEW s \in Seq(S), Len(s) <= n PROVE CutAnywhere(s, u)
      <4>1. CASE s = <<>>
        <5>1. Len(s) <= n - 1
          BY <4>1
        <5> QED BY <2>1, <5>1
      <4> QED BY <2>2, <3>1, <4>1
    <3> QED BY <3>1
  <2> QED BY <2>3
<1>2a. \A n \in 1..Len(t) : n - 1 \in B => n \in B
  BY <1>2
<1> HIDE DEF B
<1>3. Len(t) \in Nat
  OBVIOUS
<1>4. \A n \in 0..Len(t) : n \in B
  BY <1>1, <1>2a, <1>3, UpTo
<1>5. CutAnywhere(t, u)
  BY <1>3, <1>4, Len(t) \in 0..Len(t) DEF B
<1> QED BY <1>5 DEF CutAnywhere

(***************************************************************************)
(* Folds.  FoldLeft takes the greatest of the indices left at each turn:   *)
(* what it has made of the first i elements is a function of i.            *)
(***************************************************************************)
LEMMA GreatestOf ==
  ASSUME NEW n \in Nat \ {0}, NEW s \in SUBSET (1..n), n \in s
  PROVE  Max(s) = n
<1>1. \A y \in s : n >= y
  OBVIOUS
<1>2. \A x \in s : (\A y \in s : x >= y) => x = n
  OBVIOUS
<1> QED BY <1>1, <1>2 DEF Max

\* That g is the fold of F over the numbers to N, for each set of them.
Folding(g, X, base, N, F) ==
  /\ g \in [SUBSET (1..N) -> X]
  /\ g = [s \in SUBSET (1..N) |->
            IF s = {} THEN base ELSE F[<<g[s \ {Max(s)}], Max(s)>>]]

\* A fold of a step that stays within X is defined, for any number of steps.
LEMMA FoldExists ==
  ASSUME NEW X, NEW base \in X, NEW N \in Nat, NEW F \in [X \X (1..N) -> X]
  PROVE  \E g : Folding(g, X, base, N, F)
<1> DEFINE Folds(n, g) ==
             /\ g \in [SUBSET (1..n) -> X]
             /\ g = [s \in SUBSET (1..n) |->
                       IF s = {} THEN base ELSE F[<<g[s \ {Max(s)}], Max(s)>>]]
           B == {n \in 0..N : \E g : Folds(n, g)}
<1>1. 0 \in B
  <2>1. Folds(0, [s \in SUBSET (1..0) |-> base])
    BY SMT
  <2> QED BY <2>1
<1>2. ASSUME NEW n \in 1..N, n - 1 \in B
      PROVE  n \in B
  <2>1. PICK g : Folds(n - 1, g)
    BY <1>2
  <2> DEFINE h == [s \in SUBSET (1..n) |->
                  IF n \in s THEN F[<<g[s \ {n}], n>>] ELSE g[s]]
  <2>2. \A s \in SUBSET (1..n) : n \in s => Max(s) = n /\ s \ {n} \in SUBSET (1..n - 1)
    BY GreatestOf
  <2>3. \A s \in SUBSET (1..n) : n \notin s => s \in SUBSET (1..n - 1)
    OBVIOUS
  <2>4. h \in [SUBSET (1..n) -> X]
    <3>1. ASSUME NEW s \in SUBSET (1..n) PROVE h[s] \in X
      <4>1. CASE n \in s
        <5>1. g[s \ {n}] \in X /\ n \in 1..N
          BY <2>1, <2>2, <4>1
        <5>2. h[s] = F[<<g[s \ {n}], n>>]
          BY <4>1
        <5> QED BY <5>1, <5>2
      <4>2. CASE n \notin s
        BY <2>1, <2>3, <4>2
      <4> QED BY <4>1, <4>2
    <3> QED BY <3>1
  <2>5. ASSUME NEW s \in SUBSET (1..n)
        PROVE  h[s] = IF s = {} THEN base ELSE F[<<h[s \ {Max(s)}], Max(s)>>]
    <3>1. CASE n \in s
      <4>1. Max(s) = n /\ s \ {n} \in SUBSET (1..n) /\ n \notin s \ {n}
        BY <2>2, <3>1
      <4>2. h[s \ {n}] = g[s \ {n}]
        BY <4>1
      <4> QED BY <3>1, <4>1, <4>2
    <3>2. CASE n \notin s
      <4>1. s \in SUBSET (1..n - 1)
        BY <2>3, <3>2
      <4>2. h[s] = g[s]
        BY <3>2
      <4>3. g[s] = IF s = {} THEN base ELSE F[<<g[s \ {Max(s)}], Max(s)>>]
        BY <2>1, <4>1
      <4>4. s \ {Max(s)} \in SUBSET (1..n) /\ n \notin s \ {Max(s)}
        BY <3>2
      <4>5. h[s \ {Max(s)}] = g[s \ {Max(s)}]
        BY <4>4
      <4> QED BY <4>2, <4>3, <4>5
    <3> QED BY <3>1, <3>2
  <2>6. Folds(n, h)
    <3> HIDE DEF h
    <3>1. h = [s \in SUBSET (1..n) |-> h[s]]
      BY <2>4
    <3> QED BY <2>4, <2>5, <3>1
  <2> HIDE DEF h, Folds
  <2> QED BY <2>6
<1> HIDE DEF B
<1>3. N \in B
  BY <1>1, <1>2, UpTo
<1> QED BY <1>3 DEF B, Folding

\* A set of such numbers has a greatest.
LEMMA GreatestIn ==
  ASSUME NEW N \in Nat, NEW s \in SUBSET (1..N), s # {}
  PROVE  Max(s) \in s
<1> DEFINE B == {n \in Nat : \A y \in s : n >= y}
<1>1. N \in B /\ B \in SUBSET Nat
  OBVIOUS
<1> HIDE DEF B
<1>2. PICK n \in B : \A m \in B : n <= m
  BY <1>1, LeastNumber
<1>3. n \in Nat /\ \A y \in s : n >= y
  BY DEF B
<1>4. n \in s
  <2>1. n # 0
    <3>1. PICK y \in s : y \in 1..N
      OBVIOUS
    <3> QED BY <1>3, <3>1
  <2>2. ASSUME n \notin s PROVE n - 1 \in B
    <3>1. n - 1 \in Nat
      BY <1>3, <2>1
    <3>2. \A y \in s : n - 1 >= y
      BY <1>3, <2>2
    <3> QED BY <3>1, <3>2 DEF B
  <2> QED BY <1>2, <1>3, <2>2
<1> QED BY <1>3, <1>4 DEF Max

\* The indices of the first i elements.
LEMMA FirstOnes ==
  ASSUME NEW N \in Nat, NEW i \in 1..N
  PROVE  /\ 1..i \in SUBSET (1..N) /\ 1..i # {}
         /\ Max(1..i) = i
         /\ (1..i) \ {i} = 1..i - 1
<1>1. 1..i \in SUBSET (1..i) /\ i \in 1..i /\ i \in Nat \ {0}
  OBVIOUS
<1>2. Max(1..i) = i
  BY <1>1, GreatestOf
<1>3. (1..i) \ {i} = 1..i - 1
  OBVIOUS
<1> QED BY <1>1, <1>2, <1>3


-----------------------------------------------------------------------------
(***************************************************************************)
(* The phone.                                                              *)
(***************************************************************************)

\* What a phone typing the keystrokes K may wait with and may write, on a
\* screen that has the characters Z.
Accents(phone, K) == {Made(phone, k).char : k \in K} \cup {"none"}

\* What a screen may have, with Z what it had.
Letters(phone, K, Z) ==
  Z \cup {Stored(phone, c) : c \in Accents(phone, K)
                                     \cup {Composed[p] : p \in DOMAIN Composed}}

\* The screens of a phone that hears keys of K.
Screens(phone, K, Z) == [text : Seq(Letters(phone, K, Z)), dead : Accents(phone, K)]

\* What they may have it write at once.
Written(phone, K) ==
  Seq(Accents(phone, K) \cup {Composed[p] : p \in DOMAIN Composed})

\* What is written is of those letters.
LEMMA StoredType ==
  ASSUME NEW phone, NEW K, NEW Z, NEW chars \in Written(phone, K)
  PROVE  [i \in DOMAIN chars |-> Stored(phone, chars[i])]
           \in Seq(Letters(phone, K, Z))
<1> DEFINE stored == [i \in DOMAIN chars |-> Stored(phone, chars[i])]
           C == Accents(phone, K) \cup {Composed[p] : p \in DOMAIN Composed}
           L == Letters(phone, K, Z)
<1>1. /\ Len(chars) \in Nat /\ DOMAIN chars = 1..Len(chars)
      /\ \A i \in 1..Len(chars) : chars[i] \in C
  BY DEF Written
<1>2. \A c \in C : Stored(phone, c) \in L
  BY DEF Letters
<1>3. stored \in [1..Len(chars) -> L]
  <2> HIDE DEF C, L
  <2> QED BY <1>1, <1>2
<1>4. stored \in Seq(L)
  <2> HIDE DEF stored, L
  <2> QED BY <1>1, <1>3, IsASeq
<1> QED BY <1>4

\* Writing leaves a screen.
LEMMA WriteType ==
  ASSUME NEW phone, NEW K, NEW Z, NEW s \in Screens(phone, K, Z),
         NEW chars \in Written(phone, K)
  PROVE  Write(phone, s, chars) \in Screens(phone, K, Z)
<1> DEFINE stored == [i \in DOMAIN chars |-> Stored(phone, chars[i])]
           L == Letters(phone, K, Z)
<1>3. stored \in Seq(L)
  BY StoredType
<1>4. s.text \in Seq(L) /\ "none" \in Accents(phone, K)
  BY DEF Screens, Accents
<1>5. s.text \o stored \in Seq(L)
  <2> HIDE DEF stored, L
  <2> QED BY <1>3, <1>4
<1>6. Write(phone, s, chars) = [text |-> s.text \o stored, dead |-> "none"]
  BY DEF Write
<1> HIDE DEF stored
<1> QED BY <1>4, <1>5, <1>6 DEF Screens

\* What it writes on hearing a keystroke.
LEMMA PairWritten ==
  ASSUME NEW phone, NEW K, NEW Z, NEW s \in Screens(phone, K, Z), NEW k \in K
  PROVE  LET pair == <<s.dead, Made(phone, k).char>>
         IN  /\ <<>> \in Written(phone, K) /\ pair \in Written(phone, K)
             /\ <<s.dead>> \in Written(phone, K)
             /\ <<Made(phone, k).char>> \in Written(phone, K)
             /\ pair \in DOMAIN Composed => <<Composed[pair]>> \in Written(phone, K)
<1> DEFINE made == Made(phone, k)
           A == Accents(phone, K)
<1>1. made.char \in A /\ s.dead \in A
  BY DEF Accents, Screens
<1> HIDE DEF A, made
<1>2. <<s.dead, made.char>> \in DOMAIN Composed =>
        Composed[<<s.dead, made.char>>] \in {Composed[p] : p \in DOMAIN Composed}
  OBVIOUS
<1>3. /\ <<>> \in Written(phone, K) /\ <<s.dead, made.char>> \in Written(phone, K)
      /\ <<s.dead>> \in Written(phone, K) /\ <<made.char>> \in Written(phone, K)
  BY <1>1 DEF Written, A
<1>4. <<s.dead, made.char>> \in DOMAIN Composed =>
        <<Composed[<<s.dead, made.char>>]>> \in Written(phone, K)
  BY <1>2 DEF Written
<1> QED BY <1>3, <1>4 DEF made

\* Hearing a key leaves a screen.
LEMMA HearType ==
  ASSUME NEW phone, NEW K, NEW Z, NEW s \in Screens(phone, K, Z), NEW k \in K
  PROVE  Hear(phone, s, k) \in Screens(phone, K, Z)
<1> DEFINE made == Made(phone, k)
           pair == <<s.dead, made.char>>
<1>1. made.char \in Accents(phone, K)
  BY DEF Accents
<1>2. /\ <<made.char>> \in Written(phone, K) /\ <<s.dead>> \in Written(phone, K)
      /\ pair \in Written(phone, K) /\ <<>> \in Written(phone, K)
      /\ pair \in DOMAIN Composed => <<Composed[pair]>> \in Written(phone, K)
  BY PairWritten
<1>3. \A chars \in Written(phone, K) : Write(phone, s, chars) \in Screens(phone, K, Z)
  BY WriteType
<1>4. CASE made.kind = "none"
  BY <1>4 DEF Hear
<1>5. CASE made.kind = "dead"
  <2> DEFINE w == Write(phone, s, IF s.dead = "none" THEN <<>> ELSE <<s.dead>>)
  <2>1. w \in Screens(phone, K, Z)
    BY <1>2, <1>3
  <2>2. Hear(phone, s, k) = [w EXCEPT !.dead = made.char]
    BY <1>5 DEF Hear
  <2> HIDE DEF w, made
  <2> QED BY <1>1, <2>1, <2>2 DEF Screens
<1>6. CASE made.kind \notin {"none", "dead"}
  <2>1. CASE s.dead = "none"
    <3>1. Hear(phone, s, k) = Write(phone, s, <<made.char>>)
      BY <1>6, <2>1 DEF Hear
    <3> QED BY <1>2, <1>3, <3>1
  <2>2. CASE s.dead # "none" /\ made.char = Space
    <3>1. Hear(phone, s, k) = Write(phone, s, <<s.dead>>)
      BY <1>6, <2>2 DEF Hear
    <3> QED BY <1>2, <1>3, <3>1
  <2>3. CASE s.dead # "none" /\ made.char # Space
    <3>1. Hear(phone, s, k) = Write(phone, s, IF phone.composes /\ pair \in DOMAIN Composed
                                                THEN <<Composed[pair]>> ELSE pair)
      BY <1>6, <2>3 DEF Hear
    <3> QED BY <1>2, <1>3, <3>1
  <2> QED BY <2>1, <2>2, <2>3
<1> QED BY <1>4, <1>5, <1>6

\* Typing keystrokes is hearing one after the other.
Hearing(f, X, phone, s, ss) ==
  /\ f \in [0..Len(ss) -> X]
  /\ f[0] = s
  /\ \A i \in 1..Len(ss) : f[i] = Hear(phone, f[i - 1], ss[i])
  /\ Typed(phone, s, ss) = f[Len(ss)]

\* Typing is such a hearing.
LEMMA TypedSteps ==
  ASSUME NEW phone, NEW K, NEW Z, NEW s \in Screens(phone, K, Z), NEW ss \in Seq(K)
  PROVE  \E f : Hearing(f, Screens(phone, K, Z), phone, s, ss)
<1> DEFINE N == Len(ss)
           X == Screens(phone, K, Z)
           F == [p \in X \X (1..N) |-> Hear(phone, p[1], ss[p[2]])]
           Folds(g) == g = [x \in SUBSET (1..N) |->
                              IF x = {} THEN s
                              ELSE Hear(phone, g[x \ {Max(x)}], ss[Max(x)])]
           it == CHOOSE g : Folds(g)
           f == [i \in 0..N |-> it[1..i]]
<1>1. N \in Nat /\ DOMAIN ss = 1..N /\ \A i \in 1..N : ss[i] \in K
  BY LenProperties, ElementOfSeq
<1>2. Typed(phone, s, ss) = it[1..N]
  BY <1>1 DEF Typed, FoldLeft, MapThenFoldSet
<1>3. \E g : Folds(g)
  <2>1. F \in [X \X (1..N) -> X]
    BY <1>1, HearType
  <2> HIDE DEF F, N, X
  <2>2. PICK g : Folding(g, X, s, N, F)
    BY <1>1, <2>1, FoldExists DEF X
  <2>3. ASSUME NEW x \in SUBSET (1..N), x # {}
        PROVE  F[<<g[x \ {Max(x)}], Max(x)>>]
                 = Hear(phone, g[x \ {Max(x)}], ss[Max(x)])
    <3>1. Max(x) \in 1..N
      BY <1>1, <2>3, GreatestIn
    <3>2. g[x \ {Max(x)}] \in X
      BY <2>2 DEF Folding
    <3> QED BY <3>1, <3>2 DEF F
  <2>4. Folds(g)
    BY <2>2, <2>3 DEF Folding
  <2> HIDE DEF Folds
  <2> QED BY <2>4
<1>4. Folds(it)
  <2> HIDE DEF Folds
  <2> QED BY <1>3
<1>5. it[{}] = s
  BY <1>4
<1>6. ASSUME NEW i \in 1..N
      PROVE  it[1..i] = Hear(phone, it[1..i - 1], ss[i])
  <2>1. /\ 1..i \in SUBSET (1..N) /\ 1..i # {}
        /\ Max(1..i) = i
        /\ (1..i) \ {i} = 1..i - 1
    BY <1>1, FirstOnes
  <2> HIDE DEF it, N
  <2> QED BY <1>4, <2>1
<1> HIDE DEF it, F
<1>7. f[0] = s
  BY <1>1, <1>5
<1>8. \A i \in 1..N : f[i] = Hear(phone, f[i - 1], ss[i])
  BY <1>1, <1>6
<1>9. Typed(phone, s, ss) = f[N]
  BY <1>1, <1>2
<1>10. f = [i \in 0..N |-> f[i]]
  OBVIOUS
<1> HIDE DEF f
<1>11. f \in [0..N -> X]
  <2> DEFINE B == {i \in 0..N : f[i] \in X}
  <2> HIDE DEF N
  <2>1. 0 \in B
    BY <1>1, <1>7
  <2>2. ASSUME NEW n \in 1..N, n - 1 \in B
        PROVE  n \in B
    <3>1. f[n - 1] \in X
      BY <2>2
    <3>2. f[n] \in X
      BY <1>1, <1>8, <3>1, HearType
    <3> QED BY <1>1, <3>2
  <2> HIDE DEF B
  <2>3. \A n \in 1..N : n - 1 \in B => n \in B
    BY <2>2
  <2>4. \A n \in 0..N : n \in B
    BY <1>1, <2>1, <2>3, UpTo
  <2>5. \A n \in 0..N : f[n] \in X
    BY <2>4 DEF B
  <2> QED BY <1>10, <2>5
<1> QED BY <1>7, <1>8, <1>9, <1>11 DEF Hearing

\* No keystroke changes nothing.
LEMMA TypedNothing ==
  ASSUME NEW phone, NEW K, NEW Z, NEW s \in Screens(phone, K, Z)
  PROVE  Typed(phone, s, <<>>) = s
<1> DEFINE e == <<>>
<1>1. e \in Seq(K) /\ Len(e) = 0
  OBVIOUS
<1> HIDE DEF e
<1>2. PICK f : Hearing(f, Screens(phone, K, Z), phone, s, e)
  BY <1>1, TypedSteps, Zenon
<1>3. Typed(phone, s, e) = s
  BY <1>1, <1>2 DEF Hearing
<1> QED BY <1>3 DEF e

\* Typing leaves a screen.
LEMMA TypedType ==
  ASSUME NEW phone, NEW K, NEW Z, NEW s \in Screens(phone, K, Z), NEW ss \in Seq(K)
  PROVE  Typed(phone, s, ss) \in Screens(phone, K, Z)
<1>1. PICK f : Hearing(f, Screens(phone, K, Z), phone, s, ss)
  BY TypedSteps, Zenon
<1>2. Len(ss) \in 0..Len(ss)
  OBVIOUS
<1> QED BY <1>1, <1>2 DEF Hearing

\* Keystrokes are typed in two goes as in one.
LEMMA TypedConcat ==
  ASSUME NEW phone, NEW K, NEW Z, NEW s \in Screens(phone, K, Z),
         NEW a \in Seq(K), NEW b \in Seq(K)
  PROVE  Typed(phone, s, a \o b) = Typed(phone, Typed(phone, s, a), b)
<1> DEFINE c == a \o b
           m == Len(a)
           n == Len(b)
           X == Screens(phone, K, Z)
           s1 == Typed(phone, s, a)
<1>1. /\ m \in Nat /\ n \in Nat /\ c \in Seq(K) /\ Len(c) = m + n
      /\ \A i \in 1..m : c[i] = a[i]
      /\ \A j \in 1..n : c[m + j] = b[j]
  OBVIOUS
<1>2. s1 \in X
  BY TypedType
<1> HIDE DEF c, s1
<1>a. PICK f : Hearing(f, X, phone, s, a)
  BY TypedSteps, Zenon
<1>b. PICK g : Hearing(g, X, phone, s1, b)
  BY <1>2, TypedSteps, Zenon
<1>c. PICK h : Hearing(h, X, phone, s, c)
  BY <1>1, TypedSteps, Zenon
<1>3. /\ f[0] = s /\ s1 = f[m]
      /\ \A i \in 1..m : f[i] = Hear(phone, f[i - 1], a[i])
  BY <1>a DEF Hearing, s1
<1>4. /\ g[0] = s1 /\ Typed(phone, s1, b) = g[n]
      /\ \A i \in 1..n : g[i] = Hear(phone, g[i - 1], b[i])
  BY <1>b DEF Hearing
<1>5. /\ h[0] = s /\ Typed(phone, s, c) = h[m + n]
      /\ \A i \in 1..m + n : h[i] = Hear(phone, h[i - 1], c[i])
  BY <1>1, <1>c DEF Hearing
<1> HIDE DEF m, n, X
<1>6. h[m] = f[m]
  <2> DEFINE B == {i \in 0..m : h[i] = f[i]}
  <2>1. 0 \in B
    BY <1>1, <1>3, <1>5
  <2>2. ASSUME NEW i \in 1..m, i - 1 \in B PROVE i \in B
    <3>1. i \in 1..m + n /\ h[i - 1] = f[i - 1] /\ c[i] = a[i]
      BY <1>1, <2>2
    <3>2. h[i] = f[i]
      BY <1>3, <1>5, <3>1
    <3> QED BY <1>1, <3>2
  <2>3. \A i \in 1..m : i - 1 \in B => i \in B
    BY <2>2
  <2> HIDE DEF B
  <2>4. \A i \in 0..m : i \in B
    BY <1>1, <2>1, <2>3, UpTo
  <2>5. m \in B
    BY <1>1, <2>4
  <2> QED BY <2>5 DEF B
<1>7. h[m + n] = g[n]
  <2> DEFINE B == {j \in 0..n : h[m + j] = g[j]}
  <2>1. 0 \in B
    BY <1>1, <1>3, <1>4, <1>6
  <2>2. ASSUME NEW j \in 1..n, j - 1 \in B PROVE j \in B
    <3>1. m + j \in 1..m + n /\ h[m + (j - 1)] = g[j - 1] /\ c[m + j] = b[j]
      BY <1>1, <2>2
    <3>2. (m + j) - 1 = m + (j - 1)
      BY <1>1
    <3>3. h[m + j] = Hear(phone, h[m + (j - 1)], c[m + j])
      BY <1>5, <3>1, <3>2
    <3>4. h[m + j] = g[j]
      BY <1>4, <3>1, <3>3
    <3> QED BY <1>1, <3>4
  <2>3. \A j \in 1..n : j - 1 \in B => j \in B
    BY <2>2
  <2> HIDE DEF B
  <2>4. \A j \in 0..n : j \in B
    BY <1>1, <2>1, <2>3, UpTo
  <2>5. n \in B
    BY <1>1, <2>4
  <2> QED BY <2>5 DEF B
<1>8. Typed(phone, s, c) = Typed(phone, s1, b)
  BY <1>1, <1>4, <1>5, <1>7
<1> QED BY <1>8 DEF c, s1

\* A screen with more text before it.
After(x, s) == [text |-> x \o s.text, dead |-> s.dead]

\* What a screen had before stays before what is written.
LEMMA WriteAfter ==
  ASSUME NEW phone, NEW S, NEW x \in Seq(S), NEW s, s.text \in Seq(S),
         NEW chars, [i \in DOMAIN chars |-> Stored(phone, chars[i])] \in Seq(S)
  PROVE  Write(phone, After(x, s), chars) = After(x, Write(phone, s, chars))
<1> DEFINE stored == [i \in DOMAIN chars |-> Stored(phone, chars[i])]
           y == s.text
<1> HIDE DEF stored
<1>1. AssocAt(x, y, stored)
  BY Assoc DEF stored
<1>2. x \o (y \o stored) = (x \o y) \o stored
  BY <1>1, Zenon DEF AssocAt
<1>3. Write(phone, s, chars) = [text |-> y \o stored, dead |-> "none"]
  BY DEF Write, stored
<1>4. Write(phone, After(x, s), chars) = [text |-> (x \o y) \o stored, dead |-> "none"]
  BY DEF Write, After, stored
<1> DEFINE z == y \o stored
<1>5. After(x, Write(phone, s, chars)) = [text |-> x \o z, dead |-> "none"]
  <2> HIDE DEF z
  <2>1. Write(phone, s, chars) = [text |-> z, dead |-> "none"]
    BY <1>3 DEF z
  <2> QED BY <2>1 DEF After
<1> QED BY <1>2, <1>4, <1>5, Zenon

\* A screen with a dead key waiting.
Waiting(s, accent) == [s EXCEPT !.dead = accent]

\* So it does when a dead key is left waiting.
LEMMA ExceptAfter ==
  ASSUME NEW x, NEW w, NEW c, w = [text |-> w.text, dead |-> w.dead]
  PROVE  Waiting(After(x, w), c) = After(x, Waiting(w, c))
<1>1. [w EXCEPT !.dead = c] = [text |-> w.text, dead |-> c]
  <2> DEFINE y == w.text
             d == w.dead
  <2> HIDE DEF y, d
  <2>1. w = [text |-> y, dead |-> d]
    BY DEF y, d
  <2>2. [w EXCEPT !.dead = c] = [text |-> y, dead |-> c]
    BY <2>1
  <2> QED BY <2>2 DEF y
<1>2. [After(x, w) EXCEPT !.dead = c] = [text |-> x \o w.text, dead |-> c]
  <2> DEFINE z == x \o w.text
             d == w.dead
             v == After(x, w)
  <2>1. v = [text |-> z, dead |-> d]
    BY DEF After
  <2> HIDE DEF z, d, v
  <2>2. [v EXCEPT !.dead = c] = [text |-> z, dead |-> c]
    BY <2>1
  <2> QED BY <2>2 DEF z, v
<1>3. After(x, [w EXCEPT !.dead = c]) = [text |-> x \o w.text, dead |-> c]
  <2> DEFINE v == [w EXCEPT !.dead = c]
             y == w.text
  <2> HIDE DEF v, y
  <2>1. v = [text |-> y, dead |-> c]
    BY <1>1 DEF v, y
  <2>2. After(x, v) = [text |-> x \o y, dead |-> c]
    BY <2>1 DEF After
  <2> QED BY <2>2 DEF v, y
<1> QED BY <1>2, <1>3, Zenon DEF Waiting

\* So it does when a key is heard.
LEMMA HearAfter ==
  ASSUME NEW phone, NEW K, NEW Z, NEW s \in Screens(phone, K, Z), NEW k \in K,
         NEW x \in Seq(Z)
  PROVE  Hear(phone, After(x, s), k) = After(x, Hear(phone, s, k))
<1> DEFINE made == Made(phone, k)
           pair == <<s.dead, made.char>>
           t == After(x, s)
<1> HIDE DEF t
<1> SUFFICES Hear(phone, t, k) = After(x, Hear(phone, s, k))
  BY DEF t
<1>1. t.dead = s.dead
  BY DEF After, t
<1>2. /\ <<made.char>> \in Written(phone, K) /\ <<s.dead>> \in Written(phone, K)
      /\ pair \in Written(phone, K) /\ <<>> \in Written(phone, K)
      /\ pair \in DOMAIN Composed => <<Composed[pair]>> \in Written(phone, K)
  BY PairWritten
<1>3. ASSUME NEW chars \in Written(phone, K)
      PROVE  Write(phone, t, chars) = After(x, Write(phone, s, chars))
  <2>1. s.text \in Seq(Letters(phone, K, Z)) /\ x \in Seq(Letters(phone, K, Z))
    BY DEF Screens, Letters
  <2>2. [i \in DOMAIN chars |-> Stored(phone, chars[i])] \in Seq(Letters(phone, K, Z))
    BY StoredType
  <2> QED BY <2>1, <2>2, WriteAfter DEF t
<1>3a. \A chars \in Written(phone, K) :
         Write(phone, t, chars) = After(x, Write(phone, s, chars))
  BY <1>3
<1>4. CASE made.kind = "none"
  BY <1>4 DEF Hear, t
<1>5. CASE made.kind = "dead"
  <2> DEFINE chars == IF s.dead = "none" THEN <<>> ELSE <<s.dead>>
             w == Write(phone, s, chars)
  <2>1. chars \in Written(phone, K)
    BY <1>2
  <2>2. Hear(phone, s, k) = Waiting(w, made.char)
    BY <1>5 DEF Hear, Waiting
  <2>3. Hear(phone, t, k) = Waiting(Write(phone, t, chars), made.char)
    BY <1>1, <1>5 DEF Hear, Waiting
  <2> HIDE DEF chars
  <2>4. Write(phone, t, chars) = After(x, w)
    BY <1>3a, <2>1
  <2>5. w = [text |-> w.text, dead |-> w.dead]
    BY DEF Write
  <2> HIDE DEF w, made
  <2>6. Waiting(After(x, w), made.char) = After(x, Waiting(w, made.char))
    BY <2>5, ExceptAfter
  <2> QED BY <2>2, <2>3, <2>4, <2>6
<1>6. CASE made.kind \notin {"none", "dead"}
  <2>1. CASE s.dead = "none"
    <3>1. Hear(phone, s, k) = Write(phone, s, <<made.char>>)
      BY <1>6, <2>1 DEF Hear
    <3>2. Hear(phone, t, k) = Write(phone, t, <<made.char>>)
      BY <1>1, <1>6, <2>1 DEF Hear
    <3> QED BY <1>2, <1>3a, <3>1, <3>2
  <2>2. CASE s.dead # "none" /\ made.char = Space
    <3>1. Hear(phone, s, k) = Write(phone, s, <<s.dead>>)
      BY <1>6, <2>2 DEF Hear
    <3>2. Hear(phone, t, k) = Write(phone, t, <<s.dead>>)
      BY <1>1, <1>6, <2>2 DEF Hear
    <3> QED BY <1>2, <1>3a, <3>1, <3>2
  <2>3. CASE s.dead # "none" /\ made.char # Space
    <3> DEFINE chars == IF phone.composes /\ pair \in DOMAIN Composed
                          THEN <<Composed[pair]>> ELSE pair
    <3>1. Hear(phone, s, k) = Write(phone, s, chars)
      BY <1>6, <2>3 DEF Hear
    <3>2. Hear(phone, t, k) = Write(phone, t, chars)
      BY <1>1, <1>6, <2>3 DEF Hear
    <3>3. chars \in Written(phone, K)
      BY <1>2
    <3> HIDE DEF chars
    <3> QED BY <1>3a, <3>1, <3>2, <3>3
  <2> QED BY <2>1, <2>2, <2>3
<1> QED BY <1>4, <1>5, <1>6 DEF t

\* What keystrokes write does not depend on what is written already.
LEMMA TypedAfter ==
  ASSUME NEW phone, NEW K, NEW Z, NEW s \in Screens(phone, K, Z), NEW x \in Seq(Z),
         NEW ss \in Seq(K)
  PROVE  Typed(phone, After(x, s), ss) = After(x, Typed(phone, s, ss))
<1> DEFINE X == Screens(phone, K, Z)
           t == After(x, s)
           n == Len(ss)
<1>1. t \in X
  <2>1. s.text \in Seq(Letters(phone, K, Z)) /\ x \in Seq(Letters(phone, K, Z))
    BY DEF Screens, Letters
  <2>2. x \o s.text \in Seq(Letters(phone, K, Z)) /\ s.dead \in Accents(phone, K)
    BY <2>1 DEF Screens
  <2> QED BY <2>2 DEF Screens, After
<1> HIDE DEF t
<1>2. PICK f : Hearing(f, X, phone, s, ss)
  BY TypedSteps, Zenon
<1>3. PICK g : Hearing(g, X, phone, t, ss)
  BY <1>1, TypedSteps, Zenon
<1>4. n \in Nat /\ \A i \in 1..n : ss[i] \in K
  OBVIOUS
<1> DEFINE B == {i \in 0..n : g[i] = After(x, f[i])}
<1>5. 0 \in B
  BY <1>2, <1>3, <1>4 DEF Hearing, t
<1>6. ASSUME NEW i \in 1..n, i - 1 \in B
      PROVE  i \in B
  <2>1. g[i - 1] = After(x, f[i - 1]) /\ i - 1 \in 0..n
    BY <1>6
  <2>2. f[i] = Hear(phone, f[i - 1], ss[i]) /\ f[i - 1] \in X
    BY <1>2, <2>1 DEF Hearing
  <2>3. g[i] = Hear(phone, g[i - 1], ss[i])
    BY <1>3 DEF Hearing
  <2>4. g[i] = After(x, f[i])
    BY <1>4, <2>1, <2>2, <2>3, HearAfter
  <2> QED BY <1>4, <2>4
<1>7. \A i \in 1..n : i - 1 \in B => i \in B
  BY <1>6
<1> HIDE DEF B
<1>8. \A i \in 0..n : i \in B
  BY <1>4, <1>5, <1>7, UpTo
<1>9. n \in B
  BY <1>4, <1>8
<1>10. g[n] = After(x, f[n])
  BY <1>9 DEF B
<1>11. Typed(phone, s, ss) = f[n] /\ Typed(phone, t, ss) = g[n]
  BY <1>2, <1>3 DEF Hearing
<1> QED BY <1>10, <1>11 DEF t

-----------------------------------------------------------------------------
(***************************************************************************)
(* FlattenSeq.                                                             *)
(***************************************************************************)

\* That f is what the first of the sequences make, for each number of them.
Flattened(f, S, ss) ==
  /\ f \in [1..Len(ss) -> Seq(S)]
  /\ f[1] = ss[1]
  /\ \A i \in 2..Len(ss) : f[i] = f[i - 1] \o ss[i]
  /\ FlattenSeq(ss) = f[Len(ss)]

\* FlattenSeq, a sequence at a time.
LEMMA FlattenSteps ==
  ASSUME NEW S, NEW ss \in Seq(Seq(S)), ss # <<>>
  PROVE  \E f : Flattened(f, S, ss)
<1> DEFINE n == Len(ss)
           e(f, i) == IF i = 1 THEN ss[i] ELSE f[i - 1] \o ss[i]
           To(f, m) == f \in [1..n -> Seq(S)] /\ \A i \in 1..m : f[i] = e(f, i)
           B == {m \in 0..n : \E f : To(f, m)}
<1>1. n \in Nat \ {0} /\ \A i \in 1..n : ss[i] \in Seq(S)
  OBVIOUS
<1>2. 0 \in B
  <2>1. [i \in 1..n |-> ss[i]] \in [1..n -> Seq(S)]
    BY <1>1
  <2>2. To([i \in 1..n |-> ss[i]], 0)
    BY <2>1
  <2> HIDE DEF To
  <2> QED BY <1>1, <2>2
<1>3. ASSUME NEW m \in 1..n, m - 1 \in B
      PROVE  m \in B
  <2>1. PICK f : To(f, m - 1)
    BY <1>3
  <2> DEFINE g == [f EXCEPT ![m] = e(f, m)]
  <2>2. e(f, m) \in Seq(S)
    <3>1. CASE m = 1
      BY <1>1, <3>1
    <3>2. CASE m # 1
      <4>1. m - 1 \in 1..n
        BY <1>1, <3>2
      <4>2. f[m - 1] \in Seq(S) /\ ss[m] \in Seq(S)
        BY <1>1, <2>1, <4>1
      <4> DEFINE x == f[m - 1]
                 y == ss[m]
      <4> HIDE DEF x, y
      <4>3. x \o y \in Seq(S)
        BY <4>2 DEF x, y
      <4> QED BY <3>2, <4>3 DEF x, y
    <3> QED BY <3>1, <3>2
  <2> HIDE DEF e
  <2>3. g \in [1..n -> Seq(S)] /\ g[m] = e(f, m) /\ \A i \in 1..n : i # m => g[i] = f[i]
    BY <2>1, <2>2
  <2> HIDE DEF g
  <2>4. ASSUME NEW i \in 1..m
        PROVE  g[i] = e(g, i)
    <3>1. i \in 1..n /\ (i > 1 => i - 1 \in 1..n /\ i - 1 # m)
      BY <1>1
    <3>2. i > 1 => g[i - 1] = f[i - 1]
      BY <2>3, <3>1
    <3>3. e(g, i) = e(f, i)
      BY <3>1, <3>2 DEF e
    <3>4. CASE i = m
      BY <2>3, <3>3, <3>4
    <3>5. CASE i # m
      <4>1. i \in 1..m - 1
        BY <3>1, <3>5
      <4>2. f[i] = e(f, i)
        BY <2>1, <4>1
      <4> QED BY <2>3, <3>1, <3>3, <3>5, <4>2
    <3> QED BY <3>4, <3>5
  <2>5. To(g, m)
    BY <2>3, <2>4
  <2> HIDE DEF To
  <2> QED BY <1>1, <2>5
<1>4. \A m \in 1..n : m - 1 \in B => m \in B
  BY <1>3
<1> HIDE DEF B
<1>5. n \in B
  <2>1. \A m \in 0..n : m \in B
    BY <1>1, <1>2, <1>4, UpTo
  <2> QED BY <1>1, <2>1
<1>6. PICK f : To(f, n)
  BY <1>5 DEF B
<1> DEFINE Flat(g) == g = [i \in 1..n |-> IF i = 1 THEN ss[i] ELSE g[i - 1] \o ss[i]]
           flatten == CHOOSE g : Flat(g)
<1>7. Flat(f)
  BY <1>6
<1>8. FlattenSeq(ss) = flatten[n]
  BY <1>1 DEF FlattenSeq
<1>9. Flat(flatten)
  <2> HIDE DEF Flat
  <2> QED BY <1>7
<1> HIDE DEF flatten
<1>a. ASSUME NEW g, Flat(g)
      PROVE  g[1] = ss[1] /\ \A i \in 2..n : g[i] = g[i - 1] \o ss[i]
  <2>1. g = [i \in 1..n |-> e(g, i)]
    BY <1>a
  <2> HIDE DEF e, n
  <2>2. \A i \in 1..n : g[i] = e(g, i)
    BY <2>1
  <2>3. 1 \in 1..n /\ \A i \in 2..n : i \in 1..n /\ i # 1
    BY <1>1
  <2> QED BY <2>2, <2>3 DEF e
<1>10. flatten[1] = ss[1] /\ \A i \in 2..n : flatten[i] = flatten[i - 1] \o ss[i]
  BY <1>9, <1>a
<1>11. f[1] = ss[1] /\ \A i \in 2..n : f[i] = f[i - 1] \o ss[i]
  BY <1>7, <1>a
<1>12. \A i \in 1..n : flatten[i] = f[i]
  <2> DEFINE A == {m \in 0..n : m = 0 \/ flatten[m] = f[m]}
  <2>1. 0 \in A
    BY <1>1
  <2>2. ASSUME NEW m \in 1..n, m - 1 \in A PROVE m \in A
    <3>1. CASE m = 1
      BY <1>10, <1>11, <3>1
    <3>2. CASE m # 1
      <4>1. m \in 2..n /\ flatten[m - 1] = f[m - 1]
        BY <1>1, <2>2, <3>2
      <4>2. flatten[m] = f[m]
        BY <1>10, <1>11, <4>1
      <4> QED BY <4>2
    <3> QED BY <3>1, <3>2
  <2>3. \A m \in 1..n : m - 1 \in A => m \in A
    BY <2>2
  <2> HIDE DEF A
  <2>4. \A m \in 0..n : m \in A
    BY <1>1, <2>1, <2>3, UpTo
  <2> QED BY <1>1, <2>4 DEF A
<1>13. n \in 1..n
  BY <1>1
<1>14. FlattenSeq(ss) = f[n]
  BY <1>8, <1>12, <1>13
<1> QED BY <1>6, <1>11, <1>14 DEF Flattened

\* Nothing flattens to nothing.
LEMMA FlattenNothing == FlattenSeq(<<>>) = <<>>
BY DEF FlattenSeq

\* What sequences over S flatten to is one.
LEMMA FlattenType ==
  ASSUME NEW S, NEW ss \in Seq(Seq(S))
  PROVE  FlattenSeq(ss) \in Seq(S)
<1>1. CASE ss = <<>>
  <2>1. <<>> \in Seq(S)
    OBVIOUS
  <2> QED BY <1>1, <2>1, FlattenNothing
<1>2. CASE ss # <<>>
  <2>1. PICK f : Flattened(f, S, ss)
    BY <1>2, FlattenSteps
  <2>2. Len(ss) \in 1..Len(ss)
    BY <1>2
  <2> QED BY <2>1, <2>2 DEF Flattened
<1> QED BY <1>1, <1>2

\* One sequence flattens to itself.
LEMMA FlattenOne ==
  ASSUME NEW S, NEW x \in Seq(S)
  PROVE  FlattenSeq(<<x>>) = x
<1> DEFINE ss == <<x>>
<1>1. ss \in Seq(Seq(S)) /\ ss # <<>> /\ Len(ss) = 1 /\ ss[1] = x
  OBVIOUS
<1> HIDE DEF ss
<1>2. PICK f : Flattened(f, S, ss)
  BY <1>1, FlattenSteps
<1>3. FlattenSeq(ss) = x
  BY <1>1, <1>2 DEF Flattened
<1> QED BY <1>3 DEF ss

\* Sequences are flattened in two goes as in one.
LEMMA FlattenConcat ==
  ASSUME NEW S, NEW a \in Seq(Seq(S)), NEW b \in Seq(Seq(S))
  PROVE  FlattenSeq(a \o b) = FlattenSeq(a) \o FlattenSeq(b)
<1>0. FlattenSeq(a) \in Seq(S) /\ FlattenSeq(b) \in Seq(S)
  BY FlattenType
<1>1. CASE a = <<>>
  <2>1. a \o b = b
    BY <1>1
  <2>2. <<>> \o FlattenSeq(b) = FlattenSeq(b)
    <3> DEFINE y == FlattenSeq(b)
    <3> HIDE DEF y
    <3>1. <<>> \o y = y
      BY <1>0 DEF y
    <3> QED BY <3>1 DEF y
  <2> QED BY <1>1, <2>1, <2>2, FlattenNothing
<1>2. CASE b = <<>>
  <2>1. a \o b = a
    BY <1>2
  <2>2. FlattenSeq(a) \o <<>> = FlattenSeq(a)
    <3> DEFINE y == FlattenSeq(a)
    <3> HIDE DEF y
    <3>1. y \o <<>> = y
      BY <1>0 DEF y
    <3> QED BY <3>1 DEF y
  <2> QED BY <1>2, <2>1, <2>2, FlattenNothing
<1>3. CASE a # <<>> /\ b # <<>>
  <2> DEFINE c == a \o b
             m == Len(a)
             n == Len(b)
             x == FlattenSeq(a)
  <2>1. /\ m \in Nat \ {0} /\ n \in Nat \ {0} /\ c \in Seq(Seq(S)) /\ Len(c) = m + n
        /\ \A i \in 1..m : c[i] = a[i]
        /\ \A j \in 1..n : c[m + j] = b[j]
        /\ c # <<>>
    BY <1>3
  <2> HIDE DEF c
  <2>2. PICK f : Flattened(f, S, a)
    BY <1>3, FlattenSteps
  <2>3. PICK g : Flattened(g, S, b)
    BY <1>3, FlattenSteps
  <2>4. PICK h : Flattened(h, S, c)
    BY <2>1, FlattenSteps
  <2>5. f[1] = a[1] /\ x = f[m] /\ \A i \in 2..m : f[i] = f[i - 1] \o a[i]
    BY <2>2 DEF Flattened
  <2>6. /\ g \in [1..n -> Seq(S)] /\ g[1] = b[1] /\ FlattenSeq(b) = g[n]
        /\ \A i \in 2..n : g[i] = g[i - 1] \o b[i]
    BY <2>3 DEF Flattened
  <2>7. /\ h[1] = c[1] /\ FlattenSeq(c) = h[m + n]
        /\ \A i \in 2..m + n : h[i] = h[i - 1] \o c[i]
    BY <2>1, <2>4 DEF Flattened
  <2>b. \A i \in 1..n : b[i] \in Seq(S)
    OBVIOUS
  <2> HIDE DEF m, n, x
  <2>8. h[m] = x
    <3> DEFINE A == {i \in 0..m : i = 0 \/ h[i] = f[i]}
    <3>1. 0 \in A
      BY <2>1
    <3>2. ASSUME NEW i \in 1..m, i - 1 \in A PROVE i \in A
      <4>1. CASE i = 1
        BY <2>1, <2>5, <2>7, <4>1
      <4>2. CASE i # 1
        <5>1. i \in 2..m /\ i \in 2..m + n /\ h[i - 1] = f[i - 1] /\ c[i] = a[i]
          BY <2>1, <3>2, <4>2
        <5>2. h[i] = f[i]
          BY <2>5, <2>7, <5>1
        <5> QED BY <2>1, <5>2
      <4> QED BY <4>1, <4>2
    <3>3. \A i \in 1..m : i - 1 \in A => i \in A
      BY <3>2
    <3> HIDE DEF A
    <3>4. \A i \in 0..m : i \in A
      BY <2>1, <3>1, <3>3, UpTo
    <3>5. m \in A
      BY <2>1, <3>4
    <3> QED BY <2>1, <2>5, <3>5 DEF A
  <2>9. h[m + n] = x \o g[n]
    <3> DEFINE A == {j \in 0..n : j = 0 \/ h[m + j] = x \o g[j]}
    <3>1. 0 \in A
      BY <2>1
    <3>2. ASSUME NEW j \in 1..n, j - 1 \in A PROVE j \in A
      <4>1. m + j \in 2..m + n /\ c[m + j] = b[j] /\ (m + j) - 1 = m + (j - 1)
        BY <2>1
      <4>2. h[m + j] = h[m + (j - 1)] \o b[j]
        BY <2>7, <4>1
      <4>3. CASE j = 1
        <5>1. m + (j - 1) = m
          BY <2>1, <4>3
        <5>2. h[m + j] = x \o g[j]
          BY <2>6, <2>8, <4>2, <4>3, <5>1
        <5> QED BY <2>1, <5>2
      <4>4. CASE j # 1
        <5>1. j \in 2..n /\ j - 1 \in 1..n /\ h[m + (j - 1)] = x \o g[j - 1]
          BY <2>1, <3>2, <4>4
        <5>2. g[j] = g[j - 1] \o b[j]
          BY <2>6, <5>1
        <5>3. AssocAt(x, g[j - 1], b[j])
          <6>1. g[j - 1] \in Seq(S) /\ b[j] \in Seq(S) /\ x \in Seq(S)
            BY <1>0, <2>6, <2>b, <5>1 DEF x
          <6> QED BY <6>1, Assoc, Zenon
        <5>4. x \o (g[j - 1] \o b[j]) = (x \o g[j - 1]) \o b[j]
          BY <5>3, Zenon DEF AssocAt
        <5>5. h[m + j] = x \o g[j]
          BY <4>2, <5>1, <5>2, <5>4, Zenon
        <5> QED BY <2>1, <5>5
      <4> QED BY <4>3, <4>4
    <3>3. \A j \in 1..n : j - 1 \in A => j \in A
      BY <3>2
    <3> HIDE DEF A
    <3>4. \A j \in 0..n : j \in A
      BY <2>1, <3>1, <3>3, UpTo
    <3>5. n \in A /\ n # 0
      BY <2>1, <3>4
    <3> QED BY <3>5, Zenon DEF A
  <2> QED BY <2>6, <2>7, <2>9, Zenon DEF c, x
<1> QED BY <1>1, <1>2, <1>3

-----------------------------------------------------------------------------
(***************************************************************************)
(* A text read by what a whole sequence is, and as decode reads it.        *)
(***************************************************************************)

\* The first characters of a text.
First(t, k) == SubSeq(t, 1, k)

\* The first characters of a text, and those after them.
LEMMA FirstIs ==
  ASSUME NEW S, NEW t \in Seq(S), NEW k \in 1..Len(t)
  PROVE  /\ First(t, k) \in Seq(S) /\ Len(First(t, k)) = k
         /\ \A i \in 1..k : First(t, k)[i] = t[i]
         /\ t = First(t, k) \o Rest(t, k + 1)
<1>0. Len(t) \in Nat
  OBVIOUS
<1> DEFINE a == First(t, k)
           b == Rest(t, k + 1)
<1>1. a \in Seq(S) /\ Len(a) = k /\ \A i \in 1..k : a[i] = t[i]
  BY <1>0 DEF First
<1>2. k + 1 \in 1..Len(t) + 1
  BY <1>0
<1>3. /\ b \in Seq(S) /\ Len(b) = Len(t) - (k + 1) + 1
      /\ \A i \in 1..Len(t) - (k + 1) + 1 : b[i] = t[(k + 1) + i - 1]
  BY <1>2, RestIs
<1> HIDE DEF a, b
<1>4. a \o b \in Seq(S) /\ Len(a \o b) = Len(t)
  <2>0. a \in Seq(S) /\ b \in Seq(S)
    BY <1>1, <1>3
  <2>1. a \o b \in Seq(S) /\ Len(a \o b) = Len(a) + Len(b)
    BY <2>0, ConcatProperties
  <2> QED BY <1>0, <1>1, <1>3, <2>1
<1>5. ASSUME NEW i \in 1..Len(t)
      PROVE  (a \o b)[i] = t[i]
  <2>1. CASE i <= k
    BY <1>0, <1>1, <1>3, <2>1
  <2>2. CASE i > k
    <3>1. (a \o b)[i] = b[i - k] /\ i - k \in 1..Len(t) - (k + 1) + 1
      BY <1>0, <1>1, <1>3, <2>2
    <3>2. (k + 1) + (i - k) - 1 = i
      OBVIOUS
    <3> QED BY <1>3, <3>1, <3>2
  <2>3. i <= k \/ i > k
    OBVIOUS
  <2> QED BY <2>1, <2>2, <2>3
<1>6. t = a \o b
  BY <1>4, <1>5, SeqEqual
<1> QED BY <1>1, <1>6 DEF a, b

\* A whole sequence matches, all of it.
LEMMA SequenceIsMatched ==
  ASSUME NEW S, NEW s \in Seq(S), IsSequence(s)
  PROVE  Match(s).length = Len(s)
<1>0. Len(s) \in Nat /\ Len(s) > 2
  BY DEF IsSequence
<1>1. CASE Len(s) = 3 /\ s[2] = "O"
  BY <1>0, <1>1 DEF Match, Found
<1>2. CASE Len(s) = 4 /\ s[2] = "[" /\ s[3] = "["
  BY <1>0, <1>2 DEF Match, Found
<1>3. CASE /\ s[2] = "[" /\ s[3] # "["
           /\ Last(s) \notin ParameterChars
           /\ \A i \in 3..Len(s) - 1 : s[i] \in ParameterChars
  <2>1. Match(s) = Control(s)
    BY <1>0, <1>3 DEF Match
  <2>2. Len(s) \in 3..Len(s) /\ s[Len(s)] \notin ParameterChars
    BY <1>0, <1>3 DEF Last
  <2>3. Final(s) = Len(s)
    BY <1>3, <2>2, FinalOnce
  <2>4. Control(s).length = Len(s)
    BY <1>0, <2>3 DEF Control, Found
  <2> QED BY <2>1, <2>4
<1> QED BY <1>1, <1>2, <1>3 DEF IsSequence

\* What match finds, by how a text goes on.
MatchIs(t) ==
  \/ Len(t) < 2 /\ Match(t) = Arriving
  \/ Len(t) > 1 /\ t[2] \notin {"O", "["} /\ Match(t) = Found(<<>>, 1)
  \/ Len(t) = 2 /\ t[2] \in {"O", "["} /\ Match(t) = Arriving
  \/ /\ Len(t) > 2 /\ t[2] = "O"
     /\ Match(t) = Found(Keyed(FinalLetters, t[3], ImplicitModifiers(t[3])), 3)
  \/ Len(t) = 3 /\ t[2] = "[" /\ t[3] = "[" /\ Match(t) = Arriving
  \/ /\ Len(t) > 3 /\ t[2] = "[" /\ t[3] = "["
     /\ Match(t) = Found(Keyed(LinuxFunction, t[4], {}), 4)
  \/ Len(t) > 2 /\ t[2] = "[" /\ t[3] # "[" /\ Match(t) = Control(t)

\* The ways in which match answers.
LEMMA MatchCases ==
  ASSUME NEW S, NEW t \in Seq(S)
  PROVE  MatchIs(t)
<1>0. Len(t) \in Nat
  OBVIOUS
<1>1. CASE Len(t) < 2
  BY <1>0, <1>1 DEF Match, MatchIs
<1>2. CASE Len(t) > 1 /\ t[2] \notin {"O", "["}
  BY <1>0, <1>2 DEF Match, MatchIs
<1>3. CASE Len(t) = 2 /\ t[2] \in {"O", "["}
  BY <1>0, <1>3 DEF Match, MatchIs
<1>4. CASE Len(t) > 2 /\ t[2] = "O"
  BY <1>0, <1>4 DEF Match, MatchIs
<1>5. CASE Len(t) = 3 /\ t[2] = "[" /\ t[3] = "["
  BY <1>0, <1>5 DEF Match, MatchIs
<1>6. CASE Len(t) > 3 /\ t[2] = "[" /\ t[3] = "["
  <2>1. Match(t) = Found(Keyed(LinuxFunction, t[4], {}), 4)
    BY <1>0, <1>6 DEF Match
  <2> QED BY <1>6, <2>1 DEF MatchIs
<1>7. CASE Len(t) > 2 /\ t[2] = "[" /\ t[3] # "["
  <2>1. Match(t) = Control(t)
    BY <1>0, <1>7 DEF Match
  <2> QED BY <1>7, <2>1 DEF MatchIs
<1>8. Len(t) < 2 \/ (Len(t) > 1 /\ (Len(t) = 2 \/ (Len(t) > 2 /\ (Len(t) = 3 \/ Len(t) > 3))))
  <2>1. \A n \in Nat : n < 2 \/ (n > 1 /\ (n = 2 \/ (n > 2 /\ (n = 3 \/ n > 3))))
    OBVIOUS
  <2> QED BY <1>0, <2>1, Zenon
<1> QED BY <1>1, <1>2, <1>3, <1>4, <1>5, <1>6, <1>7, <1>8, Zenon

\* What match takes, beyond a lone escape, is a whole sequence.
LEMMA MatchedIsSequence ==
  ASSUME NEW S, NEW t \in Seq(S), t # <<>>, t[1] = Esc, Match(t).length > 1
  PROVE  /\ Match(t).length \in 3..Len(t)
         /\ IsSequence(First(t, Match(t).length))
<1> DEFINE k == Match(t).length
           s == First(t, k)
<1>0. Len(t) \in Nat /\ k \in 0..Len(t)
  BY MatchLength
<1>1. k \in 1..Len(t)
  BY <1>0
<1>2. s \in Seq(S) /\ Len(s) = k /\ \A i \in 1..k : s[i] = t[i]
  <2> HIDE DEF k
  <2> QED BY <1>1, FirstIs
<1>3. Len(t) > 2 /\ t[2] \in {"O", "["}
  BY <1>0, MatchCases DEF MatchIs, Arriving, Found
<1>4. CASE t[2] = "O"
  <2>1. k = 3
    BY <1>0, <1>3, <1>4 DEF Match, Found
  <2> HIDE DEF k
  <2>2. IsSequence(s)
    BY <1>2, <1>4, <2>1 DEF IsSequence
  <2>3. k \in 3..Len(t)
    BY <1>1, <2>1
  <2> QED BY <2>2, <2>3 DEF k
<1>5. CASE t[2] = "[" /\ t[3] = "["
  <2>1. k = 4
    BY <1>0, <1>3, <1>5 DEF Match, Found, Arriving
  <2> HIDE DEF k
  <2>2. IsSequence(s)
    BY <1>2, <1>5, <2>1 DEF IsSequence
  <2>3. k \in 3..Len(t)
    BY <1>1, <2>1
  <2> QED BY <2>2, <2>3 DEF k
<1>6. CASE t[2] = "[" /\ t[3] # "["
  <2>1. Match(t) = Control(t)
    BY <1>0, <1>3, <1>6 DEF Match
  <2>2. k = Final(t) /\ Final(t) \in 3..Len(t)
    BY <1>0, <1>3, <2>1, ControlStable
  <2>3. /\ \A j \in 3..Final(t) - 1 : t[j] \in ParameterChars
        /\ t[Final(t)] \notin ParameterChars
    BY <1>0, <1>3, <2>2, FinalIs
  <2> HIDE DEF k
  <2>4. Last(s) \notin ParameterChars /\ \A j \in 3..Len(s) - 1 : s[j] \in ParameterChars
    BY <1>0, <1>2, <2>2, <2>3 DEF Last
  <2>5. s[1] = Esc /\ s[2] = "[" /\ s[3] # "[" /\ Len(s) > 2
    BY <1>0, <1>2, <1>6, <2>2
  <2>6. IsSequence(s)
    BY <2>4, <2>5 DEF IsSequence
  <2> QED BY <2>2, <2>6 DEF k
<1> QED BY <1>3, <1>4, <1>5, <1>6

\* A text that begins with a whole sequence matches that, and as alone.
LEMMA SequenceMatches ==
  ASSUME NEW S, NEW t \in Seq(S), NEW k \in 1..Len(t), IsSequence(First(t, k))
  PROVE  Match(t).length = k /\ Match(t) = Match(First(t, k))
<1> DEFINE a == First(t, k)
           b == Rest(t, k + 1)
<1>1. a \in Seq(S) /\ Len(a) = k /\ t = a \o b
  BY FirstIs
<1>2. b \in Seq(S)
  <2>1. k + 1 \in 1..Len(t) + 1
    OBVIOUS
  <2> QED BY <2>1, RestIs
<1> HIDE DEF a, b
<1>3. Match(a).length = k
  BY <1>1, SequenceIsMatched DEF a
<1>4. Match(a \o b) = Match(a)
  BY <1>1, <1>2, <1>3, MatchStable
<1> QED BY <1>1, <1>3, <1>4 DEF a

\* match waits for more exactly of what may become a sequence.
LEMMA ArrivingMayBecome ==
  ASSUME NEW S, NEW t \in Seq(S), t # <<>>, t[1] = Esc
  PROVE  MayBecome(t) <=> Match(t).length = 0
<1>0. Len(t) \in Nat \ {0} /\ Match(t).length \in 0..Len(t)
  BY MatchLength
<1>1. ASSUME Match(t).length = 0
      PROVE  MayBecome(t)
  <2>1. Len(t) > 1 => t[2] \in {"[", "O"}
    BY <1>0, <1>1 DEF Match, Found
  <2>2. ASSUME NEW n \in 1..Len(t), IsSequence(SubSeq(t, 1, n))
        PROVE  FALSE
    BY <1>1, <2>2, SequenceMatches DEF First
  <2> QED BY <2>1, <2>2 DEF MayBecome
<1>2. ASSUME MayBecome(t), Match(t).length # 0
      PROVE  FALSE
  <2>1. Match(t).length # 1
    <3>1. Match(t).length # 1 \/ Match(t) = Control(t)
      BY <1>0, <1>2, MatchCases DEF MatchIs, Found, Arriving, MayBecome
    <3>2. Control(t).length # 0 /\ Len(t) > 1 => Control(t).length > 2
      BY <1>0, ControlStable
    <3>3. Match(t) = Control(t) => Len(t) > 1
      BY <1>0, <1>2, MatchCases DEF MatchIs, Arriving, Found
    <3> QED BY <3>1, <3>2, <3>3
  <2>2. IsSequence(First(t, Match(t).length)) /\ Match(t).length \in 1..Len(t)
    BY <1>0, <1>2, <2>1, MatchedIsSequence
  <2> QED BY <1>2, <2>2 DEF MayBecome, First
<1> QED BY <1>1, <1>2

\* Nothing else begins in what may yet become a sequence.
LEMMA ArrivingIsOne ==
  ASSUME NEW S, NEW t \in Seq(S), t # <<>>, t[1] = Esc, Match(t).length = 0,
         NEW i \in 2..Len(t)
  PROVE  t[i] # Esc
<1>0. Len(t) \in Nat \ {0} /\ Len(t) > 1
  OBVIOUS
<1>1. t[2] \in {"[", "O"}
  BY <1>0 DEF Match, Found
<1>2. CASE i = 2
  BY <1>1, <1>2 DEF Esc
<1>3. CASE i > 2
  <2>1. Len(t) > 2 /\ t[2] = "["
    BY <1>0, <1>1, <1>3 DEF Match, Found
  <2>2. CASE t[3] = "["
    <3>1. Len(t) = 3
      BY <1>0, <2>1, <2>2, MatchCases DEF MatchIs, Found
    <3> QED BY <1>3, <2>2, <3>1 DEF Esc
  <2>3. CASE t[3] # "["
    <3>1. Control(t).length = 0
      BY <1>0, <2>1, <2>3 DEF Match
    <3>2. Final(t) \in 3..Len(t) + 1 /\ \A j \in 3..Final(t) - 1 : t[j] \in ParameterChars
      BY <1>0, FinalIs
    <3>3. Final(t) > Len(t)
      BY <1>0, <3>1, <3>2 DEF Control, Found
    <3>4. t[i] \in ParameterChars
      BY <1>0, <1>3, <3>2, <3>3
    <3> QED BY <3>4 DEF ParameterChars, Digits, Esc
  <2> QED BY <2>2, <2>3
<1> QED BY <1>0, <1>2, <1>3

\* A function of each of the elements.
Mapped(G, a) == [i \in DOMAIN a |-> G[a[i]]]

\* What G makes of two sequences it makes of each.
MapsConcat(G, E, a, b) ==
  Mapped(G, a) \in Seq(E) /\ Mapped(G, a \o b) = Mapped(G, a) \o Mapped(G, b)

\* A function maps two sequences as it does each.
LEMMA MappedConcat ==
  ASSUME NEW D, NEW E, NEW G \in [D -> E], NEW a \in Seq(D), NEW b \in Seq(D)
  PROVE  MapsConcat(G, E, a, b)
<1>1. \A c \in Seq(D) : /\ Mapped(G, c) \in Seq(E) /\ Len(Mapped(G, c)) = Len(c)
                        /\ \A i \in 1..Len(c) : Mapped(G, c)[i] = G[c[i]]
  <2>1. ASSUME NEW c \in Seq(D)
        PROVE  /\ Mapped(G, c) \in Seq(E) /\ Len(Mapped(G, c)) = Len(c)
               /\ \A i \in 1..Len(c) : Mapped(G, c)[i] = G[c[i]]
    <3>1. DOMAIN c = 1..Len(c) /\ Len(c) \in Nat /\ \A i \in 1..Len(c) : c[i] \in D
      OBVIOUS
    <3>2. Mapped(G, c) \in [1..Len(c) -> E]
      BY <3>1 DEF Mapped
    <3>3. \A i \in 1..Len(c) : Mapped(G, c)[i] = G[c[i]]
      BY <3>1 DEF Mapped
    <3> DEFINE m == Mapped(G, c)
    <3> HIDE DEF m
    <3>4. m \in [1..Len(c) -> E]
      BY <3>2 DEF m
    <3> DEFINE n == Len(c)
    <3>a. n \in Nat
      OBVIOUS
    <3> HIDE DEF n
    <3>b. m \in [1..n -> E]
      BY <3>4 DEF n
    <3>c. m \in Seq(E)
      BY <3>a, <3>b
    <3>d. Len(m) = n
      BY <3>a, <3>b
    <3>5. m \in Seq(E) /\ Len(m) = Len(c)
      BY <3>c, <3>d DEF n
    <3> QED BY <3>3, <3>5 DEF m
  <2> QED BY <2>1
<1> DEFINE x == Mapped(G, a)
           y == Mapped(G, b)
           z == Mapped(G, a \o b)
<1>2. a \o b \in Seq(D) /\ Len(a \o b) = Len(a) + Len(b) /\ Len(a) \in Nat /\ Len(b) \in Nat
  OBVIOUS
<1>3. x \in Seq(E) /\ Len(x) = Len(a) /\ \A i \in 1..Len(a) : x[i] = G[a[i]]
  BY <1>1
<1>4. y \in Seq(E) /\ Len(y) = Len(b) /\ \A i \in 1..Len(b) : y[i] = G[b[i]]
  BY <1>1
<1>5. /\ z \in Seq(E) /\ Len(z) = Len(a) + Len(b)
      /\ \A i \in 1..Len(a) + Len(b) : z[i] = G[(a \o b)[i]]
  BY <1>1, <1>2
<1> HIDE DEF x, y, z
<1>6. x \in Seq(E) /\ y \in Seq(E)
  BY <1>3, <1>4
<1>7. /\ x \o y \in Seq(E) /\ Len(x \o y) = Len(x) + Len(y)
      /\ \A i \in 1..Len(x) + Len(y) :
           (x \o y)[i] = IF i <= Len(x) THEN x[i] ELSE y[i - Len(x)]
  BY <1>6, ConcatProperties
<1>8. ASSUME NEW i \in 1..Len(a) + Len(b)
      PROVE  z[i] = (x \o y)[i]
  <2>1. CASE i <= Len(a)
    <3>1. (a \o b)[i] = a[i] /\ i \in 1..Len(a)
      BY <1>2, <2>1
    <3> QED BY <1>3, <1>4, <1>5, <1>7, <2>1, <3>1
  <2>2. CASE i > Len(a)
    <3>1. (a \o b)[i] = b[i - Len(a)] /\ i - Len(a) \in 1..Len(b) /\ ~(i <= Len(a))
      BY <1>2, <2>2
    <3>2. (x \o y)[i] = y[i - Len(a)] /\ y[i - Len(a)] = G[b[i - Len(a)]]
      BY <1>2, <1>3, <1>4, <1>7, <3>1
    <3>3. z[i] = G[b[i - Len(a)]]
      BY <1>5, <3>1
    <3> QED BY <3>2, <3>3
  <2>3. i <= Len(a) \/ i > Len(a)
    BY <1>2
  <2> QED BY <2>1, <2>2, <2>3
<1>9. z = x \o y
  BY <1>3, <1>4, <1>5, <1>7, <1>8, SeqEqual
<1> QED BY <1>3, <1>9 DEF x, y, z, MapsConcat

\* What a function makes of each, one after the other.
Spelt(G, a) == FlattenSeq(Mapped(G, a))

\* What G spells of two sequences it spells of each.
SpellsConcat(G, T, a, b) ==
  /\ Spelt(G, a) \in Seq(T)
  /\ Spelt(G, a \o b) = Spelt(G, a) \o Spelt(G, b)

\* Two sequences are spelt as each is.
LEMMA SpeltConcat ==
  ASSUME NEW D, NEW T, NEW G \in [D -> Seq(T)], NEW a \in Seq(D), NEW b \in Seq(D)
  PROVE  SpellsConcat(G, T, a, b)
<1>1. /\ Mapped(G, a) \in Seq(Seq(T)) /\ Mapped(G, b) \in Seq(Seq(T))
      /\ Mapped(G, a \o b) = Mapped(G, a) \o Mapped(G, b)
  <2> DEFINE E == Seq(T)
  <2>1. G \in [D -> E]
    OBVIOUS
  <2> HIDE DEF E
  <2>2. MapsConcat(G, E, a, b) /\ MapsConcat(G, E, b, b)
    BY <2>1, MappedConcat, Zenon
  <2> QED BY <2>2 DEF E, MapsConcat
<1>2. FlattenSeq(Mapped(G, a)) \in Seq(T)
  BY <1>1, FlattenType
<1>3. FlattenSeq(Mapped(G, a) \o Mapped(G, b))
        = FlattenSeq(Mapped(G, a)) \o FlattenSeq(Mapped(G, b))
  BY <1>1, FlattenConcat
<1> QED BY <1>1, <1>2, <1>3 DEF Spelt, SpellsConcat

\* What is spelt in T is over T.
LEMMA SpeltType ==
  ASSUME NEW D, NEW T, NEW G \in [D -> Seq(T)], NEW a \in Seq(D)
  PROVE  Spelt(G, a) \in Seq(T)
<1>1. SpellsConcat(G, T, a, a)
  BY SpeltConcat, Zenon
<1> QED BY <1>1 DEF SpellsConcat

\* One item is spelt as itself.
LEMMA SpeltOne ==
  ASSUME NEW D, NEW T, NEW G \in [D -> Seq(T)], NEW x \in D
  PROVE  Spelt(G, <<x>>) = G[x] /\ Spelt(G, <<>>) = <<>>
<1>1. Mapped(G, <<x>>) = <<G[x]>>
  BY DEF Mapped
<1>2. Mapped(G, <<>>) = <<>>
  BY DEF Mapped
<1>3. G[x] \in Seq(T)
  OBVIOUS
<1> QED BY <1>1, <1>2, <1>3, FlattenOne, FlattenNothing DEF Spelt

\* What an item comes to.
Mean(item, coming) ==
  IF item.kind = "char" THEN coming[item.char]
  ELSE IF item.kind = "steps" THEN Keys(item.steps) ELSE <<>>

\* What the items of texts over S mean.
Meaning(S, coming) == [item \in Items(S) |-> Mean(item, coming)]

\* That coming says of each character of S which of T it comes to, and that
\* these are all there is to be shown.
Comings(S, T, coming) ==
  coming \in [S -> Seq(T)] /\ \A r \in Seq(S) : Keys(Match(r).steps) \in Seq(T)

\* Each item means what its kind says.
LEMMA MeaningType ==
  ASSUME NEW S, NEW T, NEW coming, Comings(S, T, coming)
  PROVE  /\ Meaning(S, coming) \in [Items(S) -> Seq(T)]
         /\ \A c \in S : Meaning(S, coming)[Char(c)] = coming[c]
         /\ \A r \in Seq(S) : Meaning(S, coming)[Steps(Match(r).steps)] = Keys(Match(r).steps)
         /\ Meaning(S, coming)[Unknown] = <<>>
<1>1. \A c \in S : Mean(Char(c), coming) = coming[c] /\ Char(c) \in Items(S)
  BY DEF Mean, Char, Items
<1>2. \A r \in Seq(S) : /\ Mean(Steps(Match(r).steps), coming) = Keys(Match(r).steps)
                        /\ Steps(Match(r).steps) \in Items(S)
  BY DEF Mean, Steps, Items
<1>3. Mean(Unknown, coming) = <<>> /\ Unknown \in Items(S)
  BY DEF Mean, Unknown, Items
<1>4. ASSUME NEW item \in Items(S)
      PROVE  Mean(item, coming) \in Seq(T)
  <2>1. CASE \E c \in S : item = Char(c)
    BY <1>1, <2>1 DEF Comings
  <2>2. CASE \E r \in Seq(S) : item = Steps(Match(r).steps)
    BY <1>2, <2>2 DEF Comings
  <2>3. CASE item = Unknown
    <3>1. <<>> \in Seq(T)
      OBVIOUS
    <3> QED BY <1>3, <2>3, <3>1
  <2> QED BY <2>1, <2>2, <2>3 DEF Items
<1> QED BY <1>1, <1>2, <1>3, <1>4 DEF Meaning

\* What a text comes to as decode has it, and its tail if a pause follows.
Full(S, t, pause, coming) ==
  Spelt(Meaning(S, coming), Decode(t).items)
    \o (IF pause THEN Spelt(coming, Decode(t).tail) ELSE <<>>)

\* Nothing has nothing to say.
LEMMA FullNothing ==
  ASSUME NEW S, NEW T, NEW coming, Comings(S, T, coming), NEW pause \in BOOLEAN
  PROVE  Full(S, <<>>, pause, coming) = <<>>
<1>1. Decode(<<>>).items = <<>> /\ Decode(<<>>).tail = <<>>
  BY DecodeNothing
<1>2. \A G : Spelt(G, <<>>) = <<>>
  <2>1. \A G : Mapped(G, <<>>) = <<>>
    BY DEF Mapped
  <2> QED BY <2>1, FlattenNothing DEF Spelt
<1>3. Full(S, <<>>, pause, coming) = <<>> \o <<>>
  BY <1>1, <1>2 DEF Full
<1> QED BY <1>3

\* What a text means is over T.
LEMMA FullType ==
  ASSUME NEW S, NEW T, NEW coming, Comings(S, T, coming), NEW pause \in BOOLEAN,
         NEW t \in Seq(S)
  PROVE  Full(S, t, pause, coming) \in Seq(T)
<1>1. Decode(t).items \in Seq(Items(S)) /\ Decode(t).tail \in Seq(S)
  BY DecodeTyped DEF DecodeType
<1> DEFINE x == Spelt(Meaning(S, coming), Decode(t).items)
           y == IF pause THEN Spelt(coming, Decode(t).tail) ELSE <<>>
<1>2. x \in Seq(T)
  BY <1>1, MeaningType, SpeltType
<1>3. y \in Seq(T)
  <2>1. coming \in [S -> Seq(T)]
    BY DEF Comings
  <2>2. Spelt(coming, Decode(t).tail) \in Seq(T)
    BY <1>1, <2>1, SpeltType
  <2>3. <<>> \in Seq(T)
    OBVIOUS
  <2> QED BY <2>2, <2>3
<1> HIDE DEF x, y
<1>4. x \o y \in Seq(T)
  BY <1>2, <1>3
<1> QED BY <1>4 DEF Full, x, y

\* What a text means, an item at a time.
LEMMA FullOn ==
  ASSUME NEW S, NEW T, NEW coming, Comings(S, T, coming), NEW pause \in BOOLEAN,
         NEW t \in Seq(S), t # <<>>
  PROVE  /\ Beginning(t).length = 0 =>
              Full(S, t, pause, coming) = IF pause THEN Spelt(coming, t) ELSE <<>>
         /\ Beginning(t).length # 0 =>
              Full(S, t, pause, coming)
                = Meaning(S, coming)[Beginning(t).item]
                    \o Full(S, Rest(t, Beginning(t).length + 1), pause, coming)
<1> DEFINE M == Meaning(S, coming)
           k == Beginning(t).length
           r == Rest(t, k + 1)
           Rests(s) == IF pause THEN Spelt(coming, s) ELSE <<>>
<1>0. M \in [Items(S) -> Seq(T)] /\ coming \in [S -> Seq(T)]
  BY MeaningType DEF Comings
<1>a. \A s \in Seq(S) : Rests(s) \in Seq(T)
  <2>1. \A s \in Seq(S) : Spelt(coming, s) \in Seq(T)
    BY <1>0, SpeltType
  <2>2. <<>> \in Seq(T)
    OBVIOUS
  <2> QED BY <2>1, <2>2
<1>1. ASSUME k = 0
      PROVE  Full(S, t, pause, coming) = Rests(t)
  <2>0. Decode(t) = [items |-> <<>>, tail |-> t]
    BY <1>1, DecodeOn
  <2>1. Decode(t).items = <<>> /\ Decode(t).tail = t
    BY <2>0
  <2>2. Spelt(M, <<>>) = <<>>
    <3>1. Mapped(M, <<>>) = <<>>
      BY DEF Mapped
    <3> QED BY <3>1, FlattenNothing DEF Spelt
  <2> DEFINE y == Rests(t)
  <2>3. y \in Seq(T)
    BY <1>a
  <2>4. Full(S, t, pause, coming) = <<>> \o y
    BY <2>1, <2>2 DEF Full
  <2> HIDE DEF y
  <2>5. <<>> \o y = y
    BY <2>3
  <2> QED BY <2>4, <2>5 DEF y
<1>2. ASSUME k # 0
      PROVE  Full(S, t, pause, coming) = M[Beginning(t).item] \o Full(S, r, pause, coming)
  <2> DEFINE after == Decode(r)
             item == Beginning(t).item
  <2>1. Decode(t) = [items |-> <<item>> \o after.items, tail |-> after.tail]
    BY <1>2, DecodeOn
  <2>2. item \in Items(S) /\ k \in 0..Len(t)
    BY BeginningIs
  <2>3. r \in Seq(S)
    <3>1. k + 1 \in 1..Len(t) + 1
      BY <2>2
    <3> QED BY <3>1, RestIs
  <2>4. after.items \in Seq(Items(S)) /\ after.tail \in Seq(S)
    BY <2>3, DecodeTyped DEF DecodeType
  <2> HIDE DEF after, item, M
  <2>5. <<item>> \in Seq(Items(S))
    BY <2>2
  <2>6. Spelt(M, <<item>> \o after.items) = Spelt(M, <<item>>) \o Spelt(M, after.items)
    <3> DEFINE a == <<item>>
               b == after.items
               I == Items(S)
    <3>1. M \in [I -> Seq(T)] /\ a \in Seq(I) /\ b \in Seq(I)
      BY <1>0, <2>4, <2>5 DEF M
    <3> HIDE DEF a, b, I
    <3>2. SpellsConcat(M, T, a, b)
      BY <3>1, SpeltConcat, Zenon
    <3> QED BY <3>2 DEF a, b, SpellsConcat
  <2>7. Spelt(M, <<item>>) = M[item]
    BY <1>0, <2>2, SpeltOne
  <2>8. Decode(t).items = <<item>> \o after.items /\ Decode(t).tail = after.tail
    BY <2>1
  <2> DEFINE x == M[item]
             y == Spelt(M, after.items)
             z == Rests(after.tail)
  <2>9. x \in Seq(T) /\ y \in Seq(T) /\ z \in Seq(T)
    BY <1>0, <1>a, <2>2, <2>4, SpeltType
  <2>10. Full(S, t, pause, coming) = (x \o y) \o z
    BY <2>6, <2>7, <2>8 DEF Full, M
  <2>11. Full(S, r, pause, coming) = y \o z
    BY DEF Full, M, after
  <2> HIDE DEF x, y, z, r
  <2>12. AssocAt(x, y, z)
    BY <2>9, Assoc, Zenon
  <2>13. (x \o y) \o z = x \o (y \o z)
    BY <2>12, Zenon DEF AssocAt
  <2>14. Full(S, t, pause, coming) = x \o Full(S, r, pause, coming)
    BY <2>10, <2>11, <2>13, Zenon
  <2> QED BY <2>14 DEF x, item
<1> QED BY <1>1, <1>2

\* The characters of a text from its i'th to its j'th are the first ones of
\* the rest of it.
LEMMA FirstOfRest ==
  ASSUME NEW S, NEW t \in Seq(S), NEW i \in 1..Len(t), NEW j \in i..Len(t)
  PROVE  SubSeq(t, i, j) = First(Rest(t, i), j - i + 1)
<1> DEFINE n == Len(t)
           r == Rest(t, i)
           a == SubSeq(t, i, j)
           b == First(r, j - i + 1)
<1>0. n \in Nat /\ i \in Nat /\ j \in Nat /\ i >= 1 /\ i <= j /\ j <= n
  OBVIOUS
<1>1. /\ r \in Seq(S) /\ Len(r) = n - i + 1
      /\ \A k \in 1..n - i + 1 : r[k] = t[i + k - 1]
  <2>1. i \in 1..n + 1
    BY <1>0
  <2> QED BY <2>1, RestIs
<1>2. a \in Seq(S) /\ Len(a) = j - i + 1 /\ \A k \in 1..j - i + 1 : a[k] = t[i + k - 1]
  BY <1>0
<1>3. /\ b \in Seq(S) /\ Len(b) = j - i + 1
      /\ \A k \in 1..j - i + 1 : b[k] = r[k]
  <2>1. j - i + 1 \in 1..Len(r)
    BY <1>0, <1>1
  <2> HIDE DEF r
  <2> QED BY <1>1, <2>1, FirstIs
<1>4. \A k \in 1..j - i + 1 : a[k] = b[k]
  <2> HIDE DEF a, b, r, n
  <2>1. \A k \in 1..j - i + 1 : k \in 1..n - i + 1
    BY <1>0
  <2> QED BY <1>1, <1>2, <1>3, <2>1
<1> HIDE DEF a, b
<1>5. a = b
  BY <1>2, <1>3, <1>4, SeqEqual
<1> QED BY <1>5 DEF a, b

\* What a text of no escapes comes to.
LEMMA SpeltOn ==
  ASSUME NEW D, NEW T, NEW G \in [D -> Seq(T)], NEW t \in Seq(D), t # <<>>
  PROVE  Spelt(G, t) = G[t[1]] \o Spelt(G, Rest(t, 2))
<1> DEFINE a == <<t[1]>>
           b == Rest(t, 2)
<1>0. Len(t) \in Nat \ {0} /\ t[1] \in D
  OBVIOUS
<1>a. 1 \in 1..Len(t) /\ 1 \in 1..1 /\ 1 + 1 = 2
  BY <1>0
<1>b. /\ First(t, 1) \in Seq(D) /\ Len(First(t, 1)) = 1
      /\ \A i \in 1..1 : First(t, 1)[i] = t[i]
      /\ t = First(t, 1) \o Rest(t, 1 + 1)
  BY <1>a, FirstIs, Zenon
<1>1. First(t, 1) \in Seq(D) /\ Len(First(t, 1)) = 1 /\ First(t, 1)[1] = t[1] /\ t = First(t, 1) \o b
  BY <1>a, <1>b
<1>2. First(t, 1) = a
  BY <1>1
<1>3. b \in Seq(D)
  BY <1>0, RestIs, 2 \in 1..Len(t) + 1
<1>4. t = a \o b /\ a \in Seq(D)
  BY <1>0, <1>1, <1>2
<1>5. Spelt(G, a) = G[t[1]]
  BY <1>0, SpeltOne
<1> HIDE DEF a, b
<1>6. SpellsConcat(G, T, a, b)
  BY <1>3, <1>4, SpeltConcat, Zenon
<1>7. Spelt(G, a \o b) = Spelt(G, a) \o Spelt(G, b)
  BY <1>6 DEF SpellsConcat
<1> QED BY <1>4, <1>5, <1>7 DEF b

\* That a text begins with an item of length k.
Begins(S, t, item, k, pause, coming) ==
  Full(S, t, pause, coming)
    = Meaning(S, coming)[item] \o Full(S, Rest(t, k + 1), pause, coming)

\* A text that begins with an item means that, and then the rest.
LEMMA FullBegins ==
  ASSUME NEW S, NEW T, NEW coming, Comings(S, T, coming), NEW pause \in BOOLEAN,
         NEW t \in Seq(S), t # <<>>, NEW item, NEW k, k # 0,
         Beginning(t).item = item, Beginning(t).length = k
  PROVE  Begins(S, t, item, k, pause, coming)
<1>1. Full(S, t, pause, coming)
        = Meaning(S, coming)[Beginning(t).item]
            \o Full(S, Rest(t, Beginning(t).length + 1), pause, coming)
  BY FullOn
<1> QED BY <1>1, Zenon DEF Begins

\* A text with no escape is its characters.
PlainIs(S, t, pause, coming) ==
  (\A i \in 1..Len(t) : t[i] # Esc) => Full(S, t, pause, coming) = Spelt(coming, t)

\* A text with no escape means what its characters do.
LEMMA PlainReading ==
  ASSUME NEW S, NEW T, NEW coming, Comings(S, T, coming), NEW pause \in BOOLEAN,
         NEW t \in Seq(S)
  PROVE  PlainIs(S, t, pause, coming)
<1> DEFINE N == Len(t)
           B == {n \in 0..N : \A u \in Seq(S) : Len(u) = n => PlainIs(S, u, pause, coming)}
<1>0. N \in Nat
  OBVIOUS
<1>1. 0 \in B
  <2>1. ASSUME NEW u \in Seq(S), Len(u) = 0
        PROVE  PlainIs(S, u, pause, coming)
    <3>1. u = <<>>
      BY <2>1
    <3>2. Full(S, <<>>, pause, coming) = <<>>
      BY FullNothing
    <3>3. Spelt(coming, <<>>) = <<>>
      <4>1. Mapped(coming, <<>>) = <<>>
        BY DEF Mapped
      <4> QED BY <4>1, FlattenNothing DEF Spelt
    <3> QED BY <3>1, <3>2, <3>3 DEF PlainIs
  <2> QED BY <1>0, <2>1
<1>2. ASSUME NEW n \in 1..N, n - 1 \in B
      PROVE  n \in B
  <2>1. ASSUME NEW u \in Seq(S), Len(u) = n, \A i \in 1..Len(u) : u[i] # Esc
        PROVE  Full(S, u, pause, coming) = Spelt(coming, u)
    <3> DEFINE r == Rest(u, 2)
    <3>1. u # <<>> /\ u[1] # Esc /\ u[1] \in S
      BY <1>0, <2>1
    <3>2. /\ r \in Seq(S) /\ Len(r) = n - 1
          /\ \A i \in 1..n - 1 : r[i] = u[i + 1]
      <4>1. 2 \in 1..Len(u) + 1
        BY <1>0, <2>1
      <4>2. /\ r \in Seq(S) /\ Len(r) = Len(u) - 2 + 1
            /\ \A k \in 1..Len(u) - 2 + 1 : r[k] = u[2 + k - 1]
        BY <4>1, RestIs
      <4>3. Len(u) - 2 + 1 = n - 1 /\ \A k \in 1..n - 1 : 2 + k - 1 = k + 1
        BY <1>0, <2>1
      <4> QED BY <4>2, <4>3
    <3>3. \A i \in 1..Len(r) : r[i] # Esc
      BY <1>0, <2>1, <3>2
    <3>4. Full(S, r, pause, coming) = Spelt(coming, r)
      BY <1>2, <3>2, <3>3 DEF PlainIs
    <3>5. Beginning(u) = [item |-> Char(u[1]), length |-> 1]
      BY <3>1 DEF Beginning
    <3>6. Full(S, u, pause, coming) = Meaning(S, coming)[Char(u[1])] \o Full(S, r, pause, coming)
      <4>1. Begins(S, u, Char(u[1]), 1, pause, coming)
        BY <3>1, <3>5, FullBegins
      <4> QED BY <4>1, 1 + 1 = 2 DEF Begins
    <3>7. Meaning(S, coming)[Char(u[1])] = coming[u[1]]
      BY <3>1, MeaningType
    <3>8. Spelt(coming, u) = coming[u[1]] \o Spelt(coming, r)
      BY <3>1, SpeltOn DEF Comings
    <3> QED BY <3>4, <3>6, <3>7, <3>8
  <2> QED BY <2>1 DEF PlainIs
<1> HIDE DEF B
<1>3. \A n \in 1..N : n - 1 \in B => n \in B
  BY <1>2
<1>4. \A n \in 0..N : n \in B
  BY <1>0, <1>1, <1>3, UpTo
<1>5. N \in B
  BY <1>0, <1>4
<1> QED BY <1>5 DEF B

-----------------------------------------------------------------------------
\* The whole sequences a text begins with: there is one at most.
Wholes(t) == {k \in 1..Len(t) : IsSequence(First(t, k))}

\* Full, one step of it, by what a whole sequence is.
ReadsOn(S, t, pause, coming) ==
  /\ Wholes(t) = {} /\ MayBecome(t) /\ ~pause => Full(S, t, pause, coming) = <<>>
  /\ Wholes(t) = {} /\ ~(MayBecome(t) /\ ~pause) =>
       Full(S, t, pause, coming) = coming[t[1]] \o Full(S, Rest(t, 2), pause, coming)
  /\ \A k \in Wholes(t) :
       /\ Wholes(t) = {k}
       /\ Full(S, t, pause, coming)
            = Keys(Match(First(t, k)).steps) \o Full(S, Rest(t, k + 1), pause, coming)

\* What decode makes of a text is a step of reading it.
LEMMA ReadOn ==
  ASSUME NEW S, NEW T, NEW coming, Comings(S, T, coming), NEW pause \in BOOLEAN,
         NEW t \in Seq(S), t # <<>>
  PROVE  ReadsOn(S, t, pause, coming)
<1> DEFINE L == Match(t).length
<1>0. Len(t) \in Nat \ {0} /\ t[1] \in S
  OBVIOUS
<1>1. \A k \in Wholes(t) : t[1] = Esc /\ L = k /\ k > 2 /\ Match(t) = Match(First(t, k))
  <2>1. ASSUME NEW k \in 1..Len(t), IsSequence(First(t, k))
        PROVE  t[1] = Esc /\ L = k /\ k > 2 /\ Match(t) = Match(First(t, k))
    <3>1. Len(First(t, k)) = k /\ \A i \in 1..k : First(t, k)[i] = t[i]
      BY FirstIs
    <3>2. k > 2 /\ t[1] = Esc
      BY <2>1, <3>1 DEF IsSequence
    <3> QED BY <2>1, <3>2, SequenceMatches
  <2> QED BY <2>1 DEF Wholes
<1>2. Meaning(S, coming)[Char(t[1])] = coming[t[1]]
  BY <1>0, MeaningType
<1>3. 1 + 1 = 2
  OBVIOUS
<1>4. CASE t[1] # Esc
  <2>1. Wholes(t) = {} /\ ~MayBecome(t)
    BY <1>1, <1>4 DEF MayBecome
  <2>2. Beginning(t).item = Char(t[1]) /\ Beginning(t).length = 1
    BY <1>4 DEF Beginning
  <2>3. Full(S, t, pause, coming) = coming[t[1]] \o Full(S, Rest(t, 2), pause, coming)
    <3>1. Begins(S, t, Char(t[1]), 1, pause, coming)
      BY <2>2, FullBegins
    <3> QED BY <1>2, <1>3, <3>1 DEF Begins
  <2> QED BY <2>1, <2>3 DEF ReadsOn
<1>5. CASE t[1] = Esc /\ L = 0
  <2>1. Wholes(t) = {} /\ MayBecome(t)
    BY <1>1, <1>5, ArrivingMayBecome
  <2>2. Beginning(t).length = 0
    BY <1>5 DEF Beginning
  <2>3. Full(S, t, pause, coming) = IF pause THEN Spelt(coming, t) ELSE <<>>
    BY <2>2, FullOn
  <2>4. ASSUME pause
        PROVE  Full(S, t, pause, coming) = coming[t[1]] \o Full(S, Rest(t, 2), pause, coming)
    <3> DEFINE r == Rest(t, 2)
    <3>1. /\ r \in Seq(S) /\ Len(r) = Len(t) - 1
          /\ \A i \in 1..Len(t) - 1 : r[i] = t[i + 1]
      <4>1. 2 \in 1..Len(t) + 1
        BY <1>0
      <4>2. /\ r \in Seq(S) /\ Len(r) = Len(t) - 2 + 1
            /\ \A k \in 1..Len(t) - 2 + 1 : r[k] = t[2 + k - 1]
        BY <4>1, RestIs
      <4>3. Len(t) - 2 + 1 = Len(t) - 1 /\ \A k \in 1..Len(t) - 1 : 2 + k - 1 = k + 1
        BY <1>0
      <4> QED BY <4>2, <4>3
    <3>2. \A i \in 1..Len(r) : r[i] # Esc
      <4>1. ASSUME NEW i \in 1..Len(r)
            PROVE  r[i] # Esc
        <5>1. i + 1 \in 2..Len(t) /\ r[i] = t[i + 1]
          BY <1>0, <3>1
        <5>2. t[i + 1] # Esc
          BY <1>5, <5>1, ArrivingIsOne
        <5> QED BY <5>1, <5>2
      <4> QED BY <4>1
    <3>3. PlainIs(S, r, pause, coming)
      <4> HIDE DEF r
      <4> QED BY <3>1, PlainReading, Zenon
    <3>4. Full(S, r, pause, coming) = Spelt(coming, r)
      BY <3>2, <3>3 DEF PlainIs
    <3>5. Spelt(coming, t) = coming[t[1]] \o Spelt(coming, r)
      BY SpeltOn DEF Comings
    <3> QED BY <2>3, <2>4, <3>4, <3>5
  <2> QED BY <2>1, <2>3, <2>4 DEF ReadsOn
<1>6. CASE t[1] = Esc /\ L = 1
  <2>1. Wholes(t) = {} /\ ~MayBecome(t)
    BY <1>1, <1>6, ArrivingMayBecome
  <2>2. Beginning(t).item = Char(t[1]) /\ Beginning(t).length = 1
    BY <1>6 DEF Beginning
  <2>3. Full(S, t, pause, coming) = coming[t[1]] \o Full(S, Rest(t, 2), pause, coming)
    <3>1. Begins(S, t, Char(t[1]), 1, pause, coming)
      BY <2>2, FullBegins
    <3> QED BY <1>2, <1>3, <3>1 DEF Begins
  <2> QED BY <2>1, <2>3 DEF ReadsOn
<1>7. CASE t[1] = Esc /\ L > 1
  <2>1. L \in 3..Len(t) /\ IsSequence(First(t, L))
    BY <1>7, MatchedIsSequence
  <2>2. L \in Wholes(t) /\ Wholes(t) = {L}
    <3>1. L \in 1..Len(t)
      BY <2>1
    <3>2. L \in Wholes(t)
      BY <2>1, <3>1 DEF Wholes
    <3> HIDE DEF L
    <3> QED BY <1>1, <3>2
  <2>3. Match(First(t, L)) = Match(t)
    BY <1>1, <2>2
  <2>4. Meaning(S, coming)[Beginning(t).item] = Keys(Match(t).steps)
    <3>1. CASE Match(t).steps = <<>>
      <4>1. Beginning(t).item = Unknown
        BY <1>7, <3>1 DEF Beginning
      <4>2. Keys(<<>>) = <<>>
        BY DEF Keys
      <4> QED BY <3>1, <4>1, <4>2, MeaningType
    <3>2. CASE Match(t).steps # <<>>
      <4>1. Beginning(t).item = Steps(Match(t).steps)
        BY <1>7, <3>2 DEF Beginning
      <4> QED BY <4>1, MeaningType
    <3> QED BY <3>1, <3>2
  <2>5. Beginning(t).length = L /\ L # 0
    BY <1>7 DEF Beginning
  <2>6. Full(S, t, pause, coming) = Keys(Match(t).steps) \o Full(S, Rest(t, L + 1), pause, coming)
    <3> DEFINE item == Beginning(t).item
               k == L
    <3>1. Beginning(t).item = item /\ Beginning(t).length = k /\ k # 0
      BY <2>5
    <3> HIDE DEF item, k
    <3>2. Begins(S, t, item, k, pause, coming)
      BY <3>1, FullBegins
    <3> QED BY <2>4, <3>2 DEF Begins, item, k
  <2>7. \A k \in Wholes(t) : k = L
    BY <2>2
  <2>8. Wholes(t) # {}
    BY <2>2
  <2> HIDE DEF L
  <2> QED BY <2>2, <2>3, <2>6, <2>7, <2>8 DEF ReadsOn
<1>8. L = 0 \/ L = 1 \/ L > 1
  <2>1. L \in Nat
    BY MatchLength
  <2> QED BY <2>1
<1> QED BY <1>4, <1>5, <1>6, <1>7, <1>8

\* Where the sequences that begin at position i end.
Ends(text, i) == {j \in i..Len(text) : IsSequence(SubSeq(text, i, j))}

\* f is what Reading makes of the text from each position on.
Reads(f, text, pause, coming) ==
  f = [i \in 1..Len(text) + 1 |->
         IF i > Len(text) THEN <<>>
         ELSE IF Ends(text, i) # {}
           THEN Keys(Match(SubSeq(text, i, Min(Ends(text, i)))).steps)
                  \o f[Min(Ends(text, i)) + 1]
         ELSE IF MayBecome(SubSeq(text, i, Len(text))) /\ ~pause THEN <<>>
         ELSE coming[text[i]] \o f[i + 1]]

\* One step of Reading.
ReadsFrom(f, text, pause, coming, i) ==
  IF i > Len(text) THEN f[i] = <<>>
  ELSE IF Ends(text, i) # {}
    THEN f[i] = Keys(Match(SubSeq(text, i, Min(Ends(text, i)))).steps)
                  \o f[Min(Ends(text, i)) + 1]
  ELSE IF MayBecome(SubSeq(text, i, Len(text))) /\ ~pause THEN f[i] = <<>>
  ELSE f[i] = coming[text[i]] \o f[i + 1]

\* Each step is what Reads says.
LEMMA ReadsAt ==
  ASSUME NEW f, NEW text, NEW pause, NEW coming, Reads(f, text, pause, coming),
         NEW i \in 1..Len(text) + 1
  PROVE  ReadsFrom(f, text, pause, coming, i)
<1> DEFINE e(k) == IF k > Len(text) THEN <<>>
         ELSE IF Ends(text, k) # {}
           THEN Keys(Match(SubSeq(text, k, Min(Ends(text, k)))).steps)
                  \o f[Min(Ends(text, k)) + 1]
         ELSE IF MayBecome(SubSeq(text, k, Len(text))) /\ ~pause THEN <<>>
         ELSE coming[text[k]] \o f[k + 1]
<1>1. f = [k \in 1..Len(text) + 1 |-> e(k)]
  BY DEF Reads
<1> HIDE DEF e
<1>2. f[i] = e(i)
  BY <1>1
<1> QED BY <1>2, Zenon DEF e, ReadsFrom

\* What begins at position i is what the rest of the text begins with.
EndsAre(t, i) ==
  /\ Wholes(Rest(t, i)) = {} => Ends(t, i) = {}
  /\ \A k \in Nat : Wholes(Rest(t, i)) = {k} =>
       /\ Ends(t, i) = {i + k - 1} /\ Min(Ends(t, i)) = i + k - 1
       /\ k \in 1..Len(t) - i + 1
       /\ SubSeq(t, i, i + k - 1) = First(Rest(t, i), k)

\* A sequence from i on is one the rest begins with.
LEMMA EndsOf ==
  ASSUME NEW S, NEW t \in Seq(S), NEW i \in 1..Len(t)
  PROVE  EndsAre(t, i)
<1> DEFINE r == Rest(t, i)
<1>0. Len(t) \in Nat /\ i \in 1..Len(t) + 1
  OBVIOUS
<1>1. Len(r) = Len(t) - i + 1
  BY <1>0, RestIs
<1> HIDE DEF r
<1>2. \A j \in i..Len(t) : SubSeq(t, i, j) = First(r, j - i + 1)
  BY FirstOfRest DEF r
<1>3. \A j \in i..Len(t) : j \in Ends(t, i) <=> j - i + 1 \in Wholes(r)
  <2>1. ASSUME NEW j \in i..Len(t)
        PROVE  j \in Ends(t, i) <=> j - i + 1 \in Wholes(r)
    <3>1. j - i + 1 \in 1..Len(r)
      BY <1>0, <1>1
    <3>2. SubSeq(t, i, j) = First(r, j - i + 1)
      BY <1>2
    <3> QED BY <3>1, <3>2 DEF Ends, Wholes
  <2> QED BY <2>1
<1>4. Ends(t, i) \subseteq i..Len(t)
  BY DEF Ends
<1>5. Wholes(r) = {} => Ends(t, i) = {}
  BY <1>3, <1>4
<1>6. ASSUME NEW k \in Nat, Wholes(r) = {k}
      PROVE  /\ Ends(t, i) = {i + k - 1} /\ Min(Ends(t, i)) = i + k - 1
             /\ k \in 1..Len(t) - i + 1
             /\ SubSeq(t, i, i + k - 1) = First(r, k)
  <2>1. k \in 1..Len(t) - i + 1
    BY <1>1, <1>6 DEF Wholes
  <2>2. i + k - 1 \in i..Len(t) /\ (i + k - 1) - i + 1 = k
    BY <1>0, <2>1
  <2>3. \A j \in i..Len(t) : j - i + 1 = k => j = i + k - 1
    BY <1>0, <2>1
  <2>4. Ends(t, i) = {i + k - 1}
    BY <1>3, <1>4, <1>6, <2>2, <2>3
  <2>5. Min({i + k - 1}) = i + k - 1
    <3> DEFINE m == i + k - 1
    <3>1. m \in Int
      BY <2>2
    <3> HIDE DEF m
    <3>2. Min({m}) = m
      BY <3>1 DEF Min
    <3> QED BY <3>2 DEF m
  <2>6. SubSeq(t, i, i + k - 1) = First(r, (i + k - 1) - i + 1)
    BY <1>2, <2>2
  <2> QED BY <2>1, <2>2, <2>4, <2>5, <2>6
<1> QED BY <1>5, <1>6 DEF EndsAre, r

\* One step of the two.
StepIs(S, t, pause, coming, i) ==
  IF Ends(t, i) # {}
    THEN /\ Min(Ends(t, i)) \in i..Len(t)
         /\ Full(S, Rest(t, i), pause, coming)
              = Keys(Match(SubSeq(t, i, Min(Ends(t, i)))).steps)
                  \o Full(S, Rest(t, Min(Ends(t, i)) + 1), pause, coming)
  ELSE IF MayBecome(SubSeq(t, i, Len(t))) /\ ~pause
    THEN Full(S, Rest(t, i), pause, coming) = <<>>
  ELSE Full(S, Rest(t, i), pause, coming)
         = coming[t[i]] \o Full(S, Rest(t, i + 1), pause, coming)

\* The rest of a text is read as Full has it, a step at a time.
LEMMA ReadStep ==
  ASSUME NEW S, NEW T, NEW coming, Comings(S, T, coming), NEW pause \in BOOLEAN,
         NEW t \in Seq(S), NEW i \in 1..Len(t)
  PROVE  StepIs(S, t, pause, coming, i)
<1> DEFINE r == Rest(t, i)
<1>0. Len(t) \in Nat /\ i \in 1..Len(t) + 1 /\ i <= Len(t)
  OBVIOUS
<1>1. /\ r \in Seq(S) /\ r # <<>> /\ Len(r) = Len(t) - i + 1
      /\ \A k \in 1..Len(t) - i + 1 : r[k] = t[i + k - 1]
  BY <1>0, RestIs
<1>2. r[1] = t[i]
  BY <1>0, <1>1
<1>3. SubSeq(t, i, Len(t)) = r
  BY DEF Rest
<1>4. EndsAre(t, i)
  BY EndsOf
<1>5. \A k \in 1..Len(t) - i + 2 : Rest(r, k) = Rest(t, i + k - 1)
  BY <1>0, RestOfRest
<1> HIDE DEF r
<1>6. ReadsOn(S, r, pause, coming)
  BY <1>1, ReadOn
<1>7. Rest(r, 2) = Rest(t, i + 1)
  <2>1. 2 \in 1..Len(t) - i + 2 /\ i + 2 - 1 = i + 1
    BY <1>0
  <2>2. Rest(r, 2) = Rest(t, i + 2 - 1)
    BY <1>5, <2>1
  <2> QED BY <2>1, <2>2
<1>8. CASE Wholes(r) = {}
  <2>1. Ends(t, i) = {}
    BY <1>4, <1>8 DEF EndsAre, r
  <2>2. CASE MayBecome(r) /\ ~pause
    <3>1. Full(S, r, pause, coming) = <<>>
      BY <1>6, <1>8, <2>2 DEF ReadsOn
    <3> QED BY <1>3, <2>1, <2>2, <3>1 DEF StepIs, r
  <2>3. CASE ~(MayBecome(r) /\ ~pause)
    <3>1. Full(S, r, pause, coming) = coming[r[1]] \o Full(S, Rest(r, 2), pause, coming)
      BY <1>6, <1>8, <2>3 DEF ReadsOn
    <3> QED BY <1>2, <1>3, <1>7, <2>1, <2>3, <3>1 DEF StepIs, r
  <2> QED BY <2>2, <2>3
<1>9. CASE Wholes(r) # {}
  <2>1. PICK k \in Wholes(r) : TRUE
    BY <1>9
  <2>2. k \in Nat
    BY <2>1 DEF Wholes
  <2>3. /\ Wholes(r) = {k}
        /\ Full(S, r, pause, coming)
             = Keys(Match(First(r, k)).steps) \o Full(S, Rest(r, k + 1), pause, coming)
    BY <1>6, <2>1 DEF ReadsOn
  <2>4. /\ Ends(t, i) = {i + k - 1} /\ Min(Ends(t, i)) = i + k - 1
        /\ k \in 1..Len(t) - i + 1
        /\ SubSeq(t, i, i + k - 1) = First(r, k)
    BY <1>4, <2>2, <2>3 DEF EndsAre, r
  <2>5. Rest(r, k + 1) = Rest(t, (i + k - 1) + 1)
    <3>1. k + 1 \in 1..Len(t) - i + 2 /\ i + (k + 1) - 1 = (i + k - 1) + 1
      BY <1>0, <2>4
    <3>2. Rest(r, k + 1) = Rest(t, i + (k + 1) - 1)
      BY <1>5, <3>1
    <3> QED BY <3>1, <3>2
  <2>6. i + k - 1 \in i..Len(t)
    BY <1>0, <2>4
  <2> QED BY <2>3, <2>4, <2>5, <2>6 DEF StepIs, r
<1> QED BY <1>8, <1>9

\* A text is read as decode has it.
ReadingIsFull(S, t, pause, coming) == Reading(t, pause, coming) = Full(S, t, pause, coming)

\* Reading a text by what a whole sequence is, and as decode has it, are one.
LEMMA ReadingIs ==
  ASSUME NEW S, NEW T, NEW coming, Comings(S, T, coming), NEW pause \in BOOLEAN,
         NEW t \in Seq(S)
  PROVE  ReadingIsFull(S, t, pause, coming)
<1> DEFINE n == Len(t)
           From == CHOOSE g : Reads(g, t, pause, coming)
           full == [i \in 1..n + 1 |-> Full(S, Rest(t, i), pause, coming)]
           next == [i \in 1..n |-> IF Ends(t, i) # {} THEN Min(Ends(t, i)) + 1 ELSE i + 1]
<1>0. n \in Nat
  OBVIOUS
<1>1. Reading(t, pause, coming) = From[1]
  BY DEF Reading, Reads, Ends
<1>2. \A i \in 1..n : StepIs(S, t, pause, coming, i)
  BY ReadStep
<1>3. \A i \in 1..n : Ends(t, i) # {} => Min(Ends(t, i)) \in i..n
  BY <1>2 DEF StepIs
<1>4. Full(S, Rest(t, n + 1), pause, coming) = <<>>
  <2>1. Rest(t, n + 1) = <<>>
    <3>1. n + 1 \in 1..Len(t) + 1
      BY <1>0
    <3>2. Rest(t, n + 1) \in Seq(S) /\ Len(Rest(t, n + 1)) = n - (n + 1) + 1
      BY <3>1, RestIs
    <3> QED BY <1>0, <3>2
  <2> QED BY <2>1, FullNothing
<1>5. ASSUME NEW i \in 1..n + 1
      PROVE  full[i] = IF i > n THEN <<>>
                       ELSE IF Ends(t, i) # {}
                         THEN Keys(Match(SubSeq(t, i, Min(Ends(t, i)))).steps)
                                \o full[Min(Ends(t, i)) + 1]
                       ELSE IF MayBecome(SubSeq(t, i, n)) /\ ~pause THEN <<>>
                       ELSE coming[t[i]] \o full[i + 1]
  <2>1. full[i] = Full(S, Rest(t, i), pause, coming)
    OBVIOUS
  <2>2. CASE i > n
    <3>1. i = n + 1
      BY <1>0, <2>2
    <3> QED BY <1>4, <2>1, <2>2, <3>1
  <2>3. CASE i <= n
    <3>1. i \in 1..n /\ ~(i > n)
      BY <1>0, <2>3
    <3>2. StepIs(S, t, pause, coming, i)
      BY <1>2, <3>1
    <3>3. CASE Ends(t, i) # {}
      <4>1. Min(Ends(t, i)) + 1 \in 1..n + 1
        BY <1>0, <1>3, <3>1, <3>3
      <4>2. full[Min(Ends(t, i)) + 1] = Full(S, Rest(t, Min(Ends(t, i)) + 1), pause, coming)
        BY <4>1
      <4> HIDE DEF full
      <4> QED BY <2>1, <3>1, <3>2, <3>3, <4>2, Zenon DEF StepIs
    <3>4. CASE Ends(t, i) = {}
      <4>1. i + 1 \in 1..n + 1
        BY <1>0, <3>1
      <4>2. full[i + 1] = Full(S, Rest(t, i + 1), pause, coming)
        BY <4>1
      <4> HIDE DEF full
      <4>3. CASE MayBecome(SubSeq(t, i, n)) /\ ~pause
        <5>1. Full(S, Rest(t, i), pause, coming) = <<>>
          BY <3>2, <3>4, <4>3 DEF StepIs
        <5> QED BY <2>1, <3>1, <3>4, <4>3, <5>1
      <4>4. CASE ~(MayBecome(SubSeq(t, i, n)) /\ ~pause)
        <5>1. Full(S, Rest(t, i), pause, coming)
                = coming[t[i]] \o Full(S, Rest(t, i + 1), pause, coming)
          BY <3>2, <3>4, <4>4 DEF StepIs
        <5> QED BY <2>1, <3>1, <3>4, <4>2, <4>4, <5>1, Zenon
      <4> QED BY <4>3, <4>4
    <3> QED BY <3>3, <3>4, Zenon
  <2>4. i > n \/ i <= n
    BY <1>0
  <2> HIDE DEF full, n
  <2> QED BY <2>2, <2>3, <2>4, Zenon
<1>6. Reads(full, t, pause, coming)
  <2>1. full = [i \in 1..n + 1 |-> full[i]]
    OBVIOUS
  <2> HIDE DEF full
  <2> QED BY <1>5, <2>1, Zenon DEF Reads
<1>7. Reads(From, t, pause, coming)
  <2> HIDE DEF full
  <2> QED BY <1>6
<1>8. /\ next \in [1..n -> 2..n + 1]
      /\ \A i \in 1..n : next[i] > i
  <2>1. \A i \in 1..n : next[i] \in 2..n + 1 /\ next[i] > i
    BY <1>0, <1>3
  <2> QED BY <2>1
<1>9. /\ \A i \in 1..n : Ends(t, i) # {} => next[i] = Min(Ends(t, i)) + 1
      /\ \A i \in 1..n : Ends(t, i) = {} => next[i] = i + 1
  OBVIOUS
<1>10. full[1] = Full(S, t, pause, coming)
  <2>1. Rest(t, 1) = t
    BY DEF Rest
  <2> QED BY <1>0, <2>1
<1> HIDE DEF From, full, next
<1>11. \A i \in 1..n : From[next[i]] = full[next[i]] => From[i] = full[i]
  <2>1. ASSUME NEW i \in 1..n, From[next[i]] = full[next[i]]
        PROVE  From[i] = full[i]
    <3>1. i \in 1..n + 1 /\ ~(i > Len(t))
      BY <1>0
    <3>2. ReadsFrom(From, t, pause, coming, i) /\ ReadsFrom(full, t, pause, coming, i)
      BY <1>6, <1>7, <3>1, ReadsAt
    <3> HIDE DEF n
    <3> QED BY <1>9, <2>1, <3>1, <3>2 DEF ReadsFrom
  <2> QED BY <2>1
<1>12. From[n + 1] = full[n + 1]
  <2>1. n + 1 \in 1..Len(t) + 1 /\ n + 1 > Len(t)
    BY <1>0
  <2>2. ReadsFrom(From, t, pause, coming, n + 1) /\ ReadsFrom(full, t, pause, coming, n + 1)
    BY <1>6, <1>7, <2>1, ReadsAt
  <2> QED BY <2>1, <2>2 DEF ReadsFrom
<1> HIDE DEF n
<1>13. Agree(From, full, n, next)
  BY <1>0, <1>8, <1>11, <1>12 DEF Agree
<1>14. From[1] = full[1]
  BY <1>0, <1>13, WalkUnique
<1> QED BY <1>1, <1>10, <1>14 DEF ReadingIsFull

-----------------------------------------------------------------------------
(***************************************************************************)
(* What is typed for the items of a text.                                  *)
(***************************************************************************)

\* A screen with a text, and no dead key waiting.
Shows(x) == [text |-> x, dead |-> "none"]

\* A screen that shows x is x before a blank one.
LEMMA ShowsIs ==
  ASSUME NEW phone, NEW K, NEW T, NEW x \in Seq(T)
  PROVE  /\ Shows(x) \in Screens(phone, K, T) /\ Blank \in Screens(phone, K, T)
         /\ Shows(x) = After(x, Blank)
<1>1. \A y : y \in Seq(T) => y \in Seq(Letters(phone, K, T))
  <2>1. T \subseteq Letters(phone, K, T)
    BY DEF Letters
  <2> DEFINE L == Letters(phone, K, T)
  <2> HIDE DEF L
  <2>2. \A y : y \in Seq(T) => y \in Seq(L)
    BY <2>1 DEF L
  <2> QED BY <2>2 DEF L
<1>2. "none" \in Accents(phone, K)
  BY DEF Accents
<1>3. <<>> \in Seq(T)
  OBVIOUS
<1>4. Shows(x) \in Screens(phone, K, T) /\ Blank \in Screens(phone, K, T)
  BY <1>1, <1>2, <1>3 DEF Screens, Shows, Blank
<1>5. x \o <<>> = x
  OBVIOUS
<1> QED BY <1>4, <1>5 DEF Shows, After, Blank

\* That each of D has keystrokes of K that type what it means.
Types(phone, D, K, T, G, M) ==
  /\ G \in [D -> Seq(K)] /\ M \in [D -> Seq(T)]
  /\ \A d \in D : Typed(phone, Blank, G[d]) = Shows(M[d])

\* Typing G's keystrokes for a shows what M says of it.
TypesAll(phone, G, M, x, a) ==
  Typed(phone, Shows(x), Spelt(G, a)) = Shows(x \o Spelt(M, a))

\* What types each item types a sequence of them.
LEMMA TypedSpelt ==
  ASSUME NEW phone, NEW D, NEW K, NEW T, NEW G, NEW M, Types(phone, D, K, T, G, M),
         NEW x \in Seq(T), NEW a \in Seq(D)
  PROVE  TypesAll(phone, G, M, x, a)
<1> DEFINE N == Len(a)
           B == {n \in 0..N : \A b \in Seq(D) : Len(b) = n =>
                                \A y \in Seq(T) : TypesAll(phone, G, M, y, b)}
<1>0. N \in Nat /\ G \in [D -> Seq(K)] /\ M \in [D -> Seq(T)]
  BY DEF Types
<1>1. 0 \in B
  <2>1. ASSUME NEW b \in Seq(D), Len(b) = 0, NEW y \in Seq(T)
        PROVE  TypesAll(phone, G, M, y, b)
    <3>1. b = <<>>
      BY <2>1
    <3>2. \A H : Spelt(H, <<>>) = <<>>
      <4>1. \A H : Mapped(H, <<>>) = <<>>
        BY DEF Mapped
      <4> QED BY <4>1, FlattenNothing DEF Spelt
    <3>3. Typed(phone, Shows(y), <<>>) = Shows(y)
      <4>1. Shows(y) \in Screens(phone, K, T)
        BY ShowsIs
      <4> QED BY <4>1, TypedNothing
    <3>4. y \o <<>> = y
      OBVIOUS
    <3>5. Spelt(G, b) = <<>> /\ Spelt(M, b) = <<>>
      BY <3>1, <3>2
    <3> QED BY <3>3, <3>4, <3>5 DEF TypesAll
  <2> QED BY <1>0, <2>1
<1>2. ASSUME NEW n \in 1..N, n - 1 \in B
      PROVE  n \in B
  <2>1. ASSUME NEW b \in Seq(D), Len(b) = n, NEW y \in Seq(T)
        PROVE  TypesAll(phone, G, M, y, b)
    <3> DEFINE d == b[1]
               r == Rest(b, 2)
               g == G[d]
               gs == Spelt(G, r)
               m == M[d]
               ms == Spelt(M, r)
    <3>1. b # <<>> /\ d \in D
      BY <1>0, <2>1
    <3>2. r \in Seq(D) /\ Len(r) = n - 1
      <4>1. 2 \in 1..Len(b) + 1
        BY <1>0, <2>1
      <4>2. r \in Seq(D) /\ Len(r) = Len(b) - 2 + 1
        BY <4>1, RestIs
      <4> QED BY <1>0, <2>1, <4>2
    <3>3. Spelt(G, b) = g \o gs /\ Spelt(M, b) = m \o ms
      <4>1. Spelt(G, b) = G[b[1]] \o Spelt(G, Rest(b, 2))
        BY <1>0, <3>1, SpeltOn, Zenon
      <4>2. Spelt(M, b) = M[b[1]] \o Spelt(M, Rest(b, 2))
        BY <1>0, <3>1, SpeltOn, Zenon
      <4> QED BY <4>1, <4>2
    <3>4. g \in Seq(K) /\ gs \in Seq(K) /\ m \in Seq(T) /\ ms \in Seq(T)
      BY <1>0, <3>1, <3>2, SpeltType
    <3>5. Typed(phone, Blank, g) = Shows(m)
      BY <3>1 DEF Types
    <3>6. \A z \in Seq(T) : Typed(phone, Shows(z), gs) = Shows(z \o ms)
      BY <1>2, <3>2 DEF TypesAll
    <3> HIDE DEF g, gs, m, ms, r, d, B
    <3>7. Shows(y) \in Screens(phone, K, T) /\ Blank \in Screens(phone, K, T)
      BY ShowsIs
    <3>8. Typed(phone, Shows(y), g \o gs) = Typed(phone, Typed(phone, Shows(y), g), gs)
      <4> DEFINE s == Shows(y)
      <4>1. s \in Screens(phone, K, T) /\ g \in Seq(K) /\ gs \in Seq(K)
        BY <3>4, <3>7
      <4> HIDE DEF s
      <4>2. Typed(phone, s, g \o gs) = Typed(phone, Typed(phone, s, g), gs)
        BY <4>1, TypedConcat
      <4> QED BY <4>2 DEF s
    <3>9. Typed(phone, Shows(y), g) = Shows(y \o m)
      <4>1. Typed(phone, After(y, Blank), g) = After(y, Typed(phone, Blank, g))
        <5> DEFINE s == Blank
        <5>1. s \in Screens(phone, K, T) /\ g \in Seq(K)
          BY <3>4, <3>7
        <5> HIDE DEF s
        <5>2. Typed(phone, After(y, s), g) = After(y, Typed(phone, s, g))
          BY <5>1, TypedAfter
        <5> QED BY <5>2 DEF s
      <4>2. Shows(y) = After(y, Blank)
        BY ShowsIs
      <4>3. After(y, Shows(m)) = Shows(y \o m)
        BY DEF After, Shows
      <4> QED BY <3>5, <4>1, <4>2, <4>3, Zenon
    <3>10. y \o m \in Seq(T)
      BY <3>4
    <3>11. Typed(phone, Shows(y \o m), gs) = Shows((y \o m) \o ms)
      BY <3>6, <3>10, Zenon
    <3>12. AssocAt(y, m, ms)
      BY <3>4, Assoc, Zenon
    <3>13. (y \o m) \o ms = y \o (m \o ms)
      BY <3>12, Zenon DEF AssocAt
    <3> QED BY <3>3, <3>8, <3>9, <3>11, <3>13, Zenon DEF TypesAll
  <2> QED BY <2>1
<1> HIDE DEF B
<1>3. \A n \in 1..N : n - 1 \in B => n \in B
  BY <1>2
<1>4. \A n \in 0..N : n \in B
  BY <1>0, <1>1, <1>3, UpTo
<1>5. N \in B
  BY <1>0, <1>4
<1> QED BY <1>5 DEF B

-----------------------------------------------------------------------------
\* The keystrokes sequences stand for.
SequenceStrokes == {Stroke(key, mods) : key \in SequenceKeys, mods \in SUBSET DOMAIN Bit}

\* A sequence stands for one keystroke.
OneStroke(steps) == \E k \in SequenceStrokes : steps = <<k>>

\* match finds one of those, or none.
LEMMA KeyedIs ==
  ASSUME NEW c, NEW mods \in SUBSET DOMAIN Bit
  PROVE  /\ Keyed(FinalLetters, c, mods) = <<>> \/ OneStroke(Keyed(FinalLetters, c, mods))
         /\ Keyed(LinuxFunction, c, mods) = <<>> \/ OneStroke(Keyed(LinuxFunction, c, mods))
<1>1. \A d \in DOMAIN FinalLetters : FinalLetters[d] \in SequenceKeys
  BY DEF SequenceKeys
<1>2. \A d \in DOMAIN LinuxFunction : LinuxFunction[d] \in SequenceKeys
  BY DEF SequenceKeys
<1> QED BY <1>1, <1>2 DEF Keyed, OneStroke, SequenceStrokes

\* match answers no keystroke or one.
LEMMA MatchSteps ==
  ASSUME NEW S, NEW t \in Seq(S)
  PROVE  Match(t).steps = <<>> \/ OneStroke(Match(t).steps)
<1>1. \A c : ImplicitModifiers(c) \in SUBSET DOMAIN Bit
  BY DEF ImplicitModifiers, Bit
<1>2. \A n : ModifiersFrom(n) \in SUBSET DOMAIN Bit
  BY DEF ModifiersFrom
<1>3. {} \in SUBSET DOMAIN Bit
  OBVIOUS
<1>4. Control(t).steps = <<>> \/ OneStroke(Control(t).steps)
  <2> DEFINE i      == Final(t)
             ns     == Parameters(SubSeq(t, 3, i - 1))
             mods   == ModifiersFrom(IF Len(ns) > 1 THEN ns[2] ELSE 1)
             number == IF ns[1] \in DOMAIN FinalNumbers THEN FinalNumbers[ns[1]]
                       ELSE "none"
             keyed  == Keyed(FinalLetters, t[i], mods \cup ImplicitModifiers(t[i]))
  <2>1. Control(t) = IF i > Len(t) THEN Arriving
                     ELSE IF t[i] = "~"
                       THEN IF number = "none" THEN Found(<<>>, i)
                            ELSE Found(<<Stroke(number, mods)>>, i)
                     ELSE Found(keyed, i)
    BY DEF Control
  <2>2. mods \in SUBSET DOMAIN Bit
    BY <1>2
  <2>3. number # "none" => number \in SequenceKeys
    BY DEF SequenceKeys, ToSet
  <2>4. mods \cup ImplicitModifiers(t[i]) \in SUBSET DOMAIN Bit
    BY <1>1, <2>2
  <2> DEFINE both == mods \cup ImplicitModifiers(t[i])
  <2> HIDE DEF number, mods, i
  <2>5. keyed = <<>> \/ OneStroke(keyed)
    <3> HIDE DEF both
    <3>1. \A c : Keyed(FinalLetters, c, both) = <<>> \/ OneStroke(Keyed(FinalLetters, c, both))
      BY <2>4, KeyedIs DEF both
    <3> QED BY <3>1 DEF both
  <2>6. number # "none" => OneStroke(<<Stroke(number, mods)>>)
    BY <2>2, <2>3 DEF OneStroke, SequenceStrokes
  <2> HIDE DEF keyed
  <2> QED BY <2>1, <2>5, <2>6 DEF Found, Arriving
<1>5. MatchIs(t)
  BY MatchCases
<1> DEFINE Fits(found) == found.steps = <<>> \/ OneStroke(found.steps)
<1>6. \A c, d, n : /\ Fits(Found(Keyed(FinalLetters, c, ImplicitModifiers(d)), n))
                   /\ Fits(Found(Keyed(LinuxFunction, c, {}), n))
                   /\ Fits(Found(<<>>, n))
  BY <1>1, <1>3, KeyedIs DEF Found
<1>7. Fits(Arriving) /\ Fits(Control(t))
  BY <1>4 DEF Found, Arriving
<1> HIDE DEF Fits
<1>8. Fits(Match(t))
  BY <1>5, <1>6, <1>7 DEF MatchIs
<1> QED BY <1>8 DEF Fits

\* One keystroke on an empty screen.
LEMMA TypedOne ==
  ASSUME NEW phone, NEW k
  PROVE  Typed(phone, Blank, <<k>>) = Hear(phone, Blank, k)
<1> DEFINE ss == <<k>>
<1>1. ss \in Seq({k}) /\ Len(ss) = 1 /\ ss[1] = k
  OBVIOUS
<1>2. Blank \in Screens(phone, {k}, {})
  <2>1. <<>> \in Seq({})
    OBVIOUS
  <2> QED BY <2>1, ShowsIs
<1> HIDE DEF ss
<1>3. PICK f : Hearing(f, Screens(phone, {k}, {}), phone, Blank, ss)
  BY <1>1, <1>2, TypedSteps, Zenon
<1>4. f[0] = Blank /\ Typed(phone, Blank, ss) = f[1] /\ f[1] = Hear(phone, f[1 - 1], ss[1])
  BY <1>1, <1>3 DEF Hearing
<1>5. 1 - 1 = 0
  OBVIOUS
<1> QED BY <1>1, <1>4, <1>5 DEF ss

\* The keys a number stands for are none of the phone's own.
LEMMA NumbersAreKeys ==
  ASSUME NEW i \in 1..34
  PROVE  FinalNumbers[i] # "space" /\ FinalNumbers[i] # "enter"
<1>1. FinalNumbers[i] # "space"
  BY DEF FinalNumbers
<1>2. FinalNumbers[i] # "enter"
  BY DEF FinalNumbers
<1> QED BY <1>1, <1>2

\* What an app does with it is no character of the phone's.
LEMMA SequenceIsShown ==
  ASSUME PasteAssumption, NEW phone \in Cases, NEW S, NEW t \in Seq(S)
  PROVE  Typed(phone, Blank, Match(t).steps) = Shows(Keys(Match(t).steps))
<1>1. CASE Match(t).steps = <<>>
  <2>1. Blank \in Screens(phone, {}, {})
    <3>1. <<>> \in Seq({})
      OBVIOUS
    <3> QED BY <3>1, ShowsIs
  <2>2. Typed(phone, Blank, <<>>) = Blank
    BY <2>1, TypedNothing
  <2>3. Keys(<<>>) = <<>>
    BY DEF Keys
  <2> QED BY <1>1, <2>2, <2>3 DEF Shows, Blank
<1>2. CASE OneStroke(Match(t).steps)
  <2>1. PICK key \in SequenceKeys, mods \in SUBSET DOMAIN Bit :
          Match(t).steps = <<Stroke(key, mods)>>
    BY <1>2 DEF OneStroke, SequenceStrokes
  <2> DEFINE k == Stroke(key, mods)
             shown == ToString(<<key, mods>>)
  <2>2. k.key = key /\ k.mods = mods
    BY DEF Stroke
  <2>3. /\ <<key, mods>> \notin DOMAIN phone.keys
        /\ \A row \in DOMAIN Rows : key \notin ToSet(Rows[row])
        /\ shown # Straight
    BY DEF PasteAssumption
  <2>4. key \notin DOMAIN Fixed
    <3>1. \A c \in DOMAIN FinalLetters : FinalLetters[c] \notin {"space", "enter"}
      BY DEF FinalLetters
    <3>2. \A c \in DOMAIN LinuxFunction : LinuxFunction[c] \notin {"space", "enter"}
      BY DEF LinuxFunction
    <3>3. \A i \in DOMAIN FinalNumbers : FinalNumbers[i] \notin {"space", "enter"}
      <4>1. DOMAIN FinalNumbers = 1..34
        BY DEF FinalNumbers
      <4> QED BY <4>1, NumbersAreKeys
    <3>4. DOMAIN Fixed = {"space", "enter"}
      BY DEF Fixed
    <3> QED BY <3>1, <3>2, <3>3, <3>4 DEF SequenceKeys, ToSet
  <2> HIDE DEF k, shown
  <2>5. Made(phone, k) = Makes("char", shown)
    BY <2>2, <2>3, <2>4 DEF Made, shown
  <2>6. Hear(phone, Blank, k) = Write(phone, Blank, <<shown>>)
    BY <2>5 DEF Hear, Makes, Blank
  <2>7. [i \in DOMAIN <<shown>> |-> Stored(phone, <<shown>>[i])] = <<shown>>
    BY <2>3 DEF Stored
  <2>8. Write(phone, Blank, <<shown>>) = Shows(<<shown>>)
    <3>1. Write(phone, Blank, <<shown>>) = [text |-> <<>> \o <<shown>>, dead |-> "none"]
      BY <2>7 DEF Write, Blank
    <3>2. <<>> \o <<shown>> = <<shown>>
      OBVIOUS
    <3> QED BY <3>1, <3>2 DEF Shows
  <2>9. Typed(phone, Blank, <<k>>) = Hear(phone, Blank, k)
    BY TypedOne
  <2>10. Keys(<<k>>) = <<shown>>
    BY <2>2 DEF Keys, shown
  <2> QED BY <2>1, <2>6, <2>8, <2>9, <2>10 DEF k
<1> QED BY <1>1, <1>2, MatchSteps

-----------------------------------------------------------------------------
(***************************************************************************)
(* Texts with pauses between them.                                         *)
(***************************************************************************)

\* What texts come to that a pause follows.
Paused(S, coming) == [u \in Seq(S) |-> Full(S, u, TRUE, coming)]

\* What PhoneReads says of texts of which the last has no pause behind it.
ReadOf(texts, coming) ==
  [i \in DOMAIN texts |-> Reading(texts[i], i < Len(texts), coming)]

\* What texts with pauses between them, and a last one, read as.
ReadsThem(S, T, h, u, coming) ==
  /\ Spelt(Paused(S, coming), h) \in Seq(T)
  /\ FlattenSeq(ReadOf(Append(h, u), coming))
       = Spelt(Paused(S, coming), h) \o Full(S, u, FALSE, coming)
  /\ Spelt(Paused(S, coming), Append(h, u))
       = Spelt(Paused(S, coming), h) \o Full(S, u, TRUE, coming)

\* Texts are read one by one, the last as not yet over.
LEMMA ReadThem ==
  ASSUME NEW S, NEW T, NEW coming, Comings(S, T, coming),
         NEW h \in Seq(Seq(S)), NEW u \in Seq(S)
  PROVE  ReadsThem(S, T, h, u, coming)
<1> DEFINE E == Seq(S)
           G == Paused(S, coming)
           n == Len(h)
           read == ReadOf(Append(h, u), coming)
           m == Mapped(G, h)
           x == Full(S, u, FALSE, coming)
<1>1. G \in [E -> Seq(T)] /\ \A v \in E : G[v] = Full(S, v, TRUE, coming)
  <2>1. \A v \in Seq(S) : Full(S, v, TRUE, coming) \in Seq(T)
    BY FullType
  <2> QED BY <2>1 DEF Paused
<1>2. h \in Seq(E) /\ u \in E /\ <<u>> \in Seq(E) /\ Append(h, u) = h \o <<u>>
  OBVIOUS
<1>3. n \in Nat /\ DOMAIN h = 1..n /\ \A i \in 1..n : h[i] \in E
  OBVIOUS
<1>4. x \in Seq(T)
  BY FullType
<1>5. /\ DOMAIN Append(h, u) = 1..n + 1 /\ Len(Append(h, u)) = n + 1
      /\ Append(h, u)[n + 1] = u
      /\ \A i \in 1..n : Append(h, u)[i] = h[i]
  BY <1>3
<1> HIDE DEF E, G, n
<1>6. Spelt(G, Append(h, u)) = Spelt(G, h) \o G[u] /\ Spelt(G, h) \in Seq(T)
  <2> DEFINE b == <<u>>
  <2>1. b \in Seq(E)
    BY <1>2
  <2> HIDE DEF b
  <2>2. SpellsConcat(G, T, h, b)
    BY <1>1, <1>2, <2>1, SpeltConcat, Zenon
  <2>3. Spelt(G, <<u>>) = G[u]
    BY <1>1, <1>2, SpeltOne
  <2> QED BY <1>2, <2>2, <2>3 DEF SpellsConcat, b
<1>7. /\ m \in Seq(Seq(T)) /\ Len(m) = n
      /\ \A i \in 1..n : m[i] = G[h[i]]
  <2>1. m = [i \in 1..n |-> G[h[i]]]
    BY <1>3 DEF Mapped
  <2>2. \A i \in 1..n : G[h[i]] \in Seq(T)
    BY <1>1, <1>3
  <2> HIDE DEF m
  <2> DEFINE F == Seq(T)
  <2>3. m \in [1..n -> F]
    BY <2>1, <2>2
  <2> HIDE DEF F
  <2>4. m \in Seq(F) /\ Len(m) = n
    BY <1>3, <2>3
  <2> QED BY <2>1, <2>4 DEF F
<1>8. \A v \in E, pause \in BOOLEAN : Reading(v, pause, coming) = Full(S, v, pause, coming)
  <2>1. \A v \in Seq(S), pause \in BOOLEAN : ReadingIsFull(S, v, pause, coming)
    BY ReadingIs
  <2> QED BY <2>1 DEF ReadingIsFull, E
<1>9. /\ DOMAIN read = 1..n + 1
      /\ \A i \in 1..n : read[i] = m[i]
      /\ read[n + 1] = x
  <2>0. \A i \in 1..n + 1 : read[i] = Reading(Append(h, u)[i], i < n + 1, coming)
    BY <1>5 DEF ReadOf
  <2>1. DOMAIN read = 1..n + 1
    BY <1>5 DEF ReadOf
  <2>2. ASSUME NEW i \in 1..n
        PROVE  read[i] = m[i]
    <3>1. i \in 1..n + 1 /\ (i < n + 1) = TRUE /\ Append(h, u)[i] = h[i] /\ h[i] \in E
      BY <1>3, <1>5
    <3>2. read[i] = Reading(h[i], TRUE, coming)
      BY <2>0, <3>1
    <3>3. Reading(h[i], TRUE, coming) = Full(S, h[i], TRUE, coming)
      BY <1>8, <3>1
    <3>4. m[i] = Full(S, h[i], TRUE, coming)
      BY <1>1, <1>7, <3>1
    <3> QED BY <3>2, <3>3, <3>4
  <2>3. read[n + 1] = x
    <3>1. n + 1 \in 1..n + 1 /\ (n + 1 < n + 1) = FALSE
      BY <1>3
    <3>2. read[n + 1] = Reading(u, FALSE, coming)
      BY <1>5, <2>0, <3>1
    <3>3. Reading(u, FALSE, coming) = Full(S, u, FALSE, coming)
      BY <1>2, <1>8
    <3> QED BY <3>2, <3>3
  <2> QED BY <2>1, <2>2, <2>3
<1> HIDE DEF m, x
<1>10. read = m \o <<x>>
  <2> DEFINE b == <<x>>
             c == m \o b
  <2>1. c \in Seq(Seq(T)) /\ Len(c) = n + 1 /\ \A i \in 1..n : c[i] = m[i]
    BY <1>4, <1>7
  <2>2. c[n + 1] = x
    <3>1. b \in Seq(Seq(T)) /\ Len(b) = 1 /\ b[1] = x
      BY <1>4
    <3> HIDE DEF b
    <3>a. m \in Seq(Seq(T)) /\ Len(m) = n
      BY <1>7
    <3>b. \A i \in 1..Len(m) + Len(b) :
            (m \o b)[i] = IF i <= Len(m) THEN m[i] ELSE b[i - Len(m)]
      <4> DEFINE F == Seq(T)
      <4>1. m \in Seq(F) /\ b \in Seq(F)
        BY <3>1, <3>a
      <4> HIDE DEF F
      <4> QED BY <4>1, ConcatProperties
    <3>c. n + 1 \in 1..Len(m) + Len(b) /\ ~(n + 1 <= Len(m))
      BY <1>3, <3>1, <3>a
    <3>2. (m \o b)[n + 1] = b[(n + 1) - n]
      BY <3>a, <3>b, <3>c
    <3>3. (n + 1) - n = 1
      BY <1>3
    <3> QED BY <3>1, <3>2, <3>3
  <2>3. DOMAIN c = 1..n + 1
    BY <2>1
  <2>4. \A i \in 1..n + 1 : read[i] = c[i]
    BY <1>3, <1>9, <2>1, <2>2
  <2>5. read = [i \in 1..n + 1 |-> read[i]]
    BY <1>9 DEF ReadOf
  <2>6. c = [i \in 1..n + 1 |-> c[i]]
    BY <2>1, <2>3
  <2> HIDE DEF c, read
  <2>7. read = c
    BY <2>4, <2>5, <2>6
  <2> QED BY <2>7 DEF c, read
<1>11. FlattenSeq(m \o <<x>>) = FlattenSeq(m) \o FlattenSeq(<<x>>)
  <2> DEFINE b == <<x>>
  <2>1. b \in Seq(Seq(T))
    BY <1>4
  <2> HIDE DEF b
  <2>2. FlattenSeq(m \o b) = FlattenSeq(m) \o FlattenSeq(b)
    BY <1>7, <2>1, FlattenConcat
  <2> QED BY <2>2 DEF b
<1>12. FlattenSeq(<<x>>) = x
  BY <1>4, FlattenOne
<1>13. FlattenSeq(read) = Spelt(G, h) \o x
  BY <1>10, <1>11, <1>12 DEF Spelt, m
<1> QED BY <1>1, <1>2, <1>6, <1>13 DEF ReadsThem, G, x

\* Nothing reads as nothing.
LEMMA ReadingNothing == \A pause, coming : Reading(<<>>, pause, coming) = <<>>
<1> SUFFICES ASSUME NEW pause, NEW coming
             PROVE  Reading(<<>>, pause, coming) = <<>>
  OBVIOUS
<1> DEFINE From == CHOOSE g : Reads(g, <<>>, pause, coming)
           nothing == [i \in 1..1 |-> <<>>]
<1>1. Reading(<<>>, pause, coming) = From[1]
  BY DEF Reading, Reads, Ends
<1>2. Reads(nothing, <<>>, pause, coming)
  <2>1. Len(<<>>) = 0 /\ 0 + 1 = 1 /\ \A i \in 1..1 : i > 0
    OBVIOUS
  <2> QED BY <2>1 DEF Reads
<1> HIDE DEF nothing
<1>3. Reads(From, <<>>, pause, coming)
  BY <1>2
<1> HIDE DEF From
<1>4. ReadsFrom(From, <<>>, pause, coming, 1)
  BY <1>3, ReadsAt
<1>5. From[1] = <<>>
  BY <1>4 DEF ReadsFrom
<1> QED BY <1>1, <1>5

\* What a text goes on to come to, and what it comes to if a pause follows.
GoesOn(S, T, u, v, coming) ==
  LET d == Decode(u)
      r == Decode(d.tail \o v)
  IN  /\ Decode(u \o v).tail = r.tail
      /\ Full(S, u, FALSE, coming) \in Seq(T)
      /\ Spelt(Meaning(S, coming), r.items) \in Seq(T)
      /\ Full(S, u \o v, FALSE, coming)
           = Full(S, u, FALSE, coming) \o Spelt(Meaning(S, coming), r.items)
      /\ Spelt(coming, d.tail) \in Seq(T)
      /\ Full(S, u, TRUE, coming) = Full(S, u, FALSE, coming) \o Spelt(coming, d.tail)

\* A text reads on as its tail and what follows is decoded.
LEMMA TextGoesOn ==
  ASSUME NEW S, NEW T, NEW coming, Comings(S, T, coming),
         NEW u \in Seq(S), NEW v \in Seq(S)
  PROVE  GoesOn(S, T, u, v, coming)
<1> DEFINE M == Meaning(S, coming)
           d == Decode(u)
           r == Decode(d.tail \o v)
           I == Items(S)
<1>0. M \in [I -> Seq(T)] /\ coming \in [S -> Seq(T)]
  BY MeaningType DEF Comings
<1>1. d.items \in Seq(I) /\ d.tail \in Seq(S)
  BY DecodeTyped DEF DecodeType
<1>2. r.items \in Seq(I) /\ r.tail \in Seq(S)
  <2>1. d.tail \o v \in Seq(S)
    BY <1>1
  <2> QED BY <2>1, DecodeTyped DEF DecodeType
<1>3. Decode(u \o v) = [items |-> d.items \o r.items, tail |-> r.tail]
  BY DecodeCutAnywhere
<1>4. Decode(u \o v).items = d.items \o r.items /\ Decode(u \o v).tail = r.tail
  <2> DEFINE all == d.items \o r.items
             end == r.tail
  <2>1. Decode(u \o v) = [items |-> all, tail |-> end]
    BY <1>3
  <2> HIDE DEF all, end
  <2>2. Decode(u \o v).items = all /\ Decode(u \o v).tail = end
    BY <2>1
  <2> QED BY <2>2 DEF all, end
<1> DEFINE x == Spelt(M, d.items)
           y == Spelt(M, r.items)
           z == Spelt(coming, d.tail)
<1>5. Full(S, u, FALSE, coming) = x \o <<>> /\ Full(S, u, TRUE, coming) = x \o z
  BY DEF Full
<1>6. Full(S, u \o v, FALSE, coming) = Spelt(M, d.items \o r.items) \o <<>>
  BY <1>4 DEF Full
<1> HIDE DEF M, I, d, r
<1>7. SpellsConcat(M, T, d.items, r.items)
  <2> DEFINE a == d.items
             b == r.items
  <2>1. a \in Seq(I) /\ b \in Seq(I)
    BY <1>1, <1>2
  <2> HIDE DEF a, b
  <2>2. SpellsConcat(M, T, a, b)
    BY <1>0, <2>1, SpeltConcat, Zenon
  <2> QED BY <2>2 DEF a, b
<1>8. x \in Seq(T) /\ y \in Seq(T) /\ z \in Seq(T)
  <2>1. x \in Seq(T) /\ Spelt(M, d.items \o r.items) = x \o y
    BY <1>7 DEF SpellsConcat
  <2>2. y \in Seq(T)
    BY <1>0, <1>2, SpeltType
  <2>3. z \in Seq(T)
    BY <1>0, <1>1, SpeltType
  <2> QED BY <2>1, <2>2, <2>3
<1>9. Spelt(M, d.items \o r.items) = x \o y
  BY <1>7 DEF SpellsConcat
<1> HIDE DEF x, y, z
<1>10. x \o <<>> = x /\ (x \o y) \o <<>> = x \o y
  BY <1>8
<1> QED BY <1>4, <1>5, <1>6, <1>8, <1>9, <1>10 DEF GoesOn, M, d, r, x, y, z

-----------------------------------------------------------------------------
(***************************************************************************)
(* What is reached.                                                        *)
(***************************************************************************)

\* A character takes one keystroke or two.
Few(strokes) == strokes = <<strokes[1]>> \/ strokes = <<strokes[1], strokes[2]>>

\* The keymap is there once text is typed; what is pending is what decode
\* holds back of the text that last arrived; nothing has before that.
Reached ==
  /\ case \in Cases
  /\ \E h \in Seq(Seq(case.alphabet)), u \in Seq(case.alphabet) :
       received = Append(h, u) /\ pending = Decode(u).tail
  /\ stage # "typing" => received = <<<<>>>> /\ pending = <<>> /\ screen = Blank
  /\ stage \in {"new", "swept", "probed"} => file = {}
  /\ stage \in {"new", "swept", "probed", "built", "typing"}
  /\ stage = "typing" => \A c \in DOMAIN keymap : Few(keymap[c])

\* kbmap.build gives a character one keystroke or two.
LEMMA BuildOfFew ==
  \A keysyms, diacritics : \A c \in DOMAIN Build(keysyms, diacritics) :
    Few(Build(keysyms, diacritics)[c])
<1> SUFFICES ASSUME NEW keysyms, NEW diacritics
             PROVE  \A c \in DOMAIN Build(keysyms, diacritics) :
                      Few(Build(keysyms, diacritics)[c])
  OBVIOUS
<1> DEFINE char == [p \in ToSet(Scan) |-> KeysymToChar(keysyms[p])]
           dead == [p \in ToSet(Scan) |-> IF char[p] # "none" THEN "none"
                                          ELSE KeysymToDiacritic(keysyms[p])]
           chars   == FirstOf(char)
           singles == [c \in DOMAIN chars |-> Stroke(chars[c].key, chars[c].mods)]
           deads   == FirstOf(dead)
           composed == Compose(singles, deads, diacritics)
           alone   == [c \in DOMAIN singles |-> <<singles[c]>>]
<1>1. Build(keysyms, diacritics) = Above(composed, Above(alone, Whitespace))
  BY DEF Build
<1>2. \A c \in DOMAIN composed : Few(composed[c])
  <2> HIDE DEF singles, deads
  <2> QED BY DEF Compose, Few
<1>3. \A c \in DOMAIN alone : Few(alone[c])
  BY DEF Few
<1>4. \A c \in DOMAIN Whitespace : Few(Whitespace[c])
  BY DEF Whitespace, Few
<1>5. \A f, g : /\ \A c \in DOMAIN f : Few(f[c])
                /\ \A c \in DOMAIN g : Few(g[c])
                => \A c \in DOMAIN Above(f, g) : Few(Above(f, g)[c])
  BY DEF Above
<1> HIDE DEF composed, alone
<1>6. \A c \in DOMAIN Above(alone, Whitespace) : Few(Above(alone, Whitespace)[c])
  BY <1>3, <1>4, <1>5
<1>7. \A c \in DOMAIN Above(composed, Above(alone, Whitespace)) :
        Few(Above(composed, Above(alone, Whitespace))[c])
  <2> DEFINE rest == Above(alone, Whitespace)
  <2>1. \A c \in DOMAIN rest : Few(rest[c])
    BY <1>6
  <2> HIDE DEF rest
  <2>2. \A c \in DOMAIN Above(composed, rest) : Few(Above(composed, rest)[c])
    BY <1>2, <1>5, <2>1
  <2> QED BY <2>2 DEF rest
<1> QED BY <1>1, <1>7

\* A way to write a character is one keystroke or two.
LEMMA WaysOfFew ==
  ASSUME NEW phone, NEW accents, NEW c \in DOMAIN Ways(phone, accents),
         NEW s \in Ways(phone, accents)[c]
  PROVE  /\ s \in Tried(phone, accents) /\ Few(s)
         /\ Typed(phone, Blank, s) = Alone(c)
<1> DEFINE wrote == [steps \in Tried(phone, accents) |-> Typed(phone, Blank, steps)]
<1>1. DOMAIN wrote = Tried(phone, accents)
  OBVIOUS
<1>2. s \in Tried(phone, accents) /\ Typed(phone, Blank, s) = Alone(c)
  BY DEF Ways
<1>3. Few(s)
  BY <1>2 DEF Tried, Few
<1> QED BY <1>2, <1>3

\* A straight quote comes as a quote that has a way.
LEMMA AliasIsAWay ==
  ASSUME NEW ways, Aliased(ways)
  PROVE  Alias(ways) \in DOMAIN ways
<1>1. DOMAIN ways \cap {Curlies[1], Curlies[2]} # {}
  BY DEF Aliased, ToSet, Curlies
<1> QED BY <1>1 DEF Alias

\* So does a layout that is the phone's.
LEMMA LayoutOfFew ==
  ASSUME LayoutIsThePhones, stage = "built", NEW c \in DOMAIN LoadLayout(file)
  PROVE  Few(LoadLayout(file)[c])
<1> DEFINE ways == Ways(case, measured = 2)
           layout == LoadLayout(file)
<1>1. /\ DOMAIN layout = DOMAIN ways \cup (IF Aliased(ways) THEN {Straight} ELSE {})
      /\ \A d \in DOMAIN ways : layout[d] \in ways[d]
      /\ Aliased(ways) => layout[Straight] \in ways[Alias(ways)]
  BY DEF LayoutIsThePhones
<1>2. \A d \in DOMAIN ways : \A s \in ways[d] : Few(s)
  BY WaysOfFew
<1> HIDE DEF ways, layout
<1>3. CASE c \in DOMAIN ways
  BY <1>1, <1>2, <1>3 DEF layout
<1>4. CASE Aliased(ways) /\ c = Straight
  BY <1>1, <1>2, <1>4, AliasIsAWay DEF layout
<1> QED BY <1>1, <1>3, <1>4 DEF layout

-----------------------------------------------------------------------------
\* That the keystrokes for the items of a text type what they mean.
ItemsAreTyped(K, T, C) ==
  /\ Comings(case.alphabet, T, C)
  /\ Types(case, Items(case.alphabet), K, T,
           [item \in Items(case.alphabet) |-> StrokesOf(item)],
           Meaning(case.alphabet, C))

\* Where each character is typed, each item of a text is.
LEMMA TheItemsAreTyped ==
  ASSUME PasteAssumption, Reached, EachIsTyped, stage = "typing"
  PROVE  \E K, T : ItemsAreTyped(K, T, Coming(case, measured))
<1> DEFINE A == case.alphabet
           C == Coming(case, measured)
           K == {keymap[c][1] : c \in DOMAIN keymap} \cup {keymap[c][2] : c \in DOMAIN keymap}
                  \cup SequenceStrokes
           T == Letters(case, K, {})
           G == [item \in Items(A) |-> StrokesOf(item)]
           M == Meaning(A, C)
<1>1. case \in Cases /\ \A c \in DOMAIN keymap : Few(keymap[c])
  BY DEF Reached
<1>2. C = [c \in A |-> C[c]]
  BY DEF Coming
<1>3. \A c \in A : Typed(case, Blank, StrokesFor(c)) = Shows(C[c])
  BY DEF EachIsTyped, Shows
<1>4. \A c \in A : StrokesFor(c) \in Seq(K)
  <2>1. ASSUME NEW c \in DOMAIN keymap
        PROVE  keymap[c] \in Seq(K)
    <3>1. keymap[c][1] \in K /\ keymap[c][2] \in K
      OBVIOUS
    <3> DEFINE s == keymap[c]
    <3> HIDE DEF K, s
    <3>2. s[1] \in K /\ s[2] \in K /\ Few(s)
      BY <1>1, <3>1 DEF s
    <3>3. <<s[1]>> \in Seq(K) /\ <<s[1], s[2]>> \in Seq(K)
      BY <3>2
    <3>4. s \in Seq(K)
      BY <3>2, <3>3 DEF Few
    <3> QED BY <3>4 DEF s
  <2>2. <<>> \in Seq(K)
    OBVIOUS
  <2> HIDE DEF K
  <2> QED BY <2>1, <2>2 DEF StrokesFor
<1>5. \A steps : steps = <<>> \/ OneStroke(steps) => steps \in Seq(K)
  <2>1. \A k \in SequenceStrokes : k \in K
    OBVIOUS
  <2> HIDE DEF K
  <2>2. <<>> \in Seq(K) /\ \A k \in K : <<k>> \in Seq(K)
    OBVIOUS
  <2> QED BY <2>1, <2>2 DEF OneStroke
<1>6. \A r \in Seq(A) : Match(r).steps \in Seq(K)
  BY <1>5, MatchSteps
<1>7. \A r \in Seq(A) : Typed(case, Blank, Match(r).steps) = Shows(Keys(Match(r).steps))
  BY <1>1, SequenceIsShown
<1> HIDE DEF K, C, A
<1>8. \A s \in Seq(K) : Typed(case, Blank, s).text \in Seq(T)
  <2>1. Blank \in Screens(case, K, {})
    <3>1. <<>> \in Seq({})
      OBVIOUS
    <3> QED BY <3>1, ShowsIs
  <2>2. \A s \in Seq(K) : Typed(case, Blank, s) \in Screens(case, K, {})
    BY <2>1, TypedType
  <2> QED BY <2>2 DEF Screens
<1> HIDE DEF T
<1>9. \A x : Shows(x).text = x
  BY DEF Shows
<1>10. Comings(A, T, C)
  <2>1. \A c \in A : C[c] \in Seq(T)
    <3>1. ASSUME NEW c \in A
          PROVE  C[c] \in Seq(T)
      <4>1. Typed(case, Blank, StrokesFor(c)).text \in Seq(T)
        BY <1>4, <1>8
      <4>2. Typed(case, Blank, StrokesFor(c)) = Shows(C[c])
        BY <1>3
      <4> QED BY <1>9, <4>1, <4>2
    <3> QED BY <3>1
  <2>2. \A r \in Seq(A) : Keys(Match(r).steps) \in Seq(T)
    <3>1. ASSUME NEW r \in Seq(A)
          PROVE  Keys(Match(r).steps) \in Seq(T)
      <4>1. Typed(case, Blank, Match(r).steps).text \in Seq(T)
        BY <1>6, <1>8
      <4>2. Typed(case, Blank, Match(r).steps) = Shows(Keys(Match(r).steps))
        BY <1>7
      <4> QED BY <1>9, <4>1, <4>2
    <3> QED BY <3>1
  <2>3. C \in [A -> Seq(T)]
    BY <1>2, <2>1
  <2> QED BY <2>2, <2>3 DEF Comings
<1>11. /\ M \in [Items(A) -> Seq(T)]
       /\ \A c \in A : M[Char(c)] = C[c]
       /\ \A r \in Seq(A) : M[Steps(Match(r).steps)] = Keys(Match(r).steps)
       /\ M[Unknown] = <<>>
  BY <1>10, MeaningType
<1>12. /\ \A c : StrokesOf(Char(c)) = StrokesFor(c)
       /\ \A steps : StrokesOf(Steps(steps)) = steps
       /\ StrokesOf(Unknown) = <<>>
  BY DEF StrokesOf, Char, Steps, Unknown
<1> HIDE DEF M
<1>13. ASSUME NEW item \in Items(A)
       PROVE  StrokesOf(item) \in Seq(K) /\ Typed(case, Blank, StrokesOf(item)) = Shows(M[item])
  <2>1. CASE \E c \in A : item = Char(c)
    BY <1>3, <1>4, <1>11, <1>12, <2>1
  <2>2. CASE \E r \in Seq(A) : item = Steps(Match(r).steps)
    <3>1. PICK r \in Seq(A) : item = Steps(Match(r).steps)
      BY <2>2
    <3>2. StrokesOf(item) = Match(r).steps /\ M[item] = Keys(Match(r).steps)
      BY <1>11, <1>12, <3>1
    <3> QED BY <1>6, <1>7, <3>2
  <2>3. CASE item = Unknown
    <3>1. Typed(case, Blank, <<>>) = Blank
      <4>1. Blank \in Screens(case, K, {})
        <5>1. <<>> \in Seq({})
          OBVIOUS
        <5> QED BY <5>1, ShowsIs
      <4> QED BY <4>1, TypedNothing
    <3>2. Shows(<<>>) = Blank /\ <<>> \in Seq(K)
      BY DEF Shows, Blank
    <3> QED BY <1>11, <1>12, <2>3, <3>1, <3>2
  <2> QED BY <2>1, <2>2, <2>3 DEF Items
<1>14. Types(case, Items(A), K, T, G, M)
  BY <1>11, <1>13 DEF Types
<1>15. ItemsAreTyped(K, T, C)
  BY <1>10, <1>14 DEF ItemsAreTyped, A, M
<1> QED BY <1>15 DEF C

\* What TypeItems types on a screen that shows x.
TypesItems(x, items, C) ==
  Typed(case, Shows(x), FlattenSeq([i \in DOMAIN items |-> StrokesOf(items[i])]))
    = Shows(x \o Spelt(Meaning(case.alphabet, C), items))

\* And so are the items together.
LEMMA ItemsTyped ==
  ASSUME NEW K, NEW T, NEW C, ItemsAreTyped(K, T, C),
         NEW x \in Seq(T), NEW items \in Seq(Items(case.alphabet))
  PROVE  TypesItems(x, items, C)
<1> DEFINE D == Items(case.alphabet)
           G == [item \in D |-> StrokesOf(item)]
           M == Meaning(case.alphabet, C)
<1>1. Types(case, D, K, T, G, M)
  BY DEF ItemsAreTyped
<1>2. [i \in DOMAIN items |-> StrokesOf(items[i])] = Mapped(G, items)
  <2>1. \A i \in DOMAIN items : items[i] \in D
    OBVIOUS
  <2> QED BY <2>1 DEF Mapped
<1> HIDE DEF G, M
<1>3. items \in Seq(D)
  OBVIOUS
<1> HIDE DEF D
<1>4. TypesAll(case, G, M, x, items)
  BY <1>1, <1>3, TypedSpelt, Zenon
<1> QED BY <1>2, <1>4 DEF TypesAll, TypesItems, Spelt, M

\* The three facts of a step of typing, of the text that has arrived so far.
LEMMA TheScreenShows ==
  ASSUME NEW T, NEW C, Comings(case.alphabet, T, C), C = Coming(case, measured),
         NEW h \in Seq(Seq(case.alphabet)), NEW u \in Seq(case.alphabet),
         received = Append(h, u), stage = "typing", PhoneReads
  PROVE  screen = Shows(Spelt(Paused(case.alphabet, C), h)
                          \o Full(case.alphabet, u, FALSE, C))
<1>1. screen = Shows(FlattenSeq(ReadOf(received, C)))
  BY DEF PhoneReads, ReadOf, Shows
<1>2. ReadsThem(case.alphabet, T, h, u, C)
  BY ReadThem
<1> QED BY <1>1, <1>2 DEF ReadsThem

\* The front and the last of what was appended to.
LEMMA FrontAndLast ==
  ASSUME NEW S, NEW h \in Seq(S), NEW u \in S
  PROVE  Front(Append(h, u)) = h /\ Last(Append(h, u)) = u
<1> DEFINE n == Len(h)
           s == Append(h, u)
<1>1. n \in Nat /\ s \in Seq(S) /\ Len(s) = n + 1 /\ s[n + 1] = u
      /\ \A i \in 1..n : s[i] = h[i]
  OBVIOUS
<1>2. Last(s) = u
  BY <1>1 DEF Last
<1>3. Front(s) = SubSeq(s, 1, n)
  BY <1>1 DEF Front
<1> HIDE DEF s
<1> DEFINE f == SubSeq(s, 1, n)
<1>4. f \in Seq(S) /\ Len(f) = n /\ \A i \in 1..n : f[i] = s[i]
  BY <1>1
<1> HIDE DEF f
<1>5. f = h
  BY <1>1, <1>4, SeqEqual
<1> QED BY <1>2, <1>3, <1>5 DEF f, s

\* Text that arrives is typed as it reads (type_text).
LEMMA TextInputReads ==
  ASSUME PasteAssumption, Reached, EachIsTyped, PhoneReads, TextInput
  PROVE  Reached' /\ PhoneReads'
<1> DEFINE A == case.alphabet
           C == Coming(case, measured)
           M == Meaning(A, C)
<1>1. stage = "typing" /\ UNCHANGED <<case, stage, captures, file, measured, keymap>>
  BY DEF TextInput
<1>2. PICK h \in Seq(Seq(A)), u \in Seq(A) : received = Append(h, u) /\ pending = Decode(u).tail
  BY DEF Reached
<1>3. PICK K, T : ItemsAreTyped(K, T, C)
  BY <1>1, TheItemsAreTyped
<1>a. PICK n \in 1..MaxChunk :
        \E chunk \in [1..n -> A] :
          /\ TypeText(chunk)
          /\ received' = Append(Front(received), Last(received) \o chunk)
  BY DEF TextInput
<1>4. PICK chunk \in [1..n -> A] :
        /\ TypeText(chunk)
        /\ received' = Append(Front(received), Last(received) \o chunk)
  BY <1>a
<1>5. chunk \in Seq(A)
  <2>1. n \in Nat
    BY DEF PasteAssumption
  <2> HIDE DEF A
  <2> QED BY <2>1
<1> DEFINE v == u \o chunk
           r == Decode(pending \o chunk)
           P == Spelt(Paused(A, C), h)
           F == Full(A, u, FALSE, C)
           Y == Spelt(M, r.items)
<1>6. received' = Append(h, v)
  <2> DEFINE E == Seq(A)
  <2>1. h \in Seq(E) /\ u \in E
    OBVIOUS
  <2> HIDE DEF E
  <2>2. Front(received) = h /\ Last(received) = u
    BY <1>2, <2>1, FrontAndLast
  <2> QED BY <1>4, <2>2
<1>7. TypeItems(r.items) /\ pending' = r.tail
  BY <1>4 DEF TypeText
<1>8. Comings(A, T, C)
  BY <1>3 DEF ItemsAreTyped
<1>9. GoesOn(A, T, u, chunk, C)
  BY <1>5, <1>8, TextGoesOn
<1>10. ReadsThem(A, T, h, u, C)
  BY <1>8, ReadThem
<1>11. v \in Seq(A)
  BY <1>5
<1>12. ReadsThem(A, T, h, v, C)
  <2> HIDE DEF v
  <2> QED BY <1>8, <1>11, ReadThem
<1>13. r.items \in Seq(Items(A))
  <2>1. pending \in Seq(A)
    BY <1>2, DecodeTyped DEF DecodeType
  <2>2. pending \o chunk \in Seq(A)
    BY <1>5, <2>1
  <2> QED BY <2>2, DecodeTyped DEF DecodeType
<1>14. screen = Shows(P \o F)
  BY <1>1, <1>2, <1>8, TheScreenShows
<1>15. P \in Seq(T) /\ F \in Seq(T) /\ Y \in Seq(T)
  BY <1>2, <1>9, <1>10 DEF ReadsThem, GoesOn
<1>16. Full(A, v, FALSE, C) = F \o Y /\ Decode(v).tail = r.tail
  BY <1>2, <1>9 DEF GoesOn
<1>17. FlattenSeq(ReadOf(Append(h, v), C)) = P \o Full(A, v, FALSE, C)
  BY <1>12 DEF ReadsThem
<1> HIDE DEF v, P, F, Y
<1>18. screen' = Shows((P \o F) \o Y)
  <2> DEFINE x == P \o F
             items == r.items
  <2>1. x \in Seq(T)
    BY <1>15
  <2>2. screen = Shows(x) /\ items \in Seq(Items(A)) /\ TypeItems(items)
    BY <1>7, <1>13, <1>14
  <2> HIDE DEF x, items
  <2>3. TypesItems(x, items, C)
    BY <1>3, <2>1, <2>2, ItemsTyped
  <2>4. screen' = Shows(x \o Spelt(M, items))
    BY <2>2, <2>3 DEF TypesItems, TypeItems
  <2> QED BY <2>4 DEF x, items, Y
<1>19. (P \o F) \o Y = P \o (F \o Y)
  <2>1. AssocAt(P, F, Y)
    BY <1>15, Assoc, Zenon
  <2> QED BY <2>1, Zenon DEF AssocAt
<1>20. screen' = Shows(FlattenSeq(ReadOf(received', C)))
  BY <1>6, <1>16, <1>17, <1>18, <1>19, Zenon
<1>21. Reached'
  <2>1. /\ case' \in Cases /\ stage' = "typing"
        /\ \A c \in DOMAIN keymap' : Few(keymap'[c])
    BY <1>1 DEF Reached
  <2>2. /\ h \in Seq(Seq(case'.alphabet)) /\ v \in Seq(case'.alphabet)
        /\ received' = Append(h, v) /\ pending' = Decode(v).tail
    BY <1>1, <1>6, <1>7, <1>11, <1>16
  <2> QED BY <2>1, <2>2 DEF Reached
<1>22. PhoneReads'
  <2>1. C = Coming(case', measured')
    BY <1>1
  <2>2. screen' = Shows(FlattenSeq(ReadOf(received', Coming(case', measured'))))
    BY <1>20, <2>1
  <2> QED BY <2>2 DEF PhoneReads, ReadOf, Shows
<1> QED BY <1>21, <1>22

\* What was held back is typed as it is (_give_up_waiting).
LEMMA GiveUpWaitingReads ==
  ASSUME PasteAssumption, Reached, EachIsTyped, PhoneReads, GiveUpWaiting
  PROVE  Reached' /\ PhoneReads'
<1> DEFINE A == case.alphabet
           C == Coming(case, measured)
           M == Meaning(A, C)
           items == [i \in DOMAIN pending |-> Char(pending[i])]
<1>0. UNCHANGED <<case, stage, captures, file, measured, keymap>>
  BY DEF GiveUpWaiting
<1>1. stage = "typing"
  BY DEF GiveUpWaiting, Reached
<1>2. PICK h \in Seq(Seq(A)), u \in Seq(A) : received = Append(h, u) /\ pending = Decode(u).tail
  BY DEF Reached
<1>3. PICK K, T : ItemsAreTyped(K, T, C)
  BY <1>1, TheItemsAreTyped
<1> DEFINE v == Append(h, u)
           P == Spelt(Paused(A, C), h)
           F == Full(A, u, FALSE, C)
           Y == Spelt(C, pending)
<1>4. TypeItems(items) /\ pending' = <<>> /\ received' = Append(v, <<>>)
  BY <1>2 DEF GiveUpWaiting
<1>5. Comings(A, T, C)
  BY <1>3 DEF ItemsAreTyped
<1>6. GoesOn(A, T, u, <<>>, C)
  <2>1. <<>> \in Seq(A)
    OBVIOUS
  <2> QED BY <1>5, <2>1, TextGoesOn
<1>7. ReadsThem(A, T, h, u, C)
  BY <1>5, ReadThem
<1>8. v \in Seq(Seq(A)) /\ <<>> \in Seq(A)
  <2> DEFINE E == Seq(A)
  <2>1. h \in Seq(E) /\ u \in E
    OBVIOUS
  <2>2. <<>> \in Seq(A)
    OBVIOUS
  <2> HIDE DEF E
  <2>3. v \in Seq(E)
    BY <2>1
  <2> QED BY <2>2, <2>3 DEF E
<1>9. ReadsThem(A, T, v, <<>>, C)
  <2> HIDE DEF v
  <2> QED BY <1>5, <1>8, ReadThem
<1>10. pending \in Seq(A)
  BY <1>2, DecodeTyped DEF DecodeType
<1>11. items \in Seq(Items(A)) /\ Spelt(M, items) = Y
  <2> DEFINE n == Len(pending)
             D == Items(A)
  <2>1. n \in Nat /\ DOMAIN pending = 1..n /\ \A i \in 1..n : pending[i] \in A
    BY <1>10
  <2>a. \A c \in A : M[Char(c)] = C[c]
    <3> HIDE DEF A, C
    <3> QED BY <1>5, MeaningType
  <2>2. \A c \in A : Char(c) \in D /\ M[Char(c)] = C[c]
    BY <2>a DEF Items
  <2>3. items \in [1..n -> D] /\ DOMAIN items = 1..n /\ \A i \in 1..n : items[i] = Char(pending[i])
    BY <2>1, <2>2
  <2> HIDE DEF items, D, n, M
  <2>4. items \in Seq(D)
    BY <2>1, <2>3
  <2>5. Mapped(M, items) = Mapped(C, pending)
    BY <2>1, <2>2, <2>3 DEF Mapped
  <2> QED BY <2>4, <2>5 DEF Spelt, D
<1>12. screen = Shows(P \o F)
  BY <1>1, <1>2, <1>5, TheScreenShows
<1>13. P \in Seq(T) /\ F \in Seq(T) /\ Y \in Seq(T)
  BY <1>2, <1>6, <1>7 DEF ReadsThem, GoesOn
<1>14. Full(A, u, TRUE, C) = F \o Y
  BY <1>2, <1>6 DEF GoesOn
<1>15. Spelt(Paused(A, C), v) = P \o Full(A, u, TRUE, C)
  BY <1>7 DEF ReadsThem
<1>16. FlattenSeq(ReadOf(Append(v, <<>>), C))
         = Spelt(Paused(A, C), v) \o Full(A, <<>>, FALSE, C)
  BY <1>9 DEF ReadsThem
<1>17. Full(A, <<>>, FALSE, C) = <<>>
  BY <1>5, FullNothing
<1> HIDE DEF v, P, F, Y, items
<1>18. screen' = Shows((P \o F) \o Y)
  <2> DEFINE x == P \o F
  <2>1. x \in Seq(T)
    BY <1>13
  <2>2. screen = Shows(x)
    BY <1>12
  <2> HIDE DEF x
  <2>3. TypesItems(x, items, C)
    BY <1>3, <1>11, <2>1, ItemsTyped
  <2>4. screen' = Shows(x \o Spelt(M, items))
    BY <1>4, <2>2, <2>3 DEF TypesItems, TypeItems
  <2> QED BY <1>11, <2>4 DEF x
<1>19. (P \o F) \o Y = P \o (F \o Y)
  <2>1. AssocAt(P, F, Y)
    BY <1>13, Assoc, Zenon
  <2> QED BY <2>1, Zenon DEF AssocAt
<1>20. (P \o (F \o Y)) \o <<>> = P \o (F \o Y)
  <2>1. F \o Y \in Seq(T)
    BY <1>13
  <2> DEFINE z == F \o Y
  <2> HIDE DEF z
  <2>2. P \o z \in Seq(T)
    BY <1>13, <2>1 DEF z
  <2> DEFINE y == P \o z
  <2> HIDE DEF y
  <2>3. y \o <<>> = y
    BY <2>2 DEF y
  <2> QED BY <2>3 DEF y, z
<1>21. screen' = Shows(FlattenSeq(ReadOf(received', C)))
  BY <1>4, <1>14, <1>15, <1>16, <1>17, <1>18, <1>19, <1>20, Zenon
<1>22. Reached'
  <2>1. /\ case' \in Cases /\ stage' = "typing"
        /\ \A c \in DOMAIN keymap' : Few(keymap'[c])
    BY <1>0, <1>1 DEF Reached
  <2>2. /\ v \in Seq(Seq(case'.alphabet)) /\ <<>> \in Seq(case'.alphabet)
        /\ received' = Append(v, <<>>) /\ pending' = Decode(<<>>).tail
    BY <1>0, <1>4, <1>8, DecodeNothing
  <2> QED BY <2>1, <2>2 DEF Reached
<1>23. PhoneReads'
  <2>1. C = Coming(case', measured')
    BY <1>0
  <2>2. screen' = Shows(FlattenSeq(ReadOf(received', Coming(case', measured'))))
    BY <1>21, <2>1
  <2> QED BY <2>2 DEF PhoneReads, ReadOf, Shows
<1> QED BY <1>22, <1>23

\* Before any text there is nothing to read.
LEMMA LoadTheKeymapReads ==
  ASSUME Reached, LayoutIsThePhones, LoadTheKeymap
  PROVE  Reached' /\ PhoneReads'
<1>1. /\ stage \in {"new", "built"} /\ stage' = "typing"
      /\ UNCHANGED <<case, captures, file, measured, pending, screen, received>>
      /\ \E console : /\ keymap' = LoadKeymap(console, file)
                      /\ \A c \in DOMAIN console : Few(console[c])
  BY BuildOfFew DEF LoadTheKeymap
<1>2. received = <<<<>>>> /\ pending = <<>> /\ screen = Blank
  BY <1>1 DEF Reached
<1>3. \A c \in DOMAIN keymap' : Few(keymap'[c])
  <2>1. PICK console : /\ keymap' = LoadKeymap(console, file)
                       /\ \A c \in DOMAIN console : Few(console[c])
    BY <1>1
  <2>2. CASE file = {}
    BY <2>1, <2>2 DEF LoadKeymap
  <2>3. CASE file # {}
    <3>1. stage = "built"
      BY <1>1, <2>3 DEF Reached
    <3>2. \A c \in DOMAIN LoadLayout(file) : Few(LoadLayout(file)[c])
      BY <3>1, LayoutOfFew
    <3>3. keymap' = Above(LoadLayout(file), Whitespace)
      BY <2>1, <2>3 DEF LoadKeymap
    <3>4. \A c \in DOMAIN Whitespace : Few(Whitespace[c])
      BY DEF Whitespace, Few
    <3> QED BY <3>2, <3>3, <3>4 DEF Above
  <2> QED BY <2>2, <2>3
<1>4. Reached'
  <2>1. \E h \in Seq(Seq(case'.alphabet)), u \in Seq(case'.alphabet) :
          received' = Append(h, u) /\ pending' = Decode(u).tail
    BY <1>1 DEF Reached
  <2>2. case' \in Cases
    BY <1>1 DEF Reached
  <2> QED BY <1>1, <1>3, <2>1, <2>2 DEF Reached
<1>5. PhoneReads'
  <2> DEFINE C == Coming(case, measured)'
             read == [i \in DOMAIN received' |-> Reading(received'[i], i < Len(received'), C)]
  <2>1. received' = <<<<>>>> /\ screen' = [text |-> <<>>, dead |-> "none"]
    BY <1>1, <1>2 DEF Blank
  <2> HIDE DEF C
  <2>2. read = <<<<>>>>
    <3>1. DOMAIN received' = 1..1 /\ received'[1] = <<>>
      BY <2>1
    <3>2. read = [i \in 1..1 |-> <<>>]
      BY <3>1, ReadingNothing
    <3> QED BY <3>2
  <2>3. FlattenSeq(<<<<>>>>) = <<>>
    <3>1. <<>> \in Seq({})
      OBVIOUS
    <3> QED BY <3>1, FlattenOne
  <2>4. screen' = [text |-> FlattenSeq(read), dead |-> "none"]
    BY <2>1, <2>2, <2>3
  <2> QED BY <2>4 DEF PhoneReads, C
<1> QED BY <1>4, <1>5

\* At the start there is neither.
LEMMA InitReads == Init => Reached /\ PhoneReads
<1> SUFFICES ASSUME Init
             PROVE  Reached /\ PhoneReads
  OBVIOUS
<1>1. stage = "new" /\ file = {} /\ case \in Cases /\ pending = <<>> /\ screen = Blank
      /\ received = <<<<>>>>
  BY DEF Init
<1>2. /\ <<>> \in Seq(Seq(case.alphabet)) /\ <<>> \in Seq(case.alphabet)
      /\ received = Append(<<>>, <<>>) /\ pending = Decode(<<>>).tail
  BY <1>1, DecodeNothing
<1> QED BY <1>1, <1>2 DEF Reached, PhoneReads

\* Every step keeps the screen to what the text reads as.
LEMMA NextReads ==
  ASSUME PasteAssumption, Reached, PhoneReads, LayoutIsThePhones, EachIsTyped, [Next]_vars
  PROVE  Reached' /\ PhoneReads'
<1>1. ASSUME \/ LearnLayout \/ LearnAccents \/ BuildLayout
      PROVE  Reached' /\ PhoneReads'
  <2>1. /\ stage \in {"new", "swept", "probed"} /\ stage' \in {"swept", "probed", "built"}
        /\ stage' # "built" => file' = file
        /\ UNCHANGED <<case, keymap, pending, screen, received>>
    BY <1>1 DEF LearnLayout, LearnAccents, BuildLayout
  <2> QED BY <2>1 DEF Reached, PhoneReads
<1>2. CASE LoadTheKeymap
  BY <1>2, LoadTheKeymapReads
<1>3. CASE TextInput
  BY <1>3, TextInputReads
<1>4. CASE GiveUpWaiting
  BY <1>4, GiveUpWaitingReads
<1>5. CASE UNCHANGED vars
  BY <1>5 DEF vars, Reached, PhoneReads
<1> QED BY <1>1, <1>2, <1>3, <1>4, <1>5 DEF Next

\* With each character typed as it comes, the text is.
LEMMA ReadsWhereTyped ==
  Spec /\ []LayoutIsThePhones /\ []EachIsTyped => []PhoneReads
<1>1. Init => Reached /\ PhoneReads
  BY InitReads
<1>2. Reached /\ PhoneReads /\ LayoutIsThePhones /\ EachIsTyped /\ [Next]_vars
        => Reached' /\ PhoneReads'
  BY NextReads, PasteAssumption
<1> QED BY <1>1, <1>2, PTL DEF Spec

-----------------------------------------------------------------------------
(***************************************************************************)
(* That a layout the phone's own types what each character comes to.       *)
(***************************************************************************)

\* What LayoutIsThePhones says of a file, and how the keymap was made of it.
LayoutFits ==
  LET layout == LoadLayout(file)
      ways   == Ways(case, measured = 2)
  IN  /\ DOMAIN layout = DOMAIN ways \cup (IF Aliased(ways) THEN {Straight} ELSE {})
      /\ \A c \in DOMAIN ways : layout[c] \in ways[c]
      /\ Aliased(ways) => layout[Straight] \in ways[Alias(ways)]
      /\ keymap = Above(layout, Whitespace)

\* The keymap is that of the file, once a layout was learnt.
MeasuredIsLoaded ==
  /\ case \in Cases
  /\ stage \in {"new", "swept", "probed"} => measured = 0
  /\ stage = "typing" /\ measured > 0 => LayoutFits

\* What the phone wrote it stores as it is.
LEMMA StoredOnce ==
  ASSUME NEW phone, NEW accents, NEW c \in DOMAIN Ways(phone, accents)
  PROVE  Stored(phone, c) = c
<1> DEFINE wrote == [steps \in Tried(phone, accents) |-> Typed(phone, Blank, steps)]
           K == Probed \cup ToSet(Bases)
<1>1. PICK s \in Tried(phone, accents) : /\ c = Typed(phone, Blank, s).text[1]
                                         /\ Len(Typed(phone, Blank, s).text) = 1
  BY DEF Ways
<1>2. s \in Seq(K)
  <2>1. CASE \E p \in Probed : s = <<p>>
    <3>1. PICK p \in K : s = <<p>>
      BY <2>1
    <3> HIDE DEF K
    <3> QED BY <3>1
  <2>2. CASE \E p \in Probed, b \in ToSet(Bases) : s = <<p, b>>
    <3>1. PICK p \in K, b \in K : s = <<p, b>>
      BY <2>2
    <3> HIDE DEF K
    <3> QED BY <3>1
  <2> QED BY <1>1, <2>1, <2>2 DEF Tried
<1> HIDE DEF K
<1>3. Blank \in Screens(phone, K, {})
  <2>1. <<>> \in Seq({})
    OBVIOUS
  <2> QED BY <2>1, ShowsIs
<1>4. Typed(phone, Blank, s) \in Screens(phone, K, {})
  BY <1>2, <1>3, TypedType
<1> DEFINE t == Typed(phone, Blank, s).text
<1>5. t \in Seq(Letters(phone, K, {}))
  BY <1>4 DEF Screens
<1>6. c \in Letters(phone, K, {})
  <2> DEFINE L == Letters(phone, K, {})
  <2>1. t \in Seq(L) /\ Len(t) = 1 /\ c = t[1]
    BY <1>1, <1>5
  <2> HIDE DEF L, t
  <2>2. 1 \in 1..Len(t)
    BY <2>1
  <2>3. t[1] \in L
    BY <2>1, <2>2, ElementOfSeq
  <2> QED BY <2>1, <2>3 DEF L
<1>7. PICK d : c = Stored(phone, d)
  BY <1>6 DEF Letters
<1> QED BY <1>7 DEF Stored, Straight, Curlies

\* The keys every phone has.
LEMMA FixedAreTyped ==
  ASSUME PasteAssumption, NEW phone \in Cases
  PROVE  /\ Typed(phone, Blank, Whitespace[Space]) = Shows(<<Space>>)
         /\ Typed(phone, Blank, Whitespace[Newline]) = Shows(<<Newline>>)
         /\ Typed(phone, Blank, Whitespace[Esc]) = Shows(<<ToString(<<"escape", {}>>)>>)
<1>1. /\ Whitespace[Space] = <<Stroke("space", {})>>
      /\ Whitespace[Newline] = <<Stroke("enter", {"shift"})>>
      /\ Whitespace[Esc] = <<Stroke("escape", {})>>
  BY DEF Whitespace, Space, Newline, Esc
<1>2. ASSUME NEW k, NEW c, Made(phone, k) = Makes("char", c), c # Straight
      PROVE  Typed(phone, Blank, <<k>>) = Shows(<<c>>)
  <2>1. Hear(phone, Blank, k) = Write(phone, Blank, <<c>>)
    BY <1>2 DEF Hear, Makes, Blank
  <2>2. [i \in DOMAIN <<c>> |-> Stored(phone, <<c>>[i])] = <<c>>
    BY <1>2 DEF Stored
  <2>3. Write(phone, Blank, <<c>>) = [text |-> <<>> \o <<c>>, dead |-> "none"]
    BY <2>2 DEF Write, Blank
  <2>4. <<>> \o <<c>> = <<c>>
    OBVIOUS
  <2> QED BY <2>1, <2>3, <2>4, TypedOne DEF Shows
<1>3. /\ {} \in SUBSET DOMAIN Bit /\ {"shift"} \in SUBSET DOMAIN Bit
      /\ "space" \in DOMAIN Fixed /\ "enter" \in DOMAIN Fixed /\ "escape" \notin DOMAIN Fixed
      /\ Fixed["space"] = Space /\ Fixed["enter"] = Newline
  BY DEF Bit, Fixed
<1>4. /\ <<"space", {}>> \notin DOMAIN phone.keys
      /\ <<"enter", {"shift"}>> \notin DOMAIN phone.keys
      /\ <<"escape", {}>> \notin DOMAIN phone.keys
      /\ \A row \in DOMAIN Rows : "escape" \notin ToSet(Rows[row])
      /\ ToString(<<"escape", {}>>) # Straight
  BY <1>3 DEF PasteAssumption
<1>5. /\ Made(phone, Stroke("space", {})) = Makes("char", Space)
      /\ Made(phone, Stroke("enter", {"shift"})) = Makes("char", Newline)
      /\ Made(phone, Stroke("escape", {})) = Makes("char", ToString(<<"escape", {}>>))
  <2>1. \A key, mods : Stroke(key, mods).key = key /\ Stroke(key, mods).mods = mods
    BY DEF Stroke
  <2>2. Made(phone, Stroke("space", {})) = Makes("char", Space)
    BY <1>3, <1>4, <2>1 DEF Made
  <2>3. Made(phone, Stroke("enter", {"shift"})) = Makes("char", Newline)
    BY <1>3, <1>4, <2>1 DEF Made
  <2>4. Made(phone, Stroke("escape", {})) = Makes("char", ToString(<<"escape", {}>>))
    BY <1>3, <1>4, <2>1 DEF Made
  <2> QED BY <2>2, <2>3, <2>4
<1>6. Space # Straight /\ Newline # Straight
  BY DEF Space, Newline, Straight
<1> QED BY <1>1, <1>2, <1>4, <1>5, <1>6

\* A positive number is not zero.
LEMMA NotZero ==
  ASSUME NEW n, n > 0
  PROVE  n # 0
<1>1. n = 0 => 0 > 0
  BY Zenon
<1>2. ~(0 > 0)
  OBVIOUS
<1> QED BY <1>1, <1>2

\* A character's keystrokes in a learnt layout type what it comes to.
LEMMA TheLayoutTypes ==
  ASSUME PasteAssumption, case \in Cases, measured > 0, LayoutFits, NEW c \in case.alphabet
  PROVE  Typed(case, Blank, StrokesFor(c)) = Shows(Coming(case, measured)[c])
<1> DEFINE layout == LoadLayout(file)
           ways == Ways(case, measured = 2)
           C == Coming(case, measured)
<1>0. measured # 0
  BY NotZero
<1>1. /\ DOMAIN layout = DOMAIN ways \cup (IF Aliased(ways) THEN {Straight} ELSE {})
      /\ \A d \in DOMAIN ways : layout[d] \in ways[d]
      /\ Aliased(ways) => layout[Straight] \in ways[Alias(ways)]
      /\ keymap = Above(layout, Whitespace)
  BY DEF LayoutFits
<1>2. \A d \in DOMAIN ways : /\ \A s \in ways[d] : Typed(case, Blank, s) = Shows(<<d>>)
                             /\ Stored(case, d) = d
  BY WaysOfFew, StoredOnce DEF Alone, Shows
<1>3. Space \notin DOMAIN ways /\ Newline \notin DOMAIN ways
  BY DEF Ways
<1>4. Space # Straight /\ Newline # Straight /\ Esc # Straight
  BY DEF Space, Newline, Straight, Esc
<1>5. C[c] = CASE c \in {Space, Newline} -> <<c>>
               [] c \in DOMAIN ways \ {Space, Newline} -> <<Stored(case, c)>>
               [] c = Esc /\ c \notin DOMAIN ways -> <<ToString(<<"escape", {}>>)>>
               [] OTHER -> IF c = Straight /\ measured > 0 /\ Aliased(ways)
                             THEN <<Alias(ways)>> ELSE <<>>
  BY <1>0 DEF Coming
<1>6. DOMAIN Whitespace = {Newline, Space, Esc}
  BY DEF Whitespace
<1>7. StrokesFor(c) = IF c \in DOMAIN layout THEN layout[c]
                      ELSE IF c \in {Newline, Space, Esc} THEN Whitespace[c] ELSE <<>>
  <2>1. /\ DOMAIN keymap = DOMAIN layout \cup {Newline, Space, Esc}
        /\ \A d \in DOMAIN keymap : keymap[d] = IF d \in DOMAIN layout THEN layout[d]
                                                ELSE Whitespace[d]
    <3> HIDE DEF layout
    <3> QED BY <1>1, <1>6 DEF Above
  <2> HIDE DEF layout
  <2> QED BY <2>1 DEF StrokesFor
<1>8. Aliased(ways) => /\ Straight \notin DOMAIN ways
                       /\ Typed(case, Blank, layout[Straight]) = Shows(<<Alias(ways)>>)
  <2>1. Aliased(ways) => Alias(ways) \in DOMAIN ways
    <3> HIDE DEF ways
    <3> QED BY AliasIsAWay
  <2>2. Aliased(ways) => Straight \notin DOMAIN ways
    BY DEF Aliased
  <2> HIDE DEF ways, layout
  <2> QED BY <1>1, <1>2, <2>1, <2>2
<1> HIDE DEF layout, ways, C
<1>9. CASE c \in DOMAIN ways
  <2>1. StrokesFor(c) = layout[c]
    BY <1>1, <1>7, <1>9
  <2>2. C[c] = <<c>>
    BY <1>2, <1>3, <1>5, <1>9
  <2>3. Typed(case, Blank, layout[c]) = Shows(<<c>>)
    BY <1>1, <1>2, <1>9
  <2> QED BY <2>1, <2>2, <2>3 DEF C
<1>10. CASE Aliased(ways) /\ c = Straight
  <2>1. StrokesFor(c) = layout[c]
    BY <1>1, <1>7, <1>10
  <2>2. C[c] = <<Alias(ways)>>
    BY <1>4, <1>5, <1>8, <1>10
  <2> QED BY <1>8, <1>10, <2>1, <2>2 DEF C
<1>11. CASE c \notin DOMAIN layout /\ c \in {Newline, Space, Esc}
  <2>1. StrokesFor(c) = Whitespace[c] /\ c \notin DOMAIN ways
    BY <1>1, <1>7, <1>11
  <2>2. c # Esc => C[c] = <<c>>
    BY <1>5, <1>11
  <2>3. c = Esc => C[c] = <<ToString(<<"escape", {}>>)>>
    BY <1>5, <2>1 DEF Esc, Space, Newline
  <2>4. /\ Typed(case, Blank, Whitespace[Space]) = Shows(<<Space>>)
        /\ Typed(case, Blank, Whitespace[Newline]) = Shows(<<Newline>>)
        /\ Typed(case, Blank, Whitespace[Esc]) = Shows(<<ToString(<<"escape", {}>>)>>)
    BY FixedAreTyped
  <2>5. Typed(case, Blank, Whitespace[c]) = Shows(C[c])
    BY <1>11, <2>2, <2>3, <2>4 DEF Esc, Space, Newline
  <2> QED BY <2>1, <2>5 DEF C
<1>12. CASE c \notin DOMAIN layout /\ c \notin {Newline, Space, Esc}
  <2>1. StrokesFor(c) = <<>> /\ c \notin DOMAIN ways
    BY <1>1, <1>7, <1>12
  <2>2. ~(c = Straight /\ Aliased(ways))
    BY <1>1, <1>12
  <2>3. C[c] = <<>>
    BY <1>5, <1>12, <2>1, <2>2
  <2>4. Typed(case, Blank, <<>>) = Blank
    <3>1. Blank \in Screens(case, {}, {})
      <4>1. <<>> \in Seq({})
        OBVIOUS
      <4> QED BY <4>1, ShowsIs
    <3> QED BY <3>1, TypedNothing
  <2> QED BY <2>1, <2>3, <2>4 DEF Shows, Blank, C
<1> QED BY <1>1, <1>9, <1>10, <1>11, <1>12

\* With a layout learnt that is the phone's, each character's keystrokes type
\* what it comes to.
LEMMA ALearntLayoutTypes ==
  Spec /\ []LayoutIsThePhones => [](measured > 0 => EachIsTyped)
<1>1. Init => MeasuredIsLoaded
  BY DEF Init, MeasuredIsLoaded
<1>2. ASSUME MeasuredIsLoaded, LayoutIsThePhones, [Next]_vars
      PROVE  MeasuredIsLoaded'
  <2>1. CASE LearnLayout \/ LearnAccents
    BY <1>2, <2>1 DEF LearnLayout, LearnAccents, MeasuredIsLoaded
  <2>2. CASE BuildLayout
    BY <1>2, <2>2 DEF BuildLayout, MeasuredIsLoaded
  <2>3. CASE LoadTheKeymap
    <3>1. /\ case' = case /\ file' = file /\ measured' = measured /\ stage' = "typing"
          /\ stage \in {"new", "built"}
      BY <2>3 DEF LoadTheKeymap
    <3>2. CASE measured > 0
      <4>1. stage = "built"
        BY <1>2, <3>1, <3>2, NotZero DEF MeasuredIsLoaded
      <4>2. keymap' = Above(LoadLayout(file), Whitespace)
        BY <1>2, <2>3, <4>1 DEF LoadTheKeymap, LoadKeymap, LayoutIsThePhones
      <4>3. LayoutFits'
        BY <1>2, <3>1, <4>1, <4>2 DEF LayoutIsThePhones, LayoutFits
      <4> QED BY <1>2, <3>1, <4>3 DEF MeasuredIsLoaded
    <3>3. CASE ~(measured > 0)
      BY <1>2, <3>1, <3>3 DEF MeasuredIsLoaded
    <3> QED BY <3>2, <3>3
  <2>4. CASE TextInput \/ GiveUpWaiting
    BY <1>2, <2>4 DEF TextInput, GiveUpWaiting, MeasuredIsLoaded, LayoutFits
  <2>5. CASE UNCHANGED vars
    BY <1>2, <2>5 DEF vars, MeasuredIsLoaded, LayoutFits
  <2> QED BY <1>2, <2>1, <2>2, <2>3, <2>4, <2>5 DEF Next
<1>3. ASSUME PasteAssumption, MeasuredIsLoaded, measured > 0
      PROVE  EachIsTyped
  BY <1>3, TheLayoutTypes DEF MeasuredIsLoaded, EachIsTyped, Shows
<1> QED BY <1>1, <1>2, <1>3, PasteAssumption, PTL DEF Spec

-----------------------------------------------------------------------------
(***************************************************************************)
(* That a console's keymap the phone shares types what each character      *)
(* comes to.                                                               *)
(***************************************************************************)

\* The high bits, flipped in a value that has none.
LEMMA FlipOfLow ==
  ASSUME NEW x \in Nat, x < 4096
  PROVE  Flip(x) = 61440 + x
<1>1. x \div 4096 = 0 /\ x % 4096 = x
  OBVIOUS
<1> QED BY <1>1 DEF Flip

\* A code point flipped twice is itself, and below every type.
LEMMA FlipTwice ==
  ASSUME NEW n \in Nat, n < 61440
  PROVE  Flip(Flip(n)) = n /\ Kind(n) < Biased(0)
<1> DEFINE q == n \div 4096
           r == n % 4096
<1>1. q \in 0..14 /\ r \in 0..4095 /\ n = q * 4096 + r
  OBVIOUS
<1>2. Flip(n) = (15 - q) * 4096 + r
  BY DEF Flip
<1> HIDE DEF q, r
<1>3. ((15 - q) * 4096 + r) \div 4096 = 15 - q
  BY <1>1
<1>4. ((15 - q) * 4096 + r) % 4096 = r
  BY <1>1
<1>5. Flip((15 - q) * 4096 + r) = q * 4096 + r
  BY <1>1, <1>3, <1>4 DEF Flip
<1>6. Kind(n) < Biased(0)
  BY DEF Kind, Biased
<1> QED BY <1>1, <1>2, <1>5, <1>6

\* The type and the value of a keysym are read back.
LEMMA KindOf ==
  ASSUME NEW type \in 0..15, NEW n \in 0..255
  PROVE  /\ Kind(Flip(Keysym(type, n))) = Biased(type)
         /\ Low(Flip(Keysym(type, n))) = n
         /\ ~(Biased(type) < Biased(0))
<1>1. Keysym(type, n) \in Nat /\ Keysym(type, n) < 4096
  BY DEF Keysym
<1>2. Flip(Keysym(type, n)) = 61440 + (256 * type + n)
  BY <1>1, FlipOfLow DEF Keysym
<1>3. (61440 + (256 * type + n)) \div 256 = 240 + type
  OBVIOUS
<1>4. (61440 + (256 * type + n)) % 256 = n
  OBVIOUS
<1> QED BY <1>2, <1>3, <1>4 DEF Kind, Low, Biased

\* kbmap reads back what the kernel wrote.
KeysymIs(x, made) ==
  /\ KeysymToChar(x) = IF made.kind = "char" /\ made.char # Newline THEN made.char
                       ELSE "none"
  /\ made.kind # "char" \/ made.char = Newline =>
       KeysymToDiacritic(x) = IF made.kind = "dead" THEN made.char ELSE "none"

\* So is what the key makes.
LEMMA KeysymsAreRead ==
  ASSUME DOMAIN Glyph \subseteq Nat, NEW made, NEW x \in KeysymsFor(made)
  PROVE  KeysymIs(x, made)
<1>1. /\ Biased(LATIN) # Biased(DEAD) /\ Biased(LATIN) # Biased(DEAD2)
      /\ Biased(LETTER) # Biased(DEAD) /\ Biased(LETTER) # Biased(DEAD2)
      /\ Biased(DEAD) # Biased(DEAD2)
      /\ LATIN \in 0..15 /\ LETTER \in 0..15 /\ DEAD \in 0..15 /\ DEAD2 \in 0..15
  BY DEF Biased, LATIN, LETTER, DEAD, DEAD2
<1>2. CASE made.kind = "char" /\ made.char # Newline
  <2>1. CASE \E type \in {LATIN, LETTER}, n \in DOMAIN Glyph :
               n < 256 /\ Glyph[n] = made.char /\ x = Keysym(type, n)
    <3>1. PICK type \in {LATIN, LETTER}, n \in DOMAIN Glyph :
                 n < 256 /\ Glyph[n] = made.char /\ x = Keysym(type, n)
      BY <2>1
    <3>2. n \in 0..255 /\ type \in 0..15
      BY <1>1, <3>1
    <3>3. Kind(Flip(x)) = Biased(type) /\ Low(Flip(x)) = n /\ ~(Kind(Flip(x)) < Biased(0))
      BY <3>1, <3>2, KindOf
    <3>4. KeysymToChar(x) = CharOf(n)
      BY <3>1, <3>3 DEF KeysymToChar
    <3> QED BY <1>2, <3>1, <3>4 DEF KeysymIs, CharOf
  <2>2. CASE \E n \in DOMAIN Glyph : n < 61440 /\ Glyph[n] = made.char /\ x = Flip(n)
    <3>1. PICK n \in DOMAIN Glyph : n < 61440 /\ Glyph[n] = made.char /\ x = Flip(n)
      BY <2>2
    <3>2. Flip(x) = n /\ Kind(n) < Biased(0)
      BY <3>1, FlipTwice
    <3>a. Kind(n) # Biased(LATIN) /\ Kind(n) # Biased(LETTER)
      BY <3>1, <3>2 DEF Kind, Biased, LATIN, LETTER
    <3>3. KeysymToChar(x) = CharOf(n)
      BY <3>2, <3>a DEF KeysymToChar
    <3> QED BY <1>2, <3>1, <3>3 DEF KeysymIs, CharOf
  <2>3. 4096 * 15 = 61440
    OBVIOUS
  <2> QED BY <1>2, <2>1, <2>2, <2>3 DEF KeysymsFor
<1>3. CASE made.kind = "dead"
  <2>1. CASE \E i \in DOMAIN RetDiacr : RetDiacr[i] = made.char /\ x = Keysym(DEAD, i - 1)
    <3>1. PICK i \in DOMAIN RetDiacr : RetDiacr[i] = made.char /\ x = Keysym(DEAD, i - 1)
      BY <2>1
    <3>2. i \in 1..3 /\ Len(RetDiacr) = 3
      BY DEF RetDiacr
    <3>3. /\ Kind(Flip(x)) = Biased(DEAD) /\ Low(Flip(x)) = i - 1
          /\ ~(Kind(Flip(x)) < Biased(0))
      BY <1>1, <3>1, <3>2, KindOf
    <3>4. KeysymToChar(x) = "none"
      BY <1>1, <3>3 DEF KeysymToChar
    <3>5. i - 1 < Len(RetDiacr) /\ (i - 1) + 1 = i
      BY <3>2
    <3>a. Low(Flip(x)) < Len(RetDiacr) /\ RetDiacr[Low(Flip(x)) + 1] = RetDiacr[i]
      BY <3>3, <3>5
    <3>6. KeysymToDiacritic(x) = RetDiacr[i]
      BY <1>1, <3>3, <3>a DEF KeysymToDiacritic
    <3> QED BY <1>3, <3>1, <3>4, <3>6 DEF KeysymIs
  <2>2. CASE \E n \in DOMAIN Glyph : n < 256 /\ Glyph[n] = made.char /\ x = Keysym(DEAD2, n)
    <3>1. PICK n \in DOMAIN Glyph : n < 256 /\ Glyph[n] = made.char /\ x = Keysym(DEAD2, n)
      BY <2>2
    <3>2. n \in 0..255
      BY <3>1
    <3>3. /\ Kind(Flip(x)) = Biased(DEAD2) /\ Low(Flip(x)) = n
          /\ ~(Kind(Flip(x)) < Biased(0))
      BY <1>1, <3>1, <3>2, KindOf
    <3>4. KeysymToChar(x) = "none"
      BY <1>1, <3>3 DEF KeysymToChar
    <3>5. KeysymToDiacritic(x) = CharOf(n)
      BY <1>1, <3>3 DEF KeysymToDiacritic
    <3> QED BY <1>3, <3>1, <3>4, <3>5 DEF KeysymIs, CharOf
  <2> QED BY <1>3, <2>1, <2>2 DEF KeysymsFor
<1>4. CASE ~(made.kind = "char" /\ made.char # Newline) /\ made.kind # "dead"
  <2>1. PICK type \in 0..15 \ {LATIN, LETTER, DEAD, DEAD2}, n \in 0..255 : x = Keysym(type, n)
    BY <1>4 DEF KeysymsFor
  <2>2. Kind(Flip(x)) = Biased(type) /\ ~(Kind(Flip(x)) < Biased(0))
    BY <2>1, KindOf
  <2>3. /\ Biased(type) # Biased(LATIN) /\ Biased(type) # Biased(LETTER)
        /\ Biased(type) # Biased(DEAD) /\ Biased(type) # Biased(DEAD2)
    BY <1>1, <2>1 DEF Biased
  <2>4. KeysymToChar(x) = "none" /\ KeysymToDiacritic(x) = "none"
    BY <2>2, <2>3 DEF KeysymToChar, KeysymToDiacritic
  <2> QED BY <1>4, <2>4 DEF KeysymIs
<1> QED BY <1>2, <1>3, <1>4

\* The least of a set of naturals is in it.
LEMMA MinOf ==
  ASSUME NEW B \in SUBSET Nat, B # {}
  PROVE  Min(B) \in B
<1>1. PICK n \in B : \A m \in B : n <= m
  BY LeastNumber
<1> QED BY <1>1 DEF Min

\* FirstOf has each name there is, at a position of that name.
LEMMA FirstOfIs ==
  ASSUME DOMAIN Scan \subseteq Nat, NEW name
  PROVE  /\ DOMAIN FirstOf(name) = {name[p] : p \in ToSet(Scan)} \ {"none"}
         /\ \A c \in DOMAIN FirstOf(name) :
              FirstOf(name)[c] \in ToSet(Scan) /\ name[FirstOf(name)[c]] = c
<1>1. DOMAIN FirstOf(name) = {name[p] : p \in ToSet(Scan)} \ {"none"}
  BY DEF FirstOf
<1>2. ASSUME NEW c \in DOMAIN FirstOf(name)
      PROVE  FirstOf(name)[c] \in ToSet(Scan) /\ name[FirstOf(name)[c]] = c
  <2> DEFINE At == {i \in DOMAIN Scan : name[Scan[i]] = c}
  <2>1. At # {}
    <3>1. PICK p \in ToSet(Scan) : c = name[p]
      BY <1>1, <1>2
    <3>2. PICK i \in DOMAIN Scan : p = Scan[i]
      BY <3>1 DEF ToSet
    <3> QED BY <3>1, <3>2
  <2>2. Min(At) \in At
    BY <2>1, MinOf
  <2>3. FirstOf(name)[c] = Scan[Min(At)]
    BY <1>1, <1>2 DEF FirstOf
  <2> HIDE DEF At
  <2>4. Min(At) \in DOMAIN Scan /\ name[Scan[Min(At)]] = c
    BY <2>2 DEF At
  <2> QED BY <2>3, <2>4 DEF ToSet
<1> QED BY <1>1, <1>2

\* What a position of the console has of the phone's key.
CharAt(phone) == [p \in ToSet(Scan) |-> KeysymToChar(Code[Made(phone, p)])]

\* And of its dead keys.
DeadAt(phone) ==
  [p \in ToSet(Scan) |-> IF CharAt(phone)[p] # "none" THEN "none"
                         ELSE KeysymToDiacritic(Code[Made(phone, p)])]

\* The characters and the dead keys the console has.
SingleAt(phone) == FirstOf(CharAt(phone))
\* The same of the dead keys.
DeadKeyAt(phone) == FirstOf(DeadAt(phone))

\* A position has the character or the accent of the phone's key.
LEMMA PositionIs ==
  ASSUME ConsoleAssumption, NEW phone \in Cases, NEW p \in ToSet(Scan)
  PROVE  LET made == Made(phone, p)
         IN  /\ CharAt(phone)[p] = IF made.kind = "char" /\ made.char # Newline
                                     THEN made.char ELSE "none"
             /\ DeadAt(phone)[p] = IF made.kind = "dead" THEN made.char ELSE "none"
             /\ made.kind \in {"char", "dead"} => made.char # "none"
<1> DEFINE made == Made(phone, p)
           x == Code[made]
<1>1. /\ DOMAIN Glyph \subseteq Nat /\ x \in KeysymsFor(made)
      /\ made # Silent => made.char # "none"
  BY DEF ConsoleAssumption
<1>2. made.kind \in {"char", "dead"} => made # Silent
  BY DEF Silent, Makes
<1>3. KeysymIs(x, made)
  <2> HIDE DEF made, x
  <2> QED BY <1>1, KeysymsAreRead
<1>4. /\ CharAt(phone)[p] = KeysymToChar(x)
      /\ DeadAt(phone)[p] = IF CharAt(phone)[p] # "none" THEN "none"
                            ELSE KeysymToDiacritic(x)
  BY DEF CharAt, DeadAt
<1> HIDE DEF made, x
<1>5. CASE made.kind = "char" /\ made.char # Newline
  BY <1>1, <1>2, <1>3, <1>4, <1>5 DEF KeysymIs, made
<1>6. CASE ~(made.kind = "char" /\ made.char # Newline)
  BY <1>1, <1>2, <1>3, <1>4, <1>6 DEF KeysymIs, made
<1> QED BY <1>5, <1>6

\* A console's single key or dead key writes what its character is.
LEMMA SinglesAre ==
  ASSUME ConsoleAssumption, NEW phone \in Cases
  PROVE  /\ \A c \in DOMAIN SingleAt(phone) :
              /\ SingleAt(phone)[c] \in ToSet(Scan)
              /\ Made(phone, SingleAt(phone)[c]).kind = "char"
              /\ Made(phone, SingleAt(phone)[c]).char = c
              /\ c # "none" /\ c # Newline
         /\ \A p \in ToSet(Scan) :
              Made(phone, p).kind = "char" /\ Made(phone, p).char # Newline
                => Made(phone, p).char \in DOMAIN SingleAt(phone)
<1>1. /\ DOMAIN SingleAt(phone) = {CharAt(phone)[p] : p \in ToSet(Scan)} \ {"none"}
      /\ \A c \in DOMAIN SingleAt(phone) :
           SingleAt(phone)[c] \in ToSet(Scan) /\ CharAt(phone)[SingleAt(phone)[c]] = c
  BY FirstOfIs DEF SingleAt, ConsoleAssumption
<1>2. \A p \in ToSet(Scan) :
        /\ CharAt(phone)[p] = IF Made(phone, p).kind = "char" /\ Made(phone, p).char # Newline
                                THEN Made(phone, p).char ELSE "none"
        /\ Made(phone, p).kind = "char" => Made(phone, p).char # "none"
  BY PositionIs
<1>3. ASSUME NEW c \in DOMAIN SingleAt(phone)
      PROVE  /\ Made(phone, SingleAt(phone)[c]).kind = "char"
             /\ Made(phone, SingleAt(phone)[c]).char = c
             /\ c # "none" /\ c # Newline
  <2> DEFINE p == SingleAt(phone)[c]
  <2>1. p \in ToSet(Scan) /\ CharAt(phone)[p] = c /\ c # "none"
    BY <1>1, <1>3
  <2> HIDE DEF p
  <2>2. Made(phone, p).kind = "char" /\ Made(phone, p).char = c /\ c # Newline
    BY <1>2, <2>1
  <2> QED BY <2>1, <2>2 DEF p
<1>4. ASSUME NEW p \in ToSet(Scan), Made(phone, p).kind = "char",
             Made(phone, p).char # Newline
      PROVE  Made(phone, p).char \in DOMAIN SingleAt(phone)
  BY <1>1, <1>2, <1>4
<1> QED BY <1>1, <1>3, <1>4

\* And each dead key's is its accent.
LEMMA DeadsAre ==
  ASSUME ConsoleAssumption, NEW phone \in Cases
  PROVE  /\ \A d \in DOMAIN DeadKeyAt(phone) :
              /\ DeadKeyAt(phone)[d] \in ToSet(Scan)
              /\ Made(phone, DeadKeyAt(phone)[d]).kind = "dead"
              /\ Made(phone, DeadKeyAt(phone)[d]).char = d
              /\ d # "none"
         /\ \A p \in ToSet(Scan) :
              Made(phone, p).kind = "dead" => Made(phone, p).char \in DOMAIN DeadKeyAt(phone)
<1>1. /\ DOMAIN DeadKeyAt(phone) = {DeadAt(phone)[p] : p \in ToSet(Scan)} \ {"none"}
      /\ \A d \in DOMAIN DeadKeyAt(phone) :
           DeadKeyAt(phone)[d] \in ToSet(Scan) /\ DeadAt(phone)[DeadKeyAt(phone)[d]] = d
  BY FirstOfIs DEF DeadKeyAt, ConsoleAssumption
<1>2. \A p \in ToSet(Scan) :
        /\ DeadAt(phone)[p] = IF Made(phone, p).kind = "dead" THEN Made(phone, p).char
                              ELSE "none"
        /\ Made(phone, p).kind = "dead" => Made(phone, p).char # "none"
  BY PositionIs
<1>3. ASSUME NEW d \in DOMAIN DeadKeyAt(phone)
      PROVE  /\ Made(phone, DeadKeyAt(phone)[d]).kind = "dead"
             /\ Made(phone, DeadKeyAt(phone)[d]).char = d
             /\ d # "none"
  <2> DEFINE p == DeadKeyAt(phone)[d]
  <2>1. p \in ToSet(Scan) /\ DeadAt(phone)[p] = d /\ d # "none"
    BY <1>1, <1>3
  <2> HIDE DEF p
  <2>2. Made(phone, p).kind = "dead" /\ Made(phone, p).char = d
    BY <1>2, <2>1
  <2> QED BY <2>1, <2>2 DEF p
<1>4. ASSUME NEW p \in ToSet(Scan), Made(phone, p).kind = "dead"
      PROVE  Made(phone, p).char \in DOMAIN DeadKeyAt(phone)
  BY <1>1, <1>2, <1>4
<1> QED BY <1>1, <1>3, <1>4

\* Two keystrokes on an empty screen.
LEMMA TypedTwo ==
  ASSUME NEW phone, NEW j, NEW k
  PROVE  Typed(phone, Blank, <<j, k>>) = Hear(phone, Hear(phone, Blank, j), k)
<1> DEFINE ss == <<j, k>>
<1>1. ss \in Seq({j, k}) /\ Len(ss) = 2 /\ ss[1] = j /\ ss[2] = k
  OBVIOUS
<1>2. Blank \in Screens(phone, {j, k}, {})
  <2>1. <<>> \in Seq({})
    OBVIOUS
  <2> QED BY <2>1, ShowsIs
<1> HIDE DEF ss
<1> DEFINE X == Screens(phone, {j, k}, {})
           K == {j, k}
<1>3. PICK f : Hearing(f, X, phone, Blank, ss)
  BY <1>1, <1>2, TypedSteps, Zenon
<1>4. /\ f[0] = Blank /\ Typed(phone, Blank, ss) = f[2]
      /\ f[1] = Hear(phone, f[1 - 1], ss[1]) /\ f[2] = Hear(phone, f[2 - 1], ss[2])
  BY <1>1, <1>3 DEF Hearing
<1>5. 1 - 1 = 0 /\ 2 - 1 = 1
  OBVIOUS
<1> QED BY <1>1, <1>4, <1>5 DEF ss

\* A stroke is what its key and modifiers are.
LEMMA SameKey ==
  ASSUME NEW phone, NEW p
  PROVE  Made(phone, Stroke(p.key, p.mods)) = Made(phone, p)
BY DEF Made, Stroke

\* A character's key writes it.
LEMMA SingleIsTyped ==
  ASSUME NEW phone, NEW k, NEW c, Made(phone, k).kind = "char", Made(phone, k).char = c
  PROVE  Typed(phone, Blank, <<k>>) = Shows(<<Stored(phone, c)>>)
<1>1. Hear(phone, Blank, k) = Write(phone, Blank, <<c>>)
  BY DEF Hear, Blank
<1>2. [i \in DOMAIN <<c>> |-> Stored(phone, <<c>>[i])] = <<Stored(phone, c)>>
  OBVIOUS
<1>3. Write(phone, Blank, <<c>>) = [text |-> <<>> \o <<Stored(phone, c)>>, dead |-> "none"]
  BY <1>2 DEF Write, Blank
<1>4. <<>> \o <<Stored(phone, c)>> = <<Stored(phone, c)>>
  OBVIOUS
<1> QED BY <1>1, <1>3, <1>4, TypedOne DEF Shows

\* A dead key and a base write what they compose.
LEMMA ComposedIsTyped ==
  ASSUME NEW phone, NEW j, NEW k, NEW d, NEW b, NEW c,
         Made(phone, j).kind = "dead", Made(phone, j).char = d, d # "none",
         Made(phone, k).kind = "char", Made(phone, k).char = b,
         \/ b = Space /\ c = d
         \/ /\ b # Space /\ phone.composes
            /\ <<d, b>> \in DOMAIN Composed /\ c = Composed[<<d, b>>]
  PROVE  Typed(phone, Blank, <<j, k>>) = Shows(<<Stored(phone, c)>>)
<1> DEFINE s == [text |-> <<>>, dead |-> d]
<1>1. [i \in DOMAIN <<>> |-> Stored(phone, <<>>[i])] = <<>>
  OBVIOUS
<1>2. Write(phone, Blank, <<>>) = [text |-> <<>> \o <<>>, dead |-> "none"]
  BY <1>1 DEF Write, Blank
<1>3. <<>> \o <<>> = <<>>
  OBVIOUS
<1>4. Hear(phone, Blank, j) = [Write(phone, Blank, <<>>) EXCEPT !.dead = d]
  BY DEF Hear, Blank
<1>5. Hear(phone, Blank, j) = s
  BY <1>2, <1>3, <1>4
<1>6. Hear(phone, s, k) = Write(phone, s, <<c>>)
  <2>1. s.dead = d
    OBVIOUS
  <2> HIDE DEF s
  <2>2. CASE b = Space /\ c = d
    BY <2>1, <2>2 DEF Hear
  <2>3. CASE /\ b # Space /\ phone.composes
             /\ <<d, b>> \in DOMAIN Composed /\ c = Composed[<<d, b>>]
    BY <2>1, <2>3 DEF Hear
  <2> QED BY <2>2, <2>3
<1>7. [i \in DOMAIN <<c>> |-> Stored(phone, <<c>>[i])] = <<Stored(phone, c)>>
  OBVIOUS
<1>8. Write(phone, s, <<c>>) = [text |-> <<>> \o <<Stored(phone, c)>>, dead |-> "none"]
  BY <1>7 DEF Write
<1>9. <<>> \o <<Stored(phone, c)>> = <<Stored(phone, c)>>
  OBVIOUS
<1> QED BY <1>5, <1>6, <1>8, <1>9, TypedTwo DEF Shows

\* The keymap of a console that a phone shares, part by part.
ConsoleOf(phone) == [p \in ToSet(Scan) |-> Code[Made(phone, p)]]

\* The kernel's table.
KernelOf(phone) ==
  LET Has(i) == phone.composes \/ Diacritics[i].base = Space
  IN  [i \in {j \in DOMAIN Diacritics : Has(j)} |-> Diacritics[i]]

\* The keystroke of each character that has a key.
SinglesOf(phone) ==
  [c \in DOMAIN SingleAt(phone) |->
     Stroke(SingleAt(phone)[c].key, SingleAt(phone)[c].mods)]

\* The keystrokes of what is composed.
ComposedOf(phone) == Compose(SinglesOf(phone), DeadKeyAt(phone), KernelOf(phone))

\* The single keystrokes, as sequences.
AloneOf(phone) == [c \in DOMAIN SinglesOf(phone) |-> <<SinglesOf(phone)[c]>>]

\* The keymap of them all.
KeymapOf(phone) == Above(ComposedOf(phone), Above(AloneOf(phone), Whitespace))

\* It is what kbmap.build makes.
LEMMA BuildIs ==
  ASSUME NEW phone
  PROVE  Build(ConsoleOf(phone), KernelOf(phone)) = KeymapOf(phone)
<1> DEFINE keysyms == ConsoleOf(phone)
<1>1. [p \in ToSet(Scan) |-> KeysymToChar(keysyms[p])] = CharAt(phone)
  BY DEF ConsoleOf, CharAt
<1>2. [p \in ToSet(Scan) |-> IF CharAt(phone)[p] # "none" THEN "none"
                             ELSE KeysymToDiacritic(keysyms[p])] = DeadAt(phone)
  BY DEF ConsoleOf, DeadAt
<1> HIDE DEF keysyms
<1> QED BY <1>1, <1>2 DEF Build, KeymapOf, ComposedOf, AloneOf, SinglesOf, SingleAt,
           DeadKeyAt, keysyms

\* The kernel's table is the whole one, or the accents on their own.
LEMMA KernelIs ==
  ASSUME ConsoleAssumption, NEW phone
  PROVE  /\ DOMAIN KernelOf(phone) \subseteq Nat
         /\ \A i : i \in DOMAIN KernelOf(phone) <=>
              /\ i \in DOMAIN Diacritics
              /\ phone.composes \/ Diacritics[i].base = Space
         /\ \A i \in DOMAIN KernelOf(phone) : KernelOf(phone)[i] = Diacritics[i]
BY DEF ConsoleAssumption, KernelOf

\* An entry of the kernel's that the console can use.
UsableOf(phone, i) ==
  LET d == KernelOf(phone)[i]
  IN  /\ i \in DOMAIN KernelOf(phone)
      /\ d.result \notin DOMAIN SinglesOf(phone)
      /\ d.diacritic \in DOMAIN DeadKeyAt(phone)
      /\ d.base \in DOMAIN SinglesOf(phone)

\* compose takes a usable entry for each character it composes, and has each.
LEMMA ComposedIs ==
  ASSUME ConsoleAssumption, NEW phone
  PROVE  /\ \A i : UsableOf(phone, i) =>
                     KernelOf(phone)[i].result \in DOMAIN ComposedOf(phone)
         /\ \A c \in DOMAIN ComposedOf(phone) : \E i :
              /\ UsableOf(phone, i) /\ KernelOf(phone)[i].result = c
              /\ ComposedOf(phone)[c] = <<DeadKeyAt(phone)[KernelOf(phone)[i].diacritic],
                                          SinglesOf(phone)[KernelOf(phone)[i].base]>>
<1> DEFINE ker == KernelOf(phone)
           singles == SinglesOf(phone)
           deads == DeadKeyAt(phone)
           Usable(i) == /\ ker[i].result \notin DOMAIN singles
                        /\ ker[i].diacritic \in DOMAIN deads
                        /\ ker[i].base \in DOMAIN singles
           Of(c) == {i \in DOMAIN ker : Usable(i) /\ ker[i].result = c}
<1>1. ComposedOf(phone) =
        [c \in {ker[i].result : i \in {j \in DOMAIN ker : Usable(j)}} |->
           LET d == ker[Min(Of(c))] IN <<deads[d.diacritic], singles[d.base]>>]
  <2> HIDE DEF ker, singles, deads
  <2>1. ComposedOf(phone) = Compose(singles, deads, ker)
    BY DEF ComposedOf, ker, singles, deads
  <2> QED BY <2>1 DEF Compose
<1>2. \A i : UsableOf(phone, i) <=> i \in DOMAIN ker /\ Usable(i)
  BY DEF UsableOf
<1>3. DOMAIN ker \subseteq Nat
  BY KernelIs
<1> HIDE DEF ker, singles, deads
<1>4. ASSUME NEW c \in DOMAIN ComposedOf(phone)
      PROVE  \E i : /\ UsableOf(phone, i) /\ ker[i].result = c
                    /\ ComposedOf(phone)[c] = <<deads[ker[i].diacritic], singles[ker[i].base]>>
  <2>1. Of(c) # {}
    BY <1>1, <1>4
  <2>2. Of(c) \in SUBSET Nat
    BY <1>3
  <2> DEFINE n == Min(Of(c))
  <2>3. n \in Of(c)
    <3> HIDE DEF Of
    <3> QED BY <2>1, <2>2, MinOf
  <2>4. ComposedOf(phone)[c] = <<deads[ker[n].diacritic], singles[ker[n].base]>>
    BY <1>1, <1>4
  <2> HIDE DEF n
  <2>5. UsableOf(phone, n) /\ ker[n].result = c
    BY <1>2, <2>3
  <2> QED BY <2>4, <2>5
<1>5. \A i : UsableOf(phone, i) => ker[i].result \in DOMAIN ComposedOf(phone)
  BY <1>1, <1>2
<1> QED BY <1>4, <1>5 DEF ker, singles, deads

\* What the keys of a console's keymap write.
LEMMA AloneIsTyped ==
  ASSUME ConsoleAssumption, NEW phone \in Cases, NEW c \in DOMAIN SinglesOf(phone)
  PROVE  Typed(phone, Blank, AloneOf(phone)[c]) = Shows(<<Stored(phone, c)>>)
<1> DEFINE p == SingleAt(phone)[c]
           k == Stroke(p.key, p.mods)
<1>1. c \in DOMAIN SingleAt(phone) /\ AloneOf(phone)[c] = <<k>>
  BY DEF SinglesOf, AloneOf
<1>2. Made(phone, p).kind = "char" /\ Made(phone, p).char = c
  BY <1>1, SinglesAre
<1> HIDE DEF p
<1>3. Made(phone, k) = Made(phone, p)
  BY SameKey
<1> HIDE DEF k
<1>4. Typed(phone, Blank, <<k>>) = Shows(<<Stored(phone, c)>>)
  BY <1>2, <1>3, SingleIsTyped
<1> QED BY <1>1, <1>4

\* And what is composed writes its character.
LEMMA CompositionIsTyped ==
  ASSUME ConsoleAssumption, NEW phone \in Cases, NEW c \in DOMAIN ComposedOf(phone)
  PROVE  Typed(phone, Blank, ComposedOf(phone)[c]) = Shows(<<Stored(phone, c)>>)
<1>1. PICK i : /\ UsableOf(phone, i) /\ KernelOf(phone)[i].result = c
               /\ ComposedOf(phone)[c] = <<DeadKeyAt(phone)[KernelOf(phone)[i].diacritic],
                                           SinglesOf(phone)[KernelOf(phone)[i].base]>>
  BY ComposedIs
<1>2. /\ i \in DOMAIN Diacritics /\ KernelOf(phone)[i] = Diacritics[i]
      /\ phone.composes \/ Diacritics[i].base = Space
  BY <1>1, KernelIs DEF UsableOf
<1> DEFINE d == Diacritics[i].diacritic
           b == Diacritics[i].base
           j == DeadKeyAt(phone)[d]
           p == SingleAt(phone)[b]
           k == Stroke(p.key, p.mods)
<1>3. d \in DOMAIN DeadKeyAt(phone) /\ b \in DOMAIN SingleAt(phone)
  BY <1>1, <1>2 DEF UsableOf, SinglesOf
<1>4. ComposedOf(phone)[c] = <<j, k>>
  BY <1>1, <1>2, <1>3 DEF SinglesOf
<1>5. Made(phone, j).kind = "dead" /\ Made(phone, j).char = d /\ d # "none"
  BY <1>3, DeadsAre
<1>6. Made(phone, p).kind = "char" /\ Made(phone, p).char = b
  BY <1>3, SinglesAre
<1>7. \/ b = Space /\ c = d
      \/ /\ b # Space /\ phone.composes
         /\ <<d, b>> \in DOMAIN Composed /\ c = Composed[<<d, b>>]
  BY <1>1, <1>2 DEF ConsoleAssumption
<1> HIDE DEF d, b, j, p
<1>8. Made(phone, k).kind = "char" /\ Made(phone, k).char = b
  BY <1>6, SameKey
<1> HIDE DEF k
<1>9. Typed(phone, Blank, <<j, k>>) = Shows(<<Stored(phone, c)>>)
  BY <1>5, <1>7, <1>8, ComposedIsTyped
<1> QED BY <1>4, <1>9

\* The positions of the console's tables that no layout has.
LEMMA OthersAre ==
  ASSUME PasteAssumption, ConsoleAssumption, NEW phone \in Cases
  PROVE  /\ SpaceBar \in ToSet(Scan) /\ Made(phone, SpaceBar) = Makes("char", Space)
         /\ \A p \in ToSet(Scan) : p \in Probed \/ Made(phone, p) = Makes("char", Space)
                                                \/ Made(phone, p) = Makes("char", Newline)
         /\ Probed \subseteq ToSet(Scan)
<1>1. ToSet(Scan) = Probed \cup {SpaceBar, Press("enter", {})}
  BY DEF ConsoleAssumption
<1>2. /\ {} \in SUBSET DOMAIN Bit /\ "space" \in DOMAIN Fixed /\ "enter" \in DOMAIN Fixed
      /\ Fixed["space"] = Space /\ Fixed["enter"] = Newline
  BY DEF Fixed
<1>3. <<"space", {}>> \notin DOMAIN phone.keys /\ <<"enter", {}>> \notin DOMAIN phone.keys
  BY <1>2 DEF PasteAssumption
<1>4. \A key, mods : Press(key, mods).key = key /\ Press(key, mods).mods = mods
  BY DEF Press, Stroke
<1>5. Made(phone, SpaceBar) = Makes("char", Space)
  BY <1>2, <1>3, <1>4 DEF Made, SpaceBar
<1>6. Made(phone, Press("enter", {})) = Makes("char", Newline)
  BY <1>2, <1>3, <1>4 DEF Made
<1> QED BY <1>1, <1>5, <1>6

\* The characters of the phone's keys, of one kind.
OfKind(phone, kind) ==
  {Made(phone, p).char : p \in {q \in Probed : Made(phone, q).kind = kind}}

\* An entry of the table for two keys of the phone's.
HadOf(phone, d) ==
  /\ d.diacritic \in OfKind(phone, "dead")
  /\ d.base = Space \/ (phone.composes /\ d.base \in OfKind(phone, "char"))

\* How a character comes of the phone's keys.
SharedKey(phone, c) ==
  \/ c \in OfKind(phone, "char")
  \/ \E i \in DOMAIN Diacritics : HadOf(phone, Diacritics[i]) /\ c = Diacritics[i].result

\* Shared, spelt out.
LEMMA SharedIs ==
  ASSUME NEW phone, NEW c
  PROVE  c \in Shared(phone) <=> SharedKey(phone, c)
<1>1. Shared(phone) =
        OfKind(phone, "char") \cup
          {Diacritics[i].result : i \in {j \in DOMAIN Diacritics : HadOf(phone, Diacritics[j])}}
  BY DEF Shared, OfKind, HadOf
<1> QED BY <1>1 DEF SharedKey

\* A console has the characters of the keys the phone has, and the space.
LEMMA HasTheKeys ==
  ASSUME PasteAssumption, ConsoleAssumption, NEW phone \in Cases
  PROVE  /\ DOMAIN SinglesOf(phone) = (OfKind(phone, "char") \ {Newline}) \cup {Space}
         /\ DOMAIN DeadKeyAt(phone) = OfKind(phone, "dead")
<1>1. DOMAIN SinglesOf(phone) = DOMAIN SingleAt(phone)
  BY DEF SinglesOf
<1>2. /\ SpaceBar \in ToSet(Scan) /\ Made(phone, SpaceBar) = Makes("char", Space)
      /\ \A p \in ToSet(Scan) : p \in Probed \/ Made(phone, p) = Makes("char", Space)
                                             \/ Made(phone, p) = Makes("char", Newline)
      /\ Probed \subseteq ToSet(Scan)
  BY OthersAre
<1>3. Space # Newline
  BY DEF Space, Newline
<1>4. \A c : Makes("char", c).kind = "char" /\ Makes("char", c).char = c
  BY DEF Makes
<1>5. ASSUME NEW c \in DOMAIN SingleAt(phone)
      PROVE  c \in (OfKind(phone, "char") \ {Newline}) \cup {Space}
  <2> DEFINE p == SingleAt(phone)[c]
  <2>1. /\ p \in ToSet(Scan) /\ Made(phone, p).kind = "char" /\ Made(phone, p).char = c
        /\ c # Newline
    BY <1>5, SinglesAre
  <2> HIDE DEF p
  <2>2. CASE p \in Probed
    BY <2>1, <2>2 DEF OfKind
  <2>3. CASE p \notin Probed
    BY <1>2, <1>4, <2>1, <2>3
  <2> QED BY <2>2, <2>3
<1>6. ASSUME NEW c \in OfKind(phone, "char"), c # Newline
      PROVE  c \in DOMAIN SingleAt(phone)
  <2>1. PICK p \in Probed : Made(phone, p).kind = "char" /\ Made(phone, p).char = c
    BY DEF OfKind
  <2> QED BY <1>2, <1>6, <2>1, SinglesAre
<1>7. Space \in DOMAIN SingleAt(phone)
  <2>1. Made(phone, SpaceBar).kind = "char" /\ Made(phone, SpaceBar).char = Space
    BY <1>2, <1>4
  <2> QED BY <1>2, <1>3, <2>1, SinglesAre
<1>8. ASSUME NEW d \in DOMAIN DeadKeyAt(phone)
      PROVE  d \in OfKind(phone, "dead")
  <2> DEFINE p == DeadKeyAt(phone)[d]
  <2>1. p \in ToSet(Scan) /\ Made(phone, p).kind = "dead" /\ Made(phone, p).char = d
    BY <1>8, DeadsAre
  <2> HIDE DEF p
  <2>2. p \in Probed
    BY <1>2, <1>4, <2>1
  <2> QED BY <2>1, <2>2 DEF OfKind
<1>9. ASSUME NEW d \in OfKind(phone, "dead")
      PROVE  d \in DOMAIN DeadKeyAt(phone)
  <2>1. PICK p \in Probed : Made(phone, p).kind = "dead" /\ Made(phone, p).char = d
    BY DEF OfKind
  <2> QED BY <1>2, <2>1, DeadsAre
<1> QED BY <1>1, <1>5, <1>6, <1>7, <1>8, <1>9

\* It composes what the phone does, and the accents themselves.
LEMMA ComposesThem ==
  ASSUME PasteAssumption, ConsoleAssumption, NEW phone \in Cases
  PROVE  /\ \A c \in DOMAIN ComposedOf(phone) : c \in Shared(phone)
         /\ \A c \in Shared(phone) \ {Newline} :
              c \in DOMAIN SinglesOf(phone) \cup DOMAIN ComposedOf(phone)
<1> DEFINE C == OfKind(phone, "char")
           D == OfKind(phone, "dead")
<1>1. DOMAIN SinglesOf(phone) = (C \ {Newline}) \cup {Space} /\ DOMAIN DeadKeyAt(phone) = D
  BY HasTheKeys
<1>2. ASSUME NEW c \in DOMAIN ComposedOf(phone)
      PROVE  c \in Shared(phone)
  <2>1. PICK i : UsableOf(phone, i) /\ KernelOf(phone)[i].result = c
    BY <1>2, ComposedIs
  <2>2. /\ i \in DOMAIN Diacritics /\ KernelOf(phone)[i] = Diacritics[i]
        /\ phone.composes \/ Diacritics[i].base = Space
    BY <2>1, KernelIs DEF UsableOf
  <2>3. Diacritics[i].diacritic \in D /\ Diacritics[i].base \in (C \ {Newline}) \cup {Space}
    BY <1>1, <2>1, <2>2 DEF UsableOf
  <2>4. Diacritics[i].base = Space \/ (phone.composes /\ Diacritics[i].base \in C)
    <3> HIDE DEF C
    <3> QED BY <2>2, <2>3
  <2>5. HadOf(phone, Diacritics[i])
    BY <2>3, <2>4 DEF HadOf
  <2> QED BY <2>1, <2>2, <2>5, SharedIs DEF SharedKey
<1>3. ASSUME NEW i \in DOMAIN Diacritics, HadOf(phone, Diacritics[i]),
             Diacritics[i].result \notin DOMAIN SinglesOf(phone)
      PROVE  Diacritics[i].result \in DOMAIN ComposedOf(phone)
  <2>1. i \in DOMAIN KernelOf(phone) /\ KernelOf(phone)[i] = Diacritics[i]
    BY <1>3, KernelIs DEF HadOf
  <2>2. Diacritics[i].base = Space \/ Diacritics[i].base # Newline
    BY DEF ConsoleAssumption
  <2>3. UsableOf(phone, i)
    BY <1>1, <1>3, <2>1, <2>2 DEF UsableOf, HadOf
  <2> QED BY <2>1, <2>3, ComposedIs
<1>4. ASSUME NEW c \in Shared(phone), c # Newline
      PROVE  c \in DOMAIN SinglesOf(phone) \cup DOMAIN ComposedOf(phone)
  <2>1. SharedKey(phone, c)
    BY <1>4, SharedIs
  <2>2. CASE c \in C
    BY <1>1, <1>4, <2>2
  <2>3. CASE \E i \in DOMAIN Diacritics : HadOf(phone, Diacritics[i]) /\ c = Diacritics[i].result
    BY <1>3, <2>3
  <2> QED BY <2>1, <2>2, <2>3 DEF SharedKey
<1> QED BY <1>2, <1>4

\* What the shared console's keymap has of each character types what it comes
\* to.
LEMMA TheConsoleTypes ==
  ASSUME PasteAssumption, ConsoleAssumption, case \in Cases, measured = 0,
         keymap = KeymapOf(case), NEW c \in case.alphabet
  PROVE  Typed(case, Blank, StrokesFor(c)) = Shows(Coming(case, measured)[c])
<1> DEFINE comp == ComposedOf(case)
           alone == AloneOf(case)
           known == Shared(case)
           C == Coming(case, measured)
<1>1. /\ \A d \in DOMAIN comp : Typed(case, Blank, comp[d]) = Shows(<<Stored(case, d)>>)
      /\ \A d \in DOMAIN alone : Typed(case, Blank, alone[d]) = Shows(<<Stored(case, d)>>)
  BY CompositionIsTyped, AloneIsTyped DEF AloneOf
<1>2. /\ DOMAIN comp \subseteq known
      /\ \A d \in known \ {Newline} : d \in DOMAIN alone \cup DOMAIN comp
      /\ DOMAIN alone \subseteq known \cup {Space} /\ Space \in DOMAIN alone
      /\ Newline \notin DOMAIN alone
  <2>1. DOMAIN alone = DOMAIN SinglesOf(case)
    BY DEF AloneOf
  <2>2. DOMAIN alone = (OfKind(case, "char") \ {Newline}) \cup {Space}
    BY <2>1, HasTheKeys
  <2>3. \A d \in OfKind(case, "char") : d \in known
    BY SharedIs DEF SharedKey
  <2>4. Space # Newline
    BY DEF Space, Newline
  <2> QED BY <2>1, <2>2, <2>3, <2>4, ComposesThem
<1>3. /\ Space # Newline /\ Esc # Space /\ Esc # Newline
      /\ Stored(case, Space) = Space /\ Stored(case, Newline) = Newline
  BY DEF Space, Newline, Esc, Stored, Straight
<1>4. DOMAIN Whitespace = {Newline, Space, Esc}
  BY DEF Whitespace
<1>5. StrokesFor(c) = IF c \in DOMAIN comp THEN comp[c]
                      ELSE IF c \in DOMAIN alone THEN alone[c]
                      ELSE IF c \in {Newline, Space, Esc} THEN Whitespace[c] ELSE <<>>
  <2> HIDE DEF comp, alone
  <2>1. keymap = Above(comp, Above(alone, Whitespace))
    BY DEF KeymapOf, comp, alone
  <2> DEFINE rest == Above(alone, Whitespace)
  <2>2. /\ DOMAIN rest = DOMAIN alone \cup {Newline, Space, Esc}
        /\ \A d \in DOMAIN rest : rest[d] = IF d \in DOMAIN alone THEN alone[d]
                                            ELSE Whitespace[d]
    BY <1>4 DEF Above
  <2> HIDE DEF rest
  <2>3. /\ DOMAIN keymap = DOMAIN comp \cup DOMAIN rest
        /\ \A d \in DOMAIN keymap : keymap[d] = IF d \in DOMAIN comp THEN comp[d] ELSE rest[d]
    BY <2>1 DEF Above, rest
  <2> QED BY <2>2, <2>3 DEF StrokesFor
<1>6. C[c] = CASE c \in {Space, Newline} -> <<c>>
               [] c \in known \ {Space, Newline} -> <<Stored(case, c)>>
               [] c = Esc /\ c \notin known -> <<ToString(<<"escape", {}>>)>>
               [] OTHER -> IF c = Straight /\ measured > 0 /\ Aliased(Ways(case, measured = 2))
                             THEN <<Alias(Ways(case, measured = 2))>> ELSE <<>>
  BY DEF Coming
<1>7. ~(measured > 0)
  BY SMT
<1> HIDE DEF comp, alone, known, C
<1>8. CASE c \in DOMAIN comp \/ c \in DOMAIN alone
  <2>1. Typed(case, Blank, StrokesFor(c)) = Shows(<<Stored(case, c)>>)
    BY <1>1, <1>5, <1>8
  <2>2. c \in known \/ c = Space
    BY <1>2, <1>8
  <2>3. C[c] = <<Stored(case, c)>>
    BY <1>3, <1>6, <2>2
  <2> QED BY <2>1, <2>3 DEF C
<1>9. CASE c \notin DOMAIN comp /\ c \notin DOMAIN alone /\ c \in {Newline, Esc}
  <2>1. StrokesFor(c) = Whitespace[c]
    BY <1>5, <1>9
  <2>2. c # Newline => c \notin known
    BY <1>2, <1>9
  <2>3. c = Newline => C[c] = <<c>>
    BY <1>3, <1>6
  <2>4. c = Esc => C[c] = <<ToString(<<"escape", {}>>)>>
    BY <1>3, <1>6, <2>2
  <2>5. /\ Typed(case, Blank, Whitespace[Newline]) = Shows(<<Newline>>)
        /\ Typed(case, Blank, Whitespace[Esc]) = Shows(<<ToString(<<"escape", {}>>)>>)
    BY FixedAreTyped
  <2>6. Typed(case, Blank, Whitespace[c]) = Shows(C[c])
    BY <1>9, <2>3, <2>4, <2>5
  <2> QED BY <2>1, <2>6 DEF C
<1>10. CASE c \notin DOMAIN comp /\ c \notin DOMAIN alone /\ c \notin {Newline, Esc}
  <2>1. c # Space /\ c \notin known /\ StrokesFor(c) = <<>>
    BY <1>2, <1>5, <1>10
  <2>2. C[c] = <<>>
    BY <1>6, <1>7, <1>10, <2>1
  <2>3. Typed(case, Blank, <<>>) = Blank
    <3>1. Blank \in Screens(case, {}, {})
      <4>1. <<>> \in Seq({})
        OBVIOUS
      <4> QED BY <4>1, ShowsIs
    <3> QED BY <3>1, TypedNothing
  <2> QED BY <2>1, <2>2, <2>3 DEF Shows, Blank, C
<1> QED BY <1>8, <1>9, <1>10

\* With no layout learnt the keymap is the shared console's.
ConsoleIsLoaded ==
  /\ case \in Cases
  /\ stage \in {"new", "swept", "probed"} => measured = 0 /\ file = {}
  /\ stage = "swept" => captures = <<captures[1]>>
  /\ stage = "probed" => captures = <<captures[1], captures[2]>>
  /\ stage \in {"new", "swept", "probed", "built", "typing"}
  /\ stage = "built" => measured > 0
  /\ stage = "typing" => (measured = 0 /\ keymap = KeymapOf(case)) \/ measured > 0

\* One element appended to another.
LEMMA AppendTwo ==
  ASSUME NEW a, NEW b
  PROVE  Append(<<a>>, b) = <<a, b>>
<1>1. <<a>> \in Seq({a, b}) /\ Len(<<a>>) = 1 /\ <<a>>[1] = a /\ b \in {a, b}
  OBVIOUS
<1>2. Append(<<a>>, b) \in Seq({a, b})
  BY <1>1
<1>3. Len(Append(<<a>>, b)) = 2
  BY <1>1, AppendProperties
<1>4. Append(<<a>>, b)[1] = a /\ Append(<<a>>, b)[2] = b
  BY <1>1, AppendProperties
<1>5. <<a, b>> \in Seq({a, b}) /\ Len(<<a, b>>) = 2 /\ <<a, b>>[1] = a /\ <<a, b>>[2] = b
  OBVIOUS
<1>6. \A i \in 1..2 : i = 1 \/ i = 2
  OBVIOUS
<1>7. \A i \in 1..2 : Append(<<a>>, b)[i] = <<a, b>>[i]
  BY <1>4, <1>5, <1>6
<1> QED BY <1>2, <1>3, <1>5, <1>7, SeqEqual

\* Every step keeps it.
LEMMA ConsoleLoadedInductive ==
  ASSUME ConsoleIsLoaded, [Next]_vars
  PROVE  ConsoleIsLoaded'
<1>1. CASE LearnLayout
  <2>1. captures' = <<captures'[1]>>
    BY <1>1 DEF LearnLayout
  <2> QED BY <1>1, <2>1 DEF LearnLayout, ConsoleIsLoaded
<1>2. CASE LearnAccents
  <2> DEFINE it == Captured(ComposeStrokes(AccentCandidates))
             a == captures[1]
  <2>1. stage = "swept" /\ captures' = Append(captures, it)
    BY <1>2 DEF LearnAccents
  <2>2. captures = <<a>>
    BY <2>1 DEF ConsoleIsLoaded
  <2> HIDE DEF it, a
  <2>a. Append(<<a>>, it) = <<a, it>>
    BY AppendTwo
  <2>3. captures' = <<a, it>>
    BY <2>1, <2>2, <2>a
  <2>4. captures' = <<captures'[1], captures'[2]>>
    BY <2>3
  <2> QED BY <1>2, <2>4 DEF LearnAccents, ConsoleIsLoaded
<1>3. CASE BuildLayout
  <2>1. \/ captures = <<captures[1]>>
        \/ captures = <<captures[1], captures[2]>>
    BY <1>3 DEF BuildLayout, ConsoleIsLoaded
  <2>2. Len(captures) > 0
    <3> DEFINE a == captures[1]
               b == captures[2]
    <3> HIDE DEF a, b
    <3>1. captures = <<a>> \/ captures = <<a, b>>
      BY <2>1 DEF a, b
    <3>2. Len(captures) = 1 \/ Len(captures) = 2
      BY <3>1
    <3> QED BY <3>2
  <2> QED BY <1>3, <2>2 DEF BuildLayout, ConsoleIsLoaded
<1>4. CASE LoadTheKeymap
  <2>1. /\ case' = case /\ file' = file /\ measured' = measured /\ stage' = "typing"
        /\ stage \in {"new", "built"} /\ keymap' = LoadKeymap(Build(Console, Kernel), file)
    BY <1>4 DEF LoadTheKeymap
  <2>2. CASE stage = "built"
    BY <2>1, <2>2 DEF ConsoleIsLoaded
  <2>3. CASE stage = "new"
    <3>1. file = {} /\ measured = 0
      BY <2>3 DEF ConsoleIsLoaded
    <3>2. Console = ConsoleOf(case) /\ Kernel = KernelOf(case)
      BY <3>1 DEF Console, ConsoleOf, Kernel, KernelOf
    <3>3. keymap' = KeymapOf(case)
      BY <2>1, <3>1, <3>2, BuildIs DEF LoadKeymap
    <3> QED BY <2>1, <3>1, <3>3 DEF ConsoleIsLoaded
  <2> QED BY <2>1, <2>2, <2>3
<1>5. CASE TextInput \/ GiveUpWaiting
  BY <1>5 DEF TextInput, GiveUpWaiting, ConsoleIsLoaded
<1>6. CASE UNCHANGED vars
  BY <1>6 DEF vars, ConsoleIsLoaded
<1> QED BY <1>1, <1>2, <1>3, <1>4, <1>5, <1>6 DEF Next

\* And so each character is typed with no layout learnt (kbmap.build).
LEMMA ConsoleLoadedTypes ==
  ASSUME PasteAssumption, ConsoleAssumption, ConsoleIsLoaded
  PROVE  measured > 0 \/ EachIsTyped
<1>1. CASE stage = "typing" /\ ~(measured > 0)
  <2>1. measured = 0 /\ keymap = KeymapOf(case) /\ case \in Cases
    BY <1>1 DEF ConsoleIsLoaded
  <2> QED BY <1>1, <2>1, TheConsoleTypes DEF EachIsTyped, Shows
<1>2. CASE stage # "typing"
  BY <1>2 DEF EachIsTyped
<1> QED BY <1>1, <1>2

\* At the start no keymap is loaded.
LEMMA ConsoleLoadedFirst == Init => ConsoleIsLoaded
BY DEF Init, ConsoleIsLoaded

\* With no layout learnt each character is typed in every state.
LEMMA AConsoleTypes == Spec => [](measured > 0 \/ EachIsTyped)
<1>1. ConsoleIsLoaded /\ [Next]_vars => ConsoleIsLoaded'
  BY ConsoleLoadedInductive
<1>2. ConsoleIsLoaded => measured > 0 \/ EachIsTyped
  BY ConsoleLoadedTypes, PasteAssumption, ConsoleAssumption
<1> QED BY ConsoleLoadedFirst, <1>1, <1>2, PTL DEF Spec

\* Whichever keymap is loaded, the console's or one measured on the phone,
\* each character's keystrokes type what it comes to.
THEOREM EachTypes ==
  Spec /\ []LayoutIsThePhones => []EachIsTyped
BY ALearntLayoutTypes, AConsoleTypes, PTL

\* What the phone writes is the text, however it is cut up on its way
\* (PhoneReads), with the keymap of a console that shares the phone's layout
\* (kbmap.build), whatever a layout file would have said.
THEOREM ThePhoneReadsUnmeasured == Spec => [](measured = 0 => PhoneReads)
<1> DEFINE I == ConsoleIsLoaded /\ (measured = 0 => Reached /\ PhoneReads)
<1>1. Init => I
  BY ConsoleLoadedFirst, InitReads
<1>2. I /\ [Next]_vars => I'
  <2> SUFFICES ASSUME I, [Next]_vars
               PROVE  I'
    OBVIOUS
  <2>1. ConsoleIsLoaded'
    BY ConsoleLoadedInductive
  <2>2. ASSUME measured' = 0
        PROVE  Reached' /\ PhoneReads'
    <3>1. measured = 0
      <4>1. stage' # "built"
        BY <2>1, <2>2 DEF ConsoleIsLoaded
      <4>2. measured' = measured
        BY <4>1 DEF Next, LearnLayout, LearnAccents, BuildLayout, LoadTheKeymap,
                    TextInput, GiveUpWaiting, vars
      <4> QED BY <2>2, <4>2
    <3>2. LayoutIsThePhones
      BY <3>1 DEF ConsoleIsLoaded, LayoutIsThePhones
    <3>3. EachIsTyped
      BY <3>1, ConsoleLoadedTypes, PasteAssumption, ConsoleAssumption
    <3> QED BY <3>1, <3>2, <3>3, NextReads, PasteAssumption
  <2> QED BY <2>1, <2>2
<1>3. I => (measured = 0 => PhoneReads)
  OBVIOUS
<1> QED BY <1>1, <1>2, <1>3, PTL DEF Spec

\* However a text is cut up on its way, what the phone writes is the text
\* (PhoneReads), for every phone, text and cut, wherever the layout file is the
\* phone's.
THEOREM ThePhoneReads ==
  Spec /\ []LayoutIsThePhones => []PhoneReads
BY ReadsWhereTyped, EachTypes, PTL
=============================================================================
