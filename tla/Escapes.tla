------------------------------- MODULE Escapes -------------------------------
(***************************************************************************)
(* Keys that reach a console as a burst of characters: escapes.match and   *)
(* escapes.decode.  A text is a sequence of characters, each a string, and *)
(* a keystroke a key with its modifiers.                                   *)
(***************************************************************************)
EXTENDS Naturals, Sequences, SequencesExt

Esc     == "esc"
Space   == " "
Newline == "newline"

Digits == [c \in {"0", "1", "2", "3", "4", "5", "6", "7", "8", "9"} |->
             CHOOSE n \in 0..9 : ToString(n) = c]

Stroke(key, mods) == [key |-> key, mods |-> mods]

FinalLetters ==
  [A |-> "up", B |-> "down", C |-> "right", D |-> "left",
   H |-> "home", F |-> "end",
   P |-> "f1", Q |-> "f2", R |-> "f3", S |-> "f4", Z |-> "tab"]

\* Backtab is Shift+Tab.
ImplicitModifiers(c) == IF c = "Z" THEN {"shift"} ELSE {}

\* By the first parameter; the gaps stand for no key.
FinalNumbers ==
  <<"home", "insert", "delete", "end", "pageup", "pagedown", "home", "end",
    "none", "none", "f1", "f2", "f3", "f4", "f5", "none", "f6", "f7", "f8",
    "f9", "f10", "none", "f11", "f12", "f13", "f14", "none", "f15", "f16",
    "none", "f17", "f18", "f19", "f20">>

\* The Linux console's own F1 to F5.
LinuxFunction == [A |-> "f1", B |-> "f2", C |-> "f3", D |-> "f4", E |-> "f5"]

Bit == [shift |-> 1, alt |-> 2, ctrl |-> 4, meta |-> 8]

SequenceKeys ==
  {FinalLetters[c] : c \in DOMAIN FinalLetters}
    \cup (ToSet(FinalNumbers) \ {"none"})
    \cup {LinuxFunction[c] : c \in DOMAIN LinuxFunction}

\* modifiers_from: one and a bitmask
ModifiersFrom(n) ==
  {m \in DOMAIN Bit : n > 0 /\ ((n - 1) \div Bit[m]) % 2 = 1}

\* parameters: an empty one counts as 0
Parameters(text) ==
  FoldLeft(LAMBDA ns, c : IF c = ";" THEN Append(ns, 0)
                          ELSE Append(Front(ns), 10 * Last(ns) + Digits[c]),
           <<0>>, text)

ParameterChars == DOMAIN Digits \cup {";"}

-----------------------------------------------------------------------------
(***************************************************************************)
(* match: what the text, that begins with Escape, begins with.  A sequence *)
(* still arriving has length 0, an Escape on its own 1; a sequence that    *)
(* stands for no key has no steps.                                         *)
(***************************************************************************)
Found(steps, length) == [steps |-> steps, length |-> length]

Arriving == Found(<<>>, 0)

Keyed(table, c, mods) ==
  IF c \in DOMAIN table THEN <<Stroke(table[c], mods)>> ELSE <<>>

\* Where the parameters of a sequence end.
Final(rest) ==
  CHOOSE i \in 3..Len(rest) + 1 :
    /\ \A j \in 3..i - 1 : rest[j] \in ParameterChars
    /\ i <= Len(rest) => rest[i] \notin ParameterChars

Control(rest) ==
  LET i      == Final(rest)
      ns     == Parameters(SubSeq(rest, 3, i - 1))
      mods   == ModifiersFrom(IF Len(ns) > 1 THEN ns[2] ELSE 1)
      number == IF ns[1] \in DOMAIN FinalNumbers THEN FinalNumbers[ns[1]]
                ELSE "none"
  IN  IF i > Len(rest) THEN Arriving
      ELSE CASE rest[i] = "~" /\ number = "none" -> Found(<<>>, i)
             [] rest[i] = "~" /\ number # "none" -> Found(<<Stroke(number, mods)>>, i)
             [] rest[i] # "~" -> Found(Keyed(FinalLetters, rest[i],
                                      mods \cup ImplicitModifiers(rest[i])), i)

\* Mutant: a bracket alone taken for the whole of a sequence.
MutMatch(rest) ==
  CASE Len(rest) < 2 -> Arriving
    [] Len(rest) > 1 /\ rest[2] \notin {"O", "["} -> Found(<<>>, 1)
    [] Len(rest) = 2 /\ rest[2] \in {"O", "["} -> Found(<<>>, 2)
    [] Len(rest) > 2 /\ rest[2] = "O" ->
         Found(Keyed(FinalLetters, rest[3], ImplicitModifiers(rest[3])), 3)
    [] Len(rest) > 2 /\ rest[2] = "[" -> Control(rest)

Match(rest) ==
  CASE Len(rest) < 2 -> Arriving
    [] Len(rest) > 1 /\ rest[2] \notin {"O", "["} -> Found(<<>>, 1)
    [] Len(rest) = 2 /\ rest[2] \in {"O", "["} -> Arriving
    [] Len(rest) > 2 /\ rest[2] = "O" ->
         Found(Keyed(FinalLetters, rest[3], ImplicitModifiers(rest[3])), 3)
    [] Len(rest) > 2 /\ rest[2] = "[" /\ rest[3] = "[" ->
         IF Len(rest) < 4 THEN Arriving
         ELSE Found(Keyed(LinuxFunction, rest[4], {}), 4)
    [] Len(rest) > 2 /\ rest[2] = "[" /\ rest[3] # "[" -> Control(rest)

-----------------------------------------------------------------------------
(***************************************************************************)
(* decode: the items of a text, and the start of a sequence at its end.    *)
(***************************************************************************)
Char(c)      == [kind |-> "char", char |-> c]
Steps(steps) == [kind |-> "steps", steps |-> steps]
Unknown      == [kind |-> "unknown"]

\* The item a text begins with, and its length; 0 if it is still arriving.
Beginning(rest) ==
  LET found == Match(rest)
  IN  IF rest[1] # Esc THEN [item |-> Char(rest[1]), length |-> 1]
      ELSE [item |-> CASE found.length = 1 -> Char(Esc)
                       [] found.length # 1 /\ found.steps = <<>> -> Unknown
                       [] found.length # 1 /\ found.steps # <<>> -> Steps(found.steps),
            length |-> found.length]

Decode(text) ==
  LET From[i \in 1..Len(text) + 1] ==
        LET rest  == SubSeq(text, i, Len(text))
            first == Beginning(rest)
            after == From[i + first.length]
        IN  IF i > Len(text) THEN [items |-> <<>>, tail |-> <<>>]
            ELSE IF first.length = 0 THEN [items |-> <<>>, tail |-> rest]
            ELSE [items |-> <<first.item>> \o after.items, tail |-> after.tail]
  IN  From[1]
=============================================================================
