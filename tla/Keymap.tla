------------------------------- MODULE Keymap -------------------------------
(***************************************************************************)
(* Which keystrokes type a character: kbmap, that inverts the console's    *)
(* keymap and reads a layout measured on the phone, and                    *)
(* typist.load_keymap, that chooses between the two.  A layout is a        *)
(* function from characters to sequences of keystrokes.                    *)
(***************************************************************************)
EXTENDS Escapes

CONSTANTS
  Scan,    \* the positions of the console's tables, in the order of TABLES
  Glyph    \* the printable characters by their code points

(***************************************************************************)
(* Keysyms.  KDGKBENT answers with x ^ 0xf000, sixteen bits wide; the high *)
(* byte is then the type, biased by 0xf0, and below that bias all sixteen  *)
(* are a code point.                                                       *)
(***************************************************************************)
Flip(x) == (15 - x \div 4096) * 4096 + (x % 4096)

LATIN == 0
DEAD == 4
LETTER == 11
DEAD2 == 13

Kind(keysym) == keysym \div 256
Low(keysym)  == keysym % 256
Biased(kind) == kind + 240

\* The diacritics of ret_diacr[] that its first three indices stand for.
RetDiacr == <<"grave", "'", "^">>

CharOf(code) == IF code \in DOMAIN Glyph THEN Glyph[code] ELSE "none"

\* Mutant: the bias not put back.
MutKeysymToChar(value) ==
  CASE Kind(value) < Biased(0) -> CharOf(value)
    [] Kind(value) \in {Biased(LATIN), Biased(LETTER)} -> CharOf(Low(value))
    [] OTHER -> "none"

KeysymToChar(value) ==
  LET keysym == Flip(value)
  IN  CASE Kind(keysym) < Biased(0) -> CharOf(keysym)
        [] Kind(keysym) \in {Biased(LATIN), Biased(LETTER)} ->
             CharOf(Low(keysym))
        [] OTHER -> "none"

KeysymToDiacritic(value) ==
  LET keysym == Flip(value)
  IN  CASE Kind(keysym) = Biased(DEAD) ->
             IF Low(keysym) < Len(RetDiacr) THEN RetDiacr[Low(keysym) + 1]
             ELSE "none"
        [] Kind(keysym) = Biased(DEAD2) -> CharOf(Low(keysym))
        [] OTHER -> "none"

-----------------------------------------------------------------------------
(***************************************************************************)
(* build: the first position of a character, in the order of the tables,   *)
(* is where it is typed, and what has none may be composed.                *)
(***************************************************************************)
FirstOf(name) ==
  LET At(c) == {i \in DOMAIN Scan : name[Scan[i]] = c}
  IN  [c \in {name[p] : p \in ToSet(Scan)} \ {"none"} |-> Scan[Min(At(c))]]

\* compose: it only fills gaps, and the first in the kernel's table wins
Compose(singles, deads, diacritics) ==
  LET Usable(i) == /\ diacritics[i].result \notin DOMAIN singles
                   /\ diacritics[i].diacritic \in DOMAIN deads
                   /\ diacritics[i].base \in DOMAIN singles
      Of(c) == {i \in DOMAIN diacritics :
                  Usable(i) /\ diacritics[i].result = c}
  IN  [c \in {diacritics[i].result : i \in {j \in DOMAIN diacritics : Usable(j)}} |->
         LET d == diacritics[Min(Of(c))]
         IN  <<deads[d.diacritic], singles[d.base]>>]

\* whitespace, with newlines pasted as Shift+Enter
Whitespace ==
  [c \in {Newline, Space, Esc} |->
     <<CASE c = Newline -> Stroke("enter", {"shift"})
         [] c = Space   -> Stroke("space", {})
         [] c = Esc     -> Stroke("escape", {})>>]

\* What one layout says, and another of what it says nothing of.
Above(layout, other) ==
  [c \in DOMAIN layout \cup DOMAIN other |->
     IF c \in DOMAIN layout THEN layout[c] ELSE other[c]]

\* keysyms gives each position the value KDGKBENT answers with.
Build(keysyms, diacritics) ==
  LET char == [p \in ToSet(Scan) |-> KeysymToChar(keysyms[p])]
      dead == [p \in ToSet(Scan) |-> IF char[p] # "none" THEN "none"
                                     ELSE KeysymToDiacritic(keysyms[p])]
      chars   == FirstOf(char)
      singles == [c \in DOMAIN chars |-> Stroke(chars[c].key, chars[c].mods)]
      deads   == FirstOf(dead)
  IN  Above(Compose(singles, deads, diacritics),
            Above([c \in DOMAIN singles |-> <<singles[c]>>], Whitespace))

-----------------------------------------------------------------------------
(***************************************************************************)
(* load_layout and load_keymap.  A layout file has lines for characters    *)
(* and lines for dead keys; with one, the console has no say.              *)
(***************************************************************************)
Lines(file, kind) == {line \in file : line.kind = kind}

LoadLayout(file) ==
  [c \in {line.char : line \in Lines(file, "char")} |->
     (CHOOSE line \in Lines(file, "char") : line.char = c).steps]

LoadKeymap(console, file) ==
  IF file = {} THEN console ELSE Above(LoadLayout(file), Whitespace)
=============================================================================
