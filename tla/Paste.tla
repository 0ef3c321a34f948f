-------------------------------- MODULE Paste --------------------------------
(***************************************************************************)
(* What a phone writes of a text pasted at the console, from the learning  *)
(* of its layout on: btkey types the probes, their captures are made a     *)
(* layout file, the keymap is loaded, and what arrives at the console is   *)
(* decoded, looked up and typed.                                           *)
(*                                                                         *)
(* That each keystroke asked for is heard once and in order is Typist's;   *)
(* here a keystroke is one the phone has had.  The phone has a layout,     *)
(* composes what follows a dead key, and may make straight quotes curly.   *)
(***************************************************************************)
EXTENDS Keymap, Probe

CONSTANTS
  Cases,       \* what may be: see the fields of case below
  Other,       \* the keysyms of a console that differs from the phone
  Diacritics,  \* the kernel's table, for a console that does not
  Composed,    \* what accents and characters compose, phone and kernel alike
  Code,        \* the keysym a console has for what a key of the phone makes
  MaxChunk,    \* how many characters arrive at once
  Environment  \* what may happen around btkey; see Events below

(***************************************************************************)
(* As many accent keys as a layout capture has rows.                       *)
(***************************************************************************)
Events == {"lookalike"}

\* What every phone has beside the keys of its layout.
Fixed == [space |-> Space, enter |-> Newline]

\* A key that a sequence stands for is none of a layout's either, and what an
\* app does with it is no character.
ASSUME PasteAssumption ==
  /\ MaxChunk \in Nat /\ Environment \subseteq Events
  /\ \A key \in SequenceKeys \cup DOMAIN Fixed \cup {"escape"},
        mods \in SUBSET DOMAIN Bit :
       /\ \A phone \in Cases : <<key, mods>> \notin DOMAIN phone.keys
       /\ \A row \in DOMAIN Rows : key \notin ToSet(Rows[row])
       /\ ToString(<<key, mods>>) # Straight

VARIABLES
  case,      \* the phone's keys, composes, smart; alphabet and room of texts
  stage,     \* "new", "swept", "probed", "built" or "typing"
  captures,  \* what the probes wrote
  file,      \* the layout file
  measured,  \* whether the phone's layout was learnt, and its accents
  keymap,    \* Typist.keymap
  pending,   \* Typist.pending; its timer runs while there is any
  screen,    \* what the phone has written, and the dead key it waits with
  received   \* what arrived, as texts with a pause between them

vars == <<case, stage, captures, file, measured, keymap, pending, screen,
          received>>

-----------------------------------------------------------------------------
(***************************************************************************)
(* The phone.  A key makes a character or a dead accent, or nothing.       *)
(***************************************************************************)
Makes(kind, char) == [kind |-> kind, char |-> char]

Silent == Makes("none", "none")

Made(phone, stroke) ==
  CASE <<stroke.key, stroke.mods>> \in DOMAIN phone.keys ->
         phone.keys[<<stroke.key, stroke.mods>>]
    [] stroke.key \in DOMAIN Fixed -> Makes("char", Fixed[stroke.key])
    [] OTHER -> IF \E i \in DOMAIN Rows : stroke.key \in ToSet(Rows[i]) THEN Silent
                ELSE Makes("char", ToString(<<stroke.key, stroke.mods>>))

\* Smart Punctuation
Stored(phone, char) ==
  IF phone.smart /\ char = Straight THEN Curlies[1] ELSE char

Blank == [text |-> <<>>, dead |-> "none"]

Write(phone, s, chars) ==
  [text |-> s.text \o [i \in DOMAIN chars |-> Stored(phone, chars[i])],
   dead |-> "none"]

Hear(phone, s, stroke) ==
  LET made == Made(phone, stroke)
      pair == <<s.dead, made.char>>
  IN  CASE made.kind = "none" -> s
        [] made.kind = "dead" ->
             [Write(phone, s, IF s.dead = "none" THEN <<>> ELSE <<s.dead>>)
                EXCEPT !.dead = made.char]
        [] OTHER ->
             CASE s.dead = "none" -> Write(phone, s, <<made.char>>)
               [] s.dead # "none" /\ made.char = Space ->
                    Write(phone, s, <<s.dead>>)
               [] s.dead # "none" /\ made.char # Space ->
                    Write(phone, s, IF phone.composes /\ pair \in DOMAIN Composed
                                      THEN <<Composed[pair]>> ELSE pair)

Typed(phone, s, strokes) ==
  FoldLeft(LAMBDA t, stroke : Hear(phone, t, stroke), s, strokes)

-----------------------------------------------------------------------------
(***************************************************************************)
(* Learning the layout.                                                    *)
(***************************************************************************)
Captured(strokes) == Typed(case, Blank, strokes).text

LearnLayout ==
  /\ stage = "new"
  /\ stage' = "swept"
  /\ captures' = <<Captured(CaptureStrokes)>>
  /\ UNCHANGED <<case, file, measured, keymap, pending, screen, received>>

AccentCandidates == DeadKeyCandidates(ParseCapture(captures[1]))

LearnAccents ==
  /\ stage = "swept" /\ AccentCandidates # <<>>
  /\ Len(AccentCandidates) = Len(Expected) => "lookalike" \in Environment
  /\ stage' = "probed"
  /\ captures' = Append(captures, Captured(ComposeStrokes(AccentCandidates)))
  /\ UNCHANGED <<case, file, measured, keymap, pending, screen, received>>

\* Every key of a row at every level.
Probed == {Press(key, mods) : key \in UNION {ToSet(Rows[r]) : r \in DOMAIN Rows},
                              mods \in ToSet(Levels)}

\* btkey --build-layout, with the captures in either order
BuildLayout ==
  /\ stage \in {"swept", "probed"}
  /\ stage' = "built"
  /\ file' \in {ImportSweep(captures), ImportSweep(Reverse(captures))}
  /\ measured' = Len(captures)
  /\ UNCHANGED <<case, captures, keymap, pending, screen, received>>

\* The console's keymap: with no layout measured the user's own, that the
\* phone shares.
Console ==
  IF file # {} THEN Other
  ELSE [p \in ToSet(Scan) |-> Code[Made(case, p)]]

\* The kernel's table, in its order: of a console that composes as the phone
\* does, or has accents on their own and no more.
Kernel ==
  LET Has(i) == case.composes \/ Diacritics[i].base = Space
  IN  [i \in {j \in DOMAIN Diacritics : Has(j)} |-> Diacritics[i]]

\* The keysyms of what a key makes: a type and a value, or a code point with
\* the high bits flipped.
Keysym(type, value) == 256 * type + value

KeysymsFor(made) ==
  LET Points(bound) == {n \in DOMAIN Glyph : n < bound /\ Glyph[n] = made.char}
  IN  CASE made.kind = "char" /\ made.char # Newline ->
             {Keysym(type, n) : type \in {LATIN, LETTER}, n \in Points(256)}
               \cup {Flip(n) : n \in Points(4096 * 15)}
        [] made.kind = "dead" ->
             {Keysym(DEAD, i - 1) : i \in {j \in DOMAIN RetDiacr : RetDiacr[j] = made.char}}
               \cup {Keysym(DEAD2, n) : n \in Points(256)}
        [] OTHER ->
             {Keysym(type, n) : type \in 0..15 \ {LATIN, LETTER, DEAD, DEAD2}, n \in 0..255}

\* The console a phone shares has a position for each key that is probed, a
\* keysym for what it makes, and a table of which every entry is what the
\* phone makes of the two.
ASSUME ConsoleAssumption ==
  /\ DOMAIN Scan \subseteq Nat /\ DOMAIN Glyph \subseteq Nat
  /\ ToSet(Scan) = Probed \cup {SpaceBar, Press("enter", {})}
  /\ \A phone \in Cases, p \in ToSet(Scan) :
       LET made == Made(phone, p)
       IN  /\ made # Silent => made.kind \in {"char", "dead"} /\ made.char # "none"
           /\ Code[made] \in KeysymsFor(made)
  /\ DOMAIN Diacritics \subseteq Nat
  /\ \A i \in DOMAIN Diacritics :
       LET d == Diacritics[i]
       IN  IF d.base = Space THEN d.result = d.diacritic
           ELSE /\ d.base # Newline /\ <<d.diacritic, d.base>> \in DOMAIN Composed
                /\ d.result = Composed[<<d.diacritic, d.base>>]

\* btkey starts, or starts again.
LoadTheKeymap ==
  /\ stage \in {"new", "built"}
  /\ stage' = "typing"
  /\ keymap' = LoadKeymap(Build(Console, Kernel), file)
  /\ UNCHANGED <<case, captures, file, measured, pending, screen, received>>

-----------------------------------------------------------------------------
(***************************************************************************)
(* Text.                                                                   *)
(***************************************************************************)

\* strokes_for
StrokesFor(char) == IF char \in DOMAIN keymap THEN keymap[char] ELSE <<>>

StrokesOf(item) ==
  CASE item.kind = "char"    -> StrokesFor(item.char)
    [] item.kind = "steps"   -> item.steps
    [] item.kind = "unknown" -> <<>>

TypeItems(items) ==
  screen' = Typed(case, screen,
                  FlattenSeq([i \in DOMAIN items |-> StrokesOf(items[i])]))

Room == case.room - Len(FlattenSeq(received))

\* Mutant: what was held back is forgotten.
MutTypeText(chunk) ==
  LET decoded == Decode(chunk)
  IN  TypeItems(decoded.items) /\ pending' = decoded.tail

\* type_text
TypeText(chunk) ==
  LET decoded == Decode(pending \o chunk)
  IN  TypeItems(decoded.items) /\ pending' = decoded.tail

TextInput ==
  /\ stage = "typing"
  /\ \E n \in 1..MaxChunk : \E chunk \in [1..n -> case.alphabet] :
       /\ n <= Room
       /\ TypeText(chunk)
       /\ received' = Append(Front(received), Last(received) \o chunk)
  /\ UNCHANGED <<case, stage, captures, file, measured, keymap>>

\* _give_up_waiting
GiveUpWaiting ==
  /\ pending # <<>>
  /\ TypeItems([i \in DOMAIN pending |-> Char(pending[i])])
  /\ pending' = <<>>
  /\ received' = Append(received, <<>>)
  /\ UNCHANGED <<case, stage, captures, file, measured, keymap>>

-----------------------------------------------------------------------------
Init ==
  /\ case \in Cases
  /\ stage = "new" /\ captures = <<>> /\ file = {} /\ measured = 0
  /\ keymap = Whitespace
  /\ pending = <<>> /\ screen = Blank /\ received = <<<<>>>>

Next ==
  \/ LearnLayout \/ LearnAccents \/ BuildLayout \/ LoadTheKeymap
  \/ TextInput \/ GiveUpWaiting

Spec == Init /\ [][Next]_vars
-----------------------------------------------------------------------------
(***************************************************************************)
(* What the phone can write, asked of the phone alone: accents says        *)
(* whether its accents are known.                                          *)
(***************************************************************************)
\* The keystrokes btkey may try: a key, and with the accents learnt a dead
\* key and a base.
Tried(phone, accents) ==
  LET dead == {p \in Probed : accents /\ Made(phone, p).kind = "dead"}
  IN  {<<p>> : p \in Probed} \cup (dead \X ToSet(Bases))

Alone(c) == [text |-> <<c>>, dead |-> "none"]

\* By what it writes, alone and with no dead key left waiting.
Ways(phone, accents) ==
  LET wrote    == [steps \in Tried(phone, accents) |-> Typed(phone, Blank, steps)]
      Whole(s) == Len(wrote[s].text) = 1 /\ wrote[s].dead = "none"
  IN  [c \in {wrote[s].text[1] : s \in {t \in DOMAIN wrote : Whole(t)}}
               \ {Space, Newline} |->
         {s \in DOMAIN wrote : wrote[s] = Alone(c)}]

\* What the console's keys write, the phone's being the same: alone, and a
\* dead key with another where the console's table has the two.
Shared(phone) ==
  LET Of(kind) == {Made(phone, p).char :
                     p \in {q \in Probed : Made(phone, q).kind = kind}}
      Had(d)   == /\ d.diacritic \in Of("dead")
                  /\ d.base = Space \/ (phone.composes /\ d.base \in Of("char"))
  IN  Of("char") \cup {Diacritics[i].result :
                          i \in {j \in DOMAIN Diacritics : Had(Diacritics[j])}}

\* A straight quote comes as a curly one where no key writes one: as the
\* one with the cheaper way, the first of equals.
Aliased(ways) == Straight \notin DOMAIN ways /\ DOMAIN ways \cap ToSet(Curlies) # {}

Alias(ways) ==
  LET Cheap(c) == {s \in ways[c] : \A t \in ways[c] : ~Cheaper(t, s)}
      Behind(c, d) == d \in DOMAIN ways /\ \E s \in Cheap(c), t \in Cheap(d) : Cheaper(t, s)
  IN  IF Curlies[1] \in DOMAIN ways /\ ~Behind(Curlies[1], Curlies[2])
        THEN Curlies[1] ELSE Curlies[2]

\* What each character of a text comes to; layouts is how many captures the
\* phone's layout was learnt from.
Coming(phone, layouts) ==
  LET ways  == Ways(phone, layouts = 2)
      known == IF layouts = 0 THEN Shared(phone) ELSE DOMAIN ways
  IN  [c \in phone.alphabet |->
         CASE c \in {Space, Newline} -> <<c>>
           [] c \in known \ {Space, Newline} -> <<Stored(phone, c)>>
           [] c = Esc /\ c \notin known -> <<ToString(<<"escape", {}>>)>>
           [] OTHER -> IF c = Straight /\ layouts > 0 /\ Aliased(ways)
                         THEN <<Alias(ways)>> ELSE <<>>]

(***************************************************************************)
(* A text, read by what a whole sequence is.                               *)
(***************************************************************************)
IsSequence(s) ==
  /\ Len(s) > 2 /\ s[1] = Esc
  /\ \/ Len(s) = 3 /\ s[2] = "O"
     \/ Len(s) = 4 /\ s[2] = "[" /\ s[3] = "["
     \/ /\ s[2] = "[" /\ s[3] # "["
        /\ Last(s) \notin ParameterChars
        /\ \A i \in 3..Len(s) - 1 : s[i] \in ParameterChars

MayBecome(s) ==
  /\ s[1] = Esc
  /\ Len(s) > 1 => s[2] \in {"[", "O"}
  /\ \A n \in 1..Len(s) : ~IsSequence(SubSeq(s, 1, n))

\* What a screen shows of keys that write nothing.
Keys(steps) == [k \in DOMAIN steps |-> ToString(<<steps[k].key, steps[k].mods>>)]

\* What the text from its i'th character on comes to, up to what may yet
\* become a sequence; that is typed as it is if a pause follows.
Reading(text, pause, coming) ==
  LET From[i \in 1..Len(text) + 1] ==
        LET wholes == {j \in i..Len(text) : IsSequence(SubSeq(text, i, j))}
        IN  IF i > Len(text) THEN <<>>
            ELSE IF wholes # {}
              THEN Keys(Match(SubSeq(text, i, Min(wholes))).steps)
                     \o From[Min(wholes) + 1]
            ELSE IF MayBecome(SubSeq(text, i, Len(text))) /\ ~pause THEN <<>>
            ELSE coming[text[i]] \o From[i + 1]
  IN  From[1]

-----------------------------------------------------------------------------
(***************************************************************************)
(* Properties.                                                             *)
(***************************************************************************)

\* The layout file says of every character the phone types, and of no other,
\* a way that types it and leaves no dead key waiting, and no way is cheaper
\* (probe.py: dead keys are "measured rather than guessed at"); a straight
\* quote no key types comes as a curly one.
LayoutIsThePhones ==
  stage = "built" =>
    LET layout == LoadLayout(file)
        ways   == Ways(case, measured = 2)
    IN  /\ file # {}
        /\ DOMAIN layout = DOMAIN ways \cup (IF Aliased(ways) THEN {Straight} ELSE {})
        /\ \A c \in DOMAIN ways :
             layout[c] \in ways[c] /\ \A s \in ways[c] : ~Cheaper(s, layout[c])
        /\ Aliased(ways) => layout[Straight] \in ways[Alias(ways)]

\* The keystrokes for a character type what it comes to on this phone, and
\* leave no dead key waiting: those of a layout read off it, and those of
\* the console's keymap where no layout was (kbmap.build, load_keymap).
EachIsTyped ==
  stage = "typing" =>
    LET coming == Coming(case, measured)
    IN  \A c \in case.alphabet :
          Typed(case, Blank, StrokesFor(c)) = [text |-> coming[c], dead |-> "none"]

\* However a text is cut up on its way, what the phone writes is the text:
\* each character it can type, once and whole, each sequence the key it
\* stands for, nothing of a sequence as characters and nothing of what the
\* phone cannot type (typist.load_keymap, escapes.decode).
PhoneReads ==
  stage = "typing" =>
    LET coming == Coming(case, measured)
        read   == [i \in DOMAIN received |->
                     Reading(received[i], i < Len(received), coming)]
    IN  screen = [text |-> FlattenSeq(read), dead |-> "none"]
=============================================================================
