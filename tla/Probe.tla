-------------------------------- MODULE Probe --------------------------------
(***************************************************************************)
(* Reading a phone's keyboard layout off the phone: what probe.py has it   *)
(* type, and how it reads what came back.  A capture is a text whose lines *)
(* end in a newline; a row of it is a keyboard row at one level, a field   *)
(* of a row one key, and the doubled marker what ends a field.             *)
(***************************************************************************)
EXTENDS Escapes

CONSTANTS
  Rows,            \* ROWS: the keys, row by row
  Levels,          \* LEVELS: the modifiers, in the order probed
  Bases,           \* BASES: the keystrokes a dead key is composed with
  Mark,            \* SENTINEL_POSITION
  SentinelLength   \* SENTINEL_LENGTH

Press(key, mods) == Stroke(key, mods)
SpaceBar   == Press("space", {})
Terminator == Press("enter", {"shift"})
Marker     == Press(Mark, {})

-----------------------------------------------------------------------------
(***************************************************************************)
(* What is typed.                                                          *)
(***************************************************************************)
SentinelStrokes == Append([i \in 1..SentinelLength |-> Marker], Terminator)

\* The space settles a dead key, and the marker ends the field.
Settled == <<SpaceBar, Marker, Marker>>

RowStrokes(row) ==
  Append(FlattenSeq([i \in DOMAIN row.positions |->
                       <<Press(row.positions[i], row.mods)>> \o Settled]),
         Terminator)

\* The rows of a capture: every keyboard row, level by level.
Expected ==
  FlattenSeq([l \in DOMAIN Levels |->
                [r \in DOMAIN Rows |-> [positions |-> Rows[r], mods |-> Levels[l]]]])

CaptureStrokes ==
  SentinelStrokes
    \o FlattenSeq([i \in DOMAIN Expected |-> RowStrokes(Expected[i])])
    \o SentinelStrokes

\* A row for each candidate, its fields the bases.
ComposeStrokes(candidates) ==
  LET Row(dead) == Append(FlattenSeq([i \in DOMAIN Bases |->
                                        <<dead, Bases[i]>> \o Settled]),
                          Terminator)
  IN  SentinelStrokes
        \o FlattenSeq([i \in DOMAIN candidates |-> Row(candidates[i].stroke)])
        \o SentinelStrokes

-----------------------------------------------------------------------------
(***************************************************************************)
(* What is read: capture_block and read_row.                               *)
(***************************************************************************)
TextLines(text) ==
  LET s == FoldLeft(LAMBDA acc, c :
                      IF c = Newline
                        THEN [lines |-> Append(acc.lines, acc.line), line |-> <<>>]
                        ELSE [acc EXCEPT !.line = Append(@, c)],
                    [lines |-> <<>>, line |-> <<>>], text)
  IN  IF s.line = <<>> THEN s.lines ELSE Append(s.lines, s.line)

Strip(line) ==
  LET kept == {i \in DOMAIN line : line[i] # Space}
  IN  IF kept = {} THEN <<>> ELSE SubSeq(line, Min(kept), Max(kept))

\* Two short of its length will do.
IsSentinel(line) ==
  /\ Len(Strip(line)) >= SentinelLength - 2
  /\ Cardinality(ToSet(Strip(line))) = 1

Marks(lines) == {i \in DOMAIN lines : IsSentinel(lines[i])}

IsCapture(lines) == Cardinality(Marks(lines)) > 1

Block(lines) == SubSeq(lines, Min(Marks(lines)) + 1, Max(Marks(lines)) - 1)

MarkerOf(lines) == Strip(lines[Min(Marks(lines))])[1]

\* A row split at each doubled marker, from the left.
Fields(line, marker) ==
  LET s == FoldLeft(LAMBDA acc, c :
                      IF c = marker /\ acc.field # <<>> /\ Last(acc.field) = marker
                        THEN [fields |-> Append(acc.fields, Front(acc.field)),
                              field |-> <<>>]
                        ELSE [acc EXCEPT !.field = Append(@, c)],
                    [fields |-> <<>>, field |-> <<>>], line)
  IN  Append(s.fields, s.field)

Entry(text, dead) == [text |-> text, dead |-> dead]

Nothing == Entry(<<>>, FALSE)

\* A field that kept its space is an ordinary key's; one without it a dead
\* key's, that swallowed it.
ReadField(field) ==
  CASE field \in {<<>>, <<Space>>} -> Nothing
    [] Len(field) > 1 /\ Last(field) = Space -> Entry(Front(field), FALSE)
    [] field # <<>> /\ Last(field) # Space -> Entry(field, TRUE)

\* read_row: so many entries, whether the row has them or not
ReadRow(line, count, marker) ==
  LET fields == Fields(line, marker)
  IN  [i \in 1..count |->
         IF i \in DOMAIN fields THEN ReadField(fields[i]) ELSE Nothing]

\* What is not one character is no result.
Result(steps, entry) ==
  IF Len(entry.text) # 1 THEN <<>>
  ELSE <<[steps |-> steps, char |-> entry.text[1], dead |-> entry.dead]>>

RowResults(strokes, entries) ==
  FlattenSeq([i \in DOMAIN strokes |-> Result(strokes[i], entries[i])])

\* strokes are those that asked for each entry of each row.
Results(block, marker, strokes) ==
  FlattenSeq([r \in DOMAIN strokes |->
                RowResults(strokes[r],
                           ReadRow(block[r], Len(strokes[r]), marker))])

\* Nothing, unless there are as many rows as were typed.
ReadCapture(lines, strokes) ==
  IF IsCapture(lines) /\ Len(Block(lines)) = Len(strokes)
    THEN Results(Block(lines), MarkerOf(lines), strokes) ELSE <<>>

ParseCapture(text) ==
  ReadCapture(TextLines(text),
              [r \in DOMAIN Expected |->
                 [i \in DOMAIN Expected[r].positions |->
                    <<Press(Expected[r].positions[i], Expected[r].mods)>>]])

DeadKeyCandidates(results) ==
  LET deads == SelectSeq(results, LAMBDA r : Len(r.steps) = 1 /\ r.dead)
  IN  [i \in DOMAIN deads |-> [stroke |-> deads[i].steps[1],
                               accent |-> deads[i].char]]

NotDead(results) ==
  [i \in DOMAIN results |-> [results[i] EXCEPT !.dead = FALSE]]

\* parse_compositions: two characters back are two keys that do not compose
ParseCompositions(text, candidates) ==
  NotDead(ReadCapture(TextLines(text),
                      [r \in DOMAIN candidates |->
                         [i \in DOMAIN Bases |->
                            <<candidates[r].stroke, Bases[i]>>]]))

-----------------------------------------------------------------------------
(***************************************************************************)
(* What is made of it: to_layout, add_quote_aliases and render.            *)
(***************************************************************************)
Modifiers(steps) ==
  FoldLeft(LAMBDA n, step : n + Cardinality(step.mods), 0, steps)

\* _cost, compared: fewer keystrokes first, then fewer modifiers
Cheaper(s, t) ==
  \/ Len(s) < Len(t)
  \/ Len(s) = Len(t) /\ Modifiers(s) < Modifiers(t)

\* Of several ways the cheapest, and the first of equals.
Cheapest(ways) ==
  LET i == CHOOSE i \in DOMAIN ways :
             /\ \A j \in DOMAIN ways : ~Cheaper(ways[j], ways[i])
             /\ \A j \in 1..i - 1 : Cheaper(ways[i], ways[j])
  IN  ways[i]

Layout(usable) ==
  [c \in {usable[i].char : i \in DOMAIN usable} |->
     LET ways == SelectSeq(usable, LAMBDA r : r.char = c)
     IN  Cheapest([i \in DOMAIN ways |-> ways[i].steps])]

\* Mutant: a dead key taken for a way to type its accent.
MutToLayout(results) ==
  Layout(SelectSeq(results, LAMBDA r : r.char \notin {Space, Newline}))

\* A dead key types nothing, and whitespace has keys of its own.
ToLayout(results) ==
  Layout(SelectSeq(results, LAMBDA r : ~r.dead /\ r.char \notin {Space, Newline}))

Straight == "'"
Curlies  == <<"closing", "opening">>

\* A straight quote no key types is typed by the key of a curly one.
AddQuoteAliases(layout) ==
  LET curly == SelectSeq(Curlies, LAMBDA c : c \in DOMAIN layout)
  IN  IF Straight \in DOMAIN layout \/ curly = <<>> THEN layout
      ELSE (Straight :> Cheapest([i \in DOMAIN curly |-> layout[curly[i]]])) @@ layout

Render(layout, deads) ==
  {[kind |-> "char", char |-> c, steps |-> layout[c]] : c \in DOMAIN layout}
    \cup {[kind |-> "dead", steps |-> <<deads[i].stroke>>] : i \in DOMAIN deads}

LayoutFile(results) ==
  Render(AddQuoteAliases(ToLayout(results)), DeadKeyCandidates(results))

(***************************************************************************)
(* cli.import_sweep: a capture is of a layout if it reads as one, and of   *)
(* accents if it does not.  No file comes of captures it cannot read, nor  *)
(* of accents without the layout that says whose they are.                 *)
(***************************************************************************)
ImportSweep(texts) ==
  LET parsed     == [i \in DOMAIN texts |-> ParseCapture(texts[i])]
      candidates == DeadKeyCandidates(FlattenSeq(parsed))
      composed   == [i \in DOMAIN texts |->
                       IF parsed[i] # <<>> THEN <<>>
                       ELSE ParseCompositions(texts[i], candidates)]
  IN  IF \E i \in DOMAIN texts : parsed[i] = <<>> /\ composed[i] = <<>> THEN {}
      ELSE LayoutFile(FlattenSeq(parsed \o composed))
=============================================================================
