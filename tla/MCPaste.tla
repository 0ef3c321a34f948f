------------------------------- MODULE MCPaste -------------------------------
(* Two rows at two levels.  The key of the marker makes "1"; on each phone  *)
(* whose other four positions make what they may, a character is typed;     *)
(* on one phone, texts with sequences in them.                              *)
EXTENDS Paste

MCRows   == <<<<"one", "a">>, <<"d">>>>
MCLevels == <<{}, {"shift"}>>
MCBases  == <<Stroke("space", {}), Stroke("a", {}), Stroke("a", {"shift"})>>
MCScan ==
  <<Stroke("one", {}), Stroke("enter", {}), Stroke("a", {}), Stroke("d", {}),
    Stroke("space", {}),
    Stroke("one", {"shift"}), Stroke("a", {"shift"}), Stroke("d", {"shift"})>>

\* The code points, and the keysyms as KDGKBENT gives them: "a" is a letter,
\* the curly quote a bare code point.
MCGlyph ==
  (32 :> " ") @@ (39 :> "'") @@ (49 :> "1") @@ (94 :> "^") @@ (97 :> "a")
    @@ (8216 :> "opening") @@ (8217 :> "closing") @@ (2913 :> "oriya")
MCCode ==
  (Silent :> 512) @@ (Makes("dead", "^") :> 1026) @@ (Makes("dead", "'") :> 1025)
    @@ (Makes("char", " ") :> 32) @@ (Makes("char", "'") :> 39)
    @@ (Makes("char", "1") :> 49) @@ (Makes("char", "^") :> 94)
    @@ (Makes("char", "a") :> 2913) @@ (Makes("char", "closing") :> 53273)
    @@ (Makes("char", "opening") :> 53272)
    @@ (Makes("char", Newline) :> 513)

MCDiacritic(d, b, r) == [diacritic |-> d, base |-> b, result |-> r]
MCDiacritics ==
  <<MCDiacritic("^", "a", "a^"), MCDiacritic("'", "a", "a'"),
    MCDiacritic("'", " ", "'")>>
MCComposed == (<<"^", "a">> :> "a^") @@ (<<"'", "a">> :> "a'")

\* A console that types "a" where the phone may have anything else.
MCOther ==
  [p \in ToSet(MCScan) |-> IF p = Stroke("d", {}) THEN 2913 ELSE 512]

MCKeys(f) ==
  [p \in {"one", "a", "d"} \X {{}, {"shift"}} |->
     CASE p = <<"one", {}>>        -> Makes("char", "1")
       [] p = <<"one", {"shift"}>> -> Silent
       [] OTHER                    -> f[p]]
MCMakes ==
  {Silent, Makes("dead", "^"), Makes("dead", "'")}
    \cup {Makes("char", c) : c \in {"1", "a", "^", "'", "closing", "opening"}}
MCMay ==
  (<<"a", {}>> :> {Silent, Makes("dead", "^"), Makes("char", "a"), Makes("char", "'")})
    @@ (<<"a", {"shift"}>> :>
          {Silent, Makes("dead", "'"), Makes("char", "1"), Makes("char", "closing")})
    @@ (<<"d", {}>> :> MCMakes)
    @@ (<<"d", {"shift"}>> :>
          {Silent, Makes("dead", "^"), Makes("char", "^"), Makes("char", "closing")})
MCPhones ==
  [keys : {MCKeys(f) : f \in {g \in [DOMAIN MCMay -> MCMakes] :
                                 \A p \in DOMAIN MCMay : g[p] \in MCMay[p]}},
   composes : BOOLEAN, smart : BOOLEAN, room : {1},
   alphabet : {{"1", "a", "^", "'", "closing", "a^", "a'"}}]
MCPlain ==
  [p \in {"a", "d"} \X {{}, {"shift"}} |-> Makes("char", "a")]
MCTexts ==
  [keys : {MCKeys(MCPlain)}, composes : {TRUE}, smart : {FALSE}, room : {5},
   alphabet : {{Esc, "[", "O", "1", ";", "~", "A"}}]
MCCases == {p \in MCPhones : p.smart => p.composes} \cup MCTexts
=============================================================================
