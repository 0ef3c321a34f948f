------------------------------ MODULE MCTypist ------------------------------
(* A letter with and without Shift, and a sweep of its key and another's.  *)
EXTENDS Typist

MCLetters   == {[mods |-> {}, key |-> "x"], [mods |-> {"shift"}, key |-> "x"]}
MCEsc       == [mods |-> {}, key |-> "esc"]
MCRest      == [mods |-> {}, key |-> "bracket"]
MCArrow     == [mods |-> {}, key |-> "up"]
MCPositions == <<[mods |-> {}, key |-> "x"], [mods |-> {"shift"}, key |-> "q"]>>
=============================================================================
