-------------------------------- MODULE Strays --------------------------------
(***************************************************************************)
(* Forwarding, with a history of the keys the phone was told of and may    *)
(* never be told are up: those whose release goes to a pairing, those the  *)
(* function row gives another meaning while they are held, and those       *)
(* pressed in the rest of a read that gave the console up.  With it, what  *)
(* sticks on the phone, and what a console in the background hears, is     *)
(* said key by key, whatever cuts into a keystroke.                        *)
(***************************************************************************)
EXTENDS Forwarding

VARIABLE stray   \* the keys that the phone may go on believing down

strayVars == <<vars, stray>>

-----------------------------------------------------------------------------
\* This step gives an event to handle_key.
Handled == reading' < reading

\* It may strand the key: the entry takes its release; or the console has
\* been given up, and its release will go elsewhere.
Stranded ==
  IF Handled /\ ((pairing /\ ~Press) \/ (~foreground /\ Press /\ ~Chord))
    THEN {Key} ELSE {}

\* A function row that changes strands the function keys that are down.
Renamed == IF topRow' # topRow THEN pressed \cap Fn ELSE {}

\* A key reported as itself is heard of again.
Recovered ==
  IF Handled /\ ~pairing /\ ~Chord /\ CodeOf(Key) = Key THEN {Key} ELSE {}

AllReleased == phone' = Nothing /\ pressed' = {} /\ modifiers' = {}

StrayNext ==
  /\ Next
  /\ stray' = IF AllReleased THEN {}
              ELSE (stray \ Recovered) \cup Stranded \cup Renamed

StraySpec == Init /\ stray = {} /\ [][StrayNext]_strayVars

StrayFairSpec == StraySpec /\ Fairness
-----------------------------------------------------------------------------
(***************************************************************************)
(* Properties.                                                             *)
(***************************************************************************)

\* Nothing sticks on the phone (release_all, keyboard_gone): whatever the
\* phone believes down - a key, a modifier or a consumer usage - some key
\* is physically down for it, or its release is still to be handled, or it
\* is one of the keys whose release was taken from it.
NothingSticks ==
  LET Owns(k) == Held(k) \/ k \in stray
  IN  /\ \A k \in phone.keys \ {ErrorRollOver} : Owns(k)
      /\ \A k \in phone.mods : Owns(k)
      /\ phone.usage # NoUsage =>
           \E k \in Codes : Owns(k) /\ phone.usage = CodeOf(k)

\* With another console in front, the phone holds nothing (set_foreground)
\* but what the rest of the very read that gave the console up pressed.
BackgroundSilent ==
  ~foreground =>
    /\ phone.keys \in {Usages(p) : p \in SUBSET stray}
    /\ phone.mods \subseteq stray
    /\ phone.usage # NoUsage => \E k \in stray : phone.usage = CodeOf(k)
=============================================================================
