------------------------------ MODULE TypedText ------------------------------
(***************************************************************************)
(* What typing text on the phone promises (typist.py, sweep.py): the phone *)
(* hears the strokes asked for, each once and in their order, as far as it *)
(* gets; only what it has not heard yet can be given up, and then all of   *)
(* it.                                                                     *)
(***************************************************************************)
EXTENDS Naturals, Sequences

CONSTANT Stroke

VARIABLES
  asked,  \* the strokes asked for, but for those given up
  heard   \* the strokes the phone has heard, or had down from the keyboard

Init == asked = <<>> /\ heard = <<>>

Ask ==
  /\ \E n \in 1..Len(asked') - Len(asked) :
       /\ Len(asked') = Len(asked) + n
       /\ SubSeq(asked', 1, Len(asked)) = asked
  /\ UNCHANGED heard

Hear ==
  /\ Len(heard) < Len(asked)
  /\ heard' = Append(heard, asked[Len(heard) + 1])
  /\ UNCHANGED asked

GiveUp == asked' = heard /\ UNCHANGED heard

Next == Ask \/ Hear \/ GiveUp

Spec == Init /\ [][Next]_<<asked, heard>>
=============================================================================
