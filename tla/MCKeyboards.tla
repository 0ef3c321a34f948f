----------------------------- MODULE MCKeyboards -----------------------------
(* Two or three places a keyboard may appear at, modifier keys on some.     *)
EXTENDS Keyboards

CONSTANTS k1, k2, k3
=============================================================================
