----------------------------- MODULE MCLifetime -----------------------------
(* Two btkeys, a keyboard, and two repeats to set it to.                   *)
EXTENDS Lifetime
=============================================================================
