--------------------------- MODULE MCAdvertising ----------------------------
(* The wanted class, one with more bits, one with none of its service      *)
(* bits, and one with some.                                                *)
EXTENDS Advertising
CONSTANTS none, wanted, richer, plain, capture
=============================================================================
