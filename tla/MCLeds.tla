------------------------------- MODULE MCLeds -------------------------------
(* Two hosts, and two lock keys and reports on their way at once.          *)
EXTENDS Leds
=============================================================================
