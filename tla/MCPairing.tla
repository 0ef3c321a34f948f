------------------------------ MODULE MCPairing ------------------------------
(* Passkeys of one or two digits, asked for three times.                   *)
EXTENDS Pairing
=============================================================================
