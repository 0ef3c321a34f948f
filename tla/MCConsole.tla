------------------------------ MODULE MCConsole ------------------------------
(* The source's five seconds against ten, and a console beside ours.       *)
EXTENDS Console
=============================================================================
