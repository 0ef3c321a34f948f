---- MODULE MCStrays ----
EXTENDS Strays
CONSTANTS a, esc, f1, alt, ctrl, vol
MCTopRow == [f \in Fn |-> vol]
====
