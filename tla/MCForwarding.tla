---- MODULE MCForwarding ----
EXTENDS Forwarding
CONSTANTS a, esc, f1, alt, ctrl, vol
MCTopRow == [f \in Fn |-> vol]
====
