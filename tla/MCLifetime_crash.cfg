CONSTANTS
  Instance = {i1, i2}
  Keyboard = {k1}
  Rate = {r1, r2}
  Off = off
  None = none
  Environment = {"crash"}
SPECIFICATION Spec
INVARIANTS OneAtATime OneDaemon PutBack NoStaleDebt
