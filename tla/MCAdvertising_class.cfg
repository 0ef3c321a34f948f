CONSTANTS
  none = none
  wanted = wanted
  richer = richer
  plain = plain
  capture = capture
  Classes = {wanted, richer, plain, capture}
  Wanted = wanted
  Good = {wanted, richer}
  NoClass = none
  MaxMoves = 3
  ClassEnvironment = {"lost", "nowatch", "unreadable"}
SPECIFICATION FairClassSpec
INVARIANTS NothingForgotten
PROPERTIES IsPutBack
CHECK_DEADLOCK FALSE
