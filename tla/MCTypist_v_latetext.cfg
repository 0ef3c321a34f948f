CONSTANTS
  Letters <- MCLetters
  Esc <- MCEsc
  Rest <- MCRest
  Arrow <- MCArrow
  Positions <- MCPositions
  Physical = "x"
  Modifier = "shift"
  MaxChunk = 2
  QueueLimit = 4
  MaxAsked = 3
  MaxPolls = 2
  Environment = {"latetext"}
SPECIFICATION Spec
INVARIANTS AllHeard
