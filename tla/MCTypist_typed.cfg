CONSTANTS
  Letters <- MCLetters
  Esc <- MCEsc
  Rest <- MCRest
  Arrow <- MCArrow
  Positions <- MCPositions
  Physical = "x"
  Modifier = "shift"
  MaxChunk = 2
  QueueLimit = 2
  MaxAsked = 3
  MaxPolls = 2
  Environment = {"linkloss"}
SPECIFICATION FairSpec
INVARIANTS LinkGivenBack
PROPERTIES PromiseKept DoneIsWhole EscapeDecided ReleasesApart
