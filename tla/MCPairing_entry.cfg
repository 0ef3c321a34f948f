CONSTANTS
  MaxCalls = 3
  Lengths = {1, 2}
  Environment = {"retry"}
SPECIFICATION FairSpec
INVARIANTS PromptIsLive OneAnswerEach TimeoutIsOfEntry
PROPERTIES EveryCallSettled
CHECK_DEADLOCK FALSE
