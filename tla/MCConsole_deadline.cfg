CONSTANTS
  Heartbeat = 5
  Deadline = 10
  MaxPipe = 3
  MaxBlock = 4
  MaxTeardown = 20
  Environment = {"hang", "takehang", "lasthang", "crash"}
  VT = {ours, other}
  Ours = ours
  None = none
  VTEnvironment = {}
SPECIFICATION ConsoleFairSpec
CHECK_DEADLOCK FALSE
INVARIANTS SparesTheLiving HangIsBounded BackgroundIsLeftAlone NoNewsIsMissed
PROPERTIES FollowsTheConsole
