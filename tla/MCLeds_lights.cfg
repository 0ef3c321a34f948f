CONSTANTS
  Host = {h1, h2}
  None = none
  Environment = {"crossing"}
  LedEnvironment = {"consolelock"}
  MaxFlight = 2
SPECIFICATION LedsFairSpec
INVARIANTS OneHost AnnouncedIsConnected
INVARIANTS LockIsKnown LightIsTheOwners NothingCarriedOver
PROPERTIES SecondHostRefused DialSettles
