CONSTANTS
  k1 = k1
  k2 = k2
  k3 = k3
  Path = {k1, k2, k3}
  ModKey = {k2, k3}
  Environment = {"hotplug", "other", "nomonitor"}
SPECIFICATION Spec
INVARIANTS WatchedIsOpen EveryKeyboardTaken ConsoleKeepsNoKey NothingSticks
