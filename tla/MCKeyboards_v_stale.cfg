CONSTANTS
  k1 = k1
  k2 = k2
  k3 = k3
  Path = {k1, k2}
  ModKey = {}
  Environment = {"hotplug", "waitplug"}
SPECIFICATION Spec
INVARIANTS WatchedIsOpen
