CONSTANTS
  a = a
  esc = esc
  f1 = f1
  alt = alt
  ctrl = ctrl
  vol = vol
  Plain = {esc}
  Esc = esc
  Fn = {f1}
  Mods = {alt}
  Alts = {alt}
  Ctrls = {}
  Media = {vol}
  Keyboard = {esc, f1, alt}
  TopRowMedia <- MCTopRow
  ErrorRollOver = ErrorRollOver
  NoUsage = NoUsage
  Slots = 1
  MaxRead = 2
  Capacity = 2
  Environment = {"idleloss", "pairing", "toprow"}
SPECIFICATION Spec
INVARIANTS ReportIsCurrent EveryModifierKnown
