CONSTANTS
  Rows <- MCRows
  Levels <- MCLevels
  Bases <- MCBases
  Mark = "one"
  SentinelLength = 8
  Scan <- MCScan
  Glyph <- MCGlyph
  Cases <- MCCases
  Other <- MCOther
  Diacritics <- MCDiacritics
  Composed <- MCComposed
  Code <- MCCode
  MaxChunk = 2
  Environment = {}
SPECIFICATION Spec
CHECK_DEADLOCK FALSE
INVARIANTS LayoutIsThePhones PhoneReads
