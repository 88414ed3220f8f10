SPECIFICATION CopySpec
CONSTANTS
  s1 = s1  a = a
  Entry = {s1, a}
  Units <- MCUnits
  Size <- MCSize
  Concurrency = 2
  HasTarget = TRUE
  MaxLen = 1
  MaxIntrusions = 1
INVARIANTS
  ExistingFileKept
  OutcomeMatchesFiles
