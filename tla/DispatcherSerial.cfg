SPECIFICATION EtaSpec
CONSTANTS
  s1 = s1  a = a  b = b  s2 = s2
  Entry = {s1, a, b, s2}
  Units <- MCUnits
  Size <- MCSize
  Concurrency = 0
  HasTarget = TRUE
  MaxLen = 2
  Threshold = 0
  Directories = 1
  Orphans = 1
  CoarseClock = FALSE
INVARIANTS
  TypeOK
  SerialStop
  CountsFollowEngine
PROPERTIES
  EstimateLastsWithWork
  Termination
