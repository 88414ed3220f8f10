SPECIFICATION Spec
CONSTANTS
  a = a  b = b  c = c  d = d
  Entry = {a, b, c, d}
  Units <- MCUnits
  Concurrency = 2
INVARIANTS
  MemoryBounded
  ArchiveMatchesOutcome
  CancelLosesNothing
PROPERTIES
  Termination
