SPECIFICATION Spec
CONSTANTS
  f = f  g = g
  File = {f, g}
  Single = f
  Intrusions = 2
  MayAlias = FALSE
INVARIANTS
  NoFileLost
  GoneIsReported
  UndoPutsBack
  
  CleanMoveMovesAll
