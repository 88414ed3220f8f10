SPECIFICATION Spec
CONSTANTS
  f = f  g = g
  File = {f, g}
  Single = f
  Intrusions = 0
  MayAlias = TRUE
INVARIANTS
  IdenticalDestLeftAlone
