SPECIFICATION Spec
CONSTANTS
  s1 = s1  a = a  b = b  s2 = s2
  Entry = {s1, a, b, s2}
  Units <- MCUnits
  Size <- MCSize
  Concurrency = 2
  HasTarget = TRUE
  MaxLen = 1
  MaxEntries = 4
  MaxSize = 3
  Configs <- MCConfigs
INVARIANTS
  PermitConservation
  OneVerdict
  OutcomeTellsEffects
  PlanIsRight
PROPERTIES
  ImplementsPromise
