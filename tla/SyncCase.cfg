SPECIFICATION Spec
CONSTANTS
  nfc = nfc  nfd = nfd  w = w  lower = lower  upper = upper
  x = x  y = y
  Name = {lower, upper}
  Data = {x, y}
  Nfc <- MCNfc
  Key <- MCKey
  Mounts <- CaseMounts
  SizeOf <- MCSizeOf
  Sources0 <- CaseSources0
  Dests0 <- CaseDests0
  MaxTime = 2
  MaxEdits = 1
  MaxRounds = 2
INVARIANTS
  PhasesDisjoint
