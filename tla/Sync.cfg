SPECIFICATION Spec
CONSTANTS
  nfc = nfc  nfd = nfd  w = w  lower = lower  upper = upper
  x = x  y = y
  Name = {nfc, nfd, w}
  Data = {x, y}
  Nfc <- MCNfc
  Key <- MCKey
  Mounts <- MCMounts
  SizeOf <- MCSizeOf
  Sources0 <- MCSources0
  Dests0 <- MCDests0
  MaxTime = 2
  MaxEdits = 1
  MaxRounds = 2
INVARIANTS
  SweepOnlyWhenWhole
  MirrorsAfterClean
PROPERTIES
  LiveKept
  Converges
