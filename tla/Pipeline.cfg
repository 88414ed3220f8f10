SPECIFICATION Spec
CONSTANTS
  x = x  y = y  Y = Y  Docs = Docs  docs = docs  media = media  con = con
  File = {x, y, Y}
  Dir = {Docs, docs, media, con}
  Above <- MCAbove
  Key <- MCKey
  TooLarge = {Y}
  Reserved = {con}
  Mounts <- MCMounts
  Concurrency = 2
INVARIANTS
  EveryDirAccounted
  NoSilentReplacement
  KeepsPromise
