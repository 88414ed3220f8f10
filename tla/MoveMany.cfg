SPECIFICATION BatchSpec
CONSTANTS
  f = f  g = g  h = h  first = first  folder = folder  empty = empty
  File = {f, g, h}
  Sources <- Three
  FilesOf <- MCFilesOf
  Plain = {first}
INVARIANTS
  LaterSourcesUntouched
  RenamesTakenBack
  EverySourceAnswered
