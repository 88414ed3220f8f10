SPECIFICATION Spec
CONSTANTS
  root = root  a = a  b = b  old = old  c = c  link = link
  dirlink = dirlink  through = through  loop = loop  bad = bad
  Order <- MCOrder
  Kind <- MCKind
  Depth <- MCDepth
  Above <- MCAbove
  Object <- MCObject
  Target <- MCTarget
  Ext <- MCExt
  Modified <- MCModified
  Excluded <- MCExcluded
  BadPattern = {bad}
  Content = {"empty", "x", "y", "zz"}
  SizeOf <- MCSizeOf
  Disks <- MCDisks
  Queries <- MCQueries
  Now = 400
  Flaky = {root, old, b, c}
  Changes <- MCChanges
  Edits = 1
  Calls = 2
  RemoveOptions <- MCRemoveOptions
  AnalysisOptions <- MCAnalysisOptions
INVARIANTS
  OnlyAskedGo
  RemovalTold
  Exact
  Duplicates
  PreviewForetells
PROPERTIES
  CallsEnd
