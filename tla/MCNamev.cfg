CONSTANTS
  Procs = {p1, p2}
  i1 = i1
  i2 = i2
  i3 = i3
  Inodes = {root, i1, i2, i3}
  Root = root
  Names = {"a", "b"}
  LongNames = {"long"}
  Paths <- SomePaths
  ToPaths <- NewPaths
  InitNode <- Tree
  MaxLeaks = 1
  MaxCalls = 3
  Null = Null
SPECIFICATION Spec
SYMMETRY Symmetry
CHECK_DEADLOCK FALSE
INVARIANTS NodesHeld WalksComponents
PROPERTIES OnlyTargetsLeak
