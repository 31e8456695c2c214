SPECIFICATION Spec
CONSTANTS
  Procs = {p1, p2}
  FirstProc = p1
  NPages = 3
  MapRanges <- Whole
  UnmapRanges <- Middle
  Touched = {3}
  Slots = {o1, o2, o3, o4}
  File = file
  Content = v2
  Values = {v0, v1, v2}
  Zero = v0
  Stored = {v1}
  Kinds <- MappedKinds
  Null = Null
SYMMETRY Symmetry
CHECK_DEADLOCK FALSE
INVARIANTS
  RefsExact
  NothingLeaks
  LoadsAreOwn
PROPERTIES
  
  ImplementsCowMem
