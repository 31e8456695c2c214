CONSTANTS
  Procs = {p1, p2}
  NFILES = 2
  Slots = {f1, f2}
  Regs = {r}
  Dirs = {d}
  Chrs = {}
  MaxLen = 1
  MaxLeaks = 1
  Flags <- OpenFlags
  Sizes = {1}
  Seeks <- Offsets
  Null = Null
SPECIFICATION Spec
SYMMETRY Symmetry
CHECK_DEADLOCK FALSE
INVARIANTS  VnodesHeld 
PROPERTIES  WritesEndInFile
