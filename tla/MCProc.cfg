SPECIFICATION Spec
CONSTANTS
  Procs = {idle, init, pageoutd, p1, p2}
  Idle = idle
  InitProc = init
  Pageoutd = pageoutd
  PROC_MAX_COUNT = 6
  CleanupBlocks = TRUE
  Null = Null
SYMMETRY Symmetry
INVARIANTS
  PidsUnique
  FamilyConsistent
  InitLast
  NoMissedExit
PROPERTY NoFault
