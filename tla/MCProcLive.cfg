SPECIFICATION FairSpec
CONSTANTS
  Procs = {idle, init, pageoutd, p1, p2}
  Idle = idle
  InitProc = init
  Pageoutd = pageoutd
  PROC_MAX_COUNT = 5
  CleanupBlocks = FALSE
  Null = Null
PROPERTIES
  HaltKills
  WaitReturns
  InitExitHalts
