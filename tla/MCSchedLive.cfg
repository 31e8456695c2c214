SPECIFICATION FairSpec
CONSTANTS
  Threads = {t1, t2, t3}
  FirstThread = t1
  Mutexes = {m1}
  SoftQueues = {}
  DevQueues = {d1}
  Cancellers = {}
  RunQ = runq
  Null = Null
PROPERTIES
  RunnableRuns
  WaiterGetsMutex
  SleeperWoken
