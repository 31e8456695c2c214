SPECIFICATION Spec
CONSTANTS
  Threads = {t1, t2, t3}
  FirstThread = t1
  Mutexes = {m1}
  SoftQueues = {s1}
  DevQueues = {d1}
  Cancellers = {t1, t2, t3}
  RunQ = runq
  Null = Null
SYMMETRY Symmetry
INVARIANTS
  SchedInv
  NoHaltWithWork
  LockedIsHolder
