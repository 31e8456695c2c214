SPECIFICATION FairSpec
CONSTANTS
  Pages = {p1, p2}
  Frames = {f1}
  Values = {v0}
  Zero = v0
  Junk = junk
  Clients = {t1, t2}
  Pageoutd = pageoutd
  Idle = idle
  Failures = {"fill", "dirty", "clean"}
  Null = Null
PROPERTIES
  WaiterWoken
  ShutdownCompletes
