SPECIFICATION Spec
CONSTANTS
  Pages = {p1, p2}
  Frames = {f1, f2}
  Values = {v0, v1}
  Zero = v0
  Junk = junk
  Clients = {t1, t2}
  Pageoutd = pageoutd
  Idle = idle
  Failures = {"fill", "clean"}
  Null = Null
SYMMETRY Symmetry
INVARIANTS
  FramesListed
  BusyOwned
  
  
  NoKassert
