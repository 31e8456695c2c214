SPECIFICATION Spec
CONSTANTS
  USER_LOW = 1
  USER_HIGH = 5
  PAGE_SIZE = 2
  Files = {f1}
  Anons = {bss, a1}
  Bss = bss
  Offsets = {1}
  Prots = {{"r", "w"}}
  p_start_brk = 3
  Touched = {3}
  Null = Null
SYMMETRY Symmetry
INVARIANTS
  AreasSorted
  PtFresh
  CopySafe
  FindRangeHighest
  FreedUnmapped
PROPERTY ImplementsAddrSpace
