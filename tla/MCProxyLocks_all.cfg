CONSTANTS
  g1 = g1
  g2 = g2
  g3 = g3
  Goroutines = {g1, g2, g3}
  Programs <- Everything
  None = None
SPECIFICATION Spec
SYMMETRY Sym
INVARIANTS TypeOK MapsGuarded OnlySyncBlocks
CHECK_DEADLOCK FALSE
