CONSTANTS
  g1 = g1
  g2 = g2
  g3 = g3
  Goroutines = {g1, g2}
  Programs = {"write", "syncAllDatabases"}
  None = None
SPECIFICATION Spec
INVARIANTS NoCircularWait
