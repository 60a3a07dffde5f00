CONSTANTS
  p1 = p1
  p2 = p2
  d1 = d1
  m1 = m1
  m2 = m2
  a = a
  b = b
  g = g
  Procs = {p1, p2}
  Dbs = {d1}
  Measurements = {m1}
  Columns = {a, b}
  Tags = {g}
  Batches <- TwoShapes
  None = None
  Ops = {"write", "createDb", "dropDb", "dropMeasurement"}
  Faults = {"schemaFails", "metaFails", "tableFails", "dropFails"}
SPECIFICATION LiveSpec
INVARIANTS MutexHeld CachedAreColumns TypeOK
PROPERTIES Answered ImplementsCatalog
