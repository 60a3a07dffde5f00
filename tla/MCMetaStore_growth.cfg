CONSTANTS
  p1 = p1
  p2 = p2
  d1 = d1
  m1 = m1
  m2 = m2
  a = a
  b = b
  g = g
  Procs = {p1, p2}
  Dbs = {d1}
  Measurements = {m1, m2}
  Columns = {a, b, g}
  Tags = {g}
  Batches <- TaggedShapes
  None = None
  Ops = {"write", "createDb"}
  Faults = {"schemaFails", "dbRowFails", "alterFails", "tableFails", "insertFails", "crash"}
SPECIFICATION Spec
SYMMETRY Sym
INVARIANTS KnownHasSchema StoredInHypertables ColumnsRecorded AckedIsStored
