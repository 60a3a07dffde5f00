CONSTANTS
  p1 = p1
  d1 = d1
  m1 = m1
  m2 = m2
  a = a
  b = b
  g = g
  Procs = {p1}
  Dbs = {d1}
  Measurements = {m1}
  Columns = {a, b}
  Tags = {g}
  Batches <- TwoShapes
  None = None
  Ops = {"write", "dropMeasurement"}
  Faults = {}
SPECIFICATION Spec
INVARIANTS ColumnsRecorded
