CONSTANTS
  a = a
  b = b
  Databases = {d, e}
  Default = d
  Public = p
  Unassigned = none
  Measurements = {m1, m2}
  Shapes <- TwoShapes
  NoTable = NoTable
  NoWrite = NoWrite
  MayFail <- Failing
  MayDie <- Resumed
  MaxFaults = 2
SPECIFICATION Spec
INVARIANTS OldDataServed Writable RestartForgetsNothing PoliciesStored
PROPERTIES ComesUp
