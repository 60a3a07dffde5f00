CONSTANTS
  d1 = d1
  auto = auto
  p = p
  q = q
  Dbs = {d1}
  Names = {auto, p, q}
  Autogen = auto
  NoPolicy = NoPolicy
  Invalid = Invalid
  Omitted = Omitted
  Durations <- PlainDurations
  Shards = {}
  MinRetention = 15
  ClauseErrors = {Invalid}
  Faults = {"fails", "reloadFails", "crash"}
SPECIFICATION Spec
INVARIANTS TypeOK OneDefaultRow ClearedBeforeGranted CachedIsStored
