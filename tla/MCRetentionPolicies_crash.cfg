CONSTANTS
  d1 = d1
  d2 = d2
  auto = auto
  p = p
  Dbs = {d1, d2}
  Names = {auto, p}
  Autogen = auto
  NoPolicy = NoPolicy
  Invalid = Invalid
  Omitted = Omitted
  Durations <- PlainDurations
  Shards = {1}
  MinRetention = 15
  ClauseErrors = {}
  Faults = {"crash", "reloadFails"}
SPECIFICATION Spec
INVARIANTS CacheMatchesTable HalfwayInStep
PROPERTIES PerDatabaseIsolation ImplementsRegistry
