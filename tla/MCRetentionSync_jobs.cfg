CONSTANTS
  d1 = d1
  d2 = d2
  t1 = t1
  t2 = t2
  h1 = h1
  h2 = h2
  w1 = w1
  w2 = w2
  auto = auto
  p = p
  q = q
  Loop = Loop
  Dbs = {d1}
  Names = {auto, p}
  Autogen = auto
  NoPolicy = NoPolicy
  Invalid = Invalid
  Omitted = Omitted
  Durations <- ShortOrInfinite
  Shards = {}
  MinRetention <- QuarterHour
  ClauseErrors = {}
  Faults = {}
  Word <- LargeWord
  Tables = {t1}
  DbOf <- InOne
  DefaultDb = d1
  Handlers = {h1, h2}
  Writers = {w1}
  NoJob = NoJob
  Ops = {"create", "alter", "setDefault", "drop", "write"}
  SyncFaults = {}
  MaxFaults = 0
  MaxRequests = 5
SPECIFICATION SyncSpec
INVARIANTS NoStaleJob
SYMMETRY Sym
