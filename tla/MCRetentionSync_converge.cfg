CONSTANTS
  d1 = d1
  d2 = d2
  t1 = t1
  t2 = t2
  h1 = h1
  h2 = h2
  w1 = w1
  w2 = w2
  auto = auto
  p = p
  q = q
  Loop = Loop
  Dbs = {d1, d2}
  Names = {auto, p}
  Autogen = auto
  NoPolicy = NoPolicy
  Invalid = Invalid
  Omitted = Omitted
  Durations <- ShortOrInfinite
  Shards = {}
  MinRetention <- QuarterHour
  ClauseErrors = {}
  Faults = {}
  Word <- LargeWord
  Tables = {t1, t2}
  DbOf <- InTwo
  DefaultDb = d1
  Handlers = {h1}
  Writers = {w1}
  NoJob = NoJob
  Ops = {"create", "alter", "setDefault", "drop", "dropAutogen", "dropDb", "write"}
  SyncFaults = {"timeout", "error", "restart"}
  MaxFaults = 1
  MaxRequests = 2
SPECIFICATION SyncLiveSpec
INVARIANTS SyncTypeOK
 
