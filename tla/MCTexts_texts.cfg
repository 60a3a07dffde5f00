CONSTANTS
  Word = 200000000
  Numbers <- SmallNumbers
  Lengths <- PlainLengths
  Times <- Milliseconds
  Words = {"DURATION", "REPLICATION", "SHARD", "DEFAULT", "WHERE"}
  Names <- EscapedNames
  Strings <- ShortStrings
  Fields = {"a", "B"}
  Tags = {"host", "Zone"}
  LowerCase <- Capitals
  Tables <- SmallTables
  Width = 2
SPECIFICATION TextsSpec
INVARIANTS CompressedBeforeDropped ChunkWithinRetention ShardIsKept ReportedShardFits WindowsPartition WrongAtTheEndsOnly ClausesAreRead LineIsRead NoFieldIsLost SelectNeverMisleads SelectIsAnswered
