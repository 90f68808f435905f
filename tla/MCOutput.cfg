CONSTANTS
  MinLatency = 2
  MaxLatency = 4
  MaxChunks = 5
SPECIFICATION FairSpec
INVARIANTS
  TypeOK
  NothingLostOrReordered
  NoChunkStranded
  DeadlineKept
PROPERTIES
  FinalOutputShown
  FeedSpec
  EveryChunkShown
