SPECIFICATION FairSpec
CONSTANTS
  i1 = i1
  i2 = i2
  Items <- TwoItems
  Unreadable = Unreadable
  Last = 5
  Shards <- FewShards
  StreamBatch = 5
  ChunkSize = 2
  InFlight = 2

INVARIANTS
  TypeOK
PROPERTIES
  ImplementsContract
  GoesBackToAFailure
  PublishReturns
CHECK_DEADLOCK FALSE
