SPECIFICATION FairSpec
CONSTANTS
  Panels = {p1}
  MaxEvents = 2
  Evict = 1
  SnapshotCap = 1
  ReseedCap = 2
  LiveWindow = 2
  EvictChunk = 1
  MaxPushed = 3
  MaxQueue = 3
  MaxOutages = 1
  MaxFades = 1
  MaxMissed = 1
  Kinds <- EveryHandler
INVARIANTS ViewInStep HistoryIsATail
PROPERTY RemovalsReachTheClient
CHECK_DEADLOCK FALSE
