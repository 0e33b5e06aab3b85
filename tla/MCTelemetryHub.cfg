SPECIFICATION FairSpec
CONSTANTS
  full = full
  slow = slow
  Value <- Tick
  RequestedCapacity = 2
  MaxTotal = 4
  Subs = {full, slow}
  QueueCapacity = 2
  Hz <- MCHz
INVARIANTS
  RingTypeOK
  LastNIsLatest
  TypeOK
  Conservation
  HistoryComplete
PROPERTIES
  ImplementsHistory
  Pacing
  PublishReturns
  CancelledStreamEnds
CHECK_DEADLOCK FALSE
