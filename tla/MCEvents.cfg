SPECIFICATION FairSpec
CONSTANTS
  Publishers = {"switch", "watch"}
  Streams = {s1}
  QueueCapacity = 1
  MaxEvents = 3
  MaxSwitches = 1
  MaxChanges = 2
INVARIANTS
  OnceOrDropped
  NoneSkipped
  RealTimeOrder
  StopIsFinal
PROPERTIES
  StopReturns
  ChangeAnnounced
CHECK_DEADLOCK FALSE
