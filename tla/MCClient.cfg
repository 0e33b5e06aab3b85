SPECIFICATION FairSpec
CONSTANTS
  MaxRestarts = 1
  MaxPosted = 2
INVARIANT
  CleanExit
PROPERTIES
  StatusFollows
  StreamsResume
  QuitEnds
CHECK_DEADLOCK FALSE
