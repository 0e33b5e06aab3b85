SPECIFICATION Spec
CONSTANTS
  Threads = {t1, t2}
  Ids = {p, q}
  Keys = {1, 2, 3}
  ExecutorKeys = {1, 2}
  Texts <- MCTexts
  Unreadable <- Empty
  Contents <- MCContents
  MayVanish = {1}
  HwStates <- States
  InitialHw <- MCInitialHw
  ApplyOutcomes <- MCApply
  ReadOutcomes <- MCRead
  Settable <- InRange
  NotAProfile = NotAProfile
  IllTyped = IllTyped
  NoId = NoId
  MaxDisturbances = 0
  Monitors = {m1}
  Levels = {0, 40, 150}
  Schemes <- MCSchemes
  Reliable = TRUE
INVARIANTS
  HardwareRestorable
  EventsInCommitOrder
PROPERTY
  SwitchesAreAtomic
