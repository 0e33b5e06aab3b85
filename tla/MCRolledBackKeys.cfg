SPECIFICATION Spec
CONSTANTS
  Threads = {t1}
  Ids = {p}
  Keys = {1, 2, 3}
  ExecutorKeys = {1, 2}
  Texts <- MCTexts
  Unreadable <- Empty
  Contents <- MCContents
  MayVanish = {1}
  HwStates <- States
  InitialHw <- MCInitialHw
  ApplyOutcomes <- MCApply
  ReadOutcomes <- MCRead
  Settable <- InRange
  NotAProfile = NotAProfile
  IllTyped = IllTyped
  NoId = NoId
  MaxDisturbances = 0
  Monitors = {m1, m2}
  Levels = {0, 40}
  Schemes <- MCSchemes
  Reliable = FALSE
INVARIANT
  RolledBackKeysRestored
