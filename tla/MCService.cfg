SPECIFICATION FairSpec
CONSTANTS
  Callers = {"main", "handler"}
  Requested = "pipe"
  MaxControls = 5
  NoOne = NoOne
INVARIANTS
  LastControlWins
  ReportIsTrue
  StoppedIsDown
PROPERTIES
  ControlsReturn
  StopIsReported
CHECK_DEADLOCK FALSE
