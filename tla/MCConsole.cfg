SPECIFICATION FairSpec
CONSTANTS
  Callers = {"main"}
  Requested = "pipe"
PROPERTY
  CtrlCTerminates
CHECK_DEADLOCK FALSE
