SPECIFICATION Spec
CONSTANTS
  Specs <- MCSpecs
  Instances <- MCInstances
  NvmlCalls <- MCNvmlCalls
  Devices = 1
  MaxFailures = 2
  MemTotal = 4
  Readings = {0, 3}
  SeriesCapacity = 2
  RowCapacity = 2
  RangeMax = 4
  Width = 12
  Height = 12
  MaxOnWire = 2
  MaxInputs = 4
  MaxMishaps = 2
INVARIANTS
  WholeSamples
  CurvesFollowSamples
  LatestShown
  DrawnInside
CHECK_DEADLOCK FALSE
