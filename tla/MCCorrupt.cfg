SPECIFICATION Spec
CONSTANTS
  balanced = balanced
  performance = performance
  Defaults <- MCDefaults
  Active = active
  NoOne = none
  MaxMishaps = 1
  Handlers = {h1, h2}
  MaxSwitches = 1
INVARIANT
  CorruptFilesSkipped
