SPECIFICATION FairSpec
CONSTANTS
  DurationLimit = 65536
  Minute = 6
  Unset = Unset
  Junk = Junk
  Environments <- MCEnvironments
INVARIANTS
  TypeOK
  OneBatchPerTick
  PaceAsConfigured
PROPERTIES
  ReturnsOnRequest
  SignalEnds
  KeepsRunning
CHECK_DEADLOCK FALSE
