SPECIFICATION FairSpec
CONSTANTS
  Clients = {"any", "buyer"}
  Sends <- MCSends
INVARIANTS
  TypeOK
  ClientErrorsWriteNothing
  ValidatedOnce
  FrontEndsAgree
  ClosesWhenDrained
PROPERTIES
  KeepsPromise
  SignalEnds
CHECK_DEADLOCK FALSE
