SPECIFICATION Spec
CONSTANTS
  Null = Null
  Types = {"mail"}
  ActiveTypes = {"mail"}
  DurationDays <- MCDurationDays
  Day = 1
  DurationLimit = 10
  Users = {"u1"}
  Emails = {"e1"}
  StartTimes = {0}
  RenewBeforeEndMinutes = 1
  RenewalRetryIntervalMinutes = 1
  MaxRenewalRetryAgeMinutes = 0
  PendingPaymentTimeout = 0
  InitialRows <- NoRows
  MaxTime = 0
  Faulty = TRUE
  PaymentResults = {"panic"}
  Clients = {c1, c2}
  Ops = {"create"}
  Renewers = {}
  Cleaners = {}
  Expirers = {}
  MaxInFlight = 2
  Crashes = FALSE
SYMMETRY Symmetry
INVARIANT FullIdentityUnique
