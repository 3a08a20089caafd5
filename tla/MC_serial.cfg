SPECIFICATION Spec
CONSTANTS
  Null = Null
  Types = {"plan"}
  ActiveTypes = {"plan"}
  DurationDays <- MCDurationDays
  Day = 1
  DurationLimit = 2
  Users = {}
  Emails = {"e1"}
  StartTimes = {0}
  RenewBeforeEndMinutes = 1
  RenewalRetryIntervalMinutes = 1
  MaxRenewalRetryAgeMinutes = 0
  PendingPaymentTimeout = 0
  InitialRows <- NoRows
  MaxTime = 2
  Faulty = FALSE
  PaymentResults = {"success", "redirect", "failure", "panic"}
  Clients = {c1}
  Ops = {"create", "update", "cancel", "callback"}
  Renewers = {r1}
  Cleaners = {p1}
  Expirers = {x1}
  MaxInFlight = 1
  Crashes = TRUE
INVARIANTS
  TypeOK
  RowsSound
  IdentityUnique
PROPERTIES
  OptOutSticks
  OnlyExpiredExpire
  OnlyStaleCleanedUp
  ImplementsAtomic
