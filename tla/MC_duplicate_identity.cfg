SPECIFICATION Spec
CONSTANTS
  Null = Null
  Types = {"plan"}
  ActiveTypes = {"plan"}
  DurationDays <- MCDurationDays
  Day = 1
  DurationLimit = 10
  Users = {}
  Emails = {"e1"}
  StartTimes = {0}
  RenewBeforeEndMinutes = 1
  RenewalRetryIntervalMinutes = 1
  MaxRenewalRetryAgeMinutes = 0
  PendingPaymentTimeout = 0
  InitialRows <- NoRows
  MaxTime = 0
  Faulty = FALSE
  PaymentResults = {"success"}
  Clients = {c1, c2}
  Ops = {"create"}
  Renewers = {}
  Cleaners = {}
  Expirers = {}
  MaxInFlight = 2
  Crashes = FALSE
INVARIANT IdentityUnique
