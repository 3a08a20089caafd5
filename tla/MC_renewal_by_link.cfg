SPECIFICATION Spec
CONSTANTS
  Null = Null
  Types = {"plan"}
  ActiveTypes = {"plan"}
  DurationDays <- MCDurationDays
  Day = 1
  DurationLimit = 10
  Users = {"u1"}
  Emails = {"e1"}
  StartTimes = {0}
  RenewBeforeEndMinutes = 1
  RenewalRetryIntervalMinutes = 1
  MaxRenewalRetryAgeMinutes = 5
  PendingPaymentTimeout = 0
  InitialRows <- OneRenewing
  MaxTime = 1
  Faulty = FALSE
  PaymentResults = {"redirect"}
  Clients = {c1}
  Ops = {"callback"}
  Renewers = {r1}
  Cleaners = {}
  Expirers = {}
  MaxInFlight = 1
  Crashes = FALSE
INVARIANT PaidPeriodGranted
