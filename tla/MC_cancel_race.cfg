SPECIFICATION Spec
CONSTANTS
  Null = Null
  Types = {"plan"}
  ActiveTypes = {"plan"}
  DurationDays <- MCDurationDays
  Day = 1
  DurationLimit = 10
  Users = {"u1"}
  Emails = {"e1"}
  StartTimes = {0}
  RenewBeforeEndMinutes = 1
  RenewalRetryIntervalMinutes = 1
  MaxRenewalRetryAgeMinutes = 0
  PendingPaymentTimeout = 0
  InitialRows <- OneRenewing
  MaxTime = 1
  Faulty = FALSE
  PaymentResults = {"success"}
  Clients = {c1}
  Ops = {"cancel"}
  Renewers = {r1}
  Cleaners = {}
  Expirers = {}
  MaxInFlight = 2
  Crashes = FALSE
PROPERTY OptOutSticks
