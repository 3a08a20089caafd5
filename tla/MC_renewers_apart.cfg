SPECIFICATION Spec
CONSTANTS
  Null = Null
  Types = {"plan"}
  ActiveTypes = {"plan"}
  DurationDays <- MCDurationDays
  Day = 1
  DurationLimit = 10
  Users = {"u1"}
  Emails = {"e1"}
  StartTimes = {0}
  RenewBeforeEndMinutes = 1
  RenewalRetryIntervalMinutes = 1
  MaxRenewalRetryAgeMinutes = 0
  PendingPaymentTimeout = 0
  InitialRows <- OneRenewing
  MaxTime = 3
  Faulty = TRUE
  PaymentResults = {"success", "failure", "panic", "other"}
  Clients = {c1}
  Ops = {"cancel", "delete"}
  Renewers = {r1, r2}
  Cleaners = {p1}
  Expirers = {x1}
  MaxInFlight = 3
  Crashes = TRUE
CONSTRAINT RenewersApart
PROPERTY NeverPaidTwice
