SPECIFICATION FairSpec
CONSTANTS
  Null = Null
  Types = {"plan"}
  ActiveTypes = {"plan"}
  DurationDays <- MCDurationDays
  Day = 1
  DurationLimit = 10
  Users = {"u1"}
  Emails = {"e1"}
  StartTimes = {0}
  RenewBeforeEndMinutes = 1
  RenewalRetryIntervalMinutes = 1
  MaxRenewalRetryAgeMinutes = 0
  PendingPaymentTimeout = 0
  InitialRows <- OneRenewing
  MaxTime = 3
  Faulty = FALSE
  PaymentResults = {"success", "redirect", "failure"}
  Clients = {c1}
  Ops = {"cancel"}
  Renewers = {r1}
  Cleaners = {p1}
  Expirers = {x1}
  MaxInFlight = 4
  Crashes = FALSE
PROPERTIES
  ExpiredLeaveActive
  StalePendingLeave
