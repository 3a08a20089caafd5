SPECIFICATION Spec
CONSTANTS
  Null = Null
  Types = {"plan", "mail"}
  ActiveTypes = {"plan", "mail"}
  DurationDays <- MCDurationDays
  Day = 1
  DurationLimit = 10
  Users = {"u1"}
  Emails = {"e1"}
  StartTimes = {0}
  RenewBeforeEndMinutes = 1
  RenewalRetryIntervalMinutes = 1
  MaxRenewalRetryAgeMinutes = 0
  PendingPaymentTimeout = 0
  InitialRows <- DuePair
  MaxTime = 2
  Faulty = TRUE
  PaymentResults = {"success", "redirect", "failure", "panic"}
  Clients = {c1}
  Ops = {"cancel", "delete"}
  Renewers = {r1, r2}
  Cleaners = {p1}
  Expirers = {x1}
  MaxInFlight = 3
  Crashes = TRUE
CONSTRAINT Apart
INVARIANTS
  PaidPeriodGranted
  OnlyPlansCharged
PROPERTIES
  InactiveStaysInactive
  ImplementsAtomic
