------------------------- MODULE SubscriptionsProofs -------------------------
(***************************************************************************)
(* Theorems about Subscriptions, for every value of the constants.         *)
(*                                                                         *)
(* First what each computation of Entities does to a sound row, then what  *)
(* each statement of Store does to a sound table, then the inductive       *)
(* invariant IInv, one step of the proof per action.                       *)
(***************************************************************************)
EXTENDS Subscriptions, DurationsProofs, TLAPS

-----------------------------------------------------------------------------
(* The computations.                                                       *)

\* A plan's period is an integer (duration_days is an INT column).
LEMMA PeriodIsInt ==
    ASSUME NEW type \in Types, Planned(type)
    PROVE  Period(type) \in Int
<1>1. DurationDays[type] * Day \in Int
  BY TypesAssumption DEF Planned
<1> QED
  BY <1>1, WrapIsDuration DEF Period, Duration

\* The period of a plan that fits is positive: it is as long as it says.
LEMMA PeriodIsPositive ==
    ASSUME NEW type \in Types, Lasting(type)
    PROVE  Period(type) > 0
<1>1. DurationDays[type] * Day \in Duration /\ DurationDays[type] * Day > 0
  BY LimitAssumption DEF Lasting, Duration
<1> QED
  BY <1>1, WrapExact DEF Period

\* The row CreateSubscription builds from a valid request is sound and has
\* the identity that was asked for.
LEMMA CreateRowSound ==
    ASSUME NEW req \in CreateRequest, CreateRejection(req) = "none",
           NEW t \in Int
    PROVE  /\ CreateRow(req, t) \in Row
           /\ Sound(CreateRow(req, t))
           /\ Identity(CreateRow(req, t)) = Identity(req)
<1> DEFINE row == CreateRow(req, t)
<1>1. req.type \in Types /\ req.user \in Users \cup {Null}
      /\ req.email \in Emails \cup {Null} /\ req.autoRenew \in BOOLEAN
      /\ req.startAt \in Int \cup {Null}
  BY TypesAssumption DEF CreateRequest
<1>2. CASE Planned(req.type)
  <2>1. req.startAt \in Int /\ Period(req.type) \in Int
    BY <1>1, <1>2, PeriodIsInt DEF CreateRejection
  <2> DEFINE endAt   == req.startAt + Period(req.type)
             renewAt == IF req.autoRenew THEN endAt - RenewBeforeEndMinutes
                                         ELSE Null
  <2>2. endAt \in Int /\ renewAt \in MaybeTime /\ (req.autoRenew => renewAt \in Int)
    BY <1>1, <2>1, ConfigAssumption DEF MaybeTime
  <2>3. row = [type |-> req.type, user |-> req.user, email |-> req.email,
               status |-> Processing, startAt |-> req.startAt,
               endAt |-> endAt, renewAt |-> renewAt,
               autoRenew |-> req.autoRenew, updatedAt |-> t]
    BY <1>1, <1>2 DEF CreateRow
  <2>7. Lasting(req.type) => req.startAt < endAt
    BY <1>1, <2>1, PeriodIsPositive
  <2> HIDE DEF endAt, renewAt, row
  <2>4. row \in Row
    BY <1>1, <2>1, <2>2, <2>3 DEF Row, MaybeTime, Statuses
  <2>5. Sound(row)
    BY <1>1, <1>2, <2>1, <2>2, <2>3, <2>7, NullAssumption
    DEF Sound, OffWhenInactive, ScheduledWhenRenewing, DatedWhenPlanned,
        ForwardWhenLasting, Inactive, Processing
  <2>6. Identity(row) = Identity(req)
    BY <2>3 DEF Identity
  <2> QED
    BY <2>4, <2>5, <2>6 DEF row
<1>3. CASE ~Planned(req.type)
  BY <1>1, <1>3
  DEF CreateRow, Row, Sound, OffWhenInactive, ScheduledWhenRenewing,
      DatedWhenPlanned, ForwardWhenLasting, Lasting, Identity, MaybeTime,
      Statuses, Inactive, Processing, PendingPayment, Active
<1> QED
  BY <1>2, <1>3

\* Good(old, new): new is a sound row with the type, user and email of old.
Good(old, new) ==
    new \in Row /\ Sound(new) /\ Identity(new) = Identity(old)

\* Everything else the code computes from a row leaves its identity and its
\* start alone and is sound under four conditions.
LEMMA RewrittenGood ==
    ASSUME NEW row \in Row, Sound(row), NEW new \in Row,
           new.type = row.type, new.user = row.user, new.email = row.email,
           new.startAt = row.startAt,
           new.endAt = Null <=> row.endAt = Null,
           new.endAt = row.endAt \/ ForwardWhenLasting(new),
           OffWhenInactive(new), ScheduledWhenRenewing(new)
    PROVE  Good(row, new)
BY DEF Good, Sound, DatedWhenPlanned, ForwardWhenLasting, Identity

\* What a row has in its columns.
LEMMA RowFields ==
    ASSUME NEW row \in Row
    PROVE  /\ row.status \in Statuses
           /\ row.endAt \in MaybeTime
           /\ row.renewAt \in MaybeTime
           /\ row.autoRenew \in BOOLEAN
           /\ row.updatedAt \in Int
           /\ row.type \in Types
BY DEF Row

\* Switching a row off keeps it sound.
LEMMA OffGood ==
    ASSUME NEW row \in Row, Sound(row), NEW t \in Int
    PROVE  /\ Good(row, Off(row))
           /\ Good(row, [Off(row) EXCEPT !.updatedAt = t])
<1>1. Off(row) \in Row /\ Sound(Off(row)) /\ Identity(Off(row)) = Identity(row)
  BY DEF Off, Row, Sound, OffWhenInactive, ScheduledWhenRenewing,
         DatedWhenPlanned, ForwardWhenLasting, Identity, MaybeTime, Statuses
<1> DEFINE off == [Off(row) EXCEPT !.updatedAt = t]
<1>2. off \in Row /\ Sound(off) /\ Identity(off) = Identity(row)
  BY DEF Off, Row, Sound, OffWhenInactive, ScheduledWhenRenewing,
         DatedWhenPlanned, ForwardWhenLasting, Identity, MaybeTime, Statuses
<1> QED
  BY <1>1, <1>2 DEF Good

\* The outcome of the first payment keeps a created row sound.
LEMMA CreateSettledGood ==
    ASSUME NEW row \in Row, Sound(row), NEW result, NEW t \in Int
    PROVE  Good(row, CreateSettled(row, result, t))
<1> DEFINE status  == CASE result = "success"  -> Active
                        [] result = "redirect" -> PendingPayment
                        [] OTHER               -> Processing
           renewAt == IF result \in {"success", "redirect"} THEN row.renewAt
                      ELSE t + RenewalRetryIntervalMinutes
           new     == [row EXCEPT !.status = status, !.renewAt = renewAt,
                                  !.updatedAt = t]
<1>1. CreateSettled(row, result, t) = new
  BY DEF CreateSettled
<1>2. status \in Statuses /\ status # Inactive
  BY DEF Statuses, Inactive, Active, PendingPayment, Processing
<1>3. renewAt \in MaybeTime /\ (renewAt = row.renewAt \/ renewAt # Null)
  BY RowFields, ConfigAssumption, NullAssumption DEF MaybeTime
<1> HIDE DEF status, renewAt
<1>4. new \in Row
  BY <1>2, <1>3 DEF Row
<1>5. new.type = row.type /\ new.user = row.user /\ new.email = row.email
      /\ new.startAt = row.startAt /\ new.endAt = row.endAt
      /\ new.autoRenew = row.autoRenew /\ new.status = status
      /\ new.renewAt = renewAt
  BY DEF Row
<1>6. OffWhenInactive(new) /\ ScheduledWhenRenewing(new)
  BY <1>2, <1>3, <1>5 DEF OffWhenInactive, ScheduledWhenRenewing, Sound
<1> HIDE DEF new
<1> QED
  BY <1>1, <1>4, <1>5, <1>6, RewrittenGood

\* PATCH keeps a row sound: the new renewal date comes with auto_renew, and
\* status 0 switches everything off.
LEMMA UpdatedRowGood ==
    ASSUME NEW req \in UpdateRequest(Nat), UpdateRejection(req) = "none",
           NEW row \in Row, Sound(row), NEW t \in Int
    PROVE  Good(row, UpdatedRow(req, row, t))
<1> DEFINE status  == IF req.hasStatus THEN req.status ELSE row.status
           renews  == IF req.hasAutoRenew THEN req.autoRenew ELSE row.autoRenew
           renewAt == IF ~req.hasAutoRenew THEN row.renewAt
                      ELSE IF ~req.autoRenew THEN Null
                      ELSE IF row.endAt = Null THEN row.renewAt
                      ELSE row.endAt - RenewBeforeEndMinutes
           new     == [row EXCEPT !.status = status, !.autoRenew = renews,
                                  !.renewAt = renewAt, !.updatedAt = t]
<1>1. UpdatedRow(req, row, t) = IF status = Inactive THEN Off(new) ELSE new
  BY DEF UpdatedRow
<1>2. /\ req.hasStatus \in BOOLEAN /\ req.hasAutoRenew \in BOOLEAN
      /\ req.autoRenew \in BOOLEAN
      /\ req.hasStatus => req.status \in Statuses
  BY DEF UpdateRequest, UpdateRejection
<1>3. status \in Statuses
  BY <1>2, RowFields
<1>4. renews \in BOOLEAN
  BY <1>2, RowFields
<1>5. renewAt \in MaybeTime
  BY <1>2, RowFields, ConfigAssumption DEF MaybeTime
<1>6. renews = TRUE /\ row.endAt # Null => renewAt # Null
  BY <1>2, RowFields, ConfigAssumption, NullAssumption
  DEF MaybeTime, Sound, ScheduledWhenRenewing
<1> HIDE DEF status, renews, renewAt
<1>7. new \in Row
  BY <1>3, <1>4, <1>5 DEF Row
<1>8. new.type = row.type /\ new.user = row.user /\ new.email = row.email
      /\ new.startAt = row.startAt /\ new.endAt = row.endAt
      /\ new.autoRenew = renews /\ new.status = status
      /\ new.renewAt = renewAt
  BY DEF Row
<1> HIDE DEF new
<1>9. CASE status # Inactive
  <2>1. OffWhenInactive(new) /\ ScheduledWhenRenewing(new)
    BY <1>4, <1>6, <1>8, <1>9 DEF OffWhenInactive, ScheduledWhenRenewing
  <2> QED
    BY <1>1, <1>7, <1>8, <1>9, <2>1, RewrittenGood
<1>10. CASE status = Inactive
  <2> DEFINE off == Off(new)
  <2>1. off = [new EXCEPT !.status = Inactive, !.autoRenew = FALSE,
                          !.renewAt = Null]
    BY DEF Off
  <2>2. off \in Row
    BY <1>7, <2>1 DEF Row, Statuses, MaybeTime
  <2>3. off.type = row.type /\ off.user = row.user /\ off.email = row.email
        /\ off.startAt = row.startAt /\ off.endAt = row.endAt
        /\ off.autoRenew = FALSE /\ off.renewAt = Null
    BY <1>7, <1>8, <2>1 DEF Row
  <2> HIDE DEF off
  <2>4. OffWhenInactive(off) /\ ScheduledWhenRenewing(off)
    BY <2>3 DEF OffWhenInactive, ScheduledWhenRenewing
  <2>5. Good(row, off)
    BY <2>2, <2>3, <2>4, RewrittenGood
  <2> QED
    BY <1>1, <1>10, <2>5 DEF off
<1> QED
  BY <1>9, <1>10

\* Cancel keeps a row sound.
LEMMA CancelledRowGood ==
    ASSUME NEW row \in Row, Sound(row), NEW t \in Int
    PROVE  Good(row, CancelledRow(row, t))
BY DEF CancelledRow, Good, Row, Sound, OffWhenInactive, ScheduledWhenRenewing,
       DatedWhenPlanned, ForwardWhenLasting, Identity, MaybeTime

\* A callback keeps a row sound: what it sets is a live status, and, on a
\* failure, a renewal date.
LEMMA CallbackRowGood ==
    ASSUME NEW req, NEW row \in Row, Sound(row), NEW t \in Int
    PROVE  Good(row, CallbackRow(req, row, t))
<1>1. CASE req.status = "success"
  <2> DEFINE new == [row EXCEPT !.status = Active, !.updatedAt = t]
  <2>1. CallbackRow(req, row, t) = new
    BY <1>1 DEF CallbackRow
  <2>2. new \in Row
    BY DEF Row, Statuses
  <2>3. new.type = row.type /\ new.user = row.user /\ new.email = row.email
        /\ new.startAt = row.startAt /\ new.endAt = row.endAt
        /\ new.autoRenew = row.autoRenew /\ new.renewAt = row.renewAt
        /\ new.status = Active
    BY DEF Row
  <2> HIDE DEF new
  <2>4. OffWhenInactive(new) /\ ScheduledWhenRenewing(new)
    BY <2>3
    DEF OffWhenInactive, ScheduledWhenRenewing, Sound, Active, Inactive
  <2> QED
    BY <2>1, <2>2, <2>3, <2>4, RewrittenGood
<1>2. CASE req.status # "success"
  <2> DEFINE retryAt == t + RenewalRetryIntervalMinutes
             new == [row EXCEPT !.status = Processing, !.updatedAt = t,
                                !.renewAt = retryAt]
  <2>1. CallbackRow(req, row, t) = new
    BY <1>2 DEF CallbackRow
  <2>2. retryAt \in Int
    BY ConfigAssumption
  <2> HIDE DEF retryAt
  <2>3. new \in Row
    BY <2>2 DEF Row, Statuses, MaybeTime
  <2>4. new.type = row.type /\ new.user = row.user /\ new.email = row.email
        /\ new.startAt = row.startAt /\ new.endAt = row.endAt
        /\ new.renewAt = retryAt /\ new.status = Processing
    BY DEF Row
  <2> HIDE DEF new
  <2>5. OffWhenInactive(new) /\ ScheduledWhenRenewing(new)
    BY <2>2, <2>4, NullAssumption
    DEF OffWhenInactive, ScheduledWhenRenewing, Processing, Inactive
  <2> QED
    BY <2>1, <2>3, <2>4, <2>5, RewrittenGood
<1> QED
  BY <1>1, <1>2

\* Whatever a request asks for, the copy that is written back is sound.
LEMMA AppliedGood ==
    ASSUME NEW req \in Requests, req.op # "create", Rejection(req) = "none",
           NEW row \in Row, Sound(row), NEW t \in Int
    PROVE  Good(row, Applied(req, row, t))
<1>1. CASE req \in UpdateRequest(Nat)
  <2>1. req.op = "update"
    BY <1>1 DEF UpdateRequest
  <2>2. Applied(req, row, t) = UpdatedRow(req, row, t)
    BY <2>1 DEF Applied
  <2>3. UpdateRejection(req) = "none"
    BY <2>1 DEF Rejection
  <2> QED
    BY <1>1, <2>2, <2>3, UpdatedRowGood
<1>2. CASE req \in DeleteRequest(Nat)
  <2>1. Applied(req, row, t) = [Off(row) EXCEPT !.updatedAt = t]
    BY <1>2 DEF DeleteRequest, Applied, DeletedRow
  <2> QED
    BY <2>1, OffGood
<1>3. CASE req \in CancelRequest(Nat)
  <2>1. Applied(req, row, t) = CancelledRow(row, t)
    BY <1>3 DEF CancelRequest, Applied
  <2> QED
    BY <2>1, CancelledRowGood
<1>4. CASE req \in CallbackRequest(Nat)
  <2>1. Applied(req, row, t) = CallbackRow(req, row, t)
    BY <1>4 DEF CallbackRequest, Applied
  <2> QED
    BY <2>1, CallbackRowGood
<1>5. req \notin CreateRequest
  BY DEF CreateRequest
<1> QED
  BY <1>1, <1>2, <1>3, <1>4, <1>5 DEF Requests

\* Marking a row Processing keeps it sound.
LEMMA RenewMarkedGood ==
    ASSUME NEW row \in Row, Sound(row), NEW t \in Int
    PROVE  Good(row, RenewMarked(row, t))
<1> DEFINE new == RenewMarked(row, t)
<1>1. new \in Row
  BY DEF RenewMarked, Row, Statuses
<1>2. /\ new.type = row.type /\ new.user = row.user /\ new.email = row.email
      /\ new.startAt = row.startAt /\ new.endAt = row.endAt
      /\ new.renewAt = row.renewAt /\ new.autoRenew = row.autoRenew
      /\ new.status = Processing
  BY DEF RenewMarked, Row
<1>3. OffWhenInactive(new) /\ ScheduledWhenRenewing(new)
  BY <1>2 DEF Sound, OffWhenInactive, ScheduledWhenRenewing, Inactive,
              Processing
<1> QED
  BY <1>1, <1>2, <1>3, RewrittenGood

\* The end of a renewed period is a time.
LEMMA RenewedEndIsInt ==
    ASSUME NEW row \in Row, Planned(row.type), NEW t \in Int
    PROVE  RenewedEnd(row, t) \in Int
<1>1. Period(row.type) \in Int
  BY RowFields, PeriodIsInt
<1>2. (IF row.endAt = Null THEN t ELSE row.endAt) \in Int
  BY RowFields DEF MaybeTime
<1> QED
  BY <1>1, <1>2 DEF RenewedEnd

\* A successful renewal keeps a planned row sound.
LEMMA ExtendedGood ==
    ASSUME NEW row \in Row, Sound(row), Planned(row.type), NEW t \in Int
    PROVE  Good(row, Extended(row, t))
<1> DEFINE endAt   == RenewedEnd(row, t)
           renewAt == IF row.autoRenew THEN endAt - RenewBeforeEndMinutes
                      ELSE row.renewAt
           new     == [row EXCEPT !.status = Active, !.endAt = endAt,
                                  !.renewAt = renewAt]
<1>1. Extended(row, t) = new
  BY DEF Extended
<1>2. endAt \in Int
  BY RenewedEndIsInt
<1>3. row.endAt # Null
  BY DEF Sound, DatedWhenPlanned
<1>9. Lasting(row.type) => row.startAt < endAt
  <2> SUFFICES ASSUME Lasting(row.type)
               PROVE  row.startAt < endAt
    OBVIOUS
  <2>1. row.startAt \in Int /\ row.endAt \in Int /\ row.startAt < row.endAt
    BY <1>3, RowFields DEF Sound, DatedWhenPlanned, ForwardWhenLasting, MaybeTime, Row
  <2>2. Period(row.type) \in Int /\ Period(row.type) > 0
    BY RowFields, PeriodIsInt, PeriodIsPositive
  <2>3. endAt = row.endAt + Period(row.type)
    BY <1>3 DEF RenewedEnd
  <2> QED
    BY <2>1, <2>2, <2>3
<1> HIDE DEF endAt
<1>4. renewAt \in MaybeTime /\ (row.autoRenew = TRUE => renewAt # Null)
  BY <1>2, RowFields, ConfigAssumption, NullAssumption DEF MaybeTime
<1> HIDE DEF renewAt
<1>5. new \in Row
  BY <1>2, <1>4 DEF Row, Statuses, MaybeTime
<1>6. new.type = row.type /\ new.user = row.user /\ new.email = row.email
      /\ new.startAt = row.startAt /\ new.endAt = endAt
      /\ new.autoRenew = row.autoRenew /\ new.status = Active
      /\ new.renewAt = renewAt
  BY DEF Row
<1> HIDE DEF new
<1>7. OffWhenInactive(new) /\ ScheduledWhenRenewing(new)
  BY <1>4, <1>6, RowFields
  DEF OffWhenInactive, ScheduledWhenRenewing, Active, Inactive
<1>8. new.endAt # Null
  BY <1>2, <1>6, NullAssumption
<1>10. ForwardWhenLasting(new)
  BY <1>6, <1>9 DEF ForwardWhenLasting
<1> QED
  BY <1>1, <1>3, <1>5, <1>6, <1>7, <1>8, <1>10, RewrittenGood

\* Putting a row off to a later attempt keeps it sound.
LEMMA RetryLaterGood ==
    ASSUME NEW row \in Row, Sound(row), NEW status \in Statuses \ {Inactive},
           NEW t \in Int
    PROVE  Good(row, RetryLater(row, status, t))
<1> DEFINE retryAt == t + RenewalRetryIntervalMinutes
           new == [row EXCEPT !.status = status, !.renewAt = retryAt]
<1>1. RetryLater(row, status, t) = new
  BY DEF RetryLater
<1>2. retryAt \in Int
  BY ConfigAssumption
<1> HIDE DEF retryAt
<1>3. new \in Row
  BY <1>2 DEF Row, MaybeTime
<1>4. new.type = row.type /\ new.user = row.user /\ new.email = row.email
      /\ new.startAt = row.startAt /\ new.endAt = row.endAt
      /\ new.renewAt = retryAt /\ new.status = status
  BY DEF Row
<1> HIDE DEF new
<1>5. OffWhenInactive(new) /\ ScheduledWhenRenewing(new)
  BY <1>2, <1>4, NullAssumption DEF OffWhenInactive, ScheduledWhenRenewing
<1> QED
  BY <1>1, <1>3, <1>4, <1>5, RewrittenGood

\* Setting updated_at last changes nothing that matters.
LEMMA StampedGood ==
    ASSUME NEW old, NEW row, Good(old, row), NEW t \in Int
    PROVE  Good(old, [row EXCEPT !.updatedAt = t])
BY DEF Good, Row, Sound, OffWhenInactive, ScheduledWhenRenewing,
       DatedWhenPlanned, ForwardWhenLasting, Identity

\* Whatever the provider answers, the row the renewal job writes is sound,
\* given that a payment is attempted for planned types only.
LEMMA RenewSettledGood ==
    ASSUME NEW row \in Row, Sound(row), NEW result, NEW t \in Int,
           result # "no_plan" => Planned(row.type)
    PROVE  Good(row, RenewSettled(row, result, t))
<1>1. CASE result = "no_plan"
  BY <1>1, OffGood DEF RenewSettled
<1>2. CASE result # "no_plan"
  <2> DEFINE tried == RenewAttempted(row, result, t)
  <2>1. Good(row, tried)
    <3>1. CASE result = "success"
      BY <1>2, <3>1, ExtendedGood DEF RenewAttempted
    <3>2. CASE result = "redirect"
      <4>1. tried = RetryLater(row, PendingPayment, t)
        BY <3>2 DEF RenewAttempted
      <4> QED
        BY <4>1, RetryLaterGood DEF Statuses, PendingPayment, Inactive
    <3>3. CASE result \in {"failure", "panic"}
      <4>1. tried = RetryLater(row, Processing, t)
        BY <3>3 DEF RenewAttempted
      <4> QED
        BY <4>1, RetryLaterGood DEF Statuses, Processing, Inactive
    <3>4. CASE result \notin {"success", "redirect", "failure", "panic"}
      BY <3>4 DEF RenewAttempted, Good
    <3> QED
      BY <3>1, <3>2, <3>3, <3>4
  <2> HIDE DEF tried
  <2>2. Good(row, AgeChecked(tried))
    <3>1. tried \in Row /\ Sound(tried)
      BY <2>1 DEF Good
    <3>2. Good(tried, Off(tried))
      BY <3>1, OffGood
    <3> QED
      BY <2>1, <3>2 DEF AgeChecked, Good
  <2>3. RenewSettled(row, result, t) = [AgeChecked(tried) EXCEPT !.updatedAt = t]
    BY <1>2 DEF RenewSettled, tried
  <2> QED
    BY <2>2, <2>3, StampedGood
<1> QED
  BY <1>1, <1>2

\* The cleanup keeps a row sound.
LEMMA CleanupRowGood ==
    ASSUME NEW row \in Row, Sound(row), NEW t \in Int
    PROVE  Good(row, CleanupRow(row, t))
<1> DEFINE renewAt == IF row.renewAt = Null \/ row.renewAt < t
                      THEN t + RenewalRetryIntervalMinutes ELSE row.renewAt
           new == [row EXCEPT !.status = Processing, !.renewAt = renewAt,
                              !.updatedAt = t]
<1>1. CleanupRow(row, t) = new
  BY DEF CleanupRow
<1>2. renewAt \in Int
  BY RowFields, ConfigAssumption DEF MaybeTime
<1> HIDE DEF renewAt
<1>3. new \in Row
  BY <1>2 DEF Row, Statuses, MaybeTime
<1>4. new.type = row.type /\ new.user = row.user /\ new.email = row.email
      /\ new.startAt = row.startAt /\ new.endAt = row.endAt
      /\ new.renewAt = renewAt /\ new.status = Processing
  BY DEF Row
<1> HIDE DEF new
<1>5. OffWhenInactive(new) /\ ScheduledWhenRenewing(new)
  BY <1>2, <1>4, NullAssumption
  DEF OffWhenInactive, ScheduledWhenRenewing, Processing, Inactive
<1> QED
  BY <1>1, <1>3, <1>4, <1>5, RewrittenGood

\* So does expiry.
LEMMA ExpireRowGood ==
    ASSUME NEW row \in Row, Sound(row), NEW t \in Int
    PROVE  Good(row, ExpireRow(row, t))
BY OffGood DEF ExpireRow

-----------------------------------------------------------------------------
(* The statements.                                                         *)

\* The definitions SubscriptionTable extends are those of this module.
LEMMA SameDefinitions ==
    /\ Contract!Row = Row
    /\ \A r : Contract!Sound(r) <=> Sound(r)
    /\ \A r : Contract!Identity(r) = Identity(r)
BY DEF Contract!Row, Contract!MaybeTime, Contract!Statuses, Contract!Inactive,
       Contract!Processing, Contract!PendingPayment, Contract!Active, Row,
       MaybeTime, Statuses, Inactive, Processing, PendingPayment, Active,
       Contract!Sound, Contract!OffWhenInactive,
       Contract!ScheduledWhenRenewing, Contract!DatedWhenPlanned,
       Contract!ForwardWhenLasting, Contract!Lasting, Contract!Planned, Sound,
       OffWhenInactive, ScheduledWhenRenewing, DatedWhenPlanned,
       ForwardWhenLasting, Lasting, Planned, Contract!Identity, Identity

\* What every step does to the table: it is a step SubscriptionTable allows,
\* rows stay where they are and whose they are, all of them are sound, and
\* full identities stay unique.
TableStep ==
    /\ [Contract!Next]_table
    /\ table' \in Seq(Row)
    /\ Ids \subseteq Ids'
    /\ \A i \in Ids : Identity(table'[i]) = Identity(table[i])
    /\ RowsSound'
    /\ FullIdentityUnique'

TableInv == table \in Seq(Row) /\ RowsSound /\ FullIdentityUnique

\* The type, user and email of a row are its identity.
LEMMA IdentityFields ==
    ASSUME NEW a, NEW b, Identity(a) = Identity(b)
    PROVE  a.type = b.type /\ a.user = b.user /\ a.email = b.email
BY DEF Identity

\* A step that leaves the table alone keeps everything about it.
LEMMA TableKept ==
    ASSUME TableInv, UNCHANGED table
    PROVE  TableStep
BY DEF TableInv, TableStep, Ids, RowsSound, FullIdentityUnique

\* UPDATE of an existing row with a sound copy of it.
LEMMA UpdateStep ==
    ASSUME TableInv, NEW id \in Ids, NEW row \in Row, Sound(row),
           SameIdentity(id, row), NEW reply, Update(id, row, reply)
    PROVE  TableStep /\ Ids' = Ids
<1>1. CASE UNCHANGED table
  BY <1>1, TableKept DEF Ids
<1>2. CASE table' = Written(id, row)
  <2> DEFINE new == Persisted(id, row)
  <2>1. table[id] \in Row /\ Ids = 1 .. Len(table)
    BY DEF TableInv, Ids
  <2>2. new.type = row.type /\ new.user = row.user /\ new.email = row.email
        /\ new.status = row.status /\ new.startAt = row.startAt
        /\ new.endAt = row.endAt /\ new.renewAt = row.renewAt
        /\ new.autoRenew = row.autoRenew
    BY IdentityFields DEF Persisted, Row, SameIdentity
  <2>3. new \in Row
    BY <2>1 DEF Persisted, Row
  <2>4. Sound(new) /\ Identity(new) = Identity(table[id])
    BY <2>2 DEF Sound, OffWhenInactive, ScheduledWhenRenewing,
                DatedWhenPlanned, ForwardWhenLasting, SameIdentity, Identity
  <2>5. table' = [table EXCEPT ![id] = new]
    BY <1>2 DEF Written
  <2> HIDE DEF new
  <2>6. table' \in Seq(Row) /\ Ids' = Ids
    BY <2>3, <2>5 DEF TableInv, Ids
  <2>7. \A i \in Ids : table'[i] = IF i = id THEN new ELSE table[i]
    BY <2>5 DEF TableInv, Ids
  <2>8. \A i \in Ids : Identity(table'[i]) = Identity(table[i])
    BY <2>4, <2>7
  <2>9. RowsSound'
    BY <2>4, <2>6, <2>7 DEF TableInv, RowsSound
  <2>10. FullIdentityUnique'
    <3> SUFFICES ASSUME NEW i \in Ids, NEW j \in Ids,
                        Identity(table'[i]) = Identity(table'[j]),
                        table'[i].user # Null, table'[i].email # Null
                 PROVE  i = j
      BY <2>6 DEF FullIdentityUnique
    <3>1. Identity(table[i]) = Identity(table[j])
      BY <2>8
    <3>2. table[i].user # Null /\ table[i].email # Null
      BY <2>8, IdentityFields
    <3> QED
      BY <3>1, <3>2 DEF TableInv, FullIdentityUnique
  <2>11. Contract!Rewrite
    BY <2>3, <2>4, <2>6, <2>7, SameDefinitions DEF Contract!Rewrite, Ids
  <2> QED
    BY <2>6, <2>8, <2>9, <2>10, <2>11 DEF TableStep, Contract!Next
<1> QED
  BY <1>1, <1>2 DEF Update

\* INSERT of a sound row.
LEMMA CreateStep ==
    ASSUME TableInv, NEW row \in Row, Sound(row), NEW reply, Create(row, reply)
    PROVE  /\ TableStep
           /\ reply = "ok" => /\ Len(table) + 1 \in Ids'
                              /\ table'[Len(table) + 1] = row
<1>1. CASE UNCHANGED table
  BY <1>1, TableKept DEF Create, TableInv
<1>2. CASE ~Duplicate(row) /\ table' = Append(table, row)
  <2> DEFINE n == Len(table) + 1
  <2>1. table' \in Seq(Row) /\ Ids = 1 .. Len(table) /\ Ids' = 1 .. n
        /\ Len(table) \in Nat
    BY <1>2 DEF TableInv, Ids
  <2>2. table'[n] = row /\ \A i \in Ids : table'[i] = table[i]
    BY <1>2, <2>1 DEF TableInv
  <2>3. Ids' = Ids \cup {n} /\ n \notin Ids
    BY <2>1
  <2> HIDE DEF n
  <2>4. RowsSound'
    BY <2>2, <2>3 DEF TableInv, RowsSound
  <2>5. FullIdentityUnique'
    <3> SUFFICES ASSUME NEW i \in Ids', NEW j \in Ids',
                        Identity(table'[i]) = Identity(table'[j]),
                        table'[i].user # Null, table'[i].email # Null
                 PROVE  i = j
      BY DEF FullIdentityUnique
    <3>1. CASE i \in Ids /\ j \in Ids
      BY <2>2, <3>1 DEF TableInv, FullIdentityUnique
    <3>2. CASE i = n /\ j \in Ids
      BY <1>2, <2>2, <3>2 DEF Duplicate
    <3>3. CASE i \in Ids /\ j = n
      <4>1. row.user # Null /\ row.email # Null
        BY <2>2, <3>3, IdentityFields
      <4> QED
        BY <1>2, <2>2, <3>3, <4>1 DEF Duplicate
    <3> QED
      BY <2>3, <3>1, <3>2, <3>3
  <2>6. row.user # Null /\ row.email # Null
           => ~ \E i \in Ids : Identity(table[i]) = Identity(row)
    BY <1>2 DEF Duplicate
  <2>7. Contract!Add
    BY <2>2, <2>3, <2>6, SameDefinitions DEF Contract!Add, Contract!Known, Ids, n
  <2> QED
    BY <2>1, <2>2, <2>3, <2>4, <2>5, <2>7 DEF TableStep, Contract!Next, n
<1> QED
  BY <1>1, <1>2 DEF Create

\* The row id becomes row, or stays as it is.
Puts(id, row) ==
    /\ Ids' = Ids
    /\ \A i \in Ids \ {id} : table'[i] = table[i]
    /\ table'[id] \in {table[id], row}

\* UPDATE with a row of the same identity.
LEMMA UpdatePuts ==
    ASSUME TableInv, NEW id \in Ids, NEW row \in Row, SameIdentity(id, row),
           NEW reply, Update(id, row, reply)
    PROVE  /\ Puts(id, row)
           /\ reply = "ok" => table'[id] = row
           /\ reply = "not_found" => UNCHANGED table /\ table[id] = row
           /\ \/ table' = [table EXCEPT ![id] = row]
              \/ UNCHANGED table /\ reply = "error"
           /\ reply \in UpdateReplies /\ (reply = "error" => Faulty)
<1>1. Persisted(id, row) = row
  <2>1. /\ table[id].type = row.type
        /\ table[id].user = row.user
        /\ table[id].email = row.email
    BY IdentityFields DEF SameIdentity
  <2>2. [row EXCEPT !.type = row.type, !.user = row.user, !.email = row.email] = row
    BY DEF Row
  <2> QED
    BY <2>1, <2>2 DEF Persisted
<1>2. reply = "not_found" => UNCHANGED table /\ table[id] = row
  BY <1>1 DEF Update, Affected
<1>3. \/ table' = [table EXCEPT ![id] = row]
      \/ UNCHANGED table /\ reply = "error"
  <2>1. [table EXCEPT ![id] = table[id]] = table
    BY DEF TableInv
  <2> QED
    BY <1>1, <1>2, <2>1 DEF Update, Written
<1>4. reply \in UpdateReplies /\ (reply = "error" => Faulty)
  BY DEF Update, UpdateReplies
<1>5. Ids' = Ids /\ DOMAIN table = Ids
  BY <1>3 DEF Ids, TableInv
<1>6. Puts(id, row) /\ (reply = "ok" => table'[id] = row)
  <2>1. ASSUME table' = [table EXCEPT ![id] = row]
        PROVE  table'[id] = row /\ \A i \in Ids \ {id} : table'[i] = table[i]
    BY <1>5, <2>1
  <2> QED
    BY <1>3, <1>5, <2>1 DEF Puts
<1> QED
  BY <1>2, <1>3, <1>4, <1>6

-----------------------------------------------------------------------------
(* The parts of the invariant, and what leaves each of them true.          *)

\* What is proved of every step.
Kept == IInv' /\ [Contract!Next]_table

LedgerInv ==
    /\ outstanding \subseteq Ids \X Int
    /\ paidTo \subseteq Ids \X Int
    /\ OnlyPlansCharged

CallInv(c) == CallOK(call[c]) /\ CallReady(call[c])
CallsInv   == DOMAIN call = Clients /\ \A c \in Clients : CallInv(c)

JobInv(w) == JobOK(job[w]) /\ JobReady(job[w])
JobsInv   == DOMAIN job = Workers /\ \A w \in Workers : JobInv(w)

RenewalPcs == {"mark", "pay", "settle"}

\* The item a worker is at.
Foremost(j, id) == \A other \in DOMAIN j.batch : id <= other

\* The inductive invariant falls into one part per component.
LEMMA Parts ==
    /\ IInv <=> TableInv /\ now \in Int /\ LedgerInv /\ CallsInv /\ JobsInv
    /\ IInv' <=> TableInv' /\ now' \in Int /\ LedgerInv' /\ CallsInv' /\ JobsInv'
BY DEF IInv, TypeOK, TableInv, LedgerInv, CallsInv, CallInv, JobsInv, JobInv

\* Workers hold rows of the table.
LEMMA HeldRowsExist ==
    ASSUME IInv, NEW w \in Workers
    PROVE  JobRows(w) \subseteq Ids
BY Parts DEF JobsInv, JobInv, JobOK, JobRows

\* A ledger that only moves periods about keeps its invariant.
LEMMA LedgerKept ==
    ASSUME LedgerInv, TableStep,
           outstanding' \subseteq outstanding \cup paidTo,
           paidTo' \subseteq outstanding \cup paidTo
    PROVE  LedgerInv'
<1>1. \A p \in outstanding \cup paidTo : p \in Ids \X Int /\ p[1] \in Ids
  BY DEF LedgerInv
<1>2. \A i \in Ids : table'[i].type = table[i].type
  BY IdentityFields DEF TableStep
<1>3. OnlyPlansCharged'
  BY <1>1, <1>2 DEF LedgerInv, OnlyPlansCharged
<1>4. Ids \X Int \subseteq Ids' \X Int
  BY DEF TableStep
<1> QED
  BY <1>1, <1>3, <1>4 DEF LedgerInv

\* So does a charge for a row whose type has a plan.
LEMMA LedgerCharged ==
    ASSUME LedgerInv, UNCHANGED table, NEW id \in Ids, NEW end \in Int,
           NEW result, Planned(table[id].type),
           ProcessSubscriptionPayment(id, end, result)
    PROVE  LedgerInv'
<1>1. Ids' = Ids
  BY DEF Ids
<1>2. /\ outstanding' \subseteq outstanding \cup {<<id, end>>}
      /\ paidTo' \subseteq paidTo \cup {<<id, end>>}
  BY DEF ProcessSubscriptionPayment, paymentVars
<1>3. <<id, end>> \in Ids \X Int /\ <<id, end>>[1] = id
  OBVIOUS
<1> QED
  BY <1>1, <1>2, <1>3 DEF LedgerInv, OnlyPlansCharged

\* A call that does not move keeps what its next step needs.
LEMMA CallKept ==
    ASSUME CallsInv, TableStep, NEW c \in Clients, call'[c] = call[c]
    PROVE  CallInv(c)'
<1>1. CallInv(c)
  BY DEF CallsInv
<1>2. CallOK(call[c])'
  BY <1>1 DEF CallInv, CallOK, TableStep
<1>3. CallReady(call[c])'
  BY <1>1 DEF CallInv, CallOK, CallReady, SameIdentity, TableStep
<1> QED
  BY <1>2, <1>3 DEF CallInv

\* Calls that do not move keep what their next steps need.
LEMMA CallsKept ==
    ASSUME CallsInv, TableStep, UNCHANGED call
    PROVE  CallsInv'
BY CallKept DEF CallsInv

\* One call moves, the others do not.
LEMMA CallMoved ==
    ASSUME CallsInv, TableStep, NEW c \in Clients,
           DOMAIN call' = DOMAIN call,
           \A d \in Clients \ {c} : call'[d] = call[d],
           CallInv(c)'
    PROVE  CallsInv'
<1>1. \A d \in Clients : CallInv(d)'
  BY CallKept
<1> QED
  BY <1>1 DEF CallsInv

\* A call that ends keeps the invariant.
LEMMA Answered ==
    ASSUME CallsInv, TableStep, NEW c \in Clients, NEW reply \in Replies,
           Answer(c, reply)
    PROVE  CallsInv'
<1>1. /\ DOMAIN call' = DOMAIN call
      /\ \A d \in Clients \ {c} : call'[d] = call[d]
      /\ call'[c] = Idle(reply)
  BY DEF CallsInv, Answer
<1>2. CallInv(c)'
  BY <1>1 DEF CallInv, CallOK, CallReady, Idle, CallPcs
<1> QED
  BY <1>1, <1>2, CallMoved

\* A worker that does not move keeps what its next step needs.
LEMMA JobKept ==
    ASSUME JobsInv, TableStep, NEW w \in Workers, job'[w] = job[w]
    PROVE  JobInv(w)'
<1>1. JobInv(w)
  BY DEF JobsInv
<1>2. JobOK(job[w])'
  BY <1>1 DEF JobInv, JobOK, TableStep
<1>3. JobReady(job[w])'
  BY <1>1 DEF JobInv, JobOK, JobReady, SameIdentity, TableStep
<1> QED
  BY <1>2, <1>3 DEF JobInv

\* Workers that do not move keep what their next steps need.
LEMMA JobsKept ==
    ASSUME JobsInv, TableStep, UNCHANGED job
    PROVE  JobsInv'
BY JobKept DEF JobsInv

\* One worker moves, the others do not.
LEMMA JobMoved ==
    ASSUME JobsInv, TableStep, NEW w \in Workers,
           DOMAIN job' = DOMAIN job,
           \A v \in Workers \ {w} : job'[v] = job[v],
           JobInv(w)'
    PROVE  JobsInv'
<1>1. \A v \in Workers : JobInv(v)'
  BY JobKept
<1> QED
  BY <1>1 DEF JobsInv

-----------------------------------------------------------------------------
(* The steps of the API.                                                   *)

\* A call or step that reads only: nothing but the calls changes.
LEMMA LookupKeeps ==
    ASSUME IInv, NEW c \in Clients, UNCHANGED <<storeVars, paymentVars, jobVars>>,
           CallsInv'
    PROVE  Kept
<1>1. TableInv /\ LedgerInv /\ JobsInv /\ now \in Int
  BY Parts
<1>2. TableStep
  BY <1>1, TableKept DEF storeVars
<1>3. TableInv'
  BY <1>2 DEF TableStep, TableInv
<1>4. LedgerInv'
  BY <1>1, <1>2, LedgerKept DEF paymentVars
<1>5. JobsInv'
  BY <1>1, <1>2, JobsKept DEF jobVars
<1>6. now' \in Int
  BY <1>1 DEF storeVars
<1> QED
  BY <1>2, <1>3, <1>4, <1>5, <1>6, Parts DEF Kept, TableStep

\* The validation and the lookup of CreateSubscription.
LEMMA CreateSubscriptionKeeps ==
    ASSUME IInv, NEW c \in Clients, CreateSubscription(c), UNCHANGED jobVars
    PROVE  Kept
<1>1. TableInv /\ CallsInv /\ now \in Int
  BY Parts
<1>2. TableStep
  BY <1>1, TableKept DEF CreateSubscription, storeVars
<1>3. PICK req \in CreateRequest :
         \/ Answer(c, "rejected")
         \/ /\ CreateRejection(req) = "none"
            /\ \E id \in FindByTypeAndIdentity(req.type, req.user, req.email) :
                  call' = [call EXCEPT ![c] =
                      [Idle("none") EXCEPT !.pc = "store", !.req = req,
                                           !.id = id, !.at = now]]
         \/ Answer(c, "error")
  BY DEF CreateSubscription
<1>4. ASSUME Answer(c, "rejected") PROVE CallsInv'
  BY <1>1, <1>2, <1>4, Answered DEF Replies
<1>5. ASSUME Answer(c, "error") PROVE CallsInv'
  BY <1>1, <1>2, <1>5, Answered DEF Replies
<1>6. ASSUME CreateRejection(req) = "none",
             NEW id \in FindByTypeAndIdentity(req.type, req.user, req.email),
             call' = [call EXCEPT ![c] =
                        [Idle("none") EXCEPT !.pc = "store", !.req = req,
                                             !.id = id, !.at = now]]
      PROVE  CallsInv'
  <2>1. id \in Ids \cup {0} /\ (id # 0 => SameIdentity(id, req))
    BY <1>1 DEF FindByTypeAndIdentity, SameIdentity, Identity
  <2>2. call'[c].pc = "store" /\ call'[c].req = req /\ call'[c].id = id
        /\ call'[c].at = now /\ call'[c].reply = "none"
    BY <1>1, <1>6 DEF CallsInv, Idle
  <2>3. table' = table /\ Ids' = Ids
    BY DEF CreateSubscription, storeVars, Ids
  <2>4. CallOK(call[c])'
    BY <1>1, <2>1, <2>2, <2>3 DEF CallOK, CallPcs, Replies
  <2>5. CallReady(call[c])'
    BY <1>6, <2>1, <2>2, <2>3 DEF CallReady, SameIdentity
  <2> QED
    BY <1>1, <1>2, <1>6, <2>4, <2>5, CallMoved DEF CallsInv, CallInv
<1>7. CallsInv'
  BY <1>3, <1>4, <1>5, <1>6
<1> QED
  BY <1>7, LookupKeeps DEF CreateSubscription, storeVars, paymentVars

\* FindByID at the start of the other operations.
LEMMA LoadKeeps ==
    ASSUME IInv, NEW c \in Clients, NEW req \in Requests, req.op # "create",
           Load(c, req), UNCHANGED jobVars
    PROVE  Kept
<1>1. TableInv /\ CallsInv /\ now \in Int
  BY Parts
<1>2. TableStep
  BY <1>1, TableKept DEF Load, storeVars
<1>3. ASSUME NEW reply \in Replies, Answer(c, reply) PROVE CallsInv'
  BY <1>1, <1>2, <1>3, Answered
<1>4. ASSUME req.id \in Ids, Rejection(req) = "none",
             call' = [call EXCEPT ![c] =
                 [Idle("none") EXCEPT !.pc = "save", !.req = req, !.id = req.id,
                                      !.row = table[req.id], !.at = now]]
      PROVE  CallsInv'
  <2>1. /\ call'[c].pc = "save" /\ call'[c].req = req
        /\ call'[c].id = req.id /\ call'[c].row = table[req.id]
        /\ call'[c].at = now /\ call'[c].reply = "none"
    BY <1>1, <1>4 DEF CallsInv, Idle
  <2>2. table' = table /\ Ids' = Ids
    BY DEF Load, storeVars, Ids
  <2>3. table[req.id] \in Row /\ Sound(table[req.id])
    BY <1>1, <1>4 DEF TableInv, RowsSound, Ids
  <2>4. CallOK(call[c])'
    BY <1>1, <1>4, <2>1, <2>2, <2>3 DEF CallOK, CallPcs, Replies
  <2>5. CallReady(call[c])'
    BY <1>4, <2>1, <2>2, <2>3 DEF CallReady, SameIdentity
  <2> QED
    BY <1>1, <1>2, <1>4, <2>4, <2>5, CallMoved DEF CallsInv, CallInv
<1>5. CallsInv'
  BY <1>3, <1>4 DEF Load, Replies
<1> QED
  BY <1>5, LookupKeeps DEF Load, storeVars, paymentVars

\* Requests on addressable ids are requests.
LEMMA AddressableRequests ==
    ASSUME TableInv
    PROVE  /\ UpdateRequest(Addressable) \subseteq Requests
           /\ DeleteRequest(Addressable) \subseteq Requests
           /\ CancelRequest(Addressable) \subseteq Requests
           /\ CallbackRequest(Addressable) \subseteq Requests
<1>1. Addressable \subseteq Nat
  BY DEF Addressable, TableInv
<1> QED
  BY <1>1
  DEF Requests, UpdateRequest, DeleteRequest, CancelRequest, CallbackRequest

\* Every operation of the API starts soundly.
LEMMA CallStartKeeps ==
    ASSUME IInv, NEW c \in Clients, CallStart(c), UNCHANGED jobVars
    PROVE  Kept
<1>1. CASE CreateSubscription(c)
  BY <1>1, CreateSubscriptionKeeps
<1>2. CASE UpdateSubscription(c)
  <2>1. PICK req \in UpdateRequest(Addressable) : Load(c, req)
    BY <1>2 DEF UpdateSubscription
  <2>2. req \in Requests /\ req.op # "create"
    BY Parts, AddressableRequests DEF UpdateRequest
  <2> QED
    BY <2>1, <2>2, LoadKeeps
<1>3. CASE DeleteSubscription(c)
  <2>1. PICK req \in DeleteRequest(Addressable) : Load(c, req)
    BY <1>3 DEF DeleteSubscription
  <2>2. req \in Requests /\ req.op # "create"
    BY Parts, AddressableRequests DEF DeleteRequest
  <2> QED
    BY <2>1, <2>2, LoadKeeps
<1>4. CASE CancelSubscription(c)
  <2>1. PICK req \in CancelRequest(Addressable) : Load(c, req)
    BY <1>4 DEF CancelSubscription
  <2>2. req \in Requests /\ req.op # "create"
    BY Parts, AddressableRequests DEF CancelRequest
  <2> QED
    BY <2>1, <2>2, LoadKeeps
<1>5. CASE PaymentCallback(c)
  <2>1. PICK req \in CallbackRequest(Addressable) : Load(c, req)
    BY <1>5 DEF PaymentCallback
  <2>2. req \in Requests /\ req.op # "create"
    BY Parts, AddressableRequests DEF CallbackRequest
  <2> QED
    BY <2>1, <2>2, LoadKeeps
<1> QED
  BY <1>1, <1>2, <1>3, <1>4, <1>5 DEF CallStart

\* The invariant from its parts, when the clock stands still.
LEMMA Assemble ==
    ASSUME IInv, UNCHANGED now, TableStep, LedgerInv', CallsInv', JobsInv'
    PROVE  Kept
<1>1. TableInv'
  BY DEF TableStep, TableInv
<1> QED
  BY <1>1, Parts DEF Kept, TableStep

\* What follows the first write of CreateSubscription.
LEMMA CreateStoredKeeps ==
    ASSUME IInv, TableStep, NEW c \in Clients, NEW id, NEW row \in Row,
           Sound(row), NEW reply \in Replies,
           reply = "ok" => id \in Ids' /\ Identity(table'[id]) = Identity(row),
           CreateStored(c, id, row, reply)
    PROVE  CallsInv'
<1>1. CallsInv
  BY Parts
<1>2. ASSUME Answer(c, reply) PROVE CallsInv'
  BY <1>1, <1>2, Answered
<1>3. ASSUME reply = "ok", Planned(row.type),
             call' = [call EXCEPT ![c] =
               [Idle("none") EXCEPT !.pc = "pay", !.id = id, !.row = row]]
      PROVE  CallsInv'
  <2>1. /\ call'[c].pc = "pay" /\ call'[c].id = id /\ call'[c].row = row
        /\ call'[c].at = 0 /\ call'[c].reply = "none"
    BY <1>1, <1>3 DEF CallsInv, Idle
  <2>2. CallOK(call[c])'
    BY <1>3, <2>1 DEF CallOK, CallPcs, Replies
  <2>3. CallReady(call[c])'
    BY <1>3, <2>1 DEF CallReady, SameIdentity
  <2> QED
    BY <1>1, <1>3, <2>2, <2>3, CallMoved DEF CallsInv, CallInv
<1> QED
  BY <1>2, <1>3 DEF CreateStored

\* The INSERT of CreateSubscription.
LEMMA CreateInsertKeeps ==
    ASSUME IInv, NEW c \in Clients, CreateInsert(c), UNCHANGED jobVars
    PROVE  Kept
<1>1. TableInv /\ LedgerInv /\ CallsInv /\ JobsInv
  BY Parts
<1> DEFINE row == CreateRow(call[c].req, call[c].at)
<1>2. PICK reply \in InsertReplies :
         Create(row, reply) /\ CreateStored(c, Len(table) + 1, row, reply)
  BY DEF CreateInsert
<1>3. row \in Row /\ Sound(row)
  BY <1>1, CreateRowSound DEF CallsInv, CallInv, CallOK, CallReady, CreateInsert
<1> HIDE DEF row
<1>4. TableStep /\ (reply = "ok" => /\ Len(table) + 1 \in Ids'
                                   /\ table'[Len(table) + 1] = row)
  BY <1>1, <1>2, <1>3, CreateStep
<1>5. CallsInv'
  BY <1>2, <1>3, <1>4, CreateStoredKeeps DEF InsertReplies, Replies
<1>6. LedgerInv'
  BY <1>1, <1>4, LedgerKept DEF CreateInsert, paymentVars
<1>7. JobsInv'
  BY <1>1, <1>4, JobsKept DEF jobVars
<1> QED
  BY <1>4, <1>5, <1>6, <1>7, Assemble DEF CreateInsert

\* The first UPDATE of CreateSubscription, on a row that was found.
LEMMA CreateOverwriteKeeps ==
    ASSUME IInv, NEW c \in Clients, CreateOverwrite(c), UNCHANGED jobVars
    PROVE  Kept
<1>1. TableInv /\ LedgerInv /\ CallsInv /\ JobsInv
  BY Parts
<1> DEFINE id  == call[c].id
           row == CreateRow(call[c].req, call[c].at)
<1>2. PICK reply \in UpdateReplies :
         Update(id, row, reply) /\ CreateStored(c, id, row, reply)
  BY DEF CreateOverwrite
<1>3. row \in Row /\ Sound(row) /\ Identity(row) = Identity(call[c].req)
  BY <1>1, CreateRowSound
  DEF CallsInv, CallInv, CallOK, CallReady, CreateOverwrite
<1>4. id \in Ids /\ SameIdentity(id, row)
  BY <1>1, <1>3
  DEF CallsInv, CallInv, CallOK, CallReady, CreateOverwrite, SameIdentity
<1> HIDE DEF row
<1>5. TableStep /\ Ids' = Ids
  BY <1>1, <1>2, <1>3, <1>4, UpdateStep
<1>6. id \in Ids' /\ Identity(table'[id]) = Identity(row)
  BY <1>4, <1>5 DEF TableStep, SameIdentity
<1> HIDE DEF id
<1>7. CallsInv'
  BY <1>2, <1>3, <1>5, <1>6, CreateStoredKeeps DEF UpdateReplies, Replies
<1>8. LedgerInv'
  BY <1>1, <1>5, LedgerKept DEF CreateOverwrite, paymentVars
<1>9. JobsInv'
  BY <1>1, <1>5, JobsKept DEF jobVars
<1> QED
  BY <1>5, <1>7, <1>8, <1>9, Assemble DEF CreateOverwrite

\* The provider call of CreateSubscription.
LEMMA CreatePayKeeps ==
    ASSUME IInv, NEW c \in Clients, CreatePay(c), UNCHANGED jobVars
    PROVE  Kept
<1>1. TableInv /\ LedgerInv /\ CallsInv /\ JobsInv /\ now \in Int
  BY Parts
<1>2. /\ call[c].id \in Ids /\ call[c].row \in Row /\ Sound(call[c].row)
      /\ SameIdentity(call[c].id, call[c].row) /\ Planned(call[c].row.type)
  BY <1>1 DEF CallsInv, CallInv, CallOK, CallReady, CreatePay
<1>3. call[c].row.endAt \in Int
  BY <1>2, RowFields DEF Sound, DatedWhenPlanned, MaybeTime
<1>4. Planned(table[call[c].id].type)
  BY <1>2, IdentityFields DEF SameIdentity
<1>5. UNCHANGED table /\ UNCHANGED now
  BY DEF CreatePay, storeVars
<1>6. TableStep
  BY <1>1, <1>5, TableKept
<1>7. PICK result \in PaymentResults :
         /\ ProcessSubscriptionPayment(call[c].id, call[c].row.endAt, result)
         /\ IF result = "panic"
            THEN Answer(c, "error")
            ELSE call' = [call EXCEPT ![c] =
                     [Idle("none") EXCEPT !.pc = "settle", !.id = call[c].id,
                                          !.row = call[c].row, !.at = now,
                                          !.result = result]]
  BY DEF CreatePay
<1>8. LedgerInv'
  BY <1>1, <1>2, <1>3, <1>4, <1>5, <1>7, LedgerCharged
<1>9. CallsInv'
  <2>1. ASSUME Answer(c, "error") PROVE CallsInv'
    BY <1>1, <1>6, <2>1, Answered DEF Replies
  <2>2. ASSUME call' = [call EXCEPT ![c] =
                 [Idle("none") EXCEPT !.pc = "settle", !.id = call[c].id,
                                      !.row = call[c].row, !.at = now,
                                      !.result = result]]
        PROVE  CallsInv'
    <3>1. /\ call'[c].pc = "settle" /\ call'[c].id = call[c].id
          /\ call'[c].row = call[c].row /\ call'[c].at = now
          /\ call'[c].result = result /\ call'[c].reply = "none"
      BY <1>1, <2>2 DEF CallsInv, Idle
    <3>2. CallOK(call[c])'
      BY <1>1, <1>2, <1>5, <3>1 DEF CallOK, CallPcs, Replies, Ids
    <3>3. CallReady(call[c])'
      BY <1>2, <1>5, <3>1 DEF CallReady, SameIdentity
    <3> QED
      BY <1>1, <1>6, <2>2, <3>2, <3>3, CallMoved DEF CallsInv, CallInv
  <2> QED
    BY <1>7, <2>1, <2>2
<1>10. JobsInv'
  BY <1>1, <1>6, JobsKept DEF jobVars
<1> QED
  BY <1>5, <1>6, <1>8, <1>9, <1>10, Assemble

\* The last UPDATE of CreateSubscription.
LEMMA CreateSettleKeeps ==
    ASSUME IInv, NEW c \in Clients, CreateSettle(c), UNCHANGED jobVars
    PROVE  Kept
<1>1. TableInv /\ LedgerInv /\ CallsInv /\ JobsInv /\ now \in Int
  BY Parts
<1>2. PICK t \in call[c].at .. now, reply \in UpdateReplies :
         /\ Update(call[c].id, CreateSettled(call[c].row, call[c].result, t), reply)
         /\ Answer(c, reply)
  BY DEF CreateSettle
<1>3. /\ call[c].id \in Ids /\ call[c].row \in Row /\ Sound(call[c].row)
      /\ SameIdentity(call[c].id, call[c].row) /\ call[c].at \in Int
  BY <1>1 DEF CallsInv, CallInv, CallOK, CallReady, CreateSettle
<1>4. t \in Int
  BY <1>1, <1>3
<1> DEFINE new == CreateSettled(call[c].row, call[c].result, t)
<1>5. Good(call[c].row, new)
  BY <1>3, <1>4, CreateSettledGood
<1> HIDE DEF new
<1>6. new \in Row /\ Sound(new) /\ SameIdentity(call[c].id, new)
  BY <1>3, <1>5 DEF Good, SameIdentity
<1>7. TableStep
  BY <1>1, <1>2, <1>3, <1>6, UpdateStep DEF new
<1>8. CallsInv'
  BY <1>1, <1>2, <1>7, Answered DEF UpdateReplies, Replies
<1>9. LedgerInv'
  BY <1>1, <1>7, LedgerKept DEF CreateSettle, paymentVars
<1>10. JobsInv'
  BY <1>1, <1>7, JobsKept DEF jobVars
<1> QED
  BY <1>7, <1>8, <1>9, <1>10, Assemble DEF CreateSettle

\* The UPDATE of an operation on an existing row.
LEMMA SaveKeeps ==
    ASSUME IInv, NEW c \in Clients, Save(c), UNCHANGED jobVars
    PROVE  Kept
<1>1. TableInv /\ LedgerInv /\ CallsInv /\ JobsInv /\ now \in Int
  BY Parts
<1> DEFINE req == call[c].req
<1>2. PICK t \in call[c].at .. now, reply \in UpdateReplies :
         /\ Update(call[c].id, Applied(req, call[c].row, t), reply)
         /\ Answer(c, reply)
         /\ LinkPaid(call[c].id) \/ UNCHANGED paymentVars
  BY DEF Save
<1>3. /\ call[c].id \in Ids /\ call[c].row \in Row /\ Sound(call[c].row)
      /\ SameIdentity(call[c].id, call[c].row) /\ call[c].at \in Int
      /\ req \in Requests /\ req.op # "create" /\ Rejection(req) = "none"
  BY <1>1 DEF CallsInv, CallInv, CallOK, CallReady, Save
<1>4. t \in Int
  BY <1>1, <1>3
<1> DEFINE new == Applied(req, call[c].row, t)
<1>5. Good(call[c].row, new)
  BY <1>3, <1>4, AppliedGood
<1> HIDE DEF new, req
<1>6. new \in Row /\ Sound(new) /\ SameIdentity(call[c].id, new)
  BY <1>3, <1>5 DEF Good, SameIdentity
<1>7. TableStep
  BY <1>1, <1>2, <1>3, <1>6, UpdateStep DEF new
<1>8. CallsInv'
  BY <1>1, <1>2, <1>7, Answered DEF UpdateReplies, Replies
<1>9. outstanding' \subseteq outstanding \cup paidTo
      /\ paidTo' \subseteq outstanding \cup paidTo
  BY <1>2 DEF LinkPaid, paymentVars
<1>10. LedgerInv'
  BY <1>1, <1>7, <1>9, LedgerKept
<1>11. JobsInv'
  BY <1>1, <1>7, JobsKept DEF jobVars
<1> QED
  BY <1>7, <1>8, <1>10, <1>11, Assemble DEF Save

\* The death of the API process.
LEMMA ApiCrashKeeps ==
    ASSUME IInv, ApiCrash, UNCHANGED jobVars
    PROVE  Kept
<1>1. TableInv /\ LedgerInv /\ JobsInv
  BY Parts
<1>2. TableStep
  BY <1>1, TableKept DEF ApiCrash, storeVars
<1>3. CallsInv'
  BY DEF ApiCrash, CallsInv, CallInv, CallOK, CallReady, Idle, CallPcs, Replies
<1>4. LedgerInv'
  BY <1>1, <1>2, LedgerKept DEF ApiCrash, paymentVars
<1>5. JobsInv'
  BY <1>1, <1>2, JobsKept DEF jobVars
<1> QED
  BY <1>2, <1>3, <1>4, <1>5, Assemble DEF ApiCrash, storeVars

-----------------------------------------------------------------------------
(* The steps of the jobs.                                                  *)

\* The listing at the start of a batch.
LEMMA ListedKeeps ==
    ASSUME IInv, NEW w \in Workers, NEW pc \in JobPcs \ {"settle"},
           NEW ids, ids \subseteq Ids, Listed(w, pc, ids), UNCHANGED apiVars
    PROVE  Kept
<1>1. TableInv /\ LedgerInv /\ CallsInv /\ JobsInv /\ now \in Int
  BY Parts
<1>2. UNCHANGED table /\ UNCHANGED now /\ UNCHANGED paymentVars
  BY DEF Listed, storeVars
<1>3. TableStep
  BY <1>1, <1>2, TableKept
<1>4. /\ DOMAIN job' = DOMAIN job
      /\ \A v \in Workers \ {w} : job'[v] = job[v]
      /\ job'[w].pc = pc /\ job'[w].batch = Snapshot(ids)
      /\ job'[w].now = now /\ job'[w].at = 0
  BY <1>1 DEF JobsInv, Listed, Resting
<1>5. \A i \in ids : table[i] \in Row /\ Sound(table[i])
  BY <1>1 DEF TableInv, RowsSound, Ids
<1>6. JobOK(job[w])'
  BY <1>1, <1>2, <1>4, <1>5 DEF JobOK, Snapshot, Ids
<1>7. JobReady(job[w])'
  BY <1>2, <1>4, <1>5 DEF JobReady, Snapshot, SameIdentity
<1>8. JobsInv'
  BY <1>1, <1>3, <1>4, <1>6, <1>7, JobMoved DEF JobInv
<1>9. LedgerInv'
  BY <1>1, <1>2, <1>3, LedgerKept DEF paymentVars
<1>10. CallsInv'
  BY <1>1, <1>3, CallsKept DEF apiVars
<1> QED
  BY <1>2, <1>3, <1>8, <1>9, <1>10, Assemble

\* Every batch starts soundly.
LEMMA JobStartKeeps ==
    ASSUME IInv, NEW w \in Workers, JobStart(w), UNCHANGED apiVars
    PROVE  Kept
<1>1. CASE RenewList(w)
  BY <1>1, ListedKeeps DEF RenewList, ListDueAutoRenew, JobPcs
<1>2. CASE CleanupList(w)
  BY <1>2, ListedKeeps DEF CleanupList, ListPendingPaymentStale, JobPcs
<1>3. CASE ExpireList(w)
  BY <1>3, ListedKeeps DEF ExpireList, ListExpiredActive, JobPcs
<1> QED
  BY <1>1, <1>2, <1>3 DEF JobStart

\* Passing on to the next item keeps the invariant.
LEMMA AdvanceKeeps ==
    ASSUME JobsInv, TableStep, NEW w \in Workers, NEW id,
           NEW pc \in JobPcs \ {"settle"}, NEW t \in Int, Advance(w, id, pc, t)
    PROVE  JobsInv'
<1> DEFINE rest == DOMAIN job[w].batch \ {id}
<1>1. JobInv(w)
  BY DEF JobsInv
<1>2. DOMAIN job' = DOMAIN job /\ \A v \in Workers \ {w} : job'[v] = job[v]
  BY DEF JobsInv, Advance
<1>3. CASE rest = {}
  <2>1. job'[w] = Resting
    BY <1>3 DEF JobsInv, Advance
  <2>2. JobInv(w)'
    BY <2>1 DEF JobInv, JobOK, JobReady, Resting, Snapshot, JobPcs
  <2> QED
    BY <1>2, <2>2, JobMoved
<1>4. CASE rest # {}
  <2>1. /\ job'[w].pc = pc /\ job'[w].now = t /\ job'[w].at = 0
        /\ job'[w].batch = [i \in rest |-> job[w].batch[i]]
    BY <1>4 DEF JobsInv, Advance, Resting
  <2>2. JobOK(job[w])'
    BY <1>1, <2>1 DEF JobInv, JobOK, TableStep
  <2>3. JobReady(job[w])'
    BY <1>1, <2>1 DEF JobInv, JobOK, JobReady, SameIdentity, TableStep
  <2> QED
    BY <1>2, <2>2, <2>3, JobMoved DEF JobInv
<1> QED
  BY <1>3, <1>4

\* Writing a sound rewriting of a copy is a step of the table.
LEMMA ItemStep ==
    ASSUME IInv, NEW w \in Workers, NEW id \in DOMAIN job[w].batch, NEW row,
           Good(job[w].batch[id], row), NEW reply, Update(id, row, reply)
    PROVE  TableStep
<1>1. id \in Ids /\ SameIdentity(id, job[w].batch[id])
  BY Parts DEF JobsInv, JobInv, JobOK, JobReady
<1>2. row \in Row /\ Sound(row) /\ SameIdentity(id, row)
  BY <1>1 DEF Good, SameIdentity
<1> QED
  BY <1>1, <1>2, UpdateStep, Parts

\* The copies a worker holds.
LEMMA BatchFields ==
    ASSUME IInv, NEW w \in Workers, NEW id \in DOMAIN job[w].batch
    PROVE  /\ id \in Ids
           /\ job[w].batch[id] \in Row
           /\ Sound(job[w].batch[id])
           /\ SameIdentity(id, job[w].batch[id])
           /\ job[w].now \in Int
           /\ job[w].at \in Int
BY Parts DEF JobsInv, JobInv, JobOK, JobReady

\* The mark before a renewal payment.
LEMMA RenewMarkKeeps ==
    ASSUME IInv, NEW w \in Workers, RenewMark(w), UNCHANGED apiVars
    PROVE  Kept
<1>1. TableInv /\ LedgerInv /\ CallsInv /\ JobsInv
  BY Parts
<1>2. PICK id \in DOMAIN job[w].batch, reply \in UpdateReplies :
         LET marked == RenewMarked(job[w].batch[id], job[w].now)
         IN /\ Update(id, marked, reply)
            /\ IF reply = "ok"
               THEN job' = [job EXCEPT ![w] =
                        [Resting EXCEPT
                            !.pc = "pay", !.now = job[w].now,
                            !.batch = [job[w].batch EXCEPT ![id] = marked]]]
               ELSE Advance(w, id, "mark", job[w].now)
  BY DEF RenewMark
<1> DEFINE marked == RenewMarked(job[w].batch[id], job[w].now)
<1>3. Good(job[w].batch[id], marked)
  BY BatchFields, RenewMarkedGood
<1> HIDE DEF marked
<1>4. TableStep
  BY <1>2, <1>3, ItemStep DEF marked
<1>5. JobsInv'
  <2>1. ASSUME Advance(w, id, "mark", job[w].now) PROVE JobsInv'
    BY <1>1, <1>4, <2>1, AdvanceKeeps, BatchFields DEF JobPcs
  <2>2. ASSUME job' = [job EXCEPT ![w] =
                  [Resting EXCEPT
                      !.pc = "pay", !.now = job[w].now,
                      !.batch = [job[w].batch EXCEPT ![id] = marked]]]
        PROVE  JobsInv'
    <3>1. /\ job'[w].pc = "pay" /\ job'[w].now = job[w].now
          /\ job'[w].at = 0
          /\ job'[w].batch = [job[w].batch EXCEPT ![id] = marked]
      BY <1>1, <2>2 DEF JobsInv, Resting
    <3>2. /\ DOMAIN job'[w].batch = DOMAIN job[w].batch
          /\ \A i \in DOMAIN job[w].batch :
                job'[w].batch[i] = IF i = id THEN marked ELSE job[w].batch[i]
      BY <3>1
    <3>3. \A i \in DOMAIN job'[w].batch :
             /\ i \in Ids'
             /\ job'[w].batch[i] \in Row
             /\ Sound(job'[w].batch[i])
             /\ Identity(table'[i]) = Identity(job'[w].batch[i])
      BY <1>3, <1>4, <3>2, BatchFields DEF Good, SameIdentity, TableStep
    <3>4. JobOK(job[w])'
      BY <3>1, <3>3, BatchFields DEF JobOK, JobPcs
    <3>5. JobReady(job[w])'
      BY <3>1, <3>3 DEF JobReady, SameIdentity
    <3> QED
      BY <1>1, <1>4, <2>2, <3>4, <3>5, JobMoved DEF JobsInv, JobInv
  <2> QED
    BY <1>2, <2>1, <2>2 DEF marked
<1>6. LedgerInv'
  BY <1>1, <1>4, LedgerKept DEF RenewMark, paymentVars
<1>7. CallsInv'
  BY <1>1, <1>4, CallsKept DEF apiVars
<1> QED
  BY <1>4, <1>5, <1>6, <1>7, Assemble DEF RenewMark

\* The plan lookup and the provider call of a renewal.
LEMMA RenewPayKeeps ==
    ASSUME IInv, NEW w \in Workers, RenewPay(w), UNCHANGED apiVars
    PROVE  Kept
<1>1. TableInv /\ LedgerInv /\ CallsInv /\ JobsInv /\ now \in Int
  BY Parts
<1>2. UNCHANGED table /\ UNCHANGED now
  BY DEF RenewPay, storeVars
<1>3. TableStep
  BY <1>1, <1>2, TableKept
<1>4. PICK id \in DOMAIN job[w].batch :
         /\ First(w, id)
         /\ \/ /\ Settling(w, "no_plan")
               /\ UNCHANGED paymentVars
            \/ \E result \in PaymentResults :
               /\ Planned(job[w].batch[id].type)
               /\ ProcessSubscriptionPayment(
                     id, RenewedEnd(job[w].batch[id], now), result)
               /\ Settling(w, result)
  BY DEF RenewPay
<1>5. ASSUME NEW result \in PaymentResults \cup {"no_plan"},
             Settling(w, result),
             result # "no_plan" => Planned(job[w].batch[id].type)
      PROVE  JobsInv'
  <2>1. /\ job'[w].pc = "settle" /\ job'[w].batch = job[w].batch
        /\ job'[w].now = job[w].now /\ job'[w].at = now
        /\ job'[w].result = result
    BY <1>1, <1>5 DEF JobsInv, Settling, Resting
  <2>2. JobOK(job[w])'
    BY <1>1, <1>2, <2>1 DEF JobOK, JobPcs, JobsInv, JobInv, Ids
  <2>3. \A i \in DOMAIN job[w].batch :
           (\A other \in DOMAIN job[w].batch : i <= other) => i = id
    <3>1. \A i \in DOMAIN job[w].batch : i \in Int
      BY BatchFields, <1>1 DEF TableInv, Ids
    <3> QED
      BY <1>4, <3>1 DEF First
  <2>4. JobReady(job[w])'
    BY <1>1, <1>2, <1>5, <2>1, <2>3
    DEF JobReady, JobsInv, JobInv, SameIdentity
  <2> QED
    BY <1>1, <1>3, <1>5, <2>2, <2>4, JobMoved DEF JobsInv, JobInv, Settling
<1>6. JobsInv' /\ LedgerInv'
  <2>1. CASE Settling(w, "no_plan") /\ UNCHANGED paymentVars
    BY <1>1, <1>3, <1>5, <2>1, LedgerKept DEF paymentVars
  <2>2. ASSUME NEW result \in PaymentResults,
               Planned(job[w].batch[id].type),
               ProcessSubscriptionPayment(
                 id, RenewedEnd(job[w].batch[id], now), result),
               Settling(w, result)
        PROVE  JobsInv' /\ LedgerInv'
    <3>1. JobsInv'
      BY <1>5, <2>2
    <3>2. Planned(table[id].type)
      BY <2>2, BatchFields, IdentityFields DEF SameIdentity
    <3>3. RenewedEnd(job[w].batch[id], now) \in Int
      BY <1>1, <2>2, BatchFields, RenewedEndIsInt
    <3>4. LedgerInv'
      BY <1>1, <1>2, <2>2, <3>2, <3>3, BatchFields, LedgerCharged
    <3> QED
      BY <3>1, <3>4
  <2> QED
    BY <1>4, <2>1, <2>2
<1>7. CallsInv'
  BY <1>1, <1>3, CallsKept DEF apiVars
<1> QED
  BY <1>2, <1>3, <1>6, <1>7, Assemble

\* The write after a renewal payment.
LEMMA RenewSettleKeeps ==
    ASSUME IInv, NEW w \in Workers, RenewSettle(w), UNCHANGED apiVars
    PROVE  Kept
<1>1. TableInv /\ LedgerInv /\ CallsInv /\ JobsInv /\ now \in Int
  BY Parts
<1>2. PICK id \in DOMAIN job[w].batch, t \in job[w].at .. now,
           reply \in UpdateReplies :
         /\ First(w, id)
         /\ Update(id, RenewSettled(job[w].batch[id], job[w].result, t), reply)
         /\ Advance(w, id, "mark",
                    IF job[w].result = "no_plan" THEN job[w].now ELSE t)
  BY DEF RenewSettle
<1>3. t \in Int
  BY <1>1, BatchFields
<1>4. job[w].result # "no_plan" => Planned(job[w].batch[id].type)
  BY <1>1, <1>2 DEF JobsInv, JobInv, JobReady, RenewSettle, First
<1>5. Good(job[w].batch[id],
           RenewSettled(job[w].batch[id], job[w].result, t))
  BY <1>3, <1>4, BatchFields, RenewSettledGood
<1>6. TableStep
  BY <1>2, <1>5, ItemStep
<1>7. JobsInv'
  BY <1>1, <1>2, <1>3, <1>6, AdvanceKeeps, BatchFields DEF JobPcs
<1>8. LedgerInv'
  BY <1>1, <1>6, LedgerKept DEF RenewSettle, paymentVars
<1>9. CallsInv'
  BY <1>1, <1>6, CallsKept DEF apiVars
<1> QED
  BY <1>6, <1>7, <1>8, <1>9, Assemble DEF RenewSettle

\* One item of RunPendingPaymentCleanupBatch.
LEMMA CleanupItemKeeps ==
    ASSUME IInv, NEW w \in Workers, CleanupItem(w), UNCHANGED apiVars
    PROVE  Kept
<1>1. TableInv /\ LedgerInv /\ CallsInv /\ JobsInv
  BY Parts
<1>2. PICK id \in DOMAIN job[w].batch, reply \in UpdateReplies :
         /\ Update(id, CleanupRow(job[w].batch[id], job[w].now), reply)
         /\ Advance(w, id, "cleanup", job[w].now)
  BY DEF CleanupItem
<1>3. TableStep
  BY <1>2, ItemStep, BatchFields, CleanupRowGood
<1>4. JobsInv'
  BY <1>1, <1>2, <1>3, AdvanceKeeps, BatchFields DEF JobPcs
<1>5. LedgerInv'
  BY <1>1, <1>3, LedgerKept DEF CleanupItem, paymentVars
<1>6. CallsInv'
  BY <1>1, <1>3, CallsKept DEF apiVars
<1> QED
  BY <1>3, <1>4, <1>5, <1>6, Assemble DEF CleanupItem

\* One item of RunExpirationBatch.
LEMMA ExpireItemKeeps ==
    ASSUME IInv, NEW w \in Workers, ExpireItem(w), UNCHANGED apiVars
    PROVE  Kept
<1>1. TableInv /\ LedgerInv /\ CallsInv /\ JobsInv
  BY Parts
<1>2. PICK id \in DOMAIN job[w].batch, reply \in UpdateReplies :
         /\ Update(id, ExpireRow(job[w].batch[id], job[w].now), reply)
         /\ Advance(w, id, "expire", job[w].now)
  BY DEF ExpireItem
<1>3. TableStep
  BY <1>2, ItemStep, BatchFields, ExpireRowGood
<1>4. JobsInv'
  BY <1>1, <1>2, <1>3, AdvanceKeeps, BatchFields DEF JobPcs
<1>5. LedgerInv'
  BY <1>1, <1>3, LedgerKept DEF ExpireItem, paymentVars
<1>6. CallsInv'
  BY <1>1, <1>3, CallsKept DEF apiVars
<1> QED
  BY <1>3, <1>4, <1>5, <1>6, Assemble DEF ExpireItem

\* The death of a worker.
LEMMA JobCrashKeeps ==
    ASSUME IInv, NEW w \in Workers, JobCrash(w), UNCHANGED apiVars
    PROVE  Kept
<1>1. TableInv /\ LedgerInv /\ CallsInv /\ JobsInv
  BY Parts
<1>2. TableStep
  BY <1>1, TableKept DEF JobCrash, storeVars
<1>3. /\ DOMAIN job' = DOMAIN job
      /\ \A v \in Workers \ {w} : job'[v] = job[v]
      /\ job'[w] = Resting
  BY <1>1 DEF JobCrash, JobsInv
<1>4. JobInv(w)'
  BY <1>3 DEF JobInv, JobOK, JobReady, Resting, Snapshot, JobPcs
<1>5. JobsInv'
  BY <1>1, <1>2, <1>3, <1>4, JobMoved
<1>6. LedgerInv'
  BY <1>1, <1>2, LedgerKept DEF JobCrash, paymentVars
<1>7. CallsInv'
  BY <1>1, <1>2, CallsKept DEF apiVars
<1> QED
  BY <1>2, <1>5, <1>6, <1>7, Assemble DEF JobCrash, storeVars

-----------------------------------------------------------------------------
(* The system.                                                             *)

\* Time passing changes nothing else.
LEMMA ClockStepKeeps ==
    ASSUME IInv, ClockStep
    PROVE  Kept
<1>1. TableInv /\ LedgerInv /\ CallsInv /\ JobsInv /\ now \in Int
  BY Parts
<1>2. TableStep
  BY <1>1, TableKept DEF ClockStep, Tick
<1>3. TableInv'
  BY <1>2 DEF TableStep, TableInv
<1>4. LedgerInv'
  BY <1>1, <1>2, LedgerKept DEF ClockStep, paymentVars
<1>5. CallsInv' /\ JobsInv'
  BY <1>1, <1>2, CallsKept, JobsKept DEF ClockStep, apiVars, jobVars
<1>6. now' \in Int
  BY <1>1 DEF ClockStep, Tick
<1> QED
  BY <1>2, <1>3, <1>4, <1>5, <1>6, Parts DEF Kept, TableStep

\* Neither does a step that is not one of the system.
LEMMA StutterKeeps ==
    ASSUME IInv, UNCHANGED vars
    PROVE  Kept
<1>1. TableInv /\ LedgerInv /\ CallsInv /\ JobsInv
  BY Parts
<1>2. TableStep
  BY <1>1, TableKept DEF vars
<1>3. LedgerInv'
  BY <1>1, <1>2, LedgerKept DEF vars
<1>4. CallsInv' /\ JobsInv'
  BY <1>1, <1>2, CallsKept, JobsKept DEF vars
<1> QED
  BY <1>2, <1>3, <1>4, Assemble DEF vars

\* Every step of the system keeps the inductive invariant and is a step of
\* SubscriptionTable, or leaves the table alone.
LEMMA NextKeeps ==
    ASSUME IInv, [Next]_vars
    PROVE  Kept
<1>1. CASE ClockStep
  BY <1>1, ClockStepKeeps
<1>2. ASSUME NEW c \in Clients, ApiStart(c) PROVE Kept
  BY <1>2, CallStartKeeps DEF ApiStart
<1>3. ASSUME NEW c \in Clients, ApiStep(c) PROVE Kept
  BY <1>3, CreateInsertKeeps, CreateOverwriteKeeps, CreatePayKeeps,
     CreateSettleKeeps, SaveKeeps DEF ApiStep, CallStep
<1>4. CASE ApiFailure
  BY <1>4, ApiCrashKeeps DEF ApiFailure
<1>5. ASSUME NEW w \in Workers, WorkStart(w) PROVE Kept
  BY <1>5, JobStartKeeps DEF WorkStart
<1>6. ASSUME NEW w \in Workers, WorkStep(w) PROVE Kept
  BY <1>6, RenewMarkKeeps, RenewPayKeeps, RenewSettleKeeps, CleanupItemKeeps,
     ExpireItemKeeps DEF WorkStep, JobStep
<1>7. ASSUME NEW w \in Workers, WorkFailure(w) PROVE Kept
  BY <1>7, JobCrashKeeps DEF WorkFailure
<1>8. CASE UNCHANGED vars
  BY <1>8, StutterKeeps
<1> QED
  BY <1>1, <1>2, <1>3, <1>4, <1>5, <1>6, <1>7, <1>8 DEF Next

\* The table the system starts from satisfies the inductive invariant.
LEMMA InitKeeps ==
    ASSUME Init
    PROVE  IInv
<1>1. table = InitialRows /\ now = 0 /\ outstanding = {} /\ paidTo = {}
      /\ call = [c \in Clients |-> Idle("none")]
      /\ job = [w \in Workers |-> Resting]
  BY DEF Init, StoreInit, PaymentInit, ApiInit, JobsInit
<1>2. TableInv
  BY <1>1, InitialAssumption DEF TableInv, RowsSound, FullIdentityUnique, Ids
<1>3. LedgerInv
  BY <1>1 DEF LedgerInv, OnlyPlansCharged
<1>4. CallsInv
  BY <1>1 DEF CallsInv, CallInv, CallOK, CallReady, Idle, CallPcs, Replies
<1>5. JobsInv
  BY <1>1 DEF JobsInv, JobInv, JobOK, JobReady, Resting, Snapshot, JobPcs
<1> QED
  BY <1>1, <1>2, <1>3, <1>4, <1>5, Parts

\* IInv holds in every reachable state, whatever the constants.
THEOREM Invariance == Spec => []IInv
<1>1. Init => IInv
  BY InitKeeps
<1>2. IInv /\ [Next]_vars => IInv'
  BY NextKeeps DEF Kept
<1> QED
  BY <1>1, <1>2, PTL DEF Spec

\* Every variable keeps its type, and every process in the middle of an
\* operation holds a copy of a row that exists.
THEOREM TypeCorrect == Spec => []TypeOK
<1>1. IInv => TypeOK
  BY DEF IInv
<1> QED
  BY <1>1, Invariance, PTL

\* No handler, job or stale copy leaves a row with half of a change: an
\* inactive row renewing, a renewing row without a renewal date, a planned
\* row without dates.
THEOREM RowsStaySound == Spec => []RowsSound
<1>1. IInv => RowsSound
  BY DEF IInv
<1> QED
  BY <1>1, Invariance, PTL

\* Two rows with a type, a user and an email that are all given are the same
\* row, although CreateSubscription looks one up and inserts it in two steps.
THEOREM FullIdentityStaysUnique == Spec => []FullIdentityUnique
<1>1. IInv => FullIdentityUnique
  BY DEF IInv
<1> QED
  BY <1>1, Invariance, PTL

\* Nobody is charged for a subscription whose type has no plan, although the
\* workers decide on copies.
THEOREM OnlyPlansAreCharged == Spec => []OnlyPlansCharged
<1>1. IInv => OnlyPlansCharged
  BY DEF IInv
<1> QED
  BY <1>1, Invariance, PTL

\* Subscriptions implements SubscriptionTable: whoever writes, a step adds
\* one sound row that is not known yet, or rewrites one row soundly.
THEOREM Refinement == Spec => ImplementsTable
<1>1. Init => Contract!Init
  BY DEF Init, StoreInit, Contract!Init
<1>2. IInv /\ [Next]_vars => [Contract!Next]_table
  BY NextKeeps DEF Kept
<1> QED
  BY <1>1, <1>2, Invariance, PTL DEF Spec, ImplementsTable, Contract!Spec

-----------------------------------------------------------------------------
(* The replies.                                                            *)

\* A call in progress has not been answered.
Unanswered == \A c \in Clients : call[c].pc # "idle" => call[c].reply = "none"

\* What NotFoundLosesNothing asks of a step.
LosesNothing(c) ==
    call[c].pc # "idle" /\ call'[c].reply = "not_found" =>
        InEffect(call[c], table[call[c].id])

HonestStep == \A c \in Clients : LosesNothing(c)

\* One call moves on, or is answered.
LEMMA CallMovesHonestly ==
    ASSUME Unanswered, NEW c \in Clients,
           \A d \in Clients \ {c} : call'[d] = call[d],
           call'[c].pc # "idle" => call'[c].reply = "none",
           LosesNothing(c)
    PROVE  Unanswered' /\ HonestStep
BY DEF Unanswered, HonestStep, LosesNothing

\* Answers, and records without one.
LEMMA Replied ==
    ASSUME CallsInv, NEW c \in Clients, NEW reply, Answer(c, reply)
    PROVE  /\ \A d \in Clients \ {c} : call'[d] = call[d]
           /\ call'[c].pc = "idle" /\ call'[c].reply = reply
BY DEF CallsInv, Answer, Idle

\* What the handlers compute has what was asked for in it.
LEMMA AppliedInEffect ==
    ASSUME NEW k, k.pc = "save", k.req \in Requests, k.req.op # "create",
           Rejection(k.req) = "none", NEW row \in Row, NEW t \in Int
    PROVE  InEffect(k, Applied(k.req, row, t))
<1> DEFINE req == k.req
<1>1. CASE req.op = "update"
  <2> DEFINE status  == IF req.hasStatus THEN req.status ELSE row.status
             renews  == IF req.hasAutoRenew THEN req.autoRenew ELSE row.autoRenew
             renewAt == IF ~req.hasAutoRenew THEN row.renewAt
                        ELSE IF ~req.autoRenew THEN Null
                        ELSE IF row.endAt = Null THEN row.renewAt
                        ELSE row.endAt - RenewBeforeEndMinutes
             new     == [row EXCEPT !.status = status, !.autoRenew = renews,
                                    !.renewAt = renewAt, !.updatedAt = t]
  <2>1. Applied(req, row, t) = IF status = Inactive THEN Off(new) ELSE new
    BY <1>1 DEF Applied, UpdatedRow
  <2> HIDE DEF renewAt
  <2>2. new.status = status /\ new.autoRenew = renews
    BY DEF Row
  <2>3. Off(new).status = Inactive
    BY DEF Off, Row
  <2> HIDE DEF new
  <2> QED
    BY <1>1, <2>1, <2>2, <2>3 DEF InEffect
<1>2. CASE req.op = "delete"
  <2>1. Applied(req, row, t) = [Off(row) EXCEPT !.updatedAt = t]
    BY <1>2 DEF Applied, DeletedRow
  <2>2. /\ Applied(req, row, t).status = Inactive
        /\ Applied(req, row, t).autoRenew = FALSE
    BY <2>1 DEF Off, Row
  <2> QED
    BY <1>2, <2>2 DEF InEffect
<1>3. CASE req.op = "cancel"
  <2>1. Applied(req, row, t).autoRenew = FALSE
    BY <1>3 DEF Applied, CancelledRow, Row
  <2> QED
    BY <1>3, <2>1 DEF InEffect
<1>4. CASE req.op = "callback"
  <2>1. Applied(req, row, t) = CallbackRow(req, row, t)
    BY <1>4 DEF Applied
  <2>2. Applied(req, row, t).status =
           IF req.status = "success" THEN Active ELSE Processing
    BY <2>1 DEF CallbackRow, Row
  <2> QED
    BY <1>4, <2>2 DEF InEffect, Active, Processing
<1> QED
  BY <1>1, <1>2, <1>3, <1>4
  DEF Requests, CreateRequest, UpdateRequest, DeleteRequest, CancelRequest,
      CallbackRequest

LEMMA CreatedInEffect ==
    ASSUME NEW k, k.pc = "store", NEW t
    PROVE  InEffect(k, CreateRow(k.req, t))
<1>1. /\ CreateRow(k.req, t).status # Inactive
      /\ CreateRow(k.req, t).autoRenew = (Planned(k.req.type) /\ k.req.autoRenew)
      /\ CreateRow(k.req, t).type = k.req.type
  BY DEF CreateRow, Inactive, Processing, Active
<1> QED
  BY <1>1 DEF InEffect

LEMMA SettledInEffect ==
    ASSUME NEW k, k.pc = "settle", NEW row \in Row, NEW t
    PROVE  InEffect(k, CreateSettled(row, k.result, t))
<1>1. CreateSettled(row, k.result, t).status =
         CASE k.result = "success"  -> Active
           [] k.result = "redirect" -> PendingPayment
           [] OTHER                 -> Processing
  BY DEF CreateSettled, Row
<1> QED
  BY <1>1 DEF InEffect

\* No step on the way tells a caller that the row it works on is gone, unless
\* it finds the row as it was about to make it.
LEMMA CallStepHonest ==
    ASSUME IInv, Unanswered, NEW c \in Clients, CallStep(c)
    PROVE  Unanswered' /\ HonestStep
<1> DEFINE id == call[c].id
<1>1. TableInv /\ CallsInv /\ CallInv(c) /\ now \in Int
  BY Parts DEF CallsInv
<1>2. ASSUME NEW row \in Row, id \in Ids, SameIdentity(id, row),
             InEffect(call[c], row), NEW reply, Update(id, row, reply)
      PROVE  reply = "not_found" => InEffect(call[c], table[id])
  BY <1>1, <1>2, UpdatePuts
<1>3. ASSUME NEW to, NEW row, NEW reply,
             reply = "not_found" => InEffect(call[c], table[id]),
             CreateStored(c, to, row, reply)
      PROVE  Unanswered' /\ HonestStep
  <2>1. CASE Answer(c, reply)
    BY <1>1, <1>3, <2>1, Replied, CallMovesHonestly DEF LosesNothing
  <2>2. CASE call' = [call EXCEPT ![c] =
               [Idle("none") EXCEPT !.pc = "pay", !.id = to, !.row = row]]
    BY <1>1, <2>2, CallMovesHonestly DEF CallsInv, Idle, LosesNothing
  <2> QED
    BY <1>3, <2>1, <2>2 DEF CreateStored
<1>4. CASE CreateInsert(c)
  BY <1>3, <1>4 DEF CreateInsert, InsertReplies
<1>5. CASE CreateOverwrite(c)
  <2> DEFINE row == CreateRow(call[c].req, call[c].at)
  <2>1. id \in Ids /\ row \in Row /\ SameIdentity(id, row)
    BY <1>1, <1>5, CreateRowSound
    DEF CallInv, CallOK, CallReady, CreateOverwrite, SameIdentity
  <2>2. InEffect(call[c], row)
    BY <1>5, CreatedInEffect DEF CreateOverwrite
  <2>3. PICK reply \in UpdateReplies :
           Update(id, row, reply) /\ CreateStored(c, id, row, reply)
    BY <1>5 DEF CreateOverwrite
  <2> HIDE DEF row
  <2> QED
    BY <1>2, <1>3, <2>1, <2>2, <2>3
<1>6. CASE CreatePay(c)
  <2>1. PICK result : \/ Answer(c, "error")
                      \/ call' = [call EXCEPT ![c] =
                           [Idle("none") EXCEPT !.pc = "settle", !.id = call[c].id,
                                                !.row = call[c].row, !.at = now,
                                                !.result = result]]
    BY <1>6 DEF CreatePay
  <2>2. CASE Answer(c, "error")
    BY <1>1, <2>2, Replied, CallMovesHonestly DEF LosesNothing
  <2>3. CASE call' = [call EXCEPT ![c] =
                        [Idle("none") EXCEPT !.pc = "settle", !.id = call[c].id,
                                             !.row = call[c].row, !.at = now,
                                             !.result = result]]
    BY <1>1, <2>3, CallMovesHonestly DEF CallsInv, Idle, LosesNothing
  <2> QED
    BY <2>1, <2>2, <2>3
<1>7. ASSUME NEW row \in Row, id \in Ids, SameIdentity(id, row),
             InEffect(call[c], row), NEW reply, Update(id, row, reply),
             Answer(c, reply)
      PROVE  Unanswered' /\ HonestStep
  BY <1>1, <1>2, <1>7, Replied, CallMovesHonestly DEF LosesNothing
<1>8. CASE CreateSettle(c)
  <2>1. PICK t \in call[c].at .. now, reply \in UpdateReplies :
           /\ Update(id, CreateSettled(call[c].row, call[c].result, t), reply)
           /\ Answer(c, reply)
    BY <1>8 DEF CreateSettle
  <2>2. /\ id \in Ids /\ call[c].row \in Row /\ Sound(call[c].row)
        /\ SameIdentity(id, call[c].row) /\ t \in Int
    BY <1>1, <1>8 DEF CallInv, CallOK, CallReady, CreateSettle
  <2> DEFINE row == CreateSettled(call[c].row, call[c].result, t)
  <2>3. row \in Row /\ SameIdentity(id, row)
    BY <2>2, CreateSettledGood DEF Good, SameIdentity
  <2>4. InEffect(call[c], row)
    BY <1>8, <2>2, SettledInEffect DEF CreateSettle
  <2> HIDE DEF row
  <2> QED
    BY <1>7, <2>1, <2>2, <2>3, <2>4 DEF row
<1>9. CASE Save(c)
  <2>1. PICK t \in call[c].at .. now, reply \in UpdateReplies :
           Update(id, Applied(call[c].req, call[c].row, t), reply) /\ Answer(c, reply)
    BY <1>9 DEF Save
  <2>2. /\ id \in Ids /\ call[c].row \in Row /\ Sound(call[c].row)
        /\ SameIdentity(id, call[c].row) /\ t \in Int
        /\ call[c].req \in Requests /\ call[c].req.op # "create"
        /\ Rejection(call[c].req) = "none"
    BY <1>1, <1>9 DEF CallInv, CallOK, CallReady, Save
  <2> DEFINE row == Applied(call[c].req, call[c].row, t)
  <2>3. row \in Row /\ SameIdentity(id, row)
    BY <2>2, AppliedGood DEF Good, SameIdentity
  <2>4. InEffect(call[c], row)
    BY <1>9, <2>2, AppliedInEffect DEF Save
  <2> HIDE DEF row
  <2> QED
    BY <1>7, <2>1, <2>2, <2>3, <2>4 DEF row
<1> QED
  BY <1>4, <1>5, <1>6, <1>8, <1>9 DEF CallStep

\* A call that starts was not in progress.
LEMMA CallStartHonest ==
    ASSUME IInv, Unanswered, NEW c \in Clients, CallStart(c)
    PROVE  Unanswered' /\ HonestStep
<1>1. CallsInv
  BY Parts
<1>2. ASSUME call[c].pc = "idle", NEW reply, Answer(c, reply)
      PROVE  Unanswered' /\ HonestStep
  BY <1>1, <1>2, Replied, CallMovesHonestly DEF LosesNothing
<1>3. CASE CreateSubscription(c)
  <2>1. call[c].pc = "idle"
    BY <1>3 DEF CreateSubscription
  <2>2. ASSUME NEW req, NEW id,
               call' = [call EXCEPT ![c] =
                   [Idle("none") EXCEPT !.pc = "store", !.req = req,
                                        !.id = id, !.at = now]]
        PROVE  Unanswered' /\ HonestStep
    BY <1>1, <2>1, <2>2, CallMovesHonestly DEF CallsInv, Idle, LosesNothing
  <2> QED
    BY <1>2, <1>3, <2>1, <2>2 DEF CreateSubscription
<1>4. ASSUME NEW req, Load(c, req) PROVE Unanswered' /\ HonestStep
  <2>1. call[c].pc = "idle"
    BY <1>4 DEF Load
  <2>2. ASSUME call' = [call EXCEPT ![c] =
                 [Idle("none") EXCEPT !.pc = "save", !.req = req, !.id = req.id,
                                      !.row = table[req.id], !.at = now]]
        PROVE  Unanswered' /\ HonestStep
    BY <1>1, <2>1, <2>2, CallMovesHonestly DEF CallsInv, Idle, LosesNothing
  <2> QED
    BY <1>2, <1>4, <2>1, <2>2 DEF Load
<1> QED
  BY <1>3, <1>4
  DEF CallStart, UpdateSubscription, DeleteSubscription, CancelSubscription,
      PaymentCallback

LEMMA NextHonest ==
    ASSUME IInv, Unanswered, [Next]_vars
    PROVE  Unanswered' /\ HonestStep
<1>1. CASE UNCHANGED call
  BY <1>1 DEF Unanswered, HonestStep, LosesNothing
<1>2. ASSUME NEW c \in Clients, ApiStart(c) PROVE Unanswered' /\ HonestStep
  BY <1>2, CallStartHonest DEF ApiStart
<1>3. ASSUME NEW c \in Clients, ApiStep(c) PROVE Unanswered' /\ HonestStep
  BY <1>3, CallStepHonest DEF ApiStep
<1>4. CASE ApiFailure
  BY <1>4 DEF ApiFailure, ApiCrash, Idle, Unanswered, HonestStep, LosesNothing
<1> QED
  BY <1>1, <1>2, <1>3, <1>4
  DEF Next, ClockStep, WorkStart, WorkStep, WorkFailure, apiVars, vars

\* Whoever has found or created a row and is told that it does not exist loses
\* nothing by it: what was asked for is in effect, whoever else writes the row
\* meanwhile and whatever fails.
THEOREM NotFoundIsHarmless == Spec => NotFoundLosesNothing
<1>1. Init => Unanswered
  BY DEF Init, ApiInit, Idle, Unanswered
<1>2. IInv /\ Unanswered /\ [Next]_vars => Unanswered' /\ [HonestStep]_vars
  BY NextHonest
<1> QED
  BY <1>1, <1>2, Invariance, PTL
  DEF Spec, NotFoundLosesNothing, HonestStep, LosesNothing
=============================================================================
