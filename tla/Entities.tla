------------------------------ MODULE Entities ------------------------------
(***************************************************************************)
(* The subscription row and everything the service computes on it.         *)
(*                                                                         *)
(* app/service/subscription.go and app/service/payment.go never touch the  *)
(* database in the middle of a computation: each handler and each job      *)
(* works on a copy of a row held in memory and writes the whole copy back. *)
(* The computations are therefore pure functions from a row, a request, a  *)
(* payment result and a clock reading to a row, and they are defined here. *)
(* When they run, and against which copy, is the business of Api and Jobs. *)
(*                                                                         *)
(* Time is an integer.  One unit is one stored DATETIME value; Day is the  *)
(* number of units in 24 hours and the configured durations are given in   *)
(* the same unit.  Dates are as wide as they need to be; durations wrap.   *)
(***************************************************************************)
EXTENDS Durations, Sequences

CONSTANTS
    Null,                         \* a nil pointer, stored as SQL NULL
    Types,                        \* the rows of subscription_types
    ActiveTypes,                  \* those whose status is 10
    DurationDays,                 \* per type: duration_days of its plan, or Null
    Day,                          \* clock units in 24 * time.Hour
    Users, Emails,                \* user_id and email values, trimmed
    StartTimes,                   \* start_at values clients ask for
    RenewBeforeEndMinutes,        \* SubscriptionConfig, in clock units
    RenewalRetryIntervalMinutes,
    MaxRenewalRetryAgeMinutes,
    PendingPaymentTimeout

ASSUME NullAssumption ==
    /\ Null \notin Int
    /\ Null \notin Users
    /\ Null \notin Emails
    /\ Null \notin Types

ASSUME TypesAssumption ==
    /\ ActiveTypes \subseteq Types
    /\ DurationDays \in [Types -> Int \cup {Null}]
    /\ Day \in Int
    /\ StartTimes \subseteq Int

ASSUME ConfigAssumption ==
    /\ RenewBeforeEndMinutes \in Int
    /\ RenewalRetryIntervalMinutes \in Int
    /\ MaxRenewalRetryAgeMinutes \in Int
    /\ PendingPaymentTimeout \in Int

-----------------------------------------------------------------------------
(* The stored row.  created_at is written once and read by nothing.        *)

Inactive       == 0
Processing     == 1
PendingPayment == 2
Active         == 10

Statuses == {Inactive, Processing, PendingPayment, Active}

MaybeTime == Int \cup {Null}

Row == [type      : Types,
        user      : Users \cup {Null},
        email     : Emails \cup {Null},
        status    : Statuses,
        startAt   : MaybeTime,
        endAt     : MaybeTime,
        renewAt   : MaybeTime,
        autoRenew : BOOLEAN,
        updatedAt : Int]

Identity(row) == <<row.type, row.user, row.email>>

\* A type has at most one plan (unique index on plan_types).
Planned(type) == DurationDays[type] # Null
Period(type)  == Wrap(DurationDays[type] * Day)

\* The plan has a length that a time.Duration holds.
Lasting(type) == Planned(type) /\ DurationDays[type] * Day \in 1 .. DurationLimit - 1

\* What every copy of a row keeps true, in the table and in memory.  An
\* inactive row is out of the renewal cycle for good; a row that renews and
\* has an end has a renewal date; a row has dates exactly when its type has a
\* plan, and ends after it starts unless the plan is too long to compute with.
OffWhenInactive(row) ==
    row.status = Inactive => ~row.autoRenew /\ row.renewAt = Null
ScheduledWhenRenewing(row) ==
    row.autoRenew /\ row.endAt # Null => row.renewAt # Null
DatedWhenPlanned(row) ==
    IF Planned(row.type) THEN row.startAt # Null /\ row.endAt # Null
                         ELSE row.startAt = Null /\ row.endAt = Null
ForwardWhenLasting(row) ==
    Lasting(row.type) => row.startAt < row.endAt

Sound(row) ==
    /\ OffWhenInactive(row)
    /\ ScheduledWhenRenewing(row)
    /\ DatedWhenPlanned(row)
    /\ ForwardWhenLasting(row)

-----------------------------------------------------------------------------
(* Requests, as the service sees them after normalisation.  start_at is    *)
(* Null when it is missing or does not parse; an absent optional field has *)
(* the zero value of its protobuf or JSON type.                            *)

InvalidStatus == 3

CreateRequest ==
    [op : {"create"}, type : Types, user : Users \cup {Null},
     email : Emails \cup {Null}, startAt : StartTimes \cup {Null},
     autoRenew : BOOLEAN]

UpdateRequest(ids) ==
    {r \in [op : {"update"}, id : ids,
            hasAutoRenew : BOOLEAN, autoRenew : BOOLEAN,
            hasStatus : BOOLEAN, status : Statuses \cup {InvalidStatus}] :
        /\ r.hasAutoRenew \/ ~r.autoRenew
        /\ r.hasStatus \/ r.status = Inactive}

DeleteRequest(ids)   == [op : {"delete"}, id : ids]
CancelRequest(ids)   == [op : {"cancel"}, id : ids]
CallbackRequest(ids) == [op : {"callback"}, id : ids,
                         status : {"success", "failed", "invalid"}]

\* Which error CreateSubscription answers before it writes anything.
CreateRejection(req) ==
    CASE req.user = Null /\ req.email = Null          -> "invalid_request"
      [] req.type \notin ActiveTypes                  -> "type_not_found"
      [] Planned(req.type) /\ req.startAt = Null      -> "invalid_request"
      [] OTHER                                        -> "none"

\* Wrong UpdateRejection: any number is accepted as a status.
UpdateRejectionUnchecked(req) ==
    IF ~req.hasAutoRenew /\ ~req.hasStatus THEN "no_fields" ELSE "none"

\* Which error UpdateSubscription answers once the row is loaded.
UpdateRejection(req) ==
    CASE ~req.hasAutoRenew /\ ~req.hasStatus                -> "no_fields"
      [] req.hasStatus /\ req.status \notin Statuses        -> "invalid_status"
      [] OTHER                                              -> "none"

\* PaymentCallback refuses a status it does not know, after the load.
CallbackRejection(req) ==
    IF req.status = "invalid" THEN "invalid_request" ELSE "none"

Rejection(req) ==
    CASE req.op = "update"   -> UpdateRejection(req)
      [] req.op = "callback" -> CallbackRejection(req)
      [] OTHER               -> "none"

-----------------------------------------------------------------------------
(* What the API handlers compute.                                          *)

Off(row) == [row EXCEPT !.status = Inactive, !.autoRenew = FALSE,
                        !.renewAt = Null]

\* The row CreateSubscription writes first, for a new and an old row alike:
\* nothing of a row that already exists survives but its id.
CreateRow(req, t) ==
    LET planned == Planned(req.type)
        endAt   == req.startAt + Period(req.type)
        renews  == planned /\ req.autoRenew
    IN [type      |-> req.type,
        user      |-> req.user,
        email     |-> req.email,
        status    |-> IF planned THEN Processing ELSE Active,
        startAt   |-> IF planned THEN req.startAt ELSE Null,
        endAt     |-> IF planned THEN endAt ELSE Null,
        renewAt   |-> IF renews THEN endAt - RenewBeforeEndMinutes ELSE Null,
        autoRenew |-> renews,
        updatedAt |-> t]

\* The row CreateSubscription writes once the provider has answered.
CreateSettled(row, result, t) ==
    [row EXCEPT
        !.status    = CASE result = "success"  -> Active
                        [] result = "redirect" -> PendingPayment
                        [] OTHER               -> Processing,
        !.renewAt   = IF result \in {"success", "redirect"} THEN @
                      ELSE t + RenewalRetryIntervalMinutes,
        !.updatedAt = t]

\* Wrong UpdatedRow: a PATCH to Inactive leaves the renewal on.
UpdatedRowStillRenewing(req, row, t) ==
    [row EXCEPT
        !.status    = IF req.hasStatus THEN req.status ELSE @,
        !.autoRenew = IF req.hasAutoRenew THEN req.autoRenew ELSE @,
        !.renewAt   = IF ~req.hasAutoRenew THEN @
                      ELSE IF ~req.autoRenew THEN Null
                      ELSE IF row.endAt = Null THEN @
                      ELSE row.endAt - RenewBeforeEndMinutes,
        !.updatedAt = t]

UpdatedRow(req, row, t) ==
    LET status  == IF req.hasStatus THEN req.status ELSE row.status
        renews  == IF req.hasAutoRenew THEN req.autoRenew ELSE row.autoRenew
        renewAt == IF ~req.hasAutoRenew THEN row.renewAt
                   ELSE IF ~req.autoRenew THEN Null
                   ELSE IF row.endAt = Null THEN row.renewAt
                   ELSE row.endAt - RenewBeforeEndMinutes
        changed == [row EXCEPT !.status = status, !.autoRenew = renews,
                               !.renewAt = renewAt, !.updatedAt = t]
    IN IF status = Inactive THEN Off(changed) ELSE changed

DeletedRow(row, t) == [Off(row) EXCEPT !.updatedAt = t]

\* Wrong CancelledRow: the subscription is put back to Active, to run out.
CancelledUntilEnd(row, t) ==
    [row EXCEPT !.status = Active, !.autoRenew = FALSE, !.renewAt = Null,
                !.updatedAt = t]

CancelledRow(row, t) ==
    [row EXCEPT !.autoRenew = FALSE, !.renewAt = Null, !.updatedAt = t]

CallbackRow(req, row, t) ==
    IF req.status = "success"
    THEN [row EXCEPT !.status = Active, !.updatedAt = t]
    ELSE [row EXCEPT !.status = Processing, !.updatedAt = t,
                     !.renewAt = t + RenewalRetryIntervalMinutes]

\* The copy a handler writes back for a request on an existing row.
Applied(req, row, t) ==
    CASE req.op = "update"   -> UpdatedRow(req, row, t)
      [] req.op = "delete"   -> DeletedRow(row, t)
      [] req.op = "cancel"   -> CancelledRow(row, t)
      [] req.op = "callback" -> CallbackRow(req, row, t)

-----------------------------------------------------------------------------
(* What the jobs compute.                                                  *)

\* Wrong RenewMarked: the mark does not take the row out of the due ones.
RenewTouched(row, t) == [row EXCEPT !.updatedAt = t]

\* Wrong RenewMarked: the mark drops the renewal date.
RenewUnscheduled(row, t) ==
    [row EXCEPT !.status = Processing, !.renewAt = Null, !.updatedAt = t]

RenewMarked(row, t) == [row EXCEPT !.status = Processing, !.updatedAt = t]

shouldDeactivateForRetryAge(row) ==
    /\ row.endAt # Null
    /\ row.renewAt # Null
    /\ row.renewAt - row.endAt > MaxRenewalRetryAgeMinutes

AgeChecked(row) == IF shouldDeactivateForRetryAge(row) THEN Off(row) ELSE row

\* The end of the period a renewal at time t pays for.
RenewedEnd(row, t) ==
    (IF row.endAt = Null THEN t ELSE row.endAt) + Period(row.type)

RetryLater(row, status, t) ==
    [row EXCEPT !.status = status, !.renewAt = t + RenewalRetryIntervalMinutes]

\* Wrong Extended: the new period runs from the payment, not from the old end.
ExtendedFromNow(row, t) ==
    LET endAt == t + Period(row.type)
    IN [row EXCEPT !.status = Active, !.endAt = endAt,
                   !.renewAt = endAt - RenewBeforeEndMinutes]

Extended(row, t) ==
    LET endAt == RenewedEnd(row, t)
    IN [row EXCEPT
            !.status  = Active,
            !.endAt   = endAt,
            !.renewAt = IF row.autoRenew THEN endAt - RenewBeforeEndMinutes
                        ELSE @]

\* Wrong RenewAttempted: whatever is not a failure extends the row.
RenewUnlessFailure(row, result, t) ==
    CASE result = "redirect"             -> RetryLater(row, PendingPayment, t)
      [] result \in {"failure", "panic"} -> RetryLater(row, Processing, t)
      [] OTHER                           -> Extended(row, t)

\* The row RunAutoRenewalBatch writes after the attempt.  A result type the
\* switch does not know leaves the row as it was marked.
RenewAttempted(row, result, t) ==
    CASE result = "success"              -> Extended(row, t)
      [] result = "redirect"             -> RetryLater(row, PendingPayment, t)
      [] result \in {"failure", "panic"} -> RetryLater(row, Processing, t)
      [] OTHER                           -> row

RenewSettled(row, result, t) ==
    IF result = "no_plan"
    THEN [Off(row) EXCEPT !.updatedAt = t]
    ELSE [AgeChecked(RenewAttempted(row, result, t)) EXCEPT !.updatedAt = t]

\* Wrong CleanupRow: the row is ended, with its renewal fields left on.
CleanupEnds(row, t) == [row EXCEPT !.status = Inactive, !.updatedAt = t]

\* Wrong CleanupRow: renewals are switched on for the retry.
CleanupRestarts(row, t) ==
    [row EXCEPT !.status = Processing, !.autoRenew = TRUE, !.updatedAt = t,
                !.renewAt = t + RenewalRetryIntervalMinutes]

CleanupRow(row, t) ==
    [row EXCEPT !.status    = Processing,
                !.renewAt   = IF @ = Null \/ @ < t
                              THEN t + RenewalRetryIntervalMinutes ELSE @,
                !.updatedAt = t]

\* Wrong ExpireRow: only the status is changed.
ExpireStatusOnly(row, t) == [row EXCEPT !.status = Inactive, !.updatedAt = t]

ExpireRow(row, t) == [Off(row) EXCEPT !.updatedAt = t]
=============================================================================
