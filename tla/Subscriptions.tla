---------------------------- MODULE Subscriptions ----------------------------
(***************************************************************************)
(* The whole system: the API process and the command workers over one      *)
(* table, one provider and one clock.                                      *)
(*                                                                         *)
(* Nothing coordinates the processes.  MaxInFlight bounds how many calls   *)
(* and batches may be in progress at once; 1 is the system with every      *)
(* operation run alone, which tells what the code computes from what its   *)
(* interleavings do to it.                                                 *)
(***************************************************************************)
EXTENDS Api, Jobs, FiniteSets

CONSTANTS
    MaxInFlight,  \* bound on the operations in progress
    Crashes       \* processes may die

ASSUME SystemAssumption ==
    /\ MaxInFlight \in Nat
    /\ Crashes \in BOOLEAN

\* The table the system starts from is one it could have left behind, with
\* no renewal yet.
ASSUME InitialAssumption ==
    /\ InitialRows \in Seq(Row)
    /\ \A i \in DOMAIN InitialRows :
          /\ Sound(InitialRows[i])
          /\ Planned(InitialRows[i].type) =>
                InitialRows[i].endAt =
                    InitialRows[i].startAt + Period(InitialRows[i].type)
    /\ \A i, j \in DOMAIN InitialRows :
          Identity(InitialRows[i]) = Identity(InitialRows[j]) => i = j

vars == <<table, now, outstanding, paidTo, call, job>>

Init ==
    /\ StoreInit
    /\ PaymentInit
    /\ ApiInit
    /\ JobsInit

InFlight ==
    Cardinality({c \in Clients : call[c].pc # "idle"})
    + Cardinality({w \in Workers : job[w].pc # "idle"})

MayStart == InFlight < MaxInFlight

ClockStep == Tick /\ UNCHANGED <<paymentVars, apiVars, jobVars>>

ApiStart(c)  == MayStart /\ CallStart(c) /\ UNCHANGED jobVars
ApiStep(c)   == CallStep(c) /\ UNCHANGED jobVars
ApiFailure   == Crashes /\ ApiCrash /\ UNCHANGED jobVars
WorkStart(w) == MayStart /\ JobStart(w) /\ UNCHANGED apiVars
WorkStep(w)  == JobStep(w) /\ UNCHANGED apiVars
WorkFailure(w) == Crashes /\ JobCrash(w) /\ UNCHANGED apiVars

Next ==
    \/ ClockStep
    \/ \E c \in Clients : ApiStart(c) \/ ApiStep(c)
    \/ ApiFailure
    \/ \E w \in Workers : WorkStart(w) \/ WorkStep(w) \/ WorkFailure(w)

Spec == Init /\ [][Next]_vars

\* Time passes; a goroutine or a worker that can take its next step takes it
\* (the Go scheduler runs every runnable goroutine, and statements and
\* provider calls return); every worker starts its batch again at each tick
\* of its interval.  Nobody is obliged to call the API.
Fairness ==
    /\ WF_vars(ClockStep)
    /\ \A c \in Clients : WF_vars(ApiStep(c))
    /\ \A w \in Workers : WF_vars(WorkStart(w)) /\ WF_vars(WorkStep(w))

FairSpec == Spec /\ Fairness

-----------------------------------------------------------------------------
(* Types.                                                                  *)

Requests ==
    CreateRequest \cup UpdateRequest(Nat) \cup DeleteRequest(Nat)
    \cup CancelRequest(Nat) \cup CallbackRequest(Nat)

CallPcs == {"idle", "store", "pay", "settle", "save"}
JobPcs  == {"idle", "mark", "pay", "settle", "cleanup", "expire"}

\* A call carries what its next step needs.
CallOK(k) ==
    /\ k.pc \in CallPcs
    /\ k.reply \in Replies
    /\ k.at \in Int
    /\ k.pc = "store" => k.req \in CreateRequest /\ k.id \in Ids \cup {0}
    /\ k.pc = "save" => k.req \in Requests /\ k.req.op # "create"
    /\ k.pc \in {"pay", "settle", "save"} => k.id \in Ids /\ k.row \in Row
    /\ k.pc = "settle" => k.result \in PaymentResults

\* A worker's copies are copies of rows that exist.
JobOK(j) ==
    /\ j.pc \in JobPcs
    /\ j.now \in Int
    /\ j.at \in Int
    /\ DOMAIN j.batch \subseteq Ids
    /\ \A i \in DOMAIN j.batch : j.batch[i] \in Row
    /\ j.pc = "settle" => j.result \in PaymentResults \cup {"no_plan"}

\* Every variable has its type, and every process in the middle of an
\* operation holds a copy of a row that exists.
TypeOK ==
    /\ table \in Seq(Row)
    /\ now \in Int
    /\ outstanding \subseteq Ids \X Int
    /\ paidTo \subseteq Ids \X Int
    /\ DOMAIN call = Clients
    /\ \A c \in Clients : CallOK(call[c])
    /\ DOMAIN job = Workers
    /\ \A w \in Workers : JobOK(job[w])

-----------------------------------------------------------------------------
(* What holds however the processes interleave, die and fail.              *)

\* Every stored row is out of the renewal cycle when it is inactive, has a
\* renewal date when it renews, and has dates exactly when its type has a
\* plan: no handler, job or stale copy leaves a row with half of a change.
RowsSound == \A i \in Ids : Sound(table[i])

\* <<id, row>> : the period of the row is the one it was created with, or one
\* the customer has paid for.
PeriodPaid(id, row) ==
    Planned(row.type) => \/ row.endAt = row.startAt + Period(row.type)
                         \/ <<id, row.endAt>> \in paidTo

\* No subscription is extended for nothing: RunAutoRenewalBatch moves end_at
\* only past a payment that succeeded, and no copy written later, by
\* whichever handler or job, carries another end.
PeriodsPaid == \A i \in Ids : PeriodPaid(i, table[i])

\* Two rows never share a type, a user and an email that are all given: the
\* lookup of CreateSubscription is not atomic with its insert, the unique
\* index is what keeps this.
FullIdentityUnique ==
    \A i, j \in Ids :
        /\ Identity(table[i]) = Identity(table[j])
        /\ table[i].user # Null
        /\ table[i].email # Null
        => i = j

\* The provider is asked about subscriptions of types with a plan only:
\* CreateSubscription returns before the payment for the others, and
\* RunAutoRenewalBatch switches them off.
OnlyPlansCharged ==
    \A p \in outstanding \cup paidTo : Planned(table[p[1]].type)

\* The stored row is as the call was about to make it, in what was asked for.
InEffect(k, row) ==
    CASE k.pc = "store" ->
            /\ row.status # Inactive
            /\ row.autoRenew = (Planned(row.type) /\ k.req.autoRenew)
      [] k.pc = "settle" ->
            /\ k.result = "success" => row.status = Active
            /\ k.result = "redirect" => row.status = PendingPayment
      [] k.pc = "save" /\ k.req.op = "update" ->
            /\ k.req.hasStatus => row.status = k.req.status
            /\ k.req.hasAutoRenew /\ row.status # Inactive =>
                  row.autoRenew = k.req.autoRenew
      [] k.pc = "save" /\ k.req.op = "delete" ->
            row.status = Inactive /\ ~row.autoRenew
      [] k.pc = "save" /\ k.req.op = "cancel" -> ~row.autoRenew
      [] k.pc = "save" /\ k.req.op = "callback" ->
            (row.status = Active) = (k.req.status = "success")
      [] OTHER -> FALSE

\* Who has found or created a row may still be told ErrSubscriptionNotFound,
\* since RowsAffected counts changed rows; but then only because what was asked
\* for is in effect already, whoever wrote it.
NotFoundLosesNothing ==
    [][\A c \in Clients :
          call[c].pc # "idle" /\ call'[c].reply = "not_found" =>
             InEffect(call[c], table[call[c].id])]_vars

\* What the handlers and jobs rely on between their steps.  A copy is as sound
\* as a stored row and still has the identity of the row it was read from;
\* a request past its validation is valid; whoever is to settle a payment
\* works on a type with a plan.
SameIdentity(id, row) == Identity(table[id]) = Identity(row)

CallReady(k) ==
    /\ k.pc = "store" =>
          /\ CreateRejection(k.req) = "none"
          /\ k.id # 0 => SameIdentity(k.id, k.req)
    /\ k.pc = "save" => Rejection(k.req) = "none"
    /\ k.pc \in {"pay", "settle"} => Planned(k.row.type)
    /\ k.pc \in {"pay", "settle", "save"} =>
          Sound(k.row) /\ SameIdentity(k.id, k.row)

JobReady(j) ==
    /\ \A i \in DOMAIN j.batch :
          Sound(j.batch[i]) /\ SameIdentity(i, j.batch[i])
    /\ j.pc = "settle" /\ j.result # "no_plan" =>
          \A i \in DOMAIN j.batch :
             (\A other \in DOMAIN j.batch : i <= other) =>
                Planned(j.batch[i].type)

\* The inductive invariant behind TypeOK, RowsSound, FullIdentityUnique,
\* OnlyPlansCharged and ImplementsTable.
IInv ==
    /\ TypeOK
    /\ RowsSound
    /\ FullIdentityUnique
    /\ OnlyPlansCharged
    /\ \A c \in Clients : CallReady(call[c])
    /\ \A w \in Workers : JobReady(job[w])

\* The table, taken alone, is the one SubscriptionTable specifies.
Contract == INSTANCE SubscriptionTable WITH
    table <- table, InitialRows <- InitialRows
ImplementsTable == Contract!Spec

-----------------------------------------------------------------------------
(* What holds when no two operations overlap on a row, or for some         *)
(* operations only.                                                        *)

\* The rows an operation has looked up or holds copies of.
CallRows(c) == {call[c].id} \ {0}
JobRows(w)  == DOMAIN job[w].batch

\* A CreateSubscription that has found no row of its identity.
Founds(c) == call[c].pc = "store" /\ call[c].id = 0

\* No two calls have found that there is no row of the same identity.
FoundsApart ==
    \A c, d \in Clients :
        c # d /\ Founds(c) /\ Founds(d) =>
           Identity(call[c].req) # Identity(call[d].req)

\* Nobody else is at a row of the batch of w.
Undisturbed(w) ==
    /\ \A c \in Clients : CallRows(c) \cap JobRows(w) = {}
    /\ \A v \in Workers \ {w} : JobRows(v) \cap JobRows(w) = {}

\* No two operations are at one row, nor at one new identity.  Nothing in the
\* code sees to this.  Other rows may be moved by anybody at any statement.
Apart ==
    /\ FoundsApart
    /\ \A c, d \in Clients : c # d => CallRows(c) \cap CallRows(d) = {}
    /\ \A w \in Workers : Undisturbed(w)

\* No two renewal workers are at one row.  Nothing in the code sees to this
\* either; running the command in one process does.
RenewersApart ==
    \A v, w \in Renewers : v # w => JobRows(v) \cap JobRows(w) = {}

\* Who is in the middle of what, as AtomicSubscriptions sees it.
Asked(c) ==
    CASE call[c].pc = "idle"             -> [op |-> "none", reply |-> call[c].reply]
      [] call[c].pc \in {"store", "save"} -> call[c].req
      [] call[c].pc = "pay"              -> [op |-> "pay", id |-> call[c].id]
      [] call[c].pc = "settle"           ->
            [op |-> "settle", id |-> call[c].id, result |-> call[c].result]

\* The row that is paid for, or has been.
AtPayment(w) ==
    IF job[w].pc \in {"pay", "settle"} THEN {i \in JobRows(w) : First(w, i)}
    ELSE {}
Outcome(w) == IF job[w].pc = "settle" THEN job[w].result ELSE Null

Task(w) ==
    [duty |-> job[w].pc, rows |-> JobRows(w),
     marked |-> AtPayment(w), result |-> Outcome(w)]

Asking == [c \in Clients |-> Asked(c)]
Tasks  == [w \in Workers |-> Task(w)]

\* While all are Apart the system is the one in which everybody computes on
\* the row as it is: a change is made by a client who asked for it, once and
\* as its answer says, or by a worker whose ground for it still holds.
Atomic == INSTANCE AtomicSubscriptions WITH asked <- Asking, task <- Tasks
ImplementsAtomic == Atomic!Spec

\* One row per type, user and email, NULLs included: CreateSubscription finds
\* the row of an identity by <=> and writes it again.
IdentityUnique ==
    \A i, j \in Ids : Identity(table[i]) = Identity(table[j]) => i = j

\* A call that loaded the row i writes it in this step.
Saves(c, i) == call[c].pc = "save" /\ call[c].id = i /\ call'[c] # call[c]

\* The row i is overwritten by a CreateSubscription in this step.
Recreates(c, i) == call[c].pc = "store" /\ call[c].id = i /\ call'[c] # call[c]

\* auto_renew goes from off to on only because a request asks for it: what a
\* cancel, a delete or a PATCH switched off is not switched on again by a job
\* or by another handler.
OptOutSticks ==
    [][\A i \in Ids : ~table[i].autoRenew /\ table'[i].autoRenew =>
          \E c \in Clients :
             \/ Recreates(c, i)
             \/ /\ Saves(c, i)
                /\ call[c].req.op = "update"
                /\ call[c].req.hasAutoRenew]_vars

\* A deleted (or otherwise inactive) subscription leaves that state only by
\* being created again or PATCHed with another status.
InactiveStaysInactive ==
    [][\A i \in Ids : table[i].status = Inactive /\ table'[i].status # Inactive =>
          \E c \in Clients :
             \/ Recreates(c, i)
             \/ /\ Saves(c, i)
                /\ call[c].req.op = "update"
                /\ call[c].req.hasStatus]_vars

\* The customer pays for the period p in this step.
Pays(p) ==
    \/ p \in outstanding \ outstanding'
    \/ \E w \in Workers :
          /\ job[w].pc = "pay"
          /\ First(w, p[1])
          /\ p[2] = RenewedEnd(job[w].batch[p[1]], now)
          /\ job'[w].pc = "settle"
          /\ job'[w].result = "success"

\* No renewal is paid for twice: RunAutoRenewalBatch marks a row Processing
\* before it asks the provider, so that a row whose outcome was lost is not
\* charged again.
NeverPaidTwice == [][\A p \in paidTo : ~Pays(p)]_vars

\* What was paid for is granted: an active row lasts at least until the end
\* of every period collected for it.
PaidPeriodGranted ==
    \A p \in paidTo :
        table[p[1]].status = Active => table[p[1]].endAt >= p[2]

\* "cancel expired" deactivates only active rows whose end_at, as stored when
\* the row is written, has passed.
OnlyExpiredExpire ==
    [][\A w \in Workers :
          job[w].pc = "expire" /\ job'[w] # job[w] =>
            \A i \in Ids : table'[i] # table[i] =>
                /\ table[i].status = Active
                /\ table[i].endAt # Null
                /\ table[i].endAt < now]_vars

\* "cancel pending-payment" moves only rows that are still waiting for a
\* payment, and have been for longer than the timeout.
OnlyStaleCleanedUp ==
    [][\A w \in Workers :
          job[w].pc = "cleanup" /\ job'[w] # job[w] =>
            \A i \in Ids : table'[i] # table[i] =>
                /\ table[i].status = PendingPayment
                /\ table[i].updatedAt < now - PendingPaymentTimeout]_vars

-----------------------------------------------------------------------------
(* What must eventually happen, under Fairness.                            *)

Expired(i) ==
    /\ table[i].status = Active
    /\ table[i].endAt # Null
    /\ table[i].endAt < now

StalePending(i) ==
    /\ table[i].status = PendingPayment
    /\ table[i].updatedAt < now - PendingPaymentTimeout

RetryDue(i) ==
    /\ table[i].status = Processing
    /\ table[i].autoRenew
    /\ table[i].renewAt # Null
    /\ table[i].renewAt <= now

\* An active subscription whose end has passed does not stay so: it is
\* expired, or renewed.
ExpiredLeaveActive ==
    \A i \in DOMAIN InitialRows : Expired(i) ~> ~Expired(i)

\* A payment link that timed out does not keep its row waiting.
StalePendingLeave ==
    \A i \in DOMAIN InitialRows : StalePending(i) ~> ~StalePending(i)

\* A row in Processing whose retry date has come is tried again (or leaves
\* the state in another way).
RetriesHappen ==
    \A i \in DOMAIN InitialRows : RetryDue(i) ~> ~RetryDue(i)
=============================================================================
