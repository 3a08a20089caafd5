# ms-go-subscriptions in TLA+

`ms-go-subscriptions` sells subscriptions: an API (HTTP and gRPC) creates,
changes and cancels them, three command workers renew them, clean up unpaid
ones and expire old ones, and all of them share one MySQL table and one payment
provider. This directory holds a specification of that system, the
configurations that check it with TLC, and theorems about it that TLAPS checks.

## 1. The system

| part | code | state | operations |
|---|---|---|---|
| rows and their computations | `app/entity`, `app/service` | none: copies in memory | what a request, a payment result or a job makes of a row |
| subscriptions table | `schema.sql`, `app/repository/subscription.go` | the rows | one SQL statement per method, no transaction |
| reference data | `app/repository/{subscription_type,plan_type}.go` | types and plans, written by nobody here | lookups |
| SubscriptionService | `app/service/subscription.go` | none between calls | create, update, delete, cancel (and reads) |
| PaymentCallbackService | `app/service/payment.go` | none | the provider's callback |
| batches | `app/service/subscription.go` | the listed copies | renewal, pending-payment cleanup, expiry |
| payment provider | `app/payment`: the interface and a stub that panics, wired in by `cmd` | none; a real one is outside the repository | one call per purchase or renewal |
| front ends | `app/controller`, `app/grpc`, `app/types`, `app/mapper` | none | bind, validate, call, answer |
| API process | `cmd/serve.go` | two servers, a goroutine per call, the signal channel | start, serve, shut down |
| command workers | `cmd/jobs.go` | a ticker and the signal channel | run a batch at once, then at every tick |
| configuration | `config/config.go`, `cmd/logging.go` | the environment | read once, at the start |

How they interact. A handler calls the service, the service calls the
repository and the provider ("HTTP and gRPC both call the same service layer.",
`README.md`). The workers call the same service from processes of their own.
Nothing locks, nothing is versioned: every operation *reads a row, computes on
the copy, writes the whole copy back*. Handlers and workers meet only in the
table.

What is hard here:

* **stale copies**: a batch lists rows once and writes them minutes later;
  two handlers hold copies of one row; `CreateSubscription` holds its copy across
  the provider call;
* **check-then-act**: the identity lookup and the insert; the listing of due
  rows and the Processing mark;
* **crashes and failing statements** between a charge and the write that records
  it, and statements that take effect although the caller sees an error;
* **callbacks** that come late, twice, or for a row that has moved on;
* **progress**: which statuses some job will ever look at again;
* **shutdown**: two servers that stop one after the other, one with a deadline
  and one without, while calls hang, deferred closes wait, and the goroutines
  that start the servers may not have run yet;
* **the worker's select**: signals, ticks and long batches in any order, and the
  first batch before the signal handler is there;
* **two doors to one service**: what each front end trims, validates and tells
  the caller;
* **numbers**: plan lengths and configured minutes that no `time.Duration` holds.

The properties that make each part correct:

* rows: an inactive row never renews, a renewing row has a renewal date, dates
  exist exactly when the type has a plan, and run forward unless the plan is too
  long to compute with (`RowsSound`); the period of a row is the one bought or one
  paid for (`PeriodsPaid`);
* table: one row per full identity (`FullIdentityUnique`), one per identity
  (`IdentityUnique`); who is told "not found" of a row that is there has lost nothing
  (`NotFoundLosesNothing`); writers only add or rewrite one sound row
  (`ImplementsTable`);
* service and callback: what was switched off stays off (`OptOutSticks`), what was
  deleted stays deleted (`InactiveStaysInactive`), and every change of a row is one
  that somebody has asked for or has grounds for, made once and on the row as it is
  (`ImplementsAtomic`);
* batches: only expired rows expire, only stale rows are cleaned up
  (`OnlyExpiredExpire`, `OnlyStaleCleanedUp`), expired and stale rows leave their
  status in the end, retries happen (`ExpiredLeaveActive`, `StalePendingLeave`,
  `RetriesHappen`);
* payments: only plans are charged, no renewal twice, and what was paid for is
  granted (`OnlyPlansCharged`, `NeverPaidTwice`, `PaidPeriodGranted`);
* front ends: both accept and answer alike (`FrontEndsAgree`), validation leaves
  the service nothing malformed (`ValidatedOnce`), and who is told to be at fault
  has changed nothing (`ClientErrorsWriteNothing`);
* API process: nothing is closed under a call but a late one of HTTP
  (`ClosesWhenDrained`), a stop in order answers what it took (`KeepsPromise`), a
  signal ends the process (`SignalEnds`);
* workers: one batch per tick (`OneBatchPerTick`), at the pace that was asked for
  (`PaceAsConfigured`), again and again (`KeepsRunning`) until a signal and not
  before (`SignalEnds`, `ReturnsOnRequest`).

## 2. The modules

```
Durations ─► Entities ─► Store ──┬─► Api  ──┐
    │            └─────► Payment ┴─► Jobs ──┴─► Subscriptions ─► MCSubscriptions
    │            └─► SubscriptionTable, ◄ (refinement) ┘ └─► SubscriptionsProofs
    │                AtomicSubscriptions
    └─► Config ─► Worker ─► MCWorker
                     └────► WorkerProofs
SubscriptionsProofs ─► PeriodsProofs, ApartProofs, RenewalsProofs
FrontEnds ─► ApiServer ─► MCApiServer        Slot: the channels of Worker and ApiServer
                 ├──────► ApiServerProofs
                 └─ (refinement) ─► Exchange
```

* **Durations** is `time.Duration`: `Wrap` is what a product of two int64s keeps.
  `DurationLimit` is 2^63 in the unit of the model.
* **Entities** has no variables. It defines the row, the requests that reach
  the service, and one function for every computation: `CreateRow`,
  `CreateSettled`, `UpdatedRow`, `DeletedRow`, `CancelledRow`, `CallbackRow` for
  the handlers, `RenewMarked`, `RenewSettled`, `CleanupRow`, `ExpireRow` for the
  batches. `Sound` is what all of them preserve. Time is an integer; NULL and a
  nil pointer are `Null`; the length of a plan is a wrapped product.
* **Store** is the table (`table`, a sequence indexed by id; rows are never
  deleted) and the clock (`now`). A write is a relation between the reply and
  the new table: `Create` respects the unique index, which ignores NULLs;
  `Update` leaves the identity columns alone and answers `not_found` when
  RowsAffected is 0. The driver counts changed rows, as every DSN in the repository
  has it (`e2e/docker-compose.yml`, `config/config_test.go`): a write that changes
  nothing is a row that is not found. With `Faulty`, any statement may fail, applied
  or not.
* **Payment** is the interface of `app/payment` and what stands behind it.
  `PaymentResults` are the answers it may give: `{"panic"}` is the stub, the only
  implementation there is; the runs add those of a real provider, whose links and
  callbacks are modelled from how the service uses them. Two history variables record
  the links handed out and the periods paid, each as `<<id, end>>`; no guard reads
  them.
* **Api**: `call[c]` is the goroutine serving client `c`. `pc` is the next
  statement: `store`, `pay`, `settle` in `CreateSubscription`, `save` in the
  operations on an existing row, whose common shape is `Load` then `Save`. Errors
  answered before anything is written are all `rejected`. A clock reading between
  two statements is a choice between the times of the statements around it.
* **Jobs**: `job[w]` is worker `w`, with the copies it still has to walk over.
  `RenewMark`, `RenewPay`, `RenewSettle` are the three outside calls of one item of
  a renewal; the other batches have one per item.
* **Subscriptions** composes them, interleaving every statement of every
  process, and states the properties. `MaxInFlight` bounds the operations in
  progress; with 1 every operation runs alone.
* **SubscriptionTable** is the abstract specification of the table: one sound row
  is added, or one row is soundly rewritten. The system implements it always.
* **AtomicSubscriptions** is the abstract specification of the operations. A change
  looks at a row and rewrites it in one step, with the computations of `Entities`, and
  somebody has to make it. A client first asks (`Ask`), for what its `Ops` allow;
  what it asked is done once (`Subscribe`, `Resubscribe`, `SettlePurchase`, `Handle`),
  with the answer that goes with what was done, or fails. A worker sets out with the
  rows of its kind (`Begin`) and sees to each once (`StartRenewal`, `PayRenewal`,
  `SettleRenewal`, `CleanUp`, `Expire`), each time on the ground that the row still
  gives it: `Due`, `Stale`, `Over`. A lost cancel, an expiry of a row renewed in the
  meantime, a cleanup of one paid in the meantime or a second row for one identity is
  no step of it. Under the mapping (`Asking`, `Tasks`, in `Subscriptions`) a client's
  request is the `call` past its look-up, a worker's rows are those of its batch. The
  system implements it while no two operations are at one row (`Apart`), and not
  otherwise: see section 3.
* **FrontEnds** has no variables: requests as records of the classes of values
  the code tells apart (`WireRequest`), what the constructors of HTTP make of them
  (`FromContext`), `Validate`, and the tables of errors that each handler tells
  from the rest, per front end (`HttpStatus`, `GrpcCode`). Any other error, and a
  recovered panic, is 500 or Internal; the auth middleware answers 401 or
  Unauthenticated without a key and 403 or PermissionDenied without access.
* **ApiServer** is the API process. `phase` is the program counter of `runServe`,
  from `config.Load` to the deferred closes; `http` and `grpc` are the two servers,
  started by goroutines of their own; `call[c]` is a goroutine that serves a call:
  authentication, then the handler, then the service, reduced to what the front
  ends can see of it (before the first write, the write, the provider, the second
  write, and which outcomes each may have). `Api` has the same calls with their
  rows. `logrus.Fatal` in any goroutine ends the process with no deferred call.
* **Exchange** is the abstract specification of the process, as its callers see
  it: a call taken is answered before the process stops, unless it was given up
  after a signal, or the process dies.
* **Config** is `config.Load` and `configureLogging` as functions of the
  environment, **Worker** the process of one command with or without `--worker`:
  start-up, the batch, the ticker, the select loop, signals, the deferred closes.
  `unticked` counts the batches since the ticker last fired (history). Its
  `KeepsRunning` is what the fairness of `Subscriptions` takes for granted.
* **Slot** is a channel of capacity 1 whose sender never blocks: `ticker.C` and
  the channel given to `signal.Notify`.
* **MCSubscriptions**, **MCApiServer**, **MCWorker** have the instances;
  **DurationsProofs**, **SubscriptionsProofs**, **PeriodsProofs**,
  **ApartProofs**, **RenewalsProofs**, **WorkerProofs** and **ApiServerProofs** the
  theorems.

Definitions introduced by "Wrong ..." in a comment are deliberately faulty
variants of the one that follows. No specification uses them; each is put in
place of the right one to see the property it is meant for fail.

## 3. The runs

A plan lasts one unit of time (`Day = 1`, one day); renewals are due one unit
before the end, retries one unit later, and timeouts are 0. So two or three ticks
(`MaxTime`) take a row through due, renewed, stale, and expired, and each
comparison is met below, at and above its boundary.

| run | who | checks | states |
|---|---|---|---|
| interleaved | one client (cancel, delete, callback), one worker of each kind, two operations at once, crashes | RowsSound, PeriodsPaid, IInv, NotFoundLosesNothing, ImplementsTable | 522 000 |
| buyers | two clients creating a subscription without a plan, failing statements | FullIdentityUnique | 18 000 |
| serial | create, PATCH, cancel, callback, all workers; one at a time; crashes, panics of the provider (the stub) | TypeOK, RowsSound, IdentityUnique, OptOutSticks, OnlyExpiredExpire, OnlyStaleCleanedUp, ImplementsAtomic | 228 000 |
| apart | a due row without a plan and a renewing one; cancel, delete, two renewals, the other workers; three at once, never two at one row; crashes, failing statements | PaidPeriodGranted, OnlyPlansCharged, InactiveStaysInactive, ImplementsAtomic | 41 000 |
| renewers_apart | cancel, delete, two renewals, the other workers; three at once, never two renewals at one row; crashes, failing statements | NeverPaidTwice | 461 000 |
| fair | cancel, all workers, links, everything at once, under fairness | ExpiredLeaveActive, StalePendingLeave | 74 000 |
| server | two callers, one of them sending every kind of request over both front ends; start, signals, shutdown, death, under fairness | TypeOK, ClientErrorsWriteNothing, ValidatedOnce, FrontEndsAgree, ClosesWhenDrained, KeepsPromise, SignalEnds | 330 000 |
| worker | the three commands, once and in a loop, in 14 environments, under fairness | TypeOK, OneBatchPerTick, PaceAsConfigured, ReturnsOnRequest, SignalEnds, KeepsRunning | 1 200 |

Two operations at once are enough for every hazard of section 1 that takes a
stale copy: one holds the copy and the other moves the row (with `renewers_apart`
and `fair` going further). Several rows are needed where a batch goes on after an
item, or while another goes on elsewhere (`apart`), and two creators for the
identities. In `serial` the plan is the longest that a duration holds
(`DurationLimit = 2`), so that every purchase, overwrite and renewal is at that
boundary. Symmetry is used in `buyers` only, over the two clients, which no
definition tells apart.

`apart` and `renewers_apart` ask what holds while operations overlap but not on a
row: their `CONSTRAINT` is `Apart`, or `RenewersApart`, and TLC looks no further
where it fails. These are the very formulas the theorems of section 4 assume to be
always true. Nothing in the code sees to them; a lock per subscription, or for
`RenewersApart` running the renewals in one process, would. Without the constraint the
properties do fail. `ImplementsAtomic` does for a cancel under a renewal (the instance
of `cancel_race`), for two calls at one row, for an expiry of a row that a renewal
extends, for a cleanup of a row whose callback arrives, and for two creates of one new
identity (the instance of `duplicate_identity`): in each the step of a stale copy is
none of `AtomicSubscriptions`.

In `server`, two callers are enough for a call over HTTP and one over gRPC, or a
late call and one that is in time, to be in flight at every phase of the
shutdown; the second caller only purchases, which is the operation with the most
steps. In `worker`, `Minute` is 6 and `DurationLimit` 65536, so that all defaults
fit as they do in nanoseconds and 16384, -16384 and 21846 minutes wrap to zero,
zero and 4 units; the processes may stop, hence `CHECK_DEADLOCK FALSE` in both.

Four runs end in a counterexample. Each is a place where the code does something
else than its documents say:

| run | property | what happens |
|---|---|---|
| cancel_race | OptOutSticks | a renewal lists a row, a cancel is answered, the renewal writes its copy: auto-renewal is on again |
| duplicate_identity | IdentityUnique | two creates for an e-mail without a user both find nothing and both insert |
| retry_never | RetriesHappen | a timed-out link puts the row back to Processing "so it can retry", and no job ever lists Processing rows |
| renewal_by_link | PaidPeriodGranted | a renewal answered with a link is paid; the callback sets Active and leaves `end_at` where it was |

Some more behaviours of the same models that are not runs of their own:

* an expiry that has listed a row a renewal then extends deactivates it all the
  same (`OnlyExpiredExpire` holds while nobody else is at a row of the batch; the
  cause is the stale copy of `cancel_race`);
* two renewal workers that list the same row charge it twice (`NeverPaidTwice`
  holds while they keep off each other's rows, see `renewers_apart`);
* a cancel repeated within a second changes nothing and is answered "not found"
  although the row is there; `NotFoundLosesNothing` says that such an answer never
  hides a write that would have mattered;
* a success callback revives a deleted subscription, and so does a cancel that had
  loaded it (`InactiveStaysInactive` is checked without callbacks and overlaps);
* a transient failure of the plan lookup in a renewal switches the subscription off
  like a missing plan, which no document speaks of;
* a `CreateSubscription` repeated by its client asks the provider again, there
  being no idempotency key;
* a payment that hangs in a gRPC call keeps the process from stopping
  (`GracefulStop` has no deadline), and one that hangs in a call over HTTP loses
  the database under it after ten seconds;
* a number of minutes that wraps may give a worker an interval of next to nothing:
  `runWorker` refuses an interval of zero or less only.

**Fairness.** In `Subscriptions`, `Fairness` asks that time passes, that a
goroutine or worker that can take its next step takes it (statements and provider
calls return, which the code does not enforce with deadlines of its own), and that
a worker whose listing is not empty starts its batch (the ticker of `runWorker`).
Nobody is obliged to call the API, and crashes are off: a worker that dies at each
batch achieves nothing. The clock stops at `MaxTime`, late enough for a row to be
listed, moved and overdue again.

In `ApiServer`, the Go scheduler runs the main goroutine, the two that start the
servers, and every call; statements and the auth service return, but a payment
that was asked for over HTTP may hang for ever (`MayHang`): the ten seconds of the
shutdown are there for it. Over gRPC nothing in the code would end the wait, so
there the provider is assumed to return. Nobody is obliged to call, to send a
signal or to fail. In `Worker`, the ticker fires, batches return, and the two cases of
the select have strong fairness: Go picks at random among the ready ones, so none
that is ready again and again is passed over for ever.

## 4. The proofs

For any numbers of clients, workers, rows and types, any durations, widths,
environments, requests and bounds:

| module | theorem | says (and assumes) |
|---|---|---|
| SubscriptionsProofs | Invariance | `Spec => []IInv` |
| | TypeCorrect | `Spec => []TypeOK` |
| | RowsStaySound | `Spec => []RowsSound` |
| | FullIdentityStaysUnique | `Spec => []FullIdentityUnique` |
| | OnlyPlansAreCharged | `Spec => []OnlyPlansCharged` |
| | Refinement | `Spec => ImplementsTable` |
| | NotFoundIsHarmless | `Spec => NotFoundLosesNothing` |
| ApartProofs | AtomicRefinement | `Spec /\ []Apart => ImplementsAtomic` |
| | OptOutsStick | `Spec /\ []Apart => OptOutSticks` |
| | IdentityStaysUnique | `Spec /\ []FoundsApart => []IdentityUnique` |
| | OnlyExpiredRowsExpire | `Spec /\ [](\A w \in Expirers : Undisturbed(w)) => OnlyExpiredExpire` |
| | OnlyStaleRowsCleanedUp | `Spec /\ [](\A w \in Cleaners : Undisturbed(w)) => OnlyStaleCleanedUp` |
| | OneAtATime | `Spec => []Apart` (`Serial`) |
| RenewalsProofs | NeverTwice | `Spec /\ []RenewersApart => NeverPaidTwice` (`OnlyCancels`) |
| | OneRenewer | `Spec => NeverPaidTwice` (`OnlyCancels`, one renewal worker) |
| PeriodsProofs | PeriodsStayPaid | `Spec => []PeriodsPaid` |
| WorkerProofs | WorkerTypeCorrect | `Spec => []TypeOK` |
| | BatchesFollowTicks | `Spec => []OneBatchPerTick` |
| | PaceIsAsConfigured | `Spec => []PaceAsConfigured` |
| | WorkerReturnsOnRequest | `Spec => ReturnsOnRequest` |
| ApiServerProofs | ServerTypeCorrect | `Spec => []TypeOK` |
| | DrainedBeforeClose | `Spec => []ClosesWhenDrained` |
| | FaultOfTheCaller | `Spec => []ClientErrorsWriteNothing` |
| | ValidationSuffices | `Spec => []ValidatedOnce` |
| | FrontEndsAreOne | `Spec => []FrontEndsAgree` |
| | PromiseKept | `Spec => KeepsPromise` |

What is false of interleaved operations is proved from a condition on states that
rules out one kind of overlap, not from a bound on what runs. `FoundsApart`: no two
calls have both found the same identity to be new. `Undisturbed(w)`: no other
operation holds, or has looked up, a row of the batch of `w`. `Apart`: both, and no
two calls at one row. `RenewersApart`: no two renewal workers at one row. All else
may overlap, at every statement, with failures, deaths and time passing in between.
The code guarantees none of these, and the runs that end in a counterexample show
what happens without. That they can be met is `OneAtATime`: `Serial` is
`MaxInFlight = 1` with finitely many processes, every operation run alone.
`OnlyCancels` says that callers cancel and delete, and that plans have a length: a
PATCH or a callback may make a row due again after a charge whose outcome was lost,
and `CreateSubscription` charges the same period again.

Assumptions of all theorems: `Null` is no other value, durations and configured
intervals are integers (nothing says they are positive), payment results are
among those listed, the initial table is sound with unique identities and first periods, and
the defaults of the configuration fit in a `time.Duration`. TLC evaluates all of
them in the runs.

The argument for `Subscriptions`. `RowsSound` is not inductive: a stale copy could
write anything. `IInv` adds that every copy held by a call (`CallReady`) or a worker
(`JobReady`) is sound and has the identity of the row it was read from, which no
step changes; that a request past its validation is valid; and that whoever is to
settle a payment works on a type with a plan. Then (1) each computation of
`Entities` maps a sound row to a sound row with the same identity (`...Good`; that a
new end comes after the start is `WrapExact`); (2) each statement of `Store` with
such a row keeps the table sound and is a step of `SubscriptionTable` (`UpdateStep`,
`CreateStep`); (3) each action keeps its own part of the invariant, and the others
by `CallKept`, `JobKept`, `LedgerKept` (`...Keeps`, one lemma per action);
(4) `NextKeeps` puts the actions together. `IInv` itself is an invariant of the run
`interleaved`.

`PeriodsPaid` needs a second invariant, `PaidInv`, on top of `IInv`: not only the
stored rows but all copies on their way to the table have periods that were bought
or paid for, and a worker that is to settle a success has the new end in the
ledger. The ledger only grows, and of all computations only `RenewSettled` after a
success moves an end, by the one period that `RenewPay` has recorded.

What fails when copies are stale is proved from `FreshInv` on top of `IInv`: a copy
in memory *is* the row of the table (`FreshCall`, `FreshRow`), an identity that was
not found is still not there when the row is inserted, and what a batch has listed
is still due, stale or expired when it gets there. Under `Apart` whoever moves
leaves what the others have read alone (`CallMovesApart`, `JobMovesApart`), so it is
inductive. Each action then has one lemma (`...Apart`) that shows three things: the
invariant again; `OptOutStep`, the step `OptOutSticks` speaks of; and `AtomicStep`,
the step of `AtomicSubscriptions` it is. A look-up is an `Ask` or a `Refuse`, a listing
a `Begin`, each UPDATE or INSERT the change of its name; a statement that fails, or
an answer of the provider, moves the client or the worker on and leaves the rows. What
is to be shown of a change is that its ground still holds, and `FreshInv` says so.

Three of the properties need less, because fewer steps can break them.
`IdentityInv` asks, beside `IdentityUnique`, only that the identity a create has
found new still is (`FoundsAreNew`); updates keep identities and only an insert by
another such create could break it. `BatchInv` asks of the workers of one command
only that what they listed still holds; `StepTouches` says which rows each step may
change, so steps that leave the batch alone (`OthersLeaveBatch`) cannot break it
whatever they do elsewhere, lost updates included.

`NeverPaidTwice` needs no fresh copies. `RenewalInv` says that a row which is active
and renewing has no period beyond its end paid, nor has any copy a renewal works
on, except the one it has been paid for and is about to settle; while a row is
charged and settled, it is out of the due ones, and with renewals apart no other
renewal holds a copy of it. It is inductive because only the
settling of a success makes a row active and renewing, and that moves the end as
far as the payment went; all other writers, with whatever copy, switch something
off.

`NotFoundLosesNothing` follows from `IInv` and `Unanswered` (a call in progress has no
answer yet): a statement on a row that exists says "not found" only when the row, as it
is, equals the one that was to be written, and `InEffect` is read off that row, case by
case.

The argument for `ApiServer`. `AInv` says of each call (`Fit`) that nothing is
written before the first write, that only a planned purchase goes to the provider,
that only accepted requests are with the service, and hence what a call that has
written may be answered; and of the servers (`Drained`) that one that was shut down
takes no calls and that those it had are over, or late and of HTTP. `SameErrors`
compares the two tables of errors handler by handler, `NothingLeftToRefuse` the
checks of `Validate` with those of the service. The refinement of `Exchange` maps
every step: `MainRefines`, `SurroundingsRefine`, `ArriveRefines`, `CallStepRefines`.

The argument for `Worker` is an invariant that ties the phase to the flag, the
interval to the environment through `Load`, and the one batch that may be unticked
to an empty channel.

Every safety property of a passing run is thus proved, some of them in behaviours
without the overlap that breaks them, but for `PaidPeriodGranted` and
`InactiveStaysInactive`: under what they would have to assume (no overlaps, no
callbacks, no PATCH) a theorem would say less than the run shows, which has the
failures, panics, links and deaths in it. Model-checked only are these two, the
liveness properties (`ExpiredLeaveActive`, `StalePendingLeave`, `KeepsRunning`, both
`SignalEnds`), which are beyond the prover, and the four counterexamples.

## 5. Not modelled

* The mapper (formats rows as strings), the generated protobuf code, request ids,
  log lines, CORS, and the bodies of answers; which rows a listing returns.
* What the auth service decides: any call may be turned away, with either answer. Whose subscription a
  caller may touch is decided outside the repository, if at all.
* Connection pools: `SetMaxOpenConns` and its like are read (`Config`), but a
  statement is one step that any number of goroutines may take.
* Calls on connections that a stopping server still accepts requests from: a
  server that was shut down takes no call.
* The width of dates; a date keeps any value, only durations wrap.
* The collation of the identity columns: MySQL may compare e-mails without case;
  identities here are equal or not.
* One unit of time is one second of a `DATETIME`; finer differences between a copy
  in memory and the stored value are not told apart.

## 6. Plan

Done: Entities, Store, Payment, Api, Jobs, Subscriptions, SubscriptionTable and
their proofs first, then Durations, FrontEnds, ApiServer, Exchange, Config, Worker
and theirs, then AtomicSubscriptions and what holds of operations that overlap, but
not on a row. Left: `Api` and `ApiServer` composed, with the rows behind every
answer, once the state space of the two is brought down.
