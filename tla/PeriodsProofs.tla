---------------------------- MODULE PeriodsProofs ----------------------------
(***************************************************************************)
(* No subscription is extended for nothing, for every value of the         *)
(* constants: the proof of PeriodsPaid.                                    *)
(*                                                                         *)
(* A row in the table gets its period from some copy.  So the argument is  *)
(* about the copies: each carries a period that was bought or paid for,    *)
(* and a worker that is to settle a success has the payment in the ledger. *)
(* The ledger only grows, and of all computations only RenewSettled after  *)
(* a success moves an end.                                                 *)
(***************************************************************************)
EXTENDS SubscriptionsProofs

\* PeriodPaid, with the ledger as a parameter.
PaidIn(ledger, id, row) ==
    Planned(row.type) => \/ row.endAt = row.startAt + Period(row.type)
                         \/ <<id, row.endAt>> \in ledger

\* The stored rows have periods that were bought or paid for,
TablePaid == \A i \in Ids : PaidIn(paidTo, i, table[i])

\* so does the copy a call is to write,
CallPaid(c) ==
    call[c].pc \in {"pay", "settle", "save"} =>
        PaidIn(paidTo, call[c].id, call[c].row)

\* and so do those of a batch; the renewal a worker is to grant is paid for.
JobPaid(w) ==
    /\ \A i \in DOMAIN job[w].batch : PaidIn(paidTo, i, job[w].batch[i])
    /\ job[w].pc = "settle" /\ job[w].result = "success" =>
          \A i \in DOMAIN job[w].batch :
             First(w, i) =>
                <<i, job[w].batch[i].endAt + Period(job[w].batch[i].type)>>
                    \in paidTo

CallsPaid == \A c \in Clients : CallPaid(c)
JobsPaid  == \A w \in Workers : JobPaid(w)

PaidInv == TablePaid /\ CallsPaid /\ JobsPaid

-----------------------------------------------------------------------------
(* The computations.                                                       *)

\* Two rows of the same type with the same dates.
SamePeriod(a, b) ==
    a.type = b.type /\ a.startAt = b.startAt /\ a.endAt = b.endAt

\* The ledger only grows, so what was paid stays paid.
LEMMA StaysPaid ==
    ASSUME NEW before, NEW after, before \subseteq after, NEW id,
           NEW a, NEW b, SamePeriod(a, b), PaidIn(before, id, a)
    PROVE  PaidIn(after, id, b)
BY DEF PaidIn, SamePeriod

\* A created row lasts for the period of its plan.
LEMMA CreateRowPaid ==
    ASSUME NEW ledger, NEW id, NEW req \in CreateRequest, NEW t
    PROVE  PaidIn(ledger, id, CreateRow(req, t))
BY DEF PaidIn, CreateRow

\* No handler moves a date.
LEMMA HandlersKeepPeriods ==
    ASSUME NEW row \in Row, NEW t
    PROVE  /\ \A result : SamePeriod(row, CreateSettled(row, result, t))
           /\ \A req : req.op \in {"update", "delete", "cancel", "callback"}
                 => SamePeriod(row, Applied(req, row, t))
<1>1. \A result : SamePeriod(row, CreateSettled(row, result, t))
  BY DEF SamePeriod, CreateSettled, Row
<1>2. ASSUME NEW req PROVE SamePeriod(row, UpdatedRow(req, row, t))
  BY DEF SamePeriod, UpdatedRow, Off, Row
<1>3. SamePeriod(row, DeletedRow(row, t)) /\ SamePeriod(row, CancelledRow(row, t))
  BY DEF SamePeriod, DeletedRow, CancelledRow, Off, Row
<1>4. ASSUME NEW req PROVE SamePeriod(row, CallbackRow(req, row, t))
  BY DEF SamePeriod, CallbackRow, Row
<1> QED
  BY <1>1, <1>2, <1>3, <1>4 DEF Applied

\* Neither do the mark, the cleanup and the expiry.
LEMMA JobsKeepPeriods ==
    ASSUME NEW row \in Row, NEW t
    PROVE  /\ SamePeriod(row, RenewMarked(row, t))
           /\ SamePeriod(row, CleanupRow(row, t))
           /\ SamePeriod(row, ExpireRow(row, t))
BY DEF SamePeriod, RenewMarked, CleanupRow, ExpireRow, Off, Row

\* A settled renewal leaves the dates alone, or moves the end by one period
\* after a success.
LEMMA RenewSettledPeriod ==
    ASSUME NEW row \in Row, Sound(row), NEW result, NEW t \in Int,
           result # "no_plan" => Planned(row.type)
    PROVE  LET new == RenewSettled(row, result, t)
           IN \/ SamePeriod(row, new)
              \/ /\ result = "success"
                 /\ new.type = row.type
                 /\ new.endAt = row.endAt + Period(row.type)
<1>1. CASE result = "no_plan"
  BY <1>1 DEF RenewSettled, SamePeriod, Off, Row
<1>2. CASE result # "no_plan"
  <2> DEFINE tried == RenewAttempted(row, result, t)
             new   == RenewSettled(row, result, t)
  <2>1. tried \in Row
    <3>1. CASE result = "success"
      BY <1>2, <3>1, ExtendedGood DEF RenewAttempted, Good
    <3>2. CASE result = "redirect"
      <4>1. tried = RetryLater(row, PendingPayment, t)
        BY <3>2 DEF RenewAttempted
      <4> QED
        BY <4>1, RetryLaterGood DEF Statuses, PendingPayment, Inactive, Good
    <3>3. CASE result \in {"failure", "panic"}
      <4>1. tried = RetryLater(row, Processing, t)
        BY <3>3 DEF RenewAttempted
      <4> QED
        BY <4>1, RetryLaterGood DEF Statuses, Processing, Inactive, Good
    <3>4. CASE result \notin {"success", "redirect", "failure", "panic"}
      BY <3>4 DEF RenewAttempted
    <3> QED
      BY <3>1, <3>2, <3>3, <3>4
  <2>2. \/ SamePeriod(row, tried)
        \/ /\ result = "success"
           /\ tried.type = row.type
           /\ tried.endAt = row.endAt + Period(row.type)
    <3>1. CASE result = "success"
      <4>1. row.endAt # Null
        BY <1>2 DEF Sound, DatedWhenPlanned
      <4> QED
        BY <3>1, <4>1 DEF RenewAttempted, Extended, RenewedEnd, Row
    <3>2. CASE result # "success"
      BY <3>2 DEF RenewAttempted, RetryLater, SamePeriod, Row
    <3> QED
      BY <3>1, <3>2
  <2> HIDE DEF tried
  <2>3. SamePeriod(tried, new)
    BY <1>2, <2>1 DEF RenewSettled, AgeChecked, Off, SamePeriod, Row, tried
  <2> QED
    BY <2>2, <2>3 DEF SamePeriod
<1> QED
  BY <1>1, <1>2

-----------------------------------------------------------------------------
(* What leaves each part of the invariant true.                            *)

LedgerGrows == paidTo \subseteq paidTo'

\* The table as it is, with a ledger that grows.
LEMMA TableStaysPaid ==
    ASSUME TablePaid, LedgerGrows, UNCHANGED table
    PROVE  TablePaid'
BY DEF TablePaid, LedgerGrows, PaidIn, Ids

\* UPDATE with a copy whose period is paid for.
LEMMA UpdatePaid ==
    ASSUME TableInv, TablePaid, LedgerGrows,
           NEW id \in Ids, NEW row \in Row, SameIdentity(id, row),
           PaidIn(paidTo', id, row), NEW reply, Update(id, row, reply)
    PROVE  TablePaid'
<1>1. CASE UNCHANGED table
  BY <1>1, TableStaysPaid
<1>2. CASE table' = Written(id, row)
  <2> DEFINE new == Persisted(id, row)
  <2>1. SamePeriod(row, new)
    BY IdentityFields DEF Persisted, Row, SameIdentity, SamePeriod
  <2>2. table' = [table EXCEPT ![id] = new]
    BY <1>2 DEF Written
  <2>3. PaidIn(paidTo', id, new)
    BY <2>1, StaysPaid
  <2> HIDE DEF new
  <2>4. Ids' = Ids /\ \A i \in Ids : table'[i] = IF i = id THEN new ELSE table[i]
    BY <2>2 DEF TableInv, Ids
  <2>5. ASSUME NEW i \in Ids PROVE PaidIn(paidTo', i, table[i])
    BY StaysPaid DEF TablePaid, LedgerGrows, SamePeriod
  <2> QED
    BY <2>3, <2>4, <2>5 DEF TablePaid
<1> QED
  BY <1>1, <1>2 DEF Update

\* INSERT of a row whose period is paid for.
LEMMA CreatePaid ==
    ASSUME TableInv, TablePaid, UNCHANGED paidTo, NEW row,
           PaidIn(paidTo, Len(table) + 1, row), NEW reply, Create(row, reply)
    PROVE  TablePaid'
<1>1. CASE UNCHANGED table
  BY <1>1, TableStaysPaid DEF LedgerGrows
<1>2. CASE table' = Append(table, row)
  <2>1. /\ Ids' = Ids \cup {Len(table) + 1}
        /\ table'[Len(table) + 1] = row
        /\ \A i \in Ids : table'[i] = table[i]
    BY <1>2 DEF TableInv, Ids
  <2> QED
    BY <2>1 DEF TablePaid
<1> QED
  BY <1>1, <1>2 DEF Create

\* A call that moves, if at all, to a step that writes nothing or to a copy
\* whose period is paid for.
LEMMA CallsStayPaid ==
    ASSUME CallsPaid, LedgerGrows,
           \A c \in Clients :
              \/ call'[c] = call[c]
              \/ call'[c].pc \notin {"pay", "settle", "save"}
              \/ PaidIn(paidTo', call'[c].id, call'[c].row)
    PROVE  CallsPaid'
<1> SUFFICES ASSUME NEW c \in Clients PROVE CallPaid(c)'
  BY DEF CallsPaid
<1>1. CASE call'[c] = call[c]
  BY <1>1, StaysPaid DEF CallsPaid, CallPaid, LedgerGrows, SamePeriod
<1>2. CASE call'[c] # call[c]
  BY <1>2 DEF CallPaid
<1> QED
  BY <1>1, <1>2

\* One call moves to such a step, the others do not move.
LEMMA CallMovesPaid ==
    ASSUME CallsInv, CallsPaid, LedgerGrows, NEW c \in Clients, NEW k,
           call' = [call EXCEPT ![c] = k],
           \/ k.pc \notin {"pay", "settle", "save"}
           \/ PaidIn(paidTo', k.id, k.row)
    PROVE  CallsPaid'
<1>1. call'[c] = k /\ \A d \in Clients \ {c} : call'[d] = call[d]
  BY DEF CallsInv
<1> QED
  BY <1>1, CallsStayPaid

\* A call that ends.
LEMMA AnswerPaid ==
    ASSUME CallsInv, CallsPaid, LedgerGrows, NEW c \in Clients, NEW reply,
           Answer(c, reply)
    PROVE  CallsPaid'
<1>1. Idle(reply).pc = "idle"
  BY DEF Idle
<1> QED
  BY <1>1, CallMovesPaid DEF Answer

\* Workers that do not move.
LEMMA JobStaysPaid ==
    ASSUME JobsPaid, LedgerGrows, NEW w \in Workers, job'[w] = job[w]
    PROVE  JobPaid(w)'
<1>1. \A i \in DOMAIN job'[w].batch : PaidIn(paidTo', i, job'[w].batch[i])
  BY StaysPaid DEF JobsPaid, JobPaid, LedgerGrows, SamePeriod
<1> QED
  BY <1>1 DEF JobsPaid, JobPaid, LedgerGrows, First

\* One worker moves to a step other than settling a success.
LEMMA JobMovesPaid ==
    ASSUME JobsInv, JobsPaid, LedgerGrows, NEW w \in Workers, NEW j,
           job' = [job EXCEPT ![w] = j],
           j.pc # "settle",
           \A i \in DOMAIN j.batch : PaidIn(paidTo', i, j.batch[i])
    PROVE  JobsPaid'
<1>1. job'[w] = j /\ \A v \in Workers \ {w} : job'[v] = job[v]
  BY DEF JobsInv
<1>2. JobPaid(w)'
  BY <1>1 DEF JobPaid
<1> QED
  BY <1>1, <1>2, JobStaysPaid DEF JobsPaid

\* Workers that do not move at all.
LEMMA JobsStayPaid ==
    ASSUME JobsPaid, LedgerGrows, UNCHANGED job
    PROVE  JobsPaid'
BY JobStaysPaid DEF JobsPaid

\* Passing on to the next item.
LEMMA AdvancePaid ==
    ASSUME JobsInv, JobsPaid, LedgerGrows, NEW w \in Workers, NEW id,
           NEW pc, pc # "settle", NEW t, Advance(w, id, pc, t)
    PROVE  JobsPaid'
<1> DEFINE rest == DOMAIN job[w].batch \ {id}
           next == [Resting EXCEPT !.pc = pc, !.now = t,
                                   !.batch = [i \in rest |-> job[w].batch[i]]]
<1>1. CASE rest = {}
  <2>1. Resting.pc # "settle" /\ DOMAIN Resting.batch = {}
    BY DEF Resting, Snapshot
  <2> QED
    BY <1>1, <2>1, JobMovesPaid DEF Advance
<1>2. CASE rest # {}
  <2>1. next.pc = pc /\ next.batch = [i \in rest |-> job[w].batch[i]]
    BY DEF Resting
  <2>2. \A i \in rest : PaidIn(paidTo', i, job[w].batch[i])
    BY StaysPaid DEF JobsPaid, JobPaid, LedgerGrows, SamePeriod
  <2>3. job' = [job EXCEPT ![w] = next]
    BY <1>2 DEF Advance
  <2> HIDE DEF next
  <2> QED
    BY <2>1, <2>2, <2>3, JobMovesPaid
<1> QED
  BY <1>1, <1>2

-----------------------------------------------------------------------------
(* The steps of the API.                                                   *)

\* Operations that start read the table only.
LEMMA CallStartPaid ==
    ASSUME IInv, PaidInv, NEW c \in Clients, CallStart(c), UNCHANGED jobVars
    PROVE  PaidInv'
<1>1. TableInv /\ CallsInv /\ TablePaid /\ CallsPaid /\ JobsPaid
  BY Parts DEF PaidInv
<1>2. UNCHANGED table /\ UNCHANGED paidTo /\ UNCHANGED job
  BY DEF CallStart, CreateSubscription, UpdateSubscription, DeleteSubscription,
         CancelSubscription, PaymentCallback, Load, storeVars, paymentVars,
         jobVars
<1>3. LedgerGrows
  BY <1>2 DEF LedgerGrows
<1>4. TablePaid' /\ JobsPaid'
  BY <1>1, <1>2, <1>3, TableStaysPaid, JobsStayPaid
<1>5. ASSUME NEW reply, Answer(c, reply) PROVE CallsPaid'
  BY <1>1, <1>3, <1>5, AnswerPaid
<1>6. ASSUME CreateSubscription(c) PROVE CallsPaid'
  <2>1. ASSUME NEW req, NEW id,
               call' = [call EXCEPT ![c] =
                   [Idle("none") EXCEPT !.pc = "store", !.req = req,
                                        !.id = id, !.at = now]]
        PROVE  CallsPaid'
    <3> DEFINE k == [Idle("none") EXCEPT !.pc = "store", !.req = req,
                                         !.id = id, !.at = now]
    <3>1. k.pc = "store"
      BY DEF Idle
    <3> HIDE DEF k
    <3> QED
      BY <1>1, <1>3, <2>1, <3>1, CallMovesPaid DEF k
  <2> QED
    BY <1>5, <1>6, <2>1 DEF CreateSubscription
<1>7. ASSUME NEW req, Load(c, req) PROVE CallsPaid'
  <2>1. ASSUME req.id \in Ids,
               call' = [call EXCEPT ![c] =
                   [Idle("none") EXCEPT !.pc = "save", !.req = req,
                       !.id = req.id, !.row = table[req.id], !.at = now]]
        PROVE  CallsPaid'
    <3> DEFINE k == [Idle("none") EXCEPT !.pc = "save", !.req = req,
                        !.id = req.id, !.row = table[req.id], !.at = now]
    <3>1. k.id = req.id /\ k.row = table[req.id]
      BY DEF Idle
    <3> HIDE DEF k
    <3>2. PaidIn(paidTo', k.id, k.row)
      BY <1>1, <1>2, <2>1, <3>1 DEF TablePaid
    <3> QED
      BY <1>1, <1>3, <2>1, <3>2, CallMovesPaid DEF k
  <2> QED
    BY <1>5, <1>7, <2>1 DEF Load
<1>8. CallsPaid'
  BY <1>6, <1>7 DEF CallStart, UpdateSubscription, DeleteSubscription,
                    CancelSubscription, PaymentCallback
<1> QED
  BY <1>4, <1>8 DEF PaidInv

\* What follows the first write of CreateSubscription.
LEMMA CreateStoredPaid ==
    ASSUME CallsInv, CallsPaid, LedgerGrows, NEW c \in Clients, NEW id, NEW row,
           PaidIn(paidTo', id, row), NEW reply, CreateStored(c, id, row, reply)
    PROVE  CallsPaid'
<1>1. ASSUME Answer(c, reply) PROVE CallsPaid'
  BY <1>1, AnswerPaid
<1>2. ASSUME call' = [call EXCEPT ![c] =
               [Idle("none") EXCEPT !.pc = "pay", !.id = id, !.row = row]]
      PROVE  CallsPaid'
  <2> DEFINE k == [Idle("none") EXCEPT !.pc = "pay", !.id = id, !.row = row]
  <2>1. k.id = id /\ k.row = row
    BY DEF Idle
  <2> HIDE DEF k
  <2> QED
    BY <1>2, <2>1, CallMovesPaid DEF k
<1> QED
  BY <1>1, <1>2 DEF CreateStored

\* The first write of CreateSubscription.
LEMMA CreateWritesPaid ==
    ASSUME IInv, PaidInv, NEW c \in Clients,
           CreateInsert(c) \/ CreateOverwrite(c), UNCHANGED jobVars
    PROVE  PaidInv'
<1>1. TableInv /\ CallsInv /\ TablePaid /\ CallsPaid /\ JobsPaid
  BY Parts DEF PaidInv
<1> DEFINE req == call[c].req
           row == CreateRow(req, call[c].at)
<1>2. UNCHANGED paidTo /\ UNCHANGED job /\ LedgerGrows
  BY DEF CreateInsert, CreateOverwrite, paymentVars, jobVars, LedgerGrows
<1>3. /\ req \in CreateRequest /\ CreateRejection(req) = "none"
      /\ call[c].at \in Int
      /\ call[c].id # 0 => call[c].id \in Ids /\ SameIdentity(call[c].id, req)
  BY <1>1 DEF CallsInv, CallInv, CallOK, CallReady, CreateInsert, CreateOverwrite
<1>4. row \in Row /\ Identity(row) = Identity(req)
  BY <1>3, CreateRowSound
<1>5. \A id : PaidIn(paidTo, id, row)
  BY <1>3, CreateRowPaid
<1> HIDE DEF row
<1>6. CASE CreateInsert(c)
  <2>1. PICK reply \in InsertReplies :
           Create(row, reply) /\ CreateStored(c, Len(table) + 1, row, reply)
    BY <1>6 DEF CreateInsert, row
  <2>2. TablePaid'
    BY <1>1, <1>2, <1>5, <2>1, CreatePaid
  <2>3. CallsPaid'
    BY <1>1, <1>2, <1>5, <2>1, CreateStoredPaid
  <2> QED
    BY <1>1, <1>2, <2>2, <2>3, JobsStayPaid DEF PaidInv
<1>7. CASE CreateOverwrite(c)
  <2> DEFINE id == call[c].id
  <2>1. PICK reply \in UpdateReplies :
           Update(id, row, reply) /\ CreateStored(c, id, row, reply)
    BY <1>7 DEF CreateOverwrite, row
  <2>2. id \in Ids /\ SameIdentity(id, row)
    BY <1>3, <1>4, <1>7 DEF CreateOverwrite, SameIdentity
  <2>3. TablePaid'
    BY <1>1, <1>2, <1>4, <1>5, <2>1, <2>2, UpdatePaid
  <2>4. CallsPaid'
    BY <1>1, <1>2, <1>5, <2>1, CreateStoredPaid
  <2> QED
    BY <1>1, <1>2, <2>3, <2>4, JobsStayPaid DEF PaidInv
<1> QED
  BY <1>6, <1>7

\* The provider call of CreateSubscription.
LEMMA CreatePayPaid ==
    ASSUME IInv, PaidInv, NEW c \in Clients, CreatePay(c), UNCHANGED jobVars
    PROVE  PaidInv'
<1>1. CallsInv /\ TablePaid /\ CallsPaid /\ JobsPaid
  BY Parts DEF PaidInv
<1>2. PICK result \in PaymentResults :
         /\ ProcessSubscriptionPayment(call[c].id, call[c].row.endAt, result)
         /\ IF result = "panic"
            THEN Answer(c, "error")
            ELSE call' = [call EXCEPT ![c] =
                     [Idle("none") EXCEPT !.pc = "settle", !.id = call[c].id,
                                          !.row = call[c].row, !.at = now,
                                          !.result = result]]
  BY DEF CreatePay
<1>3. UNCHANGED table /\ UNCHANGED job
  BY DEF CreatePay, storeVars, jobVars
<1>4. LedgerGrows
  BY <1>2 DEF ProcessSubscriptionPayment, paymentVars, LedgerGrows
<1>5. ASSUME call' = [call EXCEPT ![c] =
               [Idle("none") EXCEPT !.pc = "settle", !.id = call[c].id,
                                    !.row = call[c].row, !.at = now,
                                    !.result = result]]
      PROVE  CallsPaid'
  <2> DEFINE k == [Idle("none") EXCEPT !.pc = "settle", !.id = call[c].id,
                                       !.row = call[c].row, !.at = now,
                                       !.result = result]
  <2>1. k.id = call[c].id /\ k.row = call[c].row
    BY DEF Idle
  <2> HIDE DEF k
  <2>2. PaidIn(paidTo', k.id, k.row)
    BY <1>1, <1>4, <2>1, StaysPaid
    DEF CallsPaid, CallPaid, CreatePay, LedgerGrows, SamePeriod
  <2> QED
    BY <1>1, <1>4, <1>5, <2>2, CallMovesPaid DEF k
<1>6. CallsPaid'
  BY <1>1, <1>2, <1>4, <1>5, AnswerPaid
<1> QED
  BY <1>1, <1>3, <1>4, <1>6, TableStaysPaid, JobsStayPaid DEF PaidInv

\* A call that writes the copy it holds with the same dates.
LEMMA CopyWrittenPaid ==
    ASSUME IInv, PaidInv, NEW c \in Clients,
           call[c].pc \in {"pay", "settle", "save"}, UNCHANGED jobVars,
           LedgerGrows, NEW new, Good(call[c].row, new),
           SamePeriod(call[c].row, new),
           NEW reply, Update(call[c].id, new, reply), Answer(c, reply)
    PROVE  PaidInv'
<1>1. TableInv /\ CallsInv /\ TablePaid /\ CallsPaid /\ JobsPaid
  BY Parts DEF PaidInv
<1>2. /\ call[c].id \in Ids
      /\ SameIdentity(call[c].id, call[c].row)
  BY <1>1 DEF CallsInv, CallInv, CallOK, CallReady
<1>3. new \in Row /\ SameIdentity(call[c].id, new)
  BY <1>2 DEF Good, SameIdentity
<1>4. PaidIn(paidTo', call[c].id, new)
  BY <1>1, StaysPaid DEF CallsPaid, CallPaid, LedgerGrows
<1>5. TablePaid'
  BY <1>1, <1>2, <1>3, <1>4, UpdatePaid
<1>6. CallsPaid' /\ JobsPaid'
  BY <1>1, AnswerPaid, JobsStayPaid DEF jobVars
<1> QED
  BY <1>5, <1>6 DEF PaidInv

\* The last UPDATE of CreateSubscription.
LEMMA CreateSettlePaid ==
    ASSUME IInv, PaidInv, NEW c \in Clients, CreateSettle(c), UNCHANGED jobVars
    PROVE  PaidInv'
<1>1. CallsInv /\ now \in Int
  BY Parts
<1>2. PICK t \in call[c].at .. now, reply \in UpdateReplies :
         /\ Update(call[c].id, CreateSettled(call[c].row, call[c].result, t), reply)
         /\ Answer(c, reply)
  BY DEF CreateSettle
<1>3. call[c].pc = "settle" /\ LedgerGrows
  BY DEF CreateSettle, paymentVars, LedgerGrows
<1>4. call[c].row \in Row /\ Sound(call[c].row) /\ call[c].at \in Int
  BY <1>1, <1>3 DEF CallsInv, CallInv, CallOK, CallReady
<1> DEFINE new == CreateSettled(call[c].row, call[c].result, t)
<1>5. t \in Int
  BY <1>1, <1>4
<1>6. Good(call[c].row, new) /\ SamePeriod(call[c].row, new)
  BY <1>4, <1>5, CreateSettledGood, HandlersKeepPeriods
<1> HIDE DEF new
<1> QED
  BY <1>2, <1>3, <1>6, CopyWrittenPaid DEF new

\* The UPDATE of an operation on an existing row.
LEMMA SavePaid ==
    ASSUME IInv, PaidInv, NEW c \in Clients, Save(c), UNCHANGED jobVars
    PROVE  PaidInv'
<1>1. CallsInv /\ now \in Int
  BY Parts
<1> DEFINE req == call[c].req
<1>2. PICK t \in call[c].at .. now, reply \in UpdateReplies :
         /\ Update(call[c].id, Applied(req, call[c].row, t), reply)
         /\ Answer(c, reply)
         /\ LinkPaid(call[c].id) \/ UNCHANGED paymentVars
  BY DEF Save
<1>3. call[c].pc = "save" /\ LedgerGrows
  BY <1>2 DEF Save, LinkPaid, paymentVars, LedgerGrows
<1>4. /\ call[c].row \in Row /\ Sound(call[c].row) /\ call[c].at \in Int
      /\ req \in Requests /\ req.op # "create" /\ Rejection(req) = "none"
  BY <1>1, <1>3 DEF CallsInv, CallInv, CallOK, CallReady
<1>5. req.op \in {"update", "delete", "cancel", "callback"}
  BY <1>4 DEF Requests, CreateRequest, UpdateRequest, DeleteRequest,
              CancelRequest, CallbackRequest
<1> DEFINE new == Applied(req, call[c].row, t)
<1>6. t \in Int
  BY <1>1, <1>4
<1>7. Good(call[c].row, new)
  BY <1>4, <1>6, AppliedGood
<1>8. SamePeriod(call[c].row, new)
  BY <1>4, <1>5, HandlersKeepPeriods
<1> HIDE DEF new, req
<1> QED
  BY <1>2, <1>3, <1>7, <1>8, CopyWrittenPaid DEF new

\* The death of the API process.
LEMMA ApiCrashPaid ==
    ASSUME IInv, PaidInv, ApiCrash, UNCHANGED jobVars
    PROVE  PaidInv'
<1>1. TablePaid /\ CallsPaid /\ JobsPaid
  BY DEF PaidInv
<1>2. UNCHANGED table /\ UNCHANGED job /\ LedgerGrows
  BY DEF ApiCrash, storeVars, paymentVars, jobVars, LedgerGrows
<1>3. \A c \in Clients : call'[c].pc = "idle"
  BY DEF ApiCrash, Idle
<1> QED
  BY <1>1, <1>2, <1>3, TableStaysPaid, CallsStayPaid, JobsStayPaid DEF PaidInv

-----------------------------------------------------------------------------
(* The steps of the jobs.                                                  *)

\* A batch starts from rows of the table.
LEMMA ListedPaid ==
    ASSUME IInv, PaidInv, NEW w \in Workers, NEW pc, pc # "settle",
           NEW ids, ids \subseteq Ids, Listed(w, pc, ids), UNCHANGED apiVars
    PROVE  PaidInv'
<1>1. JobsInv /\ TablePaid /\ CallsPaid /\ JobsPaid
  BY Parts DEF PaidInv
<1>2. UNCHANGED table /\ UNCHANGED paidTo /\ UNCHANGED call /\ LedgerGrows
  BY DEF Listed, storeVars, paymentVars, apiVars, LedgerGrows
<1> DEFINE j == [Resting EXCEPT !.pc = pc, !.batch = Snapshot(ids), !.now = now]
<1>3. j.pc = pc /\ j.batch = [i \in ids |-> table[i]]
  BY DEF Resting, Snapshot
<1>4. job' = [job EXCEPT ![w] = j]
  BY DEF Listed
<1> HIDE DEF j
<1>5. \A i \in DOMAIN j.batch : PaidIn(paidTo', i, j.batch[i])
  BY <1>1, <1>2, <1>3 DEF TablePaid
<1>6. JobsPaid'
  BY <1>1, <1>2, <1>3, <1>4, <1>5, JobMovesPaid
<1>7. CallsPaid'
  BY <1>1, <1>2, CallsStayPaid
<1> QED
  BY <1>1, <1>2, <1>6, <1>7, TableStaysPaid DEF PaidInv

\* The three listings.
LEMMA JobStartPaid ==
    ASSUME IInv, PaidInv, NEW w \in Workers, JobStart(w), UNCHANGED apiVars
    PROVE  PaidInv'
<1>1. CASE RenewList(w)
  BY <1>1, ListedPaid DEF RenewList, ListDueAutoRenew
<1>2. CASE CleanupList(w)
  BY <1>2, ListedPaid DEF CleanupList, ListPendingPaymentStale
<1>3. CASE ExpireList(w)
  BY <1>3, ListedPaid DEF ExpireList, ListExpiredActive
<1> QED
  BY <1>1, <1>2, <1>3 DEF JobStart

\* A worker that writes what it made of a copy, with a period that is paid.
LEMMA ItemWrittenPaid ==
    ASSUME IInv, PaidInv, NEW w \in Workers, NEW id \in DOMAIN job[w].batch,
           UNCHANGED paidTo, NEW new, Good(job[w].batch[id], new),
           PaidIn(paidTo, id, new), NEW reply, Update(id, new, reply)
    PROVE  TablePaid'
<1>1. TableInv /\ TablePaid
  BY Parts DEF PaidInv
<1>2. /\ id \in Ids
      /\ new \in Row
      /\ SameIdentity(id, new)
  BY BatchFields DEF Good, SameIdentity
<1> QED
  BY <1>1, <1>2, UpdatePaid DEF LedgerGrows

\* The copies a worker holds have periods that are paid for.
LEMMA BatchPaid ==
    ASSUME PaidInv, NEW w \in Workers, NEW id \in DOMAIN job[w].batch, NEW new,
           SamePeriod(job[w].batch[id], new)
    PROVE  PaidIn(paidTo, id, new)
BY StaysPaid DEF PaidInv, JobsPaid, JobPaid

\* The mark before a renewal payment.
LEMMA RenewMarkPaid ==
    ASSUME IInv, PaidInv, NEW w \in Workers, RenewMark(w), UNCHANGED apiVars
    PROVE  PaidInv'
<1>1. JobsInv /\ CallsPaid /\ JobsPaid
  BY Parts DEF PaidInv
<1>2. PICK id \in DOMAIN job[w].batch, reply \in UpdateReplies :
         LET marked == RenewMarked(job[w].batch[id], job[w].now)
         IN /\ Update(id, marked, reply)
            /\ IF reply = "ok"
               THEN job' = [job EXCEPT ![w] =
                        [Resting EXCEPT
                            !.pc = "pay", !.now = job[w].now,
                            !.batch = [job[w].batch EXCEPT ![id] = marked]]]
               ELSE Advance(w, id, "mark", job[w].now)
  BY DEF RenewMark
<1>3. UNCHANGED paidTo /\ UNCHANGED call /\ LedgerGrows
  BY DEF RenewMark, paymentVars, apiVars, LedgerGrows
<1> DEFINE marked == RenewMarked(job[w].batch[id], job[w].now)
           j == [Resting EXCEPT
                    !.pc = "pay", !.now = job[w].now,
                    !.batch = [job[w].batch EXCEPT ![id] = marked]]
<1>4. Good(job[w].batch[id], marked) /\ SamePeriod(job[w].batch[id], marked)
  BY BatchFields, RenewMarkedGood, JobsKeepPeriods
<1>5. j.pc = "pay" /\ j.batch = [job[w].batch EXCEPT ![id] = marked]
  BY DEF Resting
<1>6. Update(id, marked, reply)
      /\ (job' = [job EXCEPT ![w] = j] \/ Advance(w, id, "mark", job[w].now))
  BY <1>2
<1> HIDE DEF marked, j
<1>7. PaidIn(paidTo, id, marked)
  BY <1>4, BatchPaid
<1>8. TablePaid'
  BY <1>3, <1>4, <1>6, <1>7, ItemWrittenPaid
<1>9. ASSUME job' = [job EXCEPT ![w] = j] PROVE JobsPaid'
  <2>1. \A i \in DOMAIN j.batch : PaidIn(paidTo', i, j.batch[i])
    BY <1>1, <1>3, <1>5, <1>7 DEF JobsPaid, JobPaid
  <2> QED
    BY <1>1, <1>3, <1>5, <1>9, <2>1, JobMovesPaid
<1>10. JobsPaid'
  BY <1>1, <1>3, <1>6, <1>9, AdvancePaid
<1>11. CallsPaid'
  BY <1>1, <1>3, CallsStayPaid
<1> QED
  BY <1>8, <1>10, <1>11 DEF PaidInv

\* The provider call of a renewal: a success puts the new end in the ledger.
LEMMA RenewPayPaid ==
    ASSUME IInv, PaidInv, NEW w \in Workers, RenewPay(w), UNCHANGED apiVars
    PROVE  PaidInv'
<1>1. TableInv /\ JobsInv /\ TablePaid /\ CallsPaid /\ JobsPaid
  BY Parts DEF PaidInv
<1>2. PICK id \in DOMAIN job[w].batch :
         /\ First(w, id)
         /\ \/ /\ Settling(w, "no_plan")
               /\ UNCHANGED paymentVars
            \/ \E result \in PaymentResults :
               /\ Planned(job[w].batch[id].type)
               /\ ProcessSubscriptionPayment(
                     id, RenewedEnd(job[w].batch[id], now), result)
               /\ Settling(w, result)
  BY DEF RenewPay
<1>3. UNCHANGED table /\ UNCHANGED call
  BY DEF RenewPay, storeVars, apiVars
<1>4. LedgerGrows
  BY <1>2 DEF ProcessSubscriptionPayment, paymentVars, LedgerGrows
<1>5. PICK result :
         /\ Settling(w, result)
         /\ result = "success" =>
              /\ Planned(job[w].batch[id].type)
              /\ <<id, RenewedEnd(job[w].batch[id], now)>> \in paidTo'
  BY <1>2 DEF ProcessSubscriptionPayment
<1>6. /\ job'[w].pc = "settle" /\ job'[w].batch = job[w].batch
      /\ job'[w].result = result
      /\ \A v \in Workers \ {w} : job'[v] = job[v]
  BY <1>1, <1>5 DEF JobsInv, Settling, Resting
<1>7. \A i \in DOMAIN job[w].batch : First(w, i)' => i = id
  <2>1. \A i \in DOMAIN job[w].batch : i \in Int
    BY BatchFields, <1>1 DEF TableInv, Ids
  <2> QED
    BY <1>2, <1>6, <2>1 DEF First
<1>8. \A i \in DOMAIN job[w].batch : PaidIn(paidTo', i, job[w].batch[i])
  BY <1>1, <1>4, StaysPaid DEF JobsPaid, JobPaid, LedgerGrows, SamePeriod
<1>9. ASSUME result = "success"
      PROVE  <<id, job[w].batch[id].endAt + Period(job[w].batch[id].type)>>
                \in paidTo'
  <2>1. job[w].batch[id].endAt # Null
    BY <1>5, <1>9, BatchFields DEF Sound, DatedWhenPlanned
  <2> QED
    BY <1>5, <1>9, <2>1 DEF RenewedEnd
<1>10. JobPaid(w)'
  BY <1>6, <1>7, <1>8, <1>9 DEF JobPaid
<1>11. JobsPaid'
  BY <1>1, <1>4, <1>6, <1>10, JobStaysPaid DEF JobsPaid
<1>12. CallsPaid'
  BY <1>1, <1>3, <1>4, CallsStayPaid
<1> QED
  BY <1>1, <1>3, <1>4, <1>11, <1>12, TableStaysPaid DEF PaidInv

\* The write after a renewal payment: the end moves only if that was paid.
LEMMA RenewSettlePaid ==
    ASSUME IInv, PaidInv, NEW w \in Workers, RenewSettle(w), UNCHANGED apiVars
    PROVE  PaidInv'
<1>1. JobsInv /\ now \in Int /\ CallsPaid /\ JobsPaid
  BY Parts DEF PaidInv
<1>2. PICK id \in DOMAIN job[w].batch, t \in job[w].at .. now,
           reply \in UpdateReplies :
         /\ First(w, id)
         /\ Update(id, RenewSettled(job[w].batch[id], job[w].result, t), reply)
         /\ Advance(w, id, "mark",
                    IF job[w].result = "no_plan" THEN job[w].now ELSE t)
  BY DEF RenewSettle
<1>3. UNCHANGED paidTo /\ UNCHANGED call /\ LedgerGrows /\ job[w].pc = "settle"
  BY DEF RenewSettle, paymentVars, apiVars, LedgerGrows
<1> DEFINE row == job[w].batch[id]
           new == RenewSettled(row, job[w].result, t)
<1>4. t \in Int /\ row \in Row /\ Sound(row)
  BY <1>1, BatchFields
<1>5. job[w].result # "no_plan" => Planned(row.type)
  BY <1>1, <1>2, <1>3 DEF JobsInv, JobInv, JobReady, First
<1>6. Good(row, new)
  BY <1>4, <1>5, RenewSettledGood
<1>7. PaidIn(paidTo, id, new)
  <2>1. CASE SamePeriod(row, new)
    BY <2>1, BatchPaid
  <2>2. CASE /\ job[w].result = "success"
             /\ new.type = row.type
             /\ new.endAt = row.endAt + Period(row.type)
    <3>1. <<id, row.endAt + Period(row.type)>> \in paidTo
      BY <1>1, <1>2, <1>3, <2>2 DEF JobsPaid, JobPaid
    <3> QED
      BY <2>2, <3>1 DEF PaidIn
  <2> HIDE DEF row
  <2> QED
    BY <1>4, <1>5, <2>1, <2>2, RenewSettledPeriod
<1>8. TablePaid'
  BY <1>2, <1>3, <1>6, <1>7, ItemWrittenPaid
<1>9. JobsPaid'
  BY <1>1, <1>2, <1>3, AdvancePaid
<1>10. CallsPaid'
  BY <1>1, <1>3, CallsStayPaid
<1> QED
  BY <1>8, <1>9, <1>10 DEF PaidInv

\* One item of the cleanup or of the expiry.
LEMMA SweepPaid ==
    ASSUME IInv, PaidInv, NEW w \in Workers,
           CleanupItem(w) \/ ExpireItem(w), UNCHANGED apiVars
    PROVE  PaidInv'
<1>1. JobsInv /\ CallsPaid /\ JobsPaid
  BY Parts DEF PaidInv
<1>2. PICK id \in DOMAIN job[w].batch, reply \in UpdateReplies :
         \E new, pc :
            /\ new \in {CleanupRow(job[w].batch[id], job[w].now),
                       ExpireRow(job[w].batch[id], job[w].now)}
            /\ pc # "settle"
            /\ Update(id, new, reply)
            /\ Advance(w, id, pc, job[w].now)
  BY DEF CleanupItem, ExpireItem
<1>3. PICK new, pc :
         /\ new \in {CleanupRow(job[w].batch[id], job[w].now),
                    ExpireRow(job[w].batch[id], job[w].now)}
         /\ pc # "settle"
         /\ Update(id, new, reply)
         /\ Advance(w, id, pc, job[w].now)
  BY <1>2
<1>4. UNCHANGED paidTo /\ UNCHANGED call /\ LedgerGrows
  BY DEF CleanupItem, ExpireItem, paymentVars, apiVars, LedgerGrows
<1>5. Good(job[w].batch[id], new)
  BY <1>3, BatchFields, CleanupRowGood, ExpireRowGood
<1>6. SamePeriod(job[w].batch[id], new)
  BY <1>3, BatchFields, JobsKeepPeriods
<1>7. TablePaid'
  BY <1>3, <1>4, <1>5, <1>6, BatchPaid, ItemWrittenPaid
<1>8. JobsPaid'
  BY <1>1, <1>3, <1>4, AdvancePaid
<1>9. CallsPaid'
  BY <1>1, <1>4, CallsStayPaid
<1> QED
  BY <1>7, <1>8, <1>9 DEF PaidInv

\* The death of a worker.
LEMMA JobCrashPaid ==
    ASSUME IInv, PaidInv, NEW w \in Workers, JobCrash(w), UNCHANGED apiVars
    PROVE  PaidInv'
<1>1. JobsInv /\ TablePaid /\ CallsPaid /\ JobsPaid
  BY Parts DEF PaidInv
<1>2. UNCHANGED table /\ UNCHANGED call /\ LedgerGrows
  BY DEF JobCrash, storeVars, paymentVars, apiVars, LedgerGrows
<1>3. Resting.pc # "settle" /\ DOMAIN Resting.batch = {}
  BY DEF Resting, Snapshot
<1>4. JobsPaid'
  BY <1>1, <1>2, <1>3, JobMovesPaid DEF JobCrash
<1> QED
  BY <1>1, <1>2, <1>4, TableStaysPaid, CallsStayPaid DEF PaidInv

-----------------------------------------------------------------------------
(* The system.                                                             *)

\* Time passing, or nothing at all, disturbs no period.
LEMMA IdlePaid ==
    ASSUME PaidInv, ClockStep \/ UNCHANGED vars
    PROVE  PaidInv'
<1>1. UNCHANGED table /\ UNCHANGED call /\ UNCHANGED job /\ LedgerGrows
  BY DEF ClockStep, Tick, vars, paymentVars, apiVars, jobVars, LedgerGrows
<1> QED
  BY <1>1, TableStaysPaid, CallsStayPaid, JobsStayPaid DEF PaidInv

\* Every step of the system keeps every period paid.
LEMMA NextPaid ==
    ASSUME IInv, PaidInv, [Next]_vars
    PROVE  PaidInv'
<1>1. ASSUME NEW c \in Clients, ApiStart(c) PROVE PaidInv'
  BY <1>1, CallStartPaid DEF ApiStart
<1>2. ASSUME NEW c \in Clients, ApiStep(c) PROVE PaidInv'
  BY <1>2, CreateWritesPaid, CreatePayPaid, CreateSettlePaid, SavePaid
  DEF ApiStep, CallStep
<1>3. CASE ApiFailure
  BY <1>3, ApiCrashPaid DEF ApiFailure
<1>4. ASSUME NEW w \in Workers, WorkStart(w) PROVE PaidInv'
  BY <1>4, JobStartPaid DEF WorkStart
<1>5. ASSUME NEW w \in Workers, WorkStep(w) PROVE PaidInv'
  BY <1>5, RenewMarkPaid, RenewPayPaid, RenewSettlePaid, SweepPaid
  DEF WorkStep, JobStep
<1>6. ASSUME NEW w \in Workers, WorkFailure(w) PROVE PaidInv'
  BY <1>6, JobCrashPaid DEF WorkFailure
<1>7. CASE ClockStep \/ UNCHANGED vars
  BY <1>7, IdlePaid
<1> QED
  BY <1>1, <1>2, <1>3, <1>4, <1>5, <1>6, <1>7 DEF Next

\* The periods of the rows the system starts from are those they were
\* created with.
LEMMA InitPaid ==
    ASSUME Init
    PROVE  PaidInv
<1>1. table = InitialRows
      /\ call = [c \in Clients |-> Idle("none")]
      /\ job = [w \in Workers |-> Resting]
  BY DEF Init, StoreInit, PaymentInit, ApiInit, JobsInit
<1>2. TablePaid
  BY <1>1, InitialAssumption DEF TablePaid, PaidIn, Ids
<1>3. CallsPaid
  BY <1>1 DEF CallsPaid, CallPaid, Idle
<1>4. JobsPaid
  BY <1>1 DEF JobsPaid, JobPaid, Resting, Snapshot
<1> QED
  BY <1>2, <1>3, <1>4 DEF PaidInv

\* No subscription is extended for nothing: whatever the interleavings, the
\* crashes and the failed statements, the end of every stored period was
\* bought at creation or paid for.
THEOREM PeriodsStayPaid == Spec => []PeriodsPaid
<1>1. Init => PaidInv
  BY InitPaid
<1>2. IInv /\ PaidInv /\ [Next]_vars => PaidInv'
  BY NextPaid
<1>3. PaidInv => PeriodsPaid
  BY DEF PaidInv, TablePaid, PaidIn, PeriodsPaid, PeriodPaid
<1> QED
  BY <1>1, <1>2, <1>3, Invariance, PTL DEF Spec
=============================================================================
