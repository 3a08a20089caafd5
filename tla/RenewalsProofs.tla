---------------------------- MODULE RenewalsProofs ----------------------------
(***************************************************************************)
(* No renewal is paid for twice unless two renewal workers are at one row: *)
(* NeverPaidTwice for every number of rows, callers and workers,           *)
(* interleaved at every statement, with statements that fail, applied or   *)
(* not, and processes that die after the charge and before the write.      *)
(*                                                                         *)
(* The argument is the one behind the Processing mark: a row that is due   *)
(* has no later period paid, because nobody but the settling of a success  *)
(* makes a row active and renewing, and that moves its end as far as the   *)
(* payment went.                                                           *)
(***************************************************************************)
EXTENDS SubscriptionsProofs

\* Callers cancel and delete; plans have a length.  A PATCH or a callback may
\* make a row due again after a charge whose outcome was lost, and
\* CreateSubscription charges the same period again.
OnlyCancels ==
    /\ Ops \subseteq {"cancel", "delete"}
    /\ \A type \in Types : Planned(type) => Lasting(type)

\* What RunAutoRenewalBatch may list, when its date comes.
Renews(row) == row.status = Active /\ row.autoRenew

\* No period of id later than end has been paid.
PaidUpTo(id, end) == \A p \in paidTo : p[1] = id => p[2] <= end

Covered(id, row) == row.endAt # Null => PaidUpTo(id, row.endAt)

\* A renewal holds rows with no later period paid, but for the one it has just
\* been paid itself; the row it is at is out of the due ones.
RenewalReady(j) ==
    /\ j.pc \in RenewalPcs =>
          \A i \in DOMAIN j.batch :
             IF j.pc = "settle" /\ j.result = "success" /\ Foremost(j, i)
             THEN PaidUpTo(i, j.batch[i].endAt + Period(j.batch[i].type))
             ELSE Covered(i, j.batch[i])
    /\ j.pc \in {"pay", "settle"} =>
          \A i \in DOMAIN j.batch :
             Foremost(j, i) =>
                j.batch[i].status # Active /\ ~Renews(table[i])

CallsOnlySwitchOff ==
    \A c \in Clients :
        /\ call[c].pc \in {"idle", "save"}
        /\ call[c].pc = "save" => call[c].req.op \in {"cancel", "delete"}

DueRowsCovered == \A i \in Ids : Renews(table[i]) => Covered(i, table[i])

RenewersRenew == \A w \in Workers : job[w].pc \in RenewalPcs => w \in Renewers

\* The inductive invariant, on top of IInv.
RenewalInv ==
    /\ CallsOnlySwitchOff
    /\ DueRowsCovered
    /\ RenewersRenew
    /\ \A w \in Workers : RenewalReady(job[w])

\* What is proved of every step.
RenewalStep == RenewalInv' /\ outstanding \subseteq outstanding'

-----------------------------------------------------------------------------
(* What keeps the parts of the invariant.                                  *)

\* A write that makes no row due keeps the due rows covered.
LEMMA DueRowsKept ==
    ASSUME DueRowsCovered, paidTo' = paidTo, NEW id \in Ids, NEW row,
           Puts(id, row), Renews(row) => Covered(id, row)
    PROVE  DueRowsCovered'
BY DEF DueRowsCovered, Puts, Covered, PaidUpTo, Renews

\* A worker that does not move keeps what it needs, if none of its rows is paid
\* for or becomes due.
LEMMA ReadyKept ==
    ASSUME IInv, RenewalInv, NEW w \in Workers, job'[w] = job[w],
           \A i \in JobRows(w) :
              /\ \A p \in paidTo' \ paidTo : p[1] # i
              /\ Renews(table'[i]) => Renews(table[i])
    PROVE  RenewalReady(job[w])'
BY DEF RenewalInv, RenewalReady, Foremost, Covered, PaidUpTo, JobRows

\* A write of a call.
LEMMA CallWrites ==
    ASSUME IInv, RenewalInv, NEW id \in Ids, NEW row, Puts(id, row),
           ~Renews(row), UNCHANGED <<paymentVars, job>>, CallsOnlySwitchOff'
    PROVE  RenewalStep
<1>1. UNCHANGED <<outstanding, paidTo>>
  BY DEF paymentVars
<1>2. DueRowsCovered'
  BY <1>1, DueRowsKept DEF RenewalInv
<1>3. ASSUME NEW w \in Workers PROVE RenewalReady(job[w])'
  <2>1. \A i \in JobRows(w) : Renews(table'[i]) => Renews(table[i])
    BY HeldRowsExist DEF Puts
  <2> QED
    BY <1>1, <2>1, ReadyKept
<1>4. \A w \in Workers : RenewalReady(job[w])'
  BY <1>3
<1> QED
  BY <1>1, <1>2, <1>4 DEF RenewalStep, RenewalInv, RenewersRenew

\* A step that neither writes nor pays, and moves no worker.
LEMMA NoWrites ==
    ASSUME IInv, RenewalInv, UNCHANGED <<table, outstanding, paidTo, job>>,
           CallsOnlySwitchOff'
    PROVE  RenewalStep
<1>1. \A w \in Workers : RenewalReady(job[w])'
  BY ReadyKept
<1>2. DueRowsCovered'
  BY DEF RenewalInv, DueRowsCovered, Ids, Covered, PaidUpTo
<1> QED
  BY <1>1, <1>2 DEF RenewalStep, RenewalInv, RenewersRenew

\* A write of a worker, which moves on.
LEMMA JobWrites ==
    ASSUME RenewersApart, IInv, RenewalInv, NEW w \in Workers,
           NEW id \in JobRows(w), NEW row, Puts(id, row),
           Renews(row) => job[w].pc \in RenewalPcs /\ Covered(id, row),
           UNCHANGED <<paymentVars, call>>,
           \A v \in Workers \ {w} : job'[v] = job[v],
           job'[w].pc \in RenewalPcs => w \in Renewers,
           RenewalReady(job[w])'
    PROVE  RenewalStep
<1>1. UNCHANGED <<outstanding, paidTo>>
  BY DEF paymentVars
<1>2. DueRowsCovered'
  BY <1>1, HeldRowsExist, DueRowsKept DEF RenewalInv
<1>3. ASSUME NEW v \in Workers \ {w} PROVE RenewalReady(job[v])'
  <2>1. CASE job[v].pc \notin RenewalPcs
    BY <2>1 DEF RenewalReady, RenewalPcs
  <2>2. CASE job[v].pc \in RenewalPcs
    <3>1. job[w].pc \in RenewalPcs => id \notin JobRows(v)
      BY <2>2 DEF RenewersApart, RenewalInv, RenewersRenew
    <3>2. \A i \in JobRows(v) : Renews(table'[i]) => Renews(table[i])
      BY <3>1, HeldRowsExist DEF Puts
    <3> QED
      BY <1>1, <3>2, ReadyKept
  <2> QED
    BY <2>1, <2>2
<1>4. \A v \in Workers : RenewalReady(job[v])'
  BY <1>3
<1>5. RenewersRenew'
  BY DEF RenewalInv, RenewersRenew
<1>6. CallsOnlySwitchOff'
  BY DEF RenewalInv, CallsOnlySwitchOff
<1> QED
  BY <1>1, <1>2, <1>4, <1>5, <1>6 DEF RenewalStep, RenewalInv

-----------------------------------------------------------------------------
(* The steps of the API.                                                   *)

LEMMA AnswerSwitchesOff ==
    ASSUME CallsInv, RenewalInv, NEW c \in Clients, NEW reply, Answer(c, reply)
    PROVE  CallsOnlySwitchOff'
BY DEF CallsInv, Answer, Idle, RenewalInv, CallsOnlySwitchOff

\* A call starts: a cancel or a delete.
LEMMA CallStartRenewals ==
    ASSUME OnlyCancels, IInv, RenewalInv, NEW c \in Clients, CallStart(c),
           UNCHANGED jobVars
    PROVE  RenewalStep
<1>1. CallsInv
  BY Parts
<1>2. ~CreateSubscription(c)
  BY DEF CreateSubscription, OnlyCancels
<1>3. PICK req : Load(c, req)
  BY <1>2 DEF CallStart, UpdateSubscription, DeleteSubscription,
              CancelSubscription, PaymentCallback
<1>4. req.op \in {"cancel", "delete"}
  BY <1>3 DEF Load, OnlyCancels
<1>5. ASSUME call' = [call EXCEPT ![c] =
                 [Idle("none") EXCEPT !.pc = "save", !.req = req, !.id = req.id,
                                      !.row = table[req.id], !.at = now]]
      PROVE  CallsOnlySwitchOff'
  BY <1>1, <1>4, <1>5 DEF CallsInv, Idle, RenewalInv, CallsOnlySwitchOff
<1>6. CallsOnlySwitchOff'
  BY <1>1, <1>3, <1>5, AnswerSwitchesOff DEF Load
<1> QED
  BY <1>3, <1>6, NoWrites DEF Load, storeVars, paymentVars, jobVars

\* Cancel and delete write a row that does not renew, however old the copy.
LEMMA SaveRenewals ==
    ASSUME IInv, RenewalInv, NEW c \in Clients, Save(c), UNCHANGED jobVars
    PROVE  RenewalStep
<1>1. TableInv /\ CallsInv /\ now \in Int
  BY Parts
<1> DEFINE req == call[c].req
           id  == call[c].id
           old == call[c].row
<1>2. req.op \in {"cancel", "delete"}
  BY DEF Save, RenewalInv, CallsOnlySwitchOff
<1>3. PICK t \in call[c].at .. now, reply \in UpdateReplies :
         /\ Update(id, Applied(req, old, t), reply)
         /\ Answer(c, reply)
         /\ UNCHANGED paymentVars
  BY <1>2 DEF Save
<1>4. /\ id \in Ids /\ old \in Row /\ Sound(old)
      /\ SameIdentity(id, old) /\ call[c].at \in Int
      /\ req \in Requests /\ req.op # "create" /\ Rejection(req) = "none"
  BY <1>1 DEF CallsInv, CallInv, CallOK, CallReady, Save
<1> DEFINE row == Applied(req, old, t)
<1>5. row.autoRenew = FALSE
  <2>1. row = CancelledRow(old, t) \/ row = DeletedRow(old, t)
    BY <1>2 DEF Applied
  <2>2. CancelledRow(old, t).autoRenew = FALSE
    BY <1>4 DEF CancelledRow, Row
  <2>3. DeletedRow(old, t).autoRenew = FALSE
    BY <1>4 DEF DeletedRow, Off, Row
  <2> QED
    BY <2>1, <2>2, <2>3
<1>6. row \in Row /\ SameIdentity(id, row)
  BY <1>1, <1>4, AppliedGood DEF Good, SameIdentity
<1> HIDE DEF row
<1>7. Puts(id, row) /\ ~Renews(row)
  BY <1>1, <1>3, <1>4, <1>5, <1>6, UpdatePuts DEF row, Renews
<1>8. CallsOnlySwitchOff'
  BY <1>1, <1>3, AnswerSwitchesOff
<1> QED
  BY <1>3, <1>4, <1>7, <1>8, CallWrites DEF jobVars

\* No call is anywhere else.
LEMMA CallStepRenewals ==
    ASSUME IInv, RenewalInv, NEW c \in Clients, CallStep(c), UNCHANGED jobVars
    PROVE  RenewalStep
<1>1. call[c].pc \in {"idle", "save"}
  BY DEF RenewalInv, CallsOnlySwitchOff
<1> QED
  BY <1>1, SaveRenewals
  DEF CallStep, CreateInsert, CreateOverwrite, CreatePay, CreateSettle

LEMMA ApiCrashRenewals ==
    ASSUME IInv, RenewalInv, ApiCrash, UNCHANGED jobVars
    PROVE  RenewalStep
<1>1. CallsOnlySwitchOff'
  BY DEF ApiCrash, Idle, CallsOnlySwitchOff
<1> QED
  BY <1>1, NoWrites DEF ApiCrash, storeVars, paymentVars, jobVars

-----------------------------------------------------------------------------
(* The steps of the jobs.                                                  *)

\* A step of a worker that reads only.
LEMMA JobReads ==
    ASSUME IInv, RenewalInv, NEW w \in Workers,
           UNCHANGED <<table, outstanding, paidTo, call>>,
           \A v \in Workers \ {w} : job'[v] = job[v],
           job'[w].pc \in RenewalPcs => w \in Renewers,
           RenewalReady(job[w])'
    PROVE  RenewalStep
<1>1. \A v \in Workers : RenewalReady(job[v])'
  BY ReadyKept
<1>2. DueRowsCovered' /\ CallsOnlySwitchOff'
  BY DEF RenewalInv, DueRowsCovered, Ids, Covered, PaidUpTo, CallsOnlySwitchOff
<1>3. RenewersRenew'
  BY DEF RenewalInv, RenewersRenew
<1> QED
  BY <1>1, <1>2, <1>3 DEF RenewalStep, RenewalInv

\* Batches start with the rows as they are.
LEMMA JobStartRenewals ==
    ASSUME IInv, RenewalInv, NEW w \in Workers, JobStart(w), UNCHANGED apiVars
    PROVE  RenewalStep
<1>1. JobsInv
  BY Parts
<1>2. PICK pc, ids :
         /\ Listed(w, pc, ids)
         /\ \/ pc \in {"cleanup", "expire"}
            \/ /\ pc = "mark" /\ w \in Renewers
               /\ \A i \in ids : i \in Ids /\ Renews(table[i])
  BY DEF JobStart, RenewList, CleanupList, ExpireList, ListDueAutoRenew, Renews
<1>3. UNCHANGED <<table, outstanding, paidTo, call>>
  BY <1>2 DEF Listed, storeVars, paymentVars, apiVars
<1>4. /\ job'[w].pc = pc /\ job'[w].batch = Snapshot(ids)
      /\ \A v \in Workers \ {w} : job'[v] = job[v]
  BY <1>1, <1>2 DEF JobsInv, Listed, Resting
<1>5. RenewalReady(job[w])'
  BY <1>2, <1>3, <1>4
  DEF RenewalReady, RenewalPcs, Snapshot, RenewalInv, DueRowsCovered, Covered,
      PaidUpTo
<1> QED
  BY <1>2, <1>3, <1>4, <1>5, JobReads DEF RenewalPcs

\* The first item is the only one at the head.
LEMMA FirstIsForemost ==
    ASSUME IInv, NEW w \in Workers, NEW id, First(w, id)
    PROVE  /\ id \in DOMAIN job[w].batch
           /\ \A i \in DOMAIN job[w].batch : Foremost(job[w], i) <=> i = id
<1>1. \A i \in DOMAIN job[w].batch : i \in Int
  BY BatchFields, Parts DEF TableInv, Ids
<1> QED
  BY <1>1 DEF First, Foremost

\* A batch that goes on holds the rest of what it held.
LEMMA AdvanceReady ==
    ASSUME IInv, RenewalInv, NEW w \in Workers, NEW id, First(w, id),
           NEW pc \in {"mark", "cleanup", "expire"}, NEW t,
           pc = "mark" => job[w].pc \in RenewalPcs,
           Advance(w, id, pc, t), paidTo' = paidTo
    PROVE  /\ \A v \in Workers \ {w} : job'[v] = job[v]
           /\ job'[w].pc \in RenewalPcs => w \in Renewers
           /\ RenewalReady(job[w])'
<1> DEFINE rest == DOMAIN job[w].batch \ {id}
<1>1. DOMAIN job = Workers
  BY Parts DEF JobsInv
<1>2. \A v \in Workers \ {w} : job'[v] = job[v]
  BY <1>1 DEF Advance
<1>3. CASE rest = {}
  <2>1. job'[w] = Resting
    BY <1>1, <1>3 DEF Advance
  <2> QED
    BY <1>2, <2>1 DEF RenewalReady, RenewalPcs, Resting
<1>4. CASE rest # {}
  <2>1. /\ job'[w].pc = pc
        /\ job'[w].batch = [i \in rest |-> job[w].batch[i]]
    BY <1>1, <1>4 DEF Advance, Resting
  <2>2. CASE pc # "mark"
    BY <1>2, <2>1, <2>2 DEF RenewalReady, RenewalPcs
  <2>3. CASE pc = "mark"
    <3>1. w \in Renewers
      BY <2>3 DEF RenewalInv, RenewersRenew
    <3>2. \A i \in rest : Covered(i, job[w].batch[i])
      BY <2>3, FirstIsForemost DEF RenewalInv, RenewalReady
    <3>3. RenewalReady(job[w])'
      BY <2>1, <2>3, <3>2 DEF RenewalReady, Covered, PaidUpTo
    <3> QED
      BY <1>2, <3>1, <3>3
  <2> QED
    BY <2>2, <2>3
<1> QED
  BY <1>3, <1>4

\* Writing a sound rewriting of a copy puts it into the table.
LEMMA ItemPut ==
    ASSUME IInv, NEW w \in Workers, NEW id \in DOMAIN job[w].batch, NEW row,
           Good(job[w].batch[id], row), NEW reply, Update(id, row, reply)
    PROVE  Puts(id, row) /\ (reply = "ok" => table'[id] = row) /\ id \in Ids
<1>1. TableInv /\ id \in Ids /\ SameIdentity(id, job[w].batch[id])
  BY Parts, BatchFields
<1>2. row \in Row /\ SameIdentity(id, row)
  BY <1>1 DEF Good, SameIdentity
<1> QED
  BY <1>1, <1>2, UpdatePuts

\* An item that is written and done with.
LEMMA ItemRenewals ==
    ASSUME RenewersApart, IInv, RenewalInv, NEW w \in Workers, NEW id,
           First(w, id), NEW row, Good(job[w].batch[id], row),
           Renews(row) => job[w].pc \in RenewalPcs /\ Covered(id, row),
           NEW reply, Update(id, row, reply),
           NEW pc \in {"mark", "cleanup", "expire"}, NEW t,
           pc = "mark" => job[w].pc \in RenewalPcs,
           Advance(w, id, pc, t), UNCHANGED <<paymentVars, call>>
    PROVE  RenewalStep
<1>1. id \in DOMAIN job[w].batch
  BY DEF First
<1>2. Puts(id, row) /\ id \in Ids
  BY <1>1, ItemPut
<1>3. /\ \A v \in Workers \ {w} : job'[v] = job[v]
      /\ job'[w].pc \in RenewalPcs => w \in Renewers
      /\ RenewalReady(job[w])'
  BY AdvanceReady DEF paymentVars
<1> QED
  BY <1>1, <1>2, <1>3, JobWrites DEF JobRows

\* The mark takes the row out of the due ones before the provider is asked.
LEMMA RenewMarkRenewals ==
    ASSUME RenewersApart, IInv, RenewalInv, NEW w \in Workers, RenewMark(w),
           UNCHANGED apiVars
    PROVE  RenewalStep
<1>1. JobsInv /\ job[w].pc = "mark" /\ w \in Renewers
  BY Parts DEF RenewMark, RenewalInv, RenewersRenew, RenewalPcs
<1>2. PICK id \in DOMAIN job[w].batch, reply \in UpdateReplies :
         LET marked == RenewMarked(job[w].batch[id], job[w].now)
         IN /\ First(w, id)
            /\ Update(id, marked, reply)
            /\ IF reply = "ok"
               THEN job' = [job EXCEPT ![w] =
                        [Resting EXCEPT
                            !.pc = "pay", !.now = job[w].now,
                            !.batch = [job[w].batch EXCEPT ![id] = marked]]]
               ELSE Advance(w, id, "mark", job[w].now)
  BY DEF RenewMark
<1> DEFINE row == RenewMarked(job[w].batch[id], job[w].now)
<1>3. UNCHANGED <<paymentVars, call>>
  BY DEF RenewMark, apiVars
<1>4. Good(job[w].batch[id], row)
  BY BatchFields, RenewMarkedGood
<1>5. /\ row.status # Active /\ ~Renews(row)
      /\ row.endAt = job[w].batch[id].endAt
  BY BatchFields DEF RenewMarked, Row, Renews, Processing, Active
<1> HIDE DEF row
<1>6. First(w, id) /\ Update(id, row, reply)
  BY <1>2 DEF row
<1>7. CASE Advance(w, id, "mark", job[w].now)
  BY <1>1, <1>3, <1>4, <1>5, <1>6, <1>7, ItemRenewals DEF RenewalPcs
<1>8. CASE /\ reply = "ok"
           /\ job' = [job EXCEPT ![w] =
                  [Resting EXCEPT
                      !.pc = "pay", !.now = job[w].now,
                      !.batch = [job[w].batch EXCEPT ![id] = row]]]
  <2>1. Puts(id, row) /\ table'[id] = row /\ id \in Ids
    BY <1>4, <1>6, <1>8, ItemPut
  <2>2. /\ job'[w].pc = "pay"
        /\ job'[w].batch = [job[w].batch EXCEPT ![id] = row]
        /\ \A v \in Workers \ {w} : job'[v] = job[v]
    BY <1>1, <1>8 DEF JobsInv, Resting
  <2>3. /\ DOMAIN job'[w].batch = DOMAIN job[w].batch
        /\ \A i \in DOMAIN job[w].batch :
              /\ job'[w].batch[i] = IF i = id THEN row ELSE job[w].batch[i]
              /\ Covered(i, job[w].batch[i])
              /\ Foremost(job[w], i) <=> i = id
    BY <1>1, <1>6, <2>2, FirstIsForemost DEF RenewalInv, RenewalReady, RenewalPcs
  <2>4. \A i \in DOMAIN job[w].batch : Covered(i, job[w].batch[i])'
    BY <1>3, <1>5, <2>3 DEF Covered, PaidUpTo, paymentVars
  <2>5. \A i \in DOMAIN job'[w].batch : Foremost(job[w], i)' => i = id
    BY <2>3 DEF Foremost
  <2>6. RenewalReady(job[w])'
    BY <1>5, <2>1, <2>2, <2>3, <2>4, <2>5 DEF RenewalReady
  <2> QED
    BY <1>1, <1>3, <1>5, <2>1, <2>2, <2>6, JobWrites DEF JobRows
<1> QED
  BY <1>2, <1>7, <1>8 DEF row

\* A success adds the one period that follows the end of the row.
LEMMA RenewPayRenewals ==
    ASSUME OnlyCancels, RenewersApart, IInv, RenewalInv, NEW w \in Workers, RenewPay(w),
           UNCHANGED apiVars
    PROVE  RenewalStep
<1>1. JobsInv /\ LedgerInv /\ now \in Int
      /\ job[w].pc = "pay" /\ w \in Renewers
  BY Parts DEF RenewPay, RenewalInv, RenewersRenew, RenewalPcs
<1>2. UNCHANGED <<table, call>>
  BY DEF RenewPay, storeVars, apiVars
<1>3. PICK id \in DOMAIN job[w].batch, result \in PaymentResults \cup {"no_plan"} :
         /\ First(w, id)
         /\ Settling(w, result)
         /\ \/ result = "no_plan" /\ UNCHANGED paymentVars
            \/ /\ Planned(job[w].batch[id].type)
               /\ ProcessSubscriptionPayment(
                     id, RenewedEnd(job[w].batch[id], now), result)
  BY DEF RenewPay
<1>4. /\ job'[w].pc = "settle" /\ job'[w].batch = job[w].batch
      /\ job'[w].result = result
      /\ \A v \in Workers \ {w} : job'[v] = job[v]
  BY <1>1, <1>3 DEF JobsInv, Settling, Resting
<1>5. \A i \in DOMAIN job[w].batch :
         /\ Covered(i, job[w].batch[i])
         /\ Foremost(job[w], i) <=> i = id
  BY <1>1, <1>3, FirstIsForemost DEF RenewalInv, RenewalReady, RenewalPcs
<1>6. job[w].batch[id].status # Active /\ ~Renews(table[id])
  BY <1>1, <1>5 DEF RenewalInv, RenewalReady
<1>7. CASE UNCHANGED paidTo /\ outstanding \subseteq outstanding' /\ result # "success"
  <2>1. RenewalReady(job[w])'
    BY <1>2, <1>4, <1>5, <1>6, <1>7 DEF RenewalReady, Foremost, Covered, PaidUpTo
  <2>2. \A v \in Workers : RenewalReady(job[v])'
    BY <1>2, <1>4, <1>7, <2>1, ReadyKept
  <2>3. DueRowsCovered' /\ CallsOnlySwitchOff' /\ RenewersRenew'
    BY <1>1, <1>2, <1>4, <1>7
    DEF RenewalInv, DueRowsCovered, Ids, Covered, PaidUpTo, CallsOnlySwitchOff,
        RenewersRenew
  <2> QED
    BY <1>7, <2>2, <2>3 DEF RenewalStep, RenewalInv
<1>8. CASE /\ Planned(job[w].batch[id].type)
           /\ result = "success"
           /\ paidTo' = paidTo \cup {<<id, RenewedEnd(job[w].batch[id], now)>>}
           /\ UNCHANGED outstanding
  <2> DEFINE row == job[w].batch[id]
             end == row.endAt + Period(row.type)
  <2>1. row \in Row /\ Sound(row) /\ row.type \in Types
    BY BatchFields, RowFields
  <2>2. row.endAt # Null /\ row.endAt \in Int
    BY <1>8, <2>1, RowFields DEF Sound, DatedWhenPlanned, MaybeTime
  <2>3. Period(row.type) \in Int /\ Period(row.type) > 0
    BY <1>8, <2>1, PeriodIsInt, PeriodIsPositive DEF OnlyCancels
  <2>4. end \in Int /\ end > row.endAt /\ RenewedEnd(row, now) = end
    BY <2>2, <2>3 DEF RenewedEnd
  <2>5. \A p \in paidTo : p[2] \in Int
    BY <1>1 DEF LedgerInv
  <2>6. PaidUpTo(id, row.endAt)
    BY <1>5, <2>2 DEF Covered
  <2>7. paidTo' = paidTo \cup {<<id, end>>}
    BY <1>8, <2>4
  <2> HIDE DEF end
  <2>8. ASSUME NEW p \in paidTo', p[1] = id
        PROVE  p[2] <= end
    <3>1. CASE p \in paidTo
      <4>1. p[2] \in Int /\ p[2] <= row.endAt
        BY <2>5, <2>6, <2>8, <3>1 DEF PaidUpTo
      <4> QED
        BY <2>2, <2>4, <4>1
    <3>2. CASE p = <<id, end>>
      BY <2>4, <3>2
    <3> QED
      BY <2>7, <2>8, <3>1, <3>2
  <2>9. \A i, e : i # id => (PaidUpTo(i, e) => PaidUpTo(i, e)')
    BY <2>7 DEF PaidUpTo
  <2>10. RenewalReady(job[w])'
    <3>1. PaidUpTo(id, job[w].batch[id].endAt + Period(job[w].batch[id].type))'
      BY <1>4, <2>8 DEF PaidUpTo, end
    <3> QED
      BY <1>2, <1>4, <1>5, <1>6, <1>8, <2>9, <3>1
      DEF RenewalReady, Foremost, Covered
  <2>11. ASSUME NEW v \in Workers \ {w} PROVE RenewalReady(job[v])'
    <3>1. CASE job[v].pc \notin RenewalPcs
      BY <1>4, <3>1 DEF RenewalReady, RenewalPcs
    <3>2. CASE job[v].pc \in RenewalPcs
      <4>1. id \notin JobRows(v)
        BY <1>1, <3>2 DEF RenewersApart, RenewalInv, RenewersRenew, JobRows
      <4> QED
        BY <1>2, <1>4, <2>7, <4>1, ReadyKept
    <3> QED
      BY <3>1, <3>2
  <2>12. DueRowsCovered'
    BY <1>2, <1>6, <2>9 DEF RenewalInv, DueRowsCovered, Ids, Covered
  <2>13. CallsOnlySwitchOff' /\ RenewersRenew'
    BY <1>1, <1>2, <1>4 DEF RenewalInv, CallsOnlySwitchOff, RenewersRenew
  <2>14. \A v \in Workers : RenewalReady(job[v])'
    BY <2>10, <2>11
  <2> QED
    BY <1>8, <2>12, <2>13, <2>14 DEF RenewalStep, RenewalInv
<1> QED
  BY <1>3, <1>7, <1>8 DEF ProcessSubscriptionPayment, paymentVars

\* After the attempt only a success makes the row active again, until the end
\* that was paid.
LEMMA OnlySuccessActivates ==
    ASSUME NEW row \in Row, row.status # Active, NEW result, NEW t
    PROVE  RenewSettled(row, result, t).status = Active =>
              /\ result = "success"
              /\ RenewSettled(row, result, t).endAt = RenewedEnd(row, t)
<1>1. CASE result = "no_plan"
  <2>1. [Off(row) EXCEPT !.updatedAt = t].status = Inactive
    BY DEF Off, Row
  <2> QED
    BY <1>1, <2>1 DEF RenewSettled, Inactive, Active
<1>2. CASE result # "no_plan"
  <2> DEFINE tried == RenewAttempted(row, result, t)
             new   == [AgeChecked(tried) EXCEPT !.updatedAt = t]
  <2>1. /\ DOMAIN tried = DOMAIN row
        /\ result # "success" => tried.status # Active
        /\ result = "success" => tried.endAt = RenewedEnd(row, t)
    BY DEF RenewAttempted, Extended, RetryLater, Row, Active, PendingPayment,
           Processing
  <2> HIDE DEF tried
  <2>2. /\ new.status = Active => tried.status = Active
        /\ new.endAt = tried.endAt
    BY <2>1 DEF AgeChecked, Off, Row, Active, Inactive
  <2>3. RenewSettled(row, result, t) = new
    BY <1>2 DEF RenewSettled, tried
  <2> QED
    BY <2>1, <2>2, <2>3
<1> QED
  BY <1>1, <1>2

\* An active row that is written after an attempt ends no earlier than what
\* was paid.
LEMMA ActivatesCovered ==
    ASSUME IInv, RenewalInv, NEW w \in Workers, job[w].pc = "settle",
           NEW id, First(w, id), NEW t \in job[w].at .. now,
           RenewSettled(job[w].batch[id], job[w].result, t).status = Active
    PROVE  Covered(id, RenewSettled(job[w].batch[id], job[w].result, t))
<1> DEFINE old == job[w].batch[id]
           row == RenewSettled(old, job[w].result, t)
<1>1. Foremost(job[w], id) /\ id \in DOMAIN job[w].batch
  BY FirstIsForemost
<1>2. old \in Row /\ Sound(old)
  BY <1>1, BatchFields
<1>3. job[w].result # "no_plan" => Planned(old.type)
  BY Parts DEF JobsInv, JobInv, JobReady, First
<1>4. old.status # Active
  BY <1>1 DEF RenewalInv, RenewalReady
<1>5. job[w].result = "success" /\ row.endAt = RenewedEnd(old, t)
  BY <1>2, <1>4, OnlySuccessActivates
<1>6. old.endAt # Null
  BY <1>2, <1>3, <1>5 DEF Sound, DatedWhenPlanned
<1>7. PaidUpTo(id, old.endAt + Period(old.type))
  BY <1>1, <1>5 DEF RenewalInv, RenewalReady, RenewalPcs
<1> QED
  BY <1>5, <1>6, <1>7 DEF Covered, RenewedEnd

\* The write after a renewal payment.
LEMMA RenewSettleRenewals ==
    ASSUME RenewersApart, IInv, RenewalInv, NEW w \in Workers, RenewSettle(w),
           UNCHANGED apiVars
    PROVE  RenewalStep
<1>1. JobsInv /\ now \in Int /\ job[w].pc = "settle"
  BY Parts DEF RenewSettle
<1>2. PICK id \in DOMAIN job[w].batch, t \in job[w].at .. now,
           reply \in UpdateReplies :
         /\ First(w, id)
         /\ Update(id, RenewSettled(job[w].batch[id], job[w].result, t), reply)
         /\ Advance(w, id, "mark",
                    IF job[w].result = "no_plan" THEN job[w].now ELSE t)
  BY DEF RenewSettle
<1> DEFINE old == job[w].batch[id]
           row == RenewSettled(old, job[w].result, t)
<1>3. UNCHANGED <<paymentVars, call>>
  BY DEF RenewSettle, apiVars
<1>4. old \in Row /\ Sound(old) /\ old.type \in Types /\ t \in Int
  BY <1>1, BatchFields, RowFields
<1>5. job[w].result # "no_plan" => Planned(old.type)
  BY <1>1, <1>2 DEF JobsInv, JobInv, JobReady, First
<1>6. Good(old, row)
  BY <1>4, <1>5, RenewSettledGood
<1>7. Renews(row) => Covered(id, row)
  BY <1>1, <1>2, ActivatesCovered DEF Renews
<1> HIDE DEF row
<1>8. Update(id, row, reply)
  BY <1>2 DEF row
<1> QED
  BY <1>1, <1>2, <1>3, <1>6, <1>7, <1>8, ItemRenewals DEF RenewalPcs

\* The cleanup and the expiry write rows that do not renew.
LEMMA SweepRenewals ==
    ASSUME RenewersApart, IInv, RenewalInv, NEW w \in Workers,
           CleanupItem(w) \/ ExpireItem(w), UNCHANGED apiVars
    PROVE  RenewalStep
<1>1. UNCHANGED <<paymentVars, call>>
  BY DEF CleanupItem, ExpireItem, apiVars
<1>2. CASE CleanupItem(w)
  <2>1. PICK id \in DOMAIN job[w].batch, reply \in UpdateReplies :
           /\ First(w, id)
           /\ Update(id, CleanupRow(job[w].batch[id], job[w].now), reply)
           /\ Advance(w, id, "cleanup", job[w].now)
    BY <1>2 DEF CleanupItem
  <2> DEFINE row == CleanupRow(job[w].batch[id], job[w].now)
  <2>2. Good(job[w].batch[id], row)
    BY BatchFields, CleanupRowGood
  <2>3. ~Renews(row)
    BY BatchFields DEF CleanupRow, Row, Renews, Processing, Active
  <2> HIDE DEF row
  <2>4. Update(id, row, reply)
    BY <2>1 DEF row
  <2> QED
    BY <1>1, <2>1, <2>2, <2>3, <2>4, ItemRenewals
<1>3. CASE ExpireItem(w)
  <2>1. PICK id \in DOMAIN job[w].batch, reply \in UpdateReplies :
           /\ First(w, id)
           /\ Update(id, ExpireRow(job[w].batch[id], job[w].now), reply)
           /\ Advance(w, id, "expire", job[w].now)
    BY <1>3 DEF ExpireItem
  <2> DEFINE row == ExpireRow(job[w].batch[id], job[w].now)
  <2>2. Good(job[w].batch[id], row)
    BY BatchFields, ExpireRowGood
  <2>3. ~Renews(row)
    BY BatchFields DEF ExpireRow, Off, Row, Renews
  <2> HIDE DEF row
  <2>4. Update(id, row, reply)
    BY <2>1 DEF row
  <2> QED
    BY <1>1, <2>1, <2>2, <2>3, <2>4, ItemRenewals
<1> QED
  BY <1>2, <1>3

\* The death of a worker, between the charge and the write too.
LEMMA JobCrashRenewals ==
    ASSUME IInv, RenewalInv, NEW w \in Workers, JobCrash(w), UNCHANGED apiVars
    PROVE  RenewalStep
<1>1. UNCHANGED <<table, outstanding, paidTo, call>>
  BY DEF JobCrash, storeVars, paymentVars, apiVars
<1>2. job'[w] = Resting /\ \A v \in Workers \ {w} : job'[v] = job[v]
  BY Parts DEF JobsInv, JobCrash
<1>3. RenewalReady(job[w])' /\ job'[w].pc \notin RenewalPcs
  BY <1>2 DEF RenewalReady, RenewalPcs, Resting
<1> QED
  BY <1>1, <1>2, <1>3, JobReads

-----------------------------------------------------------------------------
(* The system.                                                             *)

LEMMA NextRenewals ==
    ASSUME OnlyCancels, RenewersApart, IInv, RenewalInv, [Next]_vars
    PROVE  RenewalStep
<1>1. ASSUME UNCHANGED <<table, outstanding, paidTo, call, job>>
      PROVE  RenewalStep
  <2>1. CallsOnlySwitchOff'
    BY <1>1 DEF RenewalInv, CallsOnlySwitchOff
  <2> QED
    BY <1>1, <2>1, NoWrites
<1>2. CASE ClockStep
  BY <1>1, <1>2 DEF ClockStep, Tick, paymentVars, apiVars, jobVars
<1>3. ASSUME NEW c \in Clients, ApiStart(c) PROVE RenewalStep
  BY <1>3, CallStartRenewals DEF ApiStart
<1>4. ASSUME NEW c \in Clients, ApiStep(c) PROVE RenewalStep
  BY <1>4, CallStepRenewals DEF ApiStep
<1>5. CASE ApiFailure
  BY <1>5, ApiCrashRenewals DEF ApiFailure
<1>6. ASSUME NEW w \in Workers, WorkStart(w) PROVE RenewalStep
  BY <1>6, JobStartRenewals DEF WorkStart
<1>7. ASSUME NEW w \in Workers, WorkStep(w) PROVE RenewalStep
  BY <1>7, RenewMarkRenewals, RenewPayRenewals, RenewSettleRenewals,
     SweepRenewals DEF WorkStep, JobStep
<1>8. ASSUME NEW w \in Workers, WorkFailure(w) PROVE RenewalStep
  BY <1>8, JobCrashRenewals DEF WorkFailure
<1>9. CASE UNCHANGED vars
  BY <1>1, <1>9 DEF vars
<1> QED
  BY <1>2, <1>3, <1>4, <1>5, <1>6, <1>7, <1>8, <1>9 DEF Next

LEMMA InitRenewals ==
    ASSUME Init
    PROVE  RenewalInv
<1>1. /\ paidTo = {}
      /\ \A c \in Clients : call[c].pc = "idle"
      /\ \A w \in Workers : job[w].pc = "idle"
  BY DEF Init, PaymentInit, ApiInit, JobsInit, Idle, Resting
<1> QED
  BY <1>1
  DEF RenewalInv, CallsOnlySwitchOff, DueRowsCovered, Covered, PaidUpTo,
      RenewersRenew, RenewalReady, RenewalPcs

\* What is about to be paid lies after all that was paid.
LEMMA PaysSomethingNew ==
    ASSUME OnlyCancels, IInv, RenewalInv, outstanding \subseteq outstanding',
           NEW p \in paidTo
    PROVE  ~Pays(p)
<1> SUFFICES ASSUME NEW w \in Workers, job[w].pc = "pay", First(w, p[1]),
                    p[2] = RenewedEnd(job[w].batch[p[1]], now)
             PROVE  FALSE
  BY DEF Pays
<1> DEFINE id  == p[1]
           row == job[w].batch[id]
<1>1. id \in DOMAIN job[w].batch /\ id \in Ids /\ p[2] \in Int
  BY Parts DEF First, LedgerInv
<1>2. row \in Row /\ Sound(row) /\ SameIdentity(id, row) /\ row.type \in Types
  BY <1>1, BatchFields, RowFields
<1>3. Planned(row.type)
  BY <1>2, Parts, IdentityFields DEF LedgerInv, OnlyPlansCharged, SameIdentity
<1>4. row.endAt # Null /\ row.endAt \in Int
  BY <1>2, <1>3, RowFields DEF Sound, DatedWhenPlanned, MaybeTime
<1>5. Period(row.type) \in Int /\ Period(row.type) > 0
  BY <1>2, <1>3, PeriodIsInt, PeriodIsPositive DEF OnlyCancels
<1>6. p[2] <= row.endAt
  BY <1>1, <1>4 DEF RenewalInv, RenewalReady, RenewalPcs, Covered, PaidUpTo
<1>7. p[2] = row.endAt + Period(row.type)
  BY <1>4 DEF RenewedEnd
<1> QED
  BY <1>1, <1>4, <1>5, <1>6, <1>7

\* No period is collected twice while renewal workers keep off each other's
\* rows: a worker that died or failed after the charge does not charge again,
\* nor does another, whatever cancels, deletes, cleanups and expiries with stale
\* copies do in between.
THEOREM NeverTwice ==
    ASSUME OnlyCancels
    PROVE  Spec /\ []RenewersApart => NeverPaidTwice
<1>1. Init => RenewalInv
  BY InitRenewals
<1>2. IInv /\ RenewalInv /\ RenewersApart /\ [Next]_vars => RenewalInv'
  BY NextRenewals DEF RenewalStep
<1>3. IInv /\ RenewalInv /\ RenewersApart /\ [Next]_vars =>
         [\A p \in paidTo : ~Pays(p)]_vars
  BY NextRenewals, PaysSomethingNew DEF RenewalStep
<1> QED
  BY <1>1, <1>2, <1>3, Invariance, PTL DEF Spec, NeverPaidTwice

\* As when the command runs in one process.
COROLLARY OneRenewer ==
    ASSUME OnlyCancels, \A v, w \in Renewers : v = w
    PROVE  Spec => NeverPaidTwice
<1>1. RenewersApart
  BY DEF RenewersApart
<1> QED
  BY <1>1, NeverTwice, PTL
=============================================================================
