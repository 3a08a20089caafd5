------------------------------ MODULE ApartProofs ------------------------------
(***************************************************************************)
(* Theorems about Subscriptions with no two operations at one row: what a  *)
(* lock per subscription would give, for every value of the constants.     *)
(*                                                                         *)
(* What fails in cancel_race and duplicate_identity holds in every         *)
(* behaviour in which Apart is always true, whoever else moves other rows  *)
(* at whatever statement: the copies in memory are the rows of the table,  *)
(* and what a lookup or a listing found is still true when it is used.     *)
(* Time passes, statements fail and processes die in the middle of an      *)
(* operation all the same.                                                 *)
(*                                                                         *)
(* Some of it needs less: IdentityUnique only that creates that have found *)
(* one identity new do not overlap, and a sweep only that nobody else is   *)
(* at its rows.  The last section shows that running one operation at a    *)
(* time is a way to have all of it.                                        *)
(***************************************************************************)
EXTENDS SubscriptionsProofs, FiniteSetTheorems

\* What a call has read still holds; it works on a row it may work on.
FreshCall(k) ==
    /\ k.at \in 0 .. now
    /\ k.pc \in {"pay", "settle", "save"} => k.row = table[k.id]
    /\ k.pc \in {"pay", "settle"} => k.row.status = Processing
    /\ k.pc = "save" => k.req.op \in Ops /\ k.req.id = k.id
    /\ k.pc = "store" /\ k.id = 0 =>
          \A i \in Ids : Identity(table[i]) # Identity(k.req)

\* So does what a worker has listed.  A renewal has marked the item it is at.
FreshRow(j, i) ==
    /\ j.batch[i] = table[i]
    /\ j.pc \in RenewalPcs =>
          IF j.pc # "mark" /\ Foremost(j, i)
          THEN table[i].status = Processing /\ table[i].autoRenew
          ELSE Atomic!Due(table[i], j.now)
    /\ j.pc = "cleanup" => Atomic!Stale(table[i], j.now)
    /\ j.pc = "expire" => Atomic!Over(table[i], j.now)

FreshJob(j) ==
    /\ j.now \in 0 .. now
    /\ j.at \in 0 .. now
    /\ j.pc = "settle" => j.now <= j.at
    /\ j.pc = "idle" => DOMAIN j.batch = {}
    /\ j.pc # "idle" => \A i \in DOMAIN j.batch : FreshRow(j, i)

\* The inductive invariant, on top of IInv.
FreshInv ==
    /\ now \in Nat
    /\ \A c \in Clients : FreshCall(call[c])
    /\ \A w \in Workers : FreshJob(job[w])

-----------------------------------------------------------------------------
(* What is proved of every step.                                           *)

OptOutStep ==
    \A i \in Ids : ~table[i].autoRenew /\ table'[i].autoRenew =>
          \E c \in Clients :
             \/ Recreates(c, i)
             \/ /\ Saves(c, i)
                /\ call[c].req.op = "update"
                /\ call[c].req.hasAutoRenew

-----------------------------------------------------------------------------
(* Who moves, and what that leaves alone.                                  *)

\* A call that moves leaves what others have read as it is.
LEMMA CallMovesApart ==
    ASSUME IInv, FreshInv, Apart, NEW c \in Clients,
           \A d \in Clients \ {c} : call'[d] = call[d],
           UNCHANGED <<now, job>>,
           \A i \in Ids \ CallRows(c) : table'[i] = table[i],
           \A i \in Ids' :
              \/ i \in Ids /\ Identity(table'[i]) = Identity(table[i])
              \/ Founds(c) /\ Identity(table'[i]) = Identity(call[c].req),
           FreshCall(call[c])'
    PROVE  FreshInv'
<1>1. TableInv /\ CallsInv /\ JobsInv /\ 0 \notin Ids
  BY Parts DEF TableInv, Ids
<1>2. ASSUME NEW d \in Clients \ {c} PROVE FreshCall(call[d])'
  <2>1. FreshCall(call[d])
    BY DEF FreshInv
  <2>2. call[d].pc \in {"pay", "settle", "save"} =>
           table'[call[d].id] = table[call[d].id]
    BY <1>1 DEF CallsInv, CallInv, CallOK, Apart, CallRows
  <2>3. Founds(d) => \A i \in Ids' : Identity(table'[i]) # Identity(call[d].req)
    BY <2>1 DEF FreshCall, Founds, Apart, FoundsApart
  <2> QED
    BY <2>1, <2>2, <2>3 DEF FreshCall, Founds
<1>3. ASSUME NEW w \in Workers PROVE FreshJob(job[w])'
  <2>1. FreshJob(job[w]) /\ JobRows(w) \subseteq Ids
    BY <1>1 DEF FreshInv, JobsInv, JobInv, JobOK, JobRows
  <2>2. \A i \in JobRows(w) : table'[i] = table[i]
    BY <2>1 DEF Apart, Undisturbed
  <2> QED
    BY <2>1, <2>2 DEF FreshJob, FreshRow, JobRows
<1> QED
  BY <1>2, <1>3 DEF FreshInv

\* And a worker that moves.
LEMMA JobMovesApart ==
    ASSUME IInv, FreshInv, Apart, NEW w \in Workers,
           \A v \in Workers \ {w} : job'[v] = job[v],
           UNCHANGED <<now, call>>,
           Ids' = Ids,
           \A i \in Ids \ JobRows(w) : table'[i] = table[i],
           \A i \in Ids : Identity(table'[i]) = Identity(table[i]),
           FreshJob(job[w])'
    PROVE  FreshInv'
<1>1. TableInv /\ CallsInv /\ JobsInv /\ 0 \notin Ids
  BY Parts DEF TableInv, Ids
<1>2. ASSUME NEW c \in Clients PROVE FreshCall(call[c])'
  <2>1. FreshCall(call[c])
    BY DEF FreshInv
  <2>2. call[c].pc \in {"pay", "settle", "save"} =>
           table'[call[c].id] = table[call[c].id]
    BY <1>1 DEF CallsInv, CallInv, CallOK, Apart, Undisturbed, CallRows
  <2> QED
    BY <2>1, <2>2 DEF FreshCall
<1>3. ASSUME NEW v \in Workers \ {w} PROVE FreshJob(job[v])'
  <2>1. FreshJob(job[v]) /\ JobRows(v) \subseteq Ids
    BY <1>1 DEF FreshInv, JobsInv, JobInv, JobOK, JobRows
  <2>2. \A i \in JobRows(v) : table'[i] = table[i]
    BY <2>1 DEF Apart, Undisturbed
  <2> QED
    BY <2>1, <2>2 DEF FreshJob, FreshRow, JobRows
<1> QED
  BY <1>2, <1>3 DEF FreshInv

-----------------------------------------------------------------------------
(* The steps of AtomicSubscriptions.                                       *)

AtomicStep == [Atomic!Next]_<<table, now, Asking, Tasks>>

\* What both modules compute with is the same.
LEMMA SameComputations ==
    ASSUME NEW req, NEW row, NEW result, NEW t
    PROVE  /\ Atomic!CreateRow(req, t) = CreateRow(req, t)
           /\ Atomic!CreateSettled(row, result, t) = CreateSettled(row, result, t)
           /\ Atomic!Applied(req, row, t) = Applied(req, row, t)
           /\ Atomic!RenewMarked(row, t) = RenewMarked(row, t)
           /\ Atomic!RenewSettled(row, result, t) = RenewSettled(row, result, t)
           /\ Atomic!CleanupRow(row, t) = CleanupRow(row, t)
           /\ Atomic!ExpireRow(row, t) = ExpireRow(row, t)
<1> USE DEF Atomic!Planned, Planned, Atomic!Period, Period, Atomic!Wrap, Wrap,
            Atomic!Off, Off, Atomic!Inactive, Inactive, Atomic!Active, Active,
            Atomic!Processing, Processing, Atomic!PendingPayment, PendingPayment
<1>1. Atomic!CreateRow(req, t) = CreateRow(req, t)
  BY DEF Atomic!CreateRow, CreateRow
<1>2. Atomic!CreateSettled(row, result, t) = CreateSettled(row, result, t)
  BY DEF Atomic!CreateSettled, CreateSettled
<1>3. Atomic!Applied(req, row, t) = Applied(req, row, t)
  BY DEF Atomic!Applied, Applied, Atomic!UpdatedRow, UpdatedRow,
         Atomic!DeletedRow, DeletedRow, Atomic!CancelledRow, CancelledRow,
         Atomic!CallbackRow, CallbackRow
<1>4. Atomic!RenewMarked(row, t) = RenewMarked(row, t)
  BY DEF Atomic!RenewMarked, RenewMarked
<1>5. Atomic!RenewSettled(row, result, t) = RenewSettled(row, result, t)
  <2>1. Atomic!Extended(row, t) = Extended(row, t)
    BY DEF Atomic!Extended, Extended, Atomic!RenewedEnd, RenewedEnd
  <2>2. Atomic!RenewAttempted(row, result, t) = RenewAttempted(row, result, t)
    BY <2>1 DEF Atomic!RenewAttempted, RenewAttempted, Atomic!RetryLater, RetryLater
  <2>3. \A r : Atomic!AgeChecked(r) = AgeChecked(r)
    BY DEF Atomic!AgeChecked, AgeChecked,
           Atomic!shouldDeactivateForRetryAge, shouldDeactivateForRetryAge
  <2> QED
    BY <2>2, <2>3 DEF Atomic!RenewSettled, RenewSettled
<1>6. Atomic!CleanupRow(row, t) = CleanupRow(row, t)
  BY DEF Atomic!CleanupRow, CleanupRow
<1>7. Atomic!ExpireRow(row, t) = ExpireRow(row, t)
  BY DEF Atomic!ExpireRow, ExpireRow
<1> QED
  BY <1>1, <1>2, <1>3, <1>4, <1>5, <1>6, <1>7

\* And they agree about requests.
LEMMA SameRequests ==
    /\ Atomic!CreateRequest = CreateRequest
    /\ \A ids : /\ Atomic!UpdateRequest(ids) = UpdateRequest(ids)
                 /\ Atomic!DeleteRequest(ids) = DeleteRequest(ids)
                 /\ Atomic!CancelRequest(ids) = CancelRequest(ids)
                 /\ Atomic!CallbackRequest(ids) = CallbackRequest(ids)
    /\ \A req : Atomic!CreateRejection(req) = CreateRejection(req)
    /\ \A req : Atomic!Rejection(req) = Rejection(req)
    /\ \A row : Atomic!Identity(row) = Identity(row)
    /\ \A type : Atomic!Planned(type) = Planned(type)
<1>1. /\ Atomic!Statuses = Statuses /\ Atomic!InvalidStatus = InvalidStatus
      /\ Atomic!Inactive = Inactive
  BY DEF Atomic!Statuses, Statuses, Atomic!Inactive, Inactive, Atomic!Active,
         Active, Atomic!Processing, Processing, Atomic!PendingPayment,
         PendingPayment, Atomic!InvalidStatus, InvalidStatus
<1> QED
  BY <1>1
  DEF Atomic!UpdateRequest, UpdateRequest, Atomic!DeleteRequest, DeleteRequest,
      Atomic!CancelRequest, CancelRequest, Atomic!CallbackRequest,
      CallbackRequest, Atomic!CreateRequest, CreateRequest, Atomic!CreateRejection,
      CreateRejection, Atomic!Rejection, Rejection, Atomic!UpdateRejection,
      UpdateRejection, Atomic!CallbackRejection, CallbackRejection,
      Atomic!Identity, Identity, Atomic!Planned, Planned

\* What a client has asked for, and what a worker is at.
LEMMA Seen ==
    /\ \A c \in Clients : Asking[c] = Asked(c)
    /\ \A w \in Workers : Tasks[w] = Task(w)
BY DEF Asking, Tasks

LEMMA IdleAsked ==
    ASSUME NEW c \in Clients, call[c].pc = "idle"
    PROVE  Asking[c].op = "none"
<1>1. Asking[c] = Atomic!Answered(call[c].reply)
  BY Seen DEF Asked, Atomic!Answered
<1> QED
  BY <1>1 DEF Atomic!Answered

LEMMA TaskFields ==
    ASSUME NEW w \in Workers
    PROVE  /\ Tasks[w].duty = job[w].pc
           /\ Tasks[w].rows = JobRows(w)
           /\ Tasks[w].marked = AtPayment(w)
           /\ Tasks[w].result = Outcome(w)
<1>1. Tasks[w] = Task(w)
  BY Seen
<1> QED
  BY <1>1 DEF Task

\* A worker that is not in the middle of a renewal has only its rows.
LEMMA PlainTask ==
    ASSUME NEW w \in Workers, NEW pc, NEW rows, pc \notin {"pay", "settle"},
           job'[w].pc = pc, JobRows(w)' = rows
    PROVE  Task(w)' = Atomic!ToDo(pc, rows)
<1>1. AtPayment(w)' = {} /\ Outcome(w)' = Null
  BY DEF AtPayment, Outcome
<1> QED
  BY <1>1 DEF Task, Atomic!ToDo

\* Whoever does not move has nothing new to do.
LEMMA SameSeen ==
    /\ UNCHANGED call => UNCHANGED Asking
    /\ UNCHANGED job => UNCHANGED Tasks
<1>1. ASSUME UNCHANGED call, NEW c \in Clients PROVE UNCHANGED Asked(c)
  BY <1>1 DEF Asked
<1>2. ASSUME UNCHANGED job, NEW w \in Workers PROVE UNCHANGED Task(w)
  <2>1. UNCHANGED AtPayment(w)
    BY <1>2 DEF AtPayment, JobRows, First
  <2> QED
    BY <1>2, <2>1 DEF Task, JobRows, Outcome
<1> QED
  BY <1>1, <1>2 DEF Asking, Tasks

\* A client that moves,
LEMMA TurnsTo ==
    ASSUME NEW c \in Clients, \A d \in Clients \ {c} : call'[d] = call[d],
           UNCHANGED <<now, job>>
    PROVE  Atomic!Turns(c, Asked(c)')
<1>1. \A d \in Clients \ {c} : Asked(d)' = Asked(d)
  BY DEF Asked
<1>2. Asking' = [Asking EXCEPT ![c] = Asked(c)']
  BY <1>1 DEF Asking
<1> QED
  BY <1>2, SameSeen DEF Atomic!Turns

\* and a worker that moves.
LEMMA MovesTo ==
    ASSUME NEW w \in Workers, \A v \in Workers \ {w} : job'[v] = job[v],
           UNCHANGED <<now, call>>
    PROVE  Atomic!Moves(w, Task(w)')
<1>1. \A v \in Workers \ {w} : Task(v)' = Task(v)
  BY DEF Task, AtPayment, Outcome, JobRows, First
<1>2. Tasks' = [Tasks EXCEPT ![w] = Task(w)']
  BY <1>1 DEF Tasks
<1> QED
  BY <1>2, SameSeen DEF Atomic!Moves

LEMMA ClientStepAtomic ==
    ASSUME NEW c \in Clients, Atomic!ClientStep(c)
    PROVE  AtomicStep
BY DEF AtomicStep, Atomic!Next

LEMMA WorkerStepAtomic ==
    ASSUME NEW w \in Workers, Atomic!WorkerStep(w)
    PROVE  AtomicStep
BY DEF AtomicStep, Atomic!Next, Atomic!Workers, Workers

\* A call that is over has its answer.
LEMMA AnswerTurns ==
    ASSUME CallsInv, NEW c \in Clients, NEW reply, Answer(c, reply),
           UNCHANGED <<now, job>>
    PROVE  Atomic!Turns(c, Atomic!Answered(reply))
<1>1. /\ \A d \in Clients \ {c} : call'[d] = call[d]
      /\ Asked(c)' = Atomic!Answered(reply)
  BY DEF CallsInv, Answer, Idle, Asked, Atomic!Answered
<1> QED
  BY <1>1, TurnsTo

\* A call that has made its change, or found that it was none, or failed.
LEMMA WritesAtomically ==
    ASSUME NEW c \in Clients, NEW i, NEW row, NEW reply \in UpdateReplies,
           NEW next,
           Atomic!Turns(c, IF reply = "ok" THEN next ELSE Atomic!Answered(reply)),
           reply = "not_found" => UNCHANGED table,
           reply = "error" => Faulty,
           \/ table' = [table EXCEPT ![i] = row]
           \/ UNCHANGED table /\ reply = "error",
           Asking[c].op \notin {"none", "pay"},
           Atomic!Becomes(i, row) /\ Atomic!Goes(c, next) => Atomic!ClientStep(c)
    PROVE  AtomicStep
<1>1. CASE table' = [table EXCEPT ![i] = row]
  <2>1. Atomic!Becomes(i, row)
    BY <1>1 DEF Atomic!Becomes
  <2>2. Atomic!Goes(c, next)
    BY DEF Atomic!Goes, UpdateReplies
  <2> QED
    BY <2>1, <2>2, ClientStepAtomic
<1>2. CASE UNCHANGED table /\ reply = "error"
  <2>1. Atomic!Fail(c)
    BY <1>2 DEF Atomic!Fail
  <2> QED
    BY <2>1, ClientStepAtomic DEF Atomic!ClientStep
<1> QED
  BY <1>1, <1>2

\* The time a step has for its clock.
LEMMA Times ==
    ASSUME NEW t \in 0 .. now
    PROVE  /\ \A c \in Clients :
                 /\ Atomic!Subscribe(c, t) => Atomic!ClientStep(c)
                 /\ \A i \in Ids : Atomic!Resubscribe(c, i, t) => Atomic!ClientStep(c)
                 /\ Atomic!SettlePurchase(c, t) => Atomic!ClientStep(c)
                 /\ Atomic!Handle(c, t) => Atomic!ClientStep(c)
           /\ \A w \in Workers : \A i \in JobRows(w) :
                 /\ Atomic!StartRenewal(w, i, t) => Atomic!WorkerStep(w)
                 /\ Atomic!SettleRenewal(w, i, t) => Atomic!WorkerStep(w)
                 /\ Atomic!CleanUp(w, i, t) => Atomic!WorkerStep(w)
                 /\ Atomic!Expire(w, i, t) => Atomic!WorkerStep(w)
<1>1. \A w \in Workers : Tasks[w].rows = JobRows(w)
  BY TaskFields
<1> QED
  BY <1>1 DEF Atomic!ClientStep, Atomic!WorkerStep, Atomic!Ids, Ids

\* A batch goes on.
LEMMA AdvanceIsDone ==
    ASSUME JobsInv, NEW w \in Workers, NEW id, NEW pc, NEW t,
           pc \notin {"pay", "settle"},
           Advance(w, id, pc, t), UNCHANGED <<now, call>>
    PROVE  Atomic!Done(w, id, pc)
<1> DEFINE rest == JobRows(w) \ {id}
<1>1. Tasks[w].rows = JobRows(w)
  BY TaskFields
<1>2. \A v \in Workers \ {w} : job'[v] = job[v]
  BY DEF JobsInv, Advance
<1>3. CASE rest = {}
  <2>1. job'[w] = Resting
    BY <1>3 DEF JobsInv, Advance, JobRows
  <2>2. Task(w)' = Atomic!Free
    BY <2>1
    DEF Task, AtPayment, Outcome, Resting, Snapshot, JobRows, Atomic!Free, Atomic!ToDo
  <2> QED
    BY <1>1, <1>2, <1>3, <2>2, MovesTo DEF Atomic!Done
<1>4. CASE rest # {}
  <2>1. job'[w].pc = pc /\ JobRows(w)' = rest
    BY <1>4 DEF JobsInv, Advance, Resting, JobRows
  <2> HIDE DEF rest
  <2>2. Task(w)' = Atomic!ToDo(pc, rest)
    BY <2>1, PlainTask
  <2>3. Atomic!Moves(w, Task(w)')
    BY <1>2, MovesTo
  <2>4. Tasks[w].rows \ {id} = rest
    BY <1>1 DEF rest
  <2> QED
    BY <1>4, <2>2, <2>3, <2>4 DEF Atomic!Done
<1> QED
  BY <1>3, <1>4

\* The item a worker is at is the one it has marked, if any.
LEMMA Marked ==
    ASSUME JobsInv, IInv, NEW w \in Workers, NEW id \in DOMAIN job[w].batch,
           First(w, id)
    PROVE  /\ id \in JobRows(w) /\ Tasks[w].duty = job[w].pc
           /\ Tasks[w].marked =
                 IF job[w].pc \in {"pay", "settle"} THEN {id} ELSE {}
<1>1. Ids \subseteq Int /\ DOMAIN job[w].batch \subseteq Ids
  BY Parts DEF TableInv, Ids, JobsInv, JobInv, JobOK
<1>2. AtPayment(w) = IF job[w].pc \in {"pay", "settle"} THEN {id} ELSE {}
  <2>1. ASSUME NEW i \in JobRows(w), First(w, i) PROVE i = id
    <3>1. i \in Int /\ id \in Int /\ i <= id /\ id <= i
      BY <1>1, <2>1 DEF First, JobRows
    <3> QED
      BY <3>1
  <2>2. {i \in JobRows(w) : First(w, i)} = {id}
    BY <2>1 DEF JobRows
  <2> QED
    BY <2>2 DEF AtPayment
<1> QED
  BY <1>2, TaskFields DEF JobRows

\* An item that is written and done with.
LEMMA ItemsAtomically ==
    ASSUME IInv, NEW w \in Workers, NEW id \in DOMAIN job[w].batch,
           First(w, id), NEW row, NEW pc,
           \/ pc = "mark" /\ job[w].pc \in {"mark", "settle"}
           \/ pc = job[w].pc /\ pc \in {"cleanup", "expire"},
           NEW t, Advance(w, id, pc, t), UNCHANGED <<now, call>>,
           \/ table' = [table EXCEPT ![id] = row]
           \/ UNCHANGED table /\ Faulty,
           Atomic!Becomes(id, row) /\ Atomic!Done(w, id, pc) => Atomic!WorkerStep(w)
    PROVE  AtomicStep
<1>1. JobsInv
  BY Parts
<1>2. Atomic!Done(w, id, pc)
  BY <1>1, AdvanceIsDone
<1>3. CASE table' = [table EXCEPT ![id] = row]
  BY <1>2, <1>3, WorkerStepAtomic DEF Atomic!Becomes
<1>4. CASE UNCHANGED table /\ Faulty
  <2>1. Atomic!Skip(w, id)
    BY <1>1, <1>2, <1>4, Marked DEF Atomic!Skip
  <2>2. id \in Tasks[w].rows
    BY TaskFields DEF JobRows
  <2> QED
    BY <2>1, <2>2, WorkerStepAtomic DEF Atomic!WorkerStep
<1> QED
  BY <1>3, <1>4

\* A step that leaves the table alone switches no renewal on.
LEMMA ReadsSwitchNothingOn ==
    ASSUME UNCHANGED table
    PROVE  OptOutStep
BY DEF OptOutStep, Ids

-----------------------------------------------------------------------------
(* What is computed and written.                                           *)

\* INSERT of a row with an identity that no row has.
LEMMA InsertAdds ==
    ASSUME TableInv, NEW row, NEW reply, Create(row, reply),
           \A i \in Ids : Identity(table[i]) # Identity(row)
    PROVE  /\ UNCHANGED table \/ table' = Append(table, row)
           /\ \A i \in Ids : table'[i] = table[i]
           /\ \A i \in Ids' : i \in Ids \/ table'[i] = row
           /\ reply = "ok" => table'[Len(table) + 1] = row
           /\ reply = "ok" \/ (reply = "error" /\ Faulty)
           /\ UNCHANGED table => reply = "error"
           /\ IdentityUnique => IdentityUnique'
<1>1. CASE UNCHANGED table /\ reply = "error" /\ Faulty
  BY <1>1 DEF IdentityUnique, Ids
<1>2. CASE table' = Append(table, row)
  <2> DEFINE n == Len(table) + 1
  <2>1. Ids = 1 .. Len(table) /\ Ids' = 1 .. n /\ Len(table) \in Nat
    BY <1>2 DEF TableInv, Ids
  <2>2. table'[n] = row /\ \A i \in Ids : table'[i] = table[i]
    BY <1>2, <2>1 DEF TableInv
  <2>3. Ids' = Ids \cup {n}
    BY <2>1
  <2> HIDE DEF n
  <2>4. IdentityUnique => IdentityUnique'
    BY <2>2, <2>3 DEF IdentityUnique
  <2> QED
    BY <1>2, <2>1, <2>2, <2>3, <2>4 DEF n, Create
<1>3. ~Duplicate(row)
  BY DEF Duplicate
<1> QED
  BY <1>1, <1>2, <1>3 DEF Create

\* Of the handlers that load a row, PATCH alone may switch it on.
LEMMA AppliedSwitches ==
    ASSUME NEW req \in Requests, req.op # "create", Rejection(req) = "none",
           NEW row \in Row, NEW t \in Int
    PROVE  Applied(req, row, t).autoRenew =>
              \/ row.autoRenew
              \/ req.op = "update" /\ req.hasAutoRenew
<1>1. CASE req.op = "update"
  <2> DEFINE status  == IF req.hasStatus THEN req.status ELSE row.status
             renews  == IF req.hasAutoRenew THEN req.autoRenew ELSE row.autoRenew
             renewAt == IF ~req.hasAutoRenew THEN row.renewAt
                        ELSE IF ~req.autoRenew THEN Null
                        ELSE IF row.endAt = Null THEN row.renewAt
                        ELSE row.endAt - RenewBeforeEndMinutes
             new     == [row EXCEPT !.status = status, !.autoRenew = renews,
                                    !.renewAt = renewAt, !.updatedAt = t]
  <2>1. Applied(req, row, t) = IF status = Inactive THEN Off(new) ELSE new
    BY <1>1 DEF Applied, UpdatedRow
  <2> HIDE DEF renewAt
  <2>2. new.autoRenew = renews
    BY DEF Row
  <2>3. Off(new).autoRenew = FALSE
    BY DEF Off, Row
  <2> HIDE DEF new
  <2> QED
    BY <1>1, <2>1, <2>2, <2>3
<1>2. CASE req.op = "delete"
  <2>1. Applied(req, row, t) = [Off(row) EXCEPT !.updatedAt = t]
    BY <1>2 DEF Applied, DeletedRow
  <2> QED
    BY <2>1 DEF Off, Row
<1>3. CASE req.op = "cancel"
  <2>1. Applied(req, row, t) = CancelledRow(row, t)
    BY <1>3 DEF Applied
  <2> QED
    BY <2>1 DEF CancelledRow, Row
<1>4. CASE req.op = "callback"
  <2>1. Applied(req, row, t) = CallbackRow(req, row, t)
    BY <1>4 DEF Applied
  <2> QED
    BY <2>1 DEF CallbackRow, Row
<1> QED
  BY <1>1, <1>2, <1>3, <1>4
  DEF Requests, CreateRequest, UpdateRequest, DeleteRequest, CancelRequest,
      CallbackRequest

\* The batches, and the outcome of a purchase, switch no renewal on.
LEMMA OthersSwitchNothingOn ==
    ASSUME NEW row \in Row, NEW t, NEW result
    PROVE  /\ CreateSettled(row, result, t).autoRenew = row.autoRenew
           /\ RenewMarked(row, t).autoRenew = row.autoRenew
           /\ RenewSettled(row, result, t).autoRenew => row.autoRenew
           /\ CleanupRow(row, t).autoRenew = row.autoRenew
           /\ ~ExpireRow(row, t).autoRenew
<1>1. /\ CreateSettled(row, result, t).autoRenew = row.autoRenew
      /\ RenewMarked(row, t).autoRenew = row.autoRenew
      /\ CleanupRow(row, t).autoRenew = row.autoRenew
  BY DEF CreateSettled, RenewMarked, CleanupRow, Row
<1>2. [Off(row) EXCEPT !.updatedAt = t].autoRenew = FALSE
  BY DEF Off, Row
<1>3. RenewSettled(row, result, t).autoRenew => row.autoRenew
  <2> DEFINE tried == RenewAttempted(row, result, t)
  <2>1. DOMAIN tried = DOMAIN row /\ tried.autoRenew = row.autoRenew
    BY DEF RenewAttempted, Extended, RetryLater, Row
  <2> HIDE DEF tried
  <2>2. [AgeChecked(tried) EXCEPT !.updatedAt = t].autoRenew => row.autoRenew
    BY <2>1 DEF AgeChecked, Off, Row
  <2> QED
    BY <1>2, <2>2 DEF RenewSettled, tried
<1> QED
  BY <1>1, <1>2, <1>3 DEF ExpireRow

-----------------------------------------------------------------------------
(* The steps of the API.                                                   *)

\* What is proved of every step.
FreshStep == FreshInv' /\ OptOutStep /\ AtomicStep

\* A step of c that reads only.
LEMMA CallReadsApart ==
    ASSUME IInv, FreshInv, Apart, NEW c \in Clients,
           \A d \in Clients \ {c} : call'[d] = call[d],
           UNCHANGED <<table, now, job>>, FreshCall(call[c])',
           Atomic!Turns(c, Asked(c)') => Atomic!ClientStep(c)
    PROVE  FreshStep
<1>1. OptOutStep
  BY ReadsSwitchNothingOn
<1>2. FreshInv'
  BY <1>1, CallMovesApart DEF Ids
<1>3. AtomicStep
  BY TurnsTo, ClientStepAtomic
<1> QED
  BY <1>1, <1>2, <1>3 DEF FreshStep

\* A call that is over needs nothing.
LEMMA AnswerFresh ==
    ASSUME CallsInv, NEW c \in Clients, NEW reply, Answer(c, reply),
           now \in Nat, UNCHANGED now
    PROVE  /\ FreshCall(call[c])'
           /\ \A d \in Clients \ {c} : call'[d] = call[d]
           /\ call'[c].pc = "idle"
           /\ Asked(c)' = Atomic!Answered(reply)
BY DEF CallsInv, Answer, Idle, FreshCall, Asked, Atomic!Answered

\* A client whose call has not begun may be refused it,
LEMMA RefusedAtomically ==
    ASSUME NEW c \in Clients, Asking[c].op = "none", UNCHANGED table,
           NEW reply \in {"rejected", "not_found", "error"},
           reply = "error" => Faulty,
           Atomic!Turns(c, Atomic!Answered(reply))
    PROVE  Atomic!ClientStep(c)
<1>1. Atomic!Refuse(c)
  BY DEF Atomic!Refuse
<1> QED
  BY <1>1 DEF Atomic!ClientStep

\* or goes on with what is accepted.
LEMMA AskedAtomically ==
    ASSUME NEW c \in Clients, Asking[c].op = "none", UNCHANGED table,
           NEW req,
           \/ /\ "create" \in Ops /\ req \in CreateRequest
              /\ CreateRejection(req) = "none"
           \/ /\ req \in UpdateRequest(Ids) \cup DeleteRequest(Ids)
                            \cup CancelRequest(Ids) \cup CallbackRequest(Ids)
              /\ req.op \in Ops /\ Rejection(req) = "none",
           Atomic!Turns(c, req)
    PROVE  Atomic!ClientStep(c)
<1>1. req \in Atomic!Accepted
  BY SameRequests DEF Atomic!Accepted, Atomic!Ids, Ids
<1>2. Atomic!Ask(c)
  BY <1>1 DEF Atomic!Ask
<1> QED
  BY <1>2 DEF Atomic!ClientStep

\* The lookups at the start of CreateSubscription.
LEMMA CreateSubscriptionApart ==
    ASSUME IInv, FreshInv, Apart, NEW c \in Clients, CreateSubscription(c),
           UNCHANGED jobVars
    PROVE  FreshStep
<1>1. CallsInv /\ now \in Nat /\ UNCHANGED <<table, now, job>>
  BY Parts DEF FreshInv, CreateSubscription, storeVars, jobVars
<1>2. Asking[c].op = "none"
  BY IdleAsked DEF CreateSubscription
<1>3. PICK req \in CreateRequest :
         \/ Answer(c, "rejected")
         \/ /\ CreateRejection(req) = "none" /\ "create" \in Ops
            /\ \E id \in FindByTypeAndIdentity(req.type, req.user, req.email) :
                  call' = [call EXCEPT ![c] =
                      [Idle("none") EXCEPT !.pc = "store", !.req = req,
                                           !.id = id, !.at = now]]
         \/ Faulty /\ Answer(c, "error")
  BY DEF CreateSubscription
<1>4. CASE Answer(c, "rejected") \/ (Faulty /\ Answer(c, "error"))
  BY <1>1, <1>2, <1>4, AnswerFresh, RefusedAtomically, CallReadsApart
<1>5. ASSUME CreateRejection(req) = "none", "create" \in Ops,
             NEW id \in FindByTypeAndIdentity(req.type, req.user, req.email),
             call' = [call EXCEPT ![c] =
                 [Idle("none") EXCEPT !.pc = "store", !.req = req,
                                      !.id = id, !.at = now]]
      PROVE  FreshStep
  <2>1. /\ call'[c].pc = "store" /\ call'[c].id = id
        /\ call'[c].req = req /\ call'[c].at = now
        /\ \A d \in Clients \ {c} : call'[d] = call[d]
    BY <1>1, <1>5 DEF CallsInv, Idle
  <2>2. 0 \notin Ids
    BY Parts DEF TableInv, Ids
  <2>3. id = 0 => \A i \in Ids : Identity(table[i]) # Identity(req)
    BY <1>5, <2>2 DEF FindByTypeAndIdentity, Identity
  <2>4. Ids' = Ids
    BY <1>1 DEF Ids
  <2>5. FreshCall(call[c])'
    BY <1>1, <2>1, <2>3, <2>4 DEF FreshCall
  <2>6. Asked(c)' = req
    BY <2>1 DEF Asked
  <2>7. Atomic!Turns(c, req) => Atomic!ClientStep(c)
    BY <1>1, <1>2, <1>5, AskedAtomically
  <2> QED
    BY <1>1, <2>1, <2>5, <2>6, <2>7, CallReadsApart
<1> QED
  BY <1>3, <1>4, <1>5

\* FindByID at the start of the other operations.
LEMMA LoadApart ==
    ASSUME IInv, FreshInv, Apart, NEW c \in Clients,
           NEW req \in UpdateRequest(Addressable) \cup DeleteRequest(Addressable)
                       \cup CancelRequest(Addressable)
                       \cup CallbackRequest(Addressable),
           Load(c, req), UNCHANGED jobVars
    PROVE  FreshStep
<1>1. CallsInv /\ now \in Nat /\ UNCHANGED <<table, now, job>>
  BY Parts DEF FreshInv, Load, storeVars, jobVars
<1>2. Asking[c].op = "none" /\ req.op \in Ops
  BY IdleAsked DEF Load
<1>3. CASE \/ Answer(c, "not_found") \/ Answer(c, "rejected")
           \/ Faulty /\ Answer(c, "error")
  BY <1>1, <1>2, <1>3, AnswerFresh, RefusedAtomically, CallReadsApart
<1>4. CASE /\ req.id \in Ids /\ Rejection(req) = "none"
           /\ call' = [call EXCEPT ![c] =
                 [Idle("none") EXCEPT !.pc = "save", !.req = req, !.id = req.id,
                                      !.row = table[req.id], !.at = now]]
  <2>1. /\ call'[c].pc = "save" /\ call'[c].id = req.id
        /\ call'[c].req = req /\ call'[c].row = table[req.id]
        /\ call'[c].at = now
        /\ \A d \in Clients \ {c} : call'[d] = call[d]
    BY <1>1, <1>4 DEF CallsInv, Idle
  <2>2. FreshCall(call[c])'
    BY <1>1, <1>2, <2>1 DEF FreshCall
  <2>3. Asked(c)' = req
    BY <2>1 DEF Asked
  <2>4. req \in UpdateRequest(Ids) \cup DeleteRequest(Ids)
                 \cup CancelRequest(Ids) \cup CallbackRequest(Ids)
    BY <1>4 DEF UpdateRequest, DeleteRequest, CancelRequest, CallbackRequest
  <2>5. Atomic!Turns(c, req) => Atomic!ClientStep(c)
    BY <1>1, <1>2, <1>4, <2>4, AskedAtomically
  <2> QED
    BY <1>1, <2>1, <2>2, <2>3, <2>5, CallReadsApart
<1> QED
  BY <1>3, <1>4 DEF Load

\* Every operation of the API starts.
LEMMA CallStartApart ==
    ASSUME IInv, FreshInv, Apart, NEW c \in Clients, CallStart(c),
           UNCHANGED jobVars
    PROVE  FreshStep
BY CreateSubscriptionApart, LoadApart
DEF CallStart, UpdateSubscription, DeleteSubscription, CancelSubscription,
    PaymentCallback

\* What follows the first write of CreateSubscription.
LEMMA CreateStoredFresh ==
    ASSUME CallsInv, NEW c \in Clients, NEW id, NEW row, NEW reply,
           reply = "ok" => table'[id] = row,
           Planned(row.type) => row.status = Processing,
           now \in Nat, UNCHANGED now,
           CreateStored(c, id, row, reply)
    PROVE  /\ FreshCall(call[c])'
           /\ \A d \in Clients \ {c} : call'[d] = call[d]
           /\ call'[c].pc \in {"pay", "idle"}
           /\ Asked(c)' =
                 IF reply = "ok"
                 THEN IF Planned(row.type) THEN Atomic!Unpaid(id)
                      ELSE Atomic!Answered("ok")
                 ELSE Atomic!Answered(reply)
<1>1. CASE Answer(c, reply) /\ (reply = "ok" => ~Planned(row.type))
  BY <1>1, AnswerFresh
<1>2. CASE /\ reply = "ok" /\ Planned(row.type)
           /\ call' = [call EXCEPT ![c] =
                 [Idle("none") EXCEPT !.pc = "pay", !.id = id, !.row = row]]
  <2>1. /\ call'[c].pc = "pay" /\ call'[c].id = id
        /\ call'[c].row = row /\ call'[c].at = 0
    BY <1>2 DEF CallsInv, Idle
  <2>2. FreshCall(call[c])'
    BY <1>2, <2>1 DEF FreshCall
  <2>3. Asked(c)' = Atomic!Unpaid(id)
    BY <2>1 DEF Asked, Atomic!Unpaid
  <2> QED
    BY <1>2, <2>1, <2>2, <2>3 DEF CallsInv
<1> QED
  BY <1>1, <1>2 DEF CreateStored

\* The INSERT: the lookup that found nothing is still right.
LEMMA CreateInsertApart ==
    ASSUME IInv, FreshInv, Apart, NEW c \in Clients, CreateInsert(c),
           UNCHANGED jobVars
    PROVE  FreshStep
<1>1. TableInv /\ CallsInv /\ now \in Nat /\ UNCHANGED now /\ Founds(c)
  BY Parts DEF CreateInsert, FreshInv, Founds
<1> DEFINE req == call[c].req
           t   == call[c].at
           row == CreateRow(req, t)
<1>2. PICK reply \in InsertReplies :
         Create(row, reply) /\ CreateStored(c, Len(table) + 1, row, reply)
  BY DEF CreateInsert
<1>3. /\ Identity(row) = Identity(req) /\ req \in CreateRequest
      /\ CreateRejection(req) = "none" /\ t \in 0 .. now
  BY <1>1, CreateRowSound
  DEF CallsInv, CallInv, CallOK, CallReady, FreshInv, FreshCall, Founds
<1>4. row.type = req.type /\ (Planned(row.type) => row.status = Processing)
  BY DEF CreateRow
<1> HIDE DEF row
<1>5. \A i \in Ids : Identity(table[i]) # Identity(row)
  BY <1>1, <1>3 DEF FreshInv, FreshCall, Founds
<1>6. /\ UNCHANGED table \/ table' = Append(table, row)
      /\ \A i \in Ids : table'[i] = table[i]
      /\ \A i \in Ids' : i \in Ids \/ table'[i] = row
      /\ reply = "ok" => table'[Len(table) + 1] = row
      /\ reply = "ok" \/ (reply = "error" /\ Faulty)
      /\ UNCHANGED table => reply = "error"
  BY <1>1, <1>2, <1>5, InsertAdds
<1> DEFINE next == IF Planned(req.type) THEN Atomic!Unpaid(Len(table) + 1)
                   ELSE Atomic!Answered("ok")
<1>7. /\ FreshCall(call[c])'
      /\ \A d \in Clients \ {c} : call'[d] = call[d]
      /\ Asked(c)' = IF reply = "ok" THEN next ELSE Atomic!Answered(reply)
  BY <1>1, <1>2, <1>4, <1>6, CreateStoredFresh
<1>8. FreshInv'
  BY <1>1, <1>3, <1>6, <1>7, CallMovesApart DEF jobVars
<1>9. OptOutStep
  BY <1>6 DEF OptOutStep, jobVars
<1>10. AtomicStep
  <2>1. Asking[c] = req /\ req.op = "create"
    BY <1>1, <1>3, Seen DEF Asked, Founds, CreateRequest
  <2>2. Atomic!Turns(c, IF reply = "ok" THEN next ELSE Atomic!Answered(reply))
    BY <1>1, <1>7, TurnsTo DEF jobVars
  <2>3. CASE table' = Append(table, row)
    <3>1. Atomic!Goes(c, next)
      BY <1>6, <2>2 DEF Atomic!Goes
    <3>2. Atomic!Created(c, Len(table) + 1)
      BY <2>1, <3>1, SameRequests DEF Atomic!Created
    <3>3. Atomic!Subscribe(c, t)
      BY <1>3, <1>5, <2>1, <2>3, <3>2, SameComputations, SameRequests
      DEF Atomic!Subscribe, Atomic!Ids, Ids, row
    <3> QED
      BY <1>3, <3>3, Times, ClientStepAtomic
  <2>4. CASE UNCHANGED table
    <3>1. Atomic!Fail(c)
      BY <1>6, <2>1, <2>2, <2>4 DEF Atomic!Fail
    <3> QED
      BY <3>1, ClientStepAtomic DEF Atomic!ClientStep
  <2> QED
    BY <1>6, <2>3, <2>4
<1> QED
  BY <1>8, <1>9, <1>10 DEF FreshStep

\* A call that writes one row, and may switch it on if it may.
LEMMA CallPutsSwitch ==
    ASSUME NEW c \in Clients, NEW id \in Ids, NEW row, Puts(id, row),
           UNCHANGED job,
           row.autoRenew =>
              \/ table[id].autoRenew
              \/ Recreates(c, id)
              \/ Saves(c, id) /\ call[c].req.op = "update" /\ call[c].req.hasAutoRenew
    PROVE  OptOutStep
BY DEF OptOutStep, Puts

\* A call that writes the row it is at.
LEMMA CallWritesApart ==
    ASSUME IInv, FreshInv, Apart, NEW c \in Clients,
           \A d \in Clients \ {c} : call'[d] = call[d],
           UNCHANGED <<now, job>>,
           call[c].id # 0, NEW row, SameIdentity(call[c].id, row),
           Puts(call[c].id, row), FreshCall(call[c])'
    PROVE  FreshInv'
<1>1. /\ Ids' = Ids
      /\ \A i \in Ids \ CallRows(c) : table'[i] = table[i]
  BY DEF Puts, CallRows
<1>2. \A i \in Ids : Identity(table'[i]) = Identity(table[i])
  BY DEF Puts, SameIdentity
<1> QED
  BY <1>1, <1>2, CallMovesApart

\* The first UPDATE of CreateSubscription.
LEMMA CreateOverwriteApart ==
    ASSUME IInv, FreshInv, Apart, NEW c \in Clients, CreateOverwrite(c),
           UNCHANGED jobVars
    PROVE  FreshStep
<1>1. TableInv /\ CallsInv /\ now \in Nat /\ UNCHANGED now
  BY Parts DEF CreateOverwrite, FreshInv
<1> DEFINE id  == call[c].id
           req == call[c].req
           t   == call[c].at
           row == CreateRow(req, t)
<1>2. PICK reply \in UpdateReplies :
         Update(id, row, reply) /\ CreateStored(c, id, row, reply)
  BY DEF CreateOverwrite
<1>3. /\ row \in Row /\ Identity(row) = Identity(req)
      /\ req \in CreateRequest /\ CreateRejection(req) = "none"
      /\ t \in 0 .. now
  BY <1>1, CreateRowSound
  DEF CallsInv, CallInv, CallOK, CallReady, CreateOverwrite, FreshInv, FreshCall
<1>4. row.type = req.type /\ (Planned(row.type) => row.status = Processing)
  BY DEF CreateRow
<1> HIDE DEF row
<1>5. id \in Ids /\ id # 0 /\ SameIdentity(id, row)
  BY <1>1, <1>3
  DEF CallsInv, CallInv, CallOK, CallReady, CreateOverwrite, SameIdentity
<1>6. /\ Puts(id, row)
      /\ reply = "ok" => table'[id] = row
      /\ reply = "not_found" => UNCHANGED table
      /\ reply = "error" => Faulty
      /\ \/ table' = [table EXCEPT ![id] = row]
         \/ UNCHANGED table /\ reply = "error"
  BY <1>1, <1>2, <1>3, <1>5, UpdatePuts
<1> DEFINE next == IF Planned(req.type) THEN Atomic!Unpaid(id)
                   ELSE Atomic!Answered("ok")
<1>7. /\ FreshCall(call[c])'
      /\ \A d \in Clients \ {c} : call'[d] = call[d]
      /\ call'[c].pc \in {"pay", "idle"}
      /\ Asked(c)' = IF reply = "ok" THEN next ELSE Atomic!Answered(reply)
  BY <1>1, <1>2, <1>4, <1>6, CreateStoredFresh
<1>8. FreshInv'
  BY <1>1, <1>5, <1>6, <1>7, CallWritesApart DEF jobVars
<1>9. Recreates(c, id)
  BY <1>7 DEF CreateOverwrite, Recreates
<1>10. OptOutStep
  BY <1>5, <1>6, <1>9, CallPutsSwitch DEF jobVars
<1>11. AtomicStep
  <2>1. Asking[c] = req /\ req.op = "create"
    BY <1>3, Seen DEF Asked, CreateOverwrite, CreateRequest
  <2>2. Atomic!Turns(c, IF reply = "ok" THEN next ELSE Atomic!Answered(reply))
    BY <1>1, <1>7, TurnsTo DEF jobVars
  <2>3. ASSUME Atomic!Becomes(id, row), Atomic!Goes(c, next)
        PROVE  Atomic!ClientStep(c)
    <3>1. Atomic!Created(c, id)
      BY <2>1, <2>3, SameRequests DEF Atomic!Created
    <3>2. Atomic!Resubscribe(c, id, t)
      BY <1>3, <1>5, <2>1, <2>3, <3>1, SameComputations, SameRequests
      DEF Atomic!Resubscribe, SameIdentity, row
    <3> QED
      BY <1>3, <1>5, <3>2, Times
  <2>4. Asking[c].op \notin {"none", "pay"}
    BY <2>1
  <2> HIDE DEF next
  <2> QED
    BY <1>2, <1>6, <2>2, <2>3, <2>4, WritesAtomically
<1> QED
  BY <1>8, <1>10, <1>11 DEF FreshStep

\* The provider call of CreateSubscription.
LEMMA CreatePayApart ==
    ASSUME IInv, FreshInv, Apart, NEW c \in Clients, CreatePay(c), UNCHANGED jobVars
    PROVE  FreshStep
<1>1. CallsInv /\ now \in Nat /\ UNCHANGED <<table, now, job>>
  BY Parts DEF FreshInv, CreatePay, storeVars, jobVars
<1>2. Asking[c] = Atomic!Unpaid(call[c].id)
  BY Seen DEF CreatePay, Asked, Atomic!Unpaid
<1>3. PICK result \in PaymentResults :
         IF result = "panic" THEN Answer(c, "error")
         ELSE call' = [call EXCEPT ![c] =
                [Idle("none") EXCEPT !.pc = "settle", !.id = call[c].id,
                                     !.row = call[c].row, !.at = now,
                                     !.result = result]]
  BY DEF CreatePay
<1> DEFINE to == IF result = "panic" THEN Atomic!Answered("error")
                 ELSE Atomic!Paid(call[c].id, result)
<1>4. ASSUME call' = [call EXCEPT ![c] =
                [Idle("none") EXCEPT !.pc = "settle", !.id = call[c].id,
                                     !.row = call[c].row, !.at = now,
                                     !.result = result]]
      PROVE  /\ FreshCall(call[c])'
             /\ \A d \in Clients \ {c} : call'[d] = call[d]
             /\ Asked(c)' = Atomic!Paid(call[c].id, result)
  <2>1. /\ call'[c].pc = "settle" /\ call'[c].id = call[c].id
        /\ call'[c].row = call[c].row /\ call'[c].at = now
        /\ call'[c].result = result
    BY <1>1, <1>4 DEF CallsInv, Idle
  <2>2. FreshCall(call[c])'
    BY <1>1, <2>1 DEF FreshInv, FreshCall, CreatePay
  <2>3. Asked(c)' = Atomic!Paid(call[c].id, result)
    BY <2>1 DEF Asked, Atomic!Paid
  <2> QED
    BY <1>1, <1>4, <2>2, <2>3 DEF CallsInv
<1>5. /\ FreshCall(call[c])'
      /\ \A d \in Clients \ {c} : call'[d] = call[d]
      /\ Asked(c)' = to
  BY <1>1, <1>3, <1>4, AnswerFresh
<1>6. Atomic!Turns(c, to) => Atomic!ClientStep(c)
  <2>1. Atomic!Turns(c, to) => Atomic!Pay(c)
    BY <1>1, <1>2 DEF Atomic!Pay, Atomic!Unpaid
  <2> QED
    BY <2>1 DEF Atomic!ClientStep
<1> QED
  BY <1>1, <1>5, <1>6, CallReadsApart

\* The last UPDATE of CreateSubscription.
LEMMA CreateSettleApart ==
    ASSUME IInv, FreshInv, Apart, NEW c \in Clients, CreateSettle(c),
           UNCHANGED jobVars
    PROVE  FreshStep
<1>1. TableInv /\ CallsInv /\ now \in Nat /\ UNCHANGED now
  BY Parts DEF CreateSettle, FreshInv
<1> DEFINE id     == call[c].id
           old    == call[c].row
           result == call[c].result
<1>2. PICK t \in call[c].at .. now, reply \in UpdateReplies :
         /\ Update(id, CreateSettled(old, result, t), reply)
         /\ Answer(c, reply)
  BY DEF CreateSettle
<1>3. /\ id \in Ids /\ id # 0 /\ old \in Row /\ Sound(old)
      /\ SameIdentity(id, old) /\ Planned(old.type)
      /\ result \in PaymentResults
  BY <1>1 DEF CallsInv, CallInv, CallOK, CallReady, CreateSettle, TableInv, Ids
<1>4. table[id] = old /\ old.status = Processing /\ t \in 0 .. now
  BY DEF FreshInv, FreshCall, CreateSettle
<1> DEFINE row == CreateSettled(old, result, t)
<1>5. row.autoRenew = old.autoRenew
  BY <1>3, OthersSwitchNothingOn
<1>6. row \in Row /\ SameIdentity(id, row)
  BY <1>1, <1>3, <1>4, CreateSettledGood DEF Good, SameIdentity
<1> HIDE DEF row
<1>7. /\ Puts(id, row)
      /\ reply = "not_found" => UNCHANGED table
      /\ reply = "error" => Faulty
      /\ \/ table' = [table EXCEPT ![id] = row]
         \/ UNCHANGED table /\ reply = "error"
  BY <1>1, <1>2, <1>3, <1>6, UpdatePuts DEF row
<1>8. FreshInv'
  BY <1>1, <1>2, <1>3, <1>6, <1>7, AnswerFresh, CallWritesApart DEF jobVars
<1>9. OptOutStep
  BY <1>3, <1>4, <1>5, <1>7, CallPutsSwitch DEF jobVars
<1>10. AtomicStep
  <2>1. Asking[c] = Atomic!Paid(id, result)
    BY Seen DEF Asked, CreateSettle, Atomic!Paid
  <2>2. Atomic!Turns(c, Atomic!Answered(reply))
    BY <1>1, <1>2, AnswerTurns DEF jobVars
  <2>3. ASSUME Atomic!Becomes(id, row), Atomic!Goes(c, Atomic!Answered("ok"))
        PROVE  Atomic!ClientStep(c)
    <3>1. Atomic!SettlePurchase(c, t)
      BY <1>3, <1>4, <2>1, <2>3, SameComputations, SameRequests
      DEF Atomic!SettlePurchase, Atomic!Paid, Atomic!Processing, Processing, row
    <3> QED
      BY <1>4, <3>1, Times
  <2>4. Asking[c].op \notin {"none", "pay"}
    BY <2>1 DEF Atomic!Paid
  <2> QED
    BY <1>7, <2>2, <2>3, <2>4, WritesAtomically
<1> QED
  BY <1>8, <1>9, <1>10 DEF FreshStep

\* The UPDATE of an operation on an existing row.
LEMMA SaveApart ==
    ASSUME IInv, FreshInv, Apart, NEW c \in Clients, Save(c), UNCHANGED jobVars
    PROVE  FreshStep
<1>1. TableInv /\ CallsInv /\ now \in Nat /\ UNCHANGED now
  BY Parts DEF Save, FreshInv
<1> DEFINE req == call[c].req
           id  == call[c].id
           old == call[c].row
<1>2. PICK t \in call[c].at .. now, reply \in UpdateReplies :
         Update(id, Applied(req, old, t), reply) /\ Answer(c, reply)
  BY DEF Save
<1>3. /\ id \in Ids /\ id # 0 /\ old \in Row /\ Sound(old)
      /\ SameIdentity(id, old)
      /\ req \in Requests /\ req.op # "create" /\ Rejection(req) = "none"
  BY <1>1 DEF CallsInv, CallInv, CallOK, CallReady, Save, TableInv, Ids
<1>4. table[id] = old /\ req.op \in Ops /\ req.id = id /\ t \in 0 .. now
  BY DEF FreshInv, FreshCall, Save
<1> DEFINE row == Applied(req, old, t)
<1>5. row.autoRenew => old.autoRenew \/ (req.op = "update" /\ req.hasAutoRenew)
  BY <1>3, <1>4, AppliedSwitches
<1>6. row \in Row /\ SameIdentity(id, row)
  BY <1>3, <1>4, AppliedGood DEF Good, SameIdentity
<1> HIDE DEF row
<1>7. /\ Puts(id, row)
      /\ reply = "not_found" => UNCHANGED table
      /\ reply = "error" => Faulty
      /\ \/ table' = [table EXCEPT ![id] = row]
         \/ UNCHANGED table /\ reply = "error"
  BY <1>1, <1>2, <1>3, <1>6, UpdatePuts DEF row
<1>8. FreshInv'
  BY <1>1, <1>2, <1>3, <1>6, <1>7, AnswerFresh, CallWritesApart DEF jobVars
<1>9. Saves(c, id)
  BY <1>1, <1>2, AnswerFresh DEF Save, Saves
<1>10. OptOutStep
  BY <1>3, <1>4, <1>5, <1>7, <1>9, CallPutsSwitch DEF jobVars
<1>11. AtomicStep
  <2>1. Asking[c] = req /\ req.op \in {"update", "delete", "cancel", "callback"}
    BY <1>3, Seen
    DEF Asked, Save, Requests, CreateRequest, UpdateRequest, DeleteRequest,
        CancelRequest, CallbackRequest
  <2>2. Atomic!Turns(c, Atomic!Answered(reply))
    BY <1>1, <1>2, AnswerTurns DEF jobVars
  <2>3. ASSUME Atomic!Becomes(id, row), Atomic!Goes(c, Atomic!Answered("ok"))
        PROVE  Atomic!ClientStep(c)
    <3>1. Atomic!Handle(c, t)
      BY <1>4, <2>1, <2>3, SameComputations DEF Atomic!Handle, row
    <3> QED
      BY <1>4, <3>1, Times
  <2> QED
    BY <1>7, <2>1, <2>2, <2>3, WritesAtomically
<1> QED
  BY <1>8, <1>10, <1>11 DEF FreshStep

\* The death of the API process.
LEMMA ApiCrashApart ==
    ASSUME IInv, FreshInv, Apart, ApiCrash, Crashes, UNCHANGED jobVars
    PROVE  FreshStep
<1>1. /\ UNCHANGED <<table, now, job>>
      /\ \A c \in Clients : call'[c].pc = "idle" /\ call'[c].at = 0
  BY DEF ApiCrash, storeVars, jobVars, Idle
<1>2. OptOutStep
  BY <1>1, ReadsSwitchNothingOn
<1>3. \A c \in Clients : FreshCall(call[c])'
  BY <1>1 DEF FreshInv, FreshCall
<1>4. \A w \in Workers : FreshJob(job[w])'
  BY <1>1 DEF FreshInv, FreshJob, FreshRow
<1>5. AtomicStep
  <2>1. \A c \in Clients : Asked(c)' = Atomic!Answered("none")
    BY DEF ApiCrash, Idle, Asked, Atomic!Answered
  <2>2. Asking' = [c \in Clients |-> Atomic!Answered("none")]
    BY <2>1 DEF Asking
  <2>3. Atomic!Restart
    BY <1>1, <2>2, SameSeen DEF Atomic!Restart
  <2> QED
    BY <2>3 DEF AtomicStep, Atomic!Next
<1> QED
  BY <1>1, <1>2, <1>3, <1>4, <1>5 DEF FreshStep, FreshInv

-----------------------------------------------------------------------------
(* The steps of the jobs.                                                  *)

\* A step of w that reads only.
LEMMA JobReadsApart ==
    ASSUME IInv, FreshInv, Apart, NEW w \in Workers,
           \A v \in Workers \ {w} : job'[v] = job[v],
           UNCHANGED <<table, now, call>>, FreshJob(job[w])',
           Atomic!Moves(w, Task(w)') => Atomic!WorkerStep(w)
    PROVE  FreshStep
<1>1. OptOutStep
  BY ReadsSwitchNothingOn
<1>2. FreshInv'
  BY <1>1, JobMovesApart DEF Ids
<1>3. AtomicStep
  BY MovesTo, WorkerStepAtomic
<1> QED
  BY <1>1, <1>2, <1>3 DEF FreshStep

\* The listing at the start of a batch: of due rows, stale ones for the
\* cleanup, expired ones for the expiry.
LEMMA ListedApart ==
    ASSUME IInv, FreshInv, Apart, NEW w \in Workers, NEW pc, NEW ids,
           Listed(w, pc, ids), UNCHANGED apiVars,
           \/ /\ pc = "mark" /\ w \in Renewers
              /\ ids = {i \in Ids : Atomic!Due(table[i], now)}
           \/ /\ pc = "cleanup" /\ w \in Cleaners
              /\ ids = {i \in Ids : Atomic!Stale(table[i], now)}
           \/ /\ pc = "expire" /\ w \in Expirers
              /\ ids = {i \in Ids : Atomic!Over(table[i], now)}
    PROVE  FreshStep
<1>1. JobsInv /\ now \in Nat
  BY Parts DEF FreshInv
<1>2. UNCHANGED <<table, now, call>>
  BY DEF Listed, storeVars, apiVars
<1>3. /\ job'[w].pc = pc /\ job'[w].batch = Snapshot(ids)
      /\ job'[w].now = now /\ job'[w].at = 0
      /\ \A v \in Workers \ {w} : job'[v] = job[v]
  BY <1>1 DEF JobsInv, Listed, Resting
<1>4. FreshJob(job[w])'
  <2>1. \A i \in ids : FreshRow(job[w], i)'
    BY <1>2, <1>3 DEF FreshRow, RenewalPcs, Snapshot
  <2> QED
    BY <1>1, <1>2, <1>3, <2>1 DEF FreshJob, Snapshot
<1>5. Atomic!Moves(w, Task(w)') => Atomic!WorkerStep(w)
  <2>1. Tasks[w] = Atomic!Free
    <3>1. job[w].pc = "idle" /\ JobRows(w) = {}
      BY DEF Listed, FreshInv, FreshJob, JobRows
    <3>2. AtPayment(w) = {} /\ Outcome(w) = Null
      BY <3>1 DEF AtPayment, Outcome
    <3> QED
      BY <3>1, <3>2, Seen DEF Task, Atomic!Free, Atomic!ToDo
  <2>2. JobRows(w)' = ids
    BY <1>3 DEF Snapshot, JobRows
  <2>3. Task(w)' = Atomic!ToDo(pc, ids)
    <3>1. pc \notin {"pay", "settle"}
      OBVIOUS
    <3>2. job'[w].pc = pc
      BY <1>3
    <3> QED
      BY <2>2, <3>1, <3>2, PlainTask
  <2>4. Atomic!Moves(w, Task(w)') => Atomic!Find(w, pc, ids)
    BY <1>2, <2>1, <2>3 DEF Listed, Atomic!Find
  <2>5. Atomic!Moves(w, Task(w)') => Atomic!Begin(w)
    BY <2>4 DEF Atomic!Begin, Atomic!Ids, Ids
  <2> QED
    BY <2>5 DEF Atomic!WorkerStep
<1> QED
  BY <1>2, <1>3, <1>4, <1>5, JobReadsApart

\* Every batch starts.
LEMMA JobStartApart ==
    ASSUME IInv, FreshInv, Apart, NEW w \in Workers, JobStart(w),
           UNCHANGED apiVars
    PROVE  FreshStep
<1>1. CASE RenewList(w)
  <2>1. ListDueAutoRenew(now) = {i \in Ids : Atomic!Due(table[i], now)}
    BY DEF ListDueAutoRenew, Atomic!Due, Atomic!Active, Active
  <2> QED
    BY <1>1, <2>1, ListedApart DEF RenewList
<1>2. CASE CleanupList(w)
  <2>1. ListPendingPaymentStale(now - PendingPaymentTimeout) =
           {i \in Ids : Atomic!Stale(table[i], now)}
    BY DEF ListPendingPaymentStale, Atomic!Stale, Atomic!PendingPayment,
           PendingPayment
  <2> QED
    BY <1>2, <2>1, ListedApart DEF CleanupList
<1>3. CASE ExpireList(w)
  <2>1. ListExpiredActive(now) = {i \in Ids : Atomic!Over(table[i], now)}
    BY DEF ListExpiredActive, Atomic!Over, Atomic!Active, Active
  <2> QED
    BY <1>3, <2>1, ListedApart DEF ExpireList
<1> QED
  BY <1>1, <1>2, <1>3 DEF JobStart

\* What a worker in the middle of a batch has listed is what the table holds.
LEMMA BatchIsTable ==
    ASSUME IInv, FreshInv, NEW w \in Workers, job[w].pc # "idle"
    PROVE  /\ now \in Nat /\ job[w].now \in 0 .. now /\ job[w].at \in 0 .. now
           /\ \A i \in DOMAIN job[w].batch :
                 /\ i \in Ids
                 /\ job[w].batch[i] = table[i]
                 /\ table[i] \in Row
                 /\ Sound(table[i])
                 /\ FreshRow(job[w], i)
BY Parts, BatchFields
DEF FreshInv, FreshJob, FreshRow, JobsInv, JobInv, JobOK

\* A row that was due, stale or over when it was listed is so later.
LEMMA LiveLater ==
    ASSUME NEW row \in Row, NEW s \in Int, NEW t \in Int, s <= t
    PROVE  /\ Atomic!Due(row, s) => Atomic!Due(row, t) /\ row.status = Active
                                                       /\ row.autoRenew
           /\ Atomic!Stale(row, s) => /\ row.status = PendingPayment
                                      /\ row.updatedAt < t - PendingPaymentTimeout
           /\ Atomic!Over(row, s) => /\ row.status = Active
                                     /\ row.endAt # Null
                                     /\ row.endAt < t
BY RowFields, ConfigAssumption
DEF Atomic!Due, Atomic!Stale, Atomic!Over, Atomic!Active, Active,
    Atomic!PendingPayment, PendingPayment, MaybeTime

\* Writing the item it is at, a batch goes on with rows that are as listed.
\* The items after the one that is charged are still due.
LEMMA AdvanceFresh ==
    ASSUME IInv, FreshInv, NEW w \in Workers, job[w].pc # "idle",
           NEW id \in DOMAIN job[w].batch, First(w, id),
           NEW row, Puts(id, row),
           NEW pc,
           \/ pc = "mark" /\ job[w].pc \in RenewalPcs
           \/ pc = job[w].pc /\ pc \in {"cleanup", "expire"},
           NEW t \in job[w].now .. now, UNCHANGED now,
           pc # "mark" => t = job[w].now,
           Advance(w, id, pc, t)
    PROVE  /\ FreshJob(job[w])'
           /\ \A v \in Workers \ {w} : job'[v] = job[v]
<1> DEFINE rest == DOMAIN job[w].batch \ {id}
<1>1. DOMAIN job = Workers /\ now \in Nat /\ job[w].now \in 0 .. now
  BY Parts, BatchIsTable DEF JobsInv
<1>2. \A v \in Workers \ {w} : job'[v] = job[v]
  BY <1>1 DEF Advance
<1>3. CASE rest = {}
  <2>1. job'[w] = Resting
    BY <1>1, <1>3 DEF Advance
  <2> QED
    BY <1>1, <1>2, <2>1 DEF FreshJob, Resting, Snapshot
<1>4. CASE rest # {}
  <2>1. /\ job'[w].pc = pc /\ job'[w].now = t /\ job'[w].at = 0
        /\ job'[w].batch = [i \in rest |-> job[w].batch[i]]
    BY <1>1, <1>4 DEF Advance, Resting
  <2>2. ASSUME NEW i \in rest PROVE FreshRow(job[w], i)'
    <3>1. /\ i \in Ids /\ id \in Ids /\ table'[i] = table[i]
          /\ table[i] \in Row /\ FreshRow(job[w], i)
      BY BatchIsTable DEF Puts
    <3>2. job'[w].batch[i] = table'[i]
      BY <2>1, <3>1 DEF FreshRow
    <3>3. CASE pc = "mark"
      <4>1. ~(i <= id)
        <5>1. Ids \subseteq Int
          BY Parts DEF TableInv, Ids
        <5> QED
          BY <3>1, <5>1 DEF First
      <4>2. ~Foremost(job[w], i)
        BY <4>1 DEF Foremost
      <4>3. Atomic!Due(table[i], job[w].now)
        BY <3>1, <3>3, <4>2 DEF FreshRow
      <4>4. Atomic!Due(table'[i], t)
        BY <1>1, <3>1, <4>3, LiveLater
      <4> QED
        BY <2>1, <3>2, <3>3, <4>4 DEF FreshRow
    <3>4. CASE pc # "mark"
      BY <2>1, <3>1, <3>2, <3>4 DEF FreshRow, RenewalPcs
    <3> QED
      BY <3>3, <3>4
  <2>3. FreshJob(job[w])'
    BY <1>1, <2>1, <2>2 DEF FreshJob
  <2> QED
    BY <1>2, <2>3
<1> QED
  BY <1>3, <1>4

\* A worker that writes an item of its batch.
LEMMA JobWritesApart ==
    ASSUME IInv, FreshInv, Apart, NEW w \in Workers,
           \A v \in Workers \ {w} : job'[v] = job[v],
           UNCHANGED <<now, call>>,
           NEW id \in DOMAIN job[w].batch, NEW row, SameIdentity(id, row),
           Puts(id, row), FreshJob(job[w])'
    PROVE  FreshInv'
<1>1. /\ Ids' = Ids
      /\ \A i \in Ids \ JobRows(w) : table'[i] = table[i]
  BY DEF Puts, JobRows
<1>2. \A i \in Ids : Identity(table'[i]) = Identity(table[i])
  BY DEF Puts, SameIdentity
<1> QED
  BY <1>1, <1>2, JobMovesApart

\* A worker that writes one row, switching nothing on.
LEMMA JobPutsSwitch ==
    ASSUME NEW w \in Workers, NEW id \in Ids, NEW row, Puts(id, row),
           \A v \in Workers \ {w} : job'[v] = job[v],
           row.autoRenew => table[id].autoRenew
    PROVE  OptOutStep
BY DEF OptOutStep, Puts

\* A worker's UPDATE of an item with a sound rewriting of it.
LEMMA ItemPuts ==
    ASSUME IInv, FreshInv, NEW w \in Workers, job[w].pc # "idle",
           NEW id \in DOMAIN job[w].batch, NEW row, Good(table[id], row),
           NEW reply, Update(id, row, reply), UNCHANGED now
    PROVE  /\ Puts(id, row)
           /\ reply = "ok" => table'[id] = row
           /\ reply = "not_found" => table[id] = row
           /\ \/ table' = [table EXCEPT ![id] = row]
              \/ UNCHANGED table /\ reply = "error"
           /\ reply = "error" => Faulty
           /\ SameIdentity(id, row)
<1>1. TableInv /\ id \in Ids
  BY Parts, BatchIsTable
<1>2. row \in Row /\ SameIdentity(id, row)
  BY DEF Good, SameIdentity
<1> QED
  BY <1>1, <1>2, UpdatePuts

\* An item that is written and done with.
LEMMA ItemApart ==
    ASSUME IInv, FreshInv, Apart, NEW w \in Workers, job[w].pc # "idle",
           NEW id \in DOMAIN job[w].batch, First(w, id),
           NEW row, Good(table[id], row),
           row.autoRenew => table[id].autoRenew,
           NEW reply, Update(id, row, reply),
           NEW pc,
           \/ pc = "mark" /\ job[w].pc \in {"mark", "settle"}
           \/ pc = job[w].pc /\ pc \in {"cleanup", "expire"},
           NEW t \in job[w].now .. now,
           pc # "mark" => t = job[w].now,
           Advance(w, id, pc, t), UNCHANGED <<now, call>>,
           Atomic!Becomes(id, row) /\ Atomic!Done(w, id, pc) => Atomic!WorkerStep(w)
    PROVE  FreshStep
<1>1. /\ Puts(id, row) /\ SameIdentity(id, row)
      /\ \/ table' = [table EXCEPT ![id] = row]
         \/ UNCHANGED table /\ Faulty
  BY ItemPuts
<1>2. /\ FreshJob(job[w])'
      /\ \A v \in Workers \ {w} : job'[v] = job[v]
  BY <1>1, AdvanceFresh DEF RenewalPcs
<1>3. FreshInv'
  BY <1>1, <1>2, JobWritesApart
<1>4. id \in Ids
  BY BatchIsTable
<1>5. OptOutStep
  BY <1>1, <1>2, <1>4, JobPutsSwitch
<1>6. AtomicStep
  BY <1>1, ItemsAtomically
<1> QED
  BY <1>3, <1>5, <1>6 DEF FreshStep

\* The mark before a renewal payment.
LEMMA RenewMarkApart ==
    ASSUME IInv, FreshInv, Apart, NEW w \in Workers, RenewMark(w),
           UNCHANGED apiVars
    PROVE  FreshStep
<1>1. JobsInv /\ job[w].pc = "mark"
  BY Parts DEF RenewMark
<1>2. PICK id \in DOMAIN job[w].batch, reply \in UpdateReplies :
         LET marked == RenewMarked(job[w].batch[id], job[w].now)
         IN /\ First(w, id)
            /\ Update(id, marked, reply)
            /\ IF reply = "ok"
               THEN job' = [job EXCEPT ![w] =
                        [Resting EXCEPT
                            !.pc = "pay", !.now = job[w].now,
                            !.batch = [job[w].batch EXCEPT ![id] = marked]]]
               ELSE Advance(w, id, "mark", job[w].now)
  BY DEF RenewMark
<1> DEFINE row == RenewMarked(table[id], job[w].now)
<1>3. UNCHANGED <<now, call>>
  BY DEF RenewMark, apiVars
<1>4. /\ job[w].batch[id] = table[id] /\ id \in Ids
      /\ table[id] \in Row /\ Sound(table[id])
      /\ now \in Nat /\ job[w].now \in 0 .. now
      /\ Atomic!Due(table[id], job[w].now)
  BY <1>1, BatchIsTable DEF FreshRow, RenewalPcs
<1>5. table[id].status = Active /\ table[id].autoRenew
  BY <1>4, LiveLater
<1>6. Good(table[id], row) /\ row.autoRenew = table[id].autoRenew
      /\ row.status # table[id].status
      /\ row.status = Processing
  <2>1. row.status = Processing /\ row.status # table[id].status
    BY <1>4, <1>5 DEF RenewMarked, Row, Processing, Active
  <2>2. row.autoRenew = table[id].autoRenew
    BY <1>4 DEF RenewMarked, Row
  <2>3. Good(table[id], row)
    BY <1>4, RenewMarkedGood
  <2> QED
    BY <2>1, <2>2, <2>3
<1>7. /\ Atomic!Becomes(id, row)
      /\ \/ Atomic!Moves(w, Atomic!Renewing("pay", JobRows(w), id, Null))
         \/ Faulty /\ Atomic!Done(w, id, "mark")
      => Atomic!WorkerStep(w)
  <2>1. Tasks[w].duty = "mark"
    BY <1>1, TaskFields
  <2>2. /\ Atomic!Becomes(id, row)
        /\ \/ Atomic!Moves(w, Atomic!Renewing("pay", JobRows(w), id, Null))
           \/ Faulty /\ Atomic!Done(w, id, "mark")
        => Atomic!StartRenewal(w, id, job[w].now)
    BY <1>4, <2>1, TaskFields, SameComputations DEF Atomic!StartRenewal
  <2> QED
    BY <1>4, <2>2, Times DEF JobRows
<1> HIDE DEF row
<1>8. Update(id, row, reply)
  BY <1>2, <1>4 DEF row
<1>9. CASE reply # "ok" /\ Advance(w, id, "mark", job[w].now)
  <2>1. job[w].now \in job[w].now .. now
    BY <1>4
  <2>2. reply = "not_found" => table[id] = row
    BY <1>1, <1>3, <1>6, <1>8, ItemPuts
  <2>3. reply = "error" => Faulty
    BY <1>8 DEF Update
  <2>4. Faulty
    BY <1>2, <1>6, <1>9, <2>2, <2>3 DEF UpdateReplies
  <2> QED
    BY <1>1, <1>2, <1>3, <1>6, <1>7, <1>8, <1>9, <2>1, <2>4, ItemApart
<1>10. CASE /\ reply = "ok"
            /\ job' = [job EXCEPT ![w] =
                  [Resting EXCEPT
                      !.pc = "pay", !.now = job[w].now,
                      !.batch = [job[w].batch EXCEPT ![id] = row]]]
  <2>1. /\ Puts(id, row) /\ table'[id] = row
        /\ table' = [table EXCEPT ![id] = row] /\ SameIdentity(id, row)
    BY <1>1, <1>3, <1>6, <1>8, <1>10, ItemPuts
  <2>2. /\ job'[w].pc = "pay" /\ job'[w].now = job[w].now /\ job'[w].at = 0
        /\ job'[w].batch = [job[w].batch EXCEPT ![id] = row]
        /\ \A v \in Workers \ {w} : job'[v] = job[v]
    BY <1>1, <1>10 DEF JobsInv, Resting
  <2>3. ASSUME NEW i \in DOMAIN job[w].batch PROVE FreshRow(job[w], i)'
    <3>1. CASE i = id
      <4>1. Foremost(job'[w], i)
        BY <1>2, <2>2, <3>1 DEF Foremost, First
      <4> QED
        BY <1>5, <1>6, <2>1, <2>2, <3>1, <4>1 DEF FreshRow, RenewalPcs
    <3>2. CASE i # id
      <4>1. /\ i \in Ids /\ id \in Ids /\ Ids \subseteq Int
            /\ FreshRow(job[w], i) /\ table'[i] = table[i]
        BY <1>1, <2>1, <3>2, Parts, BatchIsTable DEF Puts, TableInv, Ids
      <4>2. ~Foremost(job'[w], i)
        BY <1>2, <2>2, <3>2, <4>1 DEF Foremost, First
      <4> QED
        BY <1>1, <2>2, <3>2, <4>1, <4>2 DEF FreshRow, RenewalPcs
    <3> QED
      BY <3>1, <3>2
  <2>4. FreshJob(job[w])'
    BY <1>3, <1>4, <2>2, <2>3 DEF FreshJob
  <2>5. FreshInv'
    BY <1>3, <2>1, <2>2, <2>4, JobWritesApart
  <2>6. OptOutStep
    BY <1>4, <1>6, <2>1, <2>2, JobPutsSwitch
  <2>7. Task(w)' = Atomic!Renewing("pay", JobRows(w), id, Null)
    <3>1. /\ DOMAIN job'[w].batch = DOMAIN job[w].batch
          /\ Ids \subseteq Int /\ DOMAIN job[w].batch \subseteq Ids
      BY <1>1, <2>2, Parts DEF TableInv, Ids, JobsInv, JobInv, JobOK
    <3>2. {i \in JobRows(w) : First(w, i)}' = {id} /\ JobRows(w)' = JobRows(w)
      BY <1>2, <3>1 DEF JobRows, First
    <3>3. AtPayment(w)' = {id} /\ Outcome(w)' = Null /\ Outcome(w) = Null
      BY <1>1, <2>2, <3>2 DEF AtPayment, Outcome
    <3> QED
      BY <2>2, <3>2, <3>3 DEF Task, Atomic!Renewing
  <2>8. AtomicStep
    BY <1>3, <1>7, <2>1, <2>2, <2>7, MovesTo, WorkerStepAtomic
    DEF Atomic!Becomes
  <2> QED
    BY <2>5, <2>6, <2>8 DEF FreshStep
<1> QED
  BY <1>2, <1>4, <1>9, <1>10 DEF row

\* The plan lookup and the provider call of a renewal.
LEMMA RenewPayApart ==
    ASSUME IInv, FreshInv, Apart, NEW w \in Workers, RenewPay(w),
           UNCHANGED apiVars
    PROVE  FreshStep
<1>1. JobsInv /\ job[w].pc = "pay"
  BY Parts DEF RenewPay
<1>2. UNCHANGED <<table, now, call>>
  BY DEF RenewPay, storeVars, apiVars
<1>3. PICK id \in DOMAIN job[w].batch, result \in PaymentResults \cup {"no_plan"} :
         /\ First(w, id)
         /\ \/ ~Planned(job[w].batch[id].type) /\ result = "no_plan"
            \/ Faulty /\ result = "no_plan"
            \/ Planned(job[w].batch[id].type) /\ result \in PaymentResults
         /\ Settling(w, result)
  BY DEF RenewPay
<1>4. /\ job'[w].pc = "settle" /\ job'[w].batch = job[w].batch
      /\ job'[w].result = result
      /\ job'[w].now = job[w].now /\ job'[w].at = now
      /\ \A v \in Workers \ {w} : job'[v] = job[v]
  BY <1>1, <1>3 DEF JobsInv, Settling, Resting
<1>5. \A i \in DOMAIN job[w].batch : FreshRow(job[w], i)'
  BY <1>1, <1>2, <1>4, BatchIsTable DEF FreshRow, Foremost, RenewalPcs
<1>6. FreshJob(job[w])'
  BY <1>1, <1>2, <1>4, <1>5, BatchIsTable DEF FreshJob
<1>7. Atomic!Moves(w, Task(w)') => Atomic!WorkerStep(w)
  <2>1. /\ id \in Tasks[w].rows /\ Tasks[w].duty = "pay"
        /\ Tasks[w].marked = {id} /\ table[id] = job[w].batch[id]
    BY <1>1, <1>3, TaskFields, Marked, BatchIsTable DEF JobRows
  <2>2. Task(w)' = Atomic!Renewing("settle", JobRows(w), id, result)
    <3>1. AtPayment(w)' = {id} /\ JobRows(w)' = JobRows(w)
      BY <1>1, <1>4, <2>1, TaskFields DEF AtPayment, JobRows, First
    <3>2. Outcome(w)' = result
      BY <1>4 DEF Outcome
    <3> QED
      BY <1>4, <3>1, <3>2 DEF Task, Atomic!Renewing
  <2>3. IF result = "no_plan" THEN ~Planned(table[id].type) \/ Faulty
        ELSE Planned(table[id].type)
    BY <1>3, <2>1, PaymentAssumption
  <2>4. Atomic!Moves(w, Task(w)') => Atomic!PayRenewal(w, id)
    BY <1>2, <1>3, <2>1, <2>2, <2>3, TaskFields, SameRequests
    DEF Atomic!PayRenewal
  <2> QED
    BY <2>1, <2>4 DEF Atomic!WorkerStep
<1> QED
  BY <1>2, <1>4, <1>6, <1>7, JobReadsApart

\* The write after a renewal payment.
LEMMA RenewSettleApart ==
    ASSUME IInv, FreshInv, Apart, NEW w \in Workers, RenewSettle(w),
           UNCHANGED apiVars
    PROVE  FreshStep
<1>1. JobsInv /\ job[w].pc = "settle"
  BY Parts DEF RenewSettle
<1> DEFINE result == job[w].result
<1>2. PICK id \in DOMAIN job[w].batch, t \in job[w].at .. now,
           reply \in UpdateReplies :
         /\ First(w, id)
         /\ Update(id, RenewSettled(job[w].batch[id], result, t), reply)
         /\ Advance(w, id, "mark", IF result = "no_plan" THEN job[w].now ELSE t)
  BY DEF RenewSettle
<1> DEFINE row == RenewSettled(table[id], result, t)
           at  == IF result = "no_plan" THEN job[w].now ELSE t
<1>3. UNCHANGED <<now, call>>
  BY DEF RenewSettle, apiVars
<1>4. /\ job[w].batch[id] = table[id] /\ id \in Ids
      /\ table[id] \in Row /\ Sound(table[id])
      /\ now \in Nat /\ job[w].now \in 0 .. now /\ t \in 0 .. now
      /\ FreshRow(job[w], id)
  BY <1>1, BatchIsTable
<1>5. table[id].status = Processing /\ table[id].autoRenew
  BY <1>1, <1>2, <1>4 DEF FreshRow, RenewalPcs, Foremost, First
<1>6. /\ result \in PaymentResults \cup {"no_plan"}
      /\ result # "no_plan" => Planned(table[id].type)
  BY <1>1, <1>2, <1>4 DEF JobsInv, JobInv, JobOK, JobReady, First
<1>7. Good(table[id], row) /\ (row.autoRenew => table[id].autoRenew)
  <2>1. Good(table[id], row)
    BY <1>4, <1>6, RenewSettledGood
  <2>2. row.autoRenew => table[id].autoRenew
    BY <1>4, OthersSwitchNothingOn
  <2> QED
    BY <2>1, <2>2
<1>8. Atomic!Becomes(id, row) /\ Atomic!Done(w, id, "mark") => Atomic!WorkerStep(w)
  <2>1. /\ Tasks[w].duty = "settle" /\ id \in Tasks[w].marked
        /\ Tasks[w].result = result
    BY <1>1, <1>2, TaskFields DEF AtPayment, Outcome, JobRows
  <2>2. Atomic!Becomes(id, row) /\ Atomic!Done(w, id, "mark")
           => Atomic!SettleRenewal(w, id, t)
    BY <1>5, <2>1, SameComputations
    DEF Atomic!SettleRenewal, Atomic!Processing, Processing
  <2> QED
    BY <1>4, <2>2, Times DEF JobRows
<1>9. at \in job[w].now .. now
  BY <1>1, <1>2, <1>4, BatchIsTable DEF FreshInv, FreshJob
<1>10. Update(id, row, reply) /\ Advance(w, id, "mark", at)
  BY <1>2, <1>4
<1> HIDE DEF row, at
<1> QED
  BY <1>1, <1>2, <1>3, <1>7, <1>8, <1>9, <1>10, ItemApart

\* One item of the cleanup.
LEMMA CleanupItemApart ==
    ASSUME IInv, FreshInv, Apart, NEW w \in Workers, CleanupItem(w),
           UNCHANGED apiVars
    PROVE  FreshStep
<1>1. job[w].pc = "cleanup" /\ UNCHANGED <<now, call>>
  BY DEF CleanupItem, apiVars
<1>2. PICK id \in DOMAIN job[w].batch, reply \in UpdateReplies :
         /\ First(w, id)
         /\ Update(id, CleanupRow(job[w].batch[id], job[w].now), reply)
         /\ Advance(w, id, "cleanup", job[w].now)
  BY DEF CleanupItem
<1>3. /\ job[w].batch[id] = table[id] /\ id \in Ids
      /\ table[id] \in Row /\ Sound(table[id])
      /\ now \in Nat /\ job[w].now \in 0 .. now
      /\ Atomic!Stale(table[id], job[w].now)
  BY <1>1, BatchIsTable DEF FreshRow
<1> DEFINE row == CleanupRow(table[id], job[w].now)
<1>4. Good(table[id], row) /\ row.autoRenew = table[id].autoRenew
  <2>1. job[w].now \in Int
    BY <1>3
  <2>2. Good(table[id], row)
    BY <1>3, <2>1, CleanupRowGood
  <2>3. row.autoRenew = table[id].autoRenew
    BY <1>3, OthersSwitchNothingOn
  <2> QED
    BY <2>2, <2>3
<1>5. Atomic!Becomes(id, row) /\ Atomic!Done(w, id, "cleanup") => Atomic!WorkerStep(w)
  <2>1. Atomic!Becomes(id, row) /\ Atomic!Done(w, id, "cleanup")
           => Atomic!CleanUp(w, id, job[w].now)
    BY <1>1, <1>3, TaskFields, SameComputations DEF Atomic!CleanUp
  <2> QED
    BY <1>3, <2>1, Times DEF JobRows
<1>6. Update(id, row, reply) /\ job[w].now \in job[w].now .. now
  BY <1>2, <1>3
<1> HIDE DEF row
<1> QED
  BY <1>1, <1>2, <1>4, <1>5, <1>6, ItemApart

\* One item of the expiry.
LEMMA ExpireItemApart ==
    ASSUME IInv, FreshInv, Apart, NEW w \in Workers, ExpireItem(w),
           UNCHANGED apiVars
    PROVE  FreshStep
<1>1. job[w].pc = "expire" /\ UNCHANGED <<now, call>>
  BY DEF ExpireItem, apiVars
<1>2. PICK id \in DOMAIN job[w].batch, reply \in UpdateReplies :
         /\ First(w, id)
         /\ Update(id, ExpireRow(job[w].batch[id], job[w].now), reply)
         /\ Advance(w, id, "expire", job[w].now)
  BY DEF ExpireItem
<1>3. /\ job[w].batch[id] = table[id] /\ id \in Ids
      /\ table[id] \in Row /\ Sound(table[id])
      /\ now \in Nat /\ job[w].now \in 0 .. now
      /\ Atomic!Over(table[id], job[w].now)
  BY <1>1, BatchIsTable DEF FreshRow
<1> DEFINE row == ExpireRow(table[id], job[w].now)
<1>4. Good(table[id], row) /\ ~row.autoRenew
  <2>1. Good(table[id], row)
    BY <1>3, ExpireRowGood
  <2>2. ~row.autoRenew
    BY <1>3, OthersSwitchNothingOn
  <2> QED
    BY <2>1, <2>2
<1>5. Atomic!Becomes(id, row) /\ Atomic!Done(w, id, "expire") => Atomic!WorkerStep(w)
  <2>1. Atomic!Becomes(id, row) /\ Atomic!Done(w, id, "expire")
           => Atomic!Expire(w, id, job[w].now)
    BY <1>1, <1>3, TaskFields, SameComputations DEF Atomic!Expire
  <2> QED
    BY <1>3, <2>1, Times DEF JobRows
<1>6. Update(id, row, reply) /\ job[w].now \in job[w].now .. now
  BY <1>2, <1>3
<1> HIDE DEF row
<1> QED
  BY <1>1, <1>2, <1>4, <1>5, <1>6, ItemApart

\* The death of a worker.
LEMMA JobCrashApart ==
    ASSUME IInv, FreshInv, Apart, NEW w \in Workers, JobCrash(w), Crashes,
           UNCHANGED apiVars
    PROVE  FreshStep
<1>1. UNCHANGED <<table, now, call>>
  BY DEF JobCrash, storeVars, apiVars
<1>2. job'[w] = Resting /\ \A v \in Workers \ {w} : job'[v] = job[v]
  BY Parts DEF JobsInv, JobCrash
<1>3. FreshJob(job[w])'
  BY <1>1, <1>2 DEF FreshInv, FreshJob, Resting, Snapshot
<1>4. Task(w)' = Atomic!Free
  BY <1>2 DEF Task, AtPayment, Outcome, Resting, Snapshot, JobRows,
              Atomic!Free, Atomic!ToDo
<1>5. Atomic!Moves(w, Atomic!Free) => Atomic!WorkerStep(w)
  BY <1>1 DEF Atomic!Die, Atomic!WorkerStep
<1> QED
  BY <1>1, <1>2, <1>3, <1>4, <1>5, JobReadsApart

-----------------------------------------------------------------------------
(* The system.                                                             *)

\* Time passing leaves the copies as fresh as they are.
LEMMA ClockApart ==
    ASSUME IInv, FreshInv, Apart, ClockStep
    PROVE  FreshStep
<1>1. now \in Nat /\ now' = now + 1 /\ UNCHANGED <<table, call, job>>
  BY DEF FreshInv, ClockStep, Tick, apiVars, jobVars
<1>2. OptOutStep
  BY <1>1, ReadsSwitchNothingOn
<1>3. \A c \in Clients : FreshCall(call[c])'
  BY <1>1 DEF FreshInv, FreshCall, Ids
<1>4. \A w \in Workers : FreshJob(job[w])'
  BY <1>1 DEF FreshInv, FreshJob, FreshRow
<1>5. FreshInv'
  BY <1>1, <1>2, <1>3, <1>4 DEF FreshInv
<1>6. AtomicStep
  BY <1>1, SameSeen DEF AtomicStep, Atomic!Next, Atomic!Tick
<1> QED
  BY <1>2, <1>5, <1>6 DEF FreshStep

LEMMA StutterApart ==
    ASSUME IInv, FreshInv, Apart, UNCHANGED vars
    PROVE  FreshStep
<1>1. UNCHANGED <<table, now, call, job>>
  BY DEF vars, storeVars, apiVars, jobVars
<1>2. OptOutStep
  BY <1>1, ReadsSwitchNothingOn
<1>3. \A c \in Clients : FreshCall(call[c])'
  BY <1>1 DEF FreshInv, FreshCall, Ids
<1>4. \A w \in Workers : FreshJob(job[w])'
  BY <1>1 DEF FreshInv, FreshJob, FreshRow
<1>5. FreshInv'
  BY <1>1, <1>2, <1>3, <1>4 DEF FreshInv
<1>6. AtomicStep
  BY <1>1, SameSeen DEF AtomicStep
<1> QED
  BY <1>2, <1>5, <1>6 DEF FreshStep

\* Every step from a state of Apart keeps the invariant, switches no renewal on
\* unasked and is a step of AtomicSubscriptions.
LEMMA NextApart ==
    ASSUME IInv, FreshInv, Apart, [Next]_vars
    PROVE  FreshStep
<1>1. CASE ClockStep
  BY <1>1, ClockApart
<1>2. ASSUME NEW c \in Clients, ApiStart(c) PROVE FreshStep
  BY <1>2, CallStartApart DEF ApiStart
<1>3. ASSUME NEW c \in Clients, ApiStep(c) PROVE FreshStep
  BY <1>3, CreateInsertApart, CreateOverwriteApart, CreatePayApart,
     CreateSettleApart, SaveApart DEF ApiStep, CallStep
<1>4. CASE ApiFailure
  BY <1>4, ApiCrashApart DEF ApiFailure
<1>5. ASSUME NEW w \in Workers, WorkStart(w) PROVE FreshStep
  BY <1>5, JobStartApart DEF WorkStart
<1>6. ASSUME NEW w \in Workers, WorkStep(w) PROVE FreshStep
  BY <1>6, RenewMarkApart, RenewPayApart, RenewSettleApart,
     CleanupItemApart, ExpireItemApart DEF WorkStep, JobStep
<1>7. ASSUME NEW w \in Workers, WorkFailure(w) PROVE FreshStep
  BY <1>7, JobCrashApart DEF WorkFailure
<1>8. CASE UNCHANGED vars
  BY <1>8, StutterApart
<1> QED
  BY <1>1, <1>2, <1>3, <1>4, <1>5, <1>6, <1>7, <1>8 DEF Next

LEMMA InitApart ==
    ASSUME Init
    PROVE  FreshInv /\ Atomic!Init
<1>1. /\ table = InitialRows /\ now = 0
      /\ \A c \in Clients : call[c].pc = "idle" /\ call[c].at = 0
      /\ \A w \in Workers : job[w].pc = "idle" /\ job[w].now = 0 /\ job[w].at = 0
      /\ \A w \in Workers : JobRows(w) = {}
  BY DEF Init, StoreInit, ApiInit, JobsInit, Idle, Resting, Snapshot, JobRows
<1>2. FreshInv
  BY <1>1 DEF FreshInv, FreshCall, FreshJob, JobRows
<1>3. Asking = [c \in Clients |-> Atomic!Answered("none")]
  <2>1. \A c \in Clients : Asked(c) = Atomic!Answered("none")
    BY DEF Init, ApiInit, Idle, Asked, Atomic!Answered
  <2> QED
    BY <2>1 DEF Asking
<1>4. Tasks = [w \in Workers |-> Atomic!Free]
  <2>1. \A w \in Workers : Task(w) = Atomic!Free
    BY <1>1 DEF Task, AtPayment, Outcome, Atomic!Free, Atomic!ToDo
  <2> QED
    BY <2>1 DEF Tasks
<1> QED
  BY <1>1, <1>2, <1>3, <1>4 DEF Atomic!Init, Atomic!Workers, Workers

\* The two invariants together.
LEMMA FreshInvariance ==
    /\ Spec /\ []Apart => []FreshInv
    /\ Spec /\ []Apart => [][OptOutStep]_vars
    /\ Spec /\ []Apart => [][Atomic!Next]_<<table, now, Asking, Tasks>>
<1>1. Init => FreshInv
  BY InitApart
<1>2. IInv /\ FreshInv /\ Apart /\ [Next]_vars =>
         FreshInv' /\ OptOutStep /\ [Atomic!Next]_<<table, now, Asking, Tasks>>
  BY NextApart DEF FreshStep, AtomicStep
<1> QED
  BY <1>1, <1>2, Invariance, PTL DEF Spec

-----------------------------------------------------------------------------
(* The theorems.                                                           *)

\* Without an overlap the system is AtomicSubscriptions, whatever fails or dies
\* in between: every change of a row is the whole effect, on the row as it is,
\* of something a client has asked for and has not been answered yet, or of a
\* batch that found the row due, stale or over, and still does.
THEOREM AtomicRefinement == Spec /\ []Apart => ImplementsAtomic
<1>1. Init => Atomic!Init
  BY InitApart
<1> QED
  BY <1>1, FreshInvariance, PTL DEF Spec, ImplementsAtomic, Atomic!Spec

\* Without an overlap on a row, auto-renewal is switched on by requests that
\* ask for it only, whatever fails or dies in between.
THEOREM OptOutsStick == Spec /\ []Apart => OptOutSticks
BY FreshInvariance, PTL DEF OptOutSticks, OptOutStep

-----------------------------------------------------------------------------
(* What needs less than Apart.                                             *)

\* An UPDATE, of whatever, adds no row and leaves the others alone.
LEMMA UpdateTouches ==
    ASSUME NEW id, NEW row, NEW reply, Update(id, row, reply)
    PROVE  Ids' = Ids /\ \A i \in Ids \ {id} : table'[i] = table[i]
BY DEF Update, Written, Ids

\* A step that inserts nothing changes rows of the operation that takes it only.
Touches(rows) == Ids' = Ids /\ \A i \in Ids \ rows : table'[i] = table[i]

Inserts == \E c \in Clients : CreateInsert(c) /\ UNCHANGED jobVars

Works(w) == WorkStart(w) \/ WorkStep(w) \/ WorkFailure(w)

LEMMA CallStepTouches ==
    ASSUME IInv, NEW c \in Clients, CallStep(c)
    PROVE  Touches(CallRows(c)) \/ CreateInsert(c)
<1>1. 0 \notin Ids
  BY Parts DEF TableInv, Ids
<1>2. CASE CreatePay(c)
  BY <1>2 DEF CreatePay, storeVars, Touches, Ids
<1>3. CASE CreateOverwrite(c) \/ CreateSettle(c) \/ Save(c)
  <2>1. \E row, reply : Update(call[c].id, row, reply)
    BY <1>3 DEF CreateOverwrite, CreateSettle, Save
  <2> QED
    BY <1>1, <2>1, UpdateTouches DEF Touches, CallRows
<1> QED
  BY <1>2, <1>3 DEF CallStep

LEMMA WorkTouches ==
    ASSUME NEW w \in Workers, Works(w)
    PROVE  Touches(JobRows(w))
<1>1. CASE UNCHANGED table
  BY <1>1 DEF Touches, Ids
<1>2. CASE WorkStart(w) \/ WorkFailure(w) \/ RenewPay(w)
  BY <1>1, <1>2
  DEF WorkStart, WorkFailure, JobStart, RenewList, CleanupList, ExpireList,
      Listed, JobCrash, RenewPay, storeVars
<1>3. CASE RenewMark(w) \/ RenewSettle(w) \/ CleanupItem(w) \/ ExpireItem(w)
  <2>1. \E id \in JobRows(w) : \E row, reply : Update(id, row, reply)
    BY <1>3 DEF RenewMark, RenewSettle, CleanupItem, ExpireItem, JobRows
  <2> QED
    BY <2>1, UpdateTouches DEF Touches
<1> QED
  BY <1>2, <1>3 DEF Works, WorkStep, JobStep

\* What a step changes, and who takes it.
LEMMA StepTouches ==
    ASSUME IInv, [Next]_vars
    PROVE  \/ Inserts
           \/ UNCHANGED <<table, job>>
           \/ \E c \in Clients : Touches(CallRows(c)) /\ UNCHANGED job
           \/ \E w \in Workers :
                 /\ Works(w) /\ Touches(JobRows(w))
                 /\ \A v \in Workers \ {w} : job'[v] = job[v]
<1>1. CASE ClockStep \/ ApiFailure \/ UNCHANGED vars
  BY <1>1 DEF ClockStep, Tick, ApiFailure, ApiCrash, vars, storeVars, jobVars
<1>2. ASSUME NEW c \in Clients, ApiStart(c) PROVE UNCHANGED <<table, job>>
  BY <1>2
  DEF ApiStart, CallStart, CreateSubscription, UpdateSubscription,
      DeleteSubscription, CancelSubscription, PaymentCallback, Load, storeVars,
      jobVars
<1>3. ASSUME NEW c \in Clients, ApiStep(c)
      PROVE  Inserts \/ (Touches(CallRows(c)) /\ UNCHANGED job)
  BY <1>3, CallStepTouches DEF ApiStep, Inserts, jobVars
<1>4. ASSUME NEW w \in Workers, Works(w)
      PROVE  /\ Touches(JobRows(w))
             /\ \A v \in Workers \ {w} : job'[v] = job[v]
  <2>1. DOMAIN job = Workers
    BY Parts DEF JobsInv
  <2>2. \A v \in Workers \ {w} : job'[v] = job[v]
    BY <1>4, <2>1
    DEF Works, WorkStart, WorkStep, WorkFailure, JobStart, JobStep, JobCrash,
        RenewList, CleanupList, ExpireList, Listed, RenewMark, RenewPay,
        RenewSettle, CleanupItem, ExpireItem, Settling, Advance
  <2> QED
    BY <1>4, <2>2, WorkTouches
<1> QED
  BY <1>1, <1>2, <1>3, <1>4 DEF Next, Works

-----------------------------------------------------------------------------
(* One row per identity.                                                   *)

\* What a create has not found is not there.
FoundsAreNew ==
    \A c \in Clients : Founds(c) =>
        \A i \in Ids : Identity(table[i]) # Identity(call[c].req)

IdentityInv == IdentityUnique /\ FoundsAreNew

\* A row keeps its identity.
LEMMA IdentitiesKept ==
    ASSUME IInv, [Next]_vars, Ids' = Ids
    PROVE  \A i \in Ids : Identity(table'[i]) = Identity(table[i])
<1>1. [Contract!Next]_table
  BY NextKeeps DEF Kept
<1>2. CASE Contract!Rewrite
  BY <1>2, SameDefinitions DEF Contract!Rewrite, Ids
<1>3. CASE Contract!Add
  BY <1>3 DEF Contract!Add, Ids
<1> QED
  BY <1>1, <1>2, <1>3 DEF Contract!Next

\* A call finds that an identity is new by looking it up.
LEMMA FoundByLookup ==
    ASSUME IInv, [Next]_vars, NEW c \in Clients, Founds(c)',
           call'[c] # call[c]
    PROVE  /\ UNCHANGED table
           /\ \A i \in Ids : Identity(table[i]) # Identity(call'[c].req)
<1>1. DOMAIN call = Clients /\ 0 \notin Ids
  BY Parts DEF CallsInv, TableInv, Ids
<1>2. PICK d \in Clients : CallStart(d) \/ CallStep(d)
  BY DEF Next, ClockStep, ApiStart, ApiStep, ApiFailure, ApiCrash, WorkStart,
         WorkStep, WorkFailure, apiVars, vars, Founds, Idle
<1>3. ASSUME NEW reply, Answer(d, reply) PROVE FALSE
  BY <1>1, <1>3 DEF Answer, Idle, Founds
<1>4. ASSUME CallStep(d) PROVE FALSE
  BY <1>1, <1>3, <1>4
  DEF CallStep, CreateInsert, CreateOverwrite, CreateStored, CreatePay,
      CreateSettle, Save, Idle, Founds
<1>5. ASSUME NEW req, Load(d, req) PROVE FALSE
  BY <1>1, <1>3, <1>5 DEF Load, Idle, Founds
<1>6. CreateSubscription(d)
  BY <1>2, <1>4, <1>5
  DEF CallStart, UpdateSubscription, DeleteSubscription, CancelSubscription,
      PaymentCallback
<1>7. PICK req \in CreateRequest :
         \E id \in FindByTypeAndIdentity(req.type, req.user, req.email) :
             call' = [call EXCEPT ![d] =
                 [Idle("none") EXCEPT !.pc = "store", !.req = req,
                                      !.id = id, !.at = now]]
  BY <1>3, <1>6 DEF CreateSubscription
<1>8. /\ 0 \in FindByTypeAndIdentity(req.type, req.user, req.email)
      /\ call'[c].req = req
  BY <1>1, <1>7 DEF Founds, Idle
<1> QED
  BY <1>1, <1>6, <1>7, <1>8
  DEF CreateSubscription, storeVars, FindByTypeAndIdentity, Identity

\* A step that inserts nothing.
LEMMA NothingAdded ==
    ASSUME IInv, IdentityInv, [Next]_vars, Ids' = Ids
    PROVE  IdentityInv'
<1>1. \A i \in Ids : Identity(table'[i]) = Identity(table[i])
  BY IdentitiesKept
<1>2. IdentityUnique'
  BY <1>1 DEF IdentityInv, IdentityUnique
<1>3. ASSUME NEW c \in Clients, Founds(c)', NEW i \in Ids
      PROVE  Identity(table'[i]) # Identity(call'[c].req)
  <2>1. CASE call'[c] = call[c]
    BY <1>1, <1>3, <2>1 DEF IdentityInv, FoundsAreNew, Founds
  <2>2. CASE call'[c] # call[c]
    BY <1>1, <1>3, <2>2, FoundByLookup
  <2> QED
    BY <2>1, <2>2
<1> QED
  BY <1>2, <1>3 DEF IdentityInv, FoundsAreNew

\* An insert.
LEMMA InsertIsNew ==
    ASSUME IInv, IdentityInv, FoundsApart, NEW c \in Clients, CreateInsert(c)
    PROVE  IdentityInv'
<1>1. TableInv /\ CallsInv /\ Founds(c)
  BY Parts DEF CreateInsert, Founds
<1> DEFINE req == call[c].req
           row == CreateRow(req, call[c].at)
<1>2. PICK reply \in InsertReplies :
         Create(row, reply) /\ CreateStored(c, Len(table) + 1, row, reply)
  BY DEF CreateInsert
<1>3. Identity(row) = Identity(req)
  BY <1>1, CreateRowSound DEF CallsInv, CallInv, CallOK, CallReady, Founds
<1> HIDE DEF row
<1>4. \A i \in Ids : Identity(table[i]) # Identity(row)
  BY <1>1, <1>3 DEF IdentityInv, FoundsAreNew
<1>5. /\ \A i \in Ids' : i \in Ids \/ table'[i] = row
      /\ \A i \in Ids : table'[i] = table[i]
      /\ IdentityUnique'
  BY <1>1, <1>2, <1>4, InsertAdds DEF IdentityInv
<1>6. /\ ~Founds(c)'
      /\ \A d \in Clients \ {c} : call'[d] = call[d]
  <2>1. CASE Answer(c, reply)
    BY <1>1, <2>1 DEF CallsInv, Answer, Idle, Founds
  <2>2. CASE call' = [call EXCEPT ![c] =
                [Idle("none") EXCEPT !.pc = "pay", !.id = Len(table) + 1,
                                     !.row = row]]
    BY <1>1, <2>2 DEF CallsInv, Idle, Founds
  <2> QED
    BY <1>2, <2>1, <2>2 DEF CreateStored
<1>7. ASSUME NEW d \in Clients, Founds(d)', NEW i \in Ids'
      PROVE  Identity(table'[i]) # Identity(call'[d].req)
  <2>1. d # c /\ call'[d] = call[d] /\ Founds(d)
    BY <1>6, <1>7 DEF Founds
  <2>2. Identity(call[d].req) # Identity(row)
    BY <1>1, <1>3, <2>1 DEF FoundsApart
  <2> QED
    BY <1>5, <2>1, <2>2 DEF IdentityInv, FoundsAreNew
<1> QED
  BY <1>5, <1>7 DEF IdentityInv, FoundsAreNew

LEMMA NextIdentities ==
    ASSUME IInv, IdentityInv, FoundsApart, [Next]_vars
    PROVE  IdentityInv'
BY StepTouches, InsertIsNew, NothingAdded DEF Inserts, Touches, Ids

\* CreateSubscription keeps one row per type, user and email, NULLs included,
\* though the unique index does not count NULLs: it is two creates that have
\* both found the same identity to be new, and nothing else, that make a second
\* row.
THEOREM IdentityStaysUnique == Spec /\ []FoundsApart => []IdentityUnique
<1>1. Init => IdentityInv
  <2>1. Init => IdentityUnique
    BY InitialAssumption DEF Init, StoreInit, IdentityUnique, Ids
  <2> QED
    BY <2>1 DEF Init, ApiInit, Idle, IdentityInv, FoundsAreNew, Founds
<1>2. IInv /\ IdentityInv /\ FoundsApart /\ [Next]_vars => IdentityInv'
  BY NextIdentities
<1>3. IdentityInv => IdentityUnique
  BY DEF IdentityInv
<1> QED
  BY <1>1, <1>2, <1>3, Invariance, PTL DEF Spec

-----------------------------------------------------------------------------
(* Batches that nobody disturbs, whatever the others do to each other.     *)

\* What the workers of a command have listed still holds.
BatchInv(pc, workers) ==
    \A w \in Workers : job[w].pc = pc =>
        /\ w \in workers
        /\ job[w].now <= now
        /\ \A i \in JobRows(w) : FreshRow(job[w], i)

Sweeps(pc, workers) ==
    \/ pc = "cleanup" /\ workers = Cleaners
    \/ pc = "expire" /\ workers = Expirers

\* A worker's own step.
LEMMA OwnStepSweeps ==
    ASSUME IInv, NEW pc, NEW workers, Sweeps(pc, workers),
           BatchInv(pc, workers), NEW w \in Workers, Works(w),
           job'[w].pc = pc
    PROVE  /\ w \in workers
           /\ job'[w].now <= now'
           /\ \A i \in JobRows(w)' : FreshRow(job[w], i)'
<1>1. JobsInv /\ now \in Int
  BY Parts
<1>2. CASE JobStart(w)
  <2>1. PICK ids :
           /\ Listed(w, pc, ids)
           /\ w \in workers
           /\ \A i \in ids : /\ pc = "cleanup" => Atomic!Stale(table[i], now)
                             /\ pc = "expire" => Atomic!Over(table[i], now)
    <3>1. CASE RenewList(w)
      BY <1>1, <3>1 DEF RenewList, Listed, JobsInv, Resting, Sweeps
    <3>2. CASE CleanupList(w)
      <4>1. pc = "cleanup"
        BY <1>1, <3>2 DEF CleanupList, Listed, JobsInv, Resting
      <4> QED
        BY <3>2, <4>1
        DEF CleanupList, ListPendingPaymentStale, Atomic!Stale,
            Atomic!PendingPayment, PendingPayment, Sweeps
    <3>3. CASE ExpireList(w)
      <4>1. pc = "expire"
        BY <1>1, <3>3 DEF ExpireList, Listed, JobsInv, Resting
      <4> QED
        BY <3>3, <4>1
        DEF ExpireList, ListExpiredActive, Atomic!Over, Atomic!Active, Active,
            Sweeps
    <3> QED
      BY <1>2, <3>1, <3>2, <3>3 DEF JobStart
  <2>2. /\ job'[w].pc = pc /\ job'[w].batch = Snapshot(ids)
        /\ job'[w].now = now /\ UNCHANGED <<table, now>>
    BY <1>1, <2>1 DEF JobsInv, Listed, Resting, storeVars
  <2>3. \A i \in ids : FreshRow(job[w], i)'
    BY <2>1, <2>2 DEF FreshRow, RenewalPcs, Snapshot, Sweeps
  <2> QED
    BY <1>1, <2>1, <2>2, <2>3 DEF Snapshot, JobRows
<1>3. CASE CleanupItem(w) \/ ExpireItem(w)
  <2>1. PICK id \in DOMAIN job[w].batch, was \in {"cleanup", "expire"} :
           /\ job[w].pc = was
           /\ Advance(w, id, was, job[w].now)
           /\ \E row, reply : Update(id, row, reply)
           /\ UNCHANGED now
    BY <1>3 DEF CleanupItem, ExpireItem
  <2> DEFINE rest == DOMAIN job[w].batch \ {id}
  <2>2. /\ rest # {}
        /\ job'[w] = [Resting EXCEPT !.pc = was, !.now = job[w].now,
                                     !.batch = [i \in rest |-> job[w].batch[i]]]
    BY <1>1, <2>1 DEF Advance, Resting, JobsInv, Sweeps
  <2>3. /\ was = pc /\ job'[w].now = job[w].now
        /\ job'[w].batch = [i \in rest |-> job[w].batch[i]]
    BY <2>2 DEF Resting
  <2>4. \A i \in rest : table'[i] = table[i] /\ FreshRow(job[w], i)
    BY <2>1, <2>3, HeldRowsExist, UpdateTouches DEF BatchInv, JobRows
  <2>5. \A i \in rest : FreshRow(job[w], i)'
    BY <2>1, <2>3, <2>4 DEF FreshRow, RenewalPcs, Sweeps
  <2> QED
    BY <2>1, <2>3, <2>5 DEF BatchInv, JobRows
<1>4. CASE RenewMark(w) \/ RenewPay(w) \/ RenewSettle(w) \/ JobCrash(w)
  <2>1. ASSUME NEW id, NEW t, Advance(w, id, "mark", t)
        PROVE  job'[w].pc \in {"idle", "mark"}
    BY <1>1, <2>1 DEF Advance, Resting, JobsInv
  <2>2. CASE RenewMark(w)
    BY <1>1, <2>1, <2>2 DEF RenewMark, Resting, JobsInv, Sweeps
  <2>3. CASE RenewSettle(w)
    BY <2>1, <2>3 DEF RenewSettle, Sweeps
  <2>4. CASE RenewPay(w)
    <3>1. ASSUME NEW result, Settling(w, result)
          PROVE  job'[w].pc = "settle"
      BY <1>1, <3>1 DEF Settling, Resting, JobsInv
    <3>2. \E result : Settling(w, result)
      BY <2>4 DEF RenewPay
    <3> QED
      BY <3>1, <3>2 DEF Sweeps
  <2>5. CASE JobCrash(w)
    BY <1>1, <2>5 DEF JobCrash, Resting, JobsInv, Sweeps
  <2> QED
    BY <1>4, <2>2, <2>3, <2>4, <2>5
<1> QED
  BY <1>2, <1>3, <1>4 DEF Works, WorkStart, WorkStep, WorkFailure, JobStep

\* A step of anybody else.
LEMMA OthersLeaveBatch ==
    ASSUME IInv, [Next]_vars, NEW w \in Workers, ~Works(w)
    PROVE  /\ job'[w] = job[w]
           /\ Undisturbed(w) => \A i \in JobRows(w) : table'[i] = table[i]
<1>1. TableInv /\ JobRows(w) \subseteq Ids
  BY Parts, HeldRowsExist
<1>2. CASE Inserts
  <2>1. UNCHANGED job /\ \E row, reply : Create(row, reply)
    BY <1>2 DEF Inserts, CreateInsert, jobVars
  <2>2. \A i \in Ids : table'[i] = table[i]
    BY <1>1, <2>1 DEF TableInv, Ids, Create
  <2> QED
    BY <1>1, <2>1, <2>2
<1>3. CASE UNCHANGED <<table, job>>
  BY <1>3
<1>4. ASSUME NEW c \in Clients, Touches(CallRows(c)), UNCHANGED job
      PROVE  Undisturbed(w) => \A i \in JobRows(w) : table'[i] = table[i]
  BY <1>1, <1>4 DEF Touches, Undisturbed
<1>5. ASSUME NEW v \in Workers, Works(v), Touches(JobRows(v))
      PROVE  /\ v # w
             /\ Undisturbed(w) => \A i \in JobRows(w) : table'[i] = table[i]
  BY <1>1, <1>5 DEF Touches, Undisturbed
<1> QED
  BY <1>2, <1>3, <1>4, <1>5, StepTouches

\* The clock does not run backwards.
LEMMA ClockAdvances ==
    ASSUME IInv, [Next]_vars
    PROVE  now \in Int /\ now' \in Int /\ now <= now'
<1>1. now \in Int /\ now' \in Int
  BY NextKeeps, Parts DEF Kept
<1>2. now' \in {now, now + 1}
  BY DEF Next, ClockStep, Tick, ApiStart, ApiStep, ApiFailure, WorkStart,
         WorkStep, WorkFailure, CallStart, CreateSubscription,
         UpdateSubscription, DeleteSubscription, CancelSubscription,
         PaymentCallback, Load, CallStep, CreateInsert, CreateOverwrite,
         CreatePay, CreateSettle, Save, ApiCrash, JobStart, RenewList,
         CleanupList, ExpireList, Listed, JobStep, RenewMark, RenewPay,
         RenewSettle, CleanupItem, ExpireItem, JobCrash, storeVars, vars
<1> QED
  BY <1>1, <1>2

\* Every step, while nobody disturbs the workers of the command.
LEMMA NextSweeps ==
    ASSUME IInv, NEW pc, NEW workers, Sweeps(pc, workers),
           BatchInv(pc, workers), \A w \in workers : Undisturbed(w), [Next]_vars
    PROVE  BatchInv(pc, workers)'
<1> SUFFICES ASSUME NEW w \in Workers, job'[w].pc = pc
             PROVE  /\ w \in workers
                    /\ job'[w].now <= now'
                    /\ \A i \in JobRows(w)' : FreshRow(job[w], i)'
  BY DEF BatchInv
<1>1. CASE Works(w)
  BY <1>1, OwnStepSweeps
<1>2. CASE ~Works(w)
  <2>1. job'[w] = job[w]
    BY <1>2, OthersLeaveBatch
  <2>2. /\ w \in workers /\ job[w].now \in Int /\ job[w].now <= now
        /\ \A i \in JobRows(w) : FreshRow(job[w], i)
    BY <2>1, Parts DEF BatchInv, JobsInv, JobInv, JobOK
  <2>3. \A i \in JobRows(w) : table'[i] = table[i]
    BY <1>2, <2>2, OthersLeaveBatch
  <2>4. \A i \in JobRows(w) : FreshRow(job[w], i)'
    BY <2>1, <2>2, <2>3 DEF FreshRow
  <2> QED
    BY <2>1, <2>2, <2>4, ClockAdvances DEF JobRows
<1> QED
  BY <1>1, <1>2

\* An item of a batch that nobody disturbs is stale, or over, when it is
\* written.
LEMMA ItemStillListed ==
    ASSUME IInv, NEW pc, NEW workers, Sweeps(pc, workers),
           BatchInv(pc, workers), [Next]_vars,
           NEW w \in Workers, job[w].pc = pc, job'[w] # job[w],
           NEW i \in Ids, table'[i] # table[i]
    PROVE  /\ pc = "cleanup" => /\ table[i].status = PendingPayment
                                /\ table[i].updatedAt < now - PendingPaymentTimeout
           /\ pc = "expire" => /\ table[i].status = Active
                               /\ table[i].endAt # Null
                               /\ table[i].endAt < now
<1>1. Touches(JobRows(w))
  BY OthersLeaveBatch, WorkTouches
<1>2. i \in JobRows(w)
  BY <1>1 DEF Touches
<1>3. FreshRow(job[w], i) /\ job[w].now <= now
  BY <1>2 DEF BatchInv
<1>4. table[i] \in Row /\ job[w].now \in Int /\ now \in Int
  BY Parts DEF TableInv, Ids, JobsInv, JobInv, JobOK
<1> QED
  BY <1>3, <1>4, LiveLater DEF FreshRow

LEMMA InitSweeps ==
    ASSUME NEW pc, NEW workers, Sweeps(pc, workers), Init
    PROVE  BatchInv(pc, workers)
BY DEF Init, JobsInit, Resting, BatchInv, Sweeps

\* A batch of "cancel expired" at whose rows nobody else is expires what has
\* expired, to the last of its items, however long it takes and whatever the
\* others do to each other.
THEOREM OnlyExpiredRowsExpire ==
    Spec /\ [](\A w \in Expirers : Undisturbed(w)) => OnlyExpiredExpire
<1> DEFINE Inv  == IInv /\ BatchInv("expire", Expirers)
           Step == \A w \in Workers :
                      job[w].pc = "expire" /\ job'[w] # job[w] =>
                        \A i \in Ids : table'[i] # table[i] =>
                            /\ table[i].status = Active
                            /\ table[i].endAt # Null
                            /\ table[i].endAt < now
<1>1. Inv /\ [Next]_vars => Step
  BY ItemStillListed DEF Sweeps
<1>2. Init => BatchInv("expire", Expirers)
  BY InitSweeps DEF Sweeps
<1>3. /\ IInv /\ BatchInv("expire", Expirers)
      /\ \A w \in Expirers : Undisturbed(w)
      /\ [Next]_vars
      => BatchInv("expire", Expirers)'
  BY NextSweeps DEF Sweeps
<1> QED
  BY <1>1, <1>2, <1>3, Invariance, PTL DEF Spec, OnlyExpiredExpire

\* And one of "cancel pending-payment" cleans up what is stale.
THEOREM OnlyStaleRowsCleanedUp ==
    Spec /\ [](\A w \in Cleaners : Undisturbed(w)) => OnlyStaleCleanedUp
<1> DEFINE Inv  == IInv /\ BatchInv("cleanup", Cleaners)
           Step == \A w \in Workers :
                      job[w].pc = "cleanup" /\ job'[w] # job[w] =>
                        \A i \in Ids : table'[i] # table[i] =>
                            /\ table[i].status = PendingPayment
                            /\ table[i].updatedAt < now - PendingPaymentTimeout
<1>1. Inv /\ [Next]_vars => Step
  BY ItemStillListed DEF Sweeps
<1>2. Init => BatchInv("cleanup", Cleaners)
  BY InitSweeps DEF Sweeps
<1>3. /\ IInv /\ BatchInv("cleanup", Cleaners)
      /\ \A w \in Cleaners : Undisturbed(w)
      /\ [Next]_vars
      => BatchInv("cleanup", Cleaners)'
  BY NextSweeps DEF Sweeps
<1> QED
  BY <1>1, <1>2, <1>3, Invariance, PTL DEF Spec, OnlyStaleCleanedUp

-----------------------------------------------------------------------------
(* One operation at a time is a way to be apart.                           *)

\* At most one call or batch is in progress.
Serial ==
    /\ MaxInFlight = 1
    /\ IsFiniteSet(Clients)
    /\ IsFiniteSet(Workers)

CallBusy(c) == call[c].pc # "idle"
JobBusy(w)  == job[w].pc # "idle"

Quiet ==
    /\ \A c \in Clients : ~CallBusy(c)
    /\ \A w \in Workers : ~JobBusy(w)

\* Nobody but c, or nobody but w, is in the middle of an operation.
OnlyCall(c) ==
    /\ \A d \in Clients \ {c} : ~CallBusy(d)
    /\ \A w \in Workers : ~JobBusy(w)
OnlyJob(w) ==
    /\ \A c \in Clients : ~CallBusy(c)
    /\ \A v \in Workers \ {w} : ~JobBusy(v)

\* Whoever rests holds nothing.
Alone ==
    /\ \A c \in Clients : IF CallBusy(c) THEN OnlyCall(c) ELSE call[c].id = 0
    /\ \A w \in Workers : IF JobBusy(w) THEN OnlyJob(w) ELSE JobRows(w) = {}

LEMMA AloneIsApart ==
    ASSUME Alone
    PROVE  Apart
<1>1. ASSUME NEW c \in Clients PROVE CallBusy(c) \/ CallRows(c) = {}
  BY DEF Alone, CallRows
<1>2. ASSUME NEW w \in Workers PROVE JobBusy(w) \/ JobRows(w) = {}
  BY DEF Alone
<1>3. \A c, d \in Clients : CallBusy(c) /\ CallBusy(d) => c = d
  BY DEF Alone, OnlyCall
<1>4. \A v, w \in Workers : JobBusy(v) /\ JobBusy(w) => v = w
  BY DEF Alone, OnlyJob
<1>5. \A c \in Clients, w \in Workers : ~(CallBusy(c) /\ JobBusy(w))
  BY DEF Alone, OnlyCall
<1>6. \A c \in Clients : Founds(c) => CallBusy(c)
  BY DEF Founds, CallBusy
<1> QED
  BY <1>1, <1>2, <1>3, <1>4, <1>5, <1>6 DEF Apart, FoundsApart, Undisturbed

\* An operation starts when nobody is busy.
LEMMA StartsInQuiet ==
    ASSUME Serial, MayStart
    PROVE  Quiet
<1> DEFINE C == {c \in Clients : call[c].pc # "idle"}
           W == {w \in Workers : job[w].pc # "idle"}
<1>1. IsFiniteSet(C) /\ IsFiniteSet(W)
  BY FS_Subset DEF Serial
<1>2. Cardinality(C) \in Nat /\ Cardinality(W) \in Nat
  BY <1>1, FS_CardinalityType
<1>3. Cardinality(C) + Cardinality(W) < 1
  BY DEF Serial, MayStart, InFlight
<1>4. Cardinality(C) = 0 /\ Cardinality(W) = 0
  BY <1>2, <1>3
<1>5. C = {} /\ W = {}
  BY <1>1, <1>4, FS_EmptySet
<1> QED
  BY <1>5 DEF Quiet, CallBusy, JobBusy

\* A call, or a worker, that moves leaves the others at rest.
LEMMA CallMovesAlone ==
    ASSUME Alone, DOMAIN call = Clients, NEW c \in Clients,
           Quiet \/ CallBusy(c), CallStart(c) \/ CallStep(c), UNCHANGED job
    PROVE  Alone'
<1>1. OnlyCall(c)
  BY DEF Alone, Quiet, OnlyCall
<1>2. \/ \E reply : Answer(c, reply)
      \/ /\ \A d \in Clients \ {c} : call'[d] = call[d]
         /\ CallBusy(c)'
  BY DEF CallStart, CallStep, CreateSubscription, UpdateSubscription,
     DeleteSubscription, CancelSubscription, PaymentCallback, Load,
     CreateInsert, CreateOverwrite, CreateStored, CreatePay, CreateSettle, Save,
     Idle, CallBusy
<1>3. /\ \A d \in Clients \ {c} : call'[d] = call[d]
      /\ CallBusy(c)' \/ call'[c].id = 0
  BY <1>2 DEF Answer, Idle
<1> QED
  BY <1>1, <1>3 DEF Alone, OnlyCall, OnlyJob, CallBusy, JobBusy, JobRows

LEMMA JobMovesAlone ==
    ASSUME Alone, DOMAIN job = Workers, NEW w \in Workers,
           Quiet \/ JobBusy(w), JobStart(w) \/ JobStep(w) \/ JobCrash(w),
           UNCHANGED call
    PROVE  Alone'
<1>1. OnlyJob(w)
  BY DEF Alone, Quiet, OnlyJob
<1>2. \/ job' = [job EXCEPT ![w] = Resting]
      \/ /\ \A v \in Workers \ {w} : job'[v] = job[v]
         /\ JobBusy(w)'
  BY DEF JobStart, JobStep, JobCrash, RenewList, CleanupList, ExpireList,
     Listed, RenewMark, RenewPay, RenewSettle, CleanupItem, ExpireItem,
     Settling, Advance, Resting, JobBusy
<1>3. /\ \A v \in Workers \ {w} : job'[v] = job[v]
      /\ JobBusy(w)' \/ JobRows(w)' = {}
  BY <1>2 DEF Resting, Snapshot, JobRows
<1> QED
  BY <1>1, <1>3 DEF Alone, OnlyCall, OnlyJob, CallBusy, JobBusy, JobRows

LEMMA NextAlone ==
    ASSUME Serial, IInv, Alone, [Next]_vars
    PROVE  Alone'
<1>1. DOMAIN call = Clients /\ DOMAIN job = Workers
  BY Parts DEF CallsInv, JobsInv
<1>2. CASE ClockStep \/ UNCHANGED vars
  BY <1>2 DEF ClockStep, vars, apiVars, jobVars, Alone, OnlyCall, OnlyJob,
     CallBusy, JobBusy, JobRows
<1>3. ASSUME NEW c \in Clients, ApiStart(c) \/ ApiStep(c) PROVE Alone'
  <2>1. Quiet \/ CallBusy(c)
    BY <1>3, StartsInQuiet
    DEF ApiStart, ApiStep, CallStep, CreateInsert, CreateOverwrite, CreatePay,
        CreateSettle, Save, CallBusy
  <2> QED
    BY <1>1, <1>3, <2>1, CallMovesAlone DEF ApiStart, ApiStep, jobVars
<1>4. CASE ApiFailure
  <2>1. (\A c \in Clients : call'[c] = Idle("none")) /\ UNCHANGED job
    BY <1>4 DEF ApiFailure, ApiCrash, jobVars
  <2> QED
    BY <2>1 DEF Alone, OnlyCall, OnlyJob, CallBusy, JobBusy, JobRows, Idle
<1>5. ASSUME NEW w \in Workers, WorkStart(w) \/ WorkStep(w) \/ WorkFailure(w)
      PROVE  Alone'
  <2>1. Quiet \/ JobBusy(w)
    BY <1>5, StartsInQuiet
    DEF WorkStart, WorkStep, WorkFailure, JobStep, RenewMark, RenewPay,
        RenewSettle, CleanupItem, ExpireItem, JobCrash, JobBusy
  <2> QED
    BY <1>1, <1>5, <2>1, JobMovesAlone
    DEF WorkStart, WorkStep, WorkFailure, apiVars
<1> QED
  BY <1>2, <1>3, <1>4, <1>5 DEF Next

\* With at most one operation in progress there is never an overlap, however
\* the operations fail or die.
THEOREM OneAtATime ==
    ASSUME Serial
    PROVE  Spec => []Apart
<1>1. Init => Alone
  BY DEF Init, ApiInit, JobsInit, Idle, Resting, Snapshot, Alone, CallBusy,
     JobBusy, JobRows
<1> QED
  BY <1>1, NextAlone, AloneIsApart, Invariance, PTL DEF Spec
=============================================================================
