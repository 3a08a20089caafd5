------------------------- MODULE AtomicSubscriptions -------------------------
(***************************************************************************)
(* The life of a subscription as the code means it: whoever changes a row  *)
(* computes on the row as it is at that moment, and on a row it may change *)
(* then.  There are no copies here, and nothing can come between a look at *)
(* a row and the write.                                                    *)
(*                                                                         *)
(* Every change has somebody who makes it.  A client has asked for it, and *)
(* what was asked is done once, and answered; or a worker found the row    *)
(* among those it is to see to, and sees to each of them once.  A request  *)
(* or an item is dropped without effect only by a statement that fails or  *)
(* by the death of its process.                                            *)
(*                                                                         *)
(* A purchase and a renewal are two changes each, before and after the     *)
(* provider is asked; the second may never come.                           *)
(***************************************************************************)
EXTENDS Entities

CONSTANTS
    InitialRows, PaymentResults,
    Clients, Ops,                   \* who may ask, and for what
    Renewers, Cleaners, Expirers,   \* who looks for rows of which kind
    Faulty, Crashes                 \* statements may fail, processes may die

VARIABLES
    table, now,
    asked,   \* per client: the answer it has, or what it is waiting for
    task     \* per worker: the rows it still has to see to

Ids     == DOMAIN table
Workers == Renewers \cup Cleaners \cup Expirers

Answered(reply) == [op |-> "none", reply |-> reply]

\* A purchase once its row is there, and once the provider has answered.
Unpaid(i)       == [op |-> "pay", id |-> i]
Paid(i, result) == [op |-> "settle", id |-> i, result |-> result]

\* The rows a worker still has to see to, and the one it is renewing.
ToDo(duty, rows) ==
    [duty |-> duty, rows |-> rows, marked |-> {}, result |-> Null]
Renewing(duty, rows, i, result) ==
    [duty |-> duty, rows |-> rows, marked |-> {i}, result |-> result]

Free == ToDo("idle", {})

Init ==
    /\ table = InitialRows
    /\ now = 0
    /\ asked = [c \in Clients |-> Answered("none")]
    /\ task = [w \in Workers |-> Free]

Tick == now' = now + 1 /\ UNCHANGED <<table, asked, task>>

Becomes(i, row) == table' = [table EXCEPT ![i] = row]

-----------------------------------------------------------------------------
(* The clients.                                                            *)

\* What is not refused when it is looked at.
Accepted ==
    {req \in CreateRequest : "create" \in Ops /\ CreateRejection(req) = "none"}
    \cup {req \in UpdateRequest(Ids) \cup DeleteRequest(Ids)
                  \cup CancelRequest(Ids) \cup CallbackRequest(Ids) :
             req.op \in Ops /\ Rejection(req) = "none"}

Turns(c, to) == asked' = [asked EXCEPT ![c] = to] /\ UNCHANGED <<now, task>>

Ask(c) ==
    /\ asked[c].op = "none"
    /\ \E req \in Accepted : Turns(c, req)
    /\ UNCHANGED table

Refuse(c) ==
    /\ asked[c].op = "none"
    /\ \E reply \in {"rejected", "not_found", "error"} :
          (reply = "error" => Faulty) /\ Turns(c, Answered(reply))
    /\ UNCHANGED table

\* When the change that was asked for is made, the client goes on to what is
\* next, or has "not_found" for an answer if the change was none, or an error
\* if the statement failed after it had taken effect.
Goes(c, next) ==
    \/ Turns(c, next)
    \/ UNCHANGED table /\ Turns(c, Answered("not_found"))
    \/ Faulty /\ Turns(c, Answered("error"))

\* The row i is there, and is paid for next if its type has a plan.
Created(c, i) ==
    Goes(c, IF Planned(asked[c].type) THEN Unpaid(i) ELSE Answered("ok"))

\* The identity is new.
Subscribe(c, t) ==
    /\ asked[c].op = "create"
    /\ \A i \in Ids : Identity(table[i]) # Identity(asked[c])
    /\ table' = Append(table, CreateRow(asked[c], t))
    /\ Created(c, Len(table) + 1)

\* The subscription of that identity starts afresh.
Resubscribe(c, i, t) ==
    /\ asked[c].op = "create"
    /\ Identity(table[i]) = Identity(asked[c])
    /\ Becomes(i, CreateRow(asked[c], t))
    /\ Created(c, i)

\* The provider answers; a panic ends the purchase.
Pay(c) ==
    /\ asked[c].op = "pay"
    /\ \E result \in PaymentResults :
          Turns(c, IF result = "panic" THEN Answered("error")
                   ELSE Paid(asked[c].id, result))
    /\ UNCHANGED table

SettlePurchase(c, t) ==
    /\ asked[c].op = "settle"
    /\ table[asked[c].id].status = Processing
    /\ Planned(table[asked[c].id].type)
    /\ Becomes(asked[c].id, CreateSettled(table[asked[c].id], asked[c].result, t))
    /\ Goes(c, Answered("ok"))

\* A PATCH, a delete, a cancel or a payment callback.
Handle(c, t) ==
    /\ asked[c].op \in {"update", "delete", "cancel", "callback"}
    /\ Becomes(asked[c].id, Applied(asked[c], table[asked[c].id], t))
    /\ Goes(c, Answered("ok"))

Fail(c) ==
    /\ Faulty
    /\ asked[c].op \notin {"none", "pay"}
    /\ Turns(c, Answered("error"))
    /\ UNCHANGED table

\* The death of the process that serves them all.
Restart ==
    /\ Crashes
    /\ asked' = [c \in Clients |-> Answered("none")]
    /\ UNCHANGED <<table, now, task>>

-----------------------------------------------------------------------------
(* The workers.                                                            *)

Due(row, t) ==
    /\ row.status = Active
    /\ row.autoRenew
    /\ row.renewAt # Null
    /\ row.renewAt <= t

Stale(row, t) ==
    /\ row.status = PendingPayment
    /\ row.updatedAt < t - PendingPaymentTimeout

Over(row, t) ==
    /\ row.status = Active
    /\ row.endAt # Null
    /\ row.endAt < t

Moves(w, to) == task' = [task EXCEPT ![w] = to] /\ UNCHANGED <<now, asked>>

\* A worker sets out to see to all the rows of its kind.
Find(w, duty, rows) ==
    /\ task[w] = Free
    /\ rows # {}
    /\ Moves(w, ToDo(duty, rows))
    /\ UNCHANGED table

Begin(w) ==
    \/ w \in Renewers /\ Find(w, "mark", {i \in Ids : Due(table[i], now)})
    \/ w \in Cleaners /\ Find(w, "cleanup", {i \in Ids : Stale(table[i], now)})
    \/ w \in Expirers /\ Find(w, "expire", {i \in Ids : Over(table[i], now)})

\* The row i is seen to; the next one is the duty.
Done(w, i, duty) ==
    LET rest == task[w].rows \ {i}
    IN Moves(w, IF rest = {} THEN Free ELSE ToDo(duty, rest))

StartRenewal(w, i, t) ==
    /\ task[w].duty = "mark"
    /\ Due(table[i], t)
    /\ Becomes(i, RenewMarked(table[i], t))
    /\ \/ Moves(w, Renewing("pay", task[w].rows, i, Null))
       \/ Faulty /\ Done(w, i, "mark")

\* The provider is asked if there is a plan.
PayRenewal(w, i) ==
    /\ task[w].duty = "pay"
    /\ i \in task[w].marked
    /\ \E result \in PaymentResults \cup {"no_plan"} :
          /\ IF result = "no_plan" THEN ~Planned(table[i].type) \/ Faulty
             ELSE Planned(table[i].type)
          /\ Moves(w, Renewing("settle", task[w].rows, i, result))
    /\ UNCHANGED table

\* A renewal goes on for a row that is out of the due ones and renews.
SettleRenewal(w, i, t) ==
    /\ task[w].duty = "settle"
    /\ i \in task[w].marked
    /\ table[i].status = Processing
    /\ table[i].autoRenew
    /\ Becomes(i, RenewSettled(table[i], task[w].result, t))
    /\ Done(w, i, "mark")

CleanUp(w, i, t) ==
    /\ task[w].duty = "cleanup"
    /\ Stale(table[i], t)
    /\ Becomes(i, CleanupRow(table[i], t))
    /\ Done(w, i, "cleanup")

Expire(w, i, t) ==
    /\ task[w].duty = "expire"
    /\ Over(table[i], t)
    /\ Becomes(i, ExpireRow(table[i], t))
    /\ Done(w, i, "expire")

\* The statement that was to see to the row fails.
Skip(w, i) ==
    /\ Faulty
    /\ task[w].duty # "pay"
    /\ task[w].marked \subseteq {i}
    /\ Done(w, i, IF task[w].duty = "settle" THEN "mark" ELSE task[w].duty)
    /\ UNCHANGED table

Die(w) == Crashes /\ Moves(w, Free) /\ UNCHANGED table

-----------------------------------------------------------------------------

\* t is when the clock was read for a change, which may be a while ago.
ClientStep(c) ==
    \/ Ask(c) \/ Refuse(c) \/ Pay(c) \/ Fail(c)
    \/ \E t \in 0 .. now :
          \/ Subscribe(c, t)
          \/ \E i \in Ids : Resubscribe(c, i, t)
          \/ SettlePurchase(c, t)
          \/ Handle(c, t)

WorkerStep(w) ==
    \/ Begin(w) \/ Die(w)
    \/ \E i \in task[w].rows :
          \/ PayRenewal(w, i)
          \/ Skip(w, i)
          \/ \E t \in 0 .. now :
                \/ StartRenewal(w, i, t)
                \/ SettleRenewal(w, i, t)
                \/ CleanUp(w, i, t)
                \/ Expire(w, i, t)

Next ==
    \/ Tick
    \/ \E c \in Clients : ClientStep(c)
    \/ Restart
    \/ \E w \in Workers : WorkerStep(w)

Spec == Init /\ [][Next]_<<table, now, asked, task>>
=============================================================================
