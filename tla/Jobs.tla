-------------------------------- MODULE Jobs --------------------------------
(***************************************************************************)
(* The command workers: "renew", "cancel pending-payment" and "cancel      *)
(* expired", each a process of its own that runs its batch again and again *)
(* (cmd/jobs.go), and the batches themselves (app/service/subscription.go).*)
(*                                                                         *)
(* A batch lists rows once and then walks over the copies, in the order of *)
(* their ids; it never reads a row again.  A batch that lists nothing      *)
(* changes nothing and is not a step.  An error of Update only skips the   *)
(* rest of the item.                                                       *)
(***************************************************************************)
EXTENDS Store, Payment

CONSTANTS Renewers, Cleaners, Expirers   \* the worker processes of each command

Workers == Renewers \cup Cleaners \cup Expirers

VARIABLE job   \* per worker: the batch it is walking over

jobVars == <<job>>

Resting ==
    [pc |-> "idle", batch |-> Snapshot({}), now |-> 0, at |-> 0, result |-> Null]

JobsInit == job = [w \in Workers |-> Resting]

\* A batch starts: the clock is read and the rows are listed.
Listed(w, pc, ids) ==
    /\ job[w].pc = "idle"
    /\ ids # {}
    /\ job' = [job EXCEPT ![w] =
                 [Resting EXCEPT !.pc = pc, !.batch = Snapshot(ids), !.now = now]]
    /\ UNCHANGED storeVars /\ UNCHANGED paymentVars

First(w, id) ==
    /\ id \in DOMAIN job[w].batch
    /\ \A other \in DOMAIN job[w].batch : id <= other

\* The item is done; the next one starts at pc and finds the clock reading t.
Advance(w, id, pc, t) ==
    LET rest == DOMAIN job[w].batch \ {id}
    IN job' = [job EXCEPT ![w] =
                 IF rest = {} THEN Resting
                 ELSE [Resting EXCEPT !.pc = pc, !.now = t,
                                      !.batch = [i \in rest |-> job[w].batch[i]]]]

-----------------------------------------------------------------------------
(* RunAutoRenewalBatch.                                                    *)

RenewList(w) == w \in Renewers /\ Listed(w, "mark", ListDueAutoRenew(now))

\* Wrong RenewMark: whether the mark was written is not looked at.
RenewMarkUnchecked(w) ==
    /\ job[w].pc = "mark"
    /\ \E id \in DOMAIN job[w].batch, reply \in UpdateReplies :
          LET marked == RenewMarked(job[w].batch[id], job[w].now)
          IN /\ First(w, id)
             /\ Update(id, marked, reply)
             /\ job' = [job EXCEPT ![w] =
                   [Resting EXCEPT !.pc = "pay", !.now = job[w].now,
                                   !.batch = [job[w].batch EXCEPT ![id] = marked]]]
    /\ UNCHANGED now /\ UNCHANGED paymentVars

\* The row is marked Processing before the provider is asked.  `now` is the
\* one of the listing or, from the second item on, of the previous payment.
RenewMark(w) ==
    /\ job[w].pc = "mark"
    /\ \E id \in DOMAIN job[w].batch, reply \in UpdateReplies :
          LET marked == RenewMarked(job[w].batch[id], job[w].now)
          IN /\ First(w, id)
             /\ Update(id, marked, reply)
             /\ IF reply = "ok"
                THEN job' = [job EXCEPT ![w] =
                         [Resting EXCEPT
                             !.pc = "pay", !.now = job[w].now,
                             !.batch = [job[w].batch EXCEPT ![id] = marked]]]
                ELSE Advance(w, id, "mark", job[w].now)
    /\ UNCHANGED now /\ UNCHANGED paymentVars

Settling(w, result) ==
    job' = [job EXCEPT ![w] =
              [Resting EXCEPT !.pc = "settle", !.batch = job[w].batch,
                              !.now = job[w].now, !.at = now,
                              !.result = result]]

\* Wrong RenewPay: without a plan, a period is charged all the same.
RenewPayAnyway(w) ==
    /\ job[w].pc = "pay"
    /\ \E id \in DOMAIN job[w].batch, result \in PaymentResults :
          LET row == job[w].batch[id]
          IN /\ First(w, id)
             /\ ProcessSubscriptionPayment(id,
                    IF Planned(row.type) THEN RenewedEnd(row, now) ELSE now, result)
             /\ Settling(w, IF Planned(row.type) THEN result ELSE "no_plan")
    /\ UNCHANGED storeVars

\* The plan is looked up, and without one, or when the lookup fails, there is
\* no payment.
RenewPay(w) ==
    /\ job[w].pc = "pay"
    /\ \E id \in DOMAIN job[w].batch :
          LET row == job[w].batch[id]
          IN /\ First(w, id)
             /\ \/ /\ ~Planned(row.type) \/ Faulty
                   /\ Settling(w, "no_plan")
                   /\ UNCHANGED paymentVars
                \/ \E result \in PaymentResults :
                   /\ Planned(row.type)
                   /\ ProcessSubscriptionPayment(id, RenewedEnd(row, now), result)
                   /\ Settling(w, result)
    /\ UNCHANGED storeVars

\* The outcome is written, and whether that worked is not looked at.
RenewSettle(w) ==
    /\ job[w].pc = "settle"
    /\ \E id \in DOMAIN job[w].batch, t \in job[w].at .. now, reply \in UpdateReplies :
          /\ First(w, id)
          /\ Update(id, RenewSettled(job[w].batch[id], job[w].result, t), reply)
          /\ Advance(w, id, "mark", IF job[w].result = "no_plan" THEN job[w].now ELSE t)
    /\ UNCHANGED now /\ UNCHANGED paymentVars

-----------------------------------------------------------------------------
(* RunPendingPaymentCleanupBatch and RunExpirationBatch.                   *)

CleanupList(w) ==
    /\ w \in Cleaners
    /\ Listed(w, "cleanup", ListPendingPaymentStale(now - PendingPaymentTimeout))

CleanupItem(w) ==
    /\ job[w].pc = "cleanup"
    /\ \E id \in DOMAIN job[w].batch, reply \in UpdateReplies :
          /\ First(w, id)
          /\ Update(id, CleanupRow(job[w].batch[id], job[w].now), reply)
          /\ Advance(w, id, "cleanup", job[w].now)
    /\ UNCHANGED now /\ UNCHANGED paymentVars

ExpireList(w) == w \in Expirers /\ Listed(w, "expire", ListExpiredActive(now))

ExpireItem(w) ==
    /\ job[w].pc = "expire"
    /\ \E id \in DOMAIN job[w].batch, reply \in UpdateReplies :
          /\ First(w, id)
          /\ Update(id, ExpireRow(job[w].batch[id], job[w].now), reply)
          /\ Advance(w, id, "expire", job[w].now)
    /\ UNCHANGED now /\ UNCHANGED paymentVars

-----------------------------------------------------------------------------

\* The worker process dies, or is terminated during its first batch, before
\* the signal handler is installed: what it was doing is forgotten.
JobCrash(w) ==
    /\ job[w].pc # "idle"
    /\ job' = [job EXCEPT ![w] = Resting]
    /\ UNCHANGED storeVars /\ UNCHANGED paymentVars

JobStart(w) == RenewList(w) \/ CleanupList(w) \/ ExpireList(w)

JobStep(w) ==
    \/ RenewMark(w)
    \/ RenewPay(w)
    \/ RenewSettle(w)
    \/ CleanupItem(w)
    \/ ExpireItem(w)
=============================================================================
