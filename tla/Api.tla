--------------------------------- MODULE Api ---------------------------------
(***************************************************************************)
(* The API process: the handlers of SubscriptionService and                *)
(* PaymentCallbackService, one call per client at a time.                  *)
(*                                                                         *)
(* HTTP and gRPC run every request in a goroutine of its own and both call *)
(* the same service, so any two calls interleave at every statement.  A    *)
(* handler loads a row, computes on the copy and writes the whole copy     *)
(* back; CreateSubscription writes, asks the provider, and writes again.   *)
(* Each database statement and each provider call is one action.           *)
(***************************************************************************)
EXTENDS Store, Payment

CONSTANTS
    Clients,   \* concurrent callers
    Ops        \* the operations they use

Operations == {"create", "update", "delete", "cancel", "callback"}

ASSUME ApiAssumption == Ops \subseteq Operations

VARIABLE call   \* per client: the goroutine that serves its call

apiVars == <<call>>

\* "rejected" stands for every error answered before anything is written.
Replies == {"none", "ok", "rejected", "already_exists", "not_found", "error"}

Idle(reply) ==
    [pc |-> "idle", req |-> Null, id |-> 0, row |-> Null, at |-> 0,
     result |-> Null, reply |-> reply]

Answer(c, reply) == call' = [call EXCEPT ![c] = Idle(reply)]

ApiInit == call = [c \in Clients |-> Idle("none")]

-----------------------------------------------------------------------------
(* CreateSubscription.                                                     *)

\* Validation, the plan and type lookups and FindByTypeAndIdentity.
CreateSubscription(c) ==
    /\ call[c].pc = "idle"
    /\ "create" \in Ops
    /\ \E req \in CreateRequest :
          \/ /\ CreateRejection(req) # "none"
             /\ Answer(c, "rejected")
          \/ /\ CreateRejection(req) = "none"
             /\ \E id \in FindByTypeAndIdentity(req.type, req.user, req.email) :
                   call' = [call EXCEPT ![c] =
                       [Idle("none") EXCEPT !.pc = "store", !.req = req,
                                            !.id = id, !.at = now]]
          \/ /\ Faulty
             /\ Answer(c, "error")
    /\ UNCHANGED storeVars /\ UNCHANGED paymentVars

\* What follows the first write.  A type without a plan is done; otherwise
\* the provider is asked next.
CreateStored(c, id, row, reply) ==
    IF reply = "ok" /\ Planned(row.type)
    THEN call' = [call EXCEPT ![c] =
             [Idle("none") EXCEPT !.pc = "pay", !.id = id, !.row = row]]
    ELSE Answer(c, reply)

\* The identity is new to this call: INSERT.
CreateInsert(c) ==
    /\ call[c].pc = "store"
    /\ call[c].id = 0
    /\ \E reply \in InsertReplies :
          LET row == CreateRow(call[c].req, call[c].at)
          IN /\ Create(row, reply)
             /\ CreateStored(c, Len(table) + 1, row, reply)
    /\ UNCHANGED now /\ UNCHANGED paymentVars

\* The identity was found: the row is overwritten, as a fresh subscription.
CreateOverwrite(c) ==
    /\ call[c].pc = "store"
    /\ call[c].id # 0
    /\ \E reply \in UpdateReplies :
          LET id  == call[c].id
              row == CreateRow(call[c].req, call[c].at)
          IN /\ Update(id, row, reply)
             /\ CreateStored(c, id, row, reply)
    /\ UNCHANGED now /\ UNCHANGED paymentVars

\* Wrong CreatePay: the error that stands for a panic is not looked at.
CreatePayUnchecked(c) ==
    /\ call[c].pc = "pay"
    /\ \E result \in PaymentResults :
          /\ ProcessSubscriptionPayment(call[c].id, call[c].row.endAt, result)
          /\ call' = [call EXCEPT ![c] =
                 [Idle("none") EXCEPT !.pc = "settle", !.id = call[c].id,
                                      !.row = call[c].row, !.at = now,
                                      !.result = result]]
    /\ UNCHANGED storeVars

\* The provider call; a panic is answered as an error at once, and leaves
\* the row in Processing.
CreatePay(c) ==
    /\ call[c].pc = "pay"
    /\ \E result \in PaymentResults :
          /\ ProcessSubscriptionPayment(call[c].id, call[c].row.endAt, result)
          /\ IF result = "panic"
             THEN Answer(c, "error")
             ELSE call' = [call EXCEPT ![c] =
                      [Idle("none") EXCEPT !.pc = "settle", !.id = call[c].id,
                                           !.row = call[c].row, !.at = now,
                                           !.result = result]]
    /\ UNCHANGED storeVars

\* The outcome is written over whatever the row has become.
CreateSettle(c) ==
    /\ call[c].pc = "settle"
    /\ \E t \in call[c].at .. now, reply \in UpdateReplies :
          /\ Update(call[c].id, CreateSettled(call[c].row, call[c].result, t), reply)
          /\ Answer(c, reply)
    /\ UNCHANGED now /\ UNCHANGED paymentVars

-----------------------------------------------------------------------------
(* The operations on an existing row: FindByID, then Update.               *)

\* Ids a request may name: those of the table and one that does not exist.
Addressable == 1 .. Len(table) + 1

Load(c, req) ==
    /\ call[c].pc = "idle"
    /\ req.op \in Ops
    /\ \/ /\ req.id \notin Ids
          /\ Answer(c, "not_found")
       \/ /\ req.id \in Ids
          /\ Rejection(req) # "none"
          /\ Answer(c, "rejected")
       \/ /\ req.id \in Ids
          /\ Rejection(req) = "none"
          /\ call' = [call EXCEPT ![c] =
                 [Idle("none") EXCEPT !.pc = "save", !.req = req, !.id = req.id,
                                      !.row = table[req.id], !.at = now]]
       \/ /\ Faulty
          /\ Answer(c, "error")
    /\ UNCHANGED storeVars /\ UNCHANGED paymentVars

UpdateSubscription(c) == \E req \in UpdateRequest(Addressable)   : Load(c, req)
DeleteSubscription(c) == \E req \in DeleteRequest(Addressable)   : Load(c, req)
CancelSubscription(c) == \E req \in CancelRequest(Addressable)   : Load(c, req)
PaymentCallback(c)    == \E req \in CallbackRequest(Addressable) : Load(c, req)

\* The copy, with the request applied, is written over the row.
Save(c) ==
    /\ call[c].pc = "save"
    /\ \E t \in call[c].at .. now, reply \in UpdateReplies :
          LET req == call[c].req
              id  == call[c].id
          IN /\ Update(id, Applied(req, call[c].row, t), reply)
             /\ Answer(c, reply)
             /\ IF req.op = "callback" /\ req.status = "success"
                THEN LinkPaid(id)
                ELSE UNCHANGED paymentVars
    /\ UNCHANGED now

-----------------------------------------------------------------------------

\* The API process dies (or is killed when a shutdown takes too long): every
\* call in flight is dropped where it stands.
ApiCrash ==
    /\ \E c \in Clients : call[c].pc # "idle"
    /\ call' = [c \in Clients |-> Idle("none")]
    /\ UNCHANGED storeVars /\ UNCHANGED paymentVars

CallStart(c) ==
    \/ CreateSubscription(c)
    \/ UpdateSubscription(c)
    \/ DeleteSubscription(c)
    \/ CancelSubscription(c)
    \/ PaymentCallback(c)

CallStep(c) ==
    \/ CreateInsert(c)
    \/ CreateOverwrite(c)
    \/ CreatePay(c)
    \/ CreateSettle(c)
    \/ Save(c)
=============================================================================
