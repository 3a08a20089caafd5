------------------------------- MODULE Payment -------------------------------
(***************************************************************************)
(* The payment provider, behind app/payment.Service.                       *)
(*                                                                         *)
(* app/payment holds the interface, with the result types, and a stub that *)
(* always panics, which cmd/serve.go and cmd/jobs.go wire in.  The set     *)
(* PaymentResults says which answers are possible: {"panic"} is the stub.  *)
(* "other" is a result type that is none of the three; a panic is          *)
(* recovered by processPaymentSafely.  What a provider behind the          *)
(* interface does is outside the repository and modelled from how the      *)
(* service uses it: after a redirect the customer may pay, and the         *)
(* provider then calls back.                                               *)
(*                                                                         *)
(* The ledger variables are history: no guard of the service reads them.   *)
(***************************************************************************)
EXTENDS Entities

CONSTANT PaymentResults

ASSUME PaymentAssumption ==
    PaymentResults \subseteq {"success", "redirect", "failure", "panic", "other"}

VARIABLES
    outstanding,  \* <<id, end>>: a payment link handed out for that period
    paidTo        \* <<id, end>>: the customer paid for the period up to end

paymentVars == <<outstanding, paidTo>>

PaymentInit ==
    /\ outstanding = {}
    /\ paidTo = {}

\* One call of the provider for the period of subscription id up to end.
ProcessSubscriptionPayment(id, end, result) ==
    /\ result \in PaymentResults
    /\ \/ /\ result = "success"
          /\ paidTo' = paidTo \cup {<<id, end>>}
          /\ UNCHANGED outstanding
       \/ /\ result = "redirect"
          /\ outstanding' = outstanding \cup {<<id, end>>}
          /\ UNCHANGED paidTo
       \/ /\ result \notin {"success", "redirect"}
          /\ UNCHANGED paymentVars

\* What a success callback for id stands for: a link that was handed out has
\* been paid, or the provider repeats itself and nothing new is collected.
LinkPaid(id) ==
    \/ \E p \in outstanding :
          /\ p[1] = id
          /\ outstanding' = outstanding \ {p}
          /\ paidTo' = paidTo \cup {p}
    \/ UNCHANGED paymentVars
=============================================================================
