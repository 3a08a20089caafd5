--------------------------- MODULE MCSubscriptions ---------------------------
(***************************************************************************)
(* Small instances of Subscriptions for TLC.                               *)
(*                                                                         *)
(* The unit of time is chosen so that a plan lasts one unit, and renewals  *)
(* and retries are due one unit apart; the clock then passes every         *)
(* boundary the jobs compare with within a few ticks.                      *)
(***************************************************************************)
EXTENDS Subscriptions, TLC

\* A "plan" lasts one day; a "mail" subscription has no plan.
MCDurationDays == [t \in Types |-> IF t = "mail" THEN Null ELSE 1]

Symmetry == Permutations(Clients)

NoRows == <<>>

\* A subscription without a plan, active for good.
OneMail ==
    <<CreateRow([op |-> "create", type |-> "mail", user |-> Null, email |-> "e1",
                 startAt |-> Null, autoRenew |-> FALSE], 0)>>

Purchase(user, autoRenew) ==
    CreateRow([op |-> "create", type |-> "plan", user |-> user, email |-> "e1",
               startAt |-> 0, autoRenew |-> autoRenew], 0)

\* A subscription bought at time 0 that renews itself.
OneRenewing == <<CreateSettled(Purchase("u1", TRUE), "success", 0)>>

\* A subscription without a plan that is due all the same: a failed callback
\* has given it a renewal date, and two PATCHes have switched it to Active and
\* to auto-renewal.
DueMail ==
    <<[OneMail[1] EXCEPT !.autoRenew = TRUE, !.renewAt = 1]>>

\* One that cannot renew and one that does.
DuePair == DueMail \o OneRenewing
=============================================================================
