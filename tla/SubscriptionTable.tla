-------------------------- MODULE SubscriptionTable --------------------------
(***************************************************************************)
(* What the service promises about its table, whoever writes to it: a step *)
(* adds one row or rewrites one row, a row keeps its identity and its      *)
(* place for good, whatever is written is sound, and a second row is never *)
(* added for a type, user and email that are all given.                    *)
(*                                                                         *)
(* There are no calls, jobs, clock or payments here.  Subscriptions        *)
(* implements this module with its own table.                              *)
(***************************************************************************)
EXTENDS Entities

CONSTANT InitialRows

VARIABLE table

Init == table = InitialRows

Known(identity) == \E i \in DOMAIN table : Identity(table[i]) = identity

Add ==
    /\ DOMAIN table' = DOMAIN table \cup {Len(table) + 1}
    /\ \A i \in DOMAIN table : table'[i] = table[i]
    /\ LET row == table'[Len(table) + 1]
       IN /\ row \in Row
          /\ Sound(row)
          /\ row.user # Null /\ row.email # Null => ~Known(Identity(row))

Rewrite ==
    \E i \in DOMAIN table :
        /\ DOMAIN table' = DOMAIN table
        /\ \A j \in DOMAIN table \ {i} : table'[j] = table[j]
        /\ table'[i] \in Row
        /\ Sound(table'[i])
        /\ Identity(table'[i]) = Identity(table[i])

Next == Add \/ Rewrite

Spec == Init /\ [][Next]_table
=============================================================================
