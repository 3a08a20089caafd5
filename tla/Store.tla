-------------------------------- MODULE Store --------------------------------
(***************************************************************************)
(* The subscriptions table and the clock: schema.sql and                   *)
(* app/repository/subscription.go.                                         *)
(*                                                                         *)
(* Every repository method is one statement outside any transaction, so    *)
(* one method call is one atomic step on the table and nothing links two   *)
(* calls of the same handler.  Rows are never deleted: an id is an index   *)
(* of the sequence.                                                        *)
(***************************************************************************)
EXTENDS Entities

CONSTANTS
    InitialRows,      \* the table left by earlier runs of the service
    MaxTime,          \* bound: the clock stops here
    Faulty            \* statements may fail, applied or not

VARIABLES
    table,            \* the subscriptions table, id |-> row
    now               \* the wall clock, shared by the database and all hosts

storeVars == <<table, now>>

Ids == DOMAIN table

ASSUME StoreAssumption ==
    /\ MaxTime \in Nat
    /\ Faulty \in BOOLEAN

StoreInit ==
    /\ table = InitialRows
    /\ now = 0

\* Time passes between any two statements; bounded by MaxTime.
Tick ==
    /\ now < MaxTime
    /\ now' = now + 1
    /\ UNCHANGED table

-----------------------------------------------------------------------------
(* Statements that write.  Each is a relation between the answer the       *)
(* caller sees and the new table.  With "error" the caller cannot tell     *)
(* whether the statement took effect (a timeout, a connection lost after   *)
(* the commit, a request context cancelled).                               *)

UpdateReplies == {"ok", "not_found", "error"}
InsertReplies == {"ok", "already_exists", "error"}

\* Wrong Duplicate: the index is not unique.
DuplicateNever(row) == FALSE

\* The unique index on (subscription_type_id, user_id, email): SQL holds two
\* NULLs to be distinct, so it constrains only rows that have both.
Duplicate(row) ==
    /\ row.user # Null
    /\ row.email # Null
    /\ \E i \in Ids : Identity(table[i]) = Identity(row)

Create(row, reply) ==
    \/ /\ reply = "ok"
       /\ ~Duplicate(row)
       /\ table' = Append(table, row)
    \/ /\ reply = "already_exists"
       /\ Duplicate(row)
       /\ UNCHANGED table
    \/ /\ reply = "error"
       /\ Faulty
       /\ \/ UNCHANGED table
          \/ ~Duplicate(row) /\ table' = Append(table, row)

\* UPDATE sets the mutable columns only.
Persisted(id, row) ==
    [row EXCEPT !.type  = table[id].type,
                !.user  = table[id].user,
                !.email = table[id].email]

\* Wrong Affected: a row that is out of use counts as gone.
AffectedUnlessInactive(id, row) ==
    table[id].status # Inactive /\ Persisted(id, row) # table[id]

\* Whether RowsAffected is positive: the driver counts the rows that change,
\* not those that match.
Affected(id, row) == Persisted(id, row) # table[id]

Written(id, row) == [table EXCEPT ![id] = Persisted(id, row)]

Update(id, row, reply) ==
    \/ /\ reply = "ok"
       /\ id \in Ids
       /\ Affected(id, row)
       /\ table' = Written(id, row)
    \/ /\ reply = "not_found"
       /\ id \in Ids => ~Affected(id, row)
       /\ UNCHANGED table
    \/ /\ reply = "error"
       /\ Faulty
       /\ \/ UNCHANGED table
          \/ id \in Ids /\ table' = Written(id, row)

-----------------------------------------------------------------------------
(* Statements that read.                                                   *)

\* Wrong FindByTypeAndIdentity: compares with =, which NULL never equals.
FindByEquals(type, user, email) ==
    LET found == {i \in Ids : /\ user # Null /\ email # Null
                              /\ Identity(table[i]) = <<type, user, email>>}
    IN IF found = {} THEN {0} ELSE found

\* FindByTypeAndIdentity compares with <=>, which matches NULL with NULL, and
\* takes any one row (LIMIT 1 without ORDER BY); 0 stands for no row.
FindByTypeAndIdentity(type, user, email) ==
    LET found == {i \in Ids : Identity(table[i]) = <<type, user, email>>}
    IN IF found = {} THEN {0} ELSE found

ListDueAutoRenew(t) ==
    {i \in Ids : /\ table[i].autoRenew
                 /\ table[i].renewAt # Null
                 /\ table[i].renewAt <= t
                 /\ table[i].status = Active}

\* Wrong ListPendingPaymentStale: off by one at the cutoff.
ListPendingPaymentUpTo(cutoff) ==
    {i \in Ids : /\ table[i].status = PendingPayment
                 /\ table[i].updatedAt <= cutoff}

\* Wrong ListPendingPaymentStale: only rows that renew.
ListPendingPaymentRenewing(cutoff) ==
    {i \in Ids : /\ table[i].status = PendingPayment
                 /\ table[i].autoRenew
                 /\ table[i].updatedAt < cutoff}

ListPendingPaymentStale(cutoff) ==
    {i \in Ids : /\ table[i].status = PendingPayment
                 /\ table[i].updatedAt < cutoff}

\* Wrong ListExpiredActive: off by one at the end of the period.
ListEndingActive(t) ==
    {i \in Ids : /\ table[i].status = Active
                 /\ table[i].endAt # Null
                 /\ table[i].endAt <= t}

\* Wrong ListExpiredActive: only rows that renew.
ListExpiredRenewing(t) ==
    {i \in Ids : /\ table[i].status = Active
                 /\ table[i].autoRenew
                 /\ table[i].endAt # Null
                 /\ table[i].endAt < t}

ListExpiredActive(t) ==
    {i \in Ids : /\ table[i].status = Active
                 /\ table[i].endAt # Null
                 /\ table[i].endAt < t}

\* The copies a listing hands to a job, scanned row by row.
Snapshot(ids) == [i \in ids |-> table[i]]
=============================================================================
