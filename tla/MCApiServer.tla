----------------------------- MODULE MCApiServer -----------------------------
(***************************************************************************)
(* A small instance of ApiServer for TLC: one client sends every request   *)
(* there is, the other one purchases again and again, so that every answer *)
(* and every step of a shutdown meets a call in flight at any statement.   *)
(***************************************************************************)
EXTENDS ApiServer

Purchase ==
    [op |-> "create", type |-> "given", who |-> "given", startAt |-> "known"]

MCSends == [c \in Clients |-> IF c = "any" THEN WireRequest ELSE {Purchase}]
=============================================================================
