------------------------------ MODULE Exchange ------------------------------
(***************************************************************************)
(* What the API process promises about the calls it takes.                 *)
(*                                                                         *)
(* A call that was taken is in flight until it is answered.  The process   *)
(* waits for the calls in flight before it stops; it may give some of them *)
(* up first, once it is stopping.  Only a process that dies drops calls it *)
(* has not given up.                                                       *)
(***************************************************************************)
CONSTANT Clients

VARIABLES
    state,    \* "up", "stopping", "stopped" or "dead"
    flying,   \* the clients whose call is in flight
    awaited   \* those the process will wait for

vars == <<state, flying, awaited>>

Init ==
    /\ state = "up"
    /\ flying = {}
    /\ awaited = {}

Take(c) ==
    /\ state \in {"up", "stopping"}
    /\ c \notin flying
    /\ flying' = flying \cup {c}
    /\ awaited' = awaited \cup {c}
    /\ UNCHANGED state

Answer(c) ==
    /\ c \in flying
    /\ flying' = flying \ {c}
    /\ awaited' = awaited \ {c}
    /\ UNCHANGED state

Stop ==
    /\ state = "up"
    /\ state' = "stopping"
    /\ UNCHANGED <<flying, awaited>>

GiveUp ==
    /\ state = "stopping"
    /\ awaited' \subseteq awaited
    /\ UNCHANGED <<state, flying>>

Stopped ==
    /\ state = "stopping"
    /\ awaited = {}
    /\ state' = "stopped"
    /\ flying' = {}
    /\ UNCHANGED awaited

Die ==
    /\ state \in {"up", "stopping"}
    /\ state' = "dead"
    /\ flying' = {}
    /\ awaited' = {}

Next ==
    \/ \E c \in Clients : Take(c) \/ Answer(c)
    \/ Stop
    \/ GiveUp
    \/ Stopped
    \/ Die

Spec == Init /\ [][Next]_vars
=============================================================================
