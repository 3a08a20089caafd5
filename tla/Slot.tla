-------------------------------- MODULE Slot --------------------------------
(***************************************************************************)
(* A Go channel of capacity 1 whose sender never blocks: a value sent      *)
(* while one is waiting is dropped.  Both channels of the processes are    *)
(* of this kind: the one signal.Notify writes to and the ticker's.         *)
(***************************************************************************)
VARIABLE full

Init == full = FALSE

Send == full' = TRUE

Receive == full /\ full' = FALSE
=============================================================================
