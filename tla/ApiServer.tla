------------------------------ MODULE ApiServer ------------------------------
(***************************************************************************)
(* The API process, from its start to its end: cmd/serve.go, and the way   *)
(* of a call through a front end.                                          *)
(*                                                                         *)
(* The main goroutine runs runServe, with phase as its program counter.    *)
(* Two goroutines start the servers; every call runs in one of its own.    *)
(* Here the service is only as detailed as the front ends need it: when it *)
(* has written, and which outcomes it may have then.  What it does to the  *)
(* rows is specified in Api.                                               *)
(*                                                                         *)
(* The auth service, the payment provider, Echo and grpc-go are outside    *)
(* the repository and appear as the choices they leave.                    *)
(***************************************************************************)
EXTENDS FrontEnds

CONSTANTS
    Clients,   \* concurrent callers
    Sends      \* per client: the requests it may send

ASSUME SendsAssumption == \A c \in Clients : Sends[c] \subseteq WireRequest

VARIABLES
    phase,  \* what the main goroutine does next
    quit,   \* a signal waits in the channel
    http,   \* the HTTP server: "new", "open", "closed"
    grpc,   \* the gRPC server: "new", "open", "closed"
    late,   \* the ten seconds of the HTTP shutdown have passed
    call    \* per client: the goroutine that serves its call

vars == <<phase, quit, http, grpc, late, call>>

Starting == {"config", "database", "auth", "listen"}
Closing  == {"close_auth", "close_db", "exit"}
Stopping == {"http_shutdown", "grpc_stop"} \cup Closing
Ended    == {"exited", "fatal", "killed"}
Phases   == Starting \cup {"started", "waiting"} \cup Stopping \cup Ended

AuthOpen == phase \notin Starting \cup Ended \cup {"close_db", "exit"}
DbOpen   == phase \notin {"config", "database", "exit"} \cup Ended

Idle == [pc |-> "idle", front |-> "none", req |-> [op |-> "health"],
         planned |-> FALSE, wrote |-> FALSE, outcome |-> "none"]

InFlight(c) == call[c].pc \notin {"idle", "answered"}
Flying(front) == {c \in Clients : InFlight(c) /\ call[c].front = front}

Abandoned == call' = [c \in Clients |-> Idle]

Signals == INSTANCE Slot WITH full <- quit

Init ==
    /\ phase = "config"
    /\ Signals!Init
    /\ http = "new"
    /\ grpc = "new"
    /\ late = FALSE
    /\ call = [c \in Clients |-> Idle]

-----------------------------------------------------------------------------
(* runServe.                                                               *)

\* logrus.Fatal, in whichever goroutine: os.Exit(1), with no deferred call.
Fatal ==
    /\ phase' = "fatal"
    /\ Abandoned
    /\ UNCHANGED <<quit, http, grpc, late>>

Advance(from, to) ==
    /\ phase = from
    /\ \/ /\ phase' = to
          /\ UNCHANGED <<quit, http, grpc, late, call>>
       \/ Fatal

LoadConfig    == Advance("config", "database")
OpenDatabase  == Advance("database", "auth")
DialAuth      == Advance("auth", "listen")
ListenAndFork == Advance("listen", "started")

Notify ==
    /\ phase = "started"
    /\ phase' = "waiting"
    /\ UNCHANGED <<quit, http, grpc, late, call>>

\* Wrong TakeQuit: the HTTP server goes on accepting.
TakeQuitAccepting ==
    /\ phase = "waiting"
    /\ Signals!Receive
    /\ phase' = "http_shutdown"
    /\ UNCHANGED <<http, grpc, late, call>>

\* <-quit, and e.Shutdown stops accepting.
TakeQuit ==
    /\ phase = "waiting"
    /\ Signals!Receive
    /\ phase' = "http_shutdown"
    /\ http' = "closed"
    /\ UNCHANGED <<grpc, late, call>>

\* e.Shutdown returns and GracefulStop stops accepting.
StopGrpc ==
    /\ phase = "http_shutdown"
    /\ phase' = "grpc_stop"
    /\ grpc' = "closed"
    /\ UNCHANGED <<quit, http, call>>

HttpDrained ==
    /\ Flying("http") = {}
    /\ StopGrpc
    /\ UNCHANGED late

\* Wrong HttpDeadline: Shutdown waits for ever.
HttpDeadlineNever == FALSE /\ StopGrpc /\ UNCHANGED late

\* The context expires: a warning, and the shutdown goes on.
HttpDeadline ==
    /\ Flying("http") # {}
    /\ StopGrpc
    /\ late' = TRUE

\* Wrong GrpcDrained: Stop instead of GracefulStop.
GrpcNotAwaited ==
    /\ phase = "grpc_stop"
    /\ phase' = "close_auth"
    /\ UNCHANGED <<quit, http, grpc, late, call>>

\* GracefulStop returns; it has no deadline.
GrpcDrained ==
    /\ phase = "grpc_stop"
    /\ Flying("grpc") = {}
    /\ phase' = "close_auth"
    /\ UNCHANGED <<quit, http, grpc, late, call>>

\* The deferred calls, last one first.
CloseAuth ==
    /\ phase = "close_auth"
    /\ phase' = "close_db"
    /\ UNCHANGED <<quit, http, grpc, late, call>>

CloseDb ==
    /\ phase = "close_db"
    /\ phase' = "exit"
    /\ UNCHANGED <<quit, http, grpc, late, call>>

\* runServe returns; what still runs ends with the process.
Exit ==
    /\ phase = "exit"
    /\ phase' = "exited"
    /\ Abandoned
    /\ UNCHANGED <<quit, http, grpc, late>>

Main ==
    \/ LoadConfig \/ OpenDatabase \/ DialAuth \/ ListenAndFork \/ Notify
    \/ TakeQuit \/ HttpDrained \/ HttpDeadline \/ GrpcDrained
    \/ CloseAuth \/ CloseDb \/ Exit

-----------------------------------------------------------------------------
(* The goroutines of the two servers, and signals.                         *)

Forked == phase \notin Starting \cup Ended

\* e.Start: the address may be in use; after a Shutdown it returns at once.
StartHttp ==
    /\ Forked
    /\ http = "new"
    /\ \/ /\ http' = "open"
          /\ UNCHANGED <<phase, quit, grpc, late, call>>
       \/ Fatal

\* grpcSrv.Serve, on the listener that setupGRPCServer has opened.
StartGrpc ==
    /\ Forked
    /\ grpc = "new"
    /\ grpc' = "open"
    /\ UNCHANGED <<phase, quit, http, late, call>>

\* Serve or Start fails later on; Serve also when GracefulStop came first.
ServerFails == Forked /\ Fatal

\* SIGINT or SIGTERM: kills the process until signal.Notify is called, and
\* waits in the channel from then on.  The channel is read once: a second
\* signal while the process stops does nothing.
Signal ==
    \/ /\ phase \in Starting \cup {"started"}
       /\ phase' = "killed"
       /\ Abandoned
       /\ UNCHANGED <<quit, http, grpc, late>>
    \/ /\ phase = "waiting"
       /\ Signals!Send
       /\ UNCHANGED <<phase, http, grpc, late, call>>

Killed ==
    /\ phase \notin Ended
    /\ phase' = "killed"
    /\ Abandoned
    /\ UNCHANGED <<quit, http, grpc, late>>

-----------------------------------------------------------------------------
(* A call.                                                                 *)

Proceed(c, k) ==
    /\ call' = [call EXCEPT ![c] = k]
    /\ UNCHANGED <<phase, quit, http, grpc, late>>

Go(c, pc) == Proceed(c, [call[c] EXCEPT !.pc = pc])

Answer(c, outcome, wrote) ==
    Proceed(c, [call[c] EXCEPT !.pc = "answered", !.outcome = outcome,
                               !.wrote = wrote])

Fail(c, outcome) == Answer(c, outcome, call[c].wrote)

Arrive(c) ==
    /\ Forked
    /\ ~InFlight(c)
    /\ \E front \in Fronts, req \in Sends[c] :
          /\ IF front = "http" THEN http = "open" ELSE grpc = "open"
          /\ front = "grpc" => Parses(req)
          /\ Proceed(c, [Idle EXCEPT !.pc = "auth", !.front = front, !.req = req])

\* The auth middleware, the last of both chains before the handler.
Authenticate(c) ==
    /\ call[c].pc = "auth"
    /\ \/ AuthOpen /\ Go(c, "handle")
       \/ \E outcome \in Refusals : Fail(c, outcome)

\* Wrong Handle: what HTTP has bound is not validated.
HandleUnvalidated(c) ==
    LET accepted == IF call[c].front = "http" THEN Parses(call[c].req)
                    ELSE Accepts(call[c].front, call[c].req)
    IN /\ call[c].pc = "handle"
       /\ \/ ~accepted /\ Fail(c, "invalid")
          \/ accepted /\ call[c].req.op = "health" /\ Fail(c, "ok")
          \/ accepted /\ call[c].req.op # "health" /\ Go(c, "read")

\* The handler binds and validates, then calls the service.
Handle(c) ==
    LET accepted == Accepts(call[c].front, call[c].req)
    IN /\ call[c].pc = "handle"
       /\ \/ ~accepted /\ Fail(c, "invalid")
          \/ accepted /\ call[c].req.op = "health" /\ Fail(c, "ok")
          \/ accepted /\ call[c].req.op # "health" /\ Go(c, "read")

\* The checks of the service itself, on a type with a plan or without.
Refusal(req, planned) ==
    CASE req.op = "list_types" /\ req.status = "unknown"        -> "invalid_status"
      [] req.op = "create" /\ req.who = "absent"                -> "invalid_request"
      [] req.op = "create" /\ planned
            /\ req.startAt \in {"absent", "blank"}              -> "start_at_required"
      [] req.op = "create" /\ planned
            /\ req.startAt \in {"loose", "unknown"}             -> "invalid_request"
      [] req.op = "update" /\ req.autoRenew = "absent"
            /\ req.status = "absent"                            -> "no_fields"
      [] req.op = "update" /\ req.status = "unknown"            -> "invalid_status"
      [] req.op = "callback" /\ req.status = "unknown"          -> "invalid_request"
      [] OTHER                                                  -> "none"

\* The statements before the first write.
Read(c) ==
    LET req == Bound(call[c].front, call[c].req)
    IN /\ call[c].pc = "read"
       /\ \/ \E outcome \in {"internal", "panic"} : Fail(c, outcome)
          \/ /\ DbOpen
             /\ req.op \in {"get", "update", "delete", "cancel", "callback"}
             /\ Fail(c, "subscription_not_found")
          \/ /\ DbOpen
             /\ req.op = "create"
             /\ Fail(c, "type_not_found")
          \/ /\ DbOpen
             /\ \E planned \in BOOLEAN :
                   /\ planned => req.op = "create"
                   /\ \/ /\ Refusal(req, planned) # "none"
                         /\ Fail(c, Refusal(req, planned))
                      \/ /\ Refusal(req, planned) = "none"
                         /\ req.op \in {"get", "list", "list_types"}
                         /\ Fail(c, "ok")
                      \/ /\ Refusal(req, planned) = "none"
                         /\ req.op \notin {"get", "list", "list_types"}
                         /\ Proceed(c, [call[c] EXCEPT !.pc = "write",
                                                       !.planned = planned])

\* The first write; a purchase goes on to the provider.
Write(c) ==
    /\ call[c].pc = "write"
    /\ \/ /\ DbOpen
          /\ call[c].planned
          /\ Proceed(c, [call[c] EXCEPT !.pc = "pay", !.wrote = TRUE])
       \/ /\ DbOpen
          /\ ~call[c].planned
          /\ Answer(c, "ok", TRUE)
       \/ /\ DbOpen
          /\ Fail(c, "subscription_not_found")
       \/ /\ DbOpen
          /\ call[c].req.op = "create"
          /\ Fail(c, "already_exists")
       \/ \E wrote \in BOOLEAN :
             /\ wrote => DbOpen
             /\ Answer(c, "internal", wrote)

\* The provider; a panic is recovered and answered as an error.
Pay(c) ==
    /\ call[c].pc = "pay"
    /\ Go(c, "settle") \/ Fail(c, "internal")

Settle(c) ==
    /\ call[c].pc = "settle"
    /\ \/ DbOpen /\ \E outcome \in {"ok", "subscription_not_found"} : Fail(c, outcome)
       \/ Fail(c, "internal")

CallStep(c) ==
    \/ Authenticate(c) \/ Handle(c) \/ Read(c) \/ Write(c) \/ Pay(c) \/ Settle(c)

Next ==
    \/ Main
    \/ StartHttp \/ StartGrpc \/ ServerFails
    \/ Signal \/ Killed
    \/ \E c \in Clients : Arrive(c) \/ CallStep(c)

Spec == Init /\ [][Next]_vars

-----------------------------------------------------------------------------

\* The Go scheduler runs every goroutine that can run, and statements and the
\* auth service return.  The payment provider need not: there is no deadline
\* on that call.  It is assumed to return to callers over gRPC only, which
\* the shutdown waits for without one.
MayHang(c) == call[c].pc = "pay" /\ call[c].front = "http"

Fairness ==
    /\ WF_vars(Main)
    /\ WF_vars(StartHttp)
    /\ WF_vars(StartGrpc)
    /\ \A c \in Clients : WF_vars(CallStep(c) /\ ~MayHang(c))

FairSpec == Spec /\ Fairness

-----------------------------------------------------------------------------
(* Properties.                                                             *)

CallType ==
    [pc      : {"idle", "auth", "handle", "read", "write", "pay", "settle", "answered"},
     front   : Fronts \cup {"none"},
     req     : WireRequest,
     planned : BOOLEAN,
     wrote   : BOOLEAN,
     outcome : Outcomes \cup {"none"}]

\* Every variable has its type, and only a call whose request was accepted is
\* with the service.
TypeOK ==
    /\ phase \in Phases
    /\ quit \in BOOLEAN
    /\ http \in {"new", "open", "closed"}
    /\ grpc \in {"new", "open", "closed"}
    /\ late \in BOOLEAN
    /\ call \in [Clients -> CallType]
    /\ \A c \in Clients :
          call[c].pc \in {"read", "write", "pay", "settle"} =>
             Accepts(call[c].front, call[c].req)

\* A call answered with the caller's fault (4xx, or a gRPC code other than
\* Internal) has changed nothing: the one error that CreateSubscription may
\* return after its first write and that the front ends know from the other
\* operations, "subscription not found", is answered as an internal error.
ClientErrorsWriteNothing ==
    \A c \in Clients :
        /\ call[c].pc = "answered"
        /\ ClientError(call[c].front, call[c].req.op, call[c].outcome)
        => ~call[c].wrote

\* What passes Validate passes the checks of the service: the errors that the
\* service has for malformed requests are never seen, over either front end,
\* except that only the service knows which types need a start_at.
ValidatedOnce ==
    \A c \in Clients :
        call[c].outcome \notin {"invalid_request", "invalid_status", "no_fields"}

\* The request is written as it is defined.
Exact(req) == \A f \in DOMAIN req : req[f] \notin {"loose", "blank"}

\* Both front ends give the same answer to the same outcome; gRPC accepts
\* nothing that HTTP refuses; and a request that only HTTP accepts is one of
\* which HTTP has trimmed or lowered a part.
FrontEndsAgree ==
    \A c \in Clients :
        LET k == call[c] IN
        k.pc = "answered" =>
            /\ SameAnswer(HttpStatus(k.req.op, k.outcome), GrpcCode(k.req.op, k.outcome))
            /\ Parses(k.req) =>
                  /\ Accepts("grpc", k.req) => Accepts("http", k.req)
                  /\ Exact(k.req) /\ Accepts("http", k.req) => Accepts("grpc", k.req)

\* The auth client and the database are closed under no call but those over
\* HTTP that outlasted the ten seconds.
ClosesWhenDrained ==
    phase \in Closing =>
        \A c \in Clients : InFlight(c) => call[c].front = "http" /\ late

\* A signal that waits in the channel ends the process, although calls over
\* HTTP may hang.
SignalEnds == (phase = "waiting" /\ quit) ~> phase \in Ended

State ==
    CASE phase = "exited"             -> "stopped"
      [] phase \in {"fatal", "killed"} -> "dead"
      [] phase \in Stopping           -> "stopping"
      [] OTHER                        -> "up"

Taken   == {c \in Clients : InFlight(c)}
Awaited == {c \in Taken : ~(call[c].front = "http" /\ late)}

\* The process keeps the promises of Exchange: stopping means that a signal
\* was taken, and the calls given up are those over HTTP that are late.
Promise == INSTANCE Exchange WITH
    Clients <- Clients, state <- State, flying <- Taken, awaited <- Awaited

KeepsPromise == Promise!Spec
=============================================================================
