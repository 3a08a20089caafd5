--------------------------- MODULE ApiServerProofs ---------------------------
(***************************************************************************)
(* Theorems about FrontEnds and ApiServer, for any clients and whatever    *)
(* requests they send.                                                     *)
(***************************************************************************)
EXTENDS ApiServer, TLAPS

-----------------------------------------------------------------------------
(* The answers of the two front ends.                                      *)

Operations ==
    {"health", "list", "list_types", "get", "create", "update", "delete",
     "cancel", "callback"}

\* A request is one of the operations.
LEMMA OpOfRequest ==
    ASSUME NEW req \in WireRequest
    PROVE  req.op \in Operations
BY DEF WireRequest, Operations

\* Two tables of errors that say the same.
Agree(https, grpcs) ==
    /\ DOMAIN https = DOMAIN grpcs
    /\ DOMAIN https \subseteq ServiceErrors
    /\ \A e \in DOMAIN https : https[e] \in {400, 404, 409}
                               /\ SameAnswer(https[e], grpcs[e])

\* The errors that the two handlers of an operation tell apart.
LEMMA SameErrors ==
    ASSUME NEW op \in Operations
    PROVE  Agree(HttpErrors(op), GrpcErrors(op))
<1>1. CASE op \in {"health", "list"}
  <2>1. HttpErrors(op) = <<>> /\ GrpcErrors(op) = <<>>
    BY <1>1 DEF HttpErrors, GrpcErrors
  <2> QED
    BY <2>1 DEF Agree, ServiceErrors
<1>2. CASE op = "list_types"
  <2>1. HttpErrors(op) = HttpListTypes /\ GrpcErrors(op) = GrpcListTypes
    BY <1>2 DEF HttpErrors, GrpcErrors
  <2>2. Agree(HttpListTypes, GrpcListTypes)
    BY DEF Agree, ServiceErrors, SameAnswer, HttpListTypes, GrpcListTypes
  <2> QED
    BY <2>1, <2>2
<1>3. CASE op = "create"
  <2>1. HttpErrors(op) = HttpCreate /\ GrpcErrors(op) = GrpcCreate
    BY <1>3 DEF HttpErrors, GrpcErrors
  <2>2. Agree(HttpCreate, GrpcCreate)
    BY DEF Agree, ServiceErrors, SameAnswer, HttpCreate, GrpcCreate
  <2> QED
    BY <2>1, <2>2
<1>4. CASE op = "get"
  <2>1. HttpErrors(op) = HttpRead /\ GrpcErrors(op) = GrpcRead
    BY <1>4 DEF HttpErrors, GrpcErrors
  <2>2. Agree(HttpRead, GrpcRead)
    BY DEF Agree, ServiceErrors, SameAnswer, HttpRead, GrpcRead
  <2> QED
    BY <2>1, <2>2
<1>5. CASE op = "update"
  <2>1. HttpErrors(op) = HttpUpdate /\ GrpcErrors(op) = GrpcUpdate
    BY <1>5 DEF HttpErrors, GrpcErrors
  <2>2. Agree(HttpUpdate, GrpcUpdate)
    BY DEF Agree, ServiceErrors, SameAnswer, HttpUpdate, GrpcUpdate
  <2> QED
    BY <2>1, <2>2
<1>6. CASE op \in {"delete", "cancel"}
  <2>1. HttpErrors(op) = HttpEnd /\ GrpcErrors(op) = GrpcEnd
    BY <1>6 DEF HttpErrors, GrpcErrors
  <2>2. Agree(HttpEnd, GrpcEnd)
    BY DEF Agree, ServiceErrors, SameAnswer, HttpEnd, GrpcEnd
  <2> QED
    BY <2>1, <2>2
<1>7. CASE op = "callback"
  <2>1. HttpErrors(op) = HttpCallback /\ GrpcErrors(op) = GrpcCallback
    BY <1>7 DEF HttpErrors, GrpcErrors
  <2>2. Agree(HttpCallback, GrpcCallback)
    BY DEF Agree, ServiceErrors, SameAnswer, HttpCallback, GrpcCallback
  <2> QED
    BY <2>1, <2>2
<1> QED
  BY <1>1, <1>2, <1>3, <1>4, <1>5, <1>6, <1>7 DEF Operations

\* HTTP and gRPC answer an outcome with the same meaning.
LEMMA AnswersAgree ==
    ASSUME NEW op \in Operations, NEW outcome \in Outcomes
    PROVE  SameAnswer(HttpStatus(op, outcome), GrpcCode(op, outcome))
<1>1. CASE outcome \in ({"ok", "invalid"} \cup Refusals)
  <2>0. outcome \notin DOMAIN HttpErrors(op) /\ outcome \notin DOMAIN GrpcErrors(op)
    BY <1>1, SameErrors DEF Agree, ServiceErrors, Refusals
  <2>1. CASE outcome = "ok"
    <3>1. HttpStatus(op, outcome) \in {200, 201}
      BY <2>0, <2>1 DEF HttpStatus
    <3>2. GrpcCode(op, outcome) = "OK"
      BY <2>0, <2>1 DEF GrpcCode
    <3> QED
      BY <3>1, <3>2 DEF SameAnswer
  <2>2. CASE outcome = "invalid"
    <3>1. HttpStatus(op, outcome) = 400
      BY <2>0, <2>2 DEF HttpStatus
    <3>2. GrpcCode(op, outcome) = "InvalidArgument"
      BY <2>0, <2>2 DEF GrpcCode
    <3> QED
      BY <3>1, <3>2 DEF SameAnswer
  <2>3. CASE outcome = "refused"
    <3>1. HttpStatus(op, outcome) = 403
      BY <2>0, <2>3 DEF HttpStatus
    <3>2. GrpcCode(op, outcome) = "PermissionDenied"
      BY <2>0, <2>3 DEF GrpcCode
    <3> QED
      BY <3>1, <3>2 DEF SameAnswer
  <2>4. CASE outcome = "unauthenticated"
    <3>1. HttpStatus(op, outcome) = 401
      BY <2>0, <2>4 DEF HttpStatus
    <3>2. GrpcCode(op, outcome) = "Unauthenticated"
      BY <2>0, <2>4 DEF GrpcCode
    <3> QED
      BY <3>1, <3>2 DEF SameAnswer
  <2> QED
    BY <1>1, <2>1, <2>2, <2>3, <2>4 DEF Refusals
<1>2. CASE /\ outcome \notin ({"ok", "invalid"} \cup Refusals)
           /\ outcome \in DOMAIN HttpErrors(op)
  BY <1>2, SameErrors DEF HttpStatus, GrpcCode, Agree, Refusals
<1>3. CASE /\ outcome \notin ({"ok", "invalid"} \cup Refusals)
           /\ outcome \notin DOMAIN HttpErrors(op)
  <2>1. HttpStatus(op, outcome) = 500 /\ GrpcCode(op, outcome) = "Internal"
    BY <1>3, SameErrors DEF HttpStatus, GrpcCode, Agree, Refusals
  <2> QED
    BY <2>1 DEF SameAnswer
<1> QED
  BY <1>1, <1>2, <1>3

\* Where they differ is in what they accept, and how.
LEMMA AcceptanceAgrees ==
    ASSUME NEW req \in WireRequest, Parses(req)
    PROVE  /\ Accepts("grpc", req) => Accepts("http", req)
           /\ Exact(req) /\ Accepts("http", req) => Accepts("grpc", req)
<1>1. CASE req.op = "create"
  <2>1. DOMAIN req = {"op", "type", "who", "startAt"}
    BY <1>1 DEF WireRequest, Parses
  <2> QED
    BY <1>1, <2>1 DEF Accepts, Bound, FromContext, Validate, Exact, WireRequest, Parses
<1>2. CASE req.op = "callback"
  <2>1. DOMAIN req = {"op", "id", "status"}
    BY <1>2 DEF WireRequest, Parses
  <2> QED
    BY <1>2, <2>1 DEF Accepts, Bound, FromContext, Validate, Exact, WireRequest, Parses
<1>3. CASE req.op \notin {"create", "callback"}
  BY <1>3 DEF Accepts, Bound, FromContext
<1> QED
  BY <1>1, <1>2, <1>3

\* What is valid is nothing the service calls malformed.
LEMMA NothingLeftToRefuse ==
    ASSUME NEW req, NEW planned \in BOOLEAN, Validate(req)
    PROVE  Refusal(req, planned) \in {"start_at_required", "none"}
<1>1. CASE req.op = "list_types"
  BY <1>1 DEF Validate, Refusal
<1>2. CASE req.op = "create"
  BY <1>2 DEF Validate, Refusal
<1>3. CASE req.op = "update"
  BY <1>3 DEF Validate, Refusal
<1>4. CASE req.op = "callback"
  BY <1>4 DEF Validate, Refusal
<1>5. CASE req.op \notin {"list_types", "create", "update", "callback"}
  BY <1>5 DEF Refusal
<1> QED
  BY <1>1, <1>2, <1>3, <1>4, <1>5

-----------------------------------------------------------------------------
(* The inductive invariant.                                                *)

Busy(k) == k.pc \notin {"idle", "answered"}

\* What holds of a call at every point of its way.  Nothing is written
\* before "write"; only a purchase has a plan, and only a planned purchase
\* goes to the provider; so what was written is answered as a success, as an
\* internal error or as the one error of a purchase nobody expects.
Fit(k) ==
    /\ k \in CallType
    /\ Busy(k) => k.front \in Fronts
    /\ k.pc \in {"read", "write", "pay", "settle"} => Accepts(k.front, k.req)
    /\ k.pc \in {"auth", "handle", "read", "write"} => ~k.wrote
    /\ k.planned => k.req.op = "create"
    /\ k.pc \in {"pay", "settle"} => k.planned
    /\ k.pc = "answered" =>
          /\ k.outcome \in Outcomes
          /\ k.wrote => \/ k.outcome \in {"ok", "internal"}
                        \/ k.outcome = "subscription_not_found" /\ k.req.op = "create"
    /\ k.outcome \notin {"invalid_request", "invalid_status", "no_fields"}

ServerType ==
    /\ phase \in Phases
    /\ quit \in BOOLEAN
    /\ http \in {"new", "open", "closed"}
    /\ grpc \in {"new", "open", "closed"}
    /\ late \in BOOLEAN

\* A server that was shut down takes no more calls, and the calls it had are
\* over: all of them behind GracefulStop, the others of HTTP are late.
Drained ==
    /\ late => http = "closed"
    /\ phase \in Stopping => http = "closed"
    /\ phase \in {"grpc_stop"} \cup Closing =>
          /\ grpc = "closed"
          /\ \A c \in Clients : Busy(call[c]) /\ call[c].front = "http" => late
    /\ phase \in Closing =>
          \A c \in Clients : Busy(call[c]) => call[c].front # "grpc"

AInv ==
    /\ ServerType
    /\ Drained
    /\ DOMAIN call = Clients
    /\ call = [c \in Clients |-> call[c]]
    /\ \A c \in Clients : Fit(call[c])

LEMMA IdleFits == Fit(Idle) /\ ~Busy(Idle)
<1>1. Idle.req \in WireRequest
  BY DEF Idle, WireRequest
<1>2. Idle \in CallType
  BY <1>1 DEF Idle, CallType
<1> QED
  BY <1>2 DEF Fit, Busy, Idle

LEMMA InitAInv == Init => AInv
<1> SUFFICES ASSUME Init PROVE AInv
  OBVIOUS
<1>1. ServerType
  BY DEF Init, Signals!Init, ServerType, Phases, Starting
<1>2. Drained
  BY DEF Init, Drained, Stopping, Closing
<1>3. /\ DOMAIN call = Clients
      /\ call = [c \in Clients |-> call[c]]
      /\ \A c \in Clients : Fit(call[c])
  BY IdleFits DEF Init
<1> QED
  BY <1>1, <1>2, <1>3 DEF AInv

\* A step that ends the process.
LEMMA AbandonedKeeps ==
    ASSUME AInv, phase' \in Ended, Abandoned, UNCHANGED <<quit, http, grpc, late>>
    PROVE  AInv'
<1>1. ServerType'
  BY DEF AInv, ServerType, Phases
<1>2. Drained'
  BY DEF AInv, Drained, Stopping, Closing, Ended
<1>3. /\ DOMAIN call' = Clients
      /\ call' = [c \in Clients |-> call'[c]]
      /\ \A c \in Clients : Fit(call'[c])
  BY IdleFits DEF Abandoned
<1> QED
  BY <1>1, <1>2, <1>3 DEF AInv, Fit

\* A step of the servers that leaves the calls alone.
LEMMA ServerKeeps ==
    ASSUME AInv, UNCHANGED call, ServerType', Drained'
    PROVE  AInv'
BY DEF AInv

\* A step of one call: one that is in flight, or one that a server takes.
LEMMA ProceedKeeps ==
    ASSUME AInv, NEW c \in Clients, NEW k, Proceed(c, k), Fit(k),
           Busy(k) => \/ Busy(call[c]) /\ k.front = call[c].front
                      \/ k.front = "http" /\ http = "open"
                      \/ k.front = "grpc" /\ grpc = "open"
    PROVE  AInv'
<1>1. /\ DOMAIN call' = Clients
      /\ call' = [d \in Clients |-> call'[d]]
      /\ call'[c] = k
      /\ \A d \in Clients \ {c} : call'[d] = call[d]
  BY DEF AInv, Proceed
<1>2. \A d \in Clients : Fit(call'[d])
  BY <1>1 DEF AInv
<1>3. ServerType'
  BY DEF AInv, ServerType, Proceed
<1>4. Drained'
  <2> USE <1>1 DEF AInv, Drained, Proceed
  <2>1. late' => http' = "closed"
    OBVIOUS
  <2>2. phase' \in Stopping => http' = "closed"
    OBVIOUS
  <2>3. ASSUME phase' \in {"grpc_stop"} \cup Closing
        PROVE  /\ grpc' = "closed"
               /\ \A d \in Clients : Busy(call'[d]) /\ call'[d].front = "http" => late'
    BY <2>3 DEF Stopping
  <2>4. ASSUME phase' \in Closing, NEW d \in Clients, Busy(call'[d])
        PROVE  call'[d].front # "grpc"
    BY <2>4 DEF Stopping
  <2> QED
    BY <2>1, <2>2, <2>3, <2>4
<1> QED
  BY <1>1, <1>2, <1>3, <1>4 DEF AInv

-----------------------------------------------------------------------------
(* Each step keeps it.                                                     *)

LEMMA FatalKeeps == ASSUME AInv, Fatal PROVE AInv'
BY AbandonedKeeps DEF Fatal, Ended

LEMMA AdvanceKeeps ==
    ASSUME AInv, NEW from \in Starting, NEW to \in Starting \cup {"started"},
           Advance(from, to)
    PROVE  AInv'
<1>1. CASE Fatal
  BY <1>1, FatalKeeps
<1>2. CASE phase' = to /\ UNCHANGED <<quit, http, grpc, late, call>>
  <2>1. ServerType'
    BY <1>2 DEF AInv, ServerType, Phases
  <2>2. Drained'
    BY <1>2 DEF AInv, Drained, Starting, Stopping, Closing
  <2> QED
    BY <1>2, <2>1, <2>2, ServerKeeps
<1> QED
  BY <1>1, <1>2 DEF Advance

\* The main goroutine.
LEMMA MainKeeps == ASSUME AInv, Main PROVE AInv'
<1>1. CASE LoadConfig \/ OpenDatabase \/ DialAuth \/ ListenAndFork
  BY <1>1, AdvanceKeeps DEF LoadConfig, OpenDatabase, DialAuth, ListenAndFork, Starting
<1>2. CASE Notify \/ TakeQuit
  <2>1. ServerType'
    BY <1>2 DEF Notify, TakeQuit, Signals!Receive, AInv, ServerType, Phases, Stopping
  <2>2. Drained'
    BY <1>2 DEF Notify, TakeQuit, AInv, Drained, Stopping, Closing
  <2> QED
    BY <1>2, <2>1, <2>2, ServerKeeps DEF Notify, TakeQuit
<1>3. CASE HttpDrained \/ HttpDeadline
  <2>1. ServerType'
    BY <1>3 DEF HttpDrained, HttpDeadline, StopGrpc, AInv, ServerType, Phases, Stopping
  <2>2. Drained'
    <3>1. phase \in Stopping /\ phase' = "grpc_stop" /\ http' = http /\ grpc' = "closed"
          /\ call' = call
      BY <1>3 DEF HttpDrained, HttpDeadline, StopGrpc, Stopping
    <3>2. late' \/ \A c \in Clients : ~(Busy(call[c]) /\ call[c].front = "http")
      BY <1>3 DEF HttpDrained, HttpDeadline, Flying, InFlight, Busy
    <3> QED
      BY <3>1, <3>2 DEF AInv, Drained, Stopping, Closing
  <2> QED
    BY <1>3, <2>1, <2>2, ServerKeeps DEF HttpDrained, HttpDeadline, StopGrpc
<1>4. CASE GrpcDrained
  <2>1. ServerType'
    BY <1>4 DEF GrpcDrained, AInv, ServerType, Phases, Stopping, Closing
  <2>2. \A c \in Clients : Busy(call[c]) => call[c].front # "grpc"
    BY <1>4 DEF GrpcDrained, Flying, InFlight, Busy
  <2>3. Drained'
    BY <1>4, <2>2 DEF GrpcDrained, AInv, Drained, Stopping, Closing
  <2> QED
    BY <1>4, <2>1, <2>3, ServerKeeps DEF GrpcDrained
<1>5. CASE CloseAuth \/ CloseDb
  <2>1. ServerType'
    BY <1>5 DEF CloseAuth, CloseDb, AInv, ServerType, Phases, Stopping, Closing
  <2>2. Drained'
    BY <1>5 DEF CloseAuth, CloseDb, AInv, Drained, Stopping, Closing
  <2> QED
    BY <1>5, <2>1, <2>2, ServerKeeps DEF CloseAuth, CloseDb
<1>6. CASE Exit
  BY <1>6, AbandonedKeeps DEF Exit, Ended
<1> QED
  BY <1>1, <1>2, <1>3, <1>4, <1>5, <1>6 DEF Main

\* The other goroutines of the servers, and signals.
LEMMA SurroundingsKeep ==
    ASSUME AInv, StartHttp \/ StartGrpc \/ ServerFails \/ Signal \/ Killed
    PROVE  AInv'
<1>1. CASE Fatal
  BY <1>1, FatalKeeps
<1>2. CASE /\ phase' = "killed"
           /\ Abandoned
           /\ UNCHANGED <<quit, http, grpc, late>>
  BY <1>2, AbandonedKeeps DEF Ended
<1>3. CASE /\ http = "new"
           /\ http' = "open"
           /\ UNCHANGED <<phase, quit, grpc, late, call>>
  <2>1. ServerType' /\ Drained'
    BY <1>3 DEF AInv, ServerType, Drained, Stopping
  <2> QED
    BY <1>3, <2>1, ServerKeeps
<1>4. CASE /\ grpc = "new"
           /\ grpc' = "open"
           /\ UNCHANGED <<phase, quit, http, late, call>>
  <2>1. ServerType' /\ Drained'
    BY <1>4 DEF AInv, ServerType, Drained
  <2> QED
    BY <1>4, <2>1, ServerKeeps
<1>5. CASE quit' = TRUE /\ UNCHANGED <<phase, http, grpc, late, call>>
  <2>1. ServerType' /\ Drained'
    BY <1>5 DEF AInv, ServerType, Drained
  <2> QED
    BY <1>5, <2>1, ServerKeeps
<1> QED
  BY <1>1, <1>2, <1>3, <1>4, <1>5
  DEF StartHttp, StartGrpc, ServerFails, Signal, Signals!Send, Killed

LEMMA ArriveKeeps == ASSUME AInv, NEW c \in Clients, Arrive(c) PROVE AInv'
<1>1. PICK front \in Fronts, req \in Sends[c] :
        /\ IF front = "http" THEN http = "open" ELSE grpc = "open"
        /\ Proceed(c, [Idle EXCEPT !.pc = "auth", !.front = front, !.req = req])
  BY DEF Arrive
<1> DEFINE k == [Idle EXCEPT !.pc = "auth", !.front = front, !.req = req]
<1>2. req \in WireRequest
  BY SendsAssumption
<1>3. /\ k.pc = "auth" /\ k.front = front /\ k.req = req
      /\ k.planned = FALSE /\ k.wrote = FALSE /\ k.outcome = "none"
  BY DEF Idle
<1>4. k \in CallType
  BY <1>2, IdleFits DEF Fit, CallType
<1>5. Fit(k)
  BY <1>3, <1>4 DEF Fit
<1>6. \/ k.front = "http" /\ http = "open"
      \/ k.front = "grpc" /\ grpc = "open"
  BY <1>1, <1>3 DEF Fronts
<1> HIDE DEF k
<1> QED
  BY <1>1, <1>5, <1>6, ProceedKeeps DEF k

\* The outcome alone changes an answer.
LEMMA FailKeeps ==
    ASSUME AInv, NEW c \in Clients, NEW outcome \in Outcomes, NEW wrote \in BOOLEAN,
           Busy(call[c]), Answer(c, outcome, wrote),
           outcome \notin {"invalid_request", "invalid_status", "no_fields"},
           wrote => \/ outcome \in {"ok", "internal"}
                    \/ outcome = "subscription_not_found" /\ call[c].req.op = "create"
    PROVE  AInv'
<1> DEFINE k == [call[c] EXCEPT !.pc = "answered", !.outcome = outcome, !.wrote = wrote]
<1>1. Fit(call[c])
  BY DEF AInv
<1>2. k \in CallType
  BY <1>1 DEF Fit, CallType
<1>3. /\ k.pc = "answered" /\ k.outcome = outcome /\ k.wrote = wrote
      /\ k.front = call[c].front /\ k.req = call[c].req /\ k.planned = call[c].planned
  BY <1>1 DEF Fit, CallType
<1>4. Fit(k) /\ ~Busy(k)
  BY <1>1, <1>2, <1>3 DEF Fit, Busy
<1>5. Proceed(c, k)
  BY DEF Answer
<1> HIDE DEF k
<1> QED
  BY <1>4, <1>5, ProceedKeeps

\* One statement further, with nothing to say of what was written.
LEMMA GoKeeps ==
    ASSUME AInv, NEW c \in Clients, NEW pc \in {"handle", "read", "settle"},
           Busy(call[c]), Go(c, pc),
           pc = "read" => Accepts(call[c].front, call[c].req),
           pc \in {"handle", "read"} => ~call[c].wrote,
           pc = "settle" => call[c].pc = "pay"
    PROVE  AInv'
<1> DEFINE k == [call[c] EXCEPT !.pc = pc]
<1>1. Fit(call[c])
  BY DEF AInv
<1>2. k \in CallType
  BY <1>1 DEF Fit, CallType
<1>3. /\ k.pc = pc /\ k.outcome = call[c].outcome /\ k.wrote = call[c].wrote
      /\ k.front = call[c].front /\ k.req = call[c].req /\ k.planned = call[c].planned
  BY <1>1 DEF Fit, CallType
<1>4. Fit(k)
  BY <1>1, <1>2, <1>3 DEF Fit, Busy
<1>5. Proceed(c, k)
  BY DEF Go
<1> HIDE DEF k
<1> QED
  BY <1>3, <1>4, <1>5, ProceedKeeps

LEMMA AuthenticateKeeps == ASSUME AInv, NEW c \in Clients, Authenticate(c) PROVE AInv'
<1>1. Fit(call[c]) /\ call[c].pc = "auth" /\ Busy(call[c]) /\ call[c].wrote = FALSE
  BY DEF AInv, Authenticate, Fit, Busy, CallType
<1>2. CASE Go(c, "handle")
  BY <1>1, <1>2, GoKeeps
<1>3. ASSUME NEW outcome \in Refusals, Fail(c, outcome)
      PROVE  AInv'
  BY <1>1, <1>3, FailKeeps DEF Fail, Outcomes, ServiceErrors, Refusals
<1> QED
  BY <1>2, <1>3 DEF Authenticate

LEMMA HandleKeeps == ASSUME AInv, NEW c \in Clients, Handle(c) PROVE AInv'
<1>1. Fit(call[c]) /\ call[c].pc = "handle" /\ Busy(call[c]) /\ call[c].wrote = FALSE
  BY DEF AInv, Handle, Fit, Busy, CallType
<1>2. CASE Fail(c, "invalid") \/ Fail(c, "ok")
  BY <1>1, <1>2, FailKeeps DEF Fail, Outcomes, ServiceErrors
<1>3. CASE Accepts(call[c].front, call[c].req) /\ Go(c, "read")
  BY <1>1, <1>3, GoKeeps
<1> QED
  BY <1>2, <1>3 DEF Handle

LEMMA PayKeeps == ASSUME AInv, NEW c \in Clients, Pay(c) PROVE AInv'
<1>1. Fit(call[c]) /\ call[c].pc = "pay" /\ Busy(call[c]) /\ call[c].wrote \in BOOLEAN
  BY DEF AInv, Pay, Fit, Busy, CallType
<1>2. CASE Go(c, "settle")
  BY <1>1, <1>2, GoKeeps
<1>3. CASE Fail(c, "internal")
  BY <1>1, <1>3, FailKeeps DEF Fail, Outcomes
<1> QED
  BY <1>2, <1>3 DEF Pay

LEMMA SettleKeeps == ASSUME AInv, NEW c \in Clients, Settle(c) PROVE AInv'
<1>1. /\ Fit(call[c]) /\ call[c].pc = "settle" /\ Busy(call[c])
      /\ call[c].wrote \in BOOLEAN /\ call[c].req.op = "create"
  BY DEF AInv, Settle, Fit, Busy, CallType
<1>2. PICK outcome \in {"ok", "subscription_not_found", "internal"} : Fail(c, outcome)
  BY DEF Settle
<1> QED
  BY <1>1, <1>2, FailKeeps DEF Fail, Outcomes, ServiceErrors

\* What binding leaves alone.
LEMMA BoundOp ==
    ASSUME NEW front, NEW req \in WireRequest, Parses(req)
    PROVE  Bound(front, req).op = req.op
<1>1. CASE req.op = "create"
  <2>1. DOMAIN req = {"op", "type", "who", "startAt"}
    BY <1>1 DEF WireRequest, Parses
  <2> QED
    BY <1>1, <2>1 DEF Bound, FromContext, WireRequest, Parses
<1>2. CASE req.op = "callback"
  <2>1. DOMAIN req = {"op", "id", "status"}
    BY <1>2 DEF WireRequest, Parses
  <2> QED
    BY <1>2, <2>1 DEF Bound, FromContext, WireRequest, Parses
<1>3. CASE req.op \notin {"create", "callback"}
  BY <1>3 DEF Bound, FromContext
<1> QED
  BY <1>1, <1>2, <1>3

LEMMA ReadKeeps == ASSUME AInv, NEW c \in Clients, Read(c) PROVE AInv'
<1> DEFINE req == Bound(call[c].front, call[c].req)
<1>1. /\ Fit(call[c]) /\ call[c].pc = "read" /\ Busy(call[c]) /\ call[c].wrote = FALSE
      /\ Validate(req) /\ req.op = call[c].req.op
  <2>1. Fit(call[c]) /\ call[c].pc = "read"
    BY DEF AInv, Read
  <2>2. /\ Busy(call[c]) /\ call[c].wrote = FALSE /\ call[c].req \in WireRequest
        /\ Accepts(call[c].front, call[c].req)
    BY <2>1 DEF Fit, Busy, CallType
  <2>3. Parses(call[c].req) /\ Validate(req)
    BY <2>2 DEF Accepts
  <2> QED
    BY <2>1, <2>2, <2>3, BoundOp
<1> HIDE DEF req
<1>2. ASSUME NEW outcome \in {"internal", "panic", "subscription_not_found",
                              "type_not_found", "start_at_required", "ok"},
             Fail(c, outcome)
      PROVE  AInv'
  BY <1>1, <1>2, FailKeeps DEF Fail, Outcomes, ServiceErrors
<1>3. ASSUME NEW planned \in BOOLEAN, Refusal(req, planned) # "none",
             Fail(c, Refusal(req, planned))
      PROVE  AInv'
  <2>1. Refusal(req, planned) = "start_at_required"
    BY <1>1, <1>3, NothingLeftToRefuse
  <2> QED
    BY <1>2, <1>3, <2>1
<1>4. ASSUME NEW planned \in BOOLEAN, planned => req.op = "create",
             Proceed(c, [call[c] EXCEPT !.pc = "write", !.planned = planned])
      PROVE  AInv'
  <2> DEFINE k == [call[c] EXCEPT !.pc = "write", !.planned = planned]
  <2>1. k \in CallType
    BY <1>1 DEF Fit, CallType
  <2>2. /\ k.pc = "write" /\ k.outcome = call[c].outcome /\ k.wrote = call[c].wrote
        /\ k.front = call[c].front /\ k.req = call[c].req /\ k.planned = planned
    BY <1>1 DEF Fit, CallType
  <2>3. Fit(k)
    BY <1>1, <1>4, <2>1, <2>2 DEF Fit, Busy
  <2> HIDE DEF k
  <2> QED
    BY <1>1, <1>4, <2>2, <2>3, ProceedKeeps DEF k
<1> QED
  BY <1>2, <1>3, <1>4 DEF Read, req

LEMMA WriteKeeps == ASSUME AInv, NEW c \in Clients, Write(c) PROVE AInv'
<1>1. Fit(call[c]) /\ call[c].pc = "write" /\ Busy(call[c]) /\ call[c].wrote = FALSE
  BY DEF AInv, Write, Fit, Busy, CallType
<1>2. CASE call[c].planned /\ Proceed(c, [call[c] EXCEPT !.pc = "pay", !.wrote = TRUE])
  <2> DEFINE k == [call[c] EXCEPT !.pc = "pay", !.wrote = TRUE]
  <2>1. k \in CallType
    BY <1>1 DEF Fit, CallType
  <2>2. /\ k.pc = "pay" /\ k.outcome = call[c].outcome /\ k.wrote = TRUE
        /\ k.front = call[c].front /\ k.req = call[c].req
        /\ k.planned = call[c].planned
    BY <1>1 DEF Fit, CallType
  <2>3. Fit(k)
    BY <1>1, <1>2, <2>1, <2>2 DEF Fit, Busy
  <2> HIDE DEF k
  <2> QED
    BY <1>1, <1>2, <2>2, <2>3, ProceedKeeps DEF k
<1>3. ASSUME NEW outcome \in {"subscription_not_found", "already_exists"},
             Fail(c, outcome)
      PROVE  AInv'
  BY <1>1, <1>3, FailKeeps DEF Fail, Outcomes, ServiceErrors
<1>4. ASSUME NEW outcome \in {"ok", "internal"}, NEW wrote \in BOOLEAN,
             Answer(c, outcome, wrote)
      PROVE  AInv'
  BY <1>1, <1>4, FailKeeps DEF Outcomes
<1> QED
  BY <1>2, <1>3, <1>4 DEF Write

THEOREM AInvStep == AInv /\ [Next]_vars => AInv'
<1> SUFFICES ASSUME AInv, [Next]_vars PROVE AInv'
  OBVIOUS
<1>1. CASE UNCHANGED vars
  BY <1>1 DEF vars, AInv, ServerType, Drained
<1>2. CASE Main
  BY <1>2, MainKeeps
<1>3. CASE StartHttp \/ StartGrpc \/ ServerFails \/ Signal \/ Killed
  BY <1>3, SurroundingsKeep
<1>4. ASSUME NEW c \in Clients, Arrive(c) PROVE AInv'
  BY <1>4, ArriveKeeps
<1>5. ASSUME NEW c \in Clients, CallStep(c) PROVE AInv'
  BY <1>5, AuthenticateKeeps, HandleKeeps, ReadKeeps, WriteKeeps, PayKeeps, SettleKeeps
  DEF CallStep
<1> QED
  BY <1>1, <1>2, <1>3, <1>4, <1>5 DEF Next

THEOREM AInvAlways == Spec => []AInv
BY InitAInv, AInvStep, PTL DEF Spec

-----------------------------------------------------------------------------
(* What follows from it.                                                   *)

\* Types, and that only accepted requests are with the service.
THEOREM ServerTypeCorrect == Spec => []TypeOK
<1>1. AInv => TypeOK
  BY DEF AInv, ServerType, Fit, TypeOK
<1> QED
  BY <1>1, AInvAlways, PTL

\* Whichever calls are in flight when the auth client and the database are
\* closed, they came over HTTP and outlasted the ten seconds.
THEOREM DrainedBeforeClose == Spec => []ClosesWhenDrained
<1>1. AInv => ClosesWhenDrained
  BY DEF AInv, Drained, Fit, Fronts, ClosesWhenDrained, InFlight, Busy
<1> QED
  BY <1>1, AInvAlways, PTL

\* No front end puts a success, a failure of the service or the loss of a row
\* that was just created on the caller.
LEMMA NotTheCallersFault ==
    ASSUME NEW op \in Operations, NEW front, NEW outcome,
           \/ outcome \in {"ok", "internal"}
           \/ outcome = "subscription_not_found" /\ op = "create"
    PROVE  ~ClientError(front, op, outcome)
<1>1. outcome \notin DOMAIN HttpErrors(op) /\ outcome \notin DOMAIN GrpcErrors(op)
  <2>1. CASE outcome \in {"ok", "internal"}
    BY <2>1, SameErrors DEF Agree, ServiceErrors
  <2>2. CASE outcome = "subscription_not_found" /\ op = "create"
    <3>1. HttpErrors(op) = HttpCreate /\ GrpcErrors(op) = GrpcCreate
      BY <2>2 DEF HttpErrors, GrpcErrors
    <3> QED
      BY <2>2, <3>1 DEF HttpCreate, GrpcCreate
  <2> QED
    BY <2>1, <2>2
<1>2. HttpStatus(op, outcome) \in {200, 201, 500}
  BY <1>1 DEF HttpStatus
<1>3. GrpcCode(op, outcome) \in {"OK", "Internal"}
  BY <1>1 DEF GrpcCode
<1> QED
  BY <1>2, <1>3 DEF ClientError

\* However many calls there are and whatever they ask for, a call that is
\* told to be at fault itself has changed nothing.
THEOREM FaultOfTheCaller == Spec => []ClientErrorsWriteNothing
<1>1. AInv => ClientErrorsWriteNothing
  <2> SUFFICES ASSUME AInv, NEW c \in Clients, call[c].pc = "answered", call[c].wrote
               PROVE  ~ClientError(call[c].front, call[c].req.op, call[c].outcome)
    BY DEF ClientErrorsWriteNothing
  <2>1. Fit(call[c]) /\ call[c].req \in WireRequest
    BY DEF AInv, Fit, CallType
  <2>2. call[c].req.op \in Operations
    BY <2>1, OpOfRequest
  <2> QED
    BY <2>1, <2>2, NotTheCallersFault DEF Fit
<1> QED
  BY <1>1, AInvAlways, PTL

\* The checks of the service for malformed requests never fire.
THEOREM ValidationSuffices == Spec => []ValidatedOnce
<1>1. AInv => ValidatedOnce
  BY DEF AInv, Fit, ValidatedOnce
<1> QED
  BY <1>1, AInvAlways, PTL

\* The two front ends accept and answer alike, up to what HTTP trims.
THEOREM FrontEndsAreOne == Spec => []FrontEndsAgree
<1>1. AInv => FrontEndsAgree
  <2> SUFFICES ASSUME AInv, NEW c \in Clients, call[c].pc = "answered"
               PROVE
                 /\ SameAnswer(HttpStatus(call[c].req.op, call[c].outcome),
                               GrpcCode(call[c].req.op, call[c].outcome))
                 /\ Parses(call[c].req) =>
                       /\ Accepts("grpc", call[c].req) => Accepts("http", call[c].req)
                       /\ Exact(call[c].req) /\ Accepts("http", call[c].req) =>
                             Accepts("grpc", call[c].req)
    BY DEF FrontEndsAgree
  <2>1. call[c].req \in WireRequest /\ call[c].outcome \in Outcomes
    BY DEF AInv, Fit, CallType
  <2>2. call[c].req.op \in Operations
    BY <2>1, OpOfRequest
  <2> QED
    BY <2>1, <2>2, AnswersAgree, AcceptanceAgrees
<1> QED
  BY <1>1, AInvAlways, PTL

-----------------------------------------------------------------------------
(* The process implements Exchange.                                        *)

StateIs ==
    /\ State = "up" <=> phase \notin Stopping \cup Ended
    /\ State = "stopping" <=> phase \in Stopping
    /\ State = "stopped" <=> phase = "exited"
    /\ State = "dead" <=> phase \in {"fatal", "killed"}

LEMMA StateOfPhase == StateIs /\ StateIs'
BY DEF StateIs, State, Stopping, Closing, Ended

TakenIs == Taken = {c \in Clients : Busy(call[c])}

LEMMA TakenOfCall == TakenIs /\ TakenIs'
BY DEF TakenIs, Taken, InFlight, Busy

\* A step that changes neither the calls nor how the process stands.
LEMMA Stutters ==
    ASSUME UNCHANGED <<late, call>>, State' = State
    PROVE  UNCHANGED Promise!vars
BY DEF Promise!vars, Taken, Awaited, InFlight

LEMMA EndIsDie ==
    ASSUME phase \notin Ended, phase' \in {"fatal", "killed"}, Abandoned
    PROVE  Promise!Die
<1>1. State \in {"up", "stopping"} /\ State' = "dead"
  BY StateOfPhase DEF StateIs
<1>2. Taken' = {}
  BY TakenOfCall, IdleFits DEF TakenIs, Abandoned
<1>3. Awaited' = {}
  BY <1>2 DEF Awaited
<1> QED
  BY <1>1, <1>2, <1>3 DEF Promise!Die

\* What a step of the main goroutine is in the eyes of the callers.
LEMMA MainRefines ==
    ASSUME AInv, Main
    PROVE  [Promise!Next]_(Promise!vars)
<1>1. CASE phase \notin Ended /\ phase' = "fatal" /\ Abandoned
  BY <1>1, EndIsDie DEF Promise!Next
<1>2. CASE /\ phase \in Starting \cup {"started"}
           /\ phase' \in Starting \cup {"started", "waiting"}
           /\ UNCHANGED <<quit, http, grpc, late, call>>
  <2>1. State = "up" /\ State' = "up"
    BY <1>2, StateOfPhase DEF StateIs, Starting, Stopping, Closing, Ended
  <2> QED
    BY <1>2, <2>1, Stutters
<1>3. CASE TakeQuit
  <2>1. State = "up" /\ State' = "stopping"
    BY <1>3, StateOfPhase DEF TakeQuit, StateIs, Stopping, Closing, Ended
  <2>2. UNCHANGED <<Taken, Awaited>>
    BY <1>3 DEF TakeQuit, Taken, Awaited, InFlight
  <2> QED
    BY <2>1, <2>2 DEF Promise!Stop, Promise!Next
<1>4. CASE HttpDrained \/ GrpcDrained \/ CloseAuth \/ CloseDb
  <2>1. phase \in Stopping /\ phase' \in Stopping /\ UNCHANGED <<late, call>>
    BY <1>4 DEF HttpDrained, StopGrpc, GrpcDrained, CloseAuth, CloseDb, Stopping, Closing
  <2>2. State = "stopping" /\ State' = "stopping"
    BY <2>1, StateOfPhase DEF StateIs
  <2> QED
    BY <2>1, <2>2, Stutters
<1>5. CASE HttpDeadline
  <2>1. phase \in Stopping /\ phase' \in Stopping /\ late' = TRUE /\ call' = call
    BY <1>5 DEF HttpDeadline, StopGrpc, Stopping
  <2>2. State = "stopping" /\ State' = "stopping"
    BY <2>1, StateOfPhase DEF StateIs
  <2>3. Taken' = Taken
    BY <2>1 DEF Taken, InFlight
  <2>4. Awaited' \subseteq Awaited
    BY <2>1, <2>3 DEF Awaited
  <2> QED
    BY <2>2, <2>3, <2>4 DEF Promise!GiveUp, Promise!Next
<1>6. CASE Exit
  <2>1. State = "stopping" /\ State' = "stopped"
    BY <1>6, StateOfPhase DEF Exit, StateIs, Stopping, Closing
  <2>2. Awaited = {}
    <3>1. phase \in Closing
      BY <1>6 DEF Exit, Closing
    <3>2. \A c \in Taken : call[c].front = "http" /\ late
      BY <3>1, TakenOfCall DEF AInv, Drained, Fit, Fronts, TakenIs
    <3> QED
      BY <3>2 DEF Awaited
  <2>3. Taken' = {}
    BY <1>6, TakenOfCall, IdleFits DEF Exit, TakenIs, Abandoned
  <2>4. Awaited' = {}
    BY <2>3 DEF Awaited
  <2> QED
    BY <2>1, <2>2, <2>3, <2>4 DEF Promise!Stopped, Promise!Next
<1>7. CASE LoadConfig \/ OpenDatabase \/ DialAuth \/ ListenAndFork \/ Notify
  BY <1>1, <1>2, <1>7
  DEF LoadConfig, OpenDatabase, DialAuth, ListenAndFork, Notify, Advance, Fatal,
      Starting, Ended
<1> QED
  BY <1>3, <1>4, <1>5, <1>6, <1>7 DEF Main

LEMMA SurroundingsRefine ==
    ASSUME StartHttp \/ StartGrpc \/ ServerFails \/ Signal \/ Killed
    PROVE  [Promise!Next]_(Promise!vars)
<1>1. CASE phase \notin Ended /\ phase' \in {"fatal", "killed"} /\ Abandoned
  BY <1>1, EndIsDie DEF Promise!Next
<1>2. CASE UNCHANGED <<phase, late, call>>
  <2>1. State' = State
    BY <1>2 DEF State
  <2> QED
    BY <1>2, <2>1, Stutters
<1> QED
  BY <1>1, <1>2
  DEF StartHttp, StartGrpc, ServerFails, Signal, Killed, Fatal, Forked, Starting, Ended

\* A step of a call: it is taken, it goes on, or it is answered.
LEMMA ProceedRefines ==
    ASSUME AInv, NEW c \in Clients, NEW k, Proceed(c, k),
           \/ Busy(call[c]) /\ k.front = call[c].front
           \/ /\ ~Busy(call[c]) /\ Busy(k) /\ phase \notin Ended
              /\ ~(k.front = "http" /\ late)
    PROVE  [Promise!Next]_(Promise!vars)
<1>1. /\ call'[c] = k
      /\ \A d \in Clients \ {c} : call'[d] = call[d]
      /\ UNCHANGED <<phase, late>>
  BY DEF AInv, Proceed
<1>2. State' = State
  BY <1>1 DEF State
<1>3. /\ Taken = {d \in Clients : Busy(call[d])}
      /\ Taken' = {d \in Clients : Busy(call'[d])}
  BY TakenOfCall DEF TakenIs
<1>4. CASE Busy(call[c]) /\ Busy(k) /\ k.front = call[c].front
  <2>1. Taken' = Taken
    BY <1>1, <1>3, <1>4
  <2>2. Awaited' = Awaited
    BY <1>1, <1>3, <1>4, <2>1 DEF Awaited
  <2> QED
    BY <1>2, <2>1, <2>2 DEF Promise!vars
<1>5. CASE Busy(call[c]) /\ ~Busy(k)
  <2>1. c \in Taken /\ Taken' = Taken \ {c}
    BY <1>1, <1>3, <1>5
  <2>2. Awaited' = Awaited \ {c}
    BY <1>1, <1>3, <2>1 DEF Awaited
  <2> QED
    BY <1>2, <2>1, <2>2 DEF Promise!Answer, Promise!Next
<1>6. CASE ~Busy(call[c])
  <2>1. c \notin Taken /\ Taken' = Taken \cup {c}
    BY <1>1, <1>3, <1>6
  <2>2. Awaited' = Awaited \cup {c}
    BY <1>1, <1>3, <1>6, <2>1 DEF Awaited
  <2>3. State \in {"up", "stopping"}
    BY <1>6, StateOfPhase DEF StateIs
  <2> QED
    BY <1>2, <2>1, <2>2, <2>3 DEF Promise!Take, Promise!Next
<1> QED
  BY <1>4, <1>5, <1>6

LEMMA ArriveRefines ==
    ASSUME AInv, NEW c \in Clients, Arrive(c)
    PROVE  [Promise!Next]_(Promise!vars)
<1>1. PICK front \in Fronts, req \in Sends[c] :
        /\ IF front = "http" THEN http = "open" ELSE grpc = "open"
        /\ Proceed(c, [Idle EXCEPT !.pc = "auth", !.front = front, !.req = req])
  BY DEF Arrive
<1> DEFINE k == [Idle EXCEPT !.pc = "auth", !.front = front, !.req = req]
<1>2. k.front = front /\ Busy(k)
  BY DEF Idle, Busy
<1>3. ~(k.front = "http" /\ late)
  BY <1>1, <1>2 DEF AInv, Drained
<1>4. ~Busy(call[c]) /\ phase \notin Ended
  BY DEF Arrive, InFlight, Busy, Forked
<1> HIDE DEF k
<1> QED
  BY <1>1, <1>2, <1>3, <1>4, ProceedRefines DEF k

\* A call never changes its front end on the way.
LEMMA CallStepRefines ==
    ASSUME AInv, NEW c \in Clients, CallStep(c)
    PROVE  [Promise!Next]_(Promise!vars)
<1>1. Fit(call[c]) /\ Busy(call[c])
  BY DEF AInv, CallStep, Authenticate, Handle, Read, Write, Pay, Settle, Busy
<1>2. PICK k : Proceed(c, k) /\ k.front = call[c].front
  <2>1. ASSUME NEW pc, Go(c, pc)
        PROVE  \E k : Proceed(c, k) /\ k.front = call[c].front
    <3>1. [call[c] EXCEPT !.pc = pc].front = call[c].front
      BY <1>1 DEF Fit, CallType
    <3> QED
      BY <2>1, <3>1 DEF Go
  <2>2. ASSUME NEW outcome, NEW wrote, Answer(c, outcome, wrote)
        PROVE  \E k : Proceed(c, k) /\ k.front = call[c].front
    <3> DEFINE k == [call[c] EXCEPT !.pc = "answered", !.outcome = outcome,
                                   !.wrote = wrote]
    <3>1. k.front = call[c].front
      BY <1>1 DEF Fit, CallType
    <3>2. Proceed(c, k)
      BY <2>2 DEF Answer
    <3> HIDE DEF k
    <3> QED
      BY <3>1, <3>2
  <2>3. ASSUME NEW planned,
               Proceed(c, [call[c] EXCEPT !.pc = "write", !.planned = planned])
        PROVE  \E k : Proceed(c, k) /\ k.front = call[c].front
    <3> DEFINE k == [call[c] EXCEPT !.pc = "write", !.planned = planned]
    <3>1. k.front = call[c].front
      BY <1>1 DEF Fit, CallType
    <3> HIDE DEF k
    <3> QED
      BY <2>3, <3>1 DEF k
  <2>4. ASSUME Proceed(c, [call[c] EXCEPT !.pc = "pay", !.wrote = TRUE])
        PROVE  \E k : Proceed(c, k) /\ k.front = call[c].front
    <3> DEFINE k == [call[c] EXCEPT !.pc = "pay", !.wrote = TRUE]
    <3>1. k.front = call[c].front
      BY <1>1 DEF Fit, CallType
    <3> HIDE DEF k
    <3> QED
      BY <2>4, <3>1 DEF k
  <2>5. CASE Authenticate(c)
    BY <2>1, <2>2, <2>5 DEF Authenticate, Fail
  <2>6. CASE Handle(c)
    BY <2>1, <2>2, <2>6 DEF Handle, Fail
  <2>7. CASE Read(c)
    BY <2>2, <2>3, <2>7 DEF Read, Fail
  <2>8. CASE Write(c)
    BY <2>2, <2>4, <2>8 DEF Write, Fail
  <2>9. CASE Pay(c) \/ Settle(c)
    BY <2>1, <2>2, <2>9 DEF Pay, Settle, Fail
  <2> QED
    BY <2>5, <2>6, <2>7, <2>8, <2>9 DEF CallStep
<1> QED
  BY <1>1, <1>2, ProceedRefines

\* However many callers there are, the process answers every call it took
\* before it stops, but for those it gave up after a signal, or dies.
THEOREM PromiseKept == Spec => KeepsPromise
<1>1. Init => Promise!Init
  <2> SUFFICES ASSUME Init PROVE Promise!Init
    OBVIOUS
  <2>1. State = "up"
    BY StateOfPhase DEF Init, StateIs, Stopping, Closing, Ended
  <2>2. Taken = {}
    BY TakenOfCall, IdleFits DEF TakenIs, Init
  <2> QED
    BY <2>1, <2>2 DEF Promise!Init, Awaited
<1>2. AInv /\ [Next]_vars => [Promise!Next]_(Promise!vars)
  <2> SUFFICES ASSUME AInv, [Next]_vars PROVE [Promise!Next]_(Promise!vars)
    OBVIOUS
  <2>1. CASE UNCHANGED vars
    <3>1. State' = State /\ UNCHANGED <<late, call>>
      BY <2>1 DEF vars, State
    <3> QED
      BY <3>1, Stutters
  <2>2. CASE Main
    BY <2>2, MainRefines
  <2>3. CASE StartHttp \/ StartGrpc \/ ServerFails \/ Signal \/ Killed
    BY <2>3, SurroundingsRefine
  <2>4. ASSUME NEW c \in Clients, Arrive(c) \/ CallStep(c)
        PROVE  [Promise!Next]_(Promise!vars)
    BY <2>4, ArriveRefines, CallStepRefines
  <2> QED
    BY <2>1, <2>2, <2>3, <2>4 DEF Next
<1> QED
  BY <1>1, <1>2, AInvAlways, PTL DEF Spec, Promise!Spec, KeepsPromise
=============================================================================
