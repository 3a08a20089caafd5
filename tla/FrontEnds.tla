------------------------------ MODULE FrontEnds ------------------------------
(***************************************************************************)
(* The two front ends around the service: what the HTTP controller and the *)
(* gRPC server make of a request, and how they answer what the service     *)
(* returns.                                                                *)
(*                                                                         *)
(* A request is a record with one field for each part of it that the code  *)
(* looks at; the value of a field is the class of values that the code     *)
(* tells apart:                                                            *)
(*   "absent"   not given        "zero"    the number 0                    *)
(*   "known"    a value of the enumeration, exactly as it is defined       *)
(*   "loose"    such a value in capitals, or with blanks around it         *)
(*   "unknown"  any other value  "given"   any proper value                *)
(* Only presence matters of auto_renew, and of user_id and email only      *)
(* whether one of them is more than blanks.  A request with junk in it has *)
(* a number or a body that does not parse: that is HTTP only, the fields   *)
(* of a gRPC message are typed.                                            *)
(***************************************************************************)
EXTENDS Naturals

Fronts == {"http", "grpc"}

WireRequest ==
    [op : {"health", "list"}]
    \cup [op : {"list_types"}, status : {"absent", "known", "unknown"}]
    \cup [op : {"get", "delete", "cancel"}, id : {"zero", "given"}]
    \cup [op : {"create"}, type : {"zero", "given"}, who : {"absent", "given"},
          startAt : {"absent", "blank", "known", "loose", "unknown"}]
    \cup [op : {"update"}, id : {"zero", "given"}, autoRenew : {"absent", "given"},
          status : {"absent", "known", "unknown"}]
    \cup [op : {"callback"}, id : {"zero", "given"},
          status : {"known", "loose", "unknown"}]
    \cup [op : {"list_types", "get", "create", "update", "delete", "cancel",
                "callback"}, text : {"junk"}]

-----------------------------------------------------------------------------
(* Binding and validation.                                                 *)

Parses(req) == "text" \notin DOMAIN req

\* The constructors New...RequestFromContext, on a request that parses: HTTP
\* trims start_at and the callback's status and lowers the latter.
FromContext(req) ==
    CASE req.op = "create" /\ req.startAt = "blank"   -> [req EXCEPT !.startAt = "absent"]
      [] req.op = "create" /\ req.startAt = "loose"   -> [req EXCEPT !.startAt = "known"]
      [] req.op = "callback" /\ req.status = "loose"  -> [req EXCEPT !.status = "known"]
      [] OTHER                                        -> req

\* gRPC hands the message over as it came.
Bound(front, req) == IF front = "http" THEN FromContext(req) ELSE req

\* Wrong Validate: a start_at of blanks counts as absent.
ValidateTrimming(req) ==
    /\ req.op \in {"get", "update", "delete", "cancel", "callback"} => req.id # "zero"
    /\ req.op = "list_types" => req.status # "unknown"
    /\ req.op = "create" => /\ req.type # "zero"
                            /\ req.who = "given"
                            /\ req.startAt # "unknown"
    /\ req.op = "update" => /\ req.autoRenew = "given" \/ req.status # "absent"
                            /\ req.status # "unknown"
    /\ req.op = "callback" => req.status # "unknown"

\* Validate, which both front ends call on what they have bound.
Validate(req) ==
    /\ req.op \in {"get", "update", "delete", "cancel", "callback"} => req.id # "zero"
    /\ req.op = "list_types" => req.status # "unknown"
    /\ req.op = "create" => /\ req.type # "zero"
                            /\ req.who = "given"
                            /\ req.startAt \in {"absent", "known"}
    /\ req.op = "update" => /\ req.autoRenew = "given" \/ req.status # "absent"
                            /\ req.status # "unknown"
    /\ req.op = "callback" => req.status = "known"

Accepts(front, req) == Parses(req) /\ Validate(Bound(front, req))

-----------------------------------------------------------------------------
(* Answers.  An outcome is what the service returns: "ok", one of the      *)
(* errors of app/service/errors.go, "internal" for any other error and     *)
(* "panic"; or, without the service, "unauthenticated" (without a key) or  *)
(* "refused" (a key without access) from the auth middleware, or           *)
(* "invalid", what does not bind or validate.                              *)

ServiceErrors ==
    {"subscription_not_found", "type_not_found", "already_exists",
     "invalid_request", "invalid_status", "start_at_required", "no_fields"}

Refusals == {"unauthenticated", "refused"}

Outcomes == ServiceErrors \cup Refusals \cup {"ok", "internal", "panic", "invalid"}

\* Which errors of the service each handler of the HTTP controller tells from
\* the rest, and their status codes.
HttpListTypes == [invalid_status |-> 400]

\* Wrong HttpCreate: the errors of a row are answered as elsewhere.
HttpCreateNotFound ==
    [invalid_request |-> 400, start_at_required |-> 400,
     type_not_found |-> 404, already_exists |-> 409,
     subscription_not_found |-> 404]

HttpCreate ==
    [invalid_request |-> 400, start_at_required |-> 400,
     type_not_found |-> 404, already_exists |-> 409]

HttpRead == [subscription_not_found |-> 404]

HttpUpdate == [invalid_status |-> 400, no_fields |-> 400,
               subscription_not_found |-> 404]
HttpEnd == [subscription_not_found |-> 404]
HttpCallback == [invalid_request |-> 400, subscription_not_found |-> 404]

HttpErrors(op) ==
    CASE op = "list_types"           -> HttpListTypes
      [] op = "create"               -> HttpCreate
      [] op = "get"                  -> HttpRead
      [] op = "update"               -> HttpUpdate
      [] op \in {"delete", "cancel"} -> HttpEnd
      [] op = "callback"             -> HttpCallback
      [] OTHER                       -> <<>>

HttpStatus(op, outcome) ==
    CASE outcome = "ok"                     -> IF op = "create" THEN 201 ELSE 200
      [] outcome = "invalid"                -> 400
      [] outcome = "unauthenticated"        -> 401
      [] outcome = "refused"                -> 403
      [] outcome \in DOMAIN HttpErrors(op)  -> HttpErrors(op)[outcome]
      [] OTHER                              -> 500

\* The same for the gRPC server.
GrpcListTypes == [invalid_status |-> "InvalidArgument"]

GrpcCreate ==
    [invalid_request |-> "InvalidArgument", start_at_required |-> "InvalidArgument",
     type_not_found |-> "NotFound", already_exists |-> "AlreadyExists"]

\* Wrong GrpcRead: an unknown id is an internal error.
GrpcReadInternal == <<>>

GrpcRead == [subscription_not_found |-> "NotFound"]

GrpcUpdate == [invalid_status |-> "InvalidArgument", no_fields |-> "InvalidArgument",
               subscription_not_found |-> "NotFound"]
GrpcEnd == [subscription_not_found |-> "NotFound"]
GrpcCallback == [invalid_request |-> "InvalidArgument",
                 subscription_not_found |-> "NotFound"]

GrpcErrors(op) ==
    CASE op = "list_types"           -> GrpcListTypes
      [] op = "create"               -> GrpcCreate
      [] op = "get"                  -> GrpcRead
      [] op = "update"               -> GrpcUpdate
      [] op \in {"delete", "cancel"} -> GrpcEnd
      [] op = "callback"             -> GrpcCallback
      [] OTHER                       -> <<>>

GrpcCode(op, outcome) ==
    CASE outcome = "ok"                     -> "OK"
      [] outcome = "invalid"                -> "InvalidArgument"
      [] outcome = "unauthenticated"        -> "Unauthenticated"
      [] outcome = "refused"                -> "PermissionDenied"
      [] outcome \in DOMAIN GrpcErrors(op)  -> GrpcErrors(op)[outcome]
      [] OTHER                              -> "Internal"

\* Which status code says the same as which gRPC code.
SameAnswer(status, code) ==
    \/ status \in {200, 201} /\ code = "OK"
    \/ status = 400 /\ code = "InvalidArgument"
    \/ status = 401 /\ code = "Unauthenticated"
    \/ status = 403 /\ code = "PermissionDenied"
    \/ status = 404 /\ code = "NotFound"
    \/ status = 409 /\ code = "AlreadyExists"
    \/ status = 500 /\ code = "Internal"

\* The answer puts the fault on the caller.
ClientError(front, op, outcome) ==
    IF front = "http" THEN HttpStatus(op, outcome) \in 400 .. 499
                      ELSE GrpcCode(op, outcome) \notin {"OK", "Internal"}
=============================================================================
