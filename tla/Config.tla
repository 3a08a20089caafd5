------------------------------- MODULE Config -------------------------------
(***************************************************************************)
(* What a process makes of its environment: config.Load.                   *)
(*                                                                         *)
(* An environment maps every variable to its value: Unset (also when it is *)
(* empty), a number, or for the others a text.  Junk stands for any text   *)
(* that is not what the variable calls for.                                *)
(***************************************************************************)
EXTENDS Durations

CONSTANTS
    Unset, Junk,
    Minute         \* time.Minute, in the unit of time

ASSUME ConfigValuesAssumption ==
    /\ Minute \in Nat \ {0}
    /\ 10080 * Minute < DurationLimit
    /\ Unset \notin Int
    /\ Junk \notin Int
    /\ Unset # Junk

Minutes ==
    {"MYSQL_CONN_MAX_LIFETIME_MINUTES", "RENEW_BEFORE_END_MINUTES",
     "RENEWAL_RETRY_INTERVAL_MINUTES", "MAX_RENEWAL_RETRY_AGE_MINUTES",
     "PENDING_PAYMENT_TIMEOUT_MINUTES", "AUTO_RENEW_INTERVAL_MINUTES",
     "PENDING_CLEANUP_INTERVAL_MINUTES", "EXPIRATION_CHECK_INTERVAL_MINUTES"}

Numbers == {"MYSQL_MAX_OPEN_CONNS", "MYSQL_MAX_IDLE_CONNS"}

Texts ==
    {"MYSQL_DSN", "APP_SERVICE_NAME", "APP_API_KEY", "HTTP_HOST", "HTTP_PORT",
     "GRPC_HOST", "GRPC_PORT", "AUTH_SERVICE_GRPC_ADDR", "LOG_LEVEL"}

Names == Minutes \cup Numbers \cup Texts

-----------------------------------------------------------------------------

getEnv(value, default) == IF value = Unset THEN default ELSE value

\* strconv.Atoi takes the numbers that an int holds.
Atoi(value) == value \in Duration

getIntEnv(value, default) == IF Atoi(value) THEN value ELSE default

\* The product is one of int64s; no range is checked.
getDurationEnv(value, default) ==
    IF Atoi(value) THEN Wrap(value * Minute) ELSE default

\* Load answers an error, and nothing else, without a database.
Loads(env) == env["MYSQL_DSN"] # Unset

Load(env) ==
    [ServiceName     |-> getEnv(env["APP_SERVICE_NAME"], "subscriptions-service"),
     APIKey          |-> getEnv(env["APP_API_KEY"], ""),
     HTTPHost        |-> getEnv(env["HTTP_HOST"], "0.0.0.0"),
     HTTPPort        |-> getEnv(env["HTTP_PORT"], "8080"),
     GRPCHost        |-> getEnv(env["GRPC_HOST"], "0.0.0.0"),
     GRPCPort        |-> getEnv(env["GRPC_PORT"], "9090"),
     AuthGRPCAddr    |-> getEnv(env["AUTH_SERVICE_GRPC_ADDR"], "localhost:9090"),
     Level           |-> getEnv(env["LOG_LEVEL"], "info"),
     DSN             |-> env["MYSQL_DSN"],
     MaxOpenConns    |-> getIntEnv(env["MYSQL_MAX_OPEN_CONNS"], 10),
     MaxIdleConns    |-> getIntEnv(env["MYSQL_MAX_IDLE_CONNS"], 5),
     ConnMaxLifetime |->
        getDurationEnv(env["MYSQL_CONN_MAX_LIFETIME_MINUTES"], 30 * Minute),
     RenewBeforeEndMinutes |->
        getDurationEnv(env["RENEW_BEFORE_END_MINUTES"], 1440 * Minute),
     RenewalRetryIntervalMinutes |->
        getDurationEnv(env["RENEWAL_RETRY_INTERVAL_MINUTES"], 60 * Minute),
     MaxRenewalRetryAgeMinutes |->
        getDurationEnv(env["MAX_RENEWAL_RETRY_AGE_MINUTES"], 10080 * Minute),
     PendingPaymentTimeout |->
        getDurationEnv(env["PENDING_PAYMENT_TIMEOUT_MINUTES"], 30 * Minute),
     AutoRenewInterval |->
        getDurationEnv(env["AUTO_RENEW_INTERVAL_MINUTES"], Minute),
     PendingCleanupInterval |->
        getDurationEnv(env["PENDING_CLEANUP_INTERVAL_MINUTES"], 10 * Minute),
     ExpirationCheckInterval |->
        getDurationEnv(env["EXPIRATION_CHECK_INTERVAL_MINUTES"], 60 * Minute)]

\* The levels configureLogging accepts.  "blank" stands for blanks, which count
\* as the default, "capitals" for one of the others not all in lower case.
configureLogging(level) ==
    level \in {"blank", "capitals", "panic", "fatal", "error", "warn", "warning",
               "info", "debug", "trace"}
=============================================================================
