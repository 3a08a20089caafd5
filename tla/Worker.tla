------------------------------- MODULE Worker -------------------------------
(***************************************************************************)
(* One process of the commands "renew", "cancel pending-payment" and       *)
(* "cancel expired", with or without --worker: cmd/jobs.go.                *)
(*                                                                         *)
(* The goroutine is sequential; phase is its program counter.  Around it,  *)
(* the ticker fires and signals arrive at any time.  What a batch does is  *)
(* specified in Jobs; here it takes a while and succeeds or fails.         *)
(***************************************************************************)
EXTENDS Config

CONSTANT Environments   \* those the process may be started in

ASSUME EnvironmentsAssumption == \A e \in Environments : DOMAIN e = Names

VARIABLES
    command,     \* the command, and
    workerMode,  \* its flag
    env,         \* the environment; never changes either
    phase,       \* what the process does next
    interval,    \* the time between ticks, once there is a ticker
    tick,        \* a tick waits in ticker.C
    quit,        \* a signal waits in the channel
    unticked     \* batches started since the ticker last fired

vars == <<command, workerMode, env, phase, interval, tick, quit, unticked>>
given == <<command, workerMode, env>>

Commands == {"renew", "cancel_pending_payment", "cancel_expired"}

Running == {"once", "first", "batch"}
Looping == {"first", "notify", "select", "batch"}
Ended   == {"exited", "fatal", "killed"}
Phases  == {"config", "logging", "database", "ready", "return", "close"}
           \cup Running \cup Looping \cup Ended

Ticks   == INSTANCE Slot WITH full <- tick
Signals == INSTANCE Slot WITH full <- quit

Init ==
    /\ command \in Commands
    /\ workerMode \in BOOLEAN
    /\ env \in Environments
    /\ phase = "config"
    /\ interval = 0
    /\ Ticks!Init
    /\ Signals!Init
    /\ unticked = 0

-----------------------------------------------------------------------------
(* mustCreateSubscriptionService: every error is fatal.                    *)

Goto(p) == phase' = p /\ UNCHANGED <<given, interval, tick, quit, unticked>>

LoadConfig ==
    /\ phase = "config"
    /\ Goto(IF Loads(env) THEN "logging" ELSE "fatal")

ConfigureLogging ==
    /\ phase = "logging"
    /\ Goto(IF configureLogging(Load(env).Level) THEN "database" ELSE "fatal")

\* sql.Open and the ping.
OpenDatabase ==
    /\ phase = "database"
    /\ Goto("ready") \/ Goto("fatal")

-----------------------------------------------------------------------------
(* runCommand and runWorker.                                               *)

\* Wrong ResolvedInterval: two commands share one.
ResolvedIntervalShared ==
    IF command = "renew" THEN Load(env).AutoRenewInterval
                         ELSE Load(env).PendingCleanupInterval

\* intervalResolver.
ResolvedInterval ==
    CASE command = "renew"                  -> Load(env).AutoRenewInterval
      [] command = "cancel_pending_payment" -> Load(env).PendingCleanupInterval
      [] command = "cancel_expired"         -> Load(env).ExpirationCheckInterval

StartBatch(p) == phase' = p /\ unticked' = unticked + 1

RunOnce ==
    /\ phase = "ready"
    /\ ~workerMode
    /\ StartBatch("once")
    /\ UNCHANGED <<given, interval, tick, quit>>

\* Wrong RunWorker: zero passes.
RunWorkerAtZero ==
    /\ phase = "ready"
    /\ workerMode
    /\ \/ ResolvedInterval < 0 /\ Goto("fatal")
       \/ /\ ResolvedInterval >= 0
          /\ interval' = ResolvedInterval
          /\ StartBatch("first")
          /\ UNCHANGED <<given, tick, quit>>

RunWorker ==
    /\ phase = "ready"
    /\ workerMode
    /\ \/ ResolvedInterval <= 0 /\ Goto("fatal")
       \/ /\ ResolvedInterval > 0
          /\ interval' = ResolvedInterval
          /\ StartBatch("first")
          /\ UNCHANGED <<given, tick, quit>>

\* Wrong BatchEnds: a worker whose batch has failed gives up.
BatchEndsOrFails ==
    /\ phase \in Running
    /\ \/ Goto(CASE phase = "once"  -> "return"
                 [] phase = "first" -> "notify"
                 [] phase = "batch" -> "select")
       \/ Goto("return")

\* runJob returns; an error of the batch is logged and nothing else.
BatchEnds ==
    /\ phase \in Running
    /\ Goto(CASE phase = "once"  -> "return"
              [] phase = "first" -> "notify"
              [] phase = "batch" -> "select")

Notify == phase = "notify" /\ Goto("select")

\* Wrong TakeQuit: ticks first.
TakeQuitAfterTicks ==
    /\ phase = "select"
    /\ ~tick
    /\ Signals!Receive
    /\ phase' = "return"
    /\ UNCHANGED <<given, interval, tick, unticked>>

TakeQuit ==
    /\ phase = "select"
    /\ Signals!Receive
    /\ phase' = "return"
    /\ UNCHANGED <<given, interval, tick, unticked>>

\* Wrong TakeTick: the tick stays.
TakeTickAgain ==
    /\ phase = "select"
    /\ tick
    /\ StartBatch("batch")
    /\ UNCHANGED <<given, interval, tick, quit>>

TakeTick ==
    /\ phase = "select"
    /\ Ticks!Receive
    /\ StartBatch("batch")
    /\ UNCHANGED <<given, interval, quit>>

\* The deferred calls: the context and the ticker, then the database.
Return == phase = "return" /\ Goto("close")
CloseDb == phase = "close" /\ Goto("exited")

-----------------------------------------------------------------------------
(* The ticker, signals, and death.                                         *)

\* Wrong Fire: a timer, which fires once.
FireOnce ==
    /\ phase = "first"
    /\ Ticks!Send
    /\ unticked' = 0
    /\ UNCHANGED <<given, phase, interval, quit>>

\* A tick that finds one waiting is dropped.
Fire ==
    /\ phase \in Looping
    /\ Ticks!Send
    /\ unticked' = 0
    /\ UNCHANGED <<given, phase, interval, quit>>

\* SIGINT or SIGTERM: kills until signal.Notify is called, hence in the
\* middle of the first batch too, and in the middle of the only one without
\* --worker.
Signal ==
    \/ /\ phase \notin {"select", "batch", "return", "close"} \cup Ended
       /\ Goto("killed")
    \/ /\ phase \in {"select", "batch"}
       /\ Signals!Send
       /\ UNCHANGED <<given, phase, interval, tick, unticked>>

Killed == phase \notin Ended /\ Goto("killed")

Next ==
    \/ LoadConfig \/ ConfigureLogging \/ OpenDatabase
    \/ RunOnce \/ RunWorker \/ BatchEnds \/ Notify
    \/ TakeQuit \/ TakeTick \/ Return \/ CloseDb
    \/ Fire \/ Signal \/ Killed

Spec == Init /\ [][Next]_vars

-----------------------------------------------------------------------------

\* The Go scheduler runs the goroutine when it can run, the ticker fires, and
\* batches return, which no deadline of the code enforces.  A select picks at
\* random among the channels that are ready, so none of them that is ready
\* again and again is passed over for ever.
Fairness ==
    /\ WF_vars(LoadConfig \/ ConfigureLogging \/ OpenDatabase)
    /\ WF_vars(RunOnce \/ RunWorker)
    /\ WF_vars(BatchEnds)
    /\ WF_vars(Notify)
    /\ WF_vars(Return \/ CloseDb)
    /\ WF_vars(Fire)
    /\ SF_vars(TakeQuit)
    /\ SF_vars(TakeTick)

FairSpec == Spec /\ Fairness

-----------------------------------------------------------------------------
(* Properties.                                                             *)

\* Every variable has its type, and a ticker is there only with an interval.
TypeOK ==
    /\ command \in Commands
    /\ workerMode \in BOOLEAN
    /\ env \in Environments
    /\ phase \in Phases
    /\ interval \in Duration
    /\ tick \in BOOLEAN
    /\ quit \in BOOLEAN
    /\ unticked \in Nat
    /\ phase \in Looping => workerMode /\ interval > 0
    /\ phase = "once" => ~workerMode

\* However long a batch takes, the worker never runs two batches without a
\* tick in between: the ticks that a long batch misses are dropped, but for
\* one.
OneBatchPerTick == unticked <= 1

\* The variable that sets the pace, and its default in minutes.
PaceOf ==
    CASE command = "renew"                  -> <<"AUTO_RENEW_INTERVAL_MINUTES", 1>>
      [] command = "cancel_pending_payment" -> <<"PENDING_CLEANUP_INTERVAL_MINUTES", 10>>
      [] command = "cancel_expired"         -> <<"EXPIRATION_CHECK_INTERVAL_MINUTES", 60>>

PaceMinutes == IF env[PaceOf[1]] \in Int THEN env[PaceOf[1]] ELSE PaceOf[2]

\* A worker that loops does so at the pace its environment asks for, or at
\* the default when that is not a number: no fallback of getDurationEnv, nor
\* the check of runWorker, changes it, except that minutes that
\* no time.Duration holds wrap around.
PaceAsConfigured ==
    phase \in Looping /\ PaceMinutes * Minute \in Duration =>
        interval = PaceMinutes * Minute

\* A worker that is not killed returns only because it was asked to: failing
\* batches do not end it.
ReturnsOnRequest ==
    [][workerMode /\ phase' = "return" /\ phase # "return" => quit]_vars

\* A signal that is waiting ends the worker, although ticks may always wait
\* with it.
SignalEnds == quit ~> phase \in Ended

\* The loop runs its batch again and again until the process ends: what the
\* fairness of Subscriptions takes for granted.
KeepsRunning == phase = "select" ~> phase \in {"batch"} \cup Ended
=============================================================================
