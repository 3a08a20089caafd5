---------------------------- MODULE WorkerProofs ----------------------------
(***************************************************************************)
(* Theorems about Worker, for every environment, minute and width of       *)
(* durations.                                                              *)
(***************************************************************************)
EXTENDS Worker, DurationsProofs, TLAPS

-----------------------------------------------------------------------------
(* The interval.                                                           *)

\* A variable of minutes is read as a duration.
LEMMA DurationRead ==
    ASSUME NEW value, NEW default \in Duration
    PROVE  getDurationEnv(value, default) \in Duration
<1>1. CASE Atoi(value)
  <2>1. value \in Int /\ Minute \in Int
    BY <1>1, ConfigValuesAssumption, LimitAssumption DEF Atoi, Duration
  <2>2. value * Minute \in Int
    BY <2>1
  <2> QED
    BY <1>1, <2>2, WrapIsDuration DEF getDurationEnv
<1>2. CASE ~Atoi(value)
  BY <1>2 DEF getDurationEnv
<1> QED
  BY <1>1, <1>2

\* A product with a positive factor is no closer to zero than the other one.
LEMMA FactorFits ==
    ASSUME NEW value \in Int, value * Minute \in Duration
    PROVE  value \in Duration
<1>1. Minute \in Nat \ {0} /\ DurationLimit \in Nat \ {0}
  BY ConfigValuesAssumption, LimitAssumption
<1>2. CASE value >= 0
  <2>1. value * (Minute - 1) >= 0
    BY <1>1, <1>2
  <2>2. value * Minute = value * (Minute - 1) + value
    BY <1>1
  <2> QED
    BY <1>1, <1>2, <2>1, <2>2 DEF Duration
<1>3. CASE value < 0
  <2>1. value * (Minute - 1) <= 0
    BY <1>1, <1>3
  <2>2. value * Minute = value * (Minute - 1) + value
    BY <1>1
  <2> QED
    BY <1>1, <1>3, <2>1, <2>2 DEF Duration
<1> QED
  BY <1>2, <1>3

\* Minutes that fit are read as they are written, and what is no number as
\* the default.
LEMMA MinutesRead ==
    ASSUME NEW value, NEW default \in Int,
           (IF value \in Int THEN value ELSE default) * Minute \in Duration
    PROVE  getDurationEnv(value, default * Minute)
             = (IF value \in Int THEN value ELSE default) * Minute
<1>1. CASE value \in Int
  <2>1. value \in Duration /\ value * Minute \in Duration
    BY <1>1, FactorFits
  <2> QED
    BY <1>1, <2>1, WrapExact DEF getDurationEnv, Atoi
<1>2. CASE value \notin Int
  <2>1. ~Atoi(value)
    BY <1>2, LimitAssumption DEF Atoi, Duration
  <2> QED
    BY <1>2, <2>1 DEF getDurationEnv
<1> QED
  BY <1>1, <1>2

\* Each command has the interval of its own variable.
LEMMA IntervalOfPace ==
    ASSUME command \in Commands
    PROVE  /\ ResolvedInterval = getDurationEnv(env[PaceOf[1]], PaceOf[2] * Minute)
           /\ PaceOf[2] \in Int /\ PaceOf[2] * Minute \in Duration
<1>1. Minute \in Int /\ 1 * Minute = Minute
      /\ Minute \in Duration /\ 10 * Minute \in Duration /\ 60 * Minute \in Duration
  BY ConfigValuesAssumption, LimitAssumption DEF Duration
<1>2. CASE command = "renew"
  BY <1>1, <1>2 DEF ResolvedInterval, Load, PaceOf
<1>3. CASE command = "cancel_pending_payment"
  BY <1>1, <1>3 DEF ResolvedInterval, Load, PaceOf
<1>4. CASE command = "cancel_expired"
  BY <1>1, <1>4 DEF ResolvedInterval, Load, PaceOf
<1> QED
  BY <1>2, <1>3, <1>4 DEF Commands

-----------------------------------------------------------------------------
(* The inductive invariant.  A tick that waits has come after the last     *)
(* batch was started; before the first one there is no ticker.             *)

Early == {"config", "logging", "database", "ready"}

WInv ==
    /\ TypeOK
    /\ OneBatchPerTick
    /\ tick => unticked = 0
    /\ phase \in Early => unticked = 0 /\ ~tick
    /\ phase \in Looping => interval = ResolvedInterval

LEMMA InitWInv == Init => WInv
<1> SUFFICES ASSUME Init
             PROVE  WInv
  OBVIOUS
<1>1. phase \in Phases /\ phase \notin Looping /\ phase # "once"
  BY DEF Init, Phases, Looping, Running, Ended
<1>2. interval \in Duration /\ unticked \in Nat /\ unticked <= 1
  BY LimitAssumption DEF Init, Duration
<1>3. /\ command \in Commands /\ workerMode \in BOOLEAN /\ env \in Environments
      /\ unticked = 0
  BY DEF Init
<1>4. tick = FALSE /\ quit = FALSE
  BY DEF Init, Ticks!Init, Signals!Init
<1> QED
  BY <1>1, <1>2, <1>3, <1>4, Zenon DEF WInv, TypeOK, OneBatchPerTick

\* Control moves on and nothing else changes.
LEMMA GotoKeeps ==
    ASSUME WInv, NEW p \in Phases, Goto(p),
           p \in Early => phase \in Early,
           p \in Looping => phase \in Looping,
           p # "once"
    PROVE  WInv'
<1>1. UNCHANGED <<command, workerMode, env, interval, tick, quit, unticked>>
      /\ phase' = p
  BY DEF Goto, given
<1>2. ResolvedInterval' = ResolvedInterval
  BY <1>1 DEF ResolvedInterval
<1> QED
  BY <1>1, <1>2 DEF WInv, TypeOK, OneBatchPerTick

LEMMA NextWInv == WInv /\ [Next]_vars => WInv'
<1> SUFFICES ASSUME WInv, [Next]_vars
             PROVE  WInv'
  OBVIOUS
<1> USE DEF Phases, Running, Looping, Ended, Early
<1>1. CASE LoadConfig
  BY <1>1, GotoKeeps DEF LoadConfig
<1>2. CASE ConfigureLogging
  BY <1>2, GotoKeeps DEF ConfigureLogging
<1>3. CASE OpenDatabase
  BY <1>3, GotoKeeps DEF OpenDatabase
<1>4. CASE RunOnce
  <2>1. ResolvedInterval' = ResolvedInterval
    BY <1>4 DEF RunOnce, given, ResolvedInterval
  <2> QED
    BY <1>4, <2>1 DEF RunOnce, StartBatch, given, WInv, TypeOK, OneBatchPerTick
<1>5. CASE RunWorker
  <2>1. CASE Goto("fatal")
    BY <2>1, GotoKeeps
  <2>2. CASE /\ phase = "ready" /\ workerMode
             /\ ResolvedInterval > 0
             /\ interval' = ResolvedInterval
             /\ StartBatch("first")
             /\ UNCHANGED <<given, tick, quit>>
    <3>1. ResolvedInterval' = ResolvedInterval
      BY <2>2 DEF given, ResolvedInterval
    <3>2. ResolvedInterval \in Duration
      BY IntervalOfPace, DurationRead DEF WInv, TypeOK
    <3> QED
      BY <2>2, <3>1, <3>2 DEF StartBatch, given, WInv, TypeOK, OneBatchPerTick
  <2> QED
    BY <1>5, <2>1, <2>2 DEF RunWorker
<1>6. CASE BatchEnds
  BY <1>6, GotoKeeps DEF BatchEnds
<1>7. CASE Notify
  BY <1>7, GotoKeeps DEF Notify
<1>8. CASE TakeQuit
  <2>1. ResolvedInterval' = ResolvedInterval
    BY <1>8 DEF TakeQuit, given, ResolvedInterval
  <2> QED
    BY <1>8, <2>1
    DEF TakeQuit, Signals!Receive, given, WInv, TypeOK, OneBatchPerTick
<1>9. CASE TakeTick
  <2>1. ResolvedInterval' = ResolvedInterval
    BY <1>9 DEF TakeTick, given, ResolvedInterval
  <2>2. tick = TRUE /\ tick' = FALSE
    BY <1>9 DEF TakeTick, Ticks!Receive, WInv, TypeOK
  <2>3. unticked' = 1
    BY <1>9, <2>2 DEF TakeTick, StartBatch, WInv
  <2>4. /\ UNCHANGED <<command, workerMode, env, interval, quit>>
        /\ phase = "select" /\ phase' = "batch"
    BY <1>9 DEF TakeTick, StartBatch, given
  <2>5. TypeOK'
    BY <2>2, <2>3, <2>4 DEF WInv, TypeOK
  <2> QED
    BY <2>1, <2>2, <2>3, <2>4, <2>5 DEF WInv, OneBatchPerTick
<1>10. CASE Return
  BY <1>10, GotoKeeps DEF Return
<1>11. CASE CloseDb
  BY <1>11, GotoKeeps DEF CloseDb
<1>12. CASE Fire
  <2>1. ResolvedInterval' = ResolvedInterval
    BY <1>12 DEF Fire, given, ResolvedInterval
  <2> QED
    BY <1>12, <2>1 DEF Fire, Ticks!Send, given, WInv, TypeOK, OneBatchPerTick
<1>13. CASE Signal
  <2>1. CASE Goto("killed")
    BY <2>1, GotoKeeps
  <2>2. CASE /\ Signals!Send
             /\ UNCHANGED <<given, phase, interval, tick, unticked>>
    <3>1. ResolvedInterval' = ResolvedInterval
      BY <2>2 DEF given, ResolvedInterval
    <3> QED
      BY <2>2, <3>1 DEF Signals!Send, given, WInv, TypeOK, OneBatchPerTick
  <2> QED
    BY <1>13, <2>1, <2>2 DEF Signal
<1>14. CASE Killed
  BY <1>14, GotoKeeps DEF Killed
<1>15. CASE UNCHANGED vars
  <2>1. ResolvedInterval' = ResolvedInterval
    BY <1>15 DEF vars, ResolvedInterval
  <2> QED
    BY <1>15, <2>1 DEF vars, WInv, TypeOK, OneBatchPerTick
<1> QED
  BY <1>1, <1>2, <1>3, <1>4, <1>5, <1>6, <1>7, <1>8, <1>9, <1>10, <1>11,
     <1>12, <1>13, <1>14, <1>15 DEF Next

LEMMA WInvHolds == Spec => []WInv
BY InitWInv, NextWInv, PTL DEF Spec

-----------------------------------------------------------------------------
(* The theorems.                                                           *)

\* The variables have their types, and a worker loops only with a ticker
\* whose interval is positive, which time.NewTicker would panic without.
THEOREM WorkerTypeCorrect == Spec => []TypeOK
<1>1. WInv => TypeOK
  BY DEF WInv
<1> QED
  BY <1>1, WInvHolds, PTL

\* Ticks missed during a long batch are not made up for: batches and ticks
\* alternate, but for ticks without a batch.
THEOREM BatchesFollowTicks == Spec => []OneBatchPerTick
<1>1. WInv => OneBatchPerTick
  BY DEF WInv
<1> QED
  BY <1>1, WInvHolds, PTL

\* Whatever the environment says, the pace is what it asks for, in minutes,
\* unless the minutes do not fit a time.Duration.
THEOREM PaceIsAsConfigured == Spec => []PaceAsConfigured
<1>1. WInv => PaceAsConfigured
  <2> SUFFICES ASSUME WInv, phase \in Looping, PaceMinutes * Minute \in Duration
               PROVE  interval = PaceMinutes * Minute
    BY DEF PaceAsConfigured
  <2>1. interval = ResolvedInterval /\ command \in Commands
    BY DEF WInv, TypeOK
  <2>2. PaceOf[2] \in Int
        /\ ResolvedInterval = getDurationEnv(env[PaceOf[1]], PaceOf[2] * Minute)
    BY <2>1, IntervalOfPace
  <2> QED
    BY <2>1, <2>2, MinutesRead DEF PaceMinutes
<1> QED
  BY <1>1, WInvHolds, PTL

\* Only a signal that was caught makes a worker return.
THEOREM WorkerReturnsOnRequest == Spec => ReturnsOnRequest
<1>1. WInv /\ [Next]_vars
        => [workerMode /\ phase' = "return" /\ phase # "return" => quit]_vars
  <2> SUFFICES ASSUME WInv, Next, workerMode, phase' = "return", phase # "return"
               PROVE  quit
    OBVIOUS
  <2>1. CASE BatchEnds
    BY <2>1 DEF BatchEnds, Goto, WInv, TypeOK, Running
  <2>2. CASE TakeQuit
    BY <2>2 DEF TakeQuit, Signals!Receive
  <2>3. CASE Fire \/ Signal
    BY <2>3 DEF Fire, Signal, Goto
  <2> QED
    BY <2>1, <2>2, <2>3
    DEF Next, LoadConfig, ConfigureLogging, OpenDatabase, RunOnce, RunWorker,
        StartBatch, Notify, TakeTick, Return, CloseDb, Killed, Goto
<1> QED
  BY <1>1, WInvHolds, PTL DEF Spec, ReturnsOnRequest
=============================================================================
