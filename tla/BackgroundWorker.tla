--------------------------- MODULE BackgroundWorker ---------------------------
(***************************************************************************)
(* The background worker: one goroutine and one ticker serve the uptime    *)
(* rounds and the auto-sync, each when its own interval is over.  What a   *)
(* round and a sync do is in UptimeStore and RuleReplication; here they    *)
(* take time, during which the ticker goes on and settings change.         *)
(*                                                                         *)
(* Instants are counted from the present: time.Now() is 0, the past is     *)
(* negative, and Elapse moves every instant back.  The ticker's channel    *)
(* holds one tick, which carries the time it was sent; a tick that finds   *)
(* the channel full is dropped.  A time.Duration is signed and holds Width *)
(* values; the code's has 64 bits and counts nanoseconds.                  *)
(***************************************************************************)
EXTENDS Integers, Sequences

CONSTANTS
  Settings,     \* the configurations the admin page may publish
  Minute,       \* units of time to a minute
  Width,        \* the number of values of a time.Duration
  MaxInterval,  \* the longest interval of Settings that a Duration holds
  MaxLag        \* bound on the time a tick waits for the worker

Setting == [collect : BOOLEAN, uptimeInterval : Nat,
            backup : BOOLEAN, auto : BOOLEAN, syncInterval : Nat]

ASSUME UnitAssumption == Minute \in Nat \ {0} /\ MaxLag \in Nat \ {0}
ASSUME WidthAssumption == Width \in Nat \ {0} /\ Width % 2 = 0
ASSUME SettingsAssumption == Settings \subseteq Setting /\ MaxInterval \in Nat

VARIABLES
  cfg,         \* the published configuration
  stopping,    \* the context is cancelled: a signal has arrived
  pc,          \* where the worker is
  due,         \* time to the next tick
  tick,        \* what is in the ticker's channel
  now,         \* of the tick being handled: when it was sent
  snap,        \* ... and the configuration read for it
  lastUptime, lastSync,
  received,    \* history: when the tick being handled was received
  recent,      \* history: when the ticks of the last two syncs were received
  late         \* history: syncs begun since auto-sync was switched off

timers  == <<lastUptime, lastSync>>
history == <<received, recent, late>>
vars == <<cfg, stopping, pc, due, tick, now, snap, timers, history>>

NoTick == 1

Labels == {"down", "boot", "first", "ticker", "clock", "wait",
           "uptime", "round", "sync", "syncing", "stopped"}

\* The ticker exists between NewTicker and the deferred Stop.
Ticking == pc \in {"clock", "wait", "uptime", "round", "sync", "syncing"}

Wrap(d) == ((d + Width \div 2) % Width) - Width \div 2
Minutes(n) == Wrap(n * Minute)

\* A setting a Duration holds.
Fits(n) == Minutes(n) = n * Minute

ASSUME IntervalAssumption ==
  \A c \in Settings : Fits(c.syncInterval) => c.syncInterval <= MaxInterval

AutoSync(c) == c.backup /\ c.auto

UptimeDue ==
  /\ snap.collect
  /\ snap.uptimeInterval > 0
  /\ now - lastUptime >= Minutes(snap.uptimeInterval)

SyncDue ==
  /\ AutoSync(snap)
  /\ snap.syncInterval > 0
  /\ now - lastSync >= Minutes(snap.syncInterval)

\* Longer ago than anything is compared with.
Horizon == MaxInterval * Minute + 2 * MaxLag + Minute
Instant == -Horizon .. 0

Older(t) == IF t = NoTick \/ t = -Horizon THEN t ELSE t - 1

-----------------------------------------------------------------------------
Init ==
  /\ cfg \in Settings
  /\ stopping = FALSE
  /\ pc = "down"
  /\ due = Minute
  /\ tick = NoTick /\ now = NoTick
  /\ snap = cfg
  /\ lastUptime = 0 /\ lastSync = 0
  /\ received = NoTick
  /\ recent = <<-Horizon, -Horizon>>
  /\ late = 0

\* main comes to StartBackground.
Start ==
  /\ pc = "down"
  /\ pc' = "boot"
  /\ UNCHANGED <<cfg, stopping, due, tick, now, snap, timers, history>>

\* The first sample, before the ticker.
FirstRound ==
  /\ pc = "boot"
  /\ pc' = IF cfg.collect THEN "first" ELSE "ticker"
  /\ UNCHANGED <<cfg, stopping, due, tick, now, snap, timers, history>>

EndFirstRound ==
  /\ pc = "first"
  /\ pc' = "ticker"
  /\ UNCHANGED <<cfg, stopping, due, tick, now, snap, timers, history>>

NewTicker ==
  /\ pc = "ticker"
  /\ pc' = "clock"
  /\ due' = Minute
  /\ tick' = NoTick
  /\ UNCHANGED <<cfg, stopping, now, snap, timers, history>>

\* The timers are read when the ticker already runs: a little time is lost.
StartTimers ==
  /\ pc = "clock"
  /\ pc' = "wait"
  /\ lastUptime' = 0
  /\ lastSync' = 0
  /\ UNCHANGED <<cfg, stopping, due, tick, now, snap, history>>

\* Mutants: the configuration is read once, at start-up; or the select has a
\* default case.
ReceiveOldSettings ==
  /\ pc = "wait"
  /\ tick # NoTick
  /\ pc' = "uptime"
  /\ now' = tick
  /\ tick' = NoTick
  /\ received' = 0
  /\ UNCHANGED <<cfg, stopping, due, snap, timers, recent, late>>
ReceiveOrNot ==
  /\ pc = "wait"
  /\ pc' = "uptime"
  /\ now' = tick
  /\ tick' = NoTick
  /\ snap' = cfg
  /\ received' = 0
  /\ UNCHANGED <<cfg, stopping, due, timers, recent, late>>

\* The worker takes the tick, and reads the configuration for it.
Receive ==
  /\ pc = "wait"
  /\ tick # NoTick
  /\ pc' = "uptime"
  /\ now' = tick
  /\ tick' = NoTick
  /\ snap' = cfg
  /\ received' = 0
  /\ UNCHANGED <<cfg, stopping, due, timers, recent, late>>

BeginRound ==
  /\ pc = "uptime"
  /\ UptimeDue
  /\ pc' = "round"
  /\ UNCHANGED <<cfg, stopping, due, tick, now, snap, timers, history>>

EndRound ==
  /\ pc = "round"
  /\ pc' = "sync"
  /\ lastUptime' = now
  /\ UNCHANGED <<cfg, stopping, due, tick, now, snap, lastSync, history>>

SkipRound ==
  /\ pc = "uptime"
  /\ ~UptimeDue
  /\ pc' = "sync"
  /\ UNCHANGED <<cfg, stopping, due, tick, now, snap, timers, history>>

BeginSync ==
  /\ pc = "sync"
  /\ SyncDue
  /\ pc' = "syncing"
  /\ recent' = <<recent[2], received>>
  /\ late' = IF AutoSync(cfg) THEN 0 ELSE late + 1
  /\ UNCHANGED <<cfg, stopping, due, tick, now, snap, timers, received>>

\* The worker goes back to its channels.
Done ==
  /\ pc' = "wait"
  /\ now' = NoTick
  /\ received' = NoTick
  /\ UNCHANGED <<cfg, stopping, due, tick, snap, lastUptime, recent, late>>

\* Mutant: only a sync that worked moves the timer.
EndSyncRetry == pc = "syncing" /\ Done /\ lastSync' \in {lastSync, now}

\* The timer moves whether the sync worked or not.
EndSync == pc = "syncing" /\ Done /\ lastSync' = now

\* Mutant: the timer moves with every tick.
SkipSyncMoves == pc = "sync" /\ ~SyncDue /\ Done /\ lastSync' = now

SkipSync == pc = "sync" /\ ~SyncDue /\ Done /\ UNCHANGED lastSync

\* The select may see the cancelled context, or a tick that is there too.
StopWorker ==
  /\ pc = "wait"
  /\ stopping
  /\ pc' = "stopped"
  /\ UNCHANGED <<cfg, stopping, due, tick, now, snap, timers, history>>

Worker ==
  \/ FirstRound \/ EndFirstRound \/ NewTicker \/ StartTimers \/ Receive
  \/ BeginRound \/ EndRound \/ SkipRound
  \/ BeginSync \/ EndSync \/ SkipSync
  \/ StopWorker

Signal ==
  /\ pc # "down"
  /\ stopping' = TRUE
  /\ UNCHANGED <<cfg, pc, due, tick, now, snap, timers, history>>

(***************************************************************************)
(* The process ends: main returns, soon after the signal and wherever the  *)
(* worker is; or it is killed.                                             *)
(***************************************************************************)
Exit ==
  /\ pc # "down"
  /\ pc' = "down"
  /\ stopping' = FALSE
  /\ now' = NoTick /\ tick' = NoTick /\ received' = NoTick
  /\ lastUptime' = 0 /\ lastSync' = 0
  /\ due' = Minute
  /\ UNCHANGED <<cfg, snap, recent, late>>

Configure(c) ==
  /\ cfg' = c
  /\ late' = IF AutoSync(c) THEN 0 ELSE late
  /\ UNCHANGED <<stopping, pc, due, tick, now, snap, timers, received, recent>>

\* Time passes, and a tick is sent.  Bound: a tick does not wait for ever.
Elapse ==
  LET fires == Ticking /\ due = 1
  IN /\ tick # NoTick => tick > -MaxLag
     /\ due' = IF fires THEN Minute ELSE IF Ticking THEN due - 1 ELSE due
     /\ tick' = IF fires /\ tick = NoTick THEN 0 ELSE Older(tick)
     /\ now' = Older(now)
     /\ lastUptime' = Older(lastUptime)
     /\ lastSync' = Older(lastSync)
     /\ received' = Older(received)
     /\ recent' = <<Older(recent[1]), Older(recent[2])>>
     /\ UNCHANGED <<cfg, stopping, pc, snap, late>>

Next ==
  \/ Start
  \/ Worker
  \/ Signal
  \/ Exit
  \/ \E c \in Settings : Configure(c)
  \/ Elapse

Fairness == WF_vars(Worker) /\ WF_vars(Elapse)

Spec == Init /\ [][Next]_vars /\ Fairness

-----------------------------------------------------------------------------
\* Type invariant: the worker handles a tick exactly when it says so.
TypeOK ==
  /\ cfg \in Settings /\ snap \in Settings
  /\ stopping \in BOOLEAN
  /\ pc \in Labels
  /\ due \in 1 .. Minute
  /\ tick \in Instant \cup {NoTick}
  /\ now \in Instant \cup {NoTick}
  /\ lastUptime \in Instant /\ lastSync \in Instant
  /\ received \in Instant \cup {NoTick}
  /\ recent \in Instant \X Instant
  /\ late \in Nat
  /\ pc \in {"uptime", "round", "sync", "syncing"} =>
       now # NoTick /\ received # NoTick

(***************************************************************************)
(* Ticks that pile up behind a slow round or sync never turn into a burst  *)
(* of syncs: of any three in a row, the third begins at least an interval  *)
(* after the tick of the first was received, whatever took how long, and   *)
(* across restarts.  (One ticker and two timers set to the tick's own      *)
(* time, background.go:24-45; intervals that a Duration holds.)            *)
(***************************************************************************)
NoBurst ==
  [][BeginSync /\ Fits(snap.syncInterval) =>
       -recent[1] >= snap.syncInterval * Minute]_vars

(***************************************************************************)
(* "It re-reads the live config every tick so changes from the admin page  *)
(* take effect without a restart": once auto-sync is off, at most the tick *)
(* that is being handled still begins one.                                 *)
(***************************************************************************)
SettingsTakeEffect == late <= 1

(***************************************************************************)
(* While the process stays up and a task stays switched on, the task comes *)
(* round again and again: neither starves the other, dropped ticks and     *)
(* failed syncs do not stop it, nor do changes of the intervals.           *)
(***************************************************************************)
Up == pc # "down" /\ ~stopping

WorkGoesOn ==
  /\ <>[](Up /\ AutoSync(cfg)) => []<>(pc = "syncing")
  /\ <>[](Up /\ cfg.collect) => []<>(pc = "round")
=============================================================================
