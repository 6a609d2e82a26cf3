------------------------ MODULE BackgroundWorkerProofs ------------------------
(***************************************************************************)
(* Proofs of the safety properties of BackgroundWorker, for any settings   *)
(* and units of time.                                                      *)
(***************************************************************************)
EXTENDS BackgroundWorker, TLAPS

Handling == {"uptime", "round", "sync"}

(***************************************************************************)
(* A tick is sent after the tick before it was received: it had to find    *)
(* the channel empty.  So a sync's own tick is no older than the receipt   *)
(* of the tick of the sync before, and neither is lastSync.                *)
(***************************************************************************)
Ordered ==
  /\ tick # NoTick => tick >= recent[2]
  /\ tick # NoTick /\ pc \in Handling => tick >= received
  /\ pc \in Handling => now >= recent[2]
  /\ pc = "syncing" => now >= recent[1]
  /\ pc \in Handling \cup {"wait"} => lastSync >= recent[1]

(***************************************************************************)
(* A sync that begins with auto-sync off has a snapshot in which it was    *)
(* on, so it is the first: the next snapshot is taken after it.            *)
(***************************************************************************)
Late ==
  /\ late > 0 => ~AutoSync(cfg)
  /\ late > 0 /\ pc \in Handling => ~AutoSync(snap)
  /\ late <= 1

Inv == TypeOK /\ Ordered /\ Late

-----------------------------------------------------------------------------
(* The operators.                                                          *)

LEMMA HorizonNat == Horizon \in Nat
<1>1. MaxInterval * Minute \in Nat
  BY UnitAssumption, SettingsAssumption
<1>2. MaxInterval * Minute + 2 * MaxLag + Minute \in Nat
  BY <1>1, UnitAssumption
<1> QED BY <1>2 DEF Horizon

\* Time takes instants to instants and keeps their order.
LEMMA OlderType ==
  ASSUME NEW t \in Instant \cup {NoTick}
  PROVE  /\ Older(t) \in Instant \cup {NoTick}
         /\ t \in Instant => Older(t) \in Instant
         /\ Older(t) = NoTick <=> t = NoTick
  BY HorizonNat DEF Older, Instant, NoTick

LEMMA OlderKeepsOrder ==
  ASSUME NEW s \in Instant \cup {NoTick}, NEW t \in Instant, s >= t
  PROVE  Older(s) >= Older(t)
  BY HorizonNat DEF Older, Instant, NoTick

-----------------------------------------------------------------------------
LEMMA InitInv == Init => Inv
<1> SUFFICES ASSUME Init PROVE Inv
  OBVIOUS
<1> USE HorizonNat
<1>1. -Horizon \in Instant /\ 0 \in Instant
  BY DEF Instant
<1>2. recent \in Instant \X Instant
  BY <1>1 DEF Init
<1>3. due \in 1 .. Minute
  BY UnitAssumption DEF Init
<1>4. TypeOK
  BY <1>1, <1>2, <1>3 DEF Init, TypeOK, Labels
<1>5. Ordered /\ Late
  BY DEF Init, Ordered, Late, Handling
<1> QED BY <1>4, <1>5 DEF Inv

(* One lemma for each action, or for some that only move the worker on.    *)

LEMMA MoveInv ==
  ASSUME Inv,
         \/ Start \/ FirstRound \/ EndFirstRound
         \/ BeginRound \/ SkipRound \/ StopWorker \/ Signal
  PROVE  Inv'
<1>1. UNCHANGED <<cfg, due, tick, now, snap, timers, history>>
  BY DEF Start, FirstRound, EndFirstRound, BeginRound, SkipRound,
         StopWorker, Signal
<1>2. /\ stopping' \in BOOLEAN
      /\ pc' \in Labels
      /\ pc' \in Handling => pc \in Handling
      /\ pc' = "wait" => pc = "wait"
      /\ pc' = "syncing" => pc = "syncing"
  BY DEF Start, FirstRound, EndFirstRound, BeginRound, SkipRound,
         StopWorker, Signal, Handling, Labels, Inv, TypeOK
<1>3. TypeOK'
  BY <1>1, <1>2 DEF Inv, TypeOK, timers, history, Handling
<1>4. Ordered'
  BY <1>1, <1>2 DEF Inv, Ordered, timers, history
<1>5. Late'
  BY <1>1, <1>2 DEF Inv, Late, history, AutoSync
<1> QED BY <1>3, <1>4, <1>5 DEF Inv

LEMMA NewTickerInv == ASSUME Inv, NewTicker PROVE Inv'
<1>1. TypeOK'
  BY UnitAssumption DEF Inv, TypeOK, NewTicker, timers, history, Labels
<1>2. Ordered' /\ Late'
  BY DEF Inv, Ordered, Late, NewTicker, timers, history, Handling, AutoSync
<1> QED BY <1>1, <1>2 DEF Inv

LEMMA StartTimersInv == ASSUME Inv, StartTimers PROVE Inv'
<1> USE HorizonNat
<1>1. TypeOK'
  BY DEF Inv, TypeOK, StartTimers, history, Labels, Instant
<1>2. Ordered'
  BY DEF Inv, TypeOK, Ordered, StartTimers, history, Handling, Instant
<1>3. Late'
  BY DEF Inv, Late, StartTimers, history, Handling, AutoSync
<1> QED BY <1>1, <1>2, <1>3 DEF Inv

LEMMA ReceiveInv == ASSUME Inv, Receive PROVE Inv'
<1> USE HorizonNat
<1>1. TypeOK'
  BY DEF Inv, TypeOK, Receive, timers, Labels, Instant, NoTick
<1>2. Ordered'
  BY DEF Inv, TypeOK, Ordered, Receive, timers, Handling
<1>3. Late'
  BY DEF Inv, Late, Receive, Handling, AutoSync
<1> QED BY <1>1, <1>2, <1>3 DEF Inv

LEMMA EndRoundInv == ASSUME Inv, EndRound PROVE Inv'
<1>1. now \in Instant
  BY DEF Inv, TypeOK, EndRound
<1>2. TypeOK'
  BY <1>1 DEF Inv, TypeOK, EndRound, history, Labels
<1>3. Ordered' /\ Late'
  BY DEF Inv, Ordered, Late, EndRound, history, Handling, AutoSync
<1> QED BY <1>2, <1>3 DEF Inv

LEMMA BeginSyncInv == ASSUME Inv, BeginSync PROVE Inv'
<1>1. received \in Instant
  BY DEF Inv, TypeOK, BeginSync
<1>2. late' \in Nat
  BY DEF Inv, TypeOK, BeginSync
<1>3. recent' \in Instant \X Instant
  BY <1>1 DEF Inv, TypeOK, BeginSync
<1>4. TypeOK'
  BY <1>2, <1>3 DEF Inv, TypeOK, BeginSync, timers, Labels
<1>5. recent'[1] = recent[2] /\ recent'[2] = received
  BY DEF BeginSync
<1>6. Ordered'
  BY <1>5 DEF Inv, Ordered, BeginSync, timers, Handling
<1>7. AutoSync(snap)
  BY DEF BeginSync, SyncDue
<1>8. late = 0
  BY <1>7 DEF Inv, TypeOK, Late, BeginSync, Handling
<1>9. Late'
  BY <1>8 DEF BeginSync, Late, Handling, AutoSync
<1> QED BY <1>4, <1>6, <1>9 DEF Inv

LEMMA EndSyncInv == ASSUME Inv, EndSync PROVE Inv'
<1>1. now \in Instant
  BY DEF Inv, TypeOK, EndSync
<1>2. TypeOK'
  BY <1>1 DEF Inv, TypeOK, EndSync, Done, Labels
<1>3. Ordered' /\ Late'
  BY DEF Inv, Ordered, Late, EndSync, Done, Handling, AutoSync
<1> QED BY <1>2, <1>3 DEF Inv

LEMMA SkipSyncInv == ASSUME Inv, SkipSync PROVE Inv'
<1>1. TypeOK'
  BY DEF Inv, TypeOK, SkipSync, Done, Labels
<1>2. Ordered' /\ Late'
  BY DEF Inv, Ordered, Late, SkipSync, Done, Handling, AutoSync
<1> QED BY <1>1, <1>2 DEF Inv

LEMMA ExitInv == ASSUME Inv, Exit PROVE Inv'
<1>1. 0 \in Instant
  BY HorizonNat DEF Instant
<1>2. TypeOK'
  <2>1. due' \in 1 .. Minute
    BY UnitAssumption DEF Exit
  <2> QED BY <1>1, <2>1 DEF Inv, TypeOK, Exit, Labels
<1>3. Ordered' /\ Late'
  BY DEF Inv, Ordered, Late, Exit, Handling, AutoSync
<1> QED BY <1>2, <1>3 DEF Inv

LEMMA ConfigureInv ==
  ASSUME Inv, NEW c \in Settings, Configure(c)
  PROVE  Inv'
<1>1. TypeOK'
  BY DEF Inv, TypeOK, Configure, timers
<1>2. Ordered'
  BY DEF Inv, Ordered, Configure, timers
<1>3. Late'
  BY DEF Inv, Late, Configure, AutoSync
<1> QED BY <1>1, <1>2, <1>3 DEF Inv

LEMMA ElapseInv == ASSUME Inv, Elapse PROVE Inv'
<1>1. /\ now' = Older(now)
      /\ lastUptime' = Older(lastUptime)
      /\ lastSync' = Older(lastSync)
      /\ received' = Older(received)
      /\ recent' = <<Older(recent[1]), Older(recent[2])>>
      /\ tick' = 0 \/ tick' = Older(tick)
      /\ UNCHANGED <<cfg, stopping, pc, snap, late>>
  BY DEF Elapse
<1>2. due' \in 1 .. Minute
  BY UnitAssumption DEF Inv, TypeOK, Elapse
<1>3. /\ now \in Instant \cup {NoTick} /\ tick \in Instant \cup {NoTick}
      /\ received \in Instant \cup {NoTick}
      /\ lastUptime \in Instant /\ lastSync \in Instant
      /\ recent[1] \in Instant /\ recent[2] \in Instant
  BY DEF Inv, TypeOK
<1>4. 0 \in Instant
  BY HorizonNat DEF Instant
<1>5. /\ now' \in Instant \cup {NoTick} /\ tick' \in Instant \cup {NoTick}
      /\ received' \in Instant \cup {NoTick}
      /\ lastUptime' \in Instant /\ lastSync' \in Instant
      /\ recent'[1] \in Instant /\ recent'[2] \in Instant
      /\ now # NoTick => now' # NoTick
      /\ received # NoTick => received' # NoTick
  BY <1>1, <1>3, <1>4, OlderType
<1>6. TypeOK'
  BY <1>1, <1>2, <1>5 DEF Inv, TypeOK
<1>7. ASSUME tick' # NoTick, tick' # 0
      PROVE  tick # NoTick /\ tick' = Older(tick)
  BY <1>1, <1>3, <1>7, OlderType
<1>8. Ordered'
  <2>1. tick' # NoTick => tick' >= recent'[2]
    <3>1. CASE tick' = 0
      BY <3>1, <1>5, HorizonNat DEF Instant
    <3>2. CASE tick' # 0
      BY <3>2, <1>1, <1>3, <1>7, OlderKeepsOrder DEF Inv, Ordered
    <3> QED BY <3>1, <3>2
  <2>2. tick' # NoTick /\ pc' \in Handling => tick' >= received'
    <3> SUFFICES ASSUME tick' # NoTick, pc' \in Handling
                 PROVE  tick' >= received'
      OBVIOUS
    <3>1. received \in Instant /\ received' \in Instant
      BY <1>1, <1>3, <1>5 DEF Inv, TypeOK, Handling
    <3>2. CASE tick' = 0
      BY <3>1, <3>2, HorizonNat DEF Instant
    <3>3. CASE tick' # 0
      BY <3>1, <3>3, <1>1, <1>3, <1>7, OlderKeepsOrder DEF Inv, Ordered
    <3> QED BY <3>2, <3>3
  <2>3. pc' \in Handling => now' >= recent'[2]
    BY <1>1, <1>3, OlderKeepsOrder DEF Inv, Ordered
  <2>4. pc' = "syncing" => now' >= recent'[1]
    BY <1>1, <1>3, OlderKeepsOrder DEF Inv, Ordered
  <2>5. pc' \in Handling \cup {"wait"} => lastSync' >= recent'[1]
    BY <1>1, <1>3, OlderKeepsOrder DEF Inv, Ordered
  <2> QED BY <2>1, <2>2, <2>3, <2>4, <2>5 DEF Ordered
<1>9. Late'
  BY <1>1 DEF Inv, Late, AutoSync
<1> QED BY <1>6, <1>8, <1>9 DEF Inv

LEMMA InvStep == Inv /\ [Next]_vars => Inv'
<1> SUFFICES ASSUME Inv, [Next]_vars PROVE Inv'
  OBVIOUS
<1>1. CASE Start \/ Signal
  BY <1>1, MoveInv
<1>2. CASE Worker
  BY <1>2, MoveInv, NewTickerInv, StartTimersInv, ReceiveInv, EndRoundInv,
     BeginSyncInv, EndSyncInv, SkipSyncInv DEF Worker
<1>3. CASE Exit
  BY <1>3, ExitInv
<1>4. CASE \E c \in Settings : Configure(c)
  BY <1>4, ConfigureInv
<1>5. CASE Elapse
  BY <1>5, ElapseInv
<1>6. CASE UNCHANGED vars
  BY <1>6 DEF vars, timers, history, Inv, TypeOK, Ordered, Late, AutoSync
<1> QED BY <1>1, <1>2, <1>3, <1>4, <1>5, <1>6 DEF Next

LEMMA InvHolds == Spec => []Inv
  BY InitInv, InvStep, PTL DEF Spec

-----------------------------------------------------------------------------
(***************************************************************************)
(* The worker's variables keep their types, and a tick that is handled has *)
(* a time of sending and of receipt.                                       *)
(***************************************************************************)
THEOREM TypeCorrect == Spec => []TypeOK
<1>1. Inv => TypeOK
  BY DEF Inv
<1> QED BY <1>1, InvHolds, PTL

(***************************************************************************)
(* Switching auto-sync off takes effect with the next tick.                *)
(***************************************************************************)
THEOREM SettingsObeyed == Spec => []SettingsTakeEffect
<1>1. Inv => SettingsTakeEffect
  BY DEF Inv, Late, SettingsTakeEffect
<1> QED BY <1>1, InvHolds, PTL

(***************************************************************************)
(* No burst of syncs, however long rounds and syncs take: the tick that    *)
(* begins one is an interval younger than lastSync, which is no older than *)
(* the receipt of the tick of the sync before the last.                    *)
(***************************************************************************)
THEOREM SyncsArePaced == Spec => NoBurst
<1> DEFINE Paced == BeginSync /\ Fits(snap.syncInterval) =>
                      -recent[1] >= snap.syncInterval * Minute
<1>1. Inv /\ [Next]_vars => [Paced]_vars
  <2> SUFFICES ASSUME Inv, BeginSync, Fits(snap.syncInterval)
               PROVE  -recent[1] >= snap.syncInterval * Minute
    OBVIOUS
  <2> DEFINE d == snap.syncInterval * Minute
  <2>1. snap \in Setting
    BY SettingsAssumption DEF Inv, TypeOK
  <2>2. d \in Int
    BY <2>1, UnitAssumption DEF Setting
  <2>3. now - lastSync >= d
    BY DEF BeginSync, SyncDue, Fits
  <2>4. lastSync >= recent[1]
    BY DEF Inv, Ordered, BeginSync, Handling
  <2>5. now \in Instant /\ lastSync \in Instant /\ recent[1] \in Instant
    BY DEF Inv, TypeOK, BeginSync
  <2> HIDE DEF d
  <2>6. -recent[1] >= d
    BY <2>2, <2>3, <2>4, <2>5, HorizonNat DEF Instant
  <2> QED BY <2>6 DEF d
<1> QED BY <1>1, InvHolds, PTL DEF Spec, NoBurst
=============================================================================
