----------------------------- MODULE UptimeStore -----------------------------
(***************************************************************************)
(* The store: uptime samples and the last-sync marker, kept in memory as   *)
(* one document and saved as one file after every change.  The mutex makes *)
(* each operation one step, with its save: the save may fail, and then     *)
(* memory is ahead of the file.  A process killed during an operation has  *)
(* either renamed the new file or not, which is the operation with a save  *)
(* that worked or failed, followed by Crash.                               *)
(*                                                                         *)
(* Times are in units of which there are Hour to an hour, on a clock that  *)
(* is never set back.  A time.Duration is signed and holds Width values;   *)
(* the code's has 64 bits and counts nanoseconds.                          *)
(***************************************************************************)
EXTENDS Integers, Sequences, SequencesExt

CONSTANTS
  Markers,     \* what SetLastSync is called with
  Results,     \* what a probe may find: up or not
  Hours,       \* the retention settings, as normalize leaves them
  Hour,        \* units of time to an hour
  Width,       \* the number of values of a time.Duration
  SegMax,      \* the bars of a server, with a backup configured and without
  MaxTime      \* bound on the clock

ASSUME ResultsAssumption == Results \subseteq BOOLEAN
ASSUME HoursAssumption == Hours \subseteq Nat
ASSUME TimeAssumption == Hour \in Nat \ {0} /\ MaxTime \in Nat
ASSUME SegMaxAssumption == SegMax \in [BOOLEAN -> Nat \ {0}]
ASSUME WidthAssumption == Width \in Nat \ {0} /\ Width % 2 = 0

VARIABLES
  clock,     \* time.Now()
  running,   \* the process is up
  mem,       \* the document in memory
  disk,      \* data.json, or Absent
  cfg,       \* the published configuration: retention and backup switch
  round,     \* of the collector: its retention and the servers to go
  rested,    \* no round has started since the clock moved
  inForce    \* history: the retentions configured when rounds began, of the
             \* round under way and those since memory was ahead of the file

vars == <<clock, running, mem, disk, cfg, round, rested, inForce>>

Keys == {"master", "backup"}

Sample == [time : Nat, up : Results]
Document == [uptime : [Keys -> Seq(Sample)], lastSync : Markers \cup {"never"}]
Empty == [uptime |-> [k \in Keys |-> <<>>], lastSync |-> "never"]
Absent == [file |-> "absent"]

\* What the next start finds.
Stored == IF disk = Absent THEN Empty ELSE disk

ServerKeys(backup) == IF backup THEN <<"master", "backup">> ELSE <<"master">>
NoRound == [hours |-> 0, left |-> <<>>]

Wrap(d) == ((d + Width \div 2) % Width) - Width \div 2

\* Mutant: the retention is added to the time.
WindowStartAhead(h) == IF h <= 0 THEN 0 ELSE clock + Wrap(h * Hour)

WindowStart(h) == IF h <= 0 THEN 0 ELSE clock - Wrap(h * Hour)

\* The loop of History and of prune: the samples that are not too old.
Since(samples, limit) ==
  LET kept[n \in 0 .. Len(samples)] ==
        IF n = 0 THEN <<>>
        ELSE IF samples[n].time >= limit THEN Append(kept[n - 1], samples[n])
        ELSE kept[n - 1]
  IN kept[Len(samples)]

Within(samples, h) == Since(samples, WindowStart(h))

\* The samples behind the bars of the dashboard.
History(k, h) == Within(mem.uptime[k], h)

(***************************************************************************)
(* normalizeUptime: which of n samples bar i of at most m may show.  They  *)
(* are spaced n/m apart, in floating point: when n/m is not whole, a       *)
(* product that is may come out just below and lose one, as bar 55 of 96   *)
(* does with 208 samples.                                                  *)
(***************************************************************************)
BarShows(i, n, m) ==
  LET before == ((i - 1) * n) \div m
  IN IF n <= m THEN {i}
     ELSE IF i > 1 /\ n % m # 0 /\ ((i - 1) * n) % m = 0
          THEN {before, before + 1}
          ELSE {before + 1}

\* buildUptime: the bars of a server, one to each of its samples or fewer.
Bars(k) ==
  LET n == Len(History(k, cfg.hours))
      m == SegMax[cfg.backup]
  IN [i \in 1 .. (IF n < m THEN n ELSE m) |-> BarShows(i, n, m)]

\* Mutant: the history of the backup is forgotten about.
PruneMaster(uptime, h) ==
  IF h <= 0 THEN uptime
  ELSE [uptime EXCEPT !["master"] = Within(uptime["master"], h)]

\* prune goes through all servers, those that are not probed any more too.
Prune(uptime, h) ==
  IF h <= 0 THEN uptime ELSE [k \in Keys |-> Within(uptime[k], h)]

\* No round is under way, and the file has what memory has.
Settled ==
  /\ round = NoRound
  /\ running => mem.uptime = Stored.uptime

Forget == inForce' = IF Settled' THEN {} ELSE inForce

\* The document becomes d, and is saved unless that fails.
Change(d) ==
  /\ running
  /\ mem' = d
  /\ disk' \in {d, disk}
  /\ UNCHANGED <<clock, running, cfg, rested>>

-----------------------------------------------------------------------------
Init ==
  /\ clock = 0
  /\ running = FALSE
  /\ mem = Empty
  /\ disk = Absent
  /\ cfg \in [hours : Hours, backup : BOOLEAN]
  /\ round = NoRound
  /\ rested = TRUE
  /\ inForce = {}

\* Mutant: the file is not read.
StartEmpty ==
  /\ ~running
  /\ running' = TRUE
  /\ mem' = Empty
  /\ UNCHANGED <<clock, disk, cfg, round, rested, inForce>>

\* New.
Start ==
  /\ ~running
  /\ running' = TRUE
  /\ mem' = Stored
  /\ UNCHANGED <<clock, disk, cfg, round, rested, inForce>>

(***************************************************************************)
(* collectUptime at start-up or when a tick finds the interval over: with  *)
(* one snapshot of the configuration the active servers are probed, one    *)
(* after the other.  Bound: one round to a unit of time.                   *)
(***************************************************************************)
StartRound ==
  /\ running
  /\ round = NoRound
  /\ cfg.hours > 0
  /\ rested
  /\ rested' = FALSE
  /\ round' = [hours |-> cfg.hours, left |-> ServerKeys(cfg.backup)]
  /\ inForce' = inForce \cup {cfg.hours}
  /\ UNCHANGED <<clock, running, mem, disk, cfg>>

\* Mutant: the newest sample comes first.
PrependUptime(k, up) ==
  LET sample == [time |-> clock, up |-> up]
      uptime == [mem.uptime EXCEPT ![k] = <<sample>> \o @]
  IN /\ round # NoRound
     /\ k = Head(round.left)
     /\ round' = IF Tail(round.left) = <<>> THEN NoRound
                 ELSE [round EXCEPT !.left = Tail(@)]
     /\ Change([mem EXCEPT !.uptime = Prune(uptime, round.hours)])
     /\ Forget

AppendUptime(k, up) ==
  LET sample == [time |-> clock, up |-> up]
      uptime == [mem.uptime EXCEPT ![k] = Append(@, sample)]
  IN /\ round # NoRound
     /\ k = Head(round.left)
     /\ round' = IF Tail(round.left) = <<>> THEN NoRound
                 ELSE [round EXCEPT !.left = Tail(@)]
     /\ Change([mem EXCEPT !.uptime = Prune(uptime, round.hours)])
     /\ Forget

\* After a sync: the worker's, or one of a handler at any time.
SetLastSync(m) ==
  /\ Change([mem EXCEPT !.lastSync = m])
  /\ UNCHANGED round
  /\ Forget

\* The admin page.
Configure(h, backup) ==
  /\ cfg' = [hours |-> h, backup |-> backup]
  /\ UNCHANGED <<clock, running, mem, disk, round, rested, inForce>>

Tick ==
  /\ clock < MaxTime
  /\ clock' = clock + 1
  /\ rested' = TRUE
  /\ UNCHANGED <<running, mem, disk, cfg, round, inForce>>

Crash ==
  /\ running
  /\ running' = FALSE
  /\ mem' = Empty
  /\ round' = NoRound
  /\ inForce' = {}
  /\ UNCHANGED <<clock, disk, cfg, rested>>

Next ==
  \/ Start
  \/ StartRound
  \/ \E k \in Keys, up \in Results : AppendUptime(k, up)
  \/ \E m \in Markers : SetLastSync(m)
  \/ \E h \in Hours, backup \in BOOLEAN : Configure(h, backup)
  \/ Tick
  \/ Crash

Spec == Init /\ [][Next]_vars

-----------------------------------------------------------------------------
InOrder(samples) ==
  /\ \A i, j \in DOMAIN samples : i < j => samples[i].time <= samples[j].time
  /\ \A i \in DOMAIN samples : samples[i].time <= clock

\* Type invariant: in memory and in the file, samples are in the order they
\* were taken and none is from the future, as the bars are drawn.
TypeOK ==
  /\ clock \in 0 .. MaxTime
  /\ running \in BOOLEAN
  /\ mem \in Document
  /\ disk \in Document \cup {Absent}
  /\ \A k \in Keys : InOrder(mem.uptime[k]) /\ InOrder(Stored.uptime[k])
  /\ cfg \in [hours : Hours, backup : BOOLEAN]
  /\ round \in [hours : Hours \cup {0}, left : Seq(Keys)]
  /\ rested \in BOOLEAN
  /\ inForce \subseteq Hours \ {0}

(***************************************************************************)
(* A sample that has been saved leaves the file only when it is older than *)
(* the retention that was configured when the round began that prunes it:  *)
(* not by a crash, not by a save after a restart or after a failed one,    *)
(* and not with a change of the marker.  The round is the one under way,   *)
(* or an earlier one whose saves have failed so far: a retention that has  *)
(* been replaced prunes only for as long as that.                          *)
(***************************************************************************)
SavedSamplesStay ==
  [][\A k \in Keys : \A s \in ToSet(Stored.uptime[k]) \
                              ToSet(Stored'.uptime[k]) :
       \E h \in inForce : s.time < clock - h * Hour]_vars

(***************************************************************************)
(* The newest sample of a server is on its dashboard as soon as it has     *)
(* been taken, as the last bar; when there are more samples than bars, the *)
(* last bar shows it or, with n samples for m bars, one of the n/m before  *)
(* it.  (AppendUptime "records a sample for key, prunes history to the     *)
(* retention window"; buildUptime, normalizeUptime.)                       *)
(***************************************************************************)
Took(k) ==
  running' /\ round # NoRound /\ round' # round /\ k = Head(round.left)

NewestIsShown ==
  [][\A k \in Keys : Took(k) =>
       LET shown == History(k, cfg.hours)'
           n     == Len(shown)
       IN /\ shown # <<>> /\ Last(shown).time = clock
          /\ \A last \in Last(Bars(k)') :
               (n - last) * SegMax[cfg.backup] < n]_vars

(***************************************************************************)
(* Memory does not grow with the servers that are no longer probed: after  *)
(* any sample, no server has one older than the retention window.          *)
(***************************************************************************)
WindowHolds ==
  [][\A k, n \in Keys : Took(n) =>
       \A s \in ToSet(mem'.uptime[k]) :
         s.time >= clock - round.hours * Hour]_vars
=============================================================================
