# A TLA+ model of hermAD

hermAD is a web panel for one or two AdGuard Home servers ("master" and
"backup"). It keeps almost no state of its own: the rules it manages live on the
servers, which can only be asked for their whole rule list and given a new one.
What is hard about it is therefore what happens between a read and a write:
other requests, calls that fail or take effect late, a worker that copies one
server to the other, a configuration that changes meanwhile, and files that are
rewritten while the process may be killed.

This directory holds TLA+ models of that behaviour, TLC configurations that
check them on small instances, and proofs, checked by TLAPS, of the most
important invariants for every instance.

## 1. Inventory

| component | state | operations | interacts with |
|---|---|---|---|
| rule requests (`server/dns.go`, `handlers.go`, `background.go:66`) | none but locals | add, edit, delete, reconcile, whitelist, sync | the servers (GET `filtering/status`, POST `filtering/set_rules`), the configuration snapshot, the store (last-sync marker) |
| rule text (`dns.go:333-418`, `views.go:220-264`) | none | parse, build, validate, split, rebuild, merge | called by the rule requests and the pages |
| AdGuard client (`adguard/client.go`) | none | one HTTP call, 8 s timeout | the servers |
| configuration manager (`config/config.go`) | file, temporary file, published snapshot, `saveMu` | load, `Get`, `Save`; `adminSave`, `ensurePanelPassword` | read by every handler and the worker |
| store (`store/store.go`) | one document in memory and as a file, a mutex | `AppendUptime`, `History`, `SetLastSync`, `LastSync`, `Raw` | the worker and the handlers |
| background worker (`background.go`) | two timers, the ticker's channel, the snapshot of a tick | a tick each minute: uptime round, auto-sync; start, stop | client, store, configuration |
| login and limiter (`server/auth.go`) | map of attempts, a mutex | `blocked`, `fail`, `reset` | sessions, configuration (password) |
| sessions and access (`auth.go:102-196`) | none on the server: the cookie | issue, sign, validate; logout | secret, configuration (password) |
| session secret (`main.go:157`) | `session.key`, the secret in memory | load, or make and write | sessions |
| protection (`handlers.go:68`, `client.go:156-181`) | on the servers | enable, disable, timed pause | client, dashboard |
| dashboard views (`views.go`) | none; the card in the browser | parallel reads, bars, whitelist editor, charts | client, store, protection, rule requests |
| HTTP server (`main.go`, `server.go`) | none | routing, timeouts, shutdown | everything |
| localization, templates, browser code | read-only tables | rendering | - |

**Hard behaviour.** Handlers and the worker are goroutines that share the
servers without a lock. A request is a sequence of calls, each of which may be
lost, answered with an error after it took effect, or carried out after the
client's timeout. A fan-out fails in part. The configuration is a snapshot that
is stale as soon as it has been read; a login reads it twice. Files are replaced
while the process may be killed. The limiter is visited twice per login. One
goroutine with one ticker serves two tasks that may both be slow. A card in the
browser is older than the server it speaks of, and its forms act on the server
of now. `PROJECT.json` lists every such hazard at its line, with the properties
that would catch it.

**What makes each component correct.** *Requests*: a toast never claims more
than what happened; lines the panel does not own, and records nobody named, are
not lost; a sync never empties a server; every request is answered; with
auto-sync the servers converge. *Text*: foreign lines survive verbatim, records
round-trip, no duplicates are written. *Configuration*: the file is always
readable, what is live is what is stored, blank passwords keep the old ones, the
login has a password. *Store*: saved samples stay for as long as the retention
says, the newest sample is shown, the document is bounded. *Limiter*: failures
are throttled, nobody is locked out without reason, expired locks are
forgotten. *Sessions*: whoever gets in knew the password, no session outlives a
change of it, restarts keep the others. *Worker*: no burst of syncs, settings
take effect, no task starves the other. *Dashboard*: a card never stays with what
is no longer so, a pause ends, the editor takes away only what it showed.

## 2. Modules

```
RuleSets  <-  RuleRequests  <-  RuleReplication  <-  RuleReplicationMC
                    ^   ^              |        \
                    |   |              |         RuleReplicationProofs
                    |   RuleService <--+  (INSTANCE: implements)
                    |
RuleText  <-  RuleLines (INSTANCE RuleRequests)  <-  RuleLinesMC, RuleLinesProofs

ConfigManager    <- ConfigManagerMC, ConfigManagerProofs
BackgroundWorker <- BackgroundWorkerMC, BackgroundWorkerProofs
UptimeStore      <- UptimeStoreMC, UptimeStoreProofs
Dashboard        <- DashboardMC, DashboardProofs

LoginLimiter  <-  PanelSession  <-  PanelSessionMC
      ^                ^
      LoginLimiterProofs  <-  PanelSessionProofs   (refinement: proved)
```

The definitions introduced as mutants in the modules are not part of any
specification. Each is a plausible mistake in the operator that follows it, and
replacing that operator by it must make the property named in `PROJECT.json`
fail: it shows that the property depends on the code.

**RuleSets, RuleRequests** say what a rule list is, as a set of lines, and what
each kind of request is meant to do: the early returns (`Rejected`,
`NothingToDo`), the servers written (`Targets`), what is written (`Payload`).
A set is enough for AdGuard, whose answers depend neither on order nor on
repetition; RuleLines justifies the abstraction.

**RuleService** is the abstract promise: a request lands, in one step, on some
of its servers, and the toast does not exceed that.

**RuleReplication** is the code: each actor (handler goroutine or worker) has a
program counter and the handler's local variables.

| action | code |
|---|---|
| `StartRequest`, `AutoSync` (`Begin`) | the handler up to its first call; a tick with the auto-sync interval over |
| `UnionRead`, `UnionMiss` | one goroutine of `dnsUnionRecords` |
| `Read`, `ReadFails` | `Filtering` in `applyToAll`, `actionWhitelist`, `runSync`, with the refusal of an empty source |
| `Write`, `WriteLost`, `WriteUnanswered`, `WriteTimesOut` | `SetRules`, and what may become of it |
| `LateWrite` | the server carries out a write its client has given up on |
| `Mark` | `SetLastSync`, whose save may fail after the marker has moved in memory |
| `Reply` | the toast |
| `SaveConfig` | the admin page publishes a configuration |

A call is one step although it takes time: AdGuard handles one set_rules as a
unit, and a call that is cut short is one of the three failures above. `before`
and `calm` are history variables that no action reads.

**RuleText, RuleLines** have the same requests on sequences of lines, where a
line is a sequence of tokens: the separators the code looks for, blanks and
words. They contain the parser, the validation, the splitting, rebuilding and
merging of lists, and the DNS page: `GroupByBaseDomain` sorts records into zones
and shows each host relative to its zone; `ReadAs` is what a reader makes of a
row, and its delete button sends the record's triple through the form. Tokens
keep everything the code can tell apart: it never looks inside a word, but for
capitals (constant `Capital`) and addresses (`IPv4`, `IPv6`). The loops over a
list (`Keep` in splitDNS and its like, `Dedup` in dnsUnionRecords) are written
as recursive functions, as is the store's loop over the samples (`Since`).

**ConfigManager** has the file, the temporary file, the published snapshot and
`saveMu`; a save is five steps (lock, truncate, write, rename, publish), each of
the three file steps may fail, and `Crash` may happen between any two. Main runs
`NewManager` and `ensurePanelPassword` before handlers start. Configurations
have four fields: two that are copied and two that `normalize` corrects.

**UptimeStore** has the document in memory and on disk. The store's mutex makes
each operation one step; its save may fail, and then memory is ahead of disk.
A round of the collector is a step to start and one sample for each server, so
that configuration changes, syncs and crashes come in between. Durations have
`Width` values and wrap. `Bars` is what the dashboard makes of the history:
with n samples for m bars they are spaced n/m apart in floating point, and where
the quotient is not whole but a product is, the rounded product may fall one
short (with 96 bars and 208 samples, bar 55 does); `BarShows` has both outcomes.
`inForce` is a history variable: the retention each round found configured when
it began, of the round under way and of those since memory was ahead of the file.
`SavedSamplesStay` allows pruning with these alone, so a retention that has been
replaced (`background.go:57`) may prune for the rest of its round and no longer.

**BackgroundWorker** is the worker's goroutine between the steps of UptimeStore
and RuleReplication: here a round and a sync only take time. Instants are
counted from the present, so the clock needs no bound; only how long a tick may
wait for the worker has one (`MaxLag`).

| action | code |
|---|---|
| `Start`, `FirstRound`, `EndFirstRound` | `StartBackground`, the first sample |
| `NewTicker`, `StartTimers` | the ticker, then the two timers |
| `Receive` | the select takes a tick; `cfg.Get()` for it |
| `BeginRound`, `EndRound`, `SkipRound` | `collectUptime`, when due |
| `BeginSync`, `EndSync`, `SkipSync` | `runSync`, when due; the timer moves whether it worked or not |
| `StopWorker` | the select sees the cancelled context |
| `Signal`, `Exit` | the signal; the end of main, which waits for nobody, or a kill |
| `Configure` | the admin page publishes a configuration |
| `Elapse` | time passes; a tick is sent, or dropped when the channel is full |

**LoginLimiter** has the map of attempts; each login visits it twice, and the end
of the process forgets it. `failures` is a history variable.

**PanelSession** EXTENDS LoginLimiter with what happens around a login. Each of
its actions conjoins the limiter's action or leaves the limiter alone, and that
PanelSpec implements the limiter's Spec is proved.

| action | code |
|---|---|
| `LoadSecret`, `MakeSecret`, `WriteSecret` | `loadSecret`: the file is read; or, when it is missing, short or cannot be read, a secret is made, the file truncated, then written |
| `RefuseLogin`, `BeginLogin` | `blocked`; the snapshot the credentials are compared with |
| `FailLogin`, `PassLogin` | `fail`; `reset` |
| `IssueSession` | `issueSession`, whose `sign` reads the configuration once more |
| `Persist`, `Publish` | `Save`: the file renamed, then the pointer swapped |
| `StopPanel` | a crash, a stop, or a secret that cannot be written |

`token` is any one session that was ever issued, chosen freely: what holds of it
holds of all. A signature is the pair of secret and password it was made with,
compared as `validSession` compares it. Three variables are history: `raced`, the
logins during which the password changed; `lost`, that a start since the session
was issued could not read a good `session.key`; `ended`, that another password has
been published since, and nobody has saved the session's own again.

**Dashboard** is the card of one server in one browser. Servers do not interact
on the page, so one card stands for each.

| action | code |
|---|---|
| `Poll` | the grid's poll every 30 seconds, or opening the page |
| `StartLoad`, `StatusCall`, `FilteringCall`, `EndLoad` | `buildServerView`: parallel calls, each of which may fail; the fragment |
| `Enable`, `Disable`, `DisableTime` | `actionProtection` from the card's buttons: the call is lost, lands, or lands with its answer lost |
| `SubmitEditor`, `ReadForSave`, `WriteForSave`, `EndSave` | `actionWhitelist` with the editor's text |
| `PauseEnds`, `OthersSwitch`, `OthersAllow` | AdGuard by itself; other browsers and AdGuard's own page |
| `Configure` | the settings make the server active or not |

`SwitchedOff` is `SetProtection`'s conversion of minutes to milliseconds in an
int of `Width` values, whose non-positive results send no duration. `asked` and
`added` are history variables that no action reads.

## 3. Runs

| run | checks | shows |
|---|---|---|
| `rules_sequential` | `TypeOK`, `ImplementsService`, `AgreedRecordsStay` | One user who waits for each toast, all kinds of requests and failures: every request is one step of RuleService. Records both servers hold are lost only when named, or when a reconcile could read neither. |
| `rules_concurrent` | `OkIsAtomic`, `OthersIntact`, `WholeWhitelist` | Two handlers, lost answers and a late write: what survives any interleaving. |
| `rules_liveness` | `SyncNeverEmpties`, `EveryRequestAnswered`, `EventualMirror` | Worker against a handler, lost calls and a late write. |
| `reconcile_unread` | violated: `ReconcileMergesAll` | finding 1 |
| `concurrent_saves` | violated: `SavesAreKept` | finding 2 |
| `rule_lines` | `EditorIsStable`, `RoundTrips`, `ForeignLinesVerbatim`, `EditorOwnsAllows`, `NoNewDuplicates`, `RowsAreDeletable`, `ActsOnSets` | The text functions keep what they do not own, a row deletes the record it shows, and lists change as RuleRequests says of sets. |
| `config_saves` | `TypeOK`, `FileIsWhole`, `StoredIsLive`, `StartsWithPassword`, `EverySaveAnswered` | Two admins, failing disk, crashes. |
| `stale_settings` | violated: `BlankKeepsPassword` | finding 3 |
| `uptime_store` | `TypeOK`, `SavedSamplesStay`, `NewestIsShown`, `WindowHolds` | Samples, pruning, bars, failed saves, crashes. |
| `login` | `PanelTypeOK`, `FailsThrottled`, `BlockedForAReason`, `SessionsSurviveRestarts`, `PasswordOpensSessions`, `LockedClientsForgotten`, `ChangeEndsSessions` | Two clients, two overlapping logins, password changes, restarts. |
| `worker` | `TypeOK`, `SettingsTakeEffect`, `NoBurst`, `WorkGoesOn` | Slow rounds and syncs, changing settings, signals, exits and restarts. |
| `dashboard` | `TypeOK`, `PausesEnd`, `EditorTakesWhatItShowed`, `CardCatchesUp` | Failing calls, lost answers, other users of the same server. |

**Bounds.**
- `rules_sequential`: one handler and every kind of request, rejected and empty
  ones too, with two records of which the servers share one. Two is the smallest
  number that tells an edit from an add, a union from one of its parts, and an
  agreed record from one the servers disagree on. The backup is switched on and
  off at any time. No late write: the user waits, so it would be a second actor.
- `rules_concurrent`: two handlers are enough for a lost update and for a write
  between another request's read and write; one late write is enough to overtake
  both, and answers may be lost. They edit a record, which both takes one away
  and adds one, save the whitelist editor, and sync. The servers have different
  other lines and the editor submits a whitelist no server has, so that a lost,
  mixed or merged list is not one of the permitted ones. Handlers are symmetric.
- `rules_liveness`: one handler with a deletion that can empty the source, the
  worker, one late write, auto-sync switched on and off. No symmetry.
- `rule_lines`: three lists with two spellings of a record, a host and its zone,
  a record with a padded domain, repeated lines, short and block forms of
  `$dnsrewrite`, allow rules with a modifier and an empty one; two forms that are
  accepted once trimmed and capitalized and three that are refused, each for
  another reason; two editor texts. Lists grow only by what requests add. Every
  string is a token here; the lists and forms use about two dozen.
- `config_saves`: two admins and main; a missing file, one with values out of
  range, one with the login off; forms with a password, without one, with a
  field that is not a number, and one that is refused.
- `uptime_store`: a clock of 3 units with one round to a unit, retentions of 0, 1
  and 3 hours, so that samples fall out of one window and not of the other, and 3
  bars, or 2 with a backup, so that there are more samples than bars.
  `Width` = 16 is far above these hours. With a retention that overflows (9
  hours under this width) `NewestIsShown` is violated: every sample is pruned as
  it is taken. In the code that takes a retention of about 2.5 million hours,
  which the admin page accepts; the property is claimed for retentions below.
- `login`: two handlers, clients, passwords and secrets; a threshold and a
  lock-out of 2, sessions that live for 1 unit, a clock of 3 units: a lock can
  begin, end at the boundary `now == until` and begin again, a session can
  expire, and a password can change and be set back. Handlers, clients,
  passwords and secrets are each alike.
- `worker`: a minute of 2 units, so that a tick falls between two moments of a
  round; intervals of 1 and 2 minutes and one of 5, which a duration of 16 values
  does not hold; each task once slower than the other; auto-sync off by its switch
  and by that of the backup. A tick waits for the worker for at most 2 units,
  long enough for a tick behind it to be dropped.
- `dashboard`: one domain, since each domain is kept, added or removed on its own
  (the proofs have any number); an int of 16 values and a minute of 2
  milliseconds: durations that are no number (0), fit, overflow to a negative
  number and overflow to another duration.

**Fairness.** In `RuleReplication` every actor's steps are weakly fair, because
the client's timeout makes every call return and goroutines are scheduled. The
auto-sync action is weakly fair because the ticker runs for as long as the
process does. Late writes are weakly fair: they are carried out or have been
lost for good. `EventualMirror` also needs the network to let the worker through
now and then: strong fairness of its `Read` and `Write` alone. Nothing is
assumed of handlers starting requests or of the admin page. In `ConfigManager`
a saver's steps are weakly fair and taking the mutex is strongly fair, since
Go's mutex hands itself over to a goroutine that has waited for a millisecond.
In `BackgroundWorker` the worker's steps are weakly fair, since every call of a
round or a sync returns within the client's 8 seconds (`client.go:75`), and time
passes. Nothing is assumed of the signal, the exit, the restart or the admin:
`WorkGoesOn` speaks of a process that stays up and a task that stays switched
on. In `Dashboard` the poll and the steps of a load are weakly fair: an open
page polls (`dashboard.html:2` asks for the grid every 30 seconds) and calls return
or time out. `CardCatchesUp` speaks of a server that is left alone from some
moment on; nothing makes a call succeed, so a card may also stay with "failed".

## 4. Findings

1. `reconcile_unread`: the reconcile ignores which servers its union could not
   read (`dns.go:179`). A server that fails during the union and answers
   afterwards loses the records only it had, and the toast says ok; `dns.go:170`
   promises "the deduplicated union of all servers' records".
2. `concurrent_saves`: `applyToAll` reads and writes without a lock
   (`dns.go:232`), so of two overlapping requests one is undone although both
   answered ok; README.md:37 says every add is applied to all servers.
3. `stale_settings`: `adminSave` clones a snapshot and saves the clone
   (`admin.go:59-94`). Two overlapping saves: the second one, with a blank
   password field, writes back the password the first one replaced;
   `admin.go:51` says blank fields keep the stored value.

Seven more things the models and the proofs bring out, which no run is kept for:
- A rule with a blank before the `^` is listed as a record whose domain ends in a
  blank. Its delete (`dns.go:154`) trims the domain and removes the record
  without the blank, if there is one; the row stays, although `dns.go:149`
  promises the exact triple. `RowsAreDeletable` leaves out such rows; without
  that condition it fails on the list with `PaddedRule`.
- The record `@.home.lab` would be shown with the host `@` in the zone `home.lab`
  (`dns.go:323`), which reads as the zone itself; the form accepts such a domain.
  `RowsDeleteWhatTheyShow` assumes that there is none.
- `cleanRule` takes off one prefix, so an allow rule for an allow rule,
  `@@||@@||x^`, is shown as `@@||x`, which is saved as a rule for `x` (`views.go:245`):
  the editor saves something else than it showed. `EditorSettles` assumes that
  there is none.
- Limiter entries below the threshold are never pruned (`auth.go:54`), although
  `auth.go:24` says the map cannot grow unbounded. `LockedClientsForgotten` is
  claimed for locked entries only.
- The whitelist editor of a card whose filtering call failed is empty, and saving
  it empties the server's whitelist; `EditorTakesWhatItShowed` is claimed for
  cards that read the rules. The text of any editor takes away what was allowed
  after its card was drawn, which the property leaves out too.
- `loadSecret` makes a new secret and overwrites the file whenever reading it
  fails (`main.go:158`), not only "on first run" (`main.go:155`): a start that
  cannot read a good `session.key` ends every session. `SessionsSurviveRestarts`
  leaves out exactly these starts, by `lost`. (If the file cannot be opened for
  writing either, the process ends and the file stays.)
- A login that passes the comparison just before another password is published is
  given a session signed under the new one; `PasswordOpensSessions` names this
  case. A password that is set back makes its sessions valid again until they
  expire.

## 5. Proofs

Each theorem holds for every value of the constants that satisfies the
assumptions named in the modules, which TLC evaluates in every run, and the
hypotheses in the table.

| module | theorem | property | hypothesis |
|---|---|---|---|
| `RuleReplicationProofs` | `TypeCorrect` | `TypeOK` | |
| | `OthersAreIntact` | `OthersIntact` | |
| | `WhitelistsAreWhole` | `WholeWhitelist` | |
| | `SyncNeverEmptiesAServer` | `SyncNeverEmpties` | |
| | `OkIsTrue` | `OkIsAtomic` | |
| | `AgreedRecordsLostForAReason` | (stated there) | |
| | `AgreedRecordsAreKept` | `AgreedRecordsStay` | no late write |
| | `RequestsAreAtomic` | `ImplementsService` | one handler, no late write, no auto-sync |
| `RuleLinesProofs` | `ListsActAsSets` | `ActsOnSets` | |
| | `RecordsRoundTrip` | `RoundTrips` | |
| | `ForeignLinesStay` | `ForeignLinesVerbatim` | |
| | `EditorKeepsTheRest` | `EditorOwnsAllows` | |
| | `NoDuplicatesWritten` | `NoNewDuplicates` | |
| | `RowsDeleteWhatTheyShow` | `RowsAreDeletable` | `NoAtHosts` |
| | `EditorSettles` | `EditorIsStable` | `PlainAllows` |
| `UptimeStoreProofs` | `StoreTypeCorrect` | `TypeOK` | |
| | `SavedSamplesSurvive` | `SavedSamplesStay` | `RetentionsFit` |
| | `RetentionWindowHolds` | `WindowHolds` | `RetentionsFit` |
| | `NewestSampleIsShown` | `NewestIsShown` | `RetentionsFit` |
| `ConfigManagerProofs` | `ConfigTypeCorrect` | `TypeOK` | |
| | `ConfigFileIsWhole` | `FileIsWhole` | |
| | `ConfigStoredIsLive` | `StoredIsLive` | |
| | `ConfigStartsWithPassword` | `StartsWithPassword` | |
| `BackgroundWorkerProofs` | `TypeCorrect` | `TypeOK` | |
| | `SettingsObeyed` | `SettingsTakeEffect` | |
| | `SyncsArePaced` | `NoBurst` | |
| `LoginLimiterProofs` | `LimiterTypeCorrect` | `TypeOK` | |
| | `OwnFailuresBlock` | `BlockedForAReason` | |
| | `FailuresAreThrottled` | `FailsThrottled` | |
| | `ExpiredLocksForgotten` | `LockedClientsForgotten` | |
| `PanelSessionProofs` | `PanelImplementsLimiter` | the limiter's `Spec` | |
| | `PanelTypeCorrect` | `PanelTypeOK` | |
| | `PanelBlocksForAReason` | `BlockedForAReason` | |
| | `PanelThrottlesFailures` | `FailsThrottled` | |
| | `PanelForgetsLocks` | `LockedClientsForgotten` | |
| | `RestartsKeepSessions` | `SessionsSurviveRestarts` | |
| | `SessionsNeedPassword` | `PasswordOpensSessions` | |
| | `ChangesEndSessions` | `ChangeEndsSessions` | |
| `DashboardProofs` | `DashboardTypeCorrect` | `TypeOK` | |
| | `PausesComeToAnEnd` | `PausesEnd` | |
| | `EditorIsHonest` | `EditorTakesWhatItShowed` | |

**The hypotheses** are conditions the code does not establish and the properties
need. `RetentionsFit`: every retention, in nanoseconds, fits a time.Duration (292
years); above it `NewestIsShown` is violated (section 3). `NoAtHosts`: no record
of the lists at first or of a form has `@` for its host. `PlainAllows`: no allow rule
of the lists at first or of an editor text names another allow rule. Section 4 says
what happens without the last two. A late write is somebody else's write that
`AgreedRecordsStay` does not name; `AgreedRecordsLostForAReason` names it and
needs no hypothesis. `RequestsAreAtomic` speaks of the user who waits for each
toast; with a second actor requests are not atomic (finding 2). The instances
that TLC checks satisfy all of these hypotheses.

**Rule replication**, for any sets of handlers, records, whitelists, other lines,
requests and configurations, any initial rules, any faults and any number of
late writes. None of the properties is inductive, since what is on a server came
from a list some actor read earlier. The invariants extend each property to the
places a list passes through: `OthersIntact` and `WholeWhitelist` to what has been
read (`got`) and to the late writes; `SyncNeverEmpties` to "a sync that is about
to write, and a late write of a sync, has a list that is not empty". `OkIsAtomic`
needs the most (`Truthful`): for an actor that is calm, the rules of each server
are those before the request, or its effect if the server has been written, in
each state of the fan-out; a server counts as written when it is neither to do
nor failed. The same invariant tells what a calm request may take away, and with
`Forgets` (a request that was overtaken remembers nothing) the agreed records
follow: a write that loses one removes it from what the server had, so it names it,
or it is a reconcile whose union lacks it.

`RequestsAreAtomic` maps the code to RuleService: the abstract rules are those
before the request until it ends, and the toast appears with it. With a single
handler every request is calm, so `Truthful` gives the step: at the reply each
target has the effect or, where a call failed, one or the other, which is the
choice of servers the abstract request makes; the toast is ok only if no call
failed. Every other step is a stutter.

**Rule text and lists**, for lists of any length and lines of any tokens. The
library's induction theorems cannot be used here; `Induction` and `SeqInduction`
say the same of a set of numbers or of sequences, from the well-foundedness of
the natural numbers, and `LoopExists` that a loop's recursive function has a
value after each turn. From these come the laws of `Keep` (of an append, of a
concatenation, twice, all or nothing) and of `Dedup`. The lemmas about cuts, trims
and marks end in `BuiltIsParsed`, that a record which is `Clean` is read back from
its rule, and `ParsedIsClean` and `ValidatedIsClean`, that every record the panel
handles is `Clean`: its domain is not empty and has no `^$dnsrewrite=` in it, its
type is in capitals and has no semicolon, type and value are trimmed. The value
may hold any of the separators. The only invariant is that lists are lists of
texts; `RebuiltIs` and `MergedIs` (what a rebuilt or merged list keeps and what it
is read as) do the rest. `NoDuplicatesWritten` counts copies through each turn of
the loops. `RowsDeleteWhatTheyShow` puts host, dot and zone together again
(`HostAndZone`) and carries `NotAtHost` through every request; `EditorSettles` does
so with `PlainLines`, the lines which show no allow rule, and shows that what is
saved from such a list shows the same domains. With `ListsActAsSets` the theorems
about sets of lines in `RuleReplicationProofs` speak of the text.

**Store**, for any retentions, numbers of bars, markers and any length of the
history. The loop `Since` keeps the samples that are not too old, in their
order, and the newest if it is one of them (`SinceKeeps`, by the same induction).
`SavedSamplesSurvive` needs an invariant between memory and file: what memory
lacks of the saved histories has expired under a retention in force (`LagOK`); a
save then loses only that, and the retentions are forgotten only when memory and
file agree (`ForgetLags`). `NewestSampleIsShown` ends in arithmetic (`LastBar`): the position of the
last of m bars is a whole number only if n/m is, so that the floating-point
product cannot cost it a sample, and it is less than n/m before the last sample.

**Configuration**, for any number of admins, any forms and any initial file. The
invariant ties a saver's place in `Save` to the files: only the holder of the
lock is past "lock", the temporary file has its configuration before the rename
and `config.json` has it before the publication, and while main saves no handler
is running.

**Worker**, for any settings, intervals, units of time and lags. `NoBurst` speaks
of three syncs, so the invariant follows the ticks: one is sent only after the
tick before it was received, because it had to find the channel empty; so the
tick of a sync is no older than the receipt of the tick of the sync before, and
the timer, which is set to a tick's own time, is no older than the receipt before
that. `SettingsTakeEffect` needs that a sync which begins late has a snapshot
from before the switch, and that the next snapshot comes after it.

**Limiter**, for any handlers, clients, threshold and lock-out. An entry counts no
more failures than the client has had since its last success, and its lock was
set by the last (`BlockedForAReason`). `FailsThrottled` counts the other way: a
failure is recent while a lock it set would last; an entry that is not full has
counted all the recent ones, a locked one lets nobody in, so each further failure
is that of a login under way, and recent failures and logins under way are
together no more than the bound (`Paced`).

**Panel**: it implements the limiter, with the identity as refinement mapping, and
so keeps what is proved of the limiter. The invariant for sessions: the file holds
the secret before the panel serves and so before any session is signed; a handler
with a login under way has seen the password of the moment or its change; the
watched session has the secret of the file unless a start could not read it, and
the password it was shown unless its login raced. `ChangeEndsSessions` needs more
than the check of a signature, since password and file change in two steps and a
crash may come between: a session that has ended was issued neither under the
published password nor under the stored one, which the next start will publish
(`EndedOK`).

**Dashboard**, for any domains, durations and width. The editor's property relates
a card to a server that has moved on; its invariant, `Seen`, says of the load, of
the card and of the form under way that what is allowed now was read by it or has
been added since.

**Only model-checked** is liveness, which is out of the prover's reach:
`EveryRequestAnswered`, `EventualMirror`, `EverySaveAnswered`, `WorkGoesOn` and
`CardCatchesUp`; and the properties with a hypothesis in the table, in so far as
the hypothesis is not met. The three runs that expect a violation have nothing to
prove.

## 6. Not modelled

- Logout, which only clears the browser's cookie (a session it leaves behind is
  the same as one that is still in use), and the switch that turns authentication
  off, with which `withAuth` asks for nothing.
- The statistics, charts and formats on the dashboard, and the time left of a
  pause as the card tells it: they are computed from one answer and shown.
- The fields of the configuration that are copied without a check: two stand for
  all of them.
- The export, which only reads the document in memory.
- How long calls take: only that they end. So the write timeout of the HTTP
  server, which may cut off the toast of a slow fan-out, is not modelled; the
  request itself goes on and is.
- Localization, templates, style sheets and browser code beyond the poll and the
  refresh of the grid, which only present; routing and headers, which have no
  state; the HTTP library and AdGuard itself, of which only the answers are
  modelled.
