-------------------------- MODULE RuleReplication --------------------------
(***************************************************************************)
(* How the panel changes the rules of the two AdGuard servers.             *)
(*                                                                         *)
(* HTTP handlers and the auto-sync worker run at the same time and share   *)
(* nothing but the servers: AdGuard can only replace a whole rule list, so *)
(* each of them reads a list (GET filtering/status), computes a new one    *)
(* and writes it back (POST filtering/set_rules), one server after the     *)
(* other, with no lock.  A call is one step here, because the client gives *)
(* up after 8 seconds and therefore always returns; what can happen        *)
(* to a call that fails is                                                 *)
(*   "lost"        it had no effect                                        *)
(*   "unanswered"  the write took effect and the answer was lost           *)
(*   late          the client gave up and the write takes effect later     *)
(***************************************************************************)
EXTENDS RuleRequests, Naturals, FiniteSets

CONSTANTS
  Handlers,      \* HTTP handler goroutines, one request at a time each
  Worker,        \* the background goroutine
  Requests,      \* the requests that are submitted
  Configs,       \* the configurations the admin page publishes
  InitialRules,  \* the rules the servers may start with
  Faults,        \* which of "lost", "unanswered" and "disk" may happen
  MaxLate        \* how many writes may be under way after their timeout

Actors == Handlers \cup {Worker}

ASSUME WorkerAssumption == Worker \notin Handlers
ASSUME RequestsAssumption ==
  Requests \subseteq {q \in Request : q.kind = "sync" => ~q.auto}
ASSUME ConfigsAssumption == Configs \subseteq Config
ASSUME RulesAssumption == InitialRules \subseteq [Keys -> SUBSET Line]
ASSUME FaultsAssumption == Faults \subseteq {"lost", "unanswered", "disk"}
ASSUME MaxLateAssumption == MaxLate \in Nat

VARIABLES
  rules,     \* the user_rules of each server
  late,      \* writes whose client has given up on them
  cfg,       \* the published configuration snapshot
  lastSync,  \* the store's last-sync marker
  \* and for each actor, the local variables of its request:
  pc,        \* "idle", "union", "read", "write", "mark" or "reply"
  req,       \* the request
  snap,      \* the configuration it read when it started
  asking,    \* the servers whose union read is still out
  unread,    \* the servers the union could not read
  union,     \* the records merged so far
  todo,      \* the servers still to be written
  got,       \* the list read for the next write
  failed,    \* the servers whose read or write failed
  outcome,   \* the toast, once it is known
  \* and what no action reads:
  before,    \* the rules before the request, for as long as it is calm:
  calm       \* nobody else's write has landed since

shared  == <<rules, late, cfg, lastSync>>
request == <<req, snap>>
merge   == <<asking, unread, union>>
loop    == <<pc, todo, got, failed, outcome>>
history == <<before, calm>>

vars == <<rules, late, cfg, lastSync, pc, req, snap, asking, unread, union,
          todo, got, failed, outcome, before, calm>>

NoRequest == [kind |-> "none"]
NoConfig ==
  [backup |-> FALSE, auto |-> FALSE, direction |-> "master_to_backup"]
NoRules == [k \in Keys |-> {}]

\* ServerKeys lists master first, and the fan-out follows that order.
NextKey(a) == IF "master" \in todo[a] THEN "master" ELSE "backup"

NewRules(a) == Payload(req[a], got[a], union[a])

\* Mutant: one server is enough.
ResultOfAny(fails, targets) == IF fails # targets THEN "ok" ELSE "err"

\* dnsResult; with a single target only its first and last case remain.
Result(fails, targets) ==
  IF fails = {} THEN "ok" ELSE IF fails # targets THEN "partial" ELSE "err"

\* The end of one turn of the fan-out loop, and of the loop with the last one.
Proceed(a, fails) ==
  LET left == todo[a] \ {NextKey(a)}
  IN /\ todo' = [todo EXCEPT ![a] = left]
     /\ got' = [got EXCEPT ![a] = {}]
     /\ failed' = [failed EXCEPT ![a] = fails]
     /\ pc' = [pc EXCEPT ![a] = IF left = {} THEN "reply" ELSE "read"]
     /\ outcome' = [outcome EXCEPT ![a] =
                      IF left = {} THEN Result(fails, Targets(req[a], snap[a]))
                                   ELSE "none"]

Succeed(a) == Proceed(a, failed[a])

\* Mutants: the error is swallowed; the server is tried again until it answers.
FailUnnoticed(a) == Proceed(a, failed[a])
FailAndRetry(a) ==
  /\ pc' = [pc EXCEPT ![a] = "read"]
  /\ got' = [got EXCEPT ![a] = {}]
  /\ UNCHANGED <<todo, failed, outcome>>

Fail(a) == Proceed(a, failed[a] \cup {NextKey(a)})

\* A write lands that is none of the requests of the actors in A.
Disturb(A) ==
  LET hit(a) == a \in A /\ pc[a] # "idle"
  IN /\ calm' = [a \in Actors |-> IF hit(a) THEN FALSE ELSE calm[a]]
     /\ before' = [a \in Actors |-> IF hit(a) THEN NoRules ELSE before[a]]

\* The write of a's request takes effect.
Land(a) ==
  /\ rules' = [rules EXCEPT ![NextKey(a)] = NewRules(a)]
  /\ Disturb(Actors \ {a})

-----------------------------------------------------------------------------
Init ==
  /\ rules \in InitialRules
  /\ late = {}
  /\ cfg \in Configs
  /\ lastSync = NeverSynced
  /\ pc = [a \in Actors |-> "idle"]
  /\ req = [a \in Actors |-> NoRequest]
  /\ snap = [a \in Actors |-> NoConfig]
  /\ asking = [a \in Actors |-> {}]
  /\ unread = [a \in Actors |-> {}]
  /\ union = [a \in Actors |-> {}]
  /\ todo = [a \in Actors |-> {}]
  /\ got = [a \in Actors |-> {}]
  /\ failed = [a \in Actors |-> {}]
  /\ outcome = [a \in Actors |-> "none"]
  /\ before = [a \in Actors |-> NoRules]
  /\ calm = [a \in Actors |-> TRUE]

\* The handler up to its first call: snapshot, checks and early returns.
Begin(a, q) ==
  LET answer == IF Rejected(q, cfg) THEN "err"
                ELSE IF NothingToDo(q) THEN "ok" ELSE "none"
      first  == IF q.kind = "reconcile" THEN "union" ELSE "read"
  IN /\ pc[a] = "idle"
     /\ pc' = [pc EXCEPT ![a] = IF answer = "none" THEN first ELSE "reply"]
     /\ req' = [req EXCEPT ![a] = q]
     /\ snap' = [snap EXCEPT ![a] = cfg]
     /\ asking' = [asking EXCEPT ![a] =
                     IF q.kind = "reconcile" THEN Targets(q, cfg) ELSE {}]
     /\ todo' = [todo EXCEPT ![a] = Targets(q, cfg)]
     /\ outcome' = [outcome EXCEPT ![a] = answer]
     /\ before' = [before EXCEPT ![a] = rules]
     /\ UNCHANGED <<shared, unread, union, got, failed, calm>>

StartRequest(h, q) == h \in Handlers /\ Begin(h, q)

\* Mutant: once the servers have been synced, they are left alone.
AutoSyncOnce ==
  /\ cfg.backup
  /\ cfg.auto
  /\ lastSync = NeverSynced
  /\ Begin(Worker, [kind |-> "sync", direction |-> cfg.direction,
                    auto |-> TRUE])

\* A tick that finds the interval over; the interval itself is not modelled.
AutoSync ==
  /\ cfg.backup
  /\ cfg.auto
  /\ Begin(Worker, [kind |-> "sync", direction |-> cfg.direction,
                    auto |-> TRUE])

(***************************************************************************)
(* dnsUnionRecords: one goroutine per server, joined before the fan-out.   *)
(***************************************************************************)
\* Mutant: the fan-out does not wait for the last answer.
AnsweredFirst(a, k) ==
  /\ pc[a] = "union"
  /\ k \in asking[a]
  /\ asking' = [asking EXCEPT ![a] = {}]
  /\ pc' = [pc EXCEPT ![a] = "read"]
  /\ UNCHANGED <<shared, request, todo, got, failed, outcome, history>>

Answered(a, k) ==
  /\ pc[a] = "union"
  /\ k \in asking[a]
  /\ asking' = [asking EXCEPT ![a] = @ \ {k}]
  /\ pc' = [pc EXCEPT ![a] = IF asking[a] = {k} THEN "read" ELSE "union"]
  /\ UNCHANGED <<shared, request, todo, got, failed, outcome, history>>

UnionRead(a, k) ==
  /\ Answered(a, k)
  /\ union' = [union EXCEPT ![a] = @ \cup RecordsOf(rules[k])]
  /\ UNCHANGED unread

UnionMiss(a, k) ==
  /\ "lost" \in Faults
  /\ Answered(a, k)
  /\ unread' = [unread EXCEPT ![a] = @ \cup {k}]
  /\ UNCHANGED union

\* Mutant: a source without rules is copied like any other.
ReadUnchecked(a) ==
  /\ pc[a] = "read"
  /\ pc' = [pc EXCEPT ![a] = "write"]
  /\ got' = [got EXCEPT ![a] = rules[ReadFrom(req[a], NextKey(a))]]
  /\ UNCHANGED <<todo, failed, outcome>>
  /\ UNCHANGED <<shared, request, merge, history>>

(***************************************************************************)
(* The read of one turn of the fan-out, or of the sync's source, which is  *)
(* refused when it has no rules at all.                                    *)
(***************************************************************************)
Read(a) ==
  LET read == rules[ReadFrom(req[a], NextKey(a))]
  IN /\ pc[a] = "read"
     /\ IF req[a].kind = "sync" /\ read = {}
          THEN Fail(a)
          ELSE /\ pc' = [pc EXCEPT ![a] = "write"]
               /\ got' = [got EXCEPT ![a] = read]
               /\ UNCHANGED <<todo, failed, outcome>>
     /\ UNCHANGED <<shared, request, merge, history>>

ReadFails(a) ==
  /\ "lost" \in Faults
  /\ pc[a] = "read"
  /\ Fail(a)
  /\ UNCHANGED <<shared, request, merge, history>>

Write(a) ==
  /\ pc[a] = "write"
  /\ Land(a)
  /\ IF req[a].kind = "sync"
       THEN /\ pc' = [pc EXCEPT ![a] = "mark"]
            /\ UNCHANGED <<todo, got, failed, outcome>>
       ELSE Succeed(a)
  /\ UNCHANGED <<late, cfg, lastSync, request, merge>>

WriteUnanswered(a) ==
  /\ "unanswered" \in Faults
  /\ pc[a] = "write"
  /\ Land(a)
  /\ Fail(a)
  /\ UNCHANGED <<late, cfg, lastSync, request, merge>>

WriteLost(a) ==
  /\ "lost" \in Faults
  /\ pc[a] = "write"
  /\ Fail(a)
  /\ UNCHANGED <<shared, request, merge, history>>

WriteTimesOut(a) ==
  /\ pc[a] = "write"
  /\ Cardinality(late) < MaxLate
  /\ late' = late \cup {[key |-> NextKey(a), kind |-> req[a].kind,
                         rules |-> NewRules(a)]}
  /\ Fail(a)
  /\ UNCHANGED <<rules, cfg, lastSync, request, merge, history>>

\* A server carries out a write whose client has long gone.
LateWrite(w) ==
  /\ w \in late
  /\ late' = late \ {w}
  /\ rules' = [rules EXCEPT ![w.key] = w.rules]
  /\ Disturb(Actors)
  /\ UNCHANGED <<cfg, lastSync, request, merge, loop>>

(***************************************************************************)
(* SetLastSync changes the marker in memory and then saves the document:   *)
(* when the save fails, the marker has moved and the sync is reported as   *)
(* failed all the same.                                                    *)
(***************************************************************************)
Mark(a) ==
  /\ pc[a] = "mark"
  /\ lastSync' = Marker(req[a])
  /\ \E answer \in {"ok"} \cup (IF "disk" \in Faults THEN {"err"} ELSE {}) :
       outcome' = [outcome EXCEPT ![a] = answer]
  /\ pc' = [pc EXCEPT ![a] = "reply"]
  /\ todo' = [todo EXCEPT ![a] = {}]
  /\ got' = [got EXCEPT ![a] = {}]
  /\ UNCHANGED <<rules, late, cfg, request, merge, failed, history>>

\* The toast is sent (the worker only logs an error) and the locals go.
Reply(a) ==
  /\ pc[a] = "reply"
  /\ pc' = [pc EXCEPT ![a] = "idle"]
  /\ req' = [req EXCEPT ![a] = NoRequest]
  /\ snap' = [snap EXCEPT ![a] = NoConfig]
  /\ unread' = [unread EXCEPT ![a] = {}]
  /\ union' = [union EXCEPT ![a] = {}]
  /\ failed' = [failed EXCEPT ![a] = {}]
  /\ outcome' = [outcome EXCEPT ![a] = "none"]
  /\ before' = [before EXCEPT ![a] = NoRules]
  /\ calm' = [calm EXCEPT ![a] = TRUE]
  /\ UNCHANGED <<shared, asking, todo, got>>

\* The admin page publishes a configuration.
SaveConfig(c) ==
  /\ cfg' = c
  /\ UNCHANGED <<rules, late, lastSync, request, merge, loop, history>>

Step(a) ==
  \/ \E k \in Keys : UnionRead(a, k) \/ UnionMiss(a, k)
  \/ Read(a) \/ ReadFails(a)
  \/ Write(a) \/ WriteUnanswered(a) \/ WriteLost(a) \/ WriteTimesOut(a)
  \/ Mark(a)
  \/ Reply(a)

Next ==
  \/ \E h \in Handlers, q \in Requests : StartRequest(h, q)
  \/ AutoSync
  \/ \E a \in Actors : Step(a)
  \/ \E w \in late : LateWrite(w)
  \/ \E c \in Configs : SaveConfig(c)

Spec == Init /\ [][Next]_vars

(***************************************************************************)
(* Every call returns and every goroutine is scheduled, so a request never *)
(* stops halfway; the ticker keeps ticking; a write that AdGuard has       *)
(* accepted is carried out.  The network answers the worker's reads and    *)
(* writes now and then, though it may fail them any number of times.       *)
(***************************************************************************)
FairSpec ==
  /\ Spec
  /\ \A a \in Actors : WF_vars(Step(a))
  /\ WF_vars(AutoSync)
  /\ WF_vars(\E w \in late : LateWrite(w))
  /\ SF_vars(Read(Worker))
  /\ SF_vars(Write(Worker))

-----------------------------------------------------------------------------
\* Type invariant: every local variable of every request has its type.
LateWrites == [key : Keys, kind : {q.kind : q \in Request},
               rules : SUBSET Line]

Markers == [direction : Directions, auto : BOOLEAN] \cup {NeverSynced}

TypeOK ==
  /\ rules \in [Keys -> SUBSET Line]
  /\ late \subseteq LateWrites
  /\ cfg \in Configs
  /\ lastSync \in Markers
  /\ pc \in [Actors -> {"idle", "union", "read", "write", "mark", "reply"}]
  /\ req \in [Actors -> Request \cup {NoRequest}]
  /\ snap \in [Actors -> Config]
  /\ asking \in [Actors -> SUBSET Keys]
  /\ unread \in [Actors -> SUBSET Keys]
  /\ union \in [Actors -> SUBSET Records]
  /\ todo \in [Actors -> SUBSET Keys]
  /\ got \in [Actors -> SUBSET Line]
  /\ failed \in [Actors -> SUBSET Keys]
  /\ outcome \in [Actors -> {"none", "ok", "partial", "err"}]
  /\ before \in [Actors -> [Keys -> SUBSET Line]]
  /\ calm \in [Actors -> BOOLEAN]

(***************************************************************************)
(* A toast that says "ok" is true of both servers: if nobody else's write  *)
(* landed during the request, the rules are exactly what the request was   *)
(* meant to make of them, on every server it targets and on none besides.  *)
(* (applyToAll, actionWhitelist, runSync and what they answer.)            *)
(***************************************************************************)
OkIsAtomic ==
  \A a \in Actors :
    pc[a] = "reply" /\ outcome[a] = "ok" /\ calm[a] =>
      rules = Effect(req[a], snap[a], ServerKeys(snap[a]) \ unread[a],
                     before[a])

(***************************************************************************)
(* However requests interleave, fail or land late, the lines a server has  *)
(* that the panel does not own are all of those one of the servers started *)
(* with: none is lost, and none of two lists are mixed (a sync copies the  *)
(* list as a whole).  (splitDNS, rebuildRules, mergeWhitelist: "a rebuild  *)
(* never drops a line it does not own".)                                   *)
(***************************************************************************)
OthersOf(S) == OfKind(S, "other")
GivenOthers == {OthersOf(b[k]) : b \in InitialRules, k \in Keys}

OthersIntact == \A k \in Keys : OthersOf(rules[k]) \in GivenOthers

(***************************************************************************)
(* The whitelist of a server is always one whole list, a list it started   *)
(* with or one that was submitted in the editor, never a mixture of two.   *)
(***************************************************************************)
AllowsOf(S) == OfKind(S, "allow")
WholeLists ==
  {AllowsOf(b[k]) : b \in InitialRules, k \in Keys}
    \cup {{AllowLine(d) : d \in q.domains} :
            q \in {p \in Requests : p.kind = "whitelist"}}

WholeWhitelist == \A k \in Keys : AllowsOf(rules[k]) \in WholeLists

(***************************************************************************)
(* A server that has rules never loses all of them to a sync, not even to  *)
(* one whose source was emptied after it was read or whose write lands     *)
(* late: emptying a server is always the work of another request.          *)
(***************************************************************************)
Writing(a, k) == pc[a] = "write" /\ NextKey(a) = k /\ pc'[a] # "write"

SyncNeverEmpties ==
  [][\A k \in Keys :
       rules[k] # {} /\ rules'[k] = {} =>
         \/ \E a \in Actors : Writing(a, k) /\ req[a].kind # "sync"
         \/ \E w \in late \ late' : w.key = k /\ w.kind # "sync"]_vars

(***************************************************************************)
(* One request at a time: a record both servers hold is lost by a server   *)
(* only to a request that names it as the record to delete or to replace,  *)
(* or to a reconcile that could not read any server.                       *)
(***************************************************************************)
Names(q, r) ==
  \/ q.kind = "delete" /\ q.rec = r
  \/ q.kind = "save" /\ q.old = r

HeldByAll(b) == {r \in Records : \A k \in Keys : r \in RecordsOf(b[k])}

AgreedRecordsStay ==
  [][\A r \in HeldByAll(rules) \ HeldByAll(rules') :
       \E a \in Actors :
         /\ \E k \in Keys : Writing(a, k)
         /\ \/ r \notin HeldByAll(before[a])
            \/ Names(req[a], r)
            \/ req[a].kind = "reconcile" /\ unread[a] = Keys]_vars

(***************************************************************************)
(* The rules as a user who waits for each toast sees them: a request that  *)
(* is under way has not happened yet.  One handler, no auto-sync and no    *)
(* late write: then every request is one step of RuleService.              *)
(***************************************************************************)
Running == {a \in Actors : pc[a] \notin {"idle", "reply"}}
Replying == {a \in Actors : pc[a] = "reply"}

Service == INSTANCE RuleService WITH
  rules <- IF Running = {} THEN rules ELSE before[CHOOSE a \in Running : TRUE],
  toast <- IF Replying = {} THEN "none"
           ELSE outcome[CHOOSE a \in Replying : TRUE]

ImplementsService == Service!Spec

(***************************************************************************)
(* What actionDNSReconcile says of itself (dns.go:170): after a reconcile  *)
(* that reports success, with nobody else writing, every active server has *)
(* the union of all servers' records.                                      *)
(***************************************************************************)
ReconcileMergesAll ==
  \A a \in Actors :
    pc[a] = "reply" /\ outcome[a] = "ok" /\ calm[a]
      /\ req[a].kind = "reconcile" =>
      \A k \in ServerKeys(snap[a]) :
        RecordsOf(rules[k]) = UnionRecords(before[a], ServerKeys(snap[a]))

(***************************************************************************)
(* "Every add, edit, or delete is applied to all servers" (README): when   *)
(* all handlers have just reported that a record was saved, and nothing    *)
(* else is under way, every server has all those records.                  *)
(***************************************************************************)
SavesAreKept ==
  (/\ pc[Worker] = "idle"
   /\ late = {}
   /\ \A h \in Handlers : /\ pc[h] = "reply" /\ outcome[h] = "ok"
                          /\ req[h].kind = "save" /\ req[h].old = NoRecord)
  => \A h \in Handlers : \A k \in ServerKeys(snap[h]) :
       req[h].rec \in RecordsOf(rules[k])

(***************************************************************************)
(* Every request is answered, whatever fails: handlers and the worker do   *)
(* not wait for one another, and the fan-out skips a server that fails.    *)
(***************************************************************************)
EveryRequestAnswered ==
  \A a \in Actors : pc[a] # "idle" ~> pc[a] = "idle"

(***************************************************************************)
(* With auto-sync left on from master to backup and no more requests, the  *)
(* backup ends up with the master's rules for good, through failed, lost   *)
(* and late writes and whatever the servers disagreed on before; unless    *)
(* the master has no rules, which no sync copies.                          *)
(***************************************************************************)
Mirroring ==
  /\ cfg.backup /\ cfg.auto /\ cfg.direction = "master_to_backup"
  /\ \A h \in Handlers : pc[h] = "idle"

EventualMirror ==
  <>[]Mirroring =>
    <>[](rules["master"] = {} \/ rules["backup"] = rules["master"])
=============================================================================
