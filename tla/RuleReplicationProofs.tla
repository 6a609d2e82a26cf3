----------------------- MODULE RuleReplicationProofs -----------------------
(***************************************************************************)
(* Proofs of the safety properties of RuleReplication, for any handlers,   *)
(* requests, configurations, starting rules, faults and number of late     *)
(* writes.                                                                 *)
(***************************************************************************)
EXTENDS RuleReplication, FiniteSetTheorems, TLAPS

Working == {"union", "read", "write", "mark"}

(***************************************************************************)
(* The shape of a request's local variables, which the types need: what is *)
(* written is a rule list only because a rejected request never gets that  *)
(* far, and a sync has a single turn.                                      *)
(***************************************************************************)
RequestOK(a) ==
  /\ pc[a] # "idle" => req[a] \in Request
  /\ req[a].kind = "whitelist" => req[a] \in Requests
  /\ pc[a] \in Working =>
       /\ ~Rejected(req[a], snap[a])
       /\ ~NothingToDo(req[a])

LoopOK(a) ==
  /\ pc[a] \in Working =>
       /\ todo[a] # {}
       /\ todo[a] \subseteq Targets(req[a], snap[a])
       /\ req[a].kind = "sync" =>
            /\ todo[a] = Targets(req[a], snap[a])
            /\ failed[a] = {}
  /\ pc[a] = "union" =>
       /\ req[a].kind = "reconcile"
       /\ todo[a] = Targets(req[a], snap[a])
  /\ pc[a] # "union" => asking[a] = {}
  /\ pc[a] = "mark" => req[a].kind = "sync"
  /\ pc[a] = "write" /\ req[a].kind = "sync" => got[a] # {}
  /\ pc[a] = "reply" => todo[a] = {}
  /\ pc[a] = "reply" /\ outcome[a] = "ok" => failed[a] = {}
  /\ pc[a] \in {"idle", "union"} => failed[a] = {}
  /\ pc[a] = "idle" => unread[a] = {} /\ union[a] = {} /\ calm[a]

SyncsNonEmpty == \A w \in late : w.kind = "sync" => w.rules # {}

Shape ==
  /\ TypeOK
  /\ SyncsNonEmpty
  /\ \A a \in Actors : RequestOK(a) /\ LoopOK(a)

(***************************************************************************)
(* What a request has done so far while it is calm: the servers ahead of   *)
(* it are as they were, those behind it are as it wants them or, where it  *)
(* saw a failure, one or the other; and what it has read is what was       *)
(* there.                                                                  *)
(***************************************************************************)
Seen(a) == ServerKeys(snap[a]) \ unread[a]
Done(a) == IF pc[a] = "mark" THEN Targets(req[a], snap[a])
                             ELSE Targets(req[a], snap[a]) \ todo[a]
Wanted(a) == Effect(req[a], snap[a], Seen(a), before[a])

Landed(a, k) ==
  IF k \notin Done(a) THEN rules[k] = before[a][k]
  ELSE IF k \notin failed[a] THEN rules[k] = Wanted(a)[k]
  ELSE rules[k] \in {before[a][k], Wanted(a)[k]}

OnTrack(a) ==
  pc[a] # "idle" /\ calm[a] =>
    /\ req[a].kind = "reconcile" /\ pc[a] \in Working =>
         /\ asking[a] \subseteq Seen(a)
         /\ union[a] = UnionRecords(before[a], Seen(a) \ asking[a])
    /\ failed[a] \subseteq Done(a)
    /\ \A k \in Keys : Landed(a, k)
    /\ pc[a] = "write" => got[a] = before[a][ReadFrom(req[a], NextKey(a))]

Truthful == \A a \in Actors : OnTrack(a)

(***************************************************************************)
(* Every list at rest, read or under way has other-lines and allow-lines   *)
(* that are whole lists.                                                   *)
(***************************************************************************)
Whole(S) == OthersOf(S) \in GivenOthers /\ AllowsOf(S) \in WholeLists

WholeEverywhere ==
  /\ \A k \in Keys : Whole(rules[k])
  /\ \A w \in late : Whole(w.rules)
  /\ \A a \in Actors : pc[a] = "write" => Whole(got[a])



-----------------------------------------------------------------------------
(* The operators of RuleSets and RuleRequests.                             *)

\* What is written is made of lines, since a rejected record never gets here.
LEMMA PayloadType ==
  ASSUME NEW q \in Request, NEW c \in Config, ~Rejected(q, c),
         NEW S \in SUBSET Line, NEW U \in SUBSET Records
  PROVE  Payload(q, S, U) \in SUBSET Line
<1>1. CASE q.kind = "sync"
  BY <1>1 DEF Payload
<1>2. CASE q.kind = "whitelist"
  <2>1. q.domains \subseteq Allows
    BY <1>2 DEF Request, SaveRequest, DeleteRequest, ReconcileRequest,
                WhitelistRequest, SyncRequest
  <2> QED BY <1>2, <2>1 DEF Payload, MergeWhitelist, OfKind, Line
<1>3. CASE q.kind \notin {"sync", "whitelist"}
  <2>1. RecordsOf(S) \subseteq Records
    BY DEF RecordsOf, OfKind, Line, DnsLine, AllowLine, OtherLine
  <2>2. q.kind = "save" => q.rec \in Records
    BY DEF Rejected, Request, SaveRequest, DeleteRequest, ReconcileRequest,
           WhitelistRequest, SyncRequest
  <2>3. NewRecords(q, RecordsOf(S), U) \subseteq Records
    BY <1>3, <2>1, <2>2 DEF NewRecords
  <2>4. Payload(q, S, U) = RebuildRules(Passthrough(S),
                                        NewRecords(q, RecordsOf(S), U))
    BY <1>3 DEF Payload
  <2> QED BY <2>3, <2>4 DEF RebuildRules, Passthrough, OfKind, Line
<1> QED BY <1>1, <1>2, <1>3

\* No write of the panel touches a line it does not own.
LEMMA PayloadKeepsOthers ==
  ASSUME NEW q, NEW S, NEW U
  PROVE  OthersOf(Payload(q, S, U)) = OthersOf(S)
<1>1. CASE q.kind = "sync"
  BY <1>1 DEF Payload
<1>2. CASE q.kind = "whitelist"
  BY <1>2 DEF Payload, MergeWhitelist, OthersOf, OfKind, AllowLine
<1>3. CASE q.kind \notin {"sync", "whitelist"}
  <2> DEFINE R == NewRecords(q, RecordsOf(S), U)
  <2>1. Payload(q, S, U) = RebuildRules(Passthrough(S), R)
    BY <1>3 DEF Payload
  <2>2. OthersOf(RebuildRules(Passthrough(S), R)) = OthersOf(S)
    BY DEF RebuildRules, Passthrough, OthersOf, OfKind, DnsLine
  <2> QED BY <2>1, <2>2
<1> QED BY <1>1, <1>2, <1>3

\* Only the whitelist editor changes allow lines, and it replaces them all.
LEMMA PayloadAllows ==
  ASSUME NEW q, NEW S, NEW U
  PROVE  AllowsOf(Payload(q, S, U)) =
           IF q.kind = "whitelist" THEN {AllowLine(d) : d \in q.domains}
                                   ELSE AllowsOf(S)
<1>1. CASE q.kind = "sync"
  BY <1>1 DEF Payload
<1>2. CASE q.kind = "whitelist"
  BY <1>2 DEF Payload, MergeWhitelist, AllowsOf, OfKind, AllowLine
<1>3. CASE q.kind \notin {"sync", "whitelist"}
  <2> DEFINE R == NewRecords(q, RecordsOf(S), U)
  <2>1. Payload(q, S, U) = RebuildRules(Passthrough(S), R)
    BY <1>3 DEF Payload
  <2>2. AllowsOf(RebuildRules(Passthrough(S), R)) = AllowsOf(S)
    BY DEF RebuildRules, Passthrough, AllowsOf, OfKind, DnsLine
  <2> QED BY <1>3, <2>1, <2>2
<1> QED BY <1>1, <1>2, <1>3

\* Only a reconcile looks at the union.
LEMMA UnionIrrelevant ==
  ASSUME NEW q \in Request, q.kind # "reconcile", NEW S, NEW U1, NEW U2
  PROVE  Payload(q, S, U1) = Payload(q, S, U2)
<1>1. q.kind \in {"save", "delete", "whitelist", "sync"}
  BY DEF Request, SaveRequest, DeleteRequest, ReconcileRequest,
         WhitelistRequest, SyncRequest
<1> QED BY <1>1 DEF Payload, NewRecords

LEMMA TargetsType ==
  ASSUME NEW q \in Request, NEW c \in Config
  PROVE  /\ Targets(q, c) \in SUBSET Keys
         /\ q.kind = "sync" => \/ Targets(q, c) = {}
                               \/ Targets(q, c) = {Destination(q.direction)}
         /\ ~Rejected(q, c) /\ ~NothingToDo(q) => Targets(q, c) # {}
  BY DEF Targets, ServerKeys, Keys, Destination, Request, SaveRequest,
         DeleteRequest, ReconcileRequest, WhitelistRequest, SyncRequest

LEMMA RecordsType ==
  ASSUME NEW S \in SUBSET Line
  PROVE  RecordsOf(S) \in SUBSET Records
  BY DEF RecordsOf, OfKind, Line, DnsLine, AllowLine, OtherLine

LEMMA UnionType ==
  ASSUME NEW b \in [Keys -> SUBSET Line], NEW K \in SUBSET Keys
  PROVE  UnionRecords(b, K) \in SUBSET Records
<1>1. ASSUME NEW k \in K PROVE RecordsOf(b[k]) \in SUBSET Records
  BY RecordsType
<1> QED BY <1>1 DEF UnionRecords

-----------------------------------------------------------------------------
(* The shape is preserved.                                                 *)

LEMMA NextKeyType ==
  ASSUME TypeOK, NEW a \in Actors
  PROVE  /\ NextKey(a) \in Keys
         /\ todo[a] # {} => NextKey(a) \in todo[a]
  BY DEF TypeOK, Keys, NextKey

\* A sync is done after its only turn.
LEMMA SyncHasOneTurn ==
  ASSUME Shape, NEW a \in Actors, pc[a] \in Working, req[a].kind = "sync"
  PROVE  todo[a] = {NextKey(a)} /\ failed[a] = {}
<1>1. req[a] \in Request /\ snap[a] \in Config
  BY DEF Shape, TypeOK, RequestOK, Working
<1>2. todo[a] # {} /\ todo[a] = Targets(req[a], snap[a]) /\ failed[a] = {}
  BY DEF Shape, LoopOK
<1> QED BY <1>1, <1>2, TargetsType, NextKeyType DEF Shape

LEMMA NewRulesType ==
  ASSUME Shape, NEW a \in Actors, pc[a] = "write"
  PROVE  /\ NewRules(a) \in SUBSET Line
         /\ req[a].kind = "sync" => NewRules(a) # {}
<1>1. /\ req[a] \in Request /\ snap[a] \in Config
      /\ ~Rejected(req[a], snap[a])
      /\ got[a] \in SUBSET Line /\ union[a] \in SUBSET Records
  BY DEF Shape, TypeOK, RequestOK, Working
<1>2. NewRules(a) \in SUBSET Line
  BY <1>1, PayloadType DEF NewRules
<1>3. req[a].kind = "sync" => NewRules(a) = got[a]
  BY DEF NewRules, Payload
<1> QED BY <1>2, <1>3 DEF Shape, LoopOK

\* One turn of the loop, whatever else the action does to the servers.
LEMMA ProceedShape ==
  ASSUME Shape, NEW a \in Actors, pc[a] \in {"read", "write"},
         NEW F \in SUBSET Keys, req[a].kind = "sync" => F # {},
         Proceed(a, F), UNCHANGED <<request, merge>>,
         \A b \in Actors : pc[b] = "idle" => calm'[b] = calm[b]
  PROVE  /\ pc' \in [Actors -> {"idle", "union", "read", "write", "mark",
                                "reply"}]
         /\ todo' \in [Actors -> SUBSET Keys]
         /\ got' \in [Actors -> SUBSET Line]
         /\ failed' \in [Actors -> SUBSET Keys]
         /\ outcome' \in [Actors -> {"none", "ok", "partial", "err"}]
         /\ \A b \in Actors : RequestOK(b)' /\ LoopOK(b)'
<1> DEFINE left == todo[a] \ {NextKey(a)}
<1>1. /\ pc' = [pc EXCEPT ![a] = IF left = {} THEN "reply" ELSE "read"]
      /\ todo' = [todo EXCEPT ![a] = left]
      /\ got' = [got EXCEPT ![a] = {}]
      /\ failed' = [failed EXCEPT ![a] = F]
      /\ outcome' = [outcome EXCEPT ![a] =
            IF left = {} THEN Result(F, Targets(req[a], snap[a])) ELSE "none"]
      /\ req' = req /\ snap' = snap
      /\ asking' = asking /\ unread' = unread /\ union' = union
  BY DEF Proceed, request, merge
<1>2. /\ Result(F, Targets(req[a], snap[a])) \in {"ok", "partial", "err"}
      /\ Result(F, Targets(req[a], snap[a])) = "ok" => F = {}
  BY DEF Result
<1>3. req[a].kind = "sync" => left = {}
  BY SyncHasOneTurn DEF Working
<1> HIDE DEF left
<1>4. left \in SUBSET Keys
  BY DEF left, Shape, TypeOK
<1>5. ASSUME NEW b \in Actors PROVE RequestOK(b)' /\ LoopOK(b)'
  <2>1. RequestOK(b) /\ LoopOK(b)
    BY DEF Shape
  <2>2. CASE b # a
    BY <1>1, <2>1, <2>2 DEF RequestOK, LoopOK, Shape, TypeOK
  <2>3. CASE b = a
    <3>1. RequestOK(a)'
      BY <1>1, <2>1, <2>3 DEF RequestOK, Working, Shape, TypeOK
    <3>2. LoopOK(a)'
      <4>1. left \subseteq Targets(req[a], snap[a])
        BY <2>1, <2>3 DEF left, LoopOK, Working
      <4> QED BY <1>1, <1>2, <1>3, <2>1, <2>3, <4>1
              DEF LoopOK, Working, Shape, TypeOK
    <3> QED BY <2>3, <3>1, <3>2
  <2> QED BY <2>2, <2>3
<1>6. /\ pc' \in [Actors -> {"idle", "union", "read", "write", "mark", "reply"}]
      /\ todo' \in [Actors -> SUBSET Keys]
      /\ got' \in [Actors -> SUBSET Line]
      /\ failed' \in [Actors -> SUBSET Keys]
      /\ outcome' \in [Actors -> {"none", "ok", "partial", "err"}]
  BY <1>1, <1>2, <1>4 DEF Shape, TypeOK
<1> QED BY <1>5, <1>6

LEMMA FailShape ==
  ASSUME Shape, NEW a \in Actors, pc[a] \in {"read", "write"},
         Fail(a), UNCHANGED <<request, merge>>,
         \A b \in Actors : pc[b] = "idle" => calm'[b] = calm[b]
  PROVE  /\ pc' \in [Actors -> {"idle", "union", "read", "write", "mark",
                                "reply"}]
         /\ todo' \in [Actors -> SUBSET Keys]
         /\ got' \in [Actors -> SUBSET Line]
         /\ failed' \in [Actors -> SUBSET Keys]
         /\ outcome' \in [Actors -> {"none", "ok", "partial", "err"}]
         /\ \A b \in Actors : RequestOK(b)' /\ LoopOK(b)'
<1> DEFINE F == failed[a] \cup {NextKey(a)}
<1>1. F \in SUBSET Keys /\ F # {}
  BY NextKeyType DEF Shape, TypeOK
<1>2. Proceed(a, F)
  BY DEF Fail
<1> HIDE DEF F
<1> QED BY <1>1, <1>2, ProceedShape

LEMMA DisturbShape ==
  ASSUME TypeOK, NEW A, Disturb(A)
  PROVE  /\ calm' \in [Actors -> BOOLEAN]
         /\ before' \in [Actors -> [Keys -> SUBSET Line]]
         /\ \A b \in Actors : pc[b] = "idle" => calm'[b] = calm[b]
  BY DEF TypeOK, Disturb, NoRules

LEMMA InitShape == Init => Shape
<1> SUFFICES ASSUME Init PROVE Shape
  OBVIOUS
<1>1. TypeOK
  BY RulesAssumption, ConfigsAssumption
  DEF Init, TypeOK, Markers, NoRules, NoConfig, Config, Directions
<1>2. SyncsNonEmpty
  BY DEF Init, SyncsNonEmpty
<1>3. ASSUME NEW a \in Actors PROVE RequestOK(a) /\ LoopOK(a)
  BY DEF Init, RequestOK, LoopOK, Working, NoRequest
<1> QED BY <1>1, <1>2, <1>3 DEF Shape

LEMMA BeginShape ==
  ASSUME Shape, NEW a \in Actors, NEW q \in Request,
         q.kind = "whitelist" => q \in Requests, Begin(a, q)
  PROVE  Shape'
<1> DEFINE answer == IF Rejected(q, cfg) THEN "err"
                     ELSE IF NothingToDo(q) THEN "ok" ELSE "none"
           first  == IF q.kind = "reconcile" THEN "union" ELSE "read"
           T      == Targets(q, cfg)
<1>1. /\ pc[a] = "idle"
      /\ pc' = [pc EXCEPT ![a] = IF answer = "none" THEN first ELSE "reply"]
      /\ req' = [req EXCEPT ![a] = q]
      /\ snap' = [snap EXCEPT ![a] = cfg]
      /\ asking' = [asking EXCEPT ![a] = IF q.kind = "reconcile" THEN T ELSE {}]
      /\ todo' = [todo EXCEPT ![a] = T]
      /\ outcome' = [outcome EXCEPT ![a] = answer]
      /\ before' = [before EXCEPT ![a] = rules]
      /\ UNCHANGED <<rules, late, cfg, lastSync, unread, union, got, failed, calm>>
  BY DEF Begin, shared
<1>2. cfg \in Config
  BY ConfigsAssumption DEF Shape, TypeOK
<1>3. /\ T \in SUBSET Keys
      /\ q.kind = "sync" => T = {} \/ T = {Destination(q.direction)}
      /\ answer = "none" => T # {}
      /\ answer # "none" => T = {}
  <2>1. answer # "none" => T = {}
    BY DEF Targets
  <2> QED BY <1>2, <2>1, TargetsType
<1>4. /\ answer \in {"none", "ok", "err"}
      /\ answer = "none" <=> ~Rejected(q, cfg) /\ ~NothingToDo(q)
  OBVIOUS
<1> HIDE DEF answer, T
<1>5. TypeOK'
  BY <1>1, <1>2, <1>3, <1>4 DEF Shape, TypeOK
<1>6. SyncsNonEmpty'
  BY <1>1 DEF Shape, SyncsNonEmpty
<1>7. ASSUME NEW b \in Actors PROVE RequestOK(b)' /\ LoopOK(b)'
  <2>1. RequestOK(b) /\ LoopOK(b)
    BY DEF Shape
  <2>2. CASE b # a
    BY <1>1, <2>1, <2>2 DEF RequestOK, LoopOK, Shape, TypeOK
  <2>3. CASE b = a
    <3>1. RequestOK(a)'
      BY <1>1, <1>4 DEF RequestOK, Working, Shape, TypeOK
    <3>2. Targets(req[a], snap[a])' = T
      BY <1>1 DEF T, Shape, TypeOK
    <3>3. LoopOK(a)'
      BY <1>1, <1>3, <1>4, <2>1, <2>3, <3>2 DEF LoopOK, Working, Shape, TypeOK
    <3> QED BY <2>3, <3>1, <3>3
  <2> QED BY <2>2, <2>3
<1> QED BY <1>5, <1>6, <1>7 DEF Shape

\* The worker's request is one of the kinds the other lemmas speak about.
LEMMA AutoRequest ==
  ASSUME TypeOK
  PROVE  [kind |-> "sync", direction |-> cfg.direction, auto |-> TRUE]
           \in Request
  BY ConfigsAssumption DEF TypeOK, Config, Request, SyncRequest

LEMMA UnionShape ==
  ASSUME Shape, NEW a \in Actors, NEW k \in Keys, Answered(a, k),
         union' \in [Actors -> SUBSET Records],
         unread' \in [Actors -> SUBSET Keys],
         \A b \in Actors : b # a => union'[b] = union[b] /\ unread'[b] = unread[b]
  PROVE  Shape'
<1>1. /\ pc[a] = "union" /\ k \in asking[a]
      /\ asking' = [asking EXCEPT ![a] = @ \ {k}]
      /\ pc' = [pc EXCEPT ![a] = IF asking[a] = {k} THEN "read" ELSE "union"]
      /\ UNCHANGED <<rules, late, cfg, lastSync, req, snap, todo, got, failed,
                     outcome, before, calm>>
  BY DEF Answered, shared, request, history
<1>2. TypeOK'
  BY <1>1 DEF Shape, TypeOK
<1>3. SyncsNonEmpty'
  BY <1>1 DEF Shape, SyncsNonEmpty
<1>4. ASSUME NEW b \in Actors PROVE RequestOK(b)' /\ LoopOK(b)'
  <2>1. RequestOK(b) /\ LoopOK(b)
    BY DEF Shape
  <2>2. RequestOK(b)'
    BY <1>1, <2>1 DEF RequestOK, Working, Shape, TypeOK
  <2>3. LoopOK(b)'
    BY <1>1, <2>1 DEF LoopOK, Working, Shape, TypeOK
  <2> QED BY <2>2, <2>3
<1> QED BY <1>2, <1>3, <1>4 DEF Shape

LEMMA UnionReadShape ==
  ASSUME Shape, NEW a \in Actors, NEW k \in Keys, UnionRead(a, k)
  PROVE  Shape'
<1>1. RecordsOf(rules[k]) \in SUBSET Records
  <2>1. rules[k] \in SUBSET Line
    BY DEF Shape, TypeOK
  <2> QED BY <2>1, RecordsType
<1>2. /\ Answered(a, k) /\ unread' = unread
      /\ union' = [union EXCEPT ![a] = @ \cup RecordsOf(rules[k])]
  BY DEF UnionRead
<1>3. /\ union' \in [Actors -> SUBSET Records]
      /\ \A b \in Actors : b # a => union'[b] = union[b]
  BY <1>1, <1>2 DEF Shape, TypeOK
<1>4. unread' \in [Actors -> SUBSET Keys]
  BY <1>2 DEF Shape, TypeOK
<1> QED BY <1>2, <1>3, <1>4, UnionShape

LEMMA UnionMissShape ==
  ASSUME Shape, NEW a \in Actors, NEW k \in Keys, UnionMiss(a, k)
  PROVE  Shape'
<1>1. /\ Answered(a, k) /\ union' = union
      /\ unread' = [unread EXCEPT ![a] = @ \cup {k}]
  BY DEF UnionMiss
<1>2. /\ unread' \in [Actors -> SUBSET Keys]
      /\ \A b \in Actors : b # a => unread'[b] = unread[b]
  BY <1>1 DEF Shape, TypeOK
<1>3. union' \in [Actors -> SUBSET Records]
  BY <1>1 DEF Shape, TypeOK
<1> QED BY <1>1, <1>2, <1>3, UnionShape

\* A read or a write of which nothing comes.
LEMMA FruitlessShape ==
  ASSUME Shape, NEW a \in Actors, pc[a] \in {"read", "write"}, Fail(a),
         UNCHANGED <<shared, request, merge, history>>
  PROVE  Shape'
<1>1. UNCHANGED <<rules, late, cfg, lastSync, req, snap, asking, unread, union,
                  before, calm>>
  BY DEF shared, request, merge, history
<1>2. /\ pc' \in [Actors -> {"idle", "union", "read", "write", "mark", "reply"}]
      /\ todo' \in [Actors -> SUBSET Keys]
      /\ got' \in [Actors -> SUBSET Line]
      /\ failed' \in [Actors -> SUBSET Keys]
      /\ outcome' \in [Actors -> {"none", "ok", "partial", "err"}]
      /\ \A b \in Actors : RequestOK(b)' /\ LoopOK(b)'
  <2>1. UNCHANGED <<request, merge>>
    BY <1>1 DEF request, merge
  <2> QED BY <1>1, <2>1, FailShape
<1>3. TypeOK'
  BY <1>1, <1>2 DEF Shape, TypeOK
<1>4. SyncsNonEmpty'
  BY <1>1 DEF Shape, SyncsNonEmpty
<1> QED BY <1>2, <1>3, <1>4 DEF Shape

LEMMA ReadShape ==
  ASSUME Shape, NEW a \in Actors, Read(a)
  PROVE  Shape'
<1> DEFINE read == rules[ReadFrom(req[a], NextKey(a))]
<1>1. pc[a] = "read" /\ UNCHANGED <<shared, request, merge, history>>
  BY DEF Read
<1>2. CASE req[a].kind = "sync" /\ read = {}
  BY <1>1, <1>2, FruitlessShape DEF Read
<1>3. CASE ~(req[a].kind = "sync" /\ read = {})
  <2>1. /\ pc' = [pc EXCEPT ![a] = "write"]
        /\ got' = [got EXCEPT ![a] = read]
        /\ UNCHANGED <<rules, late, cfg, lastSync, req, snap, asking, unread,
                       union, todo, failed, outcome, before, calm>>
    BY <1>3 DEF Read, shared, request, merge, history
  <2>2. read \in SUBSET Line
    <3>1. ReadFrom(req[a], NextKey(a)) \in Keys
      BY NextKeyType DEF ReadFrom, Source, Keys, Shape
    <3> QED BY <3>1 DEF Shape, TypeOK
  <2> HIDE DEF read
  <2>3. TypeOK'
    BY <2>1, <2>2 DEF Shape, TypeOK
  <2>4. SyncsNonEmpty'
    BY <2>1 DEF Shape, SyncsNonEmpty
  <2>5. ASSUME NEW b \in Actors PROVE RequestOK(b)' /\ LoopOK(b)'
    <3>1. RequestOK(b) /\ LoopOK(b)
      BY DEF Shape
    <3>2. RequestOK(b)'
      BY <1>1, <2>1, <3>1 DEF RequestOK, Working, Shape, TypeOK
    <3>3. LoopOK(b)'
      BY <1>1, <1>3, <2>1, <3>1 DEF LoopOK, Working, Shape, TypeOK
    <3> QED BY <3>2, <3>3
  <2> QED BY <2>3, <2>4, <2>5 DEF Shape
<1> QED BY <1>2, <1>3

\* What the writes that take effect have in common.
LEMMA LandShape ==
  ASSUME Shape, NEW a \in Actors, pc[a] = "write", Land(a)
  PROVE  /\ rules' \in [Keys -> SUBSET Line]
         /\ calm' \in [Actors -> BOOLEAN]
         /\ before' \in [Actors -> [Keys -> SUBSET Line]]
         /\ \A b \in Actors : pc[b] = "idle" => calm'[b] = calm[b]
<1>1. /\ rules' = [rules EXCEPT ![NextKey(a)] = NewRules(a)]
      /\ Disturb(Actors \ {a})
  BY DEF Land
<1>2. NewRules(a) \in SUBSET Line
  BY NewRulesType
<1>3. rules' \in [Keys -> SUBSET Line]
  BY <1>1, <1>2 DEF Shape, TypeOK
<1> QED BY <1>1, <1>3, DisturbShape DEF Shape

LEMMA WriteShape ==
  ASSUME Shape, NEW a \in Actors, Write(a)
  PROVE  Shape'
<1>1. /\ pc[a] = "write" /\ Land(a)
      /\ UNCHANGED <<request, merge>>
      /\ UNCHANGED <<late, cfg, lastSync, req, snap, asking, unread, union>>
  BY DEF Write, request, merge
<1>2. /\ rules' \in [Keys -> SUBSET Line]
      /\ calm' \in [Actors -> BOOLEAN]
      /\ before' \in [Actors -> [Keys -> SUBSET Line]]
      /\ \A b \in Actors : pc[b] = "idle" => calm'[b] = calm[b]
  BY <1>1, LandShape
<1>3. SyncsNonEmpty'
  BY <1>1 DEF Shape, SyncsNonEmpty
<1>4. CASE req[a].kind = "sync"
  <2>1. /\ pc' = [pc EXCEPT ![a] = "mark"]
        /\ UNCHANGED <<todo, got, failed, outcome>>
    BY <1>4 DEF Write
  <2>2. TypeOK'
    BY <1>1, <1>2, <2>1 DEF Shape, TypeOK
  <2>3. ASSUME NEW b \in Actors PROVE RequestOK(b)' /\ LoopOK(b)'
    <3>1. RequestOK(b) /\ LoopOK(b)
      BY DEF Shape
    <3>2. RequestOK(b)'
      BY <1>1, <2>1, <3>1 DEF RequestOK, Working, Shape, TypeOK
    <3>3. LoopOK(b)'
      BY <1>1, <1>2, <1>4, <2>1, <3>1 DEF LoopOK, Working, Shape, TypeOK
    <3> QED BY <3>2, <3>3
  <2> QED BY <1>3, <2>2, <2>3 DEF Shape
<1>5. CASE req[a].kind # "sync"
  <2>1. Proceed(a, failed[a])
    BY <1>5 DEF Write, Succeed
  <2>2. failed[a] \in SUBSET Keys
    BY DEF Shape, TypeOK
  <2>3. /\ pc' \in [Actors -> {"idle", "union", "read", "write", "mark", "reply"}]
        /\ todo' \in [Actors -> SUBSET Keys]
        /\ got' \in [Actors -> SUBSET Line]
        /\ failed' \in [Actors -> SUBSET Keys]
        /\ outcome' \in [Actors -> {"none", "ok", "partial", "err"}]
        /\ \A b \in Actors : RequestOK(b)' /\ LoopOK(b)'
    BY <1>1, <1>2, <1>5, <2>1, <2>2, ProceedShape
  <2>4. TypeOK'
    BY <1>1, <1>2, <2>3 DEF Shape, TypeOK
  <2> QED BY <1>3, <2>3, <2>4 DEF Shape
<1> QED BY <1>4, <1>5

LEMMA WriteUnansweredShape ==
  ASSUME Shape, NEW a \in Actors, WriteUnanswered(a)
  PROVE  Shape'
<1>1. /\ pc[a] = "write" /\ Land(a) /\ Fail(a)
      /\ UNCHANGED <<request, merge>>
      /\ UNCHANGED <<late, cfg, lastSync, req, snap, asking, unread, union>>
  BY DEF WriteUnanswered, request, merge
<1>2. /\ rules' \in [Keys -> SUBSET Line]
      /\ calm' \in [Actors -> BOOLEAN]
      /\ before' \in [Actors -> [Keys -> SUBSET Line]]
      /\ \A b \in Actors : pc[b] = "idle" => calm'[b] = calm[b]
  BY <1>1, LandShape
<1>3. /\ pc' \in [Actors -> {"idle", "union", "read", "write", "mark", "reply"}]
      /\ todo' \in [Actors -> SUBSET Keys]
      /\ got' \in [Actors -> SUBSET Line]
      /\ failed' \in [Actors -> SUBSET Keys]
      /\ outcome' \in [Actors -> {"none", "ok", "partial", "err"}]
      /\ \A b \in Actors : RequestOK(b)' /\ LoopOK(b)'
  BY <1>1, <1>2, FailShape
<1>4. SyncsNonEmpty'
  BY <1>1 DEF Shape, SyncsNonEmpty
<1>5. TypeOK'
  BY <1>1, <1>2, <1>3 DEF Shape, TypeOK
<1> QED BY <1>3, <1>4, <1>5 DEF Shape

LEMMA WriteTimesOutShape ==
  ASSUME Shape, NEW a \in Actors, WriteTimesOut(a)
  PROVE  Shape'
<1> DEFINE w == [key |-> NextKey(a), kind |-> req[a].kind, rules |-> NewRules(a)]
<1>1. /\ pc[a] = "write" /\ Fail(a) /\ late' = late \cup {w}
      /\ UNCHANGED <<request, merge>>
      /\ UNCHANGED <<rules, cfg, lastSync, req, snap, asking, unread, union,
                     before, calm>>
  BY DEF WriteTimesOut, request, merge, history
<1>2. w \in LateWrites /\ (w.kind = "sync" => w.rules # {})
  <2>1. req[a] \in Request
    BY <1>1 DEF Shape, RequestOK
  <2> QED BY <1>1, <2>1, NextKeyType, NewRulesType DEF LateWrites, Shape
<1> HIDE DEF w
<1>3. /\ pc' \in [Actors -> {"idle", "union", "read", "write", "mark", "reply"}]
      /\ todo' \in [Actors -> SUBSET Keys]
      /\ got' \in [Actors -> SUBSET Line]
      /\ failed' \in [Actors -> SUBSET Keys]
      /\ outcome' \in [Actors -> {"none", "ok", "partial", "err"}]
      /\ \A b \in Actors : RequestOK(b)' /\ LoopOK(b)'
  BY <1>1, FailShape
<1>4. SyncsNonEmpty'
  BY <1>1, <1>2 DEF Shape, SyncsNonEmpty
<1>5. late' \subseteq LateWrites
  BY <1>1, <1>2 DEF Shape, TypeOK
<1>6. TypeOK'
  BY <1>1, <1>3, <1>5 DEF Shape, TypeOK
<1> QED BY <1>3, <1>4, <1>6 DEF Shape

LEMMA LateWriteShape ==
  ASSUME Shape, NEW w \in late, LateWrite(w)
  PROVE  Shape'
<1>1. /\ late' = late \ {w} /\ rules' = [rules EXCEPT ![w.key] = w.rules]
      /\ Disturb(Actors)
      /\ UNCHANGED <<cfg, lastSync, req, snap, asking, unread, union,
                     pc, todo, got, failed, outcome>>
  BY DEF LateWrite, request, merge, loop
<1>2. w \in LateWrites
  BY DEF Shape, TypeOK
<1>3. /\ calm' \in [Actors -> BOOLEAN]
      /\ before' \in [Actors -> [Keys -> SUBSET Line]]
      /\ \A b \in Actors : pc[b] = "idle" => calm'[b] = calm[b]
  BY <1>1, DisturbShape DEF Shape
<1>4. TypeOK'
  BY <1>1, <1>2, <1>3 DEF Shape, TypeOK, LateWrites
<1>5. SyncsNonEmpty'
  BY <1>1 DEF Shape, SyncsNonEmpty
<1>6. ASSUME NEW b \in Actors PROVE RequestOK(b)' /\ LoopOK(b)'
  BY <1>1, <1>3 DEF Shape, RequestOK, LoopOK
<1> QED BY <1>4, <1>5, <1>6 DEF Shape

LEMMA MarkShape ==
  ASSUME Shape, NEW a \in Actors, Mark(a)
  PROVE  Shape'
<1>1. /\ pc[a] = "mark" /\ lastSync' = Marker(req[a])
      /\ pc' = [pc EXCEPT ![a] = "reply"]
      /\ todo' = [todo EXCEPT ![a] = {}]
      /\ got' = [got EXCEPT ![a] = {}]
      /\ UNCHANGED <<rules, late, cfg, req, snap, asking, unread, union, failed,
                     before, calm>>
  BY DEF Mark, request, merge, history
<1>2. PICK answer \in {"ok", "err"} : outcome' = [outcome EXCEPT ![a] = answer]
  BY DEF Mark
<1>3. Marker(req[a]) \in Markers
  <2>1. /\ req[a] \in Request /\ req[a].kind = "sync"
        /\ ~Rejected(req[a], snap[a])
    BY <1>1 DEF Shape, RequestOK, LoopOK, Working
  <2>2. req[a] \in SyncRequest /\ req[a].direction # "invalid"
    BY <2>1 DEF Rejected, Request, SaveRequest, DeleteRequest,
                ReconcileRequest, WhitelistRequest, SyncRequest
  <2> QED BY <2>2 DEF Marker, Markers, SyncRequest
<1>4. failed[a] = {}
  BY <1>1, SyncHasOneTurn DEF Shape, LoopOK, Working
<1>5. TypeOK'
  BY <1>1, <1>2, <1>3 DEF Shape, TypeOK
<1>6. SyncsNonEmpty'
  BY <1>1 DEF Shape, SyncsNonEmpty
<1>7. ASSUME NEW b \in Actors PROVE RequestOK(b)' /\ LoopOK(b)'
  <2>1. RequestOK(b) /\ LoopOK(b)
    BY DEF Shape
  <2>2. RequestOK(b)'
    BY <1>1, <2>1 DEF RequestOK, Working, Shape, TypeOK
  <2>3. LoopOK(b)'
    BY <1>1, <1>2, <1>4, <2>1 DEF LoopOK, Working, Shape, TypeOK
  <2> QED BY <2>2, <2>3
<1> QED BY <1>5, <1>6, <1>7 DEF Shape

LEMMA ReplyShape ==
  ASSUME Shape, NEW a \in Actors, Reply(a)
  PROVE  Shape'
<1>1. /\ pc[a] = "reply"
      /\ pc' = [pc EXCEPT ![a] = "idle"]
      /\ req' = [req EXCEPT ![a] = NoRequest]
      /\ snap' = [snap EXCEPT ![a] = NoConfig]
      /\ unread' = [unread EXCEPT ![a] = {}]
      /\ union' = [union EXCEPT ![a] = {}]
      /\ failed' = [failed EXCEPT ![a] = {}]
      /\ outcome' = [outcome EXCEPT ![a] = "none"]
      /\ before' = [before EXCEPT ![a] = NoRules]
      /\ calm' = [calm EXCEPT ![a] = TRUE]
      /\ UNCHANGED <<rules, late, cfg, lastSync, asking, todo, got>>
  BY DEF Reply, shared
<1>2. NoConfig \in Config /\ NoRules \in [Keys -> SUBSET Line]
  BY DEF NoConfig, Config, Directions, NoRules
<1>3. TypeOK'
  BY <1>1, <1>2 DEF Shape, TypeOK
<1>4. SyncsNonEmpty'
  BY <1>1 DEF Shape, SyncsNonEmpty
<1>5. ASSUME NEW b \in Actors PROVE RequestOK(b)' /\ LoopOK(b)'
  <2>1. RequestOK(b) /\ LoopOK(b)
    BY DEF Shape
  <2>2. RequestOK(b)'
    BY <1>1, <2>1 DEF RequestOK, Working, NoRequest, Shape, TypeOK
  <2>3. LoopOK(b)'
    BY <1>1, <2>1 DEF LoopOK, Working, NoRequest, Shape, TypeOK
  <2> QED BY <2>2, <2>3
<1> QED BY <1>3, <1>4, <1>5 DEF Shape

LEMMA UnchangedShape ==
  ASSUME Shape, UNCHANGED <<rules, late, lastSync, request, merge, loop, history>>,
         cfg' \in Configs
  PROVE  Shape'
<1>1. UNCHANGED <<rules, late, lastSync, pc, req, snap, asking, unread, union,
                  todo, got, failed, outcome, before, calm>>
  BY DEF request, merge, loop, history
<1> QED BY <1>1 DEF Shape, TypeOK, SyncsNonEmpty, RequestOK, LoopOK

\* One case per action of the module.
LEMMA ShapeStep ==
  ASSUME Shape, [Next]_vars
  PROVE  Shape'
<1>1. ASSUME NEW h \in Handlers, NEW q \in Requests, StartRequest(h, q)
      PROVE  Shape'
  <2>1. h \in Actors /\ q \in Request /\ Begin(h, q)
    BY <1>1, RequestsAssumption DEF Actors, StartRequest
  <2> QED BY <2>1, BeginShape
<1>2. CASE AutoSync
  <2> DEFINE q == [kind |-> "sync", direction |-> cfg.direction, auto |-> TRUE]
  <2>1. q \in Request /\ q.kind = "sync"
    BY AutoRequest DEF Shape
  <2>2. Worker \in Actors /\ Begin(Worker, q)
    BY <1>2 DEF Actors, AutoSync
  <2> HIDE DEF q
  <2> QED BY <2>1, <2>2, BeginShape
<1>3. ASSUME NEW a \in Actors, Step(a) PROVE Shape'
  <2>1. ASSUME NEW k \in Keys, UnionRead(a, k) PROVE Shape'
    BY <2>1, UnionReadShape
  <2>2. ASSUME NEW k \in Keys, UnionMiss(a, k) PROVE Shape'
    BY <2>2, UnionMissShape
  <2>3. CASE Read(a)
    BY <2>3, ReadShape
  <2>4. CASE ReadFails(a)
    BY <2>4, FruitlessShape DEF ReadFails
  <2>5. CASE Write(a)
    BY <2>5, WriteShape
  <2>6. CASE WriteUnanswered(a)
    BY <2>6, WriteUnansweredShape
  <2>7. CASE WriteLost(a)
    BY <2>7, FruitlessShape DEF WriteLost
  <2>8. CASE WriteTimesOut(a)
    BY <2>8, WriteTimesOutShape
  <2>9. CASE Mark(a)
    BY <2>9, MarkShape
  <2>10. CASE Reply(a)
    BY <2>10, ReplyShape
  <2> QED BY <1>3, <2>1, <2>2, <2>3, <2>4, <2>5, <2>6, <2>7, <2>8, <2>9, <2>10
          DEF Step
<1>4. ASSUME NEW w \in late, LateWrite(w) PROVE Shape'
  BY <1>4, LateWriteShape
<1>5. ASSUME NEW c \in Configs, SaveConfig(c) PROVE Shape'
  <2>1. /\ cfg' \in Configs
        /\ UNCHANGED <<rules, late, lastSync, request, merge, loop, history>>
    BY <1>5 DEF SaveConfig
  <2> QED BY <2>1, UnchangedShape
<1>6. CASE UNCHANGED vars
  <2>1. /\ cfg' \in Configs
        /\ UNCHANGED <<rules, late, lastSync, request, merge, loop, history>>
    BY <1>6 DEF vars, request, merge, loop, history, Shape, TypeOK
  <2> QED BY <2>1, UnchangedShape
<1> QED BY <1>1, <1>2, <1>3, <1>4, <1>5, <1>6 DEF Next

LEMMA ShapeInvariant == Spec => []Shape
<1>1. Init => Shape
  BY InitShape
<1>2. Shape /\ [Next]_vars => Shape'
  BY ShapeStep
<1> QED BY <1>1, <1>2, PTL DEF Spec

(***************************************************************************)
(* The variables of the model always have their types; in particular what  *)
(* the panel writes to a server is always a list of well-formed lines.     *)
(***************************************************************************)
THEOREM TypeCorrect == Spec => []TypeOK
<1>1. Shape => TypeOK
  BY DEF Shape
<1> QED BY <1>1, ShapeInvariant, PTL

-----------------------------------------------------------------------------
(* Which steps change the rules, and to what.                              *)

LEMMA RulesChange ==
  ASSUME Shape, [Next]_vars
  PROVE  \/ rules' = rules
         \/ \E a \in Actors : /\ pc[a] = "write" /\ pc'[a] # "write"
                              /\ rules' = [rules EXCEPT ![NextKey(a)] = NewRules(a)]
         \/ \E w \in late : /\ w \notin late'
                            /\ rules' = [rules EXCEPT ![w.key] = w.rules]
<1>1. ASSUME NEW h \in Handlers, NEW q \in Requests, StartRequest(h, q)
      PROVE  rules' = rules
  BY <1>1 DEF StartRequest, Begin, shared
<1>2. CASE AutoSync
  BY <1>2 DEF AutoSync, Begin, shared
<1>3. ASSUME NEW a \in Actors, Step(a)
      PROVE  \/ rules' = rules
             \/ /\ pc[a] = "write" /\ pc'[a] # "write"
                /\ rules' = [rules EXCEPT ![NextKey(a)] = NewRules(a)]
  <2>1. ASSUME NEW F, Proceed(a, F) PROVE pc'[a] # "write"
    BY <2>1 DEF Proceed, Shape, TypeOK
  <2>2. ASSUME NEW k \in Keys, UnionRead(a, k) \/ UnionMiss(a, k)
        PROVE  rules' = rules
    BY <2>2 DEF UnionRead, UnionMiss, Answered, shared
  <2>3. CASE Read(a) \/ ReadFails(a) \/ WriteLost(a)
    BY <2>3 DEF Read, ReadFails, WriteLost, shared
  <2>4. CASE WriteTimesOut(a) \/ Mark(a) \/ Reply(a)
    BY <2>4 DEF WriteTimesOut, Mark, Reply, shared
  <2>5. CASE Write(a)
    <3>1. pc'[a] # "write"
      BY <2>1, <2>5 DEF Write, Succeed, Shape, TypeOK
    <3> QED BY <2>5, <3>1 DEF Write, Land
  <2>6. CASE WriteUnanswered(a)
    BY <2>1, <2>6 DEF WriteUnanswered, Land, Fail
  <2> QED BY <1>3, <2>2, <2>3, <2>4, <2>5, <2>6 DEF Step
<1>4. ASSUME NEW w \in late, LateWrite(w)
      PROVE  w \notin late' /\ rules' = [rules EXCEPT ![w.key] = w.rules]
  BY <1>4 DEF LateWrite
<1>5. ASSUME NEW c \in Configs, SaveConfig(c) PROVE rules' = rules
  BY <1>5 DEF SaveConfig
<1>6. CASE UNCHANGED vars
  BY <1>6 DEF vars
<1> QED BY <1>1, <1>2, <1>3, <1>4, <1>5, <1>6 DEF Next

(***************************************************************************)
(* A sync never empties a server that has rules, whatever happens to its   *)
(* source between the read and the write: a sync has read a list that was  *)
(* not empty, and writes that list.  (The refusal in runSync.)             *)
(***************************************************************************)
THEOREM SyncNeverEmptiesAServer == Spec => SyncNeverEmpties
<1> DEFINE Blamed(k) ==
      \/ \E a \in Actors : Writing(a, k) /\ req[a].kind # "sync"
      \/ \E w \in late \ late' : w.key = k /\ w.kind # "sync"
<1>1. ASSUME Shape, [Next]_vars, NEW k \in Keys, rules[k] # {}, rules'[k] = {}
      PROVE  Blamed(k)
  <2>1. rules \in [Keys -> SUBSET Line]
    BY <1>1 DEF Shape, TypeOK
  <2>2. rules' # rules
    BY <1>1
  <2>3. ASSUME NEW a \in Actors, pc[a] = "write", pc'[a] # "write",
               rules' = [rules EXCEPT ![NextKey(a)] = NewRules(a)]
        PROVE  Blamed(k)
    <3>1. NextKey(a) = k /\ NewRules(a) = {}
      BY <1>1, <2>1, <2>3
    <3>2. req[a].kind # "sync"
      BY <1>1, <2>3, <3>1, NewRulesType
    <3> QED BY <2>3, <3>1, <3>2 DEF Writing
  <2>4. ASSUME NEW w \in late, w \notin late',
               rules' = [rules EXCEPT ![w.key] = w.rules]
        PROVE  Blamed(k)
    <3>1. w.key = k /\ w.rules = {}
      BY <1>1, <2>1, <2>4
    <3>2. w.kind # "sync"
      BY <1>1, <3>1 DEF Shape, SyncsNonEmpty
    <3> QED BY <2>4, <3>1, <3>2
  <2> HIDE DEF Blamed
  <2> QED BY <1>1, <2>2, <2>3, <2>4, RulesChange
<1>2. Shape /\ [Next]_vars =>
        [\A k \in Keys : rules[k] # {} /\ rules'[k] = {} => Blamed(k)]_vars
  BY <1>1
<1> QED BY <1>2, ShapeInvariant, PTL DEF Spec, SyncNeverEmpties

-----------------------------------------------------------------------------
(* Whole lists.                                                            *)

LEMMA NewRulesWhole ==
  ASSUME Shape, WholeEverywhere, NEW a \in Actors, pc[a] = "write"
  PROVE  Whole(NewRules(a))
<1>1. Whole(got[a])
  BY DEF WholeEverywhere
<1>2. OthersOf(NewRules(a)) = OthersOf(got[a])
  BY PayloadKeepsOthers DEF NewRules
<1>3. AllowsOf(NewRules(a)) \in WholeLists
  <2>1. CASE req[a].kind = "whitelist"
    <3>1. req[a] \in Requests
      BY <2>1 DEF Shape, RequestOK
    <3>2. AllowsOf(NewRules(a)) = {AllowLine(d) : d \in req[a].domains}
      BY <2>1, PayloadAllows DEF NewRules
    <3> QED BY <2>1, <3>1, <3>2 DEF WholeLists
  <2>2. CASE req[a].kind # "whitelist"
    <3>1. AllowsOf(NewRules(a)) = AllowsOf(got[a])
      BY <2>2, PayloadAllows DEF NewRules
    <3> QED BY <1>1, <3>1 DEF Whole
  <2> QED BY <2>1, <2>2
<1> QED BY <1>1, <1>2, <1>3 DEF Whole

\* The lists that are read or given up on, action by action.
LEMMA ListsChange ==
  ASSUME Shape, [Next]_vars
  PROVE  /\ \A w \in late' : \/ w \in late
                             \/ \E a \in Actors : /\ pc[a] = "write"
                                                  /\ w.rules = NewRules(a)
         /\ \A a \in Actors : pc'[a] = "write" =>
              \/ pc[a] = "write" /\ got'[a] = got[a]
              \/ \E k \in Keys : got'[a] = rules[k]
<1> DEFINE LateStays == late' \subseteq late
           Same(a)   == pc'[a] = pc[a] /\ got'[a] = got[a]
           GotOK(a)  == pc'[a] = "write" =>
                          \/ pc[a] = "write" /\ got'[a] = got[a]
                          \/ \E k \in Keys : got'[a] = rules[k]
<1>0. TypeOK
  BY DEF Shape
<1>1. ASSUME NEW a \in Actors, NEW q, Begin(a, q)
      PROVE  LateStays /\ \A b \in Actors : GotOK(b)
  BY <1>0, <1>1 DEF Begin, shared, TypeOK
<1>2. ASSUME NEW a \in Actors, NEW F, Proceed(a, F)
      PROVE  \A b \in Actors : GotOK(b)
  BY <1>0, <1>2 DEF Proceed, TypeOK
<1>3. ASSUME NEW a \in Actors, NEW k \in Keys, UnionRead(a, k) \/ UnionMiss(a, k)
      PROVE  LateStays /\ \A b \in Actors : GotOK(b)
  BY <1>0, <1>3 DEF UnionRead, UnionMiss, Answered, shared, TypeOK
<1>4. ASSUME NEW a \in Actors, Read(a)
      PROVE  LateStays /\ \A b \in Actors : GotOK(b)
  <2>1. LateStays
    BY <1>4 DEF Read, shared
  <2>2. CASE Fail(a)
    BY <1>2, <2>1, <2>2 DEF Fail
  <2>3. CASE /\ pc' = [pc EXCEPT ![a] = "write"]
             /\ got' = [got EXCEPT ![a] = rules[ReadFrom(req[a], NextKey(a))]]
    <3>1. ReadFrom(req[a], NextKey(a)) \in Keys
      BY <1>0, NextKeyType DEF ReadFrom, Source, Keys
    <3> QED BY <1>0, <2>1, <2>3, <3>1 DEF TypeOK
  <2> QED BY <1>4, <2>2, <2>3 DEF Read
<1>5. ASSUME NEW a \in Actors, ReadFails(a) \/ WriteLost(a) \/ WriteUnanswered(a)
      PROVE  LateStays /\ \A b \in Actors : GotOK(b)
  BY <1>2, <1>5 DEF ReadFails, WriteLost, WriteUnanswered, Fail, shared
<1>6. ASSUME NEW a \in Actors, Write(a)
      PROVE  LateStays /\ \A b \in Actors : GotOK(b)
  <2>1. LateStays
    BY <1>6 DEF Write
  <2>2. CASE Succeed(a)
    BY <1>2, <2>1, <2>2 DEF Succeed
  <2>3. CASE pc' = [pc EXCEPT ![a] = "mark"] /\ got' = got
    BY <1>0, <2>1, <2>3 DEF TypeOK
  <2> QED BY <1>6, <2>2, <2>3 DEF Write
<1>7. ASSUME NEW a \in Actors, WriteTimesOut(a)
      PROVE  /\ \A w \in late' : \/ w \in late
                                 \/ pc[a] = "write" /\ w.rules = NewRules(a)
             /\ \A b \in Actors : GotOK(b)
  <2>1. \A b \in Actors : GotOK(b)
    BY <1>2, <1>7 DEF WriteTimesOut, Fail
  <2>2. \A w \in late' : \/ w \in late
                         \/ pc[a] = "write" /\ w.rules = NewRules(a)
    BY <1>7 DEF WriteTimesOut
  <2> QED BY <2>1, <2>2
<1>8. ASSUME NEW a \in Actors, Mark(a) \/ Reply(a)
      PROVE  LateStays /\ \A b \in Actors : GotOK(b)
  BY <1>0, <1>8 DEF Mark, Reply, shared, TypeOK
<1>9. ASSUME NEW w \in late, LateWrite(w)
      PROVE  LateStays /\ \A b \in Actors : GotOK(b)
  BY <1>9 DEF LateWrite, loop
<1>10. ASSUME NEW c \in Configs, SaveConfig(c)
       PROVE  LateStays /\ \A b \in Actors : GotOK(b)
  BY <1>10 DEF SaveConfig, loop
<1>11. CASE UNCHANGED vars
  BY <1>11 DEF vars
<1> HIDE DEF LateStays, GotOK
<1>12. CASE \E h \in Handlers, q \in Requests : StartRequest(h, q)
  BY <1>1, <1>12 DEF StartRequest, Actors, LateStays, GotOK
<1>13. CASE AutoSync
  BY <1>1, <1>13 DEF AutoSync, Actors, LateStays, GotOK
<1>14. CASE \E a \in Actors : Step(a)
  BY <1>3, <1>4, <1>5, <1>6, <1>7, <1>8, <1>14 DEF Step, LateStays, GotOK
<1> QED BY <1>9, <1>10, <1>11, <1>12, <1>13, <1>14 DEF Next, LateStays, GotOK

LEMMA WholeStep ==
  ASSUME Shape, WholeEverywhere, [Next]_vars
  PROVE  WholeEverywhere'
<1>1. rules \in [Keys -> SUBSET Line]
  BY DEF Shape, TypeOK
<1>2. ASSUME NEW a \in Actors, pc[a] = "write" PROVE Whole(NewRules(a))
  BY <1>2, NewRulesWhole
<1>3. ASSUME NEW k \in Keys PROVE Whole(rules'[k])
  <2>1. CASE rules' = rules
    BY <2>1 DEF WholeEverywhere
  <2>2. ASSUME NEW a \in Actors, pc[a] = "write",
               rules' = [rules EXCEPT ![NextKey(a)] = NewRules(a)]
        PROVE  Whole(rules'[k])
    BY <1>1, <1>2, <2>2 DEF WholeEverywhere
  <2>3. ASSUME NEW w \in late, rules' = [rules EXCEPT ![w.key] = w.rules]
        PROVE  Whole(rules'[k])
    BY <1>1, <2>3 DEF WholeEverywhere
  <2> QED BY <2>1, <2>2, <2>3, RulesChange
<1>4. ASSUME NEW w \in late' PROVE Whole(w.rules)
  BY <1>2, <1>4, ListsChange DEF WholeEverywhere
<1>5. ASSUME NEW a \in Actors, pc'[a] = "write" PROVE Whole(got'[a])
  BY <1>5, ListsChange DEF WholeEverywhere
<1> QED BY <1>3, <1>4, <1>5 DEF WholeEverywhere

LEMMA WholeInvariant == Spec => []WholeEverywhere
<1>1. Init => WholeEverywhere
  <2> SUFFICES ASSUME Init PROVE WholeEverywhere
    OBVIOUS
  <2>1. ASSUME NEW k \in Keys PROVE Whole(rules[k])
    BY DEF Init, Whole, GivenOthers, WholeLists
  <2> QED BY <2>1 DEF Init, WholeEverywhere
<1>2. Shape /\ WholeEverywhere /\ [Next]_vars => WholeEverywhere'
  BY WholeStep
<1> QED BY <1>1, <1>2, ShapeInvariant, PTL DEF Spec

(***************************************************************************)
(* Whatever the requests, their interleaving and the faults, the lines the *)
(* panel does not own are on each server a complete list that one of the   *)
(* servers had: splitDNS, rebuildRules and mergeWhitelist keep them, and   *)
(* what is written was always computed from one list that was read whole.  *)
(***************************************************************************)
THEOREM OthersAreIntact == Spec => []OthersIntact
<1>1. WholeEverywhere => OthersIntact
  BY DEF WholeEverywhere, Whole, OthersIntact
<1> QED BY <1>1, WholeInvariant, PTL

(***************************************************************************)
(* In the same way the whitelist of a server is always a complete list: an *)
(* initial one or one submitted in the editor.                             *)
(***************************************************************************)
THEOREM WhitelistsAreWhole == Spec => []WholeWhitelist
<1>1. WholeEverywhere => WholeWhitelist
  BY DEF WholeEverywhere, Whole, WholeWhitelist
<1> QED BY <1>1, WholeInvariant, PTL

-----------------------------------------------------------------------------
(* Requests stay on track.                                                 *)

\* The local variables of b, and what b's track is measured against.
SameLocals(b) ==
  /\ pc'[b] = pc[b] /\ req'[b] = req[b] /\ snap'[b] = snap[b]
  /\ asking'[b] = asking[b] /\ unread'[b] = unread[b] /\ union'[b] = union[b]
  /\ todo'[b] = todo[b] /\ got'[b] = got[b] /\ failed'[b] = failed[b]

Undisturbed(b) == rules' = rules /\ before'[b] = before[b] /\ calm'[b] = calm[b]

LEMMA BystanderOnTrack ==
  ASSUME NEW b \in Actors, OnTrack(b), SameLocals(b),
         Undisturbed(b) \/ (pc[b] # "idle" => ~calm'[b])
  PROVE  OnTrack(b)'
<1>1. CASE Undisturbed(b)
  BY <1>1 DEF SameLocals, Undisturbed, OnTrack, Landed, Done, Wanted, Seen,
              NextKey
<1>2. CASE pc[b] # "idle" => ~calm'[b]
  BY <1>2 DEF SameLocals, OnTrack
<1> QED BY <1>1, <1>2

LEMMA BeginOnTrack ==
  ASSUME Shape, Truthful, NEW a \in Actors, NEW q \in Request, Begin(a, q)
  PROVE  Truthful'
<1> DEFINE T == Targets(q, cfg)
<1>1. /\ pc[a] = "idle"
      /\ req' = [req EXCEPT ![a] = q]
      /\ snap' = [snap EXCEPT ![a] = cfg]
      /\ asking' = [asking EXCEPT ![a] = IF q.kind = "reconcile" THEN T ELSE {}]
      /\ todo' = [todo EXCEPT ![a] = T]
      /\ before' = [before EXCEPT ![a] = rules]
      /\ UNCHANGED <<rules, late, cfg, lastSync, unread, union, got, failed, calm>>
  BY DEF Begin, shared
<1>2. pc' = [pc EXCEPT ![a] = pc'[a]] /\ pc'[a] \in {"union", "read", "reply"}
  BY DEF Begin, Shape, TypeOK
<1>3. unread[a] = {} /\ union[a] = {} /\ failed[a] = {}
  BY <1>1 DEF Shape, LoopOK
<1>4. pc'[a] # "reply" /\ q.kind = "reconcile" => T = ServerKeys(cfg)
  BY DEF Begin, Targets, Shape, TypeOK
<1>5. OnTrack(a)'
  <2>1. /\ req'[a] = q /\ snap'[a] = cfg /\ todo'[a] = T /\ before'[a] = rules
        /\ asking'[a] = IF q.kind = "reconcile" THEN T ELSE {}
        /\ unread'[a] = {} /\ union'[a] = {} /\ failed'[a] = {}
    BY <1>1, <1>3 DEF Shape, TypeOK
  <2>2. Done(a)' = {}
    BY <1>2, <2>1 DEF Done
  <2>3. Seen(a)' = ServerKeys(cfg)
    BY <2>1 DEF Seen
  <2>4. UnionRecords(rules, {}) = {}
    BY DEF UnionRecords
  <2>5. q.kind = "reconcile" /\ pc'[a] \in Working =>
          /\ asking'[a] \subseteq Seen(a)'
          /\ union'[a] = UnionRecords(before'[a], Seen(a)' \ asking'[a])
    <3> SUFFICES ASSUME q.kind = "reconcile", pc'[a] \in Working
                 PROVE  asking'[a] = Seen(a)'
      BY <2>1, <2>4
    <3> QED BY <1>4, <2>1, <2>3 DEF Working
  <2> QED BY <1>1, <1>2, <2>1, <2>2, <2>5 DEF OnTrack, Landed
<1>6. ASSUME NEW b \in Actors, b # a PROVE OnTrack(b)'
  <2>1. SameLocals(b) /\ Undisturbed(b)
    BY <1>1, <1>2, <1>6 DEF SameLocals, Undisturbed, Shape, TypeOK
  <2> QED BY <2>1, BystanderOnTrack DEF Truthful
<1> QED BY <1>5, <1>6 DEF Truthful

LEMMA NothingDoneYet ==
  ASSUME Shape, Truthful, NEW a \in Actors, pc[a] = "union", calm[a]
  PROVE  \A k \in Keys : rules[k] = before[a][k]
<1>1. Done(a) = {} /\ failed[a] = {}
  BY DEF Done, Shape, LoopOK
<1> QED BY <1>1 DEF Truthful, OnTrack, Landed

LEMMA UnionReadOnTrack ==
  ASSUME Shape, Truthful, NEW a \in Actors, NEW k \in Keys, UnionRead(a, k)
  PROVE  Truthful'
<1>1. /\ pc[a] = "union" /\ k \in asking[a]
      /\ asking' = [asking EXCEPT ![a] = @ \ {k}]
      /\ pc' = [pc EXCEPT ![a] = IF asking[a] = {k} THEN "read" ELSE "union"]
      /\ union' = [union EXCEPT ![a] = @ \cup RecordsOf(rules[k])]
      /\ UNCHANGED <<rules, late, cfg, lastSync, req, snap, unread, todo, got,
                     failed, outcome, before, calm>>
  BY DEF UnionRead, Answered, shared, request, history
<1>2. OnTrack(a)'
  <2> SUFFICES ASSUME calm[a] PROVE OnTrack(a)'
    BY <1>1 DEF OnTrack
  <2>1. /\ req[a].kind = "reconcile"
        /\ asking[a] \subseteq Seen(a)
        /\ union[a] = UnionRecords(before[a], Seen(a) \ asking[a])
    BY <1>1 DEF Shape, LoopOK, Truthful, OnTrack, Working
  <2>2. rules[k] = before[a][k]
    BY <1>1, NothingDoneYet
  <2>3. Seen(a)' = Seen(a) /\ asking'[a] = asking[a] \ {k}
    BY <1>1 DEF Seen, Shape, TypeOK
  <2>4. Seen(a) \ (asking[a] \ {k}) = (Seen(a) \ asking[a]) \cup {k}
    BY <1>1, <2>1
  <2>5. UnionRecords(before[a], (Seen(a) \ asking[a]) \cup {k})
          = UnionRecords(before[a], Seen(a) \ asking[a]) \cup RecordsOf(before[a][k])
    BY DEF UnionRecords
  <2>6. union'[a] = UnionRecords(before'[a], Seen(a)' \ asking'[a])
    <3>1. union'[a] = union[a] \cup RecordsOf(rules[k])
      BY <1>1 DEF Shape, TypeOK
    <3> QED BY <1>1, <2>1, <2>2, <2>3, <2>4, <2>5, <3>1
  <2>7. Done(a)' = {} /\ failed'[a] = {}
    BY <1>1 DEF Done, Shape, TypeOK, LoopOK
  <2>8. pc'[a] # "write"
    BY <1>1 DEF Shape, TypeOK
  <2>9. \A n \in Keys : rules'[n] = before'[a][n]
    BY <1>1, NothingDoneYet
  <2>10. asking'[a] \subseteq Seen(a)'
    BY <2>1, <2>3
  <2> QED BY <2>6, <2>7, <2>8, <2>9, <2>10 DEF OnTrack, Landed
<1>3. ASSUME NEW b \in Actors, b # a PROVE OnTrack(b)'
  <2>1. SameLocals(b) /\ Undisturbed(b)
    BY <1>1, <1>3 DEF SameLocals, Undisturbed, Shape, TypeOK
  <2> QED BY <2>1, BystanderOnTrack DEF Truthful
<1> QED BY <1>2, <1>3 DEF Truthful

LEMMA UnionMissOnTrack ==
  ASSUME Shape, Truthful, NEW a \in Actors, NEW k \in Keys, UnionMiss(a, k)
  PROVE  Truthful'
<1>1. /\ pc[a] = "union" /\ k \in asking[a]
      /\ asking' = [asking EXCEPT ![a] = @ \ {k}]
      /\ pc' = [pc EXCEPT ![a] = IF asking[a] = {k} THEN "read" ELSE "union"]
      /\ unread' = [unread EXCEPT ![a] = @ \cup {k}]
      /\ UNCHANGED <<rules, late, cfg, lastSync, req, snap, union, todo, got,
                     failed, outcome, before, calm>>
  BY DEF UnionMiss, Answered, shared, request, history
<1>2. OnTrack(a)'
  <2> SUFFICES ASSUME calm[a] PROVE OnTrack(a)'
    BY <1>1 DEF OnTrack
  <2>1. /\ asking[a] \subseteq Seen(a)
        /\ union[a] = UnionRecords(before[a], Seen(a) \ asking[a])
    BY <1>1 DEF Shape, LoopOK, Truthful, OnTrack, Working
  <2>2. /\ asking'[a] = asking[a] \ {k}
        /\ Seen(a)' = Seen(a) \ {k}
    BY <1>1 DEF Seen, Shape, TypeOK
  <2>3. Seen(a)' \ asking'[a] = Seen(a) \ asking[a]
    BY <1>1, <2>2
  <2>4. union'[a] = UnionRecords(before'[a], Seen(a)' \ asking'[a])
    BY <1>1, <2>1, <2>3
  <2>5. asking'[a] \subseteq Seen(a)'
    BY <2>1, <2>2
  <2>6. Done(a)' = {} /\ failed'[a] = {}
    BY <1>1 DEF Done, Shape, TypeOK, LoopOK
  <2>7. pc'[a] # "write"
    BY <1>1 DEF Shape, TypeOK
  <2>8. \A n \in Keys : rules'[n] = before'[a][n]
    BY <1>1, NothingDoneYet
  <2> QED BY <2>4, <2>5, <2>6, <2>7, <2>8 DEF OnTrack, Landed
<1>3. ASSUME NEW b \in Actors, b # a PROVE OnTrack(b)'
  <2>1. SameLocals(b) /\ Undisturbed(b)
    BY <1>1, <1>3 DEF SameLocals, Undisturbed, Shape, TypeOK
  <2> QED BY <2>1, BystanderOnTrack DEF Truthful
<1> QED BY <1>2, <1>3 DEF Truthful

\* The write of a request that is on track is the one that is wanted.
LEMMA WritesWhatIsWanted ==
  ASSUME Shape, Truthful, NEW a \in Actors, pc[a] = "write", calm[a]
  PROVE  NewRules(a) = Wanted(a)[NextKey(a)]
<1> DEFINE k == NextKey(a)
           U == UnionRecords(before[a], Seen(a))
<1>1. req[a] \in Request /\ k \in Keys /\ k \in Targets(req[a], snap[a])
  BY NextKeyType DEF Shape, RequestOK, LoopOK, Working
<1>2. got[a] = before[a][ReadFrom(req[a], k)]
  BY DEF Truthful, OnTrack
<1>3. Wanted(a)[k] = Payload(req[a], got[a], U)
  BY <1>1, <1>2 DEF Wanted, Effect
<1>4. CASE req[a].kind = "reconcile"
  <2>1. asking[a] = {}
    BY DEF Shape, LoopOK
  <2>2. union[a] = UnionRecords(before[a], Seen(a) \ asking[a])
    BY <1>4 DEF Truthful, OnTrack, Working
  <2>3. Seen(a) \ asking[a] = Seen(a)
    BY <2>1
  <2> QED BY <1>3, <2>2, <2>3 DEF NewRules
<1>5. CASE req[a].kind # "reconcile"
  BY <1>1, <1>3, <1>5, UnionIrrelevant DEF NewRules
<1> QED BY <1>4, <1>5

\* One turn of the loop moves its server from those ahead to those behind.
LEMMA TurnDone ==
  ASSUME Shape, NEW a \in Actors, pc[a] \in {"read", "write"}, NEW F,
         Proceed(a, F), UNCHANGED request
  PROVE  /\ Done(a)' = Done(a) \cup {NextKey(a)}
         /\ NextKey(a) \notin Done(a) /\ NextKey(a) \in Keys
         /\ pc'[a] \in {"read", "reply"} /\ failed'[a] = F
<1> DEFINE k == NextKey(a)
<1>1. k \in todo[a] /\ k \in Keys /\ todo[a] \subseteq Targets(req[a], snap[a])
  BY NextKeyType DEF Shape, LoopOK, Working
<1>2. /\ todo'[a] = todo[a] \ {k} /\ failed'[a] = F
      /\ pc'[a] \in {"read", "reply"}
      /\ req'[a] = req[a] /\ snap'[a] = snap[a]
  BY DEF Proceed, request, Shape, TypeOK
<1> HIDE DEF k
<1>3. Done(a)' = Done(a) \cup {k} /\ k \notin Done(a)
  BY <1>1, <1>2 DEF Done
<1> QED BY <1>1, <1>2, <1>3 DEF k

\* After a failure the server has been written, or it has not.
LEMMA FailOnTrack ==
  ASSUME Shape, NEW a \in Actors, OnTrack(a), pc[a] \in {"read", "write"},
         Fail(a), UNCHANGED <<request, merge>>,
         calm'[a] = calm[a], before'[a] = before[a],
         \A k \in Keys : \/ rules'[k] = rules[k]
                         \/ /\ k = NextKey(a)
                            /\ calm[a] => rules'[k] = Wanted(a)[k]
  PROVE  OnTrack(a)'
<1> DEFINE F == failed[a] \cup {NextKey(a)}
<1>1. /\ Done(a)' = Done(a) \cup {NextKey(a)}
      /\ NextKey(a) \notin Done(a) /\ NextKey(a) \in Keys
      /\ pc'[a] \in {"read", "reply"} /\ failed'[a] = F
  BY TurnDone DEF Fail
<1>2. UNCHANGED <<req, snap, asking, unread, union>>
  BY DEF request, merge
<1>3. Seen(a)' = Seen(a) /\ Wanted(a)' = Wanted(a)
  BY <1>2 DEF Seen, Wanted
<1>4. CASE calm[a]
  <2>1. \A k \in Keys : Landed(a, k)
    BY <1>4 DEF OnTrack
  <2>2. \A k \in Keys : Landed(a, k)'
    BY <1>1, <1>3, <1>4, <2>1 DEF Landed
  <2>3. F \subseteq Done(a)'
    BY <1>1, <1>4 DEF OnTrack
  <2> QED BY <1>1, <1>2, <1>3, <2>2, <2>3 DEF OnTrack, Working
<1>5. CASE ~calm[a]
  BY <1>5 DEF OnTrack
<1> QED BY <1>4, <1>5

\* The actors that a turn of a's loop does not touch.
LEMMA OthersLocals ==
  ASSUME Shape, NEW a \in Actors, NEW F, Proceed(a, F),
         UNCHANGED <<request, merge>>, NEW b \in Actors, b # a
  PROVE  SameLocals(b)
  BY DEF Proceed, request, merge, SameLocals, Shape, TypeOK

LEMMA FruitlessOnTrack ==
  ASSUME Shape, Truthful, NEW a \in Actors, pc[a] \in {"read", "write"},
         Fail(a), rules' = rules, UNCHANGED <<request, merge, history>>
  PROVE  Truthful'
<1>1. UNCHANGED <<request, merge>> /\ before' = before /\ calm' = calm
  BY DEF request, merge, history
<1>2. OnTrack(a)'
  BY <1>1, FailOnTrack DEF Truthful
<1>3. ASSUME NEW b \in Actors, b # a PROVE OnTrack(b)'
  <2>1. SameLocals(b)
    BY <1>1, <1>3, OthersLocals DEF Fail
  <2>2. Undisturbed(b)
    BY <1>1 DEF Undisturbed
  <2> QED BY <2>1, <2>2, BystanderOnTrack DEF Truthful
<1> QED BY <1>2, <1>3 DEF Truthful

LEMMA ReadOnTrack ==
  ASSUME Shape, Truthful, NEW a \in Actors, Read(a)
  PROVE  Truthful'
<1> DEFINE src  == ReadFrom(req[a], NextKey(a))
           read == rules[src]
<1>1. /\ pc[a] = "read" /\ rules' = rules
      /\ UNCHANGED <<request, merge, history>>
  BY DEF Read, shared
<1>2. CASE req[a].kind = "sync" /\ read = {}
  BY <1>1, <1>2, FruitlessOnTrack DEF Read
<1>3. CASE ~(req[a].kind = "sync" /\ read = {})
  <2>1. /\ pc' = [pc EXCEPT ![a] = "write"]
        /\ got' = [got EXCEPT ![a] = read]
        /\ UNCHANGED <<req, snap, asking, unread, union, todo, failed, before, calm>>
    BY <1>3 DEF Read, request, merge, history
  <2>2. src \in Keys
    BY NextKeyType DEF Shape, ReadFrom, Source, Keys
  <2>3. src \notin Done(a)
    <3>1. CASE req[a].kind = "sync"
      <4>1. todo[a] = Targets(req[a], snap[a])
        BY <1>1, <3>1 DEF Shape, LoopOK, Working
      <4> QED BY <1>1, <4>1 DEF Done
    <3>2. CASE req[a].kind # "sync"
      <4>1. src = NextKey(a)
        BY <3>2 DEF ReadFrom
      <4>2. NextKey(a) \in todo[a]
        BY <1>1, NextKeyType DEF Shape, LoopOK, Working
      <4> QED BY <1>1, <4>1, <4>2 DEF Done
    <3> QED BY <3>1, <3>2
  <2>4. OnTrack(a)'
    <3>1. /\ Done(a)' = Done(a) /\ Wanted(a)' = Wanted(a)
          /\ Seen(a)' = Seen(a) /\ NextKey(a)' = NextKey(a)
      BY <1>1, <2>1 DEF Done, Wanted, Seen, NextKey, Shape, TypeOK
    <3>2. pc'[a] = "write" /\ got'[a] = read
      BY <2>1 DEF Shape, TypeOK
    <3>3. OnTrack(a)
      BY DEF Truthful
    <3> HIDE DEF src
    <3>4. calm[a] => read = before[a][src]
      BY <1>1, <2>2, <2>3, <3>3 DEF OnTrack, Landed
    <3>5. src = ReadFrom(req'[a], NextKey(a)')
      BY <2>1, <3>1 DEF src
    <3> HIDE DEF read
    <3>6. calm[a] => \A k \in Keys : Landed(a, k)'
      BY <1>1, <2>1, <3>1, <3>3 DEF OnTrack, Landed
    <3> QED BY <1>1, <2>1, <3>1, <3>2, <3>3, <3>4, <3>5, <3>6
            DEF OnTrack, Working
  <2>5. ASSUME NEW b \in Actors, b # a PROVE OnTrack(b)'
    <3>1. SameLocals(b) /\ Undisturbed(b)
      BY <1>1, <2>1, <2>5 DEF SameLocals, Undisturbed, Shape, TypeOK
    <3> QED BY <3>1, BystanderOnTrack DEF Truthful
  <2> QED BY <2>4, <2>5 DEF Truthful
<1> QED BY <1>2, <1>3

\* A write that lands leaves everybody else disturbed.
LEMMA LandBystander ==
  ASSUME Shape, Truthful, NEW a \in Actors, Land(a),
         NEW b \in Actors, b # a, SameLocals(b)
  PROVE  OnTrack(b)'
<1>1. pc[b] # "idle" => ~calm'[b]
  BY DEF Land, Disturb
<1> QED BY <1>1, BystanderOnTrack DEF Truthful

LEMMA WriteOnTrack ==
  ASSUME Shape, Truthful, NEW a \in Actors, Write(a)
  PROVE  Truthful'
<1> DEFINE k == NextKey(a)
<1>1. /\ pc[a] = "write" /\ Land(a)
      /\ UNCHANGED <<request, merge>>
      /\ UNCHANGED <<req, snap, asking, unread, union>>
  BY DEF Write, request, merge
<1>2. /\ rules' = [rules EXCEPT ![k] = NewRules(a)]
      /\ calm'[a] = calm[a] /\ before'[a] = before[a]
  BY <1>1 DEF Land, Disturb
<1>3. /\ failed'[a] = failed[a]
      /\ pc'[a] \in {"mark", "read", "reply"}
      /\ Done(a)' = Done(a) \cup {k}
      /\ k \notin Done(a)
  <2>1. CASE req[a].kind = "sync"
    <3>1. pc' = [pc EXCEPT ![a] = "mark"] /\ UNCHANGED <<todo, failed>>
      BY <2>1 DEF Write
    <3>2. todo[a] = {k} /\ todo[a] = Targets(req[a], snap[a])
      BY <1>1, <2>1, SyncHasOneTurn DEF Shape, LoopOK, Working
    <3> QED BY <1>1, <3>1, <3>2 DEF Done, Shape, TypeOK
  <2>2. CASE req[a].kind # "sync"
    BY <1>1, <2>2, TurnDone DEF Write, Succeed
  <2> QED BY <2>1, <2>2
<1>4. OnTrack(a)'
  <2>1. Seen(a)' = Seen(a) /\ Wanted(a)' = Wanted(a)
    BY <1>1, <1>2 DEF Seen, Wanted
  <2>2. OnTrack(a)
    BY DEF Truthful
  <2>3. calm[a] => NewRules(a) = Wanted(a)[k]
    BY <1>1, WritesWhatIsWanted
  <2>4. rules \in [Keys -> SUBSET Line]
    BY DEF Shape, TypeOK
  <2> HIDE DEF k
  <2>5. calm[a] => \A n \in Keys : Landed(a, n)'
    BY <1>1, <1>2, <1>3, <2>1, <2>2, <2>3, <2>4 DEF OnTrack, Landed
  <2> QED BY <1>1, <1>2, <1>3, <2>1, <2>2, <2>5 DEF OnTrack, Working
<1>5. ASSUME NEW b \in Actors, b # a PROVE OnTrack(b)'
  <2>1. SameLocals(b)
    BY <1>1, <1>5, OthersLocals DEF Write, Succeed, SameLocals, Shape, TypeOK
  <2> QED BY <1>1, <1>5, <2>1, LandBystander
<1> QED BY <1>4, <1>5 DEF Truthful

LEMMA WriteUnansweredOnTrack ==
  ASSUME Shape, Truthful, NEW a \in Actors, WriteUnanswered(a)
  PROVE  Truthful'
<1>1. pc[a] = "write" /\ Land(a) /\ Fail(a) /\ UNCHANGED <<request, merge>>
  BY DEF WriteUnanswered
<1>2. calm'[a] = calm[a] /\ before'[a] = before[a]
  BY <1>1 DEF Land, Disturb
<1>3. OnTrack(a)'
  <2>1. rules' = [rules EXCEPT ![NextKey(a)] = NewRules(a)]
    BY <1>1 DEF Land
  <2>2. calm[a] => NewRules(a) = Wanted(a)[NextKey(a)]
    BY <1>1, WritesWhatIsWanted
  <2>3. \A k \in Keys : \/ rules'[k] = rules[k]
                        \/ /\ k = NextKey(a)
                           /\ calm[a] => rules'[k] = Wanted(a)[k]
    BY <2>1, <2>2 DEF Shape, TypeOK
  <2> QED BY <1>1, <1>2, <2>3, FailOnTrack DEF Truthful
<1>4. ASSUME NEW b \in Actors, b # a PROVE OnTrack(b)'
  <2>1. SameLocals(b)
    BY <1>1, <1>4, OthersLocals DEF Fail
  <2> QED BY <1>1, <1>4, <2>1, LandBystander
<1> QED BY <1>3, <1>4 DEF Truthful

LEMMA LateWriteOnTrack ==
  ASSUME Shape, Truthful, NEW w \in late, LateWrite(w)
  PROVE  Truthful'
<1>1. ASSUME NEW b \in Actors PROVE OnTrack(b)'
  <2>1. SameLocals(b)
    BY DEF LateWrite, request, merge, loop, SameLocals
  <2>2. pc[b] # "idle" => ~calm'[b]
    BY DEF LateWrite, Disturb
  <2> QED BY <2>1, <2>2, BystanderOnTrack DEF Truthful
<1> QED BY <1>1 DEF Truthful

LEMMA MarkOnTrack ==
  ASSUME Shape, Truthful, NEW a \in Actors, Mark(a)
  PROVE  Truthful'
<1>1. /\ pc[a] = "mark" /\ req[a].kind = "sync"
      /\ pc' = [pc EXCEPT ![a] = "reply"]
      /\ todo' = [todo EXCEPT ![a] = {}]
      /\ got' = [got EXCEPT ![a] = {}]
      /\ UNCHANGED <<rules, req, snap, asking, unread, union, failed, before, calm>>
  BY DEF Mark, request, merge, history, Shape, LoopOK
<1>2. OnTrack(a)'
  <2>1. Done(a)' = Done(a)
    BY <1>1 DEF Done, Shape, TypeOK
  <2>2. Wanted(a)' = Wanted(a)
    BY <1>1 DEF Wanted, Seen
  <2>3. pc'[a] = "reply"
    BY <1>1 DEF Shape, TypeOK
  <2>4. OnTrack(a)
    BY DEF Truthful
  <2>5. calm[a] => \A k \in Keys : Landed(a, k)'
    BY <1>1, <2>1, <2>2, <2>4 DEF OnTrack, Landed
  <2> QED BY <1>1, <2>1, <2>2, <2>3, <2>4, <2>5 DEF OnTrack, Working
<1>3. ASSUME NEW b \in Actors, b # a PROVE OnTrack(b)'
  <2>1. SameLocals(b) /\ Undisturbed(b)
    BY <1>1, <1>3 DEF SameLocals, Undisturbed, Shape, TypeOK
  <2> QED BY <2>1, BystanderOnTrack DEF Truthful
<1> QED BY <1>2, <1>3 DEF Truthful

LEMMA ReplyOnTrack ==
  ASSUME Shape, Truthful, NEW a \in Actors, Reply(a)
  PROVE  Truthful'
<1>1. OnTrack(a)'
  BY DEF Reply, OnTrack, Shape, TypeOK
<1>2. ASSUME NEW b \in Actors, b # a PROVE OnTrack(b)'
  <2>1. SameLocals(b) /\ Undisturbed(b)
    BY <1>2 DEF Reply, shared, SameLocals, Undisturbed, Shape, TypeOK
  <2> QED BY <2>1, BystanderOnTrack DEF Truthful
<1> QED BY <1>1, <1>2 DEF Truthful

LEMMA UnchangedOnTrack ==
  ASSUME Truthful, UNCHANGED <<rules, request, merge, loop, history>>
  PROVE  Truthful'
<1>1. ASSUME NEW b \in Actors PROVE OnTrack(b)'
  <2>1. SameLocals(b) /\ Undisturbed(b)
    BY DEF request, merge, loop, history, SameLocals, Undisturbed
  <2> QED BY <2>1, BystanderOnTrack DEF Truthful
<1> QED BY <1>1 DEF Truthful

LEMMA TruthfulStep ==
  ASSUME Shape, Truthful, [Next]_vars
  PROVE  Truthful'
<1>1. ASSUME NEW h \in Handlers, NEW q \in Requests, StartRequest(h, q)
      PROVE  Truthful'
  <2>1. h \in Actors /\ q \in Request /\ Begin(h, q)
    BY <1>1, RequestsAssumption DEF Actors, StartRequest
  <2> QED BY <2>1, BeginOnTrack
<1>2. CASE AutoSync
  <2> DEFINE q == [kind |-> "sync", direction |-> cfg.direction, auto |-> TRUE]
  <2>1. q \in Request
    BY AutoRequest DEF Shape
  <2>2. Worker \in Actors /\ Begin(Worker, q)
    BY <1>2 DEF Actors, AutoSync
  <2> HIDE DEF q
  <2> QED BY <2>1, <2>2, BeginOnTrack
<1>3. ASSUME NEW a \in Actors, Step(a) PROVE Truthful'
  <2>1. ASSUME NEW k \in Keys, UnionRead(a, k) PROVE Truthful'
    BY <2>1, UnionReadOnTrack
  <2>2. ASSUME NEW k \in Keys, UnionMiss(a, k) PROVE Truthful'
    BY <2>2, UnionMissOnTrack
  <2>3. CASE Read(a)
    BY <2>3, ReadOnTrack
  <2>4. CASE ReadFails(a)
    BY <2>4, FruitlessOnTrack DEF ReadFails, shared
  <2>5. CASE Write(a)
    BY <2>5, WriteOnTrack
  <2>6. CASE WriteUnanswered(a)
    BY <2>6, WriteUnansweredOnTrack
  <2>7. CASE WriteLost(a)
    BY <2>7, FruitlessOnTrack DEF WriteLost, shared
  <2>8. CASE WriteTimesOut(a)
    BY <2>8, FruitlessOnTrack DEF WriteTimesOut
  <2>9. CASE Mark(a)
    BY <2>9, MarkOnTrack
  <2>10. CASE Reply(a)
    BY <2>10, ReplyOnTrack
  <2> QED BY <1>3, <2>1, <2>2, <2>3, <2>4, <2>5, <2>6, <2>7, <2>8, <2>9, <2>10
          DEF Step
<1>4. ASSUME NEW w \in late, LateWrite(w) PROVE Truthful'
  BY <1>4, LateWriteOnTrack
<1>5. ASSUME NEW c \in Configs, SaveConfig(c) PROVE Truthful'
  BY <1>5, UnchangedOnTrack DEF SaveConfig
<1>6. CASE UNCHANGED vars
  BY <1>6, UnchangedOnTrack DEF vars, request, merge, loop, history
<1> QED BY <1>1, <1>2, <1>3, <1>4, <1>5, <1>6 DEF Next

LEMMA TruthfulInvariant == Spec => [](Shape /\ Truthful)
<1>1. Init => Shape /\ Truthful
  BY InitShape DEF Init, Truthful, OnTrack
<1>2. Shape /\ Truthful /\ [Next]_vars => (Shape /\ Truthful)'
  BY ShapeStep, TruthfulStep
<1> QED BY <1>1, <1>2, PTL DEF Spec

(***************************************************************************)
(* "ok" is never a lie: for any handlers, requests, faults and late        *)
(* writes, a request that answers "ok" and was not disturbed has done all  *)
(* it was meant to do, on every server it targets, and nothing else.       *)
(***************************************************************************)
THEOREM OkIsTrue == Spec => []OkIsAtomic
<1>1. Shape /\ Truthful => OkIsAtomic
  <2> SUFFICES ASSUME Shape, Truthful, NEW a \in Actors, pc[a] = "reply",
                      outcome[a] = "ok", calm[a]
               PROVE  rules = Wanted(a)
    BY DEF OkIsAtomic, Wanted, Seen
  <2>1. todo[a] = {} /\ failed[a] = {}
    BY DEF Shape, LoopOK
  <2>2. Done(a) = Targets(req[a], snap[a])
    BY <2>1 DEF Done
  <2>3. \A k \in Keys : rules[k] = IF k \in Targets(req[a], snap[a])
                                     THEN Wanted(a)[k] ELSE before[a][k]
    BY <2>1, <2>2 DEF Truthful, OnTrack, Landed
  <2>4. \A k \in Keys \ Targets(req[a], snap[a]) : Wanted(a)[k] = before[a][k]
    BY DEF Wanted, Effect
  <2>5. \A k \in Keys : rules[k] = Wanted(a)[k]
    BY <2>3, <2>4
  <2>6. rules = [k \in Keys |-> rules[k]]
    BY DEF Shape, TypeOK
  <2>7. Wanted(a) = [k \in Keys |-> Wanted(a)[k]]
    BY DEF Wanted, Effect
  <2> QED BY <2>5, <2>6, <2>7
<1> QED BY <1>1, TruthfulInvariant, PTL

-----------------------------------------------------------------------------
(* Records that both servers hold.                                         *)

\* A request that somebody else's write overtook has nothing to go by.
Forgets == \A a \in Actors : ~calm[a] => before[a] = NoRules

LEMMA ForgetsStep ==
  ASSUME Shape, Forgets, [Next]_vars
  PROVE  Forgets'
<1>1. ASSUME NEW A, Disturb(A) PROVE Forgets'
  BY <1>1 DEF Disturb, Forgets, Shape, TypeOK
<1>2. ASSUME NEW a \in Actors, NEW q, Begin(a, q) PROVE Forgets'
  <2>1. calm[a] /\ before' = [before EXCEPT ![a] = rules] /\ calm' = calm
    BY <1>2 DEF Begin, Shape, LoopOK
  <2> QED BY <2>1 DEF Forgets, Shape, TypeOK
<1>3. CASE UNCHANGED history
  BY <1>3 DEF history, Forgets
<1>4. ASSUME NEW h \in Handlers, NEW q \in Requests, StartRequest(h, q)
      PROVE  Forgets'
  BY <1>2, <1>4 DEF StartRequest, Actors
<1>5. CASE AutoSync
  BY <1>2, <1>5 DEF AutoSync, Actors
<1>6. ASSUME NEW a \in Actors, Step(a) PROVE Forgets'
  <2>1. ASSUME NEW k \in Keys, UnionRead(a, k) \/ UnionMiss(a, k)
        PROVE  Forgets'
    BY <1>3, <2>1 DEF UnionRead, UnionMiss, Answered
  <2>2. CASE Read(a) \/ ReadFails(a) \/ WriteLost(a)
    BY <1>3, <2>2 DEF Read, ReadFails, WriteLost
  <2>3. CASE WriteTimesOut(a) \/ Mark(a)
    BY <1>3, <2>3 DEF WriteTimesOut, Mark
  <2>4. CASE Write(a) \/ WriteUnanswered(a)
    BY <1>1, <2>4 DEF Write, WriteUnanswered, Land
  <2>5. CASE Reply(a)
    BY <2>5 DEF Reply, Forgets, Shape, TypeOK
  <2> QED BY <1>6, <2>1, <2>2, <2>3, <2>4, <2>5 DEF Step
<1>7. ASSUME NEW w \in late, LateWrite(w) PROVE Forgets'
  BY <1>1, <1>7 DEF LateWrite
<1>8. ASSUME NEW c \in Configs, SaveConfig(c) PROVE Forgets'
  BY <1>3, <1>8 DEF SaveConfig
<1>9. CASE UNCHANGED vars
  BY <1>3, <1>9 DEF vars, history
<1> QED BY <1>4, <1>5, <1>6, <1>7, <1>8, <1>9 DEF Next

LEMMA ForgetsInvariant == Spec => []Forgets
<1>1. Init => Forgets
  BY DEF Init, Forgets
<1> QED BY <1>1, ShapeInvariant, ForgetsStep, PTL DEF Spec

\* The records of the list that is written.
LEMMA RecordsRebuilt ==
  ASSUME NEW S, NEW R
  PROVE  RecordsOf(RebuildRules(Passthrough(S), R)) = R
<1>1. \A l \in RebuildRules(Passthrough(S), R) :
        l.kind = "dns" <=> \E x \in R : l = DnsLine(x)
  BY DEF RebuildRules, Passthrough, OfKind, DnsLine
<1>2. \A x \in R : /\ DnsLine(x) \in RebuildRules(Passthrough(S), R)
                   /\ DnsLine(x).val = x
  BY DEF RebuildRules, DnsLine
<1> QED BY <1>1, <1>2 DEF RecordsOf, OfKind

LEMMA PayloadRecords ==
  ASSUME NEW q \in Request, NEW S, NEW U
  PROVE  RecordsOf(Payload(q, S, U)) =
           IF q.kind \in {"sync", "whitelist"} THEN RecordsOf(S)
           ELSE NewRecords(q, RecordsOf(S), U)
<1>1. CASE q.kind = "sync"
  BY <1>1 DEF Payload
<1>2. CASE q.kind = "whitelist"
  <2>1. OfKind(MergeWhitelist(S, q.domains), "dns") = OfKind(S, "dns")
    BY DEF MergeWhitelist, OfKind, AllowLine
  <2> QED BY <1>2, <2>1 DEF Payload, RecordsOf
<1>3. CASE q.kind \notin {"sync", "whitelist"}
  BY <1>3, RecordsRebuilt DEF Payload
<1> QED BY <1>1, <1>2, <1>3

\* A write takes a record that was agreed on only when it is meant to.
LEMMA WriteKeepsAgreed ==
  ASSUME Shape, Truthful, Forgets, NEW a \in Actors, pc[a] = "write",
         NEW r \in HeldByAll(before[a]), ~Names(req[a], r),
         ~(req[a].kind = "reconcile" /\ unread[a] = Keys)
  PROVE  r \in RecordsOf(NewRules(a))
<1> DEFINE q == req[a]
           k == NextKey(a)
<1>1. /\ q \in Request /\ snap[a] \in Config
      /\ ~Rejected(q, snap[a]) /\ k \in Keys
  BY NextKeyType DEF Shape, TypeOK, RequestOK, Working
<1>2. calm[a]
  <2>1. \A n \in Keys : RecordsOf(NoRules[n]) = {}
    BY DEF NoRules, RecordsOf, OfKind
  <2>2. before[a] # NoRules
    BY <2>1, <1>1 DEF HeldByAll
  <2> QED BY <2>2 DEF Forgets
<1>3. got[a] = before[a][ReadFrom(q, k)]
  BY <1>2 DEF Truthful, OnTrack
<1>4. r \in RecordsOf(got[a])
  <2>1. ReadFrom(q, k) \in Keys
    BY <1>1 DEF ReadFrom, Source, Keys
  <2> QED BY <1>3, <2>1 DEF HeldByAll
<1>5. RecordsOf(NewRules(a)) =
        IF q.kind \in {"sync", "whitelist"} THEN RecordsOf(got[a])
        ELSE NewRecords(q, RecordsOf(got[a]), union[a])
  BY <1>1, PayloadRecords DEF NewRules
<1>6. CASE q.kind \in {"sync", "whitelist"}
  BY <1>4, <1>5, <1>6
<1>7. CASE q.kind \in {"save", "delete"}
  BY <1>4, <1>5, <1>7 DEF NewRecords, Names
<1>8. CASE q.kind = "reconcile"
  <2>1. Seen(a) = Keys \ unread[a]
    BY <1>1, <1>8 DEF Seen, ServerKeys, Rejected
  <2>2. union[a] = UnionRecords(before[a], Seen(a))
    <3>1. asking[a] = {}
      BY DEF Shape, LoopOK
    <3>2. union[a] = UnionRecords(before[a], Seen(a) \ asking[a])
      BY <1>2, <1>8 DEF Truthful, OnTrack, Working
    <3> QED BY <3>1, <3>2
  <2>3. PICK n \in Keys : n \in Seen(a)
    BY <1>8, <2>1 DEF Shape, TypeOK
  <2>4. r \in union[a]
    BY <2>2, <2>3 DEF UnionRecords, HeldByAll
  <2> QED BY <1>5, <1>8, <2>4 DEF NewRecords
<1>9. q.kind \in {"save", "delete", "reconcile", "whitelist", "sync"}
  BY <1>1 DEF Request, SaveRequest, DeleteRequest, ReconcileRequest,
              WhitelistRequest, SyncRequest
<1> QED BY <1>6, <1>7, <1>8, <1>9

\* Why an agreed record was lost to a request that was waited for.
LostTo(a, r) ==
  /\ \E k \in Keys : Writing(a, k)
  /\ \/ r \notin HeldByAll(before[a])
     \/ Names(req[a], r)
     \/ req[a].kind = "reconcile" /\ unread[a] = Keys

LEMMA AgreedLoss ==
  ASSUME Shape, Truthful, Forgets, [Next]_vars,
         NEW r \in HeldByAll(rules) \ HeldByAll(rules')
  PROVE  (\E a \in Actors : LostTo(a, r)) \/ \E w \in late : w \notin late'
<1>1. rules' # rules
  OBVIOUS
<1>2. ASSUME NEW a \in Actors, pc[a] = "write", pc'[a] # "write",
             rules' = [rules EXCEPT ![NextKey(a)] = NewRules(a)]
      PROVE  LostTo(a, r)
  <2>1. NextKey(a) \in Keys /\ Writing(a, NextKey(a))
    BY <1>2, NextKeyType DEF Shape, Writing
  <2>2. r \notin RecordsOf(NewRules(a))
    <3>1. r \in Records /\ \A k \in Keys : r \in RecordsOf(rules[k])
      BY DEF HeldByAll
    <3>2. PICK k \in Keys : r \notin RecordsOf(rules'[k])
      BY <3>1 DEF HeldByAll
    <3> QED BY <1>2, <3>1, <3>2 DEF Shape, TypeOK
  <2> QED BY <1>2, <2>1, <2>2, WriteKeepsAgreed DEF LostTo
<1> QED BY <1>1, <1>2, RulesChange

(***************************************************************************)
(* A record both servers hold is lost only to a request that names it, to  *)
(* one that somebody else's write overtook, to a reconcile that read no    *)
(* server, or to a write that came late: for any number of handlers, and   *)
(* of late writes.                                                         *)
(***************************************************************************)
THEOREM AgreedRecordsLostForAReason ==
  Spec => [][\A r \in HeldByAll(rules) \ HeldByAll(rules') :
               \/ \E a \in Actors : LostTo(a, r)
               \/ \E w \in late : w \notin late']_vars
<1> DEFINE Explained == \A r \in HeldByAll(rules) \ HeldByAll(rules') :
                          \/ \E a \in Actors : LostTo(a, r)
                          \/ \E w \in late : w \notin late'
<1>1. Shape /\ Truthful /\ Forgets /\ [Next]_vars => [Explained]_vars
  BY AgreedLoss
<1> QED BY <1>1, TruthfulInvariant, ForgetsInvariant, PTL DEF Spec

NothingLate == late = {}

LEMMA NothingIsLate == ASSUME MaxLate = 0 PROVE Spec => []NothingLate
<1>1. Init => NothingLate
  BY DEF Init, NothingLate
<1>2. NothingLate /\ [Next]_vars => NothingLate'
  <2> SUFFICES ASSUME late = {}, [Next]_vars PROVE late' = {}
    BY DEF NothingLate
  <2>1. ~(Cardinality(late) < MaxLate)
    BY FS_EmptySet
  <2>2. ASSUME NEW h \in Handlers, NEW q \in Requests, StartRequest(h, q)
        PROVE  late' = late
    BY <2>2 DEF StartRequest, Begin, shared
  <2>3. CASE AutoSync
    BY <2>3 DEF AutoSync, Begin, shared
  <2>4. ASSUME NEW a \in Actors, Step(a) PROVE late' = late
    BY <2>1, <2>4 DEF Step, UnionRead, UnionMiss, Answered, Read, ReadFails,
       Write, WriteUnanswered, WriteLost, WriteTimesOut, Mark, Reply, shared
  <2>5. ASSUME NEW c \in Configs, SaveConfig(c) PROVE late' = late
    BY <2>5 DEF SaveConfig
  <2>6. CASE UNCHANGED vars
    BY <2>6 DEF vars
  <2> QED BY <2>2, <2>3, <2>4, <2>5, <2>6 DEF Next
<1> QED BY <1>1, <1>2, PTL DEF Spec

(***************************************************************************)
(* While no server answers late, only a request loses an agreed record,    *)
(* however many handlers there are.                                        *)
(***************************************************************************)
THEOREM AgreedRecordsAreKept ==
  ASSUME MaxLate = 0 PROVE Spec => AgreedRecordsStay
<1>1. ASSUME Shape, Truthful, Forgets, NothingLate, [Next]_vars
      PROVE  [\A r \in HeldByAll(rules) \ HeldByAll(rules') :
                \E a \in Actors :
                  /\ \E k \in Keys : Writing(a, k)
                  /\ \/ r \notin HeldByAll(before[a])
                     \/ Names(req[a], r)
                     \/ req[a].kind = "reconcile" /\ unread[a] = Keys]_vars
  BY <1>1, AgreedLoss DEF LostTo, NothingLate
<1> QED BY <1>1, NothingIsLate, TruthfulInvariant, ForgetsInvariant, PTL
        DEF Spec, AgreedRecordsStay

-----------------------------------------------------------------------------
(* One request at a time is one step of RuleService.                       *)

\* One handler, nothing late, and no auto-sync.
Single(h) ==
  /\ Handlers = {h}
  /\ MaxLate = 0
  /\ \A c \in Configs : ~c.auto

\* The handler is undisturbed, and serves a request that was submitted.
Alone(h) ==
  /\ pc[Worker] = "idle"
  /\ calm[h]
  /\ pc[h] # "idle" => req[h] \in Requests /\ snap[h] \in Configs
  /\ pc[h] = "reply" => outcome[h] # "none"

\* What a step of an actor does to its request, from the first call to the
\* answer.
Goes(a) ==
  /\ pc[a] \in Working /\ pc'[a] \in Working \cup {"reply"}
  /\ \A b \in Actors \ {a} : pc'[b] = pc[b]
  /\ req'[a] = req[a] /\ snap'[a] = snap[a]
  /\ before'[a] = before[a] /\ calm'[a] = calm[a]
  /\ pc'[a] # "reply" => lastSync' = lastSync

Answers(a) ==
  /\ outcome'[a] \in {"ok", "partial", "err"}
  /\ outcome'[a] = "partial" => failed'[a] # Targets(req[a], snap[a])
  /\ \/ /\ lastSync' = lastSync
        /\ outcome'[a] = "ok" => req[a].kind # "sync"
     \/ /\ lastSync' = Marker(req[a]) /\ req[a].kind = "sync"
        /\ failed'[a] = {}

LEMMA ProceedGoes ==
  ASSUME Shape, NEW a \in Actors, pc[a] \in {"read", "write"},
         NEW F, Proceed(a, F), req[a].kind = "sync" => F # {},
         UNCHANGED <<request, lastSync>>,
         before'[a] = before[a], calm'[a] = calm[a]
  PROVE  Goes(a) /\ (pc'[a] = "reply" => Answers(a))
<1> DEFINE left == todo[a] \ {NextKey(a)}
<1>1. /\ pc' = [pc EXCEPT ![a] = IF left = {} THEN "reply" ELSE "read"]
      /\ failed' = [failed EXCEPT ![a] = F]
      /\ outcome' = [outcome EXCEPT ![a] =
            IF left = {} THEN Result(F, Targets(req[a], snap[a])) ELSE "none"]
      /\ req' = req /\ snap' = snap /\ lastSync' = lastSync
  BY DEF Proceed, request
<1> HIDE DEF left
<1>2. Goes(a)
  BY <1>1 DEF Goes, Working, Shape, TypeOK
<1>3. ASSUME pc'[a] = "reply" PROVE Answers(a)
  <2>1. outcome'[a] = Result(F, Targets(req[a], snap[a])) /\ failed'[a] = F
    BY <1>1, <1>3 DEF Shape, TypeOK
  <2> QED BY <1>1, <2>1 DEF Answers, Result
<1> QED BY <1>2, <1>3

LEMMA FailGoes ==
  ASSUME Shape, NEW a \in Actors, pc[a] \in {"read", "write"}, Fail(a),
         UNCHANGED <<request, lastSync>>,
         before'[a] = before[a], calm'[a] = calm[a]
  PROVE  Goes(a) /\ (pc'[a] = "reply" => Answers(a))
<1> DEFINE F == failed[a] \cup {NextKey(a)}
<1>1. Proceed(a, F) /\ F # {}
  BY DEF Fail
<1> HIDE DEF F
<1> QED BY <1>1, ProceedGoes

LEMMA StepGoes ==
  ASSUME Shape, NEW a \in Actors, Step(a), ~Reply(a)
  PROVE  Goes(a) /\ (pc'[a] = "reply" => Answers(a))
<1>1. ASSUME NEW k \in Keys, UnionRead(a, k) \/ UnionMiss(a, k)
      PROVE  Goes(a) /\ pc'[a] # "reply"
  <2>1. /\ pc[a] = "union"
        /\ pc' = [pc EXCEPT ![a] = IF asking[a] = {k} THEN "read" ELSE "union"]
        /\ UNCHANGED <<shared, request, history>>
    BY <1>1 DEF UnionRead, UnionMiss, Answered
  <2> QED BY <2>1
          DEF Goes, Working, shared, request, history, Shape, TypeOK
<1>2. CASE Read(a)
  <2>1. CASE Fail(a)
    BY <1>2, <2>1, FailGoes DEF Read, shared, history
  <2>2. CASE ~Fail(a)
    BY <1>2, <2>2 DEF Read, Goes, Working, shared, request, history,
                      Shape, TypeOK
  <2> QED BY <2>1, <2>2
<1>3. CASE ReadFails(a)
  BY <1>3, FailGoes DEF ReadFails, shared, history
<1>4. CASE Write(a)
  <2>1. /\ pc[a] = "write" /\ UNCHANGED <<request, lastSync>>
        /\ before'[a] = before[a] /\ calm'[a] = calm[a]
    BY <1>4 DEF Write, Land, Disturb, Shape, TypeOK
  <2>2. CASE req[a].kind = "sync"
    BY <1>4, <2>1, <2>2 DEF Write, Goes, Working, request, Shape, TypeOK
  <2>3. CASE req[a].kind # "sync"
    BY <1>4, <2>1, <2>3, ProceedGoes DEF Write, Succeed
  <2> QED BY <2>2, <2>3
<1>5. CASE WriteUnanswered(a)
  <2>1. /\ pc[a] = "write" /\ UNCHANGED <<request, lastSync>> /\ Fail(a)
        /\ before'[a] = before[a] /\ calm'[a] = calm[a]
    BY <1>5 DEF WriteUnanswered, Land, Disturb, Shape, TypeOK
  <2> QED BY <2>1, FailGoes
<1>6. CASE WriteLost(a)
  BY <1>6, FailGoes DEF WriteLost, shared, history
<1>7. CASE WriteTimesOut(a)
  BY <1>7, FailGoes DEF WriteTimesOut, history
<1>8. CASE Mark(a)
  <2>1. /\ pc[a] = "mark" /\ req[a].kind = "sync" /\ failed[a] = {}
        /\ lastSync' = Marker(req[a])
        /\ pc' = [pc EXCEPT ![a] = "reply"]
        /\ UNCHANGED <<request, failed, history>>
    BY <1>8 DEF Mark, Shape, LoopOK, Working
  <2>2. outcome'[a] \in {"ok", "err"}
    BY <1>8 DEF Mark, Shape, TypeOK
  <2>3. Goes(a)
    BY <2>1 DEF Goes, Working, request, history, Shape, TypeOK
  <2> QED BY <2>1, <2>2, <2>3 DEF Answers
<1> QED BY <1>1, <1>2, <1>3, <1>4, <1>5, <1>6, <1>7, <1>8 DEF Step

\* With one handler and nothing late, only the handler and the admin page act.
LEMMA WhoActs ==
  ASSUME NEW h, Single(h), Shape, NothingLate, Alone(h), Next
  PROVE  \/ \E q \in Requests : Begin(h, q)
         \/ Step(h)
         \/ \E c \in Configs : SaveConfig(c)
<1>1. ~AutoSync
  BY DEF AutoSync, Single, Shape, TypeOK
<1>2. ~Step(Worker)
  BY DEF Alone, Step, UnionRead, UnionMiss, Answered, Read, ReadFails, Write,
         WriteUnanswered, WriteLost, WriteTimesOut, Mark, Reply
<1> QED BY <1>1, <1>2 DEF Next, StartRequest, Single, Actors, NothingLate

LEMMA AloneStep ==
  ASSUME NEW h, Single(h), Shape, NothingLate, Alone(h), [Next]_vars
  PROVE  Alone(h)'
<1>1. h \in Actors /\ Worker \in Actors /\ h # Worker
  BY WorkerAssumption DEF Single, Actors
<1>2. ASSUME NEW q \in Requests, Begin(h, q) PROVE Alone(h)'
  <2> DEFINE answer == IF Rejected(q, cfg) THEN "err"
                       ELSE IF NothingToDo(q) THEN "ok" ELSE "none"
             first  == IF q.kind = "reconcile" THEN "union" ELSE "read"
  <2>1. /\ pc'[h] = IF answer = "none" THEN first ELSE "reply"
        /\ outcome'[h] = answer /\ calm' = calm
        /\ pc'[Worker] = pc[Worker]
        /\ req'[h] = q /\ snap'[h] = cfg /\ cfg \in Configs
    BY <1>1, <1>2 DEF Begin, Shape, TypeOK
  <2> QED BY <2>1 DEF Alone
<1>3. CASE Step(h)
  <2>1. CASE Reply(h)
    BY <1>1, <2>1 DEF Reply, Alone, Shape, TypeOK
  <2>2. CASE ~Reply(h)
    <3>1. Goes(h) /\ (pc'[h] = "reply" => Answers(h))
      BY <1>1, <1>3, <2>2, StepGoes
    <3> QED BY <1>1, <3>1 DEF Goes, Answers, Alone, Working
  <2> QED BY <2>1, <2>2
<1>4. ASSUME NEW c \in Configs, SaveConfig(c) PROVE Alone(h)'
  BY <1>4 DEF SaveConfig, request, loop, history, Alone
<1>5. CASE UNCHANGED vars
  BY <1>5 DEF vars, Alone
<1> QED BY <1>2, <1>3, <1>4, <1>5, WhoActs

LEMMA AloneInvariant ==
  ASSUME NEW h, Single(h) PROVE Spec => []Alone(h)
<1>1. Init => Alone(h)
  BY DEF Init, Alone, Single, Actors
<1>2. Shape /\ NothingLate /\ Alone(h) /\ [Next]_vars => Alone(h)'
  BY AloneStep
<1>3. Spec => []NothingLate
  BY NothingIsLate DEF Single
<1> QED BY <1>1, <1>2, <1>3, ShapeInvariant, PTL DEF Spec

\* The service's operators are those of this module.
LEMMA ServiceOperators ==
  /\ Service!Keys = Keys
  /\ \A c : Service!ServerKeys(c) = ServerKeys(c)
  /\ \A q, c : Service!Rejected(q, c) = Rejected(q, c)
  /\ \A q, c : Service!Targets(q, c) = Targets(q, c)
  /\ \A q : Service!Marker(q) = Marker(q)
  /\ \A q, c, seen, b : Service!Effect(q, c, seen, b) = Effect(q, c, seen, b)
<1>1. Service!Keys = Keys
  BY DEF Service!Keys, Keys
<1>2. ASSUME NEW c PROVE Service!ServerKeys(c) = ServerKeys(c)
  BY DEF Service!ServerKeys, ServerKeys, Service!Keys, Keys
<1>3. ASSUME NEW q, NEW c
      PROVE  /\ Service!Rejected(q, c) = Rejected(q, c)
             /\ Service!NothingToDo(q) = NothingToDo(q)
  BY <1>2 DEF Service!Rejected, Rejected, Service!NothingToDo, NothingToDo
<1>4. ASSUME NEW q, NEW c PROVE Service!Targets(q, c) = Targets(q, c)
  BY <1>2, <1>3 DEF Service!Targets, Targets, Service!Destination, Destination
<1>5. ASSUME NEW q PROVE Service!Marker(q) = Marker(q)
  BY DEF Service!Marker, Marker
<1>6. ASSUME NEW S PROVE Service!RecordsOf(S) = RecordsOf(S)
  BY DEF Service!RecordsOf, RecordsOf, Service!OfKind, OfKind
<1>7. ASSUME NEW b, NEW seen
      PROVE  Service!UnionRecords(b, seen) = UnionRecords(b, seen)
  BY <1>6 DEF Service!UnionRecords, UnionRecords
<1>8. ASSUME NEW q, NEW S, NEW U
      PROVE  Service!Payload(q, S, U) = Payload(q, S, U)
  <2>1. /\ Service!MergeWhitelist(S, q.domains) = MergeWhitelist(S, q.domains)
        /\ Service!Passthrough(S) = Passthrough(S)
    BY DEF Service!MergeWhitelist, MergeWhitelist, Service!OfKind, OfKind,
           Service!AllowLine, AllowLine, Service!Passthrough, Passthrough
  <2>2. \A R : Service!RebuildRules(Passthrough(S), R)
                 = RebuildRules(Passthrough(S), R)
    BY DEF Service!RebuildRules, RebuildRules, Service!DnsLine, DnsLine
  <2>3. \A R : Service!NewRecords(q, R, U) = NewRecords(q, R, U)
    BY DEF Service!NewRecords, NewRecords
  <2> QED BY <1>6, <2>1, <2>2, <2>3 DEF Service!Payload, Payload
<1>9. ASSUME NEW q, NEW k PROVE Service!ReadFrom(q, k) = ReadFrom(q, k)
  BY DEF Service!ReadFrom, ReadFrom, Service!Source, Source
<1>10. ASSUME NEW q, NEW c, NEW seen, NEW b
       PROVE  Service!Effect(q, c, seen, b) = Effect(q, c, seen, b)
  BY <1>1, <1>4, <1>7, <1>8, <1>9 DEF Service!Effect, Effect
<1> QED BY <1>1, <1>2, <1>3, <1>4, <1>5, <1>10

\* What the user sees: the substitutions of Service.
SeenRules == IF Running = {} THEN rules
             ELSE before[CHOOSE a \in Running : TRUE]
SeenToast == IF Replying = {} THEN "none"
             ELSE outcome[CHOOSE a \in Replying : TRUE]

LEMMA WhatIsSeen ==
  ASSUME NEW h, Single(h), Shape, Alone(h)
  PROVE  /\ SeenRules = IF pc[h] \in Working THEN before[h] ELSE rules
         /\ SeenToast = IF pc[h] = "reply" THEN outcome[h] ELSE "none"
<1>1. Running = IF pc[h] \in Working THEN {h} ELSE {}
  BY DEF Running, Actors, Single, Alone, Working, Shape, TypeOK
<1>2. Replying = IF pc[h] = "reply" THEN {h} ELSE {}
  BY DEF Replying, Actors, Single, Alone
<1>3. (CHOOSE a \in {h} : TRUE) = h
  OBVIOUS
<1> QED BY <1>1, <1>2, <1>3 DEF SeenRules, SeenToast, Working

LEMMA WhatIsSeenNext ==
  ASSUME NEW h, Single(h), Shape', Alone(h)'
  PROVE  /\ SeenRules' = IF pc'[h] \in Working THEN before'[h] ELSE rules'
         /\ SeenToast' = IF pc'[h] = "reply" THEN outcome'[h] ELSE "none"
<1>1. Running' = IF pc'[h] \in Working THEN {h} ELSE {}
  BY DEF Running, Actors, Single, Alone, Working, Shape, TypeOK
<1>2. Replying' = IF pc'[h] = "reply" THEN {h} ELSE {}
  BY DEF Replying, Actors, Single, Alone
<1>3. (CHOOSE a \in {h} : TRUE) = h
  OBVIOUS
<1> QED BY <1>1, <1>2, <1>3 DEF SeenRules, SeenToast, Working

\* A request of the service, in this module's words.
Applies(q, c, S, seen) ==
  /\ SeenToast = "none"
  /\ \/ SeenToast' = "ok" /\ S = Targets(q, c) /\ ~Rejected(q, c)
     \/ SeenToast' = "partial" /\ S # {}
     \/ SeenToast' = "err"
  /\ SeenRules' = [k \in Keys |->
                     IF k \in S THEN Effect(q, c, seen, SeenRules)[k]
                                ELSE SeenRules[k]]
  /\ IF q.kind = "sync" /\ S # {}
       THEN lastSync' \in IF SeenToast' = "ok" THEN {Marker(q)}
                                               ELSE {Marker(q), lastSync}
       ELSE UNCHANGED lastSync

LEMMA ServiceStep ==
  ASSUME NEW q \in Requests, NEW c \in Configs,
         NEW S \in SUBSET Targets(q, c), NEW seen \in SUBSET ServerKeys(c),
         Applies(q, c, S, seen)
  PROVE  Service!Next
<1>1. Service!Apply(q, c, S, seen)
  BY ServiceOperators DEF Applies, SeenRules, SeenToast, Service!Apply
<1>2. /\ S \in SUBSET Service!Targets(q, c)
      /\ seen \in SUBSET Service!ServerKeys(c)
  BY ServiceOperators
<1> QED BY <1>1, <1>2 DEF Service!Next

\* A request that is answered without a call.
LEMMA BeginServes ==
  ASSUME NEW h, Single(h), Shape, Alone(h), Shape', Alone(h)',
         NEW q \in Requests, Begin(h, q)
  PROVE  Service!Next \/ UNCHANGED <<SeenRules, SeenToast, lastSync>>
<1> DEFINE answer == IF Rejected(q, cfg) THEN "err"
                     ELSE IF NothingToDo(q) THEN "ok" ELSE "none"
           first  == IF q.kind = "reconcile" THEN "union" ELSE "read"
<1>1. /\ pc[h] = "idle" /\ h \in Actors
      /\ pc'[h] = IF answer = "none" THEN first ELSE "reply"
      /\ outcome'[h] = answer /\ before'[h] = rules
      /\ rules' = rules /\ lastSync' = lastSync /\ cfg \in Configs
  BY DEF Begin, shared, Single, Actors, Shape, TypeOK
<1>2. SeenRules = rules /\ SeenToast = "none"
  BY <1>1, WhatIsSeen DEF Working
<1>3. /\ SeenRules' = IF pc'[h] \in Working THEN before'[h] ELSE rules'
      /\ SeenToast' = IF pc'[h] = "reply" THEN outcome'[h] ELSE "none"
  BY WhatIsSeenNext
<1>4. CASE answer = "none"
  BY <1>1, <1>2, <1>3, <1>4 DEF Working
<1>5. CASE answer # "none"
  <2>1. /\ SeenToast' = answer /\ SeenRules' = rules
        /\ Targets(q, cfg) = {}
    BY <1>1, <1>3, <1>5 DEF Working, Targets
  <2>2. rules = [k \in Keys |-> rules[k]]
    BY DEF Shape, TypeOK
  <2>3. Applies(q, cfg, {}, {})
    BY <1>1, <1>2, <1>5, <2>1, <2>2 DEF Applies
  <2> QED BY <1>1, <2>3, ServiceStep
<1> QED BY <1>4, <1>5

\* The step with which a request is done is when it takes effect, on the
\* servers that now are as it wanted them.
LEMMA AnswerServes ==
  ASSUME NEW h, Single(h), Shape, Alone(h), Shape', Truthful', Alone(h)',
         Goes(h), pc'[h] = "reply", Answers(h)
  PROVE  Service!Next
<1> DEFINE q    == req[h]
           c    == snap[h]
           T    == Targets(q, c)
           seen == Seen(h)'
           W    == Effect(q, c, seen, before[h])
           S    == {k \in T : rules'[k] = W[k]}
<1>1. /\ h \in Actors /\ pc[h] \in Working
      /\ req'[h] = q /\ snap'[h] = c /\ before'[h] = before[h] /\ calm'[h]
      /\ q \in Requests /\ c \in Configs
      /\ q \in Request /\ c \in Config /\ ~Rejected(q, c)
  BY RequestsAssumption, ConfigsAssumption
  DEF Goes, Alone, Single, Actors, Working, Shape, RequestOK
<1>2. SeenRules = before[h] /\ SeenToast = "none"
  BY <1>1, WhatIsSeen DEF Working
<1>3. SeenRules' = rules' /\ SeenToast' = outcome'[h]
  BY WhatIsSeenNext DEF Working
<1>4. T \subseteq Keys
  BY <1>1, TargetsType
<1>5. seen \in SUBSET ServerKeys(c)
  BY <1>1 DEF Seen
<1>6. /\ Done(h)' = T /\ Wanted(h)' = W
      /\ failed'[h] \subseteq T
      /\ \A k \in Keys : Landed(h, k)'
      /\ outcome'[h] = "ok" => failed'[h] = {}
  <2>1. todo'[h] = {} /\ (outcome'[h] = "ok" => failed'[h] = {})
    BY <1>1 DEF Shape, LoopOK
  <2>2. Done(h)' = T /\ Wanted(h)' = W
    BY <1>1, <2>1 DEF Done, Wanted
  <2>3. failed'[h] \subseteq Done(h)' /\ \A k \in Keys : Landed(h, k)'
    BY <1>1 DEF Truthful, OnTrack
  <2> QED BY <2>1, <2>2, <2>3
<1>7. \A k \in Keys :
        rules'[k] = IF k \in S THEN W[k] ELSE before[h][k]
  BY <1>1, <1>6 DEF Landed
<1>8. \A k \in T \ failed'[h] : k \in S
  BY <1>4, <1>6 DEF Landed
<1>9. rules' = [k \in Keys |-> rules'[k]]
  BY DEF Shape, TypeOK
<1>10. T # {}
  BY <1>1, TargetsType DEF Shape, RequestOK
<1> HIDE DEF T, seen, W, S
<1>11. rules' = [k \in Keys |-> IF k \in S THEN W[k] ELSE before[h][k]]
  BY <1>7, <1>9
<1>12. S \subseteq T
  BY DEF S
<1>13. \/ outcome'[h] = "ok" /\ S = T
       \/ outcome'[h] = "partial" /\ S # {}
       \/ outcome'[h] = "err"
  <2>1. outcome'[h] = "partial" => failed'[h] # T
    BY DEF Answers, T
  <2> QED BY <1>6, <1>8, <1>12, <2>1 DEF Answers
<1>14. IF q.kind = "sync" /\ S # {}
         THEN lastSync' \in IF outcome'[h] = "ok" THEN {Marker(q)}
                                                  ELSE {Marker(q), lastSync}
         ELSE UNCHANGED lastSync
  BY <1>8, <1>10 DEF Answers
<1>15. Applies(q, c, S, seen)
  BY <1>1, <1>2, <1>3, <1>11, <1>13, <1>14 DEF Applies, T, W
<1> QED BY <1>1, <1>5, <1>12, <1>15, ServiceStep DEF T

LEMMA ReplyServes ==
  ASSUME NEW h, Single(h), Shape, Alone(h), Shape', Alone(h)', Reply(h)
  PROVE  Service!Next
<1>1. /\ pc[h] = "reply" /\ pc'[h] = "idle" /\ outcome[h] # "none"
      /\ rules' = rules /\ lastSync' = lastSync
  BY DEF Reply, shared, Alone, Single, Actors, Shape, TypeOK
<1>2. SeenRules = rules /\ SeenToast # "none"
  BY <1>1, WhatIsSeen DEF Working
<1>3. SeenRules' = rules /\ SeenToast' = "none"
  BY <1>1, WhatIsSeenNext DEF Working
<1>4. Service!Dismiss
  BY <1>1, <1>2, <1>3 DEF Service!Dismiss, SeenRules, SeenToast
<1> QED BY <1>4 DEF Service!Next

LEMMA NextServes ==
  ASSUME NEW h, Single(h), Shape, NothingLate, Alone(h),
         Shape', Truthful', Alone(h)', [Next]_vars
  PROVE  Service!Next \/ UNCHANGED <<SeenRules, SeenToast, lastSync>>
<1>1. ASSUME NEW q \in Requests, Begin(h, q)
      PROVE  Service!Next \/ UNCHANGED <<SeenRules, SeenToast, lastSync>>
  BY <1>1, BeginServes
<1>2. CASE Step(h)
  <2>1. CASE Reply(h)
    BY <2>1, ReplyServes
  <2>2. CASE ~Reply(h)
    <3>1. Goes(h) /\ (pc'[h] = "reply" => Answers(h))
      BY <1>2, <2>2, StepGoes DEF Single, Actors
    <3>2. CASE pc'[h] = "reply"
      BY <3>1, <3>2, AnswerServes
    <3>3. CASE pc'[h] # "reply"
      <4>1. /\ pc[h] \in Working /\ pc'[h] \in Working
            /\ before'[h] = before[h] /\ lastSync' = lastSync
        BY <3>1, <3>3 DEF Goes
      <4>2. SeenRules = before[h] /\ SeenToast = "none"
        BY <4>1, WhatIsSeen DEF Working
      <4>3. SeenRules' = before'[h] /\ SeenToast' = "none"
        BY <4>1, WhatIsSeenNext DEF Working
      <4> QED BY <4>1, <4>2, <4>3
    <3> QED BY <3>2, <3>3
  <2> QED BY <2>1, <2>2
<1>3. ASSUME NEW c \in Configs, SaveConfig(c)
      PROVE  UNCHANGED <<SeenRules, SeenToast, lastSync>>
  BY <1>3 DEF SaveConfig, loop, history, SeenRules, SeenToast, Running,
              Replying
<1>4. CASE UNCHANGED vars
  BY <1>4 DEF vars, SeenRules, SeenToast, Running, Replying
<1> QED BY <1>1, <1>2, <1>3, <1>4, WhoActs

(***************************************************************************)
(* One request at a time, a request is one step: whatever fails, the user  *)
(* who waits for each toast sees it take effect on some of its servers at  *)
(* once, and the toast claims no more than that.  (One handler, no         *)
(* auto-sync and nothing late; any requests, configurations, rules and     *)
(* faults.)                                                                *)
(***************************************************************************)
THEOREM RequestsAreAtomic ==
  ASSUME NEW h, Handlers = {h}, MaxLate = 0, \A c \in Configs : ~c.auto
  PROVE  Spec => ImplementsService
<1>1. Single(h)
  BY DEF Single
<1>2. Init => Service!Init
  <2> SUFFICES ASSUME Init PROVE Service!Init
    OBVIOUS
  <2>1. Running = {} /\ Replying = {}
    BY DEF Init, Running, Replying
  <2>2. NeverSynced = Service!NeverSynced
    BY DEF NeverSynced, Service!NeverSynced
  <2> QED BY <2>1, <2>2 DEF Init, Service!Init
<1>3. /\ Shape /\ Truthful /\ NothingLate /\ Alone(h)
      /\ (Shape /\ Truthful /\ NothingLate /\ Alone(h))' /\ [Next]_vars
      => [Service!Next]_(Service!vars)
  <2> SUFFICES ASSUME Shape, NothingLate, Alone(h), Shape', Truthful',
                      Alone(h)', [Next]_vars
               PROVE  [Service!Next]_(Service!vars)
    OBVIOUS
  <2>1. Service!Next \/ UNCHANGED <<SeenRules, SeenToast, lastSync>>
    BY <1>1, NextServes
  <2> QED BY <2>1 DEF Service!vars, SeenRules, SeenToast
<1>4. Spec => [](Shape /\ Truthful /\ NothingLate /\ Alone(h))
  BY <1>1, TruthfulInvariant, NothingIsLate, AloneInvariant, PTL
<1> QED BY <1>2, <1>3, <1>4, PTL DEF Spec, ImplementsService, Service!Spec
=============================================================================
