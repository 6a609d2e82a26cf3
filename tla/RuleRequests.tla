---------------------------- MODULE RuleRequests ----------------------------
(***************************************************************************)
(* The requests that change the rules of the two AdGuard servers: which    *)
(* servers each one writes under a given configuration, what it writes     *)
(* there, and the effect it is meant to have on both servers.              *)
(***************************************************************************)
EXTENDS RuleSets

Keys == {"master", "backup"}

Directions == {"master_to_backup", "backup_to_master"}

(***************************************************************************)
(* The part of the configuration snapshot these requests read: HasBackup,  *)
(* and the auto-sync switch and direction.  The file's decoder keeps both  *)
(* server entries of the defaults and the admin page writes both, so       *)
(* "master" is always defined and the flag alone decides HasBackup.        *)
(***************************************************************************)
Config == [backup : BOOLEAN, auto : BOOLEAN, direction : Directions]

ServerKeys(c) == IF c.backup THEN Keys ELSE {"master"}

SaveRequest == [kind : {"save"}, rec : Records \cup {NoRecord},
                old : Records \cup {NoRecord}]
DeleteRequest == [kind : {"delete"}, rec : Records \cup {NoRecord}]
ReconcileRequest == [kind : {"reconcile"}]
WhitelistRequest == [kind : {"whitelist"}, key : Keys, domains : SUBSET Allows]
SyncRequest == [kind : {"sync"}, direction : Directions \cup {"invalid"},
                auto : BOOLEAN]

Request == SaveRequest \cup DeleteRequest \cup ReconcileRequest
             \cup WhitelistRequest \cup SyncRequest

Source(direction) ==
  IF direction = "master_to_backup" THEN "master" ELSE "backup"
Destination(direction) ==
  IF direction = "master_to_backup" THEN "backup" ELSE "master"

\* The last-sync marker: no sync yet, or the label of the last one.
NeverSynced == [direction |-> "none", auto |-> FALSE]
Marker(q) == [direction |-> q.direction, auto |-> q.auto]

\* Mutant: a record that is not valid is not refused.
RejectedUnvalidated(q, c) ==
  \/ q.kind = "reconcile" /\ ~c.backup
  \/ q.kind = "whitelist" /\ q.key \notin ServerKeys(c)
  \/ q.kind = "sync" /\ (~c.backup \/ q.direction = "invalid")

\* The early returns with an error toast, before any server is contacted.
Rejected(q, c) ==
  \/ q.kind = "save" /\ q.rec = NoRecord
  \/ q.kind = "reconcile" /\ ~c.backup
  \/ q.kind = "whitelist" /\ q.key \notin ServerKeys(c)
  \/ q.kind = "sync" /\ (~c.backup \/ q.direction = "invalid")

\* An edit that changes nothing is answered "updated" at once.
NothingToDo(q) == q.kind = "save" /\ q.old = q.rec

\* The servers a request writes to.
Targets(q, c) ==
  IF Rejected(q, c) \/ NothingToDo(q) THEN {}
  ELSE IF q.kind = "whitelist" THEN {q.key}
  ELSE IF q.kind = "sync" THEN {Destination(q.direction)}
  ELSE ServerKeys(c)

\* The server whose rules the write to k is computed from.
ReadFrom(q, k) == IF q.kind = "sync" THEN Source(q.direction) ELSE k

\* The apply functions of the three record operations.
NewRecords(q, recs, union) ==
  IF q.kind = "save" THEN (recs \ {q.old}) \cup {q.rec}
  ELSE IF q.kind = "delete" THEN recs \ {q.rec}
  ELSE union

\* What is pushed with set_rules, from the rules that were read.
Payload(q, read, union) ==
  IF q.kind = "sync" THEN read
  ELSE IF q.kind = "whitelist" THEN MergeWhitelist(read, q.domains)
  ELSE RebuildRules(Passthrough(read), NewRecords(q, RecordsOf(read), union))

\* The deduplicated union of the records of the servers that could be read.
UnionRecords(b, seen) == UNION {RecordsOf(b[k]) : k \in seen}

(***************************************************************************)
(* What request q is meant to do to the rules b of both servers under      *)
(* configuration c, when its union was made from the servers in seen.      *)
(***************************************************************************)
Effect(q, c, seen, b) ==
  [k \in Keys |->
     IF k \in Targets(q, c)
       THEN Payload(q, b[ReadFrom(q, k)], UnionRecords(b, seen))
       ELSE b[k]]
=============================================================================
