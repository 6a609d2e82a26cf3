---------------------------- MODULE RuleService ----------------------------
(***************************************************************************)
(* What the panel promises of its rule requests when they come one at a    *)
(* time: a request takes effect on some of the servers it is meant for, in *)
(* one step, and the toast does not claim more than that.  RuleReplication *)
(* is shown to implement it.                                               *)
(***************************************************************************)
EXTENDS RuleRequests

CONSTANTS
  Requests,      \* the requests that are submitted
  Configs,       \* the configurations they may find
  InitialRules   \* the rules the servers may start with

VARIABLES
  rules,     \* the rules of each server
  toast,     \* the answer on the screen
  lastSync   \* the marker on the dashboard

vars == <<rules, toast, lastSync>>

Init ==
  /\ rules \in InitialRules
  /\ toast = "none"
  /\ lastSync = NeverSynced

(***************************************************************************)
(* Request q, read under configuration c, lands on the servers in S; a     *)
(* reconcile merges the records of the servers in seen.  The three toasts: *)
(* "ok" promises that every server meant was written, "partial" that one   *)
(* was, and "err" promises nothing, since an answer can be lost after the  *)
(* write.  The marker moves only with a sync that landed.                  *)
(***************************************************************************)
Apply(q, c, S, seen) ==
  /\ toast = "none"
  /\ \/ toast' = "ok" /\ S = Targets(q, c) /\ ~Rejected(q, c)
     \/ toast' = "partial" /\ S # {}
     \/ toast' = "err"
  /\ rules' = [k \in Keys |-> IF k \in S THEN Effect(q, c, seen, rules)[k]
                                         ELSE rules[k]]
  /\ IF q.kind = "sync" /\ S # {}
       THEN lastSync' \in IF toast' = "ok" THEN {Marker(q)}
                                           ELSE {Marker(q), lastSync}
       ELSE UNCHANGED lastSync

Dismiss ==
  /\ toast # "none"
  /\ toast' = "none"
  /\ UNCHANGED <<rules, lastSync>>

Next ==
  \/ \E q \in Requests, c \in Configs :
       \E S \in SUBSET Targets(q, c), seen \in SUBSET ServerKeys(c) :
         Apply(q, c, S, seen)
  \/ Dismiss

Spec == Init /\ [][Next]_vars
=============================================================================
