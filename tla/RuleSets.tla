------------------------------ MODULE RuleSets ------------------------------
(***************************************************************************)
(* The user_rules of one AdGuard Home server, and what the panel computes  *)
(* from them.  AdGuard gives the same answers whatever the order of the    *)
(* lines and however often one is repeated, so a rule list is a SET of     *)
(* lines here; RuleLines keeps the sequences and their spelling, and is    *)
(* shown to implement what is said in this module.                         *)
(*                                                                         *)
(* The panel tells three kinds of line apart:                              *)
(*   "dns"    ||domain^$dnsrewrite=NOERROR;TYPE;VALUE, a managed record    *)
(*   "allow"  a line that starts with @@||                                 *)
(*   "other"  everything else: block rules, comments, short rewrites       *)
(***************************************************************************)

CONSTANTS
  Records,   \* the domain/type/value triples that validateDNS accepts
  NoRecord,  \* blank or rejected form fields
  Allows,    \* what an allow line can say (its domain and any modifiers)
  Others     \* the lines the panel does not own

ASSUME NoRecordAssumption == NoRecord \notin Records

DnsLine(r)   == [kind |-> "dns", val |-> r]
AllowLine(d) == [kind |-> "allow", val |-> d]
OtherLine(o) == [kind |-> "other", val |-> o]

Line == {DnsLine(r) : r \in Records}
          \cup {AllowLine(d) : d \in Allows}
          \cup {OtherLine(o) : o \in Others}

OfKind(S, kind) == {l \in S : l.kind = kind}

(***************************************************************************)
(* splitDNS: the managed records of a rule list and the lines it passes    *)
(* through; rebuildRules puts the two together again.                      *)
(***************************************************************************)
RecordsOf(S) == {l.val : l \in OfKind(S, "dns")}

Passthrough(S) == S \ OfKind(S, "dns")

\* Mutant: the lines the panel does not own are forgotten.
RebuildRecordsOnly(pass, recs) == {DnsLine(r) : r \in recs}

RebuildRules(pass, recs) == pass \cup {DnsLine(r) : r \in recs}

\* Mutant: the old allow lines are kept.
AddToWhitelist(S, domains) == S \cup {AllowLine(d) : d \in domains}

(***************************************************************************)
(* mergeWhitelist: every line but the allow lines is kept and the allow    *)
(* lines are replaced by those of the editor.                              *)
(***************************************************************************)
MergeWhitelist(S, domains) ==
  (S \ OfKind(S, "allow")) \cup {AllowLine(d) : d \in domains}
=============================================================================
