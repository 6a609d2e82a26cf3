------------------------- MODULE RuleReplicationMC -------------------------
(***************************************************************************)
(* Small instances of RuleReplication for TLC.  Both servers start with    *)
(* record r1, and only the backup with r2; each has a line of its own.     *)
(***************************************************************************)
EXTENDS RuleReplication, TLC

CONSTANTS r1, r2, a1, a2, o1, o2, h1, h2

StartingRules ==
  {[master |-> {DnsLine(r1), AllowLine(a1), OtherLine(o1)},
    backup |-> {DnsLine(r1), DnsLine(r2), OtherLine(o2)}]}

\* The same, or with a master that has been reinstalled.
StartingRulesOrEmpty ==
  StartingRules \cup {[b EXCEPT !["master"] = {}] : b \in StartingRules}

\* The backup has the same whitelist as the master but neither its record nor
\* its other line.
FewRules ==
  {[master |-> {DnsLine(r1), AllowLine(a1), OtherLine(o1)},
    backup |-> {AllowLine(a1), OtherLine(o2)}]}

\* The servers disagree, and a deletion can leave the master without rules.
Diverged ==
  {[master |-> {DnsLine(r1)}, backup |-> {OtherLine(o2)}]}

Add(r) == [kind |-> "save", rec |-> r, old |-> NoRecord]
Edit(old, r) == [kind |-> "save", rec |-> r, old |-> old]
Remove(r) == [kind |-> "delete", rec |-> r]
Reconcile == [kind |-> "reconcile"]
Whitelist(k, ds) == [kind |-> "whitelist", key |-> k, domains |-> ds]
Sync(d) == [kind |-> "sync", direction |-> d, auto |-> FALSE]

EveryKindOfRequest ==
  {Edit(r1, NoRecord), Edit(r1, r2), Edit(r1, r1), Remove(r2),
   Reconcile, Whitelist("backup", {a1}),
   Sync("master_to_backup"), Sync("backup_to_master"), Sync("invalid")}

ConflictingRequests ==
  {Edit(r1, r2), Whitelist("master", {a2}), Sync("master_to_backup")}

OneRemoval == {Remove(r1)}

TwoSaves == {Add(r1), Add(r2)}

Setup(b, auto, d) == [backup |-> b, auto |-> auto, direction |-> d]
Manual == {Setup(TRUE, FALSE, "master_to_backup"),
           Setup(FALSE, FALSE, "master_to_backup")}
ManualBoth == {Setup(TRUE, FALSE, "master_to_backup")}
AutoBoth == {Setup(TRUE, TRUE, "master_to_backup")}
HandlerSymmetry == Permutations(Handlers)

AutoOnOff == AutoBoth \cup ManualBoth
=============================================================================
