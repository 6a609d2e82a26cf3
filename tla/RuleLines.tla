------------------------------ MODULE RuleLines ------------------------------
(***************************************************************************)
(* The rule requests line by line: each server keeps a SEQUENCE of lines   *)
(* of text, with repeated lines, several spellings of one record and allow *)
(* rules with modifiers, and a request rewrites it.  Here a request runs   *)
(* alone and every call succeeds (RuleReplication has the interleavings    *)
(* and the failures); what is checked is that the list functions do to the *)
(* text what RuleRequests says they do to the sets of lines.               *)
(***************************************************************************)
EXTENDS RuleText

CONSTANTS
  RecordForms,  \* what the record form is filled in with
  EditorTexts,  \* what the whitelist editor may contain, as lists of lines
  InitialLists  \* the rule lists the servers may start with

ASSUME FormsAssumption ==
  RecordForms \subseteq Fields
ASSUME ListsAssumption == EditorTexts \cup InitialLists \subseteq Seq(Text)

VARIABLE list   \* the user_rules of each server

Keys == {"master", "backup"}

Init == list \in [Keys -> InitialLists]

-----------------------------------------------------------------------------
\* The loop over a list that copies the elements it is to keep.
Keep(seq, wanted) ==
  LET kept[n \in 0 .. Len(seq)] ==
        IF n = 0 THEN <<>>
        ELSE IF seq[n] \in wanted THEN Append(kept[n - 1], seq[n])
        ELSE kept[n - 1]
  IN kept[Len(seq)]

IsRecord(line) == ParseDNSRecord(line) # NotARecord

\* The two results of splitDNS.
Passthrough(lines) == Keep(lines, {l \in Text : ~IsRecord(l)})
RecordList(lines) ==
  LET records == Keep(lines, {l \in Text : IsRecord(l)})
  IN [i \in DOMAIN records |-> ParseDNSRecord(records[i])]

\* Mutant: repeated lines are written once.
RebuildOnce(lines, recs) ==
  FoldLeft(LAMBDA seen, l : IF Contains(seen, l) THEN seen
                                                 ELSE Append(seen, l),
           <<>>, Passthrough(lines))
    \o [i \in DOMAIN recs |-> BuildDNSRule(recs[i])]

Rebuild(lines, recs) ==
  Passthrough(lines) \o [i \in DOMAIN recs |-> BuildDNSRule(recs[i])]

\* Mutants: a record is added again; only its first copy is dropped.
AddAgain(recs, r) == Append(recs, r)
DropFirst(recs, r) == RemoveFirst(recs, r)

Add(recs, r) == IF Contains(recs, r) THEN recs ELSE Append(recs, r)
Drop(recs, r) == Keep(recs, {e \in Fields : e # r})
Dedup(recs) ==
  LET seen[n \in 0 .. Len(recs)] ==
        IF n = 0 THEN <<>> ELSE Add(seen[n - 1], recs[n])
  IN seen[Len(recs)]

\* dnsUnionRecords goes through the servers in the order of ServerKeys.
UnionList == Dedup(RecordList(list["master"]) \o RecordList(list["backup"]))

\* The domains of the whitelist editor, one per line.
WhitelistDomains(lines) ==
  LET allows  == Keep(lines, {l \in Text : IsAllowRule(l)})
      domains == [i \in DOMAIN allows |-> CleanRule(allows[i])]
  IN Keep(domains, {d \in Text : d # NoText})

NotAllow(lines) == Keep(lines, {l \in Text : ~IsAllowRule(l)})

\* The lines the editor's text stands for.
AllowRules(text) ==
  LET typed   == [i \in DOMAIN text |-> CleanRule(TrimSpace(text[i]))]
      domains == Keep(typed, {d \in Text : d # NoText})
  IN [i \in DOMAIN domains |-> BuildAllowRule(domains[i])]

\* Mutant: the records are not carried over.
MergeIntoOthers(lines, text) ==
  NotAllow(Passthrough(lines)) \o AllowRules(text)

MergeWhitelist(lines, text) == NotAllow(lines) \o AllowRules(text)

-----------------------------------------------------------------------------
\* Every server's records, rewritten by apply.
ApplyToAll(apply(_)) ==
  \E read \in {[k \in Keys |-> RecordList(list[k])]} :
    \E recs \in {[k \in Keys |-> apply(read[k])]} :
      list' = [k \in Keys |-> Rebuild(list[k], recs[k])]

AddRecord(form) ==
  LET rec == ValidateDNS(form)
  IN /\ rec # NotARecord
     /\ ApplyToAll(LAMBDA recs : Add(recs, rec))

EditRecord(form, oldForm) ==
  LET rec == ValidateDNS(form)
      old == Named(oldForm)
  IN /\ rec # NotARecord
     /\ NoText \notin {old.domain, old.type, old.value}
     /\ old # rec
     /\ ApplyToAll(LAMBDA recs : Add(Drop(recs, old), rec))

DeleteRecord(form) == ApplyToAll(LAMBDA recs : Drop(recs, Named(form)))

Reconcile == LET union == UnionList IN ApplyToAll(LAMBDA recs : union)

Whitelist(k, text) ==
  list' = [list EXCEPT ![k] = MergeWhitelist(@, text)]

Sync(src, dst) ==
  /\ src # dst
  /\ list[src] # <<>>
  /\ list' = [list EXCEPT ![dst] = list[src]]

\* groupByBaseDomain: the rows under each zone; their order is left out.
Row(r) == [host |-> RelativeHost(r.domain, BaseDomain(r.domain)),
           domain |-> r.domain, type |-> r.type, value |-> r.value]
GroupByBaseDomain(recs) ==
  LET zones == {BaseDomain(r.domain) : r \in recs}
  IN {[domain  |-> z,
       records |-> {Row(r) : r \in {q \in recs : BaseDomain(q.domain) = z}}] :
         z \in zones}

\* The DNS page; its rows fill the edit and the delete form.
Page == GroupByBaseDomain(ToSet(UnionList))
Rows == {[domain |-> row.domain, type |-> row.type, value |-> row.value] :
           row \in UNION {group.records : group \in Page}}

RecordRequest ==
  \/ \E f \in RecordForms : AddRecord(f)
  \/ \E f \in RecordForms, row \in Rows : EditRecord(f, row)
  \/ \E row \in Rows : DeleteRecord(row)
  \/ Reconcile

EditorRequest == \E k \in Keys, text \in EditorTexts : Whitelist(k, text)

SyncRequest == \E src, dst \in Keys : Sync(src, dst)

Next == RecordRequest \/ EditorRequest \/ SyncRequest

Spec == Init /\ [][Next]_list

-----------------------------------------------------------------------------
Copies(recs, r) == Cardinality({i \in DOMAIN recs : recs[i] = r})

(***************************************************************************)
(* The record requests never touch a line they do not own: the other lines *)
(* stay, with their text, their order and their repetitions.  (splitDNS:   *)
(* "a rebuild never drops a line it does not own".)                        *)
(***************************************************************************)
ForeignLinesVerbatim ==
  [][\A k \in Keys : \/ Passthrough(list'[k]) = Passthrough(list[k])
                     \/ EditorRequest
                     \/ SyncRequest]_list

(***************************************************************************)
(* The whitelist editor never touches a line that is not an allow rule,    *)
(* the records and their spelling included.  (mergeWhitelist.)             *)
(***************************************************************************)
EditorOwnsAllows ==
  [][EditorRequest => \A k \in Keys :
       NotAllow(list'[k]) = NotAllow(list[k])]_list

(***************************************************************************)
(* Opening the whitelist editor and saving it as it is shows the same      *)
(* domains again, and saving it once more changes nothing.  (The page's    *)
(* whitelistDomains against mergeWhitelist and cleanRule.)                 *)
(***************************************************************************)
EditorIsStable ==
  \A k \in Keys :
    LET shown == WhitelistDomains(list[k])
        saved == MergeWhitelist(list[k], shown)
    IN /\ WhitelistDomains(saved) = shown
       /\ MergeWhitelist(saved, WhitelistDomains(saved)) = saved

(***************************************************************************)
(* Adding, editing and reconciling never write a second copy of a record,  *)
(* however it was spelled; only a sync copies the repetitions of its       *)
(* source.  (actionDNSSave: "never writes a duplicate rule when editing a  *)
(* record into a value that already exists".)                              *)
(***************************************************************************)
NoNewDuplicates ==
  [][\/ SyncRequest
     \/ \A k \in Keys : \A before \in {RecordList(list[k])},
                           after \in {RecordList(list'[k])} :
          \A r \in ToSet(after) :
            Copies(after, r) <= Max({1, Copies(before, r)})]_list

(***************************************************************************)
(* What the form accepts can be read back: a rule built from a record that *)
(* validateDNS lets through, or from one read from a server, parses to the *)
(* same record.  ("round-trips through the rule text", dnsRecord.)         *)
(***************************************************************************)
RoundTrips ==
  \A r \in Rows \cup ({ValidateDNS(f) : f \in RecordForms} \ {NotARecord}) :
    ParseDNSRecord(BuildDNSRule(r)) = r

(***************************************************************************)
(* Deleting a row of the DNS page takes the record it is read as, its host *)
(* in the zone of its group, off every server, however it is spelled       *)
(* there, and no other record.  (groupByBaseDomain, actionDNSDelete: "the  *)
(* record is identified by its exact domain/type/value triple".)  A row    *)
(* whose fields are padded is another matter: the form is trimmed and      *)
(* names another record than the row shows.                                *)
(***************************************************************************)
ReadAs(row, zone) ==
  [domain |-> IF row.host = <<"@">> THEN zone ELSE row.host \o <<".">> \o zone,
   type |-> row.type, value |-> row.value]

RecordsIn(lines) == ToSet(RecordList(lines))

RowsAreDeletable ==
  [][\A group \in Page : \A row \in group.records :
       row.domain = TrimSpace(row.domain) /\ DeleteRecord(row) =>
         \A k \in Keys : RecordsIn(list'[k]) =
           RecordsIn(list[k]) \ {ReadAs(row, group.domain)}]_list

(***************************************************************************)
(* As sets of lines, the lists change as RuleRequests says: every request  *)
(* has the effect that the replication model gives it.                     *)
(***************************************************************************)
SetOfLines(lines) ==
  {[kind |-> "dns", val |-> r] : r \in ToSet(RecordList(lines))}
    \cup {IF IsAllowRule(l) THEN [kind |-> "allow", val |-> l]
                            ELSE [kind |-> "other", val |-> l] :
            l \in ToSet(Passthrough(lines))}

RulesOf(lists) == [master |-> SetOfLines(lists["master"]),
                   backup |-> SetOfLines(lists["backup"])]

Forms == {ValidateDNS(f) : f \in RecordForms} \ {NotARecord}

Requests ==
  [kind : {"save"}, rec : Forms,
   old : {Named(r) : r \in Rows} \cup {NotARecord}]
    \cup [kind : {"delete"}, rec : {Named(r) : r \in Rows}]
    \cup {[kind |-> "reconcile"]}
    \cup [kind : {"sync"}, direction : {"master_to_backup",
                                        "backup_to_master"}]
    \cup {[kind |-> "whitelist", key |-> k,
           domains |-> ToSet(MergeWhitelist(<<>>, t))] :
             k \in Keys, t \in EditorTexts}

Sets == INSTANCE RuleRequests WITH
  Records <- Rows \cup Forms, NoRecord <- NotARecord,
  Allows <- {}, Others <- {}

Both == [backup |-> TRUE, auto |-> FALSE, direction |-> "master_to_backup"]

ActsOnSets ==
  [][\E old \in {RulesOf(list)}, new \in {RulesOf(list')} :
       \E q \in Requests : new = Sets!Effect(q, Both, Keys, old)]_list
=============================================================================
