------------------------------ MODULE RuleText ------------------------------
(***************************************************************************)
(* The lines of a rule list as the panel reads and writes them: how a line *)
(* becomes a custom DNS record and back, what the record form accepts, and *)
(* how an allow rule becomes a domain and back.                            *)
(*                                                                         *)
(* A text is a sequence of tokens.  The tokens the code looks for are      *)
(*   "@@"  "||"  "^"  "$dnsrewrite="  ";"  "."  " "  "newline"  "NOERROR"  *)
(* where " " is a space or a tab; every other token is a word.             *)
(***************************************************************************)
EXTENDS SequencesExt

CONSTANTS
  Tokens,       \* of which texts are made
  Capital,      \* for the words with small letters, the same in capitals
  RecordTypes,  \* dnsRecordTypes, each one a word
  IPv4, IPv6    \* the words net.ParseIP takes for such an address

\* The tokens that are no words; the code looks for "NOERROR" in capitals.
Separators == {"@@", "||", "^", "$dnsrewrite=", ";", ".", " ", "newline"}

Words == Tokens \ Separators

ASSUME TokensAssumption == Separators \cup {"NOERROR"} \subseteq Tokens
ASSUME CapitalAssumption ==
  /\ DOMAIN Capital \subseteq Words \ {"NOERROR"}
  /\ \A w \in DOMAIN Capital : Capital[w] \in Words \ DOMAIN Capital
ASSUME RecordTypesAssumption == RecordTypes \subseteq Words

Text == Seq(Tokens)
Fields == [domain : Text, type : Text, value : Text]

NoText == <<>>
NotARecord == [domain |-> NoText, type |-> NoText, value |-> NoText]

ToUpper(s) == [i \in DOMAIN s |-> IF s[i] \in DOMAIN Capital THEN Capital[s[i]]
                                                             ELSE s[i]]

White == {" ", "newline"}

TrimSpace(s) ==
  LET first == SelectInSeq(s, LAMBDA t : t \notin White)
      last  == SelectLastInSeq(s, LAMBDA t : t \notin White)
  IN IF first = 0 THEN NoText ELSE SubSeq(s, first, last)

\* strings.Cut: what comes before the first separator, and after it.
Before(s, sep) == SubSeq(s, 1, SelectInSeq(s, LAMBDA t : t = sep) - 1)

\* Mutant: what comes after the last one.
AfterLast(s, sep) ==
  SubSeq(s, SelectLastInSeq(s, LAMBDA t : t = sep) + 1, Len(s))

After(s, sep) == SubSeq(s, SelectInSeq(s, LAMBDA t : t = sep) + 1, Len(s))

-----------------------------------------------------------------------------
BuildDNSRule(r) ==
  <<"||">> \o r.domain \o <<"^", "$dnsrewrite=", "NOERROR", ";">>
    \o r.type \o <<";">> \o r.value

(***************************************************************************)
(* parseDNSRecord: ||domain^$dnsrewrite=code;TYPE;VALUE, where VALUE may   *)
(* contain more semicolons.  Anything else is not a record.                *)
(***************************************************************************)
ParseDNSRecord(line) ==
  LET s      == TrimSpace(line)
      marks  == {i \in 1 .. Len(s) - 1 : SubSeq(s, i, i + 1)
                                           = <<"^", "$dnsrewrite=">>}
      mark   == Min(marks)
      answer == SubSeq(s, mark + 2, Len(s))
      rest   == After(answer, ";")
      rec    == [domain |-> SubSeq(s, 2, mark - 1),
                 type   |-> ToUpper(TrimSpace(Before(rest, ";"))),
                 value  |-> TrimSpace(After(rest, ";"))]
  IN IF /\ IsPrefix(<<"||">>, s)
        /\ marks # {}
        /\ Cardinality({i \in DOMAIN answer : answer[i] = ";"}) >= 2
        /\ ToUpper(Before(answer, ";")) = <<"NOERROR">>
        /\ NoText \notin {rec.domain, rec.type, rec.value}
     THEN rec ELSE NotARecord

\* The address a record of type A or AAAA must have; the others are free.
Fits(type, value) ==
  /\ type = <<"A">> => value \in {<<a>> : a \in IPv4}
  /\ type = <<"AAAA">> => value \in {<<a>> : a \in IPv6}

\* validateDNS: the cleaned record of a form, or none.
ValidateDNS(form) ==
  LET rec == [domain |-> TrimSpace(form.domain),
              type   |-> ToUpper(TrimSpace(form.type)),
              value  |-> TrimSpace(form.value)]
  IN IF /\ NoText \notin {rec.domain, rec.value}
        /\ ToSet(rec.domain) \cap {" ", ";", "^"} = {}
        /\ "newline" \notin ToSet(rec.value)
        /\ rec.type \in {<<t>> : t \in RecordTypes}
        /\ Fits(rec.type, rec.value)
     THEN rec ELSE NotARecord

\* The record an edit or a delete form names: trimmed, but not validated.
Named(form) ==
  [domain |-> TrimSpace(form.domain),
   type   |-> ToUpper(TrimSpace(form.type)),
   value  |-> TrimSpace(form.value)]

-----------------------------------------------------------------------------
\* The zone of a domain: its last two labels, or all of it.
BaseDomain(d) ==
  LET dots == {i \in DOMAIN d : d[i] = "."}
  IN IF Cardinality(dots) <= 1 THEN d
     ELSE SubSeq(d, Max(dots \ {Max(dots)}) + 1, Len(d))

\* Mutant: the dot before the zone is not cut off.
RelativeHostWithDot(d, base) ==
  IF d = base THEN <<"@">> ELSE SubSeq(d, 1, Len(d) - Len(base))

RelativeHost(d, base) ==
  IF d = base THEN <<"@">> ELSE SubSeq(d, 1, Len(d) - Len(base) - 1)

-----------------------------------------------------------------------------
IsAllowRule(line) == IsPrefix(<<"@@", "||">>, line)

BuildAllowRule(d) == <<"@@", "||">> \o d \o <<"^">>

\* Mutant: only the prefix is cut off.
CleanPrefix(line) ==
  TrimSpace(IF IsAllowRule(line) THEN SubSeq(line, 3, Len(line)) ELSE line)

\* cleanRule: the prefix and everything from the first ^ are cut off.
CleanRule(line) ==
  LET s == IF IsAllowRule(line) THEN SubSeq(line, 3, Len(line)) ELSE line
  IN TrimSpace(IF Contains(s, "^") THEN Before(s, "^") ELSE s)
=============================================================================
