---------------------------- MODULE RuleLinesMC ----------------------------
(***************************************************************************)
(* A small instance of RuleLines: a host and a zone, the record of the     *)
(* host also in another spelling, that of the zone with semicolons in its  *)
(* value; a record whose domain is padded; allow rules with and without a  *)
(* modifier; and lines that only look like records.                        *)
(***************************************************************************)
EXTENDS RuleLines

AnyString == STRING
SmallAndCapital == ("a" :> "A") @@ ("txt" :> "TXT") @@ ("noerror" :> "NOERROR")
TypesOffered == {"A", "AAAA", "TXT"}
IPv4Words == {"ip4", "ip4in6"}
IPv6Words == {"ip6"}

Form(d, t, v) == [domain |-> d, type |-> t, value |-> v]

Zone == <<"home", ".", "lab">>
Nas == <<"nas", ".">> \o Zone

Host == Form(Nas, <<"A">>, <<"ip4">>)
TextRecord == Form(Zone, <<"TXT">>, <<"x", ";", "^", "$dnsrewrite=">>)

FormsFilledIn ==
  {Form(<<" ">> \o Nas, <<"a">>, <<"ip4", " ">>),
   Form(Zone, <<"txt", " ">>, <<"x", ";", "^", "$dnsrewrite=">>),
   Form(<<"nas", "^">>, <<"A">>, <<"ip4">>),
   Form(<<"nas">>, <<"AAAA">>, <<"ip4">>),
   Form(<<"nas">>, <<"TXT">>, <<"x", "newline", "x">>)}

\* The records as the panel writes them, and as somebody else may have.
HostRule == BuildDNSRule(Host)
TextRule == BuildDNSRule(TextRecord)
HostRuleRespelled ==
  <<" ", "||">> \o Nas
    \o <<"^", "$dnsrewrite=", "noerror", ";", " ", "a", ";", "ip4">>
PaddedRule ==
  <<"||">> \o Zone
    \o <<" ", "^", "$dnsrewrite=", "NOERROR", ";", "A", ";", "ip4">>
ShortRewrite == <<"||", "nas", "^", "$dnsrewrite=", "ip4">>
BlockForm == <<"||", "nas", "^", "$dnsrewrite=", "REFUSED", ";", ";">>
Comment == <<"# a comment">>
Allow == BuildAllowRule(<<"dev">>)
AllowImportant == BuildAllowRule(<<"dev">>) \o <<"$important">>
AllowNothing == <<"@@", "||", "^">>

ListsAtFirst ==
  {<<>>,
   <<HostRule, Comment, HostRuleRespelled, PaddedRule, Comment>>,
   <<AllowImportant, TextRule, AllowNothing, ShortRewrite, BlockForm>>}

EditorContents ==
  {<<>>, <<<<" ", "dev">>, <<>>, AllowImportant>>}
=============================================================================
