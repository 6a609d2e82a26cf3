------------------------------ MODULE Dashboard ------------------------------
(***************************************************************************)
(* The card of one server on the dashboard of one browser, and the two     *)
(* forms on it: protection and the whitelist editor.  A card is drawn from *)
(* parallel calls, each of which may fail on its own, and stays on the     *)
(* screen until the next poll or refresh, while AdGuard goes on: a pause   *)
(* ends, others change the rules.  The statistics on the card are left     *)
(* out, and of the rules everything but the allow rules, which             *)
(* RuleReplication has.                                                    *)
(***************************************************************************)
EXTENDS Integers, FiniteSets

CONSTANTS
  Domains,     \* domains that may be on the whitelist
  Durations,   \* what Atoi makes of the field "duration"
  Millis,      \* milliseconds to a minute: 60*1000
  Width        \* the number of values of an int

ASSUME DurationsAssumption == Durations \subseteq Int /\ Millis \in Nat \ {0}
ASSUME WidthAssumption == Width \in Nat \ {0} /\ Width % 2 = 0

VARIABLES
  active,      \* the server is one of the configuration's
  protection,  \* of AdGuard: on, off for a time, or off without an end
  allowed,     \* the domains of AdGuard's allow rules
  card,        \* what the browser shows
  load,        \* the calls for the next card, if any are under way
  wanted,      \* the poll or a refresh asks for a new card
  save,        \* the whitelist form under way, if any
  asked,       \* history: who changed protection last wanted no end
  added        \* history: domains added since the rules were read for the
               \* load, the card and the form under way

server  == <<protection, allowed>>
history == <<asked, added>>
vars == <<active, server, card, load, wanted, save, history>>

Protection == {"on", "paused", "off"}
Pending == "pending"
Failed == "failed"
None == "none"

Rules == SUBSET Domains
Unread == [is |-> {}, read |-> FALSE]
Read(A) == [is |-> A, read |-> TRUE]
Editor == [is : Rules, read : {TRUE}] \cup {Unread}

Card == [status : Protection \cup {Failed, None}, editor : Editor]
NoCard == [status |-> None, editor |-> Unread]

Load == [status : Protection \cup {Pending, Failed, None},
         rules : {"pending", "none", "done"}, editor : Editor]
NoLoad == [status |-> None, rules |-> None, editor |-> Unread]

Save == [step : {"none", "read", "write"}, text : Rules, editor : Editor]
NoSave == [step |-> "none", text |-> {}, editor |-> Unread]

\* The milliseconds of that many minutes, in an int.
Wrap(n) == ((n + Width \div 2) % Width) - Width \div 2

\* Mutant: a pause of a minute has no duration.
SwitchedOffAtOne(minutes) ==
  IF Wrap(minutes * Millis) > Millis THEN "paused" ELSE "off"

\* Switched off for that many minutes; with no positive duration, for good.
SwitchedOff(minutes) == IF Wrap(minutes * Millis) > 0 THEN "paused" ELSE "off"

Usable(minutes) == minutes > 0 /\ Wrap(minutes * Millis) = minutes * Millis

\* The history of a list of allow rules that was read, as it becomes A.
Since(read, k, A) == IF read THEN added[k] \cup (A \ allowed) ELSE {}

\* AdGuard's allow rules become A; the form may end with that.
Allow(A) ==
  /\ UNCHANGED <<load, card>>
  /\ save' \in {save, NoSave}
  /\ allowed' = A
  /\ added' = [load |-> Since(load.editor.read, "load", A),
               card |-> Since(card.editor.read, "card", A),
               save |-> Since(save'.editor.read, "save", A)]

-----------------------------------------------------------------------------
Init ==
  /\ active = TRUE
  /\ protection = "on"
  /\ allowed \in Rules
  /\ card = NoCard
  /\ load = NoLoad
  /\ wanted = TRUE
  /\ save = NoSave
  /\ asked = FALSE
  /\ added = [load |-> {}, card |-> {}, save |-> {}]

\* Every 30 seconds; or the admin opens the page.
Poll ==
  /\ wanted' = TRUE
  /\ UNCHANGED <<active, server, card, load, save, history>>

\* partialServers: the calls for the card of an active server.
StartLoad ==
  /\ wanted
  /\ load = NoLoad
  /\ wanted' = FALSE
  /\ load' = IF active
             THEN [status |-> Pending, rules |-> Pending, editor |-> Unread]
             ELSE [status |-> None, rules |-> "done", editor |-> Unread]
  /\ UNCHANGED <<active, server, card, save, history>>

\* A call that fails leaves the fields of the card as they are made.
StatusCall ==
  /\ load.status = Pending
  /\ \E status \in {protection, Failed} :
       load' = [load EXCEPT !.status = status]
  /\ UNCHANGED <<active, server, card, wanted, save, history>>

FilteringCall ==
  /\ load.rules = Pending
  /\ \E editor \in {Read(allowed), Unread} :
       load' = [load EXCEPT !.rules = "done", !.editor = editor]
  /\ UNCHANGED <<active, server, card, wanted, save, history>>

\* Mutant: one of the calls is not waited for.
RulesDone == load.rules = "done"

LoadDone == load.rules = "done" /\ load.status # Pending

\* Mutant: a call that fails leaves the fields of the card before.
EndLoadKeepingOld ==
  /\ LoadDone
  /\ card' = [status |-> IF load.status = Failed THEN card.status
                         ELSE load.status,
              editor |-> load.editor]
  /\ load' = NoLoad
  /\ added' = [added EXCEPT !.card = added.load, !.load = {}]
  /\ UNCHANGED <<active, server, wanted, save, asked>>

\* The fragment replaces the cards on the screen, and the forms on them.
EndLoad ==
  /\ LoadDone
  /\ card' = [status |-> load.status, editor |-> load.editor]
  /\ load' = NoLoad
  /\ added' = [added EXCEPT !.card = added.load, !.load = {}]
  /\ UNCHANGED <<active, server, wanted, save, asked>>

-----------------------------------------------------------------------------
(***************************************************************************)
(* actionProtection, from a button of the card.  The call may be lost, and *)
(* its answer too: only when it is answered does the card load again.      *)
(***************************************************************************)
Press(p, forGood) ==
  /\ active
  /\ \/ /\ protection' = p
        /\ asked' = forGood
        /\ wanted' \in {wanted, TRUE}
     \/ UNCHANGED <<protection, asked, wanted>>
  /\ UNCHANGED <<active, allowed, card, load, save, added>>

\* The one button of a card whose status call failed, too.
Enable == card.status \in {"paused", "off", Failed} /\ Press("on", FALSE)

Disable == card.status = "on" /\ Press("off", TRUE)

DisableTime(minutes) ==
  /\ card.status = "on"
  /\ Press(SwitchedOff(minutes), ~Usable(minutes))

-----------------------------------------------------------------------------
\* actionWhitelist, with the text of the editor; a card without rules has one
\* too.
SubmitEditor(text) ==
  /\ card.status # None
  /\ save = NoSave
  /\ active
  /\ save' = [step |-> "read", text |-> text, editor |-> card.editor]
  /\ added' = [added EXCEPT !.save = added.card]
  /\ UNCHANGED <<active, server, card, load, wanted, asked>>

ReadForSave ==
  /\ save.step = "read"
  /\ save' = [save EXCEPT !.step = "write"]
  /\ UNCHANGED <<active, server, card, load, wanted, history>>

\* The read or the write fails.
EndSave ==
  /\ save # NoSave
  /\ save' = NoSave
  /\ added' = [added EXCEPT !.save = {}]
  /\ UNCHANGED <<active, server, card, load, wanted, asked>>

\* Mutant: a domain that is allowed already is skipped.
WriteForSaveNewOnly ==
  /\ save.step = "write"
  /\ save' = NoSave
  /\ Allow(save.text \ allowed)
  /\ wanted' \in {wanted, TRUE}
  /\ UNCHANGED <<active, protection, asked>>

\* mergeWhitelist: the allow rules are the text's; the answer may be lost.
WriteForSave ==
  /\ save.step = "write"
  /\ save' = NoSave
  /\ Allow(save.text)
  /\ wanted' \in {wanted, TRUE}
  /\ UNCHANGED <<active, protection, asked>>

-----------------------------------------------------------------------------
PauseEnds ==
  /\ protection = "paused"
  /\ protection' = "on"
  /\ UNCHANGED <<active, allowed, card, load, wanted, save, history>>

\* Another browser, the other pages of the panel, AdGuard's own.
OthersSwitch(p) ==
  /\ protection' = p
  /\ asked' = (p = "off")
  /\ UNCHANGED <<active, allowed, card, load, wanted, save, added>>

OthersAllow(A) ==
  /\ UNCHANGED save
  /\ Allow(A)
  /\ UNCHANGED <<active, protection, wanted, asked>>

\* The settings of the panel are saved.
Configure ==
  /\ active' = ~active
  /\ UNCHANGED <<server, card, load, wanted, save, history>>

LoadStep == StartLoad \/ StatusCall \/ FilteringCall \/ EndLoad

Next ==
  \/ Poll \/ LoadStep
  \/ Enable \/ Disable \/ \E n \in Durations : DisableTime(n)
  \/ \E text \in Rules : SubmitEditor(text)
  \/ ReadForSave \/ WriteForSave \/ EndSave
  \/ PauseEnds \/ \E p \in Protection : OthersSwitch(p)
  \/ \E A \in Rules : OthersAllow(A)
  \/ Configure

(***************************************************************************)
(* An open page polls, and a call is answered or ends with the timeout of  *)
(* the client.  Nobody has to press a button or to change the server.      *)
(***************************************************************************)
Fairness ==
  /\ WF_vars(Poll)
  /\ WF_vars(StartLoad) /\ WF_vars(StatusCall) /\ WF_vars(FilteringCall)
  /\ WF_vars(EndLoad)

Spec == Init /\ [][Next]_vars /\ Fairness

-----------------------------------------------------------------------------
(***************************************************************************)
(* A card has no field that is still awaited; no list is known before it   *)
(* was read, and what was not read has no history.                         *)
(***************************************************************************)
TypeOK ==
  /\ active \in BOOLEAN /\ wanted \in BOOLEAN /\ asked \in BOOLEAN
  /\ protection \in Protection
  /\ allowed \in Rules
  /\ card \in Card
  /\ load \in Load
  /\ save \in Save
  /\ added \in [load : Rules, card : Rules, save : Rules]
  /\ load.rules # "done" => load.editor = Unread
  /\ ~load.editor.read => added.load = {}
  /\ ~card.editor.read => added.card = {}
  /\ ~save.editor.read => added.save = {}

(***************************************************************************)
(* A pause ends: protection is off without an end only when who changed it *)
(* last wanted that, or sent a duration that is no number or overflows.    *)
(* (SetProtection leaves out a duration that is not positive.)             *)
(***************************************************************************)
PausesEnd == protection = "off" => asked

(***************************************************************************)
(* The editor takes no domain from the whitelist but those it showed and   *)
(* the admin took out; those added after its card was read, whose text     *)
(* could not have them; and every one when the card was drawn without the  *)
(* rules, whose editor is empty.  (buildServerView, actionWhitelist: the   *)
(* text replaces the allow rules of now, not those the card was read from.)*)
(***************************************************************************)
EditorTakesWhatItShowed ==
  [][save # NoSave /\ save' = NoSave /\ save.editor.read
       => allowed \ allowed' \subseteq
            (save.editor.is \ save.text) \cup added.save]_vars

\* The card says nothing that is not so now.
Current ==
  IF active
  THEN /\ card.status \in {protection, Failed}
       /\ card.editor \in {Read(allowed), Unread}
  ELSE card = NoCard

(***************************************************************************)
(* When the server is left alone, the card comes to tell what is so, or    *)
(* that it does not know: no call in flight, lost answer or failed call    *)
(* leaves it with what was so before.  (The grid's poll and its refresh;   *)
(* buildServerView starts from an empty card.)                             *)
(***************************************************************************)
CardCatchesUp ==
  <>[][UNCHANGED <<active, server>>]_vars => <>[]Current
=============================================================================
