--------------------------- MODULE DashboardProofs ---------------------------
(***************************************************************************)
(* Proofs about Dashboard: the type invariant, that a pause ends, and that *)
(* the whitelist editor takes no domain the admin could not see.  The      *)
(* history of what was added since a card was read closes the gap between  *)
(* what it shows and what AdGuard has: Seen is inductive.                  *)
(***************************************************************************)
EXTENDS Dashboard, TLAPS

\* What is allowed was read, or has been added since.
SeenBy(k, editor) == editor.read => allowed \subseteq editor.is \cup added[k]

Seen == /\ SeenBy("load", load.editor)
        /\ SeenBy("card", card.editor)
        /\ SeenBy("save", save.editor)

Others == \/ \E p \in Protection : OthersSwitch(p)
          \/ \E A \in Rules : OthersAllow(A)

Buttons == Enable \/ Disable \/ \E n \in Durations : DisableTime(n)

-----------------------------------------------------------------------------
(***************************************************************************)
(* However a pause is sent, what AdGuard is told is one of its states.     *)
(***************************************************************************)
LEMMA SwitchedOffType == \A n : SwitchedOff(n) \in Protection
  BY DEF SwitchedOff, Protection

(***************************************************************************)
(* A duration that can be told in an int pauses, and does not switch off.  *)
(***************************************************************************)
LEMMA UsablePauses ==
  ASSUME NEW n \in Durations, Usable(n)
  PROVE  SwitchedOff(n) = "paused"
<1>1. n \in Int /\ Millis \in Int /\ n > 0 /\ Millis > 0
  BY DurationsAssumption DEF Usable
<1>2. n * Millis > 0
  BY <1>1, SMTT(30)
<1> QED
  BY <1>2 DEF Usable, SwitchedOff

(***************************************************************************)
(* The empty editor and one that shows a list are editors.                 *)
(***************************************************************************)
LEMMA EditorTypes ==
  /\ Unread \in Editor
  /\ \A A \in Rules : Read(A) \in Editor
  BY DEF Unread, Read, Editor, Rules

(***************************************************************************)
(* What was added since a list was read is a set of domains, and none when *)
(* none was read.                                                          *)
(***************************************************************************)
LEMMA AllowType ==
  ASSUME TypeOK, NEW A \in Rules, Allow(A), NoSave \in Save
  PROVE  TypeOK' \/ ~(/\ active' \in BOOLEAN /\ wanted' \in BOOLEAN
                      /\ asked' \in BOOLEAN /\ protection' \in Protection)
<1>1. /\ load' = load /\ card' = card /\ allowed' = A
      /\ save' \in Save
  BY DEF Allow, TypeOK
<1>2. added' \in [load : Rules, card : Rules, save : Rules]
  BY DEF Allow, Since, TypeOK, Rules
<1>3. /\ ~load.editor.read => added'.load = {}
      /\ ~card.editor.read => added'.card = {}
      /\ ~save'.editor.read => added'.save = {}
  BY DEF Allow, Since
<1> QED
  BY <1>1, <1>2, <1>3 DEF TypeOK

(***************************************************************************)
(* Nothing is being loaded, shown or saved by values of the right type.    *)
(***************************************************************************)
LEMMA NothingTypes == NoCard \in Card /\ NoLoad \in Load /\ NoSave \in Save
<1>1. {} \in Rules
  BY DEF Rules
<1> QED
  BY <1>1, EditorTypes
     DEF NoCard, NoLoad, NoSave, Card, Load, Save, None

(***************************************************************************)
(* What is not there has read nothing.                                     *)
(***************************************************************************)
LEMMA NothingUnread ==
  ~NoCard.editor.read /\ ~NoLoad.editor.read /\ ~NoSave.editor.read
  BY DEF NoCard, NoLoad, NoSave, Unread

-----------------------------------------------------------------------------
(***************************************************************************)
(* The types hold at first.                                                *)
(***************************************************************************)
LEMMA InitTypes == Init => TypeOK
<1> SUFFICES ASSUME Init PROVE TypeOK
  OBVIOUS
<1>1. /\ active \in BOOLEAN /\ wanted \in BOOLEAN /\ asked \in BOOLEAN
      /\ protection \in Protection /\ allowed \in Rules
  BY DEF Init, Protection
<1>2. card \in Card /\ load \in Load /\ save \in Save
  BY NothingTypes DEF Init
<1>3. load.editor = Unread
  BY DEF Init, NoLoad
<1>4. /\ added \in [load : Rules, card : Rules, save : Rules]
      /\ added.load = {} /\ added.card = {} /\ added.save = {}
  BY DEF Init, Rules
<1> QED
  BY <1>1, <1>2, <1>3, <1>4 DEF TypeOK

(***************************************************************************)
(* A step keeps the types.                                                 *)
(***************************************************************************)
LEMMA TypeStep == TypeOK /\ [Next]_vars => TypeOK'
<1> SUFFICES ASSUME TypeOK, [Next]_vars PROVE TypeOK'
  OBVIOUS
<1> USE EditorTypes, NothingTypes
<1>1. CASE Poll
  BY <1>1 DEF TypeOK, Poll, server, history
<1>2. CASE StartLoad
  <2>1. load' \in Load /\ load'.editor = Unread
    BY <1>2 DEF StartLoad, Load, Pending, None
  <2>2. added.load = {}
    BY <1>2 DEF StartLoad, TypeOK, NoLoad, Unread
  <2> QED
    BY <1>2, <2>1, <2>2 DEF TypeOK, StartLoad, server, history
<1>3. CASE StatusCall
  <2>1. /\ load' \in Load
        /\ load'.editor = load.editor /\ load'.rules = load.rules
    BY <1>3 DEF StatusCall, TypeOK, Load, Protection, Failed
  <2> QED
    BY <1>3, <2>1 DEF TypeOK, StatusCall, server, history
<1>4. CASE FilteringCall
  <2>1. PICK editor \in {Read(allowed), Unread} :
          load' = [load EXCEPT !.rules = "done", !.editor = editor]
    BY <1>4 DEF FilteringCall
  <2>2. editor \in Editor
    BY <2>1 DEF TypeOK
  <2>3. load' \in Load /\ load'.editor = editor
    BY <2>1, <2>2 DEF TypeOK, Load
  <2>4. /\ load'.rules = "done"
        /\ load.rules # "done" /\ added.load = {}
    BY <1>4, <2>1 DEF FilteringCall, TypeOK, Load, Pending, Unread
  <2> QED
    BY <1>4, <2>3, <2>4 DEF TypeOK, FilteringCall, server, history
<1>5. CASE EndLoad
  <2>1. card' \in Card /\ card'.editor = load.editor
    BY <1>5 DEF EndLoad, LoadDone, TypeOK, Load, Card, Pending
  <2>2. load' \in Load /\ load'.editor = Unread
    BY <1>5 DEF EndLoad, NoLoad
  <2>3. /\ added' \in [load : Rules, card : Rules, save : Rules]
        /\ added'.card = added.load /\ added'.load = {}
        /\ added'.save = added.save
    BY <1>5 DEF EndLoad, TypeOK, Rules
  <2> QED
    BY <1>5, <2>1, <2>2, <2>3 DEF TypeOK, EndLoad, server
<1>6. CASE Buttons
  <2>1. \E p \in Protection, forGood \in BOOLEAN : Press(p, forGood)
    BY <1>6, SwitchedOffType
       DEF Buttons, Enable, Disable, DisableTime, Usable, Protection
  <2> QED
    BY <2>1 DEF TypeOK, Press
<1>7. ASSUME NEW text \in Rules, SubmitEditor(text) PROVE TypeOK'
  <2>1. save' \in Save /\ save'.editor = card.editor
    BY <1>7 DEF SubmitEditor, TypeOK, Save, Card
  <2>2. /\ added' \in [load : Rules, card : Rules, save : Rules]
        /\ added'.card = added.card /\ added'.load = added.load
        /\ added'.save = added.card
    BY <1>7 DEF SubmitEditor, TypeOK
  <2> QED
    BY <1>7, <2>1, <2>2 DEF TypeOK, SubmitEditor, server
<1>8. CASE ReadForSave
  <2>1. save' \in Save /\ save'.editor = save.editor
    BY <1>8 DEF ReadForSave, TypeOK, Save
  <2> QED
    BY <1>8, <2>1 DEF TypeOK, ReadForSave, server, history
<1>9. CASE EndSave
  <2>1. /\ added' \in [load : Rules, card : Rules, save : Rules]
        /\ added'.card = added.card /\ added'.load = added.load
        /\ added'.save = {}
    BY <1>9 DEF EndSave, TypeOK, Rules
  <2> QED
    BY <1>9, <2>1 DEF TypeOK, EndSave, server
<1>10. CASE WriteForSave
  <2>1. save.text \in Rules
    BY DEF TypeOK, Save
  <2> QED
    BY <1>10, <2>1, AllowType DEF WriteForSave, TypeOK
<1>11. CASE PauseEnds
  BY <1>11 DEF TypeOK, PauseEnds, Protection, history
<1>12. CASE Others
  <2>1. CASE \E p \in Protection : OthersSwitch(p)
    BY <2>1 DEF TypeOK, OthersSwitch
  <2>2. ASSUME NEW A \in Rules, OthersAllow(A) PROVE TypeOK'
    BY <2>2, AllowType DEF OthersAllow, TypeOK
  <2> QED
    BY <1>12, <2>1, <2>2 DEF Others
<1>13. CASE Configure
  BY <1>13 DEF TypeOK, Configure, server, history
<1>14. CASE UNCHANGED vars
  BY <1>14 DEF TypeOK, vars, server, history
<1> QED
  BY <1>1, <1>2, <1>3, <1>4, <1>5, <1>6, <1>7, <1>8, <1>9, <1>10, <1>11,
     <1>12, <1>13, <1>14 DEF Next, LoadStep, Buttons, Others

(***************************************************************************)
(* Every variable keeps its type: no card is drawn before all its calls    *)
(* have ended.                                                             *)
(***************************************************************************)
THEOREM DashboardTypeCorrect == Spec => []TypeOK
<1>1. Init => TypeOK
  BY InitTypes
<1> QED
  BY <1>1, TypeStep, PTL DEF Spec

-----------------------------------------------------------------------------
(***************************************************************************)
(* A button that switches off for good was meant to.                       *)
(***************************************************************************)
LEMMA PressPauses ==
  ASSUME PausesEnd, NEW p, NEW forGood \in BOOLEAN, Press(p, forGood),
         p = "off" => forGood
  PROVE  PausesEnd'
<1>1. CASE forGood
  <2>1. asked' = TRUE \/ UNCHANGED <<protection, asked>>
    BY <1>1 DEF Press
  <2> QED
    BY <2>1, Zenon DEF PausesEnd
<1>2. CASE ~forGood
  <2>1. protection' # "off" \/ UNCHANGED <<protection, asked>>
    BY <1>2 DEF Press
  <2> QED
    BY <2>1 DEF PausesEnd
<1> QED
  BY <1>1, <1>2

(***************************************************************************)
(* A pause ends, whoever sends it and whatever the card showed.            *)
(***************************************************************************)
LEMMA PauseStep == PausesEnd /\ [Next]_vars => PausesEnd'
<1> SUFFICES ASSUME PausesEnd, [Next]_vars PROVE PausesEnd'
  OBVIOUS
<1>1. CASE Buttons
  <2>1. CASE Enable
    BY <2>1, PressPauses DEF Enable
  <2>2. CASE Disable
    BY <2>2, PressPauses DEF Disable
  <2>3. ASSUME NEW n \in Durations, DisableTime(n) PROVE PausesEnd'
    <3>1. Usable(n) \in BOOLEAN
      BY DEF Usable
    <3>2. SwitchedOff(n) = "off" => ~Usable(n)
      BY UsablePauses
    <3> QED
      BY <2>3, <3>1, <3>2, PressPauses DEF DisableTime
  <2> QED
    BY <1>1, <2>1, <2>2, <2>3 DEF Buttons
<1>2. CASE PauseEnds
  BY <1>2 DEF PauseEnds, PausesEnd
<1>3. CASE Others
  BY <1>3 DEF Others, OthersSwitch, OthersAllow, PausesEnd
<1>4. CASE UNCHANGED <<protection, asked>>
  BY <1>4 DEF PausesEnd
<1> QED
  BY <1>1, <1>2, <1>3, <1>4
     DEF Next, LoadStep, Buttons, Others, Poll, StartLoad, StatusCall,
         FilteringCall, EndLoad, SubmitEditor, ReadForSave, WriteForSave,
         EndSave, Configure, vars, server, history

(***************************************************************************)
(* Protection is off without an end only when that was wanted, or with a   *)
(* duration no int can tell.                                               *)
(***************************************************************************)
THEOREM PausesComeToAnEnd == Spec => []PausesEnd
<1>1. Init => PausesEnd
  BY DEF Init, PausesEnd
<1> QED
  BY <1>1, PauseStep, PTL DEF Spec

-----------------------------------------------------------------------------
(***************************************************************************)
(* Whatever changes the allow rules adds to the history what is new.       *)
(***************************************************************************)
LEMMA AllowSeen ==
  ASSUME Seen, NEW A, Allow(A)
  PROVE  Seen'
<1>1. /\ allowed' = A /\ load' = load /\ card' = card
      /\ save' = save \/ ~save'.editor.read
  BY DEF Allow, NoSave, Unread
<1>2. /\ load.editor.read => added'["load"] = added["load"] \cup (A \ allowed)
      /\ card.editor.read => added'["card"] = added["card"] \cup (A \ allowed)
      /\ save'.editor.read => added'["save"] = added["save"] \cup (A \ allowed)
  BY DEF Allow, Since
<1> QED
  BY <1>1, <1>2 DEF Seen, SeenBy

(***************************************************************************)
(* What is allowed has been seen, or added since: at every step.           *)
(***************************************************************************)
LEMMA SeenStep == TypeOK /\ Seen /\ [Next]_vars => Seen'
<1> SUFFICES ASSUME TypeOK, Seen, [Next]_vars PROVE Seen'
  OBVIOUS
<1>1. CASE StartLoad
  BY <1>1 DEF Seen, SeenBy, StartLoad, server, history, Unread
<1>2. CASE StatusCall
  <2>1. load'.editor = load.editor
    BY <1>2 DEF StatusCall, TypeOK, Load
  <2> QED
    BY <1>2, <2>1 DEF Seen, SeenBy, StatusCall, server, history
<1>3. CASE FilteringCall
  <2>1. load'.editor \in {Read(allowed), Unread}
    BY <1>3 DEF FilteringCall, TypeOK, Load
  <2> QED
    BY <1>3, <2>1
       DEF Seen, SeenBy, FilteringCall, server, history, Read, Unread
<1>4. CASE EndLoad
  <2>1. card'.editor = load.editor /\ ~load'.editor.read
    BY <1>4 DEF EndLoad, NoLoad, Unread
  <2>2. added'["card"] = added["load"] /\ added'["save"] = added["save"]
    BY <1>4 DEF EndLoad, TypeOK
  <2> QED
    BY <1>4, <2>1, <2>2 DEF Seen, SeenBy, EndLoad, server
<1>5. ASSUME NEW text \in Rules, SubmitEditor(text) PROVE Seen'
  <2>1. save'.editor = card.editor
    BY <1>5 DEF SubmitEditor
  <2>2. /\ added'["save"] = added["card"] /\ added'["card"] = added["card"]
        /\ added'["load"] = added["load"]
    BY <1>5 DEF SubmitEditor, TypeOK
  <2> QED
    BY <1>5, <2>1, <2>2 DEF Seen, SeenBy, SubmitEditor, server
<1>6. CASE ReadForSave
  <2>1. save'.editor = save.editor
    BY <1>6 DEF ReadForSave, TypeOK, Save
  <2> QED
    BY <1>6, <2>1 DEF Seen, SeenBy, ReadForSave, server, history
<1>7. CASE EndSave
  <2>1. ~save'.editor.read
    BY <1>7 DEF EndSave, NoSave, Unread
  <2>2. added'["card"] = added["card"] /\ added'["load"] = added["load"]
    BY <1>7 DEF EndSave, TypeOK
  <2> QED
    BY <1>7, <2>1, <2>2 DEF Seen, SeenBy, EndSave, server
<1>8. CASE WriteForSave
  BY <1>8, AllowSeen DEF WriteForSave
<1>9. ASSUME NEW A \in Rules, OthersAllow(A) PROVE Seen'
  BY <1>9, AllowSeen DEF OthersAllow
<1>10. CASE UNCHANGED <<allowed, load, card, save, added>>
  BY <1>10 DEF Seen, SeenBy
<1> QED
  BY <1>1, <1>2, <1>3, <1>4, <1>5, <1>6, <1>7, <1>8, <1>9, <1>10
     DEF Next, LoadStep, Poll, Enable, Disable, DisableTime, Press,
         PauseEnds, OthersSwitch, Configure, vars, server, history

(***************************************************************************)
(* A form that ends with a write takes away what the editor showed and the *)
(* text has not, or what was added since.                                  *)
(***************************************************************************)
LEMMA EditorStep ==
  ASSUME TypeOK, Seen, [Next]_vars,
         save # NoSave, save' = NoSave, save.editor.read
  PROVE  allowed \ allowed' \subseteq
           (save.editor.is \ save.text) \cup added.save
<1>1. CASE WriteForSave
  <2>1. allowed' = save.text
    BY <1>1 DEF WriteForSave, Allow
  <2>2. allowed \subseteq save.editor.is \cup added["save"]
    BY DEF Seen, SeenBy
  <2> QED
    BY <2>1, <2>2
<1>2. CASE UNCHANGED allowed
  BY <1>2
<1>3. CASE UNCHANGED save
  BY <1>3
<1> QED
  BY <1>1, <1>2, <1>3
     DEF Next, LoadStep, Poll, StartLoad, StatusCall, FilteringCall,
         EndLoad, Enable, Disable, DisableTime, Press, SubmitEditor,
         ReadForSave, EndSave, PauseEnds, OthersSwitch, OthersAllow,
         Configure, vars, server, history

(***************************************************************************)
(* The whitelist editor takes no domain from the whitelist but those it    *)
(* showed and those that came since.                                       *)
(***************************************************************************)
THEOREM EditorIsHonest == Spec => EditorTakesWhatItShowed
<1>1. Init => TypeOK /\ Seen
  BY InitTypes, NothingUnread DEF Init, Seen, SeenBy
<1>2. TypeOK /\ Seen /\ [Next]_vars => (TypeOK /\ Seen)'
  BY TypeStep, SeenStep
<1>3. TypeOK /\ Seen /\ [Next]_vars =>
        [save # NoSave /\ save' = NoSave /\ save.editor.read
           => allowed \ allowed' \subseteq
                (save.editor.is \ save.text) \cup added.save]_vars
  BY EditorStep
<1> QED
  BY <1>1, <1>2, <1>3, PTL DEF Spec, EditorTakesWhatItShowed
=============================================================================
