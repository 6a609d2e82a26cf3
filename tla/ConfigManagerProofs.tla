------------------------ MODULE ConfigManagerProofs ------------------------
(***************************************************************************)
(* Proofs of the safety properties of ConfigManager, for any number of     *)
(* admins, any forms and any initial file.                                 *)
(***************************************************************************)
EXTENDS ConfigManager, TLAPS

Saving == {"open", "write", "rename", "publish"}

Normal(c) == c \in Usable /\ Normalize(c) = c

(***************************************************************************)
(* Where a saver is in Save tells what is in the two files; only the       *)
(* holder of the lock is past "lock", and main saves before any handler.   *)
(***************************************************************************)
SaverOK(a) ==
  /\ pc[a] \in Saving <=> holder = a
  /\ pc[a] \in Saving \cup {"lock"} => Normal(next[a])
  /\ pc[a] = "rename" => tmp = next[a]
  /\ pc[a] = "publish" => disk = next[a]
  /\ a # Main /\ pc[a] # "idle" => phase = "serving"
  /\ a = Main /\ pc[a] # "idle" =>
       /\ phase = "starting"
       /\ pc[a] \in Saving \cup {"lock"}
       /\ current.pass = Blank
       /\ next[a].pass # Blank

FilesOK ==
  /\ disk \in Config \cup {Absent}
  /\ phase # "down" =>
       /\ Normal(current)
       /\ \/ disk \in Config /\ current = Normalize(disk)
          \/ \E a \in Savers : pc[a] = "publish"

Inv == TypeOK /\ FilesOK /\ \A a \in Savers : SaverOK(a)

-----------------------------------------------------------------------------
(* The operators.                                                          *)

LEMMA NormalizeIsNormal ==
  ASSUME NEW c \in Config
  PROVE  Normal(Normalize(c))
  BY DEF Normal, Normalize, Usable, Config, Directions

LEMMA FilledType ==
  ASSUME NEW c \in Config, NEW f \in Form
  PROVE  Filled(c, f) \in Config
  BY NumberAssumption DEF Filled, Config, Form

LEMMA DefaultIsNormal == Normal(Default)
  BY DEF Normal, Normalize, Default, Usable, Config, Directions

LEMMA NoTornConfig == Torn \notin Config \cup {Absent}
  BY DEF Torn, Absent, Config

-----------------------------------------------------------------------------
LEMMA InitInv == Init => Inv
<1> SUFFICES ASSUME Init PROVE Inv
  OBVIOUS
<1>1. TypeOK
  BY FilesAssumption DEF Init, TypeOK, Nothing, Phases, Labels
<1>2. FilesOK
  BY FilesAssumption DEF Init, FilesOK
<1>3. ASSUME NEW a \in Savers PROVE SaverOK(a)
  BY LockAssumption DEF Init, SaverOK, Saving, Nothing
<1> QED BY <1>1, <1>2, <1>3 DEF Inv

\* Memory is cleared, whatever it held.
LEMMA StopInv ==
  ASSUME Inv, Stop, UNCHANGED files
  PROVE  Inv'
<1>1. TypeOK'
  BY DEF Inv, TypeOK, Stop, files, Nothing, Phases, Labels
<1>2. FilesOK'
  BY DEF Inv, FilesOK, Stop, files
<1>3. ASSUME NEW a \in Savers PROVE SaverOK(a)'
  BY LockAssumption DEF Stop, SaverOK, Saving, Nothing
<1> QED BY <1>1, <1>2, <1>3 DEF Inv

-----------------------------------------------------------------------------
(* One lemma for each action.                                              *)

LEMMA LoadInv == ASSUME Inv, Load PROVE Inv'
<1>1. disk \in Config
  BY DEF Load
<1>2. Normal(Normalize(disk))
  BY <1>1, NormalizeIsNormal
<1>3. TypeOK'
  BY <1>2 DEF Inv, TypeOK, Load, files, local, Normal, Phases
<1>4. FilesOK'
  BY <1>1, <1>2 DEF FilesOK, Load, files
<1>5. ASSUME NEW a \in Savers PROVE SaverOK(a)'
  <2>1. SaverOK(a)
    BY DEF Inv
  <2>2. pc[a] = "idle"
    BY <2>1 DEF SaverOK, Load
  <2> QED BY <2>1, <2>2 DEF SaverOK, Load, files, local, Saving
<1> QED BY <1>3, <1>4, <1>5 DEF Inv

LEMMA FirstRunInv == ASSUME Inv, FirstRun PROVE Inv'
<1>1. Normal(Default) /\ Default \in Config /\ Default \in Usable
  BY DefaultIsNormal DEF Normal, Usable
<1>2. TypeOK'
  BY <1>1 DEF Inv, TypeOK, FirstRun, local, Phases
<1>3. FilesOK'
  BY <1>1 DEF Inv, FilesOK, FirstRun, Normal, Usable
<1>4. ASSUME NEW a \in Savers PROVE SaverOK(a)'
  <2>1. SaverOK(a)
    BY DEF Inv
  <2>2. pc[a] = "idle"
    BY <2>1 DEF SaverOK, FirstRun
  <2> QED BY <2>1, <2>2 DEF SaverOK, FirstRun, local, Saving
<1> QED BY <1>2, <1>3, <1>4 DEF Inv

LEMMA EnsurePasswordInv == ASSUME Inv, EnsurePassword PROVE Inv'
<1> DEFINE c == [current EXCEPT !.pass = Generated]
<1>1. Normal(current) /\ current \in Config
  BY DEF Inv, FilesOK, EnsurePassword, Normal, Usable
<1>2. Main \in Savers
  BY DEF Savers
<1>3. CASE current.auth /\ current.pass = Blank
  <2>1. c \in Config /\ c.pass = Generated
    BY <1>1 DEF Config
  <2>2. Normal(Normalize(c)) /\ Normalize(c).pass # Blank
    BY <2>1, NormalizeIsNormal, PasswordAssumption DEF Normalize
  <2>3. /\ pc' = [pc EXCEPT ![Main] = "lock"]
        /\ next' = [next EXCEPT ![Main] = Normalize(c)]
        /\ UNCHANGED <<disk, tmp, current, holder, form, phase>>
    BY <1>3 DEF EnsurePassword, Goto, files
  <2> HIDE DEF c
  <2>4. TypeOK'
    BY <2>2, <2>3 DEF Inv, TypeOK, Labels, Normal
  <2>5. FilesOK'
    BY <1>2, <2>3 DEF Inv, FilesOK, EnsurePassword, TypeOK
  <2>6. ASSUME NEW a \in Savers PROVE SaverOK(a)'
    <3>1. SaverOK(a) /\ a \in DOMAIN pc /\ a \in DOMAIN next
      BY DEF Inv, TypeOK
    <3>2. CASE a = Main
      BY <1>3, <2>2, <2>3, <3>1, <3>2 DEF SaverOK, EnsurePassword, Saving
    <3>3. CASE a # Main
      BY <2>3, <3>1, <3>3 DEF SaverOK
    <3> QED BY <3>2, <3>3
  <2> QED BY <2>4, <2>5, <2>6 DEF Inv
<1>4. CASE ~(current.auth /\ current.pass = Blank)
  <2>1. /\ phase' = "serving"
        /\ UNCHANGED <<disk, tmp, current, holder, pc, form, next>>
    BY <1>4 DEF EnsurePassword, files
  <2>2. TypeOK'
    BY <2>1 DEF Inv, TypeOK, Phases
  <2>3. FilesOK'
    BY <2>1 DEF Inv, FilesOK, EnsurePassword
  <2>4. ASSUME NEW a \in Savers PROVE SaverOK(a)'
    BY <2>1 DEF Inv, SaverOK, EnsurePassword
  <2> QED BY <2>2, <2>3, <2>4 DEF Inv
<1> QED BY <1>3, <1>4

LEMMA SubmitInv ==
  ASSUME Inv, NEW b \in Admins, NEW f \in Forms, Submit(b, f)
  PROVE  Inv'
<1> DEFINE n == Normalize(Filled(current, f))
<1>1. b \in Savers /\ b # Main
  BY MainAssumption DEF Savers
<1>2. Normal(n) /\ n \in Config
  BY FilledType, NormalizeIsNormal, FormsAssumption
     DEF Inv, FilesOK, Submit, Normal, Usable
<1>3. /\ pc' = [pc EXCEPT ![b] = IF f.url = "bad" THEN "reply" ELSE "lock"]
      /\ next' = IF f.url = "bad" THEN next ELSE [next EXCEPT ![b] = n]
      /\ form' = [form EXCEPT ![b] = f]
      /\ UNCHANGED <<disk, tmp, current, holder, phase>>
  BY DEF Submit, Goto, files, memory
<1> HIDE DEF n
<1>4. TypeOK'
  BY <1>2, <1>3 DEF Inv, TypeOK, Labels, Normal, Usable
<1>5. FilesOK'
  BY <1>1, <1>3 DEF Inv, FilesOK, Submit, TypeOK
<1>6. ASSUME NEW a \in Savers PROVE SaverOK(a)'
  <2>1. SaverOK(a) /\ a \in DOMAIN pc /\ a \in DOMAIN next
    BY DEF Inv, TypeOK
  <2>2. CASE a = b
    BY <1>1, <1>2, <1>3, <2>1, <2>2 DEF SaverOK, Submit, Saving
  <2>3. CASE a # b
    BY <1>3, <2>1, <2>3 DEF SaverOK
  <2> QED BY <2>2, <2>3
<1> QED BY <1>4, <1>5, <1>6 DEF Inv

LEMMA LockInv ==
  ASSUME Inv, NEW b \in Savers, Lock(b)
  PROVE  Inv'
<1>1. /\ pc' = [pc EXCEPT ![b] = "open"]
      /\ holder = NoOne /\ holder' = b
      /\ UNCHANGED <<disk, tmp, current, phase, form, next>>
  BY DEF Lock, Goto, files
<1>2. TypeOK'
  BY <1>1 DEF Inv, TypeOK, Labels
<1>3. FilesOK'
  BY <1>1 DEF Inv, FilesOK, Lock, TypeOK
<1>4. ASSUME NEW a \in Savers PROVE SaverOK(a)'
  <2>1. SaverOK(a) /\ a \in DOMAIN pc
    BY DEF Inv, TypeOK
  <2>2. pc[a] \notin Saving
    BY <1>1, <2>1, LockAssumption DEF SaverOK
  <2>3. CASE a = b
    BY <1>1, <2>1, <2>3 DEF SaverOK, Lock, Saving
  <2>4. CASE a # b
    BY <1>1, <2>1, <2>2, <2>4 DEF SaverOK
  <2> QED BY <2>3, <2>4
<1> QED BY <1>2, <1>3, <1>4 DEF Inv

\* Only the saver that moves is past "lock".
LEMMA OneSaver ==
  ASSUME Inv, NEW a \in Savers, NEW b \in Savers, pc[b] \in Saving, a # b
  PROVE  pc[a] \notin Saving
  BY DEF Inv, SaverOK

LEMMA OpenTmpInv ==
  ASSUME Inv, NEW b \in Savers, OpenTmp(b)
  PROVE  Inv'
<1>1. /\ pc' = [pc EXCEPT ![b] = "write"]
      /\ tmp' = Torn
      /\ UNCHANGED <<disk, current, holder, phase, form, next>>
  BY DEF OpenTmp, Goto, memory
<1>2. pc[b] \in Saving /\ pc[b] = "open"
  BY DEF OpenTmp, Saving
<1>3. TypeOK'
  BY <1>1 DEF Inv, TypeOK, Labels
<1>4. FilesOK'
  BY <1>1, <1>2 DEF Inv, FilesOK, TypeOK
<1>5. ASSUME NEW a \in Savers PROVE SaverOK(a)'
  <2>1. SaverOK(a) /\ a \in DOMAIN pc
    BY DEF Inv, TypeOK
  <2>2. CASE a = b
    BY <1>1, <1>2, <2>1, <2>2 DEF SaverOK, Saving
  <2>3. CASE a # b
    BY <1>1, <1>2, <2>1, <2>3, OneSaver DEF SaverOK, Saving
  <2> QED BY <2>2, <2>3
<1> QED BY <1>3, <1>4, <1>5 DEF Inv

LEMMA WriteTmpInv ==
  ASSUME Inv, NEW b \in Savers, WriteTmp(b)
  PROVE  Inv'
<1>1. /\ pc' = [pc EXCEPT ![b] = "rename"]
      /\ tmp' = next[b]
      /\ UNCHANGED <<disk, current, holder, phase, form, next>>
  BY DEF WriteTmp, Goto, memory
<1>2. pc[b] \in Saving /\ pc[b] = "write"
  BY DEF WriteTmp, Saving
<1>3. next[b] \in Config
  BY <1>2 DEF Inv, SaverOK, Normal, Usable
<1>4. TypeOK'
  BY <1>1, <1>3 DEF Inv, TypeOK, Labels
<1>5. FilesOK'
  BY <1>1, <1>2 DEF Inv, FilesOK, TypeOK
<1>6. ASSUME NEW a \in Savers PROVE SaverOK(a)'
  <2>1. SaverOK(a) /\ a \in DOMAIN pc
    BY DEF Inv, TypeOK
  <2>2. CASE a = b
    BY <1>1, <1>2, <2>1, <2>2 DEF SaverOK, Saving
  <2>3. CASE a # b
    BY <1>1, <1>2, <2>1, <2>3, OneSaver DEF SaverOK, Saving
  <2> QED BY <2>2, <2>3
<1> QED BY <1>4, <1>5, <1>6 DEF Inv

LEMMA RenameInv ==
  ASSUME Inv, NEW b \in Savers, Rename(b)
  PROVE  Inv'
<1>1. /\ pc' = [pc EXCEPT ![b] = "publish"]
      /\ disk' = tmp /\ tmp' = Absent
      /\ UNCHANGED <<current, holder, phase, form, next>>
  BY DEF Rename, Goto, memory
<1>2. pc[b] \in Saving /\ pc[b] = "rename"
  BY DEF Rename, Saving
<1>3. tmp = next[b] /\ next[b] \in Config
  BY <1>2 DEF Inv, SaverOK, Normal, Usable
<1>4. TypeOK'
  BY <1>1, <1>3 DEF Inv, TypeOK, Labels
<1>5. FilesOK'
  <2>1. pc'[b] = "publish"
    BY <1>1 DEF Inv, TypeOK
  <2> QED BY <1>1, <1>3, <2>1 DEF Inv, FilesOK
<1>6. ASSUME NEW a \in Savers PROVE SaverOK(a)'
  <2>1. SaverOK(a) /\ a \in DOMAIN pc
    BY DEF Inv, TypeOK
  <2>2. CASE a = b
    BY <1>1, <1>2, <1>3, <2>1, <2>2 DEF SaverOK, Saving
  <2>3. CASE a # b
    BY <1>1, <1>2, <2>1, <2>3, OneSaver DEF SaverOK, Saving
  <2> QED BY <2>2, <2>3
<1> QED BY <1>4, <1>5, <1>6 DEF Inv

LEMMA PublishInv ==
  ASSUME Inv, NEW b \in Savers, Publish(b)
  PROVE  Inv'
<1>1. /\ pc' = [pc EXCEPT ![b] = IF b = Main THEN "idle" ELSE "reply"]
      /\ phase' = IF b = Main THEN "serving" ELSE phase
      /\ current' = next[b] /\ holder' = NoOne
      /\ UNCHANGED <<disk, tmp, form, next>>
  BY DEF Publish, Goto, files
<1>2. pc[b] \in Saving /\ pc[b] = "publish"
  BY DEF Publish, Saving
<1>3. disk = next[b] /\ Normal(next[b]) /\ next[b] \in Config
  BY <1>2 DEF Inv, SaverOK, Normal, Usable
<1>4. TypeOK'
  BY <1>1, <1>3 DEF Inv, TypeOK, Labels, Phases
<1>5. FilesOK'
  BY <1>1, <1>3 DEF FilesOK, Normal
<1>6. ASSUME NEW a \in Savers PROVE SaverOK(a)'
  <2>1. SaverOK(a) /\ SaverOK(b) /\ a \in DOMAIN pc
    BY DEF Inv, TypeOK
  <2>2. CASE a = b
    BY <1>1, <1>2, <2>1, <2>2, LockAssumption DEF SaverOK, Saving
  <2>3. CASE a # b
    <3>1. pc[a] \notin Saving /\ pc'[a] = pc[a]
      BY <1>1, <1>2, <2>1, <2>3, OneSaver
    <3>2. a # Main
         \/ pc[a] = "idle"
      <4>1. CASE a = Main /\ pc[a] # "idle"
        <5>1. pc[b] # "idle" /\ b # Main
          BY <1>2, <2>3, <4>1 DEF Saving
        <5> QED BY <2>1, <4>1, <5>1 DEF SaverOK
      <4> QED BY <4>1
    <3> QED BY <1>1, <2>1, <2>3, <3>1, <3>2, LockAssumption DEF SaverOK, Saving
  <2> QED BY <2>2, <2>3
<1> QED BY <1>4, <1>5, <1>6 DEF Inv

LEMMA SaveFailsInv ==
  ASSUME Inv, NEW b \in Savers, SaveFails(b)
  PROVE  Inv'
<1>1. CASE b = Main
  BY <1>1, StopInv DEF SaveFails
<1>2. CASE b # Main
  <2>1. /\ pc' = [pc EXCEPT ![b] = "reply"]
        /\ holder' = NoOne
        /\ UNCHANGED <<disk, tmp, current, phase, form, next>>
    BY <1>2 DEF SaveFails, Goto, files
  <2>2. pc[b] \in Saving /\ pc[b] # "publish"
    BY DEF SaveFails, Saving
  <2>3. TypeOK'
    BY <2>1 DEF Inv, TypeOK, Labels
  <2>4. FilesOK'
    BY <2>1, <2>2 DEF Inv, FilesOK, TypeOK
  <2>5. ASSUME NEW a \in Savers PROVE SaverOK(a)'
    <3>1. SaverOK(a) /\ SaverOK(b) /\ a \in DOMAIN pc
      BY DEF Inv, TypeOK
    <3>2. CASE a = b
      BY <1>2, <2>1, <2>2, <3>1, <3>2, LockAssumption DEF SaverOK, Saving
    <3>3. CASE a # b
      BY <2>1, <2>2, <3>1, <3>3, OneSaver, LockAssumption
         DEF SaverOK, Saving
    <3> QED BY <3>2, <3>3
  <2> QED BY <2>3, <2>4, <2>5 DEF Inv
<1> QED BY <1>1, <1>2

LEMMA ReplyInv ==
  ASSUME Inv, NEW b \in Savers, Reply(b)
  PROVE  Inv'
<1>1. /\ pc' = [pc EXCEPT ![b] = "idle"]
      /\ form' = [form EXCEPT ![b] = NoForm]
      /\ next' = [next EXCEPT ![b] = NoConfig]
      /\ UNCHANGED <<disk, tmp, current, holder, phase>>
  BY DEF Reply, Goto, files, memory
<1>2. TypeOK'
  BY <1>1 DEF Inv, TypeOK, Labels
<1>3. FilesOK'
  BY <1>1 DEF Inv, FilesOK, Reply, TypeOK
<1>4. ASSUME NEW a \in Savers PROVE SaverOK(a)'
  <2>1. SaverOK(a) /\ a \in DOMAIN pc /\ a \in DOMAIN next
    BY DEF Inv, TypeOK
  <2>2. CASE a = b
    BY <1>1, <2>1, <2>2 DEF SaverOK, Reply, Saving
  <2>3. CASE a # b
    BY <1>1, <2>1, <2>3 DEF SaverOK
  <2> QED BY <2>2, <2>3
<1> QED BY <1>2, <1>3, <1>4 DEF Inv

LEMMA InvStep == Inv /\ [Next]_vars => Inv'
<1> SUFFICES ASSUME Inv, [Next]_vars PROVE Inv'
  OBVIOUS
<1>1. CASE Load BY <1>1, LoadInv
<1>2. CASE FirstRun BY <1>2, FirstRunInv
<1>3. CASE EnsurePassword BY <1>3, EnsurePasswordInv
<1>4. ASSUME NEW a \in Admins, NEW f \in Forms, Submit(a, f) PROVE Inv'
  BY <1>4, SubmitInv
<1>5. ASSUME NEW a \in Savers, Lock(a) PROVE Inv'
  BY <1>5, LockInv
<1>6. ASSUME NEW a \in Savers, Step(a) PROVE Inv'
  BY <1>6, OpenTmpInv, WriteTmpInv, RenameInv, PublishInv, SaveFailsInv,
     ReplyInv DEF Step
<1>7. CASE Crash BY <1>7, StopInv DEF Crash
<1>8. CASE UNCHANGED vars
  BY <1>8 DEF Inv, TypeOK, FilesOK, SaverOK, vars
<1> QED BY <1>1, <1>2, <1>3, <1>4, <1>5, <1>6, <1>7, <1>8 DEF Next

LEMMA InvHolds == Spec => []Inv
  BY InitInv, InvStep, PTL DEF Spec

-----------------------------------------------------------------------------
(* The properties.                                                         *)

\* The variables stay in their types.
THEOREM ConfigTypeCorrect == Spec => []TypeOK
<1>1. Inv => TypeOK BY DEF Inv
<1> QED BY <1>1, InvHolds, PTL

\* A crash at any point leaves a configuration file that can be read.
THEOREM ConfigFileIsWhole == Spec => []FileIsWhole
<1>1. Inv => FileIsWhole
  BY NoTornConfig DEF Inv, FilesOK, FileIsWhole
<1> QED BY <1>1, InvHolds, PTL

\* The published snapshot is what a restart would load, but for a rename
\* that is not published yet.
THEOREM ConfigStoredIsLive == Spec => []StoredIsLive
<1>1. ASSUME Inv PROVE StoredIsLive
  <2>1. SUFFICES ASSUME phase = "serving", current # Normalize(disk)
                 PROVE  \E a \in Admins : pc[a] = "publish" /\ disk = next[a]
    BY DEF StoredIsLive
  <2>2. PICK a \in Savers : pc[a] = "publish"
    BY <1>1, <2>1 DEF Inv, FilesOK
  <2>3. SaverOK(a)
    BY <1>1 DEF Inv
  <2>4. a # Main /\ disk = next[a]
    BY <2>1, <2>2, <2>3 DEF SaverOK
  <2> QED BY <2>2, <2>4 DEF Savers
<1> QED BY <1>1, InvHolds, PTL

\* The panel never starts to serve without a password while the login is on,
\* and never overwrites one at start-up.
THEOREM ConfigStartsWithPassword == Spec => StartsWithPassword
<1>1. ASSUME Inv, [Next]_vars, phase # "serving", phase' = "serving"
      PROVE  /\ current'.auth => current'.pass # Blank
             /\ current.pass # Blank => current'.pass = current.pass
  <2>1. CASE EnsurePassword
    <3>1. UNCHANGED current /\ ~(current.auth /\ current.pass = Blank)
      BY <1>1, <2>1 DEF EnsurePassword
    <3> QED BY <3>1
  <2>2. ASSUME NEW a \in Savers, Publish(a)
        PROVE  /\ current'.auth => current'.pass # Blank
               /\ current.pass # Blank => current'.pass = current.pass
    <3>1. a = Main /\ pc[a] # "idle" /\ current' = next[a]
      BY <1>1, <2>2 DEF Publish
    <3>2. SaverOK(a)
      BY <1>1 DEF Inv
    <3> QED BY <3>1, <3>2 DEF SaverOK
  <2>3. EnsurePassword \/ \E a \in Savers : Publish(a)
    BY <1>1 DEF Next, Step, Load, FirstRun, Submit, Lock, OpenTmp, WriteTmp,
                Rename, SaveFails, Reply, Crash, Stop, vars, memory
  <2> QED BY <2>1, <2>2, <2>3
<1> QED BY <1>1, InvHolds, PTL DEF Spec, StartsWithPassword
=============================================================================
