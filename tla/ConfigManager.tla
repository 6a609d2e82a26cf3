---------------------------- MODULE ConfigManager ----------------------------
(***************************************************************************)
(* The configuration of the panel: a file, a published snapshot that every *)
(* request reads without a lock, and saves that replace both.  The admin   *)
(* page's handlers take a snapshot, fill in their form and call Save; at   *)
(* start-up main loads the file, generates a panel password if one is      *)
(* needed and saves it in the same way.  The process may be killed at any  *)
(* moment and started again.                                               *)
(*                                                                         *)
(* Of the fields, two stand for the ones that are copied as they are (the  *)
(* login switch and the password, which a blank field keeps) and two for   *)
(* the ones that normalize corrects (a number and the sync direction).     *)
(***************************************************************************)
EXTENDS Integers

CONSTANTS
  Admins,        \* handler goroutines of POST /admin/save
  Main,          \* the main goroutine
  Passwords,     \* passwords an operator chooses
  Generated,     \* the password ensurePanelPassword makes up
  Forms,         \* the forms the admin page is submitted with
  InitialFiles,  \* what config.json may hold before the first start
  NotANumber,    \* a number field with something else in it
  DiskFails      \* whether writing the file can fail

Savers == Admins \cup {Main}
Blank == "blank"
Directions == {"master_to_backup", "backup_to_master"}

\* A configuration, as it may be read from a file.
Config == [auth : BOOLEAN, pass : Passwords \cup {Generated, Blank},
           interval : Int, direction : Directions \cup {"other"}]

Form == [auth : BOOLEAN, pass : Passwords \cup {Blank},
         interval : Int \cup {NotANumber},
         direction : Directions \cup {"other"}, url : {"good", "bad"}]

Absent == [file |-> "absent"]
Torn == [file |-> "torn"]      \* opened and not yet completely written
NoConfig == [file |-> "none"]
NoForm == [url |-> "none"]
NoOne == [saver |-> "none"]

ASSUME MainAssumption == Main \notin Admins
ASSUME LockAssumption == NoOne \notin Savers
ASSUME PasswordAssumption == Blank \notin Passwords \cup {Generated}
ASSUME NumberAssumption == NotANumber \notin Int
ASSUME FormsAssumption == Forms \subseteq Form
ASSUME FilesAssumption == InitialFiles \subseteq Config \cup {Absent}
ASSUME DiskAssumption == DiskFails \in BOOLEAN

VARIABLES
  disk,     \* config.json
  tmp,      \* config.json.tmp
  current,  \* the published snapshot
  holder,   \* who holds saveMu
  phase,    \* of the process: "down", "starting" or "serving"
  pc,       \* of each saver: "idle", "lock", "open", "write", "rename",
            \*   "publish" or "reply"
  form,     \* the form a handler has been sent
  next      \* the configuration a saver is about to save

files  == <<disk, tmp>>
memory == <<current, holder, phase>>
local  == <<pc, form, next>>
vars == <<disk, tmp, current, holder, phase, pc, form, next>>

Default == [auth |-> TRUE, pass |-> Blank, interval |-> 5,
            direction |-> "master_to_backup"]

\* Mutant: the number is taken as it is.
NormalizeDirectionOnly(c) ==
  [c EXCEPT !.direction = IF @ = "backup_to_master" THEN @
                                                    ELSE "master_to_backup"]

Normalize(c) ==
  [auth |-> c.auth,
   pass |-> c.pass,
   interval |-> IF c.interval < 1 THEN 5 ELSE c.interval,
   direction |-> IF c.direction = "backup_to_master" THEN c.direction
                                                     ELSE "master_to_backup"]

\* The clone of snapshot c with the fields of form f.
Filled(c, f) ==
  [auth |-> f.auth,
   pass |-> IF f.pass = Blank THEN c.pass ELSE f.pass,
   interval |-> IF f.interval = NotANumber THEN c.interval ELSE f.interval,
   direction |-> f.direction]

Goto(a, label) == pc' = [pc EXCEPT ![a] = label]

Nothing(value) == [a \in Savers |-> value]

\* What is in memory is gone.
Stop ==
  /\ phase' = "down"
  /\ current' = NoConfig
  /\ holder' = NoOne
  /\ pc' = Nothing("idle")
  /\ form' = Nothing(NoForm)
  /\ next' = Nothing(NoConfig)

-----------------------------------------------------------------------------
Init ==
  /\ disk \in InitialFiles
  /\ tmp = Absent
  /\ current = NoConfig
  /\ holder = NoOne
  /\ phase = "down"
  /\ pc = Nothing("idle")
  /\ form = Nothing(NoForm)
  /\ next = Nothing(NoConfig)

(***************************************************************************)
(* NewManager: the file is read, or written with the defaults when it is   *)
(* not there.  A file that cannot be decoded, and a write that fails or is *)
(* cut short, leave the process down.                                      *)
(***************************************************************************)
Load ==
  /\ phase = "down"
  /\ disk \in Config
  /\ current' = Normalize(disk)
  /\ phase' = "starting"
  /\ UNCHANGED <<files, holder, local>>

FirstRun ==
  /\ phase = "down"
  /\ disk = Absent
  /\ \/ /\ disk' = Default
        /\ tmp' = Absent
        /\ current' = Default
        /\ phase' = "starting"
     \/ /\ tmp' \in {Torn, Default}
        /\ UNCHANGED <<disk, current, phase>>
  /\ UNCHANGED <<holder, local>>

\* Mutant: a password is made up at every start.
EnsureNewPassword ==
  /\ phase = "starting"
  /\ pc[Main] = "idle"
  /\ Goto(Main, "lock")
  /\ next' = [next EXCEPT ![Main] =
                Normalize([current EXCEPT !.pass = Generated])]
  /\ UNCHANGED <<files, memory, form>>

\* ensurePanelPassword, up to its Save.
EnsurePassword ==
  /\ phase = "starting"
  /\ pc[Main] = "idle"
  /\ IF current.auth /\ current.pass = Blank
       THEN /\ Goto(Main, "lock")
            /\ next' = [next EXCEPT ![Main] =
                          Normalize([current EXCEPT !.pass = Generated])]
            /\ UNCHANGED phase
       ELSE /\ phase' = "serving"
            /\ UNCHANGED <<pc, next>>
  /\ UNCHANGED <<files, current, holder, form>>

\* adminSave up to its Save, which normalizes before it takes the lock.
Submit(a, f) ==
  /\ a \in Admins
  /\ phase = "serving"
  /\ pc[a] = "idle"
  /\ form' = [form EXCEPT ![a] = f]
  /\ IF f.url = "bad"
       THEN /\ Goto(a, "reply")
            /\ UNCHANGED next
       ELSE /\ Goto(a, "lock")
            /\ next' = [next EXCEPT ![a] = Normalize(Filled(current, f))]
  /\ UNCHANGED <<files, memory>>

\* Mutant: the configuration is published before it is in the file.
LockAndPublish(a) ==
  /\ pc[a] = "lock"
  /\ holder = NoOne
  /\ holder' = a
  /\ current' = next[a]
  /\ Goto(a, "open")
  /\ UNCHANGED <<files, phase, form, next>>

(***************************************************************************)
(* Save, under saveMu: the temporary file is truncated, written and        *)
(* renamed, and only then is the new configuration published.              *)
(***************************************************************************)
Lock(a) ==
  /\ pc[a] = "lock"
  /\ holder = NoOne
  /\ holder' = a
  /\ Goto(a, "open")
  /\ UNCHANGED <<files, current, phase, form, next>>

\* Mutant: config.json itself is truncated.
OpenInPlace(a) ==
  /\ pc[a] = "open"
  /\ disk' = Torn
  /\ Goto(a, "write")
  /\ UNCHANGED <<tmp, memory, form, next>>

OpenTmp(a) ==
  /\ pc[a] = "open"
  /\ tmp' = Torn
  /\ Goto(a, "write")
  /\ UNCHANGED <<disk, memory, form, next>>

WriteTmp(a) ==
  /\ pc[a] = "write"
  /\ tmp' = next[a]
  /\ Goto(a, "rename")
  /\ UNCHANGED <<disk, memory, form, next>>

Rename(a) ==
  /\ pc[a] = "rename"
  /\ disk' = tmp
  /\ tmp' = Absent
  /\ Goto(a, "publish")
  /\ UNCHANGED <<memory, form, next>>

\* The snapshot is replaced and the lock released; main goes on to serve.
Publish(a) ==
  /\ pc[a] = "publish"
  /\ current' = next[a]
  /\ holder' = NoOne
  /\ IF a = Main THEN phase' = "serving" /\ Goto(a, "idle")
                 ELSE UNCHANGED phase /\ Goto(a, "reply")
  /\ UNCHANGED <<files, form, next>>

\* Mutant: an error path that returns without unlocking.
SaveFailsLocked(a) ==
  /\ DiskFails
  /\ pc[a] \in {"open", "write", "rename"}
  /\ Goto(a, "reply")
  /\ UNCHANGED <<files, memory, form, next>>

\* A handler reports the error and serves on; main gives up.
SaveFails(a) ==
  /\ DiskFails
  /\ pc[a] \in {"open", "write", "rename"}
  /\ IF a = Main THEN Stop
                 ELSE /\ holder' = NoOne
                      /\ Goto(a, "reply")
                      /\ UNCHANGED <<current, phase, form, next>>
  /\ UNCHANGED files

Reply(a) ==
  /\ pc[a] = "reply"
  /\ Goto(a, "idle")
  /\ form' = [form EXCEPT ![a] = NoForm]
  /\ next' = [next EXCEPT ![a] = NoConfig]
  /\ UNCHANGED <<files, memory>>

Crash ==
  /\ phase # "down"
  /\ Stop
  /\ UNCHANGED files

Step(a) ==
  \/ OpenTmp(a) \/ WriteTmp(a) \/ Rename(a) \/ Publish(a) \/ SaveFails(a)
  \/ Reply(a)

Next ==
  \/ Load \/ FirstRun \/ EnsurePassword
  \/ \E a \in Admins, f \in Forms : Submit(a, f)
  \/ \E a \in Savers : Lock(a) \/ Step(a)
  \/ Crash

Spec == Init /\ [][Next]_vars

(***************************************************************************)
(* System calls return and goroutines are scheduled; a sync.Mutex hands    *)
(* itself over to a goroutine that has waited for long, so nobody waits    *)
(* for it for ever.                                                        *)
(***************************************************************************)
FairSpec ==
  /\ Spec
  /\ \A a \in Savers : WF_vars(Step(a)) /\ SF_vars(Lock(a))

-----------------------------------------------------------------------------
Phases == {"down", "starting", "serving"}
Labels == {"idle", "lock", "open", "write", "rename", "publish", "reply"}

\* Type invariant.  Whatever the file and the forms say, the configuration
\* that is in use, and any that is about to be saved, has been normalized.
Usable == {c \in Config : c.interval >= 1 /\ c.direction \in Directions}

TypeOK ==
  /\ disk \in Config \cup {Absent, Torn}
  /\ tmp \in Config \cup {Absent, Torn}
  /\ current \in Usable \cup {NoConfig}
  /\ holder \in Savers \cup {NoOne}
  /\ phase \in Phases
  /\ pc \in [Savers -> Labels]
  /\ form \in [Savers -> Forms \cup {NoForm}]
  /\ next \in [Savers -> Usable \cup {NoConfig}]

(***************************************************************************)
(* Whenever the process is killed, config.json can be read at the next     *)
(* start: it is never a file that was cut short.  (save: "write            *)
(* atomically".)                                                           *)
(***************************************************************************)
FileIsWhole == disk # Torn

(***************************************************************************)
(* What the panel works with is what it would load after a restart, except *)
(* between the rename and the publication of one save, and never the other *)
(* way round: nothing is published that is not in the file.  (Save:        *)
(* "persists cfg and atomically publishes it".)                            *)
(***************************************************************************)
StoredIsLive ==
  phase = "serving" =>
    \/ current = Normalize(disk)
    \/ \E a \in Admins : pc[a] = "publish" /\ disk = next[a]

(***************************************************************************)
(* When it starts to serve with the login on, the panel has a password,    *)
(* and one that was set before is still the same.  (ensurePanelPassword:   *)
(* "it never overwrites an operator-chosen password".)                     *)
(***************************************************************************)
StartsWithPassword ==
  [][phase # "serving" /\ phase' = "serving" =>
       /\ current'.auth => current'.pass # Blank
       /\ current.pass # Blank => current'.pass = current.pass]_vars

(***************************************************************************)
(* A form with a blank password field does not change the password that is *)
(* stored, through crashes and restarts.  (adminSave: "Password fields     *)
(* left blank keep their stored values".)                                  *)
(***************************************************************************)
BlankKeepsPassword ==
  [][\A a \in Admins :
       pc[a] = "publish" /\ pc'[a] = "reply" /\ form[a].pass = Blank =>
         current'.pass = current.pass]_vars

(***************************************************************************)
(* Every submitted form is answered: no error path keeps the lock.         *)
(***************************************************************************)
EverySaveAnswered == \A a \in Admins : pc[a] # "idle" ~> pc[a] = "idle"
=============================================================================
