---------------------------- MODULE PanelSession ----------------------------
(***************************************************************************)
(* Sessions of the panel, together with the login that issues them, the    *)
(* configuration whose password they are bound to, and restarts.  Nothing  *)
(* is kept of a session but its cookie: it is valid when its signature is  *)
(* the one the server would make now, under its secret and the password of *)
(* the moment.  A login reads the configuration twice, once to compare the *)
(* credentials and once to sign, and its two visits to the limiter come in *)
(* between.  The panel is LoginLimiter with what happens around it.        *)
(***************************************************************************)
EXTENDS LoginLimiter

CONSTANTS
  Passwords,   \* panel passwords
  Secrets,     \* what rand.Read may return
  SessionTTL   \* sessionTTL, in units of time

ASSUME TTLAssumption == SessionTTL \in Nat

VARIABLES
  phase,     \* main: down, writing a new secret, or serving
  keyFile,   \* session.key: a secret, or one of Unusable
  secret,    \* the secret in memory
  stored,    \* the password in config.json
  live,      \* the published password
  seen,      \* of each handler: the password of its snapshot
  issuing,   \* handlers that are about to sign a session
  raced,     \* history: handlers that have seen the password change
  token,     \* any one session that has been issued, if one is watched
  lost,      \* history: a start could not read the secret it was signed with
  ended      \* history: another password has been published since it was
             \* issued, and nobody has saved its own again

key     == <<phase, keyFile, secret>>
config  == <<stored, live>>
local   == <<seen, issuing, raced>>
history == <<lost, ended>>
session == <<key, config, local, token, history>>

\* No file, or one that is shorter than 32 bytes.
Unusable == {"absent", "short"}
NoSecret == "absent"
ASSUME SecretsAssumption == Secrets \cap Unusable = {}

NoPassword == "none"
ASSUME PasswordsAssumption == NoPassword \notin Passwords

NoToken == [shown |-> NoPassword]
Token == [exp : Nat, secret : Secrets, pass : Passwords,
          shown : Passwords, raced : BOOLEAN]

\* The handlers that have a login under way.
Busy == {h \in Handlers : client[h] # NoClient} \cup issuing

\* Mutant: the signature does not depend on the password.
ValidForAnyPassword(t) ==
  /\ t # NoToken
  /\ clock <= t.exp
  /\ t.secret = secret

\* validSession, and so withAuth while authentication is on.
Valid(t) ==
  /\ t # NoToken
  /\ clock <= t.exp
  /\ t.secret = secret
  /\ t.pass = live

-----------------------------------------------------------------------------
PanelInit ==
  /\ Init
  /\ phase = "down"
  /\ keyFile \in Unusable
  /\ secret = NoSecret
  /\ stored \in Passwords
  /\ live = stored
  /\ seen = [h \in Handlers |-> NoPassword]
  /\ issuing = {}
  /\ raced = {}
  /\ token = NoToken
  /\ lost = FALSE
  /\ ended = FALSE

\* The watched session was issued under another password than p.
EndedBy(p) == token # NoToken /\ token.pass # p

\* NewManager, and loadSecret reads a secret.
LoadSecret ==
  /\ phase = "down"
  /\ keyFile \in Secrets
  /\ phase' = "serving"
  /\ secret' = keyFile
  /\ live' = stored
  /\ ended' = (ended \/ EndedBy(stored))
  /\ UNCHANGED <<vars, keyFile, stored, local, token, lost>>

\* Mutant: the panel serves before the secret is in its file.
MakeSecretInBackground(s) ==
  /\ phase = "down"
  /\ phase' = "serving"
  /\ secret' = s
  /\ keyFile' \in {s, "short"}
  /\ live' = stored
  /\ lost' = (lost \/ (token # NoToken /\ keyFile \in Secrets))
  /\ ended' = (ended \/ EndedBy(stored))
  /\ UNCHANGED <<vars, stored, local, token>>

(***************************************************************************)
(* loadSecret makes a new secret, and the file is truncated and then       *)
(* written: when there is no file or a short one, and as well when the     *)
(* file is good but could not be read, whatever the error.  (When it       *)
(* cannot be opened for writing either, the process ends as it began.)     *)
(***************************************************************************)
MakeSecret(s) ==
  /\ phase = "down"
  /\ phase' = "writing"
  /\ secret' = s
  /\ keyFile' = "short"
  /\ live' = stored
  /\ lost' = (lost \/ (token # NoToken /\ keyFile \in Secrets))
  /\ ended' = (ended \/ EndedBy(stored))
  /\ UNCHANGED <<vars, stored, local, token>>

WriteSecret ==
  /\ phase = "writing"
  /\ phase' = "serving"
  /\ keyFile' = secret
  /\ UNCHANGED <<vars, secret, config, local, token, history>>

\* POST /login, up to its credentials.
RefuseLogin(h, ip) ==
  /\ phase = "serving"
  /\ h \notin issuing
  /\ Refuse(h, ip)
  /\ UNCHANGED session

BeginLogin(h, ip) ==
  /\ phase = "serving"
  /\ h \notin issuing
  /\ Admit(h, ip)
  /\ seen' = [seen EXCEPT ![h] = live]
  /\ UNCHANGED <<key, config, issuing, raced, token, history>>

\* The handler of a login returns.
Forget(h) ==
  /\ seen' = [seen EXCEPT ![h] = NoPassword]
  /\ raced' = raced \ {h}

\* The credentials shown are not those of the snapshot, or they are.
FailLogin(h) ==
  /\ Fail(h)
  /\ Forget(h)
  /\ UNCHANGED <<key, config, issuing, token, history>>

PassLogin(h) ==
  /\ Succeed(h)
  /\ issuing' = issuing \cup {h}
  /\ UNCHANGED <<key, config, seen, raced, token, history>>

\* issueSession: sign reads the configuration again.
IssueSession(h) ==
  LET issued == [exp |-> clock + SessionTTL, secret |-> secret,
                 pass |-> live, shown |-> seen[h], raced |-> h \in raced]
  IN /\ h \in issuing
     /\ issuing' = issuing \ {h}
     /\ token' \in IF token = NoToken THEN {NoToken, issued} ELSE {token}
     /\ Forget(h)
     /\ UNCHANGED <<vars, key, config, history>>

\* Mutant: the pointer is swapped although the file could not be renamed.
PersistUnwritten(p) ==
  /\ phase = "serving"
  /\ stored = live
  /\ live' = p
  /\ raced' = Busy
  /\ ended' = (ended \/ EndedBy(p))
  /\ UNCHANGED <<vars, key, stored, seen, issuing, token, lost>>

\* Save, one at a time: the file is renamed, then the pointer is swapped.
Persist(p) ==
  /\ phase = "serving"
  /\ stored = live
  /\ stored' = p
  /\ ended' = (ended /\ EndedBy(p))
  /\ UNCHANGED <<vars, key, live, local, token, lost>>

Publish ==
  /\ phase = "serving"
  /\ stored # live
  /\ live' = stored
  /\ raced' = Busy
  /\ ended' = (ended \/ EndedBy(stored))
  /\ UNCHANGED <<vars, key, stored, seen, issuing, token, lost>>

\* A crash, a stop, or a secret that cannot be written.
StopPanel ==
  /\ phase # "down"
  /\ Stop
  /\ phase' = "down"
  /\ secret' = NoSecret
  /\ seen' = [h \in Handlers |-> NoPassword]
  /\ issuing' = {}
  /\ raced' = {}
  /\ UNCHANGED <<keyFile, config, token, history>>

PassTime == Tick /\ UNCHANGED session

PanelNext ==
  \/ LoadSecret
  \/ \E s \in Secrets : MakeSecret(s)
  \/ WriteSecret
  \/ \E h \in Handlers, ip \in IPs : RefuseLogin(h, ip) \/ BeginLogin(h, ip)
  \/ \E h \in Handlers : FailLogin(h) \/ PassLogin(h) \/ IssueSession(h)
  \/ \E p \in Passwords : Persist(p)
  \/ Publish
  \/ StopPanel
  \/ PassTime

PanelSpec == PanelInit /\ [][PanelNext]_<<vars, session>>

-----------------------------------------------------------------------------
\* Type invariant.
PanelTypeOK ==
  /\ TypeOK
  /\ phase \in {"down", "writing", "serving"}
  /\ keyFile \in Secrets \cup Unusable
  /\ secret \in Secrets \cup {NoSecret}
  /\ phase # "down" <=> secret # NoSecret
  /\ stored \in Passwords /\ live \in Passwords
  /\ seen \in [Handlers -> Passwords \cup {NoPassword}]
  /\ issuing \subseteq Handlers
  /\ raced \subseteq Busy
  /\ \A h \in Handlers : h \in Busy <=> seen[h] # NoPassword
  /\ Busy # {} => phase = "serving"
  /\ token \in Token \cup {NoToken}
  /\ lost \in BOOLEAN /\ ended \in BOOLEAN

(***************************************************************************)
(* "generating and persisting a new 32-byte secret on first run so         *)
(* sessions survive restarts": the secret of any session ever issued is    *)
(* the one the panel serves with, though any start may be killed while it  *)
(* writes one, unless a start since then failed to read a good session.key *)
(* and replaced it, which the code does on any error.                      *)
(***************************************************************************)
SessionsSurviveRestarts ==
  phase = "serving" /\ token # NoToken => token.secret = secret \/ lost

(***************************************************************************)
(* Who gets in knew the password: a session that is valid was given for    *)
(* the password of the moment, or to a login that was under way while the  *)
(* password changed (compared with the old one, signed under the new).     *)
(***************************************************************************)
PasswordOpensSessions ==
  phase = "serving" /\ Valid(token) => token.shown = live \/ token.raced

(***************************************************************************)
(* "changing it invalidates every previously issued session token", for    *)
(* good: once another password has been published no crash, no restart and *)
(* no unfinished save makes the session valid again; only saving its own   *)
(* password does.                                                          *)
(***************************************************************************)
ChangeEndsSessions == phase = "serving" /\ Valid(token) => ~ended
=============================================================================
