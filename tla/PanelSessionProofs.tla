-------------------------- MODULE PanelSessionProofs --------------------------
(***************************************************************************)
(* Proofs about sessions, for any number of handlers, clients, passwords   *)
(* and restarts; and that the panel keeps what LoginLimiter promises.      *)
(***************************************************************************)
EXTENDS PanelSession, LoginLimiterProofs

(***************************************************************************)
(* A handler with a login under way has seen the password of the moment,   *)
(* or the change of it.                                                    *)
(***************************************************************************)
LoginOK(h) ==
  /\ h \in Busy <=> seen[h] # NoPassword
  /\ h \in Busy => phase = "serving" /\ (seen[h] = live \/ h \in raced)
  /\ h \in issuing => client[h] = NoClient

LoginsOK ==
  /\ seen \in [Handlers -> Passwords \cup {NoPassword}]
  /\ issuing \subseteq Handlers
  /\ raced \subseteq Busy
  /\ client \in [Handlers -> IPs \cup {NoClient}]
  /\ \A h \in Handlers : LoginOK(h)

ConfigOK == stored \in Passwords /\ live \in Passwords

(***************************************************************************)
(* The file holds the secret before the panel serves, and so before any    *)
(* session is issued; it stays there until a start cannot read it.         *)
(***************************************************************************)
SecretOK ==
  /\ phase \in {"down", "writing", "serving"}
  /\ keyFile \in Secrets \cup Unusable
  /\ phase = "down" => secret = NoSecret
  /\ phase = "writing" => secret \in Secrets /\ keyFile \notin Secrets
  /\ phase = "serving" => secret \in Secrets /\ keyFile = secret

TokenOK ==
  /\ token \in Token \cup {NoToken}
  /\ token # NoToken =>
       /\ lost \/ token.secret = keyFile
       /\ token.pass = token.shown \/ token.raced
  /\ lost \in BOOLEAN

(***************************************************************************)
(* A session that has ended was issued under neither password: not under   *)
(* the published one, nor under the one the next start will publish.       *)
(***************************************************************************)
EndedOK ==
  /\ ended \in BOOLEAN
  /\ ended => EndedBy(stored) /\ EndedBy(live)

PanelInv == LoginsOK /\ ConfigOK /\ SecretOK /\ TokenOK /\ EndedOK

-----------------------------------------------------------------------------
LEMMA NoTokenIsNone == NoToken \notin Token
  BY PasswordsAssumption DEF NoToken, Token

LEMMA SecretIsNotUnusable ==
  NoSecret \notin Secrets /\ "short" \notin Secrets /\ "absent" \notin Secrets
  BY SecretsAssumption DEF NoSecret, Unusable

LEMMA PanelInitInv == PanelInit => PanelInv
<1> SUFFICES ASSUME PanelInit PROVE PanelInv
  OBVIOUS
<1>1. Busy = {}
  BY DEF PanelInit, Init, Busy
<1>2. LoginsOK
  BY <1>1 DEF PanelInit, Init, LoginsOK, LoginOK
<1>3. ConfigOK /\ SecretOK /\ TokenOK /\ EndedOK
  BY DEF PanelInit, ConfigOK, SecretOK, TokenOK, EndedOK
<1> QED BY <1>2, <1>3 DEF PanelInv

-----------------------------------------------------------------------------
(* One lemma for each action.                                              *)

LEMMA LoadSecretInv == ASSUME PanelInv, LoadSecret PROVE PanelInv'
<1>1. UNCHANGED <<vars, keyFile, stored, local, token, lost>>
  BY DEF LoadSecret
<1>2. Busy' = Busy
  BY <1>1 DEF Busy, vars, local
<1>3. Busy = {}
  BY DEF PanelInv, LoginsOK, LoginOK, LoadSecret, Busy
<1>4. LoginsOK'
  BY <1>1, <1>2, <1>3 DEF PanelInv, LoginsOK, LoginOK, vars, local
<1>5. ConfigOK' /\ SecretOK' /\ TokenOK'
  BY DEF PanelInv, ConfigOK, SecretOK, TokenOK, LoadSecret, local
<1>6. EndedOK'
  BY DEF PanelInv, EndedOK, EndedBy, LoadSecret
<1> QED BY <1>4, <1>5, <1>6 DEF PanelInv

LEMMA MakeSecretInv ==
  ASSUME PanelInv, NEW s \in Secrets, MakeSecret(s)
  PROVE  PanelInv'
<1>1. UNCHANGED <<vars, stored, local, token>>
  BY DEF MakeSecret
<1>2. Busy' = Busy
  BY <1>1 DEF Busy, vars, local
<1>3. Busy = {}
  BY DEF PanelInv, LoginsOK, LoginOK, MakeSecret, Busy
<1>4. LoginsOK'
  BY <1>1, <1>2, <1>3 DEF PanelInv, LoginsOK, LoginOK, vars, local
<1>5. ConfigOK' /\ SecretOK'
  BY SecretIsNotUnusable DEF PanelInv, ConfigOK, SecretOK, MakeSecret,
     Unusable
<1>6. TokenOK'
  <2>1. lost' = (lost \/ (token # NoToken /\ keyFile \in Secrets))
    BY DEF MakeSecret
  <2>2. token # NoToken /\ ~lost => token.secret = keyFile
    BY DEF PanelInv, TokenOK
  <2>3. token # NoToken => token.secret \in Secrets
    BY DEF PanelInv, TokenOK, Token
  <2>4. token # NoToken => lost'
    BY <2>1, <2>2, <2>3
  <2> QED BY <1>1, <2>1, <2>4 DEF PanelInv, TokenOK
<1>7. EndedOK'
  BY DEF PanelInv, EndedOK, EndedBy, MakeSecret
<1> QED BY <1>4, <1>5, <1>6, <1>7 DEF PanelInv

LEMMA WriteSecretInv == ASSUME PanelInv, WriteSecret PROVE PanelInv'
<1>1. UNCHANGED <<vars, secret, config, local, token, history>>
  BY DEF WriteSecret
<1>2. Busy' = Busy
  BY <1>1 DEF Busy, vars, local
<1>3. LoginsOK'
  BY <1>1, <1>2 DEF PanelInv, LoginsOK, LoginOK, vars, local, config,
     WriteSecret
<1>4. ConfigOK' /\ SecretOK'
  BY DEF PanelInv, ConfigOK, SecretOK, WriteSecret, config
<1>5. TokenOK'
  <2>1. token # NoToken => lost
    BY DEF PanelInv, TokenOK, SecretOK, WriteSecret, Token
  <2> QED BY <1>1, <2>1 DEF PanelInv, TokenOK, history
<1>6. EndedOK'
  BY <1>1 DEF PanelInv, EndedOK, EndedBy, config, history
<1> QED BY <1>3, <1>4, <1>5, <1>6 DEF PanelInv

LEMMA BeginLoginInv ==
  ASSUME PanelInv, NEW h \in Handlers, NEW ip \in IPs, BeginLogin(h, ip)
  PROVE  PanelInv'
<1>1. /\ client' = [client EXCEPT ![h] = ip]
      /\ seen' = [seen EXCEPT ![h] = live]
      /\ h \notin Busy /\ phase = "serving"
      /\ UNCHANGED <<phase, keyFile, secret, stored, live, issuing, raced,
                     token, lost, ended>>
  BY DEF BeginLogin, Admit, Busy, key, config, history
<1>2. Busy' = Busy \cup {h}
  BY <1>1, ClientsAssumption DEF Busy, PanelInv, LoginsOK
<1>3. ASSUME NEW g \in Handlers PROVE LoginOK(g)'
  <2>1. h \notin issuing'
    BY <1>1 DEF Busy
  <2>2. live # NoPassword
    BY PasswordsAssumption DEF PanelInv, ConfigOK
  <2>3. CASE g = h
    BY <1>1, <1>2, <2>1, <2>2, <2>3 DEF PanelInv, LoginsOK, LoginOK
  <2>4. CASE g # h
    BY <1>1, <1>2, <2>4 DEF PanelInv, LoginsOK, LoginOK
  <2> QED BY <2>3, <2>4
<1>4. LoginsOK'
  BY <1>1, <1>2, <1>3 DEF PanelInv, LoginsOK, ConfigOK
<1>5. ConfigOK' /\ SecretOK' /\ TokenOK' /\ EndedOK'
  BY <1>1 DEF PanelInv, ConfigOK, SecretOK, TokenOK, EndedOK, EndedBy
<1> QED BY <1>4, <1>5 DEF PanelInv

\* The end of a login, refused or accepted, frees its handler.
LEMMA ForgetInv ==
  ASSUME PanelInv, NEW h \in Handlers, Forget(h), Busy' = Busy \ {h},
         client' \in [Handlers -> IPs \cup {NoClient}],
         issuing' \subseteq Handlers,
         \A g \in issuing' : client'[g] = NoClient,
         UNCHANGED <<phase, live>>
  PROVE  LoginsOK'
<1>1. /\ seen' = [seen EXCEPT ![h] = NoPassword]
      /\ raced' = raced \ {h}
  BY DEF Forget
<1>2. ASSUME NEW g \in Handlers PROVE LoginOK(g)'
  BY <1>1 DEF PanelInv, LoginsOK, LoginOK
<1> QED BY <1>1, <1>2 DEF PanelInv, LoginsOK

LEMMA FailLoginInv ==
  ASSUME PanelInv, NEW h \in Handlers, FailLogin(h)
  PROVE  PanelInv'
<1>1. /\ client' = [client EXCEPT ![h] = NoClient]
      /\ client[h] # NoClient
      /\ Forget(h)
      /\ UNCHANGED <<phase, keyFile, secret, stored, live, issuing, token,
                     lost, ended>>
  BY DEF FailLogin, Fail, key, config, history
<1>2. client' \in [Handlers -> IPs \cup {NoClient}]
  BY <1>1 DEF PanelInv, LoginsOK
<1>3. h \notin issuing
  BY <1>1 DEF PanelInv, LoginsOK, LoginOK
<1>4. Busy' = Busy \ {h}
  BY <1>1, <1>3 DEF PanelInv, LoginsOK, Busy
<1>5. LoginsOK'
  <2>1. issuing' \subseteq Handlers
    BY <1>1 DEF PanelInv, LoginsOK
  <2>2. \A g \in issuing' : client'[g] = NoClient
    BY <1>1 DEF PanelInv, LoginsOK, LoginOK
  <2> QED BY <1>1, <1>2, <1>4, <2>1, <2>2, ForgetInv
<1>6. ConfigOK' /\ SecretOK' /\ TokenOK' /\ EndedOK'
  BY <1>1 DEF PanelInv, ConfigOK, SecretOK, TokenOK, EndedOK, EndedBy
<1> QED BY <1>5, <1>6 DEF PanelInv

LEMMA PassLoginInv ==
  ASSUME PanelInv, NEW h \in Handlers, PassLogin(h)
  PROVE  PanelInv'
<1>1. /\ client' = [client EXCEPT ![h] = NoClient]
      /\ client[h] # NoClient
      /\ issuing' = issuing \cup {h}
      /\ UNCHANGED <<phase, keyFile, secret, stored, live, seen, raced, token,
                     lost, ended>>
  BY DEF PassLogin, Succeed, key, config, history
<1>2. Busy' = Busy
  BY <1>1 DEF PanelInv, LoginsOK, Busy
<1>3. ASSUME NEW g \in Handlers PROVE LoginOK(g)'
  BY <1>1, <1>2 DEF PanelInv, LoginsOK, LoginOK
<1>4. LoginsOK'
  BY <1>1, <1>2, <1>3 DEF PanelInv, LoginsOK
<1>5. ConfigOK' /\ SecretOK' /\ TokenOK' /\ EndedOK'
  BY <1>1 DEF PanelInv, ConfigOK, SecretOK, TokenOK, EndedOK, EndedBy
<1> QED BY <1>4, <1>5 DEF PanelInv

LEMMA IssueSessionInv ==
  ASSUME PanelInv, clock \in Nat, NEW h \in Handlers, IssueSession(h)
  PROVE  PanelInv'
<1> DEFINE issued == [exp |-> clock + SessionTTL, secret |-> secret,
                      pass |-> live, shown |-> seen[h], raced |-> h \in raced]
<1>1. /\ h \in issuing
      /\ issuing' = issuing \ {h}
      /\ Forget(h)
      /\ token' = token \/ (token = NoToken /\ token' = issued)
      /\ UNCHANGED <<client, phase, keyFile, secret, stored, live, lost, ended>>
  BY DEF IssueSession, vars, key, config, history
<1>2. client[h] = NoClient /\ LoginOK(h) /\ h \in Busy
  BY <1>1 DEF PanelInv, LoginsOK, LoginOK, Busy
<1>3. Busy' = Busy \ {h}
  BY <1>1, <1>2 DEF PanelInv, LoginsOK, Busy
<1>4. LoginsOK'
  <2>1. issuing' \subseteq Handlers
    BY <1>1 DEF PanelInv, LoginsOK
  <2>2. client' \in [Handlers -> IPs \cup {NoClient}]
    BY <1>1 DEF PanelInv, LoginsOK
  <2>3. \A g \in issuing' : client'[g] = NoClient
    BY <1>1 DEF PanelInv, LoginsOK, LoginOK
  <2> QED BY <1>1, <1>3, <2>1, <2>2, <2>3, ForgetInv
<1>5. ConfigOK' /\ SecretOK'
  BY <1>1 DEF PanelInv, ConfigOK, SecretOK
<1>6. TokenOK'
  <2>1. /\ phase = "serving" /\ seen[h] \in Passwords
        /\ seen[h] = live \/ h \in raced
    BY <1>2 DEF LoginOK, PanelInv, LoginsOK
  <2>2. secret \in Secrets /\ keyFile = secret
    BY <2>1 DEF PanelInv, SecretOK
  <2>3. clock + SessionTTL \in Nat
    BY TTLAssumption
  <2>4. live \in Passwords /\ (h \in raced) \in BOOLEAN
    BY DEF PanelInv, ConfigOK
  <2>5. issued \in Token
    BY <2>1, <2>2, <2>3, <2>4 DEF Token
  <2>6. /\ issued.secret = keyFile
        /\ issued.pass = issued.shown \/ issued.raced
    BY <2>1, <2>2
  <2> HIDE DEF issued
  <2> QED BY <1>1, <2>5, <2>6 DEF PanelInv, TokenOK
<1>7. EndedOK'
  <2>1. token = NoToken => ~ended
    BY DEF PanelInv, EndedOK, EndedBy
  <2> HIDE DEF issued
  <2> QED BY <1>1, <2>1 DEF PanelInv, EndedOK, EndedBy
<1> QED BY <1>4, <1>5, <1>6, <1>7 DEF PanelInv

LEMMA PersistInv ==
  ASSUME PanelInv, NEW p \in Passwords, Persist(p)
  PROVE  PanelInv'
<1>1. UNCHANGED <<client, phase, keyFile, secret, live, local, token, lost>>
  BY DEF Persist, vars, key
<1>2. Busy' = Busy
  BY <1>1 DEF Busy, local
<1>3. LoginsOK'
  BY <1>1, <1>2 DEF PanelInv, LoginsOK, LoginOK, local
<1>4. ConfigOK' /\ SecretOK' /\ TokenOK'
  BY <1>1 DEF PanelInv, ConfigOK, SecretOK, TokenOK, Persist
<1>5. EndedOK'
  BY <1>1 DEF PanelInv, EndedOK, EndedBy, Persist
<1> QED BY <1>3, <1>4, <1>5 DEF PanelInv

LEMMA PublishInv == ASSUME PanelInv, Publish PROVE PanelInv'
<1>1. /\ raced' = Busy
      /\ UNCHANGED <<client, phase, keyFile, secret, seen, issuing, token, lost>>
  BY DEF Publish, vars, key
<1>2. Busy' = Busy
  BY <1>1 DEF Busy
<1>3. LoginsOK'
  BY <1>1, <1>2 DEF PanelInv, LoginsOK, LoginOK
<1>4. ConfigOK' /\ SecretOK' /\ TokenOK'
  BY <1>1 DEF PanelInv, ConfigOK, SecretOK, TokenOK, Publish
<1>5. EndedOK'
  BY <1>1 DEF PanelInv, EndedOK, EndedBy, Publish
<1> QED BY <1>3, <1>4, <1>5 DEF PanelInv

LEMMA StopPanelInv == ASSUME PanelInv, StopPanel PROVE PanelInv'
<1>1. /\ client' = [h \in Handlers |-> NoClient]
      /\ seen' = [h \in Handlers |-> NoPassword]
      /\ issuing' = {} /\ raced' = {}
  BY DEF StopPanel, Stop
<1>2. Busy' = {}
  BY <1>1 DEF Busy
<1>3. LoginsOK'
  BY <1>1, <1>2 DEF LoginsOK, LoginOK
<1>4. ConfigOK' /\ SecretOK' /\ TokenOK' /\ EndedOK'
  BY DEF PanelInv, ConfigOK, SecretOK, TokenOK, EndedOK, EndedBy, StopPanel,
     config, history
<1> QED BY <1>3, <1>4 DEF PanelInv

\* Steps that only the limiter takes, and none at all.
LEMMA SameInv ==
  ASSUME PanelInv, UNCHANGED <<client, session>>
  PROVE  PanelInv'
<1>1. Busy' = Busy
  BY DEF Busy, session, local
<1>2. LoginsOK'
  BY <1>1 DEF PanelInv, LoginsOK, LoginOK, session, local, key, config
<1>3. ConfigOK' /\ SecretOK' /\ TokenOK' /\ EndedOK'
  BY DEF PanelInv, ConfigOK, SecretOK, TokenOK, EndedOK, EndedBy, session,
     key, config, history
<1> QED BY <1>2, <1>3 DEF PanelInv

LEMMA PanelInvStep ==
  Inv /\ PanelInv /\ [PanelNext]_<<vars, session>> => PanelInv'
<1> SUFFICES ASSUME Inv, PanelInv, [PanelNext]_<<vars, session>>
             PROVE  PanelInv'
  OBVIOUS
<1>1. CASE LoadSecret \/ WriteSecret \/ \E s \in Secrets : MakeSecret(s)
  BY <1>1, LoadSecretInv, WriteSecretInv, MakeSecretInv
<1>2. ASSUME NEW h \in Handlers, NEW ip \in IPs,
             RefuseLogin(h, ip) \/ BeginLogin(h, ip)
      PROVE  PanelInv'
  <2>1. CASE RefuseLogin(h, ip)
    BY <2>1, SameInv DEF RefuseLogin, Refuse, vars
  <2> QED BY <1>2, <2>1, BeginLoginInv
<1>3. ASSUME NEW h \in Handlers, FailLogin(h) \/ PassLogin(h) \/ IssueSession(h)
      PROVE  PanelInv'
  <2>1. clock \in Nat
    BY DEF Inv, TypeOK
  <2> QED BY <1>3, <2>1, FailLoginInv, PassLoginInv, IssueSessionInv
<1>4. CASE \E p \in Passwords : Persist(p)
  BY <1>4, PersistInv
<1>5. CASE Publish \/ StopPanel
  BY <1>5, PublishInv, StopPanelInv
<1>6. CASE PassTime
  BY <1>6, SameInv DEF PassTime, Tick
<1>7. CASE UNCHANGED <<vars, session>>
  BY <1>7, SameInv DEF vars
<1> QED BY <1>1, <1>2, <1>3, <1>4, <1>5, <1>6, <1>7 DEF PanelNext

-----------------------------------------------------------------------------
(***************************************************************************)
(* The panel implements the limiter: whatever sessions, saves and restarts *)
(* do around it, its map changes as LoginLimiter says.                     *)
(***************************************************************************)
THEOREM PanelImplementsLimiter == PanelSpec => Spec
<1>1. PanelInit => Init
  BY DEF PanelInit
<1>2. [PanelNext]_<<vars, session>> => [Next]_vars
  <2> SUFFICES ASSUME PanelNext PROVE Next \/ UNCHANGED vars
    BY DEF session
  <2>1. CASE \/ LoadSecret \/ WriteSecret \/ Publish
             \/ \E s \in Secrets : MakeSecret(s)
             \/ \E p \in Passwords : Persist(p)
             \/ \E h \in Handlers : IssueSession(h)
    BY <2>1 DEF LoadSecret, WriteSecret, Publish, MakeSecret, Persist,
       IssueSession
  <2>2. CASE \E h \in Handlers, ip \in IPs :
               RefuseLogin(h, ip) \/ BeginLogin(h, ip)
    BY <2>2 DEF RefuseLogin, BeginLogin, Next
  <2>3. CASE \E h \in Handlers : FailLogin(h) \/ PassLogin(h)
    BY <2>3 DEF FailLogin, PassLogin, Next
  <2>4. CASE StopPanel \/ PassTime
    BY <2>4 DEF StopPanel, PassTime, Next
  <2> QED BY <2>1, <2>2, <2>3, <2>4 DEF PanelNext
<1> QED BY <1>1, <1>2, PTL DEF PanelSpec, Spec

LEMMA PanelInvHolds == PanelSpec => []PanelInv
<1>1. PanelSpec => []Inv
  BY PanelImplementsLimiter, InvHolds, PTL
<1> QED BY <1>1, PanelInitInv, PanelInvStep, PTL DEF PanelSpec

(***************************************************************************)
(* Nobody is blocked without a reason, of the whole panel.                 *)
(***************************************************************************)
THEOREM PanelBlocksForAReason == PanelSpec => []BlockedForAReason
  BY PanelImplementsLimiter, OwnFailuresBlock, PTL

(***************************************************************************)
(* The limiter throttles the whole panel, and forgets the locks it no      *)
(* longer needs, whatever restarts and password changes come in between.   *)
(***************************************************************************)
THEOREM PanelThrottlesFailures == PanelSpec => []FailsThrottled
  BY PanelImplementsLimiter, FailuresAreThrottled, PTL

THEOREM PanelForgetsLocks == PanelSpec => LockedClientsForgotten
  BY PanelImplementsLimiter, ExpiredLocksForgotten, PTL

(***************************************************************************)
(* The panel's variables keep their types.                                 *)
(***************************************************************************)
THEOREM PanelTypeCorrect == PanelSpec => []PanelTypeOK
<1>1. PanelInv /\ TypeOK => PanelTypeOK
  <2> SUFFICES ASSUME PanelInv, TypeOK PROVE PanelTypeOK
    OBVIOUS
  <2>1. secret \in Secrets \cup {NoSecret}
    BY DEF PanelInv, SecretOK
  <2>2. phase # "down" <=> secret # NoSecret
    BY SecretIsNotUnusable DEF PanelInv, SecretOK
  <2>3. \A h \in Handlers : h \in Busy <=> seen[h] # NoPassword
    BY DEF PanelInv, LoginsOK, LoginOK
  <2>4. Busy # {} => phase = "serving"
    <3>1. Busy \subseteq Handlers
      BY DEF Busy, PanelInv, LoginsOK
    <3> QED BY <3>1 DEF PanelInv, LoginsOK, LoginOK
  <2> QED BY <2>1, <2>2, <2>3, <2>4
          DEF PanelTypeOK, PanelInv, LoginsOK, ConfigOK, SecretOK, TokenOK,
              EndedOK
<1>2. PanelSpec => []TypeOK
  BY PanelImplementsLimiter, LimiterTypeCorrect, PTL
<1> QED BY <1>1, <1>2, PanelInvHolds, PTL

(***************************************************************************)
(* Sessions survive restarts, also one in the middle of the first run, as  *)
(* long as every start can read a secret that is there.                    *)
(***************************************************************************)
THEOREM RestartsKeepSessions == PanelSpec => []SessionsSurviveRestarts
<1>1. PanelInv => SessionsSurviveRestarts
  BY DEF PanelInv, SecretOK, TokenOK, SessionsSurviveRestarts
<1> QED BY <1>1, PanelInvHolds, PTL

(***************************************************************************)
(* A valid session was opened with the password of the moment, but for     *)
(* logins that overlapped a change.                                        *)
(***************************************************************************)
THEOREM SessionsNeedPassword == PanelSpec => []PasswordOpensSessions
<1>1. PanelInv => PasswordOpensSessions
  BY DEF PanelInv, TokenOK, PasswordOpensSessions, Valid
<1> QED BY <1>1, PanelInvHolds, PTL

(***************************************************************************)
(* A change of the password ends sessions for good: whatever is stored     *)
(* when a start or a save publishes it is not the password of a session    *)
(* that has ended.                                                         *)
(***************************************************************************)
THEOREM ChangesEndSessions == PanelSpec => []ChangeEndsSessions
<1>1. PanelInv => ChangeEndsSessions
  BY DEF PanelInv, EndedOK, EndedBy, Valid, ChangeEndsSessions
<1> QED BY <1>1, PanelInvHolds, PTL
=============================================================================
