---------------------------- MODULE LoginLimiter ----------------------------
(***************************************************************************)
(* The panel's login and its limiter.  Each POST /login is a goroutine:    *)
(* it looks the client's address up in the limiter, compares the           *)
(* credentials and goes back to the limiter with the result.  Each visit   *)
(* takes the limiter's mutex, but the two are separate, and requests of    *)
(* one client may overlap.  (fail reads the time just before it takes the  *)
(* mutex; waiting for it is far shorter than a unit of time here.)         *)
(***************************************************************************)
EXTENDS Naturals, FiniteSets, Sequences

CONSTANTS
  Handlers,       \* goroutines that serve POST /login
  IPs,            \* the clients' addresses
  MaxLoginFails,  \* maxLoginFails
  LoginLockout,   \* loginLockout, in units of time
  MaxTime         \* bound on the clock

ASSUME FailsAssumption == MaxLoginFails \in Nat \ {0}
ASSUME LockoutAssumption == LoginLockout \in Nat \ {0}
ASSUME TimeAssumption == MaxTime \in Nat
ASSUME HandlersAssumption == IsFiniteSet(Handlers)

VARIABLES
  clock,     \* time.Now()
  attempts,  \* the limiter's map: fails and until of each client it knows
  client,    \* of each handler: the client it serves once it let it in
  failures   \* history: when each client failed since its last success,
             \* or since the process started

vars == <<clock, attempts, client, failures>>

NoClient == "none"
ASSUME ClientsAssumption == NoClient \notin IPs

Attempt == [fails : Nat, until : Nat]
NewAttempt == [fails |-> 0, until |-> 0]

Full(a) == a.fails >= MaxLoginFails

Blocked(ip) ==
  /\ ip \in DOMAIN attempts
  /\ Full(attempts[ip])
  /\ clock < attempts[ip].until

Expired(ip) == Full(attempts[ip]) /\ clock > attempts[ip].until

-----------------------------------------------------------------------------
Init ==
  /\ clock = 0
  /\ attempts = [ip \in {} |-> NewAttempt]
  /\ client = [h \in Handlers |-> NoClient]
  /\ failures = [ip \in IPs |-> <<>>]

\* A client that is blocked is answered at once, with 429.
Refuse(h, ip) ==
  /\ client[h] = NoClient
  /\ Blocked(ip)
  /\ UNCHANGED vars

\* Mutant: the limiter is not asked.
AdmitAnyone(h, ip) ==
  /\ client[h] = NoClient
  /\ client' = [client EXCEPT ![h] = ip]
  /\ UNCHANGED <<clock, attempts, failures>>

\* Any other has its credentials compared.
Admit(h, ip) ==
  /\ client[h] = NoClient
  /\ ~Blocked(ip)
  /\ client' = [client EXCEPT ![h] = ip]
  /\ UNCHANGED <<clock, attempts, failures>>

\* Mutant: nothing is pruned.
FailUnpruned(h) ==
  LET ip   == client[h]
      a    == IF ip \in DOMAIN attempts THEN attempts[ip] ELSE NewAttempt
      counted == [a EXCEPT !.fails = @ + 1]
      locked  == [counted EXCEPT !.until = clock + LoginLockout]
  IN /\ ip # NoClient
     /\ attempts' = [k \in DOMAIN attempts \cup {ip} |->
                       IF k # ip THEN attempts[k]
                       ELSE IF Full(counted) THEN locked ELSE counted]
     /\ client' = [client EXCEPT ![h] = NoClient]
     /\ failures' = [failures EXCEPT ![ip] = Append(@, clock)]
     /\ UNCHANGED clock

\* fail: prune what has expired, count, and lock at the threshold.
Fail(h) ==
  LET ip   == client[h]
      kept == {k \in DOMAIN attempts : ~Expired(k)}
      a    == IF ip \in kept THEN attempts[ip] ELSE NewAttempt
      counted == [a EXCEPT !.fails = @ + 1]
      locked  == [counted EXCEPT !.until = clock + LoginLockout]
  IN /\ ip # NoClient
     /\ attempts' = [k \in kept \cup {ip} |->
                       IF k # ip THEN attempts[k]
                       ELSE IF Full(counted) THEN locked ELSE counted]
     /\ client' = [client EXCEPT ![h] = NoClient]
     /\ failures' = [failures EXCEPT ![ip] = Append(@, clock)]
     /\ UNCHANGED clock

\* Mutants: the entry is emptied, not deleted; or left as it is.
SucceedEmptied(h) ==
  LET ip == client[h]
  IN /\ ip # NoClient
     /\ attempts' = [k \in DOMAIN attempts \cup {ip} |->
                       IF k = ip THEN NewAttempt ELSE attempts[k]]
     /\ client' = [client EXCEPT ![h] = NoClient]
     /\ failures' = [failures EXCEPT ![ip] = <<>>]
     /\ UNCHANGED clock
SucceedUncleared(h) ==
  LET ip == client[h]
  IN /\ ip # NoClient
     /\ client' = [client EXCEPT ![h] = NoClient]
     /\ failures' = [failures EXCEPT ![ip] = <<>>]
     /\ UNCHANGED <<clock, attempts>>

\* reset, and the session is issued.
Succeed(h) ==
  LET ip == client[h]
  IN /\ ip # NoClient
     /\ attempts' = [k \in DOMAIN attempts \ {ip} |-> attempts[k]]
     /\ client' = [client EXCEPT ![h] = NoClient]
     /\ failures' = [failures EXCEPT ![ip] = <<>>]
     /\ UNCHANGED clock

Tick ==
  /\ clock < MaxTime
  /\ clock' = clock + 1
  /\ UNCHANGED <<attempts, client, failures>>

\* The process ends, and with it the map and the logins under way.
Stop ==
  /\ attempts' = [ip \in {} |-> NewAttempt]
  /\ client' = [h \in Handlers |-> NoClient]
  /\ failures' = [ip \in IPs |-> <<>>]
  /\ UNCHANGED clock

Next ==
  \/ \E h \in Handlers, ip \in IPs : Refuse(h, ip) \/ Admit(h, ip)
  \/ \E h \in Handlers : Fail(h) \/ Succeed(h)
  \/ Tick
  \/ Stop

Spec == Init /\ [][Next]_vars

-----------------------------------------------------------------------------
\* Type invariant: an entry counts at least one failure, and has an end of
\* the lock-out when, and only when, it is full.
TypeOK ==
  /\ clock \in 0 .. MaxTime
  /\ DOMAIN attempts \subseteq IPs
  /\ \A ip \in DOMAIN attempts :
       LET a == attempts[ip]
       IN a \in Attempt /\ a.fails > 0 /\ (a.until > 0 <=> Full(a))
  /\ client \in [Handlers -> IPs \cup {NoClient}]
  /\ failures \in [IPs -> Seq(0 .. MaxTime)]

(***************************************************************************)
(* Repeated failures are throttled: in any stretch of time as long as the  *)
(* lock-out, a client fails at most the allowed number of times and once   *)
(* more for every other request it had under way, unless it logs in        *)
(* between.  (blocked and fail; "throttles repeated failed logins".)       *)
(***************************************************************************)
FailsThrottled ==
  \A ip \in IPs : \A i \in DOMAIN failures[ip] :
    Cardinality({j \in DOMAIN failures[ip] :
                   /\ failures[ip][j] >= failures[ip][i]
                   /\ failures[ip][j] < failures[ip][i] + LoginLockout})
      <= MaxLoginFails + Cardinality(Handlers) - 1

(***************************************************************************)
(* Nobody is locked out for good, or for what others did: a client that is *)
(* blocked has failed often enough itself since its last success, and the  *)
(* lock ends LoginLockout after the last of these failures.                *)
(***************************************************************************)
BlockedForAReason ==
  \A ip \in IPs : Blocked(ip) =>
    LET n == Len(failures[ip])
    IN n >= MaxLoginFails /\ clock < failures[ip][n] + LoginLockout

(***************************************************************************)
(* "Expired entries are pruned on each failure": a failure leaves no       *)
(* locked entry of a client that has been silent for longer than a         *)
(* lock-out.  (Entries that never came to a lock-out stay.)                *)
(***************************************************************************)
LockedClientsForgotten ==
  [][\A h \in Handlers : Fail(h) =>
       \A ip \in DOMAIN attempts' : Full(attempts'[ip]) =>
         \E i \in DOMAIN failures'[ip] :
           clock <= failures'[ip][i] + LoginLockout]_vars
=============================================================================
