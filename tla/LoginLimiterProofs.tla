-------------------------- MODULE LoginLimiterProofs --------------------------
(***************************************************************************)
(* Proofs about the login limiter, for any number of handlers and clients, *)
(* any threshold and any length of the lock-out.                           *)
(***************************************************************************)
EXTENDS LoginLimiter, FiniteSetTheorems, TLAPS

(***************************************************************************)
(* An entry counts failures the client has had since its last success, and *)
(* its lock was set by the last of them.                                   *)
(***************************************************************************)
Reason(ip) ==
  /\ Len(failures[ip]) >= attempts[ip].fails
  /\ Full(attempts[ip]) =>
       attempts[ip].until
         = failures[ip][Len(failures[ip])] + LoginLockout

Inv == TypeOK /\ \A ip \in DOMAIN attempts : Reason(ip)

EntryOK(a) == a \in Attempt /\ a.fails > 0 /\ (a.until > 0 <=> Full(a))

-----------------------------------------------------------------------------
(* The operators.                                                          *)

LEMMA TypeOKEntries ==
  TypeOK <=> /\ clock \in 0 .. MaxTime
             /\ DOMAIN attempts \subseteq IPs
             /\ \A ip \in DOMAIN attempts : EntryOK(attempts[ip])
             /\ client \in [Handlers -> IPs \cup {NoClient}]
             /\ failures \in [IPs -> Seq(0 .. MaxTime)]
  BY DEF TypeOK, EntryOK

\* What a failure makes of a client's entry.
Counted(a) ==
  LET counted == [a EXCEPT !.fails = @ + 1]
  IN IF Full(counted) THEN [counted EXCEPT !.until = clock + LoginLockout]
     ELSE counted

LEMMA CountedEntry ==
  ASSUME clock \in Nat, NEW a \in Attempt, a = NewAttempt \/ EntryOK(a)
  PROVE  /\ EntryOK(Counted(a))
         /\ Counted(a).fails = a.fails + 1
         /\ Full(Counted(a)) => Counted(a).until = clock + LoginLockout
<1> DEFINE counted == [a EXCEPT !.fails = @ + 1]
           locked  == [counted EXCEPT !.until = clock + LoginLockout]
<1>1. /\ counted \in Attempt
      /\ counted.fails = a.fails + 1 /\ counted.until = a.until
  BY DEF Attempt
<1>2. a.fails \in Nat /\ a.until \in Nat
  BY DEF Attempt
<1>3. clock + LoginLockout \in Nat /\ clock + LoginLockout > 0
  BY LockoutAssumption
<1>4. /\ locked \in Attempt
      /\ locked.fails = a.fails + 1 /\ locked.until = clock + LoginLockout
  BY <1>1, <1>3 DEF Attempt
<1>5. Counted(a) = IF Full(counted) THEN locked ELSE counted
  BY DEF Counted
<1> HIDE DEF counted, locked
<1>6. CASE Full(counted)
  BY <1>1, <1>2, <1>3, <1>4, <1>5, <1>6 DEF Full, EntryOK
<1>7. CASE ~Full(counted)
  <2>1. a.until = 0
    BY <1>1, <1>2, <1>7, FailsAssumption DEF Full, EntryOK, NewAttempt
  <2> QED BY <1>1, <1>2, <1>5, <1>7, <2>1 DEF Full, EntryOK
<1> QED BY <1>6, <1>7

-----------------------------------------------------------------------------
LEMMA InitInv == Init => Inv
  BY TimeAssumption DEF Init, Inv, TypeOK

LEMMA AdmitInv ==
  ASSUME Inv, NEW h \in Handlers, NEW ip \in IPs, Admit(h, ip)
  PROVE  Inv'
<1>1. TypeOK'
  BY DEF Inv, TypeOK, Admit, Full
<1>2. \A k \in DOMAIN attempts' : Reason(k)'
  BY DEF Inv, Admit, Reason, Full
<1> QED BY <1>1, <1>2 DEF Inv

LEMMA FailInv ==
  ASSUME Inv, NEW h \in Handlers, Fail(h)
  PROVE  Inv'
<1> DEFINE ip   == client[h]
           kept == {k \in DOMAIN attempts : ~Expired(k)}
           a    == IF ip \in kept THEN attempts[ip] ELSE NewAttempt
<1>1. /\ ip \in IPs
      /\ attempts' = [k \in kept \cup {ip} |->
                        IF k # ip THEN attempts[k] ELSE Counted(a)]
      /\ client' = [client EXCEPT ![h] = NoClient]
      /\ failures' = [failures EXCEPT ![ip] = Append(@, clock)]
      /\ clock' = clock
  BY DEF Fail, Inv, TypeOK, Counted
<1>2. clock \in Nat /\ clock \in 0 .. MaxTime
  BY DEF Inv, TypeOK
<1>3. a \in Attempt /\ (a = NewAttempt \/ EntryOK(a))
  BY TypeOKEntries DEF Inv, EntryOK, Attempt, NewAttempt
<1>4. /\ EntryOK(Counted(a))
      /\ Counted(a).fails = a.fails + 1
      /\ Full(Counted(a)) => Counted(a).until = clock + LoginLockout
  BY <1>2, <1>3, CountedEntry
<1>5. /\ failures \in [IPs -> Seq(0 .. MaxTime)]
      /\ failures[ip] \in Seq(0 .. MaxTime)
      /\ failures'[ip] = Append(failures[ip], clock)
      /\ \A k \in IPs \ {ip} : failures'[k] = failures[k]
      /\ failures' \in [IPs -> Seq(0 .. MaxTime)]
  BY <1>1, <1>2 DEF Inv, TypeOK
<1>6. /\ DOMAIN attempts' = kept \cup {ip}
      /\ kept \subseteq DOMAIN attempts
      /\ attempts'[ip] = Counted(a)
      /\ \A k \in kept \ {ip} : attempts'[k] = attempts[k]
  BY <1>1
<1>7. DOMAIN attempts \subseteq IPs
  BY DEF Inv, TypeOK
<1> HIDE DEF ip, kept
<1>8. TypeOK'
  <2>1. \A k \in DOMAIN attempts' : EntryOK(attempts'[k])
    BY <1>4, <1>6, TypeOKEntries DEF Inv
  <2>2. client' \in [Handlers -> IPs \cup {NoClient}]
    BY <1>1 DEF Inv, TypeOK
  <2>3. /\ clock' \in 0 .. MaxTime
        /\ DOMAIN attempts' \subseteq IPs
        /\ failures' \in [IPs -> Seq(0 .. MaxTime)]
    BY <1>1, <1>2, <1>5, <1>6, <1>7
  <2> QED BY <2>1, <2>2, <2>3 DEF TypeOK, EntryOK, Full
<1>9. ASSUME NEW k \in DOMAIN attempts' PROVE Reason(k)'
  <2>1. CASE k # ip
    <3>1. Reason(k) /\ attempts'[k] = attempts[k] /\ failures'[k] = failures[k]
      BY <2>1, <1>5, <1>6, <1>7 DEF Inv
    <3> QED BY <3>1 DEF Reason, Full
  <2>2. CASE k = ip
    <3>1. a.fails <= Len(failures[ip]) /\ a.fails \in Nat
      <4>1. CASE ip \in kept
        BY <4>1, <1>3, <1>6 DEF Inv, Reason, Attempt
      <4>2. CASE ip \notin kept
        BY <4>2, <1>5 DEF NewAttempt
      <4> QED BY <4>1, <4>2
    <3>2. /\ Len(failures'[ip]) = Len(failures[ip]) + 1
          /\ Len(failures[ip]) \in Nat
          /\ failures'[ip][Len(failures[ip]) + 1] = clock
      BY <1>2, <1>5
    <3> HIDE DEF a
    <3>3. Len(failures'[ip]) >= attempts'[ip].fails
      BY <3>1, <3>2, <1>4, <1>6
    <3>4. Full(attempts'[ip]) =>
            attempts'[ip].until
              = failures'[ip][Len(failures'[ip])] + LoginLockout
      BY <3>2, <1>4, <1>6
    <3> QED BY <2>2, <3>3, <3>4 DEF Reason, Full
  <2> QED BY <2>1, <2>2
<1> QED BY <1>8, <1>9 DEF Inv

LEMMA SucceedInv ==
  ASSUME Inv, NEW h \in Handlers, Succeed(h)
  PROVE  Inv'
<1> DEFINE ip == client[h]
<1>1. /\ ip \in IPs
      /\ DOMAIN attempts' = DOMAIN attempts \ {ip}
      /\ \A k \in DOMAIN attempts' : attempts'[k] = attempts[k]
      /\ client' = [client EXCEPT ![h] = NoClient]
      /\ failures' = [failures EXCEPT ![ip] = <<>>]
      /\ clock' = clock
  BY DEF Succeed, Inv, TypeOK
<1> HIDE DEF ip
<1>2. failures' \in [IPs -> Seq(0 .. MaxTime)]
  BY <1>1 DEF Inv, TypeOK
<1>3. \A k \in DOMAIN attempts' : failures'[k] = failures[k]
  BY <1>1 DEF Inv, TypeOK
<1>4. client' \in [Handlers -> IPs \cup {NoClient}]
  BY <1>1 DEF Inv, TypeOK
<1>5. TypeOK'
  BY <1>1, <1>2, <1>4 DEF Inv, TypeOK, Full
<1>6. \A k \in DOMAIN attempts' : Reason(k)'
  BY <1>1, <1>3 DEF Inv, Reason, Full
<1> QED BY <1>5, <1>6 DEF Inv

LEMMA TickInv == ASSUME Inv, Tick PROVE Inv'
<1>1. clock' \in 0 .. MaxTime
  BY TimeAssumption DEF Inv, TypeOK, Tick
<1>2. TypeOK'
  BY <1>1 DEF Inv, TypeOK, Tick, Full
<1>3. \A k \in DOMAIN attempts' : Reason(k)'
  BY DEF Inv, Tick, Reason, Full
<1> QED BY <1>2, <1>3 DEF Inv

LEMMA StopInv == ASSUME Inv, Stop PROVE Inv'
  BY DEF Inv, TypeOK, Stop

LEMMA InvStep == Inv /\ [Next]_vars => Inv'
<1> SUFFICES ASSUME Inv, [Next]_vars PROVE Inv'
  OBVIOUS
<1>1. CASE \E h \in Handlers, ip \in IPs : Admit(h, ip)
  BY <1>1, AdmitInv
<1>2. CASE \E h \in Handlers : Fail(h) \/ Succeed(h)
  BY <1>2, FailInv, SucceedInv
<1>3. CASE Tick \/ Stop
  BY <1>3, TickInv, StopInv
<1>4. CASE UNCHANGED vars
  BY <1>4 DEF vars, Inv, TypeOK, Reason, Full
<1>5. ASSUME NEW h \in Handlers, NEW ip \in IPs, Refuse(h, ip)
      PROVE  UNCHANGED vars
  BY <1>5 DEF Refuse
<1> QED BY <1>1, <1>2, <1>3, <1>4, <1>5 DEF Next

LEMMA InvHolds == Spec => []Inv
  BY InitInv, InvStep, PTL DEF Spec

LEMMA InvGivesReason == Inv => BlockedForAReason
<1> SUFFICES ASSUME Inv, NEW ip \in IPs, Blocked(ip)
             PROVE  /\ Len(failures[ip]) >= MaxLoginFails
                    /\ clock < failures[ip][Len(failures[ip])] + LoginLockout
  BY DEF BlockedForAReason
<1>1. /\ ip \in DOMAIN attempts /\ Full(attempts[ip])
      /\ clock < attempts[ip].until /\ Reason(ip)
  BY DEF Inv, Blocked
<1>2. /\ attempts[ip].fails \in Nat
      /\ failures[ip] \in Seq(0 .. MaxTime)
  BY <1>1 DEF Inv, TypeOK, Attempt
<1> QED BY <1>1, <1>2, FailsAssumption DEF Reason, Full

-----------------------------------------------------------------------------
(***************************************************************************)
(* The limiter's entries count failures and have an end exactly when they  *)
(* are full.                                                               *)
(***************************************************************************)
THEOREM LimiterTypeCorrect == Spec => []TypeOK
<1>1. Inv => TypeOK
  BY DEF Inv
<1> QED BY <1>1, InvHolds, PTL

(***************************************************************************)
(* Nobody is blocked but for failures of their own, or for longer than a   *)
(* lock-out after the last of them.                                        *)
(***************************************************************************)
THEOREM OwnFailuresBlock == Spec => []BlockedForAReason
  BY InvHolds, InvGivesReason, PTL

-----------------------------------------------------------------------------
(***************************************************************************)
(* The throttle.  A failure is recent while a lock it set would last.  An  *)
(* entry that is not full counts the recent failures of its client; one    *)
(* that is locked lets nobody in, so each further failure is that of a     *)
(* login that was under way; and one that is over has no recent failures.  *)
(***************************************************************************)
Recent(ip) == {j \in DOMAIN failures[ip] :
                 failures[ip][j] + LoginLockout > clock}
Trying(ip) == {h \in Handlers : client[h] = ip}

Most == MaxLoginFails + Cardinality(Handlers) - 1

Paced(ip) ==
  /\ \A j \in DOMAIN failures[ip] : failures[ip][j] <= clock
  /\ ip \notin DOMAIN attempts => Recent(ip) = {}
  /\ ip \in DOMAIN attempts =>
       IF ~Full(attempts[ip])
       THEN Cardinality(Recent(ip)) <= attempts[ip].fails
       ELSE /\ \A j \in DOMAIN failures[ip] :
                 failures[ip][j] + LoginLockout <= attempts[ip].until
            /\ clock < attempts[ip].until =>
                 Cardinality(Recent(ip)) + Cardinality(Trying(ip)) <= Most

Window(ip, i) == {j \in DOMAIN failures[ip] :
                    /\ failures[ip][j] >= failures[ip][i]
                    /\ failures[ip][j] < failures[ip][i] + LoginLockout}

Throttled(ip) ==
  \A i \in DOMAIN failures[ip] : Cardinality(Window(ip, i)) <= Most

Throttle == \A ip \in IPs : Paced(ip) /\ Throttled(ip)

LEMMA SeqElements ==
  ASSUME NEW S, NEW s \in Seq(S)
  PROVE  /\ Len(s) \in Nat /\ DOMAIN s = 1 .. Len(s)
         /\ \A j \in DOMAIN s : s[j] \in S
  OBVIOUS

\* Nothing is recent for an entry whose lock is over.
LEMMA OverIsQuiet ==
  ASSUME Inv, NEW ip \in DOMAIN attempts, Paced(ip), Full(attempts[ip]),
         ~(clock < attempts[ip].until)
  PROVE  Recent(ip) = {}
<1>1. /\ attempts[ip].until \in Nat /\ clock \in Nat
      /\ failures[ip] \in Seq(0 .. MaxTime)
  BY DEF Inv, TypeOK, Attempt
<1>2. \A j \in DOMAIN failures[ip] :
        /\ failures[ip][j] \in Nat
        /\ failures[ip][j] + LoginLockout <= attempts[ip].until
  <2>1. \A j \in DOMAIN failures[ip] : failures[ip][j] \in 0 .. MaxTime
    BY <1>1, SeqElements
  <2> QED BY <2>1, TimeAssumption DEF Paced
<1> QED BY <1>1, <1>2, LockoutAssumption DEF Recent

LEMMA CountsAreFinite ==
  ASSUME Inv, NEW ip \in IPs
  PROVE  /\ IsFiniteSet(Recent(ip)) /\ Cardinality(Recent(ip)) \in Nat
         /\ IsFiniteSet(Trying(ip)) /\ Cardinality(Trying(ip)) \in Nat
         /\ Cardinality(Trying(ip)) <= Cardinality(Handlers)
         /\ Cardinality(Handlers) \in Nat
<1>1. failures[ip] \in Seq(0 .. MaxTime)
  BY DEF Inv, TypeOK
<1>2. DOMAIN failures[ip] = 1 .. Len(failures[ip])
      /\ Len(failures[ip]) \in Nat
  BY <1>1
<1>3. IsFiniteSet(DOMAIN failures[ip])
  BY <1>2, FS_Interval
<1>4. IsFiniteSet(Recent(ip))
  BY <1>3, FS_Subset DEF Recent
<1>5. IsFiniteSet(Trying(ip)) /\ Cardinality(Trying(ip)) <= Cardinality(Handlers)
  BY HandlersAssumption, FS_Subset DEF Trying
<1> QED BY <1>4, <1>5, HandlersAssumption, FS_CardinalityType

LEMMA MostType == Most \in Int
  BY HandlersAssumption, FailsAssumption, FS_CardinalityType DEF Most

LEMMA InitThrottle == Init => Throttle
  BY DEF Init, Throttle, Paced, Throttled, Recent

\* An action that leaves a client's failures, entry and logins alone, but for
\* an entry that is over and may be pruned.
LEMMA OtherClients ==
  ASSUME Inv, NEW k \in IPs, Paced(k), Throttled(k),
         failures'[k] = failures[k], clock' = clock,
         Trying(k)' \subseteq Trying(k),
         k \in DOMAIN attempts' =>
           k \in DOMAIN attempts /\ attempts'[k] = attempts[k],
         k \in DOMAIN attempts /\ k \notin DOMAIN attempts' =>
           Expired(k)
  PROVE  Paced(k)' /\ Throttled(k)'
<1>1. Recent(k)' = Recent(k)
  BY DEF Recent
<1>2. k \notin DOMAIN attempts' => Recent(k) = {}
  <2>1. CASE k \notin DOMAIN attempts
    BY <2>1 DEF Paced
  <2>2. CASE k \in DOMAIN attempts
    <3>1. attempts[k].until \in Nat /\ clock \in Nat
      BY <2>2 DEF Inv, TypeOK, Attempt
    <3> QED BY <2>2, <3>1, OverIsQuiet DEF Expired
  <2> QED BY <2>1, <2>2
<1>3. /\ Cardinality(Trying(k)') <= Cardinality(Trying(k))
      /\ Cardinality(Trying(k)') \in Nat
  BY CountsAreFinite, FS_Subset, FS_CardinalityType
<1>4. Most' = Most
  BY DEF Most
<1>5. Paced(k)'
  BY <1>1, <1>2, <1>3, <1>4, MostType, CountsAreFinite DEF Paced, Full
<1>6. Throttled(k)'
  BY <1>4 DEF Throttled, Window
<1> QED BY <1>5, <1>6

LEMMA AdmitThrottle ==
  ASSUME Inv, Throttle, NEW h \in Handlers, NEW ip \in IPs, Admit(h, ip)
  PROVE  Throttle'
<1>1. /\ client[h] = NoClient /\ ~Blocked(ip)
      /\ client' = [client EXCEPT ![h] = ip]
      /\ UNCHANGED <<clock, attempts, failures>>
  BY DEF Admit
<1>2. client \in [Handlers -> IPs \cup {NoClient}]
  BY DEF Inv, TypeOK
<1>3. ASSUME NEW k \in IPs, k # ip PROVE Paced(k)' /\ Throttled(k)'
  <2>1. Trying(k)' \subseteq Trying(k)
    BY <1>1, <1>2, <1>3 DEF Trying
  <2> QED BY <1>1, <2>1, OtherClients DEF Throttle
<1>4. Paced(ip)' /\ Throttled(ip)'
  <2>1. Paced(ip) /\ Throttled(ip)
    BY DEF Throttle
  <2>2. Recent(ip)' = Recent(ip)
    BY <1>1 DEF Recent
  <2>3. Throttled(ip)'
    BY <1>1, <2>1 DEF Throttled, Window, Most
  <2>4. Paced(ip)'
    BY <1>1, <2>1, <2>2 DEF Paced, Blocked, Full
  <2> QED BY <2>3, <2>4
<1> QED BY <1>3, <1>4 DEF Throttle

\* What a failure does to the handlers at work: one less for its client.
LEMMA OneLessTrying ==
  ASSUME Inv, NEW h \in Handlers, NEW ip \in IPs, client[h] = ip,
         client' = [client EXCEPT ![h] = NoClient]
  PROVE  /\ \A k \in IPs \ {ip} : Trying(k)' = Trying(k)
         /\ Cardinality(Trying(ip)') = Cardinality(Trying(ip)) - 1
<1>1. client \in [Handlers -> IPs \cup {NoClient}]
  BY DEF Inv, TypeOK
<1>2. Trying(ip)' = Trying(ip) \ {h}
  BY <1>1, ClientsAssumption DEF Trying
<1>3. h \in Trying(ip)
  BY DEF Trying
<1>4. \A k \in IPs \ {ip} : Trying(k)' = Trying(k)
  BY <1>1, ClientsAssumption DEF Trying
<1>5. Cardinality(Trying(ip)') = Cardinality(Trying(ip)) - 1
  BY <1>2, <1>3, CountsAreFinite, FS_RemoveElement
<1> QED BY <1>4, <1>5

LEMMA SucceedThrottle ==
  ASSUME Inv, Throttle, NEW h \in Handlers, Succeed(h)
  PROVE  Throttle'
<1>1. PICK ip \in IPs : client[h] = ip
  BY DEF Succeed, Inv, TypeOK
<1>2. /\ DOMAIN attempts' = DOMAIN attempts \ {ip}
      /\ \A k \in DOMAIN attempts' : attempts'[k] = attempts[k]
      /\ client' = [client EXCEPT ![h] = NoClient]
      /\ failures' = [failures EXCEPT ![ip] = <<>>]
      /\ clock' = clock
  BY <1>1 DEF Succeed
<1>3. /\ failures'[ip] = <<>>
      /\ \A k \in IPs \ {ip} : failures'[k] = failures[k]
  BY <1>2 DEF Inv, TypeOK
<1>4. ASSUME NEW k \in IPs, k # ip PROVE Paced(k)' /\ Throttled(k)'
  BY <1>1, <1>2, <1>3, <1>4, OneLessTrying, OtherClients DEF Throttle
<1>5. Paced(ip)' /\ Throttled(ip)'
  <2>1. DOMAIN failures'[ip] = {} /\ ip \notin DOMAIN attempts'
    BY <1>2, <1>3
  <2> QED BY <2>1 DEF Paced, Throttled, Recent
<1> QED BY <1>4, <1>5 DEF Throttle

LEMMA TickThrottle == ASSUME Inv, Throttle, Tick PROVE Throttle'
<1>1. /\ clock \in Nat /\ clock' = clock + 1
      /\ UNCHANGED <<attempts, client, failures>>
  BY DEF Tick, Inv, TypeOK
<1>2. ASSUME NEW k \in IPs PROVE Paced(k)' /\ Throttled(k)'
  <2>1. Paced(k) /\ Throttled(k)
    BY DEF Throttle
  <2>2. /\ \A j \in DOMAIN failures[k] : failures[k][j] \in 0 .. MaxTime
        /\ failures[k] \in Seq(0 .. MaxTime)
    BY SeqElements DEF Inv, TypeOK
  <2>3. Recent(k)' \subseteq Recent(k)
    BY <1>1, <2>2, LockoutAssumption, TimeAssumption DEF Recent
  <2>4. /\ Cardinality(Recent(k)') <= Cardinality(Recent(k))
        /\ Cardinality(Recent(k)') \in Nat
    BY <2>3, CountsAreFinite, FS_Subset, FS_CardinalityType
  <2>5. Trying(k)' = Trying(k)
    BY <1>1 DEF Trying
  <2>6. Throttled(k)'
    BY <1>1, <2>1 DEF Throttled, Window, Most
  <2>7. k \notin DOMAIN attempts' => Recent(k)' = {}
    BY <1>1, <2>1, <2>3 DEF Paced
  <2>8. ASSUME k \in DOMAIN attempts
        PROVE  attempts[k].fails \in Nat /\ attempts[k].until \in Nat
    BY <2>8 DEF Inv, TypeOK, Attempt
  <2>9. \A j \in DOMAIN failures[k] : failures[k][j] <= clock + 1
    BY <1>1, <2>1, <2>2, TimeAssumption DEF Paced
  <2>10. Paced(k)'
    BY <1>1, <2>1, <2>4, <2>5, <2>7, <2>8, <2>9, CountsAreFinite, MostType
       DEF Paced, Full
  <2> QED BY <2>6, <2>10
<1> QED BY <1>2 DEF Throttle

LEMMA StopThrottle == ASSUME Stop PROVE Throttle'
  BY DEF Stop, Throttle, Paced, Throttled, Recent

\* The failing client: the failures that are recent afterwards, against its
\* entry and the logins it still has under way.
LEMMA FailCounts ==
  ASSUME Inv, Throttle, NEW h \in Handlers, NEW ip \in IPs, client[h] = ip,
         Fail(h)
  PROVE  /\ ip \in DOMAIN attempts'
         /\ Full(attempts'[ip]) =>
              attempts'[ip].until = clock + LoginLockout
         /\ IF Full(attempts'[ip])
            THEN Cardinality(Recent(ip)') + Cardinality(Trying(ip)') <= Most
            ELSE Cardinality(Recent(ip)') <= attempts'[ip].fails
         /\ IsFiniteSet(Recent(ip)') /\ Cardinality(Recent(ip)') \in Nat
         /\ Cardinality(Trying(ip)') \in Nat
<1> DEFINE kept == {k \in DOMAIN attempts : ~Expired(k)}
           a    == IF ip \in kept THEN attempts[ip] ELSE NewAttempt
           n    == Len(failures[ip])
<1>1. /\ ip # NoClient
      /\ attempts' = [k \in kept \cup {ip} |->
                        IF k # ip THEN attempts[k] ELSE Counted(a)]
      /\ client' = [client EXCEPT ![h] = NoClient]
      /\ failures' = [failures EXCEPT ![ip] = Append(@, clock)]
      /\ clock' = clock
  BY DEF Fail, Counted
<1>2. clock \in Nat /\ failures[ip] \in Seq(0 .. MaxTime)
      /\ failures'[ip] = Append(failures[ip], clock)
  BY <1>1 DEF Inv, TypeOK
<1>3. a \in Attempt /\ (a = NewAttempt \/ EntryOK(a))
  BY TypeOKEntries DEF Inv, EntryOK, Attempt, NewAttempt
<1>4. /\ ip \in DOMAIN attempts' /\ attempts'[ip] = Counted(a)
      /\ Counted(a).fails = a.fails + 1
      /\ Full(Counted(a)) => Counted(a).until = clock + LoginLockout
      /\ a.fails \in Nat
  BY <1>1, <1>2, <1>3, CountedEntry DEF Attempt
<1>5. Recent(ip)' \subseteq Recent(ip) \cup {n + 1}
  BY <1>1, <1>2 DEF Recent
<1> DEFINE N == Cardinality(Recent(ip))
           T == Cardinality(Trying(ip))
<1>6. /\ N \in Nat /\ T \in Nat /\ T <= Cardinality(Handlers)
      /\ Cardinality(Handlers) \in Nat
  BY CountsAreFinite
<1>7. /\ Cardinality(Recent(ip)') <= N + 1
      /\ IsFiniteSet(Recent(ip)') /\ Cardinality(Recent(ip)') \in Nat
  <2>1. /\ IsFiniteSet(Recent(ip) \cup {n + 1})
        /\ Cardinality(Recent(ip) \cup {n + 1}) <= N + 1
        /\ Cardinality(Recent(ip) \cup {n + 1}) \in Nat
    <3>1. n + 1 \notin Recent(ip)
      BY <1>2 DEF Recent
    <3>2. IsFiniteSet(Recent(ip))
      BY CountsAreFinite
    <3>3. /\ IsFiniteSet(Recent(ip) \cup {n + 1})
          /\ Cardinality(Recent(ip) \cup {n + 1}) = N + 1
      BY <3>1, <3>2, FS_AddElement
    <3> QED BY <3>3, <1>6
  <2>2. /\ IsFiniteSet(Recent(ip)')
        /\ Cardinality(Recent(ip)') <= Cardinality(Recent(ip) \cup {n + 1})
    BY <1>5, <2>1, FS_Subset
  <2> QED BY <2>1, <2>2, <1>6, FS_CardinalityType
<1>8. /\ Cardinality(Trying(ip)') = T - 1
      /\ T - 1 \in Nat
  <2>1. Cardinality(Trying(ip)') = T - 1
    BY <1>1, OneLessTrying
  <2>2. h \in Trying(ip)
    BY DEF Trying
  <2>3. T # 0
    BY <2>2, CountsAreFinite, FS_EmptySet
  <2> QED BY <1>6, <2>1, <2>3
<1>9. CASE ip \notin DOMAIN attempts \/ Expired(ip)
           \/ (Full(attempts[ip]) /\ ~(clock < attempts[ip].until))
  <2>1. Recent(ip) = {}
    <3>1. CASE ip \notin DOMAIN attempts
      BY <3>1 DEF Throttle, Paced
    <3>2. CASE ip \in DOMAIN attempts
      <4>1. attempts[ip].until \in Nat
        BY <3>2 DEF Inv, TypeOK, Attempt
      <4>2. Full(attempts[ip]) /\ ~(clock < attempts[ip].until)
        BY <1>2, <1>9, <3>2, <4>1 DEF Expired
      <4> QED BY <3>2, <4>2, OverIsQuiet DEF Throttle
    <3> QED BY <3>1, <3>2
  <2>2. N = 0
    BY <2>1, FS_EmptySet
  <2> HIDE DEF a, N, T, kept
  <2> QED BY <1>4, <1>6, <1>7, <1>8, <2>2, FailsAssumption DEF Most
<1>10. CASE ip \in DOMAIN attempts /\ ~Full(attempts[ip])
  <2>1. a = attempts[ip] /\ N <= a.fails /\ ~(a.fails >= MaxLoginFails)
    BY <1>10 DEF Throttle, Paced, Expired, Full
  <2> HIDE DEF a, N, T, kept
  <2>2. Full(Counted(a)) => N + 1 <= MaxLoginFails
    BY <1>4, <1>6, <2>1, FailsAssumption DEF Full
  <2> QED BY <1>4, <1>6, <1>7, <1>8, <2>1, <2>2, FailsAssumption DEF Most
<1>11. CASE /\ ip \in DOMAIN attempts /\ Full(attempts[ip])
            /\ clock < attempts[ip].until
  <2>1. a = attempts[ip] /\ N + T <= Most
    <3>1. attempts[ip].until \in Nat
      BY <1>11 DEF Inv, TypeOK, Attempt
    <3> QED BY <1>2, <1>11, <3>1 DEF Throttle, Paced, Expired
  <2>2. Full(Counted(a))
    BY <1>4, <1>11, <2>1, FailsAssumption DEF Full
  <2> HIDE DEF a, N, T, kept
  <2> QED BY <1>4, <1>6, <1>7, <1>8, <2>1, <2>2, MostType
<1> QED BY <1>9, <1>10, <1>11

LEMMA FailThrottle ==
  ASSUME Inv, Throttle, NEW h \in Handlers, Fail(h)
  PROVE  Throttle'
<1>1. PICK ip \in IPs : client[h] = ip
  BY DEF Fail, Inv, TypeOK
<1> DEFINE kept == {k \in DOMAIN attempts : ~Expired(k)}
           n    == Len(failures[ip])
<1>2. /\ DOMAIN attempts' = kept \cup {ip}
      /\ \A k \in kept \ {ip} : attempts'[k] = attempts[k]
      /\ client' = [client EXCEPT ![h] = NoClient]
      /\ failures' = [failures EXCEPT ![ip] = Append(@, clock)]
      /\ clock' = clock
  BY <1>1 DEF Fail
<1>3. /\ failures'[ip] = Append(failures[ip], clock)
      /\ \A k \in IPs \ {ip} : failures'[k] = failures[k]
      /\ failures[ip] \in Seq(0 .. MaxTime)
      /\ clock \in 0 .. MaxTime /\ clock \in Nat
  BY <1>2 DEF Inv, TypeOK
<1>4. ASSUME NEW k \in IPs, k # ip PROVE Paced(k)' /\ Throttled(k)'
  <2>1. /\ k \in DOMAIN attempts' =>
             k \in DOMAIN attempts /\ attempts'[k] = attempts[k]
        /\ k \in DOMAIN attempts /\ k \notin DOMAIN attempts' => Expired(k)
    BY <1>2, <1>4
  <2>2. Trying(k)' \subseteq Trying(k)
    BY <1>1, <1>2, <1>4, OneLessTrying
  <2> QED BY <1>2, <1>3, <1>4, <2>1, <2>2, OtherClients DEF Throttle
<1> HIDE DEF kept
<1>5. /\ n \in Nat /\ DOMAIN failures[ip] = 1 .. n
      /\ DOMAIN failures'[ip] = 1 .. n + 1
      /\ failures'[ip][n + 1] = clock
      /\ \A j \in 1 .. n : failures'[ip][j] = failures[ip][j]
      /\ \A j \in 1 .. n : failures[ip][j] \in Nat
  <2>1. \A j \in 1 .. n : failures[ip][j] \in 0 .. MaxTime
    BY <1>3, SeqElements
  <2> QED BY <1>3, <2>1, TimeAssumption
<1>6. \A j \in 1 .. n : failures[ip][j] <= clock
  BY <1>5 DEF Throttle, Paced
<1>7. /\ ip \in DOMAIN attempts'
      /\ Full(attempts'[ip]) => attempts'[ip].until = clock + LoginLockout
      /\ IF Full(attempts'[ip])
         THEN Cardinality(Recent(ip)') + Cardinality(Trying(ip)') <= Most
         ELSE Cardinality(Recent(ip)') <= attempts'[ip].fails
      /\ IsFiniteSet(Recent(ip)') /\ Cardinality(Recent(ip)') \in Nat
      /\ Cardinality(Trying(ip)') \in Nat
  BY <1>1, FailCounts
<1> HIDE DEF n
<1>8. \A j \in DOMAIN failures'[ip] :
        failures'[ip][j] \in Nat /\ failures'[ip][j] <= clock
  BY <1>3, <1>5, <1>6
<1>9. Paced(ip)'
  <2>1. \A j \in DOMAIN failures'[ip] :
          failures'[ip][j] + LoginLockout <= clock + LoginLockout
    BY <1>3, <1>8, LockoutAssumption
  <2> QED BY <1>2, <1>7, <1>8, <2>1 DEF Paced, Full, Most
<1>10. /\ IsFiniteSet(Recent(ip)')
       /\ Cardinality(Recent(ip)') \in Nat
       /\ Cardinality(Recent(ip)') <= Most
  <2>1. Inv'
    BY FailInv
  <2>3. Cardinality(Handlers) \in Nat /\ Cardinality(Handlers) >= 1
    <3>1. /\ Cardinality(Trying(ip)') = Cardinality(Trying(ip)) - 1
          /\ Cardinality(Trying(ip)) <= Cardinality(Handlers)
          /\ Cardinality(Trying(ip)) \in Nat /\ Cardinality(Handlers) \in Nat
      BY <1>1, <1>2, OneLessTrying, CountsAreFinite
    <3> QED BY <1>7, <3>1
  <2>4. attempts'[ip].fails \in Nat
    BY <1>7, <2>1 DEF Inv, TypeOK, Attempt
  <2>5. CASE Full(attempts'[ip])
    BY <1>7, <2>5, MostType
  <2>6. CASE ~Full(attempts'[ip])
    BY <1>7, <2>3, <2>4, <2>6, FailsAssumption DEF Full, Most
  <2> QED BY <1>7, <2>5, <2>6
<1>11. ASSUME NEW i \in DOMAIN failures'[ip]
       PROVE  Cardinality(Window(ip, i)') <= Most
  <2>1. CASE n + 1 \in Window(ip, i)'
    <3>1. clock < failures'[ip][i] + LoginLockout
      BY <1>5, <2>1 DEF Window
    <3>2. Window(ip, i)' \subseteq Recent(ip)'
      BY <1>2, <1>3, <1>8, <1>11, <3>1, LockoutAssumption
         DEF Window, Recent
    <3>3. /\ Cardinality(Window(ip, i)') <= Cardinality(Recent(ip)')
          /\ Cardinality(Window(ip, i)') \in Nat
      BY <1>10, <3>2, FS_Subset, FS_CardinalityType
    <3> QED BY <1>10, <3>3, MostType
  <2>2. CASE n + 1 \notin Window(ip, i)'
    <3>1. CASE i = n + 1
      <4>1. n + 1 \in Window(ip, i)'
        BY <1>3, <1>5, <3>1, LockoutAssumption DEF Window
      <4> QED BY <2>2, <4>1
    <3>2. CASE i # n + 1
      <4>1. i \in 1 .. n
        BY <1>5, <1>11, <3>2
      <4>2. Window(ip, i)' = Window(ip, i)
        BY <1>5, <2>2, <4>1 DEF Window
      <4> QED BY <1>5, <4>1, <4>2 DEF Throttle, Throttled
    <3> QED BY <3>1, <3>2
  <2> QED BY <2>1, <2>2
<1>12. Throttled(ip)'
  BY <1>11 DEF Throttled, Most
<1> QED BY <1>4, <1>9, <1>12 DEF Throttle

LEMMA ThrottleStep == Inv /\ Throttle /\ [Next]_vars => Throttle'
<1> SUFFICES ASSUME Inv, Throttle, [Next]_vars PROVE Throttle'
  OBVIOUS
<1>1. CASE \E h \in Handlers, ip \in IPs : Admit(h, ip)
  BY <1>1, AdmitThrottle
<1>2. CASE \E h \in Handlers : Fail(h) \/ Succeed(h)
  BY <1>2, FailThrottle, SucceedThrottle
<1>3. CASE Tick \/ Stop
  BY <1>3, TickThrottle, StopThrottle
<1>4. CASE UNCHANGED vars
  BY <1>4 DEF vars, Throttle, Paced, Throttled, Recent, Trying, Window,
              Most, Full
<1>5. ASSUME NEW h \in Handlers, NEW ip \in IPs, Refuse(h, ip)
      PROVE  UNCHANGED vars
  BY <1>5 DEF Refuse
<1> QED BY <1>1, <1>2, <1>3, <1>4, <1>5 DEF Next

LEMMA ThrottleHolds == Spec => []Throttle
  BY InvHolds, InitThrottle, ThrottleStep, PTL DEF Spec

LEMMA ThrottleGivesLimit == Throttle => FailsThrottled
  BY DEF Throttle, Throttled, Window, Most, FailsThrottled

(***************************************************************************)
(* Repeated failures are throttled: no stretch of time as long as the      *)
(* lock-out sees more failures of one client than the threshold and one    *)
(* for each other login it had under way.                                  *)
(***************************************************************************)
THEOREM FailuresAreThrottled == Spec => []FailsThrottled
  BY ThrottleHolds, ThrottleGivesLimit, PTL

-----------------------------------------------------------------------------
(***************************************************************************)
(* A failure prunes: the locked entries it leaves are those of clients     *)
(* that failed no longer than a lock-out ago.                              *)
(***************************************************************************)
LEMMA FailForgets ==
  ASSUME Inv, NEW h \in Handlers, Fail(h), NEW k \in DOMAIN attempts',
         Full(attempts'[k])
  PROVE  \E i \in DOMAIN failures'[k] :
           clock <= failures'[k][i] + LoginLockout
<1>1. Inv'
  BY FailInv
<1>2. /\ attempts'[k].fails \in Nat /\ Reason(k)'
      /\ k \in IPs /\ failures'[k] \in Seq(0 .. MaxTime)
      /\ clock \in Nat
  BY <1>1 DEF Inv, TypeOK, Attempt
<1> DEFINE last == Len(failures'[k])
<1>3. /\ last \in DOMAIN failures'[k]
      /\ attempts'[k].until = failures'[k][last] + LoginLockout
  BY <1>2, FailsAssumption DEF Reason, Full
<1>4. clock <= attempts'[k].until
  <2>1. PICK ip \in IPs : client[h] = ip
    BY DEF Fail, Inv, TypeOK
  <2>2. CASE k = ip
    <3>1. failures'[k] = Append(failures[k], clock)
          /\ failures[k] \in Seq(0 .. MaxTime)
      BY <2>1, <2>2 DEF Fail, Inv, TypeOK
    <3>2. failures'[k][last] = clock
      BY <1>2, <3>1
    <3> QED BY <1>2, <1>3, <3>2, LockoutAssumption
  <2>3. CASE k # ip
    <3>1. k \in DOMAIN attempts /\ ~Expired(k) /\ attempts'[k] = attempts[k]
      BY <2>1, <2>3 DEF Fail
    <3>2. attempts[k].until \in Nat
      BY <3>1 DEF Inv, TypeOK, Attempt
    <3> QED BY <1>2, <3>1, <3>2 DEF Expired, Full
  <2> QED BY <2>2, <2>3
<1> QED BY <1>3, <1>4

(***************************************************************************)
(* "Expired entries are pruned on each failure": none of a client that has *)
(* been silent for longer than a lock-out is left.                         *)
(***************************************************************************)
THEOREM ExpiredLocksForgotten == Spec => LockedClientsForgotten
<1>1. ASSUME Inv
      PROVE  [\A h \in Handlers : Fail(h) =>
                \A ip \in DOMAIN attempts' : Full(attempts'[ip]) =>
                  \E i \in DOMAIN failures'[ip] :
                    clock <= failures'[ip][i] + LoginLockout]_vars
  BY <1>1, FailForgets
<1> QED BY <1>1, InvHolds, PTL DEF LockedClientsForgotten, Spec

=============================================================================
