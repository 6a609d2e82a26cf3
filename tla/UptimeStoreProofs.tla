------------------------- MODULE UptimeStoreProofs -------------------------
(***************************************************************************)
(* Proofs about the store, for any retentions, numbers of bars, markers    *)
(* and length of the history.                                              *)
(***************************************************************************)
EXTENDS UptimeStore, TLAPS, WellFoundedInduction

-----------------------------------------------------------------------------
(* Induction over the natural numbers, in the form of a set, and the       *)
(* functions that a loop defines.                                          *)

LEMMA LeastElement ==
  ASSUME NEW T \in SUBSET Nat, T # {}
  PROVE  \E x \in T : \A y \in T : x <= y
<1>1. PICK x \in T : \A y \in T : ~(<<y, x>> \in OpToRel(<, Nat))
  BY NatLessThanWellFounded, WFMin
<1>2. \A y \in T : ~(y < x)
  BY <1>1 DEF OpToRel
<1> QED BY <1>2

LEMMA Induction ==
  ASSUME NEW P, 0 \in P, \A n \in Nat : n \in P => n + 1 \in P
  PROVE  Nat \subseteq P
<1> DEFINE T == {n \in Nat : n \notin P}
<1> SUFFICES ASSUME T # {} PROVE FALSE
  OBVIOUS
<1>1. PICK x \in T : \A y \in T : x <= y
  BY LeastElement
<1>2. x # 0 /\ x - 1 \in Nat /\ x - 1 \notin T
  BY <1>1
<1> QED BY <1>1, <1>2

\* A loop of N turns has a value after each of them.
Looped(g, N, S, first, turn) ==
  /\ g \in [0 .. N -> S]
  /\ g[0] = first
  /\ \A n \in 1 .. N : g[n] = turn[n][g[n - 1]]

LEMMA LoopExists ==
  ASSUME NEW N \in Nat, NEW S, NEW first \in S,
         NEW turn \in [1 .. N -> [S -> S]]
  PROVE  \E g : Looped(g, N, S, first, turn)
<1> DEFINE Upto(m) == \E g : Looped(g, m, S, first, turn)
           P == {m \in Nat : m <= N => Upto(m)}
<1>1. 0 \in P
  <2> DEFINE g == [n \in 0 .. 0 |-> first]
  <2>1. g \in [0 .. 0 -> S] /\ g[0] = first
    OBVIOUS
  <2>2. \A n \in 1 .. 0 : g[n] = turn[n][g[n - 1]]
    OBVIOUS
  <2> QED BY <2>1, <2>2 DEF Looped
<1>2. ASSUME NEW m \in Nat, m \in P PROVE m + 1 \in P
  <2> SUFFICES ASSUME m + 1 <= N PROVE Upto(m + 1)
    OBVIOUS
  <2>1. PICK g \in [0 .. m -> S] :
          g[0] = first /\ \A n \in 1 .. m : g[n] = turn[n][g[n - 1]]
    BY <1>2 DEF Looped
  <2> DEFINE h == [n \in 0 .. m + 1 |->
                     IF n <= m THEN g[n] ELSE turn[m + 1][g[m]]]
  <2>2. turn[m + 1] \in [S -> S] /\ g[m] \in S
    OBVIOUS
  <2>3. h \in [0 .. m + 1 -> S]
    BY <2>2
  <2>4. h[0] = first /\ h[m + 1] = turn[m + 1][h[m]]
    BY <2>1
  <2>5. ASSUME NEW n \in 1 .. m PROVE h[n] = turn[n][h[n - 1]]
    BY <2>1
  <2>6. \A n \in 1 .. m + 1 : h[n] = turn[n][h[n - 1]]
    <3> HIDE DEF h
    <3> QED BY <2>4, <2>5
  <2> HIDE DEF h
  <2> QED BY <2>3, <2>4, <2>6 DEF Looped
<1> HIDE DEF P
<1>3. N \in P
  BY <1>1, <1>2, Induction
<1> QED BY <1>3 DEF P

-----------------------------------------------------------------------------
(* The loop over the samples.                                              *)

Kept(kept, samples, limit, T) ==
  /\ kept \in [0 .. Len(samples) -> Seq(T)]
  /\ kept[0] = <<>>
  /\ \A n \in 1 .. Len(samples) :
       kept[n] = IF samples[n].time >= limit
                 THEN Append(kept[n - 1], samples[n])
                 ELSE kept[n - 1]
  /\ Since(samples, limit) = kept[Len(samples)]

LEMMA SinceLoop ==
  ASSUME NEW T, NEW samples \in Seq(T), NEW limit
  PROVE  \E kept : Kept(kept, samples, limit, T)
<1> DEFINE N == Len(samples)
           Seqs == Seq(T)
           more(acc, n) == IF samples[n].time >= limit
                           THEN Append(acc, samples[n]) ELSE acc
           body(f, n) == IF n = 0 THEN <<>>
                         ELSE IF samples[n].time >= limit
                         THEN Append(f[n - 1], samples[n])
                         ELSE f[n - 1]
           turn == [n \in 1 .. N |-> [acc \in Seqs |-> more(acc, n)]]
<1>1. N \in Nat /\ <<>> \in Seqs
  OBVIOUS
<1>2. \A acc \in Seqs, n \in 1 .. N : more(acc, n) \in Seqs
  OBVIOUS
<1>3. \A f, n : body(f, n) = IF n = 0 THEN <<>> ELSE more(f[n - 1], n)
  OBVIOUS
<1>4. Since(samples, limit)
        = (CHOOSE f : f = [n \in 0 .. N |-> body(f, n)])[N]
  BY DEF Since
<1> DEFINE K == CHOOSE f : f = [n \in 0 .. N |-> body(f, n)]
<1> HIDE DEF N, Seqs, more, body
<1>5. PICK g \in [0 .. N -> Seqs] :
        g[0] = <<>> /\ \A n \in 1 .. N : g[n] = turn[n][g[n - 1]]
  <2>1. turn \in [1 .. N -> [Seqs -> Seqs]]
    BY <1>2
  <2> HIDE DEF turn
  <2>2. \E g : Looped(g, N, Seqs, <<>>, turn)
    BY <1>1, <2>1, LoopExists
  <2> QED BY <2>2 DEF Looped
<1>6. g = [n \in 0 .. N |-> body(g, n)]
  <2>1. \A n \in 1 .. N : g[n - 1] \in Seqs
    BY <1>1
  <2>2. \A n \in 1 .. N : g[n] = more(g[n - 1], n)
    BY <1>5, <2>1
  <2>3. \A n \in 0 .. N : g[n] = body(g, n)
    BY <1>1, <1>3, <1>5, <2>2
  <2>4. g = [n \in 0 .. N |-> g[n]]
    OBVIOUS
  <2> QED BY <2>3, <2>4
<1>7. K = [n \in 0 .. N |-> body(K, n)]
  BY <1>6
<1> HIDE DEF K
<1>8. K[0] = <<>> /\ \A n \in 1 .. N : K[n] = more(K[n - 1], n)
  <2>1. \A n \in 0 .. N : K[n] = body(K, n)
    BY <1>7
  <2> QED BY <1>1, <1>3, <2>1
<1>9. \A n \in 0 .. N : K[n] \in Seqs
  <2> DEFINE P == {n \in Nat : n <= N => K[n] \in Seqs}
  <2>1. 0 \in P
    BY <1>1, <1>8
  <2>2. ASSUME NEW n \in Nat, n \in P PROVE n + 1 \in P
    <3> SUFFICES ASSUME n + 1 <= N PROVE K[n + 1] \in Seqs
      OBVIOUS
    <3>1. n + 1 \in 1 .. N /\ K[n] \in Seqs /\ (n + 1) - 1 = n
      BY <1>1, <2>2
    <3>2. K[n + 1] = more(K[n], n + 1)
      BY <1>8, <3>1
    <3> QED BY <1>2, <3>1, <3>2
  <2> HIDE DEF P
  <2>3. Nat \subseteq P
    BY <2>1, <2>2, Induction
  <2> QED BY <1>1, <2>3 DEF P
<1>10. K \in [0 .. N -> Seqs]
  BY <1>7, <1>9
<1> QED BY <1>4, <1>8, <1>10 DEF K, more, N, Seqs, Kept

Sorted(samples) ==
  \A i, j \in DOMAIN samples : i < j => samples[i].time <= samples[j].time

LEMMA AppendElements ==
  ASSUME NEW T, NEW k \in Seq(T), NEW x \in T
  PROVE  /\ ToSet(Append(k, x)) = ToSet(k) \cup {x}
         /\ DOMAIN Append(k, x) = 1 .. Len(k) + 1 /\ Len(k) \in Nat
         /\ \A i \in 1 .. Len(k) : Append(k, x)[i] = k[i]
         /\ Append(k, x)[Len(k) + 1] = x
         /\ DOMAIN k = 1 .. Len(k)
         /\ Last(Append(k, x)) = x /\ Append(k, x) # <<>>
<1>1. /\ DOMAIN Append(k, x) = 1 .. Len(k) + 1 /\ Len(k) \in Nat
      /\ \A i \in 1 .. Len(k) : Append(k, x)[i] = k[i]
      /\ Append(k, x)[Len(k) + 1] = x
      /\ DOMAIN k = 1 .. Len(k)
      /\ Len(Append(k, x)) = Len(k) + 1
      /\ Append(k, x) # <<>>
  OBVIOUS
<1> DEFINE a == Append(k, x)
<1> HIDE DEF a
<1>2. \A i \in 1 .. Len(k) + 1 : i \in 1 .. Len(k) \/ i = Len(k) + 1
  BY <1>1
<1>3. ToSet(a) = ToSet(k) \cup {x}
  BY <1>1, <1>2 DEF ToSet, a
<1> QED BY <1>1, <1>3 DEF a, Last

LEMMA AppendSorted ==
  ASSUME NEW T, NEW k \in Seq(T), NEW x \in T, Sorted(k),
         \A i \in DOMAIN k : k[i].time <= x.time
  PROVE  Sorted(Append(k, x))
<1> DEFINE a == Append(k, x)
<1>1. /\ DOMAIN a = 1 .. Len(k) + 1 /\ Len(k) \in Nat
      /\ \A i \in 1 .. Len(k) : a[i] = k[i]
      /\ a[Len(k) + 1] = x
      /\ DOMAIN k = 1 .. Len(k)
  BY AppendElements
<1> HIDE DEF a
<1>2. ASSUME NEW i \in DOMAIN a, NEW j \in DOMAIN a, i < j
      PROVE  a[i].time <= a[j].time
  <2>1. i \in 1 .. Len(k)
    BY <1>1, <1>2
  <2>2. CASE j \in 1 .. Len(k)
    BY <1>1, <1>2, <2>1, <2>2 DEF Sorted
  <2>3. CASE j = Len(k) + 1
    BY <1>1, <2>1, <2>3
  <2> QED BY <1>1, <2>2, <2>3
<1> QED BY <1>2 DEF Sorted, a

\* What the loop keeps: the samples that are not too old, in their order, and
\* the last of all when it is one of them.
LEMMA SinceKeeps ==
  ASSUME NEW T, NEW samples \in Seq(T), NEW limit \in Int,
         \A s \in T : s.time \in Int
  PROVE  /\ Since(samples, limit) \in Seq(T)
         /\ ToSet(Since(samples, limit))
              = {s \in ToSet(samples) : s.time >= limit}
         /\ Sorted(samples) => Sorted(Since(samples, limit))
         /\ samples # <<>> /\ Last(samples).time >= limit =>
              /\ Since(samples, limit) # <<>>
              /\ Last(Since(samples, limit)) = Last(samples)
<1> DEFINE N == Len(samples)
           before(n) == {samples[i] : i \in {i \in 1 .. n :
                                              samples[i].time >= limit}}
<1>1. /\ N \in Nat /\ DOMAIN samples = 1 .. N
      /\ \A n \in 1 .. N : samples[n] \in T /\ samples[n].time \in Int
  OBVIOUS
<1>2. PICK kept : Kept(kept, samples, limit, T)
  BY SinceLoop
<1>3. /\ kept \in [0 .. N -> Seq(T)]
      /\ kept[0] = <<>>
      /\ \A n \in 1 .. N :
           kept[n] = IF samples[n].time >= limit
                     THEN Append(kept[n - 1], samples[n])
                     ELSE kept[n - 1]
      /\ Since(samples, limit) = kept[N]
  BY <1>2 DEF Kept
<1> HIDE DEF N
<1>4. /\ before(0) = {}
      /\ \A n \in Nat : before(n + 1) =
           IF samples[n + 1].time >= limit
           THEN before(n) \cup {samples[n + 1]} ELSE before(n)
  OBVIOUS
<1>5. before(N) = {s \in ToSet(samples) : s.time >= limit}
  BY <1>1 DEF ToSet
<1>6. ASSUME Sorted(samples), NEW n \in Nat, n + 1 <= N, NEW s \in before(n)
      PROVE  s.time <= samples[n + 1].time
  <2>1. /\ n + 1 \in DOMAIN samples
        /\ \A i \in 1 .. n : i \in DOMAIN samples /\ i < n + 1
    BY <1>1, <1>6
  <2>2. \A i \in 1 .. n : samples[i].time <= samples[n + 1].time
    BY <1>6, <2>1 DEF Sorted
  <2> QED BY <1>6, <2>2
<1> HIDE DEF before
<1>7. \A n \in 0 .. N : ToSet(kept[n]) = before(n)
  <2> DEFINE P == {n \in Nat : n <= N => ToSet(kept[n]) = before(n)}
  <2>1. 0 \in P
    BY <1>3, <1>4 DEF ToSet
  <2>2. ASSUME NEW n \in Nat, n \in P PROVE n + 1 \in P
    <3> SUFFICES ASSUME n + 1 <= N
                 PROVE  ToSet(kept[n + 1]) = before(n + 1)
      OBVIOUS
    <3>0. ToSet(kept[n]) = before(n)
      BY <1>1, <2>2
    <3>1. /\ n + 1 \in 1 .. N /\ n \in 0 .. N /\ (n + 1) - 1 = n
          /\ kept[n] \in Seq(T) /\ samples[n + 1] \in T
      BY <1>1, <1>3
    <3>2. kept[n + 1] = IF samples[n + 1].time >= limit
                        THEN Append(kept[n], samples[n + 1]) ELSE kept[n]
      BY <1>3, <3>1
    <3>3. ToSet(Append(kept[n], samples[n + 1]))
            = ToSet(kept[n]) \cup {samples[n + 1]}
      BY <3>1, AppendElements
    <3> QED BY <1>4, <3>0, <3>1, <3>2, <3>3
  <2> HIDE DEF P
  <2>3. Nat \subseteq P
    BY <2>1, <2>2, Induction
  <2> QED BY <1>1, <2>3 DEF P
<1>8. ASSUME Sorted(samples) PROVE \A n \in 0 .. N : Sorted(kept[n])
  <2> DEFINE P == {n \in Nat : n <= N => Sorted(kept[n])}
  <2>1. 0 \in P
    BY <1>3 DEF Sorted
  <2>2. ASSUME NEW n \in Nat, n \in P PROVE n + 1 \in P
    <3> SUFFICES ASSUME n + 1 <= N PROVE Sorted(kept[n + 1])
      OBVIOUS
    <3>1. /\ n + 1 \in 1 .. N /\ n \in 0 .. N /\ (n + 1) - 1 = n
          /\ kept[n] \in Seq(T) /\ samples[n + 1] \in T
          /\ Sorted(kept[n])
      BY <1>1, <1>3, <2>2
    <3>2. kept[n + 1] = IF samples[n + 1].time >= limit
                        THEN Append(kept[n], samples[n + 1]) ELSE kept[n]
      BY <1>3, <3>1
    <3>3. \A i \in DOMAIN kept[n] : kept[n][i].time <= samples[n + 1].time
      <4>1. ToSet(kept[n]) = before(n)
        BY <1>7, <3>1
      <4>2. \A s \in ToSet(kept[n]) : s.time <= samples[n + 1].time
        BY <1>6, <1>8, <3>1, <4>1
      <4> QED BY <4>2 DEF ToSet
    <3>4. Sorted(Append(kept[n], samples[n + 1]))
      BY <3>1, <3>3, AppendSorted
    <3> QED BY <3>1, <3>2, <3>4
  <2> HIDE DEF P
  <2>3. Nat \subseteq P
    BY <2>1, <2>2, Induction
  <2> QED BY <1>1, <2>3 DEF P
<1>9. ASSUME samples # <<>>, Last(samples).time >= limit
      PROVE  kept[N] # <<>> /\ Last(kept[N]) = Last(samples)
  <2>1. N \in 1 .. N /\ kept[N - 1] \in Seq(T) /\ samples[N] \in T
    <3>1. N # 0
      BY <1>9 DEF N
    <3> QED BY <1>1, <1>3, <3>1
  <2>2. kept[N] = Append(kept[N - 1], samples[N])
    BY <1>3, <1>9, <2>1 DEF Last, N
  <2>3. Last(samples) = samples[N]
    BY DEF Last, N
  <2> QED BY <2>1, <2>2, <2>3, AppendElements
<1>10. N \in 0 .. N
  BY <1>1
<1> QED BY <1>3, <1>5, <1>7, <1>8, <1>9, <1>10

-----------------------------------------------------------------------------
(* The window.                                                             *)

LEMMA WrapType == ASSUME NEW d \in Int PROVE Wrap(d) \in Int
<1>1. Width \div 2 \in Nat /\ Width \in Nat \ {0}
  BY WidthAssumption
<1>2. d + Width \div 2 \in Int
  BY <1>1
<1>3. (d + Width \div 2) % Width \in Nat
  BY <1>1, <1>2
<1> QED BY <1>1, <1>3 DEF Wrap

LEMMA WindowType ==
  ASSUME clock \in Nat, NEW h \in Nat
  PROVE  WindowStart(h) \in Int
<1>1. h * Hour \in Nat
  BY TimeAssumption
<1> QED BY <1>1, WrapType DEF WindowStart

\* A retention that a time.Duration can hold.
Fits(h) == h * Hour < Width \div 2

LEMMA FittingWindow ==
  ASSUME clock \in Nat, NEW h \in Nat, Fits(h)
  PROVE  WindowStart(h) = IF h <= 0 THEN 0 ELSE clock - h * Hour
<1> DEFINE d == h * Hour
           w == Width \div 2
<1>1. d \in Nat
  BY TimeAssumption
<1>2. w \in Nat /\ Width = 2 * w /\ Width \in Nat
  BY WidthAssumption
<1>3. d < w
  BY DEF Fits
<1> HIDE DEF d, w
<1>4. (d + w) % Width = d + w
  BY <1>1, <1>2, <1>3
<1>5. Wrap(d) = d
  BY <1>1, <1>2, <1>4 DEF Wrap, w
<1> QED BY <1>5 DEF WindowStart, d

LEMMA WithinKeeps ==
  ASSUME clock \in Nat, NEW h \in Nat, NEW samples \in Seq(Sample)
  PROVE  /\ Within(samples, h) \in Seq(Sample)
         /\ ToSet(Within(samples, h))
              = {s \in ToSet(samples) : s.time >= WindowStart(h)}
         /\ Sorted(samples) => Sorted(Within(samples, h))
         /\ samples # <<>> /\ Last(samples).time >= WindowStart(h) =>
              /\ Within(samples, h) # <<>>
              /\ Last(Within(samples, h)) = Last(samples)
<1>1. \A s \in Sample : s.time \in Int
  BY DEF Sample
<1>2. WindowStart(h) \in Int
  BY WindowType
<1> QED BY <1>1, <1>2, SinceKeeps DEF Within

-----------------------------------------------------------------------------
(* Types.                                                                  *)

Histories == [Keys -> Seq(Sample)]

\* None of the samples is from the future.
Past(samples, now) == \A s \in ToSet(samples) : s.time <= now

LEMMA InOrderIs ==
  ASSUME NEW samples
  PROVE  InOrder(samples) <=> Sorted(samples) /\ Past(samples, clock)
  BY DEF InOrder, Sorted, Past, ToSet

Ordered(u, now) == \A k \in Keys : Sorted(u[k]) /\ Past(u[k], now)

LEMMA PruneKeeps ==
  ASSUME clock \in Nat, NEW h \in Nat, NEW u \in Histories, Ordered(u, clock)
  PROVE  Prune(u, h) \in Histories /\ Ordered(Prune(u, h), clock)
<1>1. CASE h <= 0
  BY <1>1 DEF Prune
<1>2. CASE ~(h <= 0)
  <2>1. ASSUME NEW k \in Keys
        PROVE  /\ Within(u[k], h) \in Seq(Sample)
               /\ Sorted(Within(u[k], h)) /\ Past(Within(u[k], h), clock)
    <3>1. u[k] \in Seq(Sample)
      BY DEF Histories
    <3> QED BY <3>1, WithinKeeps DEF Ordered, Past
  <2>2. Prune(u, h) = [k \in Keys |-> Within(u[k], h)]
    BY <1>2 DEF Prune
  <2> QED BY <2>1, <2>2 DEF Histories, Ordered
<1> QED BY <1>1, <1>2

\* A sample of the moment, at the end of one of the histories.
Taken(u, k, up) ==
  [u EXCEPT ![k] = Append(@, [time |-> clock, up |-> up])]

LEMMA TakenType ==
  ASSUME clock \in Nat, NEW u \in Histories, Ordered(u, clock),
         NEW k \in Keys, NEW up \in Results
  PROVE  /\ Taken(u, k, up) \in Histories
         /\ Ordered(Taken(u, k, up), clock)
         /\ Taken(u, k, up)[k] # <<>>
         /\ Last(Taken(u, k, up)[k]).time = clock
         /\ \A n \in Keys : ToSet(u[n]) \subseteq ToSet(Taken(u, k, up)[n])
<1> DEFINE x == [time |-> clock, up |-> up]
           a == Append(u[k], x)
<1>1. x \in Sample /\ x.time = clock /\ u[k] \in Seq(Sample)
  BY DEF Sample, Histories
<1>2. /\ Taken(u, k, up) = [u EXCEPT ![k] = a]
  BY DEF Taken
<1> HIDE DEF x
<1>3. /\ a \in Seq(Sample) /\ a # <<>> /\ Last(a) = x
      /\ ToSet(a) = ToSet(u[k]) \cup {x}
  BY <1>1, AppendElements
<1>4. Sorted(a)
  <2>1. \A i \in DOMAIN u[k] : u[k][i].time <= x.time
    BY <1>1 DEF Ordered, Past, ToSet
  <2> QED BY <1>1, <2>1, AppendSorted DEF Ordered
<1>5. Past(a, clock)
  BY <1>1, <1>3 DEF Past, Ordered
<1> HIDE DEF a
<1> QED BY <1>1, <1>2, <1>3, <1>4, <1>5 DEF Histories, Ordered

\* What TypeOK says, apart from the round.
Typed ==
  /\ clock \in 0 .. MaxTime
  /\ running \in BOOLEAN
  /\ mem \in Document /\ Ordered(mem.uptime, clock)
  /\ disk \in Document \cup {Absent} /\ Ordered(Stored.uptime, clock)
  /\ cfg \in [hours : Hours, backup : BOOLEAN]
  /\ rested \in BOOLEAN
  /\ inForce \subseteq Hours \ {0}

RoundOK ==
  /\ round \in [hours : Hours \cup {0}, left : Seq(Keys)]
  /\ round # NoRound =>
       /\ running /\ round.left # <<>>
       /\ round.hours \in Hours \ {0} /\ round.hours \in inForce

Inv == Typed /\ RoundOK

LEMMA InvGivesType == Inv => TypeOK
  BY InOrderIs DEF Inv, Typed, RoundOK, TypeOK, Ordered

LEMMA DocumentFacts ==
  /\ Empty \in Document /\ Absent \notin Document
  /\ \A now \in Nat : Ordered(Empty.uptime, now)
  /\ \A d \in Document : d.uptime \in Histories
<1>1. \A d \in Document : DOMAIN d = {"uptime", "lastSync"}
  BY DEF Document
<1>2. DOMAIN Absent = {"file"}
  BY DEF Absent
<1>3. Empty \in Document
  BY DEF Empty, Document
<1>4. \A now \in Nat : Ordered(Empty.uptime, now)
  BY DEF Empty, Ordered, Sorted, Past, ToSet
<1>5. \A d \in Document : d.uptime \in Histories
  BY DEF Document, Histories
<1>6. Absent \notin Document
  BY <1>1, <1>2
<1> QED BY <1>3, <1>4, <1>5, <1>6

\* A new document, and a save that works or fails.
LEMMA ChangeTyped ==
  ASSUME Typed, NEW d \in Document, Ordered(d.uptime, clock), Change(d),
         Forget
  PROVE  Typed' /\ Stored' \in {d, Stored}
<1>1. /\ mem' = d /\ disk' \in {d, disk}
      /\ UNCHANGED <<clock, running, cfg, rested>>
  BY DEF Change
<1>2. Stored' \in {d, Stored}
  BY <1>1, DocumentFacts DEF Stored
<1> QED BY <1>1, <1>2 DEF Typed, Forget

\* What a sample does to the document.
LEMMA AppendDocument ==
  ASSUME Inv, NEW k \in Keys, NEW up \in Results, AppendUptime(k, up)
  PROVE  /\ running /\ clock \in Nat
         /\ round.hours \in Hours \ {0} /\ round.hours \in Nat
         /\ mem' \in Document /\ Change(mem') /\ Forget
         /\ mem'.uptime = Prune(Taken(mem.uptime, k, up), round.hours)
         /\ Ordered(mem'.uptime, clock)
<1> DEFINE u == Taken(mem.uptime, k, up)
           h == round.hours
           d == [mem EXCEPT !.uptime = Prune(u, h)]
<1>1. /\ round # NoRound /\ running /\ clock \in Nat
      /\ h \in Hours \ {0} /\ h \in Nat
  BY HoursAssumption DEF AppendUptime, Inv, RoundOK, Typed
<1>2. Change(d) /\ Forget
  BY DEF AppendUptime, Taken
<1>3. mem' = d
  BY <1>2 DEF Change
<1>4. mem.uptime \in Histories /\ Ordered(mem.uptime, clock)
  BY DocumentFacts DEF Inv, Typed
<1>5. u \in Histories /\ Ordered(u, clock)
  BY <1>1, <1>4, TakenType
<1> HIDE DEF u, h
<1>6. Prune(u, h) \in Histories /\ Ordered(Prune(u, h), clock)
  BY <1>1, <1>5, PruneKeeps
<1>7. d \in Document /\ d.uptime = Prune(u, h)
  BY <1>6 DEF Inv, Typed, Document, Histories
<1> QED BY <1>1, <1>2, <1>3, <1>6, <1>7 DEF u, h

LEMMA RoundGoesOn ==
  ASSUME Inv, NEW k \in Keys, NEW up \in Results, AppendUptime(k, up)
  PROVE  RoundOK'
<1>1. /\ round # NoRound /\ running' = running
      /\ round' = IF Tail(round.left) = <<>> THEN NoRound
                  ELSE [round EXCEPT !.left = Tail(@)]
      /\ round' = NoRound \/ inForce' = inForce
  BY DEF AppendUptime, Change, Forget, Settled
<1>2. /\ round \in [hours : Hours \cup {0}, left : Seq(Keys)]
      /\ running /\ round.hours \in Hours \ {0} /\ round.left # <<>>
      /\ round.hours \in inForce
  BY <1>1 DEF Inv, RoundOK
<1>3. Tail(round.left) \in Seq(Keys)
  BY <1>2
<1>4. CASE Tail(round.left) = <<>>
  BY <1>1, <1>4 DEF RoundOK, NoRound
<1>5. CASE Tail(round.left) # <<>>
  <2> DEFINE left == Tail(round.left)
  <2>1. /\ round' = [round EXCEPT !.left = left]
        /\ left \in Seq(Keys) /\ left # <<>>
    BY <1>1, <1>3, <1>5
  <2> HIDE DEF left
  <2>2. round' # NoRound
    BY <1>2, <2>1 DEF NoRound
  <2> QED BY <1>1, <1>2, <2>1, <2>2 DEF RoundOK
<1> QED BY <1>4, <1>5

LEMMA InitInv == Init => Inv
<1> SUFFICES ASSUME Init PROVE Inv
  OBVIOUS
<1>1. RoundOK
  BY DEF Init, RoundOK, NoRound
<1>2. clock = 0 /\ clock \in 0 .. MaxTime /\ clock \in Nat
  BY TimeAssumption DEF Init
<1>3. mem = Empty /\ Stored = Empty
  BY DEF Init, Stored
<1>4. Empty \in Document /\ Ordered(Empty.uptime, clock)
  BY <1>2, DocumentFacts
<1>5. Typed
  BY <1>2, <1>3, <1>4 DEF Init, Typed
<1> QED BY <1>1, <1>5 DEF Inv

LEMMA InvStep == Inv /\ [Next]_vars => Inv'
<1> SUFFICES ASSUME Inv, [Next]_vars PROVE Inv'
  OBVIOUS
<1>1. CASE Start
  BY <1>1, DocumentFacts DEF Start, Stored, Inv, Typed, RoundOK
<1>2. CASE StartRound
  <2>1. /\ running /\ cfg.hours > 0
        /\ round' = [hours |-> cfg.hours, left |-> ServerKeys(cfg.backup)]
        /\ UNCHANGED <<clock, running, mem, disk, cfg>> /\ rested' = FALSE
        /\ inForce' = inForce \cup {cfg.hours}
    BY <1>2 DEF StartRound
  <2>2. /\ ServerKeys(cfg.backup) \in Seq(Keys)
        /\ ServerKeys(cfg.backup) # <<>>
    <3>1. "master" \in Keys /\ "backup" \in Keys
      BY DEF Keys
    <3> HIDE DEF Keys
    <3>2. CASE cfg.backup
      BY <3>1, <3>2 DEF ServerKeys
    <3>3. CASE ~cfg.backup
      BY <3>1, <3>3 DEF ServerKeys
    <3> QED BY <3>2, <3>3
  <2>3. cfg.hours \in Hours \ {0}
    BY <2>1 DEF Inv, Typed
  <2> HIDE DEF Keys
  <2>4. RoundOK'
    BY <2>1, <2>2, <2>3 DEF RoundOK
  <2>5. Typed'
    BY <2>1, <2>3 DEF Inv, Typed, Stored
  <2> QED BY <2>4, <2>5 DEF Inv
<1>3. ASSUME NEW k \in Keys, NEW up \in Results, AppendUptime(k, up)
      PROVE  Inv'
  BY <1>3, AppendDocument, ChangeTyped, RoundGoesOn DEF Inv
<1>4. ASSUME NEW m \in Markers, SetLastSync(m) PROVE Inv'
  <2> DEFINE d == [mem EXCEPT !.lastSync = m]
  <2>1. d \in Document /\ d.uptime = mem.uptime
    BY DEF Inv, Typed, Document
  <2>2. /\ Change(d) /\ Forget /\ round' = round /\ running' = running
        /\ round' = NoRound \/ inForce' = inForce
    BY <1>4 DEF SetLastSync, Change, Forget, Settled
  <2>3. Ordered(d.uptime, clock)
    BY <2>1 DEF Inv, Typed
  <2> HIDE DEF d
  <2> QED BY <2>1, <2>2, <2>3, ChangeTyped DEF Inv, RoundOK
<1>5. ASSUME NEW h \in Hours, NEW backup \in BOOLEAN, Configure(h, backup)
      PROVE  Inv'
  BY <1>5 DEF Configure, Inv, Typed, RoundOK, Stored
<1>6. CASE Tick
  <2>1. /\ clock' = clock + 1 /\ clock' \in 0 .. MaxTime /\ clock \in Nat
        /\ UNCHANGED <<running, mem, disk, cfg, round, inForce>>
        /\ rested' = TRUE
    BY <1>6, TimeAssumption DEF Tick, Inv, Typed
  <2>2. ASSUME NEW u \in Histories, Ordered(u, clock)
        PROVE  Ordered(u, clock')
    <3>1. ASSUME NEW k \in Keys, NEW s \in ToSet(u[k])
          PROVE  s.time <= clock'
      <4>1. u[k] \in Seq(Sample)
        BY DEF Histories
      <4>2. s.time \in Nat
        <5>1. PICK i \in DOMAIN u[k] : s = u[k][i]
          BY DEF ToSet
        <5>2. s \in Sample
          BY <4>1, <5>1
        <5> QED BY <5>2 DEF Sample
      <4>3. s.time <= clock
        BY <2>2 DEF Ordered, Past
      <4> QED BY <2>1, <4>2, <4>3
    <3> QED BY <2>2, <3>1 DEF Ordered, Past
  <2>3. mem.uptime \in Histories /\ Stored.uptime \in Histories
    BY DocumentFacts DEF Inv, Typed, Stored
  <2>4. Stored' = Stored
    BY <2>1 DEF Stored
  <2> QED BY <2>1, <2>2, <2>3, <2>4 DEF Inv, Typed, RoundOK
<1>7. CASE Crash
  <2>1. /\ running' = FALSE /\ mem' = Empty /\ round' = NoRound
        /\ UNCHANGED <<clock, disk, cfg, rested>> /\ inForce' = {}
    BY <1>7 DEF Crash
  <2>2. RoundOK'
    BY <2>1 DEF RoundOK, NoRound
  <2>3. Empty \in Document /\ Ordered(Empty.uptime, clock)
    BY DocumentFacts, TimeAssumption DEF Inv, Typed
  <2>4. Typed'
    BY <2>1, <2>3 DEF Inv, Typed, Stored
  <2> QED BY <2>2, <2>4 DEF Inv
<1>8. CASE UNCHANGED vars
  BY <1>8 DEF vars, Inv, Typed, RoundOK, Stored
<1> QED BY <1>1, <1>2, <1>3, <1>4, <1>5, <1>6, <1>7, <1>8 DEF Next

LEMMA InvHolds == Spec => []Inv
  BY InitInv, InvStep, PTL DEF Spec

(***************************************************************************)
(* In memory and in the file, samples are in the order they were taken,    *)
(* and none is from the future, whatever is pruned, crashes or fails.      *)
(***************************************************************************)
THEOREM StoreTypeCorrect == Spec => []TypeOK
  BY InvHolds, InvGivesType, PTL

-----------------------------------------------------------------------------
(* The window, and the samples that are saved.                             *)

\* No retention is too long for a time.Duration, which holds 292 years.
RetentionsFit == \A h \in Hours : Fits(h)

LEMMA TookStep ==
  ASSUME Inv, [Next]_vars, NEW n \in Keys, Took(n)
  PROVE  \E up \in Results : AppendUptime(n, up)
<1>1. running' /\ round # NoRound /\ round' # round /\ n = Head(round.left)
  BY DEF Took
<1>2. ~Start /\ ~StartRound /\ ~Tick /\ ~Crash /\ ~UNCHANGED vars
  BY <1>1 DEF Start, StartRound, Tick, Crash, vars
<1>3. /\ \A m \in Markers : ~SetLastSync(m)
      /\ \A h \in Hours, backup \in BOOLEAN : ~Configure(h, backup)
  BY <1>1 DEF SetLastSync, Configure
<1>4. \A k \in Keys, up \in Results : AppendUptime(k, up) => k = n
  BY <1>1 DEF AppendUptime
<1> QED BY <1>2, <1>3, <1>4 DEF Next

LEMMA PruneWindow ==
  ASSUME clock \in Nat, NEW h \in Nat \ {0}, Fits(h), NEW u \in Histories,
         NEW k \in Keys
  PROVE  ToSet(Prune(u, h)[k])
           = {s \in ToSet(u[k]) : s.time >= clock - h * Hour}
<1>1. ~(h <= 0) /\ u[k] \in Seq(Sample)
  BY DEF Histories
<1>2. Prune(u, h)[k] = Within(u[k], h)
  BY <1>1 DEF Prune
<1>3. WindowStart(h) = clock - h * Hour
  BY <1>1, FittingWindow
<1> QED BY <1>1, <1>2, <1>3, WithinKeeps

LEMMA WindowStep ==
  ASSUME RetentionsFit, Inv, [Next]_vars, NEW k \in Keys, NEW n \in Keys,
         Took(n), NEW s \in ToSet(mem'.uptime[k])
  PROVE  s.time >= clock - round.hours * Hour
<1>1. PICK up \in Results : AppendUptime(n, up)
  BY TookStep
<1> DEFINE u == Taken(mem.uptime, n, up)
<1>2. /\ clock \in Nat /\ round.hours \in Nat \ {0} /\ Fits(round.hours)
      /\ mem'.uptime = Prune(u, round.hours)
  BY <1>1, AppendDocument DEF RetentionsFit
<1>3. u \in Histories
  BY <1>2, TakenType, DocumentFacts DEF Inv, Typed
<1> HIDE DEF u
<1> QED BY <1>2, <1>3, PruneWindow

(***************************************************************************)
(* After any sample, no server, probed or not, has one that is older than  *)
(* the retention of the round: memory is bounded by the retention.         *)
(***************************************************************************)
THEOREM RetentionWindowHolds ==
  ASSUME RetentionsFit
  PROVE  Spec => WindowHolds
<1>1. Inv /\ [Next]_vars =>
        [\A k, n \in Keys : Took(n) =>
           \A s \in ToSet(mem'.uptime[k]) :
             s.time >= clock - round.hours * Hour]_vars
  BY WindowStep
<1> QED BY <1>1, InvHolds, PTL DEF Spec, WindowHolds

\* Older than a retention in force.
Expired(s, now) == \E h \in inForce : s.time < now - h * Hour

\* What the saved histories have and those in memory do not.
Lags(u, v, now) ==
  \A k \in Keys : \A s \in ToSet(u[k]) \ ToSet(v[k]) : Expired(s, now)

LagOK == running => Lags(Stored.uptime, mem.uptime, clock)

\* A retention is forgotten only when the file has what memory has.
LEMMA ForgetLags ==
  ASSUME Forget, running', Lags(Stored'.uptime, mem'.uptime, clock')
  PROVE  LagOK'
<1>1. CASE Settled'
  BY <1>1 DEF Settled, LagOK, Lags
<1>2. CASE ~Settled'
  BY <1>2 DEF Forget, LagOK, Lags, Expired
<1> QED BY <1>1, <1>2

LEMMA SamplesTimed ==
  ASSUME NEW u \in Histories, NEW k \in Keys, NEW s \in ToSet(u[k])
  PROVE  s.time \in Nat
<1>1. u[k] \in Seq(Sample)
  BY DEF Histories
<1>2. PICK i \in DOMAIN u[k] : s = u[k][i]
  BY DEF ToSet
<1>3. s \in Sample
  BY <1>1, <1>2
<1> QED BY <1>3 DEF Sample

LEMMA AppendLags ==
  ASSUME RetentionsFit, Inv, LagOK, NEW n \in Keys, NEW up \in Results,
         AppendUptime(n, up)
  PROVE  Lags(Stored.uptime, mem'.uptime, clock)
<1> DEFINE u == Taken(mem.uptime, n, up)
           h == round.hours
<1>1. /\ running /\ clock \in Nat /\ h \in Nat \ {0} /\ Fits(h)
      /\ h \in inForce /\ mem'.uptime = Prune(u, h)
  BY AppendDocument DEF RetentionsFit, AppendUptime, Inv, RoundOK
<1>2. u \in Histories /\ \A k \in Keys : ToSet(mem.uptime[k]) \subseteq ToSet(u[k])
  BY <1>1, TakenType, DocumentFacts DEF Inv, Typed
<1> HIDE DEF u, h
<1> SUFFICES ASSUME NEW k \in Keys, NEW s \in ToSet(Stored.uptime[k]),
                    s \notin ToSet(mem'.uptime[k])
             PROVE  Expired(s, clock)
  BY DEF Lags
<1>3. CASE s \in ToSet(u[k])
  <2>1. s.time \in Nat /\ h * Hour \in Nat
    BY <1>1, <1>2, <1>3, SamplesTimed, TimeAssumption
  <2>2. ~(s.time >= clock - h * Hour)
    BY <1>1, <1>2, <1>3, PruneWindow
  <2>3. s.time < clock - h * Hour
    BY <1>1, <2>1, <2>2
  <2> QED BY <1>1, <2>3 DEF Expired
<1>4. CASE s \notin ToSet(u[k])
  BY <1>1, <1>2, <1>4 DEF LagOK, Lags
<1> QED BY <1>3, <1>4

LEMMA LagStep == ASSUME RetentionsFit, Inv, LagOK, [Next]_vars PROVE LagOK'
<1>1. CASE Start
  <2>1. mem' = Stored /\ disk' = disk
    BY <1>1 DEF Start
  <2>2. mem' = Stored'
    BY <2>1 DEF Stored
  <2> QED BY <2>2 DEF LagOK, Lags
<1>2. CASE StartRound
  BY <1>2 DEF StartRound, LagOK, Lags, Stored, Expired
<1>3. ASSUME NEW k \in Keys, NEW up \in Results, AppendUptime(k, up)
      PROVE  LagOK'
  <2>1. Lags(Stored.uptime, mem'.uptime, clock)
    BY <1>3, AppendLags
  <2>2. /\ Stored' \in {mem', Stored} /\ clock' = clock
        /\ running' /\ Forget
    BY <1>3, AppendDocument, ChangeTyped DEF Inv, Change
  <2>3. \A v : Lags(v, v, clock)
    BY DEF Lags
  <2> QED BY <2>1, <2>2, <2>3, ForgetLags
<1>4. ASSUME NEW m \in Markers, SetLastSync(m) PROVE LagOK'
  <2> DEFINE d == [mem EXCEPT !.lastSync = m]
  <2>1. d \in Document /\ d.uptime = mem.uptime
    BY DEF Inv, Typed, Document
  <2>2. /\ Change(d) /\ Forget /\ mem' = d
        /\ clock' = clock /\ running /\ running'
    BY <1>4 DEF SetLastSync, Change
  <2>3. Ordered(d.uptime, clock)
    BY <2>1 DEF Inv, Typed
  <2> HIDE DEF d
  <2>4. Stored' \in {d, Stored}
    BY <2>1, <2>2, <2>3, ChangeTyped DEF Inv
  <2>5. Lags(Stored'.uptime, mem'.uptime, clock')
    BY <2>1, <2>2, <2>4 DEF LagOK, Lags
  <2> QED BY <2>2, <2>5, ForgetLags
<1>5. ASSUME NEW h \in Hours, NEW backup \in BOOLEAN, Configure(h, backup)
      PROVE  LagOK'
  BY <1>5 DEF Configure, LagOK, Lags, Stored, Expired
<1>6. CASE Tick
  <2>1. /\ clock' = clock + 1 /\ clock \in Nat
        /\ UNCHANGED <<running, mem, disk, inForce>>
        /\ inForce \subseteq Hours
    BY <1>6, TimeAssumption DEF Tick, Inv, Typed
  <2>2. Stored' = Stored /\ Stored.uptime \in Histories
    BY <2>1, DocumentFacts DEF Stored, Inv, Typed
  <2>3. ASSUME NEW k \in Keys, NEW s \in ToSet(Stored.uptime[k]),
               Expired(s, clock)
        PROVE  Expired(s, clock')
    <3>1. PICK h \in inForce : s.time < clock - h * Hour
      BY <2>3 DEF Expired
    <3>2. s.time \in Nat /\ h * Hour \in Nat
      BY <2>1, <2>2, SamplesTimed, TimeAssumption, HoursAssumption
    <3>3. s.time < clock' - h * Hour
      BY <2>1, <3>1, <3>2
    <3> QED BY <3>3 DEF Expired
  <2> QED BY <2>1, <2>2, <2>3 DEF LagOK, Lags, Expired
<1>7. CASE Crash
  BY <1>7 DEF Crash, LagOK
<1>8. CASE UNCHANGED vars
  BY <1>8 DEF vars, LagOK, Lags, Stored, Expired
<1> QED BY <1>1, <1>2, <1>3, <1>4, <1>5, <1>6, <1>7, <1>8 DEF Next

\* A save loses only what memory no longer has.
LEMMA SavedStep ==
  ASSUME RetentionsFit, Inv, LagOK, [Next]_vars, NEW k \in Keys,
         NEW s \in ToSet(Stored.uptime[k]) \ ToSet(Stored'.uptime[k])
  PROVE  Expired(s, clock)
<1>1. disk' # disk
  BY DEF Stored
<1>2. ~Start /\ ~StartRound /\ ~Tick /\ ~Crash /\ ~UNCHANGED vars
  BY <1>1 DEF Start, StartRound, Tick, Crash, vars
<1>3. \A h \in Hours, backup \in BOOLEAN : ~Configure(h, backup)
  BY <1>1 DEF Configure
<1>4. ASSUME NEW n \in Keys, NEW up \in Results, AppendUptime(n, up)
      PROVE  Expired(s, clock)
  <2>1. Lags(Stored.uptime, mem'.uptime, clock)
    BY <1>4, AppendLags
  <2>2. Stored' \in {mem', Stored}
    BY <1>4, AppendDocument, ChangeTyped DEF Inv
  <2> QED BY <2>1, <2>2 DEF Lags
<1>5. ASSUME NEW m \in Markers, SetLastSync(m) PROVE Expired(s, clock)
  <2> DEFINE d == [mem EXCEPT !.lastSync = m]
  <2>1. d \in Document /\ d.uptime = mem.uptime
    BY DEF Inv, Typed, Document
  <2>2. Change(d) /\ Forget /\ running
    BY <1>5 DEF SetLastSync, Change
  <2>3. Ordered(d.uptime, clock)
    BY <2>1 DEF Inv, Typed
  <2> HIDE DEF d
  <2>4. Stored' \in {d, Stored}
    BY <2>1, <2>2, <2>3, ChangeTyped DEF Inv
  <2> QED BY <2>1, <2>2, <2>4 DEF LagOK, Lags
<1> QED BY <1>2, <1>3, <1>4, <1>5 DEF Next

(***************************************************************************)
(* A saved sample leaves the file only when it is older than the retention *)
(* of the round under way, or of one since memory got ahead of the file,   *)
(* whatever crashes, restarts and failed saves come between: what memory   *)
(* lacks of the file has expired.                                          *)
(***************************************************************************)
THEOREM SavedSamplesSurvive ==
  ASSUME RetentionsFit
  PROVE  Spec => SavedSamplesStay
<1>1. Init => LagOK
  BY DEF Init, LagOK
<1>2. Inv /\ LagOK /\ [Next]_vars => LagOK'
  BY LagStep
<1>3. Inv /\ LagOK /\ [Next]_vars =>
        [\A k \in Keys : \A s \in ToSet(Stored.uptime[k]) \
                                  ToSet(Stored'.uptime[k]) :
           \E h \in inForce : s.time < clock - h * Hour]_vars
  BY SavedStep DEF Expired
<1> QED BY <1>1, <1>2, <1>3, InvHolds, PTL DEF Spec, SavedSamplesStay

-----------------------------------------------------------------------------
(* The last bar.                                                           *)

LEMMA QuotientAndRest ==
  ASSUME NEW a \in Int, NEW m \in Int, m > 0
  PROVE  a = m * (a \div m) + (a % m)
  BY SMTT(30)

LEMMA Division ==
  ASSUME NEW a \in Nat, NEW m \in Nat \ {0}
  PROVE  /\ a \div m \in Nat /\ a % m \in Nat /\ a % m < m
         /\ a = m * (a \div m) + (a % m)
<1>1. a = m * (a \div m) + (a % m)
  BY QuotientAndRest
<1>2. a \div m \in Nat
  OBVIOUS
<1>3. a % m \in 0 .. m - 1
  OBVIOUS
<1>4. a % m \in Nat /\ a % m < m
  BY <1>3
<1> QED BY <1>1, <1>2, <1>4

LEMMA Multiple ==
  ASSUME NEW q \in Int, NEW m \in Nat \ {0}
  PROVE  (q * m) % m = 0
  BY SMTT(30)

\* What the last bar may show is at most one bar's share of samples away from
\* the newest of them.
LEMMA LastBar ==
  ASSUME NEW n \in Nat \ {0}, NEW m \in Nat \ {0},
         NEW last \in BarShows(IF n < m THEN n ELSE m, n, m)
  PROVE  (n - last) * m < n
<1>1. CASE n <= m
  <2>1. last = n
    BY <1>1 DEF BarShows
  <2> QED BY <2>1
<1>2. CASE n > m
  <2> DEFINE a == (m - 1) * n
             q == a \div m
             r == a % m
  <2>1. a \in Nat
    OBVIOUS
  <2>2. q \in Nat /\ r \in Nat /\ r < m /\ a = m * q + r
    BY <2>1, Division
  <2>3. BarShows(m, n, m) =
          IF m > 1 /\ n % m # 0 /\ r = 0 THEN {q, q + 1} ELSE {q + 1}
    BY <1>2 DEF BarShows
  <2>4. a = m * n - n
    OBVIOUS
  <2> HIDE DEF a, q, r
  <2>5. (n - (q + 1)) * m = m * n - m * q - m
    BY <2>2
  <2>6. m * n \in Int /\ m * q \in Int
    BY <2>2
  <2>7. (n - (q + 1)) * m < n
    BY <2>2, <2>4, <2>5, <2>6
  <2>8. r = 0 => n % m = 0
    <3> SUFFICES ASSUME r = 0 PROVE n % m = 0
      OBVIOUS
    <3>1. n = m * n - m * q
      BY <2>2, <2>4, <2>6
    <3>2. (n - q) * m = m * n - m * q
      BY <2>2
    <3>3. ((n - q) * m) % m = 0
      BY <2>2, Multiple
    <3> QED BY <3>1, <3>2, <3>3
  <2>9. last = q + 1
    BY <1>2, <2>3, <2>8
  <2> QED BY <2>7, <2>9
<1> QED BY <1>1, <1>2

\* A window that fits does not lose a sample of the moment.
LEMMA NewestWithin ==
  ASSUME clock \in Nat, NEW h \in Nat, Fits(h), NEW samples \in Seq(Sample),
         samples # <<>>, Last(samples).time = clock
  PROVE  /\ Within(samples, h) \in Seq(Sample)
         /\ Within(samples, h) # <<>>
         /\ Last(Within(samples, h)).time = clock
<1>1. WindowStart(h) = IF h <= 0 THEN 0 ELSE clock - h * Hour
  BY FittingWindow
<1>2. h * Hour \in Nat
  BY TimeAssumption
<1>3. clock >= WindowStart(h)
  BY <1>1, <1>2
<1> QED BY <1>3, WithinKeeps

LEMMA NewestStep ==
  ASSUME RetentionsFit, Inv, [Next]_vars, NEW k \in Keys, Took(k)
  PROVE  /\ History(k, cfg.hours)' \in Seq(Sample)
         /\ History(k, cfg.hours)' # <<>>
         /\ Last(History(k, cfg.hours)').time = clock
         /\ cfg' = cfg
<1>1. PICK up \in Results : AppendUptime(k, up)
  BY TookStep
<1> DEFINE u == Taken(mem.uptime, k, up)
           h == round.hours
<1>2. /\ clock \in Nat /\ h \in Hours /\ h \in Nat \ {0}
      /\ mem' \in Document /\ mem'.uptime = Prune(u, h)
  BY <1>1, AppendDocument
<1>3. u \in Histories /\ u[k] # <<>> /\ Last(u[k]).time = clock
  BY <1>2, TakenType, DocumentFacts DEF Inv, Typed
<1>4. clock' = clock /\ cfg' = cfg
  BY <1>1 DEF AppendUptime, Change
<1> HIDE DEF u, h
<1>5. /\ mem'.uptime[k] = Within(u[k], h) /\ u[k] \in Seq(Sample)
  BY <1>2, <1>3 DEF Prune, Histories
<1> DEFINE now == mem'.uptime[k]
<1>6. now \in Seq(Sample) /\ now # <<>> /\ Last(now).time = clock
  BY <1>2, <1>3, <1>5, NewestWithin DEF RetentionsFit
<1>7. cfg.hours \in Nat /\ Fits(cfg.hours)
  BY HoursAssumption DEF Inv, Typed, RetentionsFit
<1>8. History(k, cfg.hours)' = Within(now, cfg.hours)
  BY <1>4 DEF History, Within, WindowStart
<1> HIDE DEF now
<1> QED BY <1>2, <1>4, <1>6, <1>7, <1>8, NewestWithin

LEMMA BarsStep ==
  ASSUME RetentionsFit, Inv, [Next]_vars, NEW k \in Keys, Took(k)
  PROVE  LET n == Len(History(k, cfg.hours)')
         IN \A last \in Last(Bars(k)') :
              (n - last) * SegMax[cfg.backup] < n
<1> DEFINE shown == History(k, cfg.hours)'
           n == Len(shown)
           m == SegMax[cfg.backup]
           b == IF n < m THEN n ELSE m
<1>1. shown \in Seq(Sample) /\ shown # <<>> /\ cfg' = cfg
  BY NewestStep
<1>2. n \in Nat \ {0}
  <2> HIDE DEF shown
  <2> QED BY <1>1
<1>3. m \in Nat \ {0}
  BY SegMaxAssumption DEF Inv, Typed
<1>4. Bars(k)' = [i \in 1 .. b |-> BarShows(i, n, m)]
  BY <1>1 DEF Bars, BarShows
<1> HIDE DEF shown, n, m
<1>5. Last(Bars(k)') = BarShows(b, n, m)
  <2> DEFINE bars == [i \in 1 .. b |-> BarShows(i, n, m)]
  <2>1. b \in Nat \ {0}
    BY <1>2, <1>3
  <2> HIDE DEF b
  <2>2. Len(bars) = b /\ bars[b] = BarShows(b, n, m)
    BY <2>1
  <2> HIDE DEF bars
  <2>3. Last(bars) = BarShows(b, n, m)
    BY <2>2 DEF Last
  <2> QED BY <1>4, <2>3 DEF bars
<1>6. \A last \in BarShows(b, n, m) : (n - last) * m < n
  BY <1>2, <1>3, LastBar
<1> QED BY <1>5, <1>6 DEF n, m, shown

(***************************************************************************)
(* The newest sample of a server is on its dashboard at once: the loops of *)
(* prune and History keep it, for any two retentions, and the last bar     *)
(* shows it or one of the last n/m of n samples, for any number m of bars, *)
(* rounding included.                                                      *)
(***************************************************************************)
THEOREM NewestSampleIsShown ==
  ASSUME RetentionsFit
  PROVE  Spec => NewestIsShown
<1>1. Inv /\ [Next]_vars =>
        [\A k \in Keys : Took(k) =>
           LET shown == History(k, cfg.hours)'
               n     == Len(shown)
           IN /\ shown # <<>> /\ Last(shown).time = clock
              /\ \A last \in Last(Bars(k)') :
                   (n - last) * SegMax[cfg.backup] < n]_vars
  BY NewestStep, BarsStep
<1> QED BY <1>1, InvHolds, PTL DEF Spec, NewestIsShown

=============================================================================
