-------------------------- MODULE RuleLinesProofs --------------------------
(***************************************************************************)
(* Proofs about the rule text and the lists of rules, for lists of any     *)
(* length and lines of any tokens.                                         *)
(***************************************************************************)
EXTENDS RuleLines, SequenceTheorems, FiniteSetTheorems, TLAPS,
        WellFoundedInduction

-----------------------------------------------------------------------------
(* Induction, in the form of a set, over numbers and over sequences.       *)

LEMMA LeastElement ==
  ASSUME NEW T \in SUBSET Nat, T # {}
  PROVE  \E x \in T : \A y \in T : x <= y
<1>1. PICK x \in T : \A y \in T : ~(<<y, x>> \in OpToRel(<, Nat))
  BY NatLessThanWellFounded, WFMin
<1>2. \A y \in T : ~(y < x)
  BY <1>1 DEF OpToRel
<1> QED BY <1>2

LEMMA Induction ==
  ASSUME NEW P, 0 \in P, \A n \in Nat : n \in P => n + 1 \in P
  PROVE  Nat \subseteq P
<1> DEFINE T == {n \in Nat : n \notin P}
<1> SUFFICES ASSUME T # {} PROVE FALSE
  OBVIOUS
<1>1. PICK x \in T : \A y \in T : x <= y
  BY LeastElement
<1>2. x # 0 /\ x - 1 \in Nat /\ x - 1 \notin T
  BY <1>1
<1> QED BY <1>1, <1>2

LEMMA SeqInduction ==
  ASSUME NEW T, NEW P, <<>> \in P,
         \A s \in Seq(T), x \in T : s \in P => Append(s, x) \in P
  PROVE  Seq(T) \subseteq P
<1> DEFINE Q == {n \in Nat : \A s \in Seq(T) : Len(s) = n => s \in P}
<1>1. 0 \in Q
  BY EmptySeq
<1>2. ASSUME NEW n \in Nat, n \in Q PROVE n + 1 \in Q
  <2> SUFFICES ASSUME NEW s \in Seq(T), Len(s) = n + 1 PROVE s \in P
    OBVIOUS
  <2>1. s # <<>>
    BY EmptySeq
  <2>2. PICK t \in Seq(T), x \in T : s = Append(t, x)
    BY <2>1, SequenceEmptyOrAppend
  <2>3. Len(t) = n
    <3>1. Len(s) = Len(t) + 1 /\ Len(t) \in Nat
      BY <2>2, AppendProperties, LenProperties
    <3> QED BY <3>1
  <2> QED BY <1>2, <2>2, <2>3
<1> HIDE DEF Q
<1>3. Nat \subseteq Q
  BY <1>1, <1>2, Induction
<1> SUFFICES ASSUME NEW s \in Seq(T) PROVE s \in P
  OBVIOUS
<1>4. Len(s) \in Nat
  BY LenProperties
<1> QED BY <1>3, <1>4 DEF Q

-----------------------------------------------------------------------------
(* The loop that keeps some elements of a list.                            *)

\* What the loop has kept after each of its turns.
Loop(f, s, W) ==
  /\ f = [n \in 0 .. Len(s) |-> f[n]]
  /\ f[0] = <<>>
  /\ \A n \in 1 .. Len(s) :
       f[n] = IF s[n] \in W THEN Append(f[n - 1], s[n]) ELSE f[n - 1]

LEMMA LoopExists ==
  ASSUME NEW T, NEW W, NEW s \in Seq(T)
  PROVE  \E f : Loop(f, s, W)
<1> DEFINE P == {r \in Seq(T) : \E f : Loop(f, r, W)}
<1>1. <<>> \in P
  <2> DEFINE f == [n \in 0 .. 0 |-> <<>>]
  <2>1. <<>> \in Seq(T) /\ Len(<<>>) = 0
    BY EmptySeq
  <2>2. f = [n \in 0 .. 0 |-> f[n]] /\ f[0] = <<>>
    OBVIOUS
  <2> HIDE DEF f
  <2>3. Loop(f, <<>>, W)
    BY <2>1, <2>2 DEF Loop
  <2> QED BY <2>1, <2>3
<1>2. ASSUME NEW r \in Seq(T), NEW x \in T, r \in P
      PROVE  Append(r, x) \in P
  <2> DEFINE a == Append(r, x)
             N == Len(r)
  <2>1. /\ N \in Nat /\ a \in Seq(T) /\ Len(a) = N + 1
        /\ \A i \in 1 .. N : a[i] = r[i]
        /\ a[N + 1] = x
    BY AppendProperties, LenProperties
  <2>2. PICK f : Loop(f, r, W)
    BY <1>2
  <2> HIDE DEF a, N
  <2> DEFINE g == [n \in 0 .. N + 1 |->
                     IF n <= N THEN f[n]
                     ELSE IF x \in W THEN Append(f[N], x) ELSE f[N]]
  <2>3. /\ g = [n \in 0 .. N + 1 |-> g[n]]
        /\ \A n \in 0 .. N : g[n] = f[n]
        /\ g[N + 1] = IF x \in W THEN Append(g[N], x) ELSE g[N]
    BY <2>1
  <2> HIDE DEF g
  <2>4. g[0] = <<>>
    <3>1. 0 \in 0 .. N /\ f[0] = <<>>
      BY <2>1, <2>2 DEF Loop
    <3> QED BY <2>3, <3>1
  <2>5. ASSUME NEW n \in 1 .. N + 1
        PROVE  g[n] = IF a[n] \in W THEN Append(g[n - 1], a[n]) ELSE g[n - 1]
    <3>1. CASE n = N + 1
      BY <2>1, <2>3, <3>1
    <3>2. CASE n # N + 1
      <4>1. n \in 1 .. N /\ n - 1 \in 0 .. N /\ n \in 0 .. N
        BY <2>1, <3>2
      <4>2. f[n] = IF r[n] \in W THEN Append(f[n - 1], r[n]) ELSE f[n - 1]
        BY <2>2, <4>1 DEF Loop, N
      <4> QED BY <2>1, <2>3, <4>1, <4>2
    <3> QED BY <3>1, <3>2
  <2>6. Loop(g, a, W)
    BY <2>1, <2>3, <2>4, <2>5 DEF Loop
  <2> QED BY <2>1, <2>6 DEF a
<1> HIDE DEF P
<1>3. Seq(T) \subseteq P
  BY <1>1, <1>2, SeqInduction
<1> QED BY <1>3 DEF P

LEMMA KeepLoop ==
  ASSUME NEW T, NEW W, NEW s \in Seq(T)
  PROVE  \E f : Loop(f, s, W) /\ Keep(s, W) = f[Len(s)]
<1> DEFINE N == Len(s)
           body(f, n) == IF n = 0 THEN <<>>
                         ELSE IF s[n] \in W THEN Append(f[n - 1], s[n])
                         ELSE f[n - 1]
           K == CHOOSE f : f = [n \in 0 .. N |-> body(f, n)]
<1>1. Keep(s, W) = K[N]
  BY DEF Keep
<1>2. PICK g : Loop(g, s, W)
  BY LoopExists
<1>3. N \in Nat
  BY LenProperties
<1>4. ASSUME NEW n \in 0 .. N PROVE g[n] = body(g, n)
  <2>1. CASE n = 0
    BY <1>2, <2>1 DEF Loop
  <2>2. CASE n # 0
    <3>1. n \in 1 .. N
      BY <1>3, <2>2
    <3> QED BY <1>2, <2>2, <3>1 DEF Loop
  <2> QED BY <2>1, <2>2
<1>5. g = [n \in 0 .. N |-> g[n]]
  BY <1>2 DEF Loop
<1> HIDE DEF body
<1>6. g = [n \in 0 .. N |-> body(g, n)]
  BY <1>4, <1>5
<1>7. K = [n \in 0 .. N |-> body(K, n)]
  BY <1>6
<1> HIDE DEF K
<1>8. \A n \in 0 .. N : K[n] = body(K, n)
  BY <1>7
<1>9. K = [n \in 0 .. N |-> K[n]]
  BY <1>7, <1>8
<1> HIDE DEF N
<1>10. Loop(K, s, W)
  <2>1. K[0] = <<>>
    BY <1>3, <1>8 DEF body
  <2>2. \A n \in 1 .. N : n \in 0 .. N /\ n # 0
    BY <1>3
  <2>3. \A n \in 1 .. N :
          K[n] = IF s[n] \in W THEN Append(K[n - 1], s[n]) ELSE K[n - 1]
    BY <1>8, <2>2 DEF body
  <2> QED BY <1>9, <2>1, <2>3 DEF Loop, N
<1> QED BY <1>1, <1>10 DEF N

LEMMA KeepEmpty == \A W : Keep(<<>>, W) = <<>>
<1> SUFFICES ASSUME NEW W PROVE Keep(<<>>, W) = <<>>
  OBVIOUS
<1>1. <<>> \in Seq({}) /\ Len(<<>>) = 0
  BY EmptySeq
<1>2. PICK f : Loop(f, <<>>, W) /\ Keep(<<>>, W) = f[Len(<<>>)]
  BY <1>1, KeepLoop
<1> QED BY <1>1, <1>2 DEF Loop

LEMMA KeepAppend ==
  ASSUME NEW T, NEW W, NEW s \in Seq(T), NEW x \in T
  PROVE  Keep(Append(s, x), W) =
           IF x \in W THEN Append(Keep(s, W), x) ELSE Keep(s, W)
<1> DEFINE a == Append(s, x)
           N == Len(s)
<1>1. /\ N \in Nat /\ a \in Seq(T) /\ Len(a) = N + 1
      /\ \A i \in 1 .. N : a[i] = s[i]
      /\ a[N + 1] = x
  BY AppendProperties, LenProperties
<1>2. PICK f : Loop(f, s, W) /\ Keep(s, W) = f[N]
  BY KeepLoop
<1> HIDE DEF a, N
<1>3. PICK g : Loop(g, a, W) /\ Keep(a, W) = g[N + 1]
  BY <1>1, KeepLoop
<1>4. /\ f[0] = <<>> /\ g[0] = <<>>
      /\ \A n \in 1 .. N :
           f[n] = IF s[n] \in W THEN Append(f[n - 1], s[n]) ELSE f[n - 1]
      /\ \A n \in 1 .. N + 1 :
           g[n] = IF a[n] \in W THEN Append(g[n - 1], a[n]) ELSE g[n - 1]
  BY <1>1, <1>2, <1>3 DEF Loop, N
<1> DEFINE Q == {n \in Nat : n <= N => f[n] = g[n]}
<1>5. 0 \in Q
  BY <1>4
<1>6. ASSUME NEW n \in Nat, n \in Q PROVE n + 1 \in Q
  <2> SUFFICES ASSUME n + 1 <= N PROVE f[n + 1] = g[n + 1]
    OBVIOUS
  <2>1. n + 1 \in 1 .. N /\ n + 1 \in 1 .. N + 1 /\ (n + 1) - 1 = n
    BY <1>1
  <2>2. f[n] = g[n] /\ a[n + 1] = s[n + 1]
    BY <1>1, <1>6, <2>1
  <2> QED BY <1>4, <2>1, <2>2
<1> HIDE DEF Q
<1>7. Nat \subseteq Q
  BY <1>5, <1>6, Induction
<1>8. f[N] = g[N]
  BY <1>1, <1>7 DEF Q
<1>9. N + 1 \in 1 .. N + 1 /\ (N + 1) - 1 = N
  BY <1>1
<1>10. g[N + 1] = IF x \in W THEN Append(g[N], x) ELSE g[N]
  BY <1>1, <1>4, <1>9
<1> QED BY <1>2, <1>3, <1>8, <1>10 DEF a

LEMMA AppendElements ==
  ASSUME NEW T, NEW s \in Seq(T), NEW x \in T
  PROVE  ToSet(Append(s, x)) = ToSet(s) \cup {x}
<1> DEFINE a == Append(s, x)
           N == Len(s)
<1>1. /\ N \in Nat /\ DOMAIN s = 1 .. N /\ DOMAIN a = 1 .. N + 1
      /\ \A i \in 1 .. N : a[i] = s[i]
      /\ a[N + 1] = x
  BY AppendProperties, LenProperties
<1> HIDE DEF a, N
<1>2. \A i \in 1 .. N + 1 : i \in 1 .. N \/ i = N + 1
  BY <1>1
<1>3. \A i \in 1 .. N : i \in 1 .. N + 1
  BY <1>1
<1>4. N + 1 \in 1 .. N + 1
  BY <1>1
<1>5. ToSet(a) = ToSet(s) \cup {x}
  BY <1>1, <1>2, <1>3, <1>4 DEF ToSet
<1> QED BY <1>5 DEF a

LEMMA ElementsOfSeq ==
  ASSUME NEW T, NEW s \in Seq(T)
  PROVE  ToSet(s) \subseteq T
  BY LenProperties, ElementOfSeq DEF ToSet

LEMMA ConcatAppend ==
  ASSUME NEW T, NEW s \in Seq(T), NEW t \in Seq(T), NEW x \in T
  PROVE  s \o Append(t, x) = Append(s \o t, x)
<1>1. <<x>> \in Seq(T)
  OBVIOUS
<1>2. Append(t, x) = t \o <<x>> /\ s \o t \in Seq(T)
  BY AppendIsConcat, ConcatProperties
<1>3. Append(s \o t, x) = (s \o t) \o <<x>>
  BY <1>2, AppendIsConcat
<1> QED BY <1>1, <1>2, <1>3, ConcatAssociative

LEMMA KeepType ==
  ASSUME NEW T, NEW W, NEW s \in Seq(T)
  PROVE  /\ Keep(s, W) \in Seq(T \cap W) /\ Keep(s, W) \in Seq(T)
         /\ ToSet(Keep(s, W)) = ToSet(s) \cap W
<1> DEFINE P == {r \in Seq(T) : /\ Keep(r, W) \in Seq(T \cap W)
                                /\ ToSet(Keep(r, W)) = ToSet(r) \cap W}
<1>1. <<>> \in P
  <2>1. <<>> \in Seq(T) /\ <<>> \in Seq(T \cap W)
    BY EmptySeq
  <2>2. ToSet(<<>>) = {}
    BY DEF ToSet
  <2> QED BY <2>1, <2>2, KeepEmpty
<1>2. ASSUME NEW r \in Seq(T), NEW x \in T, r \in P
      PROVE  Append(r, x) \in P
  <2> DEFINE k == Keep(r, W)
  <2>1. k \in Seq(T \cap W) /\ ToSet(k) = ToSet(r) \cap W
    BY <1>2
  <2>2. /\ Append(r, x) \in Seq(T) /\ ToSet(Append(r, x)) = ToSet(r) \cup {x}
        /\ Keep(Append(r, x), W) = IF x \in W THEN Append(k, x) ELSE k
    BY AppendProperties, AppendElements, KeepAppend
  <2> HIDE DEF k
  <2>3. CASE x \in W
    <3>1. x \in T \cap W
      BY <2>3
    <3>2. /\ Append(k, x) \in Seq(T \cap W)
          /\ ToSet(Append(k, x)) = ToSet(k) \cup {x}
      BY <2>1, <3>1, AppendProperties, AppendElements
    <3> QED BY <2>1, <2>2, <2>3, <3>2
  <2>4. CASE x \notin W
    BY <2>1, <2>2, <2>4
  <2> QED BY <2>3, <2>4
<1> HIDE DEF P
<1>3. s \in P
  BY <1>1, <1>2, SeqInduction
<1>4. Keep(s, W) \in Seq(T \cap W) /\ ToSet(Keep(s, W)) = ToSet(s) \cap W
  BY <1>3 DEF P
<1> QED BY <1>4, SeqMonotonic

LEMMA KeepConcat ==
  ASSUME NEW T, NEW W, NEW s \in Seq(T), NEW t \in Seq(T)
  PROVE  Keep(s \o t, W) = Keep(s, W) \o Keep(t, W)
<1> DEFINE P == {r \in Seq(T) : Keep(s \o r, W) = Keep(s, W) \o Keep(r, W)}
<1>1. <<>> \in P
  <2>1. <<>> \in Seq(T) /\ s \o <<>> = s
    BY EmptySeq, ConcatEmptySeq
  <2>2. Keep(s, W) \o <<>> = Keep(s, W)
    BY KeepType, ConcatEmptySeq
  <2> QED BY <2>1, <2>2, KeepEmpty
<1>2. ASSUME NEW r \in Seq(T), NEW x \in T, r \in P
      PROVE  Append(r, x) \in P
  <2> DEFINE ks == Keep(s, W)
             kr == Keep(r, W)
  <2>1. ks \in Seq(T) /\ kr \in Seq(T)
    BY KeepType
  <2>2. /\ Append(r, x) \in Seq(T) /\ s \o r \in Seq(T)
        /\ s \o Append(r, x) = Append(s \o r, x)
    BY AppendProperties, ConcatProperties, ConcatAppend
  <2>3. \A q \in Seq(T) : Keep(Append(q, x), W) =
          IF x \in W THEN Append(Keep(q, W), x) ELSE Keep(q, W)
    BY KeepAppend
  <2>4. Keep(s \o r, W) = ks \o kr
    BY <1>2
  <2>5. ks \o Append(kr, x) = Append(ks \o kr, x)
    BY <2>1, ConcatAppend
  <2>6. /\ Keep(Append(r, x), W) = IF x \in W THEN Append(kr, x) ELSE kr
        /\ Keep(s \o Append(r, x), W) =
             IF x \in W THEN Append(ks \o kr, x) ELSE ks \o kr
    BY <2>2, <2>3, <2>4
  <2>7. Keep(s \o Append(r, x), W) = ks \o Keep(Append(r, x), W)
    BY <2>5, <2>6
  <2> QED BY <2>2, <2>7 DEF ks
<1> HIDE DEF P
<1>3. t \in P
  BY <1>1, <1>2, SeqInduction
<1> QED BY <1>3 DEF P

\* To keep some of those kept is to keep those that both keep.
LEMMA KeepTwice ==
  ASSUME NEW T, NEW W, NEW V, NEW U, NEW s \in Seq(T),
         \A x \in T : x \in W /\ x \in V <=> x \in U
  PROVE  Keep(Keep(s, W), V) = Keep(s, U)
<1> DEFINE P == {r \in Seq(T) : Keep(Keep(r, W), V) = Keep(r, U)}
<1>1. <<>> \in P
  BY EmptySeq, KeepEmpty
<1>2. ASSUME NEW r \in Seq(T), NEW x \in T, r \in P
      PROVE  Append(r, x) \in P
  <2> DEFINE k == Keep(r, W)
  <2>1. k \in Seq(T) /\ Append(r, x) \in Seq(T)
    BY KeepType, AppendProperties
  <2>2. /\ Keep(Append(r, x), W) = IF x \in W THEN Append(k, x) ELSE k
        /\ Keep(Append(r, x), U) =
             IF x \in U THEN Append(Keep(r, U), x) ELSE Keep(r, U)
        /\ Keep(Append(k, x), V) =
             IF x \in V THEN Append(Keep(k, V), x) ELSE Keep(k, V)
    BY <2>1, KeepAppend
  <2>3. Keep(k, V) = Keep(r, U)
    BY <1>2
  <2> HIDE DEF k
  <2>4. x \in W /\ x \in V <=> x \in U
    OBVIOUS
  <2>5. CASE x \in W
    BY <2>1, <2>2, <2>3, <2>4, <2>5
  <2>6. CASE x \notin W
    BY <2>1, <2>2, <2>3, <2>4, <2>6
  <2> QED BY <2>5, <2>6
<1> HIDE DEF P
<1>3. s \in P
  BY <1>1, <1>2, SeqInduction
<1> QED BY <1>3 DEF P

LEMMA KeepAll ==
  ASSUME NEW T, NEW W, NEW s \in Seq(T), T \subseteq W
  PROVE  Keep(s, W) = s
<1> DEFINE P == {r \in Seq(T) : Keep(r, W) = r}
<1>1. <<>> \in P
  BY EmptySeq, KeepEmpty
<1>2. ASSUME NEW r \in Seq(T), NEW x \in T, r \in P
      PROVE  Append(r, x) \in P
  BY <1>2, KeepAppend, AppendProperties
<1> HIDE DEF P
<1>3. s \in P
  BY <1>1, <1>2, SeqInduction
<1> QED BY <1>3 DEF P

LEMMA KeepNone ==
  ASSUME NEW T, NEW W, NEW s \in Seq(T), T \cap W = {}
  PROVE  Keep(s, W) = <<>>
<1> DEFINE P == {r \in Seq(T) : Keep(r, W) = <<>>}
<1>1. <<>> \in P
  BY EmptySeq, KeepEmpty
<1>2. ASSUME NEW r \in Seq(T), NEW x \in T, r \in P
      PROVE  Append(r, x) \in P
  BY <1>2, KeepAppend, AppendProperties
<1> HIDE DEF P
<1>3. s \in P
  BY <1>1, <1>2, SeqInduction
<1> QED BY <1>3 DEF P

-----------------------------------------------------------------------------
(* Texts: positions, cuts and trims.                                       *)

LEMMA MinIs ==
  ASSUME NEW I \in SUBSET Nat, I # {}
  PROVE  Min(I) \in I /\ \A y \in I : Min(I) <= y
  BY LeastElement DEF Min

LEMMA MaxIs ==
  ASSUME NEW N \in Nat, NEW I \in SUBSET (0 .. N), I # {}
  PROVE  Max(I) \in I /\ \A y \in I : y <= Max(I)
<1> DEFINE J == {N - i : i \in I}
<1>1. J \in SUBSET Nat /\ J # {}
  OBVIOUS
<1>2. PICK j \in J : \A y \in J : j <= y
  BY <1>1, LeastElement
<1>3. PICK i \in I : j = N - i
  BY <1>2
<1>4. \A y \in I : y <= i
  <2> TAKE y \in I
  <2>1. N - y \in J
    OBVIOUS
  <2>2. N - i <= N - y
    BY <1>2, <1>3, <2>1
  <2> QED BY <2>2
<1> HIDE DEF J
<1>5. \E x \in I : \A y \in I : x >= y
  BY <1>4
<1>6. Max(I) \in I /\ \A y \in I : Max(I) >= y
  BY <1>5 DEF Max
<1> QED BY <1>6

\* The first place of a separator, and 0 when it has none.
First(s, sep) == SelectInSeq(s, LAMBDA t : t = sep)

LEMMA FirstIs ==
  ASSUME NEW T, NEW s \in Seq(T), NEW sep
  PROVE  \/ /\ First(s, sep) \in 1 .. Len(s) /\ s[First(s, sep)] = sep
            /\ \A i \in 1 .. First(s, sep) - 1 : s[i] # sep
         \/ First(s, sep) = 0 /\ sep \notin ToSet(s)
<1> DEFINE I == {i \in 1 .. Len(s) : s[i] = sep}
<1>1. First(s, sep) = IF I # {} THEN Min(I) ELSE 0
  BY DEF First, SelectInSeq
<1>2. Len(s) \in Nat /\ DOMAIN s = 1 .. Len(s)
  BY LenProperties
<1>3. CASE I # {}
  <2>1. I \in SUBSET Nat
    BY <1>2
  <2>2. First(s, sep) \in I /\ \A i \in I : First(s, sep) <= i
    BY <1>1, <1>3, <2>1, MinIs
  <2>3. \A i \in 1 .. First(s, sep) - 1 : i \in 1 .. Len(s) /\ i \notin I
    BY <1>2, <2>2
  <2> QED BY <2>2, <2>3
<1>4. CASE I = {}
  BY <1>1, <1>2, <1>4 DEF ToSet
<1> QED BY <1>3, <1>4

LEMMA CutsAre ==
  ASSUME NEW s, NEW sep
  PROVE  /\ Before(s, sep) = SubSeq(s, 1, First(s, sep) - 1)
         /\ After(s, sep) = SubSeq(s, First(s, sep) + 1, Len(s))
  BY DEF Before, After, First, SelectInSeq

\* A part of a text.
LEMMA PartIs ==
  ASSUME NEW T, NEW s \in Seq(T), NEW m \in Nat \ {0}, NEW n \in Int,
         n <= Len(s)
  PROVE  /\ SubSeq(s, m, n) \in Seq(T)
         /\ Len(SubSeq(s, m, n)) = IF m <= n THEN n - m + 1 ELSE 0
         /\ \A i \in 1 .. n - m + 1 : SubSeq(s, m, n)[i] = s[m + i - 1]
         /\ ToSet(SubSeq(s, m, n)) \subseteq ToSet(s)
<1> DEFINE p == SubSeq(s, m, n)
<1>1. Len(s) \in Nat /\ DOMAIN s = 1 .. Len(s)
  BY LenProperties
<1>2. \A i \in m .. n : i \in 1 .. Len(s) /\ s[i] \in T
  BY <1>1, ElementOfSeq
<1>3. /\ p \in Seq(T)
      /\ Len(p) = IF m <= n THEN n - m + 1 ELSE 0
      /\ \A i \in 1 .. n - m + 1 : p[i] = s[m + i - 1]
  BY <1>2, SubSeqProperties
<1> HIDE DEF p
<1>4. DOMAIN p = 1 .. Len(p)
  BY <1>3, LenProperties
<1>5. \A i \in 1 .. Len(p) : p[i] = s[m + i - 1] /\ m + i - 1 \in 1 .. Len(s)
  BY <1>1, <1>3
<1>6. ToSet(p) \subseteq ToSet(s)
  BY <1>1, <1>4, <1>5 DEF ToSet
<1> QED BY <1>3, <1>6 DEF p

LEMMA CutKeeps ==
  ASSUME NEW T, NEW s \in Seq(T), NEW sep
  PROVE  /\ Before(s, sep) \in Seq(T) /\ After(s, sep) \in Seq(T)
         /\ sep \notin ToSet(Before(s, sep))
         /\ ToSet(Before(s, sep)) \subseteq ToSet(s)
         /\ ToSet(After(s, sep)) \subseteq ToSet(s)
<1> DEFINE f == First(s, sep)
<1>1. Len(s) \in Nat /\ DOMAIN s = 1 .. Len(s)
  BY LenProperties
<1>2. f \in 0 .. Len(s) /\ \A i \in 1 .. f - 1 : s[i] # sep
  BY <1>1, FirstIs
<1>3. /\ Before(s, sep) = SubSeq(s, 1, f - 1)
      /\ After(s, sep) = SubSeq(s, f + 1, Len(s))
  BY CutsAre
<1> HIDE DEF f
<1>4. /\ f + 1 \in Nat \ {0} /\ Len(s) \in Int /\ Len(s) <= Len(s)
      /\ 1 \in Nat \ {0} /\ f - 1 \in Int /\ f - 1 <= Len(s)
  BY <1>1, <1>2
<1> DEFINE b == SubSeq(s, 1, f - 1)
<1>5. /\ b \in Seq(T) /\ ToSet(b) \subseteq ToSet(s)
      /\ Len(b) = IF 1 <= f - 1 THEN (f - 1) - 1 + 1 ELSE 0
      /\ \A i \in 1 .. (f - 1) - 1 + 1 : b[i] = s[1 + i - 1]
  BY <1>4, PartIs
<1>6. /\ SubSeq(s, f + 1, Len(s)) \in Seq(T)
      /\ ToSet(SubSeq(s, f + 1, Len(s))) \subseteq ToSet(s)
  BY <1>4, PartIs
<1> HIDE DEF b
<1>7. DOMAIN b = 1 .. Len(b)
  BY <1>5, LenProperties
<1>8. \A i \in 1 .. Len(b) : i \in 1 .. f - 1 /\ b[i] = s[i]
  BY <1>2, <1>5
<1>9. sep \notin ToSet(b)
  BY <1>2, <1>7, <1>8 DEF ToSet
<1> QED BY <1>3, <1>5, <1>6, <1>9 DEF b

\* A concatenation, for the provers to leave unexpanded.
Cat(x, y) == x \o y

\* A cut gives back what stood before and after the separator.
LEMMA CutAt ==
  ASSUME NEW T, NEW a \in Seq(T), NEW b \in Seq(T), NEW sep \in T,
         sep \notin ToSet(a), NEW s, s = Cat(Cat(a, <<sep>>), b)
  PROVE  Before(s, sep) = a /\ After(s, sep) = b
<1> DEFINE n == Len(a)
           m == Len(b)
<1>1. /\ n \in Nat /\ m \in Nat /\ DOMAIN a = 1 .. n
      /\ <<sep>> \in Seq(T) /\ Len(<<sep>>) = 1 /\ <<sep>>[1] = sep
  BY LenProperties
<1> DEFINE c == a \o <<sep>>
<1>2. /\ c \in Seq(T) /\ Len(c) = n + 1
      /\ \A i \in 1 .. n + 1 : c[i] = IF i <= n THEN a[i] ELSE <<sep>>[i - n]
  BY <1>1, ConcatProperties
<1> HIDE DEF c, n, m
<1>3. /\ s \in Seq(T) /\ Len(s) = n + 1 + m
      /\ \A i \in 1 .. n + 1 + m :
           s[i] = IF i <= n + 1 THEN c[i] ELSE b[i - (n + 1)]
  <2>1. s = c \o b
    BY DEF c, Cat
  <2>2. /\ c \o b \in Seq(T) /\ Len(c \o b) = Len(c) + Len(b)
        /\ \A i \in 1 .. Len(c) + Len(b) :
             (c \o b)[i] = IF i <= Len(c) THEN c[i] ELSE b[i - Len(c)]
    BY <1>2, ConcatProperties
  <2> DEFINE cb == c \o b
  <2> HIDE DEF cb
  <2>3. /\ cb \in Seq(T) /\ Len(cb) = n + 1 + m
        /\ \A i \in 1 .. n + 1 + m :
             cb[i] = IF i <= n + 1 THEN c[i] ELSE b[i - (n + 1)]
    BY <1>2, <2>2 DEF cb, m
  <2> QED BY <2>1, <2>3 DEF cb
<1>4. ASSUME NEW i \in 1 .. n PROVE s[i] = a[i] /\ s[i] # sep
  <2>1. i \in 1 .. n + 1 /\ i \in 1 .. n + 1 + m /\ i <= n /\ i <= n + 1
    BY <1>1
  <2>2. s[i] = a[i]
    BY <1>2, <1>3, <2>1
  <2> QED BY <1>1, <2>2 DEF ToSet
<1>5. s[n + 1] = sep
  <2>1. n + 1 \in 1 .. n + 1 /\ n + 1 \in 1 .. n + 1 + m /\ (n + 1) - n = 1
    BY <1>1
  <2>2. c[n + 1] = sep
    <3>1. ~(n + 1 <= n)
      BY <1>1
    <3>2. c[n + 1] = <<sep>>[(n + 1) - n]
      BY <1>2, <2>1, <3>1
    <3> QED BY <1>1, <2>1, <3>2
  <2> QED BY <1>1, <1>3, <2>1, <2>2
<1>6. First(s, sep) = n + 1
  <2>1. Len(s) \in Nat /\ DOMAIN s = 1 .. Len(s) /\ n + 1 \in 1 .. Len(s)
    BY <1>1, <1>3, LenProperties
  <2>2. sep \in ToSet(s)
    BY <1>5, <2>1 DEF ToSet
  <2>3. /\ First(s, sep) \in 1 .. Len(s) /\ s[First(s, sep)] = sep
        /\ \A i \in 1 .. First(s, sep) - 1 : s[i] # sep
    BY <1>3, <2>2, FirstIs
  <2>4. ~(First(s, sep) <= n)
    BY <1>1, <1>4, <2>1, <2>3
  <2>5. ~(First(s, sep) > n + 1)
    BY <1>1, <1>5, <2>1, <2>3
  <2> QED BY <1>1, <2>1, <2>3, <2>4, <2>5
<1>7. Before(s, sep) = SubSeq(s, 1, n)
  <2>1. First(s, sep) - 1 = n
    BY <1>1, <1>6
  <2> QED BY <2>1, CutsAre
<1>8. After(s, sep) = SubSeq(s, n + 2, n + 1 + m)
  <2>1. First(s, sep) + 1 = n + 2 /\ Len(s) = n + 1 + m
    BY <1>1, <1>3, <1>6
  <2> QED BY <2>1, CutsAre
<1>9. SubSeq(s, 1, n) = a
  <2> DEFINE p == SubSeq(s, 1, n)
  <2>1. p \in Seq(T) /\ Len(p) = n /\ \A i \in 1 .. n : p[i] = s[i]
    BY <1>1, <1>3, PartIs
  <2> HIDE DEF p
  <2>2. p = a
    BY <1>1, <1>4, <2>1, SeqEqual DEF n
  <2> QED BY <2>2 DEF p
<1>10. SubSeq(s, n + 2, n + 1 + m) = b
  <2> DEFINE p == SubSeq(s, n + 2, n + 1 + m)
  <2>1. /\ p \in Seq(T) /\ Len(p) = m
        /\ \A i \in 1 .. m : p[i] = s[n + 2 + i - 1]
    BY <1>1, <1>3, PartIs
  <2>2. \A i \in 1 .. m : s[n + 2 + i - 1] = b[i]
    BY <1>1, <1>3
  <2> HIDE DEF p
  <2>3. p = b
    BY <1>1, <2>1, <2>2, SeqEqual DEF m
  <2> QED BY <2>3 DEF p
<1> QED BY <1>7, <1>8, <1>9, <1>10

Dark(s) == {i \in 1 .. Len(s) : s[i] \notin White}

Trimmed(s) == s # NoText => s[1] \notin White /\ s[Len(s)] \notin White

LEMMA TrimIs ==
  ASSUME NEW T, NEW s \in Seq(T)
  PROVE  \/ Dark(s) = {} /\ TrimSpace(s) = NoText
         \/ /\ TrimSpace(s) = SubSeq(s, Min(Dark(s)), Max(Dark(s)))
            /\ Min(Dark(s)) \in Dark(s) /\ Max(Dark(s)) \in Dark(s)
            /\ \A i \in Dark(s) : Min(Dark(s)) <= i /\ i <= Max(Dark(s))
<1> DEFINE D == {i \in 1 .. Len(s) : s[i] \notin White}
<1>1. TrimSpace(s) =
        IF (IF D # {} THEN Min(D) ELSE 0) = 0 THEN NoText
        ELSE SubSeq(s, IF D # {} THEN Min(D) ELSE 0,
                       IF D # {} THEN Max(D) ELSE 0)
  BY DEF TrimSpace, SelectInSeq, SelectLastInSeq
<1>2. CASE D = {}
  BY <1>1, <1>2 DEF Dark
<1>3. CASE D # {}
  <2>1. Len(s) \in Nat
    BY LenProperties
  <2>2. D \in SUBSET (0 .. Len(s)) /\ D \in SUBSET Nat /\ 0 \notin D
    BY <2>1
  <2> HIDE DEF D
  <2>3. /\ Min(D) \in D /\ Max(D) \in D
        /\ \A i \in D : Min(D) <= i /\ i <= Max(D)
    BY <1>3, <2>1, <2>2, MinIs, MaxIs
  <2>4. TrimSpace(s) = SubSeq(s, Min(D), Max(D))
    BY <1>1, <1>3, <2>2, <2>3
  <2>5. Dark(s) = D
    BY DEF Dark, D
  <2> QED BY <2>3, <2>4, <2>5
<1> QED BY <1>2, <1>3

LEMMA TrimKeeps ==
  ASSUME NEW T, NEW s \in Seq(T)
  PROVE  /\ TrimSpace(s) \in Seq(T)
         /\ Trimmed(TrimSpace(s))
         /\ ToSet(TrimSpace(s)) \subseteq ToSet(s)
<1>1. Len(s) \in Nat
  BY LenProperties
<1>2. CASE Dark(s) = {} /\ TrimSpace(s) = NoText
  <2>1. NoText \in Seq(T) /\ ToSet(NoText) = {}
    BY EmptySeq DEF NoText, ToSet
  <2>2. Trimmed(NoText)
    BY DEF Trimmed
  <2> QED BY <1>2, <2>1, <2>2
<1>3. CASE /\ TrimSpace(s) = SubSeq(s, Min(Dark(s)), Max(Dark(s)))
           /\ Min(Dark(s)) \in Dark(s) /\ Max(Dark(s)) \in Dark(s)
           /\ \A i \in Dark(s) : Min(Dark(s)) <= i /\ i <= Max(Dark(s))
  <2>1. PICK a \in Dark(s) : a = Min(Dark(s))
    BY <1>3
  <2>2. PICK b \in Dark(s) : b = Max(Dark(s))
    BY <1>3
  <2>3. /\ a \in 1 .. Len(s) /\ b \in 1 .. Len(s) /\ a <= b
        /\ s[a] \notin White /\ s[b] \notin White
    BY <1>3, <2>1, <2>2 DEF Dark
  <2> DEFINE p == SubSeq(s, a, b)
  <2>4. a \in Nat \ {0} /\ b \in Int /\ b <= Len(s)
    BY <1>1, <2>3
  <2>5. /\ p \in Seq(T) /\ Len(p) = b - a + 1
        /\ \A i \in 1 .. b - a + 1 : p[i] = s[a + i - 1]
        /\ ToSet(p) \subseteq ToSet(s)
    BY <2>3, <2>4, PartIs
  <2> HIDE DEF p
  <2>6. /\ 1 \in 1 .. b - a + 1 /\ a + 1 - 1 = a
        /\ b - a + 1 \in 1 .. b - a + 1 /\ a + (b - a + 1) - 1 = b
    BY <1>1, <2>3
  <2>7. p[1] = s[a] /\ p[Len(p)] = s[b]
    BY <2>5, <2>6
  <2>8. Trimmed(p)
    BY <2>3, <2>7 DEF Trimmed
  <2>9. TrimSpace(s) = p
    BY <1>3, <2>1, <2>2 DEF p
  <2> QED BY <2>5, <2>8, <2>9
<1> QED BY <1>2, <1>3, TrimIs

LEMMA TrimNothing ==
  ASSUME NEW T, NEW s \in Seq(T), Trimmed(s)
  PROVE  TrimSpace(s) = s
<1>1. Len(s) \in Nat /\ DOMAIN s = 1 .. Len(s)
  BY LenProperties
<1>2. CASE s = NoText
  <2>1. Dark(s) = {}
    BY <1>2, EmptySeq DEF Dark, NoText
  <2> QED BY <1>2, <2>1, TrimIs
<1>3. CASE s # NoText
  <2>1. Len(s) # 0
    BY <1>3, EmptySeq DEF NoText
  <2>2. 1 \in Dark(s) /\ Len(s) \in Dark(s)
    BY <1>1, <1>3, <2>1 DEF Trimmed, Dark
  <2>3. /\ TrimSpace(s) = SubSeq(s, Min(Dark(s)), Max(Dark(s)))
        /\ Min(Dark(s)) \in Dark(s) /\ Max(Dark(s)) \in Dark(s)
        /\ \A i \in Dark(s) : Min(Dark(s)) <= i /\ i <= Max(Dark(s))
    BY <2>2, TrimIs
  <2>4. Dark(s) \subseteq 1 .. Len(s)
    BY DEF Dark
  <2>5. Min(Dark(s)) = 1 /\ Max(Dark(s)) = Len(s)
    <3>1. PICK a \in Dark(s) : a = Min(Dark(s))
      BY <2>3
    <3>2. PICK b \in Dark(s) : b = Max(Dark(s))
      BY <2>3
    <3>3. a <= 1 /\ Len(s) <= b /\ a \in 1 .. Len(s) /\ b \in 1 .. Len(s)
      BY <2>2, <2>3, <2>4, <3>1, <3>2
    <3>4. a = 1
      BY <1>1, <3>3
    <3>5. b = Len(s)
      <4> DEFINE n == Len(s)
      <4>1. n \in Nat /\ b \in 1 .. n /\ n <= b
        BY <1>1, <3>3
      <4> HIDE DEF n
      <4>2. b = n
        BY <4>1
      <4> QED BY <4>2 DEF n
    <3> QED BY <3>1, <3>2, <3>4, <3>5
  <2> QED BY <2>3, <2>5, SubSeqFull
<1> QED BY <1>2, <1>3

\* A word in capitals.
Upper(w) == IF w \in DOMAIN Capital THEN Capital[w] ELSE w

LEMMA UpperIs ==
  /\ \A w \in Tokens : Upper(w) \in Tokens /\ Upper(Upper(w)) = Upper(w)
  /\ \A w \in Tokens, sep \in Separators : Upper(w) = sep => w = sep
  /\ Upper("NOERROR") = "NOERROR"
<1>1. ASSUME NEW w \in Tokens
      PROVE  Upper(w) \in Tokens /\ Upper(Upper(w)) = Upper(w)
  BY CapitalAssumption DEF Upper, Words
<1>2. ASSUME NEW w \in Tokens, NEW sep \in Separators, Upper(w) = sep
      PROVE  w = sep
  BY <1>2, CapitalAssumption DEF Upper, Words
<1>3. Upper("NOERROR") = "NOERROR"
  BY CapitalAssumption DEF Upper
<1> QED BY <1>1, <1>2, <1>3

LEMMA ToUpperIs ==
  ASSUME NEW s \in Text
  PROVE  /\ ToUpper(s) \in Text /\ Len(ToUpper(s)) = Len(s)
         /\ \A i \in 1 .. Len(s) : ToUpper(s)[i] = Upper(s[i])
         /\ \A sep \in Separators : sep \notin ToSet(s) =>
              sep \notin ToSet(ToUpper(s))
         /\ Trimmed(s) => Trimmed(ToUpper(s))
         /\ ToUpper(ToUpper(s)) = ToUpper(s)
         /\ s = NoText <=> ToUpper(s) = NoText
<1> DEFINE n == Len(s)
           u == ToUpper(s)
<1>1. /\ n \in Nat /\ DOMAIN s = 1 .. n
      /\ \A i \in 1 .. n : s[i] \in Tokens
  BY LenProperties, ElementOfSeq DEF Text
<1> HIDE DEF n
<1>2. u = [i \in 1 .. n |-> Upper(s[i])]
  BY <1>1 DEF ToUpper, Upper
<1> HIDE DEF u
<1>3. \A i \in 1 .. n : u[i] = Upper(s[i]) /\ u[i] \in Tokens
  BY <1>1, <1>2, UpperIs
<1>4. u \in Seq(Tokens) /\ Len(u) = n
  BY <1>1, <1>2, <1>3
<1>5. DOMAIN u = 1 .. n
  BY <1>2
<1>6. ASSUME NEW sep \in Separators, sep \notin ToSet(s)
      PROVE  sep \notin ToSet(u)
  <2> SUFFICES ASSUME NEW i \in 1 .. n, u[i] = sep PROVE FALSE
    BY <1>5 DEF ToSet
  <2>1. s[i] = sep
    BY <1>1, <1>3, <1>6, UpperIs
  <2> QED BY <1>1, <1>6, <2>1 DEF ToSet
<1>7. s = NoText <=> u = NoText
  <2>1. s = NoText <=> n = 0
    BY EmptySeq DEF NoText, Text, n
  <2>2. u = NoText <=> n = 0
    BY <1>4, EmptySeq DEF NoText
  <2> QED BY <2>1, <2>2
<1>8. Trimmed(s) => Trimmed(u)
  <2> SUFFICES ASSUME s # NoText, s[1] \notin White, s[n] \notin White
               PROVE  u[1] \notin White /\ u[n] \notin White
    BY <1>4, <1>7 DEF Trimmed, n
  <2>1. n # 0
    BY EmptySeq DEF NoText, Text, n
  <2>2. 1 \in 1 .. n /\ n \in 1 .. n
    BY <1>1, <2>1
  <2>3. White \subseteq Separators
    BY DEF White, Separators
  <2> QED BY <1>1, <1>3, <2>2, <2>3, UpperIs
<1>9. ToUpper(u) = u
  <2>1. ToUpper(u) = [i \in 1 .. n |-> Upper(u[i])]
    BY <1>5 DEF ToUpper, Upper
  <2>2. \A i \in 1 .. n : Upper(u[i]) = Upper(s[i])
    BY <1>1, <1>3, UpperIs
  <2> QED BY <1>2, <2>1, <2>2
<1> QED BY <1>3, <1>4, <1>6, <1>7, <1>8, <1>9 DEF n, u, Text

-----------------------------------------------------------------------------
(* Records and their rules.                                                *)

Pair == <<"^", "$dnsrewrite=">>
Marks(s) == {i \in 1 .. Len(s) - 1 : SubSeq(s, i, i + 1) = Pair}

\* No mark in a text, or only part of one at its end.
Unmarked(s) ==
  \A i \in 1 .. Len(s) - 1 : ~(s[i] = "^" /\ s[i + 1] = "$dnsrewrite=")

LEMMA TwoTokens ==
  ASSUME NEW x \in Tokens, NEW y \in Tokens
  PROVE  <<x, y>> \in Text /\ Len(<<x, y>>) = 2
  BY DEF Text

LEMMA PairIs ==
  /\ Pair \in Text /\ Len(Pair) = 2
  /\ Pair[1] = "^" /\ Pair[2] = "$dnsrewrite="
<1>1. "^" \in Tokens /\ "$dnsrewrite=" \in Tokens
  BY TokensAssumption DEF Separators
<1>2. Pair \in Text /\ Len(Pair) = 2
  BY <1>1, TwoTokens DEF Pair
<1> QED BY <1>2 DEF Pair

LEMMA MarksAre ==
  ASSUME NEW s \in Text, NEW i \in 1 .. Len(s) - 1
  PROVE  i \in Marks(s) <=> s[i] = "^" /\ s[i + 1] = "$dnsrewrite="
<1> DEFINE p == SubSeq(s, i, i + 1)
<1>1. Len(s) \in Nat
  BY LenProperties DEF Text
<1>2. i \in Nat \ {0} /\ i + 1 \in Int /\ i + 1 <= Len(s)
  BY <1>1
<1>3. /\ p \in Seq(Tokens) /\ Len(p) = 2
      /\ \A j \in 1 .. 2 : p[j] = s[i + j - 1]
  BY <1>2, PartIs DEF Text
<1>4. p[1] = s[i] /\ p[2] = s[i + 1]
  <2>1. i + 1 - 1 = i /\ i + 2 - 1 = i + 1 /\ 1 \in 1 .. 2 /\ 2 \in 1 .. 2
    BY <1>2
  <2> QED BY <1>3, <2>1
<1>5. Pair \in Seq(Tokens) /\ Len(Pair) = 2
  BY PairIs DEF Text
<1>6. Pair[1] = "^" /\ Pair[2] = "$dnsrewrite="
  BY PairIs
<1> HIDE DEF p
<1>7. p = Pair <=> p[1] = Pair[1] /\ p[2] = Pair[2]
  <2> SUFFICES ASSUME p[1] = Pair[1], p[2] = Pair[2] PROVE p = Pair
    OBVIOUS
  <2>1. \A j \in 1 .. Len(p) : p[j] = Pair[j]
    BY <1>3
  <2> QED BY <1>3, <1>5, <2>1, SeqEqual
<1> QED BY <1>4, <1>6, <1>7 DEF p, Marks

\* The first mark is where a text without one ends.
LEMMA MarkAt ==
  ASSUME NEW h \in Text, NEW a \in Text, Unmarked(h),
         NEW s, s = (h \o Pair) \o a
  PROVE  /\ s \in Text /\ Len(s) = Len(h) + 2 + Len(a)
         /\ Marks(s) # {} /\ Min(Marks(s)) = Len(h) + 1
         /\ \A i \in 1 .. Len(h) : s[i] = h[i]
         /\ SubSeq(s, Len(h) + 3, Len(s)) = a
<1> DEFINE n == Len(h)
           m == Len(a)
           hp == h \o Pair
<1>1. n \in Nat /\ m \in Nat /\ Pair \in Seq(Tokens) /\ Len(Pair) = 2
  BY LenProperties, PairIs DEF Text
<1>2. Pair[1] = "^" /\ Pair[2] = "$dnsrewrite="
  BY PairIs
<1> HIDE DEF n, m
<1>3. /\ hp \in Seq(Tokens) /\ Len(hp) = n + 2
      /\ \A i \in 1 .. n + 2 : hp[i] = IF i <= n THEN h[i] ELSE Pair[i - n]
  <2>1. /\ hp \in Seq(Tokens) /\ Len(hp) = Len(h) + Len(Pair)
        /\ \A i \in 1 .. Len(h) + Len(Pair) :
             hp[i] = IF i <= Len(h) THEN h[i] ELSE Pair[i - Len(h)]
    BY <1>1, ConcatProperties DEF Text
  <2> HIDE DEF hp
  <2> QED BY <1>1, <2>1 DEF n
<1> HIDE DEF hp
<1>4. /\ s \in Seq(Tokens) /\ Len(s) = n + 2 + m
      /\ \A i \in 1 .. n + 2 + m :
           s[i] = IF i <= n + 2 THEN hp[i] ELSE a[i - (n + 2)]
  BY <1>3, ConcatProperties DEF hp, m, Text
<1>5. ASSUME NEW i \in 1 .. n PROVE s[i] = h[i]
  <2>1. /\ i \in 1 .. n + 2 /\ i \in 1 .. n + 2 + m
        /\ i <= n /\ i <= n + 2
    BY <1>1
  <2> QED BY <1>3, <1>4, <2>1
<1>6. s[n + 1] = "^" /\ s[n + 2] = "$dnsrewrite="
  <2>1. /\ n + 1 \in 1 .. n + 2 /\ n + 2 \in 1 .. n + 2
        /\ n + 1 \in 1 .. n + 2 + m /\ n + 2 \in 1 .. n + 2 + m
        /\ (n + 1) - n = 1 /\ (n + 2) - n = 2
    BY <1>1
  <2>2. hp[n + 1] = Pair[1] /\ hp[n + 2] = Pair[2]
    BY <1>1, <1>3, <2>1
  <2>3. s[n + 1] = hp[n + 1] /\ s[n + 2] = hp[n + 2]
    BY <1>1, <1>4, <2>1
  <2> QED BY <1>2, <2>2, <2>3
<1>7. \A i \in 1 .. Len(s) - 1 :
        i \in Marks(s) <=> s[i] = "^" /\ s[i + 1] = "$dnsrewrite="
  BY <1>4, MarksAre DEF Text
<1>8. n + 1 \in 1 .. Len(s) - 1 /\ (n + 1) + 1 = n + 2
  BY <1>1, <1>4
<1>9. n + 1 \in Marks(s)
  BY <1>6, <1>7, <1>8
<1>10. ASSUME NEW i \in 1 .. n PROVE i \notin Marks(s)
  <2>1. i \in 1 .. Len(s) - 1
    BY <1>1, <1>4
  <2>2. CASE i = n
    <3>1. i + 1 = n + 1
      BY <2>2
    <3>2. s[i + 1] # "$dnsrewrite="
      BY <1>6, <3>1
    <3> QED BY <1>7, <2>1, <3>2
  <2>3. CASE i # n
    <3>1. i \in 1 .. n - 1 /\ i + 1 \in 1 .. n
      BY <1>1, <2>3
    <3>2. s[i] = h[i] /\ s[i + 1] = h[i + 1]
      BY <1>5, <3>1
    <3>3. ~(h[i] = "^" /\ h[i + 1] = "$dnsrewrite=")
      BY <3>1 DEF Unmarked, n
    <3> QED BY <1>7, <2>1, <3>2, <3>3
  <2> QED BY <2>2, <2>3
<1>11. Min(Marks(s)) = n + 1
  <2>1. Marks(s) \in SUBSET Nat /\ Marks(s) \subseteq 1 .. Len(s) - 1
    BY <1>1, <1>4 DEF Marks
  <2>2. Min(Marks(s)) \in Marks(s) /\ Min(Marks(s)) <= n + 1
    BY <1>9, <2>1, MinIs
  <2>3. PICK k \in Marks(s) : k = Min(Marks(s))
    BY <2>2
  <2>4. k \in Nat /\ k >= 1 /\ k <= n + 1 /\ k \notin 1 .. n
    BY <1>1, <1>4, <1>10, <2>1, <2>2, <2>3
  <2>5. k = n + 1
    BY <1>1, <2>4
  <2> QED BY <2>3, <2>5
<1>12. SubSeq(s, n + 3, n + 2 + m) = a
  <2> DEFINE p == SubSeq(s, n + 3, n + 2 + m)
  <2>1. /\ p \in Seq(Tokens) /\ Len(p) = m
        /\ \A i \in 1 .. m : p[i] = s[n + 3 + i - 1]
    <3>1. n + 3 \in Nat \ {0} /\ n + 2 + m \in Int /\ n + 2 + m <= Len(s)
      BY <1>1, <1>4
    <3> DEFINE b == n + 3
               e == n + 2 + m
    <3>2. e - b + 1 = m /\ (b <= e <=> m # 0)
      BY <1>1
    <3> HIDE DEF b, e
    <3>3. /\ SubSeq(s, b, e) \in Seq(Tokens)
          /\ Len(SubSeq(s, b, e)) = IF b <= e THEN e - b + 1 ELSE 0
          /\ \A i \in 1 .. e - b + 1 : SubSeq(s, b, e)[i] = s[b + i - 1]
      <4>1. b \in Nat \ {0} /\ e \in Int /\ e <= Len(s)
        BY <3>1 DEF b, e
      <4> QED BY <1>4, <4>1, PartIs
    <3>4. /\ p = SubSeq(s, b, e)
          /\ \A i \in 1 .. m : SubSeq(s, b, e)[i] = s[n + 3 + i - 1]
      BY <3>2, <3>3 DEF b, e
    <3> QED BY <1>1, <3>2, <3>3, <3>4
  <2>2. ASSUME NEW i \in 1 .. m PROVE s[n + 3 + i - 1] = a[i]
    <3>1. /\ n + 3 + i - 1 \in 1 .. n + 2 + m /\ ~(n + 3 + i - 1 <= n + 2)
          /\ (n + 3 + i - 1) - (n + 2) = i
      BY <1>1
    <3> QED BY <1>4, <3>1
  <2> HIDE DEF p
  <2>3. p = a
    BY <1>1, <2>1, <2>2, SeqEqual DEF m, Text
  <2> QED BY <2>3 DEF p
<1> QED BY <1>4, <1>5, <1>9, <1>11, <1>12 DEF n, m, Text

LEMMA PrefixIs ==
  ASSUME NEW T, NEW p \in Seq(T), NEW s \in Seq(T)
  PROVE  IsPrefix(p, s) <=> /\ Len(p) <= Len(s)
                            /\ \A i \in 1 .. Len(p) : s[i] = p[i]
<1>1. Len(p) \in Nat /\ Len(s) \in Nat
  BY LenProperties
<1>2. SubSeq(p, 1, Len(p)) = p
  BY SubSeqFull
<1> SUFFICES ASSUME Len(p) <= Len(s)
             PROVE  p = SubSeq(s, 1, Len(p)) <=>
                      \A i \in 1 .. Len(p) : s[i] = p[i]
  BY <1>2 DEF IsPrefix
<1> DEFINE q == SubSeq(s, 1, Len(p))
<1>3. /\ q \in Seq(T)
      /\ Len(q) = IF 1 <= Len(p) THEN Len(p) - 1 + 1 ELSE 0
      /\ \A i \in 1 .. Len(p) - 1 + 1 : q[i] = s[1 + i - 1]
  BY <1>1, PartIs
<1>4. Len(q) = Len(p) /\ \A i \in 1 .. Len(p) : q[i] = s[i]
  BY <1>1, <1>3
<1> HIDE DEF q
<1>5. ASSUME \A i \in 1 .. Len(p) : s[i] = p[i] PROVE p = q
  BY <1>3, <1>4, <1>5, SeqEqual
<1>6. p = q => \A i \in 1 .. Len(p) : s[i] = p[i]
  BY <1>4
<1> QED BY <1>5, <1>6 DEF q

LEMMA OneToken ==
  ASSUME NEW x \in Tokens
  PROVE  <<x>> \in Text /\ Len(<<x>>) = 1 /\ <<x>>[1] = x
  BY DEF Text

LEMMA StartsAsRecord ==
  ASSUME NEW s \in Text
  PROVE  IsPrefix(<<"||">>, s) <=> Len(s) >= 1 /\ s[1] = "||"
<1>1. "||" \in Tokens
  BY TokensAssumption DEF Separators
<1>2. <<"||">> \in Seq(Tokens) /\ Len(<<"||">>) = 1 /\ <<"||">>[1] = "||"
  BY <1>1, OneToken DEF Text
<1>3. Len(s) \in Nat
  BY LenProperties DEF Text
<1> DEFINE p == <<"||">>
<1> HIDE DEF p
<1>4. IsPrefix(p, s) <=> /\ Len(p) <= Len(s)
                         /\ \A i \in 1 .. Len(p) : s[i] = p[i]
  BY <1>2, PrefixIs DEF Text, p
<1>5. Len(p) = 1 /\ p[1] = "||" /\ 1 .. 1 = {1}
  BY <1>2 DEF p
<1> QED BY <1>3, <1>4, <1>5 DEF p

LEMMA StartsAsAllow ==
  ASSUME NEW s \in Text
  PROVE  IsAllowRule(s) <=> Len(s) >= 2 /\ s[1] = "@@" /\ s[2] = "||"
<1>1. "||" \in Tokens /\ "@@" \in Tokens
  BY TokensAssumption DEF Separators
<1> DEFINE p == <<"@@", "||">>
<1>2. p \in Seq(Tokens) /\ Len(p) = 2
  BY <1>1, TwoTokens DEF Text
<1>3. p[1] = "@@" /\ p[2] = "||"
  OBVIOUS
<1>4. Len(s) \in Nat
  BY LenProperties DEF Text
<1>5. IsAllowRule(s) <=> IsPrefix(p, s)
  BY DEF IsAllowRule
<1> HIDE DEF p
<1>6. IsPrefix(p, s) <=> /\ Len(p) <= Len(s)
                         /\ \A i \in 1 .. Len(p) : s[i] = p[i]
  BY <1>2, PrefixIs DEF Text
<1>7. 1 .. 2 = {1, 2}
  OBVIOUS
<1> QED BY <1>2, <1>3, <1>4, <1>5, <1>6, <1>7

CatLaws(T) ==
  /\ \A x, y \in Seq(T) : Cat(x, y) \in Seq(T)
  /\ \A x, y, z \in Seq(T) : Cat(Cat(x, y), z) = Cat(x, Cat(y, z))

LEMMA CatIs == \A T : CatLaws(T)
<1> SUFFICES ASSUME NEW T PROVE CatLaws(T)
  OBVIOUS
<1>1. ASSUME NEW x \in Seq(T), NEW y \in Seq(T) PROVE Cat(x, y) \in Seq(T)
  BY ConcatProperties DEF Cat
<1>2. ASSUME NEW x \in Seq(T), NEW y \in Seq(T), NEW z \in Seq(T)
      PROVE  Cat(Cat(x, y), z) = Cat(x, Cat(y, z))
  BY ConcatAssociative DEF Cat
<1> QED BY <1>1, <1>2 DEF CatLaws

LEMMA Regroup ==
  ASSUME NEW T, NEW a \in Seq(T), NEW b \in Seq(T), NEW c \in Seq(T),
         NEW d \in Seq(T), NEW e \in Seq(T)
  PROVE  Cat(Cat(Cat(Cat(a, b), c), d), e)
           = Cat(a, Cat(b, Cat(Cat(c, d), e)))
<1>0. CatLaws(T)
  BY CatIs
<1>1. /\ \A x, y \in Seq(T) : Cat(x, y) \in Seq(T)
      /\ \A x, y, z \in Seq(T) : Cat(Cat(x, y), z) = Cat(x, Cat(y, z))
  BY <1>0 DEF CatLaws
<1>2. /\ Cat(a, b) \in Seq(T) /\ Cat(d, e) \in Seq(T)
      /\ Cat(c, Cat(d, e)) \in Seq(T) /\ Cat(Cat(a, b), c) \in Seq(T)
  BY <1>1
<1>3. Cat(Cat(Cat(Cat(a, b), c), d), e) = Cat(Cat(Cat(a, b), c), Cat(d, e))
  BY <1>1, <1>2
<1>4. Cat(Cat(Cat(a, b), c), Cat(d, e)) = Cat(Cat(a, b), Cat(c, Cat(d, e)))
  BY <1>1, <1>2
<1>5. Cat(c, Cat(d, e)) = Cat(Cat(c, d), e)
  BY <1>1
<1>6. Cat(Cat(a, b), Cat(c, Cat(d, e))) = Cat(a, Cat(b, Cat(c, Cat(d, e))))
  BY <1>1, <1>2
<1> QED BY <1>3, <1>4, <1>5, <1>6

LEMMA TwoTogether ==
  ASSUME NEW x \in Tokens, NEW y \in Tokens
  PROVE  <<x>> \o <<y>> = <<x, y>>
<1> DEFINE p == <<x>> \o <<y>>
           q == <<x, y>>
<1>1. /\ <<x>> \in Seq(Tokens) /\ Len(<<x>>) = 1 /\ <<x>>[1] = x
      /\ <<y>> \in Seq(Tokens) /\ Len(<<y>>) = 1 /\ <<y>>[1] = y
      /\ q \in Seq(Tokens) /\ Len(q) = 2
  BY OneToken, TwoTokens DEF Text
<1>2. /\ p \in Seq(Tokens) /\ Len(p) = Len(<<x>>) + Len(<<y>>)
      /\ \A i \in 1 .. Len(<<x>>) + Len(<<y>>) :
           p[i] = IF i <= Len(<<x>>) THEN <<x>>[i] ELSE <<y>>[i - Len(<<x>>)]
  BY <1>1, ConcatProperties
<1>3. q[1] = x /\ q[2] = y
  OBVIOUS
<1>4. 1 \in 1 .. 1 + 1 /\ 2 \in 1 .. 1 + 1 /\ 2 - 1 = 1 /\ 1 .. 2 = {1, 2}
  OBVIOUS
<1> HIDE DEF p, q
<1>5. Len(p) = 2 /\ p[1] = x /\ p[2] = y
  BY <1>1, <1>2, <1>4
<1>6. \A i \in 1 .. Len(p) : p[i] = q[i]
  BY <1>3, <1>4, <1>5
<1>7. p = q
  BY <1>1, <1>2, <1>5, <1>6, SeqEqual
<1> QED BY <1>7 DEF p, q

LEMMA FourTogether ==
  Pair \o (<<"NOERROR">> \o <<";">>) = <<"^", "$dnsrewrite=", "NOERROR", ";">>
<1> DEFINE p == <<"NOERROR", ";">>
           q == <<"^", "$dnsrewrite=", "NOERROR", ";">>
           c == Pair \o p
<1>1. <<"NOERROR">> \o <<";">> = p
  BY TokensAssumption, TwoTogether DEF Separators
<1>2. p \in Seq(Tokens) /\ Len(p) = 2 /\ p[1] = "NOERROR" /\ p[2] = ";"
  BY TokensAssumption, TwoTokens DEF Separators, Text
<1>3. /\ Pair \in Seq(Tokens) /\ Len(Pair) = 2
      /\ Pair[1] = "^" /\ Pair[2] = "$dnsrewrite="
  BY PairIs DEF Text
<1>4. q \in Seq(Tokens) /\ Len(q) = 4
  <2>1. "^" \in Tokens /\ "$dnsrewrite=" \in Tokens
    BY TokensAssumption DEF Separators
  <2>2. "NOERROR" \in Tokens /\ ";" \in Tokens
    BY TokensAssumption DEF Separators
  <2>3. \A w, x, y, z \in Tokens :
          <<w, x, y, z>> \in Seq(Tokens) /\ Len(<<w, x, y, z>>) = 4
    OBVIOUS
  <2> QED BY <2>1, <2>2, <2>3
<1>5. q[1] = "^" /\ q[2] = "$dnsrewrite=" /\ q[3] = "NOERROR" /\ q[4] = ";"
  OBVIOUS
<1> HIDE DEF p
<1>6. /\ c \in Seq(Tokens) /\ Len(c) = Len(Pair) + Len(p)
      /\ \A i \in 1 .. Len(Pair) + Len(p) :
           c[i] = IF i <= Len(Pair) THEN Pair[i] ELSE p[i - Len(Pair)]
  BY <1>2, <1>3, ConcatProperties
<1>7. /\ 1 .. 4 = {1, 2, 3, 4} /\ 2 + 2 = 4 /\ 3 - 2 = 1 /\ 4 - 2 = 2
      /\ 1 <= 2 /\ 2 <= 2 /\ ~(3 <= 2) /\ ~(4 <= 2)
  OBVIOUS
<1> HIDE DEF c, q
<1>8. /\ Len(c) = 4 /\ c[1] = "^" /\ c[2] = "$dnsrewrite="
      /\ c[3] = "NOERROR" /\ c[4] = ";"
  <2>1. /\ Len(c) = 4
        /\ \A i \in {1, 2, 3, 4} :
             c[i] = IF i <= 2 THEN Pair[i] ELSE p[i - 2]
    BY <1>2, <1>3, <1>6, <1>7
  <2> HIDE DEF Pair
  <2>2. c[1] = Pair[1] /\ c[2] = Pair[2] /\ c[3] = p[1] /\ c[4] = p[2]
    BY <1>7, <2>1
  <2> QED BY <1>2, <1>3, <2>1, <2>2
<1>9. \A i \in 1 .. Len(c) : c[i] = q[i]
  BY <1>5, <1>7, <1>8
<1>10. c = q
  BY <1>4, <1>6, <1>8, <1>9, SeqEqual
<1> QED BY <1>1, <1>10 DEF c, q

\* The parts of a record's rule.
Head1(r) == <<"||">> \o r.domain
Rest1(r) == r.type \o <<";">> \o r.value
Answer1(r) == <<"NOERROR">> \o <<";">> \o Rest1(r)

LEMMA RulePartsAre ==
  ASSUME NEW r \in Fields
  PROVE  /\ BuildDNSRule(r) = (Head1(r) \o Pair) \o Answer1(r)
         /\ Head1(r) \in Text /\ Rest1(r) \in Text /\ Answer1(r) \in Text
<1>1. r.domain \in Text /\ r.type \in Text /\ r.value \in Text
  BY DEF Fields
<1>2. /\ <<"||">> \in Seq(Tokens) /\ <<";">> \in Seq(Tokens)
      /\ <<"NOERROR">> \in Seq(Tokens) /\ Pair \in Seq(Tokens)
  BY TokensAssumption, OneToken, PairIs DEF Separators, Text
<1> DEFINE N == <<"NOERROR">>
           C == <<";">>
           P == <<"^", "$dnsrewrite=", "NOERROR", ";">>
           h == Head1(r)
           x == N \o C
<1>3. \A u, w \in Seq(Tokens) : u \o w \in Seq(Tokens)
  BY ConcatProperties
<1>5. P = Pair \o x
  BY FourTogether
<1>6. /\ h \in Seq(Tokens) /\ x \in Seq(Tokens) /\ h \o Pair \in Seq(Tokens)
      /\ Rest1(r) \in Seq(Tokens) /\ Answer1(r) \in Seq(Tokens)
  <2>1. h \in Seq(Tokens) /\ x \in Seq(Tokens)
    BY <1>1, <1>2, <1>3 DEF Head1, Text
  <2>2. h \o Pair \in Seq(Tokens) /\ r.type \o C \in Seq(Tokens)
    BY <1>1, <1>2, <1>3, <2>1 DEF Text
  <2>3. Rest1(r) \in Seq(Tokens)
    BY <1>1, <1>3, <2>2 DEF Rest1, Text
  <2>4. Answer1(r) \in Seq(Tokens)
    BY <1>3, <2>1, <2>3 DEF Answer1
  <2> QED BY <2>1, <2>2, <2>3, <2>4
<1>7. BuildDNSRule(r) = (h \o P) \o r.type \o C \o r.value
  BY DEF BuildDNSRule, Head1
<1>8. h \o P = (h \o Pair) \o x
  <2> HIDE DEF h, x, P
  <2>1. Cat(Cat(h, Pair), x) = Cat(h, Cat(Pair, x))
    <3>1. CatLaws(Tokens)
      BY CatIs
    <3>2. h \in Seq(Tokens) /\ Pair \in Seq(Tokens) /\ x \in Seq(Tokens)
      BY <1>2, <1>6
    <3> QED BY <3>1, <3>2 DEF CatLaws
  <2> QED BY <1>5, <2>1 DEF Cat
<1>9. Answer1(r) = x \o (r.type \o C \o r.value)
  BY DEF Answer1, Rest1
<1> HIDE DEF h, x, P, C
<1> DEFINE g == h \o Pair
<1>10. BuildDNSRule(r) = g \o x \o r.type \o C \o r.value
  BY <1>7, <1>8
<1>11. g \in Seq(Tokens) /\ C \in Seq(Tokens)
  BY <1>2, <1>6 DEF C
<1> HIDE DEF g
<1>12. g \o x \o r.type \o C \o r.value
         = g \o (x \o (r.type \o C \o r.value))
  <2> DEFINE t == r.type
             v == r.value
  <2>1. /\ g \in Seq(Tokens) /\ x \in Seq(Tokens) /\ t \in Seq(Tokens)
        /\ C \in Seq(Tokens) /\ v \in Seq(Tokens)
    BY <1>1, <1>6, <1>11 DEF Text
  <2> HIDE DEF t, v
  <2>2. Cat(Cat(Cat(Cat(g, x), t), C), v) = Cat(g, Cat(x, Cat(Cat(t, C), v)))
    BY <2>1, Regroup
  <2> QED BY <2>2 DEF t, v, Cat
<1> QED BY <1>6, <1>9, <1>10, <1>12 DEF g, h, Text

\* The answer has its two semicolons.
LEMMA AnswerIs ==
  ASSUME NEW r \in Fields
  PROVE  Cardinality({i \in DOMAIN Answer1(r) : Answer1(r)[i] = ";"}) >= 2
<1>1. r.domain \in Text /\ r.type \in Text /\ r.value \in Text
  BY DEF Fields
<1>2. <<";">> \in Seq(Tokens) /\ <<"NOERROR">> \in Seq(Tokens)
  BY TokensAssumption, OneToken DEF Separators, Text
<1> DEFINE x == <<"NOERROR">> \o <<";">>
           tc == r.type \o <<";">>
           n == Len(r.type)
           v == r.value
           m == Len(v)
           w == Rest1(r)
           a == Answer1(r)
<1>3. x \in Seq(Tokens) /\ Len(x) = 2 /\ x[2] = ";"
  <2> DEFINE p == <<"NOERROR", ";">>
  <2>1. x = p
    BY TokensAssumption, TwoTogether DEF Separators
  <2>2. p \in Text /\ Len(p) = 2
    BY TokensAssumption, TwoTokens DEF Separators
  <2>3. p[2] = ";"
    OBVIOUS
  <2> HIDE DEF p, x
  <2> QED BY <2>1, <2>2, <2>3 DEF Text
<1>4. n \in Nat /\ m \in Nat
  BY <1>1, LenProperties DEF Text
<1>5. tc \in Seq(Tokens) /\ Len(tc) = n + 1 /\ tc[n + 1] = ";"
  <2>1. /\ tc \in Seq(Tokens) /\ Len(tc) = Len(r.type) + Len(<<";">>)
        /\ \A i \in 1 .. Len(r.type) + Len(<<";">>) :
             tc[i] = IF i <= Len(r.type) THEN r.type[i]
                     ELSE <<";">>[i - Len(r.type)]
    BY <1>1, <1>2, ConcatProperties DEF Text
  <2>2. Len(<<";">>) = 1 /\ <<";">>[1] = ";" /\ (n + 1) - n = 1
    BY <1>4
  <2> HIDE DEF tc
  <2>3. n + 1 \in 1 .. n + 1 /\ ~(n + 1 <= n)
    BY <1>4
  <2> HIDE DEF n
  <2> QED BY <2>1, <2>2, <2>3 DEF n
<1>6. w \in Seq(Tokens) /\ Len(w) = n + 1 + m /\ w[n + 1] = ";"
  <2>1. w = tc \o v
    BY DEF Rest1
  <2> HIDE DEF tc, w, n, m, v
  <2>2. v \in Seq(Tokens) /\ Len(v) = m
    BY <1>1 DEF v, m, Text
  <2>3. /\ w \in Seq(Tokens) /\ Len(w) = Len(tc) + Len(v)
        /\ \A i \in 1 .. Len(tc) + Len(v) :
             w[i] = IF i <= Len(tc) THEN tc[i] ELSE v[i - Len(tc)]
    BY <1>5, <2>1, <2>2, ConcatProperties
  <2>4. n + 1 \in 1 .. n + 1 + m /\ n + 1 <= n + 1
    BY <1>4
  <2> QED BY <1>5, <2>2, <2>3, <2>4
<1>7. /\ a \in Seq(Tokens) /\ Len(a) = 3 + n + m
      /\ a[2] = ";" /\ a[n + 3] = ";"
  <2>1. a = x \o w
    BY DEF Answer1
  <2> HIDE DEF a, x, w, n, m, v
  <2>2. /\ a \in Seq(Tokens) /\ Len(a) = Len(x) + Len(w)
        /\ \A i \in 1 .. Len(x) + Len(w) :
             a[i] = IF i <= Len(x) THEN x[i] ELSE w[i - Len(x)]
    BY <1>3, <1>6, <2>1, ConcatProperties
  <2>3. /\ 2 \in 1 .. 2 + (n + 1 + m) /\ n + 3 \in 1 .. 2 + (n + 1 + m)
        /\ ~(n + 3 <= 2) /\ 2 <= 2 /\ (n + 3) - 2 = n + 1
        /\ 2 + (n + 1 + m) = 3 + n + m
    BY <1>4
  <2>4. Len(a) = 2 + (n + 1 + m) /\ Len(x) = 2 /\ Len(w) = n + 1 + m
    BY <1>3, <1>6, <2>2
  <2>5. a[2] = x[2] /\ a[n + 3] = w[n + 1]
    BY <2>2, <2>3, <2>4
  <2> QED BY <1>3, <1>6, <2>2, <2>3, <2>4, <2>5
<1> HIDE DEF a, n, m
<1> DEFINE S == {i \in DOMAIN a : a[i] = ";"}
<1>8. DOMAIN a = 1 .. 3 + n + m
  BY <1>7, LenProperties
<1>9. 2 \in S /\ n + 3 \in S /\ 2 # n + 3
  <2>1. 2 \in 1 .. 3 + n + m /\ n + 3 \in 1 .. 3 + n + m /\ 2 # n + 3
    BY <1>4
  <2> QED BY <1>7, <1>8, <2>1
<1>10. IsFiniteSet(S)
  <2>1. IsFiniteSet(1 .. 3 + n + m)
    BY <1>4, FS_Interval
  <2> QED BY <1>8, <2>1, FS_Subset
<1> HIDE DEF S
<1>11. Cardinality({2, n + 3}) = 2
  <2>1. IsFiniteSet({2}) /\ Cardinality({2}) = 1
    BY FS_Singleton
  <2>2. n + 3 \notin {2}
    BY <1>9
  <2>3. Cardinality({2} \cup {n + 3}) = 1 + 1
    BY <2>1, <2>2, FS_AddElement
  <2>4. {2} \cup {n + 3} = {2, n + 3}
    OBVIOUS
  <2> QED BY <2>3, <2>4
<1>12. Cardinality({2, n + 3}) <= Cardinality(S)
  <2>1. {2, n + 3} \in SUBSET S
    BY <1>9
  <2> QED BY <1>10, <2>1, FS_Subset
<1>13. Cardinality(S) \in Nat
  BY <1>10, FS_CardinalityType
<1> QED BY <1>11, <1>12, <1>13 DEF S, a

LEMMA EndsOfConcat ==
  ASSUME NEW T, NEW x \in Seq(T), NEW y \in Seq(T), NEW z, z = x \o y
  PROVE  /\ x # <<>> => z # <<>> /\ z[1] = x[1]
         /\ y # <<>> => z # <<>> /\ z[Len(z)] = y[Len(y)]
<1> DEFINE n == Len(x)
           m == Len(y)
<1>1. n \in Nat /\ m \in Nat
  BY LenProperties
<1>2. /\ z \in Seq(T) /\ Len(z) = n + m
      /\ \A i \in 1 .. n + m : z[i] = IF i <= n THEN x[i] ELSE y[i - n]
  BY ConcatProperties
<1>3. (x = <<>> <=> n = 0) /\ (y = <<>> <=> m = 0) /\ (z = <<>> <=> Len(z) = 0)
  BY <1>2, EmptySeq
<1> HIDE DEF n, m
<1>4. ASSUME n # 0 PROVE n + m # 0 /\ z[1] = x[1]
  <2>1. 1 \in 1 .. n + m /\ 1 <= n
    BY <1>1, <1>4
  <2> QED BY <1>1, <1>2, <2>1
<1>5. ASSUME m # 0 PROVE n + m # 0 /\ z[n + m] = y[m]
  <2>1. n + m \in 1 .. n + m /\ ~(n + m <= n) /\ (n + m) - n = m
    BY <1>1, <1>5
  <2>2. z[n + m] = y[(n + m) - n]
    BY <1>2, <2>1
  <2> QED BY <1>1, <1>5, <2>1, <2>2
<1> QED BY <1>2, <1>3, <1>4, <1>5 DEF m

\* What a record must be for its rule to be read as the same record.
Clean(r) ==
  /\ r \in Fields
  /\ NoText \notin {r.domain, r.type, r.value}
  /\ Unmarked(r.domain)
  /\ Trimmed(r.type) /\ Trimmed(r.value)
  /\ ";" \notin ToSet(r.type)
  /\ ToUpper(r.type) = r.type

LEMMA HeadIs ==
  ASSUME NEW r \in Fields, Unmarked(r.domain)
  PROVE  /\ Head1(r) \in Text /\ Len(Head1(r)) = Len(r.domain) + 1
         /\ Head1(r)[1] = "||"
         /\ \A i \in 1 .. Len(r.domain) : Head1(r)[i + 1] = r.domain[i]
         /\ Unmarked(Head1(r))
<1> DEFINE d == r.domain
           n == Len(d)
           o == <<"||">>
           h == o \o d
<1>1. d \in Seq(Tokens)
  BY DEF Fields, Text
<1>2. o \in Seq(Tokens) /\ Len(o) = 1 /\ o[1] = "||"
  BY TokensAssumption, OneToken DEF Separators, Text
<1>3. n \in Nat
  BY <1>1, LenProperties
<1>4. Unmarked(d)
  OBVIOUS
<1>5. h = Head1(r)
  BY DEF Head1
<1> HIDE DEF d, o
<1>6. /\ h \in Seq(Tokens) /\ Len(h) = Len(o) + Len(d)
      /\ \A i \in 1 .. Len(o) + Len(d) :
           h[i] = IF i <= Len(o) THEN o[i] ELSE d[i - Len(o)]
  BY <1>1, <1>2, ConcatProperties
<1> HIDE DEF h, n
<1>7. /\ Len(h) = n + 1
      /\ \A i \in 1 .. n + 1 : h[i] = IF i <= 1 THEN o[i] ELSE d[i - 1]
  BY <1>2, <1>3, <1>6 DEF n
<1>8. h[1] = "||"
  BY <1>2, <1>3, <1>7
<1>9. ASSUME NEW i \in 1 .. n PROVE h[i + 1] = d[i]
  <2>1. i + 1 \in 1 .. n + 1 /\ ~(i + 1 <= 1) /\ (i + 1) - 1 = i
    BY <1>3
  <2> QED BY <1>7, <2>1
<1>10. Unmarked(h)
  <2> SUFFICES ASSUME NEW i \in 1 .. n, h[i] = "^",
                      h[i + 1] = "$dnsrewrite="
               PROVE  FALSE
    BY <1>3, <1>7 DEF Unmarked
  <2>1. i # 1
    BY <1>8
  <2>2. /\ i - 1 \in 1 .. n - 1 /\ (i - 1) + 1 = i
        /\ i - 1 \in 1 .. n
    BY <1>3, <2>1
  <2>3. h[i] = d[i - 1] /\ h[i + 1] = d[i]
    BY <1>9, <2>2
  <2> QED BY <1>4, <2>2, <2>3 DEF Unmarked, n
<1> QED BY <1>5, <1>6, <1>7, <1>8, <1>9, <1>10 DEF d, n, Text

\* parseDNSRecord on a trimmed line.
Answer(s) == SubSeq(s, Min(Marks(s)) + 2, Len(s))
Read(s) ==
  [domain |-> SubSeq(s, 2, Min(Marks(s)) - 1),
   type   |-> ToUpper(TrimSpace(Before(After(Answer(s), ";"), ";"))),
   value  |-> TrimSpace(After(After(Answer(s), ";"), ";"))]
Readable(s) ==
  /\ IsPrefix(<<"||">>, s)
  /\ Marks(s) # {}
  /\ Cardinality({i \in DOMAIN Answer(s) : Answer(s)[i] = ";"}) >= 2
  /\ ToUpper(Before(Answer(s), ";")) = <<"NOERROR">>
  /\ NoText \notin {Read(s).domain, Read(s).type, Read(s).value}

LEMMA ParseIs ==
  ASSUME NEW line
  PROVE  ParseDNSRecord(line) =
           IF Readable(TrimSpace(line)) THEN Read(TrimSpace(line))
                                        ELSE NotARecord
  BY DEF ParseDNSRecord, Readable, Read, Answer, Marks, Pair

LEMMA BuiltIsText ==
  ASSUME NEW r, Clean(r)
  PROVE  /\ BuildDNSRule(r) \in Text /\ Trimmed(BuildDNSRule(r))
         /\ BuildDNSRule(r) # <<>> /\ BuildDNSRule(r)[1] = "||"
<1> DEFINE h == Head1(r)
           a == Answer1(r)
           hp == h \o Pair
           s == BuildDNSRule(r)
           w == Rest1(r)
           v == r.value
           tc == r.type \o <<";">>
           x == <<"NOERROR">> \o <<";">>
<1>1. /\ r \in Fields /\ v \in Seq(Tokens) /\ r.type \in Seq(Tokens)
      /\ v # <<>> /\ v[Len(v)] \notin White
  BY DEF Clean, Fields, Text, NoText, Trimmed
<1>2. s = hp \o a /\ h \in Seq(Tokens) /\ w \in Seq(Tokens) /\ a \in Seq(Tokens)
  BY <1>1, RulePartsAre DEF Text
<1>3. Pair \in Seq(Tokens) /\ <<";">> \in Seq(Tokens)
      /\ <<"NOERROR">> \in Seq(Tokens)
  BY TokensAssumption, OneToken, PairIs DEF Separators, Text
<1>4. h # <<>> /\ h[1] = "||"
  <2>1. Unmarked(r.domain)
    BY DEF Clean
  <2>2. Len(h) = Len(r.domain) + 1 /\ h[1] = "||"
    BY <1>1, <2>1, HeadIs
  <2>3. Len(r.domain) \in Nat
    BY <1>1, LenProperties DEF Fields, Text
  <2>4. Len(h) # 0
    BY <2>2, <2>3
  <2> QED BY <2>2, <2>4, EmptySeq
<1>5. tc \in Seq(Tokens) /\ x \in Seq(Tokens) /\ hp \in Seq(Tokens)
  BY <1>1, <1>2, <1>3, ConcatProperties
<1>6. w = tc \o v /\ a = x \o w
  BY DEF Rest1, Answer1
<1> HIDE DEF h, a, hp, s, w, v, tc, x
<1>7. w # <<>> /\ w[Len(w)] = v[Len(v)]
  BY <1>1, <1>5, <1>6, EndsOfConcat
<1>8. a # <<>> /\ a[Len(a)] = w[Len(w)]
  BY <1>2, <1>5, <1>6, <1>7, EndsOfConcat
<1>9. s # <<>> /\ s[Len(s)] = a[Len(a)]
  BY <1>2, <1>5, <1>8, EndsOfConcat
<1>10. hp # <<>> /\ hp[1] = h[1]
  BY <1>2, <1>3, <1>4, EndsOfConcat DEF hp
<1>11. s[1] = hp[1]
  BY <1>2, <1>5, <1>10, EndsOfConcat
<1>12. s \in Seq(Tokens)
  BY <1>2, <1>5, ConcatProperties
<1>13. "||" \notin White
  BY DEF White
<1>14. Trimmed(s)
  BY <1>1, <1>4, <1>7, <1>8, <1>9, <1>10, <1>11, <1>13 DEF Trimmed
<1> QED BY <1>4, <1>9, <1>10, <1>11, <1>12, <1>14 DEF s, Text

\* The cut of a text at a separator, and the first mark in a line.
CutLaw(sep) ==
  \A a, b \in Text : sep \notin ToSet(a) =>
    /\ Before(Cat(Cat(a, <<sep>>), b), sep) = a
    /\ After(Cat(Cat(a, <<sep>>), b), sep) = b

LEMMA CutLaws == \A sep \in Tokens : CutLaw(sep)
<1> SUFFICES ASSUME NEW sep \in Tokens, NEW a \in Text, NEW b \in Text,
                    sep \notin ToSet(a)
             PROVE  /\ Before(Cat(Cat(a, <<sep>>), b), sep) = a
                    /\ After(Cat(Cat(a, <<sep>>), b), sep) = b
  BY DEF CutLaw
<1>1. a \in Seq(Tokens) /\ b \in Seq(Tokens)
  BY DEF Text
<1> DEFINE s == Cat(Cat(a, <<sep>>), b)
<1>2. s = Cat(Cat(a, <<sep>>), b)
  OBVIOUS
<1> HIDE DEF s
<1>3. Before(s, sep) = a /\ After(s, sep) = b
  BY <1>1, <1>2, CutAt
<1> QED BY <1>3 DEF s

MarkLaw(h, a, s) ==
  /\ s \in Text /\ Len(s) = Len(h) + 2 + Len(a)
  /\ Marks(s) # {} /\ Min(Marks(s)) = Len(h) + 1
  /\ \A i \in 1 .. Len(h) : s[i] = h[i]
  /\ SubSeq(s, Len(h) + 3, Len(s)) = a

LEMMA MarkLaws ==
  \A h, a \in Text : Unmarked(h) => MarkLaw(h, a, Cat(Cat(h, Pair), a))
<1> SUFFICES ASSUME NEW h \in Text, NEW a \in Text, Unmarked(h)
             PROVE  MarkLaw(h, a, Cat(Cat(h, Pair), a))
  OBVIOUS
<1> DEFINE s == (h \o Pair) \o a
<1>1. s = (h \o Pair) \o a
  OBVIOUS
<1> HIDE DEF s
<1>2. MarkLaw(h, a, s)
  BY <1>1, MarkAt DEF MarkLaw
<1> QED BY <1>2 DEF s, Cat

\* The rule of a clean record is read as that record.
LEMMA BuiltIsParsed ==
  ASSUME NEW r, Clean(r)
  PROVE  ParseDNSRecord(BuildDNSRule(r)) = r
<1> DEFINE h == Head1(r)
           a == Answer1(r)
           s == BuildDNSRule(r)
           w == Rest1(r)
           d == r.domain
           n == Len(d)
<1>1. /\ r \in Fields /\ d \in Text /\ r.type \in Text /\ r.value \in Text
      /\ Unmarked(d) /\ NoText \notin {d, r.type, r.value}
  BY DEF Clean, Fields
<1>2. /\ s = (h \o Pair) \o a /\ h \in Text /\ w \in Text /\ a \in Text
  BY <1>1, RulePartsAre
<1>3. /\ Len(h) = n + 1 /\ Unmarked(h) /\ h[1] = "||"
      /\ \A i \in 1 .. n : h[i + 1] = d[i]
  BY <1>1, HeadIs
<1>4. /\ s \in Text /\ Trimmed(s) /\ s # <<>> /\ s[1] = "||"
  BY BuiltIsText
<1>5. TrimSpace(s) = s
  BY <1>4, TrimNothing DEF Text
<1>6. n \in Nat /\ Len(a) \in Nat /\ Len(s) \in Nat
  BY <1>1, <1>2, <1>4, LenProperties DEF Text
<1>7. Cardinality({i \in DOMAIN a : a[i] = ";"}) >= 2
  BY <1>1, AnswerIs
<1>8. Before(a, ";") = <<"NOERROR">> /\ After(a, ";") = w
  <2> DEFINE N == <<"NOERROR">>
  <2>1. N \in Seq(Tokens) /\ ";" \in Tokens /\ ";" \notin ToSet(N)
    <3>1. "NOERROR" \in Tokens /\ ";" \in Tokens
      BY TokensAssumption DEF Separators
    <3>2. N \in Seq(Tokens)
      BY <3>1, OneToken DEF Text
    <3>3. DOMAIN N = {1} /\ N[1] = "NOERROR"
      OBVIOUS
    <3> HIDE DEF N
    <3> QED BY <3>1, <3>2, <3>3 DEF ToSet
  <2>2. a = Cat(Cat(N, <<";">>), w)
    BY DEF Answer1, Cat
  <2> HIDE DEF N, a, w
  <2>3. N \in Text /\ CutLaw(";")
    BY <2>1, CutLaws DEF Text
  <2>4. Before(a, ";") = N /\ After(a, ";") = w
    BY <1>2, <2>1, <2>2, <2>3 DEF CutLaw
  <2> QED BY <2>4 DEF N
<1>9. Before(w, ";") = r.type /\ After(w, ";") = r.value
  <2> DEFINE t == r.type
             v == r.value
  <2>1. t \in Text /\ v \in Text /\ ";" \notin ToSet(t)
    BY <1>1 DEF Clean
  <2>2. w = Cat(Cat(t, <<";">>), v)
    BY DEF Rest1, Cat
  <2>3. CutLaw(";")
    BY TokensAssumption, CutLaws DEF Separators
  <2> HIDE DEF w, t, v
  <2>4. Before(w, ";") = t /\ After(w, ";") = v
    BY <2>1, <2>2, <2>3 DEF CutLaw
  <2> QED BY <2>4 DEF t, v
<1>10. TrimSpace(r.type) = r.type /\ TrimSpace(r.value) = r.value
       /\ ToUpper(r.type) = r.type
  BY <1>1, TrimNothing DEF Clean, Text
<1>11. ToUpper(<<"NOERROR">>) = <<"NOERROR">>
  <2>1. "NOERROR" \notin DOMAIN Capital
    BY CapitalAssumption
  <2>2. DOMAIN <<"NOERROR">> = {1} /\ <<"NOERROR">>[1] = "NOERROR"
    OBVIOUS
  <2> DEFINE N == <<"NOERROR">>
             M == [i \in {1} |-> "NOERROR"]
  <2>3. ToUpper(N) = [i \in DOMAIN N |->
                        IF N[i] \in DOMAIN Capital THEN Capital[N[i]] ELSE N[i]]
    BY DEF ToUpper
  <2>4. N = [i \in {1} |-> N[i]]
    OBVIOUS
  <2> HIDE DEF N
  <2>5. ToUpper(N) = [i \in {1} |-> N[i]]
    BY <2>1, <2>2, <2>3 DEF N
  <2> QED BY <2>4, <2>5 DEF N
<1> HIDE DEF h, a, s, w, d, n
<1>12. /\ Marks(s) # {} /\ Min(Marks(s)) = Len(h) + 1
       /\ \A i \in 1 .. Len(h) : s[i] = h[i]
       /\ SubSeq(s, Len(h) + 3, Len(s)) = a
       /\ Len(s) = Len(h) + 2 + Len(a)
  <2>1. s = Cat(Cat(h, Pair), a)
    BY <1>2 DEF Cat
  <2>2. MarkLaw(h, a, s)
    BY <1>2, <1>3, <2>1, MarkLaws
  <2> QED BY <2>2 DEF MarkLaw
<1>13. Answer(s) = a
  <2>1. Min(Marks(s)) + 2 = Len(h) + 3
    BY <1>3, <1>6, <1>12
  <2> QED BY <1>12, <2>1 DEF Answer
<1>14. SubSeq(s, 2, Min(Marks(s)) - 1) = d
  <2>1. Min(Marks(s)) - 1 = n + 1 /\ n + 1 <= Len(s) /\ n + 1 \in Int
        /\ 2 \in Nat \ {0}
    BY <1>3, <1>6, <1>12
  <2> DEFINE p == SubSeq(s, 2, n + 1)
  <2>2. /\ p \in Seq(Tokens) /\ Len(p) = IF 2 <= n + 1 THEN n + 1 - 2 + 1 ELSE 0
        /\ \A i \in 1 .. n + 1 - 2 + 1 : p[i] = s[2 + i - 1]
    <3>1. s \in Seq(Tokens)
      BY <1>4 DEF Text
    <3> DEFINE e == n + 1
    <3>2. e \in Int /\ e <= Len(s)
      BY <2>1
    <3> HIDE DEF e
    <3>3. /\ SubSeq(s, 2, e) \in Seq(Tokens)
          /\ Len(SubSeq(s, 2, e)) = IF 2 <= e THEN e - 2 + 1 ELSE 0
          /\ \A i \in 1 .. e - 2 + 1 : SubSeq(s, 2, e)[i] = s[2 + i - 1]
      BY <3>1, <3>2, PartIs
    <3>4. p = SubSeq(s, 2, e)
      BY DEF e
    <3> HIDE DEF p
    <3>5. /\ p \in Seq(Tokens)
          /\ Len(p) = IF 2 <= e THEN e - 2 + 1 ELSE 0
          /\ \A i \in 1 .. e - 2 + 1 : p[i] = s[2 + i - 1]
      BY <3>3, <3>4
    <3> QED BY <1>6, <3>5 DEF e
  <2>3. Len(p) = n
    BY <1>6, <2>2
  <2>4. ASSUME NEW i \in 1 .. n PROVE p[i] = d[i]
    <3>1. i \in 1 .. n + 1 - 2 + 1 /\ 2 + i - 1 = i + 1 /\ i + 1 \in 1 .. n + 1
      BY <1>6
    <3>2. p[i] = s[i + 1] /\ s[i + 1] = h[i + 1]
      BY <1>3, <1>12, <2>2, <3>1
    <3> QED BY <1>3, <3>2
  <2> HIDE DEF p
  <2>5. p = d
    BY <1>1, <2>2, <2>3, <2>4, SeqEqual DEF Text, n
  <2> QED BY <2>1, <2>5 DEF p
<1>15. Read(s) = [domain |-> d, type |-> r.type, value |-> r.value]
  BY <1>8, <1>9, <1>10, <1>13, <1>14 DEF Read
<1>16. r = [domain |-> d, type |-> r.type, value |-> r.value]
  BY <1>1 DEF Fields, d
<1>17. Read(s) = r
  BY <1>15, <1>16
<1>18. IsPrefix(<<"||">>, s)
  <2>1. Len(s) >= 1
    BY <1>4, <1>6, EmptySeq DEF Text
  <2> QED BY <1>4, <2>1, StartsAsRecord
<1>19. Readable(s)
  BY <1>1, <1>7, <1>8, <1>11, <1>12, <1>13, <1>17, <1>18 DEF Readable, d
<1> QED BY <1>5, <1>17, <1>19, ParseIs DEF s

LEMMA FirstMark ==
  ASSUME NEW s \in Text, Marks(s) # {}
  PROVE  /\ Min(Marks(s)) \in 1 .. Len(s) - 1
         /\ \A i \in 1 .. Len(s) - 1 : i \in Marks(s) => Min(Marks(s)) <= i
<1>1. Len(s) \in Nat
  BY LenProperties DEF Text
<1>2. Marks(s) \in SUBSET Nat /\ Marks(s) \subseteq 1 .. Len(s) - 1
  BY <1>1 DEF Marks
<1> QED BY <1>2, MinIs

LEMMA ParsedIsClean ==
  ASSUME NEW line \in Text, IsRecord(line)
  PROVE  Clean(ParseDNSRecord(line))
<1> DEFINE s == TrimSpace(line)
           r == ParseDNSRecord(line)
           d == SubSeq(s, 2, Min(Marks(s)) - 1)
           rest == After(Answer(s), ";")
           t == Before(rest, ";")
           v == After(rest, ";")
<1>1. s \in Text
  BY TrimKeeps DEF Text
<1>2. Readable(s) /\ r = Read(s)
  BY ParseIs DEF IsRecord
<1>3. /\ Read(s) = [domain |-> d, type |-> ToUpper(TrimSpace(t)),
                    value |-> TrimSpace(v)]
      /\ NoText \notin {Read(s).domain, Read(s).type, Read(s).value}
      /\ Marks(s) # {}
  BY <1>2 DEF Read, Readable
<1> HIDE DEF s
<1>4. Len(s) \in Nat
  BY <1>1, LenProperties DEF Text
<1>5. PICK k \in 1 .. Len(s) - 1 :
        /\ k = Min(Marks(s))
        /\ \A i \in 1 .. Len(s) - 1 : i \in Marks(s) => k <= i
  BY <1>1, <1>3, FirstMark
<1>6. Answer(s) \in Seq(Tokens)
  <2>1. k + 2 \in Nat \ {0} /\ Len(s) \in Int /\ Len(s) <= Len(s)
    BY <1>4
  <2>2. SubSeq(s, k + 2, Len(s)) \in Seq(Tokens)
    BY <1>1, <2>1, PartIs DEF Text
  <2> QED BY <1>5, <2>2 DEF Answer
<1>7. rest \in Seq(Tokens)
  BY <1>6, CutKeeps
<1> HIDE DEF rest
<1>8. t \in Seq(Tokens) /\ ";" \notin ToSet(t) /\ v \in Seq(Tokens)
  BY <1>7, CutKeeps
<1> HIDE DEF t, v
<1>9. /\ TrimSpace(t) \in Text /\ Trimmed(TrimSpace(t))
      /\ ";" \notin ToSet(TrimSpace(t))
      /\ TrimSpace(v) \in Text /\ Trimmed(TrimSpace(v))
  BY <1>8, TrimKeeps DEF Text
<1>10. /\ ToUpper(TrimSpace(t)) \in Text /\ Trimmed(ToUpper(TrimSpace(t)))
       /\ ";" \notin ToSet(ToUpper(TrimSpace(t)))
       /\ ToUpper(ToUpper(TrimSpace(t))) = ToUpper(TrimSpace(t))
  BY <1>9, ToUpperIs DEF Separators
<1>11. d \in Text /\ Unmarked(d)
  <2>1. k - 1 <= Len(s) /\ k - 1 \in Int /\ 2 \in Nat \ {0}
    BY <1>4
  <2> DEFINE p == SubSeq(s, 2, k - 1)
  <2>2. /\ p \in Seq(Tokens)
        /\ Len(p) = IF 2 <= k - 1 THEN k - 1 - 2 + 1 ELSE 0
        /\ \A i \in 1 .. k - 1 - 2 + 1 : p[i] = s[2 + i - 1]
    BY <1>1, <2>1, PartIs DEF Text
  <2> HIDE DEF p
  <2>3. ASSUME NEW i \in 1 .. Len(p) - 1, p[i] = "^",
               p[i + 1] = "$dnsrewrite="
        PROVE  FALSE
    <3>1. Len(p) = k - 2
      BY <2>2
    <3>2. /\ i \in 1 .. k - 1 - 2 + 1 /\ i + 1 \in 1 .. k - 1 - 2 + 1
          /\ 2 + i - 1 = i + 1 /\ 2 + (i + 1) - 1 = (i + 1) + 1
          /\ i + 1 \in 1 .. Len(s) - 1 /\ ~(k <= i + 1)
      BY <1>4, <3>1
    <3>3. s[i + 1] = "^" /\ s[(i + 1) + 1] = "$dnsrewrite="
      BY <2>2, <2>3, <3>2
    <3>4. i + 1 \in Marks(s)
      BY <1>1, <3>2, <3>3, MarksAre
    <3> QED BY <1>5, <3>2, <3>4
  <2>4. Unmarked(p)
    BY <2>3 DEF Unmarked
  <2>5. p = d
    BY <1>5 DEF p
  <2> QED BY <2>2, <2>4, <2>5 DEF Text
<1> HIDE DEF d, r
<1>12. r = [domain |-> d, type |-> ToUpper(TrimSpace(t)),
            value |-> TrimSpace(v)]
  BY <1>2, <1>3
<1>13. NoText \notin {d, ToUpper(TrimSpace(t)), TrimSpace(v)}
  BY <1>3
<1>14. Clean(r)
  BY <1>9, <1>10, <1>11, <1>12, <1>13 DEF Clean, Fields
<1> QED BY <1>14 DEF r

LEMMA ValidatedIsClean ==
  ASSUME NEW form \in Fields, ValidateDNS(form) # NotARecord
  PROVE  Clean(ValidateDNS(form))
<1> DEFINE d == TrimSpace(form.domain)
           t == ToUpper(TrimSpace(form.type))
           v == TrimSpace(form.value)
           r == ValidateDNS(form)
<1>1. form.domain \in Text /\ form.type \in Text /\ form.value \in Text
  BY DEF Fields
<1>2. /\ r = [domain |-> d, type |-> t, value |-> v]
      /\ NoText \notin {d, v} /\ ToSet(d) \cap {" ", ";", "^"} = {}
      /\ t \in {<<w>> : w \in RecordTypes}
  BY DEF ValidateDNS
<1>3. /\ d \in Text /\ v \in Text /\ Trimmed(v)
      /\ TrimSpace(form.type) \in Text /\ Trimmed(TrimSpace(form.type))
  BY <1>1, TrimKeeps DEF Text
<1>4. t \in Text /\ Trimmed(t) /\ ToUpper(t) = t
  BY <1>3, ToUpperIs
<1> HIDE DEF d, t, v, r
<1>5. t # NoText /\ ";" \notin ToSet(t)
  <2>1. PICK w \in RecordTypes : t = <<w>>
    BY <1>2
  <2>2. w # ";"
    BY RecordTypesAssumption DEF Words, Separators
  <2>3. DOMAIN <<w>> = {1} /\ <<w>>[1] = w /\ Len(<<w>>) = 1 /\ Len(<<>>) = 0
    OBVIOUS
  <2>4. DOMAIN t = {1} /\ t[1] = w /\ t # <<>>
    BY <2>1, <2>3
  <2> QED BY <2>2, <2>4 DEF ToSet, NoText
<1>6. Unmarked(d)
  <2> SUFFICES ASSUME NEW i \in 1 .. Len(d) - 1, d[i] = "^" PROVE FALSE
    BY DEF Unmarked
  <2>1. DOMAIN d = 1 .. Len(d) /\ Len(d) \in Nat
    BY <1>3, LenProperties DEF Text
  <2>2. i \in DOMAIN d
    BY <2>1
  <2> QED BY <1>2, <2>2 DEF ToSet
<1>7. Clean(r)
  BY <1>2, <1>3, <1>4, <1>5, <1>6 DEF Clean, Fields
<1> QED BY <1>7 DEF r

-----------------------------------------------------------------------------
(* Lists of lines.                                                         *)

Cleans == {r \in Fields : Clean(r)}
RecordLines == {l \in Text : IsRecord(l)}
OtherLines == {l \in Text : ~IsRecord(l)}
AllowLines == {l \in Text : IsAllowRule(l)}
BlockLines == {l \in Text : ~IsAllowRule(l)}

LEMMA BuiltIsRecord ==
  \A r \in Cleans : /\ BuildDNSRule(r) \in RecordLines
                    /\ BuildDNSRule(r) \in BlockLines
                    /\ ParseDNSRecord(BuildDNSRule(r)) = r
<1> SUFFICES ASSUME NEW r \in Cleans
             PROVE  /\ BuildDNSRule(r) \in RecordLines
                    /\ BuildDNSRule(r) \in BlockLines
                    /\ ParseDNSRecord(BuildDNSRule(r)) = r
  OBVIOUS
<1> DEFINE s == BuildDNSRule(r)
<1>1. Clean(r)
  BY DEF Cleans
<1>2. s \in Text /\ s[1] = "||" /\ ParseDNSRecord(s) = r
  BY <1>1, BuiltIsText, BuiltIsParsed
<1>3. r # NotARecord
  <2>1. NotARecord.domain = NoText
    BY DEF NotARecord
  <2>2. r.domain # NoText
    BY <1>1 DEF Clean
  <2> QED BY <2>1, <2>2
<1> HIDE DEF s
<1>4. ~IsAllowRule(s)
  BY <1>2, StartsAsAllow
<1>5. IsRecord(s)
  BY <1>2, <1>3 DEF IsRecord
<1>6. s \in RecordLines /\ s \in BlockLines
  BY <1>2, <1>4, <1>5 DEF RecordLines, BlockLines
<1> QED BY <1>2, <1>6 DEF s

LEMMA TrimFirst ==
  ASSUME NEW T, NEW s \in Seq(T), s # <<>>, s[1] \notin White
  PROVE  TrimSpace(s) # <<>> /\ TrimSpace(s)[1] = s[1]
<1>1. Len(s) \in Nat /\ Len(s) # 0
  BY LenProperties, EmptySeq
<1>2. 1 \in Dark(s)
  BY <1>1 DEF Dark
<1>3. /\ TrimSpace(s) = SubSeq(s, Min(Dark(s)), Max(Dark(s)))
      /\ Min(Dark(s)) \in Dark(s) /\ Max(Dark(s)) \in Dark(s)
      /\ \A i \in Dark(s) : Min(Dark(s)) <= i /\ i <= Max(Dark(s))
  BY <1>2, TrimIs
<1>4. PICK a \in Dark(s) : a = Min(Dark(s))
  BY <1>3
<1>5. PICK b \in Dark(s) : b = Max(Dark(s))
  BY <1>3
<1>6. a \in 1 .. Len(s) /\ b \in 1 .. Len(s) /\ a <= 1
  BY <1>2, <1>3, <1>4, <1>5 DEF Dark
<1>7. a = 1 /\ b \in Int /\ b <= Len(s) /\ 1 <= b /\ 1 \in Nat \ {0}
  BY <1>1, <1>6
<1> DEFINE p == SubSeq(s, 1, b)
<1>8. /\ p \in Seq(T) /\ Len(p) = b - 1 + 1
      /\ \A i \in 1 .. b - 1 + 1 : p[i] = s[1 + i - 1]
  BY <1>7, PartIs
<1>9. TrimSpace(s) = p
  BY <1>3, <1>4, <1>5, <1>7
<1> HIDE DEF p
<1>10. 1 \in 1 .. b - 1 + 1 /\ 1 + 1 - 1 = 1 /\ b - 1 + 1 # 0
  BY <1>7
<1>11. p[1] = s[1] /\ p # <<>>
  BY <1>8, <1>10, EmptySeq
<1> QED BY <1>9, <1>11

LEMMA AllowIsNoRecord == \A l \in AllowLines : l \in OtherLines
<1> SUFFICES ASSUME NEW l \in AllowLines PROVE ~IsRecord(l)
  BY DEF AllowLines, OtherLines
<1>1. l \in Text /\ IsAllowRule(l)
  BY DEF AllowLines
<1>2. Len(l) >= 2 /\ l[1] = "@@"
  BY <1>1, StartsAsAllow
<1>3. l # <<>> /\ l[1] \notin White
  BY <1>2, EmptySeq DEF White
<1> DEFINE s == TrimSpace(l)
<1>4. s \in Text /\ s[1] = "@@"
  BY <1>1, <1>2, <1>3, TrimFirst, TrimKeeps DEF Text
<1> HIDE DEF s
<1>5. ~IsPrefix(<<"||">>, s)
  BY <1>4, StartsAsRecord
<1>6. ~Readable(s)
  BY <1>5 DEF Readable
<1> QED BY <1>6, ParseIs DEF IsRecord, s

LEMMA AllowIsText ==
  ASSUME NEW d \in Text
  PROVE  BuildAllowRule(d) \in AllowLines
<1> DEFINE p == <<"@@", "||">>
           e == <<"^">>
           pd == p \o d
           s == pd \o e
<1>1. p \in Seq(Tokens) /\ Len(p) = 2
  BY TokensAssumption, TwoTokens DEF Separators, Text
<1>2. p[1] = "@@" /\ p[2] = "||"
  OBVIOUS
<1>3. e \in Seq(Tokens) /\ d \in Seq(Tokens) /\ Len(e) = 1
  BY TokensAssumption, OneToken DEF Separators, Text
<1>4. Len(d) \in Nat
  BY <1>3, LenProperties
<1>5. s = BuildAllowRule(d)
  BY DEF BuildAllowRule
<1> HIDE DEF p, e
<1>6. /\ pd \in Seq(Tokens) /\ Len(pd) = Len(p) + Len(d)
      /\ \A i \in 1 .. Len(p) + Len(d) :
           pd[i] = IF i <= Len(p) THEN p[i] ELSE d[i - Len(p)]
  BY <1>1, <1>3, ConcatProperties
<1> HIDE DEF pd
<1>7. /\ s \in Seq(Tokens) /\ Len(s) = Len(pd) + Len(e)
      /\ \A i \in 1 .. Len(pd) + Len(e) :
           s[i] = IF i <= Len(pd) THEN pd[i] ELSE e[i - Len(pd)]
  <2>1. pd \in Seq(Tokens) /\ e \in Seq(Tokens)
    BY <1>3, <1>6
  <2> QED BY <2>1, ConcatProperties
<1> HIDE DEF s
<1>8. Len(pd) = 2 + Len(d) /\ Len(s) = 3 + Len(d)
  BY <1>1, <1>3, <1>4, <1>6, <1>7
<1>9. pd[1] = "@@" /\ pd[2] = "||"
  BY <1>1, <1>2, <1>4, <1>6
<1>10. s[1] = "@@" /\ s[2] = "||" /\ Len(s) >= 2
  <2>1. /\ 1 \in 1 .. Len(pd) + Len(e) /\ 2 \in 1 .. Len(pd) + Len(e)
        /\ 1 <= Len(pd) /\ 2 <= Len(pd)
    BY <1>3, <1>4, <1>8
  <2> QED BY <1>4, <1>7, <1>8, <1>9, <2>1
<1>11. s \in Text /\ IsAllowRule(s)
  BY <1>7, <1>10, StartsAsAllow DEF Text
<1> QED BY <1>5, <1>11 DEF AllowLines

LEMMA CleanedIsText ==
  ASSUME NEW l \in Text
  PROVE  CleanRule(l) \in Text
<1> DEFINE s == IF IsAllowRule(l) THEN SubSeq(l, 3, Len(l)) ELSE l
           c == IF Contains(s, "^") THEN Before(s, "^") ELSE s
<1>1. SubSeq(l, 3, Len(l)) \in Text
  <2>1. Len(l) \in Nat
    BY LenProperties DEF Text
  <2> QED BY <2>1, PartIs DEF Text
<1>2. s \in Text
  BY <1>1
<1>3. CleanRule(l) = TrimSpace(c)
  BY DEF CleanRule
<1> HIDE DEF s
<1>4. Before(s, "^") \in Text
  BY <1>2, CutKeeps DEF Text
<1>5. c \in Text
  BY <1>2, <1>4
<1> HIDE DEF c
<1> QED BY <1>3, <1>5, TrimKeeps DEF Text

LEMMA ListsAre ==
  \A lines : /\ Passthrough(lines) = Keep(lines, OtherLines)
             /\ NotAllow(lines) = Keep(lines, BlockLines)
  BY DEF Passthrough, NotAllow, OtherLines, BlockLines

LEMMA RecordListIs ==
  ASSUME NEW lines \in Seq(Text)
  PROVE  /\ Keep(lines, RecordLines) \in Seq(RecordLines)
         /\ RecordList(lines) =
              [i \in 1 .. Len(Keep(lines, RecordLines)) |->
                 ParseDNSRecord(Keep(lines, RecordLines)[i])]
         /\ RecordList(lines) \in Seq(Cleans)
<1> DEFINE k == Keep(lines, RecordLines)
           n == Len(k)
           p == [i \in 1 .. n |-> ParseDNSRecord(k[i])]
<1>1. k \in Seq(RecordLines)
  <2>1. k \in Seq(Text \cap RecordLines)
    BY KeepType
  <2>2. Text \cap RecordLines = RecordLines
    BY DEF RecordLines
  <2> QED BY <2>1, <2>2
<1>2. n \in Nat /\ DOMAIN k = 1 .. n /\ \A i \in 1 .. n : k[i] \in RecordLines
  BY <1>1, LenProperties, ElementOfSeq
<1>3. RecordList(lines) = [i \in DOMAIN k |-> ParseDNSRecord(k[i])]
  BY DEF RecordList, RecordLines
<1> HIDE DEF k, n
<1>4. RecordList(lines) = p
  BY <1>2, <1>3
<1>5. \A l \in RecordLines : ParseDNSRecord(l) \in Cleans
  BY ParsedIsClean DEF RecordLines, Cleans, Clean
<1>6. p \in Seq(Cleans)
  <2>1. \A i \in 1 .. n : ParseDNSRecord(k[i]) \in Cleans
    BY <1>2, <1>5
  <2>2. p \in [1 .. n -> Cleans]
    BY <2>1
  <2> HIDE DEF p
  <2> QED BY <1>2, <2>2, SeqDef
<1> QED BY <1>1, <1>4, <1>6 DEF k, n

Built(recs) == [i \in DOMAIN recs |-> BuildDNSRule(recs[i])]

LEMMA BuiltIs ==
  ASSUME NEW recs \in Seq(Cleans)
  PROVE  /\ Built(recs) \in Seq(RecordLines) /\ Built(recs) \in Seq(BlockLines)
         /\ Len(Built(recs)) = Len(recs)
         /\ \A i \in 1 .. Len(recs) :
              Built(recs)[i] = BuildDNSRule(recs[i])
<1> DEFINE n == Len(recs)
           b == [i \in 1 .. n |-> BuildDNSRule(recs[i])]
<1>1. n \in Nat /\ DOMAIN recs = 1 .. n /\ \A i \in 1 .. n : recs[i] \in Cleans
  BY LenProperties, ElementOfSeq
<1>2. Built(recs) = b
  BY <1>1 DEF Built
<1> HIDE DEF n
<1>3. \A i \in 1 .. n : /\ BuildDNSRule(recs[i]) \in RecordLines
                        /\ BuildDNSRule(recs[i]) \in BlockLines
  BY <1>1, BuiltIsRecord
<1>4. /\ b \in [1 .. n -> RecordLines] /\ b \in [1 .. n -> BlockLines]
      /\ DOMAIN b = 1 .. n
      /\ \A i \in 1 .. n : b[i] = BuildDNSRule(recs[i])
  BY <1>3
<1> HIDE DEF b
<1>5. b \in Seq(RecordLines) /\ b \in Seq(BlockLines)
  BY <1>1, <1>4, SeqDef
<1>6. DOMAIN b = 1 .. Len(b) /\ Len(b) \in Nat
  BY <1>5, LenProperties
<1>7. Len(b) = n
  BY <1>1, <1>4, <1>6
<1> QED BY <1>2, <1>4, <1>5, <1>7 DEF n

\* The records of a rebuilt list are those it was rebuilt with.
LEMMA RebuiltIs ==
  ASSUME NEW lines \in Seq(Text), NEW recs \in Seq(Cleans)
  PROVE  /\ Rebuild(lines, recs) \in Seq(Text)
         /\ Passthrough(Rebuild(lines, recs)) = Passthrough(lines)
         /\ RecordList(Rebuild(lines, recs)) = recs
<1> DEFINE p == Keep(lines, OtherLines)
           b == Built(recs)
           s == p \o b
           n == Len(recs)
<1>1. Rebuild(lines, recs) = s
  BY ListsAre DEF Rebuild, Built
<1>2. p \in Seq(Text) /\ p \in Seq(OtherLines)
  <2>1. p \in Seq(Text \cap OtherLines) /\ p \in Seq(Text)
    BY KeepType
  <2>2. Text \cap OtherLines = OtherLines
    BY DEF OtherLines
  <2> QED BY <2>1, <2>2
<1>3. /\ b \in Seq(RecordLines) /\ Len(b) = n
      /\ \A i \in 1 .. n : b[i] = BuildDNSRule(recs[i])
  BY BuiltIs
<1>4. b \in Seq(Text)
  <2>1. RecordLines \subseteq Text
    BY DEF RecordLines
  <2> QED BY <1>3, <2>1, SeqMonotonic
<1> HIDE DEF p, b
<1>5. s \in Seq(Text)
  BY <1>2, <1>4, ConcatProperties
<1>6. /\ Keep(s, OtherLines) = Keep(p, OtherLines) \o Keep(b, OtherLines)
      /\ Keep(s, RecordLines) = Keep(p, RecordLines) \o Keep(b, RecordLines)
  BY <1>2, <1>4, KeepConcat
<1> HIDE DEF s
<1>7. OtherLines \cap RecordLines = {} /\ RecordLines \cap OtherLines = {}
  BY DEF OtherLines, RecordLines
<1>8. Keep(p, OtherLines) = p /\ Keep(b, RecordLines) = b
  BY <1>2, <1>3, KeepAll
<1>9. Keep(p, RecordLines) = <<>> /\ Keep(b, OtherLines) = <<>>
  BY <1>2, <1>3, <1>7, KeepNone
<1>10. p \o <<>> = p /\ <<>> \o b = b
  BY <1>2, <1>3, ConcatEmptySeq
<1>11. Passthrough(s) = p
  BY <1>6, <1>8, <1>9, <1>10, ListsAre
<1>12. Keep(s, RecordLines) = b
  BY <1>6, <1>8, <1>9, <1>10
<1>13. RecordList(s) = [i \in 1 .. n |-> ParseDNSRecord(b[i])]
  BY <1>3, <1>5, <1>12, RecordListIs
<1>14. /\ n \in Nat /\ recs = [i \in 1 .. n |-> recs[i]]
       /\ \A i \in 1 .. n : recs[i] \in Cleans
  BY LenProperties, ElementOfSeq
<1> HIDE DEF n
<1>15. \A i \in 1 .. n : ParseDNSRecord(b[i]) = recs[i]
  BY <1>3, <1>14, BuiltIsRecord
<1>16. RecordList(s) = recs
  BY <1>13, <1>14, <1>15
<1> QED BY <1>1, <1>5, <1>11, <1>16, ListsAre DEF p

LEMMA AllowRulesAre ==
  ASSUME NEW text \in Seq(Text)
  PROVE  AllowRules(text) \in Seq(AllowLines)
<1> DEFINE typed == [i \in DOMAIN text |-> CleanRule(TrimSpace(text[i]))]
           domains == Keep(typed, {d \in Text : d # NoText})
           n == Len(text)
           m == Len(domains)
<1>1. n \in Nat /\ DOMAIN text = 1 .. n /\ \A i \in 1 .. n : text[i] \in Text
  BY LenProperties, ElementOfSeq
<1>2. typed \in Seq(Text)
  <2>1. \A l \in Text : CleanRule(TrimSpace(l)) \in Text
    BY TrimKeeps, CleanedIsText DEF Text
  <2>2. \A i \in 1 .. n : CleanRule(TrimSpace(text[i])) \in Text
    BY <1>1, <2>1
  <2>3. typed \in [1 .. n -> Text]
    BY <1>1, <2>2
  <2> HIDE DEF typed
  <2> QED BY <1>1, <2>3, SeqDef
<1>3. AllowRules(text) = [i \in DOMAIN domains |-> BuildAllowRule(domains[i])]
  BY DEF AllowRules
<1> HIDE DEF typed
<1>4. domains \in Seq(Text)
  BY <1>2, KeepType
<1> HIDE DEF domains
<1>5. /\ m \in Nat /\ DOMAIN domains = 1 .. m
      /\ \A i \in 1 .. m : domains[i] \in Text
  BY <1>4, LenProperties, ElementOfSeq
<1>6. \A i \in 1 .. m : BuildAllowRule(domains[i]) \in AllowLines
  BY <1>5, AllowIsText
<1>7. AllowRules(text) \in [1 .. m -> AllowLines]
  BY <1>3, <1>5, <1>6
<1> QED BY <1>5, <1>7, SeqDef

\* The editor changes the allow rules and nothing else.
LEMMA MergedIs ==
  ASSUME NEW lines \in Seq(Text), NEW text \in Seq(Text)
  PROVE  /\ MergeWhitelist(lines, text) \in Seq(Text)
         /\ NotAllow(MergeWhitelist(lines, text)) = NotAllow(lines)
         /\ RecordList(MergeWhitelist(lines, text)) = RecordList(lines)
<1> DEFINE p == Keep(lines, BlockLines)
           a == AllowRules(text)
           s == p \o a
<1>1. MergeWhitelist(lines, text) = s
  BY ListsAre DEF MergeWhitelist
<1>2. p \in Seq(Text) /\ p \in Seq(BlockLines)
  <2>1. p \in Seq(Text \cap BlockLines) /\ p \in Seq(Text)
    BY KeepType
  <2>2. Text \cap BlockLines = BlockLines
    BY DEF BlockLines
  <2> QED BY <2>1, <2>2
<1>3. a \in Seq(AllowLines)
  BY AllowRulesAre
<1>4. a \in Seq(Text)
  <2>1. AllowLines \subseteq Text
    BY DEF AllowLines
  <2> QED BY <1>3, <2>1, SeqMonotonic
<1>5. Keep(p, RecordLines) = Keep(lines, RecordLines)
  <2>1. \A l \in Text : l \in BlockLines /\ l \in RecordLines
                          <=> l \in RecordLines
    BY AllowIsNoRecord DEF AllowLines, BlockLines, RecordLines, OtherLines
  <2> QED BY <2>1, KeepTwice
<1> HIDE DEF p, a
<1>6. s \in Seq(Text)
  BY <1>2, <1>4, ConcatProperties
<1>7. /\ Keep(s, BlockLines) = Keep(p, BlockLines) \o Keep(a, BlockLines)
      /\ Keep(s, RecordLines) = Keep(p, RecordLines) \o Keep(a, RecordLines)
  BY <1>2, <1>4, KeepConcat
<1> HIDE DEF s
<1>8. AllowLines \cap BlockLines = {} /\ AllowLines \cap RecordLines = {}
  BY AllowIsNoRecord DEF AllowLines, BlockLines, RecordLines, OtherLines
<1>9. Keep(p, BlockLines) = p
  BY <1>2, KeepAll
<1>10. Keep(a, BlockLines) = <<>> /\ Keep(a, RecordLines) = <<>>
  BY <1>3, <1>8, KeepNone
<1>11. Keep(lines, RecordLines) \in Seq(Text)
  BY KeepType
<1>12. p \o <<>> = p
  BY <1>2, ConcatEmptySeq
<1>13. Keep(lines, RecordLines) \o <<>> = Keep(lines, RecordLines)
  BY <1>11, ConcatEmptySeq
<1>14. Keep(s, BlockLines) = p
  BY <1>7, <1>9, <1>10, <1>12
<1>15. Keep(s, RecordLines) = Keep(lines, RecordLines)
  BY <1>5, <1>7, <1>10, <1>13
<1>16. RecordList(s) = RecordList(lines)
  BY <1>6, <1>15, RecordListIs
<1> QED BY <1>1, <1>6, <1>14, <1>16, ListsAre DEF p

-----------------------------------------------------------------------------
(* Adding, dropping and the loop that leaves repetitions out.              *)

LEMMA AddIs ==
  ASSUME NEW T, NEW s \in Seq(T), NEW x \in T
  PROVE  /\ Add(s, x) \in Seq(T)
         /\ ToSet(Add(s, x)) = ToSet(s) \cup {x}
         /\ Add(s, x) = IF x \in ToSet(s) THEN s ELSE Append(s, x)
<1>1. DOMAIN s = 1 .. Len(s)
  BY LenProperties
<1>2. Contains(s, x) <=> x \in ToSet(s)
  BY <1>1 DEF Contains, ToSet
<1>3. Append(s, x) \in Seq(T) /\ ToSet(Append(s, x)) = ToSet(s) \cup {x}
  BY AppendProperties, AppendElements
<1>4. Add(s, x) = IF x \in ToSet(s) THEN s ELSE Append(s, x)
  BY <1>2 DEF Add
<1> QED BY <1>3, <1>4

\* What the loop has seen after each of its turns.
DedupLoop(f, s) ==
  /\ f = [n \in 0 .. Len(s) |-> f[n]]
  /\ f[0] = <<>>
  /\ \A n \in 1 .. Len(s) : f[n] = Add(f[n - 1], s[n])

LEMMA DedupLoopExists ==
  ASSUME NEW T, NEW s \in Seq(T)
  PROVE  \E f : DedupLoop(f, s)
<1> DEFINE P == {r \in Seq(T) : \E f : DedupLoop(f, r)}
<1>1. <<>> \in P
  <2> DEFINE f == [n \in 0 .. 0 |-> <<>>]
  <2>1. <<>> \in Seq(T) /\ Len(<<>>) = 0
    BY EmptySeq
  <2>2. f = [n \in 0 .. 0 |-> f[n]] /\ f[0] = <<>>
    OBVIOUS
  <2> HIDE DEF f
  <2>3. DedupLoop(f, <<>>)
    BY <2>1, <2>2 DEF DedupLoop
  <2> QED BY <2>1, <2>3
<1>2. ASSUME NEW r \in Seq(T), NEW x \in T, r \in P
      PROVE  Append(r, x) \in P
  <2> DEFINE a == Append(r, x)
             N == Len(r)
  <2>1. /\ N \in Nat /\ a \in Seq(T) /\ Len(a) = N + 1
        /\ \A i \in 1 .. N : a[i] = r[i]
        /\ a[N + 1] = x
    BY AppendProperties, LenProperties
  <2>2. PICK f : DedupLoop(f, r)
    BY <1>2
  <2> HIDE DEF a, N
  <2> DEFINE g == [n \in 0 .. N + 1 |-> IF n <= N THEN f[n] ELSE Add(f[N], x)]
  <2>3. /\ g = [n \in 0 .. N + 1 |-> g[n]]
        /\ \A n \in 0 .. N : g[n] = f[n]
        /\ g[N + 1] = Add(g[N], x)
    BY <2>1
  <2> HIDE DEF g
  <2>4. g[0] = <<>>
    <3>1. 0 \in 0 .. N /\ f[0] = <<>>
      BY <2>1, <2>2 DEF DedupLoop
    <3> QED BY <2>3, <3>1
  <2>5. ASSUME NEW n \in 1 .. N + 1 PROVE g[n] = Add(g[n - 1], a[n])
    <3>1. CASE n = N + 1
      BY <2>1, <2>3, <3>1
    <3>2. CASE n # N + 1
      <4>1. n \in 1 .. N /\ n - 1 \in 0 .. N /\ n \in 0 .. N
        BY <2>1, <3>2
      <4>2. f[n] = Add(f[n - 1], r[n])
        BY <2>2, <4>1 DEF DedupLoop, N
      <4> QED BY <2>1, <2>3, <4>1, <4>2
    <3> QED BY <3>1, <3>2
  <2>6. DedupLoop(g, a)
    BY <2>1, <2>3, <2>4, <2>5 DEF DedupLoop
  <2> QED BY <2>1, <2>6 DEF a
<1> HIDE DEF P
<1>3. Seq(T) \subseteq P
  BY <1>1, <1>2, SeqInduction
<1> QED BY <1>3 DEF P

LEMMA DedupIsLoop ==
  ASSUME NEW T, NEW s \in Seq(T)
  PROVE  \E f : DedupLoop(f, s) /\ Dedup(s) = f[Len(s)]
<1> DEFINE N == Len(s)
           body(f, n) == IF n = 0 THEN <<>> ELSE Add(f[n - 1], s[n])
           K == CHOOSE f : f = [n \in 0 .. N |-> body(f, n)]
<1>1. Dedup(s) = K[N]
  BY DEF Dedup
<1>2. PICK g : DedupLoop(g, s)
  BY DedupLoopExists
<1>3. N \in Nat
  BY LenProperties
<1>4. ASSUME NEW n \in 0 .. N PROVE g[n] = body(g, n)
  <2>1. CASE n = 0
    BY <1>2, <2>1 DEF DedupLoop
  <2>2. CASE n # 0
    <3>1. n \in 1 .. N
      BY <1>3, <2>2
    <3> QED BY <1>2, <2>2, <3>1 DEF DedupLoop
  <2> QED BY <2>1, <2>2
<1>5. g = [n \in 0 .. N |-> g[n]]
  BY <1>2 DEF DedupLoop
<1> HIDE DEF body
<1>6. g = [n \in 0 .. N |-> body(g, n)]
  BY <1>4, <1>5
<1>7. K = [n \in 0 .. N |-> body(K, n)]
  BY <1>6
<1> HIDE DEF K
<1>8. \A n \in 0 .. N : K[n] = body(K, n)
  BY <1>7
<1>9. K = [n \in 0 .. N |-> K[n]]
  BY <1>7, <1>8
<1> HIDE DEF N
<1>10. DedupLoop(K, s)
  <2>1. K[0] = <<>>
    BY <1>3, <1>8 DEF body
  <2>2. \A n \in 1 .. N : n \in 0 .. N /\ n # 0
    BY <1>3
  <2>3. \A n \in 1 .. N : K[n] = Add(K[n - 1], s[n])
    BY <1>8, <2>2 DEF body
  <2> QED BY <1>9, <2>1, <2>3 DEF DedupLoop, N
<1> QED BY <1>1, <1>10 DEF N

LEMMA CopiesAre ==
  ASSUME NEW T, NEW s \in Seq(T), NEW r
  PROVE  /\ Copies(s, r) \in Nat
         /\ Copies(s, r) = 0 <=> r \notin ToSet(s)
<1> DEFINE I == {i \in DOMAIN s : s[i] = r}
<1>1. Len(s) \in Nat /\ DOMAIN s = 1 .. Len(s)
  BY LenProperties
<1>2. IsFiniteSet(I)
  <2>1. IsFiniteSet(1 .. Len(s))
    BY <1>1, FS_Interval
  <2> QED BY <1>1, <2>1, FS_Subset
<1>3. I = {} <=> r \notin ToSet(s)
  BY DEF ToSet
<1>4. Copies(s, r) = Cardinality(I)
  BY DEF Copies
<1> HIDE DEF I
<1> QED BY <1>2, <1>3, <1>4, FS_CardinalityType, FS_EmptySet

LEMMA CopiesAppend ==
  ASSUME NEW T, NEW s \in Seq(T), NEW x \in T, NEW r
  PROVE  Copies(Append(s, x), r) =
           IF x = r THEN Copies(s, r) + 1 ELSE Copies(s, r)
<1> DEFINE a == Append(s, x)
           N == Len(s)
           I == {i \in DOMAIN s : s[i] = r}
           J == {i \in DOMAIN a : a[i] = r}
<1>1. /\ N \in Nat /\ DOMAIN s = 1 .. N /\ DOMAIN a = 1 .. N + 1
      /\ \A i \in 1 .. N : a[i] = s[i]
      /\ a[N + 1] = x
  BY AppendProperties, LenProperties
<1>2. Copies(s, r) = Cardinality(I) /\ Copies(a, r) = Cardinality(J)
  BY DEF Copies
<1>3. N + 1 \notin I /\ IsFiniteSet(I)
  <2>1. I \subseteq 1 .. N
    BY <1>1
  <2>2. IsFiniteSet(1 .. N) /\ N + 1 \notin 1 .. N
    BY <1>1, FS_Interval
  <2> HIDE DEF I
  <2> QED BY <2>1, <2>2, FS_Subset
<1> HIDE DEF a, N
<1>4. \A i \in 1 .. N + 1 : i \in 1 .. N \/ i = N + 1
  BY <1>1
<1>5. \A i \in 1 .. N : i \in 1 .. N + 1
  BY <1>1
<1>6. N + 1 \in 1 .. N + 1
  BY <1>1
<1>7. J = IF x = r THEN I \cup {N + 1} ELSE I
  BY <1>1, <1>4, <1>5, <1>6
<1> HIDE DEF I, J
<1>8. Cardinality(I \cup {N + 1}) = Cardinality(I) + 1
  BY <1>3, FS_AddElement
<1> QED BY <1>2, <1>7, <1>8 DEF a

LEMMA AddCopies ==
  ASSUME NEW T, NEW s \in Seq(T), NEW x \in T, NEW r
  PROVE  Copies(Add(s, x), r) =
           IF x = r /\ x \notin ToSet(s) THEN 1 ELSE Copies(s, r)
<1>1. /\ Copies(s, r) \in Nat
      /\ (Copies(s, r) = 0 <=> r \notin ToSet(s))
  BY CopiesAre
<1>2. CASE x \in ToSet(s)
  BY <1>2, AddIs
<1>3. CASE x \notin ToSet(s)
  <2>1. Add(s, x) = Append(s, x)
    BY <1>3, AddIs
  <2>2. Copies(Append(s, x), r) =
          IF x = r THEN Copies(s, r) + 1 ELSE Copies(s, r)
    BY CopiesAppend
  <2> QED BY <1>1, <1>3, <2>1, <2>2
<1> QED BY <1>2, <1>3

LEMMA KeepCopies ==
  ASSUME NEW T, NEW W, NEW s \in Seq(T), NEW r
  PROVE  Copies(Keep(s, W), r) <= Copies(s, r)
<1> DEFINE P == {q \in Seq(T) : Copies(Keep(q, W), r) <= Copies(q, r)}
<1>1. <<>> \in P
  <2>1. <<>> \in Seq(T)
    BY EmptySeq
  <2>2. Copies(<<>>, r) \in Nat
    BY <2>1, CopiesAre
  <2> QED BY <2>1, <2>2, KeepEmpty
<1>2. ASSUME NEW q \in Seq(T), NEW x \in T, q \in P
      PROVE  Append(q, x) \in P
  <2> DEFINE k == Keep(q, W)
  <2>1. /\ k \in Seq(T) /\ Append(q, x) \in Seq(T)
        /\ Keep(Append(q, x), W) = IF x \in W THEN Append(k, x) ELSE k
    <3>1. k \in Seq(T)
      BY KeepType
    <3>2. Append(q, x) \in Seq(T)
      BY AppendProperties
    <3> QED BY <3>1, <3>2, KeepAppend
  <2>2. Copies(k, r) <= Copies(q, r)
    BY <1>2
  <2> HIDE DEF k
  <2>3. Copies(k, r) \in Nat /\ Copies(q, r) \in Nat
    BY <2>1, CopiesAre
  <2>4. Copies(Append(k, x), r) =
          IF x = r THEN Copies(k, r) + 1 ELSE Copies(k, r)
    BY <2>1, CopiesAppend
  <2>5. Copies(Append(q, x), r) =
          IF x = r THEN Copies(q, r) + 1 ELSE Copies(q, r)
    BY CopiesAppend
  <2>6. Copies(Keep(Append(q, x), W), r) <= Copies(Append(q, x), r)
    BY <2>1, <2>2, <2>3, <2>4, <2>5
  <2> QED BY <2>1, <2>6
<1> HIDE DEF P
<1>3. s \in P
  BY <1>1, <1>2, SeqInduction
<1> QED BY <1>3 DEF P

LEMMA DedupAppend ==
  ASSUME NEW T, NEW s \in Seq(T), NEW x \in T
  PROVE  Dedup(Append(s, x)) = Add(Dedup(s), x)
<1> DEFINE a == Append(s, x)
           N == Len(s)
<1>1. /\ N \in Nat /\ a \in Seq(T) /\ Len(a) = N + 1
      /\ \A i \in 1 .. N : a[i] = s[i]
      /\ a[N + 1] = x
  BY AppendProperties, LenProperties
<1>2. PICK f : DedupLoop(f, s) /\ Dedup(s) = f[N]
  BY DedupIsLoop
<1> HIDE DEF a, N
<1>3. PICK g : DedupLoop(g, a) /\ Dedup(a) = g[N + 1]
  BY <1>1, DedupIsLoop
<1>4. /\ f[0] = <<>> /\ g[0] = <<>>
      /\ \A n \in 1 .. N : f[n] = Add(f[n - 1], s[n])
      /\ \A n \in 1 .. N + 1 : g[n] = Add(g[n - 1], a[n])
  BY <1>1, <1>2, <1>3 DEF DedupLoop, N
<1> DEFINE Q == {n \in Nat : n <= N => f[n] = g[n]}
<1>5. 0 \in Q
  BY <1>4
<1>6. ASSUME NEW n \in Nat, n \in Q PROVE n + 1 \in Q
  <2> SUFFICES ASSUME n + 1 <= N PROVE f[n + 1] = g[n + 1]
    OBVIOUS
  <2>1. n + 1 \in 1 .. N /\ n + 1 \in 1 .. N + 1 /\ (n + 1) - 1 = n
    BY <1>1
  <2>2. f[n] = g[n] /\ a[n + 1] = s[n + 1]
    BY <1>1, <1>6, <2>1
  <2> QED BY <1>4, <2>1, <2>2
<1> HIDE DEF Q
<1>7. Nat \subseteq Q
  BY <1>5, <1>6, Induction
<1>8. f[N] = g[N]
  BY <1>1, <1>7 DEF Q
<1>9. N + 1 \in 1 .. N + 1 /\ (N + 1) - 1 = N
  BY <1>1
<1>10. g[N + 1] = Add(g[N], x)
  BY <1>1, <1>4, <1>9
<1> QED BY <1>2, <1>3, <1>8, <1>10 DEF a

LEMMA DedupIs ==
  ASSUME NEW T, NEW s \in Seq(T)
  PROVE  /\ Dedup(s) \in Seq(T)
         /\ ToSet(Dedup(s)) = ToSet(s)
         /\ \A r : Copies(Dedup(s), r) <= 1
<1> DEFINE P == {q \in Seq(T) : /\ Dedup(q) \in Seq(T)
                                /\ ToSet(Dedup(q)) = ToSet(q)
                                /\ \A r : Copies(Dedup(q), r) <= 1}
<1>1. <<>> \in P
  <2>1. <<>> \in Seq(T) /\ Len(<<>>) = 0
    BY EmptySeq
  <2>2. Dedup(<<>>) = <<>>
    BY <2>1, DedupIsLoop DEF DedupLoop
  <2>3. ASSUME NEW r PROVE Copies(<<>>, r) <= 1
    <3>1. r \notin ToSet(<<>>)
      BY DEF ToSet
    <3>2. Copies(<<>>, r) = 0
      BY <2>1, <3>1, CopiesAre
    <3> QED BY <3>2
  <2> DEFINE e == <<>>
  <2> HIDE DEF e
  <2>4. /\ e \in Seq(T) /\ Dedup(e) = e
        /\ \A r : Copies(e, r) <= 1
    BY <2>1, <2>2, <2>3 DEF e
  <2>5. e \in P
    BY <2>4
  <2> QED BY <2>5 DEF e
<1>2. ASSUME NEW q \in Seq(T), NEW x \in T, q \in P
      PROVE  Append(q, x) \in P
  <2> DEFINE d == Dedup(q)
  <2>1. /\ d \in Seq(T) /\ ToSet(d) = ToSet(q)
        /\ \A r : Copies(d, r) <= 1
    BY <1>2
  <2>2. /\ Append(q, x) \in Seq(T)
        /\ ToSet(Append(q, x)) = ToSet(q) \cup {x}
        /\ Dedup(Append(q, x)) = Add(d, x)
    BY AppendProperties, AppendElements, DedupAppend
  <2> HIDE DEF d
  <2>3. Add(d, x) \in Seq(T) /\ ToSet(Add(d, x)) = ToSet(d) \cup {x}
    BY <2>1, AddIs
  <2>4. \A r : Copies(Add(d, x), r) <= 1
    <3> TAKE r
    <3>1. Copies(Add(d, x), r) =
            IF x = r /\ x \notin ToSet(d) THEN 1 ELSE Copies(d, r)
      BY <2>1, AddCopies
    <3> QED BY <2>1, <3>1
  <2> QED BY <2>1, <2>2, <2>3, <2>4
<1> HIDE DEF P
<1>3. s \in P
  BY <1>1, <1>2, SeqInduction
<1> QED BY <1>3 DEF P

-----------------------------------------------------------------------------
(* What the requests do to the lists.                                      *)

LEMMA AddDoes ==
  ASSUME NEW f, AddRecord(f)
  PROVE  /\ ValidateDNS(f) # NotARecord
         /\ list' = [k \in Keys |-> Rebuild(list[k],
                       Add(RecordList(list[k]), ValidateDNS(f)))]
  BY DEF AddRecord, ApplyToAll

LEMMA EditDoes ==
  ASSUME NEW f, NEW row, EditRecord(f, row)
  PROVE  /\ ValidateDNS(f) # NotARecord /\ Named(row) # ValidateDNS(f)
         /\ list' = [k \in Keys |-> Rebuild(list[k],
                       Add(Drop(RecordList(list[k]), Named(row)),
                           ValidateDNS(f)))]
  BY DEF EditRecord, ApplyToAll

LEMMA DeleteDoes ==
  ASSUME NEW row, DeleteRecord(row)
  PROVE  list' = [k \in Keys |-> Rebuild(list[k],
                    Drop(RecordList(list[k]), Named(row)))]
  BY DEF DeleteRecord, ApplyToAll

LEMMA ReconcileDoes ==
  ASSUME Reconcile
  PROVE  list' = [k \in Keys |-> Rebuild(list[k], UnionList)]
  BY DEF Reconcile, ApplyToAll

LEMMA DropIs ==
  ASSUME NEW recs \in Seq(Cleans), NEW r
  PROVE  /\ Drop(recs, r) \in Seq(Cleans)
         /\ ToSet(Drop(recs, r)) = ToSet(recs) \ {r}
         /\ \A q : Copies(Drop(recs, r), q) <= Copies(recs, q)
<1> DEFINE W == {e \in Fields : e # r}
<1>1. Drop(recs, r) = Keep(recs, W)
  BY DEF Drop
<1> HIDE DEF W
<1>2. /\ Keep(recs, W) \in Seq(Cleans)
      /\ ToSet(Keep(recs, W)) = ToSet(recs) \cap W
  BY KeepType
<1>3. ToSet(recs) \subseteq Cleans
  BY ElementsOfSeq
<1>4. ToSet(recs) \cap W = ToSet(recs) \ {r}
  BY <1>3 DEF W, Cleans
<1>5. \A q : Copies(Keep(recs, W), q) <= Copies(recs, q)
  BY KeepCopies
<1> QED BY <1>1, <1>2, <1>4, <1>5

Typed == list \in [Keys -> Seq(Text)]

LEMMA UnionIs ==
  ASSUME Typed
  PROVE  /\ UnionList \in Seq(Cleans)
         /\ ToSet(UnionList) \subseteq Cleans
         /\ \A r : Copies(UnionList, r) <= 1
<1>1. "master" \in Keys /\ "backup" \in Keys
  BY DEF Keys
<1>2. list["master"] \in Seq(Text) /\ list["backup"] \in Seq(Text)
  BY <1>1 DEF Typed
<1> DEFINE a == RecordList(list["master"])
           b == RecordList(list["backup"])
<1>3. a \in Seq(Cleans) /\ b \in Seq(Cleans)
  BY <1>2, RecordListIs
<1>4. UnionList = Dedup(a \o b)
  BY DEF UnionList
<1> HIDE DEF a, b
<1>5. a \o b \in Seq(Cleans)
  BY <1>3, ConcatProperties
<1> DEFINE c == a \o b
<1> HIDE DEF c
<1>6. Dedup(c) \in Seq(Cleans) /\ \A r : Copies(Dedup(c), r) <= 1
  BY <1>5, DedupIs DEF c
<1>7. UnionList \in Seq(Cleans) /\ \A r : Copies(UnionList, r) <= 1
  BY <1>4, <1>6 DEF c
<1> QED BY <1>7, ElementsOfSeq

\* A request of the record form writes the rules of clean records.
LEMMA RecordRequestIs ==
  ASSUME Typed, RecordRequest
  PROVE  \E recs \in [Keys -> Seq(Cleans)] :
           list' = [k \in Keys |-> Rebuild(list[k], recs[k])]
<1>1. \A k \in Keys : RecordList(list[k]) \in Seq(Cleans)
  BY RecordListIs DEF Typed
<1>2. \A f \in RecordForms :
        ValidateDNS(f) # NotARecord => ValidateDNS(f) \in Cleans
  BY FormsAssumption, ValidatedIsClean DEF Cleans, Clean
<1>3. ASSUME NEW f \in RecordForms, AddRecord(f)
      PROVE  \E recs \in [Keys -> Seq(Cleans)] :
               list' = [k \in Keys |-> Rebuild(list[k], recs[k])]
  <2> DEFINE recs == [k \in Keys |->
                        Add(RecordList(list[k]), ValidateDNS(f))]
  <2>1. /\ ValidateDNS(f) \in Cleans
        /\ list' = [k \in Keys |-> Rebuild(list[k],
                      Add(RecordList(list[k]), ValidateDNS(f)))]
    BY <1>2, <1>3, AddDoes
  <2>2. \A k \in Keys : Add(RecordList(list[k]), ValidateDNS(f)) \in Seq(Cleans)
    BY <1>1, <2>1, AddIs
  <2>3. recs \in [Keys -> Seq(Cleans)]
    BY <2>2
  <2>4. list' = [k \in Keys |-> Rebuild(list[k], recs[k])]
    BY <2>1
  <2> QED BY <2>3, <2>4
<1>4. ASSUME NEW f \in RecordForms, NEW row \in Rows, EditRecord(f, row)
      PROVE  \E recs \in [Keys -> Seq(Cleans)] :
               list' = [k \in Keys |-> Rebuild(list[k], recs[k])]
  <2> DEFINE drop(k) == Drop(RecordList(list[k]), Named(row))
             recs == [k \in Keys |-> Add(drop(k), ValidateDNS(f))]
  <2>1. /\ ValidateDNS(f) \in Cleans
        /\ list' = [k \in Keys |-> Rebuild(list[k],
                      Add(drop(k), ValidateDNS(f)))]
    BY <1>2, <1>4, EditDoes
  <2>2. \A k \in Keys : drop(k) \in Seq(Cleans)
    BY <1>1, DropIs
  <2>3. \A k \in Keys : Add(drop(k), ValidateDNS(f)) \in Seq(Cleans)
    BY <2>1, <2>2, AddIs
  <2> HIDE DEF drop
  <2>4. recs \in [Keys -> Seq(Cleans)]
    BY <2>3
  <2>5. list' = [k \in Keys |-> Rebuild(list[k], recs[k])]
    BY <2>1
  <2> QED BY <2>4, <2>5
<1>5. ASSUME NEW row \in Rows, DeleteRecord(row)
      PROVE  \E recs \in [Keys -> Seq(Cleans)] :
               list' = [k \in Keys |-> Rebuild(list[k], recs[k])]
  <2> DEFINE recs == [k \in Keys |-> Drop(RecordList(list[k]), Named(row))]
  <2>1. list' = [k \in Keys |-> Rebuild(list[k],
                   Drop(RecordList(list[k]), Named(row)))]
    BY <1>5, DeleteDoes
  <2>2. \A k \in Keys : Drop(RecordList(list[k]), Named(row)) \in Seq(Cleans)
    BY <1>1, DropIs
  <2>3. recs \in [Keys -> Seq(Cleans)]
    BY <2>2
  <2>4. list' = [k \in Keys |-> Rebuild(list[k], recs[k])]
    BY <2>1
  <2> QED BY <2>3, <2>4
<1>6. ASSUME Reconcile
      PROVE  \E recs \in [Keys -> Seq(Cleans)] :
               list' = [k \in Keys |-> Rebuild(list[k], recs[k])]
  <2> DEFINE recs == [k \in Keys |-> UnionList]
  <2>1. list' = [k \in Keys |-> Rebuild(list[k], UnionList)]
    BY <1>6, ReconcileDoes
  <2>2. recs \in [Keys -> Seq(Cleans)]
    BY UnionIs
  <2>3. list' = [k \in Keys |-> Rebuild(list[k], recs[k])]
    BY <2>1
  <2> QED BY <2>2, <2>3
<1> QED BY <1>3, <1>4, <1>5, <1>6 DEF RecordRequest

LEMMA EditorRequestIs ==
  ASSUME Typed, EditorRequest
  PROVE  /\ list' \in [Keys -> Seq(Text)]
         /\ \A k \in Keys : /\ NotAllow(list'[k]) = NotAllow(list[k])
                            /\ RecordList(list'[k]) = RecordList(list[k])
<1>1. PICK k \in Keys, text \in EditorTexts : Whitelist(k, text)
  BY DEF EditorRequest
<1>2. list' = [list EXCEPT ![k] = MergeWhitelist(list[k], text)]
  BY <1>1 DEF Whitelist
<1>3. list \in [Keys -> Seq(Text)] /\ text \in Seq(Text)
  BY <1>1, ListsAssumption DEF Typed
<1>4. /\ MergeWhitelist(list[k], text) \in Seq(Text)
      /\ NotAllow(MergeWhitelist(list[k], text)) = NotAllow(list[k])
      /\ RecordList(MergeWhitelist(list[k], text)) = RecordList(list[k])
  BY <1>3, MergedIs
<1> QED BY <1>2, <1>3, <1>4

LEMMA TypedAlways == Spec => []Typed
<1>1. Init => Typed
  BY ListsAssumption DEF Init, Typed
<1>2. ASSUME Typed, [Next]_list PROVE Typed'
  <2>1. CASE RecordRequest
    <3>1. PICK recs \in [Keys -> Seq(Cleans)] :
            list' = [k \in Keys |-> Rebuild(list[k], recs[k])]
      BY <1>2, <2>1, RecordRequestIs
    <3>2. \A k \in Keys : Rebuild(list[k], recs[k]) \in Seq(Text)
      BY <1>2, <3>1, RebuiltIs DEF Typed
    <3> QED BY <3>1, <3>2 DEF Typed
  <2>2. CASE EditorRequest
    BY <1>2, <2>2, EditorRequestIs DEF Typed
  <2>3. CASE SyncRequest
    BY <1>2, <2>3 DEF SyncRequest, Sync, Typed
  <2>4. CASE UNCHANGED list
    BY <1>2, <2>4 DEF Typed
  <2> QED BY <1>2, <2>1, <2>2, <2>3, <2>4 DEF Next
<1> QED BY <1>1, <1>2, PTL DEF Spec

LEMMA RowsAre ==
  ASSUME Typed
  PROVE  Rows = ToSet(UnionList) /\ Rows \subseteq Cleans
<1> DEFINE U == ToSet(UnionList)
<1>1. U \subseteq Cleans
  BY UnionIs
<1> HIDE DEF U
<1>2. \A q \in U : q = [domain |-> q.domain, type |-> q.type, value |-> q.value]
  BY <1>1 DEF Cleans, Fields
<1>3. Page = GroupByBaseDomain(U)
  BY DEF Page, U
<1>4. ASSUME NEW r \in Rows PROVE r \in U
  <2>1. PICK row \in UNION {group.records : group \in Page} :
          r = [domain |-> row.domain, type |-> row.type, value |-> row.value]
    BY DEF Rows
  <2>2. PICK group \in Page : row \in group.records
    BY <2>1
  <2>3. PICK z : group = [domain |-> z,
                          records |-> {Row(q) : q \in
                             {e \in U : BaseDomain(e.domain) = z}}]
    BY <1>3, <2>2 DEF GroupByBaseDomain
  <2>4. PICK q \in U : row = Row(q)
    BY <2>2, <2>3
  <2>5. row.domain = q.domain /\ row.type = q.type /\ row.value = q.value
    BY <2>4 DEF Row
  <2> QED BY <1>2, <2>1, <2>4, <2>5
<1>5. ASSUME NEW q \in U PROVE q \in Rows
  <2> DEFINE z == BaseDomain(q.domain)
             R == {Row(e) : e \in {e \in U : BaseDomain(e.domain) = z}}
             group == [domain |-> z, records |-> R]
  <2>1. group \in Page
    BY <1>3 DEF GroupByBaseDomain
  <2>2. Row(q) \in R
    OBVIOUS
  <2>3. group.records = R
    OBVIOUS
  <2> HIDE DEF group, R
  <2>4. Row(q) \in UNION {g.records : g \in Page}
    BY <2>1, <2>2, <2>3
  <2>5. /\ Row(q).domain = q.domain /\ Row(q).type = q.type
        /\ Row(q).value = q.value
    BY DEF Row
  <2> QED BY <1>2, <2>4, <2>5 DEF Rows
<1> QED BY <1>1, <1>4, <1>5 DEF U

(***************************************************************************)
(* What a row of the page or the record form gives is written as a rule    *)
(* that is read as the same record.                                        *)
(***************************************************************************)
THEOREM RecordsRoundTrip == Spec => []RoundTrips
<1>1. Typed => RoundTrips
  <2> SUFFICES ASSUME Typed,
                      NEW r \in Rows \cup ({ValidateDNS(f) : f \in RecordForms}
                                             \ {NotARecord})
               PROVE  ParseDNSRecord(BuildDNSRule(r)) = r
    BY DEF RoundTrips
  <2>1. CASE r \in Rows
    BY <2>1, RowsAre, BuiltIsParsed DEF Cleans
  <2>2. CASE r \notin Rows
    <3>1. PICK f \in RecordForms : r = ValidateDNS(f) /\ r # NotARecord
      BY <2>2
    <3>2. Clean(r)
      BY <3>1, FormsAssumption, ValidatedIsClean
    <3> QED BY <3>2, BuiltIsParsed
  <2> QED BY <2>1, <2>2
<1> QED BY <1>1, TypedAlways, PTL

(***************************************************************************)
(* The editor leaves every line that is not an allow rule where it was.    *)
(***************************************************************************)
THEOREM EditorKeepsTheRest == Spec => EditorOwnsAllows
<1>1. ASSUME Typed, [Next]_list
      PROVE  [EditorRequest => \A k \in Keys :
                NotAllow(list'[k]) = NotAllow(list[k])]_list
  BY <1>1, EditorRequestIs
<1> QED BY <1>1, TypedAlways, PTL DEF Spec, EditorOwnsAllows

(***************************************************************************)
(* The record requests leave every line that is no record where it was.    *)
(***************************************************************************)
THEOREM ForeignLinesStay == Spec => ForeignLinesVerbatim
<1> DEFINE A == \A k \in Keys : \/ Passthrough(list'[k]) = Passthrough(list[k])
                                \/ EditorRequest
                                \/ SyncRequest
<1>1. ASSUME Typed, [Next]_list PROVE [A]_list
  <2>1. CASE RecordRequest
    <3>1. PICK recs \in [Keys -> Seq(Cleans)] :
            list' = [k \in Keys |-> Rebuild(list[k], recs[k])]
      BY <1>1, <2>1, RecordRequestIs
    <3>2. \A k \in Keys :
            Passthrough(Rebuild(list[k], recs[k])) = Passthrough(list[k])
      BY <1>1, <3>1, RebuiltIs DEF Typed
    <3> QED BY <3>1, <3>2
  <2>2. CASE EditorRequest \/ SyncRequest
    BY <2>2
  <2>3. CASE UNCHANGED list
    BY <2>3
  <2> QED BY <1>1, <2>1, <2>2, <2>3 DEF Next
<1> QED BY <1>1, TypedAlways, PTL DEF Spec, ForeignLinesVerbatim

LEMMA MaxOfOne ==
  ASSUME NEW n \in Nat
  PROVE  1 <= Max({1, n}) /\ n <= Max({1, n}) /\ Max({1, n}) \in Nat
<1> DEFINE I == {1, n}
           N == n + 1
<1>1. I \in SUBSET (0 .. N) /\ I # {} /\ N \in Nat
  OBVIOUS
<1> HIDE DEF I
<1>2. Max(I) \in I /\ \A y \in I : y <= Max(I)
  BY <1>1, MaxIs
<1> QED BY <1>2 DEF I

(***************************************************************************)
(* No request writes a second copy of a record that it did not find twice. *)
(***************************************************************************)
THEOREM NoDuplicatesWritten == Spec => NoNewDuplicates
<1> DEFINE
     More(k) == \A before \in {RecordList(list[k])},
                  after \in {RecordList(list'[k])} :
                  \A r \in ToSet(after) :
                    Copies(after, r) <= Max({1, Copies(before, r)})
     A == SyncRequest \/ \A k \in Keys : More(k)
<1>1. ASSUME Typed, [Next]_list PROVE [A]_list
  <2> DEFINE old(k) == RecordList(list[k])
  <2>1. \A k \in Keys : list[k] \in Seq(Text) /\ old(k) \in Seq(Cleans)
    BY <1>1, RecordListIs DEF Typed
  <2>2. ASSUME NEW recs \in [Keys -> Seq(Cleans)],
               list' = [k \in Keys |-> Rebuild(list[k], recs[k])],
               \A k \in Keys : \A r :
                 Copies(recs[k], r) <= 1 \/ Copies(recs[k], r) <= Copies(old(k), r)
        PROVE  A
    <3> SUFFICES ASSUME NEW k \in Keys, NEW r
                 PROVE  Copies(RecordList(list'[k]), r)
                          <= Max({1, Copies(old(k), r)})
      OBVIOUS
    <3>1. list'[k] = Rebuild(list[k], recs[k]) /\ recs[k] \in Seq(Cleans)
      BY <2>2
    <3>2. RecordList(list'[k]) = recs[k]
      BY <2>1, <3>1, RebuiltIs
    <3>3. Copies(old(k), r) \in Nat /\ Copies(recs[k], r) \in Nat
      BY <2>1, <3>1, CopiesAre
    <3>4. /\ 1 <= Max({1, Copies(old(k), r)})
          /\ Copies(old(k), r) <= Max({1, Copies(old(k), r)})
          /\ Max({1, Copies(old(k), r)}) \in Nat
      BY <3>3, MaxOfOne
    <3>5. Copies(recs[k], r) <= 1 \/ Copies(recs[k], r) <= Copies(old(k), r)
      BY <2>2
    <3> QED BY <3>2, <3>3, <3>4, <3>5
  <2> HIDE DEF A
  <2>3. \A f \in RecordForms :
          ValidateDNS(f) # NotARecord => ValidateDNS(f) \in Cleans
    BY FormsAssumption, ValidatedIsClean DEF Cleans, Clean
  <2>4. ASSUME NEW f \in RecordForms, AddRecord(f) PROVE A
    <3> DEFINE x == ValidateDNS(f)
               recs == [k \in Keys |-> Add(old(k), x)]
    <3>1. x \in Cleans /\ list' = [k \in Keys |-> Rebuild(list[k], Add(old(k), x))]
      BY <2>3, <2>4, AddDoes
    <3> HIDE DEF x, old
    <3>2. \A k \in Keys : Add(old(k), x) \in Seq(Cleans)
      BY <2>1, <3>1, AddIs
    <3>3. \A k \in Keys : \A r : Copies(Add(old(k), x), r) <= 1
                              \/ Copies(Add(old(k), x), r) <= Copies(old(k), r)
      <4> TAKE k \in Keys
      <4> TAKE r
      <4>1. Copies(Add(old(k), x), r) =
              IF x = r /\ x \notin ToSet(old(k)) THEN 1 ELSE Copies(old(k), r)
        BY <2>1, <3>1, AddCopies
      <4>2. Copies(old(k), r) \in Nat
        BY <2>1, CopiesAre
      <4> QED BY <4>1, <4>2
    <3>4. recs \in [Keys -> Seq(Cleans)] /\ \A k \in Keys : recs[k] = Add(old(k), x)
      BY <3>2
    <3>5. list' = [k \in Keys |-> Rebuild(list[k], recs[k])]
      BY <3>1
    <3> HIDE DEF recs
    <3> QED BY <2>2, <3>3, <3>4, <3>5
  <2>5. ASSUME NEW f \in RecordForms, NEW row \in Rows, EditRecord(f, row)
        PROVE  A
    <3> DEFINE x == ValidateDNS(f)
               d(k) == Drop(old(k), Named(row))
               recs == [k \in Keys |-> Add(d(k), x)]
    <3>1. x \in Cleans /\ list' = [k \in Keys |-> Rebuild(list[k], Add(d(k), x))]
      BY <2>3, <2>5, EditDoes
    <3> HIDE DEF x, old
    <3>2. \A k \in Keys : /\ d(k) \in Seq(Cleans)
                          /\ \A r : Copies(d(k), r) <= Copies(old(k), r)
      BY <2>1, DropIs
    <3> HIDE DEF d
    <3>3. \A k \in Keys : Add(d(k), x) \in Seq(Cleans)
      BY <3>1, <3>2, AddIs
    <3>4. \A k \in Keys : \A r : Copies(Add(d(k), x), r) <= 1
                              \/ Copies(Add(d(k), x), r) <= Copies(old(k), r)
      <4> TAKE k \in Keys
      <4> TAKE r
      <4>1. Copies(Add(d(k), x), r) =
              IF x = r /\ x \notin ToSet(d(k)) THEN 1 ELSE Copies(d(k), r)
        BY <3>1, <3>2, AddCopies
      <4>2. Copies(d(k), r) <= Copies(old(k), r)
        BY <3>2
      <4> QED BY <4>1, <4>2
    <3>5. recs \in [Keys -> Seq(Cleans)] /\ \A k \in Keys : recs[k] = Add(d(k), x)
      BY <3>3
    <3>6. list' = [k \in Keys |-> Rebuild(list[k], recs[k])]
      BY <3>1
    <3> HIDE DEF recs
    <3> QED BY <2>2, <3>4, <3>5, <3>6
  <2>6. ASSUME NEW row \in Rows, DeleteRecord(row) PROVE A
    <3> DEFINE d(k) == Drop(old(k), Named(row))
               recs == [k \in Keys |-> d(k)]
    <3>1. list' = [k \in Keys |-> Rebuild(list[k], d(k))]
      BY <2>6, DeleteDoes
    <3> HIDE DEF old
    <3>2. \A k \in Keys : /\ d(k) \in Seq(Cleans)
                          /\ \A r : Copies(d(k), r) <= Copies(old(k), r)
      BY <2>1, DropIs
    <3> HIDE DEF d
    <3>3. recs \in [Keys -> Seq(Cleans)] /\ \A k \in Keys : recs[k] = d(k)
      BY <3>2
    <3>4. list' = [k \in Keys |-> Rebuild(list[k], recs[k])]
      BY <3>1
    <3> HIDE DEF recs
    <3> QED BY <2>2, <3>2, <3>3, <3>4
  <2>7. ASSUME Reconcile PROVE A
    <3> DEFINE recs == [k \in Keys |-> UnionList]
    <3>1. list' = [k \in Keys |-> Rebuild(list[k], UnionList)]
      BY <2>7, ReconcileDoes
    <3>2. UnionList \in Seq(Cleans) /\ \A r : Copies(UnionList, r) <= 1
      BY <1>1, UnionIs
    <3>3. recs \in [Keys -> Seq(Cleans)] /\ \A k \in Keys : recs[k] = UnionList
      BY <3>2
    <3>4. list' = [k \in Keys |-> Rebuild(list[k], recs[k])]
      BY <3>1
    <3> HIDE DEF recs
    <3> QED BY <2>2, <3>2, <3>3, <3>4
  <2>8. CASE EditorRequest
    <3> SUFFICES ASSUME NEW k \in Keys, NEW r
                 PROVE  Copies(RecordList(list'[k]), r)
                          <= Max({1, Copies(old(k), r)})
      BY DEF A
    <3>1. RecordList(list'[k]) = old(k)
      BY <1>1, <2>8, EditorRequestIs
    <3>2. Copies(old(k), r) \in Nat
      BY <2>1, CopiesAre
    <3> QED BY <3>1, <3>2, MaxOfOne
  <2>9. CASE SyncRequest
    BY <2>9 DEF A
  <2> QED BY <1>1, <2>4, <2>5, <2>6, <2>7, <2>8, <2>9 DEF Next, RecordRequest
<1> QED BY <1>1, TypedAlways, PTL DEF Spec, NoNewDuplicates

-----------------------------------------------------------------------------
(* The lists as sets of lines.                                             *)

\* The line of the replication model for a line that is no record.
OtherSetLine(l) == IF IsAllowRule(l) THEN [kind |-> "allow", val |-> l]
                                     ELSE [kind |-> "other", val |-> l]

DnsSet(recs) == {[kind |-> "dns", val |-> r] : r \in recs}
OtherSet(lines) == {OtherSetLine(l) : l \in lines}

LEMMA SetIs ==
  ASSUME NEW lines
  PROVE  /\ SetOfLines(lines) = DnsSet(ToSet(RecordList(lines)))
                                  \cup OtherSet(ToSet(Passthrough(lines)))
         /\ Sets!RecordsOf(SetOfLines(lines)) = ToSet(RecordList(lines))
         /\ Sets!Passthrough(SetOfLines(lines))
              = OtherSet(ToSet(Passthrough(lines)))
<1> DEFINE R == ToSet(RecordList(lines))
           P == ToSet(Passthrough(lines))
           D == DnsSet(R)
           O == OtherSet(P)
           S == SetOfLines(lines)
<1>1. S = D \cup O
  BY DEF SetOfLines, DnsSet, OtherSet, OtherSetLine
<1>2. /\ \A l \in O : l.kind # "dns"
      /\ \A l \in D : l.kind = "dns"
  BY DEF OtherSet, OtherSetLine, DnsSet
<1> HIDE DEF R, P, S
<1>3. Sets!OfKind(S, "dns") = D
  <2> HIDE DEF D, O
  <2> QED BY <1>1, <1>2 DEF Sets!OfKind
<1>4. {l.val : l \in D} = R
  <2>1. \A r \in R : [kind |-> "dns", val |-> r] \in D
                       /\ [kind |-> "dns", val |-> r].val = r
    BY DEF DnsSet
  <2>2. \A l \in D : l.val \in R
    BY DEF DnsSet
  <2> HIDE DEF D
  <2> QED BY <2>1, <2>2
<1>5. Sets!RecordsOf(S) = R
  <2> HIDE DEF D
  <2> QED BY <1>3, <1>4 DEF Sets!RecordsOf
<1>6. Sets!Passthrough(S) = O
  <2> HIDE DEF D, O
  <2> QED BY <1>1, <1>2, <1>3 DEF Sets!Passthrough
<1> QED BY <1>1, <1>5, <1>6 DEF R, P, S

LEMMA RebuiltSet ==
  ASSUME NEW lines \in Seq(Text), NEW recs \in Seq(Cleans)
  PROVE  SetOfLines(Rebuild(lines, recs)) =
           Sets!RebuildRules(Sets!Passthrough(SetOfLines(lines)), ToSet(recs))
<1> DEFINE new == Rebuild(lines, recs)
<1>1. Passthrough(new) = Passthrough(lines) /\ RecordList(new) = recs
  BY RebuiltIs
<1>2. SetOfLines(new) = DnsSet(ToSet(RecordList(new)))
                          \cup OtherSet(ToSet(Passthrough(new)))
  BY SetIs
<1>3. Sets!Passthrough(SetOfLines(lines)) = OtherSet(ToSet(Passthrough(lines)))
  BY SetIs
<1>4. \A p : Sets!RebuildRules(p, ToSet(recs)) = p \cup DnsSet(ToSet(recs))
  BY DEF Sets!RebuildRules, Sets!DnsLine, DnsSet
<1> QED BY <1>1, <1>2, <1>3, <1>4

LEMMA ConcatElements ==
  ASSUME NEW T, NEW s \in Seq(T), NEW t \in Seq(T), NEW c, c = Cat(s, t)
  PROVE  ToSet(c) = ToSet(s) \cup ToSet(t)
<1> DEFINE n == Len(s)
           m == Len(t)
<1>1. n \in Nat /\ m \in Nat /\ DOMAIN s = 1 .. n /\ DOMAIN t = 1 .. m
  BY LenProperties
<1>2. /\ c \in Seq(T) /\ Len(c) = n + m
      /\ \A i \in 1 .. n + m : c[i] = IF i <= n THEN s[i] ELSE t[i - n]
  BY ConcatProperties DEF Cat
<1>3. DOMAIN c = 1 .. n + m
  BY <1>2, LenProperties
<1> HIDE DEF n, m
<1>4. ASSUME NEW i \in 1 .. n + m PROVE c[i] \in ToSet(s) \cup ToSet(t)
  <2>1. i <= n => i \in 1 .. n
    BY <1>1
  <2>2. ~(i <= n) => i - n \in 1 .. m
    BY <1>1
  <2> QED BY <1>1, <1>2, <2>1, <2>2 DEF ToSet
<1>5. ASSUME NEW i \in 1 .. n PROVE s[i] \in ToSet(c)
  <2>1. i \in 1 .. n + m /\ i <= n
    BY <1>1
  <2> QED BY <1>2, <1>3, <2>1 DEF ToSet
<1>6. ASSUME NEW i \in 1 .. m PROVE t[i] \in ToSet(c)
  <2>1. n + i \in 1 .. n + m /\ ~(n + i <= n) /\ (n + i) - n = i
    BY <1>1
  <2>2. c[n + i] = t[i]
    BY <1>2, <2>1
  <2> QED BY <1>3, <2>1, <2>2 DEF ToSet
<1>7. ToSet(c) \subseteq ToSet(s) \cup ToSet(t)
  BY <1>3, <1>4 DEF ToSet
<1>8. ToSet(s) \subseteq ToSet(c) /\ ToSet(t) \subseteq ToSet(c)
  BY <1>1, <1>5, <1>6 DEF ToSet
<1> QED BY <1>7, <1>8

LEMMA MergedSet ==
  ASSUME NEW lines \in Seq(Text), NEW text \in Seq(Text)
  PROVE  SetOfLines(MergeWhitelist(lines, text)) =
           Sets!MergeWhitelist(SetOfLines(lines),
                               ToSet(MergeWhitelist(<<>>, text)))
<1> DEFINE p == Keep(lines, BlockLines)
           a == AllowRules(text)
           new == MergeWhitelist(lines, text)
           L == ToSet(lines)
           A == ToSet(a)
           R == ToSet(RecordList(lines))
<1>1. a \in Seq(AllowLines) /\ p \in Seq(Text) /\ ToSet(p) = L \cap BlockLines
  BY AllowRulesAre, KeepType
<1>2. A \subseteq AllowLines /\ a \in Seq(Text)
  <2>1. AllowLines \subseteq Text
    BY DEF AllowLines
  <2> QED BY <1>1, <2>1, ElementsOfSeq, SeqMonotonic
<1>3. new = p \o a
  BY ListsAre DEF MergeWhitelist
<1>4. ToSet(MergeWhitelist(<<>>, text)) = A
  <2>1. MergeWhitelist(<<>>, text) = Keep(<<>>, BlockLines) \o a
    BY ListsAre DEF MergeWhitelist
  <2>2. Keep(<<>>, BlockLines) = <<>>
    BY KeepEmpty
  <2> HIDE DEF a
  <2>3. <<>> \o a = a
    BY <1>1, ConcatEmptySeq
  <2> QED BY <2>1, <2>2, <2>3
<1>5. new \in Seq(Text) /\ RecordList(new) = RecordList(lines)
  BY MergedIs
<1>6. L \subseteq Text
  BY ElementsOfSeq
<1> HIDE DEF new, a, p, L
<1>7. ToSet(new) = (L \cap BlockLines) \cup A
  <2>1. p \in Seq(Text) /\ a \in Seq(Text)
    BY <1>1, <1>2
  <2>2. ToSet(new) = ToSet(p) \cup ToSet(a)
    <3>1. new = Cat(p, a)
      BY <1>3 DEF Cat
    <3> QED BY <2>1, <3>1, ConcatElements
  <2> QED BY <1>1, <2>2
<1>8. /\ ToSet(Passthrough(new)) = ToSet(new) \cap OtherLines
      /\ ToSet(Passthrough(lines)) = L \cap OtherLines
  <2>1. /\ ToSet(Keep(new, OtherLines)) = ToSet(new) \cap OtherLines
        /\ ToSet(Keep(lines, OtherLines)) = ToSet(lines) \cap OtherLines
    BY <1>5, KeepType
  <2> QED BY <2>1, ListsAre DEF L
<1>9. A \subseteq OtherLines
  BY <1>2, AllowIsNoRecord
<1>10. OtherSet(ToSet(Passthrough(new))) =
         OtherSet(L \cap OtherLines \cap BlockLines) \cup OtherSet(A)
  <2>1. ToSet(Passthrough(new)) = (L \cap OtherLines \cap BlockLines) \cup A
    BY <1>7, <1>8, <1>9
  <2>2. \A X, Y : OtherSet(X \cup Y) = OtherSet(X) \cup OtherSet(Y)
    BY DEF OtherSet
  <2> QED BY <2>1, <2>2
<1>11. OtherSet(A) = {Sets!AllowLine(d) : d \in A}
  BY <1>2 DEF OtherSet, OtherSetLine, AllowLines, Sets!AllowLine
<1>12. /\ SetOfLines(lines) = DnsSet(R) \cup OtherSet(L \cap OtherLines)
       /\ SetOfLines(new) = DnsSet(R) \cup OtherSet(ToSet(Passthrough(new)))
  BY <1>5, <1>8, SetIs
<1>13. SetOfLines(lines) \ Sets!OfKind(SetOfLines(lines), "allow")
         = DnsSet(R) \cup OtherSet(L \cap OtherLines \cap BlockLines)
  <2> DEFINE X == L \cap OtherLines
  <2>1. \A l \in DnsSet(R) : l.kind # "allow"
    BY DEF DnsSet
  <2>2. \A l \in X : /\ l \in BlockLines => OtherSetLine(l).kind # "allow"
                     /\ l \notin BlockLines => OtherSetLine(l).kind = "allow"
    BY <1>6 DEF BlockLines, OtherSetLine
  <2>3. \A l \in OtherSet(X) :
          l.kind # "allow" <=> l \in OtherSet(X \cap BlockLines)
    <3>1. ASSUME NEW l \in OtherSet(X), l.kind # "allow"
          PROVE  l \in OtherSet(X \cap BlockLines)
      BY <2>2, <3>1 DEF OtherSet
    <3>2. ASSUME NEW l \in OtherSet(X \cap BlockLines)
          PROVE  l.kind # "allow"
      BY <2>2, <3>2 DEF OtherSet
    <3> QED BY <3>1, <3>2
  <2>4. OtherSet(X \cap BlockLines) \subseteq OtherSet(X)
    BY DEF OtherSet
  <2> HIDE DEF X, R
  <2>5. SetOfLines(lines) = DnsSet(R) \cup OtherSet(X)
    BY <1>12 DEF X
  <2>6. SetOfLines(lines) \ Sets!OfKind(SetOfLines(lines), "allow")
          = DnsSet(R) \cup OtherSet(X \cap BlockLines)
    BY <2>1, <2>3, <2>4, <2>5 DEF Sets!OfKind
  <2> QED BY <2>6 DEF X
<1>14. SetOfLines(new) =
         Sets!MergeWhitelist(SetOfLines(lines), A)
  <2> HIDE DEF A, R
  <2> QED BY <1>10, <1>11, <1>12, <1>13 DEF Sets!MergeWhitelist
<1> QED BY <1>4, <1>14 DEF new

\* The effect of a request on both servers, one server at a time.
LEMMA EffectIs ==
  ASSUME NEW q, NEW lists,
         \A k \in Keys : SetOfLines(lists[k]) =
           Sets!Effect(q, Both, Keys, RulesOf(list))[k]
  PROVE  RulesOf(lists) = Sets!Effect(q, Both, Keys, RulesOf(list))
<1> DEFINE E == Sets!Effect(q, Both, Keys, RulesOf(list))
<1>1. E = [k \in {"master", "backup"} |-> E[k]]
  BY DEF Sets!Effect, Sets!Keys
<1>2. /\ SetOfLines(lists["master"]) = E["master"]
      /\ SetOfLines(lists["backup"]) = E["backup"]
  BY DEF Keys
<1> HIDE DEF E
<1>3. RulesOf(lists) = [master |-> E["master"], backup |-> E["backup"]]
  BY <1>2 DEF RulesOf
<1>4. RulesOf(lists) = E
  BY <1>1, <1>3
<1> QED BY <1>4 DEF E

LEMMA RulesAre == \A k \in Keys : RulesOf(list)[k] = SetOfLines(list[k])
  BY DEF RulesOf, Keys

LEMMA UnionElements ==
  ASSUME Typed
  PROVE  ToSet(UnionList) = Sets!UnionRecords(RulesOf(list), Keys)
<1> DEFINE a == RecordList(list["master"])
           b == RecordList(list["backup"])
           c == a \o b
<1>1. list["master"] \in Seq(Text) /\ list["backup"] \in Seq(Text)
  BY DEF Typed, Keys
<1>2. a \in Seq(Cleans) /\ b \in Seq(Cleans)
  BY <1>1, RecordListIs
<1>3. UnionList = Dedup(c)
  BY DEF UnionList
<1>4. /\ Sets!RecordsOf(RulesOf(list)["master"]) = ToSet(a)
      /\ Sets!RecordsOf(RulesOf(list)["backup"]) = ToSet(b)
  BY SetIs, RulesAre DEF Keys
<1> HIDE DEF a, b
<1>5. c \in Seq(Cleans)
  BY <1>2, ConcatProperties
<1>6. ToSet(c) = ToSet(a) \cup ToSet(b)
  <2>1. c = Cat(a, b)
    BY DEF Cat
  <2> HIDE DEF c
  <2> QED BY <1>2, <2>1, ConcatElements
<1> HIDE DEF c
<1>7. ToSet(Dedup(c)) = ToSet(c)
  BY <1>5, DedupIs
<1>8. Sets!UnionRecords(RulesOf(list), Keys) = ToSet(a) \cup ToSet(b)
  BY <1>4 DEF Sets!UnionRecords, Keys
<1> QED BY <1>3, <1>6, <1>7, <1>8

\* A request that writes recs to both servers.
LEMMA RewriteActsOnSets ==
  ASSUME Typed, NEW q \in Requests, NEW recs \in [Keys -> Seq(Cleans)],
         list' = [k \in Keys |-> Rebuild(list[k], recs[k])],
         q.kind \in {"save", "delete", "reconcile"},
         ~Sets!Rejected(q, Both), ~Sets!NothingToDo(q),
         \A k \in Keys : ToSet(recs[k]) =
           Sets!NewRecords(q, ToSet(RecordList(list[k])), ToSet(UnionList))
  PROVE  RulesOf(list') = Sets!Effect(q, Both, Keys, RulesOf(list))
<1> DEFINE E == Sets!Effect(q, Both, Keys, RulesOf(list))
           U == ToSet(UnionList)
<1>1. q.kind # "whitelist" /\ q.kind # "sync"
  OBVIOUS
<1>2. Sets!Targets(q, Both) = Keys
  BY <1>1 DEF Sets!Targets, Sets!ServerKeys, Sets!Keys, Keys, Both
<1>3. U = Sets!UnionRecords(RulesOf(list), Keys)
  BY UnionElements
<1> HIDE DEF U
<1>4. \A k \in Keys :
        E[k] = Sets!Payload(q, RulesOf(list)[Sets!ReadFrom(q, k)], U)
  BY <1>2, <1>3 DEF Sets!Effect, Sets!Keys, Keys
<1> HIDE DEF E
<1>5. ASSUME NEW k \in Keys PROVE SetOfLines(list'[k]) = E[k]
  <2> DEFINE S == SetOfLines(list[k])
  <2>1. Sets!ReadFrom(q, k) = k
    BY <1>1 DEF Sets!ReadFrom
  <2>2. E[k] = Sets!Payload(q, S, U)
    BY <1>4, <2>1, RulesAre
  <2>3. Sets!RecordsOf(S) = ToSet(RecordList(list[k]))
    BY SetIs
  <2>4. SetOfLines(Rebuild(list[k], recs[k])) =
          Sets!RebuildRules(Sets!Passthrough(S), ToSet(recs[k]))
    BY RebuiltSet DEF Typed
  <2> HIDE DEF S
  <2>5. Sets!Payload(q, S, U) =
          Sets!RebuildRules(Sets!Passthrough(S),
                            Sets!NewRecords(q, Sets!RecordsOf(S), U))
    BY <1>1 DEF Sets!Payload
  <2>6. ToSet(recs[k]) = Sets!NewRecords(q, Sets!RecordsOf(S), U)
    BY <2>3 DEF U
  <2>7. list'[k] = Rebuild(list[k], recs[k])
    OBVIOUS
  <2> QED BY <2>2, <2>4, <2>5, <2>6, <2>7
<1> QED BY <1>5, EffectIs DEF E

(***************************************************************************)
(* Every request does to the lists of lines what RuleRequests says it does *)
(* to the sets of lines.                                                   *)
(***************************************************************************)
THEOREM ListsActAsSets == Spec => ActsOnSets
<1> DEFINE A == \E old \in {RulesOf(list)}, new \in {RulesOf(list')} :
                  \E q \in Requests : new = Sets!Effect(q, Both, Keys, old)
<1>1. ASSUME Typed, [Next]_list PROVE [A]_list
  <2>1. ASSUME NEW q \in Requests,
               RulesOf(list') = Sets!Effect(q, Both, Keys, RulesOf(list))
        PROVE  A
    BY <2>1
  <2> HIDE DEF A
  <2>2. /\ \A k \in Keys : RecordList(list[k]) \in Seq(Cleans)
        /\ \A k \in Keys : ToSet(RecordList(list[k])) \subseteq Cleans
    BY <1>1, RecordListIs, ElementsOfSeq DEF Typed
  <2>3. NotARecord \notin Cleans
    BY DEF NotARecord, Cleans, Clean
  <2>4. \A f \in RecordForms : ValidateDNS(f) # NotARecord =>
          ValidateDNS(f) \in Cleans /\ ValidateDNS(f) \in Forms
    BY FormsAssumption, ValidatedIsClean DEF Cleans, Clean, Forms
  <2>5. ASSUME NEW f \in RecordForms, AddRecord(f) PROVE A
    <3> DEFINE x == ValidateDNS(f)
               recs == [k \in Keys |-> Add(RecordList(list[k]), x)]
               q == [kind |-> "save", rec |-> x, old |-> NotARecord]
    <3>1. /\ x \in Cleans /\ x \in Forms /\ x # NotARecord
          /\ list' = [k \in Keys |-> Rebuild(list[k], Add(RecordList(list[k]), x))]
      BY <2>4, <2>5, AddDoes
    <3> HIDE DEF x
    <3>2. q \in Requests
      BY <3>1 DEF Requests
    <3>3. /\ q.kind = "save" /\ ~Sets!Rejected(q, Both)
          /\ ~Sets!NothingToDo(q)
      BY <3>1 DEF Sets!Rejected, Sets!NothingToDo
    <3>4. \A k \in Keys : /\ Add(RecordList(list[k]), x) \in Seq(Cleans)
                          /\ ToSet(Add(RecordList(list[k]), x))
                               = ToSet(RecordList(list[k])) \cup {x}
      <4> SUFFICES ASSUME NEW k \in Keys
                   PROVE  /\ Add(RecordList(list[k]), x) \in Seq(Cleans)
                          /\ ToSet(Add(RecordList(list[k]), x))
                               = ToSet(RecordList(list[k])) \cup {x}
        OBVIOUS
      <4>1. RecordList(list[k]) \in Seq(Cleans)
        BY <2>2
      <4> QED BY <3>1, <4>1, AddIs
    <3>5. /\ recs \in [Keys -> Seq(Cleans)]
          /\ list' = [k \in Keys |-> Rebuild(list[k], recs[k])]
          /\ \A k \in Keys :
               ToSet(recs[k]) = ToSet(RecordList(list[k])) \cup {x}
      BY <3>1, <3>4
    <3>6. \A R, U : Sets!NewRecords(q, R, U) = (R \ {NotARecord}) \cup {x}
      BY DEF Sets!NewRecords
    <3> HIDE DEF q, recs
    <3>7. \A k \in Keys : ToSet(recs[k]) =
            Sets!NewRecords(q, ToSet(RecordList(list[k])), ToSet(UnionList))
      <4> TAKE k \in Keys
      <4> DEFINE R == ToSet(RecordList(list[k]))
      <4>1. ToSet(recs[k]) = R \cup {x} /\ R \subseteq Cleans
        BY <2>2, <3>5
      <4> HIDE DEF R
      <4>2. R \ {NotARecord} = R
        BY <2>3, <4>1
      <4>3. ToSet(recs[k]) = Sets!NewRecords(q, R, ToSet(UnionList))
        BY <3>6, <4>1, <4>2
      <4> QED BY <4>3 DEF R
    <3>8. RulesOf(list') = Sets!Effect(q, Both, Keys, RulesOf(list))
      BY <1>1, <3>2, <3>3, <3>5, <3>7, RewriteActsOnSets
    <3> QED BY <2>1, <3>2, <3>8
  <2>6. ASSUME NEW f \in RecordForms, NEW row \in Rows, EditRecord(f, row)
        PROVE  A
    <3> DEFINE x == ValidateDNS(f)
               o == Named(row)
               d(k) == Drop(RecordList(list[k]), o)
               recs == [k \in Keys |-> Add(d(k), x)]
               q == [kind |-> "save", rec |-> x, old |-> o]
    <3>1. /\ x \in Cleans /\ x \in Forms /\ x # NotARecord /\ o # x
          /\ list' = [k \in Keys |-> Rebuild(list[k], Add(d(k), x))]
      BY <2>4, <2>6, EditDoes
    <3>2. q \in Requests
      BY <3>1 DEF Requests
    <3> HIDE DEF x, o
    <3>3. /\ q.kind = "save" /\ ~Sets!Rejected(q, Both)
          /\ ~Sets!NothingToDo(q)
      BY <3>1 DEF Sets!Rejected, Sets!NothingToDo
    <3>4. \A k \in Keys : /\ d(k) \in Seq(Cleans)
                          /\ ToSet(d(k)) = ToSet(RecordList(list[k])) \ {o}
      BY <2>2, DropIs
    <3> HIDE DEF d
    <3>5. \A k \in Keys : /\ Add(d(k), x) \in Seq(Cleans)
                          /\ ToSet(Add(d(k), x)) = ToSet(d(k)) \cup {x}
      BY <3>1, <3>4, AddIs
    <3>6. /\ recs \in [Keys -> Seq(Cleans)]
          /\ list' = [k \in Keys |-> Rebuild(list[k], recs[k])]
          /\ \A k \in Keys :
               ToSet(recs[k]) = (ToSet(RecordList(list[k])) \ {o}) \cup {x}
      BY <3>1, <3>4, <3>5
    <3>7. \A R, U : Sets!NewRecords(q, R, U) = (R \ {o}) \cup {x}
      BY DEF Sets!NewRecords
    <3> HIDE DEF q, recs
    <3>8. \A k \in Keys : ToSet(recs[k]) =
            Sets!NewRecords(q, ToSet(RecordList(list[k])), ToSet(UnionList))
      BY <3>6, <3>7
    <3>9. RulesOf(list') = Sets!Effect(q, Both, Keys, RulesOf(list))
      BY <1>1, <3>2, <3>3, <3>6, <3>8, RewriteActsOnSets
    <3> QED BY <2>1, <3>2, <3>9
  <2>7. ASSUME NEW row \in Rows, DeleteRecord(row) PROVE A
    <3> DEFINE o == Named(row)
               d(k) == Drop(RecordList(list[k]), o)
               recs == [k \in Keys |-> d(k)]
               q == [kind |-> "delete", rec |-> o]
    <3>1. list' = [k \in Keys |-> Rebuild(list[k], d(k))]
      BY <2>7, DeleteDoes
    <3>2. q \in Requests
      BY DEF Requests
    <3> HIDE DEF o
    <3>3. /\ q.kind = "delete" /\ ~Sets!Rejected(q, Both)
          /\ ~Sets!NothingToDo(q)
      BY DEF Sets!Rejected, Sets!NothingToDo
    <3>4. \A k \in Keys : /\ d(k) \in Seq(Cleans)
                          /\ ToSet(d(k)) = ToSet(RecordList(list[k])) \ {o}
      BY <2>2, DropIs
    <3> HIDE DEF d
    <3>5. /\ recs \in [Keys -> Seq(Cleans)]
          /\ list' = [k \in Keys |-> Rebuild(list[k], recs[k])]
          /\ \A k \in Keys : ToSet(recs[k]) = ToSet(RecordList(list[k])) \ {o}
      BY <3>1, <3>4
    <3>6. \A R, U : Sets!NewRecords(q, R, U) = R \ {o}
      BY DEF Sets!NewRecords
    <3> HIDE DEF q, recs
    <3>7. \A k \in Keys : ToSet(recs[k]) =
            Sets!NewRecords(q, ToSet(RecordList(list[k])), ToSet(UnionList))
      BY <3>5, <3>6
    <3>8. RulesOf(list') = Sets!Effect(q, Both, Keys, RulesOf(list))
      BY <1>1, <3>2, <3>3, <3>5, <3>7, RewriteActsOnSets
    <3> QED BY <2>1, <3>2, <3>8
  <2>8. ASSUME Reconcile PROVE A
    <3> DEFINE recs == [k \in Keys |-> UnionList]
               q == [kind |-> "reconcile"]
    <3>1. list' = [k \in Keys |-> Rebuild(list[k], UnionList)]
      BY <2>8, ReconcileDoes
    <3>2. q \in Requests
      BY DEF Requests
    <3>3. /\ q.kind = "reconcile" /\ ~Sets!Rejected(q, Both)
          /\ ~Sets!NothingToDo(q)
      BY DEF Sets!Rejected, Sets!NothingToDo, Both
    <3>4. UnionList \in Seq(Cleans)
      BY <1>1, UnionIs
    <3>5. /\ recs \in [Keys -> Seq(Cleans)]
          /\ list' = [k \in Keys |-> Rebuild(list[k], recs[k])]
          /\ \A k \in Keys : recs[k] = UnionList
      BY <3>1, <3>4
    <3>6. \A R, U : Sets!NewRecords(q, R, U) = U
      BY DEF Sets!NewRecords
    <3> HIDE DEF q, recs
    <3>7. \A k \in Keys : ToSet(recs[k]) =
            Sets!NewRecords(q, ToSet(RecordList(list[k])), ToSet(UnionList))
      BY <3>5, <3>6
    <3>8. RulesOf(list') = Sets!Effect(q, Both, Keys, RulesOf(list))
      BY <1>1, <3>2, <3>3, <3>5, <3>7, RewriteActsOnSets
    <3> QED BY <2>1, <3>2, <3>8
  <2>9. ASSUME NEW n \in Keys, NEW text \in EditorTexts, Whitelist(n, text)
        PROVE  A
    <3> DEFINE D == ToSet(MergeWhitelist(<<>>, text))
               q == [kind |-> "whitelist", key |-> n, domains |-> D]
               E == Sets!Effect(q, Both, Keys, RulesOf(list))
    <3>1. list' = [list EXCEPT ![n] = MergeWhitelist(list[n], text)]
      BY <2>9 DEF Whitelist
    <3>2. q \in Requests
      BY DEF Requests
    <3>3. Sets!Targets(q, Both) = {n}
      BY DEF Sets!Targets, Sets!Rejected, Sets!NothingToDo, Sets!ServerKeys,
             Sets!Keys, Keys, Both
    <3>4. /\ \A k \in Keys : Sets!ReadFrom(q, k) = k
          /\ \A S, U : Sets!Payload(q, S, U) = Sets!MergeWhitelist(S, D)
      BY DEF Sets!ReadFrom, Sets!Payload
    <3> HIDE DEF q, D
    <3>5. \A k \in Keys :
            E[k] = IF k = n
                     THEN Sets!MergeWhitelist(RulesOf(list)[k], D)
                     ELSE RulesOf(list)[k]
      BY <3>3, <3>4 DEF Sets!Effect, Sets!Keys, Keys
    <3> HIDE DEF E
    <3>6. SetOfLines(MergeWhitelist(list[n], text)) =
            Sets!MergeWhitelist(SetOfLines(list[n]), D)
      BY <1>1, ListsAssumption, MergedSet DEF Typed, D
    <3>7. \A k \in Keys : SetOfLines(list'[k]) = E[k]
      BY <1>1, <3>1, <3>5, <3>6, RulesAre DEF Typed
    <3>8. RulesOf(list') = E
      BY <3>7, EffectIs DEF E
    <3> QED BY <2>1, <3>2, <3>8 DEF E
  <2>10. ASSUME NEW src \in Keys, NEW dst \in Keys, Sync(src, dst) PROVE A
    <3> DEFINE way == IF src = "master" THEN "master_to_backup"
                                        ELSE "backup_to_master"
               q == [kind |-> "sync", direction |-> way]
               E == Sets!Effect(q, Both, Keys, RulesOf(list))
    <3>1. src # dst /\ list' = [list EXCEPT ![dst] = list[src]]
      BY <2>10 DEF Sync
    <3>2. q \in Requests
      BY DEF Requests
    <3>3. Sets!Source(way) = src /\ Sets!Destination(way) = dst
      BY <3>1 DEF Sets!Source, Sets!Destination, Keys
    <3>4. Sets!Targets(q, Both) = {dst}
      BY <3>3 DEF Sets!Targets, Sets!Rejected, Sets!NothingToDo, Both
    <3>5. /\ \A k \in Keys : Sets!ReadFrom(q, k) = src
          /\ \A S, U : Sets!Payload(q, S, U) = S
      BY <3>3 DEF Sets!ReadFrom, Sets!Payload
    <3> HIDE DEF q, way
    <3>6. \A k \in Keys : E[k] = IF k = dst THEN RulesOf(list)[src]
                                            ELSE RulesOf(list)[k]
      BY <3>4, <3>5 DEF Sets!Effect, Sets!Keys, Keys
    <3> HIDE DEF E
    <3>7. \A k \in Keys : SetOfLines(list'[k]) = E[k]
      BY <1>1, <3>1, <3>6, RulesAre DEF Typed
    <3>8. RulesOf(list') = E
      BY <3>7, EffectIs DEF E
    <3> QED BY <2>1, <3>2, <3>8 DEF E
  <2> QED BY <1>1, <2>5, <2>6, <2>7, <2>8, <2>9, <2>10
          DEF Next, RecordRequest, EditorRequest, SyncRequest
<1> QED BY <1>1, TypedAlways, PTL DEF Spec, ActsOnSets

-----------------------------------------------------------------------------
(* The rows of the page.                                                   *)

\* No record is read whose host in its zone is written as the zone itself.
NotAtHost(r) ==
  r.domain # BaseDomain(r.domain) =>
    RelativeHost(r.domain, BaseDomain(r.domain)) # <<"@">>

NoAtHosts ==
  /\ \A lines \in InitialLists : \A r \in RecordsIn(lines) : NotAtHost(r)
  /\ \A r \in Forms : NotAtHost(r)

LEMMA FormsAre == Forms \subseteq Cleans
  BY FormsAssumption, ValidatedIsClean DEF Forms, Cleans, Clean

\* No request writes a record that no list and no form had.
LEMMA RecordsStayWithin ==
  ASSUME Typed, Next, NEW G, Forms \subseteq G,
         \A k \in Keys : RecordsIn(list[k]) \subseteq G
  PROVE  \A k \in Keys : RecordsIn(list'[k]) \subseteq G
<1> DEFINE old(k) == RecordList(list[k])
           Goal == \A k \in Keys : RecordsIn(list'[k]) \subseteq G
<1>1. \A k \in Keys : /\ list[k] \in Seq(Text) /\ old(k) \in Seq(Cleans)
                      /\ ToSet(old(k)) \subseteq G
  BY RecordListIs DEF Typed, RecordsIn
<1>2. ASSUME NEW recs \in [Keys -> Seq(Cleans)],
             list' = [k \in Keys |-> Rebuild(list[k], recs[k])],
             \A k \in Keys : ToSet(recs[k]) \subseteq G
      PROVE  Goal
  <2> SUFFICES ASSUME NEW k \in Keys PROVE RecordsIn(list'[k]) \subseteq G
    OBVIOUS
  <2>1. RecordList(list'[k]) = recs[k]
    BY <1>1, <1>2, RebuiltIs
  <2> QED BY <1>2, <2>1 DEF RecordsIn
<1> HIDE DEF Goal
<1>3. ASSUME NEW f \in RecordForms, AddRecord(f) PROVE Goal
  <2> DEFINE x == ValidateDNS(f)
             recs == [k \in Keys |-> Add(old(k), x)]
  <2>1. /\ x \in Cleans /\ x \in G
        /\ list' = [k \in Keys |-> Rebuild(list[k], Add(old(k), x))]
    BY <1>3, AddDoes, FormsAre DEF Forms
  <2> HIDE DEF x, old
  <2>2. \A k \in Keys : /\ Add(old(k), x) \in Seq(Cleans)
                        /\ ToSet(Add(old(k), x)) = ToSet(old(k)) \cup {x}
    BY <1>1, <2>1, AddIs
  <2>3. /\ recs \in [Keys -> Seq(Cleans)]
        /\ list' = [k \in Keys |-> Rebuild(list[k], recs[k])]
        /\ \A k \in Keys : ToSet(recs[k]) \subseteq G
    BY <1>1, <2>1, <2>2
  <2> HIDE DEF recs
  <2> QED BY <1>2, <2>3
<1>4. ASSUME NEW f \in RecordForms, NEW row \in Rows, EditRecord(f, row)
      PROVE  Goal
  <2> DEFINE x == ValidateDNS(f)
             d(k) == Drop(old(k), Named(row))
             recs == [k \in Keys |-> Add(d(k), x)]
  <2>1. /\ x \in Cleans /\ x \in G
        /\ list' = [k \in Keys |-> Rebuild(list[k], Add(d(k), x))]
    BY <1>4, EditDoes, FormsAre DEF Forms
  <2> HIDE DEF x, old
  <2>2. \A k \in Keys : d(k) \in Seq(Cleans) /\ ToSet(d(k)) \subseteq G
    BY <1>1, DropIs
  <2> HIDE DEF d
  <2>3. \A k \in Keys : /\ Add(d(k), x) \in Seq(Cleans)
                        /\ ToSet(Add(d(k), x)) = ToSet(d(k)) \cup {x}
    BY <2>1, <2>2, AddIs
  <2>4. /\ recs \in [Keys -> Seq(Cleans)]
        /\ list' = [k \in Keys |-> Rebuild(list[k], recs[k])]
        /\ \A k \in Keys : ToSet(recs[k]) \subseteq G
    BY <2>1, <2>2, <2>3
  <2> HIDE DEF recs
  <2> QED BY <1>2, <2>4
<1>5. ASSUME NEW row \in Rows, DeleteRecord(row) PROVE Goal
  <2> DEFINE d(k) == Drop(old(k), Named(row))
             recs == [k \in Keys |-> d(k)]
  <2>1. list' = [k \in Keys |-> Rebuild(list[k], d(k))]
    BY <1>5, DeleteDoes
  <2> HIDE DEF old
  <2>2. \A k \in Keys : d(k) \in Seq(Cleans) /\ ToSet(d(k)) \subseteq G
    BY <1>1, DropIs
  <2> HIDE DEF d
  <2>3. /\ recs \in [Keys -> Seq(Cleans)]
        /\ list' = [k \in Keys |-> Rebuild(list[k], recs[k])]
        /\ \A k \in Keys : ToSet(recs[k]) \subseteq G
    BY <2>1, <2>2
  <2> HIDE DEF recs
  <2> QED BY <1>2, <2>3
<1>6. ASSUME Reconcile PROVE Goal
  <2> DEFINE recs == [k \in Keys |-> UnionList]
  <2>1. list' = [k \in Keys |-> Rebuild(list[k], UnionList)]
    BY <1>6, ReconcileDoes
  <2>2. UnionList \in Seq(Cleans)
    BY UnionIs
  <2>3. ToSet(UnionList) \subseteq G
    <3>1. ToSet(UnionList) = Sets!UnionRecords(RulesOf(list), Keys)
      BY UnionElements
    <3>2. \A k \in Keys : Sets!RecordsOf(RulesOf(list)[k]) \subseteq G
      BY <1>1, SetIs, RulesAre
    <3> QED BY <3>1, <3>2 DEF Sets!UnionRecords
  <2>4. /\ recs \in [Keys -> Seq(Cleans)]
        /\ list' = [k \in Keys |-> Rebuild(list[k], recs[k])]
        /\ \A k \in Keys : ToSet(recs[k]) \subseteq G
    BY <2>1, <2>2, <2>3
  <2> HIDE DEF recs
  <2> QED BY <1>2, <2>4
<1>7. ASSUME EditorRequest PROVE Goal
  <2> SUFFICES ASSUME NEW k \in Keys PROVE RecordsIn(list'[k]) \subseteq G
    BY DEF Goal
  <2>1. RecordList(list'[k]) = RecordList(list[k])
    BY <1>7, EditorRequestIs
  <2> QED BY <2>1 DEF RecordsIn
<1>8. ASSUME SyncRequest PROVE Goal
  <2>1. PICK src, dst \in Keys : list' = [list EXCEPT ![dst] = list[src]]
    BY <1>8 DEF SyncRequest, Sync
  <2> SUFFICES ASSUME NEW k \in Keys PROVE RecordsIn(list'[k]) \subseteq G
    BY DEF Goal
  <2>2. list'[k] = list[k] \/ list'[k] = list[src]
    BY <2>1 DEF Typed
  <2>3. RecordsIn(list[k]) \subseteq G /\ RecordsIn(list[src]) \subseteq G
    OBVIOUS
  <2> QED BY <2>2, <2>3
<1>9. ASSUME RecordRequest PROVE Goal
  <2>1. CASE \E f \in RecordForms : AddRecord(f)
    BY <1>3, <2>1
  <2>2. CASE \E f \in RecordForms, row \in Rows : EditRecord(f, row)
    BY <1>4, <2>2
  <2>3. CASE \E row \in Rows : DeleteRecord(row)
    BY <1>5, <2>3
  <2>4. CASE Reconcile
    BY <1>6, <2>4
  <2> QED BY <1>9, <2>1, <2>2, <2>3, <2>4 DEF RecordRequest
<1>10. RecordRequest \/ EditorRequest \/ SyncRequest
  BY DEF Next
<1>11. Goal
  BY <1>7, <1>8, <1>9, <1>10
<1> QED BY <1>11 DEF Goal

LEMMA NotAtHostAlways ==
  ASSUME NoAtHosts
  PROVE  Spec => [](\A k \in Keys : \A r \in RecordsIn(list[k]) : NotAtHost(r))
<1> DEFINE G == {r \in Cleans : NotAtHost(r)}
           I == \A k \in Keys : \A r \in RecordsIn(list[k]) : NotAtHost(r)
<1>1. Init => I
  BY DEF Init, NoAtHosts
<1>2. ASSUME Typed, I, [Next]_list PROVE I'
  <2>1. CASE Next
    <3>1. Forms \subseteq G
      BY FormsAre DEF NoAtHosts
    <3>2. \A k \in Keys : RecordsIn(list[k]) \subseteq Cleans
      BY <1>2, RecordListIs, ElementsOfSeq DEF RecordsIn, Typed
    <3>3. \A k \in Keys : RecordsIn(list[k]) \subseteq G
      BY <1>2, <3>2
    <3> HIDE DEF G
    <3>4. \A k \in Keys : RecordsIn(list'[k]) \subseteq G
      BY <1>2, <2>1, <3>1, <3>3, RecordsStayWithin
    <3>5. \A k \in Keys : \A r \in RecordsIn(list'[k]) : NotAtHost(r)
      BY <3>4 DEF G
    <3>6. \A k \in Keys : RecordsIn(list[k])' = RecordsIn(list'[k])
      BY DEF RecordsIn
    <3> QED BY <3>5
  <2>2. CASE UNCHANGED list
    BY <1>2, <2>2
  <2> QED BY <1>2, <2>1, <2>2
<1> HIDE DEF I
<1>3. Spec => []I
  BY <1>1, <1>2, TypedAlways, PTL DEF Spec
<1> QED BY <1>3 DEF I

\* The zone of a domain is all of it, or what follows one of its dots.
LEMMA ZoneIs ==
  ASSUME NEW d \in Text
  PROVE  \/ BaseDomain(d) = d
         \/ \E m \in 1 .. Len(d) :
              d[m] = "." /\ BaseDomain(d) = SubSeq(d, m + 1, Len(d))
<1> DEFINE n == Len(d)
           dots == {i \in DOMAIN d : d[i] = "."}
           rest == dots \ {Max(dots)}
<1>1. n \in Nat /\ DOMAIN d = 1 .. n
  BY LenProperties DEF Text
<1>2. BaseDomain(d) = IF Cardinality(dots) <= 1 THEN d
                      ELSE SubSeq(d, Max(rest) + 1, Len(d))
  BY DEF BaseDomain
<1>3. CASE rest = {}
  <2>1. dots = {} \/ dots = {Max(dots)}
    BY <1>3
  <2> HIDE DEF dots
  <2>2. Cardinality(dots) = 0 \/ Cardinality(dots) = 1
    BY <2>1, FS_EmptySet, FS_Singleton
  <2> QED BY <1>2, <2>2
<1>4. CASE rest # {}
  <2>1. rest \subseteq {i \in 1 .. n : d[i] = "."}
    BY <1>1
  <2> HIDE DEF n, dots, rest
  <2>2. rest \in SUBSET (0 .. n)
    BY <2>1
  <2>3. Max(rest) \in rest
    BY <1>1, <1>4, <2>2, MaxIs
  <2> QED BY <1>2, <2>1, <2>3 DEF n
<1> QED BY <1>3, <1>4

\* A domain is its host in the zone, the dot and the zone.
LEMMA HostAndZone ==
  ASSUME NEW d \in Text, NEW m \in 1 .. Len(d), d[m] = ".",
         NEW z, z = SubSeq(d, m + 1, Len(d))
  PROVE  SubSeq(d, 1, Len(d) - Len(z) - 1) \o <<".">> \o z = d
<1> DEFINE n == Len(d)
           h == SubSeq(d, 1, m - 1)
           dot == <<".">>
           hd == h \o dot
           y == SubSeq(d, m + 1, n)
           c == hd \o y
<1>1. n \in Nat /\ d \in Seq(Tokens) /\ m \in 1 .. n
  BY LenProperties DEF Text
<1>2. /\ m + 1 \in Nat \ {0} /\ n \in Int /\ n <= Len(d)
      /\ 1 \in Nat \ {0} /\ m - 1 \in Int /\ m - 1 <= Len(d)
  BY <1>1
<1>3. /\ y \in Seq(Tokens)
      /\ Len(y) = IF m + 1 <= n THEN n - (m + 1) + 1 ELSE 0
      /\ \A i \in 1 .. n - (m + 1) + 1 : y[i] = d[(m + 1) + i - 1]
  BY <1>1, <1>2, PartIs
<1>4. /\ h \in Seq(Tokens)
      /\ Len(h) = IF 1 <= m - 1 THEN (m - 1) - 1 + 1 ELSE 0
      /\ \A i \in 1 .. (m - 1) - 1 + 1 : h[i] = d[1 + i - 1]
  BY <1>1, <1>2, PartIs
<1>5. dot \in Seq(Tokens) /\ Len(dot) = 1 /\ dot[1] = "."
  BY TokensAssumption, OneToken DEF Separators, Text
<1> HIDE DEF n, h, dot, y
<1>6. /\ Len(y) = n - m /\ \A i \in 1 .. n - m : y[i] = d[m + i]
      /\ Len(h) = m - 1 /\ \A i \in 1 .. m - 1 : h[i] = d[i]
  BY <1>1, <1>3, <1>4
<1>7. /\ hd \in Seq(Tokens) /\ Len(hd) = Len(h) + Len(dot)
      /\ \A i \in 1 .. Len(h) + Len(dot) :
           hd[i] = IF i <= Len(h) THEN h[i] ELSE dot[i - Len(h)]
  BY <1>4, <1>5, ConcatProperties
<1> HIDE DEF hd
<1>8. Len(hd) = m /\ \A i \in 1 .. m : hd[i] = d[i]
  <2>1. Len(hd) = m
    BY <1>1, <1>5, <1>6, <1>7
  <2> SUFFICES ASSUME NEW i \in 1 .. m PROVE hd[i] = d[i]
    BY <2>1
  <2>2. CASE i <= m - 1
    <3>1. i \in 1 .. Len(h) + Len(dot) /\ i <= Len(h) /\ i \in 1 .. m - 1
      BY <1>1, <1>5, <1>6, <2>2
    <3>2. hd[i] = h[i]
      BY <1>7, <3>1
    <3> QED BY <1>6, <3>1, <3>2
  <2>3. CASE i = m
    <3>1. i - Len(h) = 1 /\ ~(i <= Len(h))
      BY <1>1, <1>6, <2>3
    <3>2. hd[i] = dot[1]
      BY <1>1, <1>5, <1>6, <1>7, <3>1
    <3> QED BY <1>5, <2>3, <3>2
  <2> QED BY <1>1, <2>2, <2>3
<1>9. /\ c \in Seq(Tokens) /\ Len(c) = Len(hd) + Len(y)
      /\ \A i \in 1 .. Len(hd) + Len(y) :
           c[i] = IF i <= Len(hd) THEN hd[i] ELSE y[i - Len(hd)]
  <2>1. hd \in Seq(Tokens) /\ y \in Seq(Tokens)
    BY <1>3, <1>7
  <2> QED BY <2>1, ConcatProperties
<1> HIDE DEF c
<1>10. Len(c) = n
  BY <1>1, <1>6, <1>8, <1>9
<1>11. \A i \in 1 .. n : c[i] = d[i]
  <2> SUFFICES ASSUME NEW i \in 1 .. n PROVE c[i] = d[i]
    OBVIOUS
  <2>1. CASE i <= m
    <3>1. c[i] = hd[i]
      BY <1>1, <1>6, <1>8, <1>9, <2>1
    <3> QED BY <1>1, <1>8, <2>1, <3>1
  <2>2. CASE ~(i <= m)
    <3>1. i - m \in 1 .. n - m /\ m + (i - m) = i
      BY <1>1, <2>2
    <3>2. c[i] = y[i - m]
      BY <1>1, <1>6, <1>8, <1>9, <2>2
    <3> QED BY <1>6, <3>1, <3>2
  <2> QED BY <2>1, <2>2
<1>12. c = d
  <2>1. Len(d) = n
    BY DEF n
  <2> QED BY <1>1, <1>9, <1>10, <1>11, <2>1, SeqEqual
<1>13. z = y /\ Len(d) = n
  BY DEF y, n
<1>14. Len(d) - Len(z) - 1 = m - 1
  BY <1>1, <1>6, <1>13
<1> QED BY <1>12, <1>13, <1>14 DEF c, hd, dot, h

\* A row of the page is read as the record it was made of.
LEMMA ReadAsItself ==
  ASSUME NEW q \in Cleans, NotAtHost(q)
  PROVE  ReadAs(Row(q), BaseDomain(q.domain)) = q
<1> DEFINE d == q.domain
           z == BaseDomain(d)
           host == RelativeHost(d, z)
<1>1. /\ d \in Text
      /\ q = [domain |-> d, type |-> q.type, value |-> q.value]
  BY DEF Cleans, Fields
<1>2. ReadAs(Row(q), z) =
        [domain |-> IF host = <<"@">> THEN z ELSE host \o <<".">> \o z,
         type |-> q.type, value |-> q.value]
  BY DEF ReadAs, Row
<1>3. d # z => host # <<"@">>
  BY DEF NotAtHost
<1>4. (IF host = <<"@">> THEN z ELSE host \o <<".">> \o z) = d
  <2>1. CASE z = d
    BY <2>1 DEF RelativeHost
  <2>2. CASE z # d
    <3>1. PICK m \in 1 .. Len(d) : d[m] = "." /\ z = SubSeq(d, m + 1, Len(d))
      BY <1>1, <2>2, ZoneIs
    <3>2. host = SubSeq(d, 1, Len(d) - Len(z) - 1)
      BY <2>2 DEF RelativeHost
    <3> HIDE DEF d, z, host
    <3>3. SubSeq(d, 1, Len(d) - Len(z) - 1) \o <<".">> \o z = d
      BY <1>1, <3>1, HostAndZone
    <3> QED BY <1>3, <2>2, <3>2, <3>3
  <2> QED BY <2>1, <2>2
<1> HIDE DEF d, z, host
<1>5. ReadAs(Row(q), z) = q
  BY <1>1, <1>2, <1>4
<1> QED BY <1>5 DEF z, d

(***************************************************************************)
(* A delete takes the record that its row is read as off both servers, and *)
(* no other, when no record's host in its zone is written "@".  (The page  *)
(* shows such a record as the zone's own, which the delete does not name.) *)
(***************************************************************************)
THEOREM RowsDeleteWhatTheyShow ==
  ASSUME NoAtHosts
  PROVE  Spec => RowsAreDeletable
<1> DEFINE I == \A k \in Keys : \A r \in RecordsIn(list[k]) : NotAtHost(r)
           Deletes(group, row) ==
             row.domain = TrimSpace(row.domain) /\ DeleteRecord(row) =>
               \A k \in Keys : RecordsIn(list'[k]) =
                 RecordsIn(list[k]) \ {ReadAs(row, group.domain)}
           A == \A group \in Page : \A row \in group.records :
                  Deletes(group, row)
<1>1. ASSUME Typed, I, [Next]_list PROVE [A]_list
  <2> SUFFICES ASSUME NEW group \in Page, NEW row \in group.records,
                      row.domain = TrimSpace(row.domain), DeleteRecord(row),
                      NEW k \in Keys
               PROVE  RecordsIn(list'[k]) =
                        RecordsIn(list[k]) \ {ReadAs(row, group.domain)}
    OBVIOUS
  <2> DEFINE U == ToSet(UnionList)
             z == group.domain
             old == RecordList(list[k])
  <2>1. PICK q \in U : row = Row(q) /\ z = BaseDomain(q.domain)
    <3>1. Page = GroupByBaseDomain(U)
      BY DEF Page
    <3> HIDE DEF U
    <3>2. PICK zone : group = [domain |-> zone,
                               records |-> {Row(q) : q \in
                                 {e \in U : BaseDomain(e.domain) = zone}}]
      BY <3>1 DEF GroupByBaseDomain
    <3>3. z = zone
      BY <3>2
    <3>4. row \in {Row(q) : q \in {e \in U : BaseDomain(e.domain) = zone}}
      BY <3>2
    <3> HIDE DEF z
    <3> QED BY <3>3, <3>4
  <2>2. q \in Cleans
    BY <1>1, <2>1, UnionIs
  <2>3. NotAtHost(q)
    <3>1. U = Sets!UnionRecords(RulesOf(list), Keys)
      BY <1>1, UnionElements
    <3>2. PICK s \in Keys : q \in Sets!RecordsOf(RulesOf(list)[s])
      BY <2>1, <3>1 DEF Sets!UnionRecords
    <3>3. q \in RecordsIn(list[s])
      BY <3>2, SetIs, RulesAre DEF RecordsIn
    <3> QED BY <1>1, <3>3
  <2> HIDE DEF U, z
  <2>4. ReadAs(row, z) = q
    BY <2>1, <2>2, <2>3, ReadAsItself
  <2>5. Named(row) = q
    <3>1. /\ row.domain = q.domain /\ row.type = q.type /\ row.value = q.value
      BY <2>1 DEF Row
    <3>2. /\ q.type \in Text /\ Trimmed(q.type) /\ ToUpper(q.type) = q.type
          /\ q.value \in Text /\ Trimmed(q.value)
          /\ q = [domain |-> q.domain, type |-> q.type, value |-> q.value]
      BY <2>2 DEF Cleans, Clean, Fields
    <3>3. TrimSpace(q.type) = q.type /\ TrimSpace(q.value) = q.value
      BY <3>2, TrimNothing DEF Text
    <3>4. TrimSpace(q.domain) = q.domain
      BY <3>1
    <3> QED BY <3>1, <3>2, <3>3, <3>4 DEF Named
  <2>6. list'[k] = Rebuild(list[k], Drop(old, q))
    BY <2>5, DeleteDoes
  <2>7. list[k] \in Seq(Text) /\ old \in Seq(Cleans)
    BY <1>1, RecordListIs DEF Typed
  <2> HIDE DEF old
  <2>8. /\ Drop(old, q) \in Seq(Cleans)
        /\ ToSet(Drop(old, q)) = ToSet(old) \ {q}
    BY <2>7, DropIs
  <2>9. RecordList(list'[k]) = Drop(old, q)
    BY <2>6, <2>7, <2>8, RebuiltIs
  <2> QED BY <2>4, <2>8, <2>9 DEF RecordsIn, old, z
<1> HIDE DEF I, A
<1>2. Spec => []I
  BY NotAtHostAlways DEF I
<1>3. Spec => [][A]_list
  BY <1>1, <1>2, TypedAlways, PTL DEF Spec
<1> QED BY <1>3 DEF A, RowsAreDeletable

-----------------------------------------------------------------------------
(* The whitelist editor.                                                   *)

\* What the editor shows for a rule that is no allow rule twice over.
Domains == {d \in Text : /\ Trimmed(d) /\ d # NoText
                         /\ "^" \notin ToSet(d) /\ ~IsAllowRule(d)}
PlainLines == {l \in Text : IsAllowRule(l) => ~IsAllowRule(CleanRule(l))}
NonEmpty == {d \in Text : d # NoText}

\* No allow rule names an allow rule, and nobody types one twice over.
PlainAllows ==
  /\ \A lines \in InitialLists : ToSet(lines) \subseteq PlainLines
  /\ \A text \in EditorTexts : \A l \in ToSet(text) :
       ~IsAllowRule(CleanRule(TrimSpace(l)))

LEMMA SeqOfElements ==
  ASSUME NEW T, NEW U, NEW s \in Seq(T), ToSet(s) \subseteq U
  PROVE  s \in Seq(U)
<1>1. Len(s) \in Nat /\ DOMAIN s = 1 .. Len(s) /\ s = [i \in DOMAIN s |-> s[i]]
  BY LenProperties
<1>2. \A i \in 1 .. Len(s) : s[i] \in U
  BY <1>1 DEF ToSet
<1>3. s \in [1 .. Len(s) -> U]
  BY <1>1, <1>2
<1> QED BY <1>1, <1>3, SeqDef

\* What is left of a concatenation when its first part is cut off.
LEMMA TailIs ==
  ASSUME NEW T, NEW x \in Seq(T), NEW y \in Seq(T), NEW c, c = Cat(x, y)
  PROVE  SubSeq(c, Len(x) + 1, Len(c)) = y
<1> DEFINE n == Len(x)
           m == Len(y)
           p == SubSeq(c, n + 1, Len(c))
<1>1. n \in Nat /\ m \in Nat
  BY LenProperties
<1>2. /\ c \in Seq(T) /\ Len(c) = n + m
      /\ \A i \in 1 .. n + m : c[i] = IF i <= n THEN x[i] ELSE y[i - n]
  BY ConcatProperties DEF Cat
<1> HIDE DEF n, m
<1>3. n + 1 \in Nat \ {0} /\ n + m \in Int /\ n + m <= Len(c)
  BY <1>1, <1>2
<1>4. p = SubSeq(c, n + 1, n + m)
  BY <1>2
<1>5. /\ p \in Seq(T)
      /\ Len(p) = IF n + 1 <= n + m THEN (n + m) - (n + 1) + 1 ELSE 0
      /\ \A i \in 1 .. (n + m) - (n + 1) + 1 : p[i] = c[(n + 1) + i - 1]
  BY <1>2, <1>3, <1>4, PartIs
<1> HIDE DEF p
<1>6. Len(p) = m
  BY <1>1, <1>5
<1>7. \A i \in 1 .. m : p[i] = y[i]
  <2> SUFFICES ASSUME NEW i \in 1 .. m PROVE p[i] = y[i]
    OBVIOUS
  <2>1. /\ i \in 1 .. (n + m) - (n + 1) + 1 /\ (n + 1) + i - 1 = n + i
        /\ n + i \in 1 .. n + m /\ ~(n + i <= n) /\ (n + i) - n = i
    BY <1>1
  <2>2. p[i] = c[n + i]
    BY <1>5, <2>1
  <2>3. c[n + i] = y[(n + i) - n]
    BY <1>2, <2>1
  <2> QED BY <2>1, <2>2, <2>3
<1>8. Len(y) = m
  BY DEF m
<1>9. p = y
  BY <1>5, <1>6, <1>7, <1>8, SeqEqual
<1> QED BY <1>9 DEF p, n

\* A cleaned rule is trimmed and has no ^.
LEMMA CleanedIs ==
  ASSUME NEW l \in Text
  PROVE  /\ CleanRule(l) \in Text /\ Trimmed(CleanRule(l))
         /\ "^" \notin ToSet(CleanRule(l))
<1> DEFINE s == IF IsAllowRule(l) THEN SubSeq(l, 3, Len(l)) ELSE l
           c == IF Contains(s, "^") THEN Before(s, "^") ELSE s
<1>1. SubSeq(l, 3, Len(l)) \in Text
  <2>1. Len(l) \in Nat
    BY LenProperties DEF Text
  <2> QED BY <2>1, PartIs DEF Text
<1>2. s \in Text
  BY <1>1
<1>3. CleanRule(l) = TrimSpace(c)
  BY DEF CleanRule
<1> HIDE DEF s
<1>4. Before(s, "^") \in Text /\ "^" \notin ToSet(Before(s, "^"))
  BY <1>2, CutKeeps DEF Text
<1>5. DOMAIN s = 1 .. Len(s)
  BY <1>2, LenProperties DEF Text
<1>6. ~Contains(s, "^") => "^" \notin ToSet(s)
  BY <1>5 DEF Contains, ToSet
<1>7. c \in Text /\ "^" \notin ToSet(c)
  BY <1>2, <1>4, <1>6
<1> HIDE DEF c
<1>8. /\ TrimSpace(c) \in Text /\ Trimmed(TrimSpace(c))
      /\ ToSet(TrimSpace(c)) \subseteq ToSet(c)
  BY <1>7, TrimKeeps DEF Text
<1> QED BY <1>3, <1>7, <1>8

\* A domain that is shown is saved as a rule that shows it again.
LEMMA DomainIs ==
  ASSUME NEW d \in Domains
  PROVE  /\ CleanRule(TrimSpace(d)) = d
         /\ CleanRule(BuildAllowRule(d)) = d
         /\ BuildAllowRule(d) \in PlainLines
<1> DEFINE p == <<"@@", "||">>
           hat == <<"^">>
           e == Cat(d, hat)
           s == BuildAllowRule(d)
<1>1. /\ d \in Text /\ d \in Seq(Tokens) /\ Trimmed(d)
      /\ "^" \notin ToSet(d) /\ ~IsAllowRule(d)
  BY DEF Domains, Text
<1>2. TrimSpace(d) = d
  BY <1>1, TrimNothing
<1>3. CleanRule(d) = d
  <2>1. DOMAIN d = 1 .. Len(d)
    BY <1>1, LenProperties
  <2>2. ~Contains(d, "^")
    BY <1>1, <2>1 DEF Contains, ToSet
  <2> QED BY <1>1, <1>2, <2>2 DEF CleanRule
<1>4. /\ p \in Seq(Tokens) /\ Len(p) = 2 /\ hat \in Seq(Tokens)
      /\ "^" \in Tokens
  BY TokensAssumption, TwoTokens, OneToken DEF Separators, Text
<1>5. s = Cat(Cat(p, d), hat)
  BY DEF BuildAllowRule, Cat
<1> HIDE DEF p, hat
<1>6. e \in Seq(Tokens) /\ s = Cat(p, e)
  BY <1>1, <1>4, <1>5, CatIs DEF CatLaws
<1>7. s \in Text /\ IsAllowRule(s)
  BY <1>1, AllowIsText DEF AllowLines
<1> HIDE DEF e, s
<1>8. SubSeq(s, 3, Len(s)) = e
  <2>1. SubSeq(s, Len(p) + 1, Len(s)) = e
    BY <1>4, <1>6, TailIs
  <2>2. Len(p) + 1 = 3
    BY <1>4
  <2> QED BY <2>1, <2>2
<1>9. Before(e, "^") = d
  <2>1. <<>> \in Text /\ <<>> \in Seq(Tokens)
    BY EmptySeq DEF Text
  <2>2. e = Cat(d, hat) /\ hat = <<"^">>
    BY DEF e, hat
  <2>3. e = Cat(e, <<>>)
    BY <1>6, ConcatEmptySeq DEF Cat
  <2>4. e = Cat(Cat(d, <<"^">>), <<>>)
    BY <2>2, <2>3
  <2>5. CutLaw("^")
    BY <1>4, CutLaws
  <2> QED BY <1>1, <2>1, <2>4, <2>5 DEF CutLaw
<1>10. Contains(e, "^")
  <2>1. ToSet(e) = ToSet(d) \cup ToSet(hat)
    BY <1>1, <1>4, ConcatElements DEF e
  <2>2. "^" \in ToSet(hat)
    BY DEF hat, ToSet
  <2>3. DOMAIN e = 1 .. Len(e)
    BY <1>6, LenProperties
  <2> QED BY <2>1, <2>2, <2>3 DEF Contains, ToSet
<1>11. CleanRule(s) = TrimSpace(Before(SubSeq(s, 3, Len(s)), "^"))
  BY <1>7, <1>8, <1>10 DEF CleanRule
<1>12. CleanRule(s) = d
  BY <1>2, <1>8, <1>9, <1>11
<1>13. s \in PlainLines
  BY <1>1, <1>7, <1>12 DEF PlainLines
<1> QED BY <1>2, <1>3, <1>12, <1>13 DEF s

Allowed(text) == [i \in DOMAIN text |-> BuildAllowRule(text[i])]
AllowsIn(lines) == Keep(lines, AllowLines)
ShownFor(allows) ==
  Keep([i \in DOMAIN allows |-> CleanRule(allows[i])], NonEmpty)

LEMMA ShownIs ==
  \A lines : WhitelistDomains(lines) = ShownFor(AllowsIn(lines))
  BY DEF WhitelistDomains, AllowLines, AllowsIn, ShownFor, NonEmpty

\* The editor shows domains.
LEMMA ShownAreDomains ==
  ASSUME NEW lines \in Seq(PlainLines)
  PROVE  WhitelistDomains(lines) \in Seq(Domains)
<1> DEFINE a == AllowsIn(lines)
           n == Len(a)
           shown == [i \in 1 .. n |-> CleanRule(a[i])]
           D == Domains \cup {NoText}
<1>1. a \in Seq(PlainLines \cap AllowLines)
  BY KeepType DEF AllowsIn
<1> HIDE DEF a
<1>2. /\ n \in Nat /\ DOMAIN a = 1 .. n
      /\ \A i \in 1 .. n : a[i] \in PlainLines \cap AllowLines
  BY <1>1, LenProperties, ElementOfSeq
<1> HIDE DEF n
<1>3. \A l \in PlainLines \cap AllowLines : CleanRule(l) \in D
  BY CleanedIs DEF PlainLines, AllowLines, Domains
<1> HIDE DEF D
<1>4. shown \in Seq(D)
  <2>1. shown \in [1 .. n -> D]
    BY <1>2, <1>3
  <2> HIDE DEF shown
  <2> QED BY <1>2, <2>1, SeqDef
<1>5. WhitelistDomains(lines) = Keep(shown, NonEmpty)
  BY <1>2, ShownIs DEF ShownFor, a
<1> HIDE DEF shown
<1>6. Keep(shown, NonEmpty) \in Seq(D \cap NonEmpty)
  BY <1>4, KeepType
<1>7. D \cap NonEmpty = Domains
  BY DEF D, Domains, NonEmpty
<1> QED BY <1>5, <1>6, <1>7

\* The rules of domains show these domains.
LEMMA AllowedIs ==
  ASSUME NEW text \in Seq(Domains)
  PROVE  /\ AllowRules(text) = Allowed(text)
         /\ Allowed(text) \in Seq(AllowLines)
         /\ ShownFor(Allowed(text)) = text
<1> DEFINE n == Len(text)
           typed == [i \in DOMAIN text |-> CleanRule(TrimSpace(text[i]))]
           a == [i \in 1 .. n |-> BuildAllowRule(text[i])]
           shown == [i \in DOMAIN a |-> CleanRule(a[i])]
<1>1. /\ n \in Nat /\ DOMAIN text = 1 .. n
      /\ \A i \in 1 .. n : text[i] \in Domains
      /\ text = [i \in 1 .. n |-> text[i]]
  BY LenProperties, ElementOfSeq
<1>2. \A i \in 1 .. n : /\ CleanRule(TrimSpace(text[i])) = text[i]
                        /\ CleanRule(BuildAllowRule(text[i])) = text[i]
                        /\ BuildAllowRule(text[i]) \in AllowLines
  <2> SUFFICES ASSUME NEW i \in 1 .. n
               PROVE  /\ CleanRule(TrimSpace(text[i])) = text[i]
                      /\ CleanRule(BuildAllowRule(text[i])) = text[i]
                      /\ BuildAllowRule(text[i]) \in AllowLines
    OBVIOUS
  <2>1. text[i] \in Domains /\ text[i] \in Text
    BY <1>1 DEF Domains
  <2> QED BY <2>1, DomainIs, AllowIsText
<1> HIDE DEF n
<1>3. typed = text
  BY <1>1, <1>2
<1>4. Keep(text, NonEmpty) = text
  <2>1. Domains \subseteq NonEmpty
    BY DEF Domains, NonEmpty
  <2> QED BY <2>1, KeepAll
<1>5. Allowed(text) = a
  BY <1>1 DEF Allowed
<1>6. AllowRules(text) = Allowed(text)
  <2>1. AllowRules(text) =
          [i \in DOMAIN Keep(typed, NonEmpty) |->
             BuildAllowRule(Keep(typed, NonEmpty)[i])]
    BY DEF AllowRules, NonEmpty
  <2> HIDE DEF typed
  <2> QED BY <1>3, <1>4, <2>1 DEF Allowed
<1>7. a \in Seq(AllowLines)
  <2>1. a \in [1 .. n -> AllowLines]
    BY <1>2
  <2> HIDE DEF a
  <2> QED BY <1>1, <2>1, SeqDef
<1>8. shown = text
  <2>1. DOMAIN a = 1 .. n /\ \A i \in 1 .. n : a[i] = BuildAllowRule(text[i])
    OBVIOUS
  <2> HIDE DEF a
  <2> QED BY <1>1, <1>2, <2>1
<1>9. ShownFor(a) = Keep(shown, NonEmpty)
  BY DEF ShownFor
<1> HIDE DEF a, shown
<1> QED BY <1>4, <1>5, <1>6, <1>7, <1>8, <1>9

\* Saving what is shown shows it again and changes nothing more.
LEMMA PlainIsStable ==
  ASSUME NEW lines \in Seq(Text), lines \in Seq(PlainLines)
  PROVE  LET shown == WhitelistDomains(lines)
             saved == MergeWhitelist(lines, shown)
         IN  /\ WhitelistDomains(saved) = shown
             /\ MergeWhitelist(saved, WhitelistDomains(saved)) = saved
<1> DEFINE shown == WhitelistDomains(lines)
           saved == MergeWhitelist(lines, shown)
           p == NotAllow(lines)
           a == Allowed(shown)
<1>1. shown \in Seq(Domains)
  BY ShownAreDomains
<1> HIDE DEF shown
<1>2. /\ AllowRules(shown) = a /\ a \in Seq(AllowLines)
      /\ ShownFor(a) = shown
  BY <1>1, AllowedIs
<1> HIDE DEF a
<1>3. saved = p \o a
  BY <1>2 DEF MergeWhitelist
<1>4. p \in Seq(BlockLines)
  <2>1. p \in Seq(Text \cap BlockLines)
    BY ListsAre, KeepType
  <2>2. Text \cap BlockLines = BlockLines
    BY DEF BlockLines
  <2> QED BY <2>1, <2>2
<1>5. shown \in Seq(Text)
  <2>1. Domains \subseteq Text
    BY DEF Domains
  <2> QED BY <1>1, <2>1, SeqMonotonic
<1>6. NotAllow(saved) = p
  BY <1>5, MergedIs
<1> HIDE DEF p
<1>7. AllowsIn(saved) = a
  <2>1. p \in Seq(Text) /\ a \in Seq(Text)
    <3>1. BlockLines \subseteq Text /\ AllowLines \subseteq Text
      BY DEF BlockLines, AllowLines
    <3> QED BY <1>2, <1>4, <3>1, SeqMonotonic
  <2>2. Keep(p \o a, AllowLines) = Keep(p, AllowLines) \o Keep(a, AllowLines)
    BY <2>1, KeepConcat
  <2>3. BlockLines \cap AllowLines = {}
    BY DEF BlockLines, AllowLines
  <2>4. Keep(p, AllowLines) = <<>>
    BY <1>4, <2>3, KeepNone
  <2>5. Keep(a, AllowLines) = a
    BY <1>2, KeepAll
  <2>6. <<>> \o a = a
    BY <1>2, ConcatEmptySeq
  <2>7. Keep(p \o a, AllowLines) = <<>> \o a
    BY <2>2, <2>4, <2>5
  <2> QED BY <1>3, <2>6, <2>7 DEF AllowsIn
<1> HIDE DEF saved
<1>8. WhitelistDomains(saved) = shown
  BY <1>2, <1>7, ShownIs
<1>9. MergeWhitelist(saved, shown) = saved
  BY <1>2, <1>3, <1>6 DEF MergeWhitelist
<1> QED BY <1>8, <1>9 DEF saved, shown

\* What the editor's text is saved as, when it names no allow rule.
LEMMA TypedArePlain ==
  ASSUME NEW text \in Seq(Text),
         \A l \in ToSet(text) : ~IsAllowRule(CleanRule(TrimSpace(l)))
  PROVE  AllowRules(text) \in Seq(PlainLines)
<1> DEFINE n == Len(text)
           typed == [i \in 1 .. n |-> CleanRule(TrimSpace(text[i]))]
           domains == Keep(typed, NonEmpty)
           m == Len(domains)
           D == Domains \cup {NoText}
           a == [i \in 1 .. m |-> BuildAllowRule(domains[i])]
<1>1. /\ n \in Nat /\ DOMAIN text = 1 .. n
      /\ \A i \in 1 .. n : text[i] \in Text /\ text[i] \in ToSet(text)
  BY LenProperties, ElementOfSeq DEF ToSet
<1>2. \A i \in 1 .. n : CleanRule(TrimSpace(text[i])) \in D
  <2> SUFFICES ASSUME NEW i \in 1 .. n
               PROVE  CleanRule(TrimSpace(text[i])) \in D
    OBVIOUS
  <2> DEFINE l == TrimSpace(text[i])
  <2>1. l \in Text
    BY <1>1, TrimKeeps DEF Text
  <2>2. ~IsAllowRule(CleanRule(l))
    BY <1>1
  <2> HIDE DEF l
  <2>3. CleanRule(l) \in D
    BY <2>1, <2>2, CleanedIs DEF Domains
  <2> QED BY <2>3 DEF l
<1> HIDE DEF n, D
<1>3. typed \in Seq(D)
  <2>1. typed \in [1 .. n -> D]
    BY <1>2
  <2> HIDE DEF typed
  <2> QED BY <1>1, <2>1, SeqDef
<1>4. AllowRules(text) =
        [i \in DOMAIN domains |-> BuildAllowRule(domains[i])]
  <2>1. [i \in DOMAIN text |-> CleanRule(TrimSpace(text[i]))] = typed
    BY <1>1
  <2> HIDE DEF typed
  <2> QED BY <2>1 DEF AllowRules, NonEmpty
<1> HIDE DEF typed
<1>5. domains \in Seq(Domains)
  <2>1. domains \in Seq(D \cap NonEmpty)
    BY <1>3, KeepType
  <2>2. D \cap NonEmpty = Domains
    BY DEF D, Domains, NonEmpty
  <2> QED BY <2>1, <2>2
<1> HIDE DEF domains
<1>6. /\ m \in Nat /\ DOMAIN domains = 1 .. m
      /\ \A i \in 1 .. m : domains[i] \in Domains
  BY <1>5, LenProperties, ElementOfSeq
<1>7. \A i \in 1 .. m : BuildAllowRule(domains[i]) \in PlainLines
  BY <1>6, DomainIs
<1>8. AllowRules(text) = a
  BY <1>4, <1>6
<1> HIDE DEF m
<1>9. a \in [1 .. m -> PlainLines]
  BY <1>7
<1> HIDE DEF a
<1> QED BY <1>6, <1>8, <1>9, SeqDef

Plain == list \in [Keys -> Seq(PlainLines)]

LEMMA PlainAlways ==
  ASSUME PlainAllows
  PROVE  Spec => []Plain
<1>1. BlockLines \subseteq PlainLines
  BY DEF BlockLines, PlainLines
<1>2. Init => Plain
  <2> SUFFICES ASSUME Init PROVE Plain
    OBVIOUS
  <2>1. \A lines \in InitialLists : lines \in Seq(PlainLines)
    BY ListsAssumption, SeqOfElements DEF PlainAllows
  <2> QED BY <2>1 DEF Init, Plain
<1>3. ASSUME Typed, Plain, [Next]_list PROVE Plain'
  <2>1. CASE RecordRequest
    <3>1. PICK recs \in [Keys -> Seq(Cleans)] :
            list' = [k \in Keys |-> Rebuild(list[k], recs[k])]
      BY <1>3, <2>1, RecordRequestIs
    <3>2. ASSUME NEW k \in Keys
          PROVE  Rebuild(list[k], recs[k]) \in Seq(PlainLines)
      <4> DEFINE p == Passthrough(list[k])
                 b == Built(recs[k])
      <4>1. recs[k] \in Seq(Cleans) /\ list[k] \in Seq(PlainLines)
        BY <1>3, <3>1 DEF Plain
      <4>2. p \in Seq(PlainLines)
        BY <4>1, ListsAre, KeepType
      <4>3. b \in Seq(PlainLines)
        BY <1>1, <4>1, BuiltIs, SeqMonotonic
      <4>4. Rebuild(list[k], recs[k]) = p \o b
        BY DEF Rebuild, Built
      <4> HIDE DEF p, b
      <4> QED BY <4>2, <4>3, <4>4, ConcatProperties
    <3> QED BY <3>1, <3>2 DEF Plain
  <2>2. CASE EditorRequest
    <3>1. PICK k \in Keys, text \in EditorTexts : Whitelist(k, text)
      BY <2>2 DEF EditorRequest
    <3>2. list' = [list EXCEPT ![k] = MergeWhitelist(list[k], text)]
      BY <3>1 DEF Whitelist
    <3> DEFINE p == NotAllow(list[k])
               a == AllowRules(text)
    <3>3. list[k] \in Seq(PlainLines) /\ text \in Seq(Text)
      BY <1>3, <3>1, ListsAssumption DEF Plain
    <3>4. p \in Seq(PlainLines)
      BY <3>3, ListsAre, KeepType
    <3>5. a \in Seq(PlainLines)
      BY <3>1, <3>3, TypedArePlain DEF PlainAllows
    <3>6. MergeWhitelist(list[k], text) = p \o a
      BY DEF MergeWhitelist
    <3> HIDE DEF p, a
    <3>7. MergeWhitelist(list[k], text) \in Seq(PlainLines)
      BY <3>4, <3>5, <3>6, ConcatProperties
    <3> QED BY <1>3, <3>2, <3>7 DEF Plain
  <2>3. CASE SyncRequest
    BY <1>3, <2>3 DEF SyncRequest, Sync, Plain
  <2>4. CASE UNCHANGED list
    BY <1>3, <2>4 DEF Plain
  <2> QED BY <1>3, <2>1, <2>2, <2>3, <2>4 DEF Next
<1> QED BY <1>2, <1>3, TypedAlways, PTL DEF Spec

(***************************************************************************)
(* Opening the editor and saving it shows the same domains and settles the *)
(* list, when no allow rule names an allow rule.  (cleanRule takes off one *)
(* prefix: a rule for a rule shows a rule, and is saved as that one.)      *)
(***************************************************************************)
THEOREM EditorSettles ==
  ASSUME PlainAllows
  PROVE  Spec => []EditorIsStable
<1>1. Typed /\ Plain => EditorIsStable
  BY PlainIsStable DEF Typed, Plain, EditorIsStable
<1> QED BY <1>1, TypedAlways, PlainAlways, PTL

=============================================================================
