---------------------------- MODULE CommonLemmas ----------------------------
(***************************************************************************)
(* Facts about numbers and lists that the proofs of several components     *)
(* need.                                                                   *)
(***************************************************************************)
EXTENDS Closures, SequencesExt, FiniteSetTheorems, WellFoundedInduction, TLAPS

\* A nonempty set of naturals has a least element.
LEMMA LeastNatural ==
  ASSUME NEW K \in SUBSET Nat, K # {}
  PROVE  \E k \in K : \A j \in K : k <= j
<1>1. PICK k \in K : \A j \in K : ~(<<j, k>> \in OpToRel(<, Nat))
  BY WFMin, NatLessThanWellFounded
<1>2. \A j \in K : ~(j < k)
  <2>. SUFFICES ASSUME NEW j \in K, j < k  PROVE FALSE
    OBVIOUS
  <2>1. <<j, k>> \in {ss \in Nat \X Nat : ss[1] < ss[2]}
    OBVIOUS
  <2>. QED  BY <1>1, <2>1 DEF OpToRel
<1>. QED  BY <1>2

\* Induction over the naturals, for a set.
LEMMA NaturalInduction ==
  ASSUME NEW K, 0 \in K, \A n \in Nat : n \in K => n + 1 \in K
  PROVE  Nat \subseteq K
<1>. SUFFICES ASSUME Nat \ K # {}  PROVE FALSE
  OBVIOUS
<1>1. PICK k \in Nat \ K : \A j \in Nat \ K : k <= j
  BY LeastNatural
<1>2. k # 0
  BY <1>1
<1>3. k - 1 \in Nat /\ (k - 1) + 1 = k
  BY <1>1, <1>2
<1>4. k - 1 \in K
  BY <1>1, <1>3
<1>. QED  BY <1>1, <1>3, <1>4

-----------------------------------------------------------------------------
(* The least set that contains some elements and all that its own need.    *)

\* G can be applied to A again and again, and f is what comes out.
Steps(T, A, G) == A \in T /\ G \in [T -> T]
Orbit(T, A, G, f) == f \in [Nat -> T] /\ f[0] = A /\ \A n \in Nat : f[n + 1] = G[f[n]]

LEMMA Iterates ==
  ASSUME NEW T, NEW A, NEW G, Steps(T, A, G)
  PROVE  \E f : Orbit(T, A, G, f)
<1>. USE DEF Steps
<1>. DEFINE Part(n, g) == /\ g \in [0 .. n -> T] /\ g[0] = A
                          /\ \A i \in 0 .. n - 1 : g[i + 1] = G[g[i]]
<1>1. \A n \in Nat : \E g : Part(n, g)
  <2>. DEFINE K == {n \in Nat : \E g : Part(n, g)}
  <2>1. Part(0, [i \in 0 .. 0 |-> A])
    OBVIOUS
  <2>2. ASSUME NEW n \in Nat, n \in K  PROVE n + 1 \in K
    <3>1. PICK g : Part(n, g)
      BY <2>2
    <3>. DEFINE h == [i \in 0 .. n + 1 |-> IF i = n + 1 THEN G[g[n]] ELSE g[i]]
    <3>2. n \in 0 .. n /\ g[n] \in T /\ G[g[n]] \in T
      BY <3>1
    <3>3. h \in [0 .. n + 1 -> T]
      BY <3>1, <3>2
    <3>4. h[0] = A
      BY <3>1
    <3>5. ASSUME NEW i \in 0 .. (n + 1) - 1  PROVE h[i + 1] = G[h[i]]
      <4>1. CASE i = n
        BY <3>2, <4>1
      <4>2. CASE i # n
        BY <3>1, <4>2
      <4>. QED  BY <4>1, <4>2
    <3>6. Part(n + 1, h)
      BY <3>3, <3>4, <3>5
    <3>. HIDE DEF Part, h
    <3>. QED  BY <3>6
  <2>3. 0 \in K
    BY <2>1
  <2>. HIDE DEF K
  <2>4. Nat \subseteq K
    BY <2>2, <2>3, NaturalInduction
  <2>. QED  BY <2>4 DEF K
<1>2. ASSUME NEW n \in Nat, NEW g, NEW h, Part(n, g), Part(n + 1, h)
      PROVE  \A i \in 0 .. n : g[i] = h[i]
  <2>. DEFINE K == {i \in Nat : i <= n => g[i] = h[i]}
  <2>1. 0 \in K
    BY <1>2
  <2>2. ASSUME NEW i \in Nat, i \in K  PROVE i + 1 \in K
    BY <1>2, <2>2
  <2>. HIDE DEF K
  <2>3. Nat \subseteq K
    BY <2>1, <2>2, NaturalInduction
  <2>. QED  BY <2>3 DEF K
<1>. DEFINE part == [n \in Nat |-> CHOOSE g : Part(n, g)]
            f == [n \in Nat |-> part[n][n]]
<1>3. \A n \in Nat : Part(n, part[n])
  BY <1>1
<1>. HIDE DEF part
<1>4. f \in [Nat -> T] /\ f[0] = A
  BY <1>3
<1>5. ASSUME NEW n \in Nat  PROVE f[n + 1] = G[f[n]]
  <2>1. part[n + 1][n] = part[n][n]
    <3>. HIDE DEF Part
    <3>1. n + 1 \in Nat /\ Part(n, part[n]) /\ Part(n + 1, part[n + 1])
      BY <1>3
    <3>2. \A i \in 0 .. n : part[n][i] = part[n + 1][i]
      BY <1>2, <3>1
    <3>. QED  BY <3>2
  <2>2. part[n + 1][n + 1] = G[part[n + 1][n]]
    <3>1. n + 1 \in Nat /\ n \in 0 .. (n + 1) - 1
      OBVIOUS
    <3>2. Part(n + 1, part[n + 1])
      BY <1>3, <3>1
    <3>. QED  BY <3>1, <3>2
  <2>. QED  BY <2>1, <2>2
<1>. HIDE DEF f
<1>. QED  BY <1>4, <1>5 DEF Orbit

\* C has first, with every x in U also needs[x], and nothing else than that.
Needing(U, first, needs) == IsFiniteSet(U) /\ first \subseteq U /\ needs \in [U -> SUBSET U]
IsClosureOf(U, first, needs, C) ==
  /\ C \subseteq U /\ first \subseteq C
  /\ \A x \in C : needs[x] \subseteq C
  /\ \A S : (first \subseteq S /\ \A x \in S \cap U : needs[x] \subseteq S) => C \subseteq S

LEMMA ClosureIsLeast ==
  ASSUME NEW U, NEW first, NEW needs, Needing(U, first, needs)
  PROVE  IsClosureOf(U, first, needs, Closure(U, first, needs))
<1>. USE DEF Needing
<1>. DEFINE More(so) == so \cup UNION {needs[x] : x \in so}
            Grow == [so \in SUBSET U |-> More(so)]
            N == Cardinality(U)
<1>1. Grow \in [SUBSET U -> SUBSET U]
  OBVIOUS
<1>. HIDE DEF Grow
<1>2. PICK f : f \in [Nat -> SUBSET U] /\ f[0] = first /\ \A n \in Nat : f[n + 1] = Grow[f[n]]
  <2>1. Steps(SUBSET U, first, Grow)
    BY <1>1 DEF Steps
  <2>2. \E f : Orbit(SUBSET U, first, Grow, f)
    BY <2>1, Iterates
  <2>. QED  BY <2>2 DEF Orbit
<1>3. \A n \in Nat : f[n + 1] = More(f[n])
  BY <1>2 DEF Grow
<1>4. f = [n \in Nat |-> IF n = 0 THEN first
                         ELSE LET so == f[n - 1] IN so \cup UNION {needs[x] : x \in so}]
  <2>1. \A n \in Nat : n # 0 => f[n] = More(f[n - 1])
    <3>. SUFFICES ASSUME NEW n \in Nat, n # 0  PROVE f[n] = More(f[n - 1])
      OBVIOUS
    <3>1. n - 1 \in Nat /\ (n - 1) + 1 = n
      OBVIOUS
    <3>. QED  BY <1>3, <3>1
  <2>. QED  BY <1>2, <2>1
<1>. DEFINE h == CHOOSE g : g = [n \in Nat |-> IF n = 0 THEN first
                             ELSE LET so == g[n - 1] IN so \cup UNION {needs[x] : x \in so}]
<1>5. h = [n \in Nat |-> IF n = 0 THEN first
                         ELSE LET so == h[n - 1] IN so \cup UNION {needs[x] : x \in so}]
  BY <1>4
<1>6. Closure(U, first, needs) = h[N]
  BY DEF Closure
<1>. HIDE DEF h
<1>7. h[0] = first /\ \A n \in Nat : h[n + 1] = More(h[n])
  <2>1. h[0] = first
    BY <1>5
  <2>2. \A n \in Nat : n + 1 # 0 /\ (n + 1) - 1 = n
    OBVIOUS
  <2>. QED  BY <1>5, <2>1, <2>2
<1>8. \A n \in Nat : h[n] \subseteq U
  <2>. DEFINE K == {n \in Nat : h[n] \subseteq U}
  <2>1. 0 \in K /\ \A n \in Nat : n \in K => n + 1 \in K
    BY <1>7
  <2>. HIDE DEF K
  <2>2. Nat \subseteq K
    BY <2>1, NaturalInduction
  <2>. QED  BY <2>2 DEF K
<1>9. \A n \in Nat : first \subseteq h[n]
  <2>. DEFINE K == {n \in Nat : first \subseteq h[n]}
  <2>1. 0 \in K /\ \A n \in Nat : n \in K => n + 1 \in K
    BY <1>7
  <2>. HIDE DEF K
  <2>2. Nat \subseteq K
    BY <2>1, NaturalInduction
  <2>. QED  BY <2>2 DEF K
<1>10. N \in Nat
  BY FS_CardinalityType
<1>11. \E m \in 0 .. N : More(h[m]) = h[m]
  <2>. SUFFICES ASSUME \A m \in 0 .. N : More(h[m]) # h[m]  PROVE FALSE
    OBVIOUS
  <2>. DEFINE K == {n \in Nat : n <= N + 1 => Cardinality(h[n]) >= n}
  <2>1. \A n \in Nat : IsFiniteSet(h[n]) /\ Cardinality(h[n]) \in Nat /\ Cardinality(h[n]) <= N
    BY <1>8, FS_Subset, FS_CardinalityType
  <2>2. 0 \in K
    BY <2>1
  <2>3. ASSUME NEW n \in Nat, n \in K  PROVE n + 1 \in K
    <3>. SUFFICES ASSUME n + 1 <= N + 1  PROVE Cardinality(h[n + 1]) >= n + 1
      OBVIOUS
    <3>1. n \in 0 .. N /\ h[n] \subseteq h[n + 1] /\ h[n] # h[n + 1]
      BY <1>7, <1>10
    <3>2. /\ IsFiniteSet(h[n + 1]) /\ h[n] \in SUBSET h[n + 1] /\ Cardinality(h[n + 1]) \in Nat
          /\ Cardinality(h[n]) \in Nat /\ n + 1 \in Nat
      BY <2>1, <3>1
    <3>3. Cardinality(h[n]) <= Cardinality(h[n + 1]) /\ Cardinality(h[n]) # Cardinality(h[n + 1])
      BY <3>1, <3>2, FS_Subset
    <3>4. Cardinality(h[n]) >= n
      BY <2>3, <3>1, <1>10
    <3>. QED  BY <3>2, <3>3, <3>4
  <2>. HIDE DEF K, N
  <2>4. Nat \subseteq K
    BY <2>2, <2>3, NaturalInduction
  <2>5. N + 1 \in K /\ N + 1 \in Nat
    BY <1>10, <2>4
  <2>6. Cardinality(h[N + 1]) >= N + 1
    BY <1>10, <2>5 DEF K
  <2>7. Cardinality(h[N + 1]) \in Nat /\ Cardinality(h[N + 1]) <= N
    BY <2>1, <2>5
  <2>. QED  BY <1>10, <2>6, <2>7
<1>12. More(h[N]) = h[N]
  <2>1. PICK m \in 0 .. N : More(h[m]) = h[m]
    BY <1>11
  <2>. DEFINE K == {n \in Nat : h[m + n] = h[m]}
  <2>2. 0 \in K
    BY <2>1
  <2>3. ASSUME NEW n \in Nat, n \in K  PROVE n + 1 \in K
    <3>1. m + n \in Nat /\ m + (n + 1) = (m + n) + 1
      BY <2>1
    <3>2. h[(m + n) + 1] = More(h[m + n])
      BY <1>7, <3>1
    <3>3. h[m + n] = h[m]
      BY <2>3
    <3>4. h[m + (n + 1)] = h[m]
      BY <2>1, <3>1, <3>2, <3>3
    <3>. QED  BY <3>4
  <2>. HIDE DEF K, N
  <2>4. Nat \subseteq K
    BY <2>2, <2>3, NaturalInduction
  <2>5. N - m \in Nat /\ m + (N - m) = N
    BY <1>10, <2>1
  <2>6. h[m + (N - m)] = h[m]
    BY <2>4, <2>5 DEF K
  <2>. QED  BY <2>1, <2>5, <2>6
<1>13. ASSUME NEW S, first \subseteq S, \A x \in S \cap U : needs[x] \subseteq S
       PROVE  h[N] \subseteq S
  <2>. DEFINE K == {n \in Nat : h[n] \subseteq S}
  <2>1. 0 \in K /\ \A n \in Nat : n \in K => n + 1 \in K
    BY <1>7, <1>8, <1>13
  <2>. HIDE DEF K
  <2>2. Nat \subseteq K
    BY <2>1, NaturalInduction
  <2>. QED  BY <1>10, <2>2 DEF K
<1>14. \A x \in h[N] : needs[x] \subseteq h[N]
  BY <1>12
<1>15. h[N] \subseteq U /\ first \subseteq h[N]
  BY <1>8, <1>9, <1>10
<1>. HIDE DEF N
<1>. HIDE DEF Needing
<1>. QED  BY <1>6, <1>13, <1>14, <1>15, Zenon DEF IsClosureOf

-----------------------------------------------------------------------------
(* A stack of calls, innermost first.                                      *)

\* The innermost call goes on.
LEMMA AdvanceStack ==
  ASSUME NEW F, NEW s \in Seq(F), s # <<>>, NEW b \in F
  PROVE  /\ <<b>> \o Tail(s) \in Seq(F)
         /\ Len(<<b>> \o Tail(s)) = Len(s) /\ DOMAIN (<<b>> \o Tail(s)) = 1 .. Len(s)
         /\ (<<b>> \o Tail(s))[1] = b
         /\ \A k \in 2 .. Len(s) : (<<b>> \o Tail(s))[k] = s[k]
<1>1. Tail(s) \in Seq(F) /\ Len(Tail(s)) = Len(s) - 1 /\ Len(s) \in Nat \ {0}
  OBVIOUS
<1>2. \A k \in 1 .. Len(s) - 1 : Tail(s)[k] = s[k + 1]
  OBVIOUS
<1>. QED  BY <1>1, <1>2

\* A call is made.
LEMMA PushStack ==
  ASSUME NEW F, NEW s \in Seq(F), NEW a \in F
  PROVE  /\ <<a>> \o s \in Seq(F)
         /\ Len(<<a>> \o s) = Len(s) + 1 /\ DOMAIN (<<a>> \o s) = 1 .. Len(s) + 1
         /\ (<<a>> \o s)[1] = a
         /\ \A k \in 1 .. Len(s) : (<<a>> \o s)[k + 1] = s[k]
OBVIOUS

\* A list of elements of S is one of elements of a larger set.
LEMMA SeqMonotone ==
  ASSUME NEW S, NEW T, S \subseteq T, NEW s \in Seq(S)
  PROVE  s \in Seq(T)
OBVIOUS

\* A list, of whatever elements.
IsList(s) == s \in Seq({s[i] : i \in DOMAIN s})

\* A list gets one more element.
LEMMA ListAppend ==
  ASSUME NEW s, IsList(s), NEW e
  PROVE  /\ IsList(Append(s, e))
         /\ Len(s) \in Nat /\ DOMAIN s = 1 .. Len(s)
         /\ Len(Append(s, e)) = Len(s) + 1 /\ DOMAIN Append(s, e) = 1 .. Len(s) + 1
         /\ \A i \in DOMAIN s : Append(s, e)[i] = s[i]
         /\ Append(s, e)[Len(s) + 1] = e
<1>. DEFINE S == {s[i] : i \in DOMAIN s}
            a == Append(s, e)
            A == {a[i] : i \in DOMAIN a}
<1>1. s \in Seq(S \cup {e}) /\ Len(s) \in Nat /\ DOMAIN s = 1 .. Len(s)
  BY SeqMonotone, S \subseteq S \cup {e} DEF IsList
<1>2. /\ a \in Seq(S \cup {e}) /\ Len(a) = Len(s) + 1 /\ DOMAIN a = 1 .. Len(s) + 1
      /\ \A i \in DOMAIN s : a[i] = s[i]
      /\ a[Len(s) + 1] = e
  BY <1>1
<1>3. S \cup {e} \subseteq A
  BY <1>1, <1>2
<1>4. a \in Seq(A)
  BY <1>2, <1>3, SeqMonotone
<1>. QED  BY <1>1, <1>2, <1>4 DEF IsList

\* One element of a list is replaced.
LEMMA ListChange ==
  ASSUME NEW s, IsList(s), NEW j \in DOMAIN s, NEW e
  PROVE  LET r == [s EXCEPT ![j] = e]
         IN  /\ IsList(r)
             /\ DOMAIN r = DOMAIN s /\ Len(r) = Len(s)
             /\ r[j] = e /\ \A i \in DOMAIN s : i # j => r[i] = s[i]
<1>. DEFINE r == [s EXCEPT ![j] = e]
            R == {r[i] : i \in DOMAIN r}
<1>1. Len(s) \in Nat /\ DOMAIN s = 1 .. Len(s) /\ s = [i \in 1 .. Len(s) |-> s[i]]
  BY DEF IsList
<1>2. DOMAIN r = 1 .. Len(s) /\ r = [i \in 1 .. Len(s) |-> r[i]]
  BY <1>1
<1>3. r \in [1 .. Len(s) -> R]
  BY <1>2
<1>4. r \in Seq(R) /\ Len(r) = Len(s)
  <2>. HIDE DEF r, R
  <2>. QED  BY <1>1, <1>3
<1>. QED  BY <1>1, <1>2, <1>4 DEF IsList

-----------------------------------------------------------------------------
\* A list without repetition has as many elements as positions.
LEMMA DistinctElements ==
  ASSUME NEW S, NEW s \in Seq(S), \A j, k \in DOMAIN s : s[j] = s[k] => j = k
  PROVE  /\ IsFiniteSet({s[k] : k \in DOMAIN s})
         /\ Cardinality({s[k] : k \in DOMAIN s}) = Len(s)
<1>. DEFINE T == {s[k] : k \in DOMAIN s}
<1>1. Len(s) \in Nat /\ DOMAIN s = 1 .. Len(s) /\ s \in [1 .. Len(s) -> T]
  OBVIOUS
<1>2. IsFiniteSet(1 .. Len(s)) /\ Cardinality(1 .. Len(s)) = Len(s)
  <2>1. \A n \in Nat : IsFiniteSet(1 .. n) /\ Cardinality(1 .. n) = n
    BY FS_Interval
  <2>. QED  BY <1>1, <2>1
<1>3. s \in Bijection(1 .. Len(s), T)
  BY <1>1 DEF Bijection, Injection, Surjection, IsInjective
<1>4. ExistsBijection(1 .. Len(s), T)
  BY <1>3 DEF ExistsBijection
<1>. QED  BY <1>2, <1>4, FS_Bijection

-----------------------------------------------------------------------------
(* Texts put together of pieces.                                           *)

\* f[n] is what the first n pieces make.
Joins(C, ss, f) ==
  /\ f \in [0 .. Len(ss) -> Seq(C)] /\ f[0] = <<>>
  /\ \A i \in 1 .. Len(ss) : f[i] = f[i - 1] \o ss[i]

LEMMA JoinsUnique ==
  ASSUME NEW C, NEW ss \in Seq(Seq(C)), NEW f, NEW g, Joins(C, ss, f), Joins(C, ss, g)
  PROVE  f = g
<1>. DEFINE K == {n \in Nat : n <= Len(ss) => f[n] = g[n]}
<1>1. 0 \in K
  BY DEF Joins
<1>2. ASSUME NEW n \in Nat, n \in K  PROVE n + 1 \in K
  <2>. SUFFICES ASSUME n + 1 <= Len(ss)  PROVE f[n + 1] = g[n + 1]
    OBVIOUS
  <2>1. n + 1 \in 1 .. Len(ss) /\ (n + 1) - 1 = n /\ f[n] = g[n]
    BY <1>2
  <2>. QED  BY <2>1 DEF Joins
<1>. HIDE DEF K
<1>3. Nat \subseteq K
  BY <1>1, <1>2, NaturalInduction
<1>4. \A n \in 0 .. Len(ss) : f[n] = g[n]
  BY <1>3 DEF K
<1>. QED  BY <1>4 DEF Joins

LEMMA FlattenJoins ==
  ASSUME NEW C, NEW ss \in Seq(Seq(C))
  PROVE  \E f : Joins(C, ss, f) /\ FlattenSeq(ss) = f[Len(ss)]
<1>. DEFINE N == Len(ss)
            Run(h) == h = [i \in 1 .. N |-> IF i = 1 THEN ss[i] ELSE h[i - 1] \o ss[i]]
            flatten == CHOOSE h : Run(h)
<1>1. N \in Nat /\ \A i \in 1 .. N : ss[i] \in Seq(C)
  OBVIOUS
<1>2. \E h : Run(h)
  <2>. DEFINE T == Nat \X Seq(C)
              A == <<0, <<>> >>
              G == [p \in T |-> <<p[1] + 1, IF p[1] < N THEN p[2] \o ss[p[1] + 1] ELSE p[2]>>]
  <2>1. Steps(T, A, G)
    <3>1. A \in T
      <4>1. 0 \in Nat /\ <<>> \in Seq(C)
        OBVIOUS
      <4>. QED  BY <4>1
    <3>2. ASSUME NEW p \in T
          PROVE  <<p[1] + 1, IF p[1] < N THEN p[2] \o ss[p[1] + 1] ELSE p[2]>> \in T
      <4>1. CASE p[1] < N
        <5>1. p[1] + 1 \in 1 .. N
          BY <4>1
        <5>2. p[1] + 1 \in Nat /\ p[2] \in Seq(C)
          OBVIOUS
        <5>3. ss[p[1] + 1] \in Seq(C)
          BY <1>1, <5>1
        <5>4. p[2] \o ss[p[1] + 1] \in Seq(C)
          BY <5>2, <5>3
        <5>. QED  BY <4>1, <5>2, <5>4
      <4>2. CASE ~(p[1] < N)
        BY <4>2
      <4>. QED  BY <4>1, <4>2
    <3>. QED  BY <3>1, <3>2 DEF Steps
  <2>2. PICK f : Orbit(T, A, G, f)
    BY <2>1, Iterates
  <2>3. \A n \in Nat : f[n] \in T /\ f[n][1] = n
    <3>. DEFINE K == {n \in Nat : f[n][1] = n}
    <3>1. \A n \in Nat : f[n] \in T
      BY <2>2 DEF Orbit
    <3>2. 0 \in K
      BY <2>2 DEF Orbit
    <3>3. ASSUME NEW n \in Nat, n \in K  PROVE n + 1 \in K
      <4>1. f[n + 1] = G[f[n]] /\ f[n] \in T /\ f[n][1] = n
        BY <2>2, <3>3 DEF Orbit
      <4>2. G[f[n]][1] = f[n][1] + 1
        BY <4>1
      <4>. QED  BY <4>1, <4>2
    <3>. HIDE DEF K
    <3>4. Nat \subseteq K
      BY <3>2, <3>3, NaturalInduction
    <3>. QED  BY <3>1, <3>4 DEF K
  <2>. DEFINE h == [i \in 1 .. N |-> f[i][2]]
  <2>4. ASSUME NEW i \in 1 .. N  PROVE f[i][2] = IF i = 1 THEN ss[i] ELSE f[i - 1][2] \o ss[i]
    <3>1. i - 1 \in Nat /\ (i - 1) + 1 = i /\ i - 1 < N
      OBVIOUS
    <3>2. f[i] = G[f[i - 1]] /\ f[i - 1] \in T /\ f[i - 1][1] = i - 1
      BY <2>2, <2>3, <3>1 DEF Orbit
    <3>3. f[i][2] = f[i - 1][2] \o ss[i]
      <4>. DEFINE p == f[i - 1]
      <4>1. p \in T /\ p[1] < N /\ p[1] + 1 = i
        BY <3>1, <3>2
      <4>2. G[p] = <<p[1] + 1, p[2] \o ss[p[1] + 1]>>
        BY <4>1
      <4>3. G[p][2] = p[2] \o ss[i]
        BY <4>1, <4>2
      <4>. HIDE DEF G, T
      <4>. QED  BY <3>2, <4>3
    <3>4. f[0][2] = <<>>
      BY <2>2 DEF Orbit
    <3>5. ss[i] \in Seq(C)
      BY <1>1
    <3>. HIDE DEF N, G, T
    <3>6. CASE i = 1
      <4>1. <<>> \o ss[i] = ss[i]
        BY <3>5
      <4>2. f[i - 1][2] = <<>>
        BY <3>4, <3>6
      <4>. QED  BY <3>3, <3>6, <4>1, <4>2
    <3>. QED  BY <3>3, <3>6
  <2>5. Run(h)
    <3>. HIDE DEF N
    <3>1. \A i \in 1 .. N : i # 1 => i - 1 \in 1 .. N
      BY <1>1
    <3>. QED  BY <2>4, <3>1
  <2>. HIDE DEF h
  <2>. QED  BY <2>5
<1>3. Run(flatten)
  BY <1>2
<1>. DEFINE f == [i \in 0 .. N |-> IF i = 0 THEN <<>> ELSE flatten[i]]
<1>4. FlattenSeq(ss) = f[N]
  <2>1. CASE N = 0
    BY <2>1 DEF FlattenSeq
  <2>2. CASE N # 0
    BY <1>1, <2>2 DEF FlattenSeq
  <2>. QED  BY <2>1, <2>2
<1>. HIDE DEF flatten, N
<1>5. \A i \in 1 .. N : f[i] = f[i - 1] \o ss[i]
  <2>1. ASSUME NEW i \in 1 .. N  PROVE f[i] = f[i - 1] \o ss[i]
    <3>1. i - 1 \in 0 .. N /\ i \in 0 .. N /\ i # 0 /\ ss[i] \in Seq(C)
      BY <1>1
    <3>2. flatten[i] = IF i = 1 THEN ss[i] ELSE flatten[i - 1] \o ss[i]
      BY <1>3
    <3>3. CASE i = 1
      BY <3>1, <3>2, <3>3
    <3>4. CASE i # 1
      <4>1. f[i] = flatten[i]
        BY <3>1
      <4>2. f[i - 1] = flatten[i - 1]
        BY <1>1, <3>1, <3>4
      <4>. QED  BY <3>2, <3>4, <4>1, <4>2
    <3>. QED  BY <3>3, <3>4
  <2>. QED  BY <2>1
<1>6. \A i \in 0 .. N : f[i] \in Seq(C)
  <2>. DEFINE K == {n \in Nat : n <= N => f[n] \in Seq(C)}
  <2>1. 0 \in K
    BY <1>1
  <2>2. ASSUME NEW n \in Nat, n \in K  PROVE n + 1 \in K
    <3>. SUFFICES ASSUME n + 1 <= N  PROVE f[n + 1] \in Seq(C)
      OBVIOUS
    <3>1. n + 1 \in 1 .. N /\ (n + 1) - 1 = n /\ f[n] \in Seq(C)
      BY <1>1, <2>2
    <3>2. f[n + 1] = f[n] \o ss[n + 1] /\ ss[n + 1] \in Seq(C)
      BY <1>1, <1>5, <3>1
    <3>. HIDE DEF f
    <3>. QED  BY <3>1, <3>2
  <2>. HIDE DEF K
  <2>3. Nat \subseteq K
    BY <2>1, <2>2, NaturalInduction
  <2>4. \A i \in 0 .. N : i \in Nat /\ i <= N
    BY <1>1
  <2>. HIDE DEF f
  <2>. QED  BY <2>3, <2>4 DEF K
<1>7. f[0] = <<>>
  BY <1>1
<1>8. f = [i \in 0 .. N |-> f[i]]
  OBVIOUS
<1>. HIDE DEF f
<1>9. Joins(C, ss, f)
  BY <1>5, <1>6, <1>7, <1>8 DEF Joins, N
<1>. QED  BY <1>4, <1>9 DEF N

LEMMA FlattenTyped ==
  ASSUME NEW C, NEW ss \in Seq(Seq(C))
  PROVE  FlattenSeq(ss) \in Seq(C)
<1>1. PICK f : Joins(C, ss, f) /\ FlattenSeq(ss) = f[Len(ss)]
  BY FlattenJoins
<1>2. Len(ss) \in 0 .. Len(ss)
  OBVIOUS
<1>. QED  BY <1>1, <1>2 DEF Joins

\* One piece more.
LEMMA FlattenAppend ==
  ASSUME NEW C, NEW ss \in Seq(Seq(C)), NEW w \in Seq(C)
  PROVE  FlattenSeq(Append(ss, w)) = FlattenSeq(ss) \o w
<1>. DEFINE more == Append(ss, w)
<1>1. PICK N \in Nat : N = Len(ss)
  OBVIOUS
<1>2. /\ more \in Seq(Seq(C)) /\ Len(more) = N + 1
      /\ more[N + 1] = w /\ \A i \in 1 .. N : more[i] = ss[i]
  BY <1>1
<1>. HIDE DEF more
<1>3. PICK f : Joins(C, ss, f) /\ FlattenSeq(ss) = f[N]
  BY <1>1, FlattenJoins
<1>4. PICK g : Joins(C, more, g) /\ FlattenSeq(more) = g[N + 1]
  BY <1>2, FlattenJoins
<1>5. /\ g[0] = <<>> /\ \A i \in 0 .. N : g[i] \in Seq(C)
      /\ \A i \in 1 .. N : g[i] = g[i - 1] \o ss[i]
      /\ g[N + 1] = g[N] \o w
  <2>1. /\ g \in [0 .. N + 1 -> Seq(C)] /\ g[0] = <<>>
        /\ \A i \in 1 .. N + 1 : g[i] = g[i - 1] \o more[i]
    BY <1>2, <1>4 DEF Joins
  <2>2. ASSUME NEW i \in 1 .. N  PROVE g[i] = g[i - 1] \o ss[i]
    <3>1. i \in 1 .. N + 1
      OBVIOUS
    <3>2. g[i] = g[i - 1] \o more[i]
      BY <2>1, <3>1
    <3>3. more[i] = ss[i]
      BY <1>2
    <3>. QED  BY <3>2, <3>3
  <2>3. N + 1 \in 1 .. N + 1 /\ (N + 1) - 1 = N
    OBVIOUS
  <2>4. g[N + 1] = g[N] \o more[N + 1]
    BY <2>1, <2>3
  <2>5. \A i \in 0 .. N : g[i] \in Seq(C)
    BY <2>1
  <2>. QED  BY <1>2, <2>1, <2>2, <2>4, <2>5
<1>. DEFINE h == [i \in 0 .. N |-> g[i]]
<1>6. Joins(C, ss, h)
  <2>1. \A i \in 1 .. N : i \in 0 .. N /\ i - 1 \in 0 .. N
    OBVIOUS
  <2>2. h \in [0 .. N -> Seq(C)] /\ h[0] = <<>>
    BY <1>5
  <2>3. ASSUME NEW i \in 1 .. N  PROVE h[i] = h[i - 1] \o ss[i]
    <3>1. h[i] = g[i] /\ h[i - 1] = g[i - 1]
      BY <2>1
    <3>. HIDE DEF h
    <3>. QED  BY <1>5, <3>1
  <2>. HIDE DEF h
  <2>. QED  BY <1>1, <2>2, <2>3 DEF Joins
<1>7. h = f
  BY <1>3, <1>6, JoinsUnique
<1>8. g[N] = f[N]
  <2>1. h[N] = g[N]
    OBVIOUS
  <2>. QED  BY <1>7, <2>1
<1>. QED  BY <1>3, <1>4, <1>5, <1>8 DEF more

-----------------------------------------------------------------------------
(* A text put together of the pieces of another text's elements.           *)

\* Induction over lists.
LEMMA ListInduction ==
  ASSUME NEW A, NEW K, <<>> \in K, \A s \in Seq(A) : \A a \in A : s \in K => Append(s, a) \in K
  PROVE  Seq(A) \subseteq K
<1>. DEFINE L == {n \in Nat : \A s \in Seq(A) : Len(s) = n => s \in K}
<1>1. 0 \in L
  OBVIOUS
<1>2. ASSUME NEW n \in Nat, n \in L  PROVE n + 1 \in L
  <2>. SUFFICES ASSUME NEW s \in Seq(A), Len(s) = n + 1  PROVE s \in K
    OBVIOUS
  <2>. DEFINE t == SubSeq(s, 1, n)
  <2>1. t \in Seq(A) /\ Len(t) = n /\ s[n + 1] \in A /\ s = Append(t, s[n + 1])
    OBVIOUS
  <2>2. t \in K
    BY <1>2, <2>1
  <2>. HIDE DEF t
  <2>. QED  BY <2>1, <2>2
<1>. HIDE DEF L
<1>3. Nat \subseteq L
  BY <1>1, <1>2, NaturalInduction
<1>. QED  BY <1>3 DEF L

\* The pieces that g has for the elements of s, one after the other.
Each(g, s) == FlattenSeq([i \in DOMAIN s |-> g[s[i]]])

\* A text over C for every element of A.
PiecesOf(A, C) == [A -> Seq(C)]

LEMMA PiecesOfTyped ==
  ASSUME NEW A, NEW C, NEW g \in PiecesOf(A, C), NEW s \in Seq(A)
  PROVE  [i \in DOMAIN s |-> g[s[i]]] \in Seq(Seq(C))
<1>1. PICK n \in Nat : n = Len(s) /\ DOMAIN s = 1 .. n
  OBVIOUS
<1>2. [i \in 1 .. n |-> g[s[i]]] \in [1 .. n -> Seq(C)]
  BY <1>1 DEF PiecesOf
<1>. QED  BY <1>1, <1>2

LEMMA EachTyped ==
  ASSUME NEW A, NEW C, NEW g \in PiecesOf(A, C), NEW s \in Seq(A)
  PROVE  Each(g, s) \in Seq(C)
<1>1. [i \in DOMAIN s |-> g[s[i]]] \in Seq(Seq(C))
  BY PiecesOfTyped
<1>. QED  BY <1>1, FlattenTyped DEF Each

LEMMA EachNone == \A g : Each(g, <<>>) = <<>>
<1>. SUFFICES ASSUME NEW g  PROVE Each(g, <<>>) = <<>>
  OBVIOUS
<1>1. [i \in DOMAIN <<>> |-> g[<<>>[i]]] = <<>>
  OBVIOUS
<1>2. FlattenSeq(<<>>) = <<>>
  BY DEF FlattenSeq
<1>. QED  BY <1>1, <1>2 DEF Each

LEMMA EachAppend ==
  ASSUME NEW A, NEW C, NEW g \in PiecesOf(A, C), NEW s \in Seq(A), NEW a \in A
  PROVE  Each(g, Append(s, a)) = Each(g, s) \o g[a]
<1>. DEFINE ss == [i \in DOMAIN s |-> g[s[i]]]
            more == [i \in DOMAIN Append(s, a) |-> g[Append(s, a)[i]]]
<1>1. ss \in Seq(Seq(C)) /\ g[a] \in Seq(C)
  BY PiecesOfTyped DEF PiecesOf
<1>2. more = Append(ss, g[a])
  <2>1. PICK n \in Nat : n = Len(s) /\ DOMAIN s = 1 .. n
    OBVIOUS
  <2>2. /\ DOMAIN Append(s, a) = 1 .. n + 1 /\ Append(s, a)[n + 1] = a
        /\ \A i \in 1 .. n : Append(s, a)[i] = s[i]
    BY <2>1
  <2>3. Len(ss) = n /\ \A i \in 1 .. n : ss[i] = g[s[i]]
    BY <2>1
  <2>4. /\ DOMAIN Append(ss, g[a]) = 1 .. n + 1 /\ Append(ss, g[a])[n + 1] = g[a]
        /\ \A i \in 1 .. n : Append(ss, g[a])[i] = ss[i]
    <3>. HIDE DEF ss
    <3>. QED  BY <1>1, <2>3
  <2>5. more \in Seq(Seq(C)) /\ Append(ss, g[a]) \in Seq(Seq(C))
    <3>1. Append(s, a) \in Seq(A)
      OBVIOUS
    <3>2. more \in Seq(Seq(C))
      BY <3>1, PiecesOfTyped
    <3>. HIDE DEF ss, more
    <3>. QED  BY <1>1, <3>2
  <2>6. DOMAIN more = 1 .. n + 1 /\ more[n + 1] = g[a] /\ \A i \in 1 .. n : more[i] = g[s[i]]
    BY <2>2
  <2>7. \A i \in 1 .. n + 1 : more[i] = Append(ss, g[a])[i]
    <3>. HIDE DEF ss, more
    <3>1. \A i \in 1 .. n + 1 : i \in 1 .. n \/ i = n + 1
      OBVIOUS
    <3>. QED  BY <2>3, <2>4, <2>6, <3>1
  <2>. HIDE DEF ss, more
  <2>. QED  BY <2>4, <2>5, <2>6, <2>7
<1>3. FlattenSeq(Append(ss, g[a])) = FlattenSeq(ss) \o g[a]
  <2>. HIDE DEF ss
  <2>. QED  BY <1>1, FlattenAppend
<1>4. Each(g, Append(s, a)) = FlattenSeq(more) /\ Each(g, s) = FlattenSeq(ss)
  BY DEF Each
<1>. QED  BY <1>2, <1>3, <1>4

LEMMA EachOne ==
  ASSUME NEW A, NEW C, NEW g \in PiecesOf(A, C), NEW a \in A
  PROVE  Each(g, <<a>>) = g[a]
<1>1. <<>> \in Seq(A) /\ <<a>> = Append(<<>>, a) /\ g[a] \in Seq(C)
  BY DEF PiecesOf
<1>2. Each(g, <<a>>) = Each(g, <<>>) \o g[a]
  BY <1>1, EachAppend
<1>. QED  BY <1>1, <1>2, EachNone

\* Elements that are their own pieces stay.
LEMMA EachKeeps ==
  ASSUME NEW A, NEW g \in PiecesOf(A, A), NEW s \in Seq(A), \A i \in DOMAIN s : g[s[i]] = <<s[i]>>
  PROVE  Each(g, s) = s
<1>. DEFINE K == {t \in Seq(A) : (\A i \in DOMAIN t : g[t[i]] = <<t[i]>>) => Each(g, t) = t}
<1>1. <<>> \in K
  BY EachNone
<1>2. ASSUME NEW t \in Seq(A), NEW a \in A, t \in K  PROVE Append(t, a) \in K
  <2>. SUFFICES ASSUME \A i \in DOMAIN Append(t, a) : g[Append(t, a)[i]] = <<Append(t, a)[i]>>
                PROVE  Each(g, Append(t, a)) = Append(t, a)
    <3>1. Append(t, a) \in Seq(A)
      OBVIOUS
    <3>. QED  BY <3>1, Zenon
  <2>1. PICK n \in Nat : n = Len(t) /\ DOMAIN t = 1 .. n
    OBVIOUS
  <2>2. /\ DOMAIN Append(t, a) = 1 .. n + 1 /\ Append(t, a)[n + 1] = a
        /\ \A i \in 1 .. n : Append(t, a)[i] = t[i]
    BY <2>1
  <2>. DEFINE ta == Append(t, a)
  <2>. HIDE DEF ta
  <2>3. g[a] = <<a>> /\ \A i \in DOMAIN t : g[t[i]] = <<t[i]>>
    <3>1. n + 1 \in 1 .. n + 1 /\ \A i \in 1 .. n : i \in 1 .. n + 1
      BY <2>1
    <3>2. \A i \in DOMAIN ta : g[ta[i]] = <<ta[i]>>
      BY DEF ta
    <3>3. DOMAIN ta = 1 .. n + 1 /\ ta[n + 1] = a /\ \A i \in 1 .. n : ta[i] = t[i]
      BY <2>2 DEF ta
    <3>. QED  BY <2>1, <3>1, <3>2, <3>3, Zenon
  <2>4. Each(g, t) = t
    BY <1>2, <2>3
  <2>5. Each(g, Append(t, a)) = Each(g, t) \o g[a]
    BY EachAppend
  <2>6. t \o <<a>> = Append(t, a)
    OBVIOUS
  <2>. QED  BY <2>3, <2>4, <2>5, <2>6
<1>. HIDE DEF K
<1>3. Seq(A) \subseteq K
  BY <1>1, <1>2, ListInduction
<1>. QED  BY <1>3 DEF K

LEMMA ConcatAssociates ==
  ASSUME NEW C, NEW u \in Seq(C), NEW v \in Seq(C), NEW w \in Seq(C)
  PROVE  (u \o v) \o w = u \o (v \o w)
OBVIOUS

LEMMA EachConcat ==
  ASSUME NEW A, NEW C, NEW g \in PiecesOf(A, C), NEW u \in Seq(A), NEW v \in Seq(A)
  PROVE  Each(g, u \o v) = Each(g, u) \o Each(g, v)
<1>. DEFINE K == {w \in Seq(A) : Each(g, u \o w) = Each(g, u) \o Each(g, w)}
<1>1. Each(g, u) \in Seq(C)
  BY EachTyped
<1>2. <<>> \in K
  <2>1. u \o <<>> = u /\ Each(g, u) \o <<>> = Each(g, u) /\ <<>> \in Seq(A)
    BY <1>1
  <2>2. Each(g, <<>>) = <<>>
    BY EachNone, Zenon
  <2>3. Each(g, u \o <<>>) = Each(g, u) \o Each(g, <<>>)
    BY <2>1, <2>2, Zenon
  <2>. QED  BY <2>1, <2>3
<1>3. ASSUME NEW w \in Seq(A), NEW a \in A, w \in K  PROVE Append(w, a) \in K
  <2>1. u \o Append(w, a) = Append(u \o w, a) /\ u \o w \in Seq(A)
    OBVIOUS
  <2>2. Each(g, Append(u \o w, a)) = Each(g, u \o w) \o g[a]
    BY <2>1, EachAppend
  <2>3. Each(g, Append(w, a)) = Each(g, w) \o g[a]
    BY EachAppend
  <2>4. Each(g, w) \in Seq(C) /\ g[a] \in Seq(C)
    BY EachTyped DEF PiecesOf
  <2>5. (Each(g, u) \o Each(g, w)) \o g[a] = Each(g, u) \o (Each(g, w) \o g[a])
    <3>1. PICK x \in Seq(C), y \in Seq(C), z \in Seq(C) : x = Each(g, u) /\ y = Each(g, w) /\ z = g[a]
      BY <1>1, <2>4
    <3>2. (x \o y) \o z = x \o (y \o z)
      OBVIOUS
    <3>. QED  BY <3>1, <3>2
  <2>6. Append(w, a) \in Seq(A)
    OBVIOUS
  <2>. QED  BY <1>3, <2>1, <2>2, <2>3, <2>5, <2>6
<1>. HIDE DEF K
<1>4. Seq(A) \subseteq K
  BY <1>2, <1>3, ListInduction
<1>. QED  BY <1>4 DEF K

LEMMA FlattenNone == FlattenSeq(<<>>) = <<>>
BY DEF FlattenSeq

\* The pieces of a text put together are the pieces of its parts, put together.
LEMMA EachFlatten ==
  ASSUME NEW A, NEW C, NEW g \in PiecesOf(A, C), NEW ss \in Seq(Seq(A))
  PROVE  Each(g, FlattenSeq(ss)) = FlattenSeq([i \in DOMAIN ss |-> Each(g, ss[i])])
<1>. DEFINE E == [s \in Seq(A) |-> Each(g, s)]
<1>1. E \in PiecesOf(Seq(A), C)
  BY EachTyped DEF PiecesOf
<1>. DEFINE K == {tt \in Seq(Seq(A)) : Each(g, FlattenSeq(tt)) = Each(E, tt)}
<1>2. <<>> \in K
  BY EachNone, FlattenNone
<1>3. ASSUME NEW tt \in Seq(Seq(A)), NEW w \in Seq(A), tt \in K  PROVE Append(tt, w) \in K
  <2>1. FlattenSeq(Append(tt, w)) = FlattenSeq(tt) \o w /\ FlattenSeq(tt) \in Seq(A)
    BY FlattenAppend, FlattenTyped
  <2>2. Each(g, FlattenSeq(tt) \o w) = Each(g, FlattenSeq(tt)) \o Each(g, w)
    <3>. HIDE DEF E, K
    <3>. QED  BY <2>1, EachConcat
  <2>3. Each(E, Append(tt, w)) = Each(E, tt) \o E[w]
    <3>. HIDE DEF E
    <3>. QED  BY <1>1, EachAppend
  <2>4. E[w] = Each(g, w)
    OBVIOUS
  <2>. HIDE DEF E
  <2>5. Append(tt, w) \in Seq(Seq(A))
    OBVIOUS
  <2>. QED  BY <1>3, <2>1, <2>2, <2>3, <2>4, <2>5
<1>4. Seq(Seq(A)) \subseteq K
  <2>. HIDE DEF K
  <2>. QED  BY <1>2, <1>3, ListInduction
<1>5. Each(g, FlattenSeq(ss)) = Each(E, ss)
  BY <1>4
<1>6. [i \in DOMAIN ss |-> E[ss[i]]] = [i \in DOMAIN ss |-> Each(g, ss[i])]
  OBVIOUS
<1>. HIDE DEF E, K
<1>. QED  BY <1>5, <1>6 DEF Each

LEMMA EachSame ==
  ASSUME NEW g, NEW h, NEW s, \A i \in DOMAIN s : g[s[i]] = h[s[i]]
  PROVE  Each(g, s) = Each(h, s)
<1>1. [i \in DOMAIN s |-> g[s[i]]] = [i \in DOMAIN s |-> h[s[i]]]
  OBVIOUS
<1>. QED  BY <1>1 DEF Each

\* Pieces of pieces.
Composed(A, g, h, k) == \A a \in A : Each(g, h[a]) = k[a]

LEMMA EachTwice ==
  ASSUME NEW A, NEW B, NEW C, NEW h \in PiecesOf(A, B), NEW g \in PiecesOf(B, C), NEW k, Composed(A, g, h, k),
         NEW s \in Seq(A)
  PROVE  Each(g, Each(h, s)) = Each(k, s)
<1>. DEFINE ss == [i \in DOMAIN s |-> h[s[i]]]
<1>1. ss \in Seq(Seq(B)) /\ Each(h, s) = FlattenSeq(ss)
  <2>1. [i \in DOMAIN s |-> h[s[i]]] \in Seq(Seq(B))
    <3>. HIDE DEF ss
    <3>. QED  BY PiecesOfTyped
  <2>. QED  BY <2>1, Zenon DEF Each
<1>2. Each(g, FlattenSeq(ss)) = FlattenSeq([i \in DOMAIN ss |-> Each(g, ss[i])])
  <2>. HIDE DEF ss
  <2>. QED  BY <1>1, EachFlatten
<1>3. \A i \in DOMAIN s : s[i] \in A
  OBVIOUS
<1>4. [i \in DOMAIN ss |-> Each(g, ss[i])] = [i \in DOMAIN s |-> k[s[i]]]
  BY <1>3 DEF Composed
<1>5. Each(k, s) = FlattenSeq([i \in DOMAIN s |-> k[s[i]]])
  BY DEF Each
<1>. HIDE DEF ss
<1>. QED  BY <1>1, <1>2, <1>4, <1>5
=============================================================================
