------------------------ MODULE PropertiesFileProofs ------------------------
(***************************************************************************)
(* What writePropertiesWithTimestamp makes of a map, parseProperties reads *)
(* back as that map: for any finitely many keys and any values.            *)
(***************************************************************************)
EXTENDS PropertiesFile, CommonLemmas

-----------------------------------------------------------------------------
(* Loops, and texts put together of pieces.                                *)

LEMMA LoopTurns ==
  ASSUME NEW T, NEW A, NEW G, Steps(T, A, G)
  PROVE  /\ Loop(G, A, 0) = A
         /\ \A n \in Nat : Loop(G, A, n) \in T /\ Loop(G, A, n + 1) = G[Loop(G, A, n)]
<1>. DEFINE Run(f) == f = [n \in Nat |-> IF n = 0 THEN A ELSE G[f[n - 1]]]
            after == CHOOSE f : Run(f)
<1>1. \E f : Run(f)
  <2>1. PICK f : Orbit(T, A, G, f)
    BY Iterates
  <2>2. ASSUME NEW n \in Nat  PROVE f[n] = IF n = 0 THEN A ELSE G[f[n - 1]]
    <3>1. CASE n = 0
      BY <2>1, <3>1 DEF Orbit
    <3>2. CASE n # 0
      <4>1. n - 1 \in Nat /\ (n - 1) + 1 = n
        BY <3>2
      <4>. QED  BY <2>1, <3>2, <4>1 DEF Orbit
    <3>. QED  BY <3>1, <3>2
  <2>. QED  BY <2>1, <2>2 DEF Orbit
<1>2. Run(after)
  BY <1>1
<1>3. \A n : Loop(G, A, n) = after[n]
  BY DEF Loop
<1>. HIDE DEF after
<1>4. after[0] = A
  BY <1>2
<1>5. ASSUME NEW n \in Nat  PROVE after[n + 1] = G[after[n]]
  <2>1. n + 1 \in Nat /\ n + 1 # 0 /\ (n + 1) - 1 = n
    OBVIOUS
  <2>. QED  BY <1>2, <2>1
<1>6. \A n \in Nat : after[n] \in T
  <2>. DEFINE K == {n \in Nat : after[n] \in T}
  <2>1. 0 \in K
    BY <1>4 DEF Steps
  <2>2. ASSUME NEW n \in Nat, n \in K  PROVE n + 1 \in K
    BY <1>5, <2>2 DEF Steps
  <2>. HIDE DEF K
  <2>3. Nat \subseteq K
    BY <2>1, <2>2, NaturalInduction
  <2>. QED  BY <2>3 DEF K
<1>. QED  BY <1>3, <1>4, <1>5, <1>6

\* x is y with w after it.
Extends(y, w, x) ==
  /\ Len(y) \in Nat /\ Len(w) \in Nat /\ Len(x) = Len(y) + Len(w)
  /\ \A p \in 1 .. Len(y) : x[p] = y[p]
  /\ \A p \in 1 .. Len(w) : x[Len(y) + p] = w[p]

LEMMA JoinsOne ==
  ASSUME NEW C, NEW ss \in Seq(Seq(C)), NEW f, Joins(C, ss, f), NEW i \in 1 .. Len(ss)
  PROVE  Extends(f[i - 1], ss[i], f[i])
<1>1. i - 1 \in 0 .. Len(ss) /\ ss[i] \in Seq(C)
  OBVIOUS
<1>2. f[i - 1] \in Seq(C)
  BY <1>1 DEF Joins
<1>3. f[i] = f[i - 1] \o ss[i]
  BY DEF Joins
<1>4. PICK u \in Seq(C), v \in Seq(C) : u = f[i - 1] /\ v = ss[i] /\ f[i] = u \o v
  BY <1>1, <1>2, <1>3
<1>5. Extends(u, v, u \o v)
  BY DEF Extends
<1>. QED  BY <1>4, <1>5

\* What is joined first stays in front.
Begins(y, x) == Len(y) \in Nat /\ Len(y) <= Len(x) /\ \A p \in 1 .. Len(y) : x[p] = y[p]

LEMMA BeginsOne ==
  ASSUME NEW u, NEW y, NEW w, NEW x, Begins(u, y), Extends(y, w, x)
  PROVE  Begins(u, x)
<1>1. PICK a \in Nat, b \in Nat, c \in Nat : a = Len(u) /\ b = Len(y) /\ c = Len(w) /\ Len(x) = b + c
  BY DEF Begins, Extends
<1>2. a <= b /\ \A p \in 1 .. a : y[p] = u[p]
  BY <1>1 DEF Begins
<1>3. \A p \in 1 .. b : x[p] = y[p]
  BY <1>1 DEF Extends
<1>4. a <= b + c /\ \A p \in 1 .. a : x[p] = u[p]
  BY <1>2, <1>3
<1>. QED  BY <1>1, <1>4 DEF Begins

LEMMA JoinsBegin ==
  ASSUME NEW C, NEW ss \in Seq(Seq(C)), NEW f, Joins(C, ss, f), NEW i \in 0 .. Len(ss)
  PROVE  Begins(f[i], f[Len(ss)])
<1>1. PICK N \in Nat : N = Len(ss)
  OBVIOUS
<1>. DEFINE K == {n \in Nat : i + n <= N => Begins(f[i], f[i + n])}
<1>2. 0 \in K
  <2>1. f[i] \in Seq(C)
    BY DEF Joins
  <2>2. Begins(f[i], f[i])
    BY <2>1 DEF Begins
  <2>3. i + 0 = i
    OBVIOUS
  <2>. QED  BY <2>2, <2>3
<1>3. ASSUME NEW n \in Nat, n \in K  PROVE n + 1 \in K
  <2>. SUFFICES ASSUME i + (n + 1) <= N  PROVE Begins(f[i], f[i + (n + 1)])
    OBVIOUS
  <2>1. PICK j : j \in 1 .. N /\ j = i + (n + 1) /\ j - 1 = i + n /\ i + n <= N
    BY <1>1
  <2>2. Begins(f[i], f[j - 1])
    BY <1>3, <2>1
  <2>3. j \in 1 .. Len(ss)
    BY <1>1, <2>1
  <2>4. Extends(f[j - 1], ss[j], f[j])
    BY <2>3, JoinsOne, Zenon
  <2>5. Begins(f[i], f[j])
    BY <2>2, <2>4, BeginsOne, Zenon
  <2>. QED  BY <2>1, <2>5
<1>. HIDE DEF K
<1>4. Nat \subseteq K
  BY <1>2, <1>3, NaturalInduction
<1>5. N - i \in Nat /\ i + (N - i) = N
  BY <1>1
<1>6. i + (N - i) <= N => Begins(f[i], f[i + (N - i)])
  BY <1>4, <1>5 DEF K
<1>. QED  BY <1>1, <1>5, <1>6

\* w is in t, after y.
InPlace(t, y, w) ==
  /\ Len(y) \in Nat /\ Len(y) + Len(w) <= Len(t)
  /\ \A p \in 1 .. Len(w) : t[Len(y) + p] = w[p]

\* Where the pieces are in the whole.
LEMMA JoinsPiece ==
  ASSUME NEW C, NEW ss \in Seq(Seq(C)), NEW f, Joins(C, ss, f), NEW i \in 1 .. Len(ss)
  PROVE  InPlace(f[Len(ss)], f[i - 1], ss[i])
<1>1. Extends(f[i - 1], ss[i], f[i])
  BY JoinsOne
<1>2. Begins(f[i], f[Len(ss)])
  <2>1. i \in 0 .. Len(ss)
    OBVIOUS
  <2>. QED  BY <2>1, JoinsBegin, Zenon
<1>. DEFINE t == f[Len(ss)]
            y == f[i - 1]
            x == f[i]
            w == ss[i]
<1>3. Extends(y, w, x) /\ Begins(x, t)
  BY <1>1, <1>2
<1>. HIDE DEF t, y, x, w
<1>4. PICK a \in Nat, b \in Nat : a = Len(y) /\ b = Len(w) /\ Len(x) = a + b
  BY <1>3 DEF Extends
<1>5. a + b <= Len(t) /\ \A p \in 1 .. a + b : t[p] = x[p]
  BY <1>3, <1>4 DEF Begins
<1>6. \A p \in 1 .. b : x[a + p] = w[p]
  BY <1>3, <1>4 DEF Extends
<1>7. \A p \in 1 .. b : a + p \in 1 .. a + b
  OBVIOUS
<1>8. \A p \in 1 .. b : t[a + p] = w[p]
  BY <1>5, <1>6, <1>7
<1>9. InPlace(t, y, w)
  BY <1>4, <1>5, <1>8 DEF InPlace
<1>. QED  BY <1>9 DEF t, y, w

\* Every place of the whole is in a piece.
LEMMA JoinsPlace ==
  ASSUME NEW C, NEW ss \in Seq(Seq(C)), NEW f, Joins(C, ss, f),
         NEW p \in 1 .. Len(f[Len(ss)])
  PROVE  \E i \in 1 .. Len(ss) : p - Len(f[i - 1]) \in 1 .. Len(ss[i])
<1>1. PICK N \in Nat : N = Len(ss)
  OBVIOUS
<1>. DEFINE K == {n \in 0 .. N : p <= Len(f[n])}
<1>2. N \in K
  <2>1. Len(ss) \in 0 .. Len(ss)
    BY <1>1
  <2>2. Begins(f[N], f[N])
    BY <1>1, <2>1, JoinsBegin, Zenon
  <2>3. PICK a \in Nat : a = Len(f[N])
    BY <2>2 DEF Begins
  <2>4. p <= a
    BY <1>1, <2>3
  <2>. QED  BY <2>3, <2>4
<1>3. PICK i \in K : \A j \in K : i <= j
  <2>1. K \in SUBSET Nat
    OBVIOUS
  <2>. HIDE DEF K
  <2>. QED  BY <1>2, <2>1, LeastNatural
<1>4. i # 0
  <2>1. Len(f[0]) = 0
    BY DEF Joins
  <2>. QED  BY <1>1, <1>3, <2>1
<1>5. i \in 1 .. N /\ i - 1 \in 0 .. N /\ p <= Len(f[i])
  BY <1>3, <1>4
<1>6. i - 1 \notin K
  <2>. HIDE DEF K
  <2>1. i - 1 \in K => i <= i - 1
    BY <1>3
  <2>. QED  BY <1>5, <2>1
<1>7. ~(p <= Len(f[i - 1]))
  BY <1>5, <1>6
<1>8. i \in 1 .. Len(ss)
  BY <1>1, <1>5
<1>9. Extends(f[i - 1], ss[i], f[i])
  BY <1>8, JoinsOne, Zenon
<1>10. PICK a \in Nat, b \in Nat : a = Len(f[i - 1]) /\ b = Len(ss[i]) /\ Len(f[i]) = a + b
  BY <1>9 DEF Extends
<1>11. p \in Nat /\ p <= a + b /\ ~(p <= a)
  <2>1. p \in Nat
    OBVIOUS
  <2>2. p <= Len(f[i]) /\ ~(p <= Len(f[i - 1]))
    BY <1>5, <1>7
  <2>. QED  BY <1>10, <2>1, <2>2
<1>12. p - a \in 1 .. b
  BY <1>11
<1>. QED  BY <1>8, <1>10, <1>12

-----------------------------------------------------------------------------
(* Lines that end in backslashes.                                          *)

LEMMA Parity == \A n \in Nat : (n + 1) % 2 = 1 <=> ~(n % 2 = 1)
OBVIOUS

\* n is the number of backslashes at the end of x.
Ends(x, n) ==
  /\ n \in 0 .. Len(x)
  /\ \A j \in Len(x) - n + 1 .. Len(x) : x[j] = "\\"
  /\ n < Len(x) => x[Len(x) - n] # "\\"

LEMMA ContinuedEnds ==
  ASSUME NEW x
  PROVE  Continued(x) <=> \E n \in Nat : Ends(x, n) /\ n % 2 = 1
BY DEF Continued, Ends

LEMMA EndsExist ==
  ASSUME NEW x, Len(x) \in Nat
  PROVE  \E n \in Nat : Ends(x, n)
<1>1. PICK N \in Nat : N = Len(x)
  OBVIOUS
<1>. DEFINE K == {n \in 0 .. N : n < N => x[N - n] # "\\"}
<1>2. N \in K
  OBVIOUS
<1>3. PICK n \in K : \A m \in K : n <= m
  <2>1. K \in SUBSET Nat
    OBVIOUS
  <2>. HIDE DEF K
  <2>. QED  BY <1>2, <2>1, LeastNatural
<1>4. n \in 0 .. N /\ (n < N => x[N - n] # "\\")
  BY <1>3
<1>5. ASSUME NEW j \in N - n + 1 .. N  PROVE x[j] = "\\"
  <2>1. N - j \in 0 .. N /\ N - j < N /\ N - (N - j) = j /\ ~(n <= N - j)
    BY <1>4
  <2>2. N - j \notin K
    <3>. HIDE DEF K
    <3>. QED  BY <1>3, <2>1
  <2>. QED  BY <2>1, <2>2
<1>. QED  BY <1>1, <1>4, <1>5 DEF Ends

LEMMA EndsUnique ==
  ASSUME NEW x, Len(x) \in Nat, NEW n, NEW m, Ends(x, n), Ends(x, m)
  PROVE  n = m
<1>1. PICK N \in Nat : N = Len(x)
  OBVIOUS
<1>2. ASSUME NEW a \in 0 .. N, NEW b \in 0 .. N, Ends(x, a), Ends(x, b), a < b
      PROVE  FALSE
  <2>1. N - a \in N - b + 1 .. N /\ a < N
    BY <1>2
  <2>2. x[N - a] = "\\"
    BY <1>1, <1>2, <2>1 DEF Ends
  <2>3. x[N - a] # "\\"
    BY <1>1, <1>2, <2>1 DEF Ends
  <2>. QED  BY <2>2, <2>3
<1>3. n \in 0 .. N /\ m \in 0 .. N
  BY <1>1 DEF Ends
<1>4. ~(n < m) /\ ~(m < n)
  BY <1>2, <1>3
<1>. QED  BY <1>3, <1>4

\* What one more character does to it.
LEMMA ContinuedByOne ==
  ASSUME NEW x, NEW c, NEW z, Extends(x, <<c>>, z)
  PROVE  Continued(z) <=> c = "\\" /\ ~Continued(x)
<1>1. PICK N \in Nat : N = Len(x) /\ Len(z) = N + 1
  BY DEF Extends
<1>2. /\ \A p \in 1 .. N : z[p] = x[p]
      /\ z[N + 1] = c
  <2>1. \A p \in 1 .. 1 : z[Len(x) + p] = <<c>>[p]
    BY DEF Extends
  <2>2. 1 \in 1 .. 1 /\ <<c>>[1] = c
    OBVIOUS
  <2>3. z[Len(x) + 1] = c
    BY <2>1, <2>2
  <2>. QED  BY <1>1, <2>3 DEF Extends
<1>3. CASE c # "\\"
  <2>1. Ends(z, 0)
    BY <1>1, <1>2, <1>3 DEF Ends
  <2>2. ASSUME NEW n \in Nat, Ends(z, n), n % 2 = 1  PROVE FALSE
    <3>1. n = 0
      BY <1>1, <2>1, <2>2, EndsUnique
    <3>. QED  BY <2>2, <3>1
  <2>. QED  BY <1>3, <2>2, ContinuedEnds
<1>4. CASE c = "\\"
  <2>1. PICK n \in Nat : Ends(x, n)
    BY <1>1, EndsExist
  <2>2. n \in 0 .. N /\ (\A j \in N - n + 1 .. N : x[j] = "\\") /\ (n < N => x[N - n] # "\\")
    BY <1>1, <2>1 DEF Ends
  <2>3. ASSUME NEW j \in (N + 1) - (n + 1) + 1 .. N + 1  PROVE z[j] = "\\"
    <3>1. CASE j = N + 1
      BY <1>2, <1>4, <3>1
    <3>2. CASE j # N + 1
      <4>1. j \in N - n + 1 .. N /\ j \in 1 .. N
        BY <2>2, <3>2
      <4>. QED  BY <1>2, <2>2, <4>1
    <3>. QED  BY <3>1, <3>2
  <2>4. n + 1 < N + 1 => z[(N + 1) - (n + 1)] # "\\"
    <3>. SUFFICES ASSUME n < N  PROVE z[(N + 1) - (n + 1)] # "\\"
      BY <2>2
    <3>1. (N + 1) - (n + 1) = N - n /\ N - n \in 1 .. N
      BY <2>2
    <3>. QED  BY <1>2, <2>2, <3>1
  <2>5. Ends(z, n + 1)
    BY <1>1, <2>2, <2>3, <2>4 DEF Ends
  <2>6. Continued(x) <=> n % 2 = 1
    <3>1. \A m \in Nat : Ends(x, m) => m = n
      BY <1>1, <2>1, EndsUnique
    <3>. QED  BY <2>1, <3>1, ContinuedEnds
  <2>7. Continued(z) <=> (n + 1) % 2 = 1
    <3>1. \A m \in Nat : Ends(z, m) => m = n + 1
      BY <1>1, <2>5, EndsUnique
    <3>. QED  BY <2>5, <3>1, ContinuedEnds
  <2>. QED  BY <1>4, <2>6, <2>7, Parity
<1>. QED  BY <1>3, <1>4

LEMMA NothingContinues == ~Continued(<<>>)
BY DEF Continued

-----------------------------------------------------------------------------
(* Escapes.                                                                *)

LEMMA EscapeCases ==
  ASSUME NEW c \in Char, NEW b \in BOOLEAN
  PROVE  \/ c = "nl" /\ EscapeOf(c, b) = <<"\\", "n">>
         \/ c = "wide" /\ EscapeOf(c, b) = <<"\\", "u", "00e9">>
         \/ (c \in {"\\", "=", "#"} \/ (c = "blank" /\ b)) /\ EscapeOf(c, b) = <<"\\", c>>
         \/ (c \in Letter \/ (c = "blank" /\ ~b)) /\ EscapeOf(c, b) = <<c>>
<1>1. CASE c = "nl"
  <2>1. EscapeOf(c, b) = <<"\\", "n">>
    BY <1>1 DEF EscapeOf
  <2>. QED  BY <1>1, <2>1
<1>2. CASE c = "wide"
  <2>1. EscapeOf(c, b) = <<"\\", "u", "00e9">>
    BY <1>2 DEF EscapeOf
  <2>. QED  BY <1>2, <2>1
<1>3. CASE c \in {"\\", "=", "#"} \/ (c = "blank" /\ b)
  <2>1. EscapeOf(c, b) = <<"\\", c>>
    BY <1>3 DEF EscapeOf
  <2>. QED  BY <1>3, <2>1
<1>4. CASE c \in Letter \/ (c = "blank" /\ ~b)
  <2>1. EscapeOf(c, b) = <<c>>
    BY <1>4 DEF EscapeOf, Letter
  <2>. QED  BY <1>4, <2>1
<1>5. c = "nl" \/ c = "wide" \/ c \in {"\\", "=", "#"} \/ c = "blank" \/ c \in Letter
  BY DEF Char
<1>. QED  BY <1>1, <1>2, <1>3, <1>4, <1>5

LEMMA EscapeTyped ==
  ASSUME NEW c \in Char, NEW b \in BOOLEAN
  PROVE  /\ EscapeOf(c, b) \in Text
         /\ Len(EscapeOf(c, b)) \in 1 .. 3
         /\ \A p \in 1 .. Len(EscapeOf(c, b)) : EscapeOf(c, b)[p] # "nl"
<1>1. CASE EscapeOf(c, b) = <<"\\", "n">>
  BY <1>1 DEF Text, Char, Letter
<1>2. CASE EscapeOf(c, b) = <<"\\", "u", "00e9">>
  BY <1>2 DEF Text, Char, Letter
<1>3. CASE EscapeOf(c, b) = <<"\\", c>> /\ c # "nl"
  BY <1>3 DEF Text, Char, Letter
<1>4. CASE EscapeOf(c, b) = <<c>> /\ c # "nl"
  BY <1>4 DEF Text, Char, Letter
<1>. QED  BY EscapeCases, <1>1, <1>2, <1>3, <1>4 DEF Letter

Pieces(s, b) == [i \in DOMAIN s |-> EscapeOf(s[i], b \/ i = 1)]

LEMMA PiecesTyped ==
  ASSUME NEW s \in Text, NEW b \in BOOLEAN
  PROVE  /\ Pieces(s, b) \in Seq(Text) /\ Len(Pieces(s, b)) = Len(s)
         /\ Escaped(s, b) = FlattenSeq(Pieces(s, b))
         /\ \A i \in 1 .. Len(s) :
              /\ s[i] \in Char /\ (b \/ i = 1) \in BOOLEAN
              /\ Pieces(s, b)[i] = EscapeOf(s[i], b \/ i = 1)
<1>1. Len(s) \in Nat /\ DOMAIN s = 1 .. Len(s) /\ \A i \in 1 .. Len(s) : s[i] \in Char
  BY DEF Text
<1>2. \A i \in 1 .. Len(s) : EscapeOf(s[i], b \/ i = 1) \in Text
  BY <1>1, EscapeTyped
<1>3. Pieces(s, b) \in [1 .. Len(s) -> Text]
  BY <1>1, <1>2 DEF Pieces
<1>4. Pieces(s, b) \in Seq(Text) /\ Len(Pieces(s, b)) = Len(s)
  BY <1>1, <1>3
<1>. QED  BY <1>1, <1>4 DEF Pieces, Escaped

Scan == [at : Nat \ {0}, out : Text]

LEMMA UnescapeTyped ==
  ASSUME NEW t \in Text
  PROVE  Steps(Scan, [at |-> 1, out |-> <<>>], NextUnescaped(t))
<1>1. [at |-> 1, out |-> <<>>] \in Scan
  BY DEF Scan, Text
<1>2. \A n \in Nat, u \in Text, l \in Scan : [at |-> l.at + n, out |-> l.out \o u] \in Scan
  BY DEF Scan, Text
<1>3. ASSUME NEW l \in Scan  PROVE NextUnescaped(t)[l] \in Scan
  <2>1. l.at \in Nat \ {0} /\ Len(t) \in Nat /\ \A i \in 1 .. Len(t) : t[i] \in Char
    BY DEF Scan, Text
  <2>2. CASE l.at > Len(t)
    BY <2>2 DEF NextUnescaped, Scan
  <2>3. CASE ~(l.at > Len(t))
    <3>1. <<t[l.at]>> \in Text
      BY <2>1, <2>3 DEF Text
    <3>2. l.at < Len(t) => <<t[l.at + 1]>> \in Text
      BY <2>1 DEF Text
    <3>3. <<"nl">> \in Text /\ <<"wide">> \in Text /\ <<"\\", "u">> \in Text
      BY DEF Text, Char, Letter
    <3>4. \/ NextUnescaped(t)[l] = [at |-> l.at + 1, out |-> l.out \o <<t[l.at]>>]
          \/ NextUnescaped(t)[l] = [at |-> l.at + 2, out |-> l.out \o <<"nl">>]
          \/ NextUnescaped(t)[l] = [at |-> l.at + 3, out |-> l.out \o <<"wide">>]
          \/ NextUnescaped(t)[l] = [at |-> l.at + 2, out |-> l.out \o <<"\\", "u">>]
          \/ l.at < Len(t) /\ NextUnescaped(t)[l] = [at |-> l.at + 2, out |-> l.out \o <<t[l.at + 1]>>]
      BY <2>1, <2>3 DEF NextUnescaped, Scan
    <3>. QED  BY <1>2, <3>1, <3>2, <3>3, <3>4
  <2>. QED  BY <2>2, <2>3
<1>4. NextUnescaped(t) = [l \in Scan |-> NextUnescaped(t)[l]]
  BY DEF NextUnescaped, Scan
<1>. QED  BY <1>1, <1>3, <1>4 DEF Steps

LEMMA UnescapedTyped ==
  ASSUME NEW t \in Text
  PROVE  Unescaped(t) \in Text
<1>1. Loop(NextUnescaped(t), [at |-> 1, out |-> <<>>], Len(t)) \in Scan
  BY UnescapeTyped, LoopTurns DEF Text
<1>. QED  BY <1>1 DEF Unescaped, Scan

\* One turn reads one escape.
LEMMA UnescapeOne ==
  ASSUME NEW t \in Text, NEW l \in Scan, NEW c \in Char, NEW b \in BOOLEAN, NEW a \in Nat,
         l.at = a + 1, a + Len(EscapeOf(c, b)) <= Len(t),
         \A p \in 1 .. Len(EscapeOf(c, b)) : t[a + p] = EscapeOf(c, b)[p]
  PROVE  NextUnescaped(t)[l] = [at |-> l.at + Len(EscapeOf(c, b)), out |-> l.out \o <<c>>]
<1>. DEFINE w == EscapeOf(c, b)
            next == NextUnescaped(t)[l]
            is(i, d) == l.at + i <= Len(t) /\ t[l.at + i] = d
            give(n, u) == [at |-> l.at + n, out |-> l.out \o u]
<1>1. Len(t) \in Nat /\ a + Len(w) <= Len(t) /\ \A p \in 1 .. Len(w) : t[a + p] = w[p]
  BY DEF Text
<1>2. next =
       CASE l.at > Len(t) -> l
         [] l.at = Len(t) \/ (l.at < Len(t) /\ t[l.at] # "\\") -> give(1, <<t[l.at]>>)
         [] l.at < Len(t) /\ is(0, "\\") /\ is(1, "n") -> give(2, <<"nl">>)
         [] l.at < Len(t) /\ is(0, "\\") /\ is(1, "u") /\ is(2, "00e9") -> give(3, <<"wide">>)
         [] l.at < Len(t) /\ is(0, "\\") /\ is(1, "u") /\ ~is(2, "00e9") -> give(2, <<"\\", "u">>)
         [] OTHER -> give(2, <<t[l.at + 1]>>)
  BY Zenon DEF NextUnescaped, Scan
<1>. HIDE DEF next
<1>3. CASE c = "nl" /\ w = <<"\\", "n">>
  <2>1. Len(w) = 2 /\ t[a + 1] = "\\" /\ t[a + 2] = "n"
    <3>1. Len(w) = 2 /\ w[1] = "\\" /\ w[2] = "n"
      BY <1>3
    <3>2. 1 \in 1 .. 2 /\ 2 \in 1 .. 2
      OBVIOUS
    <3>. HIDE DEF w
    <3>. QED  BY <1>1, <3>1, <3>2
  <2>2. next = give(2, <<"nl">>)
    BY <1>1, <1>2, <2>1
  <2>. QED  BY <1>3, <2>1, <2>2 DEF next
<1>4. CASE c = "wide" /\ w = <<"\\", "u", "00e9">>
  <2>1. Len(w) = 3 /\ t[a + 1] = "\\" /\ t[a + 2] = "u" /\ t[a + 3] = "00e9"
    <3>1. Len(w) = 3 /\ w[1] = "\\" /\ w[2] = "u" /\ w[3] = "00e9"
      BY <1>4
    <3>2. 1 \in 1 .. 3 /\ 2 \in 1 .. 3 /\ 3 \in 1 .. 3
      OBVIOUS
    <3>. HIDE DEF w
    <3>. QED  BY <1>1, <3>1, <3>2
  <2>2. next = give(3, <<"wide">>)
    BY <1>1, <1>2, <2>1
  <2>. QED  BY <1>4, <2>1, <2>2 DEF next
<1>5. CASE c \notin {"n", "u"} /\ w = <<"\\", c>>
  <2>1. Len(w) = 2 /\ t[a + 1] = "\\" /\ t[a + 2] = c
    <3>1. Len(w) = 2 /\ w[1] = "\\" /\ w[2] = c
      BY <1>5
    <3>2. 1 \in 1 .. 2 /\ 2 \in 1 .. 2
      OBVIOUS
    <3>. HIDE DEF w
    <3>. QED  BY <1>1, <3>1, <3>2
  <2>2. l.at < Len(t) /\ t[l.at] = "\\" /\ t[l.at + 1] = c /\ ~is(1, "n") /\ ~is(1, "u")
    BY <1>1, <1>5, <2>1
  <2>3. next = give(2, <<t[l.at + 1]>>)
    BY <1>2, <2>2
  <2>. QED  BY <2>1, <2>2, <2>3 DEF next
<1>6. CASE c # "\\" /\ w = <<c>>
  <2>1. Len(w) = 1 /\ t[a + 1] = c
    BY <1>1, <1>6
  <2>2. next = give(1, <<c>>)
    BY <1>1, <1>2, <1>6, <2>1
  <2>. QED  BY <2>1, <2>2 DEF next
<1>. QED  BY EscapeCases, <1>3, <1>4, <1>5, <1>6 DEF Letter

\* What is escaped, unescaped.
LEMMA UnescapedEscaped ==
  ASSUME NEW s \in Text, NEW b \in BOOLEAN
  PROVE  Unescaped(Escaped(s, b)) = s
<1>. DEFINE ss == Pieces(s, b)
            t == Escaped(s, b)
            L(n) == Loop(NextUnescaped(t), [at |-> 1, out |-> <<>>], n)
            Read(n) == [at |-> n + 1, out |-> s]
<1>1. PICK N \in Nat : N = Len(s)
  BY DEF Text
<1>2. ss \in Seq(Text) /\ Len(ss) = N
  BY <1>1, PiecesTyped
<1>3. \A i \in 1 .. N : s[i] \in Char /\ (b \/ i = 1) \in BOOLEAN /\ ss[i] = EscapeOf(s[i], b \/ i = 1)
  BY <1>1, PiecesTyped
<1>4. PICK f : Joins(Char, ss, f) /\ t = f[N]
  <2>1. t = FlattenSeq(ss)
    BY PiecesTyped
  <2>. QED  BY <1>2, <2>1, FlattenJoins DEF Text
<1>5. t \in Text
  <2>1. N \in 0 .. N
    BY <1>1
  <2>. QED  BY <1>2, <1>4, <2>1 DEF Joins, Text
<1>6. /\ L(0) = [at |-> 1, out |-> <<>>]
      /\ \A n \in Nat : L(n) \in Scan /\ L(n + 1) = NextUnescaped(t)[L(n)]
  BY <1>5, UnescapeTyped, LoopTurns
<1>. HIDE DEF L, t, ss
<1>. DEFINE At(n) == n <= Len(f[n]) /\ L(n) = [at |-> Len(f[n]) + 1, out |-> SubSeq(s, 1, n)]
            K == {n \in Nat : n <= N => At(n)}
<1>7. 0 \in K
  <2>1. f[0] = <<>> /\ Len(f[0]) = 0
    BY <1>4 DEF Joins
  <2>2. SubSeq(s, 1, 0) = <<>>
    BY DEF Text
  <2>3. At(0)
    <3>1. Len(f[0]) + 1 = 1 /\ 0 <= Len(f[0])
      BY <2>1
    <3>. QED  BY <1>6, <2>2, <3>1
  <2>. HIDE DEF At
  <2>. QED  BY <2>3
<1>8. ASSUME NEW n \in Nat, n \in K  PROVE n + 1 \in K
  <2>. SUFFICES ASSUME n + 1 <= N  PROVE At(n + 1)
    OBVIOUS
  <2>1. n + 1 \in 1 .. N /\ (n + 1) - 1 = n /\ n <= N
    BY <1>1
  <2>2. At(n)
    <3>. HIDE DEF At
    <3>. QED  BY <1>8, <2>1
  <2>3. PICK c \in Char, d \in BOOLEAN : s[n + 1] = c /\ ss[n + 1] = EscapeOf(c, d)
    BY <1>3, <2>1
  <2>4. Extends(f[n], EscapeOf(c, d), f[n + 1])
    <3>1. n + 1 \in 1 .. Len(ss)
      BY <1>2, <2>1
    <3>2. Extends(f[(n + 1) - 1], ss[n + 1], f[n + 1])
      BY <1>2, <1>4, <3>1, JoinsOne DEF Text
    <3>. QED  BY <2>1, <2>3, <3>2
  <2>5. PICK a \in Nat, m \in Nat : a = Len(f[n]) /\ m = Len(EscapeOf(c, d)) /\ Len(f[n + 1]) = a + m
    BY <2>4 DEF Extends
  <2>6. m \in 1 .. 3
    BY <2>5, EscapeTyped
  <2>7. Begins(f[n + 1], t)
    <3>1. n + 1 \in 0 .. Len(ss)
      BY <1>2, <2>1
    <3>. QED  BY <1>2, <1>4, <3>1, JoinsBegin DEF Text
  <2>8. a + m <= Len(t) /\ \A p \in 1 .. m : t[a + p] = EscapeOf(c, d)[p]
    <3>1. \A p \in 1 .. m : f[n + 1][a + p] = EscapeOf(c, d)[p]
      BY <2>4, <2>5 DEF Extends
    <3>2. a + m <= Len(t) /\ \A p \in 1 .. a + m : t[p] = f[n + 1][p]
      BY <2>5, <2>7 DEF Begins
    <3>3. \A p \in 1 .. m : a + p \in 1 .. a + m
      OBVIOUS
    <3>. QED  BY <3>1, <3>2, <3>3
  <2>9. NextUnescaped(t)[L(n)] = [at |-> L(n).at + m, out |-> L(n).out \o <<c>>]
    <3>1. L(n) \in Scan /\ L(n).at = a + 1
      <4>1. L(n) \in Scan
        BY <1>6
      <4>2. L(n).at = a + 1
        BY <2>2, <2>5
      <4>. QED  BY <4>1, <4>2
    <3>. QED  BY <1>5, <2>5, <2>8, <3>1, UnescapeOne
  <2>10. SubSeq(s, 1, n) \o <<c>> = SubSeq(s, 1, n + 1)
    BY <1>1, <2>1, <2>3 DEF Text
  <2>11. L(n + 1) = [at |-> (a + 1) + m, out |-> SubSeq(s, 1, n + 1)]
    <3>1. L(n).at = a + 1 /\ L(n).out = SubSeq(s, 1, n)
      BY <2>2, <2>5
    <3>2. L(n + 1) = NextUnescaped(t)[L(n)]
      BY <1>6
    <3>. QED  BY <2>9, <2>10, <3>1, <3>2
  <2>12. (a + 1) + m = Len(f[n + 1]) + 1 /\ n + 1 <= Len(f[n + 1])
    BY <2>2, <2>5, <2>6
  <2>. QED  BY <2>11, <2>12
<1>9. At(N)
  <2>. HIDE DEF At, K
  <2>1. Nat \subseteq K
    BY <1>7, <1>8, NaturalInduction
  <2>. QED  BY <1>1, <2>1 DEF K
<1>10. PICK T \in Nat : T = Len(t) /\ N <= T /\ L(N) = Read(T)
  <2>1. SubSeq(s, 1, N) = s
    BY <1>1 DEF Text
  <2>2. PICK T \in Nat : T = Len(t)
    BY <1>5 DEF Text
  <2>3. N <= T /\ Len(f[N]) = T
    BY <1>4, <1>9, <2>2
  <2>4. L(N) = Read(T)
    BY <1>9, <2>1, <2>3
  <2>. HIDE DEF Read
  <2>. QED  BY <2>2, <2>3, <2>4
<1>11. NextUnescaped(t)[Read(T)] = Read(T)
  <2>1. Read(T) \in Scan /\ Read(T).at > Len(t)
    BY <1>10 DEF Scan
  <2>. HIDE DEF Read
  <2>. QED  BY <2>1 DEF NextUnescaped, Scan
<1>. DEFINE J == {n \in Nat : L(N + n) = Read(T)}
<1>12. 0 \in J
  BY <1>10
<1>13. ASSUME NEW n \in Nat, n \in J  PROVE n + 1 \in J
  <2>1. N + n \in Nat /\ N + (n + 1) = (N + n) + 1
    BY <1>1
  <2>. HIDE DEF Read
  <2>2. L((N + n) + 1) = NextUnescaped(t)[L(N + n)] /\ L(N + n) = Read(T)
    BY <1>6, <1>13, <2>1
  <2>. QED  BY <1>11, <2>1, <2>2
<1>14. L(T) = Read(T)
  <2>. HIDE DEF J
  <2>1. Nat \subseteq J
    BY <1>12, <1>13, NaturalInduction
  <2>2. T - N \in Nat /\ N + (T - N) = T
    BY <1>1, <1>10
  <2>3. T - N \in J
    BY <2>1, <2>2
  <2>4. L(N + (T - N)) = Read(T)
    BY <2>3 DEF J
  <2>. QED  BY <2>2, <2>4
<1>15. L(T).out = s
  BY <1>14
<1>. QED  BY <1>10, <1>15 DEF Unescaped, L, t

-----------------------------------------------------------------------------
(* What an escaped text never has.                                         *)

LEMMA LastContinues ==
  ASSUME NEW x \in Text, NEW c \in Char
  PROVE  Continued(x \o <<c>>) <=> c = "\\" /\ ~Continued(x)
<1>1. Extends(x, <<c>>, x \o <<c>>)
  BY DEF Extends, Text
<1>. QED  BY <1>1, ContinuedByOne, Zenon

\* No escape leaves a backslash that would take the next character.
LEMMA EscapeEnds ==
  ASSUME NEW x \in Text, NEW c \in Char, NEW b \in BOOLEAN, ~Continued(x)
  PROVE  ~Continued(x \o EscapeOf(c, b))
<1>1. "\\" \in Char /\ "n" \in Char /\ "u" \in Char /\ "00e9" \in Char
  BY DEF Char, Letter
<1>2. \A d \in Char : x \o <<d>> \in Text
  BY DEF Text
<1>3. Continued(x \o <<"\\">>)
  BY <1>1, LastContinues
<1>4. ASSUME NEW d \in Char  PROVE ~Continued(x \o <<"\\", d>>)
  <2>1. x \o <<"\\", d>> = (x \o <<"\\">>) \o <<d>>
    BY <1>1 DEF Text
  <2>. QED  BY <1>1, <1>2, <1>3, <2>1, LastContinues
<1>5. ~Continued(x \o <<"\\", "u", "00e9">>)
  <2>1. x \o <<"\\", "u", "00e9">> = (x \o <<"\\", "u">>) \o <<"00e9">>
    BY <1>1 DEF Text
  <2>2. x \o <<"\\", "u">> \in Text
    BY <1>1 DEF Text
  <2>. QED  BY <1>1, <2>1, <2>2, LastContinues
<1>6. c # "\\" => ~Continued(x \o <<c>>)
  BY LastContinues
<1>7. CASE EscapeOf(c, b) = <<"\\", "n">>
  BY <1>1, <1>4, <1>7
<1>8. CASE EscapeOf(c, b) = <<"\\", "u", "00e9">>
  BY <1>5, <1>8
<1>9. CASE EscapeOf(c, b) = <<"\\", c>>
  BY <1>4, <1>9
<1>10. CASE EscapeOf(c, b) = <<c>> /\ c # "\\"
  BY <1>6, <1>10
<1>. QED  BY EscapeCases, <1>7, <1>8, <1>9, <1>10 DEF Letter

\* f gives the beginnings of the escaped text that end with an escape.
Escapes(s, b, f) ==
  /\ Joins(Char, Pieces(s, b), f) /\ Escaped(s, b) = f[Len(s)]
  /\ f \in [0 .. Len(s) -> Text] /\ f[0] = <<>>
  /\ \A i \in 1 .. Len(s) :
       \E c \in Char, d \in BOOLEAN :
         c = s[i] /\ d = (b \/ i = 1) /\ Pieces(s, b)[i] = EscapeOf(c, d)
           /\ f[i] = f[i - 1] \o EscapeOf(c, d)

LEMMA EscapesExist ==
  ASSUME NEW s \in Text, NEW b \in BOOLEAN
  PROVE  \E f : Escapes(s, b, f)
<1>1. Pieces(s, b) \in Seq(Text) /\ Len(Pieces(s, b)) = Len(s)
  BY PiecesTyped
<1>2. PICK f : Joins(Char, Pieces(s, b), f) /\ Escaped(s, b) = f[Len(s)]
  <2>1. Escaped(s, b) = FlattenSeq(Pieces(s, b))
    BY PiecesTyped
  <2>. QED  BY <1>1, <2>1, FlattenJoins DEF Text
<1>3. f \in [0 .. Len(s) -> Text] /\ f[0] = <<>>
      /\ \A i \in 1 .. Len(s) : f[i] = f[i - 1] \o Pieces(s, b)[i]
  BY <1>1, <1>2 DEF Joins, Text
<1>4. ASSUME NEW i \in 1 .. Len(s)
      PROVE  \E c \in Char, d \in BOOLEAN :
               c = s[i] /\ d = (b \/ i = 1) /\ Pieces(s, b)[i] = EscapeOf(c, d)
                 /\ f[i] = f[i - 1] \o EscapeOf(c, d)
  <2>1. s[i] \in Char /\ (b \/ i = 1) \in BOOLEAN /\ Pieces(s, b)[i] = EscapeOf(s[i], b \/ i = 1)
    BY PiecesTyped
  <2>2. f[i] = f[i - 1] \o Pieces(s, b)[i]
    BY <1>3
  <2>. QED  BY <2>1, <2>2, Zenon
<1>. QED  BY <1>2, <1>3, <1>4, Zenon DEF Escapes

LEMMA EscapesEnd ==
  ASSUME NEW s \in Text, NEW b \in BOOLEAN, NEW f, Escapes(s, b, f),
         NEW x \in Text, ~Continued(x), NEW i \in 0 .. Len(s)
  PROVE  ~Continued(x \o f[i])
<1>1. PICK N \in Nat : N = Len(s)
  BY DEF Text
<1>. DEFINE K == {n \in Nat : n <= N => ~Continued(x \o f[n])}
<1>2. 0 \in K
  <2>1. x \o f[0] = x
    BY DEF Escapes, Text
  <2>. QED  BY <2>1
<1>3. ASSUME NEW n \in Nat, n \in K  PROVE n + 1 \in K
  <2>. SUFFICES ASSUME n + 1 <= N  PROVE ~Continued(x \o f[n + 1])
    OBVIOUS
  <2>1. n + 1 \in 1 .. Len(s) /\ (n + 1) - 1 = n /\ n \in 0 .. Len(s)
    BY <1>1
  <2>2. PICK c \in Char, d \in BOOLEAN : f[n + 1] = f[(n + 1) - 1] \o EscapeOf(c, d)
    BY <2>1 DEF Escapes
  <2>3. f[n] \in Text /\ EscapeOf(c, d) \in Text
    BY <2>1, EscapeTyped DEF Escapes
  <2>4. PICK y \in Text, w \in Text : y = f[n] /\ w = EscapeOf(c, d)
    BY <2>3
  <2>5. x \o (y \o w) = (x \o y) \o w /\ x \o y \in Text
    BY DEF Text
  <2>6. f[n + 1] = y \o w
    BY <2>1, <2>2, <2>4
  <2>7. ~Continued(x \o y)
    BY <1>1, <1>3, <2>1, <2>4
  <2>. QED  BY <2>4, <2>5, <2>6, <2>7, EscapeEnds
<1>. HIDE DEF K
<1>4. Nat \subseteq K
  BY <1>2, <1>3, NaturalInduction
<1>. QED  BY <1>1, <1>4 DEF K

\* An escaped text is on one line, and its last backslash is escaped.
LEMMA EscapedTyped ==
  ASSUME NEW s \in Text, NEW b \in BOOLEAN
  PROVE  Escaped(s, b) \in Text
<1>1. PICK f : Escapes(s, b, f)
  BY EscapesExist
<1>2. Len(s) \in 0 .. Len(s)
  BY DEF Text
<1>. QED  BY <1>1, <1>2 DEF Escapes

LEMMA EscapedEnds ==
  ASSUME NEW s \in Text, NEW b \in BOOLEAN, NEW x \in Text, ~Continued(x)
  PROVE  ~Continued(x \o Escaped(s, b))
<1>1. PICK f : Escapes(s, b, f)
  BY EscapesExist
<1>2. Len(s) \in 0 .. Len(s)
  BY DEF Text
<1>3. ~Continued(x \o f[Len(s)])
  BY <1>1, <1>2, EscapesEnd
<1>. QED  BY <1>1, <1>3 DEF Escapes

\* Every character is one of an escape.
LEMMA EscapedPlace ==
  ASSUME NEW s \in Text, NEW b \in BOOLEAN, NEW f, Escapes(s, b, f),
         NEW j \in 1 .. Len(Escaped(s, b))
  PROVE  \E i \in 1 .. Len(s), c \in Char, d \in BOOLEAN, p \in Nat :
           /\ d = (b \/ i = 1) /\ p \in 1 .. Len(EscapeOf(c, d)) /\ j = Len(f[i - 1]) + p
           /\ InPlace(Escaped(s, b), f[i - 1], EscapeOf(c, d))
<1>. DEFINE ss == Pieces(s, b)
            t == Escaped(s, b)
<1>1. ss \in Seq(Seq(Char)) /\ Len(ss) = Len(s) /\ Joins(Char, ss, f) /\ t = f[Len(ss)]
  BY PiecesTyped DEF Escapes, Text
<1>2. PICK i \in 1 .. Len(ss) : j - Len(f[i - 1]) \in 1 .. Len(ss[i])
  <2>1. j \in 1 .. Len(f[Len(ss)])
    BY <1>1
  <2>. HIDE DEF ss, t
  <2>. QED  BY <1>1, <2>1, JoinsPlace
<1>3. PICK c \in Char, d \in BOOLEAN : d = (b \/ i = 1) /\ ss[i] = EscapeOf(c, d)
  <2>1. i \in 1 .. Len(s)
    BY <1>1
  <2>2. \A m \in 1 .. Len(s) : \E c \in Char, d \in BOOLEAN : d = (b \/ m = 1) /\ ss[m] = EscapeOf(c, d)
    BY DEF Escapes
  <2>. QED  BY <2>1, <2>2
<1>4. InPlace(f[Len(ss)], f[i - 1], ss[i])
  <2>. HIDE DEF ss, t
  <2>. QED  BY <1>1, JoinsPiece
<1>5. PICK a \in Nat, p \in Nat : a = Len(f[i - 1]) /\ p = j - a /\ j = a + p
  <2>1. PICK a \in Nat : a = Len(f[i - 1])
    BY <1>4 DEF InPlace
  <2>2. j - a \in 1 .. Len(ss[i])
    BY <1>2, <2>1
  <2>3. j - a \in Nat /\ j = a + (j - a)
    BY <2>1, <2>2
  <2>. QED  BY <2>1, <2>3
<1>6. p \in 1 .. Len(ss[i])
  BY <1>2, <1>5
<1>7. i \in 1 .. Len(s)
  BY <1>1
<1>. HIDE DEF ss
<1>8. p \in 1 .. Len(EscapeOf(c, d)) /\ InPlace(t, f[i - 1], EscapeOf(c, d))
  BY <1>1, <1>3, <1>4, <1>6
<1>. HIDE DEF t
<1>9. /\ d = (b \/ i = 1) /\ p \in 1 .. Len(EscapeOf(c, d)) /\ j = Len(f[i - 1]) + p
      /\ InPlace(t, f[i - 1], EscapeOf(c, d))
  BY <1>3, <1>5, <1>8
<1>. QED  BY <1>7, <1>9, Zenon DEF t

LEMMA EscapedOneLine ==
  ASSUME NEW s \in Text, NEW b \in BOOLEAN, NEW j \in 1 .. Len(Escaped(s, b))
  PROVE  Escaped(s, b)[j] # "nl"
<1>1. PICK f : Escapes(s, b, f)
  BY EscapesExist
<1>2. PICK i \in 1 .. Len(s), c \in Char, d \in BOOLEAN, p \in Nat :
        /\ d = (b \/ i = 1) /\ p \in 1 .. Len(EscapeOf(c, d)) /\ j = Len(f[i - 1]) + p
        /\ InPlace(Escaped(s, b), f[i - 1], EscapeOf(c, d))
  BY <1>1, EscapedPlace
<1>3. Escaped(s, b)[j] = EscapeOf(c, d)[p]
  BY <1>2 DEF InPlace
<1>. QED  BY <1>2, <1>3, EscapeTyped

LEMMA EscapedFirst ==
  ASSUME NEW s \in Text, NEW b \in BOOLEAN, 1 <= Len(Escaped(s, b))
  PROVE  Escaped(s, b)[1] \notin {"blank", "#"}
<1>1. PICK f : Escapes(s, b, f)
  BY EscapesExist
<1>2. Len(s) # 0
  <2>1. Len(s) = 0 => Len(Escaped(s, b)) = 0
    BY <1>1 DEF Escapes
  <2>. QED  BY <2>1
<1>3. 1 \in 1 .. Len(s)
  BY <1>2 DEF Text
<1>4. PICK c \in Char : Pieces(s, b)[1] = EscapeOf(c, TRUE)
  <2>1. PICK c \in Char, d \in BOOLEAN : d = (b \/ 1 = 1) /\ Pieces(s, b)[1] = EscapeOf(c, d)
    BY <1>1, <1>3 DEF Escapes
  <2>. QED  BY <2>1
<1>5. InPlace(Escaped(s, b), f[1 - 1], Pieces(s, b)[1])
  <2>1. Pieces(s, b) \in Seq(Seq(Char)) /\ Len(Pieces(s, b)) = Len(s)
        /\ Joins(Char, Pieces(s, b), f) /\ Escaped(s, b) = f[Len(s)]
    BY <1>1, PiecesTyped DEF Escapes, Text
  <2>2. InPlace(f[Len(Pieces(s, b))], f[1 - 1], Pieces(s, b)[1])
    BY <1>3, <2>1, JoinsPiece
  <2>. QED  BY <2>1, <2>2
<1>6. f[1 - 1] = <<>>
  BY <1>1 DEF Escapes
<1>. DEFINE w == EscapeOf(c, TRUE)
<1>7. \A p \in 1 .. Len(w) : Escaped(s, b)[Len(<<>>) + p] = w[p]
  BY <1>4, <1>5, <1>6 DEF InPlace
<1>8. Len(w) \in 1 .. 3
  BY EscapeTyped
<1>9. Escaped(s, b)[1] = w[1]
  <2>. HIDE DEF w
  <2>1. 1 \in 1 .. Len(w) /\ Len(<<>>) + 1 = 1
    BY <1>8
  <2>. QED  BY <1>7, <2>1
<1>10. w = <<"\\", "n">> \/ w = <<"\\", "u", "00e9">> => w[1] = "\\"
  <2>. HIDE DEF w
  <2>1. ASSUME w = <<"\\", "n">>  PROVE w[1] = "\\"
    BY <2>1
  <2>2. ASSUME w = <<"\\", "u", "00e9">>  PROVE w[1] = "\\"
    BY <2>2
  <2>. QED  BY <2>1, <2>2
<1>11. ASSUME w = <<"\\", c>>  PROVE w[1] = "\\"
  <2>. HIDE DEF w
  <2>. QED  BY <1>11
<1>12. ASSUME w = <<c>>  PROVE w[1] = c
  <2>. HIDE DEF w
  <2>. QED  BY <1>12
<1>13. w = <<"\\", "n">> \/ w = <<"\\", "u", "00e9">> \/ w = <<"\\", c>> \/ (w = <<c>> /\ c \in Letter)
  BY EscapeCases
<1>. HIDE DEF w
<1>14. w[1] = "\\" \/ w[1] \in Letter
  BY <1>10, <1>11, <1>12, <1>13
<1>. QED  BY <1>9, <1>14 DEF Letter

\* In a key, a backslash that takes it is before every separator.
LEMMA SeparatorsEscaped ==
  ASSUME NEW s \in Text, NEW j \in 1 .. Len(Escaped(s, TRUE)),
         Escaped(s, TRUE)[j] \in {"=", "blank"}
  PROVE  Continued(SubSeq(Escaped(s, TRUE), 1, j - 1))
<1>. DEFINE t == Escaped(s, TRUE)
<1>1. PICK f : Escapes(s, TRUE, f)
  BY EscapesExist
<1>2. PICK i \in 1 .. Len(s), c \in Char, d \in BOOLEAN, p \in Nat :
        /\ d = (TRUE \/ i = 1) /\ p \in 1 .. Len(EscapeOf(c, d)) /\ j = Len(f[i - 1]) + p
        /\ InPlace(t, f[i - 1], EscapeOf(c, d))
  BY <1>1, EscapedPlace
<1>3. t \in Text /\ t[j] \in {"=", "blank"}
  BY EscapedTyped
<1>4. i - 1 \in 0 .. Len(s)
  BY DEF Text
<1>5. f[i - 1] \in Text
  BY <1>1, <1>4 DEF Escapes
<1>6. ~Continued(f[i - 1])
  <2>1. <<>> \in Text /\ <<>> \o f[i - 1] = f[i - 1]
    BY <1>5 DEF Text
  <2>2. ~Continued(<<>> \o f[i - 1])
    BY <1>1, <1>4, <2>1, EscapesEnd, NothingContinues
  <2>. QED  BY <2>1, <2>2
<1>7. Begins(f[i - 1], t)
  <2>1. Pieces(s, TRUE) \in Seq(Seq(Char)) /\ Len(Pieces(s, TRUE)) = Len(s)
        /\ Joins(Char, Pieces(s, TRUE), f) /\ t = f[Len(s)]
    BY <1>1, PiecesTyped DEF Escapes, Text
  <2>2. Begins(f[i - 1], f[Len(Pieces(s, TRUE))])
    BY <1>4, <2>1, JoinsBegin
  <2>. QED  BY <2>1, <2>2
<1>. DEFINE y == f[i - 1]
            w == EscapeOf(c, d)
<1>. HIDE DEF t
<1>8. PICK a \in Nat : a = Len(y) /\ j = a + p
  BY <1>2, <1>5 DEF Text
<1>9. t[j] = w[p]
  BY <1>2, <1>8 DEF InPlace
<1>10. w = <<"\\", c>> /\ p = 2
  <2>1. CASE w = <<"\\", "n">>
    BY <1>2, <1>3, <1>9, <2>1
  <2>2. CASE w = <<"\\", "u", "00e9">>
    BY <1>2, <1>3, <1>9, <2>2
  <2>3. CASE w = <<"\\", c>>
    BY <1>2, <1>3, <1>9, <2>3
  <2>4. CASE w = <<c>> /\ c \in Letter
    <3>1. Len(w) = 1
      BY <2>4
    <3>2. p = 1
      <4>1. p \in 1 .. Len(w)
        BY <1>2
      <4>. HIDE DEF w
      <4>. QED  BY <3>1, <4>1
    <3>. QED  BY <1>3, <1>9, <2>4, <3>2 DEF Letter
  <2>. QED  BY <1>2, EscapeCases, <2>1, <2>2, <2>3, <2>4
<1>11. Len(w) = 2 /\ w[1] = "\\"
  BY <1>10
<1>12. a + 2 <= Len(t) /\ t[a + 1] = "\\"
  <2>1. Len(y) + Len(w) <= Len(t) /\ \A q \in 1 .. Len(w) : t[Len(y) + q] = w[q]
    BY <1>2 DEF InPlace
  <2>. HIDE DEF w, y
  <2>2. 1 \in 1 .. 2
    OBVIOUS
  <2>. QED  BY <1>8, <1>11, <2>1, <2>2
<1>13. \A q \in 1 .. a : t[q] = y[q]
  <2>. HIDE DEF y
  <2>1. \A q \in 1 .. Len(f[i - 1]) : t[q] = f[i - 1][q]
    BY <1>7 DEF Begins
  <2>. QED  BY <1>8, <2>1 DEF y
<1>14. Extends(y, <<"\\">>, SubSeq(t, 1, a + 1))
  <2>. HIDE DEF w, y
  <2>1. Len(t) \in Nat
    BY <1>3 DEF Text
  <2>2. SubSeq(t, 1, a + 1) = [q \in 1 .. a + 1 |-> t[q]]
    BY <1>3, <1>12, <2>1 DEF Text
  <2>3. Len(SubSeq(t, 1, a + 1)) = a + 1
    BY <1>3, <1>12, <2>1 DEF Text
  <2>4. Len(<<"\\">>) = 1 /\ <<"\\">>[1] = "\\"
    OBVIOUS
  <2>. DEFINE z == SubSeq(t, 1, a + 1)
  <2>5. z[a + 1] = "\\" /\ \A q \in 1 .. a : z[q] = y[q]
    BY <1>12, <1>13, <2>2
  <2>. HIDE DEF z
  <2>6. Extends(y, <<"\\">>, z)
    BY <1>8, <2>3, <2>4, <2>5 DEF Extends, z
  <2>. QED  BY <2>6 DEF z
<1>15. Continued(SubSeq(t, 1, a + 1))
  BY <1>6, <1>14, ContinuedByOne
<1>16. j - 1 = a + 1
  BY <1>8, <1>10
<1>. QED  BY <1>15, <1>16 DEF t

-----------------------------------------------------------------------------
(* One line.                                                               *)

LEMMA NotBlankHere ==
  ASSUME NEW s, Len(s) \in Nat, NEW i \in 1 .. Len(s) + 1, i <= Len(s) => s[i] # "blank"
  PROVE  NotBlank(s, i) = i
<1>. DEFINE P(j) == (j <= Len(s) => s[j] # "blank") /\ \A h \in i .. j - 1 : s[h] = "blank"
<1>1. PICK N \in Nat : N = Len(s)
  OBVIOUS
<1>2. P(i) /\ i \in i .. Len(s) + 1
  OBVIOUS
<1>3. ASSUME NEW j \in i .. Len(s) + 1, P(j)  PROVE j = i
  <2>1. CASE j > i
    <3>1. i \in i .. j - 1 /\ i <= Len(s)
      BY <1>1, <2>1
    <3>. QED  BY <1>3, <3>1
  <2>. QED  BY <1>1, <2>1
<1>. HIDE DEF P
<1>4. (CHOOSE j \in i .. Len(s) + 1 : P(j)) = i
  BY <1>2, <1>3
<1>. QED  BY <1>4 DEF NotBlank, P

LEMMA LineEndAt ==
  ASSUME NEW s, Len(s) \in Nat, NEW i \in Nat \ {0}, NEW e \in i .. Len(s) + 1,
         e <= Len(s) => s[e] = "nl", \A h \in i .. e - 1 : s[h] # "nl"
  PROVE  LineEnd(s, i) = e
<1>. DEFINE P(j) == (j <= Len(s) => s[j] = "nl") /\ \A h \in i .. j - 1 : s[h] # "nl"
<1>1. PICK N \in Nat : N = Len(s)
  OBVIOUS
<1>2. P(e)
  OBVIOUS
<1>3. ASSUME NEW j \in i .. Len(s) + 1, P(j)  PROVE j = e
  <2>1. CASE j > e
    <3>1. e \in i .. j - 1 /\ e <= Len(s)
      BY <1>1, <2>1
    <3>. QED  BY <1>3, <3>1
  <2>2. CASE j < e
    <3>1. j \in i .. e - 1 /\ j <= Len(s)
      BY <1>1, <2>2
    <3>. QED  BY <1>3, <3>1
  <2>. QED  BY <1>1, <2>1, <2>2
<1>. HIDE DEF P
<1>4. (CHOOSE j \in i .. Len(s) + 1 : P(j)) = e
  BY <1>2, <1>3
<1>. QED  BY <1>4 DEF LineEnd, P

\* z is x, a sign and y; a and b are the lengths of x and y.
Parts(z, x, y, a, b) ==
  /\ z \in Text /\ Len(z) = a + 1 + b
  /\ \A j \in 1 .. a : z[j] = x[j]
  /\ z[a + 1] = "="
  /\ \A j \in 1 .. b : z[a + 1 + j] = y[j]
  /\ \A j \in 1 .. a + 1 : SubSeq(z, 1, j - 1) = SubSeq(x, 1, j - 1)
  /\ SubSeq(z, 1, a) = x
  /\ From(z, a + 2) = y

LEMMA LineParts ==
  ASSUME NEW x \in Text, NEW y \in Text, NEW z, z = x \o <<"=">> \o y,
         NEW a \in Nat, a = Len(x), NEW b \in Nat, b = Len(y)
  PROVE  Parts(z, x, y, a, b)
<1>. DEFINE u == x \o <<"=">>
<1>1. "=" \in Char
  BY DEF Char
<1>2. /\ u \in Text /\ Len(u) = a + 1 /\ u[a + 1] = "="
      /\ \A j \in 1 .. a : u[j] = x[j]
  BY <1>1 DEF Text
<1>. HIDE DEF u
<1>3. z = u \o y
  BY DEF u
<1>4. z \in Text /\ Len(z) = a + 1 + b
  BY <1>2, <1>3 DEF Text
<1>5. \A j \in 1 .. a + 1 : z[j] = u[j]
  BY <1>2, <1>3 DEF Text
<1>6. \A j \in 1 .. b : z[a + 1 + j] = y[j]
  BY <1>2, <1>3 DEF Text
<1>7. \A j \in 1 .. a : z[j] = x[j]
  BY <1>2, <1>5
<1>8. z[a + 1] = "="
  BY <1>2, <1>5
<1>9. ASSUME NEW j \in 1 .. a + 1  PROVE SubSeq(z, 1, j - 1) = SubSeq(x, 1, j - 1)
  <2>1. /\ SubSeq(z, 1, j - 1) \in Seq(Char) /\ SubSeq(x, 1, j - 1) \in Seq(Char)
        /\ Len(SubSeq(z, 1, j - 1)) = j - 1 /\ Len(SubSeq(x, 1, j - 1)) = j - 1
    BY <1>4 DEF Text
  <2>2. \A h \in 1 .. j - 1 : SubSeq(z, 1, j - 1)[h] = z[h] /\ SubSeq(x, 1, j - 1)[h] = x[h]
    BY <1>4 DEF Text
  <2>3. \A h \in 1 .. j - 1 : z[h] = x[h]
    BY <1>7
  <2>4. \A h \in 1 .. j - 1 : SubSeq(z, 1, j - 1)[h] = SubSeq(x, 1, j - 1)[h]
    BY <2>2, <2>3
  <2>. QED  BY <2>1, <2>4
<1>10. SubSeq(z, 1, a) = x
  <2>1. a + 1 \in 1 .. a + 1 /\ (a + 1) - 1 = a
    OBVIOUS
  <2>2. SubSeq(z, 1, a) = SubSeq(x, 1, a)
    BY <1>9, <2>1
  <2>3. SubSeq(x, 1, a) = x
    BY DEF Text
  <2>. QED  BY <2>2, <2>3
<1>11. From(z, a + 2) = y
  <2>. DEFINE r == SubSeq(z, a + 2, Len(z))
  <2>1. r \in Seq(Char) /\ Len(r) = b /\ \A h \in 1 .. b : r[h] = z[a + 1 + h]
    BY <1>4 DEF Text
  <2>. HIDE DEF r
  <2>2. \A h \in 1 .. b : r[h] = y[h]
    BY <1>6, <2>1
  <2>3. r = y
    <3>1. r \in [1 .. b -> Char] /\ y \in [1 .. b -> Char]
      BY <2>1 DEF Text
    <3>. QED  BY <2>2, <3>1
  <2>. QED  BY <2>3 DEF From, r
<1>. QED  BY <1>4, <1>6, <1>7, <1>8, <1>9, <1>10, <1>11 DEF Parts

\* The line of a key, without its end.
Body(k, v) == Escaped(k, TRUE) \o <<"=">> \o Escaped(v, FALSE)

\* OnOneLine(x): the reader takes x for one line.
OnOneLine(x) == x \in Text /\ ~Continued(x) /\ \A j \in 1 .. Len(x) : x[j] # "nl"

LEMMA BodyWhole ==
  ASSUME NEW k \in Text, NEW v \in Text
  PROVE  OnOneLine(Body(k, v))
<1>1. PICK x \in Text, y \in Text, z \in {Body(k, v)} :
        x = Escaped(k, TRUE) /\ y = Escaped(v, FALSE)
  BY EscapedTyped
<1>2. z = x \o <<"=">> \o y
  BY <1>1 DEF Body
<1>3. PICK a \in Nat, b \in Nat : a = Len(x) /\ b = Len(y)
  BY DEF Text
<1>4. /\ z \in Text /\ Len(z) = a + 1 + b
      /\ \A j \in 1 .. a : z[j] = x[j]
      /\ z[a + 1] = "="
      /\ \A j \in 1 .. b : z[a + 1 + j] = y[j]
  <2>1. Parts(z, x, y, a, b)
    BY <1>2, <1>3, LineParts
  <2>. QED  BY <2>1 DEF Parts
<1>5. x \o <<"=">> \in Text /\ ~Continued(x \o <<"=">>)
  <2>1. "=" \in Char
    BY DEF Char
  <2>. QED  BY <2>1, LastContinues DEF Text
<1>6. ~Continued(z)
  <2>1. ~Continued((x \o <<"=">>) \o Escaped(v, FALSE))
    BY <1>5, EscapedEnds
  <2>. QED  BY <1>1, <1>2, <2>1
<1>7. ASSUME NEW j \in 1 .. Len(z)  PROVE z[j] # "nl"
  <2>1. CASE j \in 1 .. a
    <3>1. j \in 1 .. Len(Escaped(k, TRUE)) /\ z[j] = Escaped(k, TRUE)[j]
      BY <1>1, <1>3, <1>4, <2>1
    <3>. QED  BY <3>1, EscapedOneLine
  <2>2. CASE j = a + 1
    BY <1>4, <2>2
  <2>3. CASE j \in a + 2 .. a + 1 + b
    <3>1. j - (a + 1) \in 1 .. b /\ a + 1 + (j - (a + 1)) = j
      BY <2>3
    <3>2. z[j] = y[j - (a + 1)]
      BY <1>4, <3>1
    <3>3. j - (a + 1) \in 1 .. Len(Escaped(v, FALSE)) /\ z[j] = Escaped(v, FALSE)[j - (a + 1)]
      BY <1>1, <1>3, <3>1, <3>2
    <3>. QED  BY <3>3, EscapedOneLine
  <2>. QED  BY <1>4, <2>1, <2>2, <2>3
<1>. QED  BY <1>1, <1>4, <1>6, <1>7 DEF OnOneLine

\* It is read as that key and that value.
LEMMA BodyRead ==
  ASSUME NEW k \in Text, NEW v \in Text
  PROVE  ~Skipped(Body(k, v)) /\ KeyOf(Body(k, v)) = k /\ ValueOf(Body(k, v)) = v
<1>1. PICK x \in Text, y \in Text, z \in {Body(k, v)} :
        x = Escaped(k, TRUE) /\ y = Escaped(v, FALSE)
  BY EscapedTyped
<1>2. z = x \o <<"=">> \o y
  BY <1>1 DEF Body
<1>3. PICK a \in Nat, b \in Nat : a = Len(x) /\ b = Len(y)
  BY DEF Text
<1>4. /\ z \in Text /\ Len(z) = a + 1 + b
      /\ \A j \in 1 .. a : z[j] = x[j]
      /\ z[a + 1] = "="
      /\ \A j \in 1 .. b : z[a + 1 + j] = y[j]
      /\ \A j \in 1 .. a + 1 : SubSeq(z, 1, j - 1) = SubSeq(x, 1, j - 1)
      /\ SubSeq(z, 1, a) = x
      /\ From(z, a + 2) = y
  <2>1. Parts(z, x, y, a, b)
    BY <1>2, <1>3, LineParts
  <2>. QED  BY <2>1 DEF Parts
<1>5. z[1] \notin {"blank", "#"}
  <2>1. CASE a = 0
    BY <1>4, <2>1
  <2>2. CASE a # 0
    <3>1. 1 \in 1 .. a
      BY <2>2
    <3>2. 1 <= Len(x)
      BY <1>3, <3>1
    <3>3. x[1] \notin {"blank", "#"}
      BY <1>1, <3>2, EscapedFirst
    <3>. QED  BY <1>4, <3>1, <3>3
  <2>. QED  BY <2>1, <2>2
<1>6. NotBlank(z, 1) = 1
  <2>1. Len(z) \in Nat /\ 1 \in 1 .. Len(z) + 1
    BY <1>4
  <2>. QED  BY <1>5, <2>1, NotBlankHere
<1>7. ~Skipped(z)
  <2>1. ~(1 > Len(z)) /\ z[1] # "#"
    BY <1>4, <1>5
  <2>. QED  BY <1>6, <2>1 DEF Skipped
<1>8. KeyEnd(z, 1) = a + 1
  <2>. DEFINE ends == {j \in 1 .. Len(z) : z[j] \in {"=", "blank"} /\ ~Continued(SubSeq(z, 1, j - 1))}
  <2>1. a + 1 \in ends
    <3>1. ~Continued(x)
      <4>1. <<>> \in Text /\ <<>> \o Escaped(k, TRUE) = Escaped(k, TRUE)
        BY EscapedTyped DEF Text
      <4>. QED  BY <1>1, <4>1, EscapedEnds, NothingContinues
    <3>2. (a + 1) - 1 = a /\ a + 1 \in 1 .. Len(z)
      BY <1>4
    <3>. QED  BY <1>4, <3>1, <3>2
  <2>2. ASSUME NEW j \in ends  PROVE a + 1 <= j
    <3>1. CASE j <= a
      <4>1. j \in 1 .. Len(x) /\ j \in 1 .. a /\ j \in 1 .. a + 1
        BY <1>3, <3>1
      <4>2. z[j] = x[j] /\ SubSeq(z, 1, j - 1) = SubSeq(x, 1, j - 1)
        BY <1>4, <4>1
      <4>3. x[j] \in {"=", "blank"} /\ ~Continued(SubSeq(x, 1, j - 1))
        BY <2>2, <4>2
      <4>. QED  BY <1>1, <4>1, <4>3, SeparatorsEscaped
    <3>. QED  BY <3>1
  <2>3. KeyEnd(z, 1) = Min(ends \cup {Len(z) + 1})
    BY DEF KeyEnd
  <2>4. ends \subseteq Nat /\ a + 1 <= Len(z) + 1
    BY <1>4
  <2>. HIDE DEF ends
  <2>5. \A e \in Nat : e \in ends \cup {Len(z) + 1} /\ (\A j \in ends \cup {Len(z) + 1} : e <= j) => e = a + 1
    <3>1. ASSUME NEW e \in Nat, e \in ends \cup {Len(z) + 1}, \A j \in ends \cup {Len(z) + 1} : e <= j
          PROVE  e = a + 1
      <4>1. e <= a + 1
        BY <2>1, <3>1
      <4>2. a + 1 <= e
        BY <2>2, <2>4, <3>1
      <4>. QED  BY <4>1, <4>2
    <3>. QED  BY <3>1
  <2>6. a + 1 \in ends \cup {Len(z) + 1} /\ \A j \in ends \cup {Len(z) + 1} : a + 1 <= j
    BY <2>1, <2>2, <2>4
  <2>7. ends \cup {Len(z) + 1} \subseteq Nat
    BY <1>4, <2>4
  <2>. DEFINE S == ends \cup {Len(z) + 1}
  <2>8. (CHOOSE e \in S : \A j \in S : e <= j) = a + 1
    <3>. HIDE DEF S
    <3>1. S \subseteq Nat /\ a + 1 \in S /\ (\A j \in S : a + 1 <= j)
      BY <2>6, <2>7 DEF S
    <3>2. \A e \in S : (\A j \in S : e <= j) => e = a + 1
      BY <2>5, <2>7 DEF S
    <3>. QED  BY <3>1, <3>2
  <2>. QED  BY <2>3, <2>8 DEF Min
<1>9. KeyOf(z) = k
  <2>1. SubSeq(z, 1, (a + 1) - 1) = Escaped(k, TRUE)
    <3>1. (a + 1) - 1 = a
      OBVIOUS
    <3>. QED  BY <1>1, <1>4, <3>1
  <2>2. KeyOf(z) = Unescaped(SubSeq(z, 1, (a + 1) - 1))
    BY <1>6, <1>8 DEF KeyOf
  <2>. QED  BY <2>1, <2>2, UnescapedEscaped
<1>10. ValueStart(z, a + 1) = a + 2
  <2>1. ~(a + 1 > Len(z)) /\ Len(z) \in Nat /\ (a + 1) + 1 = a + 2 /\ a + 2 \in 1 .. Len(z) + 1
    BY <1>4
  <2>2. a + 2 <= Len(z) => z[a + 2] # "blank"
    <3>. SUFFICES ASSUME a + 2 <= Len(z)  PROVE z[a + 2] # "blank"
      OBVIOUS
    <3>1. 1 \in 1 .. b /\ a + 1 + 1 = a + 2
      BY <1>4
    <3>2. z[a + 2] = y[1]
      BY <1>4, <3>1
    <3>3. 1 <= Len(y)
      BY <1>3, <3>1
    <3>4. y[1] \notin {"blank", "#"}
      BY <1>1, <3>3, EscapedFirst
    <3>. QED  BY <3>2, <3>4
  <2>3. NotBlank(z, a + 2) = a + 2
    BY <2>1, <2>2, NotBlankHere
  <2>. QED  BY <1>4, <2>1, <2>3 DEF ValueStart
<1>11. ValueOf(z) = v
  <2>1. ValueOf(z) = Unescaped(From(z, a + 2))
    BY <1>6, <1>8, <1>10 DEF ValueOf
  <2>. QED  BY <1>1, <1>4, <2>1, UnescapedEscaped
<1>. QED  BY <1>1, <1>7, <1>9, <1>11

-----------------------------------------------------------------------------
(* The types of what is read.                                              *)

LEMMA NotBlankTyped ==
  ASSUME NEW s, Len(s) \in Nat, NEW i \in 1 .. Len(s) + 1
  PROVE  NotBlank(s, i) \in i .. Len(s) + 1
<1>. DEFINE P(j) == (j <= Len(s) => s[j] # "blank") /\ \A h \in i .. j - 1 : s[h] = "blank"
            K == {j \in i .. Len(s) + 1 : j <= Len(s) => s[j] # "blank"}
<1>1. PICK N \in Nat : N = Len(s)
  OBVIOUS
<1>2. N + 1 \in K /\ K \in SUBSET Nat
  BY <1>1
<1>3. PICK j \in K : \A m \in K : j <= m
  <2>. HIDE DEF K
  <2>. QED  BY <1>2, LeastNatural
<1>4. ASSUME NEW h \in i .. j - 1  PROVE s[h] = "blank"
  <2>1. h \in i .. Len(s) + 1 /\ h < j /\ h <= Len(s)
    BY <1>1, <1>3
  <2>2. h \notin K
    <3>. HIDE DEF K
    <3>1. j \in Nat /\ h \in Nat
      BY <1>2, <1>3, <2>1
    <3>. QED  BY <1>3, <2>1, <3>1
  <2>. QED  BY <2>1, <2>2
<1>5. P(j) /\ j \in i .. Len(s) + 1
  BY <1>3, <1>4
<1>. HIDE DEF P
<1>6. (CHOOSE e \in i .. Len(s) + 1 : P(e)) \in i .. Len(s) + 1
  BY <1>5
<1>. QED  BY <1>6 DEF NotBlank, P

LEMMA LineEndTyped ==
  ASSUME NEW s, Len(s) \in Nat, NEW i \in 1 .. Len(s) + 1
  PROVE  LineEnd(s, i) \in i .. Len(s) + 1
<1>. DEFINE P(j) == (j <= Len(s) => s[j] = "nl") /\ \A h \in i .. j - 1 : s[h] # "nl"
            K == {j \in i .. Len(s) + 1 : j <= Len(s) => s[j] = "nl"}
<1>1. PICK N \in Nat : N = Len(s)
  OBVIOUS
<1>2. N + 1 \in K /\ K \in SUBSET Nat
  BY <1>1
<1>3. PICK j \in K : \A m \in K : j <= m
  <2>. HIDE DEF K
  <2>. QED  BY <1>2, LeastNatural
<1>4. ASSUME NEW h \in i .. j - 1  PROVE s[h] # "nl"
  <2>1. h \in i .. Len(s) + 1 /\ h < j /\ h <= Len(s)
    BY <1>1, <1>3
  <2>2. h \notin K
    <3>. HIDE DEF K
    <3>1. j \in Nat /\ h \in Nat
      BY <1>2, <1>3, <2>1
    <3>. QED  BY <1>3, <2>1, <3>1
  <2>. QED  BY <2>1, <2>2
<1>5. P(j) /\ j \in i .. Len(s) + 1
  BY <1>3, <1>4
<1>. HIDE DEF P
<1>6. (CHOOSE e \in i .. Len(s) + 1 : P(e)) \in i .. Len(s) + 1
  BY <1>5
<1>. QED  BY <1>6 DEF LineEnd, P

LEMMA PartTyped ==
  ASSUME NEW s \in Text, NEW i \in Nat \ {0}, NEW j \in Int, j <= Len(s)
  PROVE  SubSeq(s, i, j) \in Text
BY DEF Text

LineScan == [at : Nat \ {0}, open : Text, done : Seq(Text)]

Raw(t, l) == SubSeq(t, l.at, LineEnd(t, l.at) - 1)
Line(t, l) == IF l.open = <<>> THEN Raw(t, l) ELSE From(Raw(t, l), NotBlank(Raw(t, l), 1))

LEMMA NextLineCases ==
  ASSUME NEW t, NEW l \in LineScan
  PROVE  NextLine(t)[l] =
           CASE l.at > Len(t) + 1 -> l
             [] l.at <= Len(t) + 1 /\ Continued(Line(t, l)) ->
                  [l EXCEPT !.at = LineEnd(t, l.at) + 1, !.open = @ \o Front(Line(t, l))]
             [] OTHER -> [at |-> LineEnd(t, l.at) + 1, open |-> <<>>,
                          done |-> Append(l.done, l.open \o Line(t, l))]
BY Zenon DEF NextLine, LineScan, Raw, Line

LEMMA LineTyped ==
  ASSUME NEW t \in Text, NEW l \in LineScan, l.at <= Len(t) + 1
  PROVE  LineEnd(t, l.at) \in l.at .. Len(t) + 1 /\ Line(t, l) \in Text
<1>1. PICK N \in Nat, a \in Nat : N = Len(t) /\ a = l.at /\ a \in 1 .. N + 1
  BY DEF Text, LineScan
<1>2. LineEnd(t, a) \in a .. N + 1
  BY <1>1, LineEndTyped
<1>3. PICK r : r = Raw(t, l)
  OBVIOUS
<1>4. r \in Text
  <2>1. LineEnd(t, a) - 1 \in Int /\ LineEnd(t, a) - 1 <= Len(t)
    BY <1>1, <1>2
  <2>2. SubSeq(t, a, LineEnd(t, a) - 1) \in Text
    BY <1>1, <2>1, PartTyped
  <2>. QED  BY <1>1, <1>3, <2>2 DEF Raw
<1>5. From(r, NotBlank(r, 1)) \in Text
  <2>1. Len(r) \in Nat /\ 1 \in 1 .. Len(r) + 1
    BY <1>4 DEF Text
  <2>2. NotBlank(r, 1) \in 1 .. Len(r) + 1
    BY <2>1, NotBlankTyped
  <2>3. SubSeq(r, NotBlank(r, 1), Len(r)) \in Text
    BY <1>4, <2>1, <2>2, PartTyped
  <2>. QED  BY <2>3 DEF From
<1>6. Line(t, l) \in Text
  BY <1>3, <1>4, <1>5 DEF Line
<1>. QED  BY <1>1, <1>2, <1>6

LEMMA NextLineTyped ==
  ASSUME NEW t \in Text
  PROVE  Steps(LineScan, [at |-> 1, open |-> <<>>, done |-> <<>>], NextLine(t))
<1>1. [at |-> 1, open |-> <<>>, done |-> <<>>] \in LineScan
  BY DEF LineScan, Text
<1>2. ASSUME NEW l \in LineScan  PROVE NextLine(t)[l] \in LineScan
  <2>1. CASE l.at > Len(t) + 1
    <3>1. l.at \in Nat /\ Len(t) \in Nat /\ ~(l.at <= Len(t) + 1)
      BY <2>1 DEF LineScan, Text
    <3>2. NextLine(t)[l] = l
      BY <2>1, <3>1, NextLineCases
    <3>. QED  BY <3>2
  <2>2. CASE ~(l.at > Len(t) + 1)
    <3>1. l.at <= Len(t) + 1 /\ l.at \in Nat \ {0} /\ l.open \in Text /\ l.done \in Seq(Text)
      BY <2>2 DEF LineScan, Text
    <3>2. LineEnd(t, l.at) \in l.at .. Len(t) + 1 /\ Line(t, l) \in Text
      BY <3>1, LineTyped
    <3>3. PICK e \in Nat \ {0}, x \in Text : e = LineEnd(t, l.at) + 1 /\ x = Line(t, l)
      <4>1. LineEnd(t, l.at) \in Nat
        BY <3>1, <3>2
      <4>. QED  BY <3>2, <4>1
    <3>4. CASE Continued(x)
      <4>1. Len(x) # 0
        BY <3>4 DEF Continued
      <4>2. Front(x) \in Text
        <5>1. Len(x) - 1 \in Int /\ Len(x) - 1 <= Len(x)
          BY DEF Text
        <5>2. SubSeq(x, 1, Len(x) - 1) \in Text
          BY <5>1, PartTyped
        <5>. QED  BY <5>2 DEF Front
      <4>3. NextLine(t)[l] = [l EXCEPT !.at = e, !.open = @ \o Front(x)]
        BY <2>2, <3>1, <3>3, <3>4, NextLineCases
      <4>4. l.open \o Front(x) \in Text
        BY <3>1, <4>2 DEF Text
      <4>. QED  BY <3>1, <4>3, <4>4 DEF LineScan
    <3>5. CASE ~Continued(x)
      <4>1. NextLine(t)[l] = [at |-> e, open |-> <<>>, done |-> Append(l.done, l.open \o x)]
        BY <2>2, <3>1, <3>3, <3>5, NextLineCases
      <4>2. <<>> \in Text /\ l.open \o x \in Text
        BY <3>1 DEF Text
      <4>3. Append(l.done, l.open \o x) \in Seq(Text)
        BY <3>1, <4>2
      <4>. QED  BY <4>1, <4>2, <4>3 DEF LineScan
    <3>. QED  BY <3>4, <3>5
  <2>. QED  BY <2>1, <2>2
<1>3. NextLine(t) = [l \in LineScan |-> NextLine(t)[l]]
  BY DEF NextLine, LineScan
<1>. QED  BY <1>1, <1>2, <1>3 DEF Steps

LEMMA LogicalLinesTyped ==
  ASSUME NEW t \in Text
  PROVE  LogicalLines(t) \in Seq(Text)
<1>. DEFINE end == Loop(NextLine(t), [at |-> 1, open |-> <<>>, done |-> <<>>], Len(t) + 1)
<1>1. Len(t) + 1 \in Nat
  BY DEF Text
<1>2. end \in LineScan
  BY <1>1, NextLineTyped, LoopTurns
<1>. HIDE DEF end
<1>3. end.done \in Seq(Text) /\ Append(end.done, end.open) \in Seq(Text)
  BY <1>2 DEF LineScan
<1>. QED  BY <1>3 DEF LogicalLines, end

\* Keys and values are texts.
LEMMA EntryTyped ==
  ASSUME NEW s \in Text, ~Skipped(s)
  PROVE  KeyOf(s) \in Text /\ ValueOf(s) \in Text
<1>1. PICK N \in Nat : N = Len(s)
  BY DEF Text
<1>2. PICK i \in 1 .. N : i = NotBlank(s, 1)
  <2>1. NotBlank(s, 1) \in 1 .. Len(s) + 1
    BY <1>1, NotBlankTyped
  <2>. QED  BY <1>1, <2>1 DEF Skipped
<1>3. PICK e \in Nat : e = KeyEnd(s, i) /\ i <= e /\ e <= N + 1
  <2>. DEFINE S == {j \in i .. Len(s) : s[j] \in {"=", "blank"} /\ ~Continued(SubSeq(s, i, j - 1))}
                     \cup {Len(s) + 1}
  <2>1. S \in SUBSET Nat /\ Len(s) + 1 \in S /\ \A j \in S : i <= j /\ j <= N + 1
    BY <1>1, <1>2
  <2>2. KeyEnd(s, i) = (CHOOSE x \in S : \A y \in S : x <= y)
    BY DEF KeyEnd, Min
  <2>. HIDE DEF S
  <2>3. \E x \in S : \A y \in S : x <= y
    BY <2>1, LeastNatural
  <2>4. KeyEnd(s, i) \in S
    BY <2>2, <2>3
  <2>. QED  BY <2>1, <2>4
<1>4. KeyOf(s) \in Text
  <2>1. SubSeq(s, i, e - 1) \in Text
    BY <1>1, <1>2, <1>3, PartTyped
  <2>. QED  BY <1>2, <1>3, <2>1, UnescapedTyped DEF KeyOf
<1>5. ValueStart(s, e) \in Nat \ {0}
  <2>1. CASE e > Len(s)
    BY <1>2, <1>3, <2>1 DEF ValueStart
  <2>2. CASE ~(e > Len(s))
    <3>1. e \in 1 .. Len(s) + 1 /\ e + 1 \in 1 .. Len(s) + 1
      BY <1>1, <1>2, <1>3, <2>2
    <3>2. NotBlank(s, e) \in e .. Len(s) + 1 /\ NotBlank(s, e + 1) \in e + 1 .. Len(s) + 1
      BY <1>1, <3>1, NotBlankTyped
    <3>3. NotBlank(s, e) \in Nat \ {0} /\ NotBlank(s, e + 1) \in Nat \ {0}
      BY <1>1, <1>2, <1>3, <3>2
    <3>. QED  BY <2>2, <3>3 DEF ValueStart
  <2>. QED  BY <2>1, <2>2
<1>6. ValueOf(s) \in Text
  <2>1. From(s, ValueStart(s, e)) \in Text
    BY <1>1, <1>5, PartTyped DEF From
  <2>. QED  BY <1>2, <1>3, <2>1, UnescapedTyped DEF ValueOf
<1>. QED  BY <1>4, <1>6

LEMMA LastIsMember ==
  ASSUME NEW N \in Nat, NEW S, S \subseteq 1 .. N, S # {}
  PROVE  Max(S) \in S
<1>. DEFINE T == {n \in 0 .. N : N - n \in S}
<1>1. PICK i : i \in S
  OBVIOUS
<1>2. PICK n \in T : \A m \in T : n <= m
  <2>1. N - i \in T
    <3>1. i \in 1 .. N
      BY <1>1
    <3>2. N - i \in 0 .. N /\ N - (N - i) = i
      BY <3>1
    <3>. QED  BY <1>1, <3>2
  <2>2. T \in SUBSET Nat
    OBVIOUS
  <2>. HIDE DEF T
  <2>. QED  BY <2>1, <2>2, LeastNatural
<1>3. N - n \in S /\ n \in 0 .. N
  BY <1>2
<1>4. ASSUME NEW y \in S  PROVE N - n >= y
  <2>1. y \in 1 .. N
    OBVIOUS
  <2>2. N - y \in 0 .. N /\ N - (N - y) = y
    BY <2>1
  <2>3. N - y \in T
    BY <2>2
  <2>4. n <= N - y
    <3>. HIDE DEF T
    <3>. QED  BY <1>2, <2>3
  <2>. QED  BY <1>3, <2>1, <2>4
<1>. QED  BY <1>3, <1>4 DEF Max

LEMMA ReadTyped ==
  ASSUME NEW t \in Text, NEW k \in DOMAIN ReadProperties(t)
  PROVE  k \in Text /\ ReadProperties(t)[k] \in Text
<1>. DEFINE lines == LogicalLines(t)
            entries == {i \in DOMAIN lines : ~Skipped(lines[i])}
            S == {i \in entries : KeyOf(lines[i]) = k}
<1>1. lines \in Seq(Text)
  BY LogicalLinesTyped
<1>2. PICK i \in entries : KeyOf(lines[i]) = k
  BY DEF ReadProperties
<1>3. ReadProperties(t)[k] = ValueOf(lines[Max(S)])
  BY DEF ReadProperties
<1>4. Max(S) \in S
  <2>1. PICK N \in Nat : N = Len(lines)
    BY <1>1
  <2>2. S \subseteq 1 .. N /\ i \in S
    BY <1>1, <1>2, <2>1
  <2>. HIDE DEF S
  <2>. QED  BY <2>2, LastIsMember
<1>5. Max(S) \in entries
  BY <1>4
<1>6. lines[i] \in Text /\ ~Skipped(lines[i]) /\ lines[Max(S)] \in Text /\ ~Skipped(lines[Max(S)])
  BY <1>1, <1>2, <1>5
<1>. QED  BY <1>2, <1>3, <1>6, EntryTyped

-----------------------------------------------------------------------------
(* OnOneLine lines.                                                            *)

Ended(bs) == [i \in DOMAIN bs |-> bs[i] \o <<"nl">>]

LEMMA EndedTyped ==
  ASSUME NEW bs \in Seq(Text)
  PROVE  /\ Ended(bs) \in Seq(Seq(Char)) /\ Len(Ended(bs)) = Len(bs)
         /\ FlattenSeq(Ended(bs)) \in Text
<1>1. PICK N \in Nat : N = Len(bs) /\ DOMAIN bs = 1 .. N
  OBVIOUS
<1>2. ASSUME NEW i \in 1 .. N  PROVE bs[i] \o <<"nl">> \in Seq(Char)
  <2>1. "nl" \in Char /\ bs[i] \in Text
    BY <1>1 DEF Char
  <2>. QED  BY <2>1 DEF Text
<1>3. Ended(bs) \in [1 .. N -> Seq(Char)]
  BY <1>1, <1>2 DEF Ended
<1>4. Ended(bs) \in Seq(Seq(Char)) /\ Len(Ended(bs)) = N
  BY <1>3
<1>. QED  BY <1>1, <1>4, FlattenTyped DEF Text

\* After the first a characters, x is a line of t.
HasLine(t, a, x, m) ==
  /\ m = Len(x) /\ a + m <= Len(t) /\ \A p \in 1 .. m : t[a + p] = x[p]
  /\ a + m + 1 <= Len(t) => t[a + m + 1] = "nl"

\* The reader is there, and takes that line.
AtHead(l, a) == l \in LineScan /\ l.open = <<>> /\ l.at = a + 1
Takes(t, l, a, x, m) ==
  NextLine(t)[l] = [at |-> a + m + 2, open |-> <<>>, done |-> Append(l.done, x)]

\* A turn of the reader at the head of a whole line.
LEMMA WholeLine ==
  ASSUME NEW t \in Text, NEW a \in Nat, NEW l, AtHead(l, a),
         NEW x, OnOneLine(x), NEW m \in Nat, HasLine(t, a, x, m)
  PROVE  Takes(t, l, a, x, m)
<1>1. l \in LineScan /\ l.open = <<>> /\ l.at = a + 1
  BY DEF AtHead
<1>2. Len(t) \in Nat /\ x \in Text /\ ~Continued(x) /\ m = Len(x) /\ \A j \in 1 .. m : x[j] # "nl"
  BY DEF OnOneLine, Text, HasLine
<1>3. /\ a + m <= Len(t) /\ (\A p \in 1 .. m : t[a + p] = x[p])
      /\ (a + m + 1 <= Len(t) => t[a + m + 1] = "nl")
  BY DEF HasLine
<1>4. LineEnd(t, l.at) = a + m + 1
  <2>1. PICK e \in a + 1 .. Len(t) + 1 : e = a + m + 1
    BY <1>3, <1>2
  <2>2. ASSUME NEW h \in a + 1 .. e - 1  PROVE t[h] # "nl"
    <3>1. h - a \in 1 .. m /\ a + (h - a) = h
      BY <2>1
    <3>. QED  BY <1>3, <1>2, <3>1
  <2>3. e <= Len(t) => t[e] = "nl"
    BY <1>3, <2>1
  <2>4. LineEnd(t, a + 1) = e
    <3>1. a + 1 \in Nat \ {0}
      OBVIOUS
    <3>. QED  BY <1>2, <2>2, <2>3, <3>1, LineEndAt
  <2>. QED  BY <1>1, <2>1, <2>4
<1>5. Raw(t, l) = x
  <2>. DEFINE r == SubSeq(t, a + 1, (a + m + 1) - 1)
  <2>1. r \in [1 .. m -> Char] /\ \A p \in 1 .. m : r[p] = t[a + p]
    <3>1. r = [p \in 1 .. m |-> t[a + p]]
      BY <1>3, <1>2 DEF Text
    <3>2. \A p \in 1 .. m : t[a + p] \in Char
      BY <1>3, <1>2 DEF Text
    <3>. QED  BY <3>1, <3>2
  <2>. HIDE DEF r
  <2>2. x \in [1 .. m -> Char]
    BY <1>2 DEF Text
  <2>3. \A p \in 1 .. m : r[p] = x[p]
    BY <1>3, <2>1
  <2>4. r = x
    BY <2>1, <2>2, <2>3
  <2>. QED  BY <1>4, <1>1, <2>4 DEF Raw, r
<1>6. Line(t, l) = x
  BY <1>5, <1>1 DEF Line
<1>7. l.at <= Len(t) + 1 /\ ~(l.at > Len(t) + 1)
  BY <1>3, <1>2, <1>1
<1>8. NextLine(t)[l] = [at |-> (a + m + 1) + 1, open |-> <<>>, done |-> Append(l.done, l.open \o x)]
  BY <1>2, <1>4, <1>6, <1>7, <1>1, NextLineCases
<1>9. l.open \o x = x /\ (a + m + 1) + 1 = a + m + 2
  BY <1>2, <1>1 DEF Text
<1>. QED  BY <1>8, <1>9 DEF Takes

EachOnOneLine(bs) == bs \in Seq(Text) /\ \A i \in 1 .. Len(bs) : OnOneLine(bs[i])

\* OnOneLine lines are read as they are; after the last one there is an empty one.
LEMMA LinesBack ==
  ASSUME NEW bs, EachOnOneLine(bs)
  PROVE  LogicalLines(FlattenSeq(Ended(bs))) = Append(bs, <<>>)
<1>. DEFINE ss == Ended(bs)
            t == FlattenSeq(ss)
            L(n) == Loop(NextLine(t), [at |-> 1, open |-> <<>>, done |-> <<>>], n)
            Read(T) == [at |-> T + 2, open |-> <<>>, done |-> Append(bs, <<>>)]
<1>1. PICK N \in Nat : N = Len(bs) /\ bs \in Seq(Text)
  BY DEF EachOnOneLine
<1>2. ss \in Seq(Seq(Char)) /\ Len(ss) = N /\ t \in Text
  BY <1>1, EndedTyped
<1>3. \A i \in 1 .. N : ss[i] = bs[i] \o <<"nl">> /\ OnOneLine(bs[i])
  BY <1>1 DEF Ended, EachOnOneLine
<1>4. PICK f : Joins(Char, ss, f) /\ t = f[N]
  BY <1>2, FlattenJoins
<1>. HIDE DEF t, ss
<1>5. /\ L(0) = [at |-> 1, open |-> <<>>, done |-> <<>>]
      /\ \A n \in Nat : L(n) \in LineScan /\ L(n + 1) = NextLine(t)[L(n)]
  <2>1. Steps(LineScan, [at |-> 1, open |-> <<>>, done |-> <<>>], NextLine(t))
    BY <1>2, NextLineTyped
  <2>. DEFINE A == [at |-> 1, open |-> <<>>, done |-> <<>>]
              G == NextLine(t)
  <2>. HIDE DEF A, G
  <2>2. /\ Loop(G, A, 0) = A
        /\ \A n \in Nat : Loop(G, A, n) \in LineScan /\ Loop(G, A, n + 1) = G[Loop(G, A, n)]
    <3>1. Steps(LineScan, A, G)
      BY <2>1 DEF A, G
    <3>. QED  BY <3>1, LoopTurns
  <2>. QED  BY <2>2 DEF A, G
<1>. HIDE DEF L
<1>. DEFINE At(n) == n <= Len(f[n]) /\ L(n) = [at |-> Len(f[n]) + 1, open |-> <<>>, done |-> SubSeq(bs, 1, n)]
            K == {n \in Nat : n <= N => At(n)}
<1>6. 0 \in K
  <2>1. f[0] = <<>> /\ Len(f[0]) = 0
    BY <1>4 DEF Joins
  <2>2. SubSeq(bs, 1, 0) = <<>>
    BY <1>1
  <2>3. At(0)
    <3>1. Len(f[0]) + 1 = 1 /\ 0 <= Len(f[0])
      BY <2>1
    <3>. QED  BY <1>5, <2>2, <3>1
  <2>. HIDE DEF At
  <2>. QED  BY <2>3
<1>7. ASSUME NEW n \in Nat, n \in K  PROVE n + 1 \in K
  <2>. SUFFICES ASSUME n + 1 <= N  PROVE At(n + 1)
    OBVIOUS
  <2>1. n + 1 \in 1 .. N /\ (n + 1) - 1 = n /\ n <= N
    BY <1>1
  <2>2. At(n)
    <3>. HIDE DEF At
    <3>. QED  BY <1>7, <2>1
  <2>3. PICK x \in Text : x = bs[n + 1] /\ OnOneLine(x) /\ ss[n + 1] = x \o <<"nl">>
    BY <1>1, <1>3, <2>1
  <2>4. PICK m \in Nat : m = Len(x)
    BY DEF Text
  <2>. DEFINE w == x \o <<"nl">>
  <2>5. Len(w) = m + 1 /\ w[m + 1] = "nl" /\ \A p \in 1 .. m : w[p] = x[p]
    <3>1. "nl" \in Char
      BY DEF Char
    <3>. QED  BY <2>4, <3>1 DEF Text
  <2>6. Extends(f[n], w, f[n + 1])
    <3>1. n + 1 \in 1 .. Len(ss)
      BY <1>2, <2>1
    <3>2. Extends(f[(n + 1) - 1], ss[n + 1], f[n + 1])
      BY <1>2, <1>4, <3>1, JoinsOne
    <3>. QED  BY <2>1, <2>3, <3>2
  <2>7. InPlace(t, f[n], w)
    <3>1. n + 1 \in 1 .. Len(ss)
      BY <1>2, <2>1
    <3>2. InPlace(f[Len(ss)], f[(n + 1) - 1], ss[n + 1])
      BY <1>2, <1>4, <3>1, JoinsPiece
    <3>. QED  BY <1>2, <1>4, <2>1, <2>3, <3>2
  <2>. HIDE DEF w
  <2>8. PICK a \in Nat : a = Len(f[n]) /\ Len(f[n + 1]) = a + (m + 1)
    BY <2>5, <2>6 DEF Extends
  <2>9. a + (m + 1) <= Len(t) /\ \A p \in 1 .. m + 1 : t[a + p] = w[p]
    BY <2>5, <2>7, <2>8 DEF InPlace
  <2>10. HasLine(t, a, x, m)
    <3>1. Len(t) \in Nat
      BY <1>2 DEF Text
    <3>2. \A p \in 1 .. m : p \in 1 .. m + 1
      OBVIOUS
    <3>3. m + 1 \in 1 .. m + 1 /\ a + (m + 1) = a + m + 1
      OBVIOUS
    <3>4. t[a + m + 1] = "nl"
      BY <2>5, <2>9, <3>3
    <3>5. \A p \in 1 .. m : t[a + p] = x[p]
      BY <2>5, <2>9, <3>2
    <3>. QED  BY <2>4, <2>9, <3>1, <3>4, <3>5 DEF HasLine
  <2>11. L(n).at = a + 1 /\ L(n).open = <<>> /\ L(n).done = SubSeq(bs, 1, n)
    BY <2>2, <2>8
  <2>12. L(n) \in LineScan /\ L(n + 1) = NextLine(t)[L(n)]
    BY <1>5
  <2>13. NextLine(t)[L(n)] = [at |-> a + m + 2, open |-> <<>>, done |-> Append(L(n).done, x)]
    <3>1. AtHead(L(n), a)
      BY <2>11, <2>12 DEF AtHead
    <3>2. Takes(t, L(n), a, x, m)
      BY <1>2, <2>3, <2>10, <3>1, WholeLine, Zenon
    <3>. QED  BY <3>2 DEF Takes
  <2>14. Append(SubSeq(bs, 1, n), x) = SubSeq(bs, 1, n + 1)
    BY <1>1, <2>1, <2>3
  <2>15. a + m + 2 = Len(f[n + 1]) + 1 /\ n + 1 <= Len(f[n + 1])
    <3>1. n <= a
      BY <2>2, <2>8
    <3>2. a + m + 2 = (a + (m + 1)) + 1 /\ n + 1 <= a + (m + 1)
      BY <3>1
    <3>. QED  BY <2>8, <3>2, Zenon
  <2>16. L(n + 1) = [at |-> Len(f[n + 1]) + 1, open |-> <<>>, done |-> SubSeq(bs, 1, n + 1)]
    BY <2>11, <2>12, <2>13, <2>14, <2>15
  <2>. QED  BY <2>15, <2>16
<1>8. At(N)
  <2>. HIDE DEF At, K
  <2>1. Nat \subseteq K
    BY <1>6, <1>7, NaturalInduction
  <2>. QED  BY <1>1, <2>1 DEF K
<1>9. PICK T \in Nat : T = Len(t)
  BY <1>2 DEF Text
<1>10. N <= T /\ L(N).at = T + 1 /\ L(N).open = <<>> /\ L(N).done = bs
  <2>1. SubSeq(bs, 1, N) = bs
    BY <1>1
  <2>2. Len(f[N]) = T
    BY <1>4, <1>9
  <2>. QED  BY <1>8, <2>1, <2>2
\* The empty line at the end.
<1>11. L(N + 1) = Read(T)
  <2>1. OnOneLine(<<>>)
    BY NothingContinues DEF OnOneLine, Text
  <2>2. L(N) \in LineScan /\ L(N + 1) = NextLine(t)[L(N)]
    BY <1>5
  <2>3. HasLine(t, T, <<>>, 0)
    BY <1>9 DEF HasLine
  <2>4. NextLine(t)[L(N)] = [at |-> T + 0 + 2, open |-> <<>>, done |-> Append(L(N).done, <<>>)]
    <3>1. 0 \in Nat
      OBVIOUS
    <3>2. AtHead(L(N), T)
      BY <1>10, <2>2 DEF AtHead
    <3>3. Takes(t, L(N), T, <<>>, 0)
      BY <1>2, <2>1, <2>3, <3>1, <3>2, WholeLine, Zenon
    <3>. QED  BY <3>3 DEF Takes
  <2>5. T + 0 + 2 = T + 2
    OBVIOUS
  <2>. QED  BY <1>10, <2>2, <2>4, <2>5
<1>12. NextLine(t)[Read(T)] = Read(T)
  <2>1. Read(T) \in LineScan
    BY <1>5, <1>11
  <2>2. Read(T).at = T + 2
    OBVIOUS
  <2>. HIDE DEF Read
  <2>3. Read(T).at > Len(t) + 1 /\ ~(Read(T).at <= Len(t) + 1)
    BY <1>9, <2>2
  <2>. QED  BY <2>1, <2>3, NextLineCases
<1>. DEFINE J == {n \in Nat : L((N + 1) + n) = Read(T)}
<1>13. 0 \in J
  <2>. HIDE DEF Read
  <2>1. (N + 1) + 0 = N + 1
    BY <1>1
  <2>. QED  BY <1>11, <2>1
<1>14. ASSUME NEW n \in Nat, n \in J  PROVE n + 1 \in J
  <2>. HIDE DEF Read
  <2>1. (N + 1) + n \in Nat /\ (N + 1) + (n + 1) = ((N + 1) + n) + 1
    BY <1>1
  <2>2. L(((N + 1) + n) + 1) = NextLine(t)[L((N + 1) + n)] /\ L((N + 1) + n) = Read(T)
    BY <1>5, <1>14, <2>1
  <2>. QED  BY <1>12, <2>1, <2>2
<1>15. L(T + 1) = Read(T)
  <2>. HIDE DEF J, Read
  <2>1. Nat \subseteq J
    BY <1>13, <1>14, NaturalInduction
  <2>2. T - N \in Nat /\ (N + 1) + (T - N) = T + 1
    BY <1>1, <1>10
  <2>3. L((N + 1) + (T - N)) = Read(T)
    BY <2>1, <2>2 DEF J
  <2>. QED  BY <2>2, <2>3
<1>16. L(T + 1).open = <<>> /\ L(T + 1).done = Append(bs, <<>>)
  BY <1>15
<1>17. LogicalLines(t) = Append(bs, <<>>)
  BY <1>9, <1>16 DEF LogicalLines, L
<1>. QED  BY <1>17 DEF t, ss

-----------------------------------------------------------------------------
(* The lines of a map.                                                     *)

\* A map of finitely many keys.
IsTextMap(p) == IsFiniteSet(DOMAIN p) /\ DOMAIN p \subseteq Text /\ p \in [DOMAIN p -> Text]

\* One line more in the text.
LEMMA EndedAppend ==
  ASSUME NEW bs, EachOnOneLine(bs), NEW x, OnOneLine(x)
  PROVE  /\ EachOnOneLine(Append(bs, x))
         /\ FlattenSeq(Ended(Append(bs, x))) = FlattenSeq(Ended(bs)) \o (x \o <<"nl">>)
<1>. DEFINE more == Append(bs, x)
<1>1. PICK N \in Nat : N = Len(bs) /\ bs \in Seq(Text) /\ x \in Text
  BY DEF EachOnOneLine, OnOneLine
<1>2. more \in Seq(Text) /\ Len(more) = N + 1 /\ more[N + 1] = x /\ \A i \in 1 .. N : more[i] = bs[i]
  BY <1>1
<1>. HIDE DEF more
<1>3. ASSUME NEW i \in 1 .. Len(more)  PROVE OnOneLine(more[i])
  <2>1. CASE i \in 1 .. N
    BY <1>1, <1>2, <2>1 DEF EachOnOneLine
  <2>2. CASE i = N + 1
    BY <1>2, <2>2
  <2>. QED  BY <1>2, <2>1, <2>2
<1>4. EachOnOneLine(more)
  BY <1>2, <1>3 DEF EachOnOneLine
<1>5. Ended(more) = Append(Ended(bs), x \o <<"nl">>)
  <2>. DEFINE u == Append(Ended(bs), x \o <<"nl">>)
  <2>1. x \o <<"nl">> \in Seq(Char)
    <3>1. "nl" \in Char
      BY DEF Char
    <3>. QED  BY <1>1, <3>1 DEF Text
  <2>2. Ended(bs) \in Seq(Seq(Char)) /\ Len(Ended(bs)) = N
    BY <1>1, EndedTyped
  <2>3. u \in [1 .. N + 1 -> Seq(Char)] /\ u[N + 1] = x \o <<"nl">> /\ \A i \in 1 .. N : u[i] = Ended(bs)[i]
    <3>1. PICK e \in Seq(Seq(Char)), w \in Seq(Char) : e = Ended(bs) /\ w = x \o <<"nl">> /\ Len(e) = N
      BY <2>1, <2>2
    <3>2. Append(e, w) \in Seq(Seq(Char)) /\ Len(Append(e, w)) = N + 1
      BY <3>1
    <3>3. Append(e, w) \in [1 .. N + 1 -> Seq(Char)]
      <4>1. PICK v : v = Append(e, w)
        OBVIOUS
      <4>2. v \in Seq(Seq(Char)) /\ Len(v) = N + 1
        BY <3>2, <4>1
      <4>3. v \in [1 .. N + 1 -> Seq(Char)]
        BY <4>2
      <4>. QED  BY <4>1, <4>3
    <3>4. Append(e, w)[N + 1] = w
      BY <3>1
    <3>5. \A i \in 1 .. N : Append(e, w)[i] = e[i]
      BY <3>1
    <3>. QED  BY <3>1, <3>3, <3>4, <3>5
  <2>4. \A i \in 1 .. N : Ended(bs)[i] = bs[i] \o <<"nl">>
    BY <1>1 DEF Ended
  <2>. HIDE DEF u
  <2>5. ASSUME NEW i \in 1 .. N + 1  PROVE more[i] \o <<"nl">> = u[i]
    <3>1. CASE i = N + 1
      BY <1>2, <2>3, <3>1
    <3>2. CASE i \in 1 .. N
      BY <1>2, <2>3, <2>4, <3>2
    <3>. QED  BY <3>1, <3>2
  <2>6. Ended(more) = [i \in 1 .. N + 1 |-> more[i] \o <<"nl">>]
    BY <1>2 DEF Ended
  <2>. QED  BY <2>3, <2>5, <2>6 DEF u
<1>6. Ended(bs) \in Seq(Seq(Char)) /\ x \o <<"nl">> \in Seq(Char)
  <2>1. "nl" \in Char
    BY DEF Char
  <2>. QED  BY <1>1, <2>1, EndedTyped DEF Text
<1>7. FlattenSeq(Ended(more)) = FlattenSeq(Ended(bs)) \o (x \o <<"nl">>)
  BY <1>5, <1>6, FlattenAppend
<1>. QED  BY <1>4, <1>7 DEF more

Heading == <<"#", "v", "nl", "#", "v", "nl">>

\* The lines of the keys in s, after the two comments.
Written(p, s, bs) ==
  /\ EachOnOneLine(bs)
  /\ \A i \in 1 .. Len(bs) : Skipped(bs[i]) \/ \E k \in s : bs[i] = Body(k, p[k])
  /\ \A k \in s : \E i \in 1 .. Len(bs) : bs[i] = Body(k, p[k])

LEMMA CommentLine ==
  ASSUME NEW x, x = <<"#", "v">>
  PROVE  x \o <<"nl">> = <<"#", "v", "nl">>
<1>1. x \in Seq(Char) /\ <<"nl">> \in Seq(Char)
  BY DEF Char, Letter
<1>2. Len(x) = 2 /\ x[1] = "#" /\ x[2] = "v"
  OBVIOUS
<1>. DEFINE z == <<"#", "v", "nl">>
<1>3. x \o <<"nl">> = [i \in 1 .. 3 |-> IF i <= 2 THEN x[i] ELSE <<"nl">>[i - 2]]
  BY <1>1, <1>2
<1>4. z = [i \in 1 .. 3 |-> z[i]]
  OBVIOUS
<1>5. z[1] = "#" /\ z[2] = "v" /\ z[3] = "nl" /\ <<"nl">>[1] = "nl"
  OBVIOUS
<1>6. \A i \in 1 .. 3 : z[i] = IF i <= 2 THEN x[i] ELSE <<"nl">>[i - 2]
  BY <1>2, <1>5
<1>. QED  BY <1>3, <1>4, <1>6

LEMMA HeadingWritten ==
  ASSUME NEW p
  PROVE  \E bs : Written(p, {}, bs) /\ Heading = FlattenSeq(Ended(bs))
<1>. DEFINE x == <<"#", "v">>
            one == Append(<<>>, x)
            two == Append(one, x)
<1>1. x \in Text /\ Len(x) = 2 /\ x[1] = "#" /\ x[2] = "v"
  BY DEF Text, Char, Letter
<1>2. "#" \in Char /\ "v" \in Char /\ "nl" \in Char /\ <<"#">> \in Text /\ x = <<"#">> \o <<"v">>
  BY DEF Text, Char, Letter
<1>3. ~Continued(x)
  BY <1>2, LastContinues
<1>. HIDE DEF x
<1>4. OnOneLine(x)
  BY <1>1, <1>3 DEF OnOneLine
<1>5. Skipped(x)
  <2>1. NotBlank(x, 1) = 1
    BY <1>1, NotBlankHere
  <2>. QED  BY <1>1, <2>1 DEF Skipped
<1>6. EachOnOneLine(<<>>) /\ FlattenSeq(Ended(<<>>)) = <<>>
  <2>1. Ended(<<>>) = <<>>
    BY DEF Ended
  <2>. QED  BY <2>1 DEF EachOnOneLine, FlattenSeq
<1>7. EachOnOneLine(one) /\ FlattenSeq(Ended(one)) = <<>> \o (x \o <<"nl">>)
  BY <1>4, <1>6, EndedAppend
<1>8. Len(one) = 1 /\ one[1] = x
  BY <1>1
<1>. HIDE DEF one
<1>9. EachOnOneLine(two) /\ FlattenSeq(Ended(two)) = (<<>> \o (x \o <<"nl">>)) \o (x \o <<"nl">>)
  BY <1>4, <1>7, EndedAppend
<1>10. Len(two) = 2 /\ two[1] = x /\ two[2] = x
  <2>1. one \in Seq(Text)
    BY <1>7 DEF EachOnOneLine
  <2>2. Len(two) = Len(one) + 1 /\ two[Len(one) + 1] = x /\ \A i \in 1 .. Len(one) : two[i] = one[i]
    BY <1>1, <2>1
  <2>. HIDE DEF two
  <2>. QED  BY <1>8, <2>2
<1>. HIDE DEF two
<1>11. (<<>> \o (x \o <<"nl">>)) \o (x \o <<"nl">>) = Heading
  <2>. DEFINE z == <<"#", "v", "nl">>
              u == <<"#", "v", "nl", "#", "v", "nl">>
  <2>1. x \o <<"nl">> = z
    BY CommentLine DEF x
  <2>2. z \in Seq(Char) /\ <<>> \o z = z
    BY <1>2
  <2>3. z \o z = u
    <3>1. Len(z) = 3 /\ z[1] = "#" /\ z[2] = "v" /\ z[3] = "nl"
      OBVIOUS
    <3>2. z \o z = [i \in 1 .. 6 |-> IF i <= 3 THEN z[i] ELSE z[i - 3]]
      BY <2>2, <3>1
    <3>3. /\ u = [i \in 1 .. 6 |-> u[i]]
          /\ u[1] = "#" /\ u[2] = "v" /\ u[3] = "nl" /\ u[4] = "#" /\ u[5] = "v" /\ u[6] = "nl"
      OBVIOUS
    <3>4. \A i \in 1 .. 6 : u[i] = IF i <= 3 THEN z[i] ELSE z[i - 3]
      BY <3>1, <3>3
    <3>. QED  BY <3>2, <3>3, <3>4
  <2>. QED  BY <2>1, <2>2, <2>3 DEF Heading
<1>12. Written(p, {}, two)
  BY <1>5, <1>9, <1>10 DEF Written
<1>. QED  BY <1>9, <1>11, <1>12

\* The line of k comes after those of s.
ComesAfter(p, s, bs, k) ==
  \E cs : /\ Written(p, s \cup {k}, cs)
          /\ FlattenSeq(Ended(cs)) = FlattenSeq(Ended(bs)) \o LineOf(k, p[k])

LEMMA OneMoreWritten ==
  ASSUME NEW p, NEW s, NEW bs, Written(p, s, bs), NEW k \in Text, p[k] \in Text
  PROVE  ComesAfter(p, s, bs, k)
<1>. DEFINE x == Body(k, p[k])
            cs == Append(bs, x)
<1>1. OnOneLine(x)
  BY BodyWhole
<1>2. LineOf(k, p[k]) = x \o <<"nl">>
  BY DEF LineOf, Body
<1>. HIDE DEF x
<1>3. EachOnOneLine(cs) /\ FlattenSeq(Ended(cs)) = FlattenSeq(Ended(bs)) \o (x \o <<"nl">>)
  BY <1>1, EndedAppend DEF Written
<1>4. PICK N \in Nat : N = Len(bs) /\ bs \in Seq(Text) /\ x \in Text
  BY <1>1 DEF Written, EachOnOneLine, OnOneLine
<1>5. Len(cs) = N + 1 /\ cs[N + 1] = x /\ \A i \in 1 .. N : cs[i] = bs[i]
  BY <1>4
<1>. HIDE DEF cs
<1>6. ASSUME NEW i \in 1 .. Len(cs)
      PROVE  Skipped(cs[i]) \/ \E j \in s \cup {k} : cs[i] = Body(j, p[j])
  <2>1. CASE i = N + 1
    <3>1. cs[i] = Body(k, p[k])
      BY <1>5, <2>1 DEF x
    <3>. QED  BY <3>1
  <2>2. CASE i \in 1 .. N
    <3>1. Skipped(bs[i]) \/ \E j \in s : bs[i] = Body(j, p[j])
      BY <1>4, <2>2 DEF Written
    <3>. QED  BY <1>5, <2>2, <3>1
  <2>. QED  BY <1>5, <2>1, <2>2
<1>7. ASSUME NEW j \in s \cup {k}
      PROVE  \E i \in 1 .. Len(cs) : cs[i] = Body(j, p[j])
  <2>1. CASE j = k
    <3>1. N + 1 \in 1 .. Len(cs) /\ cs[N + 1] = Body(j, p[j])
      BY <1>5, <2>1 DEF x
    <3>. QED  BY <3>1
  <2>2. CASE j \in s
    <3>1. PICK i \in 1 .. N : bs[i] = Body(j, p[j])
      BY <1>4, <2>2 DEF Written
    <3>2. i \in 1 .. Len(cs) /\ cs[i] = Body(j, p[j])
      BY <1>5, <3>1
    <3>. QED  BY <3>2
  <2>. QED  BY <2>1, <2>2
<1>8. Written(p, s \cup {k}, cs)
  BY <1>3, <1>6, <1>7 DEF Written
<1>. QED  BY <1>2, <1>3, <1>8 DEF ComesAfter

Some(s) == CHOOSE x \in s : TRUE

\* A fold over a finite set of keys, as FoldSet makes it.
Fold(p, h) ==
  h = [s \in SUBSET DOMAIN p |->
         IF s = {} THEN Heading ELSE h[s \ {Some(s)}] \o LineOf(Some(s), p[Some(s)])]

LEMMA LineOfTyped ==
  ASSUME NEW k \in Text, NEW v \in Text
  PROVE  LineOf(k, v) \in Text
<1>1. OnOneLine(Body(k, v))
  BY BodyWhole
<1>2. LineOf(k, v) = Body(k, v) \o <<"nl">>
  BY DEF LineOf, Body
<1>3. "nl" \in Char
  BY DEF Char
<1>. QED  BY <1>1, <1>2, <1>3 DEF OnOneLine, Text

LEMMA FoldExists ==
  ASSUME NEW p, IsTextMap(p)
  PROVE  \E h : Fold(p, h)
<1>. DEFINE D == DOMAIN p
            T == [SUBSET D -> Text]
            A == [s \in SUBSET D |-> Heading]
            Add(h, s) == IF s = {} THEN Heading ELSE h[s \ {Some(s)}] \o LineOf(Some(s), p[Some(s)])
            G == [h \in T |-> [s \in SUBSET D |-> Add(h, s)]]
<1>1. Heading \in Text
  BY DEF Heading, Text, Char, Letter
<1>2. \A s \in SUBSET D : s # {} => Some(s) \in s
  BY DEF Some
<1>3. Steps(T, A, G)
  <2>1. ASSUME NEW h \in T, NEW s \in SUBSET D  PROVE Add(h, s) \in Text
    <3>1. CASE s = {}
      BY <1>1, <3>1
    <3>2. CASE s # {}
      <4>1. Some(s) \in D /\ s \ {Some(s)} \in SUBSET D
        BY <1>2, <3>2
      <4>2. h[s \ {Some(s)}] \in Text
        BY <4>1
      <4>3. LineOf(Some(s), p[Some(s)]) \in Text
        BY <4>1, LineOfTyped DEF IsTextMap
      <4>. HIDE DEF T
      <4>. QED  BY <3>2, <4>2, <4>3 DEF Text
    <3>. QED  BY <3>1, <3>2
  <2>2. A \in T
    BY <1>1
  <2>. HIDE DEF Add
  <2>3. G \in [T -> T]
    BY <2>1
  <2>. QED  BY <2>2, <2>3 DEF Steps
<1>4. PICK f : Orbit(T, A, G, f)
  BY <1>3, Iterates
<1>5. \A n \in Nat : f[n] \in T /\ f[n + 1] = [s \in SUBSET D |-> Add(f[n], s)]
  <2>. HIDE DEF Add
  <2>1. \A n \in Nat : f[n] \in T /\ f[n + 1] = G[f[n]]
    <3>. HIDE DEF T, A, G
    <3>. QED  BY <1>4 DEF Orbit
  <2>. QED  BY <2>1
<1>6. f[0][{}] = Heading
  <2>1. f[0] = A
    <3>. HIDE DEF T, A, G
    <3>. QED  BY <1>4 DEF Orbit
  <2>. QED  BY <2>1
\* After so many turns, the sets of so many keys are done.
<1>. DEFINE Same(n) == \A s \in SUBSET D : Cardinality(s) <= n => f[n + 1][s] = f[n][s]
            K == {n \in Nat : Same(n)}
<1>7. ASSUME NEW s \in SUBSET D
      PROVE  /\ IsFiniteSet(s) /\ Cardinality(s) \in Nat
             /\ s = {} \/ Cardinality(s \ {Some(s)}) = Cardinality(s) - 1
  <2>1. IsFiniteSet(s)
    BY FS_Subset DEF IsTextMap
  <2>2. Cardinality(s) \in Nat
    BY <2>1, FS_CardinalityType
  <2>3. s # {} => Cardinality(s \ {Some(s)}) = Cardinality(s) - 1
    BY <1>2, <2>1, FS_RemoveElement
  <2>. QED  BY <2>1, <2>2, <2>3
<1>8. 0 \in K
  <2>1. ASSUME NEW s \in SUBSET D, Cardinality(s) <= 0  PROVE f[0 + 1][s] = f[0][s]
    <3>1. s = {}
      <4>1. IsFiniteSet(s) /\ Cardinality(s) \in Nat
        BY <1>7
      <4>2. Cardinality(s) = 0
        BY <2>1, <4>1
      <4>. QED  BY <4>1, <4>2, FS_EmptySet
    <3>2. f[0 + 1] = [r \in SUBSET D |-> Add(f[0], r)]
      BY <1>5
    <3>3. f[0 + 1][s] = Heading
      BY <3>1, <3>2
    <3>. QED  BY <1>6, <3>1, <3>3
  <2>. QED  BY <2>1
<1>9. ASSUME NEW n \in Nat, n \in K  PROVE n + 1 \in K
  <2>1. Same(n)
    <3>. HIDE DEF Same
    <3>. QED  BY <1>9
  <2>2. ASSUME NEW s \in SUBSET D, Cardinality(s) <= n + 1
        PROVE  f[(n + 1) + 1][s] = f[n + 1][s]
    <3>1. f[(n + 1) + 1] = [r \in SUBSET D |-> Add(f[n + 1], r)] /\ f[n + 1] = [r \in SUBSET D |-> Add(f[n], r)]
      <4>. HIDE DEF Add
      <4>1. n + 1 \in Nat
        OBVIOUS
      <4>. QED  BY <1>5, <4>1
    <3>2. f[(n + 1) + 1][s] = Add(f[n + 1], s) /\ f[n + 1][s] = Add(f[n], s)
      <4>. HIDE DEF Add
      <4>. QED  BY <3>1
    <3>3. CASE s = {}
      BY <3>2, <3>3
    <3>4. CASE s # {}
      <4>1. s \ {Some(s)} \in SUBSET D /\ Cardinality(s \ {Some(s)}) <= n
        BY <1>7, <2>2, <3>4
      <4>2. f[n + 1][s \ {Some(s)}] = f[n][s \ {Some(s)}]
        BY <2>1, <4>1
      <4>. QED  BY <3>2, <3>4, <4>2
    <3>. QED  BY <3>3, <3>4
  <2>3. Same(n + 1)
    BY <2>2
  <2>. HIDE DEF Same
  <2>. QED  BY <2>3
<1>10. PICK N \in Nat : \A s \in SUBSET D : f[N + 1][s] = f[N][s]
  <2>. HIDE DEF K, Same
  <2>1. Nat \subseteq K
    BY <1>8, <1>9, NaturalInduction
  <2>2. Cardinality(D) \in Nat /\ \A s \in SUBSET D : Cardinality(s) <= Cardinality(D)
    BY FS_CardinalityType, FS_Subset DEF IsTextMap
  <2>. QED  BY <2>1, <2>2 DEF K, Same
<1>11. f[N] = [s \in SUBSET D |-> Add(f[N], s)]
  <2>. HIDE DEF Add
  <2>1. f[N] \in T /\ f[N + 1] = [s \in SUBSET D |-> Add(f[N], s)]
    BY <1>5
  <2>2. \A s \in SUBSET D : f[N][s] = Add(f[N], s)
    BY <1>10, <2>1
  <2>. QED  BY <2>1, <2>2
<1>12. Fold(p, f[N])
  BY <1>11 DEF Fold
<1>. QED  BY <1>12

\* The text of a map is the text of its lines.
LEMMA LinesWritten ==
  ASSUME NEW p, IsTextMap(p)
  PROVE  \E bs : Written(p, DOMAIN p, bs) /\ PropertiesText(p) = FlattenSeq(Ended(bs))
<1>. DEFINE D == DOMAIN p
            iter == CHOOSE h : Fold(p, h)
            Done(s) == \E bs : Written(p, s, bs) /\ iter[s] = FlattenSeq(Ended(bs))
            K == {n \in Nat : \A s \in SUBSET D : Cardinality(s) <= n => Done(s)}
<1>1. Fold(p, iter)
  BY FoldExists
<1>2. PropertiesText(p) = iter[D]
  BY DEF PropertiesText, FoldSet, MapThenFoldSet, Fold, Some, Heading
<1>. HIDE DEF iter
<1>3. \A s \in SUBSET D :
        iter[s] = IF s = {} THEN Heading ELSE iter[s \ {Some(s)}] \o LineOf(Some(s), p[Some(s)])
  BY <1>1 DEF Fold
<1>4. ASSUME NEW s \in SUBSET D
      PROVE  IsFiniteSet(s) /\ Cardinality(s) \in Nat
  <2>1. IsFiniteSet(s)
    BY FS_Subset DEF IsTextMap
  <2>. QED  BY <2>1, FS_CardinalityType
<1>5. Done({})
  <2>1. iter[{}] = Heading
    BY <1>3
  <2>. QED  BY <2>1, HeadingWritten
<1>6. 0 \in K
  <2>1. ASSUME NEW s \in SUBSET D, Cardinality(s) <= 0  PROVE s = {}
    <3>1. IsFiniteSet(s) /\ Cardinality(s) = 0
      BY <1>4, <2>1
    <3>. QED  BY <3>1, FS_EmptySet
  <2>. HIDE DEF Done
  <2>. QED  BY <1>5, <2>1
<1>7. ASSUME NEW n \in Nat, n \in K  PROVE n + 1 \in K
  <2>1. ASSUME NEW s \in SUBSET D, Cardinality(s) <= n + 1, s # {}  PROVE Done(s)
    <3>1. PICK k \in D : k = Some(s) /\ k \in s
      BY <2>1 DEF Some
    <3>2. k \in Text /\ p[k] \in Text
      BY <3>1 DEF IsTextMap
    <3>3. IsFiniteSet(s) /\ Cardinality(s) \in Nat
      BY <1>4
    <3>4. Cardinality(s \ {k}) = Cardinality(s) - 1
      BY <3>1, <3>3, FS_RemoveElement
    <3>5. s \ {k} \in SUBSET D /\ Cardinality(s \ {k}) <= n
      BY <2>1, <3>3, <3>4
    <3>6. Done(s \ {k})
      <4>. HIDE DEF Done
      <4>. QED  BY <1>7, <3>5
    <3>7. PICK bs : Written(p, s \ {k}, bs) /\ iter[s \ {k}] = FlattenSeq(Ended(bs))
      BY <3>6
    <3>8. PICK cs : /\ Written(p, (s \ {k}) \cup {k}, cs)
                    /\ FlattenSeq(Ended(cs)) = FlattenSeq(Ended(bs)) \o LineOf(k, p[k])
      <4>1. ComesAfter(p, s \ {k}, bs, k)
        BY <3>2, <3>7, OneMoreWritten, Zenon
      <4>. QED  BY <4>1 DEF ComesAfter
    <3>9. (s \ {k}) \cup {k} = s
      BY <3>1
    <3>10. iter[s] = iter[s \ {k}] \o LineOf(k, p[k])
      BY <1>3, <2>1, <3>1
    <3>11. Written(p, s, cs) /\ iter[s] = FlattenSeq(Ended(cs))
      BY <3>7, <3>8, <3>9, <3>10
    <3>. QED  BY <3>11
  <2>. HIDE DEF Done
  <2>2. \A s \in SUBSET D : Cardinality(s) <= n + 1 => Done(s)
    BY <1>5, <2>1
  <2>. QED  BY <2>2
<1>8. Done(D)
  <2>. HIDE DEF Done, K
  <2>1. Nat \subseteq K
    BY <1>6, <1>7, NaturalInduction
  <2>2. Cardinality(D) \in Nat /\ Cardinality(D) <= Cardinality(D)
    BY <1>4
  <2>. QED  BY <2>1, <2>2 DEF K
<1>. QED  BY <1>2, <1>8

LEMMA TextTyped ==
  ASSUME NEW p, IsTextMap(p)
  PROVE  PropertiesText(p) \in Text
BY LinesWritten, EndedTyped DEF Written, EachOnOneLine

\* What is written for a map is read back as that map.
THEOREM FormatReadsBack ==
  ASSUME NEW p, IsTextMap(p)
  PROVE  ReadProperties(PropertiesText(p)) = p
<1>1. PICK bs : Written(p, DOMAIN p, bs) /\ PropertiesText(p) = FlattenSeq(Ended(bs))
  BY LinesWritten
<1>2. PICK lines : lines = Append(bs, <<>>) /\ LogicalLines(PropertiesText(p)) = lines
  BY <1>1, LinesBack DEF Written
<1>3. PICK N \in Nat : N = Len(bs) /\ bs \in Seq(Text)
  BY <1>1 DEF Written, EachOnOneLine
<1>4. DOMAIN lines = 1 .. N + 1 /\ lines[N + 1] = <<>> /\ \A i \in 1 .. N : lines[i] = bs[i]
  <2>1. <<>> \in Text
    BY DEF Text
  <2>. QED  BY <1>2, <1>3, <2>1
<1>5. Skipped(<<>>)
  <2>1. NotBlank(<<>>, 1) = 1
    BY NotBlankHere
  <2>. QED  BY <2>1 DEF Skipped
<1>. DEFINE entries == {i \in DOMAIN lines : ~Skipped(lines[i])}
            Of(k) == {i \in entries : KeyOf(lines[i]) = k}
<1>6. ASSUME NEW k \in DOMAIN p
      PROVE  k \in Text /\ p[k] \in Text
  BY DEF IsTextMap
<1>7. ASSUME NEW i \in entries
      PROVE  KeyOf(lines[i]) \in DOMAIN p /\ ValueOf(lines[i]) = p[KeyOf(lines[i])]
  <2>1. i \in 1 .. N /\ lines[i] = bs[i] /\ ~Skipped(bs[i])
    BY <1>4, <1>5
  <2>2. PICK k \in DOMAIN p : bs[i] = Body(k, p[k])
    BY <1>1, <1>3, <2>1 DEF Written
  <2>3. KeyOf(bs[i]) = k /\ ValueOf(bs[i]) = p[k]
    BY <1>6, <2>2, BodyRead
  <2>. QED  BY <2>1, <2>3
<1>8. ASSUME NEW k \in DOMAIN p
      PROVE  \E i \in entries : KeyOf(lines[i]) = k
  <2>1. PICK i \in 1 .. N : bs[i] = Body(k, p[k])
    BY <1>1, <1>3 DEF Written
  <2>2. ~Skipped(bs[i]) /\ KeyOf(bs[i]) = k
    BY <1>6, <2>1, BodyRead
  <2>3. i \in entries /\ KeyOf(lines[i]) = k
    BY <1>4, <2>2
  <2>. QED  BY <2>3
<1>9. {KeyOf(lines[i]) : i \in entries} = DOMAIN p
  <2>. HIDE DEF entries
  <2>. QED  BY <1>7, <1>8
<1>10. ASSUME NEW k \in DOMAIN p
       PROVE  ValueOf(lines[Max(Of(k))]) = p[k]
  <2>1. Of(k) # {}
    BY <1>8
  <2>2. Of(k) \subseteq 1 .. N + 1
    BY <1>4
  <2>3. Max(Of(k)) \in Of(k)
    <3>. HIDE DEF Of
    <3>. QED  BY <2>1, <2>2, LastIsMember
  <2>4. Max(Of(k)) \in entries /\ KeyOf(lines[Max(Of(k))]) = k
    BY <2>3
  <2>. HIDE DEF entries, Of
  <2>. QED  BY <1>7, <2>4
<1>11. ReadProperties(PropertiesText(p)) =
         [k \in {KeyOf(lines[i]) : i \in entries} |-> ValueOf(lines[Max(Of(k))])]
  BY <1>2 DEF ReadProperties
<1>. HIDE DEF entries, Of
<1>12. ReadProperties(PropertiesText(p)) = [k \in DOMAIN p |-> p[k]]
  BY <1>9, <1>10, <1>11
<1>13. p = [k \in DOMAIN p |-> p[k]]
  BY DEF IsTextMap
<1>. QED  BY <1>12, <1>13

\* An empty file has no keys.
LEMMA NothingIsRead == ReadProperties(<<>>) = <<>>
<1>1. EachOnOneLine(<<>>)
  BY DEF EachOnOneLine
<1>2. FlattenSeq(Ended(<<>>)) = <<>>
  <2>1. Ended(<<>>) = <<>>
    BY DEF Ended
  <2>. QED  BY <2>1 DEF FlattenSeq
<1>3. LogicalLines(<<>>) = <<<<>>>>
  <2>1. LogicalLines(<<>>) = Append(<<>>, <<>>)
    BY <1>1, <1>2, LinesBack
  <2>. QED  BY <2>1
<1>4. Skipped(<<>>)
  <2>1. NotBlank(<<>>, 1) = 1
    BY NotBlankHere
  <2>. QED  BY <2>1 DEF Skipped
<1>5. DOMAIN <<<<>>>> = {1} /\ <<<<>>>>[1] = <<>>
  OBVIOUS
<1>6. {i \in DOMAIN LogicalLines(<<>>) : ~Skipped(LogicalLines(<<>>)[i])} = {}
  BY <1>3, <1>4, <1>5
<1>7. DOMAIN ReadProperties(<<>>) = {}
  BY <1>6 DEF ReadProperties
<1>8. ReadProperties(<<>>) = [k \in {} |-> <<>>]
  BY <1>6 DEF ReadProperties
<1>. QED  BY <1>8
=============================================================================
