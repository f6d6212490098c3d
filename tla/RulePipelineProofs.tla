------------------------- MODULE RulePipelineProofs -------------------------
(***************************************************************************)
(* RulePipeline, for any manifest whose metrics are on models and metrics, *)
(* and any statement: what is added to its WITH list, that every table is  *)
(* defined before it is used, and what is refused.                         *)
(***************************************************************************)
EXTENDS RulePipeline, CommonLemmas

-----------------------------------------------------------------------------
(* Names, tables and what is needed.                                       *)

LEMMA NamesFacts ==
  /\ \A A, B : NamesOf(A \cup B) = NamesOf(A) \cup NamesOf(B)
  /\ \A N : NamesOf(Plainly(N)) = N
  /\ \A N : \A r \in Plainly(N) : r.name \in N /\ ~r.qualified
  /\ \A A : \A r \in A : r.name \in NamesOf(A)
  /\ \A refs, rollups : NamesOf(Unrolled(refs, rollups)) = NamesOf(refs) \cup Bases(rollups)
<1>1. \A A, B : NamesOf(A \cup B) = NamesOf(A) \cup NamesOf(B)
  BY DEF NamesOf
<1>2. ASSUME NEW N  PROVE NamesOf(Plainly(N)) = N
  <2>1. ASSUME NEW n \in N  PROVE n \in NamesOf(Plainly(N))
    <3>1. [name |-> n, qualified |-> FALSE] \in Plainly(N)
      BY DEF Plainly
    <3>2. [name |-> n, qualified |-> FALSE].name = n
      OBVIOUS
    <3>. QED  BY <3>1, <3>2 DEF NamesOf
  <2>2. NamesOf(Plainly(N)) \subseteq N
    BY DEF NamesOf, Plainly
  <2>. QED  BY <2>1, <2>2
<1>3. \A N : \A r \in Plainly(N) : r.name \in N /\ ~r.qualified
  BY DEF Plainly
<1>4. \A A : \A r \in A : r.name \in NamesOf(A)
  BY DEF NamesOf
<1>5. \A refs, rollups : NamesOf(Unrolled(refs, rollups)) = NamesOf(refs) \cup Bases(rollups)
  BY <1>1, <1>2 DEF Unrolled
<1>. QED  BY <1>1, <1>2, <1>3, <1>4, <1>5

\* What is needed of some kinds is the least that has the seeds and, with each
\* object, what this requires.
LEMMA NeededFacts ==
  ASSUME NEW seeds, NEW kinds
  PROVE  LET these == {o \in Object : mdl.kind[o] \in kinds}
         IN  /\ Needed(seeds, kinds) \subseteq these
             /\ seeds \cap these \subseteq Needed(seeds, kinds)
             /\ \A o \in Needed(seeds, kinds) : Requires(o) \cap these \subseteq Needed(seeds, kinds)
             /\ IsFiniteSet(Needed(seeds, kinds))
<1>. DEFINE these == {o \in Object : mdl.kind[o] \in kinds}
            needs == [o \in Object |-> Requires(o) \cap these]
            N == Needed(seeds, kinds)
<1>1. these \subseteq Object /\ IsFiniteSet(Object)
  BY PipelineAssumption
<1>. HIDE DEF these
<1>2. Needing(Object, seeds \cap these, needs)
  BY <1>1 DEF Needing
<1>3. IsClosureOf(Object, seeds \cap these, needs, N)
  <2>1. N = Closure(Object, seeds \cap these, needs)
    BY DEF Needed, these
  <2>. HIDE DEF N, needs
  <2>. QED  BY <1>2, <2>1, ClosureIsLeast
<1>4. N \subseteq these
  <2>1. \A o \in these \cap Object : needs[o] \subseteq these
    OBVIOUS
  <2>. HIDE DEF N, needs
  <2>. QED  BY <1>3, <2>1 DEF IsClosureOf
<1>5. seeds \cap these \subseteq N /\ \A o \in N : needs[o] \subseteq N
  <2>. HIDE DEF N, needs
  <2>. QED  BY <1>3 DEF IsClosureOf
<1>6. \A o \in N : needs[o] = Requires(o) \cap these
  BY <1>1, <1>4
<1>7. IsFiniteSet(N)
  <2>. HIDE DEF N
  <2>. QED  BY <1>1, <1>4, FS_Subset
<1>. HIDE DEF needs, N
<1>8. \A o \in N : Requires(o) \cap these \subseteq N
  BY <1>5, <1>6
<1>. QED  BY <1>4, <1>5, <1>7, <1>8 DEF these, N

\* Other seeds of the same kinds do not matter.
LEMMA SameSeeds ==
  ASSUME NEW seeds, NEW others, NEW kinds,
         seeds \cap {o \in Object : mdl.kind[o] \in kinds} = others \cap {o \in Object : mdl.kind[o] \in kinds}
  PROVE  Needed(seeds, kinds) = Needed(others, kinds)
BY DEF Needed

Plain == OfKind("model") \cup OfKind("metric")
NeededPlain == Needed(TablesWithViews \cup RolledUpBases, {"model", "metric"})

\* Views and the rest of the objects.
LEMMA KindFacts ==
  ASSUME ManifestOK
  PROVE  /\ Object = OfKind("view") \cup Plain /\ OfKind("view") \cap Plain = {}
         /\ {o \in Object : mdl.kind[o] \in {"view"}} = OfKind("view")
         /\ {o \in Object : mdl.kind[o] \in {"model", "metric"}} = Plain
         /\ \A o \in OfKind("view") : Requires(o) = NamesOf(mdl.refs[o])
         /\ \A o \in Plain : Requires(o) = mdl.base[o] /\ Requires(o) \subseteq Plain
         /\ \A rollups \in SUBSET Object : Bases(rollups) \subseteq Plain
         /\ \A o \in Object : mdl.rollups[o] \subseteq Object
<1>1. /\ Object = OfKind("view") \cup Plain /\ OfKind("view") \cap Plain = {}
      /\ {o \in Object : mdl.kind[o] \in {"view"}} = OfKind("view")
      /\ {o \in Object : mdl.kind[o] \in {"model", "metric"}} = Plain
  BY DEF ManifestOK, OfKind, Plain
<1>2. \A o \in Object : mdl.base[o] \subseteq Plain /\ mdl.rollups[o] \subseteq Object
  BY DEF ManifestOK, Plain, OfKind
<1>3. /\ \A o \in OfKind("view") : Requires(o) = NamesOf(mdl.refs[o])
      /\ \A o \in Plain : Requires(o) = mdl.base[o] /\ o \in Object
  BY DEF OfKind, Plain, Requires
<1>4. \A rollups \in SUBSET Object : Bases(rollups) \subseteq Plain
  BY <1>2 DEF Bases
<1>. QED  BY <1>1, <1>2, <1>3, <1>4

\* What a statement needs, in the words of the kinds.
LEMMA NeededSets ==
  ASSUME ManifestOK
  PROVE  /\ NeededViews \subseteq OfKind("view") /\ IsFiniteSet(NeededViews)
         /\ Tables(original) \cap OfKind("view") \subseteq NeededViews
         /\ \A v \in NeededViews : NamesOf(mdl.refs[v]) \cap OfKind("view") \subseteq NeededViews
         /\ NeededPlain \subseteq Plain /\ IsFiniteSet(NeededPlain)
         /\ (TablesWithViews \cup RolledUpBases) \cap Plain \subseteq NeededPlain
         /\ \A o \in NeededPlain : mdl.base[o] \subseteq NeededPlain
         /\ NeededObjects = NeededViews \cup NeededPlain
<1>1. /\ NeededViews \subseteq OfKind("view") /\ IsFiniteSet(NeededViews)
      /\ Tables(original) \cap OfKind("view") \subseteq NeededViews
      /\ \A v \in NeededViews : Requires(v) \cap OfKind("view") \subseteq NeededViews
  BY NeededFacts, KindFacts DEF NeededViews
<1>2. /\ NeededPlain \subseteq Plain /\ IsFiniteSet(NeededPlain)
      /\ (TablesWithViews \cup RolledUpBases) \cap Plain \subseteq NeededPlain
      /\ \A o \in NeededPlain : Requires(o) \cap Plain \subseteq NeededPlain
  BY NeededFacts, KindFacts DEF NeededPlain
<1>3. /\ \A v \in NeededViews : Requires(v) = NamesOf(mdl.refs[v])
      /\ \A o \in NeededPlain : Requires(o) = mdl.base[o] /\ Requires(o) \subseteq Plain
  BY <1>1, <1>2, KindFacts
<1>4. NeededObjects = NeededViews \cup NeededPlain
  BY DEF NeededObjects, NeededPlain
<1>. QED  BY <1>1, <1>2, <1>3, <1>4

\* A plan has each object once, after all that it requires.
LEMMA PlanFacts ==
  ASSUME NEW S, IsFiniteSet(S), NEW p \in Plans(S)
  PROVE  /\ p \in Seq(S) /\ Len(p) = Cardinality(S) /\ Len(p) \in Nat /\ DOMAIN p = 1 .. Len(p)
         /\ {p[i] : i \in 1 .. Len(p)} = S
         /\ \A i \in 1 .. Len(p) : p[i] \in S /\ \A o \in Requires(p[i]) \cap S : \E j \in 1 .. i - 1 : p[j] = o
<1>. DEFINE n == Cardinality(S)
<1>1. n \in Nat
  BY FS_CardinalityType
<1>. HIDE DEF n
<1>2. p \in [1 .. n -> S] /\ \A i, j \in 1 .. n : i # j => p[i] # p[j]
  BY DEF Plans, SetToSeqs, n
<1>3. p \in Seq(S) /\ Len(p) = n /\ DOMAIN p = 1 .. n
  BY <1>1, <1>2
<1>4. {p[i] : i \in 1 .. n} = S
  <2>. DEFINE T == {p[i] : i \in DOMAIN p}
  <2>1. \A j, k \in DOMAIN p : p[j] = p[k] => j = k
    BY <1>2, <1>3
  <2>2. IsFiniteSet(T) /\ Cardinality(T) = n
    BY <1>3, <2>1, DistinctElements
  <2>3. T \subseteq S /\ T = {p[i] : i \in 1 .. n}
    BY <1>2, <1>3
  <2>. HIDE DEF T
  <2>4. T = S
    BY <2>2, <2>3, FS_Subset DEF n
  <2>. QED  BY <2>3, <2>4
<1>5. ASSUME NEW i \in 1 .. n, NEW o \in Requires(p[i]) \cap S  PROVE \E j \in 1 .. i - 1 : p[j] = o
  BY <1>3, <1>5 DEF Plans
<1>. QED  BY <1>1, <1>2, <1>3, <1>4, <1>5 DEF n

-----------------------------------------------------------------------------
(* What a rule makes of a statement.                                       *)

IsQuery(q) == q = [f \in {"name", "refs", "rollups", "badEnum"} |-> q[f]]
IsStatement(s) ==
  /\ s = [f \in {"with", "refs", "subqueries", "rollups", "badEnum"} |-> s[f]]
  /\ IsList(s.with) /\ \A i \in DOMAIN s.with : IsQuery(s.with[i])

LEMMA ListMade ==
  ASSUME NEW n \in Nat, NEW f, f = [i \in 1 .. n |-> f[i]]
  PROVE  IsList(f) /\ Len(f) = n /\ DOMAIN f = 1 .. n
<1>. DEFINE S == {f[i] : i \in DOMAIN f}
<1>1. DOMAIN f = 1 .. n
  OBVIOUS
<1>2. f \in [1 .. n -> S]
  BY <1>1
<1>. HIDE DEF S
<1>3. f \in Seq(S) /\ Len(f) = n
  BY <1>1, <1>2
<1>. QED  BY <1>1, <1>3 DEF IsList, S

LEMMA ListFacts ==
  ASSUME NEW f, IsList(f)
  PROVE  Len(f) \in Nat /\ DOMAIN f = 1 .. Len(f) /\ f = [i \in 1 .. Len(f) |-> f[i]]
BY DEF IsList

Concatenates(f, g, h) ==
  /\ IsList(h) /\ Len(h) = Len(f) + Len(g) /\ DOMAIN h = 1 .. Len(f) + Len(g)
  /\ \A i \in 1 .. Len(f) : h[i] = f[i]
  /\ \A i \in 1 .. Len(g) : h[Len(f) + i] = g[i]

LEMMA ListConcat ==
  ASSUME NEW f, IsList(f), NEW g, IsList(g)
  PROVE  Concatenates(f, g, f \o g)
<1>. DEFINE S == {f[i] : i \in DOMAIN f} \cup {g[i] : i \in DOMAIN g}
            h == f \o g
<1>1. f \in Seq(S) /\ g \in Seq(S)
  BY SeqMonotone, {f[i] : i \in DOMAIN f} \subseteq S, {g[i] : i \in DOMAIN g} \subseteq S DEF IsList
<1>. HIDE DEF S
<1>2. /\ h \in Seq(S) /\ Len(h) = Len(f) + Len(g) /\ Len(f) \in Nat /\ Len(g) \in Nat
      /\ \A i \in 1 .. Len(f) : h[i] = f[i]
      /\ \A i \in 1 .. Len(g) : h[Len(f) + i] = g[i]
  BY <1>1
<1>. HIDE DEF h
<1>3. h = [i \in 1 .. Len(f) + Len(g) |-> h[i]] /\ Len(f) + Len(g) \in Nat
  BY <1>2
<1>4. IsList(h) /\ DOMAIN h = 1 .. Len(f) + Len(g)
  BY <1>3, ListMade
<1>. QED  BY <1>2, <1>4 DEF h, Concatenates

\* The statement as it was written.
LEMMA OriginalFacts ==
  ASSUME original \in Statement
  PROVE  /\ IsStatement(original) /\ Len(original.with) \in Nat
         /\ DOMAIN original.with = 1 .. Len(original.with)
         /\ original.refs \subseteq Ref /\ original.subqueries \subseteq Ref
         /\ original.rollups \subseteq Object
         /\ \A i \in 1 .. Len(original.with) : original.with[i].rollups \subseteq Object
<1>1. original.with \in Seq(WithQuery)
  BY DEF Statement
<1>2. /\ Len(original.with) \in Nat /\ DOMAIN original.with = 1 .. Len(original.with)
      /\ \A i \in 1 .. Len(original.with) : original.with[i] \in WithQuery
  BY <1>1
<1>3. IsList(original.with)
  <2>1. original.with = [i \in 1 .. Len(original.with) |-> original.with[i]]
    BY <1>1
  <2>. QED  BY <1>2, <2>1, ListMade
<1>4. \A i \in 1 .. Len(original.with) : IsQuery(original.with[i]) /\ original.with[i].rollups \subseteq Object
  BY <1>2 DEF WithQuery, IsQuery, OfKind
<1>5. /\ original = [f \in {"with", "refs", "subqueries", "rollups", "badEnum"} |-> original[f]]
      /\ original.refs \subseteq Ref /\ original.subqueries \subseteq Ref /\ original.rollups \subseteq Object
  BY DEF Statement, OfKind
<1>. QED  BY <1>2, <1>3, <1>4, <1>5 DEF IsStatement

IsPrepended(p, s, t) ==
  /\ IsStatement(t) /\ t.refs = s.refs /\ t.subqueries = s.subqueries
  /\ t.rollups = s.rollups /\ t.badEnum = s.badEnum
  /\ Len(p) \in Nat /\ Len(s.with) \in Nat /\ Len(t.with) = Len(p) + Len(s.with)
  /\ DOMAIN s.with = 1 .. Len(s.with) /\ DOMAIN t.with = 1 .. Len(p) + Len(s.with)
  /\ \A i \in 1 .. Len(p) : t.with[i] = Described(p[i])
  /\ \A i \in 1 .. Len(s.with) : t.with[Len(p) + i] = s.with[i]

LEMMA PrependFacts ==
  ASSUME NEW s, IsStatement(s), NEW S, NEW p \in Seq(S)
  PROVE  IsPrepended(p, s, Prepend(p, s))
<1>. DEFINE t == Prepend(p, s)
            m == Len(p)
            n == Len(s.with)
            d == [i \in DOMAIN p |-> Described(p[i])]
<1>1. m \in Nat /\ DOMAIN p = 1 .. m /\ n \in Nat /\ DOMAIN s.with = 1 .. n
  BY ListFacts DEF IsStatement
<1>2. d = [i \in 1 .. m |-> d[i]] /\ \A i \in 1 .. m : d[i] = Described(p[i])
  BY <1>1
<1>. HIDE DEF d
<1>3. IsList(d) /\ Len(d) = m
  BY <1>1, <1>2, ListMade
<1>4. t = [s EXCEPT !.with = d \o s.with]
  BY DEF Prepend, d
<1>. HIDE DEF t
<1>5. /\ t = [f \in {"with", "refs", "subqueries", "rollups", "badEnum"} |-> t[f]]
      /\ t.with = d \o s.with /\ t.refs = s.refs /\ t.subqueries = s.subqueries
      /\ t.rollups = s.rollups /\ t.badEnum = s.badEnum
  BY <1>4 DEF IsStatement
<1>6. /\ IsList(t.with) /\ Len(t.with) = m + n /\ DOMAIN t.with = 1 .. m + n
      /\ \A i \in 1 .. m : t.with[i] = d[i]
      /\ \A i \in 1 .. n : t.with[m + i] = s.with[i]
  <2>. DEFINE c == d \o s.with
  <2>1. IsList(s.with)
    BY DEF IsStatement
  <2>2. Concatenates(d, s.with, c)
    BY <1>3, <2>1, ListConcat
  <2>. HIDE DEF c
  <2>3. t.with = c
    BY <1>5 DEF c
  <2>. QED  BY <1>3, <2>2, <2>3 DEF Concatenates
<1>7. \A o : IsQuery(Described(o))
  BY DEF IsQuery, Described
<1>8. ASSUME NEW i \in DOMAIN t.with  PROVE IsQuery(t.with[i])
  <2>1. CASE i \in 1 .. m
    BY <1>2, <1>6, <1>7, <2>1
  <2>2. CASE i \notin 1 .. m
    <3>1. i - m \in 1 .. n /\ m + (i - m) = i
      BY <1>1, <1>6, <2>2
    <3>. QED  BY <1>1, <1>6, <3>1 DEF IsStatement
  <2>. QED  BY <2>1, <2>2
<1>9. IsStatement(t)
  BY <1>5, <1>6, <1>8 DEF IsStatement
<1>. QED  BY <1>1, <1>2, <1>5, <1>6, <1>9 DEF t, IsPrepended

IsReplaced(s, t) ==
  /\ IsStatement(t) /\ t.refs = Unrolled(s.refs, s.rollups) /\ t.subqueries = s.subqueries
  /\ t.rollups = {} /\ t.badEnum = (s.badEnum \/ BadRollup(s.rollups))
  /\ Len(t.with) = Len(s.with) /\ DOMAIN t.with = DOMAIN s.with
  /\ \A i \in DOMAIN s.with :
       /\ t.with[i].name = s.with[i].name
       /\ t.with[i].refs = Unrolled(s.with[i].refs, s.with[i].rollups)
       /\ t.with[i].rollups = {}
       /\ t.with[i].badEnum = (s.with[i].badEnum \/ BadRollup(s.with[i].rollups))

LEMMA ReplacedFacts ==
  ASSUME NEW s, IsStatement(s)
  PROVE  IsReplaced(s, Replaced(s))
<1>. DEFINE t == Replaced(s)
            n == Len(s.with)
            w == [i \in DOMAIN s.with |-> WithRollups(s.with[i])]
<1>1. n \in Nat /\ DOMAIN s.with = 1 .. n
  BY ListFacts DEF IsStatement
<1>2. w = [i \in 1 .. n |-> w[i]] /\ \A i \in 1 .. n : w[i] = WithRollups(s.with[i])
  BY <1>1
<1>. HIDE DEF w
<1>3. IsList(w) /\ Len(w) = n /\ DOMAIN w = 1 .. n
  BY <1>1, <1>2, ListMade
<1>4. ASSUME NEW q, IsQuery(q)
      PROVE  LET x == WithRollups(q)
             IN  /\ IsQuery(x) /\ x.name = q.name /\ x.refs = Unrolled(q.refs, q.rollups) /\ x.rollups = {}
                 /\ x.badEnum = (q.badEnum \/ BadRollup(q.rollups))
  BY <1>4 DEF WithRollups, IsQuery
<1>5. \A i \in 1 .. n : IsQuery(s.with[i])
  BY <1>1 DEF IsStatement
<1>6. /\ t = [f \in {"with", "refs", "subqueries", "rollups", "badEnum"} |-> t[f]]
      /\ t.with = w /\ t.refs = Unrolled(s.refs, s.rollups) /\ t.subqueries = s.subqueries
      /\ t.rollups = {} /\ t.badEnum = (s.badEnum \/ BadRollup(s.rollups))
  <2>. DEFINE u == WithRollups(s)
  <2>1. /\ u = [f \in {"with", "refs", "subqueries", "rollups", "badEnum"} |-> u[f]]
        /\ u.with = s.with /\ u.refs = Unrolled(s.refs, s.rollups) /\ u.subqueries = s.subqueries
        /\ u.rollups = {} /\ u.badEnum = (s.badEnum \/ BadRollup(s.rollups))
    BY DEF WithRollups, IsStatement
  <2>2. t = [u EXCEPT !.with = [i \in DOMAIN u.with |-> WithRollups(u.with[i])]]
    BY DEF Replaced
  <2>. HIDE DEF u
  <2>3. t = [u EXCEPT !.with = w]
    BY <2>1, <2>2 DEF w
  <2>. HIDE DEF t
  <2>. QED  BY <2>1, <2>3
<1>. HIDE DEF t
<1>7. \A i \in 1 .. n : /\ IsQuery(w[i]) /\ w[i].name = s.with[i].name
                        /\ w[i].refs = Unrolled(s.with[i].refs, s.with[i].rollups)
                        /\ w[i].rollups = {}
                        /\ w[i].badEnum = (s.with[i].badEnum \/ BadRollup(s.with[i].rollups))
  <2>. SUFFICES ASSUME NEW i \in 1 .. n
                PROVE  LET x == WithRollups(s.with[i])
                       IN  /\ IsQuery(x) /\ x.name = s.with[i].name
                           /\ x.refs = Unrolled(s.with[i].refs, s.with[i].rollups) /\ x.rollups = {}
                           /\ x.badEnum = (s.with[i].badEnum \/ BadRollup(s.with[i].rollups))
    BY <1>2
  <2>. QED  BY <1>4, <1>5
<1>8. IsStatement(t)
  BY <1>3, <1>6, <1>7 DEF IsStatement
<1>. QED  BY <1>1, <1>3, <1>6, <1>7, <1>8 DEF t, IsReplaced

\* The names stay, and those that are taken for objects lose their catalog.
LEMMA BareFacts ==
  ASSUME NEW refs, NEW names
  PROVE  /\ NamesOf(Bare(refs, names)) = NamesOf(refs)
         /\ \A r \in Bare(refs, names) :
              r.name \in NamesOf(refs) /\ (r.qualified => r \in refs /\ r.name \notin names)
         /\ \A r \in refs : r.name \notin names => r \in Bare(refs, names)
<1>. DEFINE kept == {r \in refs : r.name \notin names}
            bare == NamesOf(refs) \cap names
<1>1. Bare(refs, names) = kept \cup Plainly(bare)
  BY DEF Bare
<1>2. NamesOf(Bare(refs, names)) = NamesOf(kept) \cup bare
  BY <1>1, NamesFacts
<1>3. NamesOf(kept) \cup bare = NamesOf(refs)
  BY DEF NamesOf
<1>4. ASSUME NEW r \in Bare(refs, names)
      PROVE  r.name \in NamesOf(refs) /\ (r.qualified => r \in refs /\ r.name \notin names)
  <2>1. CASE r \in kept
    BY <2>1, NamesFacts
  <2>2. CASE r \in Plainly(bare)
    <3>1. r.name \in bare /\ ~r.qualified
      BY <2>2, NamesFacts
    <3>. QED  BY <3>1
  <2>. QED  BY <1>1, <2>1, <2>2
<1>5. \A r \in refs : r.name \notin names => r \in Bare(refs, names)
  BY <1>1
<1>. QED  BY <1>2, <1>3, <1>4, <1>5

IsStripped(names, s, t) ==
  /\ IsStatement(t) /\ t.subqueries = Bare(s.subqueries, names)
  /\ t.refs = Bare(s.refs, names \ WithNames(s))
  /\ t.rollups = s.rollups /\ t.badEnum = s.badEnum
  /\ Len(t.with) = Len(s.with) /\ DOMAIN t.with = DOMAIN s.with
  /\ \A i \in DOMAIN s.with :
       /\ t.with[i].name = s.with[i].name
       /\ t.with[i].refs = Bare(s.with[i].refs, names)
       /\ t.with[i].rollups = s.with[i].rollups
       /\ t.with[i].badEnum = s.with[i].badEnum

LEMMA StrippedFacts ==
  ASSUME NEW names, NEW s, IsStatement(s)
  PROVE  IsStripped(names, s, Stripped(names, s))
<1>. DEFINE t == Stripped(names, s)
            n == Len(s.with)
            w == [i \in DOMAIN s.with |-> StrippedQuery(names, s.with[i])]
            refs == Bare(s.refs, names \ WithNames(s))
            subs == Bare(s.subqueries, names)
<1>1. n \in Nat /\ DOMAIN s.with = 1 .. n
  BY ListFacts DEF IsStatement
<1>2. w = [i \in 1 .. n |-> w[i]]
      /\ \A i \in 1 .. n : w[i] = StrippedQuery(names, s.with[i])
  BY <1>1
<1>3. t = [s EXCEPT !.refs = refs, !.subqueries = subs, !.with = w]
  BY DEF Stripped, IsStatement
<1>. HIDE DEF w, t, refs, subs
<1>4. IsList(w) /\ Len(w) = n /\ DOMAIN w = 1 .. n
  BY <1>1, <1>2, ListMade
<1>5. ASSUME NEW q, IsQuery(q)
      PROVE  LET y == StrippedQuery(names, q)
             IN  /\ IsQuery(y) /\ y.name = q.name /\ y.refs = Bare(q.refs, names)
                 /\ y.rollups = q.rollups /\ y.badEnum = q.badEnum
  BY <1>5 DEF StrippedQuery, IsQuery
<1>6. \A i \in 1 .. n : IsQuery(s.with[i])
  BY <1>1 DEF IsStatement
<1>7. /\ t = [f \in {"with", "refs", "subqueries", "rollups", "badEnum"} |-> t[f]]
      /\ t.with = w /\ t.refs = refs /\ t.subqueries = subs
      /\ t.rollups = s.rollups /\ t.badEnum = s.badEnum
  BY <1>3 DEF IsStatement
<1>8. \A i \in 1 .. n : /\ IsQuery(w[i]) /\ w[i].name = s.with[i].name
                        /\ w[i].refs = Bare(s.with[i].refs, names)
                        /\ w[i].rollups = s.with[i].rollups /\ w[i].badEnum = s.with[i].badEnum
  <2>. SUFFICES ASSUME NEW i \in 1 .. n
                PROVE  LET y == StrippedQuery(names, s.with[i])
                       IN  /\ IsQuery(y) /\ y.name = s.with[i].name /\ y.refs = Bare(s.with[i].refs, names)
                           /\ y.rollups = s.with[i].rollups /\ y.badEnum = s.with[i].badEnum
    BY <1>2
  <2>. QED  BY <1>5, <1>6
<1>9. IsStatement(t)
  BY <1>4, <1>7, <1>8 DEF IsStatement
<1>. QED  BY <1>1, <1>4, <1>7, <1>8, <1>9 DEF t, refs, subs, IsStripped

-----------------------------------------------------------------------------
(* The statement after each rule.                                          *)

Viewed(p) == Prepend(p, original)
After(p) == Replaced(Viewed(p))
Bared == ToStrip(NeededPlain)
Finished(q, p) == Prepend(q, Stripped(Bared, After(p)))

LEMMA Members ==
  ASSUME NEW s
  PROVE  /\ \A x : x \in NamesOf(WithRefs(s)) <=> \E i \in DOMAIN s.with : x \in NamesOf(s.with[i].refs)
         /\ \A x : x \in WithNames(s) <=> \E i \in DOMAIN s.with : s.with[i].name = x
         /\ \A x : x \in Rollups(s) <=> x \in s.rollups \/ \E i \in DOMAIN s.with : x \in s.with[i].rollups
         /\ \A x : x \in Tables(s) <=>
              /\ x \in Object
              /\ \/ x \in NamesOf(WithRefs(s)) \/ x \in NamesOf(s.subqueries)
                 \/ x \in NamesOf(s.refs) /\ x \notin WithNames(s)
<1>1. ASSUME NEW x
      PROVE  x \in NamesOf(WithRefs(s)) <=> \E i \in DOMAIN s.with : x \in NamesOf(s.with[i].refs)
  <2>1. ASSUME x \in NamesOf(WithRefs(s))  PROVE \E i \in DOMAIN s.with : x \in NamesOf(s.with[i].refs)
    <3>1. PICK r \in WithRefs(s) : x = r.name
      BY <2>1 DEF NamesOf
    <3>2. PICK i \in DOMAIN s.with : r \in s.with[i].refs
      BY DEF WithRefs
    <3>. QED  BY <3>1, <3>2 DEF NamesOf
  <2>2. ASSUME NEW i \in DOMAIN s.with, x \in NamesOf(s.with[i].refs)  PROVE x \in NamesOf(WithRefs(s))
    <3>1. PICK r \in s.with[i].refs : x = r.name
      BY <2>2 DEF NamesOf
    <3>2. r \in WithRefs(s)
      BY <3>1 DEF WithRefs
    <3>. QED  BY <3>1, <3>2 DEF NamesOf
  <2>. QED  BY <2>1, <2>2
<1>2. \A x : x \in WithNames(s) <=> \E i \in DOMAIN s.with : s.with[i].name = x
  BY DEF WithNames
<1>3. \A x : x \in Rollups(s) <=> x \in s.rollups \/ \E i \in DOMAIN s.with : x \in s.with[i].rollups
  BY DEF Rollups
<1>4. \A x : x \in Tables(s) <=>
        /\ x \in Object
        /\ \/ x \in NamesOf(WithRefs(s)) \/ x \in NamesOf(s.subqueries)
           \/ x \in NamesOf(s.refs) /\ x \notin WithNames(s)
  BY DEF Tables
<1>. QED  BY <1>1, <1>2, <1>3, <1>4

\* Before the views the statement's own WITH queries, after them the views.
LEMMA ViewedFacts ==
  ASSUME ManifestOK, original \in Statement, NEW p \in Plans(NeededViews)
  PROVE  LET s == Viewed(p)
             m == Len(p)
             n == Len(original.with)
         IN  /\ IsStatement(s) /\ s.refs = original.refs /\ s.subqueries = original.subqueries
             /\ s.rollups = original.rollups /\ s.badEnum = original.badEnum
             /\ m \in Nat /\ n \in Nat /\ m = Cardinality(NeededViews)
             /\ DOMAIN original.with = 1 .. n /\ DOMAIN s.with = 1 .. m + n /\ Len(s.with) = m + n
             /\ {p[i] : i \in 1 .. m} = NeededViews
             /\ \A i \in 1 .. m :
                  /\ p[i] \in NeededViews /\ s.with[i].name = p[i] /\ s.with[i].rollups = {}
                  /\ s.with[i].refs = Unrolled(mdl.refs[p[i]], mdl.rollups[p[i]])
                  /\ s.with[i].badEnum = (p[i] \in mdl.badEnum \/ BadRollup(mdl.rollups[p[i]]))
                  /\ \A v \in NamesOf(mdl.refs[p[i]]) \cap OfKind("view") : \E j \in 1 .. i - 1 : p[j] = v
             /\ \A i \in 1 .. n : s.with[m + i] = original.with[i]
<1>. DEFINE s == Viewed(p)
            m == Len(p)
            n == Len(original.with)
<1>1. /\ p \in Seq(NeededViews) /\ m = Cardinality(NeededViews)
      /\ {p[i] : i \in 1 .. m} = NeededViews
      /\ \A i \in 1 .. m : /\ p[i] \in NeededViews
                           /\ \A o \in Requires(p[i]) \cap NeededViews : \E j \in 1 .. i - 1 : p[j] = o
  BY PlanFacts, NeededSets
<1>2. IsStatement(original)
  BY OriginalFacts
<1>3. /\ IsStatement(s) /\ s.refs = original.refs /\ s.subqueries = original.subqueries
      /\ s.rollups = original.rollups /\ s.badEnum = original.badEnum
      /\ m \in Nat /\ n \in Nat /\ Len(s.with) = m + n
      /\ DOMAIN original.with = 1 .. n /\ DOMAIN s.with = 1 .. m + n
      /\ \A i \in 1 .. m : s.with[i] = Described(p[i])
      /\ \A i \in 1 .. n : s.with[m + i] = original.with[i]
  <2>1. IsPrepended(p, original, s)
    BY <1>1, <1>2, PrependFacts DEF Viewed
  <2>. HIDE DEF s
  <2>. QED  BY <2>1 DEF IsPrepended
<1>4. \A v \in NeededViews : /\ mdl.kind[v] = "view" /\ Requires(v) = NamesOf(mdl.refs[v])
                             /\ NamesOf(mdl.refs[v]) \cap OfKind("view") \subseteq NeededViews
  BY NeededSets, KindFacts DEF OfKind
<1>. HIDE DEF s
<1>5. ASSUME NEW i \in 1 .. m
      PROVE  /\ s.with[i].name = p[i] /\ s.with[i].rollups = {}
             /\ s.with[i].refs = Unrolled(mdl.refs[p[i]], mdl.rollups[p[i]])
             /\ s.with[i].badEnum = (p[i] \in mdl.badEnum \/ BadRollup(mdl.rollups[p[i]]))
  <2>1. s.with[i] = Described(p[i]) /\ mdl.kind[p[i]] = "view"
    BY <1>1, <1>3, <1>4
  <2>. QED  BY <2>1 DEF Described
<1>6. ASSUME NEW i \in 1 .. m, NEW v \in NamesOf(mdl.refs[p[i]]) \cap OfKind("view")
      PROVE  \E j \in 1 .. i - 1 : p[j] = v
  <2>1. v \in Requires(p[i]) \cap NeededViews
    BY <1>1, <1>4
  <2>. QED  BY <1>1, <2>1
<1>. QED  BY <1>1, <1>3, <1>5, <1>6 DEF s

\* The second and third rules see what the statement and its views roll up and
\* name.
LEMMA ViewedTables ==
  ASSUME ManifestOK, original \in Statement, NEW p \in Plans(NeededViews)
  PROVE  /\ Rollups(Viewed(p)) = Rollups(original) /\ Rollups(original) \subseteq Object
         /\ Tables(Viewed(p)) \subseteq TablesWithViews
         /\ ViewTables \cap Object \subseteq Tables(Viewed(p))
<1>. DEFINE s == Viewed(p)
            m == Len(p)
            n == Len(original.with)
<1>1. /\ s.refs = original.refs /\ s.subqueries = original.subqueries /\ s.rollups = original.rollups
      /\ m \in Nat /\ n \in Nat /\ DOMAIN original.with = 1 .. n /\ DOMAIN s.with = 1 .. m + n
      /\ {p[i] : i \in 1 .. m} = NeededViews
      /\ \A i \in 1 .. m : /\ p[i] \in NeededViews /\ s.with[i].name = p[i] /\ s.with[i].rollups = {}
                           /\ s.with[i].refs = Unrolled(mdl.refs[p[i]], mdl.rollups[p[i]])
      /\ \A i \in 1 .. n : s.with[m + i] = original.with[i]
  BY ViewedFacts
<1>. HIDE DEF s, m, n
<1>2. \A k \in 1 .. m + n : k \in 1 .. m \/ \E i \in 1 .. n : k = m + i
  <2>. SUFFICES ASSUME NEW k \in 1 .. m + n, k \notin 1 .. m  PROVE \E i \in 1 .. n : k = m + i
    OBVIOUS
  <2>1. k - m \in 1 .. n /\ k = m + (k - m)
    BY <1>1
  <2>. QED  BY <2>1
<1>3. \A i \in 1 .. n : m + i \in 1 .. m + n
  BY <1>1
<1>4. Rollups(s) = Rollups(original)
  <2>1. ASSUME NEW x \in Rollups(s)  PROVE x \in Rollups(original)
    <3>1. CASE x \in s.rollups
      BY <1>1, <3>1, Members
    <3>2. CASE \E k \in DOMAIN s.with : x \in s.with[k].rollups
      <4>1. PICK k \in 1 .. m + n : x \in s.with[k].rollups
        BY <1>1, <3>2
      <4>2. PICK i \in 1 .. n : k = m + i
        BY <1>1, <1>2, <4>1
      <4>3. i \in DOMAIN original.with /\ x \in original.with[i].rollups
        BY <1>1, <4>1, <4>2
      <4>. QED  BY <4>3, Members
    <3>. QED  BY <3>1, <3>2, Members
  <2>2. \A i \in 1 .. n : m + i \in DOMAIN s.with /\ s.with[m + i].rollups = original.with[i].rollups
    BY <1>1, <1>3
  <2>3. ASSUME NEW x \in Rollups(original)  PROVE x \in Rollups(s)
    <3>1. CASE x \in original.rollups
      BY <1>1, <3>1, Members
    <3>2. CASE \E i \in DOMAIN original.with : x \in original.with[i].rollups
      BY <1>1, <2>2, <3>2, Members
    <3>. QED  BY <3>1, <3>2, Members
  <2>. QED  BY <2>1, <2>3
<1>5. Rollups(original) \subseteq Object
  BY <1>1, OriginalFacts, Members
<1>6. \A x : x \in ViewTables <=> \E v \in NeededViews : x \in NamesOf(Unrolled(mdl.refs[v], mdl.rollups[v]))
  BY DEF ViewTables
<1>7. \A x : x \in NamesOf(WithRefs(s)) <=> x \in ViewTables \/ x \in NamesOf(WithRefs(original))
  <2>1. ASSUME NEW x, NEW v \in NeededViews, x \in NamesOf(Unrolled(mdl.refs[v], mdl.rollups[v]))
        PROVE  x \in NamesOf(WithRefs(s))
    <3>1. PICK i \in 1 .. m : p[i] = v
      BY <1>1
    <3>2. i \in DOMAIN s.with /\ x \in NamesOf(s.with[i].refs)
      BY <1>1, <2>1, <3>1
    <3>. QED  BY <3>2, Members
  <2>2. ASSUME NEW x, NEW k \in DOMAIN s.with, x \in NamesOf(s.with[k].refs)
        PROVE  x \in ViewTables \/ x \in NamesOf(WithRefs(original))
    <3>1. CASE k \in 1 .. m
      BY <1>1, <1>6, <2>2, <3>1
    <3>2. CASE k \notin 1 .. m
      <4>1. PICK i \in 1 .. n : k = m + i
        BY <1>1, <1>2, <3>2
      <4>2. i \in DOMAIN original.with /\ x \in NamesOf(original.with[i].refs)
        BY <1>1, <2>2, <4>1
      <4>. QED  BY <4>2, Members
    <3>. QED  BY <3>1, <3>2
  <2>3. ASSUME NEW x, NEW i \in DOMAIN original.with, x \in NamesOf(original.with[i].refs)
        PROVE  x \in NamesOf(WithRefs(s))
    <3>1. m + i \in DOMAIN s.with /\ x \in NamesOf(s.with[m + i].refs)
      BY <1>1, <1>3, <2>3
    <3>. QED  BY <3>1, Members
  <2>. QED  BY <1>6, <2>1, <2>2, <2>3, Members
<1>8. \A x : x \in WithNames(original) => x \in WithNames(s)
  BY <1>1, <1>3, Members
<1>9. \A x : x \in Tables(s) => x \in TablesWithViews
  BY <1>1, <1>7, <1>8, Members DEF TablesWithViews
<1>10. \A x \in Object : x \in ViewTables => x \in Tables(s)
  BY <1>7, Members
<1>. QED  BY <1>4, <1>5, <1>9, <1>10 DEF s

\* After the second rule every roll_up is a query of its metric's base.
IsAfter(p, t) ==
  LET m == Len(p)
      n == Len(original.with)
  IN  /\ IsStatement(t) /\ m \in Nat /\ n \in Nat /\ Len(t.with) = m + n
      /\ DOMAIN t.with = 1 .. m + n /\ DOMAIN original.with = 1 .. n
      /\ t.refs = Unrolled(original.refs, original.rollups) /\ t.subqueries = original.subqueries
      /\ t.rollups = {} /\ t.badEnum = (original.badEnum \/ BadRollup(original.rollups))
      /\ \A i \in 1 .. m :
           /\ t.with[i].name = p[i] /\ t.with[i].rollups = {}
           /\ t.with[i].refs = Unrolled(mdl.refs[p[i]], mdl.rollups[p[i]])
           /\ t.with[i].badEnum = (p[i] \in mdl.badEnum \/ BadRollup(mdl.rollups[p[i]]))
      /\ \A i \in 1 .. n :
           /\ t.with[m + i].name = original.with[i].name /\ t.with[m + i].rollups = {}
           /\ t.with[m + i].refs = Unrolled(original.with[i].refs, original.with[i].rollups)
           /\ t.with[m + i].badEnum = (original.with[i].badEnum \/ BadRollup(original.with[i].rollups))

LEMMA AfterFacts ==
  ASSUME ManifestOK, original \in Statement, NEW p \in Plans(NeededViews)
  PROVE  IsAfter(p, After(p))
<1>. DEFINE s == Viewed(p)
            t == After(p)
            m == Len(p)
            n == Len(original.with)
<1>1. /\ IsStatement(s) /\ s.refs = original.refs /\ s.subqueries = original.subqueries
      /\ s.rollups = original.rollups /\ s.badEnum = original.badEnum
      /\ m \in Nat /\ n \in Nat
      /\ DOMAIN original.with = 1 .. n /\ DOMAIN s.with = 1 .. m + n /\ Len(s.with) = m + n
      /\ \A i \in 1 .. m :
           /\ s.with[i].name = p[i] /\ s.with[i].rollups = {}
           /\ s.with[i].refs = Unrolled(mdl.refs[p[i]], mdl.rollups[p[i]])
           /\ s.with[i].badEnum = (p[i] \in mdl.badEnum \/ BadRollup(mdl.rollups[p[i]]))
      /\ \A i \in 1 .. n : s.with[m + i] = original.with[i]
  BY ViewedFacts
<1>2. IsReplaced(s, t)
  BY <1>1, ReplacedFacts DEF After
<1>. HIDE DEF s, t, m, n
<1>3. \A refs : Unrolled(refs, {}) = refs
  BY DEF Unrolled, Plainly, Bases
<1>4. ~BadRollup({})
  BY DEF BadRollup
<1>5. /\ IsStatement(t) /\ Len(t.with) = m + n /\ DOMAIN t.with = 1 .. m + n
      /\ t.refs = Unrolled(original.refs, original.rollups) /\ t.subqueries = original.subqueries
      /\ t.rollups = {} /\ t.badEnum = (original.badEnum \/ BadRollup(original.rollups))
      /\ \A k \in 1 .. m + n :
           /\ t.with[k].name = s.with[k].name
           /\ t.with[k].refs = Unrolled(s.with[k].refs, s.with[k].rollups)
           /\ t.with[k].rollups = {}
           /\ t.with[k].badEnum = (s.with[k].badEnum \/ BadRollup(s.with[k].rollups))
  BY <1>1, <1>2 DEF IsReplaced
<1>6. \A i \in 1 .. m : i \in 1 .. m + n
  BY <1>1
<1>7. \A i \in 1 .. n : m + i \in 1 .. m + n
  BY <1>1
<1>8. ASSUME NEW i \in 1 .. m
      PROVE  /\ t.with[i].name = p[i] /\ t.with[i].rollups = {}
             /\ t.with[i].refs = Unrolled(mdl.refs[p[i]], mdl.rollups[p[i]])
             /\ t.with[i].badEnum = (p[i] \in mdl.badEnum \/ BadRollup(mdl.rollups[p[i]]))
  <2>1. /\ t.with[i].name = s.with[i].name /\ t.with[i].rollups = {}
        /\ t.with[i].refs = Unrolled(s.with[i].refs, s.with[i].rollups)
        /\ t.with[i].badEnum = (s.with[i].badEnum \/ BadRollup(s.with[i].rollups))
    BY <1>5, <1>6
  <2>2. s.with[i].rollups = {}
    BY <1>1
  <2>3. t.with[i].refs = s.with[i].refs /\ t.with[i].badEnum = s.with[i].badEnum
    <3>1. t.with[i].refs = Unrolled(s.with[i].refs, {})
      BY <2>1, <2>2
    <3>2. ~BadRollup(s.with[i].rollups)
      BY <1>4, <2>2
    <3>3. s.with[i].badEnum \in BOOLEAN
      BY <1>1
    <3>. QED  BY <1>3, <2>1, <3>1, <3>2, <3>3
  <2>. QED  BY <1>1, <2>1, <2>3
<1>9. ASSUME NEW i \in 1 .. n
      PROVE  /\ t.with[m + i].name = original.with[i].name /\ t.with[m + i].rollups = {}
             /\ t.with[m + i].refs = Unrolled(original.with[i].refs, original.with[i].rollups)
             /\ t.with[m + i].badEnum = (original.with[i].badEnum \/ BadRollup(original.with[i].rollups))
  <2>1. m + i \in 1 .. m + n /\ s.with[m + i] = original.with[i]
    BY <1>1, <1>7
  <2>2. /\ t.with[m + i].name = s.with[m + i].name /\ t.with[m + i].rollups = {}
        /\ t.with[m + i].refs = Unrolled(s.with[m + i].refs, s.with[m + i].rollups)
        /\ t.with[m + i].badEnum = (s.with[m + i].badEnum \/ BadRollup(s.with[m + i].rollups))
    BY <1>5, <2>1
  <2>. QED  BY <2>1, <2>2
<1>. QED  BY <1>1, <1>5, <1>8, <1>9 DEF IsAfter, t, m, n

\* No roll_up is left, and the models and metrics that the third rule sees are
\* those of the statement, its views and its roll_ups.
LEMMA AfterTables ==
  ASSUME ManifestOK, original \in Statement, NEW p \in Plans(NeededViews)
  PROVE  /\ Needed(Tables(After(p)), {"model", "metric"}) = NeededPlain
         /\ \A x : x \in WithNames(After(p)) <=> x \in NeededViews \/ x \in WithNames(original)
<1>. DEFINE t == After(p)
            m == Len(p)
            n == Len(original.with)
<1>1. /\ m \in Nat /\ n \in Nat /\ DOMAIN t.with = 1 .. m + n /\ DOMAIN original.with = 1 .. n
      /\ t.refs = Unrolled(original.refs, original.rollups) /\ t.subqueries = original.subqueries
      /\ \A i \in 1 .. m : /\ t.with[i].name = p[i]
                           /\ t.with[i].refs = Unrolled(mdl.refs[p[i]], mdl.rollups[p[i]])
      /\ \A i \in 1 .. n :
           /\ t.with[m + i].name = original.with[i].name
           /\ t.with[m + i].refs = Unrolled(original.with[i].refs, original.with[i].rollups)
  <2>1. IsAfter(p, t)
    BY AfterFacts
  <2>. HIDE DEF t
  <2>. QED  BY <2>1 DEF IsAfter
<1>2. {p[i] : i \in 1 .. m} = NeededViews
  BY ViewedFacts
<1>. HIDE DEF t, m, n
<1>3. \A k \in 1 .. m + n : k \in 1 .. m \/ \E i \in 1 .. n : k = m + i
  <2>. SUFFICES ASSUME NEW k \in 1 .. m + n, k \notin 1 .. m  PROVE \E i \in 1 .. n : k = m + i
    OBVIOUS
  <2>1. k - m \in 1 .. n /\ k = m + (k - m)
    BY <1>1
  <2>. QED  BY <2>1
<1>4. (\A i \in 1 .. n : m + i \in 1 .. m + n) /\ (\A i \in 1 .. m : i \in 1 .. m + n)
  BY <1>1
<1>5. ASSUME NEW x  PROVE x \in WithNames(t) <=> x \in NeededViews \/ x \in WithNames(original)
  <2>1. ASSUME NEW k \in 1 .. m + n, t.with[k].name = x  PROVE x \in NeededViews \/ x \in WithNames(original)
    <3>1. CASE k \in 1 .. m
      BY <1>1, <1>2, <2>1, <3>1
    <3>2. CASE k \notin 1 .. m
      <4>1. PICK i \in 1 .. n : k = m + i
        BY <1>3, <3>2
      <4>2. i \in DOMAIN original.with /\ original.with[i].name = x
        BY <1>1, <2>1, <4>1
      <4>. QED  BY <4>2, Members
    <3>. QED  BY <3>1, <3>2
  <2>2. ASSUME NEW i \in 1 .. m, p[i] = x  PROVE x \in WithNames(t)
    <3>1. i \in DOMAIN t.with /\ t.with[i].name = x
      BY <1>1, <1>4, <2>2
    <3>. QED  BY <3>1, Members
  <2>3. ASSUME NEW i \in 1 .. n, original.with[i].name = x  PROVE x \in WithNames(t)
    <3>1. m + i \in DOMAIN t.with /\ t.with[m + i].name = x
      BY <1>1, <1>4, <2>3
    <3>. QED  BY <3>1, Members
  <2>4. ASSUME x \in NeededViews  PROVE x \in WithNames(t)
    BY <1>2, <2>2, <2>4
  <2>5. ASSUME x \in WithNames(original)  PROVE x \in WithNames(t)
    <3>1. PICK i \in DOMAIN original.with : original.with[i].name = x
      BY <2>5, Members
    <3>. QED  BY <1>1, <2>3, <3>1
  <2>6. ASSUME x \in WithNames(t)  PROVE x \in NeededViews \/ x \in WithNames(original)
    <3>1. PICK k \in DOMAIN t.with : t.with[k].name = x
      BY <2>6, Members
    <3>. QED  BY <1>1, <2>1, <3>1
  <2>. QED  BY <2>4, <2>5, <2>6
<1>6. \A x : x \in ViewTables <=> \E v \in NeededViews : x \in NamesOf(Unrolled(mdl.refs[v], mdl.rollups[v]))
  BY DEF ViewTables
<1>. DEFINE withBases == UNION {Bases(original.with[i].rollups) : i \in DOMAIN original.with}
<1>7. \A x : x \in withBases <=> \E i \in 1 .. n : x \in Bases(original.with[i].rollups)
  BY <1>1
<1>. HIDE DEF withBases
<1>8. \A refs, rollups, x : x \in NamesOf(Unrolled(refs, rollups)) <=> x \in NamesOf(refs) \/ x \in Bases(rollups)
  BY NamesFacts
<1>9. ASSUME NEW x
      PROVE  x \in NamesOf(WithRefs(t)) <=> x \in ViewTables \/ x \in NamesOf(WithRefs(original)) \/ x \in withBases
  <2>1. ASSUME NEW k \in 1 .. m + n, x \in NamesOf(t.with[k].refs)
        PROVE  x \in ViewTables \/ x \in NamesOf(WithRefs(original)) \/ x \in withBases
    <3>1. CASE k \in 1 .. m
      <4>1. p[k] \in NeededViews /\ t.with[k].refs = Unrolled(mdl.refs[p[k]], mdl.rollups[p[k]])
        BY <1>1, <1>2, <3>1
      <4>2. x \in NamesOf(Unrolled(mdl.refs[p[k]], mdl.rollups[p[k]]))
        BY <2>1, <4>1
      <4>. QED  BY <1>6, <4>1, <4>2
    <3>2. CASE k \notin 1 .. m
      <4>1. PICK i \in 1 .. n : k = m + i
        BY <1>3, <3>2
      <4>2. i \in DOMAIN original.with /\ (x \in NamesOf(original.with[i].refs) \/ x \in Bases(original.with[i].rollups))
        BY <1>1, <1>8, <2>1, <4>1
      <4>3. CASE x \in NamesOf(original.with[i].refs)
        BY <4>2, <4>3, Members
      <4>4. CASE x \in Bases(original.with[i].rollups)
        BY <1>7, <4>4
      <4>. QED  BY <4>2, <4>3, <4>4
    <3>. QED  BY <3>1, <3>2
  <2>2. ASSUME NEW i \in 1 .. m, x \in NamesOf(Unrolled(mdl.refs[p[i]], mdl.rollups[p[i]]))
        PROVE  x \in NamesOf(WithRefs(t))
    <3>1. i \in DOMAIN t.with /\ x \in NamesOf(t.with[i].refs)
      BY <1>1, <1>4, <2>2
    <3>. QED  BY <3>1, Members
  <2>3. ASSUME NEW i \in 1 .. n, x \in NamesOf(original.with[i].refs) \/ x \in Bases(original.with[i].rollups)
        PROVE  x \in NamesOf(WithRefs(t))
    <3>1. m + i \in DOMAIN t.with /\ x \in NamesOf(t.with[m + i].refs)
      BY <1>1, <1>4, <1>8, <2>3
    <3>. QED  BY <3>1, Members
  <2>4. ASSUME x \in ViewTables  PROVE x \in NamesOf(WithRefs(t))
    <3>1. PICK v \in NeededViews : x \in NamesOf(Unrolled(mdl.refs[v], mdl.rollups[v]))
      BY <1>6, <2>4
    <3>2. PICK i \in 1 .. m : p[i] = v
      BY <1>2
    <3>. QED  BY <2>2, <3>1, <3>2
  <2>5. ASSUME x \in NamesOf(WithRefs(original))  PROVE x \in NamesOf(WithRefs(t))
    <3>1. PICK i \in DOMAIN original.with : x \in NamesOf(original.with[i].refs)
      BY <2>5, Members
    <3>. QED  BY <1>1, <2>3, <3>1
  <2>6. ASSUME x \in withBases  PROVE x \in NamesOf(WithRefs(t))
    BY <1>7, <2>3, <2>6
  <2>. QED  BY <1>1, <2>1, <2>4, <2>5, <2>6, Members
<1>10. \A x \in Plain : x \in Object /\ x \notin NeededViews
  BY NeededSets, KindFacts
<1>11. \A x \in Plain : x \in Tables(t) <=> x \in TablesWithViews \cup RolledUpBases
  <2>. SUFFICES ASSUME NEW x \in Plain  PROVE x \in Tables(t) <=> x \in TablesWithViews \cup RolledUpBases
    OBVIOUS
  <2>1. x \in Object /\ (x \in WithNames(t) <=> x \in WithNames(original))
    BY <1>5, <1>10
  <2>2. x \in Tables(t) <=>
          \/ x \in ViewTables \/ x \in NamesOf(WithRefs(original)) \/ x \in withBases
          \/ x \in NamesOf(original.subqueries)
          \/ (x \in NamesOf(original.refs) \/ x \in Bases(original.rollups)) /\ x \notin WithNames(original)
    BY <1>1, <1>8, <1>9, <2>1, Members
  <2>3. x \in Tables(original) <=>
          \/ x \in NamesOf(WithRefs(original)) \/ x \in NamesOf(original.subqueries)
          \/ x \in NamesOf(original.refs) /\ x \notin WithNames(original)
    BY <2>1, Members
  <2>4. x \in TablesWithViews <=> x \in Tables(original) \/ x \in ViewTables
    BY DEF TablesWithViews
  <2>5. x \in RolledUpBases <=> (x \in Bases(original.rollups) /\ x \notin WithNames(original)) \/ x \in withBases
    BY DEF RolledUpBases, withBases
  <2>. QED  BY <2>2, <2>3, <2>4, <2>5
<1>12. Tables(t) \cap Plain = (TablesWithViews \cup RolledUpBases) \cap Plain
  BY <1>11
<1>13. Needed(Tables(t), {"model", "metric"}) = NeededPlain
  BY <1>12, SameSeeds, KindFacts DEF NeededPlain
<1>. QED  BY <1>5, <1>13 DEF t

\* The models and metrics come first, then the views, then the statement's own.
IsFinished(q, p, f) ==
  LET k == Len(q)
      m == Len(p)
      n == Len(original.with)
  IN  /\ k \in Nat /\ m \in Nat /\ n \in Nat
      /\ Len(f.with) = k + (m + n) /\ DOMAIN f.with = 1 .. k + (m + n)
      /\ DOMAIN original.with = 1 .. n
      /\ {q[i] : i \in 1 .. k} = NeededPlain /\ k = Cardinality(NeededPlain)
      /\ {p[i] : i \in 1 .. m} = NeededViews /\ m = Cardinality(NeededViews)
      /\ f.refs = Bare(Unrolled(original.refs, original.rollups), Bared \ (NeededViews \cup WithNames(original)))
      /\ f.subqueries = Bare(original.subqueries, Bared)
      /\ f.rollups = {} /\ f.badEnum = (original.badEnum \/ BadRollup(original.rollups))
      /\ \A i \in 1 .. k :
           /\ f.with[i].name = q[i] /\ f.with[i].rollups = {}
           /\ f.with[i].refs = Plainly(mdl.base[q[i]])
           /\ \A o \in mdl.base[q[i]] : \E j \in 1 .. i - 1 : q[j] = o
           /\ f.with[i].badEnum = (q[i] \in mdl.badEnum)
      /\ \A i \in 1 .. m :
           /\ f.with[k + i].name = p[i] /\ f.with[k + i].rollups = {}
           /\ f.with[k + i].refs = Bare(Unrolled(mdl.refs[p[i]], mdl.rollups[p[i]]), Bared)
           /\ \A v \in NamesOf(mdl.refs[p[i]]) \cap OfKind("view") : \E j \in 1 .. i - 1 : p[j] = v
           /\ f.with[k + i].badEnum = (p[i] \in mdl.badEnum \/ BadRollup(mdl.rollups[p[i]]))
      /\ \A i \in 1 .. n :
           /\ f.with[k + (m + i)].name = original.with[i].name /\ f.with[k + (m + i)].rollups = {}
           /\ f.with[k + (m + i)].refs = Bare(Unrolled(original.with[i].refs, original.with[i].rollups), Bared)
           /\ f.with[k + (m + i)].badEnum = (original.with[i].badEnum \/ BadRollup(original.with[i].rollups))

LEMMA FinishedFacts ==
  ASSUME ManifestOK, original \in Statement, NEW p \in Plans(NeededViews), NEW q \in Plans(NeededPlain)
  PROVE  IsFinished(q, p, Finished(q, p))
<1>. DEFINE t == After(p)
            u == Stripped(Bared, t)
            f == Finished(q, p)
            k == Len(q)
            m == Len(p)
            n == Len(original.with)
            written == Unrolled(original.refs, original.rollups)
<1>1. IsAfter(p, t)
  BY AfterFacts
<1>2. IsStripped(Bared, t, u)
  BY <1>1, StrippedFacts DEF IsAfter
<1>3. /\ q \in Seq(NeededPlain) /\ k \in Nat /\ k = Cardinality(NeededPlain) /\ {q[i] : i \in 1 .. k} = NeededPlain
      /\ \A i \in 1 .. k : /\ q[i] \in NeededPlain
                           /\ \A o \in Requires(q[i]) \cap NeededPlain : \E j \in 1 .. i - 1 : q[j] = o
  <2>1. IsFiniteSet(NeededPlain)
    BY NeededSets
  <2>. HIDE DEF t, u, f
  <2>. QED  BY <2>1, PlanFacts
<1>4. IsPrepended(q, u, f)
  <2>1. IsStatement(u)
    BY <1>2 DEF IsStripped
  <2>. HIDE DEF u
  <2>. QED  BY <1>3, <2>1, PrependFacts DEF Finished, u
<1>5. /\ {p[i] : i \in 1 .. m} = NeededViews /\ m = Cardinality(NeededViews)
      /\ \A i \in 1 .. m : /\ p[i] \in NeededViews
                           /\ \A v \in NamesOf(mdl.refs[p[i]]) \cap OfKind("view") : \E j \in 1 .. i - 1 : p[j] = v
  BY ViewedFacts
<1>6. WithNames(t) = NeededViews \cup WithNames(original)
  <2>1. \A x : x \in WithNames(t) <=> x \in NeededViews \/ x \in WithNames(original)
    BY AfterTables
  <2>. QED  BY <2>1
<1>. HIDE DEF t, u, f, k, m, n, written
<1>7. /\ m \in Nat /\ n \in Nat /\ Len(t.with) = m + n
      /\ DOMAIN t.with = 1 .. m + n /\ DOMAIN original.with = 1 .. n
      /\ t.refs = written /\ t.subqueries = original.subqueries
      /\ t.rollups = {} /\ t.badEnum = (original.badEnum \/ BadRollup(original.rollups))
      /\ \A i \in 1 .. m :
           /\ t.with[i].name = p[i] /\ t.with[i].rollups = {}
           /\ t.with[i].refs = Unrolled(mdl.refs[p[i]], mdl.rollups[p[i]])
           /\ t.with[i].badEnum = (p[i] \in mdl.badEnum \/ BadRollup(mdl.rollups[p[i]]))
      /\ \A i \in 1 .. n :
           /\ t.with[m + i].name = original.with[i].name /\ t.with[m + i].rollups = {}
           /\ t.with[m + i].refs = Unrolled(original.with[i].refs, original.with[i].rollups)
           /\ t.with[m + i].badEnum = (original.with[i].badEnum \/ BadRollup(original.with[i].rollups))
  BY <1>1 DEF IsAfter, m, n, written
<1>8. /\ Len(u.with) = m + n /\ u.subqueries = Bare(original.subqueries, Bared)
      /\ u.refs = Bare(written, Bared \ (NeededViews \cup WithNames(original)))
      /\ u.rollups = {} /\ u.badEnum = t.badEnum
      /\ \A i \in 1 .. m + n :
           /\ u.with[i].name = t.with[i].name /\ u.with[i].refs = Bare(t.with[i].refs, Bared)
           /\ u.with[i].rollups = t.with[i].rollups /\ u.with[i].badEnum = t.with[i].badEnum
  BY <1>2, <1>6, <1>7 DEF IsStripped
<1>9. /\ f.refs = u.refs /\ f.subqueries = u.subqueries /\ f.rollups = u.rollups /\ f.badEnum = u.badEnum
      /\ Len(f.with) = k + (m + n) /\ DOMAIN f.with = 1 .. k + (m + n)
      /\ \A i \in 1 .. k : f.with[i] = Described(q[i])
      /\ \A i \in 1 .. m + n : f.with[k + i] = u.with[i]
  BY <1>4, <1>8 DEF IsPrepended, k
<1>11. ASSUME NEW i \in 1 .. k
       PROVE  /\ f.with[i].name = q[i] /\ f.with[i].rollups = {}
              /\ f.with[i].refs = Plainly(mdl.base[q[i]])
              /\ \A o \in mdl.base[q[i]] : \E j \in 1 .. i - 1 : q[j] = o
              /\ f.with[i].badEnum = (q[i] \in mdl.badEnum)
  <2>1. q[i] \in NeededPlain /\ q[i] \in Plain
    BY <1>3, NeededSets
  <2>2. mdl.kind[q[i]] # "view" /\ mdl.rollups[q[i]] = {} /\ Requires(q[i]) = mdl.base[q[i]]
    BY <2>1, KindFacts DEF ManifestOK, Plain, OfKind
  <2>3. mdl.base[q[i]] \subseteq NeededPlain
    BY <2>1, NeededSets
  <2>4. ~BadRollup(mdl.rollups[q[i]])
    BY <2>2 DEF BadRollup
  <2>5. f.with[i] = Described(q[i])
    BY <1>9
  <2>6. /\ f.with[i].name = q[i] /\ f.with[i].rollups = {} /\ f.with[i].refs = Plainly(mdl.base[q[i]])
        /\ f.with[i].badEnum = (q[i] \in mdl.badEnum)
    BY <2>2, <2>4, <2>5 DEF Described
  <2>7. \A o \in mdl.base[q[i]] : \E j \in 1 .. i - 1 : q[j] = o
    BY <1>3, <2>2, <2>3
  <2>. QED  BY <2>6, <2>7
<1>12. ASSUME NEW i \in 1 .. m
       PROVE  /\ f.with[k + i].name = p[i] /\ f.with[k + i].rollups = {}
              /\ f.with[k + i].refs = Bare(Unrolled(mdl.refs[p[i]], mdl.rollups[p[i]]), Bared)
              /\ f.with[k + i].badEnum = (p[i] \in mdl.badEnum \/ BadRollup(mdl.rollups[p[i]]))
  <2>1. i \in 1 .. m + n
    BY <1>7
  <2>2. f.with[k + i] = u.with[i]
    BY <1>9, <2>1
  <2>3. /\ u.with[i].name = t.with[i].name /\ u.with[i].refs = Bare(t.with[i].refs, Bared)
        /\ u.with[i].rollups = t.with[i].rollups /\ u.with[i].badEnum = t.with[i].badEnum
    BY <1>8, <2>1
  <2>4. /\ t.with[i].name = p[i] /\ t.with[i].rollups = {}
        /\ t.with[i].refs = Unrolled(mdl.refs[p[i]], mdl.rollups[p[i]])
        /\ t.with[i].badEnum = (p[i] \in mdl.badEnum \/ BadRollup(mdl.rollups[p[i]]))
    BY <1>7
  <2>. QED  BY <2>2, <2>3, <2>4
<1>13. ASSUME NEW i \in 1 .. n
       PROVE  /\ f.with[k + (m + i)].name = original.with[i].name /\ f.with[k + (m + i)].rollups = {}
              /\ f.with[k + (m + i)].refs = Bare(Unrolled(original.with[i].refs, original.with[i].rollups), Bared)
              /\ f.with[k + (m + i)].badEnum = (original.with[i].badEnum \/ BadRollup(original.with[i].rollups))
  <2>1. m + i \in 1 .. m + n
    BY <1>7
  <2>2. f.with[k + (m + i)] = u.with[m + i]
    BY <1>9, <2>1
  <2>3. /\ u.with[m + i].name = t.with[m + i].name /\ u.with[m + i].refs = Bare(t.with[m + i].refs, Bared)
        /\ u.with[m + i].rollups = t.with[m + i].rollups /\ u.with[m + i].badEnum = t.with[m + i].badEnum
    BY <1>8, <2>1
  <2>4. /\ t.with[m + i].name = original.with[i].name /\ t.with[m + i].rollups = {}
        /\ t.with[m + i].refs = Unrolled(original.with[i].refs, original.with[i].rollups)
        /\ t.with[m + i].badEnum = (original.with[i].badEnum \/ BadRollup(original.with[i].rollups))
    BY <1>7
  <2>. QED  BY <2>2, <2>3, <2>4
<1>14. /\ f.refs = Bare(written, Bared \ (NeededViews \cup WithNames(original)))
       /\ f.subqueries = Bare(original.subqueries, Bared)
       /\ f.rollups = {} /\ f.badEnum = (original.badEnum \/ BadRollup(original.rollups))
  BY <1>7, <1>8, <1>9
<1>. QED  BY <1>3, <1>5, <1>7, <1>9, <1>11, <1>12, <1>13, <1>14 DEF IsFinished, f, k, m, n, written

-----------------------------------------------------------------------------
(* The invariant: which rule is next says how far the statement has come,  *)
(* and what was found on the way.                                          *)

ViewedForms == {Viewed(p) : p \in Plans(NeededViews)}
AfterForms == {After(p) : p \in Plans(NeededViews)}
FinishedForms == {Finished(q, p) : q \in Plans(NeededPlain), p \in Plans(NeededViews)}

NoViewBroken == \A v \in NeededViews : ~ViewBroken(v)
ViewsFine == ~DuplicateMetrics(original) /\ ~Circular(NeededViews) /\ NoViewBroken

PipelineInv ==
  /\ ManifestOK /\ original \in Statement
  /\ rule = "view" => stmt = original
  /\ rule = "rollup" => stmt \in ViewedForms /\ ViewsFine
  /\ rule = "wren" => stmt \in AfterForms /\ ~Conflict /\ ~Circular(NeededViews)
  /\ rule \in {"enum", "done"} => stmt \in FinishedForms /\ ~Conflict /\ ~Circular(NeededObjects)
  /\ rule = "done" => ~NoValue
  /\ rule = "refused" => Conflict \/ Circular(NeededObjects) \/ NoValue

\* The rules change neither the manifest nor what was asked.
LEMMA PipelineFixed ==
  ASSUME UNCHANGED <<mdl, original>>
  PROVE  /\ (ManifestOK <=> ManifestOK') /\ Statement' = Statement
         /\ ViewedForms' = ViewedForms /\ AfterForms' = AfterForms /\ FinishedForms' = FinishedForms
         /\ ViewsFine' = ViewsFine /\ Conflict' = Conflict /\ NoValue' = NoValue
         /\ Circular(NeededViews)' = Circular(NeededViews)
         /\ Circular(NeededObjects)' = Circular(NeededObjects)
<1>1. (ManifestOK <=> ManifestOK') /\ Statement' = Statement
  BY DEF ManifestOK, OfKind, Statement, WithQuery
<1>2. Tables(original)' = Tables(original) /\ Rollups(original)' = Rollups(original)
      /\ WithNames(original)' = WithNames(original)
  BY DEF Tables, Rollups, WithNames, WithRefs
<1>3. NeededViews' = NeededViews
  BY <1>2 DEF NeededViews, Needed, Requires
<1>4. ViewTables' = ViewTables /\ TablesWithViews' = TablesWithViews /\ RolledUpBases' = RolledUpBases
  BY <1>2, <1>3 DEF ViewTables, TablesWithViews, RolledUpBases, Bases, Unrolled
<1>5. NeededPlain' = NeededPlain /\ NeededObjects' = NeededObjects
  BY <1>3, <1>4 DEF NeededPlain, NeededObjects, Needed, Requires
<1>6. /\ Circular(NeededViews)' = Circular(NeededViews)
      /\ Circular(NeededObjects)' = Circular(NeededObjects)
  BY <1>3, <1>5 DEF Circular, Requires
<1>7. Plans(NeededViews)' = Plans(NeededViews) /\ Plans(NeededPlain)' = Plans(NeededPlain)
  BY <1>3, <1>5 DEF Plans, Requires
<1>8. \A o : Described(o)' = Described(o)
  BY DEF Described, Unrolled, Bases, BadRollup
<1>9. \A p : Viewed(p)' = Viewed(p)
  BY <1>8 DEF Viewed, Prepend
<1>10. ASSUME NEW p  PROVE After(p)' = After(p)
  <2>1. ASSUME NEW refs, NEW rollups
        PROVE  Unrolled(refs, rollups)' = Unrolled(refs, rollups) /\ BadRollup(rollups)' = BadRollup(rollups)
    BY DEF Unrolled, Bases, BadRollup
  <2>2. ASSUME NEW s  PROVE WithRollups(s)' = WithRollups(s)
    BY <2>1 DEF WithRollups
  <2>3. ASSUME NEW s  PROVE Replaced(s)' = Replaced(s)
    BY <2>2 DEF Replaced
  <2>. QED  BY <1>9, <2>3 DEF After
<1>11. ASSUME NEW q, NEW p  PROVE Finished(q, p)' = Finished(q, p)
  <2>1. Stripped(Bared, After(p))' = Stripped(Bared, After(p))
    <3>1. ASSUME NEW names, NEW s  PROVE Stripped(names, s)' = Stripped(names, s)
      BY DEF Stripped, StrippedQuery, Bare, WithNames
    <3>2. Bared' = Bared
      BY <1>5 DEF Bared, ToStrip
    <3>. QED  BY <1>10, <3>1, <3>2
  <2>. QED  BY <1>8, <2>1 DEF Finished, Prepend
<1>12. ViewedForms' = ViewedForms /\ AfterForms' = AfterForms /\ FinishedForms' = FinishedForms
  BY <1>7, <1>9, <1>10, <1>11 DEF ViewedForms, AfterForms, FinishedForms
<1>13. ViewsFine' = ViewsFine
  BY <1>2, <1>3, <1>6 DEF ViewsFine, DuplicateMetrics, NoViewBroken, ViewBroken
<1>14. Conflict' = Conflict
  BY <1>2, <1>3, <1>4 DEF Conflict, ViewBroken
<1>15. NoValue' = NoValue
  BY <1>2, <1>3, <1>5 DEF NoValue, BadEnum
<1>. QED  BY <1>1, <1>6, <1>12, <1>13, <1>14, <1>15

-----------------------------------------------------------------------------
(* What the rules look for, found in the original statement.               *)

\* A larger set has the circles of a smaller one; and no circle goes through a
\* view and a model or metric, as these name no view.
LEMMA CircleFacts ==
  ASSUME ManifestOK
  PROVE  /\ Circular(NeededViews) => Circular(NeededObjects)
         /\ Circular(NeededPlain) => Circular(NeededObjects)
         /\ Circular(NeededObjects) => Circular(NeededViews) \/ Circular(NeededPlain)
<1>1. NeededObjects = NeededViews \cup NeededPlain /\ NeededViews \subseteq OfKind("view") /\ NeededPlain \subseteq Plain
  BY NeededSets
<1>2. \A o \in Plain : Requires(o) \subseteq Plain
  BY KindFacts
<1>3. ASSUME NEW S \in SUBSET NeededObjects, Circular(S)  PROVE Circular(NeededObjects)
  BY <1>3 DEF Circular
<1>4. ASSUME Circular(NeededObjects)  PROVE Circular(NeededViews) \/ Circular(NeededPlain)
  <2>1. PICK T \in SUBSET NeededObjects : T # {} /\ \A o \in T : Requires(o) \cap T # {}
    BY <1>4 DEF Circular
  <2>2. CASE T \cap Plain = {}
    <3>1. T \subseteq NeededViews
      BY <1>1, <2>2
    <3>. QED  BY <2>1, <3>1 DEF Circular
  <2>3. CASE T \cap Plain # {}
    <3>1. T \cap Plain \in SUBSET NeededPlain
      BY <1>1, KindFacts
    <3>2. \A o \in T \cap Plain : Requires(o) \cap (T \cap Plain) # {}
      BY <1>2, <2>1
    <3>. QED  BY <2>3, <3>1, <3>2 DEF Circular
  <2>. QED  BY <2>2, <2>3
<1>. QED  BY <1>1, <1>3, <1>4

\* The first rule looks at the statement as it was written, the second at it with
\* its views.
LEMMA ConflictFacts ==
  ASSUME ManifestOK, original \in Statement, NEW p \in Plans(NeededViews)
  PROVE  /\ DuplicateMetrics(original) \/ ~NoViewBroken \/ DuplicateMetrics(Viewed(p)) => Conflict
         /\ ViewsFine /\ ~DuplicateMetrics(Viewed(p)) => ~Conflict
<1>1. /\ Rollups(Viewed(p)) = Rollups(original) /\ Rollups(original) \subseteq Object
      /\ Tables(Viewed(p)) \subseteq TablesWithViews
      /\ ViewTables \cap Object \subseteq Tables(Viewed(p))
  BY ViewedTables
<1>2. TablesWithViews = Tables(original) \cup ViewTables
  BY DEF TablesWithViews
<1>3. DuplicateMetrics(original) \/ DuplicateMetrics(Viewed(p)) => Conflict
  BY <1>1, <1>2 DEF DuplicateMetrics, Conflict
<1>4. ~NoViewBroken => Conflict
  BY DEF NoViewBroken, Conflict
<1>5. ASSUME ViewsFine, ~DuplicateMetrics(Viewed(p))  PROVE ~Conflict
  <2>1. Tables(original) \cap Rollups(original) = {} /\ \A v \in NeededViews : ~ViewBroken(v)
    BY <1>5 DEF ViewsFine, DuplicateMetrics, NoViewBroken
  <2>2. ViewTables \cap Rollups(original) = {}
    BY <1>1, <1>5 DEF DuplicateMetrics
  <2>. QED  BY <1>2, <2>1, <2>2 DEF Conflict
<1>. QED  BY <1>3, <1>4, <1>5

\* The places in a list of three parts.
LEMMA ThreeParts ==
  ASSUME NEW k \in Nat, NEW m \in Nat, NEW n \in Nat
  PROVE  /\ \A i \in 1 .. k + (m + n) :
              i \in 1 .. k \/ (\E j \in 1 .. m : i = k + j) \/ (\E j \in 1 .. n : i = k + (m + j))
         /\ \A i \in 1 .. k + m : i \in 1 .. k \/ \E j \in 1 .. m : i = k + j
         /\ \A i \in 1 .. k : i \in 1 .. k + (m + n) /\ i \in 1 .. k + m
         /\ \A i \in 1 .. m : k + i \in 1 .. k + (m + n) /\ k + i \in 1 .. k + m
         /\ \A i \in 1 .. n : k + (m + i) \in 1 .. k + (m + n) /\ (k + m) + i = k + (m + i)
<1>1. ASSUME NEW i \in 1 .. k + (m + n), i \notin 1 .. k, ~\E j \in 1 .. m : i = k + j
      PROVE  \E j \in 1 .. n : i = k + (m + j)
  <2>1. i - k \in Int /\ i = k + (i - k) /\ i - k > 0 /\ i - k \notin 1 .. m
    BY <1>1
  <2>2. (i - k) - m \in 1 .. n /\ i = k + (m + ((i - k) - m))
    BY <1>1, <2>1
  <2>. QED  BY <2>2
<1>2. ASSUME NEW i \in 1 .. k + m, i \notin 1 .. k  PROVE \E j \in 1 .. m : i = k + j
  <2>1. i - k \in 1 .. m /\ i = k + (i - k)
    BY <1>2
  <2>. QED  BY <2>1
<1>3. \A i \in 1 .. k : i \in 1 .. k + (m + n) /\ i \in 1 .. k + m
  OBVIOUS
<1>4. \A i \in 1 .. m : k + i \in 1 .. k + (m + n) /\ k + i \in 1 .. k + m
  OBVIOUS
<1>5. \A i \in 1 .. n : k + (m + i) \in 1 .. k + (m + n) /\ (k + m) + i = k + (m + i)
  OBVIOUS
<1>. QED  BY <1>1, <1>2, <1>3, <1>4, <1>5

LEMMA EnumFacts ==
  ASSUME ManifestOK, original \in Statement, NEW p \in Plans(NeededViews), NEW q \in Plans(NeededPlain)
  PROVE  BadEnum(Finished(q, p)) <=> NoValue
<1>. DEFINE f == Finished(q, p)
            k == Len(q)
            m == Len(p)
            n == Len(original.with)
            bad == mdl.badEnum
            rolledUp == Rollups(original) \cup UNION {mdl.rollups[v] : v \in NeededViews}
<1>1. /\ k \in Nat /\ m \in Nat /\ n \in Nat /\ DOMAIN f.with = 1 .. k + (m + n) /\ DOMAIN original.with = 1 .. n
      /\ {q[i] : i \in 1 .. k} = NeededPlain /\ {p[i] : i \in 1 .. m} = NeededViews
      /\ f.badEnum = (original.badEnum \/ BadRollup(original.rollups))
      /\ \A i \in 1 .. k : f.with[i].badEnum = (q[i] \in bad)
      /\ \A i \in 1 .. m : f.with[k + i].badEnum = (p[i] \in bad \/ BadRollup(mdl.rollups[p[i]]))
      /\ \A i \in 1 .. n :
           f.with[k + (m + i)].badEnum = (original.with[i].badEnum \/ BadRollup(original.with[i].rollups))
  <2>1. IsFinished(q, p, f)
    BY FinishedFacts
  <2>. HIDE DEF f
  <2>. QED  BY <2>1 DEF IsFinished
<1>. HIDE DEF f, k, m, n
<1>2. k \in Nat /\ m \in Nat /\ n \in Nat /\ DOMAIN f.with = 1 .. k + (m + n)
  BY <1>1
<1>3. /\ \A i \in 1 .. k + (m + n) :
            i \in 1 .. k \/ (\E j \in 1 .. m : i = k + j) \/ (\E j \in 1 .. n : i = k + (m + j))
      /\ \A i \in 1 .. k : i \in DOMAIN f.with
      /\ \A i \in 1 .. m : k + i \in DOMAIN f.with
      /\ \A i \in 1 .. n : k + (m + i) \in DOMAIN f.with
  BY <1>2, ThreeParts
<1>. DEFINE Asked == \/ original.badEnum \/ BadRollup(original.rollups)
                     \/ \E o \in NeededPlain : o \in bad
                     \/ \E v \in NeededViews : v \in bad \/ BadRollup(mdl.rollups[v])
                     \/ \E i \in 1 .. n : original.with[i].badEnum \/ BadRollup(original.with[i].rollups)
<1>4. BadEnum(f) => Asked
  <2>1. f.badEnum => Asked
    BY <1>1
  <2>2. ASSUME NEW i \in 1 .. k + (m + n), f.with[i].badEnum  PROVE Asked
    <3>1. CASE i \in 1 .. k
      <4>1. q[i] \in NeededPlain /\ q[i] \in bad
        BY <1>1, <2>2, <3>1
      <4>. QED  BY <4>1
    <3>2. ASSUME NEW j \in 1 .. m, i = k + j  PROVE Asked
      <4>1. p[j] \in NeededViews /\ (p[j] \in bad \/ BadRollup(mdl.rollups[p[j]]))
        BY <1>1, <2>2, <3>2
      <4>. QED  BY <4>1
    <3>3. ASSUME NEW j \in 1 .. n, i = k + (m + j)  PROVE Asked
      BY <1>1, <2>2, <3>3
    <3>. QED  BY <1>3, <3>1, <3>2, <3>3
  <2>. HIDE DEF Asked
  <2>. QED  BY <1>1, <2>1, <2>2 DEF BadEnum
<1>5. Asked => BadEnum(f)
  <2>0. {q[i] : i \in 1 .. k} = NeededPlain /\ {p[i] : i \in 1 .. m} = NeededViews
    BY <1>1
  <2>1. ASSUME original.badEnum \/ BadRollup(original.rollups)  PROVE BadEnum(f)
    BY <1>1, <2>1 DEF BadEnum
  <2>2. ASSUME NEW o \in NeededPlain, o \in bad  PROVE BadEnum(f)
    <3>1. PICK i \in 1 .. k : q[i] = o
      BY <2>0
    <3>2. i \in DOMAIN f.with /\ f.with[i].badEnum
      BY <1>1, <1>3, <2>2, <3>1
    <3>. QED  BY <3>2 DEF BadEnum
  <2>3. ASSUME NEW v \in NeededViews, v \in bad \/ BadRollup(mdl.rollups[v])  PROVE BadEnum(f)
    <3>1. PICK i \in 1 .. m : p[i] = v
      BY <2>0
    <3>2. k + i \in DOMAIN f.with /\ f.with[k + i].badEnum
      BY <1>1, <1>3, <2>3, <3>1
    <3>. QED  BY <3>2 DEF BadEnum
  <2>4. ASSUME NEW i \in 1 .. n, original.with[i].badEnum \/ BadRollup(original.with[i].rollups)  PROVE BadEnum(f)
    <3>1. k + (m + i) \in DOMAIN f.with /\ f.with[k + (m + i)].badEnum
      BY <1>1, <1>3, <2>4
    <3>. QED  BY <3>1 DEF BadEnum
  <2>. QED  BY <2>1, <2>2, <2>3, <2>4
<1>6. \A rollups : BadRollup(rollups) <=> \E o \in bad : o \in rollups
  BY DEF BadRollup
<1>. HIDE DEF bad
<1>7. Asked <=> NoValue
  <2>1. BadEnum(original) <=> original.badEnum \/ \E i \in 1 .. n : original.with[i].badEnum
    BY <1>1 DEF BadEnum
  <2>2. \A o : o \in rolledUp <=> \/ o \in original.rollups
                                  \/ \E i \in 1 .. n : o \in original.with[i].rollups
                                  \/ \E v \in NeededViews : o \in mdl.rollups[v]
    <3>1. \A o : o \in Rollups(original) <=> o \in original.rollups \/ \E i \in 1 .. n : o \in original.with[i].rollups
      BY <1>1, Members
    <3>. QED  BY <3>1
  <2>. HIDE DEF rolledUp
  <2>3. NoValue <=> BadEnum(original) \/ \E o \in bad : o \in NeededViews \/ o \in NeededPlain \/ o \in rolledUp
    <3>1. NoValue <=> BadEnum(original) \/ (NeededObjects \cup rolledUp) \cap bad # {}
      BY DEF NoValue, rolledUp, bad
    <3>. QED  BY <3>1, NeededSets
  <2>4. ASSUME Asked  PROVE NoValue
    <3>1. CASE original.badEnum \/ \E i \in 1 .. n : original.with[i].badEnum
      BY <2>1, <2>3, <3>1
    <3>2. CASE (\E o \in NeededPlain : o \in bad) \/ \E v \in NeededViews : v \in bad
      BY <2>3, <3>2
    <3>3. CASE \/ BadRollup(original.rollups) \/ (\E v \in NeededViews : BadRollup(mdl.rollups[v]))
               \/ \E i \in 1 .. n : BadRollup(original.with[i].rollups)
      <4>1. \E o \in bad : o \in rolledUp
        BY <1>6, <2>2, <3>3
      <4>. QED  BY <2>3, <4>1
    <3>. QED  BY <2>4, <3>1, <3>2, <3>3
  <2>5. ASSUME NoValue  PROVE Asked
    <3>1. CASE BadEnum(original)
      BY <2>1, <3>1
    <3>2. CASE \E o \in bad : o \in NeededViews \/ o \in NeededPlain
      BY <3>2
    <3>3. CASE \E o \in bad : o \in rolledUp
      BY <1>6, <2>2, <3>3
    <3>. QED  BY <2>3, <2>5, <3>1, <3>2, <3>3
  <2>. QED  BY <2>4, <2>5
<1>. HIDE DEF Asked
<1>. QED  BY <1>4, <1>5, <1>7 DEF f

-----------------------------------------------------------------------------
(* What the rules leave behind.                                            *)

LEMMA FinishedWithList ==
  ASSUME ManifestOK, original \in Statement, NEW p \in Plans(NeededViews), NEW q \in Plans(NeededPlain),
         stmt = Finished(q, p)
  PROVE  WithListExact
<1>. DEFINE f == Finished(q, p)
            k == Len(q)
            m == Len(p)
            n == Len(original.with)
            names == [i \in DOMAIN stmt.with |-> stmt.with[i].name]
            added == {names[i] : i \in 1 .. k + m}
<1>1. /\ k \in Nat /\ m \in Nat /\ n \in Nat
      /\ Len(f.with) = k + (m + n) /\ DOMAIN f.with = 1 .. k + (m + n) /\ DOMAIN original.with = 1 .. n
      /\ {q[i] : i \in 1 .. k} = NeededPlain /\ k = Cardinality(NeededPlain)
      /\ {p[i] : i \in 1 .. m} = NeededViews /\ m = Cardinality(NeededViews)
      /\ f.rollups = {}
      /\ \A i \in 1 .. k : f.with[i].name = q[i] /\ f.with[i].rollups = {}
      /\ \A i \in 1 .. m : f.with[k + i].name = p[i] /\ f.with[k + i].rollups = {}
      /\ \A i \in 1 .. n :
           f.with[k + (m + i)].name = original.with[i].name /\ f.with[k + (m + i)].rollups = {}
  <2>1. IsFinished(q, p, f)
    BY FinishedFacts
  <2>. HIDE DEF f
  <2>. QED  BY <2>1 DEF IsFinished
<1>2. stmt = f
  OBVIOUS
<1>. HIDE DEF f, k, m, n
<1>3. k \in Nat /\ m \in Nat /\ n \in Nat /\ DOMAIN f.with = 1 .. k + (m + n)
  BY <1>1
<1>4. /\ \A i \in 1 .. k + (m + n) :
            i \in 1 .. k \/ (\E j \in 1 .. m : i = k + j) \/ (\E j \in 1 .. n : i = k + (m + j))
      /\ \A i \in 1 .. k + m : i \in 1 .. k \/ \E j \in 1 .. m : i = k + j
      /\ \A i \in 1 .. k : i \in 1 .. k + (m + n) /\ i \in 1 .. k + m
      /\ \A i \in 1 .. m : k + i \in 1 .. k + (m + n) /\ k + i \in 1 .. k + m
      /\ \A i \in 1 .. n : k + (m + i) \in 1 .. k + (m + n) /\ (k + m) + i = k + (m + i)
  BY <1>3, ThreeParts
<1>5. /\ \A i \in 1 .. k : names[i] = q[i]
      /\ \A i \in 1 .. m : names[k + i] = p[i]
      /\ \A i \in 1 .. n : names[(k + m) + i] = original.with[i].name
  <2>1. \A i \in 1 .. k + (m + n) : names[i] = f.with[i].name
    BY <1>2, <1>3
  <2>. HIDE DEF names
  <2>2. ASSUME NEW i \in 1 .. k  PROVE names[i] = q[i]
    BY <1>1, <1>4, <2>1
  <2>3. ASSUME NEW i \in 1 .. m  PROVE names[k + i] = p[i]
    BY <1>1, <1>4, <2>1
  <2>4. ASSUME NEW i \in 1 .. n  PROVE names[(k + m) + i] = original.with[i].name
    <3>1. (k + m) + i = k + (m + i) /\ k + (m + i) \in 1 .. k + (m + n)
      BY <1>4
    <3>2. names[k + (m + i)] = f.with[k + (m + i)].name
      BY <2>1, <3>1
    <3>. QED  BY <1>1, <3>1, <3>2
  <2>. QED  BY <2>2, <2>3, <2>4
<1>. HIDE DEF names
<1>6. added = NeededObjects
  <2>0. /\ {q[i] : i \in 1 .. k} = NeededPlain /\ {p[i] : i \in 1 .. m} = NeededViews
    BY <1>1
  <2>1. ASSUME NEW i \in 1 .. k + m  PROVE names[i] \in NeededPlain \cup NeededViews
    <3>1. CASE i \in 1 .. k
      BY <1>5, <2>0, <3>1
    <3>2. ASSUME NEW j \in 1 .. m, i = k + j  PROVE names[i] \in NeededViews
      <4>1. names[k + j] = p[j] /\ p[j] \in NeededViews
        BY <1>5, <2>0
      <4>. QED  BY <3>2, <4>1
    <3>. QED  BY <1>4, <3>1, <3>2
  <2>2. ASSUME NEW o \in NeededPlain  PROVE o \in added
    <3>1. PICK i \in 1 .. k : q[i] = o
      BY <2>0
    <3>. QED  BY <1>4, <1>5, <3>1
  <2>3. ASSUME NEW o \in NeededViews  PROVE o \in added
    <3>1. PICK i \in 1 .. m : p[i] = o
      BY <2>0
    <3>. QED  BY <1>4, <1>5, <3>1
  <2>. QED  BY <2>1, <2>2, <2>3, NeededSets
<1>7. k + m = Cardinality(NeededObjects)
  <2>1. NeededViews \cap NeededPlain = {} /\ IsFiniteSet(NeededViews) /\ IsFiniteSet(NeededPlain)
    BY NeededSets, KindFacts
  <2>2. /\ Cardinality(NeededViews \cup NeededPlain)
             = Cardinality(NeededViews) + Cardinality(NeededPlain) - Cardinality(NeededViews \cap NeededPlain)
        /\ Cardinality({}) = 0
    BY <2>1, FS_Union, FS_EmptySet
  <2>3. /\ NeededViews \cup NeededPlain = NeededObjects /\ m \in Nat /\ k \in Nat
        /\ m = Cardinality(NeededViews) /\ k = Cardinality(NeededPlain)
    BY <1>1, NeededSets
  <2>4. Cardinality(NeededViews \cap NeededPlain) = 0
    BY <2>1, <2>2
  <2>5. Cardinality(NeededObjects) = m + k - 0
    BY <2>2, <2>3, <2>4
  <2>. QED  BY <2>3, <2>5
<1>8. Rollups(stmt) = {}
  <2>1. ASSUME NEW i \in 1 .. k + (m + n)  PROVE f.with[i].rollups = {}
    <3>1. CASE i \in 1 .. k
      BY <1>1, <3>1
    <3>2. ASSUME NEW j \in 1 .. m, i = k + j  PROVE f.with[i].rollups = {}
      BY <1>1, <3>2
    <3>3. ASSUME NEW j \in 1 .. n, i = k + (m + j)  PROVE f.with[i].rollups = {}
      BY <1>1, <3>3
    <3>. QED  BY <1>4, <3>1, <3>2, <3>3
  <2>2. f.rollups = {}
    BY <1>1
  <2>. QED  BY <1>2, <1>3, <2>1, <2>2, Members
<1>9. Len(stmt.with) - Len(original.with) = k + m
  <2>1. Len(stmt.with) = k + (m + n) /\ Len(original.with) = n /\ k \in Nat /\ m \in Nat /\ n \in Nat
    BY <1>1, <1>2 DEF n
  <2>. QED  BY <2>1
<1>. HIDE DEF added
<1>. QED  BY <1>1, <1>5, <1>6, <1>7, <1>8, <1>9 DEF WithListExact, names, added

\* Where a WITH query has a name it stands, for the places that see it.
LEMMA FinishedTables ==
  ASSUME ManifestOK, original \in Statement, NEW p \in Plans(NeededViews), NEW q \in Plans(NeededPlain),
         stmt = Finished(q, p)
  PROVE  /\ \A r \in stmt.refs \cup stmt.subqueries : r.name \in Object => r.name \in WithNames(stmt)
         /\ \A i \in DOMAIN stmt.with : \A r \in stmt.with[i].refs :
              r.name \in Object => \E j \in 1 .. i - 1 : stmt.with[j].name = r.name
<1>. DEFINE f == Finished(q, p)
            k == Len(q)
            m == Len(p)
            n == Len(original.with)
<1>1. /\ k \in Nat /\ m \in Nat /\ n \in Nat
      /\ DOMAIN f.with = 1 .. k + (m + n) /\ DOMAIN original.with = 1 .. n
      /\ {q[i] : i \in 1 .. k} = NeededPlain /\ {p[i] : i \in 1 .. m} = NeededViews
      /\ NamesOf(f.refs) = NamesOf(Unrolled(original.refs, original.rollups))
      /\ NamesOf(f.subqueries) = NamesOf(original.subqueries)
      /\ \A i \in 1 .. k :
           /\ f.with[i].name = q[i] /\ f.with[i].refs = Plainly(mdl.base[q[i]])
           /\ \A o \in mdl.base[q[i]] : \E j \in 1 .. i - 1 : q[j] = o
      /\ \A i \in 1 .. m :
           /\ f.with[k + i].name = p[i]
           /\ NamesOf(f.with[k + i].refs) = NamesOf(Unrolled(mdl.refs[p[i]], mdl.rollups[p[i]]))
           /\ \A v \in NamesOf(mdl.refs[p[i]]) \cap OfKind("view") : \E j \in 1 .. i - 1 : p[j] = v
      /\ \A i \in 1 .. n :
           /\ f.with[k + (m + i)].name = original.with[i].name
           /\ NamesOf(f.with[k + (m + i)].refs) = NamesOf(Unrolled(original.with[i].refs, original.with[i].rollups))
  <2>1. IsFinished(q, p, f)
    BY FinishedFacts
  <2>2. \A refs, names : NamesOf(Bare(refs, names)) = NamesOf(refs)
    BY BareFacts
  <2>. HIDE DEF f
  <2>3. /\ NamesOf(f.refs) = NamesOf(Unrolled(original.refs, original.rollups))
        /\ NamesOf(f.subqueries) = NamesOf(original.subqueries)
    BY <2>1, <2>2 DEF IsFinished
  <2>4. \A i \in 1 .. m : NamesOf(f.with[k + i].refs) = NamesOf(Unrolled(mdl.refs[p[i]], mdl.rollups[p[i]]))
    BY <2>1, <2>2 DEF IsFinished
  <2>5. \A i \in 1 .. n :
          NamesOf(f.with[k + (m + i)].refs) = NamesOf(Unrolled(original.with[i].refs, original.with[i].rollups))
    BY <2>1, <2>2 DEF IsFinished
  <2>. QED  BY <2>1, <2>3, <2>4, <2>5 DEF IsFinished
<1>3. stmt = f
  OBVIOUS
<1>. HIDE DEF f, k, m, n
<1>4. \A i \in 1 .. k + (m + n) :
        i \in 1 .. k \/ (\E j \in 1 .. m : i = k + j) \/ (\E j \in 1 .. n : i = k + (m + j))
  <2>1. k \in Nat /\ m \in Nat /\ n \in Nat
    BY <1>1
  <2>. QED  BY <2>1, ThreeParts
<1>5. \A refs, rollups, x : x \in NamesOf(Unrolled(refs, rollups)) <=> x \in NamesOf(refs) \/ x \in Bases(rollups)
  BY NamesFacts
<1>. DEFINE Before(i) == {f.with[j].name : j \in 1 .. i}
\* An object that is needed is defined among the first k + m queries.
<1>6. \A i \in Nat, o \in NeededPlain : i >= k => o \in Before(i)
  <2>. SUFFICES ASSUME NEW i \in Nat, NEW o \in NeededPlain, i >= k  PROVE o \in Before(i)
    OBVIOUS
  <2>0. {q[j] : j \in 1 .. k} = NeededPlain /\ k \in Nat
    BY <1>1
  <2>1. PICK j \in 1 .. k : q[j] = o
    BY <2>0
  <2>2. j \in 1 .. i
    BY <2>0
  <2>3. f.with[j].name = o
    BY <1>1, <2>1
  <2>. QED  BY <2>2, <2>3
<1>7. \A i \in Nat, v \in NeededViews : i >= k + m => v \in Before(i)
  <2>. SUFFICES ASSUME NEW i \in Nat, NEW v \in NeededViews, i >= k + m  PROVE v \in Before(i)
    OBVIOUS
  <2>0. {p[j] : j \in 1 .. m} = NeededViews /\ k \in Nat /\ m \in Nat
    BY <1>1
  <2>1. PICK j \in 1 .. m : p[j] = v
    BY <2>0
  <2>2. k + j \in 1 .. i
    BY <2>0
  <2>3. f.with[k + j].name = v
    BY <1>1, <2>1
  <2>. QED  BY <2>2, <2>3
<1>. DEFINE all == k + (m + n)
<1>8. /\ \A o : o \in WithNames(f) <=> o \in Before(all)
      /\ all \in Nat /\ all >= k /\ all >= k + m
  <2>1. all \in Nat /\ all >= k /\ all >= k + m
    BY <1>1
  <2>2. DOMAIN f.with = 1 .. all
    BY <1>1
  <2>. HIDE DEF all
  <2>. QED  BY <2>1, <2>2, Members
<1>. HIDE DEF Before
<1>9. /\ Object = OfKind("view") \cup Plain /\ OfKind("view") \cap Plain = {}
      /\ \A rollups \in SUBSET Object : Bases(rollups) \subseteq Plain
      /\ \A o \in Object : mdl.rollups[o] \subseteq Object
  BY KindFacts
<1>10. /\ Tables(original) \cap OfKind("view") \subseteq NeededViews /\ NeededViews \subseteq OfKind("view")
       /\ (TablesWithViews \cup RolledUpBases) \cap Plain \subseteq NeededPlain
       /\ NeededPlain \subseteq Plain
       /\ \A o \in NeededPlain : mdl.base[o] \subseteq NeededPlain
  BY NeededSets
<1>11. /\ original.rollups \subseteq Object
       /\ \A i \in 1 .. n : original.with[i].rollups \subseteq Object
  BY OriginalFacts DEF n
<1>12. ASSUME NEW x \in Tables(original)  PROVE x \in NeededViews \/ x \in NeededPlain
  <2>1. x \in Object /\ x \in TablesWithViews
    BY Members DEF TablesWithViews
  <2>. QED  BY <1>9, <1>10, <2>1
<1>13. ASSUME NEW r \in f.refs, r.name \in Object  PROVE r.name \in WithNames(f)
  <2>1. r.name \in NamesOf(original.refs) \/ r.name \in Bases(original.rollups)
    BY <1>1, <1>5, <1>13, NamesFacts
  <2>2. CASE r.name \in WithNames(original)
    <3>1. PICK i \in 1 .. n : original.with[i].name = r.name
      BY <1>1, <2>2, Members
    <3>2. k + (m + i) \in DOMAIN f.with /\ f.with[k + (m + i)].name = r.name
      BY <1>1, <3>1
    <3>. QED  BY <3>2, Members
  <2>3. CASE r.name \notin WithNames(original) /\ r.name \in NamesOf(original.refs)
    <3>1. r.name \in Tables(original)
      BY <1>13, <2>3, Members
    <3>. QED  BY <1>6, <1>7, <1>8, <1>12, <3>1
  <2>4. CASE r.name \notin WithNames(original) /\ r.name \in Bases(original.rollups)
    <3>1. r.name \in RolledUpBases /\ r.name \in Plain
      BY <1>9, <1>11, <2>4 DEF RolledUpBases
    <3>. QED  BY <1>6, <1>8, <1>10, <3>1
  <2>. QED  BY <2>1, <2>2, <2>3, <2>4
<1>14. ASSUME NEW r \in f.subqueries, r.name \in Object  PROVE r.name \in WithNames(f)
  <2>1. r.name \in NamesOf(original.subqueries)
    BY <1>1, <1>14, NamesFacts
  <2>2. r.name \in Tables(original)
    BY <1>14, <2>1, Members
  <2>. QED  BY <1>6, <1>7, <1>8, <1>12, <2>2
<1>15. ASSUME NEW i \in 1 .. k, NEW r \in f.with[i].refs  PROVE r.name \in Before(i - 1)
  <2>1. r.name \in mdl.base[q[i]]
    BY <1>1, NamesFacts
  <2>2. PICK j \in 1 .. i - 1 : q[j] = r.name
    <3>1. \A o \in mdl.base[q[i]] : \E j \in 1 .. i - 1 : q[j] = o
      BY <1>1
    <3>. QED  BY <2>1, <3>1
  <2>3. j \in 1 .. k
    BY <1>1
  <2>4. f.with[j].name = r.name
    BY <1>1, <2>2, <2>3
  <2>. QED  BY <2>2, <2>4 DEF Before
<1>16. ASSUME NEW i \in 1 .. m, NEW r \in f.with[k + i].refs, r.name \in Object  PROVE r.name \in Before(k + i - 1)
  <2>1. r.name \in NamesOf(Unrolled(mdl.refs[p[i]], mdl.rollups[p[i]])) /\ p[i] \in NeededViews
    BY <1>1, <1>16, NamesFacts
  <2>2. r.name \in NamesOf(mdl.refs[p[i]]) \/ r.name \in Bases(mdl.rollups[p[i]])
    BY <1>5, <2>1
  <2>3. CASE r.name \in OfKind("view")
    <3>1. Bases(mdl.rollups[p[i]]) \subseteq Plain
      BY <1>9, <1>10, <2>1
    <3>2. PICK j \in 1 .. i - 1 : p[j] = r.name
      <4>1. \A v \in NamesOf(mdl.refs[p[i]]) \cap OfKind("view") : \E j \in 1 .. i - 1 : p[j] = v
        BY <1>1
      <4>2. r.name \in NamesOf(mdl.refs[p[i]]) \cap OfKind("view")
        BY <1>9, <2>2, <2>3, <3>1
      <4>. QED  BY <4>1, <4>2
    <3>3. j \in 1 .. m /\ k + j \in 1 .. k + i - 1
      BY <1>1
    <3>4. f.with[k + j].name = r.name
      BY <1>1, <3>2, <3>3
    <3>. QED  BY <3>3, <3>4 DEF Before
  <2>4. CASE r.name \in Plain
    <3>1. r.name \in ViewTables
      BY <2>1 DEF ViewTables
    <3>2. r.name \in NeededPlain
      BY <1>10, <2>4, <3>1 DEF TablesWithViews
    <3>3. k + i - 1 \in Nat /\ k + i - 1 >= k
      BY <1>1
    <3>. QED  BY <1>6, <3>2, <3>3
  <2>. QED  BY <1>9, <1>16, <2>3, <2>4
<1>17. ASSUME NEW i \in 1 .. n, NEW r \in f.with[k + (m + i)].refs, r.name \in Object
       PROVE  r.name \in Before(k + (m + i) - 1)
  <2>0. NamesOf(f.with[k + (m + i)].refs) = NamesOf(Unrolled(original.with[i].refs, original.with[i].rollups))
    BY <1>1
  <2>1. r.name \in NamesOf(Unrolled(original.with[i].refs, original.with[i].rollups))
    BY <1>17, <2>0, NamesFacts
  <2>2. r.name \in NeededViews \/ r.name \in NeededPlain
    <3>1. CASE r.name \in NamesOf(original.with[i].refs)
      <4>1. r.name \in NamesOf(WithRefs(original))
        BY <1>1, <3>1, Members
      <4>2. r.name \in Tables(original)
        BY <1>17, <4>1, Members
      <4>. QED  BY <1>12, <4>2
    <3>2. CASE r.name \in Bases(original.with[i].rollups)
      <4>1. r.name \in RolledUpBases
        BY <1>1, <3>2 DEF RolledUpBases
      <4>2. r.name \in Plain
        BY <1>9, <1>11, <3>2
      <4>. QED  BY <1>10, <4>1, <4>2
    <3>. QED  BY <1>5, <2>1, <3>1, <3>2
  <2>3. k + (m + i) - 1 \in Nat /\ k + (m + i) - 1 >= k /\ k + (m + i) - 1 >= k + m
    BY <1>1
  <2>. QED  BY <1>6, <1>7, <2>2, <2>3
<1>18. ASSUME NEW i \in DOMAIN f.with, NEW r \in f.with[i].refs, r.name \in Object  PROVE r.name \in Before(i - 1)
  <2>1. CASE i \in 1 .. k
    BY <1>15, <2>1
  <2>2. ASSUME NEW j \in 1 .. m, i = k + j  PROVE r.name \in Before(i - 1)
    <3>1. r.name \in Before(k + j - 1)
      BY <1>16, <1>18, <2>2
    <3>2. k + j - 1 = i - 1
      BY <1>1, <2>2
    <3>. QED  BY <3>1, <3>2, Zenon
  <2>3. ASSUME NEW j \in 1 .. n, i = k + (m + j)  PROVE r.name \in Before(i - 1)
    <3>1. r.name \in Before(k + (m + j) - 1)
      BY <1>17, <1>18, <2>3
    <3>2. k + (m + j) - 1 = i - 1
      BY <1>1, <2>3
    <3>. QED  BY <3>1, <3>2, Zenon
  <2>. QED  BY <1>1, <1>4, <2>1, <2>2, <2>3
<1>. QED  BY <1>3, <1>13, <1>14, <1>18 DEF Before

\* Where a name keeps its catalog, by what was written.
LEMMA FinishedCatalogs ==
  ASSUME ManifestOK, original \in Statement, NEW p \in Plans(NeededViews), NEW q \in Plans(NeededPlain),
         stmt = Finished(q, p)
  PROVE  CatalogKept <=> \E r \in stmt.refs \cup stmt.subqueries \cup WithRefs(stmt) :
                           r.qualified /\ r.name \in Object
<1>. DEFINE f == Finished(q, p)
            k == Len(q)
            m == Len(p)
            n == Len(original.with)
            hidden == NeededViews \cup WithNames(original)
            InWith == \E i \in DOMAIN f.with : \E r \in f.with[i].refs : r.qualified /\ r.name \in Object
<1>1. /\ k \in Nat /\ m \in Nat /\ n \in Nat
      /\ DOMAIN f.with = 1 .. k + (m + n) /\ DOMAIN original.with = 1 .. n
      /\ {p[i] : i \in 1 .. m} = NeededViews
      /\ f.refs = Bare(Unrolled(original.refs, original.rollups), Bared \ hidden)
      /\ f.subqueries = Bare(original.subqueries, Bared)
      /\ \A i \in 1 .. k : f.with[i].refs = Plainly(mdl.base[q[i]])
      /\ \A i \in 1 .. m : f.with[k + i].refs = Bare(Unrolled(mdl.refs[p[i]], mdl.rollups[p[i]]), Bared)
      /\ \A i \in 1 .. n :
           f.with[k + (m + i)].refs = Bare(Unrolled(original.with[i].refs, original.with[i].rollups), Bared)
  <2>1. IsFinished(q, p, f)
    BY FinishedFacts
  <2>. HIDE DEF f
  <2>. QED  BY <2>1 DEF IsFinished
<1>2. stmt = f
  OBVIOUS
<1>. HIDE DEF f, k, m, n, hidden
<1>3. \A i \in 1 .. k + (m + n) :
        i \in 1 .. k \/ (\E j \in 1 .. m : i = k + j) \/ (\E j \in 1 .. n : i = k + (m + j))
  <2>1. k \in Nat /\ m \in Nat /\ n \in Nat
    BY <1>1
  <2>. QED  BY <2>1, ThreeParts
<1>4. /\ \A i \in 1 .. m : k + i \in DOMAIN f.with
      /\ \A i \in 1 .. n : k + (m + i) \in DOMAIN f.with
  BY <1>1
<1>5. /\ Object = OfKind("view") \cup Plain /\ OfKind("view") \cap Plain = {}
      /\ Tables(original) \cap OfKind("view") \subseteq NeededViews /\ NeededViews \subseteq OfKind("view")
      /\ (TablesWithViews \cup RolledUpBases) \cap Plain \subseteq NeededPlain
      /\ NeededPlain \subseteq Plain /\ NeededObjects = NeededViews \cup NeededPlain
  BY KindFacts, NeededSets
\* The catalogs stay in all places alike, unless a model or a metric is needed.
<1>6. /\ NeededObjects \subseteq OfKind("view") <=> NeededPlain = {}
      /\ Bared = (IF NeededPlain = {} THEN {} ELSE Object)
  BY <1>5 DEF Bared, ToStrip
<1>7. ASSUME NEW refs, NEW rollups, NEW names
      PROVE  (\E r \in Bare(Unrolled(refs, rollups), names) : r.qualified /\ r.name \in Object)
               <=> \E r \in refs : r.qualified /\ r.name \in Object /\ r.name \notin names
  <2>1. ASSUME NEW r \in Bare(Unrolled(refs, rollups), names), r.qualified
        PROVE  r \in refs /\ r.name \notin names
    <3>1. r \in Unrolled(refs, rollups) /\ r.name \notin names
      BY <2>1, BareFacts
    <3>2. r \notin Plainly(Bases(rollups))
      BY <2>1, NamesFacts
    <3>. QED  BY <3>1, <3>2 DEF Unrolled
  <2>2. ASSUME NEW r \in refs, r.name \notin names
        PROVE  r \in Bare(Unrolled(refs, rollups), names)
    BY <2>2, BareFacts DEF Unrolled
  <2>. QED  BY <2>1, <2>2
<1>8. (\E r \in f.refs : r.qualified /\ r.name \in Object)
        <=> \E r \in original.refs : r.qualified /\ r.name \in Object /\ (NeededPlain = {} \/ r.name \in hidden)
  <2>. DEFINE bared == Bared \ hidden
  <2>1. f.refs = Bare(Unrolled(original.refs, original.rollups), bared)
    BY <1>1
  <2>2. ASSUME NEW r, r.name \in Object
        PROVE  r.name \notin bared <=> NeededPlain = {} \/ r.name \in hidden
    BY <1>6, <2>2
  <2>. HIDE DEF bared
  <2>3. (\E r \in f.refs : r.qualified /\ r.name \in Object)
          <=> \E r \in original.refs : r.qualified /\ r.name \in Object /\ r.name \notin bared
    BY <1>7, <2>1
  <2>. QED  BY <2>2, <2>3
<1>9. ASSUME NEW r \in original.refs, r.name \in Object
      PROVE  NeededPlain = {} \/ r.name \in hidden <=> r.name \in WithNames(original) \cup OfKind("view")
  <2>1. CASE r.name \in WithNames(original)
    BY <2>1 DEF hidden
  <2>2. CASE r.name \notin WithNames(original)
    <3>1. r.name \in Tables(original)
      BY <1>9, <2>2, NamesFacts, Members
    <3>2. CASE r.name \in OfKind("view")
      BY <1>5, <3>1, <3>2 DEF hidden
    <3>3. CASE r.name \in Plain
      <4>1. r.name \in NeededPlain
        BY <1>5, <3>1, <3>3 DEF TablesWithViews
      <4>. QED  BY <1>5, <2>2, <3>3, <4>1 DEF hidden
    <3>. QED  BY <1>5, <1>9, <3>2, <3>3
  <2>. QED  BY <2>1, <2>2
<1>10. (\E r \in f.subqueries : r.qualified /\ r.name \in Object)
         <=> NeededPlain = {} /\ \E r \in original.subqueries : r.qualified /\ r.name \in Object
  <2>1. Unrolled(original.subqueries, {}) = original.subqueries
    BY DEF Unrolled, Plainly, Bases
  <2>2. f.subqueries = Bare(Unrolled(original.subqueries, {}), Bared)
    BY <1>1, <2>1
  <2>3. (\E r \in f.subqueries : r.qualified /\ r.name \in Object)
          <=> \E r \in original.subqueries : r.qualified /\ r.name \in Object /\ r.name \notin Bared
    BY <1>7, <2>2
  <2>. QED  BY <1>6, <2>3
<1>11. InWith <=> /\ NeededPlain = {}
                  /\ \/ \E v \in NeededViews : \E r \in mdl.refs[v] : r.qualified /\ r.name \in Object
                     \/ \E i \in 1 .. n : \E r \in original.with[i].refs : r.qualified /\ r.name \in Object
  <2>1. ASSUME NEW i \in 1 .. k, NEW r \in f.with[i].refs  PROVE ~r.qualified
    BY <1>1, NamesFacts
  <2>2. ASSUME NEW i \in 1 .. m
        PROVE  (\E r \in f.with[k + i].refs : r.qualified /\ r.name \in Object)
                 <=> NeededPlain = {} /\ \E r \in mdl.refs[p[i]] : r.qualified /\ r.name \in Object
    <3>1. f.with[k + i].refs = Bare(Unrolled(mdl.refs[p[i]], mdl.rollups[p[i]]), Bared)
      BY <1>1
    <3>2. (\E r \in f.with[k + i].refs : r.qualified /\ r.name \in Object)
            <=> \E r \in mdl.refs[p[i]] : r.qualified /\ r.name \in Object /\ r.name \notin Bared
      BY <1>7, <3>1
    <3>. QED  BY <1>6, <3>2
  <2>3. ASSUME NEW i \in 1 .. n
        PROVE  (\E r \in f.with[k + (m + i)].refs : r.qualified /\ r.name \in Object)
                 <=> NeededPlain = {} /\ \E r \in original.with[i].refs : r.qualified /\ r.name \in Object
    <3>1. f.with[k + (m + i)].refs = Bare(Unrolled(original.with[i].refs, original.with[i].rollups), Bared)
      BY <1>1
    <3>2. (\E r \in f.with[k + (m + i)].refs : r.qualified /\ r.name \in Object)
            <=> \E r \in original.with[i].refs : r.qualified /\ r.name \in Object /\ r.name \notin Bared
      BY <1>7, <3>1
    <3>. QED  BY <1>6, <3>2
  <2>. DEFINE ViewKeeps == \E v \in NeededViews : \E r \in mdl.refs[v] : r.qualified /\ r.name \in Object
              WithKeeps == \E i \in 1 .. n : \E r \in original.with[i].refs : r.qualified /\ r.name \in Object
  <2>4. ASSUME NEW i \in 1 .. k + (m + n), \E r \in f.with[i].refs : r.qualified /\ r.name \in Object
        PROVE  NeededPlain = {} /\ (ViewKeeps \/ WithKeeps)
    <3>1. i \notin 1 .. k
      BY <2>1, <2>4
    <3>2. ASSUME NEW j \in 1 .. m, i = k + j  PROVE NeededPlain = {} /\ ViewKeeps
      <4>1. NeededPlain = {} /\ \E r \in mdl.refs[p[j]] : r.qualified /\ r.name \in Object
        BY <2>2, <2>4, <3>2
      <4>2. p[j] \in NeededViews
        BY <1>1
      <4>. QED  BY <4>1, <4>2
    <3>3. ASSUME NEW j \in 1 .. n, i = k + (m + j)  PROVE NeededPlain = {} /\ WithKeeps
      BY <2>3, <2>4, <3>3
    <3>. QED  BY <1>3, <3>1, <3>2, <3>3
  <2>5. ASSUME NeededPlain = {}, ViewKeeps  PROVE InWith
    <3>1. PICK v \in NeededViews : \E r \in mdl.refs[v] : r.qualified /\ r.name \in Object
      BY <2>5
    <3>2. PICK i \in 1 .. m : p[i] = v
      BY <1>1
    <3>3. \E r \in f.with[k + i].refs : r.qualified /\ r.name \in Object
      BY <2>2, <2>5, <3>1, <3>2
    <3>. QED  BY <1>4, <3>3
  <2>6. ASSUME NeededPlain = {}, WithKeeps  PROVE InWith
    <3>1. PICK i \in 1 .. n : \E r \in original.with[i].refs : r.qualified /\ r.name \in Object
      BY <2>6
    <3>2. \E r \in f.with[k + (m + i)].refs : r.qualified /\ r.name \in Object
      BY <2>3, <2>6, <3>1
    <3>. QED  BY <1>4, <3>2
  <2>. QED  BY <1>1, <2>4, <2>5, <2>6
<1>. HIDE DEF InWith
<1>12. InWith <=> \E r \in WithRefs(f) : r.qualified /\ r.name \in Object
  BY DEF InWith, WithRefs
<1>13. (\E r \in WithRefs(original) : r.qualified /\ r.name \in Object)
         <=> \E i \in 1 .. n : \E r \in original.with[i].refs : r.qualified /\ r.name \in Object
  BY <1>1 DEF WithRefs
<1>. QED  BY <1>2, <1>6, <1>8, <1>9, <1>10, <1>11, <1>12, <1>13 DEF CatalogKept

-----------------------------------------------------------------------------
(* The steps.                                                              *)

LEMMA ViewStep ==
  ASSUME PipelineInv, ExpandViews
  PROVE  PipelineInv'
<1>1. /\ UNCHANGED <<mdl, original>> /\ ManifestOK /\ original \in Statement /\ stmt = original
      /\ Needed(Tables(stmt), {"view"}) = NeededViews
  BY DEF ExpandViews, Refuse, PipelineInv, NeededViews
<1>2. CASE /\ DuplicateMetrics(original) \/ Circular(NeededViews) \/ ~NoViewBroken
           /\ rule' = "refused"
  <2>1. Conflict \/ Circular(NeededObjects)
    <3>1. ~NoViewBroken => Conflict
      BY DEF NoViewBroken, Conflict
    <3>2. DuplicateMetrics(original) => Conflict
      BY DEF DuplicateMetrics, Conflict, TablesWithViews
    <3>. QED  BY <1>1, <1>2, <3>1, <3>2, CircleFacts
  <2>. QED  BY <1>1, <1>2, <2>1, PipelineFixed DEF PipelineInv
<1>3. CASE /\ ViewsFine /\ rule' = "rollup" /\ stmt' \in ViewedForms
  BY <1>1, <1>3, PipelineFixed DEF PipelineInv
<1>4. \/ /\ DuplicateMetrics(original) \/ Circular(NeededViews) \/ ~NoViewBroken
         /\ rule' = "refused"
      \/ /\ ViewsFine /\ rule' = "rollup" /\ stmt' \in ViewedForms
  BY <1>1 DEF ExpandViews, Refuse, ViewsFine, NoViewBroken, ViewedForms, Viewed
<1>. QED  BY <1>2, <1>3, <1>4

LEMMA RollupStep ==
  ASSUME PipelineInv, ReplaceRollups
  PROVE  PipelineInv'
<1>1. /\ UNCHANGED <<mdl, original>> /\ ManifestOK /\ original \in Statement
      /\ stmt \in ViewedForms /\ ViewsFine
  BY DEF ReplaceRollups, Refuse, PipelineInv
<1>2. PICK p \in Plans(NeededViews) : stmt = Viewed(p)
  BY <1>1 DEF ViewedForms
<1>3. CASE DuplicateMetrics(stmt) /\ rule' = "refused"
  <2>1. Conflict
    BY <1>1, <1>2, <1>3, ConflictFacts
  <2>. QED  BY <1>1, <1>3, <2>1, PipelineFixed DEF PipelineInv
<1>4. CASE ~DuplicateMetrics(stmt) /\ stmt' = Replaced(stmt) /\ rule' = "wren"
  <2>1. ~Conflict /\ ~Circular(NeededViews)
    BY <1>1, <1>2, <1>4, ConflictFacts DEF ViewsFine
  <2>2. stmt' \in AfterForms
    BY <1>2, <1>4 DEF AfterForms, After
  <2>. QED  BY <1>1, <1>4, <2>1, <2>2, PipelineFixed DEF PipelineInv
<1>. QED  BY <1>3, <1>4 DEF ReplaceRollups, Refuse

LEMMA ObjectStep ==
  ASSUME PipelineInv, ExpandObjects
  PROVE  PipelineInv'
<1>1. /\ UNCHANGED <<mdl, original>> /\ ManifestOK /\ original \in Statement
      /\ stmt \in AfterForms /\ ~Conflict /\ ~Circular(NeededViews)
  BY DEF ExpandObjects, Refuse, PipelineInv
<1>2. PICK p \in Plans(NeededViews) : stmt = After(p)
  BY <1>1 DEF AfterForms
<1>3. Needed(Tables(stmt), {"model", "metric"}) = NeededPlain
  BY <1>1, <1>2, AfterTables
<1>4. CASE Circular(NeededPlain) /\ rule' = "refused"
  <2>1. Circular(NeededObjects)
    BY <1>1, <1>4, CircleFacts
  <2>. QED  BY <1>1, <1>4, <2>1, PipelineFixed DEF PipelineInv
<1>5. CASE ~Circular(NeededPlain) /\ rule' = "enum" /\ \E q \in Plans(NeededPlain) : stmt' = Prepend(q, Stripped(Bared, stmt))
  <2>1. ~Circular(NeededObjects)
    BY <1>1, <1>5, CircleFacts
  <2>2. stmt' \in FinishedForms
    BY <1>2, <1>5 DEF FinishedForms, Finished
  <2>. QED  BY <1>1, <1>5, <2>1, <2>2, PipelineFixed DEF PipelineInv
<1>. QED  BY <1>3, <1>4, <1>5 DEF ExpandObjects, Refuse, Bared

LEMMA EnumStep ==
  ASSUME PipelineInv, RewriteEnums
  PROVE  PipelineInv'
<1>1. /\ UNCHANGED <<mdl, original, stmt>> /\ ManifestOK /\ original \in Statement
      /\ stmt \in FinishedForms /\ ~Conflict /\ ~Circular(NeededObjects)
  BY DEF RewriteEnums, Refuse, PipelineInv
<1>2. BadEnum(stmt) <=> NoValue
  BY <1>1, EnumFacts DEF FinishedForms
<1>3. (rule' = "refused" /\ NoValue) \/ (rule' = "done" /\ ~NoValue)
  BY <1>2 DEF RewriteEnums, Refuse
<1>. QED  BY <1>1, <1>3, PipelineFixed DEF PipelineInv

LEMMA PipelineCorrect == PipelineSpec => []PipelineInv
<1>1. ManifestOK /\ PipelineInit => PipelineInv
  BY DEF PipelineInit, PipelineInv
<1>2. PipelineInv /\ [PipelineNext]_pipelineVars => PipelineInv'
  <2>1. CASE UNCHANGED pipelineVars
    <3>. SUFFICES ASSUME PipelineInv  PROVE PipelineInv'
      BY <2>1
    <3>1. UNCHANGED <<mdl, original>> /\ UNCHANGED stmt /\ UNCHANGED rule
      BY <2>1 DEF pipelineVars
    <3>. QED  BY <3>1, PipelineFixed DEF PipelineInv
  <2>. QED  BY <2>1, ViewStep, RollupStep, ObjectStep, EnumStep DEF PipelineNext
<1>. QED  BY <1>1, <1>2, PTL DEF PipelineSpec

-----------------------------------------------------------------------------
\* Whatever the manifest and the statement, what the rules have added when they
\* are done is what is needed, each object once, in front of the statement's own
\* WITH queries; no roll_up is left.
THEOREM AddedIsWhatIsNeeded == PipelineSpec => []WithListExact
<1>1. PipelineInv => WithListExact
  <2>. SUFFICES ASSUME PipelineInv, rule = "done"  PROVE WithListExact
    BY DEF WithListExact
  <2>. QED  BY FinishedWithList DEF PipelineInv, FinishedForms
<1>. QED  BY <1>1, PipelineCorrect, PTL

\* Each object that the rewritten statement or one of its WITH queries names is
\* defined where it can be seen; and which names keep a catalog, so that they do
\* not find it, can be read from the original statement.
THEOREM TablesAreFound == PipelineSpec => []EveryTableFound
<1>1. PipelineInv => EveryTableFound
  <2>. SUFFICES ASSUME PipelineInv, rule = "done"  PROVE EveryTableFound
    BY DEF EveryTableFound
  <2>. QED  BY FinishedTables, FinishedCatalogs DEF EveryTableFound, PipelineInv, FinishedForms
<1>. QED  BY <1>1, PipelineCorrect, PTL

\* A statement is refused for what can be read from it and the manifest, and for
\* nothing that a rule did.
THEOREM RefusedForAReason == PipelineSpec => []RefusalExact
<1>1. PipelineInv => RefusalExact
  BY DEF PipelineInv, RefusalExact
<1>. QED  BY <1>1, PipelineCorrect, PTL
=============================================================================
