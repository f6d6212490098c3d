------------------------ MODULE WrenSqlRewriteProofs ------------------------
(***************************************************************************)
(* WrenSqlRewrite, for any manifest whose names lead somewhere, and for    *)
(* any statement: every named table is defined once, with all its columns; *)
(* the dynamic path defines nothing that the static one would not; and     *)
(* what a WITH query reads is given before it.                             *)
(***************************************************************************)
EXTENDS WrenSqlRewrite, CommonLemmas

-----------------------------------------------------------------------------
(* What a manifest is.                                                     *)

\* A path goes over models, the last of which has what the column uses.
LEMMA PathFacts ==
  ASSUME ManifestOK, NEW o \in Name, NEW c \in Chained(o)
  PROVE  /\ Range(mdl.path[o][c]) \subseteq {p \in Name : IsModel(p)}
         /\ Last(mdl.path[o][c]) \in Range(mdl.path[o][c])
         /\ mdl.uses[o][c] # {} /\ mdl.uses[o][c] \subseteq Offered(Last(mdl.path[o][c]))
         /\ c \in Cols(o)
<1>. DEFINE M == {p \in Name : IsModel(p)}
<1>1. mdl.path[o][c] \in Seq(M) \ {<<>>}
  BY DEF ManifestOK, ColumnsOK, ModelOK, MetricOK
<1>2. mdl.uses[o][c] # {} /\ mdl.uses[o][c] \subseteq Offered(Last(mdl.path[o][c]))
  BY DEF ManifestOK, ColumnsOK, ModelOK, MetricOK
<1>3. c \in Cols(o)
  BY DEF Chained, Formed
<1>4. ASSUME NEW S, NEW s \in Seq(S) \ {<<>>}  PROVE Range(s) \subseteq S /\ Last(s) \in Range(s)
  <2>1. Len(s) \in DOMAIN s /\ \A i \in DOMAIN s : s[i] \in S
    OBVIOUS
  <2>. QED  BY <2>1 DEF Range, Last
<1>. HIDE DEF M
<1>5. Range(mdl.path[o][c]) \subseteq M /\ Last(mdl.path[o][c]) \in Range(mdl.path[o][c])
  BY <1>1, <1>4
<1>. QED  BY <1>2, <1>3, <1>5 DEF M

\* Models start at themselves, metrics at their base.
LEMMA OriginFacts ==
  ASSUME ManifestOK, NEW o \in Name
  PROVE  /\ IsModel(o) => Origin(o) = o /\ mdl.base[o] = {}
         /\ o \in Queryable /\ ~IsModel(o) =>
              mdl.base[o] = {Origin(o)} /\ Origin(o) \in Queryable /\ Origin(o) # o
         /\ o \notin Queryable => Cols(o) = {}
         /\ o \in Queryable => Origin(o) \in Queryable
<1>1. mdl.base[o] \subseteq Queryable \ {o} /\ (o \notin Queryable => Cols(o) = {})
  BY DEF ManifestOK, ColumnsOK, ModelOK, MetricOK
<1>2. IsModel(o) => mdl.base[o] = {}
  BY DEF ManifestOK, ColumnsOK, ModelOK, MetricOK
<1>3. ASSUME o \in Queryable, ~IsModel(o)  PROVE mdl.base[o] = {Origin(o)}
  <2>1. PICK b \in Queryable : mdl.base[o] = {b}
    BY <1>3 DEF ManifestOK, MetricOK
  <2>. QED  BY <1>3, <2>1 DEF Origin
<1>. QED  BY <1>1, <1>2, <1>3 DEF Origin

\* What is no model, metric or cumulative metric has no columns.
LEMMA ColumnFacts ==
  ASSUME ManifestOK, NEW o \in Name
  PROVE  /\ Cols(o) \subseteq Column
         /\ \A c \in Cols(o) : \/ c \in Formed(o, {"plain"}) \/ c \in Formed(o, {"renamed"})
                               \/ c \in Formed(o, {"derived"}) \/ c \in Chained(o)
         /\ \A forms : Formed(o, forms) \subseteq Cols(o)
         /\ Chained(o) \cap Formed(o, {"derived"}) = {}
<1>1. Cols(o) = Formed(o, {"plain", "renamed", "derived", "toOne", "toMany"}) /\ Cols(o) \subseteq Column
  BY DEF ManifestOK, ColumnsOK, ModelOK, MetricOK
<1>. QED  BY <1>1 DEF Formed, Chained

\* Objects of the manifest only are required.
LEMMA RequiredIsName ==
  ASSUME ManifestOK, NEW o \in Name
  PROVE  RequiredObjects(o) \subseteq Name
<1>1. \A c \in Chained(o) : Range(mdl.path[o][c]) \subseteq Name
  BY PathFacts
<1>2. mdl.base[o] \subseteq Name /\ DateSpine \in Name
  BY OriginFacts, RewriteAssumption DEF ManifestOK, ModelOK, Queryable
<1>. QED  BY <1>1, <1>2 DEF RequiredObjects

\* The cases of Sources.
Computed(o) == IsModel(o) \/ OnModel(o) \/ mdl.kind[o] = "cumulative"

LEMMA SourcesCases ==
  ASSUME ManifestOK, NEW o \in Name, NEW c
  PROVE  /\ c \notin Cols(o) => Sources(o, c) = {}
         /\ c \in Chained(o) => Sources(o, c) = {Last(mdl.path[o][c])} \X mdl.uses[o][c]
         /\ c \in Formed(o, {"derived"}) /\ Computed(o) =>
              Sources(o, c) = {Origin(o)} \X mdl.uses[o][c]
         /\ c \in Cols(o) /\ c \notin Chained(o) /\ ~(c \in Formed(o, {"derived"}) /\ Computed(o)) =>
              Sources(o, c) = {<<o, c>>}
<1>. DEFINE L == {Last(mdl.path[o][c])} \X mdl.uses[o][c]
            D == {Origin(o)} \X mdl.uses[o][c]
            S == {<<o, c>>}
            derived == c \in Formed(o, {"derived"})
<1>1. (c \in Chained(o) => c \in Cols(o) /\ ~derived) /\ (derived => c \in Cols(o))
  BY ColumnFacts DEF Chained
<1>2. Sources(o, c) = CASE c \notin Cols(o) -> {} [] c \in Chained(o) -> L
                        [] derived /\ Computed(o) -> D [] OTHER -> S
  BY DEF Sources, Computed
<1>. HIDE DEF L, D, S, derived
<1>3. /\ c \notin Cols(o) => Sources(o, c) = {}
      /\ c \in Chained(o) => Sources(o, c) = L
      /\ derived /\ Computed(o) => Sources(o, c) = D
      /\ c \in Cols(o) /\ c \notin Chained(o) /\ ~(derived /\ Computed(o)) => Sources(o, c) = S
  BY <1>1, <1>2
<1>. QED  BY <1>3 DEF L, D, S, derived

\* A field's sources are fields.
LEMMA SourcesAreFields ==
  ASSUME ManifestOK, NEW o \in Name, NEW c \in Column
  PROVE  /\ Sources(o, c) \subseteq Field
         /\ \A f \in Sources(o, c) :
              /\ f[1] \in Queryable /\ o \in Queryable /\ c \in Cols(o) /\ f[2] \in Offered(f[1])
              /\ f[1] # o => f[1] \in RequiredObjects(o)
<1>. SUFFICES ASSUME NEW f \in Sources(o, c)
              PROVE  /\ f \in Field
                     /\ f[1] \in Queryable /\ o \in Queryable /\ c \in Cols(o) /\ f[2] \in Offered(f[1])
                     /\ f[1] # o => f[1] \in RequiredObjects(o)
  OBVIOUS
<1>1. c \in Cols(o)
  BY SourcesCases
<1>2. o \in Queryable
  BY <1>1, OriginFacts
<1>3. \A p \in Name : Offered(p) \subseteq Column
  BY ColumnFacts DEF Offered
<1>4. CASE c \in Chained(o)
  <2>1. f \in {Last(mdl.path[o][c])} \X mdl.uses[o][c]
    BY <1>4, SourcesCases
  <2>2. f = <<f[1], f[2]>> /\ f[1] = Last(mdl.path[o][c]) /\ f[2] \in Offered(f[1])
    BY <1>4, <2>1, PathFacts
  <2>3. f[1] \in Name /\ IsModel(f[1]) /\ f[1] \in Range(mdl.path[o][c])
    BY <1>4, <2>2, PathFacts
  <2>4. f[1] \in RequiredObjects(o) \/ f[1] = Origin(o)
    <3>1. f[1] \in UNION {Range(mdl.path[o][k]) : k \in Chained(o)}
      BY <1>4, <2>3
    <3>. QED  BY <3>1 DEF RequiredObjects
  <2>5. f[1] = Origin(o) /\ f[1] # o => f[1] \in mdl.base[o] /\ ~IsModel(o)
    BY <1>2, OriginFacts
  <2>. QED  BY <1>1, <1>2, <1>3, <2>2, <2>3, <2>4, <2>5 DEF RequiredObjects, Field, Queryable, IsModel
<1>5. CASE c \in Formed(o, {"derived"}) /\ Computed(o)
  <2>1. f \in {Origin(o)} \X mdl.uses[o][c]
    BY <1>5, SourcesCases
  <2>2. mdl.uses[o][c] \subseteq Offered(Origin(o))
    BY <1>5 DEF ManifestOK, ColumnsOK
  <2>3. f = <<f[1], f[2]>> /\ f[1] = Origin(o) /\ f[2] \in Offered(f[1])
    BY <2>1, <2>2
  <2>4. f[1] \in Queryable /\ f[1] \in Name
    BY <1>2, <2>3, OriginFacts DEF Queryable
  <2>5. f[1] # o => f[1] \in mdl.base[o] /\ ~IsModel(o)
    BY <1>2, <2>3, OriginFacts
  <2>. QED  BY <1>1, <1>2, <1>3, <2>3, <2>4, <2>5 DEF RequiredObjects, Field
<1>6. CASE c \notin Chained(o) /\ ~(c \in Formed(o, {"derived"}) /\ Computed(o))
  <2>1. f = <<o, c>>
    BY <1>1, <1>6, SourcesCases
  <2>. QED  BY <1>1, <1>2, <2>1 DEF Field, Offered
<1>. QED  BY <1>4, <1>5, <1>6

-----------------------------------------------------------------------------
(* What the static graph and the lineage reach.                            *)

LEMMA StaticClosed ==
  ASSUME ManifestOK, named \subseteq Queryable
  PROVE  /\ StaticObjects \subseteq Name /\ named \subseteq StaticObjects
         /\ \A o \in StaticObjects : RequiredObjects(o) \subseteq StaticObjects
<1>. DEFINE needs == [o \in Name |-> RequiredObjects(o)]
<1>1. needs \in [Name -> SUBSET Name]
  BY RequiredIsName
<1>2. named \subseteq Name
  BY DEF Queryable
<1>3. Needing(Name, named, needs)
  BY <1>1, <1>2, RewriteAssumption DEF Needing
<1>4. IsClosureOf(Name, named, needs, StaticObjects)
  BY <1>3, ClosureIsLeast DEF StaticObjects
<1>. QED  BY <1>1, <1>4 DEF IsClosureOf

LEMMA LineageClosed ==
  ASSUME ManifestOK, named \subseteq Queryable
  PROVE  /\ LineageFields \subseteq Field
         /\ \A o \in named : \A c \in Cols(o) : <<o, c>> \in LineageFields
         /\ \A f \in LineageFields :
              /\ Sources(f[1], f[2]) \subseteq LineageFields
              /\ f[1] \in Queryable \cap StaticObjects /\ f[2] \in Offered(f[1])
<1>. DEFINE needs == [f \in Field |-> Sources(f[1], f[2])]
            first == UNION {{o} \X Cols(o) : o \in named}
            Good == {f \in Field : f[1] \in Queryable \cap StaticObjects /\ f[2] \in Offered(f[1])}
<1>1. \A f \in Field : f[1] \in Name /\ f[2] \in Column /\ f = <<f[1], f[2]>>
  BY DEF Field
<1>2. needs \in [Field -> SUBSET Field]
  BY <1>1, SourcesAreFields
<1>3. \A o \in named : o \in Name /\ o \in Queryable \cap StaticObjects /\ Cols(o) \subseteq Column
  BY StaticClosed, ColumnFacts DEF Queryable
<1>4. first \subseteq Field /\ first \subseteq Good
  BY <1>3 DEF Field, Offered
<1>5. IsFiniteSet(Field)
  BY RewriteAssumption, FS_Product DEF Field
<1>6. Needing(Field, first, needs)
  BY <1>2, <1>4, <1>5 DEF Needing
<1>7. IsClosureOf(Field, first, needs, LineageFields)
  BY <1>6, ClosureIsLeast DEF LineageFields
<1>8. ASSUME NEW f \in Good  PROVE needs[f] \subseteq Good
  <2>1. f[1] \in Name /\ f[2] \in Column /\ f \in Field /\ f[1] \in StaticObjects
    BY <1>1, <1>8
  <2>2. \A g \in Sources(f[1], f[2]) :
          /\ g \in Field /\ g[1] \in Queryable /\ g[2] \in Offered(g[1])
          /\ g[1] # f[1] => g[1] \in RequiredObjects(f[1])
    BY <2>1, SourcesAreFields
  <2>3. RequiredObjects(f[1]) \subseteq StaticObjects
    BY <2>1, StaticClosed
  <2>4. needs[f] = Sources(f[1], f[2])
    BY <2>1
  <2>5. ASSUME NEW g \in Sources(f[1], f[2])  PROVE g \in Good
    <3>. HIDE DEF needs, first
    <3>1. /\ g \in Field /\ g[1] \in Queryable /\ g[2] \in Offered(g[1])
          /\ g[1] # f[1] => g[1] \in RequiredObjects(f[1])
      BY <2>2
    <3>2. g[1] \in StaticObjects
      BY <2>1, <2>3, <3>1
    <3>. QED  BY <3>1, <3>2
  <2>. HIDE DEF Good, needs
  <2>. QED  BY <2>4, <2>5
<1>9. LineageFields \subseteq Good
  <2>1. \A x \in Good \cap Field : needs[x] \subseteq Good
    BY <1>8
  <2>. HIDE DEF Good, needs, first
  <2>. QED  BY <1>4, <1>7, <2>1 DEF IsClosureOf
<1>10. \A f \in LineageFields : Sources(f[1], f[2]) \subseteq LineageFields
  BY <1>7 DEF IsClosureOf
<1>11. first \subseteq LineageFields /\ LineageFields \subseteq Field
  <2>. HIDE DEF first, needs
  <2>. QED  BY <1>7 DEF IsClosureOf
<1>. QED  BY <1>9, <1>10, <1>11

\* What the lineage links, the static graph links too.
LEMMA LinksAreStatic ==
  ASSUME ManifestOK, named \subseteq Queryable, NEW p, NEW o,
         <<p, o>> \in LineageLinks(LineageFields)
  PROVE  /\ p \in Queryable /\ o \in Queryable /\ p # o /\ <<p, o>> \in StaticLinks
         /\ \E c : <<o, c>> \in LineageFields
         /\ \E u : <<p, u>> \in LineageFields
<1>0. PICK f \in LineageFields : \E s \in Sources(f[1], f[2]) : <<p, o>> = <<s[1], f[1]>>
  BY DEF LineageLinks
<1>1. PICK s \in Sources(f[1], f[2]) : <<p, o>> = <<s[1], f[1]>>
  BY <1>0
<1>2. /\ f = <<f[1], f[2]>> /\ f[1] \in Name /\ f[2] \in Column
      /\ f[1] \in Queryable \cap StaticObjects /\ s \in LineageFields
  BY LineageClosed DEF Field
<1>3. s[1] \in Queryable /\ s = <<s[1], s[2]>> /\ s[1] \in Name
  BY <1>2, LineageClosed DEF Field
<1>4. p # o
  BY <1>1, <1>2 DEF LineageLinks
<1>5. p \in RequiredObjects(o)
  BY <1>1, <1>2, <1>4, SourcesAreFields
<1>6. <<p, o>> \in RequiredObjects(o) \X {o} /\ o \in StaticObjects
  BY <1>1, <1>2, <1>5
<1>. QED  BY <1>1, <1>2, <1>3, <1>4, <1>6 DEF StaticLinks

\* A circle in the lineage is one in the static graph.
LEMMA CircleIsStatic ==
  ASSUME ManifestOK, named \subseteq Queryable, Circular(LineageLinks(LineageFields))
  PROVE  Circular(StaticLinks)
<1>1. PICK S \in SUBSET Name :
        S # {} /\ \A o \in S : \E p \in S : <<p, o>> \in LineageLinks(LineageFields)
  BY DEF Circular
<1>2. \A o \in S : \E p \in S : <<p, o>> \in StaticLinks
  BY <1>1, LinksAreStatic
<1>. QED  BY <1>1, <1>2 DEF Circular

-----------------------------------------------------------------------------
(* The invariant of the rewrite.                                           *)

Names == {ctes[k].name : k \in DOMAIN ctes}

AllLinks == IF dynamic THEN LineageLinks(LineageFields) ELSE StaticLinks

\* What is required is what the static graph or the lineage says, and named
\* objects without columns.
Chosen ==
  /\ ~dynamic => required = [o \in StaticObjects |-> Cols(o)]
  /\ dynamic =>
       /\ \A f \in LineageFields : f[1] \in DOMAIN required /\ f[2] \in required[f[1]]
       /\ \A o \in DOMAIN required :
            /\ o \in Queryable \cap StaticObjects
            /\ {o} \X required[o] \subseteq LineageFields
            /\ required[o] = {} => o \in named /\ Cols(o) = {}

\* An object is rendered, waits in the order, or is spare: one of these, once.
Once ==
  /\ IsList(ctes) /\ order \in Seq(DOMAIN required)
  /\ \A i, j \in DOMAIN order : order[i] = order[j] => i = j
  /\ \A i, j \in DOMAIN ctes : ctes[i].name = ctes[j].name => i = j
  /\ \A i \in DOMAIN order : order[i] \notin Names
  /\ spare \cap Names = {}

\* What an object is linked to comes before it.
Sorted ==
  /\ \A i \in DOMAIN order : \A p \in DOMAIN required :
       <<p, order[i]>> \in AllLinks => p \in Names \/ \E j \in 1 .. i - 1 : order[j] = p
  /\ \A k \in DOMAIN ctes : \A p \in DOMAIN required :
       <<p, ctes[k].name>> \in AllLinks => \E j \in 1 .. k - 1 : ctes[j].name = p

\* Where a WITH query comes from: the rendering of what is required, date_spine
\* or a named object without columns.
Rendering ==
  [o \in Name |-> [F \in SUBSET Column |->
     [gives |-> Gives(o, F), reads |-> Reads(o, F), whole |-> InnerComplete(o, F)]]]

Made(q) ==
  \/ /\ q.name \in DOMAIN required
     /\ q.gives = Rendering[q.name][required[q.name]].gives
     /\ q.reads = Rendering[q.name][required[q.name]].reads
     /\ q.whole = Rendering[q.name][required[q.name]].whole
  \/ dynamic /\ q.name = DateSpine /\ q.gives = Column /\ q.reads = {} /\ q.whole
  \/ q.name \in named \ DOMAIN required /\ Cols(q.name) = {} /\ q.reads = {} /\ q.whole

AllMade == \A k \in DOMAIN ctes : Made(ctes[k])

SpineFirst ==
  (/\ dynamic /\ phase \in {"render", "done"}
   /\ \E o \in DOMAIN required : mdl.kind[o] = "cumulative")
  => ctes # <<>> /\ ctes[1].name = DateSpine /\ ctes[1].gives = Column

\* Nothing gets lost from one phase to the next.
Covered ==
  /\ phase = "choose" => DOMAIN required = {} /\ order = <<>>
  /\ phase \in {"choose", "order", "count"} => ctes = <<>> /\ spare = {}
  /\ phase = "count" => \A o \in DOMAIN required : \E i \in DOMAIN order : order[i] = o
  /\ phase = "render" =>
       /\ \A o \in DOMAIN required : o \in Names \/ \E i \in DOMAIN order : order[i] = o
       /\ named \subseteq DOMAIN required \cup Names \cup spare /\ spare \subseteq named \ DOMAIN required
  /\ phase = "done" => named \subseteq Names

RewriteInv ==
  /\ RewriteTypeOK /\ (phase # "choose" => Chosen)
  /\ Once /\ Sorted /\ AllMade /\ SpineFirst
  /\ Covered /\ DynamicWithinStatic

-----------------------------------------------------------------------------
(* The first steps: what is chosen, and in which order.                    *)

\* No step changes the manifest or the statement.
LEMMA InputFixed ==
  ASSUME [RewriteNext]_rewriteVars
  PROVE  UNCHANGED <<mdl, dynamic, named, counted>>
BY DEF RewriteNext, rewriteVars, input, Choose, ChooseStatic, ChooseDynamic, OrderNext, CountRows,
  BeginRender, Render, RenderDummy, Finish

\* What is said of the manifest and the statement stays true.
LEMMA ManifestFixed ==
  ASSUME UNCHANGED <<mdl, dynamic, named, counted>>
  PROVE  /\ Queryable' = Queryable /\ StaticObjects' = StaticObjects
         /\ LineageFields' = LineageFields /\ StaticLinks' = StaticLinks /\ AllLinks' = AllLinks
         /\ \A o : Cols(o)' = Cols(o) /\ Chained(o)' = Chained(o) /\ IsModel(o)' = IsModel(o)
         /\ Rendering' = Rendering /\ (ManifestOK' <=> ManifestOK)
<1>1. \A o, forms : Cols(o)' = Cols(o) /\ Formed(o, forms)' = Formed(o, forms)
  BY DEF Formed, Cols
<1>2. \A o : Chained(o)' = Chained(o) /\ IsModel(o)' = IsModel(o)
  BY <1>1 DEF Chained, IsModel
<1>3. \A o : OnModel(o)' = OnModel(o) /\ Origin(o)' = Origin(o)
  BY <1>2 DEF OnModel, Origin
<1>4. \A o : RequiredObjects(o)' = RequiredObjects(o)
  BY <1>2, <1>3 DEF RequiredObjects
<1>5. \A o, c : Sources(o, c)' = Sources(o, c)
  BY <1>1, <1>2, <1>3 DEF Sources
<1>6. Queryable' = Queryable
  BY DEF Queryable
<1>7. StaticObjects' = StaticObjects
  BY <1>4 DEF StaticObjects
<1>8. LineageFields' = LineageFields
  BY <1>1, <1>5 DEF LineageFields
<1>9. StaticLinks' = StaticLinks
  BY <1>4, <1>7 DEF StaticLinks
<1>10. LineageLinks(LineageFields)' = LineageLinks(LineageFields)
  BY <1>5, <1>8 DEF LineageLinks
<1>11. AllLinks' = AllLinks
  BY <1>9, <1>10 DEF AllLinks
<1>12. \A o, F : ChainReads(o, F)' = ChainReads(o, F)
  <2>1. \A o, c : Hops(o, c)' = Hops(o, c)
    BY <1>3 DEF Hops
  <2>2. \A o, c : OutColumn(o, c)' = OutColumn(o, c) /\ InColumn(o, c)' = InColumn(o, c)
    BY DEF OutColumn, InColumn
  <2>3. \A o, F : Reached(o, F)' = Reached(o, F)
    BY <1>2 DEF Reached
  <2>. QED  BY <1>3, <2>1, <2>2, <2>3 DEF ChainReads
<1>13. \A o, F : Scope(o, F)' = Scope(o, F) /\ Innermost(o, F)' = Innermost(o, F)
                 /\ Reached(o, F)' = Reached(o, F)
  BY <1>1, <1>2 DEF Scope, Innermost, Reached
<1>14. \A o : Calculated(o)' = Calculated(o)
  BY <1>1, <1>2 DEF Calculated
<1>15. \A o, F : InnerComplete(o, F)' <=> InnerComplete(o, F)
  BY <1>1, <1>2, <1>12, <1>13, <1>14 DEF InnerComplete
<1>16. \A o, F : Gives(o, F)' = Gives(o, F)
  BY <1>1, <1>2, <1>13 DEF Gives
<1>17. \A o, F : Reads(o, F)' = Reads(o, F)
  <2>. SUFFICES ASSUME NEW o, NEW F  PROVE Reads(o, F)' = Reads(o, F)
    OBVIOUS
  <2>. DEFINE model == {r \in ChainReads(o, F) : r[1] # o}
              cumulative == {<<DateSpine, Key>>} \cup {Origin(o)} \X UNION {mdl.uses[o][c] : c \in Cols(o)}
              metric == ChainReads(o, F) \cup {Origin(o)} \X ((F \cap Formed(o, {"plain"}))
                          \cup UNION {mdl.uses[o][c] : c \in F \cap Formed(o, {"derived"})})
  <2>1. /\ model' = model /\ cumulative' = cumulative /\ metric' = metric
        /\ mdl.kind[o]' = mdl.kind[o] /\ IsModel(o)' = IsModel(o)
    BY <1>1, <1>2, <1>3, <1>12
  <2>2. Reads(o, F) = CASE mdl.kind[o] = "spine" -> {} [] IsModel(o) -> model
                        [] mdl.kind[o] = "cumulative" -> cumulative [] OTHER -> metric
    BY DEF Reads
  <2>3. Reads(o, F)' = CASE mdl.kind[o]' = "spine" -> {} [] IsModel(o)' -> model'
                         [] mdl.kind[o]' = "cumulative" -> cumulative' [] OTHER -> metric'
    BY DEF Reads
  <2>. HIDE DEF model, cumulative, metric
  <2>. QED  BY <2>1, <2>2, <2>3
<1>18. Rendering' = Rendering
  BY <1>15, <1>16, <1>17 DEF Rendering
<1>19. \A o : Offered(o)' = Offered(o)
  BY <1>1 DEF Offered
<1>20. ManifestOK' <=> ManifestOK
  <2>1. \A o : ColumnsOK(o)' <=> ColumnsOK(o)
    BY <1>1, <1>2, <1>3, <1>19 DEF ColumnsOK
  <2>2. \A o : ModelOK(o)' <=> ModelOK(o)
    BY <1>1, <1>14 DEF ModelOK
  <2>3. \A o : MetricOK(o)' <=> MetricOK(o)
    BY <1>1, <1>2, <1>3, <1>6, <1>19 DEF MetricOK
  <2>. QED  BY <1>1, <1>2, <1>6, <2>1, <2>2, <2>3 DEF ManifestOK
<1>. QED  BY <1>1, <1>2, <1>6, <1>7, <1>8, <1>9, <1>11, <1>18, <1>20

\* An object over columns has all of them required, if it is named.
LEMMA NamedRequired ==
  ASSUME ManifestOK, named \subseteq Queryable, Chosen, NEW o \in named, o \notin DOMAIN required
  PROVE  dynamic /\ Cols(o) = {}
<1>1. dynamic
  BY StaticClosed DEF Chosen
<1>2. ASSUME NEW c \in Cols(o)  PROVE FALSE
  <2>1. <<o, c>> \in LineageFields
    BY LineageClosed
  <2>. QED  BY <1>1, <2>1 DEF Chosen
<1>. QED  BY <1>1, <1>2

\* On the dynamic path, what is linked is required, and is no date_spine.
LEMMA LinkedRequired ==
  ASSUME ManifestOK, named \subseteq Queryable, Chosen, dynamic, NEW p, NEW o, <<p, o>> \in AllLinks
  PROVE  p \in DOMAIN required /\ o \in DOMAIN required /\ o \in Queryable
<1>1. <<p, o>> \in LineageLinks(LineageFields)
  BY DEF AllLinks
<1>2. PICK c : <<o, c>> \in LineageFields
  BY <1>1, LinksAreStatic
<1>3. PICK u : <<p, u>> \in LineageFields
  BY <1>1, LinksAreStatic
<1>4. o \in Queryable
  BY <1>1, LinksAreStatic
<1>5. \A f \in LineageFields : f[1] \in DOMAIN required
  BY DEF Chosen
<1>. QED  BY <1>2, <1>3, <1>4, <1>5

\* Nothing is ordered, spare or written yet.
Blank == order = <<>> /\ spare = {} /\ ctes = <<>>

LEMMA BlankFacts ==
  ASSUME Blank'
  PROVE  /\ Range(order') = {} /\ Once' /\ Sorted' /\ AllMade' /\ Names' = {}
         /\ \A k \in DOMAIN ctes' : ctes'[k].name \in Name /\ ctes'[k].gives \subseteq Column
<1>1. /\ order' = <<>> /\ spare' = {} /\ ctes' = <<>>
      /\ DOMAIN order' = {} /\ DOMAIN ctes' = {} /\ order' \in Seq(DOMAIN required') /\ IsList(ctes')
  BY DEF Blank, IsList
<1>2. Names' = {} /\ Range(order') = {}
  BY <1>1 DEF Names, Range
<1>. QED  BY <1>1, <1>2 DEF Once, Sorted, AllMade

LEMMA ChooseStaticStep ==
  ASSUME RewriteInv, ChooseStatic
  PROVE  RewriteInv'
<1>. USE DEF ChooseStatic
<1>0. UNCHANGED <<mdl, dynamic, named, counted>>
  BY DEF input
<1>1. /\ ManifestOK /\ dynamic \in BOOLEAN /\ named \subseteq Queryable /\ counted \subseteq named
      /\ DOMAIN required = {} /\ Blank
  BY DEF RewriteInv, RewriteTypeOK, Covered, Blank
<1>2. Blank'
  BY <1>1 DEF Blank
<1>3. /\ Range(order') = {} /\ Once' /\ Sorted' /\ AllMade' /\ Names' = {}
      /\ \A k \in DOMAIN ctes' : ctes'[k].name \in Name /\ ctes'[k].gives \subseteq Column
  BY <1>2, BlankFacts
<1>4. /\ DOMAIN required' = StaticObjects /\ StaticObjects \subseteq Name
      /\ \A o \in StaticObjects : required'[o] \subseteq Column
  BY <1>1, StaticClosed, ColumnFacts
<1>5. phase' \in {"done", "failed", "order"} /\ (phase' = "done" => named = {})
  OBVIOUS
<1>6. RewriteTypeOK'
  BY <1>0, <1>1, <1>2, <1>3, <1>4, <1>5, ManifestFixed DEF RewriteTypeOK, Blank
<1>7. Chosen'
  BY <1>0, ManifestFixed DEF Chosen
<1>8. SpineFirst' /\ DynamicWithinStatic'
  BY <1>0 DEF SpineFirst, DynamicWithinStatic
<1>9. Covered'
  BY <1>0, <1>2, <1>3, <1>5 DEF Covered, Blank
<1>. QED  BY <1>3, <1>6, <1>7, <1>8, <1>9 DEF RewriteInv

LEMMA ChooseDynamicStep ==
  ASSUME RewriteInv, ChooseDynamic
  PROVE  RewriteInv'
<1>. DEFINE fields == LineageFields
<1>0. /\ UNCHANGED <<mdl, dynamic, named, counted, order, spare, ctes>> /\ phase = "choose" /\ dynamic
      /\ required' = [o \in {f[1] : f \in fields} |-> {f[2] : f \in {g \in fields : g[1] = o}}]
      /\ phase' \in {"failed", "order"} /\ (phase' = "failed" => Circular(LineageLinks(fields)))
  BY DEF ChooseDynamic, input
<1>1. /\ ManifestOK /\ named \subseteq Queryable /\ counted \subseteq named
      /\ DOMAIN required = {} /\ Blank
  BY <1>0 DEF RewriteInv, RewriteTypeOK, Covered, Blank
<1>2. Blank'
  BY <1>0, <1>1 DEF Blank
<1>3. /\ Range(order') = {} /\ Once' /\ Sorted' /\ AllMade' /\ Names' = {}
      /\ \A k \in DOMAIN ctes' : ctes'[k].name \in Name /\ ctes'[k].gives \subseteq Column
  BY <1>2, BlankFacts
<1>4. \A f \in fields : /\ f \in Field /\ f[1] \in Name /\ f[2] \in Column /\ f = <<f[1], f[2]>>
                        /\ f[1] \in Queryable \cap StaticObjects
  BY <1>1, LineageClosed DEF Field
<1>. HIDE DEF fields
<1>5. \A f \in fields : f[1] \in DOMAIN required' /\ f[2] \in required'[f[1]]
  BY <1>0
<1>6. ASSUME NEW o \in DOMAIN required'
      PROVE  /\ o \in Name /\ o \in Queryable \cap StaticObjects /\ required'[o] \subseteq Column
             /\ {o} \X required'[o] \subseteq fields /\ required'[o] # {}
  <2>1. PICK f \in fields : f[1] = o
    BY <1>0
  <2>2. required'[o] = {g[2] : g \in {h \in fields : h[1] = o}}
    BY <1>0
  <2>3. \A c \in required'[o] : <<o, c>> \in fields /\ c \in Column
    BY <1>4, <2>2
  <2>4. f[2] \in required'[o]
    BY <2>1, <2>2
  <2>5. o \in Name /\ o \in Queryable \cap StaticObjects
    BY <1>4, <2>1
  <2>6. ASSUME NEW x \in {o} \X required'[o]  PROVE x \in fields
    <3>1. x[2] \in required'[o] /\ x = <<o, x[2]>>
      OBVIOUS
    <3>. QED  BY <2>3, <3>1
  <2>. QED  BY <2>3, <2>4, <2>5, <2>6
<1>7. RewriteTypeOK'
  BY <1>0, <1>1, <1>2, <1>3, <1>6, ManifestFixed DEF RewriteTypeOK, Blank
<1>8. Chosen'
  BY <1>0, <1>5, <1>6, ManifestFixed DEF Chosen, fields
<1>9. SpineFirst'
  BY <1>0 DEF SpineFirst
<1>10. DynamicWithinStatic'
  <2>1. phase' = "failed" => Circular(StaticLinks)
    BY <1>0, <1>1, CircleIsStatic DEF fields
  <2>2. Circular(StaticLinks)' <=> Circular(StaticLinks)
    BY <1>0, ManifestFixed DEF Circular
  <2>. QED  BY <1>0, <1>6, <2>1, <2>2, ManifestFixed DEF DynamicWithinStatic
<1>11. Covered'
  BY <1>0, <1>2 DEF Covered, Blank
<1>. QED  BY <1>3, <1>7, <1>8, <1>9, <1>10, <1>11 DEF RewriteInv

LEMMA OrderStep ==
  ASSUME RewriteInv, OrderNext
  PROVE  RewriteInv'
<1>0. UNCHANGED <<mdl, dynamic, named, counted, required, spare, ctes>> /\ phase = "order"
  BY DEF OrderNext, input
<1>1. /\ ManifestOK /\ named \subseteq Queryable /\ Chosen
      /\ ctes = <<>> /\ spare = {} /\ RewriteTypeOK /\ Once /\ Sorted /\ Covered
  BY <1>0 DEF RewriteInv, RewriteTypeOK, Covered, Blank
<1>2. Links = AllLinks
  <2>. SUFFICES ASSUME dynamic  PROVE UNION {{o} \X required[o] : o \in DOMAIN required} = LineageFields
    BY DEF Links, AllLinks
  <2>1. \A f \in LineageFields : f[1] \in DOMAIN required /\ f[2] \in required[f[1]] /\ f = <<f[1], f[2]>>
    BY <1>1, LineageClosed DEF Chosen, Field
  <2>2. \A f \in LineageFields : f \in {f[1]} \X required[f[1]]
    BY <2>1
  <2>3. \A o \in DOMAIN required : {o} \X required[o] \subseteq LineageFields
    BY <1>1 DEF Chosen
  <2>. QED  BY <2>1, <2>2, <2>3
<1>3. order \in Seq(DOMAIN required) /\ (\A i, j \in DOMAIN order : order[i] = order[j] => i = j)
  BY <1>1 DEF Once
<1>4. Range(order) \subseteq DOMAIN required
  BY <1>1 DEF RewriteTypeOK
<1>5. AllMade' /\ SpineFirst' /\ DynamicWithinStatic' /\ Chosen'
  <2>1. phase' # "failed" /\ phase' \notin {"render", "done"} /\ phase' \in {"count", "order"}
    BY <1>0 DEF OrderNext
  <2>2. AllMade' /\ SpineFirst'
    BY <1>0, <1>1, <2>1 DEF AllMade, SpineFirst
  <2>3. DynamicWithinStatic' /\ Chosen'
    BY <1>0, <1>1, <2>1, ManifestFixed DEF DynamicWithinStatic, Chosen, RewriteInv
  <2>. QED  BY <2>2, <2>3
<1>6. CASE DOMAIN required \ Range(order) = {}
  <2>1. phase' = "count" /\ order' = order
    BY <1>6 DEF OrderNext
  <2>2. RewriteTypeOK' /\ Once' /\ Sorted'
    BY <1>0, <1>1, <2>1, ManifestFixed DEF RewriteTypeOK, Once, Sorted, Names
  <2>3. \A o \in DOMAIN required : \E i \in DOMAIN order : order[i] = o
    BY <1>6 DEF Range
  <2>4. Covered'
    BY <1>0, <1>1, <2>1, <2>3 DEF Covered
  <2>. QED  BY <1>5, <2>2, <2>4 DEF RewriteInv
<1>7. CASE DOMAIN required \ Range(order) # {}
  <2>. DEFINE left == DOMAIN required \ Range(order)
  <2>1. phase' = "order"
    BY <1>0, <1>7 DEF OrderNext
  <2>2. PICK o \in left : (\A p \in left : <<p, o>> \notin AllLinks) /\ order' = Append(order, o)
    BY <1>2, <1>7 DEF OrderNext
  <2>3. /\ order' \in Seq(DOMAIN required) /\ Len(order') = Len(order) + 1
        /\ order'[Len(order) + 1] = o /\ \A i \in 1 .. Len(order) : order'[i] = order[i]
    BY <1>3, <2>2
  <2>4. \A i \in 1 .. Len(order) : order[i] # o
    BY <1>3, <2>2 DEF Range
  <2>5. Range(order') \subseteq DOMAIN required'
    BY <1>0, <2>3 DEF Range
  <2>6. RewriteTypeOK'
    BY <1>0, <1>1, <2>1, <2>5, ManifestFixed DEF RewriteTypeOK
  <2>7. Names' = {}
    BY <1>0, <1>1 DEF Names
  <2>8. Once'
    BY <1>0, <1>1, <1>3, <2>3, <2>4, <2>7 DEF Once
  <2>9. ASSUME NEW i \in DOMAIN order', NEW p \in DOMAIN required, <<p, order'[i]>> \in AllLinks
        PROVE  \E j \in 1 .. i - 1 : order'[j] = p
    <3>1. CASE i = Len(order) + 1
      <4>1. p \in Range(order)
        BY <2>2, <2>3, <2>9, <3>1
      <4>. QED  BY <1>3, <2>3, <3>1, <4>1 DEF Range
    <3>2. CASE i # Len(order) + 1
      <4>1. i \in 1 .. Len(order) /\ i \in DOMAIN order /\ order'[i] = order[i]
        BY <1>3, <2>3, <3>2
      <4>2. p \notin Names
        BY <1>1 DEF Names
      <4>3. \E j \in 1 .. i - 1 : order[j] = p
        BY <1>1, <2>9, <4>1, <4>2 DEF Sorted
      <4>. QED  BY <1>3, <2>3, <4>1, <4>3
    <3>. QED  BY <3>1, <3>2
  <2>10. Sorted'
    BY <1>0, <1>1, <2>9, ManifestFixed DEF Sorted
  <2>11. Covered'
    BY <1>0, <1>1, <2>1 DEF Covered
  <2>. QED  BY <1>1, <1>5, <2>6, <2>8, <2>10, <2>11 DEF RewriteInv
<1>. QED  BY <1>6, <1>7

LEMMA CountStep ==
  ASSUME RewriteInv, CountRows
  PROVE  RewriteInv'
<1>0. /\ UNCHANGED <<mdl, dynamic, named, counted, phase, spare, ctes>> /\ phase = "count" /\ dynamic
      /\ ManifestOK /\ named \subseteq Queryable /\ counted \subseteq named /\ Chosen
      /\ ctes = <<>> /\ spare = {} /\ RewriteTypeOK /\ Once /\ Sorted /\ Covered /\ DynamicWithinStatic
  BY DEF CountRows, input, RewriteInv, RewriteTypeOK, Covered
<1>1. PICK o \in counted \ DOMAIN required :
        /\ required' = [p \in DOMAIN required \cup {o} |->
                          CASE p # o -> required[p]
                            [] p = o /\ IsModel(o) -> Cols(o) \ Calculated(o)
                            [] OTHER -> Cols(o)]
        /\ order' = Append(order, o)
  BY DEF CountRows
<1>2. o \in named /\ Cols(o) = {}
  BY <1>0, <1>1, NamedRequired
<1>3. /\ DOMAIN required' = DOMAIN required \cup {o} /\ required'[o] = {}
      /\ \A p \in DOMAIN required : required'[p] = required[p]
  BY <1>1, <1>2
<1>4. o \in Queryable \cap StaticObjects /\ o \in Name
  BY <1>0, <1>2, StaticClosed DEF Queryable
<1>5. /\ order \in Seq(DOMAIN required) /\ (\A i, j \in DOMAIN order : order[i] = order[j] => i = j)
      /\ \A i \in 1 .. Len(order) : order[i] \in DOMAIN required /\ order[i] # o
  BY <1>0, <1>1 DEF Once
<1>6. order \in Seq(DOMAIN required')
  BY <1>3, <1>5, SeqMonotone
<1>7. /\ order' \in Seq(DOMAIN required') /\ Len(order') = Len(order) + 1
      /\ order'[Len(order) + 1] = o /\ \A i \in 1 .. Len(order) : order'[i] = order[i]
  BY <1>1, <1>3, <1>6
<1>8. RewriteTypeOK'
  <2>1. Range(order') \subseteq DOMAIN required'
    BY <1>7 DEF Range
  <2>2. DOMAIN required' \subseteq Name /\ \A p \in DOMAIN required' : required'[p] \subseteq Column
    BY <1>0, <1>3, <1>4 DEF RewriteTypeOK
  <2>. QED  BY <1>0, <2>1, <2>2, ManifestFixed DEF RewriteTypeOK
<1>9. Chosen'
  <2>1. \A f \in LineageFields : f[1] \in DOMAIN required' /\ f[2] \in required'[f[1]]
    BY <1>0, <1>3 DEF Chosen
  <2>2. ASSUME NEW p \in DOMAIN required'
        PROVE  /\ p \in Queryable \cap StaticObjects
               /\ {p} \X required'[p] \subseteq LineageFields
               /\ required'[p] = {} => p \in named /\ Cols(p) = {}
    BY <1>0, <1>2, <1>3, <1>4 DEF Chosen
  <2>. QED  BY <1>0, <2>1, <2>2, ManifestFixed DEF Chosen
<1>10. Once'
  BY <1>0, <1>5, <1>7 DEF Once, Names
<1>11. Sorted'
  <2>1. ASSUME NEW i \in DOMAIN order', NEW p \in DOMAIN required', <<p, order'[i]>> \in AllLinks
        PROVE  \E j \in 1 .. i - 1 : order'[j] = p
    <3>1. p \in DOMAIN required /\ order'[i] \in DOMAIN required
      BY <1>0, <2>1, LinkedRequired
    <3>2. i \in 1 .. Len(order) /\ i \in DOMAIN order /\ order'[i] = order[i]
      BY <1>1, <1>5, <1>7, <3>1
    <3>3. p \notin Names
      BY <1>0 DEF Names
    <3>4. \E j \in 1 .. i - 1 : order[j] = p
      BY <1>0, <2>1, <3>1, <3>2, <3>3 DEF Sorted
    <3>. QED  BY <1>5, <1>7, <3>2, <3>4
  <2>. QED  BY <1>0, <2>1, ManifestFixed DEF Sorted
<1>12. AllMade' /\ SpineFirst'
  BY <1>0 DEF AllMade, SpineFirst
<1>13. Covered'
  <2>1. ASSUME NEW p \in DOMAIN required'  PROVE \E i \in DOMAIN order' : order'[i] = p
    <3>1. CASE p = o
      BY <1>5, <1>7, <3>1
    <3>2. CASE p # o
      <4>1. PICK i \in DOMAIN order : order[i] = p
        BY <1>0, <1>3, <3>2 DEF Covered
      <4>. QED  BY <1>5, <1>7, <4>1
    <3>. QED  BY <3>1, <3>2
  <2>. QED  BY <1>0, <2>1 DEF Covered
<1>14. DynamicWithinStatic'
  BY <1>0, <1>3, <1>4, ManifestFixed DEF DynamicWithinStatic
<1>. QED  BY <1>8, <1>9, <1>10, <1>11, <1>12, <1>13, <1>14 DEF RewriteInv

-----------------------------------------------------------------------------
(* The WITH queries.                                                       *)

\* What a rendering gives.
LEMMA GivesFacts ==
  ASSUME ManifestOK, NEW o \in Name, NEW F \in SUBSET Column
  PROVE  /\ Gives(o, F) \subseteq Column /\ Cols(o) \cap F \subseteq Gives(o, F)
         /\ Cols(o) = {} => Gives(o, F) = Column /\ InnerComplete(o, F)
<1>1. /\ Cols(o) \subseteq Column
      /\ \A c \in Cols(o) : \/ c \in Formed(o, {"plain"}) \/ c \in Formed(o, {"renamed"})
                            \/ c \in Formed(o, {"derived"}) \/ c \in Chained(o)
      /\ \A forms : Formed(o, forms) \subseteq Cols(o)
  BY ColumnFacts
<1>2. Scope(o, F) \subseteq Cols(o) /\ Reached(o, F) \subseteq Cols(o)
  <2>1. Formed(o, {"plain"}) \subseteq Cols(o) /\ Formed(o, {"renamed", "derived"}) \subseteq Cols(o)
    BY <1>1
  <2>. QED  BY <2>1 DEF Scope, Reached, Chained, Formed
<1>3. Cols(o) \cap F \subseteq Scope(o, F) \cup Reached(o, F)
  <2>1. Formed(o, {"renamed"}) \cup Formed(o, {"derived"}) \subseteq Formed(o, {"renamed", "derived"})
    BY DEF Formed
  <2>. QED  BY <1>1, <2>1 DEF Scope, Reached
<1>4. CASE Cols(o) = {}
  BY <1>4 DEF Gives, InnerComplete
<1>5. CASE Cols(o) # {}
  <2>1. \/ Gives(o, F) = Scope(o, F) \cup Reached(o, F)
        \/ Gives(o, F) = Cols(o)
        \/ Gives(o, F) = F \cap Cols(o)
    BY <1>5, Zenon DEF Gives, IsModel
  <2>. QED  BY <1>1, <1>2, <1>3, <1>5, <2>1
<1>. QED  BY <1>4, <1>5

\* date_spine reads nothing and gives whatever is asked of it.
LEMMA SpineFacts ==
  ASSUME ManifestOK, NEW joins
  PROVE  LET q == Query(DateSpine, {}, joins)
         IN  /\ DateSpine \notin Queryable /\ DateSpine \in Name
             /\ q.name = DateSpine /\ q.gives = Column /\ q.reads = {} /\ q.whole
<1>1. DateSpine \in Name /\ mdl.kind[DateSpine] = "spine"
  BY RewriteAssumption DEF ManifestOK
<1>2. DateSpine \notin Queryable /\ Cols(DateSpine) = {}
  BY <1>1, OriginFacts DEF Queryable
<1>3. Gives(DateSpine, {}) = Column /\ InnerComplete(DateSpine, {})
  BY <1>1, <1>2, GivesFacts
<1>4. Reads(DateSpine, {}) = {}
  BY <1>1 DEF Reads, IsModel
<1>. QED  BY <1>1, <1>2, <1>3, <1>4 DEF Query

LEMMA BeginStep ==
  ASSUME RewriteInv, BeginRender
  PROVE  RewriteInv'
<1>0. /\ UNCHANGED <<mdl, dynamic, named, counted, required, order>> /\ phase = "count" /\ phase' = "render"
      /\ spare' = named \ Range(order)
      /\ ManifestOK /\ named \subseteq Queryable /\ counted \subseteq named /\ Chosen
      /\ ctes = <<>> /\ RewriteTypeOK /\ Once /\ Sorted /\ Covered /\ DynamicWithinStatic
  BY DEF BeginRender, input, RewriteInv, RewriteTypeOK, Covered
<1>1. Range(order) = DOMAIN required /\ \A o \in DOMAIN required : \E i \in DOMAIN order : order[i] = o
  BY <1>0 DEF Covered, Range, RewriteTypeOK
<1>. DEFINE spine == Query(DateSpine, {}, {})
            needed == dynamic /\ \E o \in DOMAIN required : mdl.kind[o] = "cumulative"
<1>2. ctes' = IF needed THEN <<spine>> ELSE <<>>
  BY <1>1 DEF BeginRender
<1>3. /\ DateSpine \notin Queryable /\ DateSpine \in Name
      /\ spine.name = DateSpine /\ spine.gives = Column /\ spine.reads = {} /\ spine.whole
  BY <1>0, SpineFacts
<1>. HIDE DEF spine
<1>4. /\ DOMAIN ctes' = IF needed THEN {1} ELSE {}
      /\ IsList(ctes') /\ \A k \in DOMAIN ctes' : k = 1 /\ ctes'[k] = spine /\ dynamic
  <2>1. CASE needed
    <3>1. ctes' = <<spine>> /\ DOMAIN ctes' = {1} /\ ctes'[1] = spine
      BY <1>2, <2>1
    <3>2. IsList(ctes')
      BY <3>1 DEF IsList
    <3>. QED  BY <2>1, <3>1, <3>2
  <2>2. CASE ~needed
    <3>1. ctes' = <<>> /\ DOMAIN ctes' = {}
      BY <1>2, <2>2
    <3>2. IsList(ctes')
      BY <3>1 DEF IsList
    <3>. QED  BY <2>2, <3>1, <3>2
  <2>. QED  BY <2>1, <2>2
<1>5. Names' \subseteq {DateSpine} /\ (Names' # {} => dynamic)
  BY <1>3, <1>4 DEF Names
<1>6. \A o \in DOMAIN required : dynamic => o # DateSpine
  BY <1>0, <1>3 DEF Chosen
<1>7. RewriteTypeOK'
  BY <1>0, <1>3, <1>4, ManifestFixed DEF RewriteTypeOK
<1>8. Chosen' /\ DynamicWithinStatic'
  BY <1>0, ManifestFixed DEF Chosen, DynamicWithinStatic
<1>9. Once'
  <2>1. spare' \cap Names' = {}
    BY <1>0, <1>3, <1>5
  <2>2. \A i \in DOMAIN order : order[i] \notin Names'
    <3>1. \A i \in DOMAIN order : order[i] \in DOMAIN required
      BY <1>0 DEF Once
    <3>. QED  BY <1>5, <1>6, <3>1
  <2>3. \A i, j \in DOMAIN ctes' : ctes'[i].name = ctes'[j].name => i = j
    BY <1>4
  <2>. QED  BY <1>0, <1>4, <2>1, <2>2, <2>3 DEF Once
<1>10. Sorted'
  <2>1. \A i \in DOMAIN order : \A p \in DOMAIN required :
          <<p, order[i]>> \in AllLinks => \E j \in 1 .. i - 1 : order[j] = p
    BY <1>0 DEF Sorted, Names
  <2>2. \A k \in DOMAIN ctes' : \A p \in DOMAIN required : <<p, ctes'[k].name>> \notin AllLinks
    BY <1>0, <1>3, <1>4, LinkedRequired
  <2>. QED  BY <1>0, <2>1, <2>2, ManifestFixed DEF Sorted
<1>11. AllMade'
  BY <1>0, <1>3, <1>4 DEF AllMade, Made
<1>12. SpineFirst'
  BY <1>0, <1>2, <1>3, <1>4 DEF SpineFirst
<1>13. Covered'
  BY <1>0, <1>1 DEF Covered
<1>. QED  BY <1>7, <1>8, <1>9, <1>10, <1>11, <1>12, <1>13 DEF RewriteInv

\* One more WITH query, under a new name.
LEMMA OneMore ==
  ASSUME IsList(ctes), NEW q, ctes' = Append(ctes, q), q.name \notin Names,
         \A i, j \in DOMAIN ctes : ctes[i].name = ctes[j].name => i = j
  PROVE  /\ IsList(ctes') /\ Names' = Names \cup {q.name}
         /\ \A i, j \in DOMAIN ctes' : ctes'[i].name = ctes'[j].name => i = j
         /\ Len(ctes) \in Nat /\ DOMAIN ctes = 1 .. Len(ctes) /\ DOMAIN ctes' = 1 .. Len(ctes) + 1
         /\ \A k \in DOMAIN ctes : ctes'[k] = ctes[k]
         /\ ctes'[Len(ctes) + 1] = q /\ ctes' # <<>>
<1>1. /\ IsList(ctes') /\ Len(ctes) \in Nat /\ DOMAIN ctes = 1 .. Len(ctes)
      /\ DOMAIN ctes' = 1 .. Len(ctes) + 1 /\ Len(ctes') = Len(ctes) + 1
      /\ \A k \in DOMAIN ctes : ctes'[k] = ctes[k]
      /\ ctes'[Len(ctes) + 1] = q
  BY ListAppend
<1>2. \A k \in DOMAIN ctes' : k \in DOMAIN ctes \/ k = Len(ctes) + 1
  BY <1>1
<1>3. \A k \in DOMAIN ctes : ctes[k].name # q.name
  BY DEF Names
<1>4. \A i, j \in DOMAIN ctes' : ctes'[i].name = ctes'[j].name => i = j
  BY <1>1, <1>2, <1>3
<1>5. Names' = Names \cup {q.name}
  <2>1. Names' \subseteq Names \cup {q.name}
    BY <1>1, <1>2 DEF Names
  <2>2. Names \subseteq Names'
    BY <1>1 DEF Names
  <2>3. Len(ctes) + 1 \in DOMAIN ctes'
    BY <1>1
  <2>4. q.name \in Names'
    BY <1>1, <2>3 DEF Names
  <2>. QED  BY <2>1, <2>2, <2>4
<1>6. ctes' # <<>>
  BY <1>1
<1>. QED  BY <1>1, <1>4, <1>5, <1>6

\* Everything that a new query is linked to is written: so it stays.
LEMMA StaysSorted ==
  ASSUME IsList(ctes), NEW q, ctes' = Append(ctes, q), q.name \notin Names,
         \A i, j \in DOMAIN ctes : ctes[i].name = ctes[j].name => i = j,
         Sorted, UNCHANGED <<mdl, dynamic, named, counted, required>>,
         \A p \in DOMAIN required : <<p, q.name>> \in AllLinks => p \in Names
  PROVE  \A k \in DOMAIN ctes' : \A p \in DOMAIN required' :
           <<p, ctes'[k].name>> \in AllLinks' => \E j \in 1 .. k - 1 : ctes'[j].name = p
<1>1. /\ Len(ctes) \in Nat /\ DOMAIN ctes = 1 .. Len(ctes) /\ DOMAIN ctes' = 1 .. Len(ctes) + 1
      /\ \A k \in DOMAIN ctes : ctes'[k] = ctes[k]
      /\ ctes'[Len(ctes) + 1] = q
  BY OneMore
<1>2. AllLinks' = AllLinks
  BY ManifestFixed
<1>3. ASSUME NEW k \in DOMAIN ctes', NEW p \in DOMAIN required, <<p, ctes'[k].name>> \in AllLinks
      PROVE  \E j \in 1 .. k - 1 : ctes'[j].name = p
  <2>1. CASE k = Len(ctes) + 1
    <3>1. p \in Names
      BY <1>1, <1>3, <2>1
    <3>2. PICK j \in DOMAIN ctes : ctes[j].name = p
      BY <3>1 DEF Names
    <3>3. ctes'[j].name = p /\ j \in 1 .. k - 1
      BY <1>1, <2>1, <3>2
    <3>. QED  BY <3>3
  <2>2. CASE k # Len(ctes) + 1
    <3>1. k \in DOMAIN ctes /\ ctes'[k] = ctes[k]
      BY <1>1, <2>2
    <3>2. PICK j \in 1 .. k - 1 : ctes[j].name = p
      BY <1>3, <3>1 DEF Sorted
    <3>3. j \in DOMAIN ctes
      BY <1>1, <3>1
    <3>. QED  BY <1>1, <3>2, <3>3
  <2>. QED  BY <2>1, <2>2
<1>. QED  BY <1>2, <1>3

LEMMA RenderStep ==
  ASSUME RewriteInv, Render
  PROVE  RewriteInv'
<1>. DEFINE o == Head(order)
            F == required[o]
<1>0. /\ UNCHANGED <<mdl, dynamic, named, counted, phase, required, spare>> /\ phase = "render"
      /\ order # <<>> /\ order' = Tail(order)
      /\ ManifestOK /\ named \subseteq Queryable /\ counted \subseteq named /\ Chosen
      /\ RewriteTypeOK /\ Once /\ Sorted /\ Covered /\ AllMade /\ SpineFirst /\ DynamicWithinStatic
  BY DEF Render, input, RewriteInv, RewriteTypeOK
<1>1. PICK joins : ctes' = Append(ctes, Query(o, F, joins))
  BY DEF Render
<1>. DEFINE q == Query(o, F, joins)
<1>2. /\ order \in Seq(DOMAIN required) /\ Len(order) \in Nat /\ Len(order) > 0
      /\ o = order[1] /\ 1 \in DOMAIN order /\ o \in DOMAIN required
      /\ order' \in Seq(DOMAIN required) /\ Len(order') = Len(order) - 1
      /\ \A i \in 1 .. Len(order) - 1 : order'[i] = order[i + 1]
  BY <1>0 DEF Once
<1>. HIDE DEF o
<1>3. /\ IsList(ctes) /\ (\A i, j \in DOMAIN ctes : ctes[i].name = ctes[j].name => i = j)
      /\ (\A i, j \in DOMAIN order : order[i] = order[j] => i = j)
      /\ (\A i \in DOMAIN order : order[i] \notin Names)
      /\ spare \cap Names = {}
  BY <1>0 DEF Once
<1>4. /\ o \in Name /\ F \in SUBSET Column
      /\ q.name = o /\ q.gives = Gives(o, F) /\ q.reads = Reads(o, F) /\ q.whole = InnerComplete(o, F)
  BY <1>0, <1>2 DEF RewriteTypeOK, Query
<1>5. q.gives \subseteq Column
  BY <1>0, <1>4, GivesFacts
<1>6. o \notin Names
  BY <1>2, <1>3
<1>. HIDE DEF q, F
<1>7. ctes' = Append(ctes, q)
  BY <1>1 DEF q, F
<1>8. /\ IsList(ctes') /\ Names' = Names \cup {o}
      /\ \A i, j \in DOMAIN ctes' : ctes'[i].name = ctes'[j].name => i = j
      /\ Len(ctes) \in Nat /\ DOMAIN ctes = 1 .. Len(ctes) /\ DOMAIN ctes' = 1 .. Len(ctes) + 1
      /\ \A k \in DOMAIN ctes : ctes'[k] = ctes[k]
      /\ ctes'[Len(ctes) + 1] = q /\ ctes' # <<>>
  BY <1>3, <1>4, <1>6, <1>7, OneMore
<1>9. \A k \in DOMAIN ctes' : k \in DOMAIN ctes \/ ctes'[k] = q
  BY <1>8
<1>10. RewriteTypeOK'
  <2>1. Range(order') \subseteq DOMAIN required
    BY <1>2 DEF Range
  <2>2. \A k \in DOMAIN ctes' : ctes'[k].name \in Name /\ ctes'[k].gives \subseteq Column
    BY <1>0, <1>4, <1>5, <1>8, <1>9 DEF RewriteTypeOK
  <2>. QED  BY <1>0, <2>1, <2>2, ManifestFixed DEF RewriteTypeOK
<1>11. Chosen' /\ DynamicWithinStatic'
  BY <1>0, ManifestFixed DEF Chosen, DynamicWithinStatic
<1>12. \A i \in DOMAIN order' : i \in 1 .. Len(order) - 1 /\ i + 1 \in DOMAIN order /\ order'[i] = order[i + 1]
  BY <1>2
<1>13. Once'
  <2>1. \A i, j \in DOMAIN order' : order'[i] = order'[j] => i = j
    BY <1>3, <1>12
  <2>2. \A i \in DOMAIN order' : order'[i] \notin Names'
    BY <1>2, <1>3, <1>8, <1>12
  <2>3. spare' \cap Names' = {}
    BY <1>0, <1>2, <1>3, <1>8 DEF Covered
  <2>. QED  BY <1>0, <1>2, <1>8, <2>1, <2>2, <2>3 DEF Once
<1>14. Sorted'
  <2>1. \A p \in DOMAIN required : <<p, o>> \in AllLinks => p \in Names
    BY <1>0, <1>2 DEF Sorted
  <2>2. \A k \in DOMAIN ctes' : \A p \in DOMAIN required' :
          <<p, ctes'[k].name>> \in AllLinks' => \E j \in 1 .. k - 1 : ctes'[j].name = p
    BY <1>0, <1>3, <1>4, <1>6, <1>7, <2>1, StaysSorted
  <2>3. ASSUME NEW i \in DOMAIN order', NEW p \in DOMAIN required, <<p, order'[i]>> \in AllLinks, p \notin Names'
        PROVE  \E j \in 1 .. i - 1 : order'[j] = p
    <3>0. i + 1 \in DOMAIN order /\ <<p, order[i + 1]>> \in AllLinks /\ p \notin Names /\ (i + 1) - 1 = i
      BY <1>8, <1>12, <2>3
    <3>1. PICK j \in 1 .. i : order[j] = p
      <4>1. \E j \in 1 .. (i + 1) - 1 : order[j] = p
        BY <1>0, <3>0 DEF Sorted
      <4>. QED  BY <3>0, <4>1
    <3>2. j # 1
      BY <1>2, <1>8, <2>3, <3>1
    <3>3. j - 1 \in 1 .. i - 1 /\ j - 1 \in 1 .. Len(order) - 1 /\ (j - 1) + 1 = j
      BY <1>2, <1>12, <2>3, <3>1, <3>2
    <3>. QED  BY <1>2, <3>1, <3>3
  <2>. QED  BY <1>0, <2>2, <2>3, ManifestFixed DEF Sorted
<1>15. AllMade'
  <2>1. q.name \in DOMAIN required /\ q.gives = Rendering[q.name][required[q.name]].gives
        /\ q.reads = Rendering[q.name][required[q.name]].reads
        /\ q.whole = Rendering[q.name][required[q.name]].whole
    BY <1>2, <1>4 DEF Rendering, F
  <2>2. Made(q)
    BY <2>1 DEF Made
  <2>3. \A x : Made(x)' <=> Made(x)
    BY <1>0, ManifestFixed DEF Made
  <2>. QED  BY <1>0, <1>8, <1>9, <2>2, <2>3 DEF AllMade
<1>16. SpineFirst'
  <2>. SUFFICES ASSUME dynamic, \E p \in DOMAIN required : mdl.kind[p] = "cumulative"
                PROVE  ctes'[1].name = DateSpine /\ ctes'[1].gives = Column
    BY <1>0, <1>8 DEF SpineFirst
  <2>1. ctes # <<>> /\ ctes[1].name = DateSpine /\ ctes[1].gives = Column
    BY <1>0 DEF SpineFirst
  <2>2. 1 \in DOMAIN ctes
    BY <1>3, <2>1 DEF IsList
  <2>. QED  BY <1>8, <2>1, <2>2
<1>17. Covered'
  <2>1. ASSUME NEW p \in DOMAIN required, p \notin Names'  PROVE \E i \in DOMAIN order' : order'[i] = p
    <3>1. PICK i \in DOMAIN order : order[i] = p
      BY <1>0, <1>8, <2>1 DEF Covered
    <3>2. i # 1
      BY <1>2, <1>8, <2>1, <3>1
    <3>3. i - 1 \in 1 .. Len(order) - 1 /\ (i - 1) + 1 = i
      BY <1>2, <3>1, <3>2
    <3>. QED  BY <1>2, <3>1, <3>3
  <2>2. named \subseteq DOMAIN required \cup Names' \cup spare /\ spare \subseteq named \ DOMAIN required
    BY <1>0, <1>8 DEF Covered
  <2>. QED  BY <1>0, <2>1, <2>2 DEF Covered
<1>. QED  BY <1>10, <1>11, <1>13, <1>14, <1>15, <1>16, <1>17 DEF RewriteInv

LEMMA DummyStep ==
  ASSUME RewriteInv, RenderDummy
  PROVE  RewriteInv'
<1>0. /\ UNCHANGED <<mdl, dynamic, named, counted, phase, required, order>> /\ phase = "render"
      /\ order = <<>>
      /\ ManifestOK /\ named \subseteq Queryable /\ counted \subseteq named /\ Chosen
      /\ RewriteTypeOK /\ Once /\ Sorted /\ Covered /\ AllMade /\ SpineFirst /\ DynamicWithinStatic
  BY DEF RenderDummy, input, RewriteInv, RewriteTypeOK
<1>1. PICK o \in spare : ctes' = Append(ctes, Dummy(o)) /\ spare' = spare \ {o}
  BY DEF RenderDummy
<1>. DEFINE q == Dummy(o)
<1>2. q.name = o /\ q.gives = {} /\ q.reads = {} /\ q.whole
  BY DEF Dummy
<1>. HIDE DEF q
<1>3. o \in named \ DOMAIN required /\ o \in Name
  BY <1>0, <1>1 DEF Covered, Queryable
<1>4. dynamic /\ Cols(o) = {}
  BY <1>0, <1>3, NamedRequired
<1>5. /\ IsList(ctes) /\ (\A i, j \in DOMAIN ctes : ctes[i].name = ctes[j].name => i = j)
      /\ spare \cap Names = {} /\ o \notin Names /\ ctes' = Append(ctes, q)
  BY <1>0, <1>1 DEF Once, q
<1>6. /\ IsList(ctes') /\ Names' = Names \cup {o}
      /\ \A i, j \in DOMAIN ctes' : ctes'[i].name = ctes'[j].name => i = j
      /\ Len(ctes) \in Nat /\ DOMAIN ctes = 1 .. Len(ctes) /\ DOMAIN ctes' = 1 .. Len(ctes) + 1
      /\ \A k \in DOMAIN ctes : ctes'[k] = ctes[k]
      /\ ctes'[Len(ctes) + 1] = q /\ ctes' # <<>>
  BY <1>2, <1>5, OneMore
<1>7. \A k \in DOMAIN ctes' : k \in DOMAIN ctes \/ ctes'[k] = q
  BY <1>6
<1>8. RewriteTypeOK'
  <2>1. \A k \in DOMAIN ctes' : ctes'[k].name \in Name /\ ctes'[k].gives \subseteq Column
    BY <1>0, <1>2, <1>3, <1>6, <1>7 DEF RewriteTypeOK
  <2>. QED  BY <1>0, <1>1, <2>1, ManifestFixed DEF RewriteTypeOK
<1>9. Chosen' /\ DynamicWithinStatic'
  BY <1>0, ManifestFixed DEF Chosen, DynamicWithinStatic
<1>10. DOMAIN order' = {}
  BY <1>0
<1>11. Once'
  BY <1>0, <1>1, <1>5, <1>6, <1>10 DEF Once
<1>12. Sorted'
  <2>1. \A p \in DOMAIN required : <<p, o>> \notin AllLinks
    BY <1>0, <1>3, <1>4, LinkedRequired
  <2>2. \A k \in DOMAIN ctes' : \A p \in DOMAIN required' :
          <<p, ctes'[k].name>> \in AllLinks' => \E j \in 1 .. k - 1 : ctes'[j].name = p
    BY <1>0, <1>2, <1>5, <2>1, StaysSorted
  <2>. QED  BY <1>10, <2>2 DEF Sorted
<1>13. AllMade'
  <2>1. Made(q)
    BY <1>2, <1>3, <1>4 DEF Made
  <2>2. \A x : Made(x)' <=> Made(x)
    BY <1>0, ManifestFixed DEF Made
  <2>. QED  BY <1>0, <1>6, <1>7, <2>1, <2>2 DEF AllMade
<1>14. SpineFirst'
  <2>. SUFFICES ASSUME dynamic, \E p \in DOMAIN required : mdl.kind[p] = "cumulative"
                PROVE  ctes'[1].name = DateSpine /\ ctes'[1].gives = Column
    BY <1>0, <1>6 DEF SpineFirst
  <2>1. ctes # <<>> /\ ctes[1].name = DateSpine /\ ctes[1].gives = Column
    BY <1>0 DEF SpineFirst
  <2>2. 1 \in DOMAIN ctes
    BY <1>5, <2>1 DEF IsList
  <2>. QED  BY <1>6, <2>1, <2>2
<1>15. Covered'
  BY <1>0, <1>1, <1>6, <1>10 DEF Covered
<1>. QED  BY <1>8, <1>9, <1>11, <1>12, <1>13, <1>14, <1>15 DEF RewriteInv

LEMMA FinishStep ==
  ASSUME RewriteInv, Finish
  PROVE  RewriteInv'
<1>0. /\ UNCHANGED <<mdl, dynamic, named, counted, required, order, spare, ctes>>
      /\ phase = "render" /\ phase' = "done" /\ order = <<>> /\ spare = {}
      /\ ManifestOK /\ named \subseteq Queryable /\ Chosen /\ Covered /\ SpineFirst
      /\ RewriteTypeOK /\ Once /\ Sorted /\ AllMade /\ DynamicWithinStatic
  BY DEF Finish, input, RewriteInv, RewriteTypeOK
<1>1. DOMAIN required \subseteq Names /\ named \subseteq Names /\ Names' = Names
  BY <1>0 DEF Covered, Names
<1>2. RewriteTypeOK' /\ Once' /\ SpineFirst' /\ Covered'
  BY <1>0, <1>1, ManifestFixed DEF RewriteTypeOK, Once, SpineFirst, Covered
<1>3. Chosen' /\ Sorted' /\ AllMade' /\ DynamicWithinStatic'
  BY <1>0, <1>1, ManifestFixed DEF Chosen, Sorted, AllMade, Made, DynamicWithinStatic
<1>. QED  BY <1>2, <1>3 DEF RewriteInv

-----------------------------------------------------------------------------
(* The theorems.                                                           *)

LEMMA RewriteStart ==
  ASSUME ManifestOK, RequestInit
  PROVE  RewriteInv
<1>. USE DEF RequestInit
<1>1. Range(order) = {} /\ DOMAIN required = {} /\ DOMAIN ctes = {} /\ DOMAIN order = {} /\ Names = {}
  BY DEF Range, Names
<1>2. RewriteTypeOK
  BY <1>1 DEF RewriteTypeOK
<1>3. Once /\ Sorted /\ AllMade
  BY <1>1 DEF Once, Sorted, AllMade, IsList
<1>4. SpineFirst /\ Covered /\ DynamicWithinStatic
  BY <1>1 DEF SpineFirst, Covered, DynamicWithinStatic
<1>. QED  BY <1>2, <1>3, <1>4 DEF RewriteInv

LEMMA RewriteStep ==
  ASSUME RewriteInv, [RewriteNext]_rewriteVars
  PROVE  RewriteInv'
<1>1. ASSUME UNCHANGED rewriteVars  PROVE RewriteInv'
  <2>1. UNCHANGED <<mdl, dynamic, named, counted, phase, required, order, spare, ctes>>
    BY <1>1 DEF rewriteVars, input
  <2>2. RewriteTypeOK' /\ Once' /\ Covered'
    BY <2>1, ManifestFixed DEF RewriteInv, RewriteTypeOK, Once, Names, Covered
  <2>3. SpineFirst' /\ AllMade' /\ Sorted'
    BY <2>1, ManifestFixed DEF RewriteInv, SpineFirst, Names, AllMade, Made, Sorted
  <2>4. DynamicWithinStatic'
    <3>1. Circular(StaticLinks)' <=> Circular(StaticLinks)
      BY <2>1, ManifestFixed DEF Circular
    <3>. QED  BY <2>1, <3>1, ManifestFixed DEF RewriteInv, DynamicWithinStatic
  <2>5. (phase # "choose" => Chosen)'
    BY <2>1, ManifestFixed DEF RewriteInv, Chosen
  <2>. QED  BY <2>2, <2>3, <2>4, <2>5 DEF RewriteInv
<1>. QED  BY <1>1, ChooseStaticStep, ChooseDynamicStep, OrderStep, CountStep, BeginStep, RenderStep,
            DummyStep, FinishStep DEF RewriteNext, Choose

LEMMA RewriteCorrect == RewriteSpec => []RewriteInv
<1>1. ManifestOK /\ RequestInit => RewriteInv
  BY RewriteStart
<1>2. RewriteInv /\ [RewriteNext]_rewriteVars => RewriteInv'
  BY RewriteStep
<1>. QED  BY <1>1, <1>2, PTL DEF RewriteSpec

\* The dynamic path only leaves out, whatever the manifest and the statement.
THEOREM DynamicLeavesOut == RewriteSpec => []DynamicWithinStatic
<1>1. RewriteInv => DynamicWithinStatic
  BY DEF RewriteInv
<1>. QED  BY <1>1, RewriteCorrect, PTL

\* What is made of a named object has all its columns.
LEMMA NamedWhole ==
  ASSUME RewriteInv, phase # "choose", NEW o \in named, NEW k \in DOMAIN ctes, ctes[k].name = o
  PROVE  Cols(o) \subseteq ctes[k].gives
<1>0. ManifestOK /\ named \subseteq Queryable /\ RewriteTypeOK /\ Chosen /\ Made(ctes[k])
  BY DEF RewriteInv, RewriteTypeOK, AllMade
<1>1. o # DateSpine /\ o \in Name /\ Cols(o) \subseteq Column
  BY <1>0, SpineFacts, ColumnFacts DEF Queryable
<1>2. CASE o \in DOMAIN required /\ ctes[k].gives = Rendering[o][required[o]].gives
  <2>1. required[o] \in SUBSET Column
    BY <1>0, <1>2 DEF RewriteTypeOK
  <2>2. ctes[k].gives = Gives(o, required[o])
    BY <1>1, <1>2, <2>1 DEF Rendering
  <2>3. Cols(o) \subseteq required[o]
    <3>1. CASE ~dynamic
      BY <1>0, <1>2, <3>1 DEF Chosen
    <3>2. CASE dynamic
      <4>1. \A c \in Cols(o) : <<o, c>> \in LineageFields
        BY <1>0, LineageClosed
      <4>. QED  BY <1>0, <3>2, <4>1 DEF Chosen
    <3>. QED  BY <3>1, <3>2
  <2>. QED  BY <1>0, <1>1, <2>1, <2>2, <2>3, GivesFacts
<1>3. CASE Cols(o) = {}
  BY <1>3
<1>. QED  BY <1>0, <1>1, <1>2, <1>3 DEF Made

\* Every table the statement names is defined once, with all its columns.
THEOREM NamedTablesDefinedOnce == RewriteSpec => []NamedDefinedOnce
<1>1. ASSUME RewriteInv  PROVE NamedDefinedOnce
  <2>1. RewriteTypeOK /\ \A j, k \in DOMAIN ctes : ctes[j].name = ctes[k].name => j = k
    BY <1>1 DEF RewriteInv, Once
  <2>2. ASSUME phase = "done", NEW o \in named
        PROVE  \E k \in DOMAIN ctes : ctes[k].name = o /\ Cols(o) \subseteq ctes[k].gives
    <3>1. PICK k \in DOMAIN ctes : ctes[k].name = o
      BY <1>1, <2>2 DEF RewriteInv, Covered, Names
    <3>. QED  BY <1>1, <2>2, <3>1, NamedWhole
  <2>. QED  BY <2>1, <2>2 DEF NamedDefinedOnce
<1>. QED  BY <1>1, RewriteCorrect, PTL

-----------------------------------------------------------------------------
(* What is read is given.                                                  *)

\* A hop leads from the origin or the path to the path.
LEMMA HopFacts ==
  ASSUME ManifestOK, NEW o \in Name, NEW c \in Chained(o), NEW h \in Hops(o, c)
  PROVE  {h[1], h[2]} \subseteq {Origin(o)} \cup Range(mdl.path[o][c])
<1>. DEFINE s == mdl.path[o][c]
            M == {p \in Name : IsModel(p)}
<1>1. s \in Seq(M)
  BY DEF ManifestOK, ColumnsOK
<1>. HIDE DEF s, M
<1>. DEFINE p == <<Origin(o)>> \o s
<1>2. Len(s) \in Nat /\ Len(p) = Len(s) + 1 /\ p[1] = Origin(o) /\ \A i \in 1 .. Len(s) : p[i + 1] = s[i]
  BY <1>1
<1>3. \A i \in 1 .. Len(s) : s[i] \in Range(s)
  BY <1>1 DEF Range
<1>4. h \in {<<p[i], p[i + 1]>> : i \in 1 .. Len(p) - 1}
  BY DEF Hops, s
<1>. HIDE DEF p
<1>5. PICK i \in 1 .. Len(s) : h = <<p[i], p[i + 1]>>
  BY <1>2, <1>4
<1>6. p[i + 1] \in Range(s)
  BY <1>2, <1>3
<1>7. p[i] \in {Origin(o)} \cup Range(s)
  <2>1. CASE i = 1
    BY <1>2, <2>1
  <2>2. CASE i # 1
    <3>1. i - 1 \in 1 .. Len(s) /\ (i - 1) + 1 = i
      BY <1>2, <2>2
    <3>. QED  BY <1>2, <1>3, <3>1
  <2>. QED  BY <2>1, <2>2
<1>. QED  BY <1>5, <1>6, <1>7 DEF s

\* A column over relationships reads what it uses of the last model, and keys
\* along the way.
LEMMA ChainCases ==
  ASSUME ManifestOK, NEW o \in Name, NEW F, NEW r \in ChainReads(o, F)
  PROVE  \E c \in F \cap Chained(o) :
           \/ r[1] = Last(mdl.path[o][c]) /\ r[2] \in mdl.uses[o][c]
           \/ r[1] \in {Origin(o)} \cup Range(mdl.path[o][c]) /\ r[2] \in {Key, Foreign}
<1>1. PICK c \in Reached(o, F) :
        r \in ({Last(mdl.path[o][c])} \X mdl.uses[o][c])
                \cup {<<h[1], OutColumn(o, c)>> : h \in Hops(o, c)}
                \cup {<<h[2], InColumn(o, c)>> : h \in Hops(o, c)}
                \cup {<<Origin(o), Key>>}
  BY DEF ChainReads
<1>2. c \in F /\ c \in Chained(o)
  BY DEF Reached
<1>3. CASE r \in {Last(mdl.path[o][c])} \X mdl.uses[o][c]
  BY <1>2, <1>3
<1>4. CASE \E h \in Hops(o, c) : r = <<h[1], OutColumn(o, c)>> \/ r = <<h[2], InColumn(o, c)>>
  <2>1. PICK h \in Hops(o, c) : r = <<h[1], OutColumn(o, c)>> \/ r = <<h[2], InColumn(o, c)>>
    BY <1>4
  <2>2. r[1] \in {Origin(o)} \cup Range(mdl.path[o][c])
    BY <1>2, <2>1, HopFacts
  <2>3. r[2] \in {Key, Foreign}
    BY <2>1 DEF OutColumn, InColumn
  <2>. QED  BY <1>2, <2>2, <2>3
<1>5. CASE r = <<Origin(o), Key>>
  BY <1>2, <1>5
<1>. QED  BY <1>1, <1>3, <1>4, <1>5

\* Where there are relationships, the origin is a model, and models have keys.
LEMMA KeyFacts ==
  ASSUME ManifestOK
  PROVE  /\ \A o \in Name : Chained(o) # {} => IsModel(Origin(o)) /\ Origin(o) \in Name
         /\ \A p \in Name : IsModel(p) => {Key, Foreign} \subseteq Offered(p)
<1>1. ASSUME NEW o \in Name, Chained(o) # {}  PROVE IsModel(Origin(o)) /\ Origin(o) \in Name
  <2>1. o \in Queryable
    BY <1>1, OriginFacts DEF Chained, Formed
  <2>2. Origin(o) \in Name
    BY <2>1, OriginFacts DEF Queryable
  <2>3. CASE IsModel(o)
    BY <2>2, <2>3, OriginFacts
  <2>4. CASE ~IsModel(o)
    <3>1. OnModel(o) /\ mdl.base[o] = {Origin(o)}
      BY <1>1, <2>1, <2>4, OriginFacts DEF ManifestOK, MetricOK
    <3>. QED  BY <2>2, <3>1 DEF OnModel
  <2>. QED  BY <2>3, <2>4
<1>2. ASSUME NEW p \in Name, IsModel(p)  PROVE {Key, Foreign} \subseteq Offered(p)
  <2>1. Cols(p) # {} => {Key, Foreign} \subseteq Formed(p, {"plain"})
    BY <1>2 DEF ManifestOK, ModelOK
  <2>. QED  BY <2>1, RewriteAssumption DEF Offered, Formed
<1>. QED  BY <1>1, <1>2

\* What an object reads is offered by an object that it requires.
LEMMA ReadsOffered ==
  ASSUME ManifestOK, NEW o \in Name, NEW F, NEW r \in Reads(o, F)
  PROVE  r[1] \in RequiredObjects(o) /\ r[1] \in Name /\ r[2] \in Offered(r[1])
<1>0. ASSUME r \in ChainReads(o, F)
      PROVE  /\ r[1] \in RequiredObjects(o) \cup {Origin(o)} /\ r[2] \in Offered(r[1])
             /\ o \in Queryable
  <2>1. PICK c \in F \cap Chained(o) :
          \/ r[1] = Last(mdl.path[o][c]) /\ r[2] \in mdl.uses[o][c]
          \/ r[1] \in {Origin(o)} \cup Range(mdl.path[o][c]) /\ r[2] \in {Key, Foreign}
    BY <1>0, ChainCases
  <2>2. /\ Range(mdl.path[o][c]) \subseteq {p \in Name : IsModel(p)}
        /\ Last(mdl.path[o][c]) \in Range(mdl.path[o][c])
        /\ mdl.uses[o][c] \subseteq Offered(Last(mdl.path[o][c]))
        /\ c \in Cols(o)
    BY PathFacts
  <2>3. Range(mdl.path[o][c]) \subseteq RequiredObjects(o) \cup {Origin(o)}
    BY DEF RequiredObjects
  <2>4. IsModel(Origin(o)) /\ Origin(o) \in Name
    BY KeyFacts
  <2>5. r[1] \in {Origin(o)} \cup Range(mdl.path[o][c]) => r[1] \in Name /\ IsModel(r[1])
    BY <2>2, <2>4
  <2>6. r[2] \in Offered(r[1])
    BY <2>1, <2>2, <2>5, KeyFacts
  <2>7. o \in Queryable
    BY <2>2, OriginFacts
  <2>. QED  BY <2>1, <2>2, <2>3, <2>6, <2>7
<1>1. RequiredObjects(o) \subseteq Name
  BY RequiredIsName
<1>2. CASE IsModel(o)
  <2>1. r \in ChainReads(o, F) /\ r[1] # o
    BY <1>2 DEF Reads, IsModel
  <2>2. Origin(o) = o
    BY <1>2, OriginFacts
  <2>. QED  BY <1>0, <1>1, <2>1, <2>2
<1>3. CASE mdl.kind[o] = "cumulative"
  <2>1. o \in Queryable /\ ~IsModel(o) /\ o # DateSpine
    BY <1>3, SpineFacts DEF Queryable, IsModel
  <2>2. Origin(o) \in RequiredObjects(o) /\ DateSpine \in RequiredObjects(o)
    BY <1>3, <2>1, OriginFacts DEF RequiredObjects
  <2>3. r \in {<<DateSpine, Key>>} \cup {Origin(o)} \X UNION {mdl.uses[o][c] : c \in Cols(o)}
    BY <1>3 DEF Reads, IsModel
  <2>4. CASE r = <<DateSpine, Key>>
    <3>1. Cols(DateSpine) = {}
      BY SpineFacts, OriginFacts
    <3>. QED  BY <1>1, <2>2, <2>4, <3>1, RewriteAssumption DEF Offered
  <2>5. CASE r # <<DateSpine, Key>>
    <3>1. PICK c \in Cols(o) : r[1] = Origin(o) /\ r[2] \in mdl.uses[o][c]
      BY <2>3, <2>5
    <3>2. c \in Formed(o, {"derived"})
      BY <1>3, <2>1 DEF ManifestOK, MetricOK
    <3>3. mdl.uses[o][c] \subseteq Offered(Origin(o))
      BY <3>2 DEF ManifestOK, ColumnsOK
    <3>. QED  BY <1>1, <2>2, <3>1, <3>3
  <2>. QED  BY <2>4, <2>5
<1>4. CASE ~IsModel(o) /\ mdl.kind[o] # "cumulative"
  <2>1. r \in ChainReads(o, F) \cup {Origin(o)} \X ((F \cap Formed(o, {"plain"}))
               \cup UNION {mdl.uses[o][c] : c \in F \cap Formed(o, {"derived"})})
    BY <1>4 DEF Reads, IsModel
  <2>2. o \in Queryable => Origin(o) \in RequiredObjects(o)
    BY <1>4, OriginFacts DEF RequiredObjects
  <2>3. CASE r \in ChainReads(o, F)
    BY <1>0, <1>1, <2>2, <2>3
  <2>4. CASE r \notin ChainReads(o, F)
    <3>1. /\ r[1] = Origin(o)
          /\ r[2] \in Formed(o, {"plain"}) \/ \E c \in Formed(o, {"derived"}) : r[2] \in mdl.uses[o][c]
      BY <2>1, <2>4
    <3>2. o \in Queryable
      BY <3>1, OriginFacts DEF Formed
    <3>3. Formed(o, {"plain"}) \subseteq Offered(Origin(o))
      BY <1>4, <3>2 DEF ManifestOK, MetricOK
    <3>4. \A c \in Formed(o, {"derived"}) : mdl.uses[o][c] \subseteq Offered(Origin(o))
      BY DEF ManifestOK, ColumnsOK
    <3>. QED  BY <1>1, <2>2, <3>1, <3>2, <3>3, <3>4
  <2>. QED  BY <2>3, <2>4
<1>. QED  BY <1>2, <1>3, <1>4

\* A model that is rendered whole, or that has plain columns only, finds inside
\* what its outer queries read.
LEMMA InnerWhole ==
  ASSUME ManifestOK, NEW o \in Name, NEW F, F = Cols(o) \/ Cols(o) = Formed(o, {"plain"})
  PROVE  InnerComplete(o, F)
<1>. DEFINE plain == Formed(o, {"plain"})
            renamed == Formed(o, {"renamed"})
            derived == Formed(o, {"derived"})
<1>. SUFFICES ASSUME Cols(o) # {}, IsModel(o)
              PROVE  /\ Scope(o, F) \ Calculated(o) \subseteq Innermost(o, F)
                     /\ \A c \in derived : mdl.uses[o][c] \subseteq Innermost(o, F)
                     /\ \A r \in ChainReads(o, F) : r[1] = o => r[2] \in Innermost(o, F)
                     /\ Reached(o, F) # {} => Key \in Scope(o, F)
  BY DEF InnerComplete
<1>1. /\ plain \cup renamed = Formed(o, {"plain", "renamed"})
      /\ renamed \cup derived = Formed(o, {"renamed", "derived"})
      /\ plain \cup renamed \subseteq Cols(o)
      /\ plain \cap (renamed \cup derived \cup Chained(o)) = {}
      /\ derived \cup Chained(o) \subseteq Cols(o)
      /\ Calculated(o) = Chained(o) \cup derived
  BY DEF Formed, Chained, Calculated
<1>2. /\ {Key, Foreign} \subseteq plain
      /\ \A c \in derived : mdl.uses[o][c] \subseteq plain \cup renamed
      /\ \A c \in Chained(o) : Last(mdl.path[o][c]) = o => mdl.uses[o][c] \subseteq plain \cup renamed
  BY <1>1 DEF ManifestOK, ModelOK
<1>3. Origin(o) = o
  BY OriginFacts
<1>. HIDE DEF plain, renamed, derived
<1>4. CASE F = Cols(o)
  <2>1. Innermost(o, F) = plain \cup renamed
    BY <1>1, <1>2, <1>4 DEF Innermost
  <2>2. Scope(o, F) = plain \cup renamed \cup derived
    BY <1>1, <1>4 DEF Scope, plain
  <2>3. ASSUME NEW r \in ChainReads(o, F), r[1] = o  PROVE r[2] \in plain \cup renamed
    <3>1. PICK c \in F \cap Chained(o) :
            \/ r[1] = Last(mdl.path[o][c]) /\ r[2] \in mdl.uses[o][c]
            \/ r[1] \in {Origin(o)} \cup Range(mdl.path[o][c]) /\ r[2] \in {Key, Foreign}
      BY ChainCases
    <3>. QED  BY <1>2, <2>3, <3>1
  <2>. QED  BY <1>1, <1>2, <2>1, <2>2, <2>3
<1>5. CASE Cols(o) = plain
  <2>1. renamed = {} /\ derived = {} /\ Chained(o) = {} /\ Calculated(o) = {}
    BY <1>1, <1>5
  <2>2. Reached(o, F) = {}
    BY <2>1 DEF Reached
  <2>3. ChainReads(o, F) = {}
    BY <2>2 DEF ChainReads
  <2>4. Scope(o, F) = F \cap plain
    BY <1>1, <2>1 DEF Scope, plain
  <2>5. F \cap plain \subseteq Innermost(o, F)
    BY <1>1, <2>1 DEF Innermost
  <2>. QED  BY <2>1, <2>2, <2>3, <2>4, <2>5
<1>. QED  BY <1>4, <1>5 DEF plain

\* Some WITH query before the k-th gives the column u of the object p.
Before(k, p, u) == \E j \in 1 .. k - 1 : ctes[j].name = p /\ u \in ctes[j].gives

\* On the static path every object that is required is given whole before.
LEMMA StaticBefore ==
  ASSUME RewriteInv, phase # "choose", ~dynamic, NEW k \in DOMAIN ctes, NEW p, NEW u,
         ctes[k].name \in DOMAIN required, p \in RequiredObjects(ctes[k].name), u \in Offered(p)
  PROVE  Before(k, p, u)
<1>. DEFINE o == ctes[k].name
<1>0. /\ ManifestOK /\ named \subseteq Queryable /\ RewriteTypeOK /\ Chosen /\ Sorted /\ Once
      /\ DOMAIN required = StaticObjects /\ \A x \in StaticObjects : required[x] = Cols(x)
  BY DEF RewriteInv, RewriteTypeOK, Chosen
<1>1. p \in StaticObjects /\ <<p, o>> \in AllLinks
  <2>1. o \in StaticObjects
    BY <1>0
  <2>2. p \in StaticObjects
    BY <1>0, <2>1, StaticClosed
  <2>3. <<p, o>> \in RequiredObjects(o) \X {o}
    OBVIOUS
  <2>. HIDE DEF o
  <2>. QED  BY <2>1, <2>2, <2>3 DEF AllLinks, StaticLinks
<1>2. PICK j \in 1 .. k - 1 : ctes[j].name = p
  BY <1>0, <1>1 DEF Sorted
<1>3. j \in DOMAIN ctes
  BY <1>0, <1>2 DEF Once, IsList
<1>4. p \in Name /\ required[p] = Cols(p) /\ Cols(p) \in SUBSET Column
  BY <1>0, <1>1, StaticClosed, ColumnFacts
<1>5. Made(ctes[j]) /\ named \subseteq DOMAIN required
  BY <1>0, <1>3, StaticClosed DEF RewriteInv, AllMade
<1>6. ctes[j].gives = Gives(p, Cols(p))
  <2>1. ctes[j].gives = Rendering[p][Cols(p)].gives
    BY <1>2, <1>4, <1>5 DEF Made
  <2>. QED  BY <1>4, <2>1 DEF Rendering
<1>7. u \in Gives(p, Cols(p))
  BY <1>0, <1>4, GivesFacts DEF Offered
<1>. QED  BY <1>2, <1>6, <1>7 DEF Before

\* On the dynamic path a linked object is given before, with its fields in the
\* lineage, and whole if it is named.
LEMMA DynamicBefore ==
  ASSUME RewriteInv, phase # "choose", dynamic, NEW k \in DOMAIN ctes, NEW p, NEW u,
         <<p, ctes[k].name>> \in AllLinks, u \in Offered(p), <<p, u>> \in LineageFields \/ p \in named
  PROVE  Before(k, p, u)
<1>0. ManifestOK /\ named \subseteq Queryable /\ RewriteTypeOK /\ Chosen /\ Sorted /\ Once
  BY DEF RewriteInv, RewriteTypeOK
<1>1. p \in DOMAIN required
  BY <1>0, LinkedRequired
<1>2. PICK j \in 1 .. k - 1 : ctes[j].name = p
  BY <1>0, <1>1 DEF Sorted
<1>3. j \in DOMAIN ctes
  BY <1>0, <1>2 DEF Once, IsList
<1>4. /\ p \in Queryable /\ p \in Name /\ p # DateSpine /\ required[p] \in SUBSET Column
      /\ Offered(p) \subseteq Column
  BY <1>0, <1>1, SpineFacts, ColumnFacts DEF Chosen, RewriteTypeOK, Offered
<1>5. ctes[j].gives = Gives(p, required[p])
  <2>1. Made(ctes[j])
    BY <1>3 DEF RewriteInv, AllMade
  <2>2. ctes[j].gives = Rendering[p][required[p]].gives
    BY <1>1, <1>2, <1>4, <2>1 DEF Made
  <2>. QED  BY <1>4, <2>2 DEF Rendering
<1>6. CASE Cols(p) = {}
  BY <1>0, <1>2, <1>4, <1>5, <1>6, GivesFacts DEF Before
<1>7. CASE Cols(p) # {} /\ p \in named
  <2>1. Cols(p) \subseteq ctes[j].gives
    BY <1>2, <1>3, <1>7, NamedWhole
  <2>. QED  BY <1>2, <1>7, <2>1 DEF Before, Offered
<1>8. CASE Cols(p) # {} /\ <<p, u>> \in LineageFields
  <2>1. u \in required[p] /\ u \in Cols(p)
    BY <1>0, <1>8 DEF Chosen, Offered
  <2>2. u \in Gives(p, required[p])
    BY <1>0, <1>4, <2>1, GivesFacts
  <2>. QED  BY <1>2, <1>5, <2>2 DEF Before
<1>. QED  BY <1>6, <1>7, <1>8

\* A field's sources in another object are linked to the field's object.
LEMMA SourceLinks ==
  ASSUME ManifestOK, named \subseteq Queryable, dynamic, NEW o, NEW c, <<o, c>> \in LineageFields,
         NEW s \in Sources(o, c), s[1] # o
  PROVE  <<s[1], o>> \in AllLinks /\ <<s[1], s[2]>> \in LineageFields
<1>1. /\ Sources(o, c) \subseteq LineageFields /\ o \in Name
  <2>1. <<o, c>> \in Field
    BY LineageClosed
  <2>2. \A f \in LineageFields : Sources(f[1], f[2]) \subseteq LineageFields
    BY LineageClosed
  <2>3. Sources(<<o, c>>[1], <<o, c>>[2]) \subseteq LineageFields
    BY <2>2
  <2>. QED  BY <2>1, <2>3 DEF Field
<1>2. s \in LineageFields /\ s = <<s[1], s[2]>>
  BY <1>1, LineageClosed DEF Field
<1>3. <<s[1], o>> \in {<<x[1], o>> : x \in Sources(o, c)}
  OBVIOUS
<1>4. <<s[1], o>> \in UNION {{<<x[1], f[1]>> : x \in Sources(f[1], f[2])} : f \in LineageFields}
  BY <1>3
<1>5. <<s[1], o>> \notin {<<x, x>> : x \in Name}
  OBVIOUS
<1>. QED  BY <1>2, <1>4, <1>5 DEF AllLinks, LineageLinks

\* What pruning keeps, of an object on the dynamic path.
LEMMA SafeFacts ==
  ASSUME ManifestOK, PruningSafe, NEW o \in StaticObjects, o \in Name
  PROVE  /\ IsModel(o) \/ mdl.kind[o] = "metric" =>
              \A c \in Chained(o) : Range(mdl.path[o][c]) = {Last(mdl.path[o][c])}
                                      /\ Last(mdl.path[o][c]) \in named
         /\ mdl.kind[o] = "metric" => OnModel(o) /\ Formed(o, {"plain"}) = {}
         /\ (mdl.kind[o] = "metric" /\ \E c \in Chained(o) : <<o, c>> \in LineageFields) =>
              /\ Origin(o) \in named
              /\ \E c \in Formed(o, {"derived"}) : <<o, c>> \in LineageFields /\ mdl.uses[o][c] # {}
         /\ mdl.kind[o] = "cumulative" => o \in named
         /\ IsModel(o) /\ o \notin named => Cols(o) = Formed(o, {"plain"})
<1>1. ASSUME IsModel(o) \/ mdl.kind[o] = "metric", NEW c \in Chained(o)
      PROVE  Range(mdl.path[o][c]) = {Last(mdl.path[o][c])} /\ Last(mdl.path[o][c]) \in named
  <2>. DEFINE s == mdl.path[o][c]
  <2>1. Len(s) = 1 /\ Range(s) \subseteq named
    BY <1>1 DEF PruningSafe
  <2>2. s \in Seq({p \in Name : IsModel(p)})
    BY DEF ManifestOK, ColumnsOK
  <2>3. DOMAIN s = {1} /\ Last(s) = s[1]
    BY <2>1, <2>2 DEF Last
  <2>. HIDE DEF s
  <2>4. Range(s) = {Last(s)}
    BY <2>3 DEF Range
  <2>. QED  BY <2>1, <2>4 DEF s
<1>2. ASSUME mdl.kind[o] = "metric", NEW c \in Chained(o), <<o, c>> \in LineageFields
      PROVE  /\ Origin(o) \in named
             /\ \E d \in Formed(o, {"derived"}) : <<o, d>> \in LineageFields /\ mdl.uses[o][d] # {}
  <2>1. c \in Formed(o, {"toOne", "toMany"}) /\ mdl.uses[o][c] # {}
    BY PathFacts DEF Chained
  <2>. QED  BY <1>2, <2>1 DEF PruningSafe
<1>3. mdl.kind[o] = "metric" => OnModel(o) /\ Formed(o, {"plain"}) = {}
  BY DEF PruningSafe
<1>4. /\ mdl.kind[o] = "cumulative" => o \in named
      /\ IsModel(o) /\ o \notin named => Cols(o) = Formed(o, {"plain"})
  BY DEF PruningSafe
<1>. QED  BY <1>1, <1>2, <1>3, <1>4

\* Where pruning is safe, what a rendered object reads is given before.
LEMMA PrunedReads ==
  ASSUME RewriteInv, phase \in {"render", "done"}, dynamic, PruningSafe, NEW k \in DOMAIN ctes,
         NEW o \in DOMAIN required, ctes[k].name = o, NEW r \in Reads(o, required[o])
  PROVE  Before(k, r[1], r[2])
<1>. DEFINE F == required[o]
<1>0. /\ ManifestOK /\ named \subseteq Queryable /\ RewriteTypeOK /\ Chosen /\ Once /\ SpineFirst
  BY DEF RewriteInv, RewriteTypeOK
<1>1. /\ o \in Queryable \cap StaticObjects /\ o \in Name
      /\ \A c \in F : <<o, c>> \in LineageFields
  BY <1>0 DEF Chosen, Queryable
<1>2. r[2] \in Offered(r[1])
  BY <1>0, <1>1, ReadsOffered
<1>. HIDE DEF F
\* What a field is calculated from is given.
<1>3. ASSUME NEW c, <<o, c>> \in LineageFields, NEW p, NEW u,
             Sources(o, c) = {p} \X mdl.uses[o][c], u \in mdl.uses[o][c], p # o
      PROVE  <<p, o>> \in AllLinks /\ <<p, u>> \in LineageFields
  <2>1. <<p, u>> \in Sources(o, c)
    BY <1>3
  <2>2. <<<<p, u>>[1], o>> \in AllLinks /\ <<<<p, u>>[1], <<p, u>>[2]>> \in LineageFields
    BY <1>0, <1>3, <2>1, SourceLinks
  <2>. QED  BY <2>2
<1>4. ASSUME NEW c \in F \cap Chained(o), IsModel(o) \/ mdl.kind[o] = "metric",
             Last(mdl.path[o][c]) # o
      PROVE  <<Last(mdl.path[o][c]), o>> \in AllLinks
  <2>1. PICK u \in mdl.uses[o][c] : TRUE
    BY <1>0, <1>1, <1>4, PathFacts
  <2>2. Sources(o, c) = {Last(mdl.path[o][c])} \X mdl.uses[o][c]
    BY <1>0, <1>1, <1>4, SourcesCases
  <2>. QED  BY <1>1, <1>3, <1>4, <2>1, <2>2
<1>5. ASSUME NEW c \in Formed(o, {"derived"}), <<o, c>> \in LineageFields, Computed(o), ~IsModel(o),
             NEW u \in mdl.uses[o][c]
      PROVE  <<Origin(o), o>> \in AllLinks /\ <<Origin(o), u>> \in LineageFields
  <2>1. Sources(o, c) = {Origin(o)} \X mdl.uses[o][c]
    BY <1>0, <1>1, <1>5, SourcesCases
  <2>2. Origin(o) # o
    BY <1>0, <1>1, <1>5, OriginFacts
  <2>. QED  BY <1>3, <1>5, <2>1, <2>2
\* A read over relationships: of the origin or of the named model at the end.
<1>6. ASSUME r \in ChainReads(o, F), IsModel(o) \/ mdl.kind[o] = "metric", r[1] # o
      PROVE  Before(k, r[1], r[2])
  <2>1. PICK c \in F \cap Chained(o) :
          \/ r[1] = Last(mdl.path[o][c]) /\ r[2] \in mdl.uses[o][c]
          \/ r[1] \in {Origin(o)} \cup Range(mdl.path[o][c]) /\ r[2] \in {Key, Foreign}
    BY <1>0, <1>1, <1>6, ChainCases
  <2>2. Range(mdl.path[o][c]) = {Last(mdl.path[o][c])} /\ Last(mdl.path[o][c]) \in named
    BY <1>0, <1>1, <1>6, SafeFacts
  <2>3. CASE r[1] = Last(mdl.path[o][c])
    <3>1. <<r[1], o>> \in AllLinks /\ r[1] \in named
      BY <1>4, <1>6, <2>2, <2>3
    <3>. QED  BY <1>2, <3>1, DynamicBefore
  <2>4. CASE r[1] # Last(mdl.path[o][c])
    <3>1. r[1] = Origin(o)
      BY <2>1, <2>2, <2>4
    <3>2. ~IsModel(o) /\ mdl.kind[o] = "metric"
      BY <1>0, <1>1, <1>6, <3>1, OriginFacts
    <3>3. /\ OnModel(o) /\ Origin(o) \in named
          /\ \E d \in Formed(o, {"derived"}) : <<o, d>> \in LineageFields /\ mdl.uses[o][d] # {}
      BY <1>0, <1>1, <2>1, <3>2, SafeFacts
    <3>4. <<Origin(o), o>> \in AllLinks
      BY <1>5, <3>2, <3>3 DEF Computed
    <3>. QED  BY <1>2, <3>1, <3>3, <3>4, DynamicBefore
  <2>. QED  BY <2>3, <2>4
<1>7. CASE IsModel(o)
  <2>1. r \in ChainReads(o, F) /\ r[1] # o
    BY <1>7 DEF Reads, IsModel, F
  <2>. QED  BY <1>6, <1>7, <2>1
<1>8. CASE mdl.kind[o] = "cumulative"
  <2>1. r \in {<<DateSpine, Key>>} \cup {Origin(o)} \X UNION {mdl.uses[o][c] : c \in Cols(o)}
    BY <1>8 DEF Reads, IsModel
  <2>2. CASE r = <<DateSpine, Key>>
    <3>1. ctes # <<>> /\ ctes[1].name = DateSpine /\ ctes[1].gives = Column
      BY <1>0, <1>8 DEF SpineFirst
    <3>2. k # 1
      BY <1>0, <1>1, <3>1, SpineFacts
    <3>3. k \in Nat /\ 1 \in 1 .. k - 1
      BY <1>0, <3>2 DEF Once, IsList
    <3>. QED  BY <2>2, <3>1, <3>3, RewriteAssumption DEF Before
  <2>3. CASE r # <<DateSpine, Key>>
    <3>1. PICK c \in Cols(o) : r[1] = Origin(o) /\ r[2] \in mdl.uses[o][c]
      BY <2>1, <2>3
    <3>2. c \in Formed(o, {"derived"}) /\ ~IsModel(o)
      BY <1>0, <1>1, <1>8 DEF ManifestOK, MetricOK, IsModel
    <3>3. <<o, c>> \in LineageFields
      <4>1. o \in named
        BY <1>0, <1>1, <1>8, SafeFacts
      <4>. QED  BY <1>0, <4>1, LineageClosed
    <3>4. <<r[1], o>> \in AllLinks /\ <<r[1], r[2]>> \in LineageFields
      BY <1>5, <1>8, <3>1, <3>2, <3>3 DEF Computed
    <3>. QED  BY <1>2, <3>4, DynamicBefore
  <2>. QED  BY <2>2, <2>3
<1>9. CASE mdl.kind[o] = "metric"
  <2>0. ~IsModel(o) /\ OnModel(o) /\ Formed(o, {"plain"}) = {}
    BY <1>0, <1>1, <1>9, SafeFacts DEF IsModel
  <2>1. r \in ChainReads(o, F) \cup {Origin(o)} \X ((F \cap Formed(o, {"plain"}))
               \cup UNION {mdl.uses[o][c] : c \in F \cap Formed(o, {"derived"})})
    BY <1>9 DEF Reads, IsModel, F
  <2>2. CASE r \in ChainReads(o, F)
    <3>1. r[1] # o
      <4>1. r[1] \in RequiredObjects(o)
        BY <1>0, <1>1, ReadsOffered
      <4>2. PICK c \in F \cap Chained(o) :
              \/ r[1] = Last(mdl.path[o][c]) /\ r[2] \in mdl.uses[o][c]
              \/ r[1] \in {Origin(o)} \cup Range(mdl.path[o][c]) /\ r[2] \in {Key, Foreign}
        BY <1>0, <1>1, <2>2, ChainCases
      <4>3. \A p \in Range(mdl.path[o][c]) : IsModel(p)
        BY <1>0, <1>1, PathFacts
      <4>4. Last(mdl.path[o][c]) \in Range(mdl.path[o][c]) /\ Origin(o) # o
        BY <1>0, <1>1, <2>0, PathFacts, OriginFacts
      <4>. QED  BY <2>0, <4>2, <4>3, <4>4
    <3>. QED  BY <1>6, <1>9, <2>2, <3>1
  <2>3. CASE r \notin ChainReads(o, F)
    <3>1. PICK c \in F \cap Formed(o, {"derived"}) : r[1] = Origin(o) /\ r[2] \in mdl.uses[o][c]
      BY <2>0, <2>1, <2>3
    <3>2. <<r[1], o>> \in AllLinks /\ <<r[1], r[2]>> \in LineageFields
      BY <1>1, <1>5, <2>0, <3>1 DEF Computed
    <3>. QED  BY <1>2, <3>2, DynamicBefore
  <2>. QED  BY <2>2, <2>3
<1>. QED  BY <1>1, <1>7, <1>8, <1>9 DEF Queryable, IsModel

\* What a WITH query reads is given by an earlier one, or by its own inner
\* queries: always on the static path, and where pruning is safe.
THEOREM WhatIsReadIsGiven == RewriteSpec => []ReadsGiven
<1>1. ASSUME RewriteInv, phase = "done", dynamic => PruningSafe, NEW k \in DOMAIN ctes
      PROVE  ctes[k].whole /\ \A r \in ctes[k].reads : Before(k, r[1], r[2])
  <2>. DEFINE o == ctes[k].name
              F == required[o]
  <2>0. /\ ManifestOK /\ named \subseteq Queryable /\ RewriteTypeOK /\ Chosen /\ Made(ctes[k])
        /\ DOMAIN required \subseteq Name
    BY <1>1 DEF RewriteInv, RewriteTypeOK, AllMade
  <2>1. CASE ctes[k].reads = {} /\ ctes[k].whole
    BY <2>1
  <2>2. CASE ~(ctes[k].reads = {} /\ ctes[k].whole)
    <3>1. /\ o \in DOMAIN required /\ ctes[k].reads = Rendering[o][F].reads
          /\ ctes[k].whole = Rendering[o][F].whole
      BY <2>0, <2>2 DEF Made
    <3>2. o \in Name /\ F \in SUBSET Column
      BY <2>0, <3>1 DEF RewriteTypeOK
    <3>. HIDE DEF o, F
    <3>3. ctes[k].reads = Reads(o, F) /\ ctes[k].whole = InnerComplete(o, F)
      BY <3>1, <3>2 DEF Rendering
    <3>4. CASE ~dynamic
      <4>1. F = Cols(o)
        BY <1>1, <2>0, <3>1, <3>4 DEF Chosen, F
      <4>2. InnerComplete(o, F)
        BY <2>0, <3>2, <4>1, InnerWhole
      <4>3. ASSUME NEW r \in Reads(o, F)  PROVE Before(k, r[1], r[2])
        <5>1. r[1] \in RequiredObjects(o) /\ r[2] \in Offered(r[1])
          BY <2>0, <3>2, ReadsOffered
        <5>. QED  BY <1>1, <3>1, <3>4, <5>1, StaticBefore DEF o
      <4>. QED  BY <3>3, <4>2, <4>3
    <3>5. CASE dynamic
      <4>1. PruningSafe /\ o \in StaticObjects
        BY <1>1, <2>0, <3>1, <3>5 DEF Chosen
      <4>2. InnerComplete(o, F)
        <5>1. CASE Cols(o) = {} \/ ~IsModel(o)
          BY <5>1 DEF InnerComplete
        <5>2. CASE Cols(o) # {} /\ o \in named
          <6>1. \A c \in Cols(o) : <<o, c>> \in LineageFields
            BY <2>0, <5>2, LineageClosed
          <6>2. Cols(o) \subseteq F
            BY <1>1, <2>0, <3>5, <6>1 DEF Chosen, F
          <6>3. \A c \in F : <<o, c>> \in LineageFields
            BY <1>1, <2>0, <3>1, <3>5 DEF Chosen, F
          <6>4. F \subseteq Cols(o)
            BY <2>0, <5>2, <6>3, LineageClosed DEF Offered
          <6>. QED  BY <2>0, <3>2, <6>2, <6>4, InnerWhole
        <5>3. CASE IsModel(o) /\ o \notin named
          <6>1. Cols(o) = Formed(o, {"plain"})
            BY <2>0, <3>2, <4>1, <5>3, SafeFacts
          <6>. QED  BY <2>0, <3>2, <6>1, InnerWhole
        <5>. QED  BY <5>1, <5>2, <5>3
      <4>3. ASSUME NEW r \in Reads(o, F)  PROVE Before(k, r[1], r[2])
        BY <1>1, <3>1, <3>5, <4>1, <4>3, PrunedReads DEF o, F
      <4>. QED  BY <3>3, <4>2, <4>3
    <3>. QED  BY <3>4, <3>5
  <2>. QED  BY <2>1, <2>2
<1>2. RewriteInv => ReadsGiven
  BY <1>1 DEF ReadsGiven, Before
<1>. QED  BY <1>2, RewriteCorrect, PTL
=============================================================================
