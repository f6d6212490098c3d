--------------------------- MODULE WrenSqlRewrite ---------------------------
(***************************************************************************)
(* The rule WrenSqlRewrite down to columns.  The static path renders every *)
(* object the statement needs with all its columns; the dynamic path asks  *)
(* the lineage which columns are needed and renders the objects pruned to  *)
(* these.  A rendered object becomes a WITH query, abstracted to the       *)
(* columns it gives, those it reads from other WITH queries, and the joins *)
(* of its subqueries.                                                      *)
(***************************************************************************)
EXTENDS Closures, Sequences, SequencesExt

CONSTANTS
  Name, Column,   \* names are integers, which compare as the names do
  DateSpine,      \* the reserved name date_spine
  Key, Foreign    \* the primary key of every model, and its foreign key

ASSUME RewriteAssumption ==
  /\ Name \subseteq Int /\ IsFiniteSet(Name) /\ DateSpine \in Name
  /\ IsFiniteSet(Column) /\ {Key, Foreign} \subseteq Column

VARIABLES
  mdl,       \* the manifest: kind, base, form, uses and path
  dynamic,   \* EnableDynamicFields of the session
  named,     \* the models, metrics and cumulative metrics the statement names
  counted,   \* those of them that it only counts the rows of
  phase,     \* "choose", "order", "count", "render", then "done" or "failed"
  required,  \* the chosen objects and the columns each is rendered with
  order,     \* the chosen objects in order, until they are rendered
  spare,     \* the named objects that no descriptor was made for
  ctes       \* the WITH queries

input == <<mdl, dynamic, named, counted>>
rewriteVars == <<input, phase, required, order, spare, ctes>>

-----------------------------------------------------------------------------
\* A column is plain (no expression), renamed (an expression of the physical
\* table), derived (calculated from columns of the object's own source), or
\* calculated over the relationships of a path, to one row or to many.
Cols(o) == DOMAIN mdl.form[o]
Formed(o, forms) == {c \in Cols(o) : mdl.form[o][c] \in forms}
Chained(o) == Formed(o, {"toOne", "toMany"})
Calculated(o) == Chained(o) \cup Formed(o, {"derived"})

IsModel(o) == mdl.kind[o] = "model"
OnModel(o) == \E b \in mdl.base[o] : IsModel(b)
Origin(o) == IF IsModel(o) \/ mdl.base[o] = {} THEN o ELSE CHOOSE b \in mdl.base[o] : TRUE

\* What a WITH query of an object without columns gives is not known.
Offered(o) == IF Cols(o) = {} THEN Column ELSE Cols(o)

Hops(o, c) ==
  LET p == <<Origin(o)>> \o mdl.path[o][c]
  IN  {<<p[i], p[i + 1]>> : i \in 1 .. Len(p) - 1}

\* RequiredObjects of the object's descriptor on the static path.
RequiredObjects(o) ==
  ((UNION {Range(mdl.path[o][c]) : c \in Chained(o)}) \ {Origin(o)})
    \cup (IF IsModel(o) THEN {} ELSE mdl.base[o])
    \cup (IF mdl.kind[o] = "cumulative" THEN {DateSpine} ELSE {})

\* getModelColumnSources and getMetricColumnSources: over relationships, the
\* columns of the last model only; a metric that is not on a model, and what
\* has no expression to follow, stands for itself.
Sources(o, c) ==
  CASE c \notin Cols(o) -> {}
    [] c \in Chained(o) -> {Last(mdl.path[o][c])} \X mdl.uses[o][c]
    [] c \in Formed(o, {"derived"}) /\ (IsModel(o) \/ OnModel(o) \/ mdl.kind[o] = "cumulative") ->
         {Origin(o)} \X mdl.uses[o][c]
    [] OTHER -> {<<o, c>>}

\* What Lineage.RequiredFields answers, and the objects addToGraph reaches.
Field == Name \X Column

LineageFields ==
  Closure(Field, UNION {{o} \X Cols(o) : o \in named}, [f \in Field |-> Sources(f[1], f[2])])

StaticObjects == Closure(Name, named, [o \in Name |-> RequiredObjects(o)])

\* The edges of the two graphs.
StaticLinks == UNION {RequiredObjects(o) \X {o} : o \in StaticObjects}
LineageLinks(fields) ==
  (UNION {{<<s[1], f[1]>> : s \in Sources(f[1], f[2])} : f \in fields}) \ {<<o, o>> : o \in Name}

Circular(links) ==
  \E S \in SUBSET Name : S # {} /\ \A o \in S : \E p \in S : <<p, o>> \in links

Queryable == {o \in Name : mdl.kind[o] \in {"model", "metric", "cumulative"}}

\* A manifest whose names lead somewhere.  A path goes over models, and a column
\* calculated from others finds these where it looks for them.
ColumnsOK(o) ==
  /\ Cols(o) \subseteq Column
  /\ Cols(o) = Formed(o, {"plain", "renamed", "derived", "toOne", "toMany"})
  /\ \A c \in Chained(o) :
       /\ mdl.path[o][c] \in Seq({p \in Name : IsModel(p)}) \ {<<>>}
       /\ mdl.uses[o][c] # {} /\ mdl.uses[o][c] \subseteq Offered(Last(mdl.path[o][c]))
  /\ \A c \in Formed(o, {"derived"}) : mdl.uses[o][c] \subseteq Offered(Origin(o))

\* A model has its keys; what it calculates from its own columns is not
\* calculated from calculated ones.
ModelOK(o) ==
  /\ mdl.base[o] = {}
  /\ Cols(o) # {} => {Key, Foreign} \subseteq Formed(o, {"plain"})
  /\ \A c \in Calculated(o) :
       c \in Formed(o, {"derived"}) \/ Last(mdl.path[o][c]) = o =>
         mdl.uses[o][c] \subseteq Formed(o, {"plain", "renamed"})

\* A metric has one base, other than itself.
MetricOK(o) ==
  /\ \E b \in Queryable \ {o} : mdl.base[o] = {b}
  /\ Chained(o) # {} => OnModel(o)
  /\ Formed(o, {"plain"}) \subseteq Offered(Origin(o))
  /\ mdl.kind[o] = "cumulative" => Cols(o) = Formed(o, {"derived"})

ManifestOK ==
  /\ mdl.kind \in [Name -> {"model", "metric", "cumulative", "view", "spine"}]
  /\ \A o \in Name :
       /\ mdl.kind[o] = "spine" <=> o = DateSpine
       /\ ColumnsOK(o)
       /\ IsModel(o) => ModelOK(o)
       /\ o \in Queryable /\ ~IsModel(o) => MetricOK(o)
       /\ o \notin Queryable => mdl.base[o] = {} /\ Cols(o) = {}

\* A statement is about to be rewritten.
RequestInit ==
  /\ dynamic \in BOOLEAN
  /\ named \in SUBSET Queryable /\ counted \in SUBSET named
  /\ phase = "choose"
  /\ required = [o \in {} |-> {}] /\ order = <<>> /\ spare = {} /\ ctes = <<>>

-----------------------------------------------------------------------------
\* modelSqlRender.render with the fields F.  The innermost query selects the
\* columns of the physical table, or the key when there are none; around it the
\* calculated fields without relationships; this is joined with a subquery over
\* relationships.  Renamed and derived columns are selected whether in F or not.
Innermost(o, F) ==
  LET cs == F \cap Formed(o, {"plain", "renamed"}) IN IF cs = {} THEN {Key} ELSE cs

Scope(o, F) == (F \cap Formed(o, {"plain"})) \cup Formed(o, {"renamed", "derived"})

Reached(o, F) == F \cap Chained(o)

\* A relationship's condition reads a column of either side.
OutColumn(o, c) == IF mdl.form[o][c] = "toOne" THEN Foreign ELSE Key
InColumn(o, c) == IF mdl.form[o][c] = "toOne" THEN Key ELSE Foreign

ChainReads(o, F) ==
  UNION {({Last(mdl.path[o][c])} \X mdl.uses[o][c])
           \cup {<<h[1], OutColumn(o, c)>> : h \in Hops(o, c)}
           \cup {<<h[2], InColumn(o, c)>> : h \in Hops(o, c)}
           \cup {<<Origin(o), Key>>} : c \in Reached(o, F)}

\* What a WITH query reads of other ones.
Reads(o, F) ==
  CASE mdl.kind[o] = "spine" -> {}
    [] IsModel(o) -> {r \in ChainReads(o, F) : r[1] # o}
    [] mdl.kind[o] = "cumulative" ->
         {<<DateSpine, Key>>} \cup {Origin(o)} \X UNION {mdl.uses[o][c] : c \in Cols(o)}
    [] OTHER -> ChainReads(o, F) \cup {Origin(o)} \X ((F \cap Formed(o, {"plain"}))
                  \cup UNION {mdl.uses[o][c] : c \in F \cap Formed(o, {"derived"})})

\* What the outer queries of a model read of its inner ones is there.  A select
\* list with nothing in scope is empty: the parser reports nothing, drops the
\* FROM and takes what followed for the list, which gives no key.
InnerComplete(o, F) ==
  Cols(o) # {} /\ IsModel(o) =>
    /\ Scope(o, F) \ Calculated(o) \subseteq Innermost(o, F)
    /\ \A c \in Formed(o, {"derived"}) : mdl.uses[o][c] \subseteq Innermost(o, F)
    /\ {r[2] : r \in {r \in ChainReads(o, F) : r[1] = o}} \subseteq Innermost(o, F)
    /\ Reached(o, F) # {} => Key \in Scope(o, F)

Gives(o, F) ==
  IF Cols(o) = {} THEN Column
  ELSE CASE IsModel(o) -> Scope(o, F) \cup Reached(o, F)
         [] mdl.kind[o] = "cumulative" -> Cols(o)
         [] OTHER -> F \cap Cols(o)

\* The columns that share a subquery: those to one row, of a metric all of them.
Subqueries(o, F) ==
  LET single == {c \in Reached(o, F) : IsModel(o) /\ mdl.form[o][c] = "toMany"}
  IN  ({Reached(o, F) \ single} \cup {{c} : c \in single}) \ {{}}

\* A model's joins come out of a Go map; a metric's are in the order of its
\* paths, which Origin is the start of.
InScope(o, js) ==
  \A i \in DOMAIN js : js[i][1] \in {Origin(o)} \cup {js[j][2] : j \in 1 .. i - 1}

JoinOrders(o, cs) ==
  LET all == SetToSeqs(UNION {Hops(o, c) : c \in cs})
  IN  IF IsModel(o) THEN all ELSE {js \in all : InScope(o, js)}

Query(o, F, joins) ==
  [name |-> o, gives |-> Gives(o, F), reads |-> Reads(o, F),
   whole |-> InnerComplete(o, F), joins |-> joins]

Dummy(o) == [name |-> o, gives |-> {}, reads |-> {}, whole |-> TRUE, joins |-> {}]

-----------------------------------------------------------------------------
\* The static path renders whole objects.
ChooseStatic ==
  /\ phase = "choose" /\ ~dynamic
  /\ required' = [o \in StaticObjects |-> Cols(o)]
  /\ phase' = IF named = {} THEN "done" ELSE IF Circular(StaticLinks) THEN "failed" ELSE "order"
  /\ UNCHANGED <<input, order, spare, ctes>>

\* Mutant: whatever the static path would choose, pruned.
ChooseDynamicEverything ==
  /\ phase = "choose" /\ dynamic
  /\ LET fields == LineageFields
     IN  /\ required' = [o \in {p \in Name : mdl.kind[p] # "view"} |-> {f[2] : f \in {g \in fields : g[1] = o}}]
         /\ phase' = IF Circular(LineageLinks(fields)) THEN "failed" ELSE "order"
  /\ UNCHANGED <<input, order, spare, ctes>>

\* All columns of the named objects are asked of the lineage: every field of a
\* visited table is collected.
ChooseDynamic ==
  /\ phase = "choose" /\ dynamic
  /\ LET fields == LineageFields
     IN  /\ required' = [o \in {f[1] : f \in fields} |-> {f[2] : f \in {g \in fields : g[1] = o}}]
         /\ phase' = IF Circular(LineageLinks(fields)) THEN "failed" ELSE "order"
  /\ UNCHANGED <<input, order, spare, ctes>>

Links ==
  IF dynamic THEN LineageLinks(UNION {{o} \X required[o] : o \in DOMAIN required})
  ELSE StaticLinks

\* Mutant: the least name is next, ready or not.
OrderNextByName ==
  /\ phase = "order"
  /\ LET left == DOMAIN required \ Range(order)
     IN  IF left = {} THEN phase' = "count" /\ order' = order
         ELSE phase' = phase
              /\ \E o \in left : (\A p \in left : o <= p) /\ order' = Append(order, o)
  /\ UNCHANGED <<input, required, spare, ctes>>

\* Both sorts take the least name among those whose requirements were taken.
OrderNext ==
  /\ phase = "order"
  /\ LET links == Links
         left == DOMAIN required \ Range(order)
         ready == {o \in left : \A p \in left : <<p, o>> \notin links}
     IN  IF left = {} THEN phase' = "count" /\ order' = order
         ELSE phase' = phase
              /\ \E o \in ready : (\A p \in ready : o <= p) /\ order' = Append(order, o)
  /\ UNCHANGED <<input, required, spare, ctes>>

\* The fallback for count(*): a model or metric the lineage says nothing of is
\* rendered, a model without its calculated columns.
CountRows ==
  /\ phase = "count" /\ dynamic
  /\ \E o \in counted \ DOMAIN required :
       /\ mdl.kind[o] # "cumulative"
       /\ required' = [p \in DOMAIN required \cup {o} |->
                         CASE p # o -> required[p]
                           [] p = o /\ IsModel(o) -> Cols(o) \ Calculated(o)
                           [] OTHER -> Cols(o)]
       /\ order' = Append(order, o)
  /\ UNCHANGED <<input, phase, spare, ctes>>

\* Mutant: the named objects that have a descriptor are not taken out.
BeginRenderKeepsVisited ==
  /\ phase = "count"
  /\ \A o \in counted \ DOMAIN required : mdl.kind[o] = "cumulative" \/ ~dynamic
  /\ phase' = "render"
  /\ spare' = named
  /\ ctes' = IF dynamic /\ (\E o \in Range(order) : mdl.kind[o] = "cumulative")
               THEN <<Query(DateSpine, {}, {})>> ELSE <<>>
  /\ UNCHANGED <<input, required, order>>

\* On the dynamic path date_spine comes first, if anything will need it; on the
\* static path it is one of the objects.
BeginRender ==
  /\ phase = "count"
  /\ \A o \in counted \ DOMAIN required : mdl.kind[o] = "cumulative" \/ ~dynamic
  /\ phase' = "render"
  /\ spare' = named \ Range(order)
  /\ ctes' = IF dynamic /\ (\E o \in Range(order) : mdl.kind[o] = "cumulative")
               THEN <<Query(DateSpine, {}, {})>> ELSE <<>>
  /\ UNCHANGED <<input, required, order>>

Render ==
  /\ phase = "render" /\ order # <<>>
  /\ LET o == Head(order)
         F == required[o]
     IN  \E joins \in [Subqueries(o, F) -> UNION {JoinOrders(o, cs) : cs \in Subqueries(o, F)}] :
           /\ \A cs \in Subqueries(o, F) : joins[cs] \in JoinOrders(o, cs)
           /\ ctes' = Append(ctes, Query(o, F, {joins[cs] : cs \in Subqueries(o, F)}))
  /\ order' = Tail(order)
  /\ UNCHANGED <<input, phase, required, spare>>

\* The named objects that are left, in the order of a Go map.
RenderDummy ==
  /\ phase = "render" /\ order = <<>>
  /\ \E o \in spare : ctes' = Append(ctes, Dummy(o)) /\ spare' = spare \ {o}
  /\ UNCHANGED <<input, phase, required, order>>

Finish ==
  /\ phase = "render" /\ order = <<>> /\ spare = {}
  /\ phase' = "done"
  /\ UNCHANGED <<input, required, order, spare, ctes>>

Choose == ChooseStatic \/ ChooseDynamic

RewriteNext ==
  Choose \/ OrderNext \/ CountRows \/ BeginRender
    \/ Render \/ RenderDummy \/ Finish

-----------------------------------------------------------------------------
RewriteSpec == ManifestOK /\ RequestInit /\ [][RewriteNext]_rewriteVars

RewriteTypeOK ==
  /\ ManifestOK /\ dynamic \in BOOLEAN /\ named \subseteq Queryable /\ counted \subseteq named
  /\ phase \in {"choose", "order", "count", "render", "done", "failed"}
  /\ DOMAIN required \subseteq Name /\ \A o \in DOMAIN required : required[o] \subseteq Column
  /\ Range(order) \subseteq DOMAIN required
  /\ spare \subseteq named
  /\ \A k \in DOMAIN ctes : ctes[k].name \in Name /\ ctes[k].gives \subseteq Column

\* Every table the statement names is defined by exactly one WITH query, which
\* gives all its columns, whatever was pruned; no name is defined twice.
NamedDefinedOnce ==
  /\ RewriteTypeOK
  /\ phase = "done" =>
       /\ \A j, k \in DOMAIN ctes : ctes[j].name = ctes[k].name => j = k
       /\ \A o \in named : \E k \in DOMAIN ctes : ctes[k].name = o /\ Cols(o) \subseteq ctes[k].gives

\* Where pruning keeps all that is read: every relationship leads to a named
\* model in one hop, every metric is on a model and calculates its columns, and
\* where it follows relationships that model is named and a column calculated
\* from it is needed, every cumulative metric is named, and the models that are
\* not named have plain columns only.
PruningSafe ==
  LET models == {o \in StaticObjects : IsModel(o)}
      metrics == {o \in StaticObjects : mdl.kind[o] = "metric"}
      needed(o, forms) == {c \in Formed(o, forms) : <<o, c>> \in LineageFields /\ mdl.uses[o][c] # {}}
  IN  /\ \A o \in models \cup metrics : \A c \in Chained(o) :
           Len(mdl.path[o][c]) = 1 /\ Range(mdl.path[o][c]) \subseteq named
      /\ \A o \in metrics : OnModel(o) /\ Formed(o, {"plain"}) = {}
      /\ \A o \in metrics : needed(o, {"toOne", "toMany"}) # {} =>
           Origin(o) \in named /\ needed(o, {"derived"}) # {}
      /\ \A o \in StaticObjects : mdl.kind[o] = "cumulative" => o \in named
      /\ \A o \in models \ named : Cols(o) = Formed(o, {"plain"})

\* What a WITH query reads is given by an earlier one, or by its own inner
\* queries: always on the static path, and where pruning is safe.
ReadsGiven ==
  phase = "done" /\ (dynamic => PruningSafe) =>
    \A k \in DOMAIN ctes :
      /\ ctes[k].whole
      /\ \A r \in ctes[k].reads :
           \E j \in 1 .. k - 1 : ctes[j].name = r[1] /\ r[2] \in ctes[j].gives

\* The dynamic path only leaves out: it defines nothing that the static path
\* would not, and refuses nothing but what the static path refuses.
DynamicWithinStatic ==
  dynamic =>
    /\ DOMAIN required \subseteq StaticObjects
    /\ phase = "failed" => Circular(StaticLinks)

\* The design has whatever flows into the SQL in an order kept in an ordered
\* structure: a join must not come before the table that it joins to.
JoinsInScope ==
  \A k \in DOMAIN ctes : \A js \in ctes[k].joins : InScope(ctes[k].name, js)
=============================================================================
