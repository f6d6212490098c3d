---------------------------- MODULE RulePipeline ----------------------------
(***************************************************************************)
(* Rewrite: the rules one after the other, each on the statement that the  *)
(* one before it left.  The view rule prepends the views a statement needs *)
(* to its WITH list, the rollup rule replaces roll_up(metric, ...) by a    *)
(* query of the metric's base, and the static path of WrenSqlRewrite       *)
(* prepends models and metrics and takes catalog and schema off the names  *)
(* of tables.  EnumRewrite replaces enum values in expressions.            *)
(*                                                                         *)
(* A statement is abstracted to the tables it names and where: in its      *)
(* body, in subqueries of expressions, and in its WITH queries.  Of enums  *)
(* only those matter that are asked for a value they do not have.          *)
(***************************************************************************)
EXTENDS Closures, Sequences, SequencesExt

CONSTANTS
  Object,   \* names of the manifest's models, metrics and views
  OwnName   \* names that statements give to WITH queries of their own

ASSUME PipelineAssumption == Object \cup OwnName \subseteq Int /\ IsFiniteSet(Object)

VARIABLES
  mdl,      \* the manifest: kind, what each object names, badEnum: whose
            \* expressions ask an enum for a value it does not have
  original, \* the statement before the first rule
  stmt,     \* the statement
  rule      \* the next rule: "view", "rollup", "wren", "enum"; "done" or "refused"

pipelineVars == <<mdl, original, stmt, rule>>

\* A table as it is written: with catalog and schema, or not.
Ref == [name : Object \cup OwnName, qualified : BOOLEAN]
Plainly(names) == [name : names, qualified : {FALSE}]
NamesOf(refs) == {r.name : r \in refs}

OfKind(k) == {o \in Object : mdl.kind[o] = k}
WithNames(s) == {s.with[i].name : i \in DOMAIN s.with}
WithRefs(s) == UNION {s.with[i].refs : i \in DOMAIN s.with}
Rollups(s) == s.rollups \cup UNION {s.with[i].rollups : i \in DOMAIN s.with}

\* Analysis.tables.  The names of WITH queries hide objects from the body, but
\* neither from each other nor from the subqueries of expressions, which are
\* analysed without a scope.
Tables(s) ==
  (NamesOf(WithRefs(s)) \cup NamesOf(s.subqueries) \cup (NamesOf(s.refs) \ WithNames(s)))
    \cap Object

\* Mutant: the WITH queries and the subqueries are not looked at.
DuplicateInBody(s) == NamesOf(s.refs) \cap s.rollups # {}

\* A metric may not be named and rolled up in one statement.
DuplicateMetrics(s) == Tables(s) \cap Rollups(s) # {}

-----------------------------------------------------------------------------
\* What the planner of the two rules promises: all that is needed, in order.
Requires(o) ==
  IF mdl.kind[o] = "view" THEN NamesOf(mdl.refs[o]) ELSE mdl.base[o]

Needed(seeds, kinds) ==
  LET these == {o \in Object : mdl.kind[o] \in kinds}
  IN  Closure(Object, seeds \cap these, [o \in Object |-> Requires(o) \cap these])

Circular(S) == \E T \in SUBSET S : T # {} /\ \A o \in T : Requires(o) \cap T # {}

Plans(S) ==
  {p \in SetToSeqs(S) : \A i \in DOMAIN p : Requires(p[i]) \cap S \subseteq {p[j] : j \in 1 .. i - 1}}

\* roll_up(m, ...) becomes a query of the base of m.
Bases(rollups) == UNION {mdl.base[m] : m \in rollups}
Unrolled(refs, rollups) == refs \cup Plainly(Bases(rollups))

BadRollup(rollups) == rollups \cap mdl.badEnum # {}

\* The body of a view has its rollups replaced when the view is described.
Described(o) ==
  [name |-> o,
   refs |-> IF mdl.kind[o] = "view" THEN Unrolled(mdl.refs[o], mdl.rollups[o])
            ELSE Plainly(mdl.base[o]),
   rollups |-> {},
   badEnum |-> o \in mdl.badEnum \/ BadRollup(mdl.rollups[o])]

ViewBroken(v) == NamesOf(mdl.refs[v]) \cap mdl.rollups[v] # {}

\* Mutant: the new queries are appended to the statement's own.
PrependLast(p, s) == [s EXCEPT !.with = @ \o [i \in DOMAIN p |-> Described(p[i])]]

\* applyWith.
Prepend(p, s) == [s EXCEPT !.with = [i \in DOMAIN p |-> Described(p[i])] \o @]

Refuse ==
  rule' = "refused" /\ UNCHANGED <<mdl, original, stmt>>

\* Mutant: only the views that the statement itself names are expanded.
ExpandViewsOnce ==
  /\ rule = "view"
  /\ LET views == Tables(stmt) \cap OfKind("view")
     IN  \/ (DuplicateMetrics(stmt) \/ Circular(views) \/ \E v \in views : ViewBroken(v)) /\ Refuse
         \/ /\ ~DuplicateMetrics(stmt) /\ ~Circular(views) /\ \A v \in views : ~ViewBroken(v)
            /\ \E p \in Plans(views) : stmt' = Prepend(p, stmt)
            /\ rule' = "rollup"
            /\ UNCHANGED <<mdl, original>>

ExpandViews ==
  /\ rule = "view"
  /\ LET views == Needed(Tables(stmt), {"view"})
     IN  \/ (DuplicateMetrics(stmt) \/ Circular(views) \/ \E v \in views : ViewBroken(v)) /\ Refuse
         \/ /\ ~DuplicateMetrics(stmt) /\ ~Circular(views) /\ \A v \in views : ~ViewBroken(v)
            /\ \E p \in Plans(views) : stmt' = Prepend(p, stmt)
            /\ rule' = "rollup"
            /\ UNCHANGED <<mdl, original>>

WithRollups(q) ==
  [q EXCEPT !.refs = Unrolled(@, q.rollups), !.rollups = {}, !.badEnum = @ \/ BadRollup(q.rollups)]

Replaced(s) == [WithRollups(s) EXCEPT !.with = [i \in DOMAIN @ |-> WithRollups(@[i])]]

ReplaceRollups ==
  /\ rule = "rollup"
  /\ \/ DuplicateMetrics(stmt) /\ Refuse
     \/ /\ ~DuplicateMetrics(stmt)
        /\ stmt' = Replaced(stmt)
        /\ rule' = "wren"
        /\ UNCHANGED <<mdl, original>>

\* rewriteModelTables: the tables that the analysis took for objects, which no
\* name of the WITH list hides, lose their catalog and schema.
Bare(refs, names) == {r \in refs : r.name \notin names} \cup Plainly(NamesOf(refs) \cap names)

StrippedQuery(names, q) == [q EXCEPT !.refs = Bare(@, names)]

Stripped(names, s) ==
  [s EXCEPT !.refs = Bare(@, names \ WithNames(s)), !.subqueries = Bare(@, names),
            !.with = [i \in DOMAIN @ |-> StrippedQuery(names, @[i])]]

\* applyStatic is left before that when it has nothing to add.
ToStrip(objects) == IF objects = {} THEN {} ELSE Object

\* Models and metrics; the WITH list that hides names is the one of before.
ExpandObjects ==
  /\ rule = "wren"
  /\ LET objects == Needed(Tables(stmt), {"model", "metric"})
     IN  \/ Circular(objects) /\ Refuse
         \/ /\ ~Circular(objects)
            /\ \E p \in Plans(objects) : stmt' = Prepend(p, Stripped(ToStrip(objects), stmt))
            /\ rule' = "enum"
            /\ UNCHANGED <<mdl, original>>

BadEnum(s) == s.badEnum \/ \E i \in DOMAIN s.with : s.with[i].badEnum

\* Enum values are expressions: no table and no WITH query changes.
RewriteEnums ==
  /\ rule = "enum"
  /\ \/ BadEnum(stmt) /\ Refuse
     \/ ~BadEnum(stmt) /\ rule' = "done" /\ UNCHANGED <<mdl, original, stmt>>

PipelineNext == ExpandViews \/ ReplaceRollups \/ ExpandObjects \/ RewriteEnums

\* A metric is on models and metrics, a view names what it likes and rolls up
\* metrics.
ManifestOK ==
  /\ mdl.kind \in [Object -> {"model", "metric", "view"}]
  /\ \A o \in Object :
       /\ mdl.base[o] \subseteq OfKind("model") \cup OfKind("metric")
       /\ mdl.kind[o] # "metric" => mdl.base[o] = {}
       /\ mdl.refs[o] \subseteq Ref /\ mdl.rollups[o] \subseteq OfKind("metric")
       /\ mdl.kind[o] # "view" => mdl.rollups[o] = {}

\* A statement that rolls up metrics only.
WithQuery ==
  [name : OwnName, refs : SUBSET Ref, rollups : SUBSET OfKind("metric"), badEnum : BOOLEAN]
Statement ==
  [with : Seq(WithQuery), refs : SUBSET Ref, subqueries : SUBSET Ref,
   rollups : SUBSET OfKind("metric"), badEnum : BOOLEAN]

PipelineInit == original \in Statement /\ stmt = original /\ rule = "view"

PipelineSpec == ManifestOK /\ PipelineInit /\ [][PipelineNext]_pipelineVars

-----------------------------------------------------------------------------
\* Read from the statement and the manifest alone: the objects a statement
\* needs, its own roll_ups and those of its views taken for their bases.  A base
\* may be hidden by a WITH query, where a roll_up is in the body.
NeededViews == Needed(Tables(original), {"view"})
ViewTables == UNION {NamesOf(Unrolled(mdl.refs[v], mdl.rollups[v])) : v \in NeededViews}
TablesWithViews == Tables(original) \cup ViewTables
RolledUpBases ==
  (Bases(original.rollups) \ WithNames(original))
    \cup UNION {Bases(original.with[i].rollups) : i \in DOMAIN original.with}
NeededObjects == NeededViews \cup Needed(TablesWithViews \cup RolledUpBases, {"model", "metric"})

\* The rules add exactly what is needed, each object once, and in front of the
\* statement's own WITH queries, which stay as many and in order; no roll_up is
\* left.
WithListExact ==
  rule = "done" =>
    LET n == Len(stmt.with) - Len(original.with)
        names == [i \in DOMAIN stmt.with |-> stmt.with[i].name]
    IN  /\ {names[i] : i \in 1 .. n} = NeededObjects
        /\ n = Cardinality(NeededObjects)
        /\ \A i \in DOMAIN original.with : names[n + i] = original.with[i].name
        /\ Rollups(stmt) = {}

\* No rule takes the catalog off the name of an object in the body when a WITH
\* query has that name too, such as that of a view that was just added; nor
\* anywhere in a statement that needs views only.
CatalogKept ==
  \/ \E r \in original.refs :
       r.qualified /\ r.name \in Object \cap (WithNames(original) \cup OfKind("view"))
  \/ /\ NeededObjects \subseteq OfKind("view")
     /\ \E r \in original.subqueries \cup WithRefs(original) \cup UNION {mdl.refs[v] : v \in NeededViews} :
          r.qualified /\ r.name \in Object

\* Whatever object the statement, its WITH queries, the views or the rollups
\* name is defined before it is used, though three rules added definitions.  A
\* name with a catalog does not find its definition: there is one left exactly
\* where CatalogKept says so.  No rule looks whether a WITH query of the
\* statement's own already has the name of an object that it adds: then there
\* are two, and both come before the use.
EveryTableFound ==
  rule = "done" =>
    /\ \A r \in stmt.refs \cup stmt.subqueries : r.name \in Object => r.name \in WithNames(stmt)
    /\ \A i \in DOMAIN stmt.with : \A r \in stmt.with[i].refs :
         r.name \in Object => \E j \in 1 .. i - 1 : stmt.with[j].name = r.name
    /\ CatalogKept <=> \E r \in stmt.refs \cup stmt.subqueries \cup WithRefs(stmt) :
                          r.qualified /\ r.name \in Object

\* A metric is rolled up by the statement, and named by it or by a view; or one
\* view does both itself.
Conflict ==
  \/ Rollups(original) \cap TablesWithViews # {}
  \/ \E v \in NeededViews : ViewBroken(v)

\* An enum is asked for a value it does not have.
NoValue ==
  LET rolledUp == Rollups(original) \cup UNION {mdl.rollups[v] : v \in NeededViews}
  IN  BadEnum(original) \/ (NeededObjects \cup rolledUp) \cap mdl.badEnum # {}

\* A statement is refused for a circle among what it needs, for a metric that
\* it rolls up and that it or one of its views names, and for a view that does
\* both itself: not for one view that names a metric another one rolls up.
RefusalExact ==
  /\ rule = "refused" => Conflict \/ Circular(NeededObjects) \/ NoValue
  /\ rule = "done" => ~Conflict /\ ~Circular(NeededObjects) /\ ~NoValue
=============================================================================
