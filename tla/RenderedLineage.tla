--------------------------- MODULE RenderedLineage ---------------------------
(***************************************************************************)
(* From a manifest to its required fields: the macros in the expressions   *)
(* of the model columns are rendered, the names that are left are resolved *)
(* to the columns they stand for, over relationships, and RequiredFields   *)
(* follows these.                                                          *)
(*                                                                         *)
(* An expression is the words and calls in it.  A call that no macro       *)
(* expands does not parse; what the parser makes of it is any part of it.  *)
(***************************************************************************)
EXTENDS Lineage, Macros

VARIABLES
  objects,     \* the tables: kind, base, and related, the relationship columns
  columnOf,    \* the field of each of the expressions
  metricTexts, \* the expressions of the metrics' columns, which are not rendered
  analysed     \* Lineage.Analyze has returned

manifestVars == <<objects, columnOf, metricTexts>>
renderedVars == <<lineageVars, macrosVars, manifestVars, analysed>>

-----------------------------------------------------------------------------
\* Mutant: a path is not followed over its relationships.
ResolvedHere(t, path) == <<t, path[Len(path)]>>

\* resolveDereference: relationships are followed as long as the names are such,
\* and the next name is the column.
Resolved(t, path) ==
  LET step(at, name) ==
        IF at.found THEN at
        ELSE IF <<at.table, name>> \in DOMAIN objects.related
          THEN [table |-> objects.related[<<at.table, name>>], column |-> name, found |-> FALSE]
          ELSE [table |-> at.table, column |-> name, found |-> TRUE]
      end == FoldLeft(step, [table |-> t, column |-> "", found |-> FALSE], path)
  IN  <<end.table, end.column>>

OrSelf(S, f) == IF S = {} THEN {f} ELSE S

IsModelColumn(f) == \E k \in DOMAIN columnOf : columnOf[k] = f
IsMetricColumn(f) == f \in DOMAIN metricTexts
TextAt(f) ==
  IF IsModelColumn(f) THEN expressions[CHOOSE k \in DOMAIN columnOf : columnOf[k] = f]
  ELSE metricTexts[f]

Parses(text) == Calls(text) = {}
WordsIn(text) == {item.name : item \in Items(text)} \cup UNION {Items(c.args) : c \in Calls(text)}

Unparsed ==
  UNION {{<<f, w>> : w \in WordsIn(TextAt(f))} :
           f \in {f \in Field : (IsModelColumn(f) \/ IsMetricColumn(f)) /\ ~Parses(TextAt(f))}}

\* The words of a field's expression; of one that does not parse, the kept ones.
WordsRead(f, kept) == {w \in WordsIn(TextAt(f)) : Parses(TextAt(f)) \/ <<f, w>> \in kept}

\* collectSourceColumns.  A metric that is built on a metric stands for itself;
\* a measure or a window is the column it refers to, without any look-up.
SourcesOf(f, kept) ==
  LET base == objects.base[TableOf(f)]
      lookedUp(t) == OrSelf({Resolved(t, w) : w \in WordsRead(f, kept)}, f)
  IN  CASE IsModelColumn(f) -> lookedUp(TableOf(f))
        [] IsMetricColumn(f) /\ objects.kind[TableOf(f)] = "cumulative" ->
             {<<base, name>> : name \in Items(TextAt(f)[1].name)}
        [] IsMetricColumn(f) /\ objects.kind[TableOf(f)] = "metric" ->
             IF objects.kind[base] = "model" THEN lookedUp(base) ELSE {f}
        [] OTHER -> {}

\* A name that is no column has no sources, and is not counted as a field here.
AnalyzeLineage ==
  /\ ~Rendering /\ ~analysed
  /\ analysed' = TRUE
  /\ UNCHANGED <<asked, collectVars, sortingVars, lineage, macrosVars, manifestVars>>
  /\ \E kept \in SUBSET Unparsed : source' = [f \in Field |-> SourcesOf(f, kept) \cap Field]
  /\ needed' = LeastClosed'

RenderStep == MacrosNext /\ UNCHANGED <<lineageVars, manifestVars, analysed>>
LineageStep == analysed /\ LineageNext /\ UNCHANGED <<macrosVars, manifestVars, analysed>>

RenderedNext == RenderStep \/ AnalyzeLineage \/ LineageStep

\* Where no expression is left to render the lineage may be given.
RenderedInit == MacrosInit /\ LineageInit /\ analysed \in BOOLEAN

\* One goroutine that waits for nothing.
RenderedFairness == WF_renderedVars(RenderedNext)

RenderedSpec == RenderedInit /\ [][RenderedNext]_renderedVars /\ RenderedFairness

-----------------------------------------------------------------------------
\* From the moment the expressions are analysed, RequiredFields implements the
\* promise of a rewrite rule, for the tables.
ImplementsPlan ==
  /\ analysed => Plan!PlanInit
  /\ [][IF analysed THEN Plan!PlanNext ELSE analysed' => Plan!PlanInit']_<<Plan!planVars, analysed>>

\* If no macro comes back to itself, rendering ends, every column is analysed,
\* and every call of RequiredFields ends, with an answer, with an error, or for
\* a circle of fields with the stack (OverflowOnlyInFieldCircle).
RequiredFieldsReturns == WellFounded => <>(lineage \in {"sorted", "cycle", "overflow"})
=============================================================================
