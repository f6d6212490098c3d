# A verification of go-wren-engine

go-wren-engine answers SQL queries over a semantic model (the *manifest*, or MDL). A request brings a manifest and
a statement; the engine rewrites the statement so that the models, metrics, views and enums it names become CTEs,
converts it to DuckDB's dialect and runs it. Beside that it serves two things that live as long as the process: its
configuration, kept in a file, and the DuckDB data source with its init and session SQL.

These modules model the parts of it whose correctness is not obvious from one function: how a manifest's macros and
calculated columns become lists of required fields, how the rewrite rules choose, order and fill the CTEs, what becomes
of a statement that is written out and parsed again before each rule, how the configuration is changed and saved by
concurrent requests and across crashes, and how the data source is set up under a lock. TLC checks them on small
instances. TLAPS proves, for every manifest and statement, the planning of CTEs, the lineage, the rewrite rule down to
columns and the list of CTEs that all the rules leave; for any clients, the data source and what the configuration
store keeps.

Contents: [inventory](#inventory) · [plan](#plan) · [modules](#modules) · [runs](#runs) · [fairness](#fairness) ·
[proofs](#proofs) · [disagreements found](#disagreements-found) · [not modelled](#not-modelled)

## Inventory

| component | code (`internal/…`) | state | operations | hard behaviours | what makes it correct |
|---|---|---|---|---|---|
| topological sort | `rewrite/graph.go` | the loop's counters and ready list | `topoSort` | edges listed several times, cycles | topological order, each name once, a cycle error exactly when there is a cycle |
| CTE planning | `rewrite/wren_sql_rewrite.go`, `generate_view_rewrite.go`, descriptors | graph, `seen`, `descriptorMap` of one request | `Apply`, `addToGraph` | seeds met again, views naming each other, one broken object | each CTE before its use; exactly what the query needs; refused only when impossible |
| renderers | `rewrite/model_sql_render.go`, `metric_sql_render.go` | required objects, relationships, calculated columns | `render`, `collectRelationship` | pruned columns that are read all the same, joins over map order, objects without columns | every column read is given before; joins in scope |
| rule pipeline | `rewrite/planner.go`, `with_rewriter.go`, `enum_rewrite.go`, `metric_rollup_rewrite.go` | the statement handed on | `Rewrite` | rules see each other's output; the statement's own CTEs | one complete WITH list, in order; refused only when impossible |
| analysis | `rewrite/analyzer` | scopes, the objects named | `Analyze` | CTE names that hide models, subqueries without a scope | exactly the named objects |
| lineage, dynamic path | `rewrite/lineage`, `wren_sql_rewrite.go` | required fields, a dag, its sort | `Analyze`, `RequiredFields` | calculated fields that use each other, map order | closed, in order, terminating |
| manifest, macros | `mdl` | immutable but for the rendered expressions | `RenderJinja` | macros that call each other or themselves; parameters spelt like arguments | expansion ends, and means what the macros mean |
| parser, formatter | `parser`, `parser/formatter` | none | `Parse`, `FormatSQL` | what parentheses carry; run four times on one statement | what is written is read back as it was |
| configuration store | `config/config.go` | two maps, the file, a temporary file, the archive | `Set`, `Reset`, `LoadFromFile`, `LoadFromEnv`, `SyncToFile`, `Archive`, `FireReload` | concurrent writers, failing system calls, crashes | the file is always whole; what was acknowledged survives |
| properties format | `config/properties.go` | the text of the file | `writeProperties…`, `parseProperties` | escapes, continued lines, blanks | what is saved is read back |
| configuration endpoints | `server/config_handler.go` | a request's list of updated keys | `Patch`, `DeleteAll` | several critical sections per request | nothing lost between memory and file |
| data source | `connector/duckdb/metadata.go` | pool, init SQL, session SQL, lock | `Set…`, `Append…`, queries | scripts failing half way, clients going away, reload | the settings shown have run |
| services, endpoints | `service`, `server` | none | preview, dry plan, dry run, validate | | |
| decision points | `analyzer/decisionpoint` | none | one pure function | | |
| dialect converter | `converter` | none | tree to tree | | |

How they interact: every HTTP request has a goroutine. A query request decodes its own manifest, renders its macros
and passes it with the statement through analysis, the rules and the converter, sharing nothing; `Rewrite` formats and
parses the statement before each rule. It ends in `Metadata.DirectQuery` or `DescribeQuery`, which take the read lock of
the one `Metadata` of the process. Configuration requests share one `ConfigManager` and, through it, the file system.
The preview service reads one configuration key, `EnableDynamicFields`, which chooses between the static and the
dynamic path. There are no queues or timers. Reload hooks exist as callbacks, but the program registers none.

## Plan

Done, in this order: `TopoSort` and its proofs; `CtePlan`, the promise of a rewrite rule, and `CtePlanner`, which
composes the walk of both rules with `TopoSort`, refines it, and is proved to; `DurableConfig` and `ConfigStore`;
`ScriptStore` and `DuckDBMetadata`, whose invariant is proved; `Lineage`, `Macros` and their composition
`RenderedLineage`; `WrenSqlRewrite`, the rule down to columns; `RulePipeline` and, around it, the text between the
rules (`JoinText`, `ExpressionText`, `RewriteText`); `PropertiesFile`, as the text of `ConfigStore`'s file.

Then the proofs about them, in this order: the rest of `CtePlanner` and `TopoSort`; `Lineage`; `ConfigStore`; the
refinement of `ScriptStore`; `WrenSqlRewrite`; `RulePipeline`; `Macros` and `RenderedLineage`. With them every property of every run is proved but
those that the prover cannot reach (named under [proofs](#proofs)).

Left: the parts listed under [not modelled](#not-modelled).

## Modules

| module | models | instance |
|---|---|---|
| `TopoSort` | `topoSort`, one action per step of the loop | within `MCCtePlanner` |
| `Closures` | the least closed set of what is needed, for `WrenSqlRewrite` and `RulePipeline` | |
| `CommonLemmas` | what several proofs need: induction, closures, sequences that are changed in one place, put together or replaced piece by piece | |
| `CtePlan` | abstract: what a rule promises | |
| `CtePlanner` | `applyStatic` and `GenerateViewRewrite.Apply` from the described objects to the CTE list | `MCCtePlanner` |
| `CtePlannerProofs` | theorems of the planner and of the sort | |
| `Macros` | `RenderJinja`, pass by pass | within `MCRenderedLineage` |
| `Lineage` | `RequiredFields`: the recursion, the dag with its cycle guard, the sort | within `MCRenderedLineage` |
| `RenderedLineage` | composes the two with `Lineage.Analyze`, which makes one's output the other's input | `MCRenderedLineage` |
| `LineageProofs` | the theorems of the three | |
| `WrenSqlRewrite` | both paths of the rule down to the columns that each CTE gives and reads | `MCWrenSqlRewrite` |
| `WrenSqlRewriteProofs` | its theorems | |
| `RulePipeline` | the four rules, one after the other, on one statement | within `MCRulePipeline` |
| `RulePipelineProofs` | its theorems | |
| `JoinText`, `ExpressionText` | what formatting and parsing make of joins and of expressions | within `MCRulePipeline` |
| `RewriteText` | `Rewrite`: the rules, and the text between them | `MCRulePipeline` |
| `DurableConfig` | abstract: a store whose file goes from one saved configuration to the next in one step, and which resumes from the last | |
| `PropertiesFile` | `properties.go`, both ways | within `MCConfigStore` |
| `PropertiesFileProofs` | its theorem | |
| `ConfigStore` | `ConfigManager`, `ConfigHandler`, the file system's names and inodes, crashes | `MCConfigStore` |
| `ConfigStoreProofs` | its theorems | |
| `ScriptStore` | abstract: two scripts that are edited in one step or not at all | |
| `DuckDBMetadata` | `Metadata`, `DuckDBHandler`, the RWMutex, what a database has run | `MCDuckDBMetadata` |
| `DuckDBMetadataProofs` | its theorems | |

**TopoSort.** `vertices` and `edges` are the two arguments; `inDeg`, `ready`, `order` are the code's variables; `next`
holds the edges of the inner loop still to relax. `StartSort` is the counting loop, `TakeReady` takes the head of the
sorted ready list, `Relax` is one turn of the inner loop, `EndSort` the final comparison. Names are integers, which
compare as the strings do. The edge list may contain an edge twice, because both callers produce such lists.

**CtePlanner.** `mdl.rule` selects the static rule or the view rule: they have the same walk and differ in their seeds
and in that the view rule follows views only. `stack` is the recursion of `addToGraph` (each frame an object and what
it still has to visit); `seen` and `described` are the maps `seen` and `descriptorMap`. Building a descriptor is
abstracted to what the walk reads from it, `RequiredObjects`, and to whether it fails (`mdl.broken`). The actions
`VisitSeen`, `VisitNew`, `VisitBroken` are the three ways the loop body ends; `NextSeed` starts `addToGraph` for a
queried object, without marking it as seen, as the code does. `BeginSort` and `SortStep` use the actions of `TopoSort`
itself. Manifests in which cumulative metrics are based on each other are excluded: `getWindowType` recurses on those
without end and there is no state after it.

**Macros.** A text is a sequence of words (paths of names, such as `r.c`) and calls with words as arguments;
`ExpandPass` is one `ReplaceAllStringFunc` over an expression, which replaces the parameters one after the other as the
code does: first where one stands as `{{ p }}`, then wherever it stands, also in what was just put; `NextColumn` is the
comparison with `prev` that ends the loop. `Meaning` is the reference: all parameters at once, each macro followed to its
end, to a depth of as many calls as there are macros. That a parameter's name may occur inside a longer word is left out,
and so are the blanks and the empty parentheses of a call.

**Lineage.** `calls` is the recursion of `collectRequiredFields`, `FollowWithin`, `FollowAcross` and `FollowCycle` the
ways an edge is taken or refused, `Overflow` the stack that is full after `MaxDepth` calls. The order of the two maps is
open: any source may be next. The sort is the dag's own, which keeps its queue sorted and counts sets, not lists.

**RenderedLineage.** `objects`, `columnOf` and `metricTexts` are what `Lineage.Analyze` looks at; `AnalyzeLineage` is
`collectSourceColumns` over every column at once, and sets `source`, the input of `Lineage`. Expressions that are still
calls after rendering do not parse; what the parser keeps of them is any part. Names that are no columns have no sources
and are not counted as fields.

**WrenSqlRewrite.** A manifest gives each column a form (plain, renamed, derived, to one row, to many) with the
columns it uses and the path of models. `required` is what either path renders: whole objects, or the lineage's fields.
`Query` is a rendered object, abstracted to the columns it gives, reads and joins; `Innermost`, `Scope` and `Reached`
are its nested SELECTs. A select list with nothing in scope is written empty; the parser reports no error and the query is
planned, without its key (`InnerComplete`). `CountRows`, `BeginRender`, `RenderDummy` are the dynamic path's fallback for `count(*)`, its
early date spine and its `SELECT 1`. Wording, time grains and window frames are left out, and so are relationship
paths that come back to the model they start from, or join one model twice: such joins have no aliases.

**RulePipeline.** A statement is the tables it names (with a catalog or without) in its body, its WITH queries and the
subqueries of its expressions, and the metrics it rolls up there. `Tables` and `Rollups` are what the analysis
collects; each action is one rule's `Apply`, its refusals first. `Needed` and `Plans` are the promise of the planner,
which `CtePlanner` is shown to keep. `Stripped` takes catalogs off the names of objects, none where the static rule has
nothing to add (`ToStrip`), as `applyStatic` then returns early. Enum values matter only if there is no such value.

**JoinText, ExpressionText, RewriteText.** `TextOf` is the formatter and `Parsed` the grammar with the tree builder;
the text is tokens, since layout and literals are of no account here. `Rows` and `Value` say what a tree returns,
with outer joins and three-valued logic, so the properties compare meanings and not trees. A condition starts as its
author writes it, with as few parentheses as precedence allows. `RewriteText` adds one formatting and parsing to each
rule. Natural joins, literals, functions and windows are left out.

**ConfigStore.** `call` holds each handler's local variables, `at` names the next call it makes. Every access to the
maps under the manager's lock is one action (`GetBefore`, `Set`, `Compare`, `Reset`, `Snapshot`); between two of them
any other request may run, as in the code. The file system has inodes, and the three kinds of names that the code
uses: the file (`path`), the one temporary name (`tmp`) and the archive. So a writer whose temporary file has been
renamed goes on writing into what is now the configuration file. A file's contents are a whole text, empty, or mixed
(cut short, or two texts over each other); a whole text is read by `ReadProperties` of `PropertiesFile` and written by
`PropertiesText`, so a key or a value that does not survive its escaping is a changed configuration. A process that
starts on a mixed file may find any map in it. With `Failures`, each system call may fail; a hard link that fails is
copied instead, and a removal that fails leaves the temporary file where it is, as the code drops the error of
`os.Remove` (`unremoved` remembers which). `Restart` is a crash between any two steps followed by `main`: the file, then the environment. Left out:
the bootstrap port, a manager without a file (`main` requires one), the yaml format, and comment loss on writing.

**PropertiesFile.** A character stands for each way the code treats one: the escape sign, separators, comment signs,
blanks, the controls with a letter escape, those written `\uXXXX`, and letters that mean something after a backslash.

**DuckDBMetadata.** `RLock`, `Announce`, `Lock`, `Unlock` are Go's `sync.RWMutex`: a writer announces itself, later
readers block, and an unlock admits all the blocked ones. A script is run one statement at a time (`Exec`), each
committed by itself; a statement fails when it has run already, when what it depends on has not, or when the
request's context was cancelled (`Disconnect`). `ExecDone`, `ExecFails`, `ExecFailsSetInit` and `RestoreDone` are the
ends of `Set…` and `Append…`. A database is the sequence of statements it has run; a query may run one too, since
`/v1/data-source/duckdb/query` takes any SQL. Abstracted: statements are not repeatable; every effect is visible on
every connection of the pool; appending an empty script, reading rows after the lock is released, and `Close` are left out.

## Runs

| run | instance | distinct states | what it shows |
|---|---|---|---|
| `cte` | static rule: two models, a metric, a cumulative metric and the date spine; view rule: three views naming themselves and each other in every way, one model; ≤ 1 broken object, every query | 147,000 | each CTE before its use, exactly the needed ones, cycle errors exact, refinement of `CtePlan`, every query answered |
| `cte_modelbase` | a model built on a model | | *violation*: see below |
| `lineage` | lineage maps of two and three tables in every way; manifests with one to three macros, over models and a metric of any kind | 354,000 | required fields exact, in order, whatever the order of the maps; cycle error exact; only circles within one table overflow the stack; macros mean what they say; refinement of `CtePlan`; every call returns |
| `wren` | three families of manifests, both paths, every set of named objects | 144,000 | named tables defined once and whole, all that is read is given before, pruning only leaves out |
| `wren_joins` | the same | | *violation*: see below |
| `pipeline` | 180 manifests with two views, statements with ≤ 2 WITH queries, a subquery, a rollup; values that no enum has, in the statement and in what it needs; FROM clauses of ≤ 4 tables; 3,400 conditions | 753,000 | the WITH list complete and in order after four rules, catalogs left exactly where the statement tells, refusals exact, joins and conditions keep their meaning |
| `pipeline_union` | the same | | *violation*: see below |
| `config_serial` | one client, two requests (PATCH of ≤ 2 entries, DELETE) on three files written by hand, one request on files with any text of ≤ 2 characters, any call failing, one crash anywhere, one key set by the environment | 432,000 | file whole, saved when answered, acknowledged values and foreign keys survive, archive before replace, refinement of `DurableConfig` |
| `config_concurrent` | two requests at once, any call failing, archives that may share a timestamp | 182,000 | no temporary file left over but one that could not be removed, every request answered |
| `config_halfwritten` | two requests at once, no failure | | *violation*: see below |
| `duckdb` | two clients, scripts that are empty, good, or fail at their second statement; clients going away, requests without end | 144,000 | the lock excludes, settings change in one step or not at all, the init SQL shown has run, nobody waits forever |
| `duckdb_rollback` | two clients | | *violation*: see below |

Why the bounds suffice.

- `cte`: the sort's interesting cases are a doubled edge, a self-loop, and a cycle beside a part that can be sorted;
  the planner needs a seed that another seed requires, at two removes, and a broken object on and off the needed part.
  Five objects give chains of length three; the proofs cover the rest.
- `lineage`: three tables are needed for a cycle that no single edge closes, two columns for tables that need each
  other though no field does, and for a circle inside a table. `MaxDepth` is the number of fields, so a recursion that
  ends never reaches it and one that does not always does. `MaxText` is above what a well-founded expansion grows to
  here, so only endless ones are cut, and those are excepted where it matters.
- `wren`: what a renderer reads depends on a column, its path and whether either end was pruned. Paths of one and two
  hops in an order that is not that of the names, and metrics on a model, a metric or a cumulative metric, give every
  combination of the forms.
- `pipeline`: two views, each of which may name or roll up what the other does, are the least for a definition that one
  rule adds and another has to expand. Four tables are the least for a join tree both of whose halves are joins; with
  one key per table a row is there or not, which every outer join turns on. Conditions of three operators put each
  operator under and beside each other one.
- `config_…`: one key of each sort (static, plain, set by the environment), a PATCH whose second entry is unknown,
  static or undoes the first, and a later request that saves what an earlier one left unsaved: two entries and two
  requests. Any interleaving defect of two writers needs two of them. How a character is treated depends on the one
  before it and on whether it is the first, so texts of two characters have every case but longer runs of backslashes,
  of which the files by hand have one; for written texts of any length, `FormatReadsBack` is proved.
- `duckdb`: `MaxSQL` bounds only what is appended to, so two concurrent appends still build a script of two statements.
  Readers that keep coming while a writer waits are one client that queries again and again.

Deadlock is checked in the data source's runs. A planned or refused query, a returned call, or an idle configuration
store whose requests are used up is a proper end, so there the check for deadlock is off, and a liveness property says
that every call and request is answered (the rules of `pipeline` and `wren` are straight-line code, where it would
say nothing).

Properties worth a comment.

- `SavedWhenAnswered` compares the file with what the manager would write now and so fails if any changed key was
  missed, not only if a write was; it speaks of moments when no request runs and the last answer of each client was no
  error, because an error is all a client is promised after a failed save.
- `AcknowledgedSurvives` leaves out the keys that the environment sets: `LoadFromEnv` runs after `LoadFromFile`, so
  those return to the environment's value whatever was saved.
- `InitExecuted` excepts a database left by a rollback that stopped half way; that it can is `duckdb_rollback`.
- `WithListExact` counts what was added, whatever the statement's own WITH queries are called. One of them may have the
  name of an object that is added: nothing in the code looks for that, and two queries of one name result. `NeededObjects`
  is read from the original statement alone: a metric rolled up in the body stands for its base unless a WITH query of
  the statement hides it.
- `EveryTableFound` has each object defined before its use, always, and says exactly when a name keeps a catalog, with
  which it does not find the definition (`CatalogKept`). There are two ways: a CTE has the name too, such as that of a
  view that the body names with its catalog, and so hides it from the rule that would take the catalog off; or the
  statement needs views only, and the rule returns before it would.
- `ImplementsStore` lets memory change by setting one key that requests may set and by resetting all of them, the file by
  saving everything at once, and both by a process that starts, with what the file holds under its environment. A DELETE
  whose archive or save fails is a reset without a save: what it dropped is back after the next start.
- `NoTmpLeft` excepts files whose removal failed, and only those: a failed rename or write that forgot the removal would
  violate it, whichever of the two requests had the name.
- `ReadsGiven` holds always on the static path. On the dynamic one it holds under `PruningSafe`, a sufficient condition:
  relationships lead to named models in one hop; metrics are on models and calculate their columns, and one that needs a
  field over a relationship has its model named and needs a column that it calculates from it; cumulative metrics are
  named; models that are not named have plain columns only. Without it, the pruned CTE of a model can lack the key that
  another one joins on, or what a metric without calculated columns reads.
- `ExpansionExact` speaks of macros none of which comes back to itself (`WellFounded`) in manifests where no argument
  contains a name that is still looked for when it has been put (`Hygienic`): that of a parameter after the first, or of
  one that stands as `{{ p }}`. Otherwise the value of one parameter is replaced as if it were another one. A body may
  pass its own parameters on, if it is not called without them.
- `OverflowOnlyInFieldCircle` locates the one way in which `RequiredFields` does not return, which ends the process.
- `JoinsKept` excepts a right or full join under a CROSS JOIN (`OuterUnderCross`), `ConditionKept` the two forms of
  `IS [NOT] DISTINCT FROM` (`HasDistinctness`): these do change meaning, and nothing else in reach does.

## Fairness

`TopoSort`, `CtePlanner`, `WrenSqlRewrite` and `RenderedLineage` are loops of one goroutine that wait for nothing:
weak fairness of the next step. In `ConfigStore` each handler is weakly fair, since goroutines are scheduled and system
calls return; no fairness is assumed of requests arriving, of crashes or of failures. In `DuckDBMetadata` each handler
is weakly fair as well, and `Announce` strongly: the mutex between writers hands itself to a waiter after a millisecond
(Go's starvation mode), so a writer that can take it again and again does. That readers cannot starve a writer is not
assumed but checked (`RequestsServed`): it follows from how RWMutex blocks them, and `RLockAlways`, which drops that,
violates it.

## Proofs

Each theorem holds for every value of the constants that satisfies its module's assumption: names are finitely many and
comparable (`NameAssumption`, `LineageAssumption`, `RewriteAssumption`, `PipelineAssumption`), the reserved name of the
date spine is one of them (`DateSpineAssumption`), keys and values are texts, the keys finitely many, and the files that
the process is started on give values from `Value` (`ConfigAssumption`), and what statements need are statements
(`MetadataAssumption`). Where a theorem needs more, it says so (`ASSUME … PROVE`), as below.

*The sort and the planner.*

- `SortInvariant`: `SortInv` is inductive. The hard part is that the list may repeat edges: `InDegCountsUnrelaxed` says
  that a counter equals the number of *positions* of the list still to relax, and `ReadyIffZero` and `RelaxingTaken` tie
  it to the vertices taken. Its conjuncts give `OrderIsTopological` and `OrderHasNoDuplicates`.
- `CycleErrorIsExact`: from `Drained`. What was not taken when the loop ends has a positive counter, so each such vertex
  waits for another one; conversely, the first vertex of a stuck set in the order would have had its requirement before
  it.
- `PlannerInvariant`: `PlannerInv` adds `WalkSound` and `WalkComplete` to the sort's invariant. While the walk runs,
  each requirement of a described object is an edge already or waits in a frame; this is what a seed met again could
  break, and why the walk may leave seeds unmarked.
- `PlanIsRight`: every planned statement satisfies `DefinedBeforeUse` and `PlansWhatIsNeeded`. With the stack empty
  `WalkComplete` says that the described objects are closed under requirements, `WalkSound` that they are needed, so
  they are the least closed set; the order comes from the sort.
- `WalkIsLinear`: no step alone shows that an edge is listed at most twice. `EdgesPaidFor` counts, for each edge, its
  entries in the list, the frames that may still list it, and the two chances its object has of being walked (as a seed,
  and as a requirement not seen): together never more than two.
- `RulesImplementPlan`: initial states are initial states of `CtePlan`; `TakeReady` is `Define`; `Emit` is `Accept` or
  `Refuse`; `DescribeQueried` and `VisitBroken` may be either; all other steps are invisible.

*The lineage.*

- `LineageInvariant`: `CollectedSound` and `CollectedComplete` are the walk's two halves, `LinksAcyclic` what the guard
  keeps, `SortCounts` the sort's counters. From it come `RequiredFieldsAreExact` (the collected fields are closed under
  sources and needed, so they are the least such set) and `CycleErrorsAreExact` (an edge is refused only when its ends
  reach each other through needed fields).
- `OverflowIsFieldCircle` assumes finitely many fields and a stack with room for a chain of them all. `CallChain` adds
  that each call was made for a source of the field below it, so more calls than fields repeat a field, and the calls
  between are the circle.
- `LineageImplementsPlan`: the steps of `CtePlan`, as above.

*Macros, and the lineage of a rendered manifest.*

- `ExpansionIsExact`: `Rendered` says that a pass does not change what an expression means, that an expression which is
  done is one that a pass does not change, and that arguments stay `Tidy`. What it rests on:
  - Replacing one parameter after the other is replacing all at once (`SubstitutedAtOnce`): `Val` is what the first `i`
    parameters make of a name, and an item after them is the item with `Val` put for its names (`ItemStep`).
  - To go one call deeper is to follow what a pass has made (`FollowPass`), and deeper than there are macros nothing is
    left to follow (`FollowSettles`), because in a set of macros that calls no other there is one which none of the set
    calls (`SomeSource`), so one less can be called at each depth. With the two, `MeaningOfPass`; and a text that a pass
    does not change has no macro call (`FixedCallsNone`), so it is what it means (`MeaningOfFixed`).
  - Both are about texts as lists of pieces (`Each`, `EachTwice` in `CommonLemmas`), by induction over their length.
- `RenderedLineageInvariant`, `RenderedAnswersExact`, `RenderedOverflowExact`, `RenderedImplementsPlan`: a step of
  `RenderedLineage` is a step of the lineage, or begins it anew from what was rendered (`RenderedMoves`), so all that holds
  of `Lineage` holds from the manifest on, whatever the parser keeps of an expression.

*The rewrite rule, down to columns.*

- `ManifestOK` says what a manifest is (names that lead somewhere, a path to what a column uses); it is part of
  `RewriteSpec` and of `RewriteTypeOK`, so the run checks it of its manifests. `RewriteInv` says what is chosen
  (`Chosen`), that each object is rendered once (`Once`), after what it is linked to (`Sorted`), with the renderers'
  columns (`AllMade`), date spine first (`SpineFirst`), and that none gets lost between phases (`Covered`).
  `ClosureIsLeast` shows that the iterated `Closure` is the least closed set, which its recursion does not say.
- From it: `NamedTablesDefinedOnce`, `DynamicLeavesOut` (by comparing the two closures), and `WhatIsReadIsGiven`, the
  long one: for each form of column, what the renderer reads is either linked to or one of the fields that the lineage
  requires.

*The rules together.*

- `PipelineInv` says what the statement may look like after each rule, as a function of the original one (`ViewedForms`,
  `AfterForms`, `FinishedForms`: every plan that the planner may have made), and which reasons for refusal have been
  excluded by then. `ConflictFacts`, `CircleFacts` and `EnumFacts` tie each rule's own refusal, which is about a
  statement that other rules have changed, to the original one. Then `AddedIsWhatIsNeeded`, `TablesAreFound` and
  `RefusedForAReason` compare the forms with `NeededObjects`.

*The configuration store.* Files are inodes with three kinds of names, and a writer keeps its descriptor.

- For any number of clients: `NoTemporaryFileStays`, because the temporary file belongs to a handler that is writing
  until that one renames it, removes it or fails to, or the process dies (`TmpInUse`); `TypesAreKept`, by `FormatInv`.
- With one request at a time (`OneAtATime`) and archives that do not share a timestamp (`~SameTick`): `SerialInv`.
  `SerialFiles` says that the temporary file is neither the file nor an archive's link, so that writing it changes
  neither; `SerialCall` what a handler knows between two steps, for instance that what it is about to write is what
  memory and the file's foreign keys give. Both hypotheses are needed: `config_halfwritten` shows `FileWhole` false for
  two requests at once, and two archives in one tick share a name: the second is copied over the first, which may be a
  link to the file itself, and opening it cuts that off. `FileIsWhole`, `AnsweredIsSaved` and `ReplacedFileIsArchived`
  follow, whatever fails and wherever the process dies.
- What is said of a later process needs that a file is read back as it was written: `FormatReadsBack`, which `FormatInv`
  uses. From it come `TypesAreKept`, `ExtrasAreKept` (`ExtrasInFile`), `AcknowledgedIsDurable` and
  `SerialStoreIsDurable`, the refinement of `DurableConfig`: a save is found again as it was written, and a start finds
  what the last save left.

*The file format.* `FormatReadsBack` is about texts of any length, for any finite set of keys; its inductions are over
the number of turns of a loop, as inductions over sets of naturals (`NaturalInduction` in `CommonLemmas`).

- An escaped text is its characters' escapes, one after the other (`Joins`), and `NextUnescaped` standing before an
  escape takes just that escape and gives the character (`UnescapeOne`), whatever follows: so `UnescapedEscaped`.
- No escape ends in an odd number of backslashes (`EscapedEnds`) or contains a line end, so a line written is one line
  when read (`OnOneLine`, `LinesBack`); no separator in an escaped key is without its backslash
  (`SeparatorsEscaped`), and neither the first character of a key nor that of a value is a bare blank or comment sign,
  so the line is taken apart where it was put together (`BodyRead`).
- The lines of a map are the two comments and one line for each key, in some order (`LinesWritten`, over the keys that
  the fold has added), so no key is on two lines, and the map is read back.

*The data source.*

- `MetadataInvariant` and `InitSQLHasRun`: `InitExecuted` speaks of moments when a reader may look, and is not
  inductive. `InitInv` adds what holds while a writer is inside: a PUT, or its rollback, has run a prefix of the init
  SQL on an empty database (`Underway` with 0), a PATCH a prefix of its fragment on one that had run the init SQL
  before. `LockInv` gives that there is one writer and no reader then. The lemmas at the head of the module say how a
  script under way advances with each statement, and that a script and what was run after it are their concatenation.
- `MetadataImplementsScripts`: while a Set is under way a reader may count on the setting that it replaces; it becomes
  the new one in the step that ends it, or never. `SetShows` adds that a Set under way shows its own script.

Proving changed the models in five places. `PruningSafe` was too weak: it allowed a metric whose pruned model lacks
what its inner query reads. `RolledUpBases` counted the base of a metric rolled up in the body even when a WITH query of
the statement hides it, so `RefusalExact` was false for a statement that no instance had; it has one now. The condition
that excluded statements whose own WITH queries have names of objects turned out not to be needed. `Hygienic` was too
weak: it allowed a body to pass on a parameter that has no value, which is then taken for one of the macro it is passed
to. And the model put the value for `{{ p }}` without looking for `p` in it again, as the code does; instances for both
were added.

Only model-checked:

- Liveness, which needs fairness and `ENABLED`: `PlanAnswered`, `RequestsAnswered`, `RequestsServed`,
  `RequiredFieldsReturns`.
- What recursive operators compute over trees of any depth: `JoinsKept` and `ConditionKept` (`JoinText`,
  `ExpressionText`, and `RewriteText`, which instantiates them).

## Disagreements found

Each is a run that expects a violation; the finding in `PROJECT.json` quotes the document.

- `config_halfwritten`: two requests share the temporary file; one truncates what the other is about to rename (or has
  renamed), so the file can be empty or mixed, without any failure. The design and `config.go:236` promise the opposite.
- `duckdb_rollback`: the rollback of a PUT runs with the cancelled context, drops its errors, and lacks what sessions or
  queries had created, so the settings can show an init SQL that the database has not run.
- `cte_modelbase`: the plan takes a model's required objects from its `baseObject`; the code does not, so the CTE of a
  model built on a model uses a name that is not defined.
- `wren_joins`: the relationships of a model are collected in a Go map, so the second join of a path can be written before
  the first, and names a table that is not there yet; the design asks for ordered structures wherever an order
  reaches the SQL.
- `pipeline_union`: the formatter writes `UNIONALL`, which the next parse reads as an alias or not at all, so the second half
  of a `UNION ALL`, `INTERSECT ALL` or `EXCEPT ALL` is lost; the design makes the round trip a precondition of the rules.

Others were met while reading and have no run of their own. In the configuration: PATCH requests are not serialised as the
design says, so two of them answered 200 can leave a file that differs from the configuration in use; a DELETE
whose archive fails has already reset the maps; `Patch` fires the reload hooks of every updated key where the design
fires only those that require it; a comment line that ends in a backslash swallows the next line
(`properties.go:61`) and `key = value` with blanks around the sign gives a value that begins with it, against the rules
of `java.util.Properties` that the file's comment refers to. In the data source: `SetInitSQL` does not execute the session
SQL on the new pool although the comment of `Metadata` says so; an error while rows are read looks like their end. In the
parser and formatter: syntax errors are recovered from in silence (`parser.go:38`); a join to the right of a CROSS JOIN
loses its parentheses (`formatter.go:168`); `NATURAL` is dropped (`ast_builder.go:329`); `IS NOT DISTINCT FROM` is built
as `<>` (`ast_builder.go:591`); regular expression predicates are dropped (`ast_builder.go:465`); set operations whose
operands are set operations or in parentheses, `AT TIME ZONE` and window frames have no builder and panic; several
expressions of the grammar (`CURRENT_DATE`, row constructors, `POSITION`, lambdas, `FETCH FIRST`) are built as nothing and
formatted as nothing. In the rules: `EnumRewrite` takes a table's alias that is spelt like an enum for the enum
(`enum_rewrite.go:47`).

## Not modelled

- The dialect converter renames functions in a tree, the decision point analysis summarises one: pure functions without
  an order of steps, whose correctness is a table of names or the wording of a summary.
- Services and endpoints other than those of the configuration and the data source are pipelines over these parts.
- The Postgres connector is a stub; tools, capture programs and differential tests are test code.
- The yaml format of the configuration is a library's. Of the grammar, literals, functions, windows, grouping and
  everything that no rule or precedence touches. The parser itself (54,000 of the repository's 67,000 lines) is
  generated, and nothing is claimed about it beyond the grammar rules of joins, expressions and set operations; that is
  why the lines mapped are a small share of the whole.
- `getWindowType` on cumulative metrics based on each other recurses without end; rows that are read after the data source's
  lock was released belong to `database/sql`; what the parser recovers to after a syntax error. These are listed among the
  hazards without a property.
- The analysis of a subquery inside an expression may fail, and `expression_analyzer.go:82` drops the error: the tables
  after that place are not collected. `Tables` collects them all. Concurrent requests to the configuration endpoints may
  lose each other's changes from the file; `SavedWhenAnswered` and what follows from it are about one request at a time.
