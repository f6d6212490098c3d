----------------------------- MODULE CtePlanner -----------------------------
(***************************************************************************)
(* How the rewrite rules GenerateViewRewrite and WrenSqlRewrite (static    *)
(* path) choose the CTEs of a query.  Both describe the objects the query  *)
(* names, walk depth first through what these require, and hand the graph  *)
(* they found to topoSort.  The rules differ in the objects they start     *)
(* from and in that the view rule follows views only.                      *)
(*                                                                         *)
(* An object's rendered SQL is abstracted to the objects it requires.      *)
(***************************************************************************)
EXTENDS TopoSort

CONSTANT DateSpine   \* the reserved name date_spine

ASSUME DateSpineAssumption == DateSpine \in Name

VARIABLES
  mdl,        \* what is never assigned: the manifest, and the rule that reads it
  queried,    \* the objects the statement names, of the kinds the rule expands
  phase,      \* "describe", "walk", "sort", then "planned" or "failed"
  seedsLeft,  \* queried objects the walk has not started from
  stack,      \* the calls of addToGraph: the object, what it has still to visit
  seen,       \* the required objects already visited (the map seen)
  described,  \* the keys of descriptorMap
  ctes        \* the names of the WITH queries prepended to the statement

walkVars == <<seedsLeft, stack, seen, described>>
plannerVars == <<mdl, queried, phase, walkVars, ctes, sortVars>>

Kind == {"model", "metric", "cumulative", "view", "spine"}

OfKind(m, k) == {o \in Name : m.kind[o] = k}

Queryable ==
  {o \in Name : IF mdl.rule = "view" THEN mdl.kind[o] = "view"
                ELSE mdl.kind[o] \in {"model", "metric", "cumulative"}}

-----------------------------------------------------------------------------
\* A manifest as far as the walk reads it.  A broken object is one that cannot
\* be described: a dangling base, SQL that does not parse, an unknown name.
\* getWindowType does not return on a circular chain of cumulative metrics
\* whose windows refer to each other, and is an error on any other.
NoCumulativeCycle(m) ==
  \A S \in SUBSET (OfKind(m, "cumulative") \ m.broken) :
    S # {} => \E c \in S : m.base[c] \cap S = {}

Manifest(m) ==
  LET models == OfKind(m, "model")
      derived == OfKind(m, "metric") \cup OfKind(m, "cumulative")
  IN  /\ OfKind(m, "spine") = {DateSpine}
      /\ \A o \in models :
           /\ m.base[o] \subseteq models \ {o} /\ Cardinality(m.base[o]) <= 1
           /\ m.related[o] \subseteq models \ {o}
      /\ \A o \in derived :
           m.base[o] \subseteq models \cup derived /\ Cardinality(m.base[o]) = 1
      /\ \A o \in OfKind(m, "metric") :
           /\ m.related[o] \subseteq models \ m.base[o]
           /\ m.base[o] \subseteq models \/ m.related[o] = {}
      /\ \A o \in OfKind(m, "cumulative") : m.related[o] = {}
      /\ \A o \in OfKind(m, "view") : m.base[o] = {} /\ m.related[o] \subseteq Name \ {DateSpine}
      /\ m.base[DateSpine] = {} /\ m.related[DateSpine] = {}
      /\ NoCumulativeCycle(m)

Manifests ==
  {m \in [rule : {"static", "view"},
          kind : [Name -> Kind],
          base : [Name -> SUBSET Name],
          related : [Name -> SUBSET Name],
          broken : SUBSET Name] : Manifest(m)}

\* RequiredObjects of the object's descriptor: the models a calculated field
\* reaches over relationships, the base of a metric, the objects a view names.
\* The base object of a model is not among them.
RequiredObjects(o) ==
  mdl.related[o] \cup (IF mdl.kind[o] = "model" THEN {} ELSE mdl.base[o])
                 \cup (IF mdl.kind[o] = "cumulative" THEN {DateSpine} ELSE {})

\* The view rule skips every required object that is no view.
Visited(o) ==
  IF mdl.rule = "view" THEN {r \in RequiredObjects(o) : mdl.kind[r] = "view"} ELSE RequiredObjects(o)

\* The seeds: models, then metrics, then cumulative metrics, each by name.
SeedBefore(o, p) ==
  LET rank(x) == CASE mdl.kind[x] = "model" -> 1 [] mdl.kind[x] = "metric" -> 2 [] OTHER -> 3
  IN  rank(o) < rank(p) \/ (rank(o) = rank(p) /\ o <= p)

-----------------------------------------------------------------------------
PlannerInit ==
  /\ mdl \in Manifests
  /\ queried \in SUBSET Queryable
  /\ phase = "describe"
  /\ seedsLeft = {} /\ stack = <<>> /\ seen = {} /\ described = {}
  /\ ctes = <<>>
  /\ vertices = {} /\ edges = <<>> /\ Idle

\* All queried objects are described before the walk begins; a statement that
\* names none is left as it is.
DescribeQueried ==
  /\ phase = "describe"
  /\ phase' = CASE queried \cap mdl.broken # {} -> "failed"
                [] queried = {} -> "planned"
                [] OTHER -> "walk"
  /\ seedsLeft' = queried
  /\ UNCHANGED <<mdl, queried, stack, seen, described, ctes, sortVars>>

Frame(o) == [obj |-> o, todo |-> Visited(o)]

\* addToGraph is called for the next seed.  It is not marked as seen: should
\* another object require it, it is walked a second time.
NextSeed ==
  /\ phase = "walk"
  /\ stack = <<>>
  /\ \E d \in seedsLeft :
       /\ \A e \in seedsLeft : SeedBefore(d, e)
       /\ seedsLeft' = seedsLeft \ {d}
       /\ vertices' = vertices \cup {d}
       /\ described' = described \cup {d}
       /\ stack' = <<Frame(d)>>
  /\ UNCHANGED <<mdl, queried, phase, seen, ctes, edges, loopVars>>

\* The next required object of the innermost call, in the order of the names.
Visiting(r) ==
  /\ phase = "walk"
  /\ stack # <<>>
  /\ r \in Head(stack).todo
  /\ \A s \in Head(stack).todo : r <= s

Advance(r) ==
  <<[obj |-> Head(stack).obj, todo |-> Head(stack).todo \ {r}]>> \o Tail(stack)

Link(r) ==
  /\ vertices' = vertices \cup {r}
  /\ edges' = Append(edges, <<r, Head(stack).obj>>)
  /\ UNCHANGED <<mdl, queried, seedsLeft, ctes, loopVars>>

\* Mutant: an object already seen is left out of the graph.
VisitSeenWithoutEdge ==
  \E r \in Name :
    /\ Visiting(r) /\ r \in seen
    /\ stack' = Advance(r)
    /\ UNCHANGED <<mdl, queried, phase, seedsLeft, seen, described, ctes, sortVars>>

VisitSeen ==
  \E r \in Name :
    /\ Visiting(r) /\ r \in seen
    /\ Link(r)
    /\ stack' = Advance(r)
    /\ UNCHANGED <<phase, seen, described>>

\* Mutant: an object is marked as seen only when the query names it.
VisitNewMarksSeeds ==
  \E r \in Name \ (seen \cup mdl.broken) :
    /\ Visiting(r)
    /\ Link(r)
    /\ seen' = seen \cup ({r} \cap queried)
    /\ described' = described \cup {r}
    /\ stack' = <<Frame(r)>> \o Advance(r)
    /\ UNCHANGED phase

\* Mutant: the new object is not followed further.
VisitNewShallow ==
  \E r \in Name \ (seen \cup mdl.broken) :
    /\ Visiting(r)
    /\ Link(r)
    /\ seen' = seen \cup {r}
    /\ described' = described \cup {r}
    /\ stack' = Advance(r)
    /\ UNCHANGED phase

\* The object is marked, described and walked before its siblings.
VisitNew ==
  \E r \in Name \ (seen \cup mdl.broken) :
    /\ Visiting(r)
    /\ Link(r)
    /\ seen' = seen \cup {r}
    /\ described' = described \cup {r}
    /\ stack' = <<Frame(r)>> \o Advance(r)
    /\ UNCHANGED phase

VisitBroken ==
  \E r \in mdl.broken \ seen :
    /\ Visiting(r)
    /\ Link(r)
    /\ phase' = "failed"
    /\ UNCHANGED <<stack, seen, described>>

Return ==
  /\ phase = "walk"
  /\ stack # <<>> /\ Head(stack).todo = {}
  /\ stack' = Tail(stack)
  /\ UNCHANGED <<mdl, queried, phase, seedsLeft, seen, described, ctes, sortVars>>

BeginSort ==
  /\ phase = "walk"
  /\ stack = <<>> /\ seedsLeft = {}
  /\ phase' = "sort"
  /\ StartSort
  /\ UNCHANGED <<mdl, queried, walkVars, ctes>>

SortStep ==
  /\ phase = "sort"
  /\ TakeReady \/ Relax \/ EndSort
  /\ UNCHANGED <<mdl, queried, phase, walkVars, ctes>>

\* Mutant: a cyclic graph is planned as far as it could be sorted.
EmitDespiteCycle ==
  /\ phase = "sort" /\ sorting \in {"order", "cycle"}
  /\ phase' = "planned"
  /\ ctes' = order
  /\ UNCHANGED <<mdl, queried, walkVars, sortVars>>

\* One WITH query per name in the order, provided that each has a descriptor.
Emit ==
  /\ phase = "sort" /\ sorting \in {"order", "cycle"}
  /\ IF sorting = "order" /\ Ordered \subseteq described
       THEN phase' = "planned" /\ ctes' = order
       ELSE phase' = "failed" /\ ctes' = ctes
  /\ UNCHANGED <<mdl, queried, walkVars, sortVars>>

WalkStep == NextSeed \/ VisitSeen \/ VisitNew \/ VisitBroken \/ Return

PlannerNext ==
  \/ DescribeQueried
  \/ WalkStep
  \/ BeginSort
  \/ SortStep
  \/ Emit

\* Apply runs in the goroutine of the request, without waiting for anything.
PlannerSpec ==
  PlannerInit /\ [][PlannerNext]_plannerVars /\ WF_plannerVars(PlannerNext)

-----------------------------------------------------------------------------
Requires == [o \in Name |-> Visited(o)]

PlanSoFar == IF phase = "failed" THEN <<>> ELSE order

Outcome ==
  CASE phase = "planned" -> "accepted" [] phase = "failed" -> "refused" [] OTHER -> "none"

Plan == INSTANCE CtePlan WITH
  wanted <- queried, requires <- Requires, unusable <- mdl.broken,
  plan <- PlanSoFar, outcome <- Outcome

FrameType == [obj : Name, todo : SUBSET Name]

PlannerTypeOK ==
  /\ mdl \in Manifests
  /\ queried \subseteq Queryable
  /\ phase \in {"describe", "walk", "sort", "planned", "failed"}
  /\ seedsLeft \subseteq queried
  /\ stack \in Seq(FrameType)
  /\ seen \subseteq Name
  /\ described \subseteq Name
  /\ ctes \in Seq(Name)
  /\ phase \in {"describe", "walk"} => sorting = "idle"
  /\ phase = "sort" => sorting # "idle"

(***************************************************************************)
(* The walk loses nothing and invents nothing.  While it runs, everything  *)
(* a described object requires is linked to it already or waits in a call  *)
(* for it; everything linked was marked and described, and is needed.      *)
(***************************************************************************)
Linked(r, o) == \E i \in DOMAIN edges : edges[i] = <<r, o>>
Waiting(r, o) == \E k \in DOMAIN stack : stack[k].obj = o /\ r \in stack[k].todo

WalkSound ==
  /\ vertices \subseteq Plan!Needed
  /\ \A i \in DOMAIN edges : To(i) \in vertices /\ From(i) \in Visited(To(i)) \cap vertices
  /\ \A k \in DOMAIN stack :
       stack[k].obj \in described /\ stack[k].todo \subseteq Visited(stack[k].obj)

WalkComplete ==
  /\ phase = "describe" => stack = <<>> /\ ctes = <<>> /\ seen \cup described \cup vertices = {}
  /\ phase \in {"walk", "sort"} =>
       /\ vertices = described
       /\ (queried \cup described) \cap mdl.broken = {}
       /\ seen \subseteq described
       /\ queried \subseteq seedsLeft \cup described
       /\ \A o \in described : \A r \in Visited(o) : Linked(r, o) \/ Waiting(r, o)
       /\ phase = "sort" => stack = <<>> /\ seedsLeft = {}

PlannerInv == PlannerTypeOK /\ SortInv /\ WalkSound /\ WalkComplete

(***************************************************************************)
(* Every CTE of a planned statement stands after the CTEs it uses, however *)
(* the walk reached it: as a seed, as a requirement, or as both.           *)
(***************************************************************************)
DefinedBeforeUse ==
  phase = "planned" =>
    \A k \in DOMAIN ctes : Visited(ctes[k]) \subseteq {ctes[j] : j \in 1 .. k - 1}

\* A planned statement defines what the query needs and nothing besides, and
\* uses no object that could not be described.
PlansWhatIsNeeded ==
  phase = "planned" =>
    /\ {ctes[k] : k \in DOMAIN ctes} = Plan!Needed
    /\ Plan!Needed \cap mdl.broken = {}

\* An edge is listed twice when a seed is walked again as a requirement of
\* another object, but never more often: the walk is linear in the manifest.
EdgeAtMostTwice ==
  \A i \in DOMAIN edges :
    Cardinality({j \in DOMAIN edges : edges[j] = edges[i]}) <= 2

\* Each step of the walk and the sort is a step of the abstract plan or
\* invisible: a query is refused only for a broken or circular need.
ImplementsPlan == Plan!PlanInit /\ [][Plan!PlanNext]_(Plan!planVars)

\* Every statement is planned or refused, whatever cycles the manifest has.
PlanAnswered == Plan!Answered

\* The design notes of the model renderer say that its required objects come
\* from the model's baseObject: a model built on another model has it defined.
ModelBaseDefined ==
  phase = "planned" =>
    \A k \in DOMAIN ctes : mdl.kind[ctes[k]] = "model" =>
      mdl.base[ctes[k]] \subseteq {ctes[j] : j \in 1 .. k - 1}
=============================================================================
