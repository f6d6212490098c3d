------------------------------ MODULE TopoSort ------------------------------
(***************************************************************************)
(* topoSort of internal/rewrite/graph.go: the order in which the CTEs of a *)
(* rewritten query are emitted.  It is Kahn's algorithm over a list of     *)
(* edges <<required, dependent>> in which the same edge may occur several  *)
(* times: both callers add the edges of an object again when they meet it  *)
(* a second time.                                                          *)
(*                                                                         *)
(* Names are abstracted to integers that compare as the strings do.        *)
(***************************************************************************)
EXTENDS Integers, Sequences, FiniteSets

CONSTANT Name            \* the names a graph may mention

ASSUME NameAssumption == Name \subseteq Int /\ IsFiniteSet(Name)

VARIABLES
  vertices,   \* the vertices argument (a slice without duplicates)
  edges,      \* the edges argument, in the order in which they were added
  sorting,    \* "idle" before the call, "busy" in it, "order"/"cycle" after
  inDeg,      \* per vertex, the edges into it that were not yet relaxed
  ready,      \* the vertices of in-degree 0 not yet taken; kept sorted
  order,      \* the result so far
  next        \* positions in edges still to relax for the vertex just taken

loopVars == <<sorting, inDeg, ready, order, next>>
sortVars == <<vertices, edges, loopVars>>

From(i) == edges[i][1]
To(i) == edges[i][2]

\* The result so far as a set.
Ordered == {order[k] : k \in 1 .. Len(order)}

EdgesInto(v) == {i \in DOMAIN edges : To(i) = v}
EdgesOutOf(v) == {i \in DOMAIN edges : From(i) = v}

-----------------------------------------------------------------------------
Idle ==
  /\ sorting = "idle"
  /\ inDeg = <<>>
  /\ ready = {}
  /\ order = <<>>
  /\ next = {}

SortInit ==
  /\ vertices \in SUBSET Name
  /\ edges \in Seq(vertices \X vertices)
  /\ Idle

\* Mutant: in-degrees count the distinct required vertices, as a graph library
\* that merges parallel edges would, while the loop relaxes every listed edge.
StartSortMergesEdges ==
  /\ sorting = "idle"
  /\ sorting' = "busy"
  /\ inDeg' = [v \in vertices |-> Cardinality({From(i) : i \in EdgesInto(v)})]
  /\ ready' = {v \in vertices : inDeg'[v] = 0}
  /\ UNCHANGED <<vertices, edges, order, next>>

\* The in-degrees are counted over the list of edges, and the vertices
\* without one are ready.
StartSort ==
  /\ sorting = "idle"
  /\ sorting' = "busy"
  /\ inDeg' = [v \in vertices |-> Cardinality(EdgesInto(v))]
  /\ ready' = {v \in vertices : inDeg'[v] = 0}
  /\ UNCHANGED <<vertices, edges, order, next>>

\* Mutant: the vertex taken stays in the ready list.
TakeReadyKeepsVertex ==
  /\ sorting = "busy"
  /\ next = {}
  /\ \E v \in ready :
       /\ \A u \in ready : v <= u
       /\ order' = Append(order, v)
       /\ next' = EdgesOutOf(v)
  /\ UNCHANGED <<vertices, edges, sorting, inDeg, ready>>

\* Take the lexically first ready vertex (topoTieBreak).
TakeReady ==
  /\ sorting = "busy"
  /\ next = {}
  /\ \E v \in ready :
       /\ \A u \in ready : v <= u
       /\ ready' = ready \ {v}
       /\ order' = Append(order, v)
       /\ next' = EdgesOutOf(v)
  /\ UNCHANGED <<vertices, edges, sorting, inDeg>>

\* Mutant: the other edges of the vertex are dropped once one target is ready.
RelaxUntilReady ==
  /\ sorting = "busy"
  /\ \E i \in next :
       /\ \A j \in next : To(i) <= To(j)
       /\ inDeg' = [inDeg EXCEPT ![To(i)] = @ - 1]
       /\ ready' = ready \cup {w \in {To(i)} : inDeg'[w] = 0}
       /\ next' = IF inDeg'[To(i)] = 0 THEN {} ELSE next \ {i}
  /\ UNCHANGED <<vertices, edges, sorting, order>>

\* Relax one edge of the vertex just taken, in the order of the targets.
Relax ==
  /\ sorting = "busy"
  /\ \E i \in next :
       /\ \A j \in next : To(i) <= To(j)
       /\ inDeg' = [inDeg EXCEPT ![To(i)] = @ - 1]
       /\ ready' = ready \cup {w \in {To(i)} : inDeg'[w] = 0}
       /\ next' = next \ {i}
  /\ UNCHANGED <<vertices, edges, sorting, order>>

\* Mutant: only a graph without any source is taken for a cyclic one.
EndSortAfterAny ==
  /\ sorting = "busy"
  /\ next = {}
  /\ ready = {}
  /\ sorting' = IF order = <<>> /\ vertices # {} THEN "cycle" ELSE "order"
  /\ UNCHANGED <<vertices, edges, inDeg, ready, order, next>>

\* Mutant: the loop waits for all the vertices instead of for the ready ones.
EndSortWaits ==
  /\ sorting = "busy"
  /\ next = {}
  /\ Len(order) = Cardinality(DOMAIN inDeg)
  /\ sorting' = "order"
  /\ UNCHANGED <<vertices, edges, inDeg, ready, order, next>>

\* Nothing is ready: the sort failed if a vertex was never taken.
EndSort ==
  /\ sorting = "busy"
  /\ next = {}
  /\ ready = {}
  /\ sorting' = IF Len(order) # Cardinality(DOMAIN inDeg) THEN "cycle" ELSE "order"
  /\ UNCHANGED <<vertices, edges, inDeg, ready, order, next>>

SortNext ==
  \/ StartSort
  \/ TakeReady
  \/ Relax
  \/ EndSort

\* topoSort is a loop of one goroutine: once called, it runs.
SortSpec == SortInit /\ [][SortNext]_sortVars /\ WF_sortVars(SortNext)

-----------------------------------------------------------------------------
SortTypeOK ==
  /\ vertices \subseteq Name
  /\ edges \in Seq(vertices \X vertices)
  /\ sorting \in {"idle", "busy", "order", "cycle"}
  /\ IF sorting = "idle" THEN Idle ELSE inDeg \in [vertices -> Nat]
  /\ ready \subseteq vertices
  /\ order \in Seq(vertices)
  /\ next \subseteq DOMAIN edges

(***************************************************************************)
(* A CTE may only use CTEs that stand before it: whenever a vertex is in   *)
(* the order, every vertex it requires stands at a smaller position, even  *)
(* when the requirement was added to the edge list several times.          *)
(***************************************************************************)
RequiredFirst ==
  \A i \in DOMAIN edges : \A k \in DOMAIN order :
    To(i) = order[k] => \E j \in 1 .. k - 1 : order[j] = From(i)

\* No CTE is defined twice, which DuckDB would refuse: a vertex reached over
\* several edges, or over one edge listed twice, enters the order once.
NoVertexTwice ==
  \A j, k \in DOMAIN order : order[j] = order[k] => j = k

\* The counters the loop decrements one edge at a time always equal the number
\* of edges that it has still to relax: none is relaxed twice or forgotten.
Unrelaxed(v) == {i \in EdgesInto(v) : From(i) \notin Ordered \/ i \in next}

InDegCountsUnrelaxed ==
  sorting # "idle" => \A v \in vertices : inDeg[v] = Cardinality(Unrelaxed(v))

\* A set of vertices each of which requires another one of the set: since the
\* graph is finite it contains a cycle.
Stuck(S) == S # {} /\ \A v \in S : \E i \in EdgesInto(v) : From(i) \in S

\* "found cycle in models" is reported exactly when some vertices of the graph
\* wait for each other, never for a graph that merely lists an edge twice.
CycleIffStuck ==
  /\ sorting = "cycle" => Stuck(vertices \ Ordered)
  /\ sorting = "order" => Ordered = vertices /\ \A S \in SUBSET vertices : ~Stuck(S)

(***************************************************************************)
(* The inductive invariant behind the two properties above.  A vertex is   *)
(* ready or taken exactly when its counter is zero, only edges of taken    *)
(* vertices are being relaxed, and the loop ends with nothing left to do.  *)
(***************************************************************************)
ReadyIffZero ==
  sorting # "idle" =>
    /\ ready \cap Ordered = {}
    /\ \A v \in vertices : inDeg[v] = 0 <=> v \in ready \cup Ordered

RelaxingTaken == \A i \in next : From(i) \in Ordered

Drained ==
  sorting \in {"order", "cycle"} =>
    /\ next = {} /\ ready = {}
    /\ sorting = "cycle" <=> Len(order) # Cardinality(vertices)

SortInv ==
  /\ SortTypeOK
  /\ RequiredFirst
  /\ NoVertexTwice
  /\ InDegCountsUnrelaxed
  /\ ReadyIffZero
  /\ RelaxingTaken
  /\ Drained

\* The call returns, on every graph.
Terminates == <>(sorting \in {"order", "cycle"})
=============================================================================
