-------------------------- MODULE CtePlannerProofs --------------------------
(***************************************************************************)
(* The order that topoSort returns is right for every graph; the plan of a *)
(* rewrite rule is complete, minimal and in order for every manifest, and  *)
(* the rule implements CtePlan.                                            *)
(***************************************************************************)
EXTENDS CtePlanner, CommonLemmas

-----------------------------------------------------------------------------
(* The order of the sort is right for every graph.                         *)

\* The positions of a finite list are finitely many, and so is every set of
\* them.
LEMMA PositionsFinite ==
  ASSUME SortTypeOK, NEW S \in SUBSET DOMAIN edges
  PROVE  IsFiniteSet(S) /\ Cardinality(S) \in Nat
<1>1. IsFiniteSet(DOMAIN edges)
  <2>1. DOMAIN edges = 1 .. Len(edges) /\ Len(edges) \in Nat
    BY DEF SortTypeOK
  <2>. QED  BY <2>1, FS_Interval
<1>. QED  BY <1>1, FS_Subset, FS_CardinalityType

\* The order has as many elements as it has positions: no vertex is in it twice.
LEMMA OrderedCardinality ==
  ASSUME SortTypeOK, NoVertexTwice
  PROVE  IsFiniteSet(Ordered) /\ Cardinality(Ordered) = Len(order)
<1>1. order \in Seq(vertices) /\ DOMAIN order = 1 .. Len(order)
  BY DEF SortTypeOK
<1>. QED  BY <1>1, DistinctElements DEF NoVertexTwice, Ordered

-----------------------------------------------------------------------------
\* The step lemmas: a property of the edges not yet relaxed, per action.

LEMMA UnrelaxedFinite ==
  ASSUME SortTypeOK, NEW v
  PROVE  IsFiniteSet(Unrelaxed(v)) /\ Cardinality(Unrelaxed(v)) \in Nat
BY PositionsFinite, Unrelaxed(v) \subseteq DOMAIN edges DEF Unrelaxed, EdgesInto

LEMMA InitSortInv == SortInit => SortInv
BY DEF SortInit, Idle, SortInv, SortTypeOK, RequiredFirst, NoVertexTwice, InDegCountsUnrelaxed,
       ReadyIffZero, RelaxingTaken, Drained

LEMMA StartSortInv ==
  ASSUME SortInv, StartSort
  PROVE  SortInv'
<1>. USE DEF StartSort
<1>1. \A v \in vertices : Cardinality(EdgesInto(v)) \in Nat
  BY PositionsFinite DEF SortInv, EdgesInto
<1>2. order = <<>> /\ next = {} /\ order' = <<>> /\ next' = {}
  BY DEF SortInv, SortTypeOK, Idle
<1>3. SortTypeOK'
  BY <1>1, <1>2 DEF SortInv, SortTypeOK
<1>4. Ordered' = {}
  BY <1>2 DEF Ordered
<1>5. \A v : Unrelaxed(v)' = EdgesInto(v)
  BY <1>4 DEF Unrelaxed, EdgesInto, From, To
<1>6. InDegCountsUnrelaxed'
  BY <1>5 DEF InDegCountsUnrelaxed
<1>7. ReadyIffZero'
  BY <1>4 DEF ReadyIffZero
<1>8. RequiredFirst' /\ NoVertexTwice' /\ RelaxingTaken' /\ Drained'
  BY <1>2 DEF RequiredFirst, NoVertexTwice, RelaxingTaken, Drained
<1>. QED  BY <1>3, <1>6, <1>7, <1>8 DEF SortInv

LEMMA TakeReadyInv ==
  ASSUME SortInv, TakeReady
  PROVE  SortInv'
<1>1. PICK v \in ready : /\ ready' = ready \ {v}
                         /\ order' = Append(order, v)
                         /\ next' = EdgesOutOf(v)
  BY DEF TakeReady
<1>2. /\ sorting = "busy" /\ sorting' = "busy" /\ next = {}
      /\ inDeg' = inDeg /\ vertices' = vertices /\ edges' = edges
  BY DEF TakeReady
<1>3. /\ Len(order) \in Nat /\ Len(order') = Len(order) + 1
      /\ \A k \in 1 .. Len(order) : order'[k] = order[k]
      /\ order'[Len(order) + 1] = v
      /\ DOMAIN order = 1 .. Len(order) /\ DOMAIN order' = 1 .. Len(order')
  BY <1>1 DEF SortInv, SortTypeOK
<1>4. Ordered' = Ordered \cup {v} /\ v \notin Ordered
  <2>1. v \notin Ordered
    BY <1>2 DEF SortInv, ReadyIffZero
  <2>. QED  BY <1>3, <2>1 DEF Ordered
<1>5. \A w : Unrelaxed(w)' = Unrelaxed(w)
  BY <1>1, <1>2, <1>4 DEF Unrelaxed, EdgesInto, EdgesOutOf, From, To
<1>6. \A i \in EdgesInto(v) : From(i) \in Ordered
  <2>1. v \in vertices /\ inDeg[v] = 0
    BY <1>2 DEF SortInv, SortTypeOK, ReadyIffZero
  <2>2. Cardinality(Unrelaxed(v)) = 0
    BY <1>2, <2>1 DEF SortInv, InDegCountsUnrelaxed
  <2>3. Unrelaxed(v) = {}
    BY <2>2, UnrelaxedFinite, FS_EmptySet DEF SortInv
  <2>. QED  BY <2>3 DEF Unrelaxed
<1>7. SortTypeOK'
  BY <1>1, <1>2 DEF SortInv, SortTypeOK, EdgesOutOf
<1>8. RequiredFirst'
  <2>. SUFFICES ASSUME NEW i \in DOMAIN edges, NEW k \in 1 .. Len(order) + 1,
                       To(i) = order'[k]
                PROVE  \E j \in 1 .. k - 1 : order'[j] = From(i)
    BY <1>2, <1>3 DEF RequiredFirst, From, To
  <2>1. CASE k = Len(order) + 1
    <3>1. From(i) \in Ordered
      BY <1>3, <1>6, <2>1 DEF EdgesInto
    <3>. QED  BY <1>3, <2>1, <3>1 DEF Ordered
  <2>2. CASE k \in 1 .. Len(order)
    <3>1. \E j \in 1 .. k - 1 : order[j] = From(i)
      BY <1>3, <2>2 DEF SortInv, RequiredFirst
    <3>. QED  BY <1>3, <2>2, <3>1
  <2>. QED  BY <1>3, <2>1, <2>2
<1>9. NoVertexTwice'
  <2>. SUFFICES ASSUME NEW j \in 1 .. Len(order) + 1, NEW k \in 1 .. Len(order) + 1,
                       order'[j] = order'[k]
                PROVE  j = k
    BY <1>3 DEF NoVertexTwice
  <2>1. \A m \in 1 .. Len(order) : order[m] # v
    BY <1>4 DEF Ordered
  <2>. QED  BY <1>3, <2>1 DEF SortInv, NoVertexTwice
<1>10. InDegCountsUnrelaxed'
  BY <1>2, <1>5 DEF SortInv, InDegCountsUnrelaxed
<1>11. ReadyIffZero'
  BY <1>1, <1>2, <1>4 DEF SortInv, ReadyIffZero, SortTypeOK
<1>12. RelaxingTaken'
  BY <1>1, <1>2, <1>4 DEF RelaxingTaken, EdgesOutOf, From
<1>13. Drained'
  BY <1>2 DEF Drained
<1>. QED  BY <1>7, <1>8, <1>9, <1>10, <1>11, <1>12, <1>13 DEF SortInv

LEMMA RelaxInv ==
  ASSUME SortInv, Relax
  PROVE  SortInv'
<1>1. PICK i \in next, w \in vertices :
           /\ w = To(i)
           /\ inDeg' = [inDeg EXCEPT ![w] = @ - 1]
           /\ ready' = ready \cup {u \in {w} : inDeg'[u] = 0}
           /\ next' = next \ {i}
  <2>1. \A i \in next : To(i) \in vertices
    BY DEF SortInv, SortTypeOK, To
  <2>. QED  BY <2>1 DEF Relax
<1>2. /\ sorting = "busy" /\ sorting' = "busy"
      /\ order' = order /\ vertices' = vertices /\ edges' = edges
  BY DEF Relax
<1>3. Ordered' = Ordered
  BY <1>2 DEF Ordered
<1>4. /\ i \in DOMAIN edges /\ w \in vertices /\ From(i) \in Ordered
      /\ inDeg \in [vertices -> Nat]
  BY <1>1, <1>2 DEF SortInv, SortTypeOK, RelaxingTaken, To
<1>5. i \in Unrelaxed(w) /\ Unrelaxed(w)' = Unrelaxed(w) \ {i}
  BY <1>1, <1>2, <1>3, <1>4 DEF Unrelaxed, EdgesInto, From, To
<1>6. \A u : u # w => Unrelaxed(u)' = Unrelaxed(u)
  BY <1>1, <1>2, <1>3 DEF Unrelaxed, EdgesInto, From, To
<1>7. inDeg[w] = Cardinality(Unrelaxed(w)) /\ inDeg[w] # 0
  <2>1. inDeg[w] = Cardinality(Unrelaxed(w))
    BY <1>2, <1>4 DEF SortInv, InDegCountsUnrelaxed
  <2>. QED  BY <1>5, <2>1, UnrelaxedFinite, FS_EmptySet DEF SortInv
<1>8. inDeg'[w] = Cardinality(Unrelaxed(w))  - 1 /\ inDeg' \in [vertices -> Nat]
  BY <1>1, <1>4, <1>7
<1>9. SortTypeOK'
  BY <1>1, <1>2, <1>4, <1>8 DEF SortInv, SortTypeOK
<1>10. InDegCountsUnrelaxed'
  <2>1. Cardinality(Unrelaxed(w) \ {i}) = Cardinality(Unrelaxed(w)) - 1
    BY <1>5, UnrelaxedFinite, FS_RemoveElement DEF SortInv
  <2>2. inDeg'[w] = Cardinality(Unrelaxed(w)')
    BY <1>5, <1>8, <2>1
  <2>3. \A u \in vertices : u # w => inDeg'[u] = Cardinality(Unrelaxed(u)')
    BY <1>1, <1>2, <1>4, <1>6 DEF SortInv, InDegCountsUnrelaxed
  <2>4. \A u \in vertices : inDeg'[u] = Cardinality(Unrelaxed(u)')
    BY <2>2, <2>3
  <2>5. \A u \in vertices' : inDeg'[u] = Cardinality(Unrelaxed(u)')
    BY <1>2, <2>4
  <2>. QED  BY <2>5 DEF InDegCountsUnrelaxed
<1>11. ReadyIffZero'
  <2>1. w \notin ready \cup Ordered
    BY <1>2, <1>4, <1>7 DEF SortInv, ReadyIffZero
  <2>. QED  BY <1>1, <1>2, <1>3, <1>4, <2>1 DEF SortInv, ReadyIffZero
<1>12. RequiredFirst' /\ NoVertexTwice'
  BY <1>2 DEF SortInv, RequiredFirst, NoVertexTwice, From, To
<1>13. RelaxingTaken' /\ Drained'
  BY <1>1, <1>2, <1>3 DEF SortInv, RelaxingTaken, Drained, From
<1>. QED  BY <1>9, <1>10, <1>11, <1>12, <1>13 DEF SortInv

LEMMA EndSortInv ==
  ASSUME SortInv, EndSort
  PROVE  SortInv'
<1>1. /\ sorting = "busy" /\ next = {} /\ ready = {}
      /\ sorting' = IF Len(order) # Cardinality(vertices) THEN "cycle" ELSE "order"
      /\ UNCHANGED <<inDeg, ready, order, next, vertices, edges>>
  BY DEF EndSort, SortInv, SortTypeOK
<1>2. Drained'
  BY <1>1 DEF Drained
<1>3. Ordered' = Ordered /\ \A v : Unrelaxed(v)' = Unrelaxed(v)
  BY <1>1 DEF Ordered, Unrelaxed, EdgesInto, From, To
<1>4. SortTypeOK'
  BY <1>1 DEF SortInv, SortTypeOK
<1>5. RequiredFirst' /\ NoVertexTwice' /\ RelaxingTaken'
  BY <1>1 DEF SortInv, RequiredFirst, NoVertexTwice, RelaxingTaken, From, To
<1>6. InDegCountsUnrelaxed' /\ ReadyIffZero'
  BY <1>1, <1>3 DEF SortInv, InDegCountsUnrelaxed, ReadyIffZero
<1>. QED  BY <1>2, <1>4, <1>5, <1>6 DEF SortInv

\* Every step of the sort preserves the invariant.
LEMMA SortStepInv ==
  ASSUME SortInv, SortNext
  PROVE  SortInv'
BY StartSortInv, TakeReadyInv, RelaxInv, EndSortInv DEF SortNext

LEMMA StutterInv ==
  ASSUME SortInv, UNCHANGED sortVars
  PROVE  SortInv'
<1>. USE DEF sortVars, loopVars
<1>1. /\ Ordered' = Ordered /\ \A v : Unrelaxed(v)' = Unrelaxed(v)
  BY DEF Ordered, Unrelaxed, EdgesInto, From, To
<1>2. SortTypeOK' /\ Drained'
  BY DEF SortInv, SortTypeOK, Drained, Idle
<1>3. RequiredFirst' /\ NoVertexTwice' /\ RelaxingTaken'
  BY DEF SortInv, RequiredFirst, NoVertexTwice, RelaxingTaken, From, To, Ordered
<1>4. InDegCountsUnrelaxed' /\ ReadyIffZero'
  BY <1>1 DEF SortInv, InDegCountsUnrelaxed, ReadyIffZero
<1>. QED  BY <1>2, <1>3, <1>4 DEF SortInv

-----------------------------------------------------------------------------
\* The inductive invariant of topoSort (graph.go:11-47) holds for every graph.
THEOREM SortInvariant == SortSpec => []SortInv
<1>1. SortInv /\ [SortNext]_sortVars => SortInv'
  BY SortStepInv, StutterInv
<1>. QED  BY InitSortInv, <1>1, PTL DEF SortSpec

\* Every vertex in the order stands after all the vertices it requires.
THEOREM OrderIsTopological == SortSpec => []RequiredFirst
<1>1. SortInv => RequiredFirst
  BY DEF SortInv
<1>. QED  BY SortInvariant, <1>1, PTL

\* No vertex is in the order twice, however often its edges are listed.
THEOREM OrderHasNoDuplicates == SortSpec => []NoVertexTwice
<1>1. SortInv => NoVertexTwice
  BY DEF SortInv
<1>. QED  BY SortInvariant, <1>1, PTL

\* A list in which every vertex follows what it requires leaves no set of
\* vertices that wait for each other: the first of them would wait for none.
LEMMA OrderedNotStuck ==
  ASSUME SortInv, Ordered = vertices, NEW S \in SUBSET vertices, Stuck(S)
  PROVE  FALSE
<1>1. DOMAIN order = 1 .. Len(order) /\ Len(order) \in Nat
  BY DEF SortInv, SortTypeOK
<1>. DEFINE K == {k \in 1 .. Len(order) : order[k] \in S}
<1>2. K \in SUBSET Nat /\ K # {}
  BY <1>1 DEF Stuck, Ordered
<1>3. PICK k \in K : \A j \in K : k <= j
  BY <1>2, LeastNatural
<1>4. PICK i \in EdgesInto(order[k]) : From(i) \in S
  BY DEF Stuck
<1>5. \E j \in 1 .. k - 1 : order[j] = From(i)
  BY <1>1, <1>4 DEF SortInv, RequiredFirst, EdgesInto
<1>. QED  BY <1>1, <1>3, <1>4, <1>5

\* When the sort has ended, the vertices left over are those that wait for each
\* other; if none is left over, none did.
LEMMA SortInvCycleIffStuck ==
  ASSUME SortInv
  PROVE  CycleIffStuck
<1>1. IsFiniteSet(vertices)
  BY NameAssumption, FS_Subset DEF SortInv, SortTypeOK
<1>2. Ordered \subseteq vertices /\ Cardinality(Ordered) = Len(order)
  BY OrderedCardinality DEF SortInv, SortTypeOK, Ordered
<1>3. ASSUME sorting = "cycle"  PROVE Stuck(vertices \ Ordered)
  <2>1. next = {} /\ ready = {} /\ Len(order) # Cardinality(vertices)
    BY <1>3 DEF SortInv, Drained
  <2>2. vertices \ Ordered # {}
    <3>1. Ordered # vertices
      BY <1>2, <2>1
    <3>. QED  BY <1>2, <3>1
  <2>3. ASSUME NEW v \in vertices \ Ordered
        PROVE  \E i \in EdgesInto(v) : From(i) \in vertices \ Ordered
    <3>1. Cardinality(Unrelaxed(v)) # 0
      BY <1>3, <2>1 DEF SortInv, InDegCountsUnrelaxed, ReadyIffZero
    <3>2. Unrelaxed(v) # {}
      BY <3>1, FS_EmptySet
    <3>. QED  BY <2>1, <3>2 DEF Unrelaxed, EdgesInto, From, SortInv, SortTypeOK
  <2>. QED  BY <2>2, <2>3 DEF Stuck
<1>4. ASSUME sorting = "order"
      PROVE  Ordered = vertices /\ \A S \in SUBSET vertices : ~Stuck(S)
  <2>1. Ordered = vertices
    BY <1>1, <1>2, <1>4, FS_Subset DEF SortInv, Drained
  <2>. QED  BY <2>1, OrderedNotStuck
<1>. QED  BY <1>3, <1>4 DEF CycleIffStuck

\* At every moment the in-degree of a vertex (graph.go:14-19, 35-40) is the
\* number of its edges that are still to be relaxed, for every graph.
THEOREM InDegreeIsExact == SortSpec => []InDegCountsUnrelaxed
<1>1. SortInv => InDegCountsUnrelaxed
  BY DEF SortInv
<1>. QED  BY SortInvariant, <1>1, PTL

\* topoSort reports a cycle exactly for the graphs that have one.
THEOREM CycleErrorIsExact == SortSpec => []CycleIffStuck
<1>1. SortInv => CycleIffStuck
  BY SortInvCycleIffStuck
<1>. QED  BY SortInvariant, <1>1, PTL

-----------------------------------------------------------------------------
(* What a query needs.                                                     *)

LEMMA VisitedInName ==
  ASSUME mdl \in Manifests, NEW o \in Name
  PROVE  Visited(o) \subseteq Name
BY DateSpineAssumption DEF Visited, RequiredObjects, Manifests

\* The needed objects are closed under what they require ...
LEMMA NeededClosed ==
  ASSUME mdl \in Manifests, queried \subseteq Name
  PROVE  /\ Plan!Needed \subseteq Name
         /\ queried \subseteq Plan!Needed
         /\ \A o \in Plan!Needed : Visited(o) \subseteq Plan!Needed
<1>1. \A S : Plan!Closed(S) => queried \subseteq S
  BY DEF Plan!Closed, Requires
<1>2. \A S \in SUBSET Name : Plan!Closed(S) => \A o \in S : Visited(o) \subseteq S
  BY DEF Plan!Closed, Requires
<1>. QED  BY <1>1, <1>2, VisitedInName DEF Plan!Needed

\* ... and are the least such set.
LEMMA NeededLeast ==
  ASSUME NEW S \in SUBSET Name, queried \subseteq S, \A o \in S : Visited(o) \subseteq S
  PROVE  Plan!Needed \subseteq S
<1>1. Plan!Closed(S)
  BY DEF Plan!Closed, Requires
<1>. QED  BY <1>1 DEF Plan!Needed

\* They depend on the request only.
LEMMA RequestFixed ==
  ASSUME mdl' = mdl, queried' = queried
  PROVE  /\ \A o : Visited(o)' = Visited(o)
         /\ Plan!Needed' = Plan!Needed
<1>1. \A o : Visited(o)' = Visited(o)
  BY DEF Visited, RequiredObjects
<1>2. \A S : Plan!Closed(S)' <=> Plan!Closed(S)
  BY <1>1 DEF Plan!Closed, Requires
<1>. QED  BY <1>1, <1>2 DEF Plan!Needed

-----------------------------------------------------------------------------
\* As long as the sort has not begun its invariant says nothing but that the
\* graph is a graph.
LEMMA GrowingGraph ==
  ASSUME (vertices \subseteq Name)', (edges \in Seq(vertices \X vertices))', Idle'
  PROVE  SortInv'
BY DEF Idle, SortInv, SortTypeOK, RequiredFirst, NoVertexTwice, InDegCountsUnrelaxed,
       ReadyIffZero, RelaxingTaken, Drained

-----------------------------------------------------------------------------
(* The steps of the walk.                                                  *)

\* What the innermost call is doing while it visits r.
LEMMA TopCall ==
  ASSUME PlannerInv, NEW r, Visiting(r)
  PROVE  /\ stack \in Seq(FrameType) /\ stack # <<>> /\ Head(stack) = stack[1]
         /\ Len(stack) \in Nat \ {0} /\ DOMAIN stack = 1 .. Len(stack)
         /\ stack[1] \in FrameType /\ stack[1].obj \in described
         /\ r \in stack[1].todo /\ r \in Visited(stack[1].obj)
         /\ r \in Name /\ r \in Plan!Needed
<1>1. stack \in Seq(FrameType) /\ stack # <<>> /\ vertices = described /\ queried \subseteq Name
  BY DEF PlannerInv, PlannerTypeOK, Visiting, WalkComplete, Queryable
<1>2. /\ Head(stack) = stack[1] /\ Len(stack) \in Nat \ {0} /\ DOMAIN stack = 1 .. Len(stack)
      /\ stack[1] \in FrameType
  BY <1>1
<1>3. stack[1].obj \in described /\ r \in stack[1].todo /\ r \in Visited(stack[1].obj)
  BY <1>2 DEF PlannerInv, WalkSound, Visiting
<1>4. mdl \in Manifests /\ r \in Name
  BY <1>2, <1>3, VisitedInName DEF PlannerInv, PlannerTypeOK, FrameType
<1>5. r \in Plan!Needed
  BY <1>1, <1>3, <1>4, NeededClosed DEF PlannerInv, WalkSound
<1>. QED  BY <1>1, <1>2, <1>3, <1>4, <1>5

\* Adding the edge of the required object keeps the graph sound.
LEMMA LinkSound ==
  ASSUME PlannerInv, NEW r, Visiting(r), Link(r)
  PROVE  /\ SortInv'
         /\ vertices' \subseteq Plan!Needed
         /\ \A i \in DOMAIN edges' : /\ edges'[i][2] \in vertices'
                                    /\ edges'[i][1] \in Visited(edges'[i][2]) \cap vertices'
         /\ \A a, b : Linked(a, b) => Linked(a, b)'
         /\ \E i \in DOMAIN edges' : edges'[i] = <<r, stack[1].obj>>
<1>1. /\ vertices' = vertices \cup {r}
      /\ edges' = Append(edges, <<r, stack[1].obj>>)
      /\ UNCHANGED loopVars
  BY TopCall DEF Link
<1>2. /\ stack[1].obj \in vertices /\ r \in Name /\ r \in Plan!Needed
      /\ r \in Visited(stack[1].obj)
  BY TopCall DEF PlannerInv, WalkComplete, Visiting
<1>3. edges \in Seq(vertices \X vertices) /\ vertices \subseteq Name /\ Idle
  BY DEF PlannerInv, SortInv, SortTypeOK, PlannerTypeOK, Visiting
<1>4. edges \in Seq(vertices' \X vertices')
  BY <1>1, <1>3, SeqMonotone, vertices \X vertices \subseteq vertices' \X vertices'
<1>5. edges' \in Seq(vertices' \X vertices')
  BY <1>1, <1>2, <1>4
<1>6. SortInv'
  <2>1. Idle'
    BY <1>1, <1>3 DEF Idle, loopVars
  <2>. QED  BY <1>1, <1>2, <1>3, <1>5, <2>1, GrowingGraph
<1>7. /\ Len(edges) \in Nat /\ DOMAIN edges = 1 .. Len(edges)
      /\ DOMAIN edges' = 1 .. Len(edges) + 1
      /\ \A i \in 1 .. Len(edges) : edges'[i] = edges[i]
      /\ edges'[Len(edges) + 1] = <<r, stack[1].obj>>
  BY <1>1, <1>3
<1>8. \A i \in 1 .. Len(edges) : /\ edges[i][2] \in vertices
                                 /\ edges[i][1] \in Visited(edges[i][2]) \cap vertices
  BY <1>7 DEF PlannerInv, WalkSound, From, To
<1>9. \A i \in DOMAIN edges' : /\ edges'[i][2] \in vertices'
                              /\ edges'[i][1] \in Visited(edges'[i][2]) \cap vertices'
  BY <1>1, <1>2, <1>7, <1>8
<1>10. vertices' \subseteq Plan!Needed
  BY <1>1, <1>2 DEF PlannerInv, WalkSound
<1>11. \A a, b : Linked(a, b) => Linked(a, b)'
  BY <1>7 DEF Linked
<1>12. edges'[Len(edges) + 1] = <<r, stack[1].obj>> /\ Len(edges) + 1 \in DOMAIN edges'
  BY <1>7
<1>. QED  BY <1>6, <1>9, <1>10, <1>11, <1>12

\* The call after it has visited r.
LEMMA AdvanceTop ==
  ASSUME PlannerInv, NEW r, Visiting(r)
  PROVE  /\ Advance(r) \in Seq(FrameType)
         /\ Len(Advance(r)) = Len(stack) /\ DOMAIN Advance(r) = 1 .. Len(stack)
         /\ Advance(r)[1] = [obj |-> stack[1].obj, todo |-> stack[1].todo \ {r}]
         /\ \A k \in 2 .. Len(stack) : Advance(r)[k] = stack[k]
<1>. DEFINE b == [obj |-> stack[1].obj, todo |-> stack[1].todo \ {r}]
<1>1. b \in FrameType
  BY TopCall DEF FrameType
<1>2. Advance(r) = <<b>> \o Tail(stack)
  BY TopCall DEF Advance
<1>. QED
  <2>1. b = [obj |-> stack[1].obj, todo |-> stack[1].todo \ {r}]
    OBVIOUS
  <2>. HIDE DEF b
  <2>. QED  BY <1>1, <1>2, <2>1, TopCall, AdvanceStack

LEMMA VisitSeenInv ==
  ASSUME PlannerInv, VisitSeen
  PROVE  PlannerInv'
<1>1. PICK r \in Name : /\ Visiting(r) /\ r \in seen
                        /\ Link(r)
                        /\ stack' = Advance(r)
                        /\ UNCHANGED <<phase, seen, described>>
  BY DEF VisitSeen
<1>2. /\ mdl' = mdl /\ queried' = queried /\ seedsLeft' = seedsLeft /\ ctes' = ctes
      /\ sorting' = sorting /\ phase = "walk"
  BY <1>1 DEF Link, loopVars, Visiting
<1>3. r \in vertices /\ vertices' = vertices
  BY <1>1, <1>2 DEF PlannerInv, WalkComplete, Link
<1>4. /\ DOMAIN stack' = 1 .. Len(stack)
      /\ stack'[1] = [obj |-> stack[1].obj, todo |-> stack[1].todo \ {r}]
      /\ \A k \in 2 .. Len(stack) : stack'[k] = stack[k]
  BY <1>1, AdvanceTop
<1>5. PlannerTypeOK'
  BY <1>1, <1>2, AdvanceTop DEF PlannerInv, PlannerTypeOK, Queryable
<1>6. WalkSound'
  <2>1. \A k \in 1 .. Len(stack) : /\ stack'[k].obj = stack[k].obj
                                  /\ stack'[k].todo \subseteq stack[k].todo
    BY <1>4
  <2>2. \A k \in DOMAIN stack' : /\ stack'[k].obj \in described'
                                /\ stack'[k].todo \subseteq Visited(stack'[k].obj)
    BY <1>1, <1>4, <2>1, TopCall DEF PlannerInv, WalkSound
  <2>. QED  BY <1>1, <1>2, <2>2, LinkSound, RequestFixed DEF WalkSound, From, To
<1>7. WalkComplete'
  <2>1. ASSUME NEW o \in described, NEW q \in Visited(o)  PROVE Linked(q, o)' \/ Waiting(q, o)'
    <3>1. CASE Linked(q, o)
      BY <1>1, <3>1, LinkSound
    <3>2. CASE Waiting(q, o)
      <4>1. PICK k \in DOMAIN stack : stack[k].obj = o /\ q \in stack[k].todo
        BY <3>2 DEF Waiting
      <4>2. CASE k = 1 /\ q = r
        BY <1>1, <4>1, <4>2, LinkSound DEF Linked
      <4>3. CASE ~(k = 1 /\ q = r)
        <5>1. stack'[k].obj = o /\ q \in stack'[k].todo
          BY <1>4, <4>1, <4>3, TopCall, <1>1
        <5>2. k \in DOMAIN stack'
          BY <1>4, <1>1, TopCall
        <5>. QED  BY <5>1, <5>2 DEF Waiting
      <4>. QED  BY <4>2, <4>3
    <3>. QED  BY <1>2, <3>1, <3>2 DEF PlannerInv, WalkComplete
  <2>2. \A o \in described' : \A q \in Visited(o)' : Linked(q, o)' \/ Waiting(q, o)'
    BY <1>1, <1>2, <2>1, RequestFixed
  <2>. QED  BY <1>1, <1>2, <1>3, <2>2 DEF PlannerInv, WalkComplete
<1>. QED  BY <1>1, <1>5, <1>6, <1>7, LinkSound DEF PlannerInv

LEMMA VisitNewInv ==
  ASSUME PlannerInv, VisitNew
  PROVE  PlannerInv'
<1>1. PICK r \in Name \ (seen \cup mdl.broken) :
           /\ Visiting(r) /\ Link(r)
           /\ seen' = seen \cup {r} /\ described' = described \cup {r}
           /\ stack' = <<Frame(r)>> \o Advance(r)
           /\ phase' = phase
  BY DEF VisitNew
<1>2. /\ mdl' = mdl /\ queried' = queried /\ seedsLeft' = seedsLeft /\ ctes' = ctes
      /\ sorting' = sorting /\ phase = "walk" /\ vertices' = vertices \cup {r}
  BY <1>1 DEF Link, loopVars, Visiting
<1>3. Frame(r) \in FrameType /\ Frame(r).obj = r /\ Frame(r).todo = Visited(r)
  BY <1>1, VisitedInName DEF Frame, FrameType, PlannerInv, PlannerTypeOK
<1>4. /\ stack' \in Seq(FrameType)
      /\ DOMAIN stack' = 1 .. Len(stack) + 1
      /\ stack'[1] = Frame(r)
      /\ \A k \in 1 .. Len(stack) : stack'[k + 1] = Advance(r)[k]
  <2>1. Advance(r) \in Seq(FrameType) /\ Len(Advance(r)) = Len(stack)
    BY <1>1, AdvanceTop
  <2>2. /\ <<Frame(r)>> \o Advance(r) \in Seq(FrameType)
        /\ DOMAIN (<<Frame(r)>> \o Advance(r)) = 1 .. Len(Advance(r)) + 1
        /\ (<<Frame(r)>> \o Advance(r))[1] = Frame(r)
        /\ \A k \in 1 .. Len(Advance(r)) : (<<Frame(r)>> \o Advance(r))[k + 1] = Advance(r)[k]
    BY <1>3, <2>1, PushStack
  <2>. QED  BY <1>1, <2>1, <2>2
<1>5. /\ Len(stack) \in Nat \ {0} /\ DOMAIN stack = 1 .. Len(stack)
      /\ stack'[2] = [obj |-> stack[1].obj, todo |-> stack[1].todo \ {r}]
      /\ \A k \in 2 .. Len(stack) : stack'[k + 1] = stack[k]
  BY <1>1, <1>4, AdvanceTop, TopCall
<1>6. PlannerTypeOK'
  BY <1>1, <1>2, <1>4 DEF PlannerInv, PlannerTypeOK, Queryable
<1>7. WalkSound'
  <2>1. \A k \in 1 .. Len(stack) : /\ stack'[k + 1].obj = stack[k].obj
                                  /\ stack'[k + 1].todo \subseteq stack[k].todo
    BY <1>5
  <2>2. \A k \in DOMAIN stack' : k = 1 \/ (k - 1 \in 1 .. Len(stack) /\ (k - 1) + 1 = k)
    BY <1>4, <1>5
  <2>3. \A k \in DOMAIN stack' : /\ stack'[k].obj \in described'
                                /\ stack'[k].todo \subseteq Visited(stack'[k].obj)
    <3>. SUFFICES ASSUME NEW k \in DOMAIN stack'
                  PROVE  /\ stack'[k].obj \in described'
                         /\ stack'[k].todo \subseteq Visited(stack'[k].obj)
      OBVIOUS
    <3>1. CASE k = 1
      BY <1>1, <1>3, <1>4, <3>1
    <3>2. CASE k - 1 \in 1 .. Len(stack) /\ (k - 1) + 1 = k
      <4>1. /\ stack[k - 1].obj \in described
            /\ stack[k - 1].todo \subseteq Visited(stack[k - 1].obj)
        BY <3>2 DEF PlannerInv, WalkSound
      <4>2. stack'[k].obj = stack[k - 1].obj /\ stack'[k].todo \subseteq stack[k - 1].todo
        BY <2>1, <3>2
      <4>. QED  BY <1>1, <4>1, <4>2
    <3>. QED  BY <2>2, <3>1, <3>2
  <2>. QED  BY <1>1, <1>2, <2>3, LinkSound, RequestFixed DEF WalkSound, From, To
<1>8. WalkComplete'
  <2>1. ASSUME NEW o \in described, NEW q \in Visited(o)  PROVE Linked(q, o)' \/ Waiting(q, o)'
    <3>1. CASE Linked(q, o)
      BY <1>1, <3>1, LinkSound
    <3>2. CASE Waiting(q, o)
      <4>1. PICK k \in DOMAIN stack : stack[k].obj = o /\ q \in stack[k].todo
        BY <3>2 DEF Waiting
      <4>2. CASE k = 1 /\ q = r
        BY <1>1, <4>1, <4>2, LinkSound DEF Linked
      <4>3. CASE ~(k = 1 /\ q = r)
        <5>1. stack'[k + 1].obj = o /\ q \in stack'[k + 1].todo
          BY <1>5, <4>1, <4>3
        <5>2. k + 1 \in DOMAIN stack'
          BY <1>4, <1>5
        <5>. QED  BY <5>1, <5>2 DEF Waiting
      <4>. QED  BY <4>2, <4>3
    <3>. QED  BY <1>2, <3>1, <3>2 DEF PlannerInv, WalkComplete
  <2>2. ASSUME NEW q \in Visited(r)  PROVE Waiting(q, r)'
    BY <1>3, <1>4, <1>5 DEF Waiting
  <2>3. \A o \in described' : \A q \in Visited(o)' : Linked(q, o)' \/ Waiting(q, o)'
    BY <1>1, <1>2, <2>1, <2>2, RequestFixed
  <2>4. /\ vertices = described /\ seen \subseteq described
        /\ (queried \cup described) \cap mdl.broken = {}
        /\ queried \subseteq seedsLeft \cup described
    BY <1>2 DEF PlannerInv, WalkComplete
  <2>. QED  BY <1>1, <1>2, <2>3, <2>4 DEF WalkComplete
<1>. QED  BY <1>1, <1>6, <1>7, <1>8, LinkSound DEF PlannerInv

LEMMA VisitBrokenInv ==
  ASSUME PlannerInv, VisitBroken
  PROVE  PlannerInv'
<1>1. PICK r \in mdl.broken \ seen : /\ Visiting(r) /\ Link(r)
                                    /\ phase' = "failed"
                                    /\ UNCHANGED <<stack, seen, described>>
  BY DEF VisitBroken
<1>2. mdl' = mdl /\ queried' = queried /\ seedsLeft' = seedsLeft /\ ctes' = ctes
  BY <1>1 DEF Link
<1>3. PlannerTypeOK'
  BY <1>1, <1>2 DEF PlannerInv, PlannerTypeOK, Queryable
<1>4. WalkSound'
  BY <1>1, <1>2, LinkSound, RequestFixed DEF PlannerInv, WalkSound, From, To
<1>. QED  BY <1>1, <1>3, <1>4, LinkSound DEF PlannerInv, WalkComplete

LEMMA NextSeedInv ==
  ASSUME PlannerInv, NextSeed
  PROVE  PlannerInv'
<1>1. PICK d \in seedsLeft : /\ seedsLeft' = seedsLeft \ {d}
                             /\ vertices' = vertices \cup {d}
                             /\ described' = described \cup {d}
                             /\ stack' = <<Frame(d)>>
  BY DEF NextSeed
<1>2. /\ phase = "walk" /\ stack = <<>>
      /\ UNCHANGED <<mdl, queried, phase, seen, ctes, edges, sorting>> /\ UNCHANGED loopVars
  BY DEF NextSeed, loopVars
<1>3. mdl \in Manifests /\ d \in queried /\ d \in Name /\ queried \subseteq Name
  BY DEF PlannerInv, PlannerTypeOK, Queryable
<1>4. Frame(d) \in FrameType /\ Frame(d).obj = d /\ Frame(d).todo = Visited(d)
  BY <1>3, VisitedInName DEF Frame, FrameType
<1>5. /\ stack' \in Seq(FrameType) /\ DOMAIN stack' = {1} /\ stack'[1] = Frame(d)
  <2>. HIDE DEF Frame
  <2>. QED  BY <1>1, <1>4
<1>6. PlannerTypeOK'
  BY <1>1, <1>2, <1>3, <1>5 DEF PlannerInv, PlannerTypeOK, Queryable
<1>7. SortInv'
  <2>1. edges \in Seq(vertices \X vertices) /\ vertices \subseteq Name /\ Idle
    BY <1>2 DEF PlannerInv, PlannerTypeOK, SortInv, SortTypeOK
  <2>2. edges' \in Seq(vertices' \X vertices')
    BY <1>1, <1>2, <2>1, SeqMonotone, vertices \X vertices \subseteq vertices' \X vertices'
  <2>3. Idle'
    BY <1>2, <2>1 DEF Idle, loopVars
  <2>. QED  BY <1>1, <1>3, <2>1, <2>2, <2>3, GrowingGraph
<1>8. WalkSound'
  <2>1. d \in Plan!Needed
    BY <1>3, NeededClosed
  <2>2. \A k \in DOMAIN stack' : /\ stack'[k].obj \in described'
                                /\ stack'[k].todo \subseteq Visited(stack'[k].obj)
    BY <1>1, <1>4, <1>5
  <2>. QED  BY <1>1, <1>2, <2>1, <2>2, RequestFixed DEF PlannerInv, WalkSound, From, To
<1>9. WalkComplete'
  <2>1. (queried \cup described) \cap mdl.broken = {}
    BY <1>2 DEF PlannerInv, WalkComplete
  <2>2. ASSUME NEW o \in described, NEW q \in Visited(o)  PROVE Linked(q, o)'
    BY <1>2 DEF PlannerInv, WalkComplete, Linked, Waiting
  <2>3. ASSUME NEW q \in Visited(d)  PROVE Waiting(q, d)'
    BY <1>4, <1>5 DEF Waiting
  <2>4. \A o \in described' : \A q \in Visited(o)' : Linked(q, o)' \/ Waiting(q, o)'
    BY <1>1, <1>2, <2>2, <2>3, RequestFixed
  <2>. QED  BY <1>1, <1>2, <1>3, <2>1, <2>4 DEF PlannerInv, WalkComplete
<1>. QED  BY <1>6, <1>7, <1>8, <1>9 DEF PlannerInv

LEMMA ReturnInv ==
  ASSUME PlannerInv, Return
  PROVE  PlannerInv'
<1>1. /\ phase = "walk" /\ stack # <<>> /\ Head(stack).todo = {} /\ stack' = Tail(stack)
      /\ UNCHANGED <<mdl, queried, phase, seedsLeft, seen, described, ctes>>
      /\ UNCHANGED sortVars
  BY DEF Return
<1>2. stack \in Seq(FrameType)
  BY DEF PlannerInv, PlannerTypeOK
<1>3. /\ Len(stack) \in Nat \ {0} /\ DOMAIN stack = 1 .. Len(stack)
      /\ stack' \in Seq(FrameType) /\ DOMAIN stack' = 1 .. Len(stack) - 1
      /\ \A k \in 1 .. Len(stack) - 1 : stack'[k] = stack[k + 1]
      /\ stack[1].todo = {}
  BY <1>1, <1>2
<1>4. SortInv' /\ vertices' = vertices /\ edges' = edges /\ sorting' = sorting
  BY <1>1, StutterInv DEF PlannerInv, sortVars, loopVars
<1>5. PlannerTypeOK'
  BY <1>1, <1>3, <1>4 DEF PlannerInv, PlannerTypeOK, Queryable
<1>6. WalkSound'
  <2>1. \A k \in DOMAIN stack' : k + 1 \in DOMAIN stack /\ stack'[k] = stack[k + 1]
    BY <1>3
  <2>2. \A k \in DOMAIN stack' : /\ stack'[k].obj \in described'
                                /\ stack'[k].todo \subseteq Visited(stack'[k].obj)
    BY <1>1, <2>1 DEF PlannerInv, WalkSound
  <2>. QED  BY <1>1, <1>4, <2>2, RequestFixed DEF PlannerInv, WalkSound, From, To
<1>7. WalkComplete'
  <2>1. ASSUME NEW o \in described, NEW q \in Visited(o)  PROVE Linked(q, o)' \/ Waiting(q, o)'
    <3>1. CASE Linked(q, o)
      BY <1>4, <3>1 DEF Linked
    <3>2. CASE Waiting(q, o)
      <4>1. PICK k \in DOMAIN stack : stack[k].obj = o /\ q \in stack[k].todo
        BY <3>2 DEF Waiting
      <4>2. k # 1 /\ k - 1 \in DOMAIN stack' /\ stack'[k - 1] = stack[k]
        BY <1>3, <4>1
      <4>. QED  BY <4>1, <4>2 DEF Waiting
    <3>. QED  BY <1>1, <3>1, <3>2 DEF PlannerInv, WalkComplete
  <2>2. \A o \in described' : \A q \in Visited(o)' : Linked(q, o)' \/ Waiting(q, o)'
    BY <1>1, <2>1, RequestFixed
  <2>. QED  BY <1>1, <1>4, <2>2 DEF PlannerInv, WalkComplete
<1>. QED  BY <1>4, <1>5, <1>6, <1>7 DEF PlannerInv

-----------------------------------------------------------------------------
(* The other steps.                                                        *)

LEMMA DescribeQueriedInv ==
  ASSUME PlannerInv, DescribeQueried
  PROVE  PlannerInv'
<1>1. /\ phase = "describe" /\ seedsLeft' = queried
      /\ phase' = CASE queried \cap mdl.broken # {} -> "failed"
                    [] queried = {} -> "planned"
                    [] OTHER -> "walk"
      /\ UNCHANGED <<mdl, queried, stack, seen, described, ctes>> /\ UNCHANGED sortVars
  BY DEF DescribeQueried
<1>2. /\ phase' \in {"failed", "planned", "walk"}
      /\ phase' = "walk" => queried \cap mdl.broken = {}
  BY <1>1
<1>3. SortInv' /\ vertices' = vertices /\ edges' = edges /\ sorting' = sorting
  BY <1>1, StutterInv DEF PlannerInv, sortVars, loopVars
<1>4. stack = <<>> /\ seen = {} /\ described = {} /\ vertices = {}
  BY <1>1 DEF PlannerInv, WalkComplete
<1>5. PlannerTypeOK'
  BY <1>1, <1>2, <1>3 DEF PlannerInv, PlannerTypeOK, Queryable
<1>6. WalkSound'
  BY <1>1, <1>3, <1>4, RequestFixed DEF PlannerInv, WalkSound, From, To
<1>7. WalkComplete'
  BY <1>1, <1>2, <1>3, <1>4 DEF WalkComplete
<1>. QED  BY <1>3, <1>5, <1>6, <1>7 DEF PlannerInv

\* The steps that leave the walk and its graph alone.
LEMMA WalkKept ==
  ASSUME PlannerInv, SortInv', PlannerTypeOK',
         mdl' = mdl, queried' = queried, walkVars' = walkVars,
         vertices' = vertices, edges' = edges,
         (phase' = phase /\ ctes' = ctes) \/ phase' \notin {"describe", "walk", "sort"} \/ BeginSort
  PROVE  PlannerInv'
<1>. USE DEF walkVars
<1>1. /\ \A q, o : Linked(q, o)' <=> Linked(q, o)
      /\ \A q, o : Waiting(q, o)' <=> Waiting(q, o)
  BY DEF Linked, Waiting
<1>2. WalkSound'
  BY RequestFixed DEF PlannerInv, WalkSound, From, To
<1>3. WalkComplete'
  BY <1>1, RequestFixed DEF PlannerInv, WalkComplete, BeginSort
<1>. QED  BY <1>2, <1>3 DEF PlannerInv

LEMMA BeginSortInv ==
  ASSUME PlannerInv, BeginSort
  PROVE  PlannerInv'
<1>1. /\ StartSort /\ phase = "walk" /\ phase' = "sort" /\ stack = <<>> /\ seedsLeft = {}
      /\ UNCHANGED <<mdl, queried, walkVars, ctes>>
  BY DEF BeginSort
<1>2. SortInv' /\ sorting' = "busy" /\ vertices' = vertices /\ edges' = edges
  BY <1>1, StartSortInv DEF PlannerInv, StartSort
<1>3. PlannerTypeOK'
  BY <1>1, <1>2 DEF PlannerInv, PlannerTypeOK, walkVars, Queryable
<1>4. mdl' = mdl /\ queried' = queried /\ walkVars' = walkVars
  BY <1>1
<1>. QED  BY <1>1, <1>2, <1>3, <1>4, WalkKept

LEMMA SortStepPlannerInv ==
  ASSUME PlannerInv, SortStep
  PROVE  PlannerInv'
<1>1. /\ TakeReady \/ Relax \/ EndSort
      /\ phase = "sort" /\ phase' = phase
      /\ UNCHANGED <<mdl, queried, walkVars, ctes>>
  BY DEF SortStep
<1>2. SortInv' /\ sorting' # "idle" /\ vertices' = vertices /\ edges' = edges
  BY <1>1, TakeReadyInv, RelaxInv, EndSortInv DEF PlannerInv, TakeReady, Relax, EndSort
<1>3. PlannerTypeOK'
  BY <1>1, <1>2 DEF PlannerInv, PlannerTypeOK, walkVars, Queryable
<1>4. mdl' = mdl /\ queried' = queried /\ walkVars' = walkVars /\ phase' = phase /\ ctes' = ctes
  BY <1>1
<1>. QED  BY <1>1, <1>2, <1>3, <1>4, WalkKept

LEMMA EmitInv ==
  ASSUME PlannerInv, Emit
  PROVE  PlannerInv'
<1>1. /\ phase' \in {"planned", "failed"} /\ ctes' \in {order, ctes}
      /\ UNCHANGED <<mdl, queried, walkVars>> /\ UNCHANGED sortVars
  BY DEF Emit
<1>2. SortInv' /\ vertices' = vertices /\ edges' = edges
  BY <1>1, StutterInv DEF PlannerInv, sortVars, loopVars
<1>3. order \in Seq(Name)
  BY SeqMonotone DEF PlannerInv, SortInv, SortTypeOK
<1>4. PlannerTypeOK'
  BY <1>1, <1>2, <1>3 DEF PlannerInv, PlannerTypeOK, walkVars, Queryable
<1>5. mdl' = mdl /\ queried' = queried /\ walkVars' = walkVars /\ phase' \notin {"describe", "walk", "sort"}
  BY <1>1
<1>. QED  BY <1>1, <1>2, <1>4, <1>5, WalkKept

LEMMA PlannerStepInv ==
  ASSUME PlannerInv, PlannerNext
  PROVE  PlannerInv'
BY DescribeQueriedInv, NextSeedInv, VisitSeenInv, VisitNewInv, VisitBrokenInv, ReturnInv,
   BeginSortInv, SortStepPlannerInv, EmitInv DEF PlannerNext, WalkStep

LEMMA PlannerStutterInv ==
  ASSUME PlannerInv, UNCHANGED plannerVars
  PROVE  PlannerInv'
<1>1. UNCHANGED <<mdl, queried, phase, ctes, walkVars>> /\ UNCHANGED sortVars
  BY DEF plannerVars
<1>2. SortInv' /\ vertices' = vertices /\ edges' = edges /\ sorting' = sorting
  BY <1>1, StutterInv DEF PlannerInv, sortVars, loopVars
<1>3. PlannerTypeOK'
  BY <1>1, <1>2 DEF PlannerInv, PlannerTypeOK, walkVars, Queryable
<1>4. mdl' = mdl /\ queried' = queried /\ walkVars' = walkVars /\ phase' = phase /\ ctes' = ctes
  BY <1>1
<1>. QED  BY <1>1, <1>2, <1>3, <1>4, WalkKept

LEMMA PlannerInitInv == PlannerInit => PlannerInv
<1>. SUFFICES ASSUME PlannerInit  PROVE PlannerInv
  OBVIOUS
<1>1. vertices = {} /\ edges = <<>> /\ Idle /\ stack = <<>> /\ phase = "describe"
  BY DEF PlannerInit
<1>2. SortInv
  BY <1>1 DEF Idle, SortInv, SortTypeOK, RequiredFirst, NoVertexTwice, InDegCountsUnrelaxed,
              ReadyIffZero, RelaxingTaken, Drained
<1>3. PlannerTypeOK
  BY DEF PlannerInit, PlannerTypeOK, Idle
<1>4. WalkSound /\ WalkComplete
  BY DEF PlannerInit, WalkSound, WalkComplete
<1>. QED  BY <1>2, <1>3, <1>4 DEF PlannerInv

\* The inductive invariant of the walk and the sort.
THEOREM PlannerInvariant == PlannerSpec => []PlannerInv
<1>1. PlannerInv /\ [PlannerNext]_plannerVars => PlannerInv'
  BY PlannerStepInv, PlannerStutterInv
<1>. QED  BY PlannerInitInv, <1>1, PTL DEF PlannerSpec

-----------------------------------------------------------------------------
(* The plan.                                                               *)

\* When the walk is over, the graph is what the query needs.
LEMMA GraphIsNeeded ==
  ASSUME PlannerInv, phase = "sort"
  PROVE  /\ vertices = Plan!Needed /\ Plan!Needed \cap mdl.broken = {}
         /\ described = vertices
         /\ \A o \in vertices : \A r \in Visited(o) : \E i \in DOMAIN edges : edges[i] = <<r, o>>
<1>1. \A o \in vertices : \A r \in Visited(o) : \E i \in DOMAIN edges : edges[i] = <<r, o>>
  BY DEF PlannerInv, WalkComplete, Waiting, Linked
<1>2. /\ described = vertices /\ queried \subseteq vertices /\ vertices \cap mdl.broken = {}
      /\ vertices \in SUBSET Name
  BY DEF PlannerInv, WalkComplete, SortInv, SortTypeOK
<1>3. \A o \in vertices : Visited(o) \subseteq vertices
  <2>. SUFFICES ASSUME NEW o \in vertices, NEW r \in Visited(o)  PROVE r \in vertices
    OBVIOUS
  <2>1. PICK i \in DOMAIN edges : edges[i] = <<r, o>>
    BY <1>1
  <2>. QED  BY <2>1 DEF PlannerInv, WalkSound, From
<1>4. Plan!Needed \subseteq vertices
  BY <1>2, <1>3, NeededLeast
<1>. QED  BY <1>1, <1>2, <1>4 DEF PlannerInv, WalkSound

\* Whatever has been sorted stands after what it requires.
LEMMA SortedInOrder ==
  ASSUME PlannerInv, phase = "sort", NEW k \in DOMAIN order, NEW r \in Visited(order[k])
  PROVE  \E j \in 1 .. k - 1 : order[j] = r
<1>1. order[k] \in vertices
  BY DEF PlannerInv, SortInv, SortTypeOK
<1>2. PICK i \in DOMAIN edges : edges[i] = <<r, order[k]>>
  BY <1>1, GraphIsNeeded
<1>. QED  BY <1>2 DEF PlannerInv, SortInv, RequiredFirst, From, To

\* Only two steps plan a query.
LEMMA PlannedSteps ==
  ASSUME [PlannerNext]_plannerVars, phase' = "planned"
  PROVE  DescribeQueried \/ Emit \/ UNCHANGED <<mdl, queried, phase, ctes>>
<1>1. ~NextSeed /\ ~VisitSeen /\ ~VisitNew /\ ~VisitBroken /\ ~Return /\ ~BeginSort /\ ~SortStep
  BY DEF NextSeed, VisitSeen, VisitNew, VisitBroken, Return, BeginSort, SortStep, Visiting
<1>. QED  BY <1>1 DEF PlannerNext, WalkStep, plannerVars

PlanRight == DefinedBeforeUse /\ PlansWhatIsNeeded

LEMMA PlanRightStep ==
  ASSUME PlannerInv, PlanRight, [PlannerNext]_plannerVars
  PROVE  PlanRight'
<1>. SUFFICES ASSUME phase' = "planned"  PROVE PlanRight'
  BY DEF PlanRight, DefinedBeforeUse, PlansWhatIsNeeded
<1>1. CASE DescribeQueried
  <2>1. phase = "describe" /\ queried = {} /\ ctes' = ctes /\ mdl' = mdl /\ queried' = queried
    BY <1>1 DEF DescribeQueried
  <2>2. ctes' = <<>>
    BY <2>1 DEF PlannerInv, WalkComplete
  <2>3. Plan!Needed = {}
    BY <2>1, NeededLeast
  <2>. QED  BY <2>1, <2>2, <2>3, RequestFixed DEF PlanRight, DefinedBeforeUse, PlansWhatIsNeeded
<1>2. CASE Emit
  <2>1. /\ phase = "sort" /\ sorting = "order" /\ ctes' = order
        /\ mdl' = mdl /\ queried' = queried
    BY <1>2 DEF Emit
  <2>2. Ordered = vertices
    BY <2>1, SortInvCycleIffStuck DEF CycleIffStuck, PlannerInv
  <2>3. DOMAIN order = 1 .. Len(order)
    BY DEF PlannerInv, SortInv, SortTypeOK
  <2>4. \A k \in DOMAIN order : Visited(order[k]) \subseteq {order[j] : j \in 1 .. k - 1}
    BY <2>1, SortedInOrder
  <2>5. {order[k] : k \in DOMAIN order} = Plan!Needed /\ Plan!Needed \cap mdl.broken = {}
    BY <2>1, <2>2, <2>3, GraphIsNeeded DEF Ordered
  <2>6. DefinedBeforeUse'
    BY <2>1, <2>4, RequestFixed DEF DefinedBeforeUse
  <2>7. PlansWhatIsNeeded'
    BY <2>1, <2>5, RequestFixed DEF PlansWhatIsNeeded
  <2>. QED  BY <2>6, <2>7 DEF PlanRight
<1>3. CASE UNCHANGED <<mdl, queried, phase, ctes>>
  BY <1>3, RequestFixed DEF PlanRight, DefinedBeforeUse, PlansWhatIsNeeded
<1>. QED  BY <1>1, <1>2, <1>3, PlannedSteps

\* The CTEs of a planned query stand in order, and are those that it needs.
THEOREM PlanIsRight == PlannerSpec => []DefinedBeforeUse /\ []PlansWhatIsNeeded
<1>1. PlannerInit => PlanRight
  BY DEF PlannerInit, PlanRight, DefinedBeforeUse, PlansWhatIsNeeded
<1>2. PlannerInv /\ PlanRight /\ [PlannerNext]_plannerVars => PlanRight'
  BY PlanRightStep
<1>3. PlanRight => DefinedBeforeUse /\ PlansWhatIsNeeded
  BY DEF PlanRight
<1>. QED  BY PlannerInvariant, <1>1, <1>2, <1>3, PTL DEF PlannerSpec

\* Of a planned statement, the CTEs are those that its objects need.
THEOREM PlanIsNeeded == PlannerSpec => []PlansWhatIsNeeded
BY PlanIsRight, PTL

-----------------------------------------------------------------------------
(* The length of the walk.                                                 *)

Listed(q, o) == {j \in DOMAIN edges : edges[j] = <<q, o>>}

\* The calls that will list the edge, counted from the outermost call.
Lister(d, q, o) == stack[Len(stack) + 1 - d].obj = o /\ q \in stack[Len(stack) + 1 - d].todo
Listers(q, o) == {d \in 1 .. Len(stack) : Lister(d, q, o)}

Once(b) == IF b THEN 1 ELSE 0

\* An object is walked at most once as a seed and once as a requirement; what
\* it has not used of the two is left to list its edges.
Spent(q, o) ==
  Cardinality(Listed(q, o)) + Cardinality(Listers(q, o)) + Once(o \in seedsLeft) + Once(o \notin seen)

EdgesPaidFor == phase = "walk" => \A q, o \in Name : Spent(q, o) <= 2

LEMMA SpentFinite ==
  ASSUME PlannerInv, NEW q, NEW o
  PROVE  /\ IsFiniteSet(Listed(q, o)) /\ Cardinality(Listed(q, o)) \in Nat
         /\ IsFiniteSet(Listers(q, o)) /\ Cardinality(Listers(q, o)) \in Nat
<1>1. SortTypeOK /\ Len(stack) \in Nat
  BY DEF PlannerInv, PlannerTypeOK, SortInv
<1>2. IsFiniteSet(Listed(q, o)) /\ Cardinality(Listed(q, o)) \in Nat
  BY <1>1, PositionsFinite, Listed(q, o) \subseteq DOMAIN edges DEF Listed
<1>3. IsFiniteSet(1 .. Len(stack))
  BY <1>1, FS_Interval
<1>. QED  BY <1>2, <1>3, FS_Subset, FS_CardinalityType, Listers(q, o) \subseteq 1 .. Len(stack) DEF Listers

LEMMA OneMoreOrLess ==
  ASSUME NEW S, IsFiniteSet(S), NEW x
  PROVE  /\ IsFiniteSet(S \ {x}) /\ Cardinality(S \ {x}) \in Nat
         /\ x \in S => Cardinality(S \ {x}) = Cardinality(S) - 1
         /\ Cardinality(S \cup {x}) \in Nat /\ Cardinality(S \cup {x}) <= Cardinality(S) + 1
<1>1. IsFiniteSet(S \ {x}) /\ (x \in S => Cardinality(S \ {x}) = Cardinality(S) - 1)
  BY FS_RemoveElement
<1>2. /\ IsFiniteSet(S \cup {x})
      /\ Cardinality(S \cup {x}) = Cardinality(S) \/ Cardinality(S \cup {x}) = Cardinality(S) + 1
  BY FS_AddElement
<1>3. Cardinality(S) \in Nat /\ Cardinality(S \ {x}) \in Nat /\ Cardinality(S \cup {x}) \in Nat
  BY <1>1, <1>2, FS_CardinalityType
<1>. QED  BY <1>1, <1>2, <1>3

\* A visit lists one edge.
LEMMA LinkListed ==
  ASSUME PlannerInv, NEW r, Visiting(r), Link(r), NEW q, NEW o
  PROVE  Cardinality(Listed(q, o)') =
           Cardinality(Listed(q, o)) + Once(q = r /\ o = stack[1].obj)
<1>1. edges' = Append(edges, <<r, stack[1].obj>>) /\ edges \in Seq(vertices \X vertices)
  BY TopCall DEF Link, PlannerInv, SortInv, SortTypeOK
<1>2. /\ Len(edges) \in Nat /\ DOMAIN edges = 1 .. Len(edges)
      /\ DOMAIN edges' = 1 .. Len(edges) + 1
      /\ \A i \in 1 .. Len(edges) : edges'[i] = edges[i]
      /\ edges'[Len(edges) + 1] = <<r, stack[1].obj>>
  BY <1>1
<1>3. CASE q = r /\ o = stack[1].obj
  <2>1. Listed(q, o)' = Listed(q, o) \cup {Len(edges) + 1} /\ Len(edges) + 1 \notin Listed(q, o)
    BY <1>2, <1>3 DEF Listed
  <2>2. Cardinality(Listed(q, o)') = Cardinality(Listed(q, o)) + 1
    BY <2>1, SpentFinite, FS_AddElement
  <2>3. Once(q = r /\ o = stack[1].obj) = 1
    BY <1>3 DEF Once
  <2>. QED  BY <2>2, <2>3
<1>4. CASE ~(q = r /\ o = stack[1].obj)
  <2>1. Listed(q, o)' = Listed(q, o)
    BY <1>2, <1>4 DEF Listed
  <2>. QED  BY <1>4, <2>1, SpentFinite DEF Once
<1>. QED  BY <1>3, <1>4

\* The innermost call is the last one counted.
LEMMA TopLister ==
  ASSUME PlannerInv, NEW r, Visiting(r), NEW q, NEW o
  PROVE  /\ Len(stack) \in Listers(q, o) <=> stack[1].obj = o /\ q \in stack[1].todo
         /\ \A d \in 1 .. Len(stack) - 1 : Len(stack) + 1 - d \in 2 .. Len(stack)
<1>1. Len(stack) \in Nat \ {0} /\ (Len(stack) + 1) - Len(stack) = 1
  BY TopCall
<1>2. \A d \in 1 .. Len(stack) - 1 : Len(stack) + 1 - d \in 2 .. Len(stack)
  BY <1>1
<1>. QED  BY <1>1, <1>2 DEF Listers, Lister

\* Once it has listed its edge it does not list it again.
LEMMA SeenListers ==
  ASSUME PlannerInv, NEW r, Visiting(r), stack' = Advance(r), NEW q, NEW o
  PROVE  Listers(q, o)' = Listers(q, o) \ {d \in {Len(stack)} : q = r /\ o = stack[1].obj}
<1>1. /\ Len(stack') = Len(stack) /\ Len(stack) \in Nat \ {0}
      /\ stack'[1] = [obj |-> stack[1].obj, todo |-> stack[1].todo \ {r}]
      /\ \A k \in 2 .. Len(stack) : stack'[k] = stack[k]
  BY AdvanceTop, TopCall
<1>2. \A d \in 1 .. Len(stack) - 1 : Lister(d, q, o)' <=> Lister(d, q, o)
  BY <1>1, TopLister DEF Lister
<1>3. ASSUME NEW d, d = Len(stack)
      PROVE  Lister(d, q, o)' <=> Lister(d, q, o) /\ ~(q = r /\ o = stack[1].obj)
  BY <1>1, <1>3, Len(stack) + 1 - d = 1 DEF Lister
<1>4. 1 .. Len(stack) = (1 .. Len(stack) - 1) \cup {Len(stack)}
  BY <1>1
<1>5. Listers(q, o)' = {d \in 1 .. Len(stack) : Lister(d, q, o)'}
  BY <1>1 DEF Listers
<1>6. ASSUME NEW d
      PROVE  d \in Listers(q, o)' <=>
               d \in Listers(q, o) /\ ~(d = Len(stack) /\ q = r /\ o = stack[1].obj)
  <2>1. d \in Listers(q, o)' <=> d \in 1 .. Len(stack) /\ Lister(d, q, o)'
    BY <1>5
  <2>2. d \in Listers(q, o) <=> d \in 1 .. Len(stack) /\ Lister(d, q, o)
    BY DEF Listers
  <2>3. Len(stack) \notin 1 .. Len(stack) - 1
    BY <1>1
  <2>. QED  BY <1>2, <1>3, <1>4, <2>1, <2>2, <2>3
<1>. QED  BY <1>6

\* The call for a new object is one more lister of what that object requires.
LEMMA NewListers ==
  ASSUME PlannerInv, NEW r \in Name, Visiting(r), stack' = <<Frame(r)>> \o Advance(r),
         NEW q, NEW o
  PROVE  Listers(q, o)' = (Listers(q, o) \ {d \in {Len(stack)} : q = r /\ o = stack[1].obj})
                            \cup {d \in {Len(stack) + 1} : o = r /\ q \in Visited(r)}
<1>1. Frame(r) \in FrameType /\ Frame(r).obj = r /\ Frame(r).todo = Visited(r)
  BY VisitedInName DEF Frame, FrameType, PlannerInv, PlannerTypeOK
<1>2. /\ Advance(r) \in Seq(FrameType) /\ Len(Advance(r)) = Len(stack)
      /\ Len(stack) \in Nat \ {0}
      /\ Advance(r)[1] = [obj |-> stack[1].obj, todo |-> stack[1].todo \ {r}]
      /\ \A k \in 2 .. Len(stack) : Advance(r)[k] = stack[k]
  BY AdvanceTop, TopCall
<1>3. /\ Len(stack') = Len(stack) + 1 /\ stack'[1] = Frame(r)
      /\ \A k \in 1 .. Len(stack) : stack'[k + 1] = Advance(r)[k]
  BY <1>1, <1>2, PushStack
<1>4. ASSUME NEW d \in 1 .. Len(stack) - 1  PROVE Lister(d, q, o)' <=> Lister(d, q, o)
  <2>1. Len(stack) + 1 - d \in 2 .. Len(stack) /\ Len(stack) + 1 + 1 - d = (Len(stack) + 1 - d) + 1
    BY <1>2
  <2>2. stack'[Len(stack') + 1 - d] = stack[Len(stack) + 1 - d]
    BY <1>2, <1>3, <2>1
  <2>. QED  BY <2>2 DEF Lister
<1>5. ASSUME NEW d, d = Len(stack)
      PROVE  Lister(d, q, o)' <=> Lister(d, q, o) /\ ~(q = r /\ o = stack[1].obj)
  <2>1. Len(stack') + 1 - d = 1 + 1 /\ Len(stack) + 1 - d = 1 /\ 1 \in 1 .. Len(stack)
    BY <1>2, <1>3, <1>5
  <2>2. stack'[1 + 1] = [obj |-> stack[1].obj, todo |-> stack[1].todo \ {r}]
    BY <1>2, <1>3, <2>1
  <2>3. stack'[1 + 1].obj = stack[1].obj /\ stack'[1 + 1].todo = stack[1].todo \ {r}
    <3>1. \A e, a, b : e = [obj |-> a, todo |-> b] => e.obj = a /\ e.todo = b
      OBVIOUS
    <3>. QED  BY <2>2, <3>1, ZenonT(60)
  <2>4. Lister(d, q, o)' <=> stack'[1 + 1].obj = o /\ q \in stack'[1 + 1].todo
    BY <2>1 DEF Lister
  <2>. QED  BY <2>1, <2>3, <2>4 DEF Lister
<1>6. ASSUME NEW d, d = Len(stack) + 1
      PROVE  Lister(d, q, o)' <=> o = r /\ q \in Visited(r)
  <2>1. Len(stack') + 1 - d = 1
    BY <1>2, <1>3, <1>6
  <2>2. stack'[Len(stack') + 1 - d] = Frame(r)
    BY <1>3, <2>1
  <2>. QED  BY <1>1, <2>2 DEF Lister
<1>7. 1 .. Len(stack') = (1 .. Len(stack) - 1) \cup {Len(stack), Len(stack) + 1}
  BY <1>2, <1>3
<1>8. \A d : d \in Listers(q, o)' <=> d \in 1 .. Len(stack') /\ Lister(d, q, o)'
  BY DEF Listers
<1>9. \A d : d \in Listers(q, o) <=> d \in (1 .. Len(stack) - 1) \cup {Len(stack)} /\ Lister(d, q, o)
  BY <1>2, 1 .. Len(stack) = (1 .. Len(stack) - 1) \cup {Len(stack)} DEF Listers
<1>10. Len(stack) \notin 1 .. Len(stack) - 1 /\ Len(stack) + 1 \notin 1 .. Len(stack) - 1
       /\ Len(stack) + 1 # Len(stack)
  BY <1>2
<1>11. ASSUME NEW d
       PROVE  d \in Listers(q, o)' <=>
                \/ d \in Listers(q, o) /\ ~(d = Len(stack) /\ q = r /\ o = stack[1].obj)
                \/ d = Len(stack) + 1 /\ o = r /\ q \in Visited(r)
  <2>1. CASE d \in 1 .. Len(stack) - 1
    BY <1>4, <1>7, <1>8, <1>9, <1>10, <2>1
  <2>2. CASE d = Len(stack)
    BY <1>5, <1>7, <1>8, <1>9, <1>10, <2>2
  <2>3. CASE d = Len(stack) + 1
    BY <1>6, <1>7, <1>8, <1>9, <1>10, <2>3
  <2>4. CASE d \notin (1 .. Len(stack) - 1) \cup {Len(stack), Len(stack) + 1}
    BY <1>7, <1>8, <1>9, <2>4
  <2>. QED  BY <2>1, <2>2, <2>3, <2>4
<1>. QED  BY <1>11

LEMMA VisitSeenPaid ==
  ASSUME PlannerInv, EdgesPaidFor, VisitSeen
  PROVE  EdgesPaidFor'
<1>1. PICK r \in Name : /\ Visiting(r) /\ r \in seen /\ Link(r) /\ stack' = Advance(r)
                        /\ UNCHANGED <<phase, seen, described>>
  BY DEF VisitSeen
<1>2. phase = "walk" /\ seedsLeft' = seedsLeft
  BY <1>1 DEF Visiting, Link
<1>. SUFFICES ASSUME NEW q \in Name, NEW o \in Name  PROVE Spent(q, o)' <= 2
  BY DEF EdgesPaidFor
<1>3. Spent(q, o) <= 2
  BY <1>2 DEF EdgesPaidFor
<1>4. Cardinality(Listers(q, o)') =
        Cardinality(Listers(q, o)) - Once(q = r /\ o = stack[1].obj)
  <2>1. Listers(q, o)' = Listers(q, o) \ {d \in {Len(stack)} : q = r /\ o = stack[1].obj}
    BY <1>1, SeenListers
  <2>2. q = r /\ o = stack[1].obj => Len(stack) \in Listers(q, o)
    BY <1>1, TopLister, TopCall
  <2>3. CASE q = r /\ o = stack[1].obj
    <3>1. Listers(q, o)' = Listers(q, o) \ {Len(stack)}
      BY <2>1, <2>3
    <3>. QED  BY <2>2, <2>3, <3>1, SpentFinite, OneMoreOrLess DEF Once
  <2>4. CASE ~(q = r /\ o = stack[1].obj)
    <3>1. Listers(q, o)' = Listers(q, o)
      BY <2>1, <2>4
    <3>. QED  BY <2>4, <3>1, SpentFinite DEF Once
  <2>. QED  BY <2>3, <2>4
<1>. QED  BY <1>1, <1>2, <1>3, <1>4, LinkListed, SpentFinite DEF Spent, Once

LEMMA VisitNewPaid ==
  ASSUME PlannerInv, EdgesPaidFor, VisitNew
  PROVE  EdgesPaidFor'
<1>1. PICK r \in Name : /\ r \notin seen /\ Visiting(r) /\ Link(r)
                        /\ seen' = seen \cup {r}
                        /\ stack' = <<Frame(r)>> \o Advance(r) /\ phase' = phase
  BY DEF VisitNew
<1>2. phase = "walk" /\ seedsLeft' = seedsLeft
  BY <1>1 DEF Visiting, Link
<1>. SUFFICES ASSUME NEW q \in Name, NEW o \in Name  PROVE Spent(q, o)' <= 2
  BY DEF EdgesPaidFor
<1>3. Spent(q, o) <= 2
  BY <1>2 DEF EdgesPaidFor
<1>. DEFINE L == Listers(q, o)
            M == L \ {d \in {Len(stack)} : q = r /\ o = stack[1].obj}
<1>4. /\ IsFiniteSet(M)
      /\ Cardinality(M) = Cardinality(L) - Once(q = r /\ o = stack[1].obj)
  <2>1. q = r /\ o = stack[1].obj => Len(stack) \in L
    BY <1>1, TopLister, TopCall
  <2>2. CASE q = r /\ o = stack[1].obj
    <3>1. M = L \ {Len(stack)}
      BY <2>2
    <3>. QED  BY <2>1, <2>2, <3>1, SpentFinite, OneMoreOrLess DEF Once
  <2>3. CASE ~(q = r /\ o = stack[1].obj)
    <3>1. M = L /\ Once(q = r /\ o = stack[1].obj) = 0
      BY <2>3 DEF Once
    <3>2. IsFiniteSet(L) /\ Cardinality(L) \in Nat
      BY SpentFinite
    <3>. HIDE DEF M, L
    <3>. QED  BY <3>1, <3>2
  <2>. QED  BY <2>2, <2>3
<1>5. /\ Cardinality(Listers(q, o)') <= Cardinality(M) + Once(o = r /\ q \in Visited(r))
      /\ Cardinality(Listers(q, o)') \in Nat
  <2>1. Listers(q, o)' = M \cup {d \in {Len(stack) + 1} : o = r /\ q \in Visited(r)}
    BY <1>1, NewListers
  <2>. HIDE DEF M
  <2>2. CASE o = r /\ q \in Visited(r)
    <3>1. Listers(q, o)' = M \cup {Len(stack) + 1}
      BY <2>1, <2>2
    <3>. QED  BY <1>4, <2>2, <3>1, OneMoreOrLess DEF Once
  <2>3. CASE ~(o = r /\ q \in Visited(r))
    <3>1. Listers(q, o)' = M
      BY <2>1, <2>3
    <3>. QED  BY <1>4, <2>3, <3>1, FS_CardinalityType DEF Once
  <2>. QED  BY <2>2, <2>3
<1>6. Once(o \notin seen') = Once(o \notin seen) - Once(o = r)
  BY <1>1 DEF Once
<1>. HIDE DEF M
<1>. QED  BY <1>1, <1>2, <1>3, <1>4, <1>5, <1>6, LinkListed, SpentFinite DEF Spent, Once

LEMMA NextSeedPaid ==
  ASSUME PlannerInv, EdgesPaidFor, NextSeed
  PROVE  EdgesPaidFor'
<1>1. PICK d \in seedsLeft : /\ seedsLeft' = seedsLeft \ {d} /\ stack' = <<Frame(d)>>
                             /\ phase = "walk" /\ stack = <<>>
                             /\ UNCHANGED <<seen, edges, phase>>
  BY DEF NextSeed, loopVars
<1>. SUFFICES ASSUME NEW q \in Name, NEW o \in Name  PROVE Spent(q, o)' <= 2
  BY DEF EdgesPaidFor
<1>2. Spent(q, o) <= 2 /\ Listed(q, o)' = Listed(q, o)
  BY <1>1 DEF EdgesPaidFor, Listed
<1>3. Listers(q, o) = {} /\ Cardinality(Listers(q, o)) = 0
  BY <1>1, FS_EmptySet DEF Listers
<1>4. Cardinality(Listers(q, o)') <= Once(o = d) /\ Cardinality(Listers(q, o)') \in Nat
  <2>1. Len(stack') = 1 /\ stack'[1].obj = d
    BY <1>1 DEF Frame
  <2>2. Listers(q, o)' \subseteq {1} /\ (o # d => Listers(q, o)' = {})
    BY <2>1 DEF Listers, Lister
  <2>3. IsFiniteSet({1}) /\ Cardinality({1}) = 1 /\ Cardinality({}) = 0
    BY FS_Singleton, FS_EmptySet
  <2>. QED  BY <2>2, <2>3, FS_Subset, FS_CardinalityType DEF Once
<1>5. Once(o \in seedsLeft') = Once(o \in seedsLeft) - Once(o = d)
  BY <1>1 DEF Once
<1>. QED  BY <1>1, <1>2, <1>3, <1>4, <1>5, SpentFinite DEF Spent, Once

LEMMA ReturnPaid ==
  ASSUME PlannerInv, EdgesPaidFor, Return
  PROVE  EdgesPaidFor'
<1>1. /\ stack # <<>> /\ Head(stack).todo = {} /\ stack' = Tail(stack) /\ phase = "walk"
      /\ UNCHANGED <<seedsLeft, seen, edges, phase>>
  BY DEF Return, sortVars
<1>2. stack \in Seq(FrameType)
  BY DEF PlannerInv, PlannerTypeOK
<1>3. /\ Len(stack) \in Nat \ {0} /\ Len(stack') = Len(stack) - 1 /\ stack[1].todo = {}
      /\ \A k \in 1 .. Len(stack) - 1 : stack'[k] = stack[k + 1]
  BY <1>1, <1>2
<1>. SUFFICES ASSUME NEW q \in Name, NEW o \in Name  PROVE Spent(q, o)' <= 2
  BY DEF EdgesPaidFor
<1>4. Spent(q, o) <= 2 /\ Listed(q, o)' = Listed(q, o)
  BY <1>1 DEF EdgesPaidFor, Listed
<1>5. Listers(q, o)' = Listers(q, o)
  <2>1. ASSUME NEW d \in 1 .. Len(stack) - 1  PROVE Lister(d, q, o)' <=> Lister(d, q, o)
    <3>1. Len(stack') + 1 - d \in 1 .. Len(stack) - 1
          /\ (Len(stack') + 1 - d) + 1 = Len(stack) + 1 - d
      BY <1>3
    <3>2. stack'[Len(stack') + 1 - d] = stack[Len(stack) + 1 - d]
      BY <1>3, <3>1
    <3>. QED  BY <3>2 DEF Lister
  <2>2. ~Lister(Len(stack), q, o)
    BY <1>3, (Len(stack) + 1) - Len(stack) = 1 DEF Lister
  <2>3. 1 .. Len(stack) = (1 .. Len(stack) - 1) \cup {Len(stack)} /\ 1 .. Len(stack') = 1 .. Len(stack) - 1
    BY <1>3
  <2>4. \A d : d \in Listers(q, o)' <=> d \in 1 .. Len(stack) - 1 /\ Lister(d, q, o)'
    BY <2>3 DEF Listers
  <2>5. \A d : d \in Listers(q, o) <=> d \in (1 .. Len(stack) - 1) \cup {Len(stack)} /\ Lister(d, q, o)
    BY <2>3 DEF Listers
  <2>. QED  BY <2>1, <2>2, <2>4, <2>5
<1>. QED  BY <1>1, <1>4, <1>5 DEF Spent

LEMMA DescribePaid ==
  ASSUME PlannerInv, DescribeQueried
  PROVE  EdgesPaidFor'
<1>1. /\ stack = <<>> /\ stack' = <<>> /\ edges' = edges /\ edges = <<>>
  BY DEF DescribeQueried, PlannerInv, WalkComplete, sortVars, SortInv, SortTypeOK
<1>2. \A q, o : Listed(q, o)' = {} /\ Listers(q, o)' = {}
  BY <1>1 DEF Listed, Listers
<1>. QED  BY <1>2, FS_EmptySet DEF EdgesPaidFor, Spent, Once

LEMMA PaidStep ==
  ASSUME PlannerInv, EdgesPaidFor, [PlannerNext]_plannerVars
  PROVE  EdgesPaidFor'
<1>1. CASE VisitBroken \/ BeginSort \/ SortStep \/ Emit
  BY <1>1 DEF VisitBroken, BeginSort, SortStep, Emit, EdgesPaidFor
<1>2. CASE UNCHANGED plannerVars
  <2>1. UNCHANGED <<edges, stack, seedsLeft, seen, phase>>
    BY <1>2 DEF plannerVars, walkVars, sortVars
  <2>2. \A q, o : Listed(q, o)' = Listed(q, o) /\ Listers(q, o)' = Listers(q, o)
    BY <2>1 DEF Listed, Listers, Lister
  <2>. QED  BY <2>1, <2>2 DEF EdgesPaidFor, Spent
<1>. QED  BY <1>1, <1>2, DescribePaid, NextSeedPaid, VisitSeenPaid, VisitNewPaid, ReturnPaid
          DEF PlannerNext, WalkStep

LEMMA TwiceStep ==
  ASSUME PlannerInv, PlannerInv', EdgesPaidFor, EdgeAtMostTwice, [PlannerNext]_plannerVars
  PROVE  EdgeAtMostTwice'
<1>1. CASE edges' = edges
  BY <1>1 DEF EdgeAtMostTwice
<1>2. ASSUME NEW r \in Name, Visiting(r), Link(r)  PROVE EdgeAtMostTwice'
  <2>1. ASSUME NEW i \in DOMAIN edges'
        PROVE  Cardinality({j \in DOMAIN edges' : edges'[j] = edges'[i]}) <= 2
    <3>1. PICK q \in Name, o \in Name : edges'[i] = <<q, o>>
      BY DEF PlannerInv, SortInv, SortTypeOK
    <3>2. Spent(q, o) <= 2
      BY <1>2, <3>1 DEF EdgesPaidFor, Visiting
    <3>3. q = r /\ o = stack[1].obj => Cardinality(Listers(q, o)) >= 1
      <4>1. q = r /\ o = stack[1].obj => Listers(q, o) # {}
        BY <1>2, TopLister, TopCall
      <4>. QED  BY <4>1, SpentFinite, FS_EmptySet
    <3>4. Cardinality(Listed(q, o)') <= 2
      BY <1>2, <3>2, <3>3, LinkListed, SpentFinite DEF Spent, Once
    <3>. QED  BY <3>1, <3>4 DEF Listed
  <2>. QED  BY <2>1 DEF EdgeAtMostTwice
<1>3. CASE VisitSeen \/ VisitNew \/ VisitBroken
  <2>1. PICK r \in Name : Visiting(r) /\ Link(r)
    BY <1>3, TopCall DEF VisitSeen, VisitNew, VisitBroken
  <2>. QED  BY <1>2, <2>1
<1>4. CASE DescribeQueried \/ NextSeed \/ Return \/ BeginSort \/ SortStep \/ Emit \/ UNCHANGED plannerVars
  BY <1>1, <1>4 DEF DescribeQueried, NextSeed, Return, BeginSort, StartSort, SortStep, TakeReady,
                    Relax, EndSort, Emit, plannerVars, sortVars
<1>. QED  BY <1>3, <1>4 DEF PlannerNext, WalkStep

\* However often a seed is required, addToGraph lists an edge at most twice.
THEOREM WalkIsLinear == PlannerSpec => []EdgeAtMostTwice
<1>1. PlannerInit => EdgesPaidFor /\ EdgeAtMostTwice
  BY DEF PlannerInit, EdgesPaidFor, EdgeAtMostTwice
<1>2. PlannerInv /\ EdgesPaidFor /\ [PlannerNext]_plannerVars => EdgesPaidFor'
  BY PaidStep
<1>3. PlannerInv /\ PlannerInv' /\ EdgesPaidFor /\ EdgeAtMostTwice /\ [PlannerNext]_plannerVars
        => EdgeAtMostTwice'
  BY TwiceStep
<1>. QED  BY PlannerInvariant, <1>1, <1>2, <1>3, PTL DEF PlannerSpec

-----------------------------------------------------------------------------
(* The refinement.                                                         *)

LEMMA SameRequest ==
  ASSUME mdl' = mdl, queried' = queried
  PROVE  /\ Requires' = Requires /\ (mdl.broken)' = mdl.broken
         /\ Plan!Needed' = Plan!Needed
BY RequestFixed DEF Requires

LEMMA PlanStutter ==
  ASSUME mdl' = mdl, queried' = queried, PlanSoFar' = PlanSoFar, Outcome' = Outcome
  PROVE  UNCHANGED Plan!planVars
BY SameRequest DEF Plan!planVars

\* A query that needs a broken object may be refused.
LEMMA RefuseBroken ==
  ASSUME phase \notin {"planned", "failed"}, phase' = "failed", mdl' = mdl, queried' = queried,
         NEW o \in Plan!Needed \cap mdl.broken
  PROVE  Plan!Refuse
BY SameRequest DEF Plan!Refuse, PlanSoFar, Outcome

LEMMA DescribeImplements ==
  ASSUME PlannerInv, DescribeQueried
  PROVE  [Plan!PlanNext]_(Plan!planVars)
<1>1. /\ phase = "describe" /\ mdl' = mdl /\ queried' = queried /\ order' = order
      /\ phase' = CASE queried \cap mdl.broken # {} -> "failed"
                    [] queried = {} -> "planned"
                    [] OTHER -> "walk"
  BY DEF DescribeQueried, sortVars, loopVars
<1>2. queried \subseteq Plan!Needed /\ order = <<>>
  BY <1>1, NeededClosed
  DEF PlannerInv, PlannerTypeOK, SortInv, SortTypeOK, Idle, Queryable
<1>3. CASE queried \cap mdl.broken # {}
  BY <1>1, <1>2, <1>3, RefuseBroken DEF Plan!PlanNext
<1>4. CASE queried \cap mdl.broken = {} /\ queried = {}
  <2>1. phase' = "planned"
    BY <1>1, <1>4
  <2>2. Plan!Needed = {}
    BY <1>4, NeededLeast
  <2>3. Plan!Accept
    BY <1>1, <1>2, <2>1, <2>2, SameRequest DEF Plan!Accept, Plan!Defined, PlanSoFar, Outcome
  <2>. QED  BY <2>3 DEF Plan!PlanNext
<1>5. CASE queried \cap mdl.broken = {} /\ queried # {}
  <2>1. phase' = "walk"
    BY <1>1, <1>5
  <2>. QED  BY <1>1, <2>1, PlanStutter DEF PlanSoFar, Outcome
<1>. QED  BY <1>3, <1>4, <1>5

LEMMA WalkImplements ==
  ASSUME PlannerInv, WalkStep
  PROVE  [Plan!PlanNext]_(Plan!planVars)
<1>1. CASE VisitBroken
  <2>1. PICK r \in mdl.broken \ seen : Visiting(r) /\ Link(r) /\ phase' = "failed"
    BY <1>1 DEF VisitBroken
  <2>2. r \in Plan!Needed \cap mdl.broken
    BY <2>1, TopCall
  <2>3. phase = "walk" /\ mdl' = mdl /\ queried' = queried
    BY <2>1 DEF Visiting, Link
  <2>. QED  BY <2>1, <2>2, <2>3, RefuseBroken DEF Plan!PlanNext
<1>2. CASE NextSeed \/ VisitSeen \/ VisitNew \/ Return
  <2>1. mdl' = mdl /\ queried' = queried /\ phase' = phase /\ order' = order
    BY <1>2 DEF NextSeed, VisitSeen, VisitNew, Return, Link, sortVars, loopVars
  <2>. QED  BY <2>1, PlanStutter DEF PlanSoFar, Outcome
<1>. QED  BY <1>1, <1>2 DEF WalkStep

LEMMA SortImplements ==
  ASSUME PlannerInv, PlannerInv', BeginSort \/ SortStep
  PROVE  [Plan!PlanNext]_(Plan!planVars)
<1>1. /\ mdl' = mdl /\ queried' = queried /\ phase \in {"walk", "sort"} /\ phase' = "sort"
  BY DEF BeginSort, SortStep
<1>2. CASE order' = order
  BY <1>1, <1>2, PlanStutter DEF PlanSoFar, Outcome
<1>3. CASE SortStep /\ TakeReady
  <2>1. PICK v \in ready : order' = Append(order, v)
    BY <1>3 DEF TakeReady
  <2>2. /\ order \in Seq(vertices) /\ v \in vertices /\ v \notin Ordered /\ phase = "sort"
    BY <1>3, <2>1 DEF PlannerInv, SortInv, SortTypeOK, ReadyIffZero, TakeReady, SortStep
  <2>3. /\ v \in Plan!Needed /\ v \in Name
    BY <2>2, GraphIsNeeded DEF Plan!Needed
  <2>4. /\ DOMAIN order = 1 .. Len(order) /\ Len(order) \in Nat
        /\ DOMAIN order' = 1 .. Len(order) + 1
        /\ order'[Len(order) + 1] = v /\ \A j \in 1 .. Len(order) : order'[j] = order[j]
    BY <2>1, <2>2
  <2>5. ASSUME NEW r \in Visited(v)  PROVE r \in {order[j] : j \in DOMAIN order}
    <3>1. PICK i \in DOMAIN edges : edges[i] = <<r, v>>
      BY <2>2, GraphIsNeeded
    <3>2. edges' = edges
      BY <1>3 DEF TakeReady
    <3>3. \E j \in 1 .. (Len(order) + 1) - 1 : order'[j] = r
      BY <2>4, <3>1, <3>2 DEF PlannerInv, SortInv, RequiredFirst, From, To
    <3>. QED  BY <2>4, <3>3
  <2>6. Visited(v) \subseteq {order[j] : j \in DOMAIN order}
    BY <2>5
  <2>7. Plan!Define(v)
    BY <1>1, <2>1, <2>2, <2>3, <2>4, <2>6, SameRequest
    DEF Plan!Define, Plan!Defined, PlanSoFar, Outcome, Requires, Ordered
  <2>. QED  BY <2>3, <2>7 DEF Plan!PlanNext
<1>4. CASE BeginSort \/ (SortStep /\ (Relax \/ EndSort))
  BY <1>2, <1>4 DEF BeginSort, StartSort, SortStep, Relax, EndSort
<1>. QED  BY <1>3, <1>4 DEF SortStep

LEMMA EmitImplements ==
  ASSUME PlannerInv, Emit
  PROVE  [Plan!PlanNext]_(Plan!planVars)
<1>1. /\ phase = "sort" /\ sorting \in {"order", "cycle"}
      /\ mdl' = mdl /\ queried' = queried /\ order' = order
  BY DEF Emit, sortVars, loopVars
<1>2. SortInv /\ CycleIffStuck
  BY SortInvCycleIffStuck DEF PlannerInv
<1>3. /\ vertices = Plan!Needed /\ Plan!Needed \cap mdl.broken = {} /\ described = vertices
      /\ Plan!Needed \subseteq Name
  BY <1>1, GraphIsNeeded DEF Plan!Needed
<1>4. DOMAIN order = 1 .. Len(order)
  BY <1>2 DEF SortInv, SortTypeOK
<1>5. CASE sorting = "order"
  <2>1. Ordered = vertices
    BY <1>2, <1>5 DEF CycleIffStuck
  <2>2. phase' = "planned"
    BY <1>1, <1>3, <1>5, <2>1 DEF Emit
  <2>3. Plan!Accept
    BY <1>1, <1>3, <1>4, <2>1, <2>2, SameRequest
    DEF Plan!Accept, Plan!Defined, PlanSoFar, Outcome, Ordered
  <2>. QED  BY <2>3 DEF Plan!PlanNext
<1>6. CASE sorting = "cycle"
  <2>. DEFINE S == vertices \ Ordered
  <2>1. phase' = "failed"
    BY <1>1, <1>6 DEF Emit
  <2>2. Stuck(S)
    BY <1>2, <1>6 DEF CycleIffStuck
  <2>3. ASSUME NEW v \in S  PROVE Requires[v] \cap S # {}
    <3>1. PICK i \in EdgesInto(v) : From(i) \in S
      BY <2>2 DEF Stuck
    <3>2. From(i) \in Visited(v)
      BY <3>1 DEF PlannerInv, WalkSound, EdgesInto
    <3>3. Requires[v] = Visited(v)
      BY <1>3 DEF Requires
    <3>. QED  BY <3>1, <3>2, <3>3
  <2>4. Plan!Circular(S)
    BY <2>2, <2>3 DEF Plan!Circular, Stuck
  <2>5. \E T \in SUBSET Plan!Needed : Plan!Circular(T)
    BY <1>3, <2>4
  <2>6. Plan!Refuse
    BY <1>1, <2>1, <2>5, SameRequest DEF Plan!Refuse, PlanSoFar, Outcome
  <2>. QED  BY <2>6 DEF Plan!PlanNext
<1>. QED  BY <1>1, <1>5, <1>6

\* The rules implement the abstract plan: what they refuse needs a broken or a
\* circular object, and what they accept is defined step by step in order.
THEOREM RulesImplementPlan == PlannerSpec => ImplementsPlan
<1>1. PlannerInit => Plan!PlanInit
  <2>. SUFFICES ASSUME PlannerInit  PROVE Plan!PlanInit
    OBVIOUS
  <2>1. mdl \in Manifests /\ queried \in SUBSET Name /\ mdl.broken \in SUBSET Name
    BY DEF PlannerInit, Queryable, Manifests
  <2>2. Requires \in [Name -> SUBSET Name]
    BY <2>1, VisitedInName DEF Requires
  <2>3. PlanSoFar = <<>> /\ Outcome = "none"
    BY DEF PlannerInit, Idle, PlanSoFar, Outcome
  <2>. QED  BY <2>1, <2>2, <2>3 DEF Plan!PlanInit
<1>2. PlannerInv /\ PlannerInv' /\ [PlannerNext]_plannerVars => [Plan!PlanNext]_(Plan!planVars)
  <2>. SUFFICES ASSUME PlannerInv, PlannerInv', [PlannerNext]_plannerVars
                PROVE  [Plan!PlanNext]_(Plan!planVars)
    OBVIOUS
  <2>1. CASE UNCHANGED plannerVars
    BY <2>1, PlanStutter DEF plannerVars, sortVars, loopVars, PlanSoFar, Outcome
  <2>2. CASE PlannerNext
    BY <2>2, DescribeImplements, WalkImplements, SortImplements, EmitImplements DEF PlannerNext
  <2>. QED  BY <2>1, <2>2
<1>. QED  BY PlannerInvariant, <1>1, <1>2, PTL DEF PlannerSpec, ImplementsPlan
=============================================================================
