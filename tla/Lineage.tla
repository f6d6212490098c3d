------------------------------- MODULE Lineage -------------------------------
(***************************************************************************)
(* Lineage.RequiredFields: which columns of which tables have to be        *)
(* computed so that the asked columns can be, and in which order of the    *)
(* tables.  collectRequiredFields follows the source columns depth first,  *)
(* in the order of a Go map, and keeps no record of where it has been; an  *)
(* edge that would close a cycle of tables is refused; topoSort orders the *)
(* tables.                                                                 *)
(***************************************************************************)
EXTENDS Integers, Sequences, FiniteSets

CONSTANTS
  Table, Column,  \* tables are integers, which compare as their names do
  MaxDepth        \* calls of collectRequiredFields that the stack has room for

ASSUME LineageAssumption ==
  /\ Table \subseteq Int /\ IsFiniteSet(Table)
  /\ MaxDepth \in Nat

Field == Table \X Column
TableOf(f) == f[1]

VARIABLES
  source,    \* the map sourceColumns; {} for a field that is not in it
  asked,     \* the argument of RequiredFields
  needed,    \* not in the code: what these ask for, to compare the answer with
  askedLeft, \* the asked fields its loop has not reached
  calls,     \* calls of collectRequiredFields, innermost first: field, todo
  fields,    \* the vertices of the dag with their columns
  links,     \* the edges of the dag, <<from, to>>
  inDegree, queue, result,  \* the variables of dag.topoSort
  lineage    \* "collect", "sort", then "sorted", "cycle" or "overflow"

request == <<source, asked, needed>>
sortingVars == <<inDegree, queue, result>>
collectVars == <<askedLeft, calls, fields, links>>
lineageVars == <<request, collectVars, sortingVars, lineage>>

Vertices == {TableOf(f) : f \in fields}

\* dag.hasPath.
HasPath(from, to) ==
  \A S \in SUBSET Table :
    from \in S /\ (\A l \in links : l[1] \in S => l[2] \in S) => to \in S

-----------------------------------------------------------------------------
\* The fields that every closed set with the asked ones has.
ClosedFields(S) == asked \subseteq S /\ \A f \in S : source[f] \subseteq S
LeastClosed == {f \in Field : \A S \in SUBSET Field : ClosedFields(S) => f \in S}

LineageInit ==
  /\ source \in [Field -> SUBSET Field]
  /\ asked \in SUBSET Field
  /\ needed = LeastClosed
  /\ askedLeft = asked
  /\ calls = <<>> /\ fields = {} /\ links = {}
  /\ inDegree = [v \in {} |-> 0] /\ queue = {} /\ result = <<>>
  /\ lineage = "collect"

Frame(f) == [field |-> f, todo |-> source[f]]

\* The loop of RequiredFields calls collectRequiredFields for the next column.
NextAsked ==
  /\ lineage = "collect" /\ calls = <<>>
  /\ \E f \in askedLeft :
       /\ askedLeft' = askedLeft \ {f}
       /\ fields' = fields \cup {f}
       /\ calls' = <<Frame(f)>>
  /\ UNCHANGED <<request, links, sortingVars, lineage>>

\* Source columns come out of a Go map: any one may be next.
Following(s) ==
  /\ lineage = "collect" /\ calls # <<>>
  /\ s \in Head(calls).todo
  /\ fields' = fields \cup {s}
  /\ UNCHANGED <<request, askedLeft, sortingVars>>

Here == Head(calls).field

Rest(s) == <<[Head(calls) EXCEPT !.todo = @ \ {s}]>> \o Tail(calls)

\* Mutant: a column that stands for itself is followed like any other.
FollowSelfDeeper ==
  \E s \in Field :
    /\ Following(s) /\ s = Here
    /\ calls' = IF Len(calls) < MaxDepth THEN <<Frame(s)>> \o Rest(s) ELSE calls
    /\ lineage' = IF Len(calls) < MaxDepth THEN lineage ELSE "overflow"
    /\ UNCHANGED links

\* A column that stands for itself.
FollowSelf ==
  \E s \in Field :
    /\ Following(s) /\ s = Here
    /\ calls' = Rest(s)
    /\ UNCHANGED <<links, lineage>>

\* Mutant: a field already known is not followed again, nor linked.
FollowNewOnly ==
  \E s \in Field :
    /\ Following(s) /\ s # Here
    /\ Len(calls) < MaxDepth
    /\ IF s \in fields
         THEN calls' = Rest(s) /\ UNCHANGED links
         ELSE /\ links' = links \cup ({<<TableOf(s), TableOf(Here)>>} \ {<<t, t>> : t \in Table})
              /\ calls' = <<Frame(s)>> \o Rest(s)
    /\ UNCHANGED lineage

\* Mutant: the edge is added without the cycle guard.
FollowUnguarded ==
  \E s \in Field :
    /\ Following(s) /\ s # Here
    /\ Len(calls) < MaxDepth
    /\ links' = links \cup ({<<TableOf(s), TableOf(Here)>>} \ {<<t, t>> : t \in Table})
    /\ calls' = <<Frame(s)>> \o Rest(s)
    /\ UNCHANGED lineage

\* Mutant: the guard looks for a direct edge back instead of a path.
FollowDirectGuard ==
  \E s \in Field :
    /\ Following(s) /\ s # Here
    /\ Len(calls) < MaxDepth
    /\ \/ TableOf(s) = TableOf(Here) /\ UNCHANGED links
       \/ /\ TableOf(s) # TableOf(Here) /\ <<TableOf(Here), TableOf(s)>> \notin links
          /\ links' = links \cup {<<TableOf(s), TableOf(Here)>>}
    /\ calls' = <<Frame(s)>> \o Rest(s)
    /\ UNCHANGED lineage

\* A column of the same table is followed without an edge.
FollowWithin ==
  \E s \in Field :
    /\ Following(s) /\ s # Here /\ TableOf(s) = TableOf(Here)
    /\ Len(calls) < MaxDepth
    /\ calls' = <<Frame(s)>> \o Rest(s)
    /\ UNCHANGED <<links, lineage>>

FollowAcross ==
  \E s \in Field :
    /\ Following(s) /\ TableOf(s) # TableOf(Here)
    /\ ~HasPath(TableOf(Here), TableOf(s))
    /\ Len(calls) < MaxDepth
    /\ links' = links \cup {<<TableOf(s), TableOf(Here)>>}
    /\ calls' = <<Frame(s)>> \o Rest(s)
    /\ UNCHANGED lineage

\* addEdge refuses the edge, and RequiredFields returns its error.
FollowCycle ==
  \E s \in Field :
    /\ Following(s) /\ TableOf(s) # TableOf(Here)
    /\ HasPath(TableOf(Here), TableOf(s))
    /\ lineage' = "cycle"
    /\ UNCHANGED <<calls, links>>

\* The goroutine's stack is full, which ends the process.
Overflow ==
  \E s \in Field :
    /\ Following(s) /\ s # Here
    /\ TableOf(s) = TableOf(Here) \/ ~HasPath(TableOf(Here), TableOf(s))
    /\ Len(calls) >= MaxDepth
    /\ lineage' = "overflow"
    /\ UNCHANGED <<calls, links>>

Return ==
  /\ lineage = "collect" /\ calls # <<>> /\ Head(calls).todo = {}
  /\ calls' = Tail(calls)
  /\ UNCHANGED <<request, askedLeft, fields, links, sortingVars, lineage>>

-----------------------------------------------------------------------------
Into(v) == {u \in Table : <<u, v>> \in links}

BeginSort ==
  /\ lineage = "collect" /\ calls = <<>> /\ askedLeft = {}
  /\ lineage' = "sort"
  /\ inDegree' = [v \in Vertices |-> Cardinality(Into(v))]
  /\ queue' = {v \in Vertices : inDegree'[v] = 0}
  /\ UNCHANGED <<request, collectVars, result>>

\* Mutant: a table enters the queue with the first one before it.
TakeFirstEager ==
  /\ lineage = "sort"
  /\ \E v \in queue :
       /\ \A u \in queue : v <= u
       /\ result' = Append(result, v)
       /\ inDegree' = [u \in DOMAIN inDegree |->
                         IF <<v, u>> \in links THEN inDegree[u] - 1 ELSE inDegree[u]]
       /\ queue' = (queue \ {v}) \cup {u \in DOMAIN inDegree : <<v, u>> \in links}
  /\ UNCHANGED <<request, collectVars, lineage>>

\* The queue is sorted again after each turn: its head is the least name.
TakeFirst ==
  /\ lineage = "sort"
  /\ \E v \in queue :
       /\ \A u \in queue : v <= u
       /\ result' = Append(result, v)
       /\ inDegree' = [u \in DOMAIN inDegree |->
                         IF <<v, u>> \in links THEN inDegree[u] - 1 ELSE inDegree[u]]
       /\ queue' = (queue \ {v}) \cup {u \in DOMAIN inDegree : <<v, u>> \in links /\ inDegree'[u] = 0}
  /\ UNCHANGED <<request, collectVars, lineage>>

EndSort ==
  /\ lineage = "sort" /\ queue = {}
  /\ lineage' = IF Len(result) = Cardinality(Vertices) THEN "sorted" ELSE "cycle"
  /\ UNCHANGED <<request, collectVars, sortingVars>>

CollectStep ==
  NextAsked \/ FollowSelf \/ FollowWithin \/ FollowAcross \/ FollowCycle \/ Overflow \/ Return

LineageNext == CollectStep \/ BeginSort \/ TakeFirst \/ EndSort

\* One goroutine that waits for nothing.
LineageSpec == LineageInit /\ [][LineageNext]_lineageVars /\ WF_lineageVars(LineageNext)

-----------------------------------------------------------------------------
\* What a table needs of other tables.
TableNeeds ==
  [t \in Table |->
     {u \in Table \ {t} : \E f \in needed : TableOf(f) = t /\ \E s \in source[f] : TableOf(s) = u}]

Outcome ==
  CASE lineage = "sorted" -> "accepted" [] lineage = "cycle" -> "refused" [] OTHER -> "none"

Plan == INSTANCE CtePlan WITH
  Name <- Table, wanted <- {TableOf(f) : f \in asked}, requires <- TableNeeds,
  unusable <- {}, plan <- IF lineage = "cycle" THEN <<>> ELSE result, outcome <- Outcome

FrameType == [field : Field, todo : SUBSET Field]

LineageTypeOK ==
  /\ source \in [Field -> SUBSET Field]
  /\ asked \subseteq Field /\ askedLeft \subseteq asked
  /\ calls \in Seq(FrameType)
  /\ fields \subseteq Field
  /\ links \subseteq Vertices \X Vertices
  /\ lineage \in {"collect", "sort", "sorted", "cycle", "overflow"}
  /\ result \in Seq(Vertices)
  /\ lineage \in {"sort", "sorted"} =>
       inDegree \in [Vertices -> Nat] /\ queue \subseteq Vertices
  /\ lineage \notin {"sort", "sorted"} /\ result # <<>> => lineage = "cycle"

(***************************************************************************)
(* Nothing is collected that is not needed, and of a collected field each  *)
(* source is collected and linked, or its turn is still to come.           *)
(***************************************************************************)
Followed(s, f) ==
  s \in fields /\ (TableOf(s) = TableOf(f) \/ <<TableOf(s), TableOf(f)>> \in links)

Pending(s, f) == \E k \in DOMAIN calls : calls[k].field = f /\ s \in calls[k].todo

CollectedSound ==
  /\ needed = LeastClosed /\ fields \subseteq needed
  /\ \A l \in links : l[1] \in TableNeeds[l[2]]
  /\ \A k \in DOMAIN calls : calls[k].field \in fields /\ calls[k].todo \subseteq source[calls[k].field]

CollectedComplete ==
  lineage \in {"collect", "sort", "sorted"} =>
    /\ asked \subseteq askedLeft \cup fields
    /\ \A f \in fields : \A s \in source[f] : Followed(s, f) \/ Pending(s, f)
    /\ lineage # "collect" => calls = <<>> /\ askedLeft = {}

\* Tables each of which is linked from another one of them.
LinkedInCircle(S) == S # {} /\ \A v \in S : \E u \in S : <<u, v>> \in links

\* The cycle guard of addEdge, applied to one edge at a time, keeps the whole
\* graph acyclic, whatever the order of the edges.
LinksAcyclic == \A S \in SUBSET Table : ~LinkedInCircle(S)

Taken == {result[k] : k \in DOMAIN result}
Left == Vertices \ Taken

\* While topoSort runs, its counters say how many tables before it are left.
SortCounts ==
  lineage \in {"sort", "sorted"} =>
    /\ \A v \in Left : inDegree[v] = Cardinality(Into(v) \cap Left)
    /\ queue = {v \in Left : inDegree[v] = 0}
    /\ \A j, k \in DOMAIN result : result[j] = result[k] => j = k
    /\ \A k \in DOMAIN result : Into(result[k]) \subseteq {result[j] : j \in 1 .. k - 1}

LineageInv ==
  LineageTypeOK /\ CollectedSound /\ CollectedComplete /\ LinksAcyclic /\ SortCounts

\* In whatever order the maps are ranged over, the answer has the needed fields
\* and no others, and each table once, after the tables it is computed from.
RequiredFieldsExact ==
  lineage = "sorted" =>
    /\ fields = needed
    /\ Taken = Vertices /\ Len(result) = Cardinality(Vertices)
    /\ \A k \in DOMAIN result : TableNeeds[result[k]] \subseteq {result[j] : j \in 1 .. k - 1}

\* A cycle is reported exactly when needed tables need each other, and always
\* by the guard: the second cycle check, in topoSort, never fails.
CycleErrorExact ==
  /\ lineage = "cycle" => \E S \in SUBSET Plan!Needed : Plan!Circular(S)
  /\ lineage = "sorted" => \A S \in SUBSET Plan!Needed : ~Plan!Circular(S)
  /\ lineage = "sort" /\ queue = {} => Len(result) = Cardinality(Vertices)

\* Fields of one table that are computed from each other.
FieldCircle(S) ==
  /\ S # {} /\ \A f, g \in S : TableOf(f) = TableOf(g)
  /\ \A f \in S : (source[f] \ {f}) \cap S # {}

\* Only fields of one table that are computed from each other, and that are
\* needed, make the recursion endless: circles over tables end at the guard.
OverflowOnlyInFieldCircle ==
  lineage = "overflow" => \E S \in SUBSET needed : FieldCircle(S)
=============================================================================
