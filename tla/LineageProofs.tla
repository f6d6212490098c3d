---------------------------- MODULE LineageProofs ----------------------------
(***************************************************************************)
(* Rendering the macros of a manifest gives each column what its macros    *)
(* mean, and RequiredFields answers right for every lineage map, whatever  *)
(* the order the Go maps are ranged over in: proofs about Lineage, Macros  *)
(* and RenderedLineage.                                                    *)
(***************************************************************************)
EXTENDS RenderedLineage, CommonLemmas

-----------------------------------------------------------------------------
(* What the asked fields need.                                             *)

LEMMA FieldTable ==
  ASSUME NEW f \in Field
  PROVE  TableOf(f) \in Table
BY DEF Field, TableOf

\* The needed fields are closed under their sources ...
LEMMA NeededClosed ==
  ASSUME source \in [Field -> SUBSET Field], asked \subseteq Field
  PROVE  /\ LeastClosed \subseteq Field /\ asked \subseteq LeastClosed
         /\ \A f \in LeastClosed : source[f] \subseteq LeastClosed
<1>1. \A f \in LeastClosed : source[f] \subseteq Field
  BY DEF LeastClosed
<1>. QED  BY <1>1 DEF LeastClosed, ClosedFields

\* ... and are the least such set.
LEMMA NeededLeast ==
  ASSUME NEW S \in SUBSET Field, ClosedFields(S)
  PROVE  LeastClosed \subseteq S
BY DEF LeastClosed

\* They depend on the request only.
LEMMA RequestFixed ==
  ASSUME UNCHANGED request
  PROVE  /\ source' = source /\ asked' = asked /\ needed' = needed
         /\ LeastClosed' = LeastClosed /\ TableNeeds' = TableNeeds
         /\ Plan!Needed' = Plan!Needed
<1>1. source' = source /\ asked' = asked /\ needed' = needed
  BY DEF request
<1>2. LeastClosed' = LeastClosed
  BY <1>1 DEF LeastClosed, ClosedFields
<1>3. TableNeeds' = TableNeeds
  BY <1>1 DEF TableNeeds
<1>4. \A S : Plan!Closed(S)' <=> Plan!Closed(S)
  BY <1>1, <1>3 DEF Plan!Closed
<1>. QED  BY <1>1, <1>2, <1>3, <1>4 DEF Plan!Needed

LEMMA NeedsOf ==
  ASSUME NEW f \in needed, needed \subseteq Field, NEW s \in source[f], s \in Field,
         TableOf(s) # TableOf(f)
  PROVE  TableOf(s) \in TableNeeds[TableOf(f)]
BY FieldTable DEF TableNeeds

-----------------------------------------------------------------------------
(* The cycle guard.                                                        *)

AcyclicIn(L) == \A S \in SUBSET Table : ~(S # {} /\ \A v \in S : \E u \in S : <<u, v>> \in L)

PathIn(L, from, to) ==
  \A S \in SUBSET Table :
    from \in S /\ (\A l \in L : l[1] \in S => l[2] \in S) => to \in S

\* An edge that closes no path closes no circle.
LEMMA AddedEdge ==
  ASSUME NEW L, AcyclicIn(L), NEW a \in Table, NEW b \in Table, ~PathIn(L, a, b)
  PROVE  AcyclicIn(L \cup {<<b, a>>})
<1>. SUFFICES ASSUME NEW S \in SUBSET Table, S # {},
                     \A v \in S : \E u \in S : <<u, v>> \in L \cup {<<b, a>>}
              PROVE  FALSE
  BY DEF AcyclicIn
<1>1. PICK C \in SUBSET Table : a \in C /\ b \notin C /\ \A l \in L : l[1] \in C => l[2] \in C
  BY DEF PathIn
<1>2. \A u, v : <<u, v>> \in L /\ u \in C => v \in C
  <2>. SUFFICES ASSUME NEW u, NEW v, <<u, v>> \in L, u \in C  PROVE v \in C
    OBVIOUS
  <2>. DEFINE l == <<u, v>>
  <2>1. l \in L /\ l[1] = u /\ l[2] = v
    OBVIOUS
  <2>. HIDE DEF l
  <2>. QED  BY <1>1, <2>1
<1>3. CASE b \in S
  <2>1. ASSUME NEW v \in S \ C  PROVE \E u \in S \ C : <<u, v>> \in L
    <3>1. PICK u \in S : <<u, v>> \in L \cup {<<b, a>>}
      OBVIOUS
    <3>2. <<u, v>> \in L
      BY <1>1, <3>1
    <3>. QED  BY <1>2, <3>2
  <2>2. S \ C # {} /\ S \ C \in SUBSET Table
    BY <1>1, <1>3
  <2>. QED  BY <2>1, <2>2 DEF AcyclicIn
<1>4. CASE b \notin S
  <2>1. ASSUME NEW v \in S  PROVE \E u \in S : <<u, v>> \in L
    BY <1>4
  <2>. QED  BY <2>1 DEF AcyclicIn
<1>. QED  BY <1>3, <1>4

\* Everything on a path but its beginning is linked from another one of them.
LEMMA PathPredecessor ==
  ASSUME links \subseteq Table \X Table, NEW a \in Table, NEW v \in Table, HasPath(a, v), v # a
  PROVE  \E u \in Table : HasPath(a, u) /\ <<u, v>> \in links
<1>. DEFINE R == {u \in Table : HasPath(a, u)}
<1>1. a \in R /\ v \in R
  BY DEF HasPath
<1>2. \A l \in links : l[1] \in R => l[2] \in R
  BY DEF HasPath
<1>. SUFFICES ASSUME \A u \in R : <<u, v>> \notin links  PROVE FALSE
  OBVIOUS
<1>3. \A l \in links : l[1] \in R \ {v} => l[2] \in R \ {v}
  <2>. SUFFICES ASSUME NEW l \in links, l[1] \in R \ {v}  PROVE l[2] # v
    BY <1>2
  <2>1. l = <<l[1], l[2]>>
    OBVIOUS
  <2>. QED  BY <2>1
<1>4. a \in R \ {v} /\ R \ {v} \in SUBSET Table
  BY <1>1
<1>5. HasPath(a, v) => v \in R \ {v}
  BY <1>3, <1>4 DEF HasPath
<1>. QED  BY <1>5

-----------------------------------------------------------------------------
(* The collection.                                                         *)

LEMMA AcyclicLinks == LinksAcyclic <=> AcyclicIn(links)
BY DEF LinksAcyclic, LinkedInCircle, AcyclicIn

LEMMA PathLinks ==
  ASSUME NEW a, NEW b
  PROVE  HasPath(a, b) <=> PathIn(links, a, b)
BY DEF HasPath, PathIn

LEMMA VertexTable ==
  ASSUME fields \subseteq Field
  PROVE  Vertices \subseteq Table
BY FieldTable DEF Vertices

\* What the innermost call is doing while it follows s.
LEMMA TopCall ==
  ASSUME LineageInv, NEW s, Following(s)
  PROVE  /\ calls \in Seq(FrameType) /\ calls # <<>> /\ Head(calls) = calls[1]
         /\ Len(calls) \in Nat \ {0} /\ DOMAIN calls = 1 .. Len(calls)
         /\ calls[1] \in FrameType /\ Here = calls[1].field
         /\ Here \in fields /\ Here \in needed /\ Here \in Field
         /\ s \in calls[1].todo /\ s \in source[Here] /\ s \in Field /\ s \in needed
         /\ lineage = "collect" /\ fields' = fields \cup {s}
         /\ UNCHANGED <<request, askedLeft, sortingVars>>
<1>1. calls \in Seq(FrameType) /\ calls # <<>> /\ lineage = "collect"
  BY DEF LineageInv, LineageTypeOK, Following
<1>2. /\ Head(calls) = calls[1] /\ Len(calls) \in Nat \ {0} /\ DOMAIN calls = 1 .. Len(calls)
      /\ calls[1] \in FrameType
  BY <1>1
<1>3. Here = calls[1].field /\ s \in calls[1].todo
  BY <1>2 DEF Here, Following
<1>4. Here \in fields /\ s \in source[Here] /\ Here \in Field
  BY <1>2, <1>3 DEF LineageInv, LineageTypeOK, CollectedSound
<1>5. Here \in needed /\ s \in needed /\ s \in Field
  BY <1>4, NeededClosed DEF LineageInv, LineageTypeOK, CollectedSound
<1>. QED  BY <1>1, <1>2, <1>3, <1>4, <1>5 DEF Following

\* The innermost call after it has followed s.
LEMMA RestTop ==
  ASSUME LineageInv, NEW s, Following(s)
  PROVE  /\ Rest(s) \in Seq(FrameType)
         /\ Len(Rest(s)) = Len(calls) /\ DOMAIN Rest(s) = 1 .. Len(calls)
         /\ Rest(s)[1].field = calls[1].field /\ Rest(s)[1].todo = calls[1].todo \ {s}
         /\ \A k \in 2 .. Len(calls) : Rest(s)[k] = calls[k]
<1>. DEFINE b == [field |-> Here, todo |-> calls[1].todo \ {s}]
<1>1. b \in FrameType
  BY TopCall DEF FrameType
<1>2. [Head(calls) EXCEPT !.todo = @ \ {s}] = b
  <2>1. \A c \in FrameType :
          [c EXCEPT !.todo = @ \ {s}] = [field |-> c.field, todo |-> c.todo \ {s}]
    BY DEF FrameType
  <2>. QED  BY <2>1, TopCall
<1>3. Rest(s) = <<b>> \o Tail(calls)
  BY <1>2 DEF Rest
<1>. QED
  <2>1. b.field = calls[1].field /\ b.todo = calls[1].todo \ {s}
    BY TopCall
  <2>. HIDE DEF b
  <2>. QED  BY <1>1, <1>3, <2>1, TopCall, AdvanceStack

LEMMA FrameInType ==
  ASSUME source \in [Field -> SUBSET Field], NEW f \in Field
  PROVE  Frame(f) \in FrameType /\ Frame(f).field = f /\ Frame(f).todo = source[f]
BY DEF Frame, FrameType

\* The calls that are still to follow something, per way of going on.
Onward(s, deeper) ==
  /\ calls' \in Seq(FrameType)
  /\ \A k \in DOMAIN calls' : calls'[k].field \in fields'
                              /\ calls'[k].todo \subseteq source[calls'[k].field]
  /\ \A t, f : Pending(t, f) /\ ~(t = s /\ f = Here) => Pending(t, f)'
  /\ deeper => \A t \in source[s] : Pending(t, s)'

LEMMA StayOnward ==
  ASSUME LineageInv, NEW s, Following(s), calls' = Rest(s)
  PROVE  Onward(s, FALSE)
<1>1. /\ calls' \in Seq(FrameType) /\ DOMAIN calls' = 1 .. Len(calls)
      /\ calls'[1].field = calls[1].field /\ calls'[1].todo = calls[1].todo \ {s}
      /\ \A k \in 2 .. Len(calls) : calls'[k] = calls[k]
  BY RestTop, TopCall
<1>2. \A k \in 1 .. Len(calls) : k = 1 \/ k \in 2 .. Len(calls)
  BY TopCall
<1>3. \A k \in DOMAIN calls' : calls'[k].field \in fields'
                               /\ calls'[k].todo \subseteq source[calls'[k].field]
  BY <1>1, <1>2, TopCall DEF LineageInv, CollectedSound
<1>4. ASSUME NEW t, NEW f, Pending(t, f), ~(t = s /\ f = Here)  PROVE Pending(t, f)'
  <2>1. PICK k \in 1 .. Len(calls) : calls[k].field = f /\ t \in calls[k].todo
    BY <1>4, TopCall DEF Pending
  <2>2. calls'[k].field = f /\ t \in calls'[k].todo
    BY <1>1, <1>2, <1>4, <2>1, TopCall
  <2>. QED  BY <1>1, <2>2 DEF Pending
<1>. QED  BY <1>1, <1>3, <1>4 DEF Onward

LEMMA DeeperOnward ==
  ASSUME LineageInv, NEW s, Following(s), calls' = <<Frame(s)>> \o Rest(s)
  PROVE  Onward(s, TRUE) /\ Len(calls') = Len(calls) + 1
<1>1. /\ Rest(s) \in Seq(FrameType) /\ Len(Rest(s)) = Len(calls)
      /\ Rest(s)[1].field = calls[1].field /\ Rest(s)[1].todo = calls[1].todo \ {s}
      /\ \A k \in 2 .. Len(calls) : Rest(s)[k] = calls[k]
  BY RestTop, TopCall
<1>2. \A k \in 1 .. Len(calls) : k = 1 \/ k \in 2 .. Len(calls)
  BY TopCall
<1>3. Frame(s) \in FrameType /\ Frame(s).field = s /\ Frame(s).todo = source[s]
  BY TopCall, FrameInType DEF LineageInv, LineageTypeOK
<1>4. /\ calls' \in Seq(FrameType) /\ DOMAIN calls' = 1 .. Len(calls) + 1
      /\ Len(calls') = Len(calls) + 1
      /\ calls'[1] = Frame(s)
      /\ \A k \in 1 .. Len(calls) : calls'[k + 1] = Rest(s)[k]
  BY <1>1, <1>3, PushStack
<1>5. \A k \in DOMAIN calls' : k = 1 \/ (k - 1 \in 1 .. Len(calls) /\ (k - 1) + 1 = k)
  BY <1>4, TopCall
<1>6. \A k \in 1 .. Len(calls) : /\ calls'[k + 1].field = calls[k].field
                                /\ calls'[k + 1].todo \subseteq calls[k].todo
  BY <1>1, <1>2, <1>4
<1>7. ASSUME NEW k \in DOMAIN calls'
      PROVE  calls'[k].field \in fields' /\ calls'[k].todo \subseteq source[calls'[k].field]
  <2>1. CASE k = 1
    BY <1>3, <1>4, <2>1, TopCall
  <2>2. CASE k - 1 \in 1 .. Len(calls) /\ (k - 1) + 1 = k
    BY <1>6, <2>2, TopCall DEF LineageInv, CollectedSound
  <2>. QED  BY <1>5, <2>1, <2>2
<1>8. ASSUME NEW t, NEW f, Pending(t, f), ~(t = s /\ f = Here)  PROVE Pending(t, f)'
  <2>1. PICK k \in 1 .. Len(calls) : calls[k].field = f /\ t \in calls[k].todo
    BY <1>8, TopCall DEF Pending
  <2>2. calls'[k + 1].field = f /\ t \in calls'[k + 1].todo
    BY <1>1, <1>2, <1>4, <1>8, <2>1, TopCall
  <2>3. k + 1 \in DOMAIN calls'
    BY <1>4, <2>1, TopCall
  <2>. QED  BY <2>2, <2>3 DEF Pending
<1>9. ASSUME NEW t \in source[s]  PROVE Pending(t, s)'
  <2>1. 1 \in DOMAIN calls'
    BY <1>4, TopCall
  <2>. QED  BY <1>3, <1>4, <2>1 DEF Pending
<1>. QED  BY <1>4, <1>7, <1>8, <1>9 DEF Onward

\* A field is followed, with an edge or without.
LEMMA FollowInv ==
  ASSUME LineageInv, NEW s, Following(s), Onward(s, s # Here), lineage' = lineage,
         \/ TableOf(s) = TableOf(Here) /\ links' = links
         \/ /\ TableOf(s) # TableOf(Here)
            /\ ~HasPath(TableOf(Here), TableOf(s))
            /\ links' = links \cup {<<TableOf(s), TableOf(Here)>>}
  PROVE  LineageInv'
<1>1. /\ UNCHANGED <<source, asked, needed, askedLeft, inDegree, queue, result>>
      /\ lineage = "collect" /\ lineage' = "collect"
      /\ fields' = fields \cup {s} /\ fields' \subseteq Field /\ fields' \subseteq needed
  BY TopCall DEF request, sortingVars, LineageInv, LineageTypeOK, CollectedSound
<1>2. LeastClosed' = LeastClosed /\ TableNeeds' = TableNeeds
  BY TopCall, RequestFixed
<1>3. Vertices \subseteq Vertices' /\ TableOf(s) \in Vertices' /\ TableOf(Here) \in Vertices'
  BY <1>1, TopCall DEF Vertices
<1>4. links' \subseteq links \cup {<<TableOf(s), TableOf(Here)>>} /\ links \subseteq links'
  OBVIOUS
<1>5. result = <<>>
  BY <1>1 DEF LineageInv, LineageTypeOK
<1>6. LineageTypeOK'
  <2>1. links' \subseteq Vertices' \X Vertices'
    <3>1. links \subseteq Vertices \X Vertices
      BY DEF LineageInv, LineageTypeOK
    <3>. QED  BY <1>3, <1>4, <3>1
  <2>. QED  BY <1>1, <1>5, <2>1 DEF LineageInv, LineageTypeOK, Onward
<1>7. CollectedSound'
  <2>1. \A l \in links' : l[1] \in TableNeeds[l[2]]
    <3>1. \A l \in links : l[1] \in TableNeeds[l[2]]
      BY DEF LineageInv, CollectedSound
    <3>2. TableOf(s) # TableOf(Here) => TableOf(s) \in TableNeeds[TableOf(Here)]
      <4>1. needed \subseteq Field
        BY NeededClosed DEF LineageInv, LineageTypeOK, CollectedSound
      <4>. QED  BY <4>1, TopCall, NeedsOf
    <3>. QED  BY <3>1, <3>2
  <2>. QED  BY <1>1, <1>2, <2>1 DEF LineageInv, CollectedSound, Onward
<1>8. CollectedComplete'
  <2>1. \A f : f = Here => Followed(s, f)'
    BY <1>1 DEF Followed
  <2>2. \A t, f : Followed(t, f) => Followed(t, f)'
    BY <1>1, <1>4 DEF Followed
  <2>3. ASSUME NEW f \in fields', NEW t \in source[f]  PROVE Followed(t, f)' \/ Pending(t, f)'
    <3>1. CASE f \in fields
      <4>1. Followed(t, f) \/ Pending(t, f)
        BY <1>1, <3>1 DEF LineageInv, CollectedComplete
      <4>. QED  BY <2>1, <2>2, <4>1 DEF Onward
    <3>2. CASE f \notin fields
      <4>1. f = s /\ s # Here
        BY <1>1, <3>2, TopCall
      <4>. QED  BY <4>1 DEF Onward
    <3>. QED  BY <3>1, <3>2
  <2>. QED  BY <1>1, <2>3 DEF LineageInv, CollectedComplete
<1>9. LinksAcyclic'
  <2>1. AcyclicIn(links) /\ TableOf(s) \in Table /\ TableOf(Here) \in Table
    BY TopCall, FieldTable, AcyclicLinks DEF LineageInv
  <2>2. AcyclicIn(links')
    <3>1. CASE links' = links
      BY <2>1, <3>1
    <3>2. CASE /\ ~HasPath(TableOf(Here), TableOf(s))
               /\ links' = links \cup {<<TableOf(s), TableOf(Here)>>}
      BY <2>1, <3>2, PathLinks, AddedEdge
    <3>. QED  BY <3>1, <3>2
  <2>. QED  BY <2>2 DEF AcyclicIn, LinksAcyclic, LinkedInCircle
<1>10. SortCounts'
  BY <1>1 DEF SortCounts
<1>. QED  BY <1>6, <1>7, <1>8, <1>9, <1>10 DEF LineageInv

LEMMA FollowSteps ==
  ASSUME LineageInv, FollowSelf \/ FollowWithin \/ FollowAcross
  PROVE  LineageInv'
<1>1. CASE FollowSelf
  <2>1. PICK s \in Field : Following(s) /\ s = Here /\ calls' = Rest(s) /\ UNCHANGED <<links, lineage>>
    BY <1>1 DEF FollowSelf
  <2>2. Onward(s, s # Here)
    BY <2>1, StayOnward DEF Onward
  <2>. QED  BY <2>1, <2>2, FollowInv
<1>2. CASE FollowWithin
  <2>1. PICK s \in Field : /\ Following(s) /\ s # Here /\ TableOf(s) = TableOf(Here)
                           /\ calls' = <<Frame(s)>> \o Rest(s) /\ UNCHANGED <<links, lineage>>
    BY <1>2 DEF FollowWithin
  <2>2. Onward(s, s # Here)
    BY <2>1, DeeperOnward DEF Onward
  <2>. QED  BY <2>1, <2>2, FollowInv
<1>3. CASE FollowAcross
  <2>1. PICK s \in Field : /\ Following(s) /\ TableOf(s) # TableOf(Here)
                           /\ ~HasPath(TableOf(Here), TableOf(s))
                           /\ links' = links \cup {<<TableOf(s), TableOf(Here)>>}
                           /\ calls' = <<Frame(s)>> \o Rest(s) /\ UNCHANGED lineage
    BY <1>3 DEF FollowAcross
  <2>2. Onward(s, s # Here)
    BY <2>1, DeeperOnward DEF Onward
  <2>. QED  BY <2>1, <2>2, FollowInv
<1>. QED  BY <1>1, <1>2, <1>3

LEMMA NextAskedInv ==
  ASSUME LineageInv, NextAsked
  PROVE  LineageInv'
<1>1. PICK f \in askedLeft : /\ askedLeft' = askedLeft \ {f} /\ fields' = fields \cup {f}
                             /\ calls' = <<Frame(f)>>
  BY DEF NextAsked
<1>2. /\ lineage = "collect" /\ lineage' = "collect" /\ calls = <<>>
      /\ UNCHANGED <<request, links, sortingVars>>
  BY DEF NextAsked
<1>3. /\ UNCHANGED <<source, asked, needed, inDegree, queue, result>>
      /\ LeastClosed' = LeastClosed /\ TableNeeds' = TableNeeds
  BY <1>2, RequestFixed DEF sortingVars
<1>4. f \in Field /\ f \in needed
  BY NeededClosed DEF LineageInv, LineageTypeOK, CollectedSound
<1>5. Frame(f) \in FrameType /\ Frame(f).field = f /\ Frame(f).todo = source[f]
  BY <1>4, FrameInType DEF LineageInv, LineageTypeOK
<1>6. calls' \in Seq(FrameType) /\ DOMAIN calls' = {1} /\ calls'[1] = Frame(f)
  BY <1>1, <1>5
<1>7. LineageTypeOK'
  <2>1. Vertices \subseteq Vertices'
    BY <1>1 DEF Vertices
  <2>2. links' \subseteq Vertices' \X Vertices' /\ result = <<>>
    BY <1>2, <2>1 DEF LineageInv, LineageTypeOK
  <2>. QED  BY <1>1, <1>2, <1>3, <1>4, <1>6, <2>2 DEF LineageInv, LineageTypeOK
<1>8. CollectedSound'
  BY <1>1, <1>2, <1>3, <1>4, <1>5, <1>6 DEF LineageInv, CollectedSound
<1>9. CollectedComplete'
  <2>1. ASSUME NEW g \in fields', NEW t \in source[g]  PROVE Followed(t, g)' \/ Pending(t, g)'
    <3>1. CASE g \in fields
      <4>1. Followed(t, g)
        BY <1>2, <3>1 DEF LineageInv, CollectedComplete, Pending
      <4>. QED  BY <1>1, <1>2, <4>1 DEF Followed
    <3>2. CASE g = f
      BY <1>5, <1>6, <3>2 DEF Pending
    <3>. QED  BY <1>1, <3>1, <3>2
  <2>. QED  BY <1>1, <1>2, <1>3, <2>1 DEF LineageInv, CollectedComplete
<1>10. LinksAcyclic' /\ SortCounts'
  BY <1>2 DEF LineageInv, LinksAcyclic, LinkedInCircle, SortCounts
<1>. QED  BY <1>7, <1>8, <1>9, <1>10 DEF LineageInv

\* The two steps that end the call without an answer.
LEMMA GiveUpInv ==
  ASSUME LineageInv, FollowCycle \/ Overflow
  PROVE  LineageInv'
<1>1. PICK s \in Field : /\ Following(s) /\ lineage' \in {"cycle", "overflow"}
                         /\ UNCHANGED <<calls, links>>
  BY DEF FollowCycle, Overflow
<1>2. /\ lineage = "collect" /\ fields' = fields \cup {s} /\ s \in needed /\ s \in Field
      /\ UNCHANGED <<source, asked, needed, askedLeft, inDegree, queue, result>>
      /\ LeastClosed' = LeastClosed /\ TableNeeds' = TableNeeds
  BY <1>1, TopCall, RequestFixed DEF sortingVars
<1>3. LineageTypeOK'
  <2>1. Vertices \subseteq Vertices'
    BY <1>2 DEF Vertices
  <2>2. links' \subseteq Vertices' \X Vertices' /\ result = <<>>
    BY <1>1, <1>2, <2>1 DEF LineageInv, LineageTypeOK
  <2>. QED  BY <1>1, <1>2, <2>2 DEF LineageInv, LineageTypeOK
<1>4. CollectedSound'
  BY <1>1, <1>2 DEF LineageInv, CollectedSound
<1>5. CollectedComplete' /\ SortCounts'
  BY <1>1 DEF CollectedComplete, SortCounts
<1>6. LinksAcyclic'
  BY <1>1 DEF LineageInv, LinksAcyclic, LinkedInCircle
<1>. QED  BY <1>3, <1>4, <1>5, <1>6 DEF LineageInv

LEMMA ReturnInv ==
  ASSUME LineageInv, Return
  PROVE  LineageInv'
<1>1. /\ lineage = "collect" /\ calls # <<>> /\ Head(calls).todo = {} /\ calls' = Tail(calls)
      /\ UNCHANGED <<source, asked, needed, askedLeft, fields, links, inDegree, queue, result, lineage>>
      /\ LeastClosed' = LeastClosed /\ TableNeeds' = TableNeeds
  BY RequestFixed DEF Return, sortingVars
<1>2. calls \in Seq(FrameType)
  BY DEF LineageInv, LineageTypeOK
<1>3. /\ calls' \in Seq(FrameType) /\ Len(calls) \in Nat \ {0} /\ DOMAIN calls = 1 .. Len(calls)
      /\ DOMAIN calls' = 1 .. Len(calls) - 1 /\ calls[1].todo = {}
      /\ \A k \in 1 .. Len(calls) - 1 : calls'[k] = calls[k + 1]
  BY <1>1, <1>2
<1>4. LineageTypeOK'
  BY <1>1, <1>3 DEF LineageInv, LineageTypeOK, Vertices
<1>5. CollectedSound'
  <2>1. ASSUME NEW k \in DOMAIN calls'
        PROVE  calls'[k].field \in fields /\ calls'[k].todo \subseteq source[calls'[k].field]
    <3>1. calls'[k] = calls[k + 1] /\ k + 1 \in DOMAIN calls
      BY <1>3
    <3>. QED  BY <3>1 DEF LineageInv, CollectedSound
  <2>. QED  BY <1>1, <2>1 DEF LineageInv, CollectedSound
<1>6. CollectedComplete'
  <2>1. ASSUME NEW t, NEW f, Pending(t, f)  PROVE Pending(t, f)'
    <3>1. PICK k \in 1 .. Len(calls) : calls[k].field = f /\ t \in calls[k].todo
      BY <1>3, <2>1 DEF Pending
    <3>2. k # 1
      BY <1>3, <3>1
    <3>3. k - 1 \in DOMAIN calls' /\ calls'[k - 1] = calls[k]
      BY <1>3, <3>1, <3>2
    <3>. QED  BY <3>1, <3>3 DEF Pending
  <2>2. \A t, f : Followed(t, f)' <=> Followed(t, f)
    BY <1>1 DEF Followed
  <2>. QED  BY <1>1, <2>1, <2>2 DEF LineageInv, CollectedComplete
<1>7. LinksAcyclic' /\ SortCounts'
  BY <1>1 DEF LineageInv, LinksAcyclic, LinkedInCircle, SortCounts
<1>. QED  BY <1>4, <1>5, <1>6, <1>7 DEF LineageInv

-----------------------------------------------------------------------------
(* The order of the tables.                                                *)

LEMMA SortFinite ==
  ASSUME LineageInv
  PROVE  /\ IsFiniteSet(Vertices) /\ Vertices \subseteq Table
         /\ \A v : Into(v) \subseteq Vertices
         /\ \A v, S : IsFiniteSet(Into(v) \cap S) /\ Cardinality(Into(v) \cap S) \in Nat
<1>1. Vertices \subseteq Table /\ IsFiniteSet(Vertices)
  BY VertexTable, LineageAssumption, FS_Subset DEF LineageInv, LineageTypeOK
<1>2. \A v : Into(v) \subseteq Vertices
  BY DEF Into, LineageInv, LineageTypeOK
<1>3. \A v, S : IsFiniteSet(Into(v) \cap S) /\ Cardinality(Into(v) \cap S) \in Nat
  <2>. SUFFICES ASSUME NEW v, NEW S
                PROVE  IsFiniteSet(Into(v) \cap S) /\ Cardinality(Into(v) \cap S) \in Nat
    OBVIOUS
  <2>1. Into(v) \cap S \in SUBSET Vertices
    BY <1>2
  <2>. QED  BY <1>1, <2>1, FS_Subset, FS_CardinalityType
<1>. QED  BY <1>1, <1>2, <1>3

LEMMA BeginSortInv ==
  ASSUME LineageInv, BeginSort
  PROVE  LineageInv'
<1>1. /\ lineage = "collect" /\ lineage' = "sort" /\ calls = <<>> /\ askedLeft = {}
      /\ inDegree' = [v \in Vertices |-> Cardinality(Into(v))]
      /\ queue' = {v \in Vertices : inDegree'[v] = 0}
      /\ UNCHANGED <<source, asked, needed, askedLeft, calls, fields, links, result>>
      /\ LeastClosed' = LeastClosed /\ TableNeeds' = TableNeeds
  BY RequestFixed DEF BeginSort, collectVars
<1>2. result = <<>> /\ Left' = Vertices /\ Vertices' = Vertices
  BY <1>1 DEF LineageInv, LineageTypeOK, Left, Taken, Vertices
<1>3. \A v \in Vertices : Into(v) \cap Vertices = Into(v) /\ Into(v)' = Into(v)
  BY <1>1, SortFinite DEF Into
<1>4. \A v \in Vertices : Cardinality(Into(v)) \in Nat
  BY <1>3, SortFinite
<1>5. LineageTypeOK'
  BY <1>1, <1>2, <1>4 DEF LineageInv, LineageTypeOK
<1>6. CollectedSound' /\ LinksAcyclic'
  BY <1>1 DEF LineageInv, CollectedSound, LinksAcyclic, LinkedInCircle
<1>7. CollectedComplete'
  BY <1>1 DEF LineageInv, CollectedComplete, Followed, Pending
<1>8. SortCounts'
  BY <1>1, <1>2, <1>3 DEF SortCounts
<1>. QED  BY <1>5, <1>6, <1>7, <1>8 DEF LineageInv

LEMMA TakeFirstInv ==
  ASSUME LineageInv, TakeFirst
  PROVE  LineageInv'
<1>1. PICK v \in queue :
        /\ result' = Append(result, v)
        /\ inDegree' = [u \in DOMAIN inDegree |->
                          IF <<v, u>> \in links THEN inDegree[u] - 1 ELSE inDegree[u]]
        /\ queue' = (queue \ {v}) \cup {u \in DOMAIN inDegree : <<v, u>> \in links /\ inDegree'[u] = 0}
  BY DEF TakeFirst
<1>2. /\ lineage = "sort" /\ lineage' = "sort"
      /\ UNCHANGED <<source, asked, needed, askedLeft, calls, fields, links>>
      /\ LeastClosed' = LeastClosed /\ TableNeeds' = TableNeeds
  BY RequestFixed DEF TakeFirst, collectVars
<1>3. /\ inDegree \in [Vertices -> Nat] /\ queue \subseteq Vertices /\ result \in Seq(Vertices)
      /\ Vertices' = Vertices /\ \A u : Into(u)' = Into(u)
  BY <1>2 DEF LineageInv, LineageTypeOK, Vertices, Into
<1>4. /\ \A u \in Left : inDegree[u] = Cardinality(Into(u) \cap Left)
      /\ queue = {u \in Left : inDegree[u] = 0}
      /\ \A j, k \in DOMAIN result : result[j] = result[k] => j = k
      /\ \A k \in DOMAIN result : Into(result[k]) \subseteq {result[j] : j \in 1 .. k - 1}
  BY <1>2 DEF LineageInv, SortCounts
<1>5. /\ Len(result) \in Nat /\ DOMAIN result = 1 .. Len(result)
      /\ Len(result') = Len(result) + 1 /\ DOMAIN result' = 1 .. Len(result) + 1
      /\ \A k \in 1 .. Len(result) : result'[k] = result[k]
      /\ result'[Len(result) + 1] = v /\ v \in Vertices /\ result' \in Seq(Vertices)
  BY <1>1, <1>3
<1>6. v \in Left /\ v \notin Taken /\ Taken' = Taken \cup {v} /\ Left' = Left \ {v}
  <2>1. v \in Left /\ v \notin Taken
    BY <1>4 DEF Left
  <2>2. Taken' = Taken \cup {v}
    BY <1>5 DEF Taken
  <2>. QED  BY <1>3, <2>1, <2>2 DEF Left
<1>7. Into(v) \cap Left = {}
  <2>1. Cardinality(Into(v) \cap Left) = 0
    BY <1>4
  <2>. QED  BY <2>1, SortFinite, FS_EmptySet
<1>8. \A u \in Vertices : <<v, u>> \in links => u \in Left /\ v \in Into(u)
  <2>. SUFFICES ASSUME NEW u \in Vertices, <<v, u>> \in links  PROVE u \in Left /\ v \in Into(u)
    OBVIOUS
  <2>1. v \in Into(u)
    BY <1>5, SortFinite DEF Into
  <2>2. \A k \in DOMAIN result : result[k] # u
    BY <1>4, <1>5, <1>6, <2>1 DEF Taken
  <2>. QED  BY <2>1, <2>2 DEF Left, Taken
<1>9. \A u \in Left : v \in Into(u) => <<v, u>> \in links
  BY DEF Into
<1>10. ASSUME NEW u \in Left \ {v}  PROVE inDegree'[u] = Cardinality(Into(u) \cap Left')
  <2>1. u \in Vertices /\ DOMAIN inDegree = Vertices
    BY <1>3 DEF Left
  <2>2. CASE <<v, u>> \in links
    <3>1. v \in Into(u) \cap Left /\ Into(u) \cap Left' = (Into(u) \cap Left) \ {v}
      BY <1>6, <1>8, <2>1, <2>2
    <3>2. Cardinality(Into(u) \cap Left') = Cardinality(Into(u) \cap Left) - 1
      <4>1. IsFiniteSet(Into(u) \cap Left)
        BY SortFinite
      <4>. QED  BY <3>1, <4>1, FS_RemoveElement
    <3>. QED  BY <1>1, <1>4, <2>1, <2>2, <3>2
  <2>3. CASE <<v, u>> \notin links
    <3>1. Into(u) \cap Left' = Into(u) \cap Left
      BY <1>6, <1>9, <2>3
    <3>. QED  BY <1>1, <1>4, <2>1, <2>3, <3>1
  <2>. QED  BY <2>2, <2>3
<1>11. inDegree' \in [Vertices -> Nat]
  <2>1. ASSUME NEW u \in Vertices  PROVE inDegree'[u] \in Nat
    <3>1. CASE u \in Left \ {v}
      BY <1>10, <3>1, SortFinite
    <3>2. CASE u \notin Left \ {v}
      <4>1. <<v, u>> \notin links
        <5>1. u = v => v \notin Into(v)
          BY <1>6, <1>7
        <5>. QED  BY <1>8, <3>2, <5>1
      <4>. QED  BY <1>1, <1>3, <4>1
    <3>. QED  BY <3>1, <3>2
  <2>. QED  BY <1>1, <1>3, <2>1
<1>12. queue' = {u \in Left' : inDegree'[u] = 0}
  <2>1. ASSUME NEW u  PROVE u \in queue' <=> u \in Left' /\ inDegree'[u] = 0
    <3>1. CASE u \in Left'
      <4>1. u \in Left /\ u # v /\ u \in Vertices
        BY <1>6, <3>1 DEF Left
      <4>2. CASE <<v, u>> \in links
        <5>1. inDegree[u] # 0
          <6>1. Into(u) \cap Left # {}
            BY <1>6, <1>8, <4>1, <4>2
          <6>. QED  BY <1>4, <4>1, <6>1, SortFinite, FS_EmptySet
        <5>. QED  BY <1>1, <1>3, <1>4, <3>1, <4>1, <4>2, <5>1
      <4>3. CASE <<v, u>> \notin links
        <5>1. inDegree'[u] = inDegree[u]
          BY <1>1, <1>3, <4>1, <4>3
        <5>. QED  BY <1>1, <1>4, <3>1, <4>1, <4>3, <5>1
      <4>. QED  BY <4>2, <4>3
    <3>2. CASE u \notin Left'
      <4>1. u \notin queue \ {v}
        BY <1>4, <1>6, <3>2
      <4>2. ~(u \in DOMAIN inDegree /\ <<v, u>> \in links)
        <5>1. u = v => v \notin Into(v)
          BY <1>6, <1>7
        <5>. QED  BY <1>3, <1>6, <1>8, <3>2, <5>1
      <4>. QED  BY <1>1, <3>2, <4>1, <4>2
    <3>. QED  BY <3>1, <3>2
  <2>. QED  BY <2>1
<1>13. \A j, k \in DOMAIN result' : result'[j] = result'[k] => j = k
  <2>. SUFFICES ASSUME NEW j \in 1 .. Len(result) + 1, NEW k \in 1 .. Len(result) + 1,
                       result'[j] = result'[k]
                PROVE  j = k
    BY <1>5
  <2>1. \A m \in 1 .. Len(result) : result[m] # v
    BY <1>5, <1>6 DEF Taken
  <2>. QED  BY <1>4, <1>5, <2>1
<1>14. ASSUME NEW k \in DOMAIN result'
       PROVE  Into(result'[k]) \subseteq {result'[j] : j \in 1 .. k - 1}
  <2>1. CASE k = Len(result) + 1
    <3>1. Into(v) \subseteq Taken
      BY <1>7, SortFinite DEF Left
    <3>. QED  BY <1>5, <2>1, <3>1 DEF Taken
  <2>2. CASE k \in 1 .. Len(result)
    <3>1. {result[j] : j \in 1 .. k - 1} = {result'[j] : j \in 1 .. k - 1}
      BY <1>5, <2>2
    <3>. QED  BY <1>4, <1>5, <2>2, <3>1
  <2>. QED  BY <1>5, <2>1, <2>2
<1>15. LineageTypeOK'
  <2>1. queue' \subseteq Vertices
    BY <1>3, <1>12 DEF Left
  <2>. QED  BY <1>2, <1>3, <1>5, <1>11, <2>1 DEF LineageInv, LineageTypeOK
<1>16. CollectedSound' /\ LinksAcyclic'
  BY <1>2 DEF LineageInv, CollectedSound, LinksAcyclic, LinkedInCircle
<1>17. CollectedComplete'
  BY <1>2 DEF LineageInv, CollectedComplete, Followed, Pending
<1>18. SortCounts'
  BY <1>2, <1>3, <1>6, <1>10, <1>12, <1>13, <1>14 DEF SortCounts
<1>. QED  BY <1>15, <1>16, <1>17, <1>18 DEF LineageInv

\* When no table is ready all of them are in the order, as no circle of links
\* can be left.
LEMMA NoneLeft ==
  ASSUME LineageInv, lineage = "sort", queue = {}
  PROVE  Left = {} /\ Taken = Vertices /\ Len(result) = Cardinality(Vertices)
<1>1. /\ \A u \in Left : inDegree[u] = Cardinality(Into(u) \cap Left)
      /\ queue = {u \in Left : inDegree[u] = 0}
      /\ \A j, k \in DOMAIN result : result[j] = result[k] => j = k
      /\ result \in Seq(Vertices)
  BY DEF LineageInv, LineageTypeOK, SortCounts
<1>2. \A v \in Left : \E u \in Left : <<u, v>> \in links
  <2>. SUFFICES ASSUME NEW v \in Left  PROVE Into(v) \cap Left # {}
    BY DEF Into
  <2>1. Cardinality(Into(v) \cap Left) # 0
    BY <1>1
  <2>. QED  BY <2>1, FS_EmptySet
<1>3. Left \in SUBSET Table
  BY SortFinite DEF Left
<1>4. Left = {}
  BY <1>2, <1>3 DEF LineageInv, LinksAcyclic, LinkedInCircle
<1>5. Taken \subseteq Vertices
  BY <1>1 DEF Taken
<1>6. Taken = Vertices
  BY <1>4, <1>5 DEF Left
<1>7. Cardinality(Taken) = Len(result)
  BY <1>1, DistinctElements DEF Taken
<1>. QED  BY <1>4, <1>6, <1>7

LEMMA EndSortInv ==
  ASSUME LineageInv, EndSort
  PROVE  LineageInv' /\ lineage' = "sorted"
<1>1. /\ lineage = "sort" /\ queue = {} /\ lineage' = "sorted"
      /\ UNCHANGED <<source, asked, needed, askedLeft, calls, fields, links, inDegree, queue, result>>
      /\ LeastClosed' = LeastClosed /\ TableNeeds' = TableNeeds
  BY NoneLeft, RequestFixed DEF EndSort, collectVars, sortingVars
<1>2. Vertices' = Vertices /\ Left' = Left /\ \A u : Into(u)' = Into(u)
  BY <1>1 DEF Vertices, Left, Taken, Into
<1>3. LineageTypeOK'
  BY <1>1, <1>2 DEF LineageInv, LineageTypeOK
<1>4. CollectedSound' /\ LinksAcyclic'
  BY <1>1 DEF LineageInv, CollectedSound, LinksAcyclic, LinkedInCircle
<1>5. CollectedComplete'
  BY <1>1 DEF LineageInv, CollectedComplete, Followed, Pending
<1>6. SortCounts'
  BY <1>1, <1>2 DEF LineageInv, SortCounts
<1>. QED  BY <1>1, <1>3, <1>4, <1>5, <1>6 DEF LineageInv

LEMMA LineageStutterInv ==
  ASSUME LineageInv, UNCHANGED lineageVars
  PROVE  LineageInv'
<1>1. /\ UNCHANGED <<source, asked, needed, askedLeft, calls, fields, links, inDegree, queue, result, lineage>>
      /\ LeastClosed' = LeastClosed /\ TableNeeds' = TableNeeds
  BY RequestFixed DEF lineageVars, collectVars, sortingVars
<1>2. Vertices' = Vertices /\ Left' = Left /\ \A u : Into(u)' = Into(u)
  BY <1>1 DEF Vertices, Left, Taken, Into
<1>3. LineageTypeOK'
  BY <1>1, <1>2 DEF LineageInv, LineageTypeOK
<1>4. CollectedSound' /\ LinksAcyclic'
  BY <1>1 DEF LineageInv, CollectedSound, LinksAcyclic, LinkedInCircle
<1>5. CollectedComplete'
  BY <1>1 DEF LineageInv, CollectedComplete, Followed, Pending
<1>6. SortCounts'
  BY <1>1, <1>2 DEF LineageInv, SortCounts
<1>. QED  BY <1>3, <1>4, <1>5, <1>6 DEF LineageInv

LEMMA LineageInitInv == LineageInit => LineageInv
<1>. SUFFICES ASSUME LineageInit  PROVE LineageInv
  OBVIOUS
<1>1. LineageTypeOK /\ CollectedSound /\ CollectedComplete /\ SortCounts
  BY DEF LineageInit, LineageTypeOK, CollectedSound, CollectedComplete, SortCounts
<1>2. LinksAcyclic
  BY DEF LineageInit, LinksAcyclic, LinkedInCircle
<1>. QED  BY <1>1, <1>2 DEF LineageInv

LEMMA LineageStepInv ==
  ASSUME LineageInv, [LineageNext]_lineageVars
  PROVE  LineageInv'
BY FollowSteps, NextAskedInv, GiveUpInv, ReturnInv, BeginSortInv, TakeFirstInv, EndSortInv,
   LineageStutterInv DEF LineageNext, CollectStep

\* Types, soundness and completeness of the collection, absence of circles of
\* links and the counters of topoSort are inductive, for all tables, columns
\* and depths of the stack.
THEOREM LineageInvariant == LineageSpec => []LineageInv
<1>1. LineageInv /\ [LineageNext]_lineageVars => LineageInv'
  BY LineageStepInv
<1>. QED  BY LineageInitInv, <1>1, PTL DEF LineageSpec

-----------------------------------------------------------------------------
(* The answer.                                                             *)

\* Once everything is collected it is what is needed, and the tables that a
\* table needs are linked to it.
LEMMA AllCollected ==
  ASSUME LineageInv, lineage \in {"sort", "sorted"}
  PROVE  /\ fields = needed
         /\ \A t \in Table : TableNeeds[t] \subseteq Into(t)
<1>1. /\ calls = <<>> /\ askedLeft = {} /\ asked \subseteq fields /\ fields \subseteq Field
      /\ \A f \in fields : \A s \in source[f] : Followed(s, f)
  BY DEF LineageInv, LineageTypeOK, CollectedComplete, Pending
<1>2. ClosedFields(fields)
  BY <1>1 DEF ClosedFields, Followed
<1>3. fields = needed
  BY <1>1, <1>2, NeededLeast DEF LineageInv, CollectedSound
<1>4. ASSUME NEW t \in Table, NEW u \in TableNeeds[t]  PROVE u \in Into(t)
  <2>1. u \in Table \ {t} /\ \E f \in needed : TableOf(f) = t /\ \E s \in source[f] : TableOf(s) = u
    BY DEF TableNeeds
  <2>2. PICK f \in fields : TableOf(f) = t /\ \E s \in source[f] : TableOf(s) = u
    BY <1>3, <2>1
  <2>3. PICK s \in source[f] : TableOf(s) = u
    BY <2>2
  <2>4. <<u, t>> \in links
    BY <1>1, <2>1, <2>2, <2>3 DEF Followed
  <2>. QED  BY <2>1, <2>4 DEF Into
<1>. QED  BY <1>3, <1>4

\* An answer holds what is needed, in order.
LEMMA AnswerExact ==
  ASSUME LineageInv, lineage = "sorted", Len(result) = Cardinality(Vertices)
  PROVE  RequiredFieldsExact
<1>1. /\ \A j, k \in DOMAIN result : result[j] = result[k] => j = k
      /\ \A k \in DOMAIN result : Into(result[k]) \subseteq {result[j] : j \in 1 .. k - 1}
      /\ result \in Seq(Vertices)
  BY DEF LineageInv, LineageTypeOK, SortCounts
<1>2. Taken \subseteq Vertices
  BY <1>1 DEF Taken
<1>3. Cardinality(Taken) = Len(result)
  BY <1>1, DistinctElements DEF Taken
<1>4. Taken = Vertices
  BY <1>2, <1>3, SortFinite, FS_Subset
<1>5. \A k \in DOMAIN result : TableNeeds[result[k]] \subseteq {result[j] : j \in 1 .. k - 1}
  <2>1. \A k \in DOMAIN result : result[k] \in Table
    BY <1>1, SortFinite
  <2>. QED  BY <1>1, <2>1, AllCollected
<1>. QED  BY <1>4, <1>5, AllCollected DEF RequiredFieldsExact

\* An answer has the length that EndSort has compared.
LEMMA AnswerLength ==
  ASSUME LineageInv, [LineageNext]_lineageVars,
         lineage = "sorted" => Len(result) = Cardinality(Vertices)
  PROVE  lineage' = "sorted" => Len(result') = Cardinality(Vertices')
<1>1. CASE EndSort
  BY <1>1, NoneLeft DEF EndSort, Vertices, collectVars, sortingVars
<1>2. CASE CollectStep \/ BeginSort \/ TakeFirst
  BY <1>2 DEF CollectStep, NextAsked, FollowSelf, FollowWithin, FollowAcross, FollowCycle, Overflow,
              Return, Following, BeginSort, TakeFirst
<1>3. CASE UNCHANGED lineageVars
  BY <1>3 DEF lineageVars, collectVars, sortingVars, Vertices
<1>. QED  BY <1>1, <1>2, <1>3 DEF LineageNext

\* Whatever the order of the maps, RequiredFields (lineage.go) answers with the
\* needed fields and no others, and its tables each after those it needs.
THEOREM RequiredFieldsAreExact == LineageSpec => []RequiredFieldsExact
<1>. DEFINE Full == lineage = "sorted" => Len(result) = Cardinality(Vertices)
<1>1. LineageInit => Full
  BY DEF LineageInit
<1>2. LineageInv /\ Full /\ [LineageNext]_lineageVars => Full'
  BY AnswerLength
<1>3. LineageInv /\ Full => RequiredFieldsExact
  BY AnswerExact DEF RequiredFieldsExact
<1>. QED  BY LineageInvariant, <1>1, <1>2, <1>3, PTL DEF LineageSpec

-----------------------------------------------------------------------------
(* The cycle error.                                                        *)

\* The tables that the plan needs are those of the needed fields.
LEMMA PlanNeeds ==
  ASSUME LineageInv
  PROVE  Plan!Needed = {TableOf(f) : f \in needed}
<1>. DEFINE T == {TableOf(f) : f \in needed}
<1>1. /\ source \in [Field -> SUBSET Field] /\ asked \subseteq needed /\ needed \subseteq Field
      /\ \A f \in needed : source[f] \subseteq needed
  BY NeededClosed DEF LineageInv, LineageTypeOK, CollectedSound
<1>2. T \in SUBSET Table
  BY <1>1, FieldTable
<1>3. Plan!Closed(T)
  <2>1. ASSUME NEW t \in T, NEW u \in TableNeeds[t]  PROVE u \in T
    <3>1. PICK f \in needed : TableOf(f) = t /\ \E s \in source[f] : TableOf(s) = u
      BY <1>2, <2>1 DEF TableNeeds
    <3>. QED  BY <1>1, <3>1
  <2>. QED  BY <1>1, <2>1 DEF Plan!Closed
<1>4. ASSUME NEW S \in SUBSET Table, Plan!Closed(S)  PROVE T \subseteq S
  <2>. DEFINE F == {f \in needed : TableOf(f) \in S}
  <2>1. \A f \in asked : TableOf(f) \in S
    BY <1>4 DEF Plan!Closed
  <2>2. \A t \in S : TableNeeds[t] \subseteq S
    BY <1>4 DEF Plan!Closed
  <2>3. ASSUME NEW f \in F, NEW s \in source[f]  PROVE s \in F
    <3>1. s \in needed /\ s \in Field /\ f \in needed /\ TableOf(f) \in S
      BY <1>1
    <3>2. TableOf(s) \in S
      BY <1>1, <2>2, <3>1, NeedsOf
    <3>. QED  BY <3>1, <3>2
  <2>4. ClosedFields(F)
    BY <1>1, <2>1, <2>3 DEF ClosedFields
  <2>5. F \in SUBSET Field
    BY <1>1
  <2>6. needed \subseteq F
    BY <2>4, <2>5, NeededLeast DEF LineageInv, CollectedSound
  <2>. QED  BY <2>6
<1>. QED  BY <1>2, <1>3, <1>4 DEF Plan!Needed

\* The edge that addEdge refuses closes a circle of needed tables.
LEMMA RefusedCircle ==
  ASSUME LineageInv, NEW s, Following(s), TableOf(s) # TableOf(Here),
         HasPath(TableOf(Here), TableOf(s))
  PROVE  \E S \in SUBSET Plan!Needed : Plan!Circular(S)
<1>. DEFINE a == TableOf(Here)
            R == {v \in Table : HasPath(a, v)}
<1>1. needed \subseteq Field /\ fields \subseteq needed /\ links \subseteq Vertices \X Vertices
      /\ \A l \in links : l[1] \in TableNeeds[l[2]]
  BY NeededClosed DEF LineageInv, LineageTypeOK, CollectedSound
<1>2. a \in Table /\ TableOf(s) \in Table /\ TableOf(s) \in TableNeeds[a]
  BY <1>1, TopCall, FieldTable, NeedsOf
<1>3. Vertices \subseteq Table /\ Vertices \subseteq Plan!Needed /\ a \in Plan!Needed
  BY <1>1, TopCall, SortFinite, PlanNeeds DEF Vertices
<1>4. a \in R /\ TableOf(s) \in R
  BY <1>2 DEF HasPath
<1>5. ASSUME NEW v \in R  PROVE v \in Plan!Needed /\ TableNeeds[v] \cap R # {}
  <2>1. CASE v = a
    BY <1>2, <1>3, <1>4, <2>1
  <2>2. CASE v # a
    <3>1. PICK u \in R : <<u, v>> \in links
      BY <1>1, <1>2, <1>3, <2>2, PathPredecessor
    <3>. DEFINE l == <<u, v>>
    <3>2. l \in links /\ l[1] = u /\ l[2] = v
      BY <3>1
    <3>3. u \in TableNeeds[v] /\ v \in Vertices
      <4>. HIDE DEF l
      <4>. QED  BY <1>1, <3>2
    <3>. QED  BY <1>3, <3>3
  <2>. QED  BY <2>1, <2>2
<1>6. Plan!Circular(R) /\ R \in SUBSET Plan!Needed
  BY <1>4, <1>5 DEF Plan!Circular
<1>. QED  BY <1>6

\* Tables in such an order do not need each other.
LEMMA OrderedNoCircle ==
  ASSUME LineageInv, RequiredFieldsExact, lineage = "sorted", NEW S \in SUBSET Plan!Needed
  PROVE  ~Plan!Circular(S)
<1>. SUFFICES ASSUME Plan!Circular(S)  PROVE FALSE
  OBVIOUS
<1>. DEFINE K == {k \in DOMAIN result : result[k] \in S}
<1>1. /\ DOMAIN result = 1 .. Len(result) /\ Len(result) \in Nat
      /\ fields = needed /\ Taken = Vertices
      /\ \A k \in DOMAIN result : TableNeeds[result[k]] \subseteq {result[j] : j \in 1 .. k - 1}
  BY DEF LineageInv, LineageTypeOK, RequiredFieldsExact
<1>2. S \subseteq Taken
  BY <1>1, PlanNeeds DEF Vertices
<1>3. K \in SUBSET Nat /\ K # {}
  BY <1>1, <1>2 DEF Plan!Circular, Taken
<1>4. PICK k \in K : \A j \in K : k <= j
  BY <1>3, LeastNatural
<1>5. PICK u \in S : u \in TableNeeds[result[k]]
  BY DEF Plan!Circular
<1>6. PICK j \in 1 .. k - 1 : result[j] = u
  BY <1>1, <1>5
<1>. QED  BY <1>1, <1>4, <1>6

CircleNeeded == \E S \in SUBSET Plan!Needed : Plan!Circular(S)

LEMMA CycleStep ==
  ASSUME LineageInv, [LineageNext]_lineageVars, lineage = "cycle" => CircleNeeded
  PROVE  (lineage = "cycle" => CircleNeeded)'
<1>1. UNCHANGED request
  BY DEF LineageNext, CollectStep, NextAsked, FollowSelf, FollowWithin, FollowAcross, FollowCycle,
         Overflow, Return, Following, BeginSort, TakeFirst, EndSort, lineageVars
<1>2. CircleNeeded' <=> CircleNeeded
  BY <1>1, RequestFixed DEF CircleNeeded, Plan!Circular
<1>3. lineage' = "cycle" => lineage = "cycle" \/ CircleNeeded
  <2>1. CASE FollowCycle
    BY <2>1, RefusedCircle DEF FollowCycle, CircleNeeded
  <2>2. CASE EndSort
    BY <2>2, EndSortInv
  <2>3. CASE UNCHANGED lineageVars
    BY <2>3 DEF lineageVars
  <2>4. CASE NextAsked \/ FollowSelf \/ FollowWithin \/ FollowAcross \/ Overflow \/ Return
             \/ BeginSort \/ TakeFirst
    BY <2>4 DEF NextAsked, FollowSelf, FollowWithin, FollowAcross, Overflow, Return, Following,
                BeginSort, TakeFirst
  <2>. QED  BY <2>1, <2>2, <2>3, <2>4 DEF LineageNext, CollectStep
<1>. QED  BY <1>2, <1>3

\* RequiredFields reports a cycle exactly when needed tables need each other,
\* and always from addEdge: topoSort's own check never fails.
THEOREM CycleErrorsAreExact == LineageSpec => []CycleErrorExact
<1>1. LineageInit => (lineage = "cycle" => CircleNeeded)
  BY DEF LineageInit
<1>2. LineageInv /\ (lineage = "cycle" => CircleNeeded) /\ [LineageNext]_lineageVars
        => (lineage = "cycle" => CircleNeeded)'
  BY CycleStep
<1>3. LineageInv /\ RequiredFieldsExact /\ (lineage = "cycle" => CircleNeeded) => CycleErrorExact
  BY OrderedNoCircle, NoneLeft DEF CycleErrorExact, CircleNeeded
<1>. QED  BY LineageInvariant, RequiredFieldsAreExact, <1>1, <1>2, <1>3, PTL DEF LineageSpec

-----------------------------------------------------------------------------
(* The depth of the recursion.                                             *)

\* A list of fields, each a source of the next one and of the same table or
\* linked to it.
FieldChain(g, n, L) ==
  \A k \in 1 .. n - 1 :
    /\ g[k] \in source[g[k + 1]] \ {g[k + 1]}
    /\ TableOf(g[k]) = TableOf(g[k + 1]) \/ <<TableOf(g[k]), TableOf(g[k + 1])>> \in L

\* Where such a chain comes back to a field it has not left the table, or the
\* tables on the way would be linked in a circle.
LEMMA ReturnWithinTable ==
  ASSUME NEW L, AcyclicIn(L), NEW n \in Nat, NEW g \in [1 .. n -> Field], FieldChain(g, n, L),
         NEW i \in 1 .. n, NEW j \in 1 .. n, i < j, g[i] = g[j], NEW m \in i .. j
  PROVE  TableOf(g[m]) = TableOf(g[i])
<1>. DEFINE T(k) == TableOf(g[k])
            Tables == {T(k) : k \in i .. j}
<1>. SUFFICES ASSUME T(m) # T(i)  PROVE FALSE
  OBVIOUS
<1>1. \A k \in i .. j : k \in 1 .. n /\ T(k) \in Table
  BY FieldTable
<1>2. ASSUME NEW p \in i .. j  PROVE \E k \in i .. j - 1 : T(k + 1) = T(p) /\ T(k) # T(p)
  <2>. SUFFICES ASSUME \A k \in i .. j - 1 : T(k + 1) = T(p) => T(k) = T(p)  PROVE FALSE
    OBVIOUS
  <2>1. T(i) = T(p)
    <3>. DEFINE K == {k \in i .. j : T(k) = T(p)}
    <3>1. K \in SUBSET Nat /\ K # {}
      OBVIOUS
    <3>2. PICK k \in K : \A q \in K : k <= q
      BY <3>1, LeastNatural
    <3>3. CASE k = i
      BY <3>3
    <3>4. CASE k # i
      <4>1. k - 1 \in i .. j - 1 /\ (k - 1) + 1 = k
        BY <3>4
      <4>2. k - 1 \in K
        BY <4>1
      <4>. QED  BY <3>2, <4>2
    <3>. QED  BY <3>3, <3>4
  <2>2. ASSUME NEW q \in i .. j  PROVE T(q) = T(p)
    <3>. DEFINE M == {d \in 0 .. j - i : T(j - d) # T(p)}
    <3>1. M \in SUBSET Nat
      OBVIOUS
    <3>2. M = {}
      <4>. SUFFICES ASSUME M # {}  PROVE FALSE
        OBVIOUS
      <4>1. PICK d \in M : \A e \in M : d <= e
        BY <3>1, LeastNatural
      <4>2. d # 0
        <5>1. T(j) = T(p) /\ j - 0 = j
          BY <2>1
        <5>. QED  BY <5>1
      <4>3. d - 1 \in 0 .. j - i /\ j - d \in i .. j - 1 /\ (j - d) + 1 = j - (d - 1)
        BY <4>2
      <4>4. d - 1 \notin M
        <5>. HIDE DEF M
        <5>. QED  BY <3>1, <4>1
      <4>5. T(j - (d - 1)) = T(p)
        BY <4>3, <4>4
      <4>6. T(j - d) = T(p)
        BY <4>3, <4>5
      <4>. QED  BY <4>6
    <3>3. j - q \in 0 .. j - i /\ j - (j - q) = q
      OBVIOUS
    <3>. QED  BY <3>2, <3>3
  <2>3. i \in i .. j /\ m \in i .. j
    OBVIOUS
  <2>. QED  BY <2>2, <2>3
<1>3. ASSUME NEW t \in Tables  PROVE \E u \in Tables : <<u, t>> \in L
  <2>1. PICK p \in i .. j : t = T(p)
    OBVIOUS
  <2>2. PICK k \in i .. j - 1 : T(k + 1) = T(p) /\ T(k) # T(p)
    BY <1>2
  <2>3. k \in 1 .. n - 1 /\ k \in i .. j
    OBVIOUS
  <2>4. <<T(k), T(k + 1)>> \in L
    BY <2>2, <2>3 DEF FieldChain
  <2>. QED  BY <2>1, <2>2, <2>3, <2>4
<1>4. Tables \in SUBSET Table /\ Tables # {}
  BY <1>1
<1>. QED  BY <1>3, <1>4 DEF AcyclicIn

\* A chain longer than there are fields comes back, and has a circle.
LEMMA LongChain ==
  ASSUME NEW L, AcyclicIn(L), NEW n \in Nat, NEW g \in [1 .. n -> Field], FieldChain(g, n, L),
         IsFiniteSet(Field), Cardinality(Field) < n
  PROVE  \E S \in SUBSET {g[k] : k \in 1 .. n} : FieldCircle(S)
<1>1. PICK x \in 1 .. n, y \in 1 .. n : x # y /\ g[x] = g[y]
  <2>1. IsFiniteSet(1 .. n) /\ Cardinality(1 .. n) = n
    <3>1. \A k \in Nat : IsFiniteSet(1 .. k) /\ Cardinality(1 .. k) = k
      BY FS_Interval
    <3>. QED  BY <3>1
  <2>. QED  BY <2>1, FS_PigeonHole
<1>2. PICK i \in 1 .. n, j \in 1 .. n : i < j /\ g[i] = g[j]
  <2>1. x < y \/ y < x
    BY <1>1
  <2>. QED  BY <1>1, <2>1
<1>. DEFINE S == {g[k] : k \in i + 1 .. j}
<1>3. \A k \in i .. j : k \in 1 .. n /\ TableOf(g[k]) = TableOf(g[i])
  BY <1>2, ReturnWithinTable
<1>4. \A f, h \in S : TableOf(f) = TableOf(h)
  BY <1>3
<1>5. ASSUME NEW k \in i + 1 .. j  PROVE (source[g[k]] \ {g[k]}) \cap S # {}
  <2>1. k - 1 \in 1 .. n - 1 /\ (k - 1) + 1 = k
    OBVIOUS
  <2>2. g[k - 1] \in source[g[k]] \ {g[k]}
    BY <2>1 DEF FieldChain
  <2>3. g[k - 1] \in S
    <3>1. CASE k - 1 = i
      BY <1>2, <3>1
    <3>2. CASE k - 1 # i
      <4>1. k - 1 \in i + 1 .. j
        BY <3>2
      <4>. QED  BY <4>1
    <3>. QED  BY <3>1, <3>2
  <2>. QED  BY <2>2, <2>3
<1>6. \A f \in S : (source[f] \ {f}) \cap S # {}
  BY <1>5
<1>7. S # {} /\ S \in SUBSET {g[k] : k \in 1 .. n}
  BY <1>2
<1>. QED  BY <1>4, <1>6, <1>7 DEF FieldCircle

\* Each call was made for a source of the field of the call below it.
CallChain ==
  \A k \in 1 .. Len(calls) - 1 :
    /\ calls[k].field \in source[calls[k + 1].field] \ {calls[k + 1].field}
    /\ Followed(calls[k].field, calls[k + 1].field)

LEMMA DeeperChain ==
  ASSUME LineageInv, CallChain, NEW s, Following(s), s # Here, links \subseteq links',
         TableOf(s) = TableOf(Here) \/ <<TableOf(s), TableOf(Here)>> \in links',
         calls' = <<Frame(s)>> \o Rest(s)
  PROVE  CallChain'
<1>1. /\ Rest(s) \in Seq(FrameType) /\ Len(Rest(s)) = Len(calls) /\ Len(calls) \in Nat \ {0}
      /\ Rest(s)[1].field = calls[1].field
      /\ \A k \in 2 .. Len(calls) : Rest(s)[k] = calls[k]
  BY RestTop, TopCall
<1>2. Frame(s) \in FrameType /\ Frame(s).field = s
  BY TopCall, FrameInType DEF LineageInv, LineageTypeOK
<1>3. /\ Len(calls') = Len(calls) + 1 /\ calls'[1] = Frame(s)
      /\ \A k \in 1 .. Len(calls) : calls'[k + 1] = Rest(s)[k]
  BY <1>1, <1>2, PushStack
<1>4. \A k \in 1 .. Len(calls) : calls'[k + 1].field = calls[k].field
  <2>1. \A k \in 1 .. Len(calls) : k = 1 \/ k \in 2 .. Len(calls)
    BY <1>1
  <2>. QED  BY <1>1, <1>3, <2>1
<1>5. source' = source /\ fields' = fields \cup {s}
  BY TopCall, RequestFixed
<1>6. \A t, f : Followed(t, f) => Followed(t, f)'
  BY <1>5 DEF Followed
<1>7. ASSUME NEW k \in 1 .. Len(calls)
      PROVE  /\ calls'[k].field \in source[calls'[k + 1].field] \ {calls'[k + 1].field}
             /\ calls'[k].field \in fields'
             /\ \/ TableOf(calls'[k].field) = TableOf(calls'[k + 1].field)
                \/ <<TableOf(calls'[k].field), TableOf(calls'[k + 1].field)>> \in links'
  <2>1. CASE k = 1
    <3>1. calls'[1].field = s /\ calls'[1 + 1].field = Here
      BY <1>1, <1>2, <1>3, <1>4, TopCall
    <3>. QED  BY <1>5, <2>1, <3>1, TopCall
  <2>2. CASE k # 1
    <3>1. k - 1 \in 1 .. Len(calls) - 1 /\ k - 1 \in 1 .. Len(calls) /\ (k - 1) + 1 = k
      BY <1>1, <2>2
    <3>2. calls'[k].field = calls[k - 1].field /\ calls'[k + 1].field = calls[k].field
      BY <1>4, <3>1
    <3>3. /\ calls[k - 1].field \in source[calls[k].field] \ {calls[k].field}
          /\ Followed(calls[k - 1].field, calls[k].field)
      BY <3>1 DEF CallChain
    <3>. QED  BY <1>5, <3>2, <3>3 DEF Followed
  <2>. QED  BY <2>1, <2>2
<1>8. 1 .. Len(calls') - 1 = 1 .. Len(calls)
  BY <1>1, <1>3
<1>. QED  BY <1>5, <1>7, <1>8 DEF CallChain, Followed

LEMMA ChainStep ==
  ASSUME LineageInv, CallChain, [LineageNext]_lineageVars
  PROVE  CallChain'
<1>1. CASE NextAsked
  <2>1. Len(calls') = 1
    BY <1>1 DEF NextAsked
  <2>. QED  BY <2>1 DEF CallChain
<1>2. CASE FollowSelf
  <2>1. PICK s \in Field : /\ Following(s) /\ s = Here /\ calls' = Rest(s) /\ links' = links
    BY <1>2 DEF FollowSelf
  <2>2. /\ Len(calls') = Len(calls) /\ Len(calls) \in Nat
        /\ \A k \in 1 .. Len(calls) : calls'[k].field = calls[k].field
    <3>1. \A k \in 1 .. Len(calls) : k = 1 \/ k \in 2 .. Len(calls)
      BY <2>1, TopCall
    <3>. QED  BY <2>1, <3>1, RestTop, TopCall
  <2>3. source' = source /\ fields \subseteq fields'
    BY <2>1, TopCall, RequestFixed
  <2>4. \A t, f : Followed(t, f) => Followed(t, f)'
    BY <2>1, <2>3 DEF Followed
  <2>5. \A k \in 1 .. Len(calls) - 1 : k \in 1 .. Len(calls) /\ k + 1 \in 1 .. Len(calls)
    BY <2>2
  <2>. QED  BY <2>1, <2>2, <2>3, <2>5 DEF CallChain, Followed
<1>3. CASE FollowWithin \/ FollowAcross
  <2>1. PICK s \in Field : /\ Following(s) /\ s # Here /\ links \subseteq links'
                           /\ \/ TableOf(s) = TableOf(Here)
                              \/ <<TableOf(s), TableOf(Here)>> \in links'
                           /\ calls' = <<Frame(s)>> \o Rest(s)
    BY <1>3 DEF FollowWithin, FollowAcross
  <2>. QED  BY <2>1, DeeperChain
<1>4. CASE Return
  <2>1. calls \in Seq(FrameType) /\ calls # <<>> /\ calls' = Tail(calls)
        /\ UNCHANGED <<source, fields, links>>
    BY <1>4 DEF LineageInv, LineageTypeOK, Return, request
  <2>2. /\ Len(calls') = Len(calls) - 1 /\ Len(calls) \in Nat
        /\ \A k \in 1 .. Len(calls) - 1 : calls'[k] = calls[k + 1]
    BY <2>1
  <2>3. \A k \in 1 .. Len(calls') - 1 : /\ k \in 1 .. Len(calls) - 1 /\ k + 1 \in 1 .. Len(calls) - 1
    BY <2>2
  <2>. QED  BY <2>1, <2>2, <2>3 DEF CallChain, Followed
<1>5. CASE UNCHANGED <<source, calls, links>> /\ fields \subseteq fields'
  BY <1>5 DEF CallChain, Followed
<1>6. CASE FollowCycle \/ Overflow
  BY <1>5, <1>6, TopCall, RequestFixed DEF FollowCycle, Overflow
<1>7. CASE BeginSort \/ TakeFirst \/ EndSort \/ UNCHANGED lineageVars
  BY <1>5, <1>7 DEF BeginSort, TakeFirst, EndSort, lineageVars, collectVars, request
<1>. QED  BY <1>1, <1>2, <1>3, <1>4, <1>6, <1>7 DEF LineageNext, CollectStep

\* A call that the stack has no room for is the last of a chain too long.
LEMMA OverflowCircle ==
  ASSUME LineageInv, CallChain, Overflow, IsFiniteSet(Field), Cardinality(Field) <= MaxDepth
  PROVE  \E S \in SUBSET needed : FieldCircle(S)
<1>1. PICK s \in Field : /\ Following(s) /\ s # Here
                         /\ TableOf(s) = TableOf(Here) \/ ~HasPath(TableOf(Here), TableOf(s))
                         /\ Len(calls) >= MaxDepth
  BY DEF Overflow
<1>. DEFINE n == Len(calls) + 1
            g == [k \in 1 .. n |-> IF k = 1 THEN s ELSE calls[k - 1].field]
            L == IF TableOf(s) = TableOf(Here) THEN links
                 ELSE links \cup {<<TableOf(s), TableOf(Here)>>}
<1>2. AcyclicIn(L) /\ links \subseteq L
  <2>1. AcyclicIn(links) /\ TableOf(s) \in Table /\ TableOf(Here) \in Table
    BY <1>1, TopCall, FieldTable, AcyclicLinks DEF LineageInv
  <2>2. CASE TableOf(s) = TableOf(Here)
    BY <2>1, <2>2
  <2>3. CASE TableOf(s) # TableOf(Here)
    BY <1>1, <2>1, <2>3, PathLinks, AddedEdge
  <2>. QED  BY <2>2, <2>3
<1>3. n \in Nat /\ Len(calls) \in Nat \ {0} /\ Cardinality(Field) < n
  <2>1. Cardinality(Field) \in Nat /\ MaxDepth \in Nat
    BY FS_CardinalityType, LineageAssumption
  <2>. QED  BY <1>1, <2>1, TopCall
<1>4. \A k \in 1 .. n : k = 1 \/ (k - 1 \in 1 .. Len(calls) /\ k - 1 \in DOMAIN calls)
  BY <1>1, <1>3, TopCall
<1>5. \A k \in 1 .. Len(calls) : calls[k].field \in needed
  BY <1>1, TopCall DEF LineageInv, CollectedSound
<1>6. needed \subseteq Field
  BY NeededClosed DEF LineageInv, LineageTypeOK, CollectedSound
<1>7. \A k \in 1 .. n : g[k] \in needed
  BY <1>1, <1>4, <1>5, TopCall
<1>8. g \in [1 .. n -> Field]
  BY <1>6, <1>7
<1>9. FieldChain(g, n, L)
  <2>1. ASSUME NEW k \in 1 .. n - 1
        PROVE  /\ g[k] \in source[g[k + 1]] \ {g[k + 1]}
               /\ TableOf(g[k]) = TableOf(g[k + 1]) \/ <<TableOf(g[k]), TableOf(g[k + 1])>> \in L
    <3>1. k \in 1 .. n /\ k + 1 \in 1 .. n /\ k + 1 # 1 /\ (k + 1) - 1 = k
      BY <1>3
    <3>2. g[k + 1] = calls[k].field
      BY <3>1
    <3>3. CASE k = 1
      <4>1. g[k] = s /\ g[k + 1] = Here
        BY <1>1, <3>1, <3>2, <3>3, TopCall
      <4>. QED  BY <1>1, <4>1, TopCall
    <3>4. CASE k # 1
      <4>1. g[k] = calls[k - 1].field /\ k - 1 \in 1 .. Len(calls) - 1 /\ (k - 1) + 1 = k
        BY <1>3, <3>1, <3>4
      <4>2. calls[(k - 1) + 1] = calls[k]
        BY <4>1
      <4>3. /\ calls[k - 1].field \in source[calls[(k - 1) + 1].field] \ {calls[(k - 1) + 1].field}
            /\ Followed(calls[k - 1].field, calls[(k - 1) + 1].field)
        BY <1>2, <4>1 DEF CallChain
      <4>. HIDE DEF g, n
      <4>. QED  BY <3>2, <4>1, <4>2, <4>3 DEF Followed
    <3>. QED  BY <3>3, <3>4
  <2>. HIDE DEF g, n, L
  <2>. QED  BY <2>1 DEF FieldChain
<1>. HIDE DEF g, n, L
<1>10. n \in Nat /\ Cardinality(Field) < n /\ AcyclicIn(L)
  BY <1>2, <1>3
<1>11. \E S \in SUBSET {g[k] : k \in 1 .. n} : FieldCircle(S)
  BY <1>8, <1>9, <1>10, LongChain, ZenonT(60)
<1>12. {g[k] : k \in 1 .. n} \subseteq needed
  BY <1>7
<1>. QED  BY <1>11, <1>12

LEMMA OverflowStep ==
  ASSUME LineageInv, CallChain, OverflowOnlyInFieldCircle, [LineageNext]_lineageVars,
         IsFiniteSet(Field), Cardinality(Field) <= MaxDepth
  PROVE  OverflowOnlyInFieldCircle'
<1>1. UNCHANGED request
  BY DEF LineageNext, CollectStep, NextAsked, FollowSelf, FollowWithin, FollowAcross, FollowCycle,
         Overflow, Return, Following, BeginSort, TakeFirst, EndSort, lineageVars
<1>2. needed' = needed /\ \A S : FieldCircle(S)' <=> FieldCircle(S)
  BY <1>1, RequestFixed DEF FieldCircle
<1>3. CASE Overflow
  BY <1>2, <1>3, OverflowCircle DEF OverflowOnlyInFieldCircle
<1>4. CASE UNCHANGED lineageVars
  BY <1>2, <1>4 DEF OverflowOnlyInFieldCircle, lineageVars
<1>5. CASE NextAsked \/ FollowSelf \/ FollowWithin \/ FollowAcross \/ FollowCycle \/ Return
           \/ BeginSort \/ TakeFirst \/ EndSort
  BY <1>5 DEF NextAsked, FollowSelf, FollowWithin, FollowAcross, FollowCycle, Return, Following,
              BeginSort, TakeFirst, EndSort, OverflowOnlyInFieldCircle
<1>. QED  BY <1>3, <1>4, <1>5 DEF LineageNext, CollectStep

\* If the stack has room for a call for every field, collectRequiredFields
\* (lineage.go:84) overflows it only for fields of one table that are computed
\* from each other.
THEOREM OverflowIsFieldCircle ==
  ASSUME IsFiniteSet(Field), Cardinality(Field) <= MaxDepth
  PROVE  LineageSpec => []OverflowOnlyInFieldCircle
<1>1. LineageInit => CallChain /\ OverflowOnlyInFieldCircle
  BY DEF LineageInit, CallChain, OverflowOnlyInFieldCircle
<1>2. LineageInv /\ CallChain /\ [LineageNext]_lineageVars => CallChain'
  BY ChainStep
<1>3. LineageInv /\ CallChain /\ OverflowOnlyInFieldCircle /\ [LineageNext]_lineageVars
        => OverflowOnlyInFieldCircle'
  BY OverflowStep
<1>. QED  BY LineageInvariant, <1>1, <1>2, <1>3, PTL DEF LineageSpec

-----------------------------------------------------------------------------
(* The refinement.                                                         *)

\* Steps that put no table into the order and give no answer.
LEMMA PlanStutter ==
  ASSUME UNCHANGED request, result' = result, lineage # "cycle", lineage' # "cycle",
         Outcome' = Outcome
  PROVE  UNCHANGED Plan!planVars
BY RequestFixed DEF Plan!planVars

LEMMA CollectImplements ==
  ASSUME LineageInv, CollectStep
  PROVE  [Plan!PlanNext]_(Plan!planVars)
<1>1. lineage = "collect" /\ result' = result /\ UNCHANGED request
  BY DEF CollectStep, NextAsked, FollowSelf, FollowWithin, FollowAcross, FollowCycle, Overflow,
         Return, Following, sortingVars
<1>2. CASE FollowCycle
  <2>1. \E S \in SUBSET Plan!Needed : Plan!Circular(S)
    BY <1>2, RefusedCircle DEF FollowCycle
  <2>2. lineage' = "cycle"
    BY <1>2 DEF FollowCycle
  <2>3. Plan!Refuse
    BY <1>1, <2>1, <2>2, RequestFixed DEF Plan!Refuse, Outcome
  <2>. QED  BY <2>3 DEF Plan!PlanNext
<1>3. CASE NextAsked \/ FollowSelf \/ FollowWithin \/ FollowAcross \/ Overflow \/ Return
  <2>1. lineage' \in {"collect", "overflow"}
    BY <1>1, <1>3 DEF NextAsked, FollowSelf, FollowWithin, FollowAcross, Overflow, Return
  <2>. QED  BY <1>1, <2>1, PlanStutter DEF Outcome
<1>. QED  BY <1>2, <1>3 DEF CollectStep

LEMMA TakeImplements ==
  ASSUME LineageInv, TakeFirst
  PROVE  Plan!PlanNext
<1>1. PICK v \in queue : result' = Append(result, v)
  BY DEF TakeFirst
<1>2. lineage = "sort" /\ lineage' = "sort" /\ UNCHANGED request
  BY DEF TakeFirst
<1>3. /\ v \in Left /\ Cardinality(Into(v) \cap Left) = 0
      /\ v \in Vertices /\ v \in Table /\ v \notin Taken
  BY <1>2, SortFinite DEF LineageInv, SortCounts, Left
<1>4. Into(v) \subseteq Taken
  <2>1. Into(v) \cap Left = {}
    BY <1>3, SortFinite, FS_EmptySet
  <2>. QED  BY <2>1, SortFinite DEF Left
<1>5. TableNeeds[v] \subseteq Taken /\ v \in Plan!Needed
  BY <1>2, <1>3, <1>4, AllCollected, PlanNeeds DEF Vertices
<1>6. Plan!Defined = Taken
  BY <1>2 DEF Plan!Defined, Taken
<1>7. Plan!Define(v)
  BY <1>1, <1>2, <1>3, <1>5, <1>6, RequestFixed DEF Plan!Define, Outcome
<1>. QED  BY <1>3, <1>7 DEF Plan!PlanNext

LEMMA EndImplements ==
  ASSUME LineageInv, EndSort
  PROVE  Plan!PlanNext
<1>1. lineage = "sort" /\ lineage' = "sorted" /\ queue = {} /\ result' = result /\ UNCHANGED request
  BY EndSortInv DEF EndSort, sortingVars
<1>2. Taken = Vertices /\ Vertices = Plan!Needed
  BY <1>1, NoneLeft, AllCollected, PlanNeeds DEF Vertices
<1>3. Plan!Defined = Taken
  BY <1>1 DEF Plan!Defined, Taken
<1>4. Plan!Accept
  BY <1>1, <1>2, <1>3, RequestFixed DEF Plan!Accept, Outcome
<1>. QED  BY <1>4 DEF Plan!PlanNext

LEMMA LineagePlanInit == LineageInit => Plan!PlanInit
<1>. SUFFICES ASSUME LineageInit  PROVE Plan!PlanInit
  OBVIOUS
<1>1. TableNeeds \in [Table -> SUBSET Table] /\ {TableOf(f) : f \in asked} \in SUBSET Table
  BY FieldTable DEF LineageInit, TableNeeds
<1>2. lineage = "collect" /\ result = <<>>
  BY DEF LineageInit
<1>. QED  BY <1>1, <1>2 DEF Plan!PlanInit, Outcome

LEMMA LineagePlanStep ==
  LineageInv /\ [LineageNext]_lineageVars => [Plan!PlanNext]_(Plan!planVars)
<1>. SUFFICES ASSUME LineageInv, [LineageNext]_lineageVars
              PROVE  [Plan!PlanNext]_(Plan!planVars)
  OBVIOUS
<1>1. CASE CollectStep
  BY <1>1, CollectImplements
<1>2. CASE BeginSort
  <2>1. lineage = "collect" /\ lineage' = "sort" /\ result' = result /\ UNCHANGED request
    BY <1>2 DEF BeginSort
  <2>. QED  BY <2>1, PlanStutter DEF Outcome
<1>3. CASE TakeFirst
  BY <1>3, TakeImplements
<1>4. CASE EndSort
  BY <1>4, EndImplements
<1>5. CASE UNCHANGED lineageVars
  <2>1. UNCHANGED request /\ result' = result /\ lineage' = lineage
    BY <1>5 DEF lineageVars, sortingVars
  <2>. QED  BY <2>1, RequestFixed DEF Plan!planVars, Outcome
<1>. QED  BY <1>1, <1>2, <1>3, <1>4, <1>5 DEF LineageNext

\* RequiredFields keeps the promise of a rewrite rule, for the tables: each
\* step of it is a step of the abstract plan or invisible, for every lineage.
THEOREM LineageImplementsPlan == LineageSpec => Plan!PlanSpec
BY LineageInvariant, LineagePlanInit, LineagePlanStep, PTL DEF LineageSpec, Plan!PlanSpec

-----------------------------------------------------------------------------
(* Values put for the names of a path, one parameter after the other.      *)

\* The first i parameters that are called n, and what these have been replaced by.
First(params, i, n) == {j \in 1 .. i : params[j] = n}

Val(params, args, i) ==
  [n \in Name |-> IF First(params, i, n) = {} THEN <<n>> ELSE args[Min(First(params, i, n))]]

Filling(params, args, i) ==
  params \in Path /\ args \in Seq(Path) /\ i \in Nat /\ i <= Len(params) /\ i <= Len(args)

LEMMA LeastOf ==
  ASSUME NEW S \in SUBSET Nat, S # {}
  PROVE  Min(S) \in S /\ \A j \in S : Min(S) <= j
<1>1. \E k \in S : \A j \in S : k <= j
  BY LeastNatural
<1>. QED  BY <1>1 DEF Min

LEMMA ValTyped ==
  ASSUME NEW params, NEW args, NEW i, Filling(params, args, i)
  PROVE  Val(params, args, i) \in PiecesOf(Name, Name)
<1>1. ASSUME NEW n \in Name, First(params, i, n) # {}
      PROVE  args[Min(First(params, i, n))] \in Seq(Name)
  <2>1. First(params, i, n) \in SUBSET Nat /\ First(params, i, n) \subseteq 1 .. i
    BY DEF First, Filling
  <2>2. Min(First(params, i, n)) \in 1 .. i
    BY <1>1, <2>1, LeastOf
  <2>. QED  BY <2>2 DEF Filling, Path
<1>2. \A n \in Name : <<n>> \in Seq(Name)
  OBVIOUS
<1>. QED  BY <1>1, <1>2 DEF Val, PiecesOf

One(p, v) == [n \in Name |-> IF n = p THEN v ELSE <<n>>]

LEMMA OneTyped ==
  ASSUME NEW p \in Name, NEW v \in Path
  PROVE  One(p, v) \in PiecesOf(Name, Name)
BY DEF One, PiecesOf, Path

LEMMA ReplacedEach ==
  ASSUME NEW p \in Name, NEW v \in Path, NEW w \in Path
  PROVE  Replaced(p, v, w) = Each(One(p, v), w)
<1>1. \A i \in DOMAIN w : w[i] \in Name
  BY DEF Path
<1>2. [i \in DOMAIN w |-> IF w[i] = p THEN v ELSE <<w[i]>>] = [i \in DOMAIN w |-> One(p, v)[w[i]]]
  BY <1>1 DEF One
<1>. QED  BY <1>2 DEF Replaced, Each

\* No later parameter stands in an argument put before.
Unmixed(params, args, i) == \A j \in 1 .. i - 1 : params[i] \notin Items(args[j])

LEMMA ValueStep ==
  ASSUME NEW params, NEW args, NEW i, Filling(params, args, i), i # 0, Unmixed(params, args, i),
         NEW n \in Name
  PROVE  Each(One(params[i], args[i]), Val(params, args, i - 1)[n]) = Val(params, args, i)[n]
<1>. DEFINE p == params[i]
            v == args[i]
            before == First(params, i - 1, n)
            now == First(params, i, n)
<1>1. i \in Nat /\ i - 1 \in Nat /\ Filling(params, args, i - 1) /\ p \in Name /\ v \in Path /\ v \in Seq(Name)
  BY DEF Filling, Path
<1>2. One(p, v) \in PiecesOf(Name, Name)
  BY <1>1, OneTyped
<1>3. CASE before # {}
  <2>1. before \in SUBSET Nat /\ now \in SUBSET Nat /\ before \subseteq now /\ before \subseteq 1 .. i - 1
    BY <1>1 DEF First
  <2>2. PICK k : k = Min(before) /\ k \in before /\ \A j \in before : k <= j
    BY <1>3, <2>1, LeastOf
  <2>3. PICK l : l = Min(now) /\ l \in now /\ \A j \in now : l <= j
    BY <1>3, <2>1, LeastOf
  <2>4. k = l
    <3>1. k \in now /\ l <= k /\ k \in 1 .. i - 1 /\ l \in 1 .. i /\ params[l] = n
      BY <2>1, <2>2, <2>3 DEF First
    <3>2. l \in 1 .. i - 1
      BY <1>1, <3>1
    <3>3. l \in before
      BY <3>1, <3>2 DEF First
    <3>4. k <= l
      BY <2>2, <3>3
    <3>. QED  BY <1>1, <3>1, <3>2, <3>4
  <2>5. Val(params, args, i - 1)[n] = args[k] /\ Val(params, args, i)[n] = args[k]
    BY <1>3, <2>1, <2>2, <2>3, <2>4 DEF Val
  <2>6. args[k] \in Seq(Name) /\ p \notin Items(args[k])
    <3>1. k \in 1 .. i - 1
      BY <2>1, <2>2
    <3>2. k \in DOMAIN args
      BY <1>1, <3>1 DEF Filling
    <3>. QED  BY <1>1, <3>1, <3>2 DEF Unmixed, Filling, Path
  <2>7. PICK w \in Seq(Name) : w = args[k]
    BY <2>6
  <2>8. \A j \in DOMAIN w : One(p, v)[w[j]] = <<w[j]>>
    <3>1. \A j \in DOMAIN w : w[j] \in Name /\ w[j] # p
      BY <2>6, <2>7 DEF Items
    <3>. QED  BY <3>1 DEF One
  <2>9. Each(One(p, v), w) = w
    <3>. HIDE DEF p, v
    <3>. QED  BY <1>2, <2>8, EachKeeps
  <2>. QED  BY <2>5, <2>7, <2>9
<1>4. CASE before = {}
  <2>1. Val(params, args, i - 1)[n] = <<n>>
    BY <1>4 DEF Val
  <2>2. Each(One(p, v), <<n>>) = One(p, v)[n]
    <3>. HIDE DEF p, v
    <3>. QED  BY <1>2, EachOne
  <2>3. One(p, v)[n] = Val(params, args, i)[n]
    <3>1. CASE n = p
      <4>1. now = {i}
        <5>1. \A j \in 1 .. i : j \in 1 .. i - 1 \/ j = i
          BY <1>1
        <5>2. i \in 1 .. i
          BY <1>1
        <5>. QED  BY <1>4, <3>1, <5>1, <5>2 DEF First
      <4>2. Min(now) = i
        <5>1. {i} \in SUBSET Nat /\ {i} # {}
          BY <1>1
        <5>. QED  BY <4>1, <5>1, LeastOf
      <4>. QED  BY <3>1, <4>1, <4>2 DEF One, Val
    <3>2. CASE n # p
      <4>1. now = {}
        <5>1. \A j \in 1 .. i : j \in 1 .. i - 1 \/ j = i
          BY <1>1
        <5>. QED  BY <1>4, <3>2, <5>1 DEF First
      <4>. QED  BY <3>2, <4>1 DEF One, Val
    <3>. QED  BY <3>1, <3>2
  <2>. QED  BY <2>1, <2>2, <2>3
<1>. QED  BY <1>3, <1>4

\* One parameter more, in a word.
LEMMA WordStep ==
  ASSUME NEW params, NEW args, NEW i, Filling(params, args, i), i # 0, Unmixed(params, args, i),
         NEW w \in Path
  PROVE  Replaced(params[i], args[i], Each(Val(params, args, i - 1), w)) = Each(Val(params, args, i), w)
<1>. DEFINE p == params[i]
            v == args[i]
            one == One(p, v)
            was == Val(params, args, i - 1)
            now == Val(params, args, i)
<1>1. i - 1 \in Nat /\ Filling(params, args, i - 1) /\ p \in Name /\ v \in Path /\ w \in Seq(Name)
  BY DEF Filling, Path
<1>2. one \in PiecesOf(Name, Name) /\ was \in PiecesOf(Name, Name)
  BY <1>1, OneTyped, ValTyped
<1>3. Composed(Name, one, was, now)
  BY ValueStep DEF Composed
<1>4. Each(was, w) \in Path
  <2>. HIDE DEF was
  <2>. QED  BY <1>1, <1>2, EachTyped DEF Path
<1>5. Replaced(p, v, Each(was, w)) = Each(one, Each(was, w))
  <2>. HIDE DEF p, v, was
  <2>. QED  BY <1>1, <1>4, ReplacedEach
<1>. HIDE DEF p, v, one, was, now
<1>6. Each(one, Each(was, w)) = Each(now, w)
  BY <1>1, <1>2, <1>3, EachTwice
<1>. QED  BY <1>5, <1>6 DEF p, v, one, was, now

-----------------------------------------------------------------------------
(* Parameters replaced in an item.                                         *)

Raw == [isCall : BOOLEAN, name : Path, args : Seq(Path)]

Made(c, n, a) == [isCall |-> c, name |-> n, args |-> a]

Mapped(g, item) ==
  Made(item.isCall, Each(g, item.name), [j \in DOMAIN item.args |-> Each(g, item.args[j])])

LEMMA MadeParts ==
  ASSUME NEW c, NEW n, NEW a
  PROVE  Made(c, n, a).isCall = c /\ Made(c, n, a).name = n /\ Made(c, n, a).args = a
BY DEF Made

LEMMA RawParts ==
  ASSUME NEW item \in Raw
  PROVE  /\ item = Made(item.isCall, item.name, item.args)
         /\ item.isCall \in BOOLEAN /\ item.name \in Path /\ item.args \in Seq(Path)
BY DEF Raw, Made

LEMMA RawMade ==
  ASSUME NEW c \in BOOLEAN, NEW n \in Path, NEW a \in Seq(Path)
  PROVE  Made(c, n, a) \in Raw
BY DEF Raw, Made

LEMMA MappedTyped ==
  ASSUME NEW g \in PiecesOf(Name, Name), NEW item \in Raw
  PROVE  Mapped(g, item) \in Raw
<1>1. item.isCall \in BOOLEAN /\ item.name \in Seq(Name) /\ item.args \in Seq(Path)
  BY RawParts DEF Path
<1>2. Each(g, item.name) \in Path
  BY <1>1, EachTyped DEF Path
<1>3. \A w \in Path : Each(g, w) \in Path
  BY EachTyped DEF Path
<1>4. PICK args \in Seq(Path) : args = item.args
  BY <1>1
<1>5. [j \in DOMAIN args |-> Each(g, args[j])] \in Seq(Path)
  <2>1. PICK n \in Nat : n = Len(args) /\ DOMAIN args = 1 .. n
    OBVIOUS
  <2>2. [j \in 1 .. n |-> Each(g, args[j])] \in [1 .. n -> Path]
    BY <1>3, <2>1
  <2>. QED  BY <2>1, <2>2
<1>. QED  BY <1>1, <1>2, <1>4, <1>5, RawMade DEF Mapped

LEMMA MappedTwice ==
  ASSUME NEW h \in PiecesOf(Name, Name), NEW g \in PiecesOf(Name, Name), NEW k,
         Composed(Name, g, h, k), NEW item \in Raw
  PROVE  Mapped(g, Mapped(h, item)) = Mapped(k, item)
<1>1. \A w \in Path : Each(g, Each(h, w)) = Each(k, w)
  BY EachTwice DEF Path
<1>2. item.name \in Path /\ item.args \in Seq(Path)
  BY RawParts
<1>3. PICK args \in Seq(Path) : args = item.args
  BY <1>2
<1>4. [j \in DOMAIN args |-> Each(h, args[j])] = [j \in DOMAIN args |-> Each(h, args[j])]
  OBVIOUS
<1>. DEFINE mid == [j \in DOMAIN args |-> Each(h, args[j])]
<1>5. [j \in DOMAIN mid |-> Each(g, mid[j])] = [j \in DOMAIN args |-> Each(k, args[j])]
  <2>1. \A j \in DOMAIN args : args[j] \in Path
    OBVIOUS
  <2>2. \A j \in DOMAIN args : Each(g, mid[j]) = Each(k, args[j])
    BY <1>1, <2>1
  <2>3. DOMAIN mid = DOMAIN args
    OBVIOUS
  <2>. HIDE DEF mid
  <2>. QED  BY <2>2, <2>3
<1>6. Mapped(h, item) = Made(item.isCall, Each(h, item.name), mid)
  BY <1>3 DEF Mapped
<1>. HIDE DEF mid
<1>7. Mapped(g, Mapped(h, item))
      = Made(item.isCall, Each(g, Each(h, item.name)), [j \in DOMAIN mid |-> Each(g, mid[j])])
  BY <1>6, MadeParts DEF Mapped
<1>8. Each(g, Each(h, item.name)) = Each(k, item.name)
  BY <1>1, <1>2
<1>. QED  BY <1>3, <1>5, <1>7, <1>8 DEF Mapped

LEMMA RawExcept ==
  ASSUME NEW item \in Raw, NEW n \in Path, NEW a \in Seq(Path)
  PROVE  [item EXCEPT !.name = n, !.args = a] = Made(item.isCall, n, a)
<1>1. PICK named \in Raw : named = [item EXCEPT !.name = n] /\ named = Made(item.isCall, n, item.args)
  <2>1. [item EXCEPT !.name = n] \in Raw
    BY DEF Raw
  <2>2. [item EXCEPT !.name = n] = Made(item.isCall, n, item.args)
    BY DEF Raw, Made
  <2>. QED  BY <2>1, <2>2
<1>2. named.isCall = item.isCall /\ named.name = n
  BY <1>1, MadeParts
<1>3. [named EXCEPT !.args = a] = Made(named.isCall, named.name, a)
  BY DEF Raw, Made
<1>. QED  BY <1>1, <1>2, <1>3

LEMMA PutMapped ==
  ASSUME NEW p \in Name, NEW v \in Path, NEW item \in Raw, item # Call(<<p>>, <<>>)
  PROVE  Put(p, v, item) = Mapped(One(p, v), item)
<1>1. item.name \in Path /\ item.args \in Seq(Path)
  BY RawParts
<1>2. \A w \in Path : Replaced(p, v, w) \in Path
  BY ReplacedEach, OneTyped, EachTyped DEF Path
<1>3. Put(p, v, item) = Made(item.isCall, Replaced(p, v, item.name),
                             [j \in DOMAIN item.args |-> Replaced(p, v, item.args[j])])
  <2>1. PICK args \in Seq(Path) : args = item.args
    BY <1>1
  <2>2. [j \in DOMAIN args |-> Replaced(p, v, args[j])] \in Seq(Path)
    <3>1. PICK n \in Nat : n = Len(args) /\ DOMAIN args = 1 .. n
      OBVIOUS
    <3>2. [j \in 1 .. n |-> Replaced(p, v, args[j])] \in [1 .. n -> Path]
      BY <1>2, <3>1
    <3>. QED  BY <3>1, <3>2
  <2>3. PICK named \in Path, replaced \in Seq(Path) :
          /\ named = Replaced(p, v, item.name)
          /\ replaced = [j \in DOMAIN item.args |-> Replaced(p, v, item.args[j])]
    BY <1>1, <1>2, <2>1, <2>2
  <2>4. Put(p, v, item) = [item EXCEPT !.name = named, !.args = replaced]
    BY <2>3 DEF Put, Raw
  <2>. QED  BY <2>3, <2>4, RawExcept
<1>4. Replaced(p, v, item.name) = Each(One(p, v), item.name)
  BY <1>1, ReplacedEach
<1>5. [j \in DOMAIN item.args |-> Replaced(p, v, item.args[j])]
      = [j \in DOMAIN item.args |-> Each(One(p, v), item.args[j])]
  <2>1. \A j \in DOMAIN item.args : item.args[j] \in Path
    BY <1>1
  <2>2. \A j \in DOMAIN item.args : Replaced(p, v, item.args[j]) = Each(One(p, v), item.args[j])
    BY <2>1, ReplacedEach
  <2>. QED  BY <2>2
<1>. QED  BY <1>3, <1>4, <1>5 DEF Mapped

\* An item after the first i parameters.
ItemAt(params, args, i, item) ==
  IF item.isCall /\ item.args = <<>> /\ First(params, i, item.name[1]) # {}
    THEN Word(Each(Val(params, args, i), item.name))
  ELSE Mapped(Val(params, args, i), item)

LEMMA ItemParts ==
  ASSUME NEW item \in Item
  PROVE  /\ item \in Raw
         /\ item.isCall => \E n \in Name : item.name = <<n>>
<1>1. item \in Raw /\ (item.isCall => Len(item.name) = 1)
  BY DEF Item, Raw
<1>2. item.name \in Seq(Name)
  BY <1>1, RawParts DEF Path
<1>3. ASSUME NEW w \in Seq(Name), Len(w) = 1  PROVE w[1] \in Name /\ w = <<w[1]>>
  BY <1>3
<1>. QED  BY <1>1, <1>2, <1>3

LEMMA WordRaw ==
  ASSUME NEW w \in Path
  PROVE  Word(w) = Made(FALSE, w, <<>>) /\ Word(w) \in Item /\ Word(w) \in Raw
<1>1. <<>> \in Seq(Path) /\ FALSE \in BOOLEAN
  OBVIOUS
<1>. QED  BY <1>1 DEF Word, Made, Item, Raw

LEMMA ReplacedAbsent ==
  ASSUME NEW p \in Name, NEW v \in Path, p \notin Items(v)
  PROVE  Replaced(p, v, v) = v
<1>1. v \in Seq(Name) /\ \A i \in DOMAIN v : v[i] \in Name /\ v[i] # p
  BY DEF Path, Items
<1>2. \A i \in DOMAIN v : One(p, v)[v[i]] = <<v[i]>>
  BY <1>1 DEF One
<1>3. Each(One(p, v), v) = v
  BY <1>1, <1>2, OneTyped, EachKeeps
<1>. QED  BY <1>3, ReplacedEach

\* {{ p }} is not given a value that p is then looked for in.
Clear(params, args, i, item) ==
  item = Call(<<params[i]>>, <<>>) => params[i] \notin Items(args[i])

LEMMA PutWord ==
  ASSUME NEW p \in Name, NEW v \in Path, NEW w \in Path
  PROVE  Put(p, v, Word(w)) = Word(Replaced(p, v, w))
<1>1. Word(w) # Call(<<p>>, <<>>)
  BY DEF Word, Call
<1>2. Put(p, v, Word(w)) = Mapped(One(p, v), Word(w))
  BY <1>1, WordRaw, PutMapped
<1>3. Mapped(One(p, v), Word(w)) = Made(FALSE, Each(One(p, v), w), [j \in DOMAIN <<>> |-> Each(One(p, v), <<>>[j])])
  <2>1. Word(w) = Made(FALSE, w, <<>>)
    BY WordRaw
  <2>2. Word(w).isCall = FALSE /\ Word(w).name = w /\ Word(w).args = <<>>
    BY DEF Word
  <2>. QED  BY <2>2, Zenon DEF Mapped
<1>4. [j \in DOMAIN <<>> |-> Each(One(p, v), <<>>[j])] = <<>>
  OBVIOUS
<1>5. Each(One(p, v), w) = Replaced(p, v, w)
  BY ReplacedEach
<1>. QED  BY <1>2, <1>3, <1>4, <1>5 DEF Word, Made

LEMMA ItemStep ==
  ASSUME NEW params, NEW args, NEW i, Filling(params, args, i), i # 0, Unmixed(params, args, i),
         NEW item \in Item, Clear(params, args, i, item)
  PROVE  Put(params[i], args[i], ItemAt(params, args, i - 1, item)) = ItemAt(params, args, i, item)
<1>. DEFINE p == params[i]
            v == args[i]
            was == Val(params, args, i - 1)
            now == Val(params, args, i)
<1>1. i \in Nat /\ i - 1 \in Nat /\ Filling(params, args, i - 1) /\ p \in Name /\ v \in Path
  BY DEF Filling, Path
<1>2. item \in Raw /\ (item.isCall => \E n \in Name : item.name = <<n>>)
  BY ItemParts
<1>3. item.name \in Path /\ item.name \in Seq(Name) /\ item.args \in Seq(Path) /\ item.isCall \in BOOLEAN
  BY <1>2, RawParts DEF Path
<1>4. was \in PiecesOf(Name, Name) /\ now \in PiecesOf(Name, Name) /\ One(p, v) \in PiecesOf(Name, Name)
  BY <1>1, ValTyped, OneTyped
<1>5. Composed(Name, One(p, v), was, now)
  BY ValueStep DEF Composed
<1>6. \A n : First(params, i, n) = First(params, i - 1, n) \cup (IF n = p THEN {i} ELSE {})
  <2>1. \A j : j \in 1 .. i <=> j \in 1 .. i - 1 \/ j = i
    BY <1>1
  <2>. QED  BY <2>1 DEF First
<1>7. Replaced(p, v, Each(was, item.name)) = Each(now, item.name)
  BY <1>3, WordStep
<1>8. CASE item.isCall /\ item.args = <<>> /\ First(params, i - 1, item.name[1]) # {}
  <2>1. ItemAt(params, args, i - 1, item) = Word(Each(was, item.name))
    BY <1>8 DEF ItemAt
  <2>2. ItemAt(params, args, i, item) = Word(Each(now, item.name))
    <3>1. First(params, i, item.name[1]) # {}
      BY <1>6, <1>8
    <3>. QED  BY <1>8, <3>1 DEF ItemAt
  <2>3. Each(was, item.name) \in Path
    <3>. HIDE DEF was
    <3>. QED  BY <1>3, <1>4, EachTyped DEF Path
  <2>4. Put(p, v, Word(Each(was, item.name))) = Word(Replaced(p, v, Each(was, item.name)))
    <3>. HIDE DEF p, v, was
    <3>. QED  BY <1>1, <2>3, PutWord
  <2>. QED  BY <1>7, <2>1, <2>2, <2>4
<1>9. CASE ~(item.isCall /\ item.args = <<>> /\ First(params, i - 1, item.name[1]) # {})
  <2>1. ItemAt(params, args, i - 1, item) = Mapped(was, item)
    BY <1>9 DEF ItemAt
  <2>2. Mapped(was, item) \in Raw
    <3>. HIDE DEF was
    <3>. QED  BY <1>2, <1>4, MappedTyped
  <2>3. CASE Mapped(was, item) = Call(<<p>>, <<>>)
    <3>1. item.isCall /\ item.args = <<>> /\ Each(was, item.name) = <<p>>
      <4>1. /\ Mapped(was, item).isCall = item.isCall /\ Mapped(was, item).name = Each(was, item.name)
            /\ Mapped(was, item).args = [j \in DOMAIN item.args |-> Each(was, item.args[j])]
        <5>. HIDE DEF was
        <5>. QED  BY MadeParts DEF Mapped
      <4>2. /\ Call(<<p>>, <<>>).isCall = TRUE /\ Call(<<p>>, <<>>).name = <<p>>
            /\ Call(<<p>>, <<>>).args = <<>>
        BY DEF Call
      <4>3. [j \in DOMAIN item.args |-> Each(was, item.args[j])] = <<>>
        BY <2>3, <4>1, <4>2
      <4>4. DOMAIN item.args = {}
        <5>. HIDE DEF was
        <5>. QED  BY <4>3
      <4>5. item.args = <<>>
        <5>1. \A s \in Seq(Path) : DOMAIN s = {} => s = <<>>
          OBVIOUS
        <5>. QED  BY <1>3, <4>4, <5>1
      <4>. QED  BY <1>3, <2>3, <4>1, <4>2, <4>5
    <3>2. PICK n \in Name : item.name = <<n>>
      BY <1>2, <3>1
    <3>3. Each(was, item.name) = was[n]
      <4>. HIDE DEF was
      <4>. QED  BY <1>4, <3>2, EachOne
    <3>4. First(params, i - 1, n) = {}
      BY <1>9, <3>1, <3>2
    <3>5. n = p
      BY <3>1, <3>3, <3>4 DEF Val
    <3>6. ItemAt(params, args, i, item) = Word(Each(now, item.name))
      <4>1. First(params, i, n) # {} /\ item.name[1] = n
        BY <1>6, <3>2, <3>5
      <4>. QED  BY <3>1, <4>1 DEF ItemAt
    <3>7. Each(now, item.name) = v
      <4>1. <<p>> \in Path /\ Replaced(p, v, <<p>>) = Each(One(p, v), <<p>>)
        <5>1. <<p>> \in Path
          BY <1>1 DEF Path
        <5>. HIDE DEF p, v
        <5>. QED  BY <1>1, <5>1, ReplacedEach
      <4>2. Each(One(p, v), <<p>>) = One(p, v)[p]
        <5>. HIDE DEF p, v
        <5>. QED  BY <1>1, <1>4, EachOne
      <4>3. One(p, v)[p] = v
        BY <1>1 DEF One
      <4>. QED  BY <1>7, <3>1, <4>1, <4>2, <4>3
    <3>8. Put(p, v, Mapped(was, item)) = Word(v)
      <4>1. item = Call(<<p>>, <<>>)
        BY <1>2, <3>1, <3>2, <3>5, RawParts DEF Made, Call
      <4>2. Replaced(p, v, v) = v
        <5>1. p \notin Items(v)
          BY <4>1 DEF Clear
        <5>. HIDE DEF p, v
        <5>. QED  BY <1>1, <5>1, ReplacedAbsent
      <4>3. Put(p, v, Mapped(was, item)) = Word(Replaced(p, v, v))
        BY <2>3 DEF Put
      <4>. QED  BY <4>2, <4>3
    <3>. QED  BY <2>1, <3>6, <3>7, <3>8
  <2>4. CASE Mapped(was, item) # Call(<<p>>, <<>>)
    <3>1. Put(p, v, Mapped(was, item)) = Mapped(One(p, v), Mapped(was, item))
      <4>. HIDE DEF p, v, was
      <4>. QED  BY <1>1, <2>2, <2>4, PutMapped
    <3>2. Mapped(One(p, v), Mapped(was, item)) = Mapped(now, item)
      <4>. HIDE DEF p, v, was, now
      <4>. QED  BY <1>2, <1>4, <1>5, MappedTwice
    <3>3. ItemAt(params, args, i, item) = Mapped(now, item)
      <4>1. ~(item.isCall /\ item.args = <<>> /\ First(params, i, item.name[1]) # {})
        <5>. SUFFICES ASSUME item.isCall, item.args = <<>>, First(params, i, item.name[1]) # {}
                      PROVE  FALSE
          OBVIOUS
        <5>1. PICK n \in Name : item.name = <<n>>
          BY <1>2
        <5>2. First(params, i - 1, n) = {} /\ n = p
          BY <1>6, <1>9, <5>1
        <5>3. was[n] = <<p>>
          BY <5>2 DEF Val
        <5>4. Each(was, item.name) = <<p>>
          <6>. HIDE DEF was
          <6>. QED  BY <1>4, <5>1, <5>3, EachOne
        <5>5. Mapped(was, item) = Call(<<p>>, <<>>)
          <6>1. [j \in DOMAIN <<>> |-> Each(was, <<>>[j])] = <<>>
            OBVIOUS
          <6>. HIDE DEF was
          <6>2. Mapped(was, item) = Made(TRUE, <<p>>, <<>>)
            BY <1>3, <5>4, <6>1 DEF Mapped
          <6>. QED  BY <6>2 DEF Made, Call
        <5>. QED  BY <2>4, <5>5
      <4>. QED  BY <4>1 DEF ItemAt
    <3>. QED  BY <2>1, <3>1, <3>2, <3>3
  <2>. QED  BY <2>3, <2>4
<1>. QED  BY <1>8, <1>9

-----------------------------------------------------------------------------
(* One parameter after the other, or all at once.                          *)

Smaller(m, n) == IF m <= n THEN m ELSE n

LEMMA SmallerOf ==
  ASSUME NEW m \in Nat, NEW n \in Nat
  PROVE  Smaller(m, n) \in Nat /\ Smaller(m, n) <= m /\ Smaller(m, n) <= n
         /\ \A j \in Nat : j <= m /\ j <= n => j <= Smaller(m, n)
BY DEF Smaller

\* Nothing is replaced by no parameter ...
LEMMA ItemNone ==
  ASSUME NEW params \in Path, NEW args \in Seq(Path), NEW item \in Item
  PROVE  ItemAt(params, args, 0, item) = item
<1>. DEFINE none == Val(params, args, 0)
<1>1. \A n : First(params, 0, n) = {}
  BY DEF First
<1>2. Filling(params, args, 0)
  BY DEF Filling, Path
<1>3. none \in PiecesOf(Name, Name)
  BY <1>2, ValTyped
<1>4. \A n \in Name : none[n] = <<n>>
  BY <1>1 DEF Val
<1>5. ItemAt(params, args, 0, item) = Mapped(none, item)
  BY <1>1 DEF ItemAt
<1>. HIDE DEF none
<1>6. ASSUME NEW w \in Path  PROVE Each(none, w) = w
  <2>1. w \in Seq(Name) /\ \A i \in DOMAIN w : w[i] \in Name
    BY DEF Path
  <2>2. \A i \in DOMAIN w : none[w[i]] = <<w[i]>>
    BY <1>4, <2>1
  <2>. QED  BY <1>3, <2>1, <2>2, EachKeeps
<1>7. item \in Raw
  BY ItemParts
<1>8. item.name \in Path /\ item.args \in Seq(Path) /\ item = Made(item.isCall, item.name, item.args)
  BY <1>7, RawParts
<1>9. [j \in DOMAIN item.args |-> Each(none, item.args[j])] = item.args
  <2>1. PICK a \in Seq(Path) : a = item.args
    BY <1>8
  <2>2. \A j \in DOMAIN a : a[j] \in Path
    OBVIOUS
  <2>3. [j \in DOMAIN a |-> Each(none, a[j])] = [j \in DOMAIN a |-> a[j]]
    BY <1>6, <2>2
  <2>4. [j \in DOMAIN a |-> a[j]] = a
    OBVIOUS
  <2>. QED  BY <2>1, <2>3, <2>4
<1>10. Each(none, item.name) = item.name
  BY <1>6, <1>8
<1>. QED  BY <1>5, <1>8, <1>9, <1>10 DEF Mapped

\* ... and all at once by those that have an argument.
LEMMA ItemAll ==
  ASSUME NEW params \in Path, NEW args \in Seq(Path), NEW item \in Item
  PROVE  ItemAt(params, args, Smaller(Len(params), Len(args)), item) = AtOnce(params, args, item)
<1>. DEFINE g == Smaller(Len(params), Len(args))
            val == Val(params, args, g)
<1>1. Len(params) \in Nat /\ Len(args) \in Nat /\ DOMAIN params = 1 .. Len(params)
  BY DEF Path
<1>2. g \in Nat /\ g <= Len(params) /\ g <= Len(args)
  BY <1>1, SmallerOf
<1>3. \A j \in Nat : j <= Len(params) /\ j <= Len(args) => j <= g
  BY <1>1, SmallerOf
<1>. HIDE DEF g
<1>4. \A n : Given(params, args, n) = First(params, g, n)
  <2>1. \A j : (j \in 1 .. Len(params) /\ j <= Len(args)) <=> j \in 1 .. g
    BY <1>1, <1>2, <1>3
  <2>. QED  BY <1>1, <2>1 DEF Given, First
<1>5. \A n \in Name : ValueOf(params, args, n) = val[n]
  BY <1>4 DEF ValueOf, Val
<1>6. ASSUME NEW w \in Path  PROVE AllReplaced(params, args, w) = Each(val, w)
  <2>1. \A j \in DOMAIN w : w[j] \in Name
    BY DEF Path
  <2>. HIDE DEF val
  <2>2. [j \in DOMAIN w |-> ValueOf(params, args, w[j])] = [j \in DOMAIN w |-> val[w[j]]]
    BY <1>5, <2>1
  <2>. QED  BY <2>2 DEF AllReplaced, Each
<1>7. item \in Raw
  BY ItemParts
<1>8. item.name \in Path /\ item.args \in Seq(Path)
  BY <1>7, RawParts
<1>9. AllReplaced(params, args, item.name) = Each(val, item.name)
  BY <1>6, <1>8
<1>10. [j \in DOMAIN item.args |-> AllReplaced(params, args, item.args[j])]
       = [j \in DOMAIN item.args |-> Each(val, item.args[j])]
  <2>1. \A j \in DOMAIN item.args : item.args[j] \in Path
    BY <1>8
  <2>. HIDE DEF val
  <2>2. \A j \in DOMAIN item.args : AllReplaced(params, args, item.args[j]) = Each(val, item.args[j])
    BY <1>6, <2>1
  <2>. QED  BY <2>2
<1>11. Given(params, args, item.name[1]) = First(params, g, item.name[1])
  BY <1>4
<1>12. ItemAt(params, args, g, item) = AtOnce(params, args, item)
  <2>. HIDE DEF val
  <2>1. ItemAt(params, args, g, item)
        = IF item.isCall /\ item.args = <<>> /\ First(params, g, item.name[1]) # {}
            THEN Word(Each(val, item.name)) ELSE Mapped(val, item)
    BY Zenon DEF ItemAt, val
  <2>2. Mapped(val, item) = [isCall |-> item.isCall, name |-> AllReplaced(params, args, item.name),
                             args |-> [j \in DOMAIN item.args |-> AllReplaced(params, args, item.args[j])]]
    BY <1>9, <1>10, Zenon DEF Mapped, Made
  <2>. QED  BY <1>9, <1>11, <2>1, <2>2, Zenon DEF AtOnce
<1>. QED  BY <1>12 DEF g

Fresh(m, args) ==
  \A i \in DOMAIN m.params : i <= Len(args) =>
    /\ Unmixed(m.params, args, i)
    /\ Call(<<m.params[i]>>, <<>>) \in Items(m.body) => m.params[i] \notin Items(args[i])

\* One parameter after the other, or all at once.
LEMMA SubstitutedAtOnce ==
  ASSUME NEW m \in MacroType, NEW args \in Seq(Path), Fresh(m, args)
  PROVE  Substituted(m.body, m.params, args) = Filled(m, args)
<1>1. m.params \in Path /\ m.body \in Text
  BY DEF MacroType
<1>2. PICK params \in Path, body \in Text : params = m.params /\ body = m.body
  BY <1>1
<1>3. Len(params) \in Nat /\ Len(args) \in Nat /\ DOMAIN params = 1 .. Len(params)
  BY DEF Path
<1>. DEFINE G == Smaller(Len(params), Len(args))
            Run(f) == f = [i \in 0 .. G |->
                             IF i = 0 THEN body
                             ELSE [k \in DOMAIN body |-> Put(params[i], args[i], f[i - 1][k])]]
            after == CHOOSE f : Run(f)
            At(i) == [k \in DOMAIN body |-> ItemAt(params, args, i, body[k])]
            W == [i \in 0 .. G |-> At(i)]
<1>4. G \in Nat /\ G <= Len(params) /\ G <= Len(args)
  BY <1>3, SmallerOf
<1>5. Substituted(body, params, args) = after[G]
  BY DEF Substituted, Smaller
<1>. HIDE DEF G
<1>6. \A k \in DOMAIN body : body[k] \in Item
  BY DEF Text
<1>7. At(0) = body
  <2>1. At(0) = [k \in DOMAIN body |-> body[k]]
    BY <1>6, ItemNone
  <2>2. [k \in DOMAIN body |-> body[k]] = body
    BY DEF Text
  <2>. QED  BY <2>1, <2>2
<1>8. ASSUME NEW i \in 1 .. G
      PROVE  At(i) = [k \in DOMAIN body |-> Put(params[i], args[i], At(i - 1)[k])]
  <2>1. i \in DOMAIN params /\ i <= Len(args) /\ i # 0 /\ i \in Nat /\ i <= Len(params)
    BY <1>3, <1>4
  <2>2. Filling(params, args, i) /\ Unmixed(params, args, i)
    BY <1>2, <2>1 DEF Filling, Fresh
  <2>3. ASSUME NEW k \in DOMAIN body
        PROVE  Put(params[i], args[i], At(i - 1)[k]) = ItemAt(params, args, i, body[k])
    <3>1. At(i - 1)[k] = ItemAt(params, args, i - 1, body[k])
      OBVIOUS
    <3>2. Clear(params, args, i, body[k])
      BY <1>2, <2>1 DEF Fresh, Clear, Items
    <3>. HIDE DEF At
    <3>. QED  BY <1>6, <2>1, <2>2, <3>1, <3>2, ItemStep
  <2>. QED  BY <2>3
<1>9. Run(W)
  <2>1. ASSUME NEW i \in 0 .. G
        PROVE  At(i) = IF i = 0 THEN body
                       ELSE [k \in DOMAIN body |-> Put(params[i], args[i], W[i - 1][k])]
    <3>1. CASE i = 0
      BY <1>7, <3>1
    <3>2. CASE i # 0
      <4>1. i \in 1 .. G /\ i - 1 \in 0 .. G
        BY <1>4, <3>2
      <4>2. W[i - 1] = At(i - 1)
        BY <4>1
      <4>. HIDE DEF W, At
      <4>3. At(i) = [k \in DOMAIN body |-> Put(params[i], args[i], At(i - 1)[k])]
        BY <1>8, <4>1
      <4>. QED  BY <3>2, <4>2, <4>3
    <3>. QED  BY <3>1, <3>2
  <2>. HIDE DEF At
  <2>2. W = [i \in 0 .. G |-> At(i)]
    OBVIOUS
  <2>. HIDE DEF W
  <2>. QED  BY <2>1, <2>2, Zenon
<1>10. Run(after)
  <2>. HIDE DEF W
  <2>. QED  BY <1>9
<1>. HIDE DEF after
<1>11. after[G] = At(G)
  <2>. DEFINE K == {n \in Nat : n <= G => after[n] = At(n)}
  <2>1. 0 \in K
    <3>1. 0 \in 0 .. G
      BY <1>4
    <3>2. after[0] = body
      BY <1>10, <3>1
    <3>. QED  BY <1>7, <3>2
  <2>2. ASSUME NEW n \in Nat, n \in K  PROVE n + 1 \in K
    <3>. SUFFICES ASSUME n + 1 <= G  PROVE after[n + 1] = At(n + 1)
      OBVIOUS
    <3>1. n + 1 \in 1 .. G /\ n + 1 \in 0 .. G /\ n + 1 # 0 /\ (n + 1) - 1 = n /\ n <= G
      BY <1>4
    <3>2. after[n] = At(n)
      BY <2>2, <3>1
    <3>. HIDE DEF At, K
    <3>3. after[n + 1] = [k \in DOMAIN body |-> Put(params[n + 1], args[n + 1], after[n][k])]
      BY <1>10, <3>1
    <3>4. At(n + 1) = [k \in DOMAIN body |-> Put(params[n + 1], args[n + 1], At(n)[k])]
      BY <1>8, <3>1
    <3>. QED  BY <3>2, <3>3, <3>4
  <2>. HIDE DEF K
  <2>3. Nat \subseteq K
    BY <2>1, <2>2, NaturalInduction
  <2>. HIDE DEF At
  <2>. QED  BY <1>4, <2>3 DEF K
<1>12. At(G) = [k \in DOMAIN body |-> AtOnce(params, args, body[k])]
  <2>1. \A k \in DOMAIN body : ItemAt(params, args, G, body[k]) = AtOnce(params, args, body[k])
    BY <1>6, ItemAll DEF G
  <2>. QED  BY <2>1
<1>. QED  BY <1>2, <1>5, <1>11, <1>12 DEF Filled

-----------------------------------------------------------------------------
(* Arguments that are not taken for parameters.                            *)

\* What is fixed while the columns are rendered.
Manifest ==
  /\ macros \in Seq(MacroType)
  /\ WellFounded
  /\ \A m \in MacroNames : Tidy(MacroNamed(m).body, Params(m))

LEMMA MacroNamedTyped ==
  ASSUME macros \in Seq(MacroType), NEW m \in MacroNames
  PROVE  MacroNamed(m) \in MacroType
<1>. DEFINE K == {k \in DOMAIN macros : <<macros[k].name>> = m}
            L == {Len(macros) - k : k \in K}
<1>1. Len(macros) \in Nat /\ DOMAIN macros = 1 .. Len(macros) /\ K \subseteq 1 .. Len(macros) /\ K # {}
  BY DEF MacroNames
<1>2. L \in SUBSET Nat /\ L # {}
  BY <1>1
<1>3. PICK l \in L : \A j \in L : l <= j
  <2>. HIDE DEF L
  <2>. QED  BY <1>2, LeastNatural
<1>4. PICK k \in K : l = Len(macros) - k
  BY <1>3
<1>5. \A j \in K : j <= k
  <2>. SUFFICES ASSUME NEW j \in K  PROVE j <= k
    OBVIOUS
  <2>1. Len(macros) - j \in L
    OBVIOUS
  <2>2. l <= Len(macros) - j
    BY <1>3, <2>1
  <2>. QED  BY <1>1, <1>4, <2>2
<1>6. \E i \in DOMAIN macros :
        <<macros[i].name>> = m /\ \A j \in DOMAIN macros : <<macros[j].name>> = m => j <= i
  BY <1>4, <1>5
<1>. DEFINE last == CHOOSE i \in DOMAIN macros :
        <<macros[i].name>> = m /\ \A j \in DOMAIN macros : <<macros[j].name>> = m => j <= i
<1>7. last \in DOMAIN macros
  BY <1>6
<1>8. MacroNamed(m) = macros[last]
  BY DEF MacroNamed
<1>. HIDE DEF last
<1>. QED  BY <1>7, <1>8

LEMMA MacroNamesFinite ==
  ASSUME macros \in Seq(MacroType)
  PROVE  IsFiniteSet(MacroNames)
<1>. DEFINE f == [k \in DOMAIN macros |-> <<macros[k].name>>]
<1>1. IsFiniteSet(DOMAIN macros)
  <2>1. Len(macros) \in Nat /\ DOMAIN macros = 1 .. Len(macros)
    OBVIOUS
  <2>. QED  BY <2>1, FS_Interval
<1>2. f \in Surjection(DOMAIN macros, MacroNames)
  BY DEF Surjection, MacroNames
<1>. HIDE DEF f
<1>. QED  BY <1>1, <1>2, FS_Surjection

\* Macro calls by a name in U only.
CallsIn(U) == {c \in Item : IsMacroCall(c) => c.name \in U}

TidyCall(c) ==
  /\ ArgWords(c) \cap Later = {}
  /\ \A i \in DOMAIN MacroNamed(c.name).params :
       MacroNamed(c.name).params[i] \in PassedOn(c.name) \cap Later => i <= Len(c.args)

TidyItem == {c \in Item : IsMacroCall(c) => TidyCall(c)}

LEMMA TidyText ==
  ASSUME NEW text \in Text, Tidy(text, {})
  PROVE  text \in Seq(TidyItem)
<1>1. \A i \in DOMAIN text : text[i] \in Item
  BY DEF Text
<1>2. \A i \in DOMAIN text : IsMacroCall(text[i]) => text[i] \in MacroCalls(text)
  BY DEF IsMacroCall, MacroCalls, Calls, Items
<1>3. \A i \in DOMAIN text : text[i] \in TidyItem
  BY <1>1, <1>2 DEF TidyItem, Tidy, TidyCall
<1>. QED  BY <1>3 DEF Text

LEMMA TidySubset == TidyItem \subseteq Item /\ Seq(TidyItem) \subseteq Text
<1>1. TidyItem \subseteq Item
  BY DEF TidyItem
<1>. QED  BY <1>1, SeqMonotone DEF Text

LEMMA FreshArgs ==
  ASSUME macros \in Seq(MacroType), NEW c \in TidyItem, IsMacroCall(c)
  PROVE  Fresh(MacroNamed(c.name), c.args)
<1>1. TidyCall(c) /\ c.name \in MacroNames /\ c \in Item
  BY DEF TidyItem, IsMacroCall
<1>2. c.args \in Seq(Path)
  BY <1>1, ItemParts, RawParts
<1>3. MacroNamed(c.name).params \in Path
  BY <1>1, MacroNamedTyped DEF MacroType
<1>4. PICK params \in Path, args \in Seq(Path) : params = MacroNamed(c.name).params /\ args = c.args
  BY <1>2, <1>3
<1>5. LookedFor(MacroNamed(c.name)) \cap ArgWords(c) = {}
  BY <1>1 DEF Later, TidyCall
<1>6. \A j \in DOMAIN args : Items(args[j]) \subseteq ArgWords(c)
  BY <1>4 DEF ArgWords
<1>. SUFFICES ASSUME NEW i \in DOMAIN params, i <= Len(args)
              PROVE  /\ Unmixed(params, args, i)
                     /\ Call(<<params[i]>>, <<>>) \in Items(MacroNamed(c.name).body)
                          => params[i] \notin Items(args[i])
  BY <1>4 DEF Fresh
<1>7. Len(args) \in Nat /\ DOMAIN args = 1 .. Len(args) /\ DOMAIN params = 1 .. Len(params) /\ i \in Nat
  BY DEF Path
<1>8. ASSUME i # 1  PROVE Unmixed(params, args, i)
  <2>1. params[i] \in LookedFor(MacroNamed(c.name))
    BY <1>4, <1>8 DEF LookedFor
  <2>2. \A j \in 1 .. i - 1 : j \in DOMAIN args
    BY <1>7
  <2>. QED  BY <1>5, <1>6, <2>1, <2>2 DEF Unmixed
<1>9. ASSUME i = 1  PROVE Unmixed(params, args, i)
  BY <1>9 DEF Unmixed
<1>10. ASSUME Call(<<params[i]>>, <<>>) \in Items(MacroNamed(c.name).body)
       PROVE  params[i] \notin Items(args[i])
  <2>1. params[i] \in LookedFor(MacroNamed(c.name))
    BY <1>4, <1>10 DEF LookedFor
  <2>2. i \in DOMAIN args
    BY <1>7
  <2>. QED  BY <1>5, <1>6, <2>1, <2>2
<1>. QED  BY <1>8, <1>9, <1>10

LEMMA AllReplacedTyped ==
  ASSUME NEW params \in Path, NEW args \in Seq(Path), NEW C \in SUBSET Name, NEW w \in Path,
         \A n \in Items(w) : ValueOf(params, args, n) \in Seq(C)
  PROVE  AllReplaced(params, args, w) \in Seq(C)
<1>. DEFINE g == [n \in Items(w) |-> ValueOf(params, args, n)]
<1>1. g \in PiecesOf(Items(w), C)
  BY DEF PiecesOf
<1>2. w \in Seq(Items(w))
  <2>1. w \in Seq(Name) /\ \A i \in DOMAIN w : w[i] \in Items(w)
    BY DEF Path, Items
  <2>. QED  BY <2>1
<1>3. AllReplaced(params, args, w) = Each(g, w)
  <2>1. \A i \in DOMAIN w : w[i] \in Items(w)
    BY DEF Items
  <2>2. [i \in DOMAIN w |-> ValueOf(params, args, w[i])] = [i \in DOMAIN w |-> g[w[i]]]
    BY <2>1
  <2>. HIDE DEF g
  <2>. QED  BY <2>2 DEF AllReplaced, Each
<1>. HIDE DEF g
<1>. QED  BY <1>1, <1>2, <1>3, EachTyped

LEMMA ValueTyped ==
  ASSUME NEW params \in Path, NEW args \in Seq(Path), NEW n \in Name
  PROVE  /\ Given(params, args, n) = {} => ValueOf(params, args, n) = <<n>>
         /\ Given(params, args, n) # {} => \E j \in DOMAIN args : ValueOf(params, args, n) = args[j]
         /\ ValueOf(params, args, n) \in Path
<1>. DEFINE S == Given(params, args, n)
<1>1. Len(params) \in Nat /\ Len(args) \in Nat /\ DOMAIN params = 1 .. Len(params) /\ DOMAIN args = 1 .. Len(args)
  BY DEF Path
<1>2. S \in SUBSET Nat /\ S \subseteq DOMAIN args
  BY <1>1 DEF Given
<1>3. S # {} => Min(S) \in DOMAIN args
  <2>. HIDE DEF S
  <2>. QED  BY <1>2, LeastOf
<1>4. S # {} => ValueOf(params, args, n) = args[Min(S)]
  BY DEF ValueOf
<1>5. S = {} => ValueOf(params, args, n) = <<n>>
  BY DEF ValueOf
<1>6. <<n>> \in Path
  BY DEF Path
<1>. QED  BY <1>3, <1>4, <1>5, <1>6

\* What filling in a macro makes of an item of its body.
Filling1(b, params, args, r) ==
  r.isCall => /\ b.isCall /\ r.name = b.name
              /\ r.args = [j \in DOMAIN b.args |-> AllReplaced(params, args, b.args[j])]

LEMMA FilledItem ==
  ASSUME Manifest, NEW m \in MacroNames, NEW args \in Seq(Path), NEW b \in Items(MacroNamed(m).body)
  PROVE  /\ AtOnce(MacroNamed(m).params, args, b) \in Item
         /\ Filling1(b, MacroNamed(m).params, args, AtOnce(MacroNamed(m).params, args, b))
<1>1. MacroNamed(m).params \in Path /\ MacroNamed(m).body \in Text
  BY MacroNamedTyped DEF Manifest, MacroType
<1>2. b \in Item
  BY <1>1 DEF Text, Items
<1>3. b \in Raw /\ (b.isCall => \E n \in Name : b.name = <<n>>)
  BY <1>2, ItemParts
<1>4. b.name \in Path /\ b.args \in Seq(Path) /\ b.isCall \in BOOLEAN
  BY <1>3, RawParts
<1>5. PICK params \in Path : params = MacroNamed(m).params
  BY <1>1
<1>. DEFINE r == AtOnce(params, args, b)
            as == [j \in DOMAIN b.args |-> AllReplaced(params, args, b.args[j])]
<1>6. \A w \in Path : AllReplaced(params, args, w) \in Path
  <2>. SUFFICES ASSUME NEW w \in Path  PROVE AllReplaced(params, args, w) \in Seq(Name)
    BY DEF Path
  <2>1. \A n \in Items(w) : n \in Name
    BY DEF Items, Path
  <2>2. \A n \in Items(w) : ValueOf(params, args, n) \in Seq(Name)
    BY <2>1, ValueTyped DEF Path
  <2>. QED  BY <2>2, AllReplacedTyped
<1>7. as \in Seq(Path)
  <2>1. PICK ba \in Seq(Path) : ba = b.args
    BY <1>4
  <2>2. PICK n \in Nat : n = Len(ba) /\ DOMAIN ba = 1 .. n
    OBVIOUS
  <2>3. [j \in 1 .. n |-> AllReplaced(params, args, ba[j])] \in [1 .. n -> Path]
    BY <1>6, <2>2
  <2>. QED  BY <2>1, <2>2, <2>3
<1>. HIDE DEF as
<1>8. AllReplaced(params, args, b.name) \in Path
  BY <1>4, <1>6
<1>9. CASE b.isCall /\ b.args = <<>> /\ Given(params, args, b.name[1]) # {}
  <2>1. r = Word(AllReplaced(params, args, b.name))
    BY <1>9 DEF AtOnce
  <2>2. r \in Item /\ ~r.isCall
    <3>1. Word(AllReplaced(params, args, b.name)) \in Item
      BY <1>8, WordRaw
    <3>2. ~Word(AllReplaced(params, args, b.name)).isCall
      BY DEF Word
    <3>. QED  BY <2>1, <3>1, <3>2
  <2>. QED  BY <1>5, <2>2 DEF Filling1
<1>10. CASE ~(b.isCall /\ b.args = <<>> /\ Given(params, args, b.name[1]) # {})
  <2>1. r = Made(b.isCall, AllReplaced(params, args, b.name), as)
    BY <1>10 DEF AtOnce, Made, as
  <2>2. /\ r.isCall = b.isCall /\ r.name = AllReplaced(params, args, b.name) /\ r.args = as
        /\ r \in Raw
    <3>. HIDE DEF r
    <3>. DEFINE c == b.isCall
                n == AllReplaced(params, args, b.name)
    <3>1. r.isCall = b.isCall /\ r.name = AllReplaced(params, args, b.name) /\ r.args = as
      <4>1. r = Made(c, n, as)
        BY <2>1
      <4>. HIDE DEF c, n
      <4>2. r.isCall = c /\ r.name = n /\ r.args = as
        BY <4>1 DEF Made
      <4>. QED  BY <4>2 DEF c, n
    <3>2. r \in Raw
      BY <1>4, <1>7, <1>8, <2>1, RawMade, Zenon
    <3>. QED  BY <3>1, <3>2, Zenon
  <2>3. CASE ~b.isCall
    <3>1. r \in Item
      <4>. HIDE DEF r
      <4>. QED  BY <2>2, <2>3 DEF Raw, Item
    <3>. QED  BY <1>5, <2>2, <2>3, <3>1 DEF Filling1
  <2>4. CASE b.isCall
    <3>1. PICK n \in Name : b.name = <<n>>
      BY <1>3, <2>4
    <3>2. Given(params, args, n) = {}
      <4>1. CASE b.args = <<>>
        BY <1>10, <2>4, <3>1, <4>1
      <4>2. CASE b.args # <<>>
        <5>1. b \in Calls(MacroNamed(m).body)
          BY <2>4 DEF Calls
        <5>2. Items(b.name) \cap Params(m) = {}
          BY <4>2, <5>1 DEF Manifest, WellFounded
        <5>3. n \in Items(b.name)
          BY <3>1 DEF Items
        <5>4. \A i \in DOMAIN params : params[i] # n
          BY <1>5, <5>2, <5>3 DEF Params
        <5>. QED  BY <5>4 DEF Given
      <4>. QED  BY <4>1, <4>2
    <3>3. AllReplaced(params, args, <<n>>) = <<n>>
      <4>1. ValueOf(params, args, n) = <<n>>
        BY <3>2, ValueTyped
      <4>2. [i \in DOMAIN <<n>> |-> ValueOf(params, args, <<n>>[i])] = << <<n>> >>
        BY <4>1
      <4>. DEFINE id == [x \in Name |-> <<x>>]
      <4>3. id \in PiecesOf(Name, Name) /\ id[n] = <<n>>
        BY DEF PiecesOf
      <4>4. Each(id, <<n>>) = id[n]
        <5>. HIDE DEF id
        <5>. QED  BY <4>3, EachOne
      <4>5. [i \in DOMAIN <<n>> |-> id[<<n>>[i]]] = << <<n>> >>
        OBVIOUS
      <4>. HIDE DEF id
      <4>. QED  BY <4>2, <4>3, <4>4, <4>5 DEF AllReplaced, Each
    <3>4. r.name = <<n>> /\ r \in Item
      <4>. HIDE DEF r
      <4>1. r.name = <<n>>
        BY <2>2, <3>1, <3>3
      <4>2. Len(<<n>>) = 1
        OBVIOUS
      <4>. QED  BY <2>2, <4>1, <4>2 DEF Raw, Item
    <3>. QED  BY <1>5, <2>2, <2>4, <3>1, <3>4 DEF Filling1, as
  <2>. QED  BY <2>3, <2>4
<1>. QED  BY <1>9, <1>10

-----------------------------------------------------------------------------
(* What a pass makes of a text.                                            *)

\* A macro's body that is filled in calls what the macro calls.
LEMMA FilledCalls ==
  ASSUME Manifest, NEW m \in MacroNames, NEW args \in Seq(Path), NEW U, CalledBy(m) \cap MacroNames \subseteq U
  PROVE  Filled(MacroNamed(m), args) \in Seq(CallsIn(U)) /\ Filled(MacroNamed(m), args) \in Text
<1>1. MacroNamed(m).params \in Path /\ MacroNamed(m).body \in Text
  BY MacroNamedTyped DEF Manifest, MacroType
<1>2. PICK params \in Path, body \in Text : params = MacroNamed(m).params /\ body = MacroNamed(m).body
  BY <1>1
<1>3. PICK n \in Nat : n = Len(body) /\ DOMAIN body = 1 .. n
  BY DEF Text
<1>4. ASSUME NEW j \in 1 .. n  PROVE AtOnce(params, args, body[j]) \in CallsIn(U)
  <2>. DEFINE b == body[j]
              r == AtOnce(params, args, b)
  <2>1. b \in Items(MacroNamed(m).body)
    BY <1>2, <1>3 DEF Items
  <2>2. r \in Item /\ Filling1(b, params, args, r)
    <3>. HIDE DEF b
    <3>. QED  BY <1>2, <2>1, FilledItem
  <2>3. ASSUME IsMacroCall(r)  PROVE r.name \in U
    <3>1. r.isCall /\ r.name \in MacroNames
      BY <2>3 DEF IsMacroCall
    <3>2. b.isCall /\ r.name = b.name
      BY <2>2, <3>1 DEF Filling1
    <3>3. b.name \in CalledBy(m)
      BY <2>1, <3>2 DEF CalledBy, Calls
    <3>. QED  BY <3>1, <3>2, <3>3
  <2>. QED  BY <2>2, <2>3 DEF CallsIn
<1>5. [j \in 1 .. n |-> AtOnce(params, args, body[j])] \in [1 .. n -> CallsIn(U)]
  BY <1>4
<1>6. Filled(MacroNamed(m), args) = [j \in 1 .. n |-> AtOnce(params, args, body[j])]
  BY <1>2, <1>3 DEF Filled
<1>7. Filled(MacroNamed(m), args) \in Seq(CallsIn(U))
  BY <1>5, <1>6
<1>8. CallsIn(U) \subseteq Item
  BY DEF CallsIn
<1>. QED  BY <1>7, <1>8, SeqMonotone DEF Text

LEMMA FilledTidyItem ==
  ASSUME Manifest, NEW c \in TidyItem, IsMacroCall(c), NEW b \in Items(MacroNamed(c.name).body)
  PROVE  AtOnce(MacroNamed(c.name).params, c.args, b) \in TidyItem
<1>. DEFINE m == c.name
            params == MacroNamed(m).params
            args == c.args
            r == AtOnce(params, args, b)
<1>1. TidyCall(c) /\ m \in MacroNames /\ c \in Item
  BY DEF TidyItem, IsMacroCall
<1>2. args \in Seq(Path)
  BY <1>1, ItemParts, RawParts
<1>3. params \in Path /\ MacroNamed(m).body \in Text
  BY <1>1, MacroNamedTyped DEF Manifest, MacroType
<1>4. r \in Item /\ Filling1(b, params, args, r)
  BY <1>1, <1>2, FilledItem
<1>5. b \in Item
  BY <1>3 DEF Items, Text
<1>6. b.args \in Seq(Path)
  BY <1>5, ItemParts, RawParts
<1>. SUFFICES ASSUME IsMacroCall(r)  PROVE TidyCall(r)
  BY <1>4 DEF TidyItem
<1>7. /\ b.isCall /\ r.name = b.name /\ r.name \in MacroNames
      /\ r.args = [j \in DOMAIN b.args |-> AllReplaced(params, args, b.args[j])]
  BY <1>4 DEF IsMacroCall, Filling1
<1>8. b \in MacroCalls(MacroNamed(m).body)
  BY <1>7 DEF MacroCalls, Calls
<1>9. /\ ArgWords(b) \cap Later \subseteq Params(m)
      /\ \A i \in DOMAIN MacroNamed(b.name).params :
           MacroNamed(b.name).params[i] \in PassedOn(b.name) \cap Later => i <= Len(b.args)
  BY <1>1, <1>8 DEF Manifest, Tidy
<1>10. ASSUME NEW n \in ArgWords(b), n \in Name  PROVE ValueOf(params, args, n) \in Seq(Name \ Later)
  <2>1. CASE Given(params, args, n) = {}
    <3>1. ValueOf(params, args, n) = <<n>>
      <4>. HIDE DEF params, args
      <4>. QED  BY <1>2, <1>3, <1>10, <2>1, ValueTyped
    <3>2. n \notin Later
      <4>. SUFFICES ASSUME n \in Later  PROVE FALSE
        OBVIOUS
      <4>1. n \in Params(m)
        BY <1>9, <1>10
      <4>2. PICK i \in DOMAIN params : params[i] = n
        BY <4>1 DEF Params
      <4>3. n \in PassedOn(m)
        BY <1>8, <1>10, <4>1 DEF PassedOn
      <4>4. i <= Len(args)
        BY <1>1, <4>2, <4>3 DEF TidyCall
      <4>5. i \in Given(params, args, n)
        BY <4>2, <4>4 DEF Given
      <4>. QED  BY <2>1, <4>5
    <3>3. <<n>> \in Seq(Name \ Later)
      BY <1>10, <3>2
    <3>. QED  BY <3>1, <3>3
  <2>2. CASE Given(params, args, n) # {}
    <3>1. PICK j \in DOMAIN args : ValueOf(params, args, n) = args[j]
      <4>. HIDE DEF params, args
      <4>. QED  BY <1>2, <1>3, <1>10, <2>2, ValueTyped
    <3>2. args[j] \in Seq(Name)
      <4>. HIDE DEF args
      <4>. QED  BY <1>2 DEF Path
    <3>3. Items(args[j]) \subseteq ArgWords(c)
      BY DEF ArgWords
    <3>4. \A k \in DOMAIN args[j] : args[j][k] \in Name \ Later
      <4>. HIDE DEF args
      <4>. QED  BY <1>1, <3>2, <3>3 DEF TidyCall, Items
    <3>5. args[j] \in Seq(Name \ Later)
      <4>. HIDE DEF args
      <4>. QED  BY <3>2, <3>4
    <3>. QED  BY <3>1, <3>5
  <2>. QED  BY <2>1, <2>2
<1>11. ASSUME NEW j \in DOMAIN b.args  PROVE AllReplaced(params, args, b.args[j]) \in Seq(Name \ Later)
  <2>1. b.args[j] \in Path
    BY <1>6
  <2>2. \A n \in Items(b.args[j]) : n \in Name /\ n \in ArgWords(b)
    BY <2>1 DEF Items, Path, ArgWords
  <2>3. \A n \in Items(b.args[j]) : ValueOf(params, args, n) \in Seq(Name \ Later)
    <3>. HIDE DEF params, args
    <3>. QED  BY <1>10, <2>2
  <2>4. Name \ Later \in SUBSET Name
    OBVIOUS
  <2>. HIDE DEF params, args
  <2>. QED  BY <1>2, <1>3, <2>1, <2>3, <2>4, AllReplacedTyped
<1>12. ArgWords(r) \cap Later = {}
  <2>. SUFFICES ASSUME NEW j \in DOMAIN r.args, NEW n \in Items(r.args[j]), n \in Later  PROVE FALSE
    BY DEF ArgWords
  <2>1. j \in DOMAIN b.args /\ r.args[j] = AllReplaced(params, args, b.args[j])
    <3>. HIDE DEF params, args, r
    <3>. QED  BY <1>7
  <2>2. PICK w \in Seq(Name \ Later) : w = r.args[j]
    BY <1>11, <2>1
  <2>3. \A k \in DOMAIN w : w[k] \notin Later
    OBVIOUS
  <2>. QED  BY <2>2, <2>3 DEF Items
<1>13. Len(r.args) = Len(b.args)
  <2>1. PICK ba \in Seq(Path) : ba = b.args
    BY <1>6
  <2>2. PICK k \in Nat : k = Len(ba) /\ DOMAIN ba = 1 .. k
    OBVIOUS
  <2>3. Len([j \in 1 .. k |-> AllReplaced(params, args, ba[j])]) = k
    OBVIOUS
  <2>. QED  BY <1>7, <2>1, <2>2, <2>3
<1>. QED  BY <1>7, <1>9, <1>12, <1>13, Zenon DEF TidyCall

LEMMA FilledTidy ==
  ASSUME Manifest, NEW c \in TidyItem, IsMacroCall(c)
  PROVE  Filled(MacroNamed(c.name), c.args) \in Seq(TidyItem)
<1>1. c.name \in MacroNames
  BY DEF IsMacroCall
<1>2. MacroNamed(c.name).body \in Text
  BY <1>1, MacroNamedTyped DEF Manifest, MacroType
<1>3. PICK body \in Text : body = MacroNamed(c.name).body
  BY <1>2
<1>4. PICK n \in Nat : n = Len(body) /\ DOMAIN body = 1 .. n
  BY DEF Text
<1>5. \A j \in 1 .. n : AtOnce(MacroNamed(c.name).params, c.args, body[j]) \in TidyItem
  BY <1>3, <1>4, FilledTidyItem DEF Items
<1>6. [j \in 1 .. n |-> AtOnce(MacroNamed(c.name).params, c.args, body[j])] \in [1 .. n -> TidyItem]
  BY <1>5
<1>. QED  BY <1>3, <1>4, <1>6 DEF Filled

\* What a pass makes of an item.
Exp == [c \in TidyItem |-> IF IsMacroCall(c) THEN Filled(MacroNamed(c.name), c.args) ELSE <<c>>]

LEMMA ExpTyped ==
  ASSUME Manifest
  PROVE  Exp \in PiecesOf(TidyItem, TidyItem) /\ Exp \in PiecesOf(TidyItem, Item)
<1>1. \A c \in TidyItem : Exp[c] \in Seq(TidyItem)
  BY FilledTidy DEF Exp
<1>2. Seq(TidyItem) \subseteq Seq(Item)
  BY TidySubset DEF Text
<1>. QED  BY <1>1, <1>2 DEF PiecesOf, Exp

LEMMA PassEach ==
  ASSUME Manifest, NEW text \in Seq(TidyItem)
  PROVE  Pass(text) = Each(Exp, text) /\ Pass(text) \in Seq(TidyItem)
<1>1. ASSUME NEW c \in TidyItem  PROVE Expansion(c) = Exp[c]
  <2>1. CASE IsMacroCall(c)
    <3>1. c.name \in MacroNames /\ c \in Item
      BY <2>1 DEF IsMacroCall, TidyItem
    <3>2. c.args \in Seq(Path)
      BY <3>1, ItemParts, RawParts
    <3>3. MacroNamed(c.name) \in MacroType /\ Fresh(MacroNamed(c.name), c.args)
      BY <2>1, <3>1, MacroNamedTyped, FreshArgs DEF Manifest
    <3>4. Substituted(MacroNamed(c.name).body, MacroNamed(c.name).params, c.args)
          = Filled(MacroNamed(c.name), c.args)
      BY <3>2, <3>3, SubstitutedAtOnce
    <3>. QED  BY <2>1, <3>4 DEF Expansion, Exp
  <2>2. CASE ~IsMacroCall(c)
    BY <2>2 DEF Expansion, Exp
  <2>. QED  BY <2>1, <2>2
<1>2. \A i \in DOMAIN text : text[i] \in TidyItem
  OBVIOUS
<1>3. [i \in DOMAIN text |-> Expansion(text[i])] = [i \in DOMAIN text |-> Exp[text[i]]]
  BY <1>1, <1>2
<1>4. Pass(text) = Each(Exp, text)
  BY <1>3 DEF Pass, Each
<1>. QED  BY <1>4, ExpTyped, EachTyped

-----------------------------------------------------------------------------
(* What a text means.                                                      *)

\* The macro calls of an item followed as f follows them.
Deeper(f) ==
  [c \in Item |-> IF IsMacroCall(c) THEN f[Filled(MacroNamed(c.name), c.args)] ELSE <<c>>]

Follow == [f \in [Text -> Text] |-> [t \in Text |-> Each(Deeper(f), t)]]
Unfollowed == [t \in Text |-> t]

\* F[d] follows calls that are d deep.
Follows(F) == Orbit([Text -> Text], Unfollowed, Follow, F)

LEMMA FilledText ==
  ASSUME Manifest, NEW c \in Item, IsMacroCall(c)
  PROVE  Filled(MacroNamed(c.name), c.args) \in Text
<1>1. c.name \in MacroNames
  BY DEF IsMacroCall
<1>2. c.args \in Seq(Path)
  BY ItemParts, RawParts
<1>3. PICK m \in MacroNames, args \in Seq(Path) : m = c.name /\ args = c.args
  BY <1>1, <1>2
<1>. QED  BY <1>3, FilledCalls

LEMMA DeeperTyped ==
  ASSUME Manifest, NEW f \in [Text -> Text]
  PROVE  Deeper(f) \in PiecesOf(Item, Item)
<1>1. ASSUME NEW c \in Item  PROVE Deeper(f)[c] \in Seq(Item)
  <2>1. CASE IsMacroCall(c)
    <3>1. Filled(MacroNamed(c.name), c.args) \in Text
      BY <2>1, FilledText
    <3>. QED  BY <2>1, <3>1 DEF Deeper, Text
  <2>2. CASE ~IsMacroCall(c)
    BY <2>2 DEF Deeper
  <2>. QED  BY <2>1, <2>2
<1>. QED  BY <1>1 DEF Deeper, PiecesOf

LEMMA FollowTyped ==
  ASSUME Manifest
  PROVE  Steps([Text -> Text], Unfollowed, Follow)
<1>1. Unfollowed \in [Text -> Text]
  BY DEF Unfollowed
<1>2. ASSUME NEW f \in [Text -> Text]  PROVE Follow[f] \in [Text -> Text]
  <2>1. \A t \in Text : Each(Deeper(f), t) \in Text
    BY DeeperTyped, EachTyped DEF Text
  <2>. QED  BY <2>1 DEF Follow
<1>. QED  BY <1>1, <1>2 DEF Steps, Follow

LEMMA FollowStep ==
  ASSUME NEW F, Follows(F), NEW d \in Nat, NEW t \in Text
  PROVE  F[0][t] = t /\ F[d] \in [Text -> Text] /\ F[d + 1][t] = Each(Deeper(F[d]), t)
<1>1. F[0] = Unfollowed /\ F[d] \in [Text -> Text] /\ F[d + 1] = Follow[F[d]]
  BY DEF Follows, Orbit
<1>. QED  BY <1>1 DEF Unfollowed, Follow

LEMMA MeaningFollows ==
  ASSUME Manifest
  PROVE  \E F : Follows(F) /\ \A text \in Text : Meaning(text) = F[Cardinality(MacroNames)][text]
<1>. DEFINE Level(g, d) ==
       [t \in Text |->
          IF d = 0 THEN t
          ELSE FlattenSeq([k \in DOMAIN t |->
                 IF IsMacroCall(t[k]) THEN g[Filled(MacroNamed(t[k].name), t[k].args)]
                 ELSE <<t[k]>>])]
<1>1. PICK F : Follows(F)
  BY FollowTyped, Iterates DEF Follows
<1>2. F[0] = Level(F[0-1], 0) /\ F \in [Nat -> [Text -> Text]]
  BY <1>1 DEF Follows, Orbit, Unfollowed
<1>3. ASSUME NEW n \in Nat  PROVE F[n + 1] = Level(F[n], n + 1)
  <2>1. F[n + 1] \in [Text -> Text] /\ F[n] \in [Text -> Text]
    BY <1>2
  <2>2. ASSUME NEW t \in Text  PROVE F[n + 1][t] = Level(F[n], n + 1)[t]
    <3>1. F[n + 1][t] = Each(Deeper(F[n]), t)
      BY <1>1, FollowStep
    <3>2. \A k \in DOMAIN t : t[k] \in Item
      BY DEF Text
    <3>3. [k \in DOMAIN t |-> Deeper(F[n])[t[k]]]
          = [k \in DOMAIN t |-> IF IsMacroCall(t[k]) THEN F[n][Filled(MacroNamed(t[k].name), t[k].args)]
                                ELSE <<t[k]>>]
      BY <3>2 DEF Deeper
    <3>4. n + 1 # 0
      OBVIOUS
    <3>. QED  BY <3>1, <3>3, <3>4 DEF Each
  <2>. QED  BY <2>1, <2>2
<1>. DEFINE Run(f) == f = [d \in Nat |-> Level(f[d - 1], d)]
            H == CHOOSE f : Run(f)
<1>4. Run(F)
  <2>1. \A d \in Nat : F[d] = Level(F[d - 1], d)
    <3>. SUFFICES ASSUME NEW d \in Nat  PROVE F[d] = Level(F[d - 1], d)
      OBVIOUS
    <3>1. CASE d = 0
      BY <1>2, <3>1
    <3>2. CASE d # 0
      <4>1. d - 1 \in Nat /\ (d - 1) + 1 = d
        BY <3>2
      <4>. HIDE DEF Level
      <4>. QED  BY <1>3, <4>1
    <3>. QED  BY <3>1, <3>2
  <2>. HIDE DEF Level
  <2>. QED  BY <1>2, <2>1
<1>5. Run(H)
  BY <1>4
<1>6. \A text : Meaning(text) = H[Cardinality(MacroNames)][text]
  BY DEF Meaning
<1>. HIDE DEF H
<1>7. \A d \in Nat : H[d] = Level(H[d - 1], d)
  <2>. HIDE DEF Level
  <2>. QED  BY <1>5
<1>8. \A d \in Nat : H[d] = F[d]
  <2>. DEFINE K == {d \in Nat : H[d] = F[d]}
  <2>1. 0 \in K
    BY <1>2, <1>7
  <2>2. ASSUME NEW n \in Nat, n \in K  PROVE n + 1 \in K
    <3>1. n + 1 \in Nat /\ (n + 1) - 1 = n
      OBVIOUS
    <3>. HIDE DEF Level
    <3>. QED  BY <1>3, <1>7, <2>2, <3>1
  <2>. HIDE DEF K
  <2>3. Nat \subseteq K
    BY <2>1, <2>2, NaturalInduction
  <2>. QED  BY <2>3 DEF K
<1>9. Cardinality(MacroNames) \in Nat
  BY MacroNamesFinite, FS_CardinalityType DEF Manifest
<1>. QED  BY <1>1, <1>6, <1>8, <1>9

\* Going one deeper is following what a pass has made.
LEMMA FollowPass ==
  ASSUME Manifest, NEW F, Follows(F), NEW d \in Nat, NEW t \in Seq(TidyItem)
  PROVE  F[d + 1][t] = F[d][Pass(t)]
<1>1. Pass(t) = Each(Exp, t) /\ Pass(t) \in Seq(TidyItem) /\ t \in Text /\ Pass(t) \in Text
  BY PassEach, TidySubset
<1>2. F[d + 1][t] = Each(Deeper(F[d]), t)
  BY <1>1, FollowStep
<1>3. CASE d = 0
  <2>1. F[0][Pass(t)] = Pass(t)
    BY <1>1, FollowStep
  <2>2. ASSUME NEW c \in TidyItem  PROVE Deeper(F[0])[c] = Exp[c]
    <3>1. c \in Item
      BY TidySubset
    <3>2. CASE IsMacroCall(c)
      <4>1. Filled(MacroNamed(c.name), c.args) \in Text
        BY <3>1, <3>2, FilledText
      <4>2. F[0][Filled(MacroNamed(c.name), c.args)] = Filled(MacroNamed(c.name), c.args)
        BY <4>1, FollowStep
      <4>. QED  BY <3>1, <3>2, <4>2 DEF Deeper, Exp
    <3>3. CASE ~IsMacroCall(c)
      BY <3>1, <3>3 DEF Deeper, Exp
    <3>. QED  BY <3>2, <3>3
  <2>3. \A i \in DOMAIN t : t[i] \in TidyItem
    OBVIOUS
  <2>4. \A i \in DOMAIN t : Deeper(F[0])[t[i]] = Exp[t[i]]
    BY <2>2, <2>3
  <2>5. Each(Deeper(F[0]), t) = Each(Exp, t)
    BY <2>4, EachSame
  <2>. QED  BY <1>1, <1>2, <1>3, <2>1, <2>5
<1>4. CASE d # 0
  <2>1. PICK e \in Nat : d = e + 1
    <3>1. d - 1 \in Nat /\ d = (d - 1) + 1
      BY <1>4
    <3>. QED  BY <3>1
  <2>2. F[e] \in [Text -> Text] /\ F[e + 1] \in [Text -> Text]
    BY DEF Follows, Orbit
  <2>3. F[e + 1][Pass(t)] = Each(Deeper(F[e]), Pass(t))
    BY <1>1, FollowStep
  <2>4. Exp \in PiecesOf(TidyItem, Item) /\ Deeper(F[e]) \in PiecesOf(Item, Item)
    BY <2>2, ExpTyped, DeeperTyped
  <2>5. Composed(TidyItem, Deeper(F[e]), Exp, Deeper(F[e + 1]))
    <3>. SUFFICES ASSUME NEW c \in TidyItem
                  PROVE  Each(Deeper(F[e]), Exp[c]) = Deeper(F[e + 1])[c]
      BY DEF Composed
    <3>1. c \in Item
      BY TidySubset
    <3>2. CASE IsMacroCall(c)
      <4>1. Filled(MacroNamed(c.name), c.args) \in Text
        BY <3>1, <3>2, FilledText
      <4>2. F[e + 1][Filled(MacroNamed(c.name), c.args)]
            = Each(Deeper(F[e]), Filled(MacroNamed(c.name), c.args))
        BY <4>1, FollowStep
      <4>3. Exp[c] = Filled(MacroNamed(c.name), c.args)
        BY <3>2 DEF Exp
      <4>4. Deeper(F[e + 1])[c] = F[e + 1][Filled(MacroNamed(c.name), c.args)]
        BY <3>1, <3>2 DEF Deeper
      <4>. QED  BY <4>2, <4>3, <4>4
    <3>3. CASE ~IsMacroCall(c)
      <4>1. Exp[c] = <<c>> /\ Deeper(F[e])[c] = <<c>> /\ Deeper(F[e + 1])[c] = <<c>>
        BY <3>1, <3>3 DEF Deeper, Exp
      <4>2. Each(Deeper(F[e]), <<c>>) = Deeper(F[e])[c]
        BY <2>4, <3>1, EachOne
      <4>. QED  BY <4>1, <4>2
    <3>. QED  BY <3>2, <3>3
  <2>6. Each(Deeper(F[e]), Each(Exp, t)) = Each(Deeper(F[e + 1]), t)
    BY <2>4, <2>5, EachTwice
  <2>. QED  BY <1>1, <1>2, <2>1, <2>3, <2>6
<1>. QED  BY <1>3, <1>4

-----------------------------------------------------------------------------
(* Nothing is left to follow after as many levels as there are macros.     *)

\* No macro of U calls a macro that is not in U.
Closed(U) == U \subseteq MacroNames /\ \A m \in U : CalledBy(m) \cap MacroNames \subseteq U

\* None of U calls s.
Source(s, U) == s \in U /\ \A m \in U : s \notin CalledBy(m)

LEMMA SomeSource ==
  ASSUME Manifest, NEW U \in SUBSET MacroNames, U # {}
  PROVE  \E s \in U : Source(s, U)
<1>. DEFINE K == {n \in Nat : \A T \in SUBSET MacroNames :
                     T # {} /\ IsFiniteSet(T) /\ Cardinality(T) = n => \E s \in T : Source(s, T)}
<1>1. 0 \in K
  <2>1. \A T \in SUBSET MacroNames : IsFiniteSet(T) /\ Cardinality(T) = 0 => T = {}
    BY FS_EmptySet
  <2>. QED  BY <2>1
<1>2. ASSUME NEW n \in Nat, n \in K  PROVE n + 1 \in K
  <2>. SUFFICES ASSUME NEW T \in SUBSET MacroNames, T # {}, IsFiniteSet(T), Cardinality(T) = n + 1
                PROVE  \E s \in T : Source(s, T)
    OBVIOUS
  <2>1. PICK last \in T : CalledBy(last) \cap T = {}
    BY DEF Manifest, WellFounded
  <2>. DEFINE R == T \ {last}
  <2>2. IsFiniteSet(R) /\ Cardinality(R) = n /\ R \in SUBSET MacroNames
    <3>1. Cardinality(R) = Cardinality(T) - 1 /\ IsFiniteSet(R)
      BY FS_RemoveElement
    <3>. QED  BY <3>1
  <2>3. CASE R = {}
    BY <2>1, <2>3 DEF Source
  <2>4. CASE R # {}
    <3>1. PICK s \in R : Source(s, R)
      BY <1>2, <2>2, <2>4
    <3>2. s \notin CalledBy(last)
      BY <2>1
    <3>. QED  BY <3>1, <3>2 DEF Source
  <2>. QED  BY <2>3, <2>4
<1>. HIDE DEF K
<1>3. Nat \subseteq K
  BY <1>1, <1>2, NaturalInduction
<1>4. IsFiniteSet(U) /\ Cardinality(U) \in Nat
  BY MacroNamesFinite, FS_Subset, FS_CardinalityType DEF Manifest
<1>. QED  BY <1>3, <1>4 DEF K

LEMMA WithoutSource ==
  ASSUME Manifest, NEW U, Closed(U), NEW s, Source(s, U)
  PROVE  /\ Closed(U \ {s})
         /\ \A m \in U : CalledBy(m) \cap MacroNames \subseteq U \ {s}
         /\ \A n \in Nat : Cardinality(U) = n + 1 => Cardinality(U \ {s}) = n
<1>1. IsFiniteSet(U)
  BY MacroNamesFinite, FS_Subset DEF Manifest, Closed
<1>2. s \in U
  BY DEF Source
<1>3. \A n \in Nat : Cardinality(U) = n + 1 => Cardinality(U \ {s}) = n
  BY <1>1, <1>2, FS_RemoveElement
<1>. QED  BY <1>3 DEF Closed, Source

LEMMA EmptyOrSource ==
  ASSUME Manifest, NEW U, Closed(U), NEW n \in Nat, Cardinality(U) = n
  PROVE  (n = 0 => U = {}) /\ (n # 0 => \E s : Source(s, U))
<1>1. IsFiniteSet(U) /\ U \in SUBSET MacroNames
  BY MacroNamesFinite, FS_Subset DEF Manifest, Closed
<1>2. U = {} <=> n = 0
  BY <1>1, FS_EmptySet
<1>3. U # {} => \E s \in U : Source(s, U)
  BY <1>1, SomeSource
<1>. QED  BY <1>2, <1>3

\* A text without macro calls is what it means.
LEMMA FollowNone ==
  ASSUME Manifest, NEW F, Follows(F), NEW t \in Seq(CallsIn({})), NEW d \in Nat
  PROVE  F[d][t] = t
<1>1. t \in Text /\ \A i \in DOMAIN t : t[i] \in Item /\ ~IsMacroCall(t[i])
  <2>1. CallsIn({}) \subseteq Item
    BY DEF CallsIn
  <2>2. \A i \in DOMAIN t : t[i] \in CallsIn({})
    OBVIOUS
  <2>. QED  BY <2>1, <2>2, SeqMonotone DEF Text, CallsIn
<1>2. CASE d = 0
  BY <1>1, <1>2, FollowStep
<1>3. CASE d # 0
  <2>1. PICK e \in Nat : d = e + 1
    <3>1. d - 1 \in Nat /\ d = (d - 1) + 1
      BY <1>3
    <3>. QED  BY <3>1
  <2>2. F[e] \in [Text -> Text] /\ F[e + 1][t] = Each(Deeper(F[e]), t)
    BY <1>1, FollowStep
  <2>3. Deeper(F[e]) \in PiecesOf(Item, Item)
    BY <2>2, DeeperTyped
  <2>4. \A i \in DOMAIN t : Deeper(F[e])[t[i]] = <<t[i]>>
    BY <1>1 DEF Deeper
  <2>5. t \in Seq(Item)
    BY <1>1 DEF Text
  <2>6. Each(Deeper(F[e]), t) = t
    BY <2>3, <2>4, <2>5, EachKeeps
  <2>. QED  BY <2>1, <2>2, <2>6
<1>. QED  BY <1>2, <1>3

Settled(F, U, n) == \A d \in Nat : d >= n => \A t \in Seq(CallsIn(U)) : F[d][t] = F[d + 1][t]

\* Deeper than there are macros nothing is left to follow.
LEMMA FollowSettles ==
  ASSUME Manifest, NEW F, Follows(F)
  PROVE  \A n \in Nat : \A U \in SUBSET MacroNames : Closed(U) /\ Cardinality(U) = n => Settled(F, U, n)
<1>. DEFINE K == {n \in Nat : \A U \in SUBSET MacroNames :
                                Closed(U) /\ Cardinality(U) = n => Settled(F, U, n)}
<1>1. 0 \in K
  <2>1. \A U \in SUBSET MacroNames : Closed(U) /\ Cardinality(U) = 0 => U = {}
    BY EmptyOrSource
  <2>2. Settled(F, {}, 0)
    <3>. SUFFICES ASSUME NEW d \in Nat, NEW t \in Seq(CallsIn({}))  PROVE F[d][t] = F[d + 1][t]
      BY DEF Settled
    <3>1. F[d][t] = t
      BY FollowNone
    <3>2. d + 1 \in Nat
      OBVIOUS
    <3>3. F[d + 1][t] = t
      BY <3>2, FollowNone
    <3>. QED  BY <3>1, <3>3
  <2>. QED  BY <2>1, <2>2
<1>2. ASSUME NEW n \in Nat, n \in K  PROVE n + 1 \in K
  <2>. SUFFICES ASSUME NEW U \in SUBSET MacroNames, Closed(U), Cardinality(U) = n + 1
                PROVE  Settled(F, U, n + 1)
    OBVIOUS
  <2>1. n + 1 \in Nat /\ n + 1 # 0
    OBVIOUS
  <2>2. PICK s : Source(s, U)
    BY <2>1, EmptyOrSource
  <2>. DEFINE R == U \ {s}
  <2>3. /\ Closed(R) /\ Cardinality(R) = n /\ R \in SUBSET MacroNames
        /\ \A m \in U : CalledBy(m) \cap MacroNames \subseteq R
    BY <2>2, WithoutSource
  <2>4. Settled(F, R, n)
    <3>. HIDE DEF R
    <3>. QED  BY <1>2, <2>3
  <2>. HIDE DEF R
  <2>. SUFFICES ASSUME NEW d \in Nat, d >= n + 1, NEW t \in Seq(CallsIn(U))
                PROVE  F[d][t] = F[d + 1][t]
    BY DEF Settled
  <2>5. PICK e \in Nat : d = e + 1 /\ e >= n
    <3>1. d - 1 \in Nat /\ d = (d - 1) + 1 /\ d - 1 >= n
      OBVIOUS
    <3>. QED  BY <3>1
  <2>6. \A i \in DOMAIN t : t[i] \in CallsIn(U)
    OBVIOUS
  <2>7. CallsIn(U) \subseteq Item
    BY DEF CallsIn
  <2>8. t \in Text
    BY <2>7, SeqMonotone DEF Text
  <2>9. e + 1 \in Nat /\ F[e + 1][t] = Each(Deeper(F[e]), t) /\ F[(e + 1) + 1][t] = Each(Deeper(F[e + 1]), t)
    <3>1. e + 1 \in Nat
      OBVIOUS
    <3>. QED  BY <2>8, <3>1, FollowStep
  <2>10. ASSUME NEW c \in CallsIn(U)  PROVE Deeper(F[e])[c] = Deeper(F[e + 1])[c]
    <3>1. c \in Item
      BY <2>7
    <3>2. CASE IsMacroCall(c)
      <4>1. c.name \in U /\ c.name \in MacroNames /\ c.args \in Seq(Path)
        BY <3>1, <3>2, ItemParts, RawParts DEF CallsIn, IsMacroCall
      <4>2. PICK m \in U, args \in Seq(Path) : m = c.name /\ args = c.args
        BY <4>1
      <4>3. Filled(MacroNamed(m), args) \in Seq(CallsIn(R))
        BY <2>3, <4>1, <4>2, FilledCalls
      <4>4. F[e][Filled(MacroNamed(m), args)] = F[e + 1][Filled(MacroNamed(m), args)]
        BY <2>4, <2>5, <4>3 DEF Settled
      <4>. QED  BY <3>1, <3>2, <4>2, <4>4 DEF Deeper
    <3>3. CASE ~IsMacroCall(c)
      BY <3>1, <3>3 DEF Deeper
    <3>. QED  BY <3>2, <3>3
  <2>11. Each(Deeper(F[e]), t) = Each(Deeper(F[e + 1]), t)
    BY <2>6, <2>10, EachSame
  <2>. QED  BY <2>5, <2>9, <2>11
<1>. HIDE DEF K
<1>3. Nat \subseteq K
  BY <1>1, <1>2, NaturalInduction
<1>. QED  BY <1>3 DEF K

\* A pass over calls of U calls nothing that no macro of U calls.
LEMMA PassCalls ==
  ASSUME Manifest, NEW U, Closed(U), NEW s, Source(s, U), NEW t \in Seq(TidyItem), t \in Seq(CallsIn(U))
  PROVE  Pass(t) \in Seq(CallsIn(U \ {s}))
<1>1. Pass(t) = Each(Exp, t)
  BY PassEach
<1>. DEFINE A == TidyItem \cap CallsIn(U)
            C == CallsIn(U \ {s})
            g == [c \in A |-> Exp[c]]
<1>2. ASSUME NEW c \in A  PROVE Exp[c] \in Seq(C)
  <2>1. c \in Item /\ c \in TidyItem
    BY TidySubset
  <2>2. CASE IsMacroCall(c)
    <3>1. c.name \in U /\ c.name \in MacroNames /\ c.args \in Seq(Path)
      BY <2>1, <2>2, ItemParts, RawParts DEF CallsIn, IsMacroCall
    <3>2. PICK m \in U, args \in Seq(Path) : m = c.name /\ args = c.args
      BY <3>1
    <3>3. CalledBy(m) \cap MacroNames \subseteq U \ {s}
      BY WithoutSource
    <3>4. Filled(MacroNamed(m), args) \in Seq(CallsIn(U \ {s}))
      BY <3>1, <3>2, <3>3, FilledCalls
    <3>. QED  BY <2>1, <2>2, <3>2, <3>4 DEF Exp
  <2>3. CASE ~IsMacroCall(c)
    <3>1. Exp[c] = <<c>>
      BY <2>1, <2>3 DEF Exp
    <3>2. c \in C
      BY <2>1, <2>3 DEF CallsIn
    <3>. QED  BY <3>1, <3>2
  <2>. QED  BY <2>2, <2>3
<1>3. g \in PiecesOf(A, C)
  BY <1>2 DEF PiecesOf
<1>4. t \in Seq(A)
  <2>1. \A i \in DOMAIN t : t[i] \in TidyItem /\ t[i] \in CallsIn(U)
    OBVIOUS
  <2>2. \A i \in DOMAIN t : t[i] \in A
    BY <2>1
  <2>. HIDE DEF A
  <2>. QED  BY <2>2
<1>5. \A i \in DOMAIN t : t[i] \in A
  BY <1>4
<1>6. Each(g, t) = Each(Exp, t)
  BY <1>5, EachSame
<1>. HIDE DEF A, C, g
<1>7. Each(g, t) \in Seq(C)
  BY <1>3, <1>4, EachTyped
<1>. QED  BY <1>1, <1>6, <1>7 DEF C

\* A text that a pass does not change has no macro call.
LEMMA FixedCallsNone ==
  ASSUME Manifest, NEW t \in Seq(TidyItem), Pass(t) = t
  PROVE  t \in Seq(CallsIn({}))
<1>. DEFINE K == {n \in Nat : \A U \in SUBSET MacroNames :
                     Closed(U) /\ Cardinality(U) = n /\ t \in Seq(CallsIn(U)) => t \in Seq(CallsIn({}))}
<1>1. 0 \in K
  BY EmptyOrSource
<1>2. ASSUME NEW n \in Nat, n \in K  PROVE n + 1 \in K
  <2>. SUFFICES ASSUME NEW U \in SUBSET MacroNames, Closed(U), Cardinality(U) = n + 1, t \in Seq(CallsIn(U))
                PROVE  t \in Seq(CallsIn({}))
    OBVIOUS
  <2>1. n + 1 \in Nat /\ n + 1 # 0
    OBVIOUS
  <2>2. PICK s : Source(s, U)
    BY <2>1, EmptyOrSource
  <2>3. Closed(U \ {s}) /\ Cardinality(U \ {s}) = n /\ U \ {s} \in SUBSET MacroNames
    BY <2>2, WithoutSource
  <2>4. t \in Seq(CallsIn(U \ {s}))
    BY <2>2, PassCalls
  <2>. QED  BY <1>2, <2>3, <2>4
<1>. HIDE DEF K
<1>3. Nat \subseteq K
  BY <1>1, <1>2, NaturalInduction
<1>4. Cardinality(MacroNames) \in Nat /\ Closed(MacroNames)
  BY MacroNamesFinite, FS_CardinalityType DEF Manifest, Closed
<1>5. t \in Seq(CallsIn(MacroNames))
  <2>1. \A i \in DOMAIN t : t[i] \in CallsIn(MacroNames)
    BY TidySubset DEF CallsIn, IsMacroCall
  <2>. QED  BY <2>1
<1>. QED  BY <1>3, <1>4, <1>5 DEF K

\* A pass does not change what a text means.
LEMMA MeaningOfPass ==
  ASSUME Manifest, NEW t \in Seq(TidyItem)
  PROVE  Meaning(Pass(t)) = Meaning(t)
<1>. DEFINE N == Cardinality(MacroNames)
<1>1. PICK F : Follows(F) /\ \A text \in Text : Meaning(text) = F[N][text]
  BY MeaningFollows
<1>2. N \in Nat /\ Closed(MacroNames)
  BY MacroNamesFinite, FS_CardinalityType DEF Manifest, Closed
<1>3. t \in Text /\ Pass(t) \in Text
  BY PassEach, TidySubset
<1>4. t \in Seq(CallsIn(MacroNames))
  <2>1. \A i \in DOMAIN t : t[i] \in CallsIn(MacroNames)
    BY TidySubset DEF CallsIn, IsMacroCall
  <2>. QED  BY <2>1
<1>5. Settled(F, MacroNames, N)
  BY <1>1, <1>2, FollowSettles
<1>. HIDE DEF N
<1>6. F[N][t] = F[N + 1][t]
  <2>1. N >= N
    BY <1>2
  <2>. QED  BY <1>2, <1>4, <1>5, <2>1 DEF Settled
<1>7. F[N + 1][t] = F[N][Pass(t)]
  BY <1>1, <1>2, FollowPass
<1>. QED  BY <1>1, <1>3, <1>6, <1>7

\* A text that a pass does not change is what it means.
LEMMA MeaningOfFixed ==
  ASSUME Manifest, NEW t \in Seq(TidyItem), Pass(t) = t
  PROVE  Meaning(t) = t
<1>1. PICK F : Follows(F) /\ \A text \in Text : Meaning(text) = F[Cardinality(MacroNames)][text]
  BY MeaningFollows
<1>2. Cardinality(MacroNames) \in Nat
  BY MacroNamesFinite, FS_CardinalityType DEF Manifest
<1>3. t \in Text
  BY TidySubset
<1>4. t \in Seq(CallsIn({}))
  BY FixedCallsNone
<1>. QED  BY <1>1, <1>2, <1>3, <1>4, FollowNone

-----------------------------------------------------------------------------
(* Rendering.                                                              *)

RenderedInv ==
  /\ macros \in Seq(MacroType) /\ original \in Seq(Text)
  /\ expressions = [k \in DOMAIN original |-> expressions[k]]
  /\ column \in Nat \ {0}

\* What the passes keep where the macros are well-founded and hygienic.
Rendered ==
  /\ \A k \in DOMAIN original :
       /\ expressions[k] \in Seq(TidyItem)
       /\ Meaning(expressions[k]) = Meaning(original[k])
  /\ \A k \in DOMAIN original : k < column => Pass(expressions[k]) = expressions[k]
  /\ prev # <<>> => column \in DOMAIN original /\ expressions[column] = Pass(prev)

MacrosInv == RenderedInv /\ (WellFounded /\ Hygienic => Rendered)

LEMMA ManifestOf ==
  ASSUME RenderedInv, WellFounded, Hygienic
  PROVE  Manifest
BY DEF RenderedInv, Hygienic, Manifest

LEMMA MacrosInitInv == MacrosInit => MacrosInv
<1>. SUFFICES ASSUME MacrosInit  PROVE MacrosInv
  OBVIOUS
<1>1. RenderedInv
  BY DEF MacrosInit, RenderedInv
<1>2. ASSUME WellFounded, Hygienic  PROVE Rendered
  <2>1. \A k \in DOMAIN original : original[k] \in Text /\ Tidy(original[k], {})
    BY <1>2 DEF Hygienic, MacrosInit
  <2>2. \A k \in DOMAIN original : original[k] \in Seq(TidyItem)
    BY <2>1, TidyText
  <2>3. \A k \in DOMAIN original : ~(k < column)
    BY DEF MacrosInit
  <2>. QED  BY <2>2, <2>3 DEF MacrosInit, Rendered
<1>. QED  BY <1>1, <1>2 DEF MacrosInv

LEMMA PassNone == Pass(<<>>) = <<>>
<1>1. [i \in DOMAIN <<>> |-> Expansion(<<>>[i])] = <<>>
  OBVIOUS
<1>. QED  BY <1>1, FlattenNone DEF Pass

\* The macros stay, and with them all that is said about them.
LEMMA MacrosStay ==
  ASSUME macros' = macros, original' = original
  PROVE  /\ (WellFounded /\ Hygienic)' <=> WellFounded /\ Hygienic
         /\ TidyItem' = TidyItem
         /\ \A t : Meaning(t)' = Meaning(t) /\ Pass(t)' = Pass(t)
<1>1. MacroNames' = MacroNames /\ Later' = Later
  BY DEF MacroNames, Later, LookedFor, Call, Items, MacroNamed
<1>2. (WellFounded /\ Hygienic)' <=> WellFounded /\ Hygienic
  BY DEF WellFounded, Hygienic, CalledBy, Calls, Items, Tidy, MacroCalls, ArgWords, Later, LookedFor,
         Call, PassedOn, Params, MacroNamed, MacroNames
<1>3. TidyItem' = TidyItem
  BY DEF TidyItem, TidyCall, IsMacroCall, PassedOn, Params, MacroCalls, Calls, Items, ArgWords, Later,
         LookedFor, Call, MacroNamed, MacroNames
<1>4. ASSUME NEW t  PROVE Meaning(t)' = Meaning(t)
  BY DEF Meaning, Filled, IsMacroCall, MacroNamed, MacroNames
<1>5. ASSUME NEW t  PROVE Pass(t)' = Pass(t)
  BY DEF Pass, Expansion, IsMacroCall, MacroNamed, MacroNames
<1>. QED  BY <1>2, <1>3, <1>4, <1>5

LEMMA ExpandPassInv ==
  ASSUME MacrosInv, ExpandPass
  PROVE  MacrosInv'
<1>1. /\ macros' = macros /\ original' = original /\ column' = column
      /\ prev' = expressions[column] /\ column \in DOMAIN expressions
      /\ expressions' = [expressions EXCEPT ![column] = Pass(expressions[column])]
  BY DEF ExpandPass, Rendering
<1>2. RenderedInv /\ DOMAIN expressions = DOMAIN original
  BY DEF MacrosInv, RenderedInv
<1>3. RenderedInv'
  <2>1. expressions' = [k \in DOMAIN original |-> expressions'[k]]
    BY <1>1, <1>2
  <2>. QED  BY <1>1, <1>2, <2>1 DEF RenderedInv
<1>4. /\ expressions'[column] = Pass(expressions[column])
      /\ \A k \in DOMAIN original : k # column => expressions'[k] = expressions[k]
  BY <1>1, <1>2
<1>5. ASSUME WellFounded, Hygienic  PROVE Rendered'
  <2>1. Rendered /\ Manifest
    BY <1>2, <1>5, ManifestOf DEF MacrosInv
  <2>2. ASSUME NEW k \in DOMAIN original
        PROVE  expressions'[k] \in Seq(TidyItem) /\ Meaning(expressions'[k]) = Meaning(original[k])
    <3>1. expressions[k] \in Seq(TidyItem) /\ Meaning(expressions[k]) = Meaning(original[k])
      BY <2>1 DEF Rendered
    <3>2. CASE k = column
      BY <1>4, <2>1, <3>1, <3>2, PassEach, MeaningOfPass
    <3>3. CASE k # column
      BY <1>4, <3>1, <3>3
    <3>. QED  BY <3>2, <3>3
  <2>3. ASSUME NEW k \in DOMAIN original, k < column  PROVE Pass(expressions'[k]) = expressions'[k]
    <3>1. k # column
      BY <2>3, <1>2 DEF RenderedInv
    <3>. QED  BY <1>4, <2>1, <2>3, <3>1 DEF Rendered
  <2>4. column \in DOMAIN original /\ expressions'[column] = Pass(prev')
    BY <1>1, <1>2, <1>4
  <2>. QED  BY <1>1, <2>2, <2>3, <2>4, MacrosStay DEF Rendered
<1>. QED  BY <1>1, <1>3, <1>5, MacrosStay DEF MacrosInv

LEMMA NextColumnInv ==
  ASSUME MacrosInv, NextColumn
  PROVE  MacrosInv'
<1>1. /\ macros' = macros /\ original' = original /\ expressions' = expressions
      /\ column' = column + 1 /\ prev' = <<>>
      /\ column \in DOMAIN expressions /\ expressions[column] = prev
  BY DEF NextColumn, Rendering
<1>2. RenderedInv /\ DOMAIN expressions = DOMAIN original
  BY DEF MacrosInv, RenderedInv
<1>3. RenderedInv'
  BY <1>1, <1>2 DEF RenderedInv
<1>4. ASSUME WellFounded, Hygienic  PROVE Rendered'
  <2>1. Rendered
    BY <1>4 DEF MacrosInv
  <2>2. Pass(expressions[column]) = expressions[column]
    <3>1. CASE prev = <<>>
      BY <1>1, <3>1, PassNone
    <3>2. CASE prev # <<>>
      BY <1>1, <2>1, <3>2 DEF Rendered
    <3>. QED  BY <3>1, <3>2
  <2>3. ASSUME NEW k \in DOMAIN original, k < column + 1  PROVE Pass(expressions[k]) = expressions[k]
    <3>1. k = column \/ k < column
      BY <1>2, <2>3 DEF RenderedInv
    <3>. QED  BY <2>1, <2>2, <2>3, <3>1 DEF Rendered
  <2>4. \A k \in DOMAIN original :
          expressions[k] \in Seq(TidyItem) /\ Meaning(expressions[k]) = Meaning(original[k])
    BY <2>1 DEF Rendered
  <2>. QED  BY <1>1, <2>3, <2>4, MacrosStay DEF Rendered
<1>. QED  BY <1>1, <1>3, <1>4, MacrosStay DEF MacrosInv

LEMMA MacrosStutterInv ==
  ASSUME MacrosInv, UNCHANGED macrosVars
  PROVE  MacrosInv'
<1>1. /\ macros' = macros /\ original' = original /\ expressions' = expressions
      /\ column' = column /\ prev' = prev
  BY DEF macrosVars
<1>2. RenderedInv' <=> RenderedInv
  BY <1>1 DEF RenderedInv
<1>3. Rendered' <=> Rendered
  BY <1>1, MacrosStay DEF Rendered
<1>. QED  BY <1>1, <1>2, <1>3, MacrosStay DEF MacrosInv

LEMMA MacrosExact == MacrosInv => ExpansionExact
<1>. SUFFICES ASSUME MacrosInv, WellFounded, Hygienic, NEW k \in DOMAIN original, k < column
              PROVE  expressions[k] = Meaning(original[k])
  BY DEF ExpansionExact
<1>1. Rendered /\ Manifest
  BY ManifestOf DEF MacrosInv
<1>2. /\ expressions[k] \in Seq(TidyItem) /\ Meaning(expressions[k]) = Meaning(original[k])
      /\ Pass(expressions[k]) = expressions[k]
  BY <1>1 DEF Rendered
<1>. QED  BY <1>1, <1>2, MeaningOfFixed

\* Expanding pass after pass gives each column what its macros mean.
THEOREM ExpansionIsExact == MacrosSpec => []ExpansionExact
<1>1. MacrosInv /\ [MacrosNext]_macrosVars => MacrosInv'
  BY ExpandPassInv, NextColumnInv, MacrosStutterInv DEF MacrosNext
<1>. QED  BY <1>1, MacrosInitInv, MacrosExact, PTL DEF MacrosSpec

-----------------------------------------------------------------------------
(* From a manifest to its required fields.                                 *)

RenderedLineageInv == MacrosInv /\ LineageInv /\ (~analysed => LineageInit)

LEMMA RenderedInitInv == RenderedInit => RenderedLineageInv
BY MacrosInitInv, LineageInitInv DEF RenderedInit, RenderedLineageInv

\* Steps that leave the macros, or the lineage, alone.
LEMMA LineageAlone ==
  ASSUME LineageInv, UNCHANGED lineageVars
  PROVE  LineageInv' /\ (LineageInit => LineageInit')
<1>1. LineageInv'
  BY LineageStutterInv
<1>2. LineageInit => LineageInit'
  <2>1. LeastClosed' = LeastClosed
    BY RequestFixed DEF lineageVars
  <2>. QED  BY <2>1 DEF LineageInit, lineageVars, request, collectVars, sortingVars
<1>. QED  BY <1>1, <1>2

LEMMA AnalyzeBegins ==
  ASSUME RenderedLineageInv, AnalyzeLineage
  PROVE  LineageInit'
<1>1. LineageInit
  BY DEF RenderedLineageInv, AnalyzeLineage
<1>2. source' \in [Field -> SUBSET Field] /\ needed' = LeastClosed'
  BY DEF AnalyzeLineage
<1>3. /\ asked' = asked /\ askedLeft' = askedLeft /\ calls' = calls /\ fields' = fields /\ links' = links
      /\ inDegree' = inDegree /\ queue' = queue /\ result' = result /\ lineage' = lineage
  BY DEF AnalyzeLineage, collectVars, sortingVars
<1>4. [v \in {} |-> 0]' = [v \in {} |-> 0]
  OBVIOUS
<1>. QED  BY <1>1, <1>2, <1>3 DEF LineageInit

LEMMA RenderedStepInv == RenderedLineageInv /\ [RenderedNext]_renderedVars => RenderedLineageInv'
<1>. SUFFICES ASSUME RenderedLineageInv, [RenderedNext]_renderedVars
              PROVE  RenderedLineageInv'
  OBVIOUS
<1>1. MacrosInv /\ LineageInv
  BY DEF RenderedLineageInv
<1>2. CASE RenderStep
  <2>1. MacrosInv'
    BY <1>1, <1>2, ExpandPassInv, NextColumnInv DEF RenderStep, MacrosNext
  <2>2. UNCHANGED lineageVars /\ analysed' = analysed
    BY <1>2 DEF RenderStep
  <2>. QED  BY <1>1, <2>1, <2>2, LineageAlone DEF RenderedLineageInv
<1>3. CASE AnalyzeLineage
  <2>1. MacrosInv'
    BY <1>1, <1>3, MacrosStutterInv DEF AnalyzeLineage
  <2>2. LineageInit'
    BY <1>3, AnalyzeBegins
  <2>3. LineageInit' => LineageInv'
    BY LineageInitInv, PTL
  <2>. QED  BY <1>3, <2>1, <2>2, <2>3 DEF RenderedLineageInv, AnalyzeLineage
<1>4. CASE LineageStep
  <2>1. MacrosInv'
    BY <1>1, <1>4, MacrosStutterInv DEF LineageStep
  <2>2. LineageInv' /\ analysed'
    BY <1>1, <1>4, LineageStepInv DEF LineageStep
  <2>. QED  BY <2>1, <2>2 DEF RenderedLineageInv
<1>5. CASE UNCHANGED renderedVars
  <2>1. UNCHANGED lineageVars /\ UNCHANGED macrosVars /\ analysed' = analysed
    BY <1>5 DEF renderedVars
  <2>. QED  BY <1>1, <2>1, LineageAlone, MacrosStutterInv DEF RenderedLineageInv
<1>. QED  BY <1>2, <1>3, <1>4, <1>5 DEF RenderedNext

\* Whatever the manifest and its macros, each column has the expression its
\* macros mean (RenderJinja) when its lineage is analysed, and the lineage
\* keeps its invariant from there to the answer of RequiredFields.
THEOREM RenderedLineageInvariant == RenderedSpec => [](LineageInv /\ ExpansionExact)
<1>1. RenderedLineageInv => LineageInv /\ ExpansionExact
  BY MacrosExact DEF RenderedLineageInv
<1>. QED  BY RenderedInitInv, RenderedStepInv, <1>1, PTL DEF RenderedSpec

\* A step is one of RequiredFields, or its lineage begins anew.
LEMMA RenderedMoves ==
  RenderedLineageInv /\ [RenderedNext]_renderedVars => [LineageNext]_lineageVars \/ LineageInit'
<1>. SUFFICES ASSUME RenderedLineageInv, [RenderedNext]_renderedVars
              PROVE  [LineageNext]_lineageVars \/ LineageInit'
  OBVIOUS
<1>1. CASE AnalyzeLineage
  BY <1>1, AnalyzeBegins
<1>2. CASE ~AnalyzeLineage
  BY <1>2 DEF RenderedNext, RenderStep, LineageStep, renderedVars
<1>. QED  BY <1>1, <1>2

\* What RequiredFields (lineage.go) answers from a rendered manifest is exact,
\* and so is its cycle error, whatever part of an expression was parsed.
THEOREM RenderedAnswersExact == RenderedSpec => [](RequiredFieldsExact /\ CycleErrorExact)
<1>. DEFINE Full == lineage = "sorted" => Len(result) = Cardinality(Vertices)
            Refused == lineage = "cycle" => CircleNeeded
<1>1. LineageInit => Full /\ Refused
  BY DEF LineageInit
<1>2. LineageInv /\ Full /\ Refused /\ [LineageNext]_lineageVars => Full' /\ Refused'
  BY AnswerLength, CycleStep
<1>3. LineageInv /\ Full /\ Refused => RequiredFieldsExact /\ CycleErrorExact
  <2>1. LineageInv /\ Full => RequiredFieldsExact
    BY AnswerExact DEF RequiredFieldsExact
  <2>2. LineageInv /\ RequiredFieldsExact /\ Refused => CycleErrorExact
    BY OrderedNoCircle, NoneLeft DEF CycleErrorExact, CircleNeeded
  <2>. QED  BY <2>1, <2>2
<1>4. RenderedInit => LineageInit
  BY DEF RenderedInit
<1>5. RenderedLineageInv => LineageInv
  BY DEF RenderedLineageInv
<1>. HIDE DEF Full, Refused
<1>. QED  BY RenderedInitInv, RenderedStepInv, RenderedMoves, <1>1, <1>2, <1>3, <1>4, <1>5, PTL
          DEF RenderedSpec

\* So is the reason of a stack overflow.
THEOREM RenderedOverflowExact ==
  ASSUME IsFiniteSet(Field), Cardinality(Field) <= MaxDepth
  PROVE  RenderedSpec => []OverflowOnlyInFieldCircle
<1>1. LineageInit => CallChain /\ OverflowOnlyInFieldCircle
  BY DEF LineageInit, CallChain, OverflowOnlyInFieldCircle
<1>2. LineageInv /\ CallChain /\ [LineageNext]_lineageVars => CallChain'
  BY ChainStep
<1>3. LineageInv /\ CallChain /\ OverflowOnlyInFieldCircle /\ [LineageNext]_lineageVars
        => OverflowOnlyInFieldCircle'
  BY OverflowStep
<1>4. RenderedInit => LineageInit
  BY DEF RenderedInit
<1>5. RenderedLineageInv => LineageInv
  BY DEF RenderedLineageInv
<1>. QED  BY RenderedInitInv, RenderedStepInv, RenderedMoves, <1>1, <1>2, <1>3, <1>4, <1>5, PTL
          DEF RenderedSpec

\* From the moment the expressions are analysed, RequiredFields implements the
\* promise of a rewrite rule for the tables of a rendered manifest.
THEOREM RenderedImplementsPlan == RenderedSpec => ImplementsPlan
<1>1. RenderedInit => Plan!PlanInit
  BY LineagePlanInit DEF RenderedInit
<1>2. RenderedLineageInv /\ [RenderedNext]_renderedVars
        => [IF analysed THEN Plan!PlanNext ELSE analysed' => Plan!PlanInit']_<<Plan!planVars, analysed>>
  <2>. SUFFICES ASSUME RenderedLineageInv, [RenderedNext]_renderedVars
                PROVE  [IF analysed THEN Plan!PlanNext ELSE analysed' => Plan!PlanInit']_<<Plan!planVars, analysed>>
    OBVIOUS
  <2>1. LineageInv /\ (~analysed => LineageInit)
    BY DEF RenderedLineageInv
  <2>2. CASE AnalyzeLineage
    <3>1. LineageInit' => Plan!PlanInit'
      BY LineagePlanInit, PTL
    <3>2. LineageInit' /\ ~analysed
      BY <2>2, AnalyzeBegins DEF AnalyzeLineage
    <3>. QED  BY <3>1, <3>2
  <2>3. CASE LineageStep
    <3>1. [Plan!PlanNext]_(Plan!planVars) /\ analysed /\ analysed' = analysed
      BY <2>1, <2>3, LineagePlanStep DEF LineageStep
    <3>. QED  BY <3>1
  <2>4. CASE RenderStep \/ UNCHANGED renderedVars
    <3>1. UNCHANGED request /\ result' = result /\ lineage' = lineage /\ analysed' = analysed
      BY <2>4 DEF RenderStep, renderedVars, lineageVars, sortingVars
    <3>2. UNCHANGED Plan!planVars
      BY <3>1, RequestFixed DEF Plan!planVars, Outcome
    <3>. QED  BY <3>1, <3>2
  <2>. QED  BY <2>2, <2>3, <2>4 DEF RenderedNext
<1>. QED  BY RenderedInitInv, RenderedStepInv, <1>1, <1>2, PTL DEF RenderedSpec, ImplementsPlan
=============================================================================
