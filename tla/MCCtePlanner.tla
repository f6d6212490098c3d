---------------------------- MODULE MCCtePlanner ----------------------------
(***************************************************************************)
(* For the static rule two models, a metric, a cumulative metric and the   *)
(* date spine, which the walk meets in an order that is not the order of   *)
(* the names; for the view rule three views, which name themselves, each   *)
(* other and a model in any way.  At most MaxBroken objects are broken,    *)
(* and every statement is planned.  ModelBases says whether models may be  *)
(* built on other models; the walk never reads that base.                  *)
(***************************************************************************)
EXTENDS CtePlanner

CONSTANTS MaxBroken, ModelBases

\* f completed to a function on Name.
Extended(f) == [o \in Name |-> IF o \in DOMAIN f THEN f[o] ELSE {}]

KindsOf(models, metrics, cumulatives) ==
  [o \in Name |-> CASE o = DateSpine -> "spine" [] o \in models -> "model"
                    [] o \in metrics -> "metric" [] o \in cumulatives -> "cumulative"
                    [] OTHER -> "view"]

Candidates(rule, models, metrics, cumulatives, related, breakable) ==
  LET derived == metrics \cup cumulatives
      based == derived \cup (IF ModelBases THEN models ELSE {})
      bases == {{b} : b \in models \cup derived} \cup {{}}
  IN  [rule : {rule},
       kind : {KindsOf(models, metrics, cumulatives)},
       base : {Extended(f) : f \in [based -> bases]},
       related : {Extended(f) : f \in related},
       broken : {S \in SUBSET breakable : Cardinality(S) <= MaxBroken}]

StaticManifests ==
  Candidates("static", {2, 4}, {1}, {3}, [{1, 2, 4} -> SUBSET {2, 4}], Name)

\* The first view, and no other one, names a model too: the view rule skips
\* it, and one view that does so is enough to see it.  Likewise one view may
\* be broken, since the queried views and what they name vary over everything.
ViewManifests ==
  Candidates("view", {4}, {}, {},
    {f \in [{1, 2, 3} -> SUBSET {1, 2, 3, 4}] : 4 \in f[1] \ (f[2] \cup f[3])}, {1})

MCInit ==
  /\ mdl \in {m \in StaticManifests \cup ViewManifests : Manifest(m)}
  /\ queried \in SUBSET Queryable
  /\ phase = "describe"
  /\ seedsLeft = {} /\ stack = <<>> /\ seen = {} /\ described = {}
  /\ ctes = <<>>
  /\ vertices = {} /\ edges = <<>> /\ Idle

MCSpec == MCInit /\ [][PlannerNext]_plannerVars /\ WF_plannerVars(PlannerNext)
=============================================================================
