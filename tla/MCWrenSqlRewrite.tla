-------------------------- MODULE MCWrenSqlRewrite --------------------------
(***************************************************************************)
(* Three families of manifests, all with a plain key and foreign key per   *)
(* model.  Over: three models, the first two with a column over any path   *)
(* of one or two hops, in names whose order is not that of the paths.  On: *)
(* a metric on a model or on another metric and a cumulative metric on any *)
(* of these, over a model with a column of any form.  Bare: a model        *)
(* without columns.                                                        *)
(***************************************************************************)
EXTENDS WrenSqlRewrite

CONSTANTS key, foreign, extra

Columns == {key, foreign, extra}

Plain == [c \in {key, foreign} |-> "plain"]

With(form) == [c \in {key, foreign, extra} |-> IF c = extra THEN form ELSE "plain"]

Bare(form) == [form |-> form, uses |-> {}, path |-> <<>>]
None == Bare([c \in {} |-> ""])

\* A column "extra" of a model: none, of each form, or over one of paths.
Variants(paths) ==
  {Bare(Plain)}
    \cup [form : {With(f) : f \in {"renamed", "derived"}}, uses : {{foreign}}, path : {<<>>}]
    \cup [form : {With(f) : f \in {"toOne", "toMany"}}, uses : {{foreign}, {extra}}, path : paths]

Manifest(kinds, bases, variant) ==
  [kind |-> kinds,
   base |-> bases,
   form |-> [o \in Name |-> variant[o].form],
   uses |-> [o \in Name |-> [c \in Column |-> variant[o].uses]],
   path |-> [o \in Name |-> [c \in Column |-> variant[o].path]]]

\* A column that is computed from one of a model has to find it there.
Proper(m) ==
  \A o \in Name : \A c \in DOMAIN m.form[o] :
    m.form[o][c] \in {"toOne", "toMany"} =>
      m.uses[o][c] \subseteq DOMAIN m.form[m.path[o][c][Len(m.path[o][c])]]

Complete(f) == [o \in Name |-> IF o \in DOMAIN f THEN f[o] ELSE IF o = DateSpine THEN "spine" ELSE "view"]

Over ==
  {m \in {Manifest(Complete([o \in {1, 2, 3} |-> "model"]), [o \in Name |-> {}],
            [o \in Name |-> CASE o = 2 -> v2 [] o = 3 -> v3
                              [] o = 1 -> v1 [] OTHER -> None]) :
            v1 \in Variants({<<3>>}),
            v2 \in Variants({<<1>>, <<3>>, <<3, 1>>, <<1, 3>>}),
            v3 \in {Bare(Plain)} \cup Variants({<<1>>})} :
     Proper(m)}

\* A metric has a dimension "key" and a measure "extra", over a path or not.
Metric(dim, measure, uses, path) ==
  [form |-> [c \in {key, extra} |-> IF c = key THEN dim ELSE measure], uses |-> uses, path |-> path]

OnModelMetrics ==
  {Metric(dim, "derived", {foreign}, <<>>) : dim \in {"plain", "derived"}}
    \cup {Metric("derived", "toOne", {foreign}, <<2>>)}

OnMetric == Metric("derived", "derived", {extra}, <<>>)
Cumulative == Metric("derived", "derived", {key}, <<>>)

On ==
  {m \in {Manifest(
            Complete([o \in 1 .. 5 |-> CASE o \in {2, 3} -> "model" [] o = 5 -> "cumulative"
                                         [] OTHER -> "metric"]),
            [o \in Name |-> CASE o = 1 -> {b1} [] o = 4 -> {3} [] o = 5 -> {b5} [] OTHER -> {}],
            [o \in Name |-> CASE o = 1 -> v1 [] o = 3 -> v3 [] o = 4 -> v4 [] o = 5 -> Cumulative
                              [] o = 2 -> Bare(Plain) [] OTHER -> None]) :
            b1 \in {3, 4, 5}, b5 \in {1, 3, 4}, v1 \in OnModelMetrics \cup {OnMetric},
            v3 \in Variants({<<2>>}), v4 \in OnModelMetrics} :
     /\ Proper(m)
     /\ (m.base[1] = {3}) = (m.uses[1][extra] = {foreign})
     /\ 4 \notin m.base[1] \cup m.base[5] => m.form[4][key] = "plain"}

WithoutColumns ==
  {Manifest(Complete([o \in 1 .. 3 |-> IF o = 3 THEN "metric" ELSE "model"]),
     [o \in Name |-> IF o = 3 THEN {1} ELSE {}],
     [o \in Name |-> CASE o = 2 -> Bare(Plain) [] o = 3 -> v3 [] OTHER -> None]) :
     v3 \in {None} \cup OnModelMetrics}

MCInit ==
  /\ mdl \in Over \cup On \cup WithoutColumns
  /\ RequestInit
  /\ mdl \in On => Cardinality(named) \in {1, 2, 5}
  /\ counted \subseteq {o \in named : Cols(o) = {}}

MCSpec == MCInit /\ [][RewriteNext]_rewriteVars /\ WF_rewriteVars(RewriteNext)
=============================================================================
