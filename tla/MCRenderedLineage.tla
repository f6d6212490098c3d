-------------------------- MODULE MCRenderedLineage --------------------------
(***************************************************************************)
(* Manifests with macros: f(x, y) and g(x), a second g or none, and the    *)
(* name h, which is no macro.  Table 1 is a model with a calculated column *)
(* c, and a column called y like a parameter; r leads to the model 2 and   *)
(* maybe back; table 3 is a metric on 1 or on a metric, or cumulative.     *)
(*                                                                         *)
(* Manifests without, given by their lineage maps: three tables with one   *)
(* column each, in every way; two tables with two columns each, every      *)
(* field with at most MaxSources sources and at most two asked; and three  *)
(* tables whose second columns are computed from first columns in every    *)
(* way, where tables need each other though no field does.                 *)
(***************************************************************************)
EXTENDS RenderedLineage

CONSTANT MaxSources

Within(F, maps) ==
  {[f \in Field |-> IF f \in F THEN m[f] ELSE {}] : m \in maps}

Upto(n, S) == {U \in SUBSET S : Cardinality(U) <= n}

First == {f \in Field : f[2] = "c"}
Second == {f \in Field : f[2] = "y"}
Square == {f \in Field : f[1] \in 1 .. 2}

Texts(items, n) == UNION {[1 .. k -> items] : k \in 0 .. n}

W(name) == Word(<<name>>)
C(name, args) == Call(<<name>>, args)

Bodies ==
  Texts({W("x"), W("y"), Word(<<"x", "c">>), C("x", <<>>), C("g", <<<<"y">>>>), C("g", <<>>),
         C("f", <<<<"y">>, <<"x">>>>)}, 2)

SmallBodies ==
  Texts({W("x"), W("c"), C("f", <<<<"x">>, <<"x">>>>), C("x", <<<<"c">>>>),
         C("f", <<>>), C("g", <<<<"x">>>>), C("f", <<<<"x">>, <<"c">>>>),
         C("f", <<<<"y">>, <<"c">>>>)}, 1)

Calculated ==
  {<<Word(<<"r", "c">>), C("f", <<<<"c">>, <<"r", "c">>>>)>>, <<C("f", <<<<"y">>, <<"c">>>>)>>,
   <<C("g", <<<<"r">>, <<"c">>>>), C("f", <<<<"r">>>>)>>, <<C("g", <<<<"f">>>>)>>,
   <<C("f", <<<<"r">>, <<"r", "y">>>>)>>, <<C("g", <<>>)>>,
   <<C("f", <<<<"x", "c">>>>)>>}

Macro(name, params, body) == [name |-> name, params |-> params, body |-> body]

Objects(kind, base, back) ==
  [kind |-> <<"model", "model", kind, "metric">>, base |-> <<0, 0, base, 1>>,
   related |-> (<<1, "r">> :> 2) @@ (IF back THEN <<2, "r">> :> 1 ELSE <<>>)]

SomeMacros ==
  /\ \E F \in Bodies, G \in SmallBodies, again \in {<<>>} \cup [1 .. 1 -> {<<>>, <<W("x")>>}],
        text \in Calculated, back \in {<<>>, <<Word(<<"r", "c">>)>>} :
       /\ Len(F) = 2 => again = <<>> /\ back # <<>>
       /\ original = <<text, back, <<C("h", <<<<"c">>>>), C("g", <<<<"c">>>>)>>>>
       /\ macros = <<Macro("f", <<"x", "y">>, F), Macro("g", <<"x">>, G)>>
                     \o [i \in DOMAIN again |-> Macro("g", <<"x">>, again[i])]
       /\ asked = IF again = <<>> /\ Len(F) = 2 /\ G \in {<<W("x")>>, <<C("x", <<<<"c">>>>)>>}
                    THEN {<<3, "c">>} ELSE {}
  /\ columnOf = <<<<1, "c">>, <<2, "c">>, <<2, "y">>>>
  /\ objects = Objects("metric", 1, TRUE)
  /\ metricTexts = (<<3, "c">> :> <<W("c")>>) @@ (<<3, "y">> :> <<Word(<<"r", "c">>)>>)
  /\ source = [f \in Field |-> {}]
  /\ analysed = FALSE

OneMacro ==
  /\ macros = <<Macro("f", <<"x", "y">>, <<Word(<<"x", "c">>), W("y")>>)>>
  /\ \E text \in Calculated : original = <<text, <<W("y")>>>>
  /\ columnOf = <<<<1, "c">>, <<2, "c">>>>
  /\ objects \in {Objects(k, b, back) : k \in {"metric", "cumulative"}, b \in {1, 4}, back \in BOOLEAN}
  /\ metricTexts \in {(<<3, "c">> :> <<w>>) @@ (<<3, "y">> :> <<w>>) : w \in {W("c"), W("r")}}
  /\ asked \in {{<<3, "c">>}, {<<1, "c">>, <<3, "y">>}, {<<2, "c">>, <<3, "c">>}}
  /\ source = [f \in Field |-> {}]
  /\ analysed = FALSE

NoMacros ==
  /\ \/ source \in Within(First, [First -> SUBSET First]) /\ asked \in SUBSET First
     \/ source \in Within(Square, [Square -> Upto(MaxSources, Square)]) /\ asked \in Upto(2, Square)
     \/ source \in Within(Second, [Second -> SUBSET First]) /\ asked = Second
  /\ macros = <<>> /\ original = <<>> /\ columnOf = <<>> /\ metricTexts = <<>>
  /\ objects = Objects("metric", 1, FALSE)
  /\ analysed = TRUE

MCInit ==
  /\ SomeMacros \/ OneMacro \/ NoMacros
  /\ RenderedInit

MCSpec == MCInit /\ [][RenderedNext]_renderedVars /\ RenderedFairness
=============================================================================
