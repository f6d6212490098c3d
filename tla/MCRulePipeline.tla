--------------------------- MODULE MCRulePipeline ---------------------------
(***************************************************************************)
(* A model, two metrics and two views.  The metrics are on the model, on   *)
(* each other, or in a circle; the views name the model, the metrics, each *)
(* other, themselves or only tables, and roll metrics up.  A statement has *)
(* up to two WITH queries of its own, one of which may have the model's    *)
(* name; one object, or the statement, may ask for an enum value there is  *)
(* not.  Or the statement is a plain one whose FROM clause joins up to     *)
(* four tables, in any way that parentheses and commas allow, or which has *)
(* a condition of up to three operators, or a set operation.               *)
(***************************************************************************)
EXTENDS RewriteText

P(n) == [name |-> n, qualified |-> FALSE]
Q(n) == [name |-> n, qualified |-> TRUE]

Manifests ==
  {[kind |-> <<"model", "metric", "metric", "view", "view">>,
    base |-> b,
    refs |-> <<{}, {}, {}, r4, r5>>,
    rollups |-> <<{}, {}, {}, u4, u5>>,
    badEnum |-> {}] :
      b \in {<<{}, {1}, {2}, {}, {}>>, <<{}, {3}, {1}, {}, {}>>, <<{}, {3}, {2}, {}, {}>>},
      r4 \in {{P(1)}, {Q(5)}, {Q(5), P(2)}},
      r5 \in {{}, {Q(1)}, {P(4)}, {P(2), P(3)}, {P(5)}},
      u4 \in {{}, {2}}, u5 \in {{}, {3}}}

Own(n, refs, rollups) == [name |-> n, refs |-> refs, rollups |-> rollups, badEnum |-> FALSE]

Withs ==
  {<<>>, <<Own(6, {P(4)}, {})>>, <<Own(6, {Q(1)}, {2})>>,
   <<Own(1, {}, {})>>, <<Own(6, {P(2)}, {}), Own(1, {P(6), Q(5)}, {})>>}

Refs ==
  {S \in SUBSET {P(1), P(2), P(4), P(6), Q(5)} : Cardinality(S) <= 2} \cup {{Q(1)}, {Q(2)}}

Statements ==
  [with : Withs, refs : Refs, subqueries : {{}, {P(1)}, {Q(4)}}, rollups : {{}, {2}, {3}},
   badEnum : {FALSE}]

RECURSIVE TablesOf(_)
TablesOf(r) ==
  CASE r.op = "table" -> {r.table}
    [] r.op = "named" -> TablesOf(r.of)
    [] OTHER -> TablesOf(r.left) \cup TablesOf(r.right)

Pairs(L, R) ==
  {Joined("cross", l, r, <<>>) : l \in L, r \in R}
    \cup UNION {{Joined(op, l, r, on) : op \in Conditional, on \in TablesOf(l) \X TablesOf(r)} :
                  l \in L, r \in R}

OrNamed(S) == S \cup {Named(r) : r \in S}
Two(a, b) == Pairs({Leaf(a)}, {Leaf(b)})
Three(a, b, c) == Pairs({Leaf(a)}, OrNamed(Two(b, c))) \cup Pairs(OrNamed(Two(a, b)), {Leaf(c)})
Four == Pairs({Leaf(1)}, Three(2, 3, 4)) \cup Pairs(Two(1, 2), Two(3, 4)) \cup Pairs(Three(1, 2, 3), {Leaf(4)})
Lists ==
  {Joined("implicit", l, r, <<>>) : l \in Two(1, 2), r \in Two(3, 4)}
    \cup {Joined("implicit", Joined("implicit", Leaf(1), r, <<>>), Leaf(4), <<>>) : r \in Two(2, 3)}

PlainStatement == [with |-> <<>>, refs |-> {P(4)}, subqueries |-> {}, rollups |-> {}, badEnum |-> FALSE]

\* Numbers, conditions on them, and conditions on conditions.
N(op, args) == Conditions!Node(op, args)
L(t) == Conditions!Leaf(t)
Binary(ops, S, T) == {N(op, <<l, r>>) : op \in ops, l \in S, r \in T}
Unary(ops, S) == {N(op, <<x>>) : op \in ops, x \in S}

Simple == {L("a"), L("b"), L("1")}
Numbers == Binary({"+", "-", "*"}, Simple, Simple) \cup Unary({"sign", "CAST"}, Simple)
BigNumbers ==
  Binary({"+", "-", "*"}, Numbers, {L("b")}) \cup Binary({"-", "*"}, {L("a"), L("1")}, Numbers)
    \cup Unary({"sign"}, Numbers)
Tests ==
  {N("<", <<L("a"), L("b")>>), N("IS NULL", <<L("b")>>), N("NOT BETWEEN", <<L("b"), L("1"), L("a")>>),
   N("=", <<L("a"), L("1")>>), N("NOT IN", <<L("a"), L("1"), L("b")>>),
   N("BETWEEN", <<L("a"), L("b"), N("sign", <<L("1")>>)>>)}
Distinct == Binary(Conditions!Distinctness, Simple, Simple)
Pairwise == Binary({"AND", "OR"}, Tests, Tests) \cup Unary({"NOT"}, Tests)
Cases ==
  {N("=", <<N("CASE", <<t, L("a"), x>>), L("b")>>) : t \in Pairwise, x \in {L("NULL"), L("1")}}
    \cup {N("IN", <<L("a"), N("CASE OF", <<L("a"), x, y, L("NULL")>>), L("1")>>) : x \in Numbers, y \in Simple}
WrittenConditions ==
  {N("<", <<x, L("b")>>) : x \in BigNumbers} \cup {N("=", <<L("a"), x>>) : x \in BigNumbers}
    \cup {N("BETWEEN", <<L("a"), x, y>>) : x \in Simple, y \in Numbers}
    \cup Binary({"AND", "OR"}, Pairwise, Tests) \cup Binary({"AND", "OR"}, Tests, Pairwise)
    \cup {N("OR", <<s, t, N("NOT", <<s>>)>>) : s \in Pairwise, t \in Tests}
    \cup Unary({"NOT"}, Pairwise \cup Distinct) \cup {N("=", <<t, N("<>", <<L("a"), L("b")>>)>>) : t \in Pairwise}
    \cup Cases

\* A condition as it is meant, and as it is read the first time.
ReadConditions == {<<c, Conditions!Parsed(Conditions!WrittenText(c))>> : c \in WrittenConditions}
NoCondition == <<L("1"), L("1")>>

Bodies == {Alone} \cup [operator : SetOperators, distinct : BOOLEAN]

Text(w, c, b) == written = w /\ writtenCondition = c[1] /\ condition = c[2] /\ writtenBody = b

MCInit ==
  /\ \/ mdl \in Manifests /\ original \in Statements /\ Text(Leaf(1), NoCondition, Alone)
     \/ /\ \E m \in Manifests, o \in {1, 2, 5} : mdl = [m EXCEPT !.badEnum = {o}]
        /\ original \in {s \in Statements : s.with \in {<<>>, <<Own(1, {}, {})>>} /\ s.subqueries = {}}
        /\ Text(Leaf(1), NoCondition, Alone)
     \/ /\ mdl \in Manifests
        /\ original = [PlainStatement EXCEPT !.badEnum = TRUE]
        /\ Text(Leaf(1), NoCondition, Alone)
     \/ /\ mdl = CHOOSE m \in Manifests : m.refs[4] = {P(1)}
        /\ original = PlainStatement
        /\ \/ \E w \in Three(1, 2, 3) \cup Four \cup Lists : Text(w, NoCondition, Alone)
           \/ \E c \in ReadConditions : Text(Leaf(1), c, Alone)
           \/ \E b \in Bodies : Text(Leaf(1), NoCondition, b)
  /\ ManifestOK /\ PipelineInit
  /\ joins = written
  /\ body = writtenBody

MCSpec == MCInit /\ [][RewriteNext]_textVars
=============================================================================
