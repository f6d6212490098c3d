---------------------------- MODULE ExpressionText ----------------------------
(***************************************************************************)
(* Expressions as trees, the text that the formatter makes of them, and    *)
(* the tree that the parser makes of a text.                               *)
(*                                                                         *)
(* The forms are those whose reading depends on precedence: AND, OR, NOT,  *)
(* the predicates, arithmetic and signs, besides CASE and CAST.  Columns   *)
(* are a and b, the number is 1.                                           *)
(***************************************************************************)
EXTENDS Integers, SequencesExt

Node(op, args) == [op |-> op, args |-> args]
Leaf(t) == Node(t, <<>>)

Comparisons == {"=", "<>", "<"}
Distinctness == {"IS DISTINCT FROM", "IS NOT DISTINCT FROM"}
NullTests == {"IS NULL", "IS NOT NULL"}
Leaves == {"a", "b", "0", "1", "NULL"}

-----------------------------------------------------------------------------
\* The words of a form, with a hole for each operand.
Hole == "_"
Form(op, n) ==
  CASE op \in {"AND", "OR"} -> [i \in 1 .. 2 * n - 1 |-> IF i % 2 = 1 THEN Hole ELSE op]
    [] op = "NOT" -> <<"NOT", Hole>>
    [] op = "sign" -> <<"-", Hole>>
    [] op \in NullTests -> <<Hole, op>>
    [] op = "BETWEEN" -> <<Hole, "BETWEEN", Hole, "AND", Hole>>
    [] op = "NOT BETWEEN" -> <<Hole, "NOT", "BETWEEN", Hole, "AND", Hole>>
    [] op = "IN" -> <<Hole, "IN", "(", Hole, ",", Hole, ")">>
    [] op = "NOT IN" -> <<Hole, "NOT", "IN", "(", Hole, ",", Hole, ")">>
    [] op = "CASE" -> <<"CASE", "WHEN", Hole, "THEN", Hole, "ELSE", Hole, "END">>
    [] op = "CASE OF" -> <<"CASE", Hole, "WHEN", Hole, "THEN", Hole, "ELSE", Hole, "END">>
    [] op = "CAST" -> <<"CAST", "(", Hole, ")">>
    [] op = "-1" -> <<"-", "1">>
    [] op \in Leaves -> <<op>>
    [] OTHER -> <<Hole, op, Hole>>

\* The texts of the operands, one after the other, in the holes of a form.
Filled(form, texts) ==
  LET operand(i) == Cardinality({j \in 1 .. i : form[j] = Hole})
  IN  FlattenSeq([i \in DOMAIN form |-> IF form[i] = Hole THEN texts[operand(i)] ELSE <<form[i]>>])

\* Mutant: the formatter trusts precedence.
Bare(text) == text

Parenthesised(text) == <<"(">> \o text \o <<")">>

\* process: every form but the primary ones is put in parentheses, and the NOT
\* of a predicate before it.
RECURSIVE TextOf(_)
TextOf(tree) ==
  LET texts == [i \in DOMAIN tree.args |-> TextOf(tree.args[i])]
      text(op) == Filled(Form(op, Len(texts)), texts)
  IN  CASE tree.op \in Leaves \cup {"-1", "CAST"} -> text(tree.op)
        [] tree.op = "NOT BETWEEN" -> Parenthesised(<<"NOT">> \o Parenthesised(text("BETWEEN")))
        [] tree.op = "NOT IN" -> Parenthesised(<<"NOT">> \o Parenthesised(text("IN")))
        [] OTHER -> Parenthesised(text(tree.op))

-----------------------------------------------------------------------------
\* What the parser reads at the head of a text, and what it leaves.
Got(tree, rest) == [tree |-> tree, rest |-> rest]
Ahead(text) == IF text = <<>> THEN "end" ELSE Head(text)
After(text) == Ahead(Tail(text))

\* One of the grammar's levels, and operands of a level with words between them.
RECURSIVE Read(_, _), ReadList(_, _, _)

ReadList(level, between, text) ==
  LET first == Read(level, text)
      others == ReadList(level, between, Tail(first.rest))
  IN  IF Ahead(first.rest) \notin between
        THEN [trees |-> <<first.tree>>, words |-> <<>>, rest |-> first.rest]
        ELSE [trees |-> <<first.tree>> \o others.trees,
              words |-> <<Ahead(first.rest)>> \o others.words, rest |-> others.rest]

LeftAssociated(list) ==
  Got(FoldLeft(LAMBDA left, i : Node(list.words[i], <<left, list.trees[i + 1]>>),
               list.trees[1], [i \in DOMAIN list.words |-> i]),
      list.rest)

\* flattenLogical: a chain of one operator becomes one node.
Chain(op, list) ==
  Got(IF list.words = <<>> THEN list.trees[1] ELSE Node(op, list.trees), list.rest)

\* A form whose last word is the one after its operands.
Closed(op, list) == Got(Node(op, list.trees), Tail(list.rest))

\* A sign belongs to a number; of anything else it subtracts from 0.
Signed(text) ==
  IF After(text) = "1" THEN Got(Leaf("-1"), Tail(Tail(text)))
  ELSE LET of == Read("signed", Tail(text)) IN Got(Node("-", <<Leaf("0"), of.tree>>), of.rest)

Primary(text) ==
  CASE Ahead(text) = "(" ->
         LET inner == Read("OR", Tail(text)) IN Got(inner.tree, Tail(inner.rest))
    [] Ahead(text) = "CASE" ->
         LET op == IF After(text) = "WHEN" THEN "CASE" ELSE "CASE OF"
             parts == Tail(IF op = "CASE" THEN Tail(text) ELSE text)
         IN  Closed(op, ReadList("OR", {"WHEN", "THEN", "ELSE"}, parts))
    [] Ahead(text) = "CAST" -> Closed("CAST", ReadList("OR", {}, Tail(Tail(text))))
    [] OTHER -> Got(Leaf(Head(text)), Tail(text))

\* A value with at most one predicate.  IS [NOT] DISTINCT FROM is built as <>.
Predicate(value) ==
  LET negated == Ahead(value.rest) = "NOT"
      rest == IF negated THEN Tail(value.rest) ELSE value.rest
      named(op) == IF negated THEN "NOT " \o op ELSE op
      right == Read("sum", Tail(rest))
      upper == Read("sum", Tail(right.rest))
      list == ReadList("OR", {","}, Tail(Tail(rest)))
  IN  CASE Ahead(rest) \in Comparisons ->
             Got(Node(Ahead(rest), <<value.tree, right.tree>>), right.rest)
        [] Ahead(rest) \in Distinctness ->
             Got(Node("<>", <<value.tree, right.tree>>), right.rest)
        [] Ahead(rest) \in NullTests -> Got(Node(Ahead(rest), <<value.tree>>), Tail(rest))
        [] Ahead(rest) = "BETWEEN" ->
             Got(Node(named("BETWEEN"), <<value.tree, right.tree, upper.tree>>), upper.rest)
        [] Ahead(rest) = "IN" ->
             Got(Node(named("IN"), <<value.tree>> \o list.trees), Tail(list.rest))
        [] OTHER -> value

Negated(of) == Got(Node("NOT", <<of.tree>>), of.rest)

Read(level, text) ==
  CASE level = "OR" -> Chain("OR", ReadList("AND", {"OR"}, text))
    [] level = "AND" -> Chain("AND", ReadList("NOT", {"AND"}, text))
    [] level = "NOT" ->
         IF Ahead(text) = "NOT" THEN Negated(Read("NOT", Tail(text)))
         ELSE Predicate(Read("sum", text))
    [] level = "sum" -> LeftAssociated(ReadList("product", {"+", "-"}, text))
    [] level = "product" -> LeftAssociated(ReadList("signed", {"*"}, text))
    [] level = "signed" -> IF Ahead(text) = "-" THEN Signed(text) ELSE Primary(text)

Parsed(text) == Read("OR", text).tree
Reparsed(tree) == Parsed(TextOf(tree))

-----------------------------------------------------------------------------
\* A tree as its author writes it: with as few parentheses as the levels allow.
LevelOf(op) ==
  CASE op = "OR" -> 1
    [] op = "AND" -> 2
    [] op = "NOT" -> 3
    [] op \in {"+", "-"} -> 5
    [] op = "*" -> 6
    [] op = "sign" -> 7
    [] op \in Leaves \cup {"CASE", "CASE OF", "CAST"} -> 8
    [] OTHER -> 4

HoleLevel(op, i) ==
  CASE op \in {"OR", "AND", "+", "-", "*"} -> LevelOf(op) + (IF i = 1 THEN 0 ELSE 1)
    [] op \in {"NOT", "sign"} -> LevelOf(op)
    [] op \in {"CASE", "CASE OF", "CAST"} \/ (op \in {"IN", "NOT IN"} /\ i > 1) -> 1
    [] OTHER -> 5

RECURSIVE WrittenText(_)
WrittenText(tree) ==
  LET operand(i) ==
        IF LevelOf(tree.args[i].op) < HoleLevel(tree.op, i)
          THEN <<"(">> \o WrittenText(tree.args[i]) \o <<")">> ELSE WrittenText(tree.args[i])
  IN  Filled(Form(tree.op, Len(tree.args)), [i \in DOMAIN tree.args |-> operand(i)])

-----------------------------------------------------------------------------
\* The value of a tree in a row: {} for NULL, {0} and {1} for false and true.
Truth(b) == {IF b THEN 1 ELSE 0}
Not(v) == {1 - x : x \in v}
AllOf(vs) == IF {0} \in vs THEN {0} ELSE IF {} \in vs THEN {} ELSE {1}
AnyOf(vs) == Not(AllOf({Not(v) : v \in vs}))
Arithmetic(op, x, y) == CASE op = "+" -> x + y [] op = "-" -> x - y [] op = "*" -> x * y
Holds(op, x, y) == CASE op = "=" -> x = y [] op = "<>" -> x # y [] op = "<" -> x < y
Compared(op, v, w) == UNION {Truth(Holds(op, x, y)) : x \in v, y \in w}

RECURSIVE Value(_, _)
Value(tree, row) ==
  LET v(i) == Value(tree.args[i], row)
      between == AllOf({Not(Compared("<", v(1), v(2))), Not(Compared("<", v(3), v(1)))})
      in == AnyOf({Compared("=", v(1), v(i)) : i \in 2 .. Len(tree.args)})
  IN  CASE tree.op \in {"a", "b"} -> row[tree.op]
        [] tree.op = "0" -> {0}
        [] tree.op = "1" -> {1}
        [] tree.op = "-1" -> {0 - 1}
        [] tree.op = "NULL" -> {}
        [] tree.op = "AND" -> AllOf({v(i) : i \in DOMAIN tree.args})
        [] tree.op = "OR" -> AnyOf({v(i) : i \in DOMAIN tree.args})
        [] tree.op = "NOT" -> Not(v(1))
        [] tree.op = "sign" -> {0 - x : x \in v(1)}
        [] tree.op \in {"+", "-", "*"} -> {Arithmetic(tree.op, x, y) : x \in v(1), y \in v(2)}
        [] tree.op \in Comparisons -> Compared(tree.op, v(1), v(2))
        [] tree.op = "IS DISTINCT FROM" -> Truth(v(1) # v(2))
        [] tree.op = "IS NOT DISTINCT FROM" -> Truth(v(1) = v(2))
        [] tree.op = "IS NULL" -> Truth(v(1) = {})
        [] tree.op = "IS NOT NULL" -> Truth(v(1) # {})
        [] tree.op = "BETWEEN" -> between
        [] tree.op = "NOT BETWEEN" -> Not(between)
        [] tree.op = "IN" -> in
        [] tree.op = "NOT IN" -> Not(in)
        [] tree.op = "CASE" -> IF v(1) = {1} THEN v(2) ELSE v(3)
        [] tree.op = "CASE OF" -> IF Compared("=", v(1), v(2)) = {1} THEN v(3) ELSE v(4)
        [] tree.op = "CAST" -> {x + 10 : x \in v(1)}

RECURSIVE HasDistinctness(_)
HasDistinctness(tree) ==
  tree.op \in Distinctness \/ \E i \in DOMAIN tree.args : HasDistinctness(tree.args[i])
=============================================================================
