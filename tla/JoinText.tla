------------------------------ MODULE JoinText ------------------------------
(***************************************************************************)
(* The FROM clause of a query as a tree of joins, the text that the        *)
(* formatter makes of it, and the tree that the parser makes of that text. *)
(* Rewrite formats and parses a statement before each of its rules.        *)
(*                                                                         *)
(* An ON or USING condition is abstracted to the two tables whose keys it  *)
(* compares.  Subqueries, UNNEST and LATERAL stand like tables.  Natural   *)
(* joins are left out: the tree builder drops what makes them natural.     *)
(***************************************************************************)
EXTENDS Integers, Sequences

Conditional == {"inner", "left", "right", "full"}

Leaf(t) == [op |-> "table", table |-> t]
Named(r) == [op |-> "named", of |-> r]   \* ( r ) alias, or ( r ) TABLESAMPLE ...
Joined(op, l, r, on) == [op |-> op, left |-> l, right |-> r, on |-> on]

IsJoin(r) == r.op \notin {"table", "named"}

-----------------------------------------------------------------------------
\* Mutant: a join that has an alias is written without parentheses.
RECURSIVE TextOfBare(_)
TextOfBare(r) ==
  CASE r.op = "table" -> <<<<"table", r.table>>>>
    [] r.op = "named" -> TextOfBare(r.of)
    [] OTHER -> TextOfBare(r.left) \o <<<<r.op, <<>>>>>> \o TextOfBare(r.right)
                  \o IF r.op \in Conditional THEN <<<<"on", r.on>>>> ELSE <<>>

\* Only a join that has an alias, or is sampled, is put in parentheses.
RECURSIVE TextOf(_)
TextOf(r) ==
  CASE r.op = "table" -> <<<<"table", r.table>>>>
    [] r.op = "named" -> <<<<"(", <<>>>>>> \o TextOf(r.of) \o <<<<")", <<>>>>>>
    [] OTHER -> TextOf(r.left) \o <<<<r.op, <<>>>>>> \o TextOf(r.right)
                  \o IF r.op \in Conditional THEN <<<<"on", r.on>>>> ELSE <<>>

\* What the parser reads at the head of a text, and what it leaves.
Read(r, rest) == [relation |-> r, rest |-> rest]
Ahead(text) == IF text = <<>> THEN "end" ELSE Head(text)[1]

RECURSIVE Relation(_), Joins(_, _), Listed(_, _)

Primary(text) ==
  IF Ahead(text) = "("
    THEN LET inner == Relation(Tail(text)) IN Read(Named(inner.relation), Tail(inner.rest))
    ELSE Read(Leaf(Head(text)[2]), Tail(text))

Relation(text) == LET first == Primary(text) IN Joins(first.relation, first.rest)

\* The right side of CROSS JOIN is a primary, that of a join with a condition a
\* relation: joins are read up to the condition of the one that is open.
Joins(l, text) ==
  CASE Ahead(text) = "cross" ->
         LET r == Primary(Tail(text)) IN Joins(Joined("cross", l, r.relation, <<>>), r.rest)
    [] Ahead(text) \in Conditional ->
         LET r == Relation(Tail(text))
         IN  Joins(Joined(Ahead(text), l, r.relation, Head(r.rest)[2]), Tail(r.rest))
    [] OTHER -> Read(l, text)

Listed(l, text) ==
  IF text = <<>> THEN l
  ELSE LET r == Relation(Tail(text)) IN Listed(Joined("implicit", l, r.relation, <<>>), r.rest)

Parsed(text) == LET first == Relation(text) IN Listed(first.relation, first.rest)

Reparsed(r) == Parsed(TextOf(r))

-----------------------------------------------------------------------------
\* What a relation returns, of tables that have the given keys: a row has a key
\* of each table, or Null.
Null == 0
Compares(on, a, b) == a[on[1]] # Null /\ a[on[1]] = b[on[2]]
Beside(a, b) == [t \in DOMAIN a |-> IF a[t] # Null THEN a[t] ELSE b[t]]

RECURSIVE Rows(_, _)
Rows(r, keys) ==
  CASE r.op = "table" -> {[t \in DOMAIN keys |-> IF t = r.table THEN k ELSE Null] : k \in keys[r.table]}
    [] r.op = "named" -> Rows(r.of, keys)
    [] r.op \in {"cross", "implicit"} ->
         {Beside(a, b) : a \in Rows(r.left, keys), b \in Rows(r.right, keys)}
    [] OTHER ->
         LET L == Rows(r.left, keys)
             R == Rows(r.right, keys)
             matched == {ab \in L \X R : Compares(r.on, ab[1], ab[2])}
         IN  {Beside(ab[1], ab[2]) : ab \in matched}
               \cup {a \in L : r.op \in {"left", "full"} /\ \A b \in R : <<a, b>> \notin matched}
               \cup {b \in R : r.op \in {"right", "full"} /\ \A a \in L : <<a, b>> \notin matched}

\* A right or full join that CROSS JOIN has on its right, and that its text
\* takes for one over both.
RECURSIVE Reaches(_)
Reaches(r) == IsJoin(r) /\ (r.op \in {"right", "full"} \/ Reaches(r.left))

RECURSIVE OuterUnderCross(_)
OuterUnderCross(r) ==
  \/ r.op = "named" /\ OuterUnderCross(r.of)
  \/ /\ IsJoin(r)
     /\ OuterUnderCross(r.left) \/ OuterUnderCross(r.right) \/ (r.op = "cross" /\ Reaches(r.right))
=============================================================================
