---------------------------- MODULE RewriteText ----------------------------
(***************************************************************************)
(* Rewrite with what happens between its rules: the statement is formatted *)
(* and parsed again before each of them.  This touches the joins of the    *)
(* FROM clause, the conditions, and the operator between the halves of a   *)
(* set operation, none of which a rule changes itself.                     *)
(***************************************************************************)
EXTENDS RulePipeline, JoinText

CONSTANTS
  JoinTable,  \* tables of the FROM clause
  Key         \* keys that their rows may have

ASSUME RewriteTextAssumption == JoinTable \subseteq Int /\ Key \subseteq Int \ {Null}

VARIABLES
  written,          \* the joins of the statement before the first rule
  joins,            \* the joins of the statement
  writtenCondition, \* its WHERE condition, as its author means it
  condition,        \* the condition
  writtenBody,      \* its set operation, or the query that stands alone
  body

asWritten == <<written, writtenCondition, writtenBody>>
textVars == <<pipelineVars, asWritten, joins, condition, body>>

Conditions == INSTANCE ExpressionText

-----------------------------------------------------------------------------
\* A body is at most one operator with its two halves: what the tree builder
\* makes of nested ones it cannot use itself.
Alone == [operator |-> "none", distinct |-> TRUE]
SetOperators == {"UNION", "INTERSECT", "EXCEPT"}

\* visitSetOperation: the operator and ALL are written without a blank.
OperatorText(b) == IF b.distinct THEN b.operator ELSE b.operator \o "ALL"

\* A word that is no operator is read as the alias of a table, or not at all;
\* the query ends there, and with it the statement.
BodyReparsed(b) ==
  IF b = Alone \/ OperatorText(b) \in SetOperators THEN b ELSE Alone

\* One turn of the loop of Rewrite.
Formatted ==
  /\ joins' = Reparsed(joins)
  /\ condition' = Conditions!Reparsed(condition)
  /\ body' = BodyReparsed(body)
  /\ UNCHANGED asWritten

RewriteNext == PipelineNext /\ Formatted

-----------------------------------------------------------------------------
SameRows(r, s) == r = s \/ \A keys \in [JoinTable -> SUBSET Key] : Rows(r, keys) = Rows(s, keys)

\* Whatever the rules do and however often the statement was formatted and
\* parsed, its joins return what those that were written return, unless a
\* CROSS JOIN has a right or full join in parentheses on its right.
JoinsKept == ~OuterUnderCross(written) => SameRows(joins, written)

\* NULL, or a number.
ColumnValue == {{}} \cup {{n} : n \in 0 .. 2}

\* However often it was formatted and parsed, a condition is as true, false or
\* unknown in every row as it was meant to be, with IS [NOT] DISTINCT FROM
\* excepted, which is taken for <> from the first reading on.
ConditionKept ==
  ~Conditions!HasDistinctness(writtenCondition) =>
    \A row \in [{"a", "b"} -> ColumnValue] :
      Conditions!Value(condition, row) = Conditions!Value(writtenCondition, row)

\* How often a body returns a row that its halves return left and right times.
Copies(b, left, right) ==
  LET all == CASE b.operator = "none" -> left
               [] b.operator = "UNION" -> left + right
               [] b.operator = "INTERSECT" -> IF left < right THEN left ELSE right
               [] b.operator = "EXCEPT" -> IF left < right THEN 0 ELSE left - right
  IN  CASE b = Alone \/ ~b.distinct -> all
        [] b.operator = "EXCEPT" -> IF left > 0 /\ right = 0 THEN 1 ELSE 0
        [] OTHER -> IF all > 0 THEN 1 ELSE 0

\* The design of the formatter says that what it writes is read back as it was
\* ("the precondition of P3", where the rules format and parse between them): a
\* set operation returns what it returned.
SetOperationKept ==
  \A left, right \in 0 .. 2 : Copies(body, left, right) = Copies(writtenBody, left, right)
=============================================================================
