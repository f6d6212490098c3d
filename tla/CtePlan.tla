------------------------------ MODULE CtePlan ------------------------------
(***************************************************************************)
(* What a rewrite rule promises of the CTEs that it puts in front of a     *)
(* query: the objects the query names, and everything those are made of,   *)
(* are each defined once, after what they are made of, and nothing else is *)
(* defined.  A rule refuses a query only when that is impossible.          *)
(***************************************************************************)
EXTENDS Integers, Sequences, FiniteSets

CONSTANT Name

VARIABLES
  wanted,     \* the objects that the query names
  requires,   \* per object, the objects that its definition names
  unusable,   \* the objects that have no valid definition
  plan,       \* the CTEs defined so far
  outcome     \* "none" until the rule returns, then "accepted" or "refused"

planVars == <<wanted, requires, unusable, plan, outcome>>

Defined == {plan[k] : k \in DOMAIN plan}

Closed(S) == wanted \subseteq S /\ \A o \in S : requires[o] \subseteq S

\* The least closed set.
Needed == {o \in Name : \A S \in SUBSET Name : Closed(S) => o \in S}

\* Objects each of which requires another one of them.
Circular(S) == S # {} /\ \A o \in S : requires[o] \cap S # {}

PlanInit ==
  /\ wanted \in SUBSET Name
  /\ requires \in [Name -> SUBSET Name]
  /\ unusable \in SUBSET Name
  /\ plan = <<>>
  /\ outcome = "none"

Define(o) ==
  /\ outcome = "none"
  /\ o \notin Defined /\ requires[o] \subseteq Defined
  /\ o \in Needed
  /\ plan' = Append(plan, o)
  /\ UNCHANGED <<wanted, requires, unusable, outcome>>

Accept ==
  /\ outcome = "none"
  /\ Defined = Needed
  /\ Needed \cap unusable = {}
  /\ outcome' = "accepted"
  /\ UNCHANGED <<wanted, requires, unusable, plan>>

Refuse ==
  /\ outcome = "none"
  /\ \/ Needed \cap unusable # {}
     \/ \E S \in SUBSET Needed : Circular(S)
  /\ outcome' = "refused"
  /\ plan' = <<>>
  /\ UNCHANGED <<wanted, requires, unusable>>

PlanNext == (\E o \in Name : Define(o)) \/ Accept \/ Refuse

PlanSpec == PlanInit /\ [][PlanNext]_planVars

\* Every request is answered.
Answered == <>(outcome # "none")
=============================================================================
