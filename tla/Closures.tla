------------------------------- MODULE Closures -------------------------------
(***************************************************************************)
(* Going from one thing to those it needs: the worklist loops of the rules *)
(* and of the lineage.                                                     *)
(***************************************************************************)
EXTENDS Integers, FiniteSets

\* All that the elements of first need, directly or through each other, where
\* needs[x] is what the element x of U needs itself.
Closure(U, first, needs) ==
  LET reached[n \in Nat] ==
        IF n = 0 THEN first
        ELSE LET so == reached[n - 1] IN so \cup UNION {needs[x] : x \in so}
  IN  reached[Cardinality(U)]
=============================================================================
