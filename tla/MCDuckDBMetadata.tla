-------------------------- MODULE MCDuckDBMetadata --------------------------
(***************************************************************************)
(* Instances of DuckDBMetadata: a statement that can run once in each      *)
(* database, and one that always fails.                                    *)
(***************************************************************************)
EXTENDS DuckDBMetadata, TLC

CONSTANTS create, wrong

MCStatement == {create, wrong}
MCNeeds == (create :> {}) @@ (wrong :> {wrong})
MCScripts == {<<>>, <<create>>, <<create, wrong>>}
=============================================================================
