---------------------------- MODULE ScriptStore ----------------------------
(***************************************************************************)
(* What the settings of the DuckDB data source promise to those who read   *)
(* them: a PUT replaces one of the two scripts, a PATCH appends to it, in  *)
(* one step, and a request that fails changes neither.                     *)
(***************************************************************************)
EXTENDS Sequences

CONSTANT Scripts   \* the scripts that requests send

VARIABLES
  init, session,
  answer   \* how the last request was answered

Edited(old, new) == \E s \in Scripts : new \in {s, old \o s}

Succeed ==
  /\ answer' = "ok"
  /\ \/ Edited(init, init') /\ UNCHANGED session
     \/ Edited(session, session') /\ UNCHANGED init

Fail == answer' = "error" /\ UNCHANGED <<init, session>>

ScriptInit == init = <<>> /\ session = <<>> /\ answer = "none"

ScriptSpec == ScriptInit /\ [][Succeed \/ Fail]_<<init, session, answer>>
=============================================================================
