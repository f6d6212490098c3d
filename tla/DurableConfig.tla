--------------------------- MODULE DurableConfig ---------------------------
(***************************************************************************)
(* What the configuration store promises of its file: however many steps   *)
(* writing takes, whatever fails, and wherever the process dies, the file  *)
(* goes from one configuration saved to the next in a single step, the     *)
(* process has that file's keys until a request sets one of them or resets *)
(* them all, and a process started again has those last saved.             *)
(***************************************************************************)
EXTENDS Naturals

CONSTANTS
  Known, Static, Extra, Value, DefaultValue, EnvKeys, EnvValue,
  Reads(_),       \* the keys and values that a reader of a file finds
  Written(_, _)   \* the file written for a configuration and the other keys

VARIABLES
  memory,   \* the configuration in use
  others,   \* the keys of the file that are not configuration
  file,
  restarts

storeVars == <<memory, others, file, restarts>>

\* The configuration and the other keys of a process started on a file in
\* which f is found.
Resumed(f) ==
  [k \in Known |-> IF k \in EnvKeys THEN EnvValue
                   ELSE IF k \in DOMAIN f THEN f[k] ELSE DefaultValue]
OthersOf(f) == [k \in DOMAIN f \cap Extra |-> f[k]]

\* All that the process has.
Everything ==
  [k \in Known \cup DOMAIN others |-> IF k \in Known THEN memory[k] ELSE others[k]]

StoreInit ==
  memory = Resumed(Reads(file)) /\ others = OthersOf(Reads(file)) /\ restarts = 0

\* A request sets one key; a static one is only reset.
Set ==
  /\ \E k \in Known \ Static, v \in Value : memory' = [memory EXCEPT ![k] = v]
  /\ UNCHANGED <<others, file, restarts>>

Reset ==
  /\ memory' = [k \in Known |-> DefaultValue]
  /\ UNCHANGED <<others, file, restarts>>

\* Everything is saved at once, and in such a way that it is found again.
Save ==
  /\ file' = Written(memory, others) /\ Reads(Written(memory, others)) = Everything
  /\ UNCHANGED <<memory, others, restarts>>

Restart ==
  /\ restarts' = restarts + 1
  /\ memory' = Resumed(Reads(file)) /\ others' = OthersOf(Reads(file))
  /\ UNCHANGED file

StoreNext == Set \/ Reset \/ Save \/ Restart

Store == StoreInit /\ [][StoreNext]_storeVars
=============================================================================
