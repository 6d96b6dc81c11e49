------------------------------ MODULE MCTurnQueue ------------------------------
(***************************************************************************)
(* TurnQueue on small instances.  The configurations choose the operations *)
(* the environment performs through Ops.                                   *)
(***************************************************************************)
EXTENDS TurnQueue, TLC

(* Turns and prompts are interchangeable in the safety runs.               *)
Symmetry == Permutations(Turns) \cup Permutations(Prompts)

===============================================================================
