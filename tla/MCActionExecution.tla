------------------------- MODULE MCActionExecution -------------------------
(***************************************************************************)
(* Instances of ActionExecution for TLC.                                   *)
(***************************************************************************)
EXTENDS ActionExecution, TLC

Symmetry == Permutations(Actions) \cup Permutations(Procs)
=============================================================================
