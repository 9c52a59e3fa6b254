----------------------- MODULE MCExecutionProjections -----------------------
(***************************************************************************)
(* Small instances of ExecutionProjections.                                *)
(***************************************************************************)
EXTENDS ExecutionProjections, TLC

CONSTANTS o1, other, w1, w2

WorkerSymmetry == Permutations(Workers)
=============================================================================
