------------------------ MODULE MCGovernedScheduler ------------------------
(***************************************************************************)
(* Small instances of GovernedScheduler: four or five items, room for two  *)
(* to run and three to wait, so that the queue fills, an exclusive item    *)
(* waits behind and before others, and cancellations overlap.              *)
(***************************************************************************)
EXTENDS GovernedScheduler, TLC

CONSTANTS n1, n2, n3, x1, f1, k1, k2

\* Items of one kind are interchangeable, and so are closers.
KindSymmetry == Permutations({n1, n2, n3}) \cup Permutations({k1, k2})

AllModes == [cancelQueued : BOOLEAN, cancelRunning : BOOLEAN]

\* What the native MCP server and the governed CLI actions pass to close().
ShutdownMode == {[cancelQueued |-> TRUE, cancelRunning |-> TRUE]}
=============================================================================
