------------------------------ MODULE MCTaskQueue ------------------------------
(***************************************************************************)
(* Instance of TaskQueue.  Tasks and workers are interchangeable.          *)
(***************************************************************************)
EXTENDS TaskQueue, TLC

Symmetry == Permutations(Tasks) \cup Permutations(Workers)
=============================================================================
