---------------------------- MODULE MCWorkerPool ----------------------------
(* WorkerPool on small pools; workers are interchangeable.                 *)
EXTENDS WorkerPool, TLC

Symmetry == Permutations(Workers)
=============================================================================
