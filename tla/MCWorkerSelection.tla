-------------------------- MODULE MCWorkerSelection --------------------------
(* Small instances of WorkerSelection for TLC.                             *)
EXTENDS WorkerSelection, TLC

CONSTANTS p1, p2, t1, c1

OnePatchInScope == [t \in Task |-> {c1}]

ProcSymmetry == Permutations(Proc)
=============================================================================
