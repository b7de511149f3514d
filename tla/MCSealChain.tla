---------------------------- MODULE MCSealChain ----------------------------
(* SealChain for TLC with more than one process: they are interchangeable. *)
EXTENDS SealChain, TLC

ProcSymmetry == Permutations(Procs)
=============================================================================
