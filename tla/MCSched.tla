------------------------------ MODULE MCSched ------------------------------
(* Sched for TLC. *)
EXTENDS Sched, TLC

Symmetry == Permutations(Task) \cup Permutations(Cpu)
=============================================================================
