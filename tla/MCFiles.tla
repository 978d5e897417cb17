------------------------------- MODULE MCFiles ------------------------------
(* Module Files for TLC.  Nothing orders tasks, files or vnodes, and only  *)
(* invariants are checked: any permutation of each set is a symmetry.      *)
EXTENDS Files, TLC

Symmetry == Permutations(Task) \cup Permutations(File) \cup Permutations(Vnode)
=============================================================================
