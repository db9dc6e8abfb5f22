----------------------------- MODULE MCFileQueue -----------------------------
(* Symmetry for model checking FileQueue. *)
EXTENDS FileQueue, TLC

JobSymmetry == Permutations(JobIds)
==============================================================================
