---------------------------- MODULE MCTaskEditing ----------------------------
(* TaskEditing with the symmetry of its TLC runs.                          *)
EXTENDS TaskEditing, TLC

Symmetry == Permutations(Task) \cup Permutations(Value)
=============================================================================
