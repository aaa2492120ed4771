-------------------------- MODULE MCRestorePoints --------------------------
(* Small instances of RestorePoints for TLC. *)
EXTENDS RestorePoints, TLC

\* Cleanup and recovery tasks are interchangeable.
Symmetry == Permutations(Cleanups) \cup Permutations(Recoveries)
=============================================================================
