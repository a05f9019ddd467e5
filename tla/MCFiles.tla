------------------------------ MODULE MCFiles -------------------------------
(* Files with interchangeable files: nothing tells one from another but what *)
(* was done to it, and every property speaks of all of them alike.           *)
EXTENDS Files, TLC

Symmetry == Permutations(File)
=============================================================================
