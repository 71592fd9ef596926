------------------------------ MODULE MCDatabase ------------------------------
(* A small instance of DatabaseMaintenance for TLC. *)
EXTENDS DatabaseMaintenance, TLC
Symmetry == Permutations(Spare)
=============================================================================
