------------------------------ MODULE MCSchema ------------------------------
(* Small instances of the schema set-up for TLC. *)
EXTENDS Schema, TLC

CONSTANTS p1, p2, p3

ProcSymmetry == Permutations(Procs)
=============================================================================
