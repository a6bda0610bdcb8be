------------------------------- MODULE MCDcim -------------------------------
(* Everything together on the smallest instance where all parts meet. *)
EXTENDS Invariant, TLC

Symmetry == Permutations(Proc) \cup Permutations(Rack)
=============================================================================
