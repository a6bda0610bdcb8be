----------------------------- MODULE MCPlacement -----------------------------
(* Two concurrent requests on two devices and two racks, placement only (the tables of power stay empty). *)
EXTENDS Dcim, TLC

Symmetry == Permutations(Proc) \cup Permutations(Device) \cup Permutations(Rack)
=============================================================================
