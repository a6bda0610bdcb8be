------------------------------- MODULE MCPower -------------------------------
(* Placement and power without approvals: the policy keeps asking for none. *)
EXTENDS Dcim, TLC

Symmetry == Permutations(Proc) \cup Permutations(Rack) \cup Permutations(Socket)
              \cup Permutations(Conn) \cup Permutations(Role) \cup Permutations(Device)

DirectNext ==
  \/ PlacementCall \/ PowerCall
  \/ \E p \in Proc : PlacementStep(p) \/ PowerStep(p) \/ Crash(p)

DirectSpec == Init /\ [][DirectNext]_vars
=============================================================================
