----------------------------- MODULE MCApprovals -----------------------------
(* Two approval records racing with direct placement and editing; no power. *)
EXTENDS Approvals, TLC

Symmetry == Permutations(Proc) \cup Permutations(Ticket) \cup Permutations(Rack)

ApprovalsNext ==
  \/ PlacementCall \/ ApprovalCall
  \/ \E p \in Proc : PlacementStep(p) \/ ApprovalStep(p) \/ Crash(p)

ApprovalsSpec == Init /\ [][ApprovalsNext]_vars
=============================================================================
