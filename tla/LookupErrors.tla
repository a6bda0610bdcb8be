---------------------------- MODULE LookupErrors ----------------------------
(***************************************************************************)
(* Placement when a single query may fail.  UpdateDevice runs outside of a *)
(* transaction, each statement on a pooled connection of its own, and asks *)
(*   if pos, err := GetActivePosition(id); err == nil && pos != nil && ... *)
(* so that any error of the query is taken for "not mounted".              *)
(***************************************************************************)
EXTENDS Placement

\* GetActivePosition fails (a timeout, a broken or refused connection); the update
\* goes on.
UpdateDevicePositionError(p) ==
  /\ req[p].at = "update.position"
  /\ Begin(p, [req[p] EXCEPT !.at = "update.write"])
  /\ UNCHANGED tables

LookupNext ==
  \/ PlacementNext
  \/ \E p \in Proc : UpdateDevicePositionError(p)

LookupSpec == Init /\ [][LookupNext]_vars
-----------------------------------------------------------------------------
(* Properties *)

\* "A mounted device must not change its height (contract)": the comment in
\* UpdateDevice on this very check.
MountedHeightKept ==
  [][\A d \in Device : Positioned(d) => device'[d].height = device[d].height]_vars
=============================================================================
