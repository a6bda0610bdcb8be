------------------------------ MODULE Approvals ------------------------------
(***************************************************************************)
(* Placements that need approval: the operation policy, the pending        *)
(* request with the snapshot it is based on, and its single decision.      *)
(* internal/service/approval.go, internal/handler/device.go                *)
(* (positionChange) and internal/repository/approval.go.                   *)
(***************************************************************************)
EXTENDS Placement

\* GetPolicy, then a conditional UPDATE of the one policy row.
UpdatePolicy(op, on) ==
  /\ policy[op] # on
  /\ policy' = [policy EXCEPT ![op] = on]
  /\ UNCHANGED <<device, rack, pos, hist, pdu, sock, conn, ticket, lock, req>>

FreshTicket(t) == ticket[t].st = "none" /\ \A q \in Proc : req[q].ticket # t

\* positionChange when the policy asks for approval of op: GetDevice.  The request
\* will be stored under the fresh id t.  was (history): where the device is at the
\* version that is read.
RequestApproval(p, t, op, d, r, u) ==
  /\ req[p].at = "idle"
  /\ FreshTicket(t) /\ policy[op]
  /\ LiveDevice(d) /\ device[d].ver < MaxVersion
  /\ Begin(p, [Idle EXCEPT !.at = "submit.position", !.op = op, !.dev = d, !.rack = r,
                           !.ticket = t, !.startU = u, !.height = device[d].height, !.ver = device[d].ver,
                           !.was = pos[d]])
  /\ UNCHANGED tables

\* CreatePending: GetActivePosition, a statement later than GetDevice.  Any error of
\* the query is taken for "not mounted": the request is filed without a source.
SubmitPosition(p) ==
  /\ req[p].at = "submit.position"
  /\ \E source \in {pos[req[p].dev], NoPlace} :
       Begin(p, [req[p] EXCEPT !.at = "submit.insert", !.from = source])
  /\ UNCHANGED tables

\* The INSERT waits for the rows its foreign keys refer to while they are locked FOR
\* UPDATE; nothing of what was read is checked again.
SubmitInsert(p) ==
  /\ req[p].at = "submit.insert"
  /\ Unlocked(req[p].dev) /\ Unlocked(req[p].rack)
  /\ ticket' = IF rack[req[p].rack].st = "none" THEN ticket ELSE
       [ticket EXCEPT ![req[p].ticket] =
          [st |-> "PENDING", op |-> req[p].op, dev |-> req[p].dev, ver |-> req[p].ver,
           height |-> req[p].height, from |-> req[p].from, was |-> req[p].was, rack |-> req[p].rack,
           startU |-> req[p].startU]]
  /\ Begin(p, Idle)
  /\ UNCHANGED <<device, rack, pos, hist, pdu, sock, conn, policy>>

\* Approve: Decide updates the row if it is still pending, which locks it; the new
\* status is visible at COMMIT (PlaceCommit).  The device lock, the version check and
\* the placement follow (PlaceDevice, PlaceRack).
Approve(p, t) ==
  /\ req[p].at = "idle"
  /\ Unlocked(t) /\ ticket[t].st = "PENDING"
  /\ device[ticket[t].dev].ver < MaxVersion
  /\ TakeRow(p, t, [Idle EXCEPT !.at = "place.device", !.ticket = t, !.op = ticket[t].op,
                                !.dev = ticket[t].dev, !.rack = ticket[t].rack,
                                !.startU = ticket[t].startU])
  /\ UNCHANGED tables

\* With a bug: the update is not conditional on the request being pending.
RejectDecided(t) ==
  /\ Unlocked(t) /\ ticket[t].st # "none"
  /\ ticket' = [ticket EXCEPT ![t].st = "REJECTED"]
  /\ UNCHANGED <<device, rack, pos, hist, pdu, sock, conn, policy, lock, req>>

\* Reject: the same conditional update, with its audit record, in one transaction.
Reject(t) ==
  /\ Unlocked(t) /\ ticket[t].st = "PENDING"
  /\ ticket' = [ticket EXCEPT ![t].st = "REJECTED"]
  /\ UNCHANGED <<device, rack, pos, hist, pdu, sock, conn, policy, lock, req>>

ApprovalStep(p) == SubmitPosition(p) \/ SubmitInsert(p)

ApprovalCall ==
  \/ \E op \in Operation, on \in BOOLEAN : UpdatePolicy(op, on)
  \/ \E t \in Ticket : Reject(t)
  \/ \E p \in Proc :
       \/ \E t \in Ticket, op \in Operation, d \in Device, r \in Rack, u \in StartUs :
            RequestApproval(p, t, op, d, r, u)
       \/ \E t \in Ticket : Approve(p, t)

-----------------------------------------------------------------------------
(* Properties *)

\* An approval executes exactly what was asked for, from exactly the situation it was
\* asked in: the step that makes a pending request APPROVED moves its device from where
\* it was at the recorded version to the recorded target at the recorded height, and
\* enters that in the history.  The recorded source (read by another statement than the
\* version) is that place too, or empty: a failed lookup leaves it out, so that a request
\* for a mounted device may show no source to who approves it.
ApprovalExecutesRequest ==
  [][\A t \in Ticket : ticket[t].st = "PENDING" /\ ticket'[t].st = "APPROVED" =>
       LET d == ticket[t].dev IN
         /\ pos[d] = ticket[t].was /\ ticket[t].from \in {pos[d], NoPlace}
         /\ pos'[d] = PlaceAt(ticket[t].rack, ticket[t].startU, ticket[t].height)
         /\ hist'[d] = Append(hist[d], [op |-> ticket[t].op, from |-> ticket[t].was, to |-> pos'[d]])]_vars

DecidedOnce ==
  \A t \in Ticket : ticket[t].st # "none" /\ ticket'[t] # ticket[t] =>
    /\ ticket[t].st = "PENDING"
    /\ ticket'[t] \in {[ticket[t] EXCEPT !.st = s] : s \in {"APPROVED", "REJECTED"}}

\* Decided once: a request that was approved or rejected never changes again, and
\* while it is pending only its decision does.
DecisionFinal == [][DecidedOnce]_vars
=============================================================================
