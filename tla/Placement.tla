------------------------------ MODULE Placement ------------------------------
(***************************************************************************)
(* Devices and racks: creation, optimistic editing, deletion, mounting     *)
(* (ASSIGN), moving (MOVE) and taking off the rack (DECOMMISSION).         *)
(* internal/service/device.go, internal/service/resource.go and the        *)
(* repository methods they call.                                           *)
(*                                                                         *)
(* A conditional UPDATE ... WHERE id = ? AND version = ? that matches no   *)
(* row changes nothing, and so does a check that fails before the first    *)
(* lock: such requests are not steps.  The client's version is the one of  *)
(* the row the handler reads first, any older one being refused anyway.    *)
(***************************************************************************)
EXTENDS Inventory

Operation == {"ASSIGN", "MOVE"}

CreateDevice(d, h, life) ==
  /\ device[d].st = "none"
  /\ device' = [device EXCEPT ![d] = [st |-> "live", ver |-> 1, life |-> life, height |-> h]]
  /\ UNCHANGED <<rack, pos, hist, pdu, sock, conn, ticket, policy, lock, req>>

\* GetDevice.  The position is looked up only when the height is to change; a
\* height that is not positive leaves it as read.
UpdateDeviceRead(p, d, h) ==
  /\ req[p].at = "idle"
  /\ LiveDevice(d) /\ device[d].ver < MaxVersion
  /\ LET height == IF h > 0 THEN h ELSE device[d].height
         next == IF height = device[d].height THEN "update.write" ELSE "update.position"
     IN Begin(p, [Idle EXCEPT !.at = next, !.dev = d, !.height = height, !.ver = device[d].ver])
  /\ UNCHANGED tables

\* GetActivePosition: a mounted device keeps its height.
UpdateDevicePosition(p) ==
  /\ req[p].at = "update.position"
  /\ Begin(p, IF Positioned(req[p].dev) THEN Idle ELSE [req[p] EXCEPT !.at = "update.write"])
  /\ UNCHANGED tables

\* The row a versioned UPDATE of device d matches.
MatchesVersion(d, ver) == LiveDevice(d) /\ device[d].ver = ver

UpdateDeviceWrite(p) ==
  /\ req[p].at = "update.write"
  /\ Unlocked(req[p].dev)
  /\ device' = IF MatchesVersion(req[p].dev, req[p].ver)
               THEN [device EXCEPT ![req[p].dev].height = req[p].height, ![req[p].dev].ver = @ + 1]
               ELSE device
  /\ Begin(p, Idle)
  /\ UNCHANGED <<rack, pos, hist, pdu, sock, conn, ticket, policy>>

\* GetDevice and GetActivePosition.
DeleteDeviceCheck(p, d) ==
  /\ req[p].at = "idle"
  /\ LiveDevice(d) /\ device[d].ver < MaxVersion
  /\ ~Positioned(d)
  /\ Begin(p, [Idle EXCEPT !.at = "delete.write", !.dev = d, !.ver = device[d].ver])
  /\ UNCHANGED tables

DeleteDeviceWrite(p) ==
  /\ req[p].at = "delete.write"
  /\ Unlocked(req[p].dev)
  /\ device' = IF MatchesVersion(req[p].dev, req[p].ver)
               THEN [device EXCEPT ![req[p].dev].st = "deleted", ![req[p].dev].ver = @ + 1]
               ELSE device
  /\ Begin(p, Idle)
  /\ UNCHANGED <<rack, pos, hist, pdu, sock, conn, ticket, policy>>

\* positionChange when the policy read first asks for no approval of op.
RequestPlace(p, op, d, r, u) ==
  /\ req[p].at = "idle"
  /\ ~policy[op]
  /\ LiveDevice(d) /\ device[d].ver < MaxVersion
  /\ Begin(p, [Idle EXCEPT !.at = "place.device", !.op = op, !.dev = d, !.rack = r, !.startU = u])
  /\ UNCHANGED tables

\* With a bug: a powered device may move.
MayPlacePowered(d, op) ==
  \/ op = "ASSIGN" /\ device[d].life \in {"WAITING_RACK", "OFF_RACK"}
  \/ op = "MOVE" /\ device[d].life \in {"RUNNING", "MAINTENANCE"}

\* What placeInTx asks of the locked device: an ASSIGN starts off the rack, a MOVE
\* starts on it and without a live power connection.
MayPlace(d, op) ==
  \/ /\ op = "ASSIGN"
     /\ device[d].life \in {"WAITING_RACK", "OFF_RACK"}
  \/ /\ op = "MOVE"
     /\ device[d].life \in {"RUNNING", "MAINTENANCE"}
     /\ ConnsOfDevice(d) = {}

\* With a bug: the version of the snapshot is not compared.
ApprovedAnyVersion(t, d) == TRUE

\* An approval is executed only on the device version it was requested for.
ApprovedVersion(t, d) == t # None => ticket[t].ver = device[d].ver

PlaceDevice(p) ==
  /\ req[p].at = "place.device"
  /\ LET d == req[p].dev IN
       /\ Available(p, d)
       /\ \/ /\ LiveDevice(d) /\ ApprovedVersion(req[p].ticket, d) /\ MayPlace(d, req[p].op)
             /\ TakeRow(p, d, [req[p] EXCEPT !.at = "place.rack", !.height = device[d].height])
             /\ UNCHANGED tables
          \/ /\ ~(LiveDevice(d) /\ ApprovedVersion(req[p].ticket, d) /\ MayPlace(d, req[p].op))
             /\ Rollback(p)

\* What placeInTx asks of the locked rack for d to take place w: the rack is in
\* service, w lies inside it and no other device occupies a unit of it.
Fits(d, w) ==
  /\ LiveRack(w.rack) /\ rack[w.rack].status \notin {"DISABLED", "PLANNING"}
  /\ w.startU >= 1 /\ w.endU =< rack[w.rack].uHeight
  /\ ~Taken(d, w)

Target(q) == PlaceAt(q.rack, q.startU, q.height)

PlaceRack(p) ==
  /\ req[p].at = "place.rack"
  /\ Available(p, req[p].rack)
  /\ \/ /\ req[p].height >= 1 /\ Fits(req[p].dev, Target(req[p]))
        /\ TakeRow(p, req[p].rack, [req[p] EXCEPT !.at = "place.commit"])
        /\ UNCHANGED tables
     \/ /\ ~(req[p].height >= 1 /\ Fits(req[p].dev, Target(req[p])))
        /\ Rollback(p)

\* PlaceInRack, UpdateDeviceLifecycle, writeHistory, the decision of the approval
\* this executes, COMMIT.
PlaceCommit(p) ==
  /\ req[p].at = "place.commit"
  /\ LET d == req[p].dev  t == req[p].ticket IN
       /\ pos' = [pos EXCEPT ![d] = Target(req[p])]
       /\ device' = [device EXCEPT ![d] = WithLife(@, "RUNNING")]
       /\ hist' = [hist EXCEPT ![d] = Journal(d, req[p].op, Target(req[p]))]
       /\ ticket' = IF t = None THEN ticket ELSE [ticket EXCEPT ![t].st = "APPROVED"]
  /\ EndTx(p)
  /\ UNCHANGED <<rack, pdu, sock, conn, policy>>

\* decommissionInTx: the locked device and its connections.
DecommissionDevice(p, d) ==
  /\ req[p].at = "idle"
  /\ Unlocked(d) /\ LiveDevice(d) /\ device[d].ver < MaxVersion
  /\ device[d].life \notin {"SCRAPPED", "OFF_RACK"}
  /\ ConnsOfDevice(d) = {}
  /\ TakeRow(p, d, [Idle EXCEPT !.at = "off.commit", !.dev = d])
  /\ UNCHANGED tables

\* RemoveFromRack (a device without a position is no error), lifecycle, history.
DecommissionCommit(p) ==
  /\ req[p].at = "off.commit"
  /\ LET d == req[p].dev IN
       /\ pos' = [pos EXCEPT ![d] = NoPlace]
       /\ device' = [device EXCEPT ![d] = WithLife(@, "OFF_RACK")]
       /\ hist' = [hist EXCEPT ![d] = Journal(d, "DECOMMISSION", NoPlace)]
  /\ EndTx(p)
  /\ UNCHANGED <<rack, pdu, sock, conn, ticket, policy>>

CreateRack(r, h, status) ==
  /\ rack[r].st = "none"
  /\ rack' = [rack EXCEPT ![r] = [st |-> "live", status |-> status, uHeight |-> h]]
  /\ UNCHANGED <<device, pos, hist, pdu, sock, conn, ticket, policy, lock, req>>

\* One conditional UPDATE: it waits for the row lock and asks nothing of the
\* devices in the rack.
UpdateRack(r, h, status) ==
  /\ LiveRack(r) /\ Unlocked(r)
  /\ rack' = [rack EXCEPT ![r].status = status, ![r].uHeight = h]
  /\ UNCHANGED <<device, pos, hist, pdu, sock, conn, ticket, policy, lock, req>>

\* With a bug: the counts are taken without locking the rack.
DeleteRackCheckUnlocked(p, r) ==
  /\ req[p].at = "idle"
  /\ LiveRack(r)
  /\ Occupants(r) = {} /\ {u \in Pdu : pdu[u].st = "live" /\ pdu[u].rack = r} = {}
  /\ Begin(p, [Idle EXCEPT !.at = "retire.commit", !.rack = r])
  /\ UNCHANGED tables

\* GetRackLock, CountActivePositions, CountPDUsByRack.
DeleteRackCheck(p, r) ==
  /\ req[p].at = "idle"
  /\ Unlocked(r) /\ LiveRack(r)
  /\ Occupants(r) = {}
  /\ {u \in Pdu : pdu[u].st = "live" /\ pdu[u].rack = r} = {}
  /\ TakeRow(p, r, [Idle EXCEPT !.at = "retire.commit", !.rack = r])
  /\ UNCHANGED tables

DeleteRackCommit(p) ==
  /\ req[p].at = "retire.commit"
  /\ rack' = [rack EXCEPT ![req[p].rack].st = "deleted"]
  /\ EndTx(p)
  /\ UNCHANGED <<device, pos, hist, pdu, sock, conn, ticket, policy>>

\* The next statement of a request that has begun.
PlacementStep(p) ==
  \/ UpdateDevicePosition(p) \/ UpdateDeviceWrite(p) \/ DeleteDeviceWrite(p)
  \/ PlaceDevice(p) \/ PlaceRack(p) \/ PlaceCommit(p)
  \/ DecommissionCommit(p) \/ DeleteRackCommit(p)

\* A client's request arrives.
PlacementCall ==
  \/ \E d \in Device, h \in Heights, life \in Lives : CreateDevice(d, h, life)
  \/ \E r \in Rack, h \in UHeights, s \in Statuses : CreateRack(r, h, s)
  \/ \E r \in Rack, h \in UHeights, s \in Statuses : UpdateRack(r, h, s)
  \/ \E p \in Proc :
       \/ \E d \in Device, h \in Heights : UpdateDeviceRead(p, d, h)
       \/ \E d \in Device : DeleteDeviceCheck(p, d)
       \/ \E op \in Operation, d \in Device, r \in Rack, u \in StartUs : RequestPlace(p, op, d, r, u)
       \/ \E d \in Device : DecommissionDevice(p, d)
       \/ \E r \in Rack : DeleteRackCheck(p, r)

PlacementNext ==
  \/ PlacementCall
  \/ \E p \in Proc : PlacementStep(p) \/ Crash(p)

PlacementSpec == Init /\ [][PlacementNext]_vars
-----------------------------------------------------------------------------
(* Properties *)

\* No two mounted devices share a U of a rack.  The exclusion constraint on
\* rack_u_occupancies is not part of the model: the overlap check of placeInTx and
\* the rack lock it is made under must suffice.
FootprintsDisjoint ==
  \A d \in Device : \A e \in Device \ {d} :
    Positioned(d) /\ pos[d].rack = pos[e].rack => ~RangesOverlap(pos[d], pos[e])

\* A position belongs to a device and a rack that exist: no deletion of either can
\* slip between placeInTx's checks and its writes, nor the other way round.
NoGhostPosition ==
  \A d \in Device : Positioned(d) => LiveDevice(d) /\ LiveRack(pos[d].rack)

\* A position says of its device what the device row says: it is running, and it is
\* as high as the units it occupies.  UpdateDevice checks the position without a
\* lock, so this rests on every placement bumping the version it is conditional on.
PositionMatchesDevice ==
  \A d \in Device : Positioned(d) =>
    /\ device[d].life = "RUNNING"
    /\ pos[d].startU >= 1
    /\ pos[d].endU = pos[d].startU + device[d].height - 1

\* The history of a device is an unbroken account of where it was: it starts off the
\* rack, every entry leaves the place the one before it reached, and the last one
\* reached the place the device is in.
HistoryChain ==
  \A d \in Device : LET h == hist[d] IN
    /\ \A i \in 1 .. Len(h) : h[i].from = IF i = 1 THEN NoPlace ELSE h[i - 1].to
    /\ pos[d] = IF h = << >> THEN NoPlace ELSE h[Len(h)].to
=============================================================================
