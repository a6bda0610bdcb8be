-------------------------- MODULE ConsistencyProofs --------------------------
(***************************************************************************)
(* The tables agree: Consistent of module Invariant is preserved by every  *)
(* commit, because of what its request may rely on (Facts) when it writes. *)
(* With the other layers this makes Inductive an invariant, and with it    *)
(* the properties of placement and power it contains.  From it follows     *)
(* what the commits do: an approval executes what was asked for, a PDU is  *)
(* retired with what was confirmed, and the handlers implement the ledger  *)
(* of module Ledger.                                                       *)
(***************************************************************************)
EXTENDS StepProofs, FiniteSetTheorems

-----------------------------------------------------------------------------
(* What a request has at its commit *)

LEMMA Committing ==
  ASSUME Shape, Layers, NEW p \in Proc
  PROVE  FactsOf(req[p]) /\ FreshRows(req[p]) /\ req[p] \in Request /\ ArgumentsOK(req[p])
BY DEF Layers, Facts, Fresh, Shape, TypeOK

\* The facts of the invariant that the earlier theorems state as guards.
LEMMA Guards ==
  ASSUME Shape, Layers, Consistent
  PROVE  Footprints /\ Roles
<1>1. \A p \in Proc : RackGuard(p)
  BY Stages DEF RackGuard, Layers, Facts, FactsOf, RackFacts, Fits
<1>2. \A p \in Proc : RoleGuard(p)
  BY Stages DEF RoleGuard, Layers, Facts, FactsOf, DeviceFacts
<1> QED BY <1>1, <1>2 DEF Footprints, Roles, Consistent

-----------------------------------------------------------------------------
(* Positions *)

Positions == NoGhostPosition /\ PositionMatchesDevice /\ Vacant /\ Unborn

LEMMA PositionsUntouched ==
  ASSUME Positions, UNCHANGED <<device, pos>>,
         \A r \in Rack : rack[r].st = "live" => rack'[r].st = "live"
  PROVE  Positions'
BY DEF Positions, NoGhostPosition, PositionMatchesDevice, Vacant, Unborn, Positioned, LiveDevice, LiveRack

LEMMA UpdateDevicePositions ==
  ASSUME Shape, Layers, Positions, NEW p \in Proc, UpdateDeviceWrite(p)
  PROVE  Positions'
<1> DEFINE d == req[p].dev
<1>1. d \in Device /\ UNCHANGED <<pos, rack>>
  BY Stages DEF UpdateDeviceWrite, Layers, DeviceStages
<1>2. CASE device' = device
  BY <1>1, <1>2, PositionsUntouched
<1>3. CASE device' # device
  <2>1. /\ device' = [device EXCEPT ![d].height = req[p].height, ![d].ver = @ + 1]
        /\ LiveDevice(d) /\ device[d].ver = req[p].ver
    BY <1>3 DEF UpdateDeviceWrite, MatchesVersion
  <2>2. Positioned(d) => req[p].height = device[d].height
    BY <2>1, Committing DEF UpdateDeviceWrite, FactsOf, VersionFacts
  <2>3. /\ \A e \in Device : device'[e].st = device[e].st /\ device'[e].life = device[e].life
        /\ \A e \in Device : Positioned(e) => device'[e].height = device[e].height
        /\ \A e \in Device \ {d} : device'[e].ver = device[e].ver
    BY <1>1, <2>1, <2>2 DEF Shape, TypeOK, DeviceRow
  <2> HIDE DEF d
  <2>4. d \in Device /\ device[d].st = "live"
    BY <1>1, <2>1 DEF LiveDevice
  <2>5. \A e \in Device : device[e].st = "none" => e # d
    BY <2>4
  <2>6. NoGhostPosition'
    BY <1>1, <2>3 DEF Positions, NoGhostPosition, Positioned, LiveDevice, LiveRack
  <2>7. PositionMatchesDevice'
    BY <1>1, <2>3 DEF Positions, PositionMatchesDevice, Positioned
  <2>8. Vacant'
    BY <1>1 DEF Positions, Vacant, Positioned
  <2>9. Unborn'
    BY <2>3, <2>5 DEF Positions, Unborn
  <2> QED BY <2>6, <2>7, <2>8, <2>9 DEF Positions
<1> QED BY <1>2, <1>3

LEMMA DeleteDevicePositions ==
  ASSUME Shape, Layers, Positions, NEW p \in Proc, DeleteDeviceWrite(p)
  PROVE  Positions'
<1> DEFINE d == req[p].dev
<1>1. d \in Device /\ UNCHANGED <<pos, rack>>
  BY Stages DEF DeleteDeviceWrite, Layers, DeviceStages
<1>2. CASE device' = device
  BY <1>1, <1>2, PositionsUntouched
<1>3. CASE device' # device
  <2>1. /\ device' = [device EXCEPT ![d].st = "deleted", ![d].ver = @ + 1]
        /\ LiveDevice(d) /\ device[d].ver = req[p].ver
    BY <1>3 DEF DeleteDeviceWrite, MatchesVersion
  <2>2. ~Positioned(d)
    BY <2>1, Committing DEF DeleteDeviceWrite, FactsOf, VersionFacts
  <2>3. device'[d].st = "deleted" /\ \A e \in Device \ {d} : device'[e] = device[e]
    BY <1>1, <2>1, <2>2 DEF Shape, TypeOK, DeviceRow
  <2> HIDE DEF d
  <2> QED
    BY <1>1, <2>2, <2>3
       DEF Positions, NoGhostPosition, PositionMatchesDevice, Vacant, Unborn, Positioned, LiveDevice, LiveRack
<1> QED BY <1>2, <1>3

\* What the commit of a placement writes, and what it may rely on.
LEMMA Placed ==
  ASSUME Shape, Layers, NEW p \in Proc, PlaceCommit(p)
  PROVE  LET d == req[p].dev  t == req[p].ticket  w == Target(req[p]) IN
           /\ d \in Device /\ LiveDevice(d) /\ Unfed(d)
           /\ w.rack = req[p].rack /\ w.startU = req[p].startU /\ w.endU = req[p].startU + device[d].height - 1
           /\ device[d].height \in Int /\ device[d].height >= 1 /\ w.startU \in Int
           /\ Fits(d, w) /\ req[p].op \in Operation
           /\ req[p].op = "ASSIGN" => device[d].life \in {"WAITING_RACK", "OFF_RACK"}
           /\ pos'[d] = w /\ device'[d].st = "live" /\ device'[d].life = "RUNNING"
           /\ device'[d].height = device[d].height /\ device'[d].ver = device[d].ver + 1
           /\ \A e \in Device \ {d} : pos'[e] = pos[e] /\ device'[e] = device[e]
<1> DEFINE d == req[p].dev
<1>1. /\ req[p].at = "place.commit" /\ FactsOf(req[p]) /\ ArgumentsOK(req[p]) /\ req[p] \in Request
  BY Committing DEF PlaceCommit
<1>2. /\ d \in Device /\ LiveDevice(d) /\ Unfed(d) /\ req[p].height = device[d].height
      /\ req[p].op = "ASSIGN" => device[d].life \in {"WAITING_RACK", "OFF_RACK"}
      /\ req[p].height >= 1 /\ Fits(d, Target(req[p])) /\ req[p].op \in Operation
  BY <1>1 DEF FactsOf, DeviceFacts, RackFacts, ArgumentsOK, DeviceStages, PlaceStages
<1>3. /\ Target(req[p]).rack = req[p].rack /\ Target(req[p]).startU = req[p].startU
      /\ Target(req[p]).endU = req[p].startU + req[p].height - 1
      /\ req[p].startU \in Int /\ req[p].height \in Int
  BY <1>1 DEF Target, PlaceAt, Request
<1>4. /\ pos' = [pos EXCEPT ![d] = Target(req[p])]
      /\ device' = [device EXCEPT ![d] = WithLife(@, "RUNNING")]
  BY DEF PlaceCommit
<1> HIDE DEF d
<1>5. /\ device'[d] = [device[d] EXCEPT !.life = "RUNNING", !.ver = @ + 1] /\ pos'[d] = Target(req[p])
      /\ \A e \in Device \ {d} : pos'[e] = pos[e] /\ device'[e] = device[e]
      /\ device[d] \in DeviceRow
  BY <1>2, <1>4 DEF WithLife, Shape, TypeOK
<1>6. /\ device'[d].st = "live" /\ device'[d].life = "RUNNING" /\ device'[d].ver = device[d].ver + 1
      /\ device'[d].height = device[d].height
  BY <1>2, <1>5 DEF DeviceRow, LiveDevice
<1> QED BY <1>2, <1>3, <1>5, <1>6 DEF d

LEMMA PlacePositions ==
  ASSUME Shape, Layers, Positions, NEW p \in Proc, PlaceCommit(p)
  PROVE  Positions'
<1> DEFINE d == req[p].dev
           w == Target(req[p])
<1>1. /\ d \in Device /\ Fits(d, w)
      /\ w.endU = w.startU + device[d].height - 1
      /\ pos'[d] = w /\ device'[d].st = "live" /\ device'[d].life = "RUNNING"
      /\ device'[d].height = device[d].height
      /\ \A e \in Device \ {d} : pos'[e] = pos[e] /\ device'[e] = device[e]
  BY Placed
<1>2. UNCHANGED rack
  BY DEF PlaceCommit
<1>3. w.rack \in Rack /\ w.rack # None
  BY <1>1, NoneAssumption DEF Fits, LiveRack, Row
<1> HIDE DEF d, w
<1> QED
  BY <1>1, <1>2, <1>3
     DEF Positions, NoGhostPosition, PositionMatchesDevice, Vacant, Unborn, Positioned, LiveDevice, LiveRack, Fits

\* The same of the commit of a decommissioning.
LEMMA TakenOff ==
  ASSUME Shape, Layers, NEW p \in Proc, DecommissionCommit(p)
  PROVE  LET d == req[p].dev IN
           /\ d \in Device /\ LiveDevice(d) /\ Unfed(d)
           /\ pos'[d] = NoPlace /\ device'[d].st = "live"
           /\ \A e \in Device \ {d} : pos'[e] = pos[e] /\ device'[e] = device[e]
<1> DEFINE d == req[p].dev
<1>1. d \in Device /\ LiveDevice(d) /\ Unfed(d)
  BY Committing DEF DecommissionCommit, FactsOf, DeviceFacts, ArgumentsOK, DeviceStages
<1>2. /\ pos' = [pos EXCEPT ![d] = NoPlace]
      /\ device' = [device EXCEPT ![d] = WithLife(@, "OFF_RACK")]
  BY DEF DecommissionCommit
<1> QED BY <1>1, <1>2 DEF WithLife, Shape, TypeOK, DeviceRow, LiveDevice

LEMMA DecommissionPositions ==
  ASSUME Shape, Layers, Positions, NEW p \in Proc, DecommissionCommit(p)
  PROVE  Positions'
<1> DEFINE d == req[p].dev
<1>1. /\ d \in Device /\ pos'[d] = NoPlace /\ device'[d].st = "live"
      /\ \A e \in Device \ {d} : pos'[e] = pos[e] /\ device'[e] = device[e]
  BY TakenOff
<1>2. UNCHANGED rack
  BY DEF DecommissionCommit
<1> HIDE DEF d
<1> QED
  BY <1>1, <1>2
     DEF Positions, NoGhostPosition, PositionMatchesDevice, Vacant, Unborn, Positioned, LiveDevice, LiveRack, NoPlace

\* A deleted rack is empty: no device is in it and no PDU in use belongs to it.
LEMMA RackRetired ==
  ASSUME Shape, Layers, NEW p \in Proc, DeleteRackCommit(p)
  PROVE  /\ \A r \in Rack \ {req[p].rack} : rack'[r] = rack[r]
         /\ \A e \in Device : pos[e].rack # req[p].rack
         /\ \A u \in Pdu : pdu[u].st = "live" => pdu[u].rack # req[p].rack
         /\ req[p].rack \in Rack /\ LiveRack(req[p].rack)
         /\ rack' = [rack EXCEPT ![req[p].rack].st = "deleted"]
         /\ UNCHANGED <<device, pos, hist, pdu, sock, conn, ticket>>
BY Committing DEF DeleteRackCommit, FactsOf, RackFacts, ArgumentsOK, RackStages, Shape, TypeOK

LEMMA DeleteRackPositions ==
  ASSUME Shape, Layers, Positions, NEW p \in Proc, DeleteRackCommit(p)
  PROVE  Positions'
<1> DEFINE r == req[p].rack
<1>1. /\ \A x \in Rack \ {r} : rack'[x] = rack[x]
      /\ \A e \in Device : pos[e].rack # r
      /\ UNCHANGED <<device, pos>>
  BY RackRetired
<1> HIDE DEF r
<1> QED
  BY <1>1
     DEF Positions, NoGhostPosition, PositionMatchesDevice, Vacant, Unborn, Positioned, LiveDevice, LiveRack

LEMMA CreateDevicePositions ==
  ASSUME Shape, Positions, NEW d \in Device, NEW h, NEW life, CreateDevice(d, h, life)
  PROVE  Positions'
<1>1. device[d].st = "none" /\ device'[d].st = "live" /\ UNCHANGED <<pos, rack>>
  BY DEF CreateDevice, Shape, TypeOK
<1>2. \A e \in Device \ {d} : device'[e] = device[e]
  BY DEF CreateDevice, Shape, TypeOK
<1> QED
  BY <1>1, <1>2
     DEF Positions, NoGhostPosition, PositionMatchesDevice, Vacant, Unborn, Positioned, LiveDevice, LiveRack

LEMMA RackStatementPositions ==
  ASSUME Shape, Positions, NEW r \in Rack, NEW h, NEW s, CreateRack(r, h, s) \/ UpdateRack(r, h, s)
  PROVE  Positions'
<1>1. UNCHANGED <<device, pos>> /\ \A x \in Rack : rack[x].st = "live" => rack'[x].st = "live"
  <2>1. CASE CreateRack(r, h, s)
    BY <2>1 DEF CreateRack, Shape, TypeOK
  <2>2. CASE UpdateRack(r, h, s)
    BY <2>2 DEF UpdateRack, Shape, TypeOK, RackRow
  <2> QED BY <2>1, <2>2
<1> QED
  BY <1>1, PositionsUntouched

LEMMA PositionsNext ==
  ASSUME Shape, Layers, Consistent, UNCHANGED tables \/ Single \/ \E p \in Proc : Commit(p)
  PROVE  Positions'
<1>1. Positions
  BY DEF Consistent, Positions
<1>2. CASE UNCHANGED <<device, pos, rack>>
  BY <1>1, <1>2, PositionsUntouched
<1>3. CASE Single
  BY <1>1, <1>2, <1>3, CreateDevicePositions, RackStatementPositions DEF Single, UpdatePolicy, Reject
<1>4. ASSUME NEW p \in Proc, Commit(p) PROVE Positions'
  <2>1. CASE UpdateDeviceWrite(p) \/ DeleteDeviceWrite(p) \/ PlaceCommit(p) \/ DecommissionCommit(p)
             \/ DeleteRackCommit(p)
    BY <1>1, <2>1, UpdateDevicePositions, DeleteDevicePositions, PlacePositions, DecommissionPositions,
       DeleteRackPositions
  <2>2. CASE UNCHANGED <<device, pos, rack>>
    BY <1>2, <2>2
  <2> QED
    BY <1>4, <2>1, <2>2
       DEF Commit, CreatePduCommit, DeletePduCommit, ArchivePduCommit, CreateSocketCommit, ChangeSocketCommit,
           ConnectCommit, DisconnectCommit, SubmitInsert
<1> QED BY <1>2, <1>3, <1>4 DEF tables

-----------------------------------------------------------------------------
(* Power *)

Supply == Containment /\ SamePlacePower /\ SocketStatusTruth

\* What feeds a device is below a live socket of a live PDU.
LEMMA Feeding ==
  ASSUME Shape, Supply, NEW c \in Conn, conn[c].st = "live"
  PROVE  LET d == conn[c].dev  s == conn[c].sock  u == sock[s].pdu IN
           /\ d \in Device /\ device[d].st = "live" /\ Positioned(d)
           /\ s \in Socket /\ sock[s].st = "live" /\ sock[s].status = "CONNECTED"
           /\ u \in Pdu /\ pdu[u].st = "live"
           /\ pos[d].rack = pdu[u].rack /\ pdu[u].rack \in Rack /\ rack[pdu[u].rack].st = "live"
<1> DEFINE d == conn[c].dev
           s == conn[c].sock
           u == sock[s].pdu
<1>1. /\ LiveDevice(d) /\ LiveSocket(s) /\ LivePdu(u) /\ LiveRack(pdu[u].rack)
      /\ pos[d].rack = pdu[u].rack
  BY DEF Supply, SamePlacePower, LiveConns
<1>2. sock[s].status = "CONNECTED"
  BY <1>1 DEF Supply, SocketStatusTruth, ConnsOfSocket, LiveConns, LiveSocket
<1> QED
  BY <1>1, <1>2, NoneAssumption DEF LiveDevice, LiveSocket, LivePdu, LiveRack, Positioned, Row

LEMMA UnmountedUnfed ==
  ASSUME Shape, Supply, NEW d \in Device, ~Positioned(d) \/ device[d].st # "live"
  PROVE  Unfed(d)
BY Feeding DEF Unfed

\* To show the power supply right after a step, in terms of the rows.
LEMMA SupplyShown ==
  ASSUME \A u \in Pdu : pdu'[u].st = "live" => pdu'[u].rack \in Rack /\ rack'[pdu'[u].rack].st = "live",
         \A s \in Socket : sock'[s].st = "live" => sock'[s].pdu \in Pdu /\ pdu'[sock'[s].pdu].st = "live",
         \A c \in Conn : conn'[c].st = "live" =>
           /\ conn'[c].dev \in Device /\ device'[conn'[c].dev].st = "live"
           /\ conn'[c].sock \in Socket /\ sock'[conn'[c].sock].st = "live"
           /\ pos'[conn'[c].dev].rack = pdu'[sock'[conn'[c].sock].pdu].rack,
         \A s \in Socket : sock'[s].st = "live" =>
           (sock'[s].status = "CONNECTED" <=> \E c \in Conn : conn'[c].st = "live" /\ conn'[c].sock = s),
         \A c, e \in Conn : conn'[c].st = "live" /\ conn'[e].st = "live" /\ conn'[c].sock = conn'[e].sock => c = e
  PROVE  Supply'
<1>1. Containment'
  BY DEF Containment, LivePdu, LiveRack, LiveSocket
<1>2. SamePlacePower'
  BY DEF SamePlacePower, LiveConns, LiveDevice, LiveSocket, LivePdu, LiveRack
<1>3. SocketStatusTruth'
  BY DEF SocketStatusTruth, LiveSocket, ConnsOfSocket, LiveConns
<1> QED BY <1>1, <1>2, <1>3 DEF Supply

LEMMA SupplyKnown ==
  ASSUME Shape, Supply
  PROVE  /\ \A u \in Pdu : pdu[u].st = "live" => pdu[u].rack \in Rack /\ rack[pdu[u].rack].st = "live"
         /\ \A s \in Socket : sock[s].st = "live" => sock[s].pdu \in Pdu /\ pdu[sock[s].pdu].st = "live"
         /\ \A s \in Socket : sock[s].st = "live" =>
              (sock[s].status = "CONNECTED" <=> \E c \in Conn : conn[c].st = "live" /\ conn[c].sock = s)
         /\ \A c, e \in Conn : conn[c].st = "live" /\ conn[e].st = "live" /\ conn[c].sock = conn[e].sock => c = e
<1>1. \A u \in Pdu : pdu[u].st = "live" => pdu[u].rack \in Rack /\ rack[pdu[u].rack].st = "live"
  BY DEF Supply, Containment, LivePdu, LiveRack
<1>2. \A s \in Socket : sock[s].st = "live" => sock[s].pdu \in Pdu /\ pdu[sock[s].pdu].st = "live"
  BY DEF Supply, Containment, LivePdu, LiveSocket
<1>3. \A s \in Socket : sock[s].st = "live" =>
        (sock[s].status = "CONNECTED" <=> \E c \in Conn : conn[c].st = "live" /\ conn[c].sock = s)
  BY DEF Supply, SocketStatusTruth, LiveSocket, ConnsOfSocket, LiveConns
<1>4. ASSUME NEW c \in Conn, NEW e \in Conn, conn[c].st = "live", conn[e].st = "live", conn[c].sock = conn[e].sock
      PROVE  c = e
  <2>1. LiveSocket(conn[c].sock)
    BY <1>4 DEF Supply, SamePlacePower, LiveConns
  <2> QED BY <1>4, <2>1 DEF Supply, SocketStatusTruth, LiveSocket, ConnsOfSocket, LiveConns
<1> QED BY <1>1, <1>2, <1>3, <1>4

\* Placements and deletions of devices and racks spare what has power.
LEMMA SupplyUntouched ==
  ASSUME Shape, Supply, UNCHANGED <<pdu, sock, conn>>,
         \A d \in Device : Unfed(d) \/ (device'[d].st = device[d].st /\ pos'[d].rack = pos[d].rack),
         \A r \in Rack : rack[r].st = "live" =>
           rack'[r].st = "live" \/ \A u \in Pdu : pdu[u].st = "live" => pdu[u].rack # r
  PROVE  Supply'
<1>1. \A c \in Conn : conn[c].st = "live" =>
        /\ conn[c].dev \in Device /\ device'[conn[c].dev].st = "live"
        /\ conn[c].sock \in Socket /\ sock[conn[c].sock].st = "live"
        /\ pos'[conn[c].dev].rack = pdu[sock[conn[c].sock].pdu].rack
  BY Feeding DEF Unfed
<1>2. \A u \in Pdu : pdu[u].st = "live" => pdu[u].rack \in Rack /\ rack'[pdu[u].rack].st = "live"
  BY SupplyKnown
<1> QED
  BY <1>1, <1>2, SupplyKnown, SupplyShown

LEMMA DeviceStepSupply ==
  ASSUME Shape, Layers, Supply, NEW p \in Proc,
         \/ UpdateDeviceWrite(p) \/ DeleteDeviceWrite(p) \/ PlaceCommit(p) \/ DecommissionCommit(p)
  PROVE  Supply'
<1> DEFINE d == req[p].dev
<1>1. CASE UpdateDeviceWrite(p)
  <2>1. UNCHANGED <<pdu, sock, conn, rack, pos>> /\ \A e \in Device : device'[e].st = device[e].st
    BY <1>1 DEF UpdateDeviceWrite, Shape, TypeOK, DeviceRow
  <2> QED BY <2>1, SupplyUntouched
<1>2. CASE DeleteDeviceWrite(p)
  <2>1. UNCHANGED <<pdu, sock, conn, rack, pos>> /\ \A e \in Device \ {d} : device'[e] = device[e]
    BY <1>2 DEF DeleteDeviceWrite, Shape, TypeOK
  <2>2. device'[d] = device[d] \/ ~Positioned(d)
    BY <1>2, Committing DEF DeleteDeviceWrite, MatchesVersion, FactsOf, VersionFacts
  <2>3. \A e \in Device : device'[e] = device[e] \/ Unfed(e)
    BY <2>1, <2>2, UnmountedUnfed
  <2> QED BY <2>1, <2>3, SupplyUntouched
<1>3. CASE PlaceCommit(p)
  <2>1. UNCHANGED <<pdu, sock, conn, rack>>
    BY <1>3 DEF PlaceCommit
  <2>2. \A e \in Device : Unfed(e) \/ (device'[e] = device[e] /\ pos'[e] = pos[e])
    BY <1>3, Placed
  <2> QED BY <2>1, <2>2, SupplyUntouched
<1>4. CASE DecommissionCommit(p)
  <2>1. UNCHANGED <<pdu, sock, conn, rack>>
    BY <1>4 DEF DecommissionCommit
  <2>2. \A e \in Device : Unfed(e) \/ (device'[e] = device[e] /\ pos'[e] = pos[e])
    BY <1>4, TakenOff
  <2> QED BY <2>1, <2>2, SupplyUntouched
<1> QED BY <1>1, <1>2, <1>3, <1>4

LEMMA DeleteRackSupply ==
  ASSUME Shape, Layers, Supply, NEW p \in Proc, DeleteRackCommit(p)
  PROVE  Supply'
<1>1. UNCHANGED <<device, pos, pdu, sock, conn>>
  BY RackRetired
<1>2. \A r \in Rack : rack'[r] = rack[r] \/ \A u \in Pdu : pdu[u].st = "live" => pdu[u].rack # r
  BY RackRetired
<1> QED BY <1>1, <1>2, SupplyUntouched

LEMMA SingleSupply ==
  ASSUME Shape, Supply, Single
  PROVE  Supply'
<1>1. ASSUME NEW d \in Device, NEW h, NEW life, CreateDevice(d, h, life) PROVE Supply'
  <2>1. /\ UNCHANGED <<pdu, sock, conn, rack, pos>> /\ \A e \in Device \ {d} : device'[e] = device[e]
        /\ device[d].st = "none"
    BY <1>1 DEF CreateDevice, Shape, TypeOK
  <2> QED BY <2>1, UnmountedUnfed, SupplyUntouched
<1>2. ASSUME NEW r \in Rack, NEW h, NEW s, CreateRack(r, h, s) PROVE Supply'
  <2>1. UNCHANGED <<pdu, sock, conn, device, pos>> /\ \A x \in Rack : rack[x].st = "live" => rack'[x].st = "live"
    BY <1>2 DEF CreateRack, Shape, TypeOK
  <2> QED BY <2>1, SupplyUntouched
<1>3. ASSUME NEW r \in Rack, NEW h, NEW s, UpdateRack(r, h, s) PROVE Supply'
  <2>1. UNCHANGED <<pdu, sock, conn, device, pos>> /\ \A x \in Rack : rack[x].st = "live" => rack'[x].st = "live"
    BY <1>3 DEF UpdateRack, Shape, TypeOK, RackRow
  <2> QED BY <2>1, SupplyUntouched
<1>4. ASSUME UNCHANGED <<pdu, sock, conn, device, pos, rack>> PROVE Supply'
  BY <1>4, SupplyUntouched
<1> QED BY <1>1, <1>2, <1>3, <1>4 DEF Single, UpdatePolicy, Reject

LEMMA CreatePduSupply ==
  ASSUME Shape, Layers, Supply, NEW p \in Proc, CreatePduCommit(p)
  PROVE  Supply'
<1> DEFINE u == req[p].pdu
           r == req[p].rack
<1>1. u \in Pdu /\ pdu[u].st = "none" /\ r \in Rack /\ rack[r].st = "live"
  BY Committing
     DEF CreatePduCommit, FactsOf, RackFacts, FreshRows, LiveRack, ArgumentsOK, RackStages, PduStages
<1>2. /\ \A x \in Pdu \ {u} : pdu'[x] = pdu[x]
      /\ pdu'[u].st = "live" /\ pdu'[u].rack = r
      /\ UNCHANGED <<device, pos, rack, sock, conn>>
  BY <1>1 DEF CreatePduCommit, Shape, TypeOK
<1> HIDE DEF u, r
<1>3. \A c \in Conn : conn[c].st = "live" =>
        /\ conn[c].dev \in Device /\ device[conn[c].dev].st = "live"
        /\ conn[c].sock \in Socket /\ sock[conn[c].sock].st = "live"
        /\ pos[conn[c].dev].rack = pdu'[sock[conn[c].sock].pdu].rack
  BY <1>1, <1>2, Feeding
<1>4. /\ \A x \in Pdu : pdu'[x].st = "live" => pdu'[x].rack \in Rack /\ rack[pdu'[x].rack].st = "live"
      /\ \A s \in Socket : sock[s].st = "live" => sock[s].pdu \in Pdu /\ pdu'[sock[s].pdu].st = "live"
  BY <1>1, <1>2, SupplyKnown
<1> QED BY <1>2, <1>3, <1>4, SupplyKnown, SupplyShown

\* A PDU that goes takes its sockets with it, and every connection on them has gone
\* before or goes now.
LEMMA PduGoes ==
  ASSUME Shape, Layers, Supply, NEW p \in Proc, DeletePduCommit(p) \/ ArchivePduCommit(p)
  PROVE  LET u == req[p].pdu IN
           /\ u \in Pdu /\ pdu[u].st = "live" /\ pdu'[u].st = "deleted"
           /\ \A x \in Pdu \ {u} : pdu'[x] = pdu[x]
           /\ \A s \in Socket : IF sock[s].st = "live" /\ sock[s].pdu = u
                                THEN sock'[s].st = "deleted" ELSE sock'[s] = sock[s]
           /\ \A c \in Conn : IF conn[c].st = "live" /\ sock[conn[c].sock].pdu = u
                              THEN conn'[c].st = "deleted" ELSE conn'[c] = conn[c]
           /\ UNCHANGED <<device, pos, hist, rack, ticket>>
<1> DEFINE u == req[p].pdu
<1>1. u \in Pdu /\ pdu[u].st = "live"
  BY Committing DEF DeletePduCommit, ArchivePduCommit, FactsOf, PduFacts, LivePdu
<1>2. pdu' = PduGone(u) /\ sock' = SocketsGone(u) /\ UNCHANGED <<device, pos, hist, rack, ticket>>
  BY DEF DeletePduCommit, ArchivePduCommit
<1> HIDE DEF u
<1>3. /\ \A x \in Pdu \ {u} : pdu'[x] = pdu[x]
      /\ pdu'[u].st = "deleted"
  BY <1>1, <1>2 DEF PduGone, Shape, TypeOK, PduRow
<1>4. \A s \in Socket : IF sock[s].st = "live" /\ sock[s].pdu = u
                        THEN sock'[s].st = "deleted" ELSE sock'[s] = sock[s]
  BY <1>1, <1>2 DEF SocketsGone, SocketsOfPdu, LiveSocket, Shape, TypeOK, SocketRow
<1>5. CASE DeletePduCommit(p)
  <2>1. UNCHANGED conn /\ \A c \in Conn : conn[c].st = "live" => sock[conn[c].sock].pdu # u
    BY <1>5, Committing DEF DeletePduCommit, FactsOf, PduFacts, u
  <2> QED BY <1>1, <1>2, <1>3, <1>4, <2>1 DEF u
<1>6. CASE ArchivePduCommit(p)
  <2>1. \A c \in Conn : IF conn[c].st = "live" /\ sock[conn[c].sock].pdu = u
                        THEN conn'[c].st = "deleted" ELSE conn'[c] = conn[c]
    BY <1>6 DEF ArchivePduCommit, ArchivedConns, LiveConns, Shape, TypeOK, ConnRow, u
  <2> QED BY <1>1, <1>2, <1>3, <1>4, <2>1 DEF u
<1> QED BY <1>5, <1>6

LEMMA PduGoneSupply ==
  ASSUME Shape, Layers, Supply, NEW p \in Proc, DeletePduCommit(p) \/ ArchivePduCommit(p)
  PROVE  Supply'
<1> DEFINE u == req[p].pdu
<1>1. /\ u \in Pdu /\ pdu'[u].st = "deleted"
      /\ \A x \in Pdu \ {u} : pdu'[x] = pdu[x]
      /\ \A s \in Socket : IF sock[s].st = "live" /\ sock[s].pdu = u
                           THEN sock'[s].st = "deleted" ELSE sock'[s] = sock[s]
      /\ \A c \in Conn : IF conn[c].st = "live" /\ sock[conn[c].sock].pdu = u
                         THEN conn'[c].st = "deleted" ELSE conn'[c] = conn[c]
      /\ UNCHANGED <<device, pos, rack>>
  BY PduGoes
<1> HIDE DEF u
<1>2. \A x \in Pdu : pdu'[x].st = "live" => pdu'[x].rack \in Rack /\ rack[pdu'[x].rack].st = "live"
  BY <1>1, SupplyKnown
<1>3. \A s \in Socket : sock'[s].st = "live" =>
        sock'[s] = sock[s] /\ sock[s].pdu \in Pdu /\ sock[s].pdu # u /\ pdu'[sock[s].pdu].st = "live"
  BY <1>1, SupplyKnown
<1>4. \A c \in Conn : conn'[c].st = "live" => conn'[c] = conn[c] /\ sock[conn[c].sock].pdu # u
  BY <1>1
<1>5. \A c \in Conn : conn'[c].st = "live" =>
        /\ conn'[c].dev \in Device /\ device[conn'[c].dev].st = "live"
        /\ conn'[c].sock \in Socket /\ sock'[conn'[c].sock].st = "live"
        /\ pos[conn'[c].dev].rack = pdu'[sock'[conn'[c].sock].pdu].rack
  BY <1>1, <1>4, Feeding
<1>6. \A s \in Socket : sock'[s].st = "live" =>
        (sock'[s].status = "CONNECTED" <=> \E c \in Conn : conn'[c].st = "live" /\ conn'[c].sock = s)
  <2> SUFFICES ASSUME NEW s \in Socket, sock'[s].st = "live"
               PROVE  sock'[s].status = "CONNECTED" <=> \E c \in Conn : conn'[c].st = "live" /\ conn'[c].sock = s
    OBVIOUS
  <2>1. sock'[s] = sock[s] /\ sock[s].pdu # u
    BY <1>3
  <2>2. \A c \in Conn : conn'[c].st = "live" /\ conn'[c].sock = s <=> conn[c].st = "live" /\ conn[c].sock = s
    BY <1>1, <2>1
  <2> QED BY <2>1, <2>2, SupplyKnown
<1>7. \A c, e \in Conn : conn'[c].st = "live" /\ conn'[e].st = "live" /\ conn'[c].sock = conn'[e].sock => c = e
  BY <1>4, SupplyKnown
<1> QED BY <1>1, <1>2, <1>3, <1>5, <1>6, <1>7, SupplyShown

LEMMA CreateSocketSupply ==
  ASSUME Shape, Layers, Supply, NEW p \in Proc, CreateSocketCommit(p)
  PROVE  Supply'
<1> DEFINE s == req[p].sock
           u == req[p].pdu
<1>1. s \in Socket /\ sock[s].st = "none" /\ u \in Pdu /\ pdu[u].st = "live"
  BY Committing
     DEF CreateSocketCommit, FactsOf, PduFacts, FreshRows, LivePdu, ArgumentsOK, PduStages
<1>2. /\ \A x \in Socket \ {s} : sock'[x] = sock[x]
      /\ sock'[s].st = "live" /\ sock'[s].pdu = u /\ sock'[s].status = "AVAILABLE"
      /\ UNCHANGED <<device, pos, rack, pdu, conn>>
  BY <1>1 DEF CreateSocketCommit, Shape, TypeOK
<1> HIDE DEF u, s
<1>3. \A c \in Conn : conn[c].st = "live" => conn[c].sock # s
  BY <1>1, Feeding
<1>4. \A c \in Conn : conn[c].st = "live" =>
        /\ conn[c].dev \in Device /\ device[conn[c].dev].st = "live"
        /\ conn[c].sock \in Socket /\ sock'[conn[c].sock].st = "live"
        /\ pos[conn[c].dev].rack = pdu[sock'[conn[c].sock].pdu].rack
  BY <1>2, <1>3, Feeding
<1>5. /\ \A x \in Socket : sock'[x].st = "live" => sock'[x].pdu \in Pdu /\ pdu[sock'[x].pdu].st = "live"
      /\ \A x \in Socket : sock'[x].st = "live" =>
           (sock'[x].status = "CONNECTED" <=> \E c \in Conn : conn[c].st = "live" /\ conn[c].sock = x)
  BY <1>1, <1>2, <1>3, SupplyKnown
<1> QED BY <1>2, <1>4, <1>5, SupplyKnown, SupplyShown

LEMMA ChangeSocketSupply ==
  ASSUME Shape, Layers, Supply, NEW p \in Proc, ChangeSocketCommit(p)
  PROVE  Supply'
<1> DEFINE s == req[p].sock
<1>1. /\ s \in Socket /\ UNCHANGED <<device, pos, rack, pdu, conn>>
      /\ req[p].op = "UPDATE" => req[p].status = sock[s].status
      /\ req[p].op # "UPDATE" => \A c \in Conn : conn[c].st = "live" => conn[c].sock # s
  BY Committing
     DEF ChangeSocketCommit, FactsOf, PduFacts, ArgumentsOK, SocketStages, ChangeSocketStages
<1>2. sock' = IF req[p].op = "UPDATE" THEN [sock EXCEPT ![s].status = req[p].status]
                                      ELSE [sock EXCEPT ![s].st = "deleted"]
  BY DEF ChangeSocketCommit
<1> HIDE DEF s
<1>3. CASE req[p].op = "UPDATE"
  <2>1. sock' = sock
    BY <1>1, <1>2, <1>3 DEF Shape, TypeOK, SocketRow
  <2> QED BY <1>1, <2>1, SupplyUntouched
<1>4. CASE req[p].op # "UPDATE"
  <2>1. sock'[s].st = "deleted" /\ \A x \in Socket \ {s} : sock'[x] = sock[x]
    BY <1>1, <1>2, <1>4 DEF Shape, TypeOK, SocketRow
  <2>2. \A c \in Conn : conn[c].st = "live" =>
          /\ conn[c].dev \in Device /\ device[conn[c].dev].st = "live"
          /\ conn[c].sock \in Socket /\ sock'[conn[c].sock].st = "live"
          /\ pos[conn[c].dev].rack = pdu[sock'[conn[c].sock].pdu].rack
    BY <1>1, <1>4, <2>1, Feeding
  <2>3. /\ \A x \in Socket : sock'[x].st = "live" => sock'[x].pdu \in Pdu /\ pdu[sock'[x].pdu].st = "live"
        /\ \A x \in Socket : sock'[x].st = "live" =>
             (sock'[x].status = "CONNECTED" <=> \E c \in Conn : conn[c].st = "live" /\ conn[c].sock = x)
    BY <2>1, SupplyKnown
  <2> QED BY <1>1, <2>2, <2>3, SupplyKnown, SupplyShown
<1> QED BY <1>3, <1>4

\* What the commit of Connect writes, and what it may rely on.
LEMMA Connected ==
  ASSUME Shape, Layers, Consistent, NEW p \in Proc, ConnectCommit(p)
  PROVE  LET c == req[p].conn  s == req[p].sock  d == req[p].dev IN
           /\ c \in Conn /\ conn[c].st = "none" /\ s \in Socket /\ sock[s].st = "live"
           /\ sock[s].status # "CONNECTED" /\ d \in Device /\ device[d].st = "live" /\ req[p].role \in Role
           /\ Positioned(d) /\ pos[d].rack = pdu[sock[s].pdu].rack /\ ~HasRole(d, req[p].role)
           /\ conn'[c].st = "live" /\ conn'[c].sock = s /\ conn'[c].dev = d /\ conn'[c].role = req[p].role
           /\ \A x \in Conn \ {c} : conn'[x] = conn[x]
           /\ sock'[s].st = "live" /\ sock'[s].status = "CONNECTED" /\ sock'[s].pdu = sock[s].pdu
           /\ \A x \in Socket \ {s} : sock'[x] = sock[x]
           /\ UNCHANGED <<device, pos, hist, rack, pdu, ticket>>
<1> DEFINE c == req[p].conn
           s == req[p].sock
           d == req[p].dev
<1>1. req[p].at = "connect.commit" /\ FactsOf(req[p]) /\ FreshRows(req[p]) /\ ArgumentsOK(req[p])
  BY Committing DEF ConnectCommit
<1>2. /\ c \in Conn /\ conn[c].st = "none" /\ s \in Socket /\ d \in Device /\ req[p].role \in Role
  BY <1>1 DEF FreshRows, ArgumentsOK, ConnectStages, SocketStages, DeviceStages
<1>3. /\ sock[s].st = "live" /\ sock[s].status # "CONNECTED" /\ device[d].st = "live"
      /\ Positioned(d) /\ pos[d].rack = pdu[sock[s].pdu].rack /\ ~HasRole(d, req[p].role)
  BY <1>1 DEF FactsOf, DeviceFacts, PduFacts, LiveDevice, LiveSocket, ConnectStages, SocketCommits
<1>4. /\ conn' = [conn EXCEPT ![c] = [st |-> "live", sock |-> s, dev |-> d, role |-> req[p].role]]
      /\ sock' = [sock EXCEPT ![s].status = "CONNECTED"]
      /\ UNCHANGED <<device, pos, hist, rack, pdu, ticket>>
  BY DEF ConnectCommit
<1> HIDE DEF c, s, d
<1>5. /\ conn'[c].st = "live" /\ conn'[c].sock = s /\ conn'[c].dev = d /\ conn'[c].role = req[p].role
      /\ \A x \in Conn \ {c} : conn'[x] = conn[x]
  BY <1>2, <1>4 DEF Shape, TypeOK
<1>6. /\ sock'[s].st = "live" /\ sock'[s].status = "CONNECTED" /\ sock'[s].pdu = sock[s].pdu
      /\ \A x \in Socket \ {s} : sock'[x] = sock[x]
  BY <1>2, <1>3, <1>4 DEF Shape, TypeOK, SocketRow
<1> QED BY <1>2, <1>3, <1>4, <1>5, <1>6 DEF c, s, d

LEMMA ConnectSupply ==
  ASSUME Shape, Layers, Consistent, Supply, NEW p \in Proc, ConnectCommit(p)
  PROVE  Supply'
<1> DEFINE c == req[p].conn
           s == req[p].sock
           d == req[p].dev
<1>1. /\ c \in Conn /\ s \in Socket /\ sock[s].st = "live" /\ sock[s].status # "CONNECTED"
      /\ d \in Device /\ device[d].st = "live" /\ pos[d].rack = pdu[sock[s].pdu].rack
  BY Connected
<1>2. /\ conn'[c].st = "live" /\ conn'[c].sock = s /\ conn'[c].dev = d
      /\ \A x \in Conn \ {c} : conn'[x] = conn[x]
  BY Connected
<1>3. /\ sock'[s].st = "live" /\ sock'[s].status = "CONNECTED" /\ sock'[s].pdu = sock[s].pdu
      /\ \A x \in Socket \ {s} : sock'[x] = sock[x]
      /\ UNCHANGED <<device, pos, rack, pdu>>
  BY Connected
<1> HIDE DEF c, s, d
<1>4. \A x \in Conn \ {c} : conn[x].st = "live" => conn[x].sock # s
  BY <1>1, Feeding
<1>5. \A x \in Conn : conn'[x].st = "live" =>
        /\ conn'[x].dev \in Device /\ device[conn'[x].dev].st = "live"
        /\ conn'[x].sock \in Socket /\ sock'[conn'[x].sock].st = "live"
        /\ pos[conn'[x].dev].rack = pdu[sock'[conn'[x].sock].pdu].rack
  <2> SUFFICES ASSUME NEW x \in Conn, conn'[x].st = "live"
               PROVE  /\ conn'[x].dev \in Device /\ device[conn'[x].dev].st = "live"
                      /\ conn'[x].sock \in Socket /\ sock'[conn'[x].sock].st = "live"
                      /\ pos[conn'[x].dev].rack = pdu[sock'[conn'[x].sock].pdu].rack
    OBVIOUS
  <2>1. CASE x = c
    BY <1>1, <1>2, <1>3, <2>1
  <2>2. CASE x # c
    <3>1. conn'[x] = conn[x] /\ conn[x].sock # s
      BY <1>2, <1>4, <2>2
    <3>2. /\ conn[x].dev \in Device /\ device[conn[x].dev].st = "live"
          /\ conn[x].sock \in Socket /\ sock[conn[x].sock].st = "live"
          /\ pos[conn[x].dev].rack = pdu[sock[conn[x].sock].pdu].rack
      BY <3>1, Feeding
    <3> QED BY <1>3, <3>1, <3>2
  <2> QED BY <2>1, <2>2
<1>6. \A x \in Socket : sock'[x].st = "live" => sock'[x].pdu \in Pdu /\ pdu[sock'[x].pdu].st = "live"
  BY <1>1, <1>3, SupplyKnown
<1>7. ASSUME NEW x \in Socket, sock'[x].st = "live"
      PROVE  sock'[x].status = "CONNECTED" <=> \E e \in Conn : conn'[e].st = "live" /\ conn'[e].sock = x
  <2>1. CASE x = s
    BY <1>1, <1>2, <1>3, <2>1
  <2>2. CASE x # s
    <3>1. conn[c].st = "live" => conn[c].sock # x
      BY <2>2, Committing DEF ConnectCommit, FreshRows, ConnectStages, c
    <3>2. \A e \in Conn : conn'[e].st = "live" /\ conn'[e].sock = x <=> conn[e].st = "live" /\ conn[e].sock = x
      BY <1>2, <2>2, <3>1
    <3> QED BY <1>3, <1>7, <2>2, <3>2, SupplyKnown
  <2> QED BY <2>1, <2>2
<1>8. \A x, e \in Conn : conn'[x].st = "live" /\ conn'[e].st = "live" /\ conn'[x].sock = conn'[e].sock => x = e
  BY <1>2, <1>4, SupplyKnown
<1> QED BY <1>3, <1>5, <1>6, <1>7, <1>8, SupplyKnown, SupplyShown

\* What the commit of Disconnect writes.
LEMMA Disconnected ==
  ASSUME Shape, Layers, Supply, NEW p \in Proc, DisconnectCommit(p)
  PROVE  LET c == req[p].conn  s == req[p].sock IN
           /\ c \in Conn /\ conn[c].st = "live" /\ conn[c].sock = s /\ s \in Socket /\ sock[s].st = "live"
           /\ conn'[c].st = "deleted" /\ \A x \in Conn \ {c} : conn'[x] = conn[x]
           /\ sock'[s].st = "live" /\ sock'[s].status = "AVAILABLE" /\ sock'[s].pdu = sock[s].pdu
           /\ \A x \in Socket \ {s} : sock'[x] = sock[x]
           /\ UNCHANGED <<device, pos, hist, rack, pdu, ticket>>
<1> DEFINE c == req[p].conn
           s == req[p].sock
<1>1. c \in Conn /\ conn[c].st = "live" /\ conn[c].sock = s /\ s \in Socket /\ sock[s].st = "live"
  <2>1. c \in Conn /\ conn[c].st = "live"
    BY DEF DisconnectCommit, LiveConns
  <2>2. conn[c].sock = s
    BY <2>1, Committing DEF DisconnectCommit, FactsOf, PduFacts, DisconnectStages
  <2> QED BY <2>1, <2>2, Feeding
<1>2. /\ conn' = [conn EXCEPT ![c].st = "deleted"] /\ sock' = [sock EXCEPT ![s].status = "AVAILABLE"]
      /\ UNCHANGED <<device, pos, hist, rack, pdu, ticket>>
  BY DEF DisconnectCommit
<1> HIDE DEF c, s
<1>3. conn'[c].st = "deleted" /\ \A x \in Conn \ {c} : conn'[x] = conn[x]
  BY <1>1, <1>2 DEF Shape, TypeOK, ConnRow
<1>4. /\ sock'[s].st = "live" /\ sock'[s].status = "AVAILABLE" /\ sock'[s].pdu = sock[s].pdu
      /\ \A x \in Socket \ {s} : sock'[x] = sock[x]
  BY <1>1, <1>2 DEF Shape, TypeOK, SocketRow
<1> QED BY <1>1, <1>2, <1>3, <1>4 DEF c, s

LEMMA DisconnectSupply ==
  ASSUME Shape, Layers, Supply, NEW p \in Proc, DisconnectCommit(p)
  PROVE  Supply'
<1> DEFINE c == req[p].conn
           s == req[p].sock
<1>1. /\ c \in Conn /\ conn[c].st = "live" /\ conn[c].sock = s /\ s \in Socket /\ sock[s].st = "live"
      /\ conn'[c].st = "deleted" /\ \A x \in Conn \ {c} : conn'[x] = conn[x]
  BY Disconnected
<1>2. /\ sock'[s].st = "live" /\ sock'[s].status = "AVAILABLE" /\ sock'[s].pdu = sock[s].pdu
      /\ \A x \in Socket \ {s} : sock'[x] = sock[x]
      /\ UNCHANGED <<device, pos, rack, pdu>>
  BY Disconnected
<1> HIDE DEF c, s
<1>3. \A x \in Conn : conn'[x].st = "live" => conn'[x] = conn[x] /\ conn[x].sock # s
  BY <1>1, SupplyKnown
<1>4. \A x \in Conn : conn'[x].st = "live" =>
        /\ conn'[x].dev \in Device /\ device[conn'[x].dev].st = "live"
        /\ conn'[x].sock \in Socket /\ sock'[conn'[x].sock].st = "live"
        /\ pos[conn'[x].dev].rack = pdu[sock'[conn'[x].sock].pdu].rack
  BY <1>2, <1>3, Feeding
<1>5. \A x \in Socket : sock'[x].st = "live" => sock'[x].pdu \in Pdu /\ pdu[sock'[x].pdu].st = "live"
  BY <1>1, <1>2, SupplyKnown
<1>6. ASSUME NEW x \in Socket, sock'[x].st = "live"
      PROVE  sock'[x].status = "CONNECTED" <=> \E e \in Conn : conn'[e].st = "live" /\ conn'[e].sock = x
  <2>1. CASE x = s
    BY <1>2, <1>3, <2>1
  <2>2. CASE x # s
    <3>1. \A e \in Conn : conn'[e].st = "live" /\ conn'[e].sock = x <=> conn[e].st = "live" /\ conn[e].sock = x
      BY <1>1, <2>2
    <3> QED BY <1>2, <1>6, <2>2, <3>1, SupplyKnown
  <2> QED BY <2>1, <2>2
<1>7. \A x, e \in Conn : conn'[x].st = "live" /\ conn'[e].st = "live" /\ conn'[x].sock = conn'[e].sock => x = e
  BY <1>3, SupplyKnown
<1> QED BY <1>2, <1>4, <1>5, <1>6, <1>7, SupplyKnown, SupplyShown

LEMMA SupplyNext ==
  ASSUME Shape, Layers, Consistent, UNCHANGED tables \/ Single \/ \E p \in Proc : Commit(p)
  PROVE  Supply'
<1>1. Supply
  BY DEF Consistent, Supply
<1>2. CASE UNCHANGED <<device, pos, rack, pdu, sock, conn>>
  BY <1>1, <1>2, SupplyUntouched
<1>3. CASE Single
  BY <1>1, <1>3, SingleSupply
<1>4. ASSUME NEW p \in Proc, Commit(p) PROVE Supply'
  BY <1>1, <1>2, <1>4, DeviceStepSupply, DeleteRackSupply, CreatePduSupply, PduGoneSupply, CreateSocketSupply,
     ChangeSocketSupply, ConnectSupply, DisconnectSupply
     DEF Commit, SubmitInsert
<1> QED BY <1>2, <1>3, <1>4 DEF tables

-----------------------------------------------------------------------------
(* Snapshots *)

LEMMA SnapshotsKept ==
  ASSUME Shape, Shape', Snapshots, Grows,
         \A t \in Ticket : ticket'[t].st = "PENDING" => ticket'[t] = ticket[t]
  PROVE  Snapshots'
<1> SUFFICES ASSUME NEW t \in Ticket, ticket'[t].st = "PENDING"
             PROVE  LET d == ticket'[t].dev IN
                      /\ ticket'[t].ver =< device'[d].ver
                      /\ ticket'[t].ver = device'[d].ver =>
                           /\ ticket'[t].height = device'[d].height /\ ticket'[t].was = pos'[d]
                           /\ ticket'[t].from \in {pos'[d], NoPlace}
  BY DEF Snapshots
<1> DEFINE d == ticket[t].dev
<1>1. ticket'[t] = ticket[t] /\ d \in Device /\ ticket[t].ver \in Nat /\ device[d].ver \in Nat
  BY DEF Shape, TypeOK, TicketRow, DeviceRow, RowsOK, ForeignKeys
<1>2. device'[d].ver \in Nat
  BY <1>1, VersionsTyped DEF Shape, TypeOK, DeviceRow
<1>3. /\ device[d].ver =< device'[d].ver
      /\ device[d].ver = device'[d].ver => device'[d] = device[d] /\ pos'[d] = pos[d]
  BY <1>1 DEF Grows
<1>4. /\ ticket[t].ver =< device[d].ver
      /\ ticket[t].ver = device[d].ver =>
           /\ ticket[t].height = device[d].height /\ ticket[t].was = pos[d]
           /\ ticket[t].from \in {pos[d], NoPlace}
  BY <1>1 DEF Snapshots
<1> HIDE DEF d
<1> QED BY <1>1, <1>2, <1>3, <1>4 DEF d

\* The snapshot that is stored is true at its version.
LEMMA Submitted ==
  ASSUME Shape, Layers, NEW p \in Proc, SubmitInsert(p)
  PROVE  LET t == req[p].ticket  d == req[p].dev IN
           /\ t \in Ticket /\ \A x \in Ticket \ {t} : ticket'[x] = ticket[x]
           /\ ticket[t].st = "none"
           /\ ticket'[t].st = "PENDING" =>
                /\ ticket'[t].dev = d /\ ticket'[t].ver =< device[d].ver
                /\ ticket'[t].ver = device[d].ver =>
                     /\ ticket'[t].height = device[d].height /\ ticket'[t].was = pos[d]
                     /\ ticket'[t].from \in {pos[d], NoPlace}
           /\ UNCHANGED <<device, pos, hist, rack, pdu, sock, conn>>
<1> DEFINE t == req[p].ticket
           d == req[p].dev
<1>1. /\ req[p].at = "submit.insert" /\ t \in Ticket /\ ticket[t].st = "none"
      /\ req[p].ver =< device[d].ver
      /\ req[p].ver = device[d].ver =>
           /\ req[p].height = device[d].height /\ req[p].was = pos[d]
           /\ req[p].from \in {pos[d], NoPlace}
  BY Committing DEF SubmitInsert, FactsOf, VersionFacts, FreshRows, ArgumentsOK, SubmitStages
<1>2. /\ UNCHANGED <<device, pos, hist, rack, pdu, sock, conn>>
      /\ \/ ticket' = ticket
         \/ ticket' = [ticket EXCEPT ![t] =
              [st |-> "PENDING", op |-> req[p].op, dev |-> d, ver |-> req[p].ver,
               height |-> req[p].height, from |-> req[p].from, was |-> req[p].was, rack |-> req[p].rack,
               startU |-> req[p].startU]]
  BY DEF SubmitInsert
<1> HIDE DEF t, d
<1>3. \A x \in Ticket \ {t} : ticket'[x] = ticket[x]
  BY <1>2 DEF Shape, TypeOK
<1>4. ticket'[t].st = "PENDING" =>
        ticket'[t].dev = d /\ ticket'[t].ver = req[p].ver /\ ticket'[t].height = req[p].height
        /\ ticket'[t].from = req[p].from /\ ticket'[t].was = req[p].was
  BY <1>1, <1>2 DEF Shape, TypeOK
<1> QED BY <1>1, <1>2, <1>3, <1>4 DEF t, d

LEMMA SnapshotsNext ==
  ASSUME Shape, Shape', Layers, Consistent, UNCHANGED tables \/ Single \/ \E p \in Proc : Commit(p)
  PROVE  Snapshots'
<1>1. Snapshots
  BY DEF Consistent
<1>2. CASE UNCHANGED tables
  BY <1>1, <1>2 DEF tables, Snapshots
<1>3. CASE Single
  <2>1. \A t \in Ticket : ticket'[t].st = "PENDING" => ticket'[t] = ticket[t]
    <3>1. CASE UNCHANGED ticket
      BY <3>1
    <3>2. ASSUME NEW x, Reject(x) PROVE \A t \in Ticket : ticket'[t].st = "PENDING" => ticket'[t] = ticket[t]
      BY <3>2 DEF Reject, Shape, TypeOK, TicketRow
    <3>3. UNCHANGED ticket \/ \E x : Reject(x)
      BY <1>3 DEF Single, CreateDevice, CreateRack, UpdateRack, UpdatePolicy
    <3> QED BY <3>1, <3>2, <3>3
  <2> QED BY <1>1, <1>3, <2>1, SingleSpares, SnapshotsKept
<1>4. ASSUME NEW p \in Proc, Commit(p), ~SubmitInsert(p) PROVE Snapshots'
  <2>1. UNCHANGED ticket \/ PlaceCommit(p)
    BY <1>4
       DEF Commit, UpdateDeviceWrite, DeleteDeviceWrite, DecommissionCommit, DeleteRackCommit, CreatePduCommit,
           DeletePduCommit, ArchivePduCommit, CreateSocketCommit, ChangeSocketCommit, ConnectCommit, DisconnectCommit
  <2>2. \A t \in Ticket : ticket'[t].st = "PENDING" => ticket'[t] = ticket[t]
    <3>1. CASE UNCHANGED ticket
      BY <3>1
    <3>2. CASE PlaceCommit(p)
      BY <3>2 DEF PlaceCommit, Shape, TypeOK, TicketRow
    <3> QED BY <2>1, <3>1, <3>2
  <2> QED BY <1>1, <1>4, <2>2, CommitSpares, SnapshotsKept
<1>5. ASSUME NEW p \in Proc, SubmitInsert(p) PROVE Snapshots'
  <2>1. UNCHANGED <<device, pos>>
    BY <1>5, Submitted
  <2>2. \A t \in Ticket : ticket'[t].st = "PENDING" =>
          \/ ticket'[t] = ticket[t]
          \/ LET d == ticket'[t].dev IN
               /\ ticket'[t].ver =< device[d].ver
               /\ ticket'[t].ver = device[d].ver =>
                    /\ ticket'[t].height = device[d].height /\ ticket'[t].was = pos[d]
                    /\ ticket'[t].from \in {pos[d], NoPlace}
    BY <1>5, Submitted
  <2> QED BY <1>1, <2>1, <2>2 DEF Snapshots
<1> QED BY <1>2, <1>3, <1>4, <1>5

-----------------------------------------------------------------------------
(* The inductive invariant *)

LEMMA ConsistentNext ==
  ASSUME Shape, Layers, Consistent, [Next]_vars
  PROVE  Consistent'
<1>1. Shape' /\ (UNCHANGED tables \/ Single \/ \E p \in Proc : Commit(p))
  BY Steps
<1>2. FootprintsDisjoint' /\ RoleOnce'
  BY Guards, FootprintsNext, RolesNext DEF Footprints, Roles
<1>3. Positions' /\ Supply' /\ Snapshots'
  BY <1>1, PositionsNext, SupplyNext, SnapshotsNext
<1> QED
  BY <1>2, <1>3 DEF Consistent, Positions, Supply

LEMMA InductiveInit == Init => Inductive
<1> SUFFICES ASSUME Init PROVE Inductive
  OBVIOUS
<1>1. Shape /\ Layers /\ FootprintsDisjoint /\ RoleOnce
  BY InitShape, LayersInit, FootprintsInit, RolesInit DEF Footprints, Roles
<1>2. Positions
  BY DEF Init, Positions, NoGhostPosition, PositionMatchesDevice, Vacant, Unborn, Positioned, NoPlace
<1>3. Supply
  BY DEF Init, Supply, Containment, SamePlacePower, SocketStatusTruth, LiveConns, LivePdu, LiveSocket
<1>4. Snapshots
  BY DEF Init, Snapshots
<1> QED
  BY <1>1, <1>2, <1>3, <1>4 DEF Inductive, Layers, Consistent, Positions, Supply

LEMMA InductiveNext == Inductive /\ [Next]_vars => Inductive'
<1> SUFFICES ASSUME Inductive, [Next]_vars PROVE Inductive'
  OBVIOUS
<1>1. Shape /\ Layers /\ Consistent
  BY DEF Inductive, Layers
<1>2. Shape' /\ Layers' /\ Consistent'
  BY <1>1, Steps, ConsistentNext
<1> QED BY <1>2 DEF Inductive, Layers

\* In every reachable state, for any sets of processes and rows: a transaction has
\* locked exactly the rows its stage calls for, what a request has read is still true of
\* every row it holds or whose version it will compare, and the tables agree.
THEOREM InductiveInvariant == Spec => []Inductive
BY InductiveInit, InductiveNext, PTL DEF Spec

\* A mounted device exists and so does its rack: neither DeleteDevice's version check
\* nor DeleteRack's lock lets a deletion slip between the checks and the writes of
\* placeInTx.
THEOREM PositionsExist == Spec => []NoGhostPosition
<1>1. Inductive => NoGhostPosition
  BY DEF Inductive, Consistent
<1> QED BY <1>1, InductiveInvariant, PTL

\* A mounted device is running and as high as the units it occupies: UpdateDevice looks
\* at the position without a lock, and the version it then compares is enough.
THEOREM PositionsMatch == Spec => []PositionMatchesDevice
<1>1. Inductive => PositionMatchesDevice
  BY DEF Inductive, Consistent
<1> QED BY <1>1, InductiveInvariant, PTL

\* What feeds a device is in use, down to the rack, and in the device's own rack,
\* although Connect, the placements and the deletions lock different rows.
THEOREM PowerInPlace == Spec => []SamePlacePower
<1>1. Inductive => SamePlacePower
  BY DEF Inductive, Consistent
<1> QED BY <1>1, InductiveInvariant, PTL

\* The cached status of a socket says CONNECTED exactly while one live connection uses
\* it: no late UpdateSocket or Disconnect writes back a status that is out of date.
THEOREM SocketStatusTrue == Spec => []SocketStatusTruth
<1>1. Inductive => SocketStatusTruth
  BY DEF Inductive, Consistent
<1> QED BY <1>1, InductiveInvariant, PTL

-----------------------------------------------------------------------------
(* No deadlock *)

\* The kind of row a request waits for, and that of the rows it may hold while it does.
LEMMA WaitOrder ==
  ASSUME Shape, Locks, NEW p \in Proc, NEW q \in Proc, WaitsFor(p, q)
  PROVE  \/ Wants(p) \in Device /\ (Wants(q) = None \/ Wants(q) \in Rack \cup Pdu \cup Socket)
         \/ Wants(p) \in Rack \cup Pdu /\ (Wants(q) = None \/ Wants(q) \in Socket)
         \/ Wants(p) \in Socket /\ Wants(q) = None
<1> USE DEF BelowPduStages, SocketCommits, ConnectStages, DisconnectStages, ChangeSocketStages, PlaceStages
<1>1. ASSUME NEW o \in Proc
      PROVE  \/ /\ req[o].at \in {"place.device", "update.write", "delete.write"}
                /\ Wants(o) = req[o].dev /\ req[o].dev \in Device
             \/ /\ req[o].at = "place.rack"
                /\ Wants(o) = req[o].rack /\ req[o].rack \in Rack
             \/ /\ req[o].at \in {"connect.pdu", "disconnect.pdu"}
                /\ Wants(o) = sock[req[o].sock].pdu /\ sock[req[o].sock].pdu \in Pdu
             \/ /\ req[o].at \in {"socket.row", "connect.socket", "disconnect.socket"}
                /\ Wants(o) = req[o].sock /\ req[o].sock \in Socket
             \/ /\ req[o].at \notin {"place.device", "update.write", "delete.write", "place.rack", "connect.pdu",
                                     "disconnect.pdu", "socket.row", "connect.socket", "disconnect.socket"}
                /\ Wants(o) = None
  BY Stages DEF Wants, DeviceStages, RackStages, SocketStages
<1>2. Wants(p) \in Row /\ Holds(req[q], Wants(p))
  BY <1>1 DEF WaitsFor, Row, Locks
<1>3. /\ req[q].at \in {"place.rack", "place.commit", "off.commit"} \cup ConnectStages => req[q].dev \in Device
      /\ req[q].at \in {"place.commit", "retire.commit", "pdu.create"} => req[q].rack \in Rack
      /\ req[q].at \in {"pdu.delete", "pdu.archive", "socket.create"} => req[q].pdu \in Pdu
      /\ req[q].at \in BelowPduStages => sock[req[q].sock].pdu \in Pdu
      /\ req[q].at \in SocketCommits => req[q].sock \in Socket
      /\ req[q].ticket \in Ticket \cup {None}
  BY Stages DEF DeviceStages, RackStages, PduStages, SocketStages, Request
<1>4. Wants(p) \in Device =>
        req[q].at \in {"place.rack", "place.commit", "off.commit"} \cup ConnectStages
  BY <1>2, <1>3, RowAssumption, NoneAssumption DEF Holds, Row
<1>5. Wants(p) \in Rack \cup Pdu =>
        req[q].at \in {"place.commit", "retire.commit", "pdu.create", "pdu.delete", "pdu.archive", "socket.create"}
                        \cup BelowPduStages
  BY <1>2, <1>3, RowAssumption, NoneAssumption DEF Holds, Row
<1>6. Wants(p) \in Socket => req[q].at \in SocketCommits
  BY <1>2, <1>3, RowAssumption, NoneAssumption DEF Holds, Row
<1>7. Wants(p) \in Device \/ Wants(p) \in Rack \cup Pdu \/ Wants(p) \in Socket
  BY <1>1 DEF WaitsFor
<1>8. CASE Wants(p) \in Device
  BY <1>1, <1>4, <1>8
<1>9. CASE Wants(p) \in Rack \cup Pdu
  BY <1>1, <1>5, <1>9
<1>10. CASE Wants(p) \in Socket
  BY <1>1, <1>6, <1>10
<1> QED BY <1>7, <1>8, <1>9, <1>10

LEMMA LocksInOrder == Shape /\ Locks => NoWaitCycle
<1> SUFFICES ASSUME Shape, Locks, NEW S \in (SUBSET Proc) \ {{}}, \A p \in S : \E q \in S : WaitsFor(p, q)
             PROVE  FALSE
  BY DEF NoWaitCycle
<1>1. \A p \in S : Wants(p) # None
  BY DEF WaitsFor
<1>2. \A p \in S : Wants(p) \notin Socket
  BY <1>1, WaitOrder, RowAssumption
<1>3. \A p \in S : Wants(p) \notin Rack \cup Pdu
  BY <1>1, <1>2, WaitOrder, RowAssumption
<1>4. \A p \in S : Wants(p) \notin Device
  BY <1>1, <1>2, <1>3, WaitOrder, RowAssumption
<1>5. PICK p \in S : TRUE
  OBVIOUS
<1>6. PICK q \in S : WaitsFor(p, q)
  OBVIOUS
<1> QED BY <1>2, <1>3, <1>4, <1>5, <1>6, WaitOrder

\* Transactions never wait for one another in a circle, however many there are: the order
\* in which all of them lock, device, rack or PDU, socket, leaves PostgreSQL no deadlock
\* to break.
THEOREM NoDeadlock == Spec => []NoWaitCycle
<1>1. Inductive => NoWaitCycle
  BY LocksInOrder DEF Inductive
<1> QED BY <1>1, InductiveInvariant, PTL

-----------------------------------------------------------------------------
(* Approvals *)

ApprovalExecuted ==
  \A t \in Ticket : ticket[t].st = "PENDING" /\ ticket'[t].st = "APPROVED" =>
    LET d == ticket[t].dev IN
      /\ pos[d] = ticket[t].was /\ ticket[t].from \in {pos[d], NoPlace}
      /\ pos'[d] = PlaceAt(ticket[t].rack, ticket[t].startU, ticket[t].height)
      /\ hist'[d] = Append(hist[d], [op |-> ticket[t].op, from |-> ticket[t].was, to |-> pos'[d]])

LEMMA ApprovedByPlacing ==
  ASSUME Inductive, [Next]_vars, NEW t \in Ticket, ticket[t].st = "PENDING", ticket'[t].st = "APPROVED"
  PROVE  \E p \in Proc : PlaceCommit(p) /\ req[p].ticket = t
<1>1. Shape /\ Layers /\ Consistent
  BY DEF Inductive, Layers
<1>2. ticket'[t] # ticket[t]
  OBVIOUS
<1>3. CASE UNCHANGED tables
  BY <1>2, <1>3 DEF tables
<1>4. CASE Single
  BY <1>2, <1>4 DEF Single, CreateDevice, CreateRack, UpdateRack, UpdatePolicy, Reject, Shape, TypeOK, TicketRow,
                    Inductive
<1>5. ASSUME NEW p \in Proc, Commit(p) PROVE PlaceCommit(p) /\ req[p].ticket = t
  <2>1. UNCHANGED ticket \/ PlaceCommit(p) \/ SubmitInsert(p)
    BY <1>5
       DEF Commit, UpdateDeviceWrite, DeleteDeviceWrite, DecommissionCommit, DeleteRackCommit, CreatePduCommit,
           DeletePduCommit, ArchivePduCommit, CreateSocketCommit, ChangeSocketCommit, ConnectCommit, DisconnectCommit
  <2>2. ~SubmitInsert(p)
    BY <1>1, <1>2, Submitted
  <2>3. PlaceCommit(p) => req[p].ticket = t
    BY <1>1, <1>2 DEF PlaceCommit, Shape, TypeOK
  <2> QED BY <1>2, <2>1, <2>2, <2>3
<1> QED BY <1>1, <1>3, <1>4, <1>5, Steps

LEMMA ApprovalNext ==
  ASSUME Inductive, [Next]_vars
  PROVE  ApprovalExecuted
<1> SUFFICES ASSUME NEW t \in Ticket, ticket[t].st = "PENDING", ticket'[t].st = "APPROVED"
             PROVE  LET d == ticket[t].dev IN
                      /\ pos[d] = ticket[t].was /\ ticket[t].from \in {pos[d], NoPlace}
                      /\ pos'[d] = PlaceAt(ticket[t].rack, ticket[t].startU, ticket[t].height)
                      /\ hist'[d] = Append(hist[d], [op |-> ticket[t].op, from |-> ticket[t].was, to |-> pos'[d]])
  BY DEF ApprovalExecuted
<1> DEFINE d == ticket[t].dev
<1>1. Shape /\ Layers /\ Consistent
  BY DEF Inductive, Layers
<1>2. PICK p \in Proc : PlaceCommit(p) /\ req[p].ticket = t
  BY ApprovedByPlacing
<1>3. /\ ticket[t].op = req[p].op /\ d = req[p].dev /\ ticket[t].rack = req[p].rack
      /\ ticket[t].startU = req[p].startU /\ ticket[t].ver = device[d].ver
      /\ req[p].height = device[d].height
  BY <1>1, <1>2, Committing, NoneAssumption
     DEF PlaceCommit, FactsOf, TicketFacts, DeviceFacts, PlaceStages, Row
<1>4. /\ ticket[t].height = device[d].height /\ ticket[t].was = pos[d]
      /\ ticket[t].from \in {pos[d], NoPlace}
  BY <1>1, <1>3 DEF Consistent, Snapshots
<1>5. d \in Device /\ pos'[d] = Target(req[p])
  BY <1>1, <1>2, <1>3, Placed
<1>6. hist' = [hist EXCEPT ![d] = Journal(d, req[p].op, Target(req[p]))]
  BY <1>2, <1>3 DEF PlaceCommit
<1> HIDE DEF d
<1>7. hist'[d] = Append(hist[d], [op |-> req[p].op, from |-> pos[d], to |-> Target(req[p])])
  BY <1>1, <1>5, <1>6 DEF Journal, Shape, TypeOK
<1>8. Target(req[p]) = PlaceAt(ticket[t].rack, ticket[t].startU, ticket[t].height)
  BY <1>3, <1>4 DEF Target
<1> QED BY <1>3, <1>4, <1>5, <1>7, <1>8 DEF d

\* An approval executes exactly what was asked for, from the situation it was asked in:
\* the height and the source are read by other statements than the version, which,
\* compared under the device lock, vouches for both, unless the source was left out
\* because its query failed.
THEOREM ApprovalsExecuteRequests == Spec => ApprovalExecutesRequest
<1>1. Inductive /\ [Next]_vars => [ApprovalExecuted]_vars
  BY ApprovalNext
<1> QED BY <1>1, InductiveInvariant, PTL DEF Spec, ApprovalExecutesRequest, ApprovalExecuted

-----------------------------------------------------------------------------
(* Retired PDUs *)

RetiredConfirmed ==
  \A u \in Pdu : pdu[u].st = "live" /\ pdu'[u].st = "deleted" =>
    /\ \A c \in LiveConns : sock[conn[c].sock].pdu = u => conn'[c].st = "deleted"
    /\ \E p \in Proc : /\ req[p].at \in {"pdu.archive", "pdu.delete"} /\ req[p].pdu = u
                      /\ Cardinality(LiveConns \ LiveConns') = req[p].count

LEMMA RetiredByPdu ==
  ASSUME Inductive, [Next]_vars, NEW u \in Pdu, pdu[u].st = "live", pdu'[u].st = "deleted"
  PROVE  \E p \in Proc : (DeletePduCommit(p) \/ ArchivePduCommit(p)) /\ req[p].pdu = u
<1>1. Shape /\ Layers /\ Consistent
  BY DEF Inductive, Layers
<1>2. pdu'[u] # pdu[u]
  OBVIOUS
<1>3. CASE UNCHANGED pdu
  BY <1>2, <1>3
<1>4. ASSUME NEW p \in Proc, Commit(p)
      PROVE  (DeletePduCommit(p) \/ ArchivePduCommit(p)) /\ req[p].pdu = u
  <2>1. UNCHANGED pdu \/ CreatePduCommit(p) \/ DeletePduCommit(p) \/ ArchivePduCommit(p)
    BY <1>4
       DEF Commit, UpdateDeviceWrite, DeleteDeviceWrite, PlaceCommit, DecommissionCommit, DeleteRackCommit,
           CreateSocketCommit, ChangeSocketCommit, ConnectCommit, DisconnectCommit, SubmitInsert
  <2>2. ~CreatePduCommit(p)
    <3>1. SUFFICES ASSUME CreatePduCommit(p) PROVE FALSE
      OBVIOUS
    <3>2. pdu \in [Pdu -> PduRow]
      BY <1>1 DEF Shape, TypeOK
    <3>3. pdu'[u] = pdu[u] \/ pdu'[u].st = "live"
      BY <3>1, <3>2 DEF CreatePduCommit
    <3> QED BY <1>2, <3>3
  <2>3. DeletePduCommit(p) \/ ArchivePduCommit(p) => req[p].pdu = u
    BY <1>1, <1>2 DEF DeletePduCommit, ArchivePduCommit, PduGone, Shape, TypeOK
  <2> QED BY <1>2, <2>1, <2>2, <2>3
<1>5. Single => UNCHANGED pdu
  BY DEF Single, CreateDevice, CreateRack, UpdateRack, UpdatePolicy, Reject
<1> QED BY <1>1, <1>3, <1>4, <1>5, Steps DEF tables

LEMMA RetiredNext ==
  ASSUME Inductive, [Next]_vars
  PROVE  RetiredConfirmed
<1> SUFFICES ASSUME NEW u \in Pdu, pdu[u].st = "live", pdu'[u].st = "deleted"
             PROVE  /\ \A c \in LiveConns : sock[conn[c].sock].pdu = u => conn'[c].st = "deleted"
                    /\ \E p \in Proc : /\ req[p].at \in {"pdu.archive", "pdu.delete"} /\ req[p].pdu = u
                                      /\ Cardinality(LiveConns \ LiveConns') = req[p].count
  BY DEF RetiredConfirmed
<1>1. Shape /\ Layers /\ Consistent /\ Supply
  BY DEF Inductive, Layers, Consistent, Supply
<1>2. PICK p \in Proc : (DeletePduCommit(p) \/ ArchivePduCommit(p)) /\ req[p].pdu = u
  BY RetiredByPdu
<1>3. \A c \in Conn : IF conn[c].st = "live" /\ sock[conn[c].sock].pdu = u
                      THEN conn'[c].st = "deleted" ELSE conn'[c] = conn[c]
  BY <1>1, <1>2, PduGoes
<1>4. LiveConns \ LiveConns' = ConnsOfPdu(u)
  <2>1. ASSUME NEW c \in Conn, conn[c].st = "live" PROVE LiveSocket(conn[c].sock)
    BY <1>1, <2>1, Feeding DEF LiveSocket
  <2> QED BY <1>3, <2>1 DEF ConnsOfPdu, LiveConns
<1>5. req[p].at \in {"pdu.archive", "pdu.delete"} /\ Cardinality(ConnsOfPdu(u)) = req[p].count
  <2>1. CASE ArchivePduCommit(p)
    BY <1>1, <1>2, <2>1, Committing DEF ArchivePduCommit, FactsOf, PduFacts
  <2>2. CASE DeletePduCommit(p)
    <3>1. req[p].count = 0 /\ ConnsOfPdu(u) = {}
      BY <1>1, <1>2, <2>2, Committing DEF DeletePduCommit, FactsOf, PduFacts, ConnsOfPdu, LiveConns
    <3> QED BY <2>2, <3>1, FS_EmptySet DEF DeletePduCommit
  <2> QED BY <1>2, <2>1, <2>2
<1>6. \A c \in LiveConns : sock[conn[c].sock].pdu = u => conn'[c].st = "deleted"
  BY <1>3 DEF LiveConns
<1> QED BY <1>2, <1>4, <1>5, <1>6

\* A PDU is retired with exactly as many connections as its request confirmed under the
\* lock of the PDU, and none is left on it: no Connect gets in between.
THEOREM PdusRetiredAsConfirmed == Spec => RetiresOnlyConfirmed
<1>1. Inductive /\ [Next]_vars => [RetiredConfirmed]_vars
  BY RetiredNext
<1> QED BY <1>1, InductiveInvariant, PTL DEF Spec, RetiresOnlyConfirmed, RetiredConfirmed

-----------------------------------------------------------------------------
(* The ledger *)

\* The state of the ledger that the tables stand for.
Shelves == [r \in Rack |-> Standing(r)]
Outlets == [s \in Socket |-> IF LiveSocket(s) THEN pdu[sock[s].pdu].rack ELSE None]
Entry(c) == <<conn[c].sock, conn[c].dev, conn[c].role>>
Feeds == {Entry(c) : c \in LiveConns}

LEMMA LedgerInit == Init => L!LInit
<1> SUFFICES ASSUME Init PROVE L!LInit
  OBVIOUS
<1>1. Shelves = [r \in Rack |-> [standing |-> FALSE, open |-> FALSE, uHeight |-> 0]]
  BY DEF Init, Shelves, Standing, LiveRack
<1>2. Outlets = [s \in Socket |-> NoPlace.rack]
  BY DEF Init, Outlets, LiveSocket, NoPlace
<1>3. Feeds = {}
  BY DEF Init, Feeds, LiveConns
<1>4. pos = [d \in Device |-> NoPlace] /\ hist = [d \in Device |-> << >>]
  BY DEF Init
<1> QED BY <1>1, <1>2, <1>3, <1>4 DEF L!LInit, Shelves, Outlets, Feeds, Entry

LEMMA OutletsKept ==
  ASSUME \A s \in Socket : sock'[s].st = "live" <=> sock[s].st = "live",
         \A s \in Socket : sock[s].st = "live" => pdu'[sock'[s].pdu].rack = pdu[sock[s].pdu].rack
  PROVE  UNCHANGED Outlets
BY DEF Outlets, LiveSocket

LEMMA LedgerStutter ==
  ASSUME UNCHANGED <<pos, hist, rack, conn>>, UNCHANGED Outlets
  PROVE  UNCHANGED L!lvars
<1>1. UNCHANGED Shelves
  BY DEF Shelves, Standing, LiveRack
<1>2. UNCHANGED Feeds
  BY DEF Feeds, Entry, LiveConns
<1> QED BY <1>1, <1>2 DEF L!lvars, Shelves, Outlets, Feeds, Entry

\* Nothing feeds a device without a live connection.
LEMMA LedgerUnfed ==
  ASSUME NEW d, Unfed(d)
  PROVE  ~L!Fed(d)
<1>1. \A f \in Feeds : f[2] # d
  BY DEF Unfed, Feeds, Entry, LiveConns
<1> QED BY <1>1 DEF L!Fed, Feeds, Entry

LEMMA ShelvesAndFeedsKept ==
  ASSUME UNCHANGED <<rack, pdu, sock, conn>>
  PROVE  UNCHANGED <<Shelves, Outlets, Feeds>>
BY DEF Shelves, Standing, LiveRack, Outlets, LiveSocket, Feeds, Entry, LiveConns

LEMMA LedgerPut ==
  ASSUME Shape, Layers, Consistent, NEW p \in Proc, PlaceCommit(p)
  PROVE  \E d \in Device, op \in {"ASSIGN", "MOVE"} : L!Put(d, op, pos'[d])
<1> DEFINE d == req[p].dev
           op == req[p].op
           w == Target(req[p])
<1>1. /\ d \in Device /\ Unfed(d) /\ op \in {"ASSIGN", "MOVE"} /\ pos'[d] = w
      /\ w.endU = w.startU + device[d].height - 1 /\ device[d].height >= 1 /\ Fits(d, w)
      /\ device[d].height \in Int /\ w.startU \in Int
      /\ op = "ASSIGN" => device[d].life \in {"WAITING_RACK", "OFF_RACK"}
  BY Placed DEF Operation
<1>2. /\ pos' = [pos EXCEPT ![d] = w]
      /\ hist' = [hist EXCEPT ![d] = Journal(d, op, w)]
      /\ UNCHANGED <<rack, pdu, sock, conn>>
  BY DEF PlaceCommit
<1> HIDE DEF d, op, w
<1>3. w.rack \in Rack /\ Shelves[w.rack].standing /\ Shelves[w.rack].open
      /\ w.endU =< Shelves[w.rack].uHeight
  BY <1>1 DEF Fits, LiveRack, Shelves, Standing
<1>4. 1 =< w.startU /\ w.startU =< w.endU
  BY <1>1 DEF Fits
<1>5. \A e \in Device \ {d} : ~L!Overlap(pos[e], w)
  BY <1>1 DEF Fits, Taken, RangesOverlap, L!Overlap
<1>6. op = "ASSIGN" => pos[d] = NoPlace
  BY <1>1 DEF Consistent, Vacant, PositionMatchesDevice
<1>7. hist' = [hist EXCEPT ![d] = Append(@, [op |-> op, from |-> pos[d], to |-> w])]
  BY <1>2 DEF Journal
<1>8. L!Log(d, op, w)
  BY <1>2, <1>7 DEF L!Log
<1>9. L!Put(d, op, w)
  BY <1>1, <1>2, <1>3, <1>4, <1>5, <1>6, <1>8, LedgerUnfed, ShelvesAndFeedsKept
     DEF L!Put, Shelves, Outlets, Feeds, Entry
<1> QED BY <1>1, <1>9

LEMMA LedgerTakeOff ==
  ASSUME Shape, Layers, Consistent, NEW p \in Proc, DecommissionCommit(p)
  PROVE  \E d \in Device : L!TakeOff(d)
<1> DEFINE d == req[p].dev
<1>1. d \in Device /\ Unfed(d)
  BY TakenOff
<1>2. /\ pos' = [pos EXCEPT ![d] = NoPlace]
      /\ hist' = [hist EXCEPT ![d] = Journal(d, "DECOMMISSION", NoPlace)]
      /\ UNCHANGED <<rack, pdu, sock, conn>>
  BY DEF DecommissionCommit
<1> HIDE DEF d
<1>3. hist' = [hist EXCEPT ![d] = Append(@, [op |-> "DECOMMISSION", from |-> pos[d], to |-> NoPlace])]
  BY <1>2 DEF Journal
<1>4. L!Log(d, "DECOMMISSION", NoPlace)
  BY <1>2, <1>3 DEF L!Log
<1>5. L!TakeOff(d)
  BY <1>1, <1>2, <1>4, LedgerUnfed, ShelvesAndFeedsKept DEF L!TakeOff, Shelves, Outlets, Feeds, Entry
<1> QED BY <1>1, <1>5

LEMMA ShelfRetired ==
  ASSUME Shape, NEW r \in Rack, LiveRack(r), rack' = [rack EXCEPT ![r].st = "deleted"]
  PROVE  Shelves' = [Shelves EXCEPT ![r].standing = FALSE]
<1> DEFINE usable == rack[r].status \notin {"DISABLED", "PLANNING"} /\ rack[r].st # "none"
           h == rack[r].uHeight
<1>1. \A x \in Rack \ {r} : Standing(x)' = Standing(x)
  BY DEF Standing, LiveRack, Shape, TypeOK
<1>2. /\ rack'[r].st = "deleted" /\ rack'[r].status = rack[r].status /\ rack'[r].uHeight = h
      /\ rack[r].st = "live"
  BY DEF Shape, TypeOK, RackRow, LiveRack
<1>3. LiveRack(r)' = FALSE
  BY <1>2 DEF LiveRack
<1>4. (rack'[r].status \notin {"DISABLED", "PLANNING"} /\ rack'[r].st # "none") = usable
  BY <1>2
<1>5. Standing(r)' = [standing |-> LiveRack(r)', open |-> usable, uHeight |-> h]
  BY <1>2, <1>4 DEF Standing
<1>6. Standing(r) = [standing |-> LiveRack(r), open |-> usable, uHeight |-> h]
  BY DEF Standing
<1> HIDE DEF usable, h
<1>7. [Standing(r) EXCEPT !.standing = FALSE] = [standing |-> FALSE, open |-> usable, uHeight |-> h]
  <2>1. PICK no : no = FALSE
    OBVIOUS
  <2>2. [Standing(r) EXCEPT !.standing = no] = [standing |-> no, open |-> usable, uHeight |-> h]
    BY <1>6
  <2> QED BY <2>1, <2>2, Zenon
<1>8. Standing(r)' = [standing |-> FALSE, open |-> usable, uHeight |-> h]
  BY <1>3, <1>5
<1>9. Standing(r)' = [Standing(r) EXCEPT !.standing = FALSE]
  BY <1>7, <1>8
<1>10. Shelves = [x \in Rack |-> Standing(x)] /\ Shelves' = [x \in Rack |-> Standing(x)']
  BY DEF Shelves
<1> QED BY <1>1, <1>9, <1>10

LEMMA LedgerRetireShelf ==
  ASSUME Shape, Layers, Consistent, NEW p \in Proc, DeleteRackCommit(p)
  PROVE  \E r \in Rack : L!RetireShelf(r)
<1> DEFINE r == req[p].rack
<1>1. /\ \A e \in Device : pos[e].rack # r
      /\ \A u \in Pdu : pdu[u].st = "live" => pdu[u].rack # r
      /\ r \in Rack /\ LiveRack(r) /\ rack' = [rack EXCEPT ![r].st = "deleted"]
      /\ UNCHANGED <<device, pos, hist, pdu, sock, conn>>
  BY RackRetired
<1> HIDE DEF r
<1>2. \A s \in Socket : Outlets[s] # r
  <2> SUFFICES ASSUME NEW s \in Socket PROVE Outlets[s] # r
    OBVIOUS
  <2>1. CASE LiveSocket(s)
    BY <1>1, <2>1 DEF Outlets, Consistent, Containment, LivePdu
  <2>2. CASE ~LiveSocket(s)
    BY <1>1, <2>2, NoneAssumption DEF Outlets, Row
  <2> QED BY <2>1, <2>2
<1>3. Shelves' = [Shelves EXCEPT ![r].standing = FALSE]
  BY <1>1, ShelfRetired
<1>4. UNCHANGED <<Outlets, Feeds>>
  BY <1>1 DEF Outlets, LiveSocket, Feeds, Entry, LiveConns
<1>5. L!RetireShelf(r)
  BY <1>1, <1>2, <1>3, <1>4 DEF L!RetireShelf, Shelves, Outlets, Feeds, Entry
<1> QED BY <1>1, <1>5

LEMMA LedgerChangeShelf ==
  ASSUME Shape, NEW r \in Rack, NEW h, NEW s, CreateRack(r, h, s) \/ UpdateRack(r, h, s)
  PROVE  L!ChangeShelf(r)
<1>1. /\ rack'[r].st = "live" /\ \A x \in Rack \ {r} : rack'[x] = rack[x]
      /\ UNCHANGED <<pos, hist, pdu, sock, conn>>
  <2>1. CASE CreateRack(r, h, s)
    BY <2>1 DEF CreateRack, Shape, TypeOK
  <2>2. CASE UpdateRack(r, h, s)
    BY <2>2 DEF UpdateRack, LiveRack, Shape, TypeOK, RackRow
  <2> QED BY <2>1, <2>2
<1>2. \A x \in Rack \ {r} : Standing(x)' = Standing(x)
  BY <1>1 DEF Standing, LiveRack
<1>3. Shelves'[r].standing
  BY <1>1 DEF Shelves, Standing, LiveRack
<1>4. Shelves' = [Shelves EXCEPT ![r] = Shelves'[r]]
  <2>1. Shelves' = [x \in Rack |-> Standing(x)']
    BY DEF Shelves
  <2>2. Shelves = [x \in Rack |-> Standing(x)]
    BY DEF Shelves
  <2> HIDE DEF Shelves
  <2> QED BY <1>2, <2>1, <2>2
<1>5. UNCHANGED <<Outlets, Feeds>>
  BY <1>1 DEF Outlets, LiveSocket, Feeds, Entry, LiveConns
<1> QED BY <1>1, <1>3, <1>4, <1>5 DEF L!ChangeShelf, Shelves, Outlets, Feeds, Entry

\* Commits that the ledger does not see.
LEMMA LedgerSame ==
  ASSUME Shape, Layers, Consistent, NEW p \in Proc,
         \/ UpdateDeviceWrite(p) \/ DeleteDeviceWrite(p) \/ SubmitInsert(p) \/ CreatePduCommit(p)
         \/ ChangeSocketCommit(p) /\ req[p].op = "UPDATE"
  PROVE  UNCHANGED <<pos, hist, rack, conn>> /\ UNCHANGED Outlets
<1>1. UNCHANGED <<pos, hist, rack, conn>>
  BY DEF UpdateDeviceWrite, DeleteDeviceWrite, SubmitInsert, CreatePduCommit, ChangeSocketCommit
<1>2. CASE UNCHANGED <<pdu, sock>>
  BY <1>1, <1>2 DEF Outlets, LiveSocket
<1>3. CASE CreatePduCommit(p)
  <2>1. req[p].pdu \in Pdu /\ pdu[req[p].pdu].st = "none" /\ UNCHANGED sock
        /\ \A u \in Pdu \ {req[p].pdu} : pdu'[u] = pdu[u]
    BY <1>3, Committing DEF CreatePduCommit, FreshRows, ArgumentsOK, PduStages, Shape, TypeOK
  <2>2. \A s \in Socket : sock[s].st = "live" => sock[s].pdu \in Pdu /\ pdu[sock[s].pdu].st = "live"
    BY SupplyKnown DEF Consistent, Supply
  <2>3. UNCHANGED Outlets
    BY <2>1, <2>2, OutletsKept
  <2> QED BY <1>1, <2>3
<1>4. CASE ChangeSocketCommit(p) /\ req[p].op = "UPDATE"
  <2>1. UNCHANGED pdu /\ \A s \in Socket : sock'[s].st = sock[s].st /\ sock'[s].pdu = sock[s].pdu
    BY <1>4 DEF ChangeSocketCommit, Shape, TypeOK, SocketRow
  <2>2. UNCHANGED Outlets
    BY <2>1, OutletsKept
  <2> QED BY <1>1, <2>2
<1> QED
  BY <1>1, <1>2, <1>3, <1>4 DEF UpdateDeviceWrite, DeleteDeviceWrite, SubmitInsert

LEMMA LedgerInstall ==
  ASSUME Shape, Layers, Consistent, NEW p \in Proc, CreateSocketCommit(p)
  PROVE  \E s \in Socket, r \in Rack : L!Install(s, r)
<1>1. PICK s \in Socket, u \in Pdu :
        s = req[p].sock /\ u = req[p].pdu /\ sock[s].st = "none" /\ LivePdu(u)
  BY Committing
     DEF CreateSocketCommit, FactsOf, PduFacts, FreshRows, ArgumentsOK, PduStages
<1>2. PICK r \in Rack : LiveRack(r) /\ r = pdu[u].rack
  BY <1>1 DEF Consistent, Containment, LivePdu, LiveRack
<1>3. /\ \A x \in Socket \ {s} : sock'[x] = sock[x]
      /\ sock'[s].st = "live" /\ sock'[s].pdu = u
      /\ UNCHANGED <<pos, hist, rack, pdu, conn>>
  BY <1>1 DEF CreateSocketCommit, Shape, TypeOK
<1>4. Outlets[s] = NoPlace.rack
  BY <1>1 DEF Outlets, LiveSocket, NoPlace
<1>5. Outlets' = [Outlets EXCEPT ![s] = r]
  BY <1>1, <1>2, <1>3 DEF Outlets, LiveSocket
<1>6. Shelves[r].standing
  BY <1>2 DEF LiveRack, Shelves, Standing
<1>7. UNCHANGED <<Shelves, Feeds>>
  BY <1>3 DEF Shelves, Standing, LiveRack, Feeds, Entry, LiveConns
<1>8. L!Install(s, r)
  BY <1>3, <1>4, <1>5, <1>6, <1>7 DEF L!Install, Shelves, Outlets, Feeds, Entry
<1> QED BY <1>8

\* Sockets and connections that go together.
LEMMA LedgerUninstall ==
  ASSUME NEW O \in SUBSET Socket, UNCHANGED <<pos, hist, rack>>,
         \A s \in Socket : LiveSocket(s) /\ s \notin O =>
           sock'[s] = sock[s] /\ pdu'[sock[s].pdu] = pdu[sock[s].pdu],
         \A s \in O : sock'[s].st # "live",
         \A s \in Socket : sock[s].st # "live" => sock'[s].st # "live",
         \A c \in Conn : IF conn[c].st = "live" /\ conn[c].sock \in O
                         THEN conn'[c].st # "live" ELSE conn'[c] = conn[c]
  PROVE  L!Uninstall(O)
<1>1. Outlets' = [s \in Socket |-> IF s \in O THEN NoPlace.rack ELSE Outlets[s]]
  BY DEF Outlets, LiveSocket, NoPlace
<1>2. Feeds' = {f \in Feeds : f[1] \notin O}
  <2>1. \A c \in Conn : c \in LiveConns' <=> c \in LiveConns /\ conn[c].sock \notin O
    BY DEF LiveConns
  <2>2. \A c \in LiveConns' : Entry(c)' = Entry(c)
    BY <2>1 DEF Entry, LiveConns
  <2>3. \A c : Entry(c)[1] = conn[c].sock
    BY DEF Entry
  <2>4. Feeds' = {Entry(c)' : c \in LiveConns'} /\ LiveConns' \subseteq Conn /\ LiveConns \subseteq Conn
    BY DEF Feeds, LiveConns
  <2> QED BY <2>1, <2>2, <2>3, <2>4 DEF Feeds
<1>3. UNCHANGED Shelves
  BY DEF Shelves, Standing, LiveRack
<1> QED BY <1>1, <1>2, <1>3 DEF L!Uninstall, Shelves, Outlets, Feeds, Entry

LEMMA LedgerPduGone ==
  ASSUME Shape, Layers, Consistent, NEW p \in Proc, DeletePduCommit(p) \/ ArchivePduCommit(p)
  PROVE  \E O \in SUBSET Socket : L!Uninstall(O)
<1> DEFINE u == req[p].pdu
           O == SocketsOfPdu(u)
<1>1. Supply
  BY DEF Consistent, Supply
<1>2. /\ \A x \in Pdu \ {u} : pdu'[x] = pdu[x]
      /\ \A s \in Socket : IF sock[s].st = "live" /\ sock[s].pdu = u
                           THEN sock'[s].st = "deleted" ELSE sock'[s] = sock[s]
      /\ \A c \in Conn : IF conn[c].st = "live" /\ sock[conn[c].sock].pdu = u
                         THEN conn'[c].st = "deleted" ELSE conn'[c] = conn[c]
      /\ UNCHANGED <<pos, hist, rack>>
  BY <1>1, PduGoes
<1> HIDE DEF u
<1>3. \A s \in Socket : s \in O <=> sock[s].st = "live" /\ sock[s].pdu = u
  BY DEF SocketsOfPdu, LiveSocket
<1>4. O \in SUBSET Socket
  BY DEF SocketsOfPdu
<1> HIDE DEF O
<1>5. \A s \in Socket : LiveSocket(s) /\ s \notin O =>
        sock'[s] = sock[s] /\ pdu'[sock[s].pdu] = pdu[sock[s].pdu]
  BY <1>1, <1>2, <1>3, SupplyKnown DEF LiveSocket
<1>6. \A c \in Conn : conn[c].st = "live" => (conn[c].sock \in O <=> sock[conn[c].sock].pdu = u)
  BY <1>1, <1>3, Feeding
<1>7. \A c \in Conn : IF conn[c].st = "live" /\ conn[c].sock \in O
                      THEN conn'[c].st # "live" ELSE conn'[c] = conn[c]
  BY <1>2, <1>6
<1>8. \A s \in O : sock'[s].st # "live"
  BY <1>2, <1>3, <1>4
<1>9. \A s \in Socket : sock[s].st # "live" => sock'[s].st # "live"
  BY <1>2
<1> QED BY <1>2, <1>4, <1>5, <1>7, <1>8, <1>9, LedgerUninstall

LEMMA LedgerSocketGone ==
  ASSUME Shape, Layers, Consistent, NEW p \in Proc, ChangeSocketCommit(p), req[p].op # "UPDATE"
  PROVE  \E O \in SUBSET Socket : L!Uninstall(O)
<1>1. PICK s \in Socket :
        /\ s = req[p].sock /\ UNCHANGED <<pos, hist, rack, pdu, conn>>
        /\ \A c \in Conn : conn[c].st = "live" => conn[c].sock # s
  BY Committing
     DEF ChangeSocketCommit, FactsOf, PduFacts, ArgumentsOK, SocketStages, ChangeSocketStages
<1>2. sock'[s].st = "deleted" /\ \A x \in Socket \ {s} : sock'[x] = sock[x]
  BY <1>1 DEF ChangeSocketCommit, Shape, TypeOK, SocketRow
<1>3. L!Uninstall({s})
  BY <1>1, <1>2, LedgerUninstall
<1> QED BY <1>1, <1>3

LEMMA LedgerFeed ==
  ASSUME Shape, Layers, Consistent, NEW p \in Proc, ConnectCommit(p)
  PROVE  \E s \in Socket, d \in Device, role \in Role : L!Feed(s, d, role)
<1>1. PICK c \in Conn, s \in Socket, d \in Device, role \in Role :
        /\ conn[c].st = "none" /\ sock[s].st = "live" /\ sock[s].status # "CONNECTED"
        /\ Positioned(d) /\ pos[d].rack = pdu[sock[s].pdu].rack /\ ~HasRole(d, role)
        /\ conn'[c].st = "live" /\ conn'[c].sock = s /\ conn'[c].dev = d /\ conn'[c].role = role
        /\ \A x \in Conn \ {c} : conn'[x] = conn[x]
        /\ UNCHANGED <<pos, hist, rack, pdu>>
  BY Connected
<1>2. /\ \A x \in Socket : sock'[x].st = sock[x].st /\ sock'[x].pdu = sock[x].pdu
  BY Connected
<1>3. UNCHANGED Outlets
  BY <1>1, <1>2 DEF Outlets, LiveSocket
<1>4. UNCHANGED Shelves
  BY <1>1 DEF Shelves, Standing, LiveRack
<1>5. pos[d] # NoPlace /\ Outlets[s] = pos[d].rack
  BY <1>1 DEF Positioned, NoPlace, Outlets, LiveSocket
<1>6. \A f \in Feeds : f[1] # s /\ ~(f[2] = d /\ f[3] = role)
  <2>1. \A x \in LiveConns : conn[x].sock # s /\ ~(conn[x].dev = d /\ conn[x].role = role)
    BY <1>1, Feeding DEF Consistent, Supply, LiveConns, HasRole, ConnsOfDevice
  <2> QED BY <2>1 DEF Feeds, Entry
<1>7. Feeds' = Feeds \cup {<<s, d, role>>}
  <2>1. LiveConns' = LiveConns \cup {c} /\ c \notin LiveConns
    BY <1>1 DEF LiveConns
  <2>2. Entry(c)' = <<s, d, role>> /\ \A x \in LiveConns : Entry(x)' = Entry(x)
    BY <1>1, <2>1 DEF Entry, LiveConns
  <2>3. Feeds' = {Entry(x)' : x \in LiveConns'}
    BY DEF Feeds
  <2> QED BY <2>1, <2>2, <2>3 DEF Feeds
<1>8. L!Feed(s, d, role)
  BY <1>1, <1>3, <1>4, <1>5, <1>6, <1>7 DEF L!Feed, Shelves, Outlets, Feeds, Entry
<1> QED BY <1>8

LEMMA LedgerUnfeed ==
  ASSUME Shape, Layers, Consistent, NEW p \in Proc, DisconnectCommit(p)
  PROVE  \E f \in Feeds : L!Unfeed(f)
<1>1. Supply
  BY DEF Consistent, Supply
<1>2. PICK c \in Conn :
      /\ conn[c].st = "live" /\ conn'[c].st = "deleted" /\ \A x \in Conn \ {c} : conn'[x] = conn[x]
      /\ UNCHANGED <<pos, hist, rack, pdu>>
  BY <1>1, Disconnected
<1>3. \A x \in Socket : sock'[x].st = sock[x].st /\ sock'[x].pdu = sock[x].pdu
  BY <1>1, Disconnected
<1>4. UNCHANGED Outlets
  BY <1>2, <1>3 DEF Outlets, LiveSocket
<1>5. UNCHANGED Shelves
  BY <1>2 DEF Shelves, Standing, LiveRack
<1>6. Feeds' = Feeds \ {Entry(c)} /\ Entry(c) \in Feeds
  <2>1. LiveConns' = LiveConns \ {c} /\ c \in LiveConns
    BY <1>2 DEF LiveConns
  <2>2. \A x \in LiveConns' : Entry(x)' = Entry(x)
    BY <1>2, <2>1 DEF Entry, LiveConns
  <2>3. \A x \in LiveConns' : Entry(x) # Entry(c)
    BY <1>1, <2>1, SupplyKnown DEF Entry, LiveConns
  <2>4. Feeds' = {Entry(x)' : x \in LiveConns'}
    BY DEF Feeds
  <2> QED BY <2>1, <2>2, <2>3, <2>4 DEF Feeds
<1>7. PICK f \in Feeds : f = Entry(c)
  BY <1>6
<1>8. L!Unfeed(f)
  BY <1>2, <1>4, <1>5, <1>6, <1>7 DEF L!Unfeed, Shelves, Outlets, Feeds, Entry
<1> QED BY <1>8

LEMMA LedgerCommit ==
  ASSUME Shape, Layers, Consistent, NEW p \in Proc, Commit(p)
  PROVE  L!LNext \/ UNCHANGED L!lvars
<1>1. CASE PlaceCommit(p)
  BY <1>1, LedgerPut DEF L!LNext
<1>2. CASE DecommissionCommit(p)
  BY <1>2, LedgerTakeOff DEF L!LNext
<1>3. CASE DeleteRackCommit(p)
  BY <1>3, LedgerRetireShelf DEF L!LNext
<1>4. CASE DeletePduCommit(p) \/ ArchivePduCommit(p)
  BY <1>4, LedgerPduGone DEF L!LNext
<1>5. CASE CreateSocketCommit(p)
  BY <1>5, LedgerInstall DEF L!LNext
<1>6. CASE ConnectCommit(p)
  BY <1>6, LedgerFeed DEF L!LNext
<1>7. CASE DisconnectCommit(p)
  <2>1. L!LNext
    BY <1>7, LedgerUnfeed DEF L!LNext, Feeds, Entry
  <2> QED BY <2>1
<1>8. CASE ChangeSocketCommit(p) /\ req[p].op # "UPDATE"
  BY <1>8, LedgerSocketGone DEF L!LNext
<1>9. CASE \/ UpdateDeviceWrite(p) \/ DeleteDeviceWrite(p) \/ SubmitInsert(p) \/ CreatePduCommit(p)
           \/ ChangeSocketCommit(p) /\ req[p].op = "UPDATE"
  BY <1>9, LedgerSame, LedgerStutter
<1> QED BY <1>1, <1>2, <1>3, <1>4, <1>5, <1>6, <1>7, <1>8, <1>9 DEF Commit

LEMMA LedgerSingle ==
  ASSUME Shape, Single
  PROVE  L!LNext \/ UNCHANGED L!lvars
<1>1. ASSUME NEW r \in Rack, NEW h, NEW s, CreateRack(r, h, s) \/ UpdateRack(r, h, s) PROVE L!LNext
  BY <1>1, LedgerChangeShelf DEF L!LNext
<1>2. ASSUME UNCHANGED <<pos, hist, rack, pdu, sock, conn>> PROVE UNCHANGED L!lvars
  <2>1. UNCHANGED Outlets
    BY <1>2 DEF Outlets, LiveSocket
  <2> QED BY <1>2, <2>1, LedgerStutter
<1> QED BY <1>1, <1>2 DEF Single, CreateDevice, UpdatePolicy, Reject

LEMMA LedgerNext == Inductive /\ [Next]_vars => [L!LNext]_(L!lvars)
<1> SUFFICES ASSUME Inductive, [Next]_vars PROVE L!LNext \/ UNCHANGED L!lvars
  OBVIOUS
<1>1. Shape /\ Layers /\ Consistent
  BY DEF Inductive, Layers
<1>2. UNCHANGED tables \/ Single \/ \E p \in Proc : Commit(p)
  BY <1>1, Steps
<1>3. CASE UNCHANGED tables
  <2>1. UNCHANGED <<pos, hist, rack, conn>> /\ UNCHANGED Outlets
    BY <1>3 DEF tables, Outlets, LiveSocket
  <2> QED BY <2>1, LedgerStutter
<1> QED BY <1>1, <1>2, <1>3, LedgerCommit, LedgerSingle

\* The concurrent handlers implement the ledger: every commit, whatever its request read
\* when, is an operation of the ledger that is right at the moment it takes effect, and
\* every other step leaves the account as it is.
THEOREM LedgerImplemented == Spec => ImplementsLedger
BY LedgerInit, LedgerNext, InductiveInvariant, PTL DEF Spec, ImplementsLedger, L!LSpec
=============================================================================
