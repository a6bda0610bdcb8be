---------------------------- MODULE SafetyProofs ----------------------------
(***************************************************************************)
(* Type correctness and safety of the inventory core.  Shape comes first,  *)
(* with one lemma per action.  Then mounted devices do not overlap, a      *)
(* redundancy role is connected once, the history is unbroken and a        *)
(* decision is final: each follows from the part of the Locks, Fresh and   *)
(* Facts of module Invariant that it needs, stated here as a guard of each *)
(* process, and from a frame: what a step of one process can do to the     *)
(* others, to the positions, the connections and the approvals.            *)
(***************************************************************************)
EXTENDS Invariant, SequenceTheorems, TLAPS

-----------------------------------------------------------------------------
(* Type correctness: Shape is inductive                                        *)

LEMMA InitShape == Init => Shape
BY NoneAssumption
   DEF Init, Shape, TypeOK, SocketStatus, Intent, DeviceRow, RackRow, PduRow, SocketRow, ConnRow, Place, NoPlace,
       HistoryRow, TicketRow, Request, Idle, Stage, Existence, Lifecycle, RackStatus, Row,
       ArgumentsOK, RowsOK, ForeignKeys, Found, DeviceStages, RackStages, PduStages, SocketStages,
       ConnectStages, DisconnectStages, PlaceStages, SubmitStages, ChangeSocketStages

-----------------------------------------------------------------------------
(* Steps of a request *)

\* A process without a request has no arguments to type.
LEMMA IdleRequest == Idle \in Request
BY DEF Place, NoPlace, Request, Idle, Stage, Intent, SocketStatus

LEMMA IdleShape == Idle \in Request /\ ArgumentsOK(Idle) /\ Found(Idle)
BY IdleRequest
   DEF Idle, Found, ArgumentsOK, DeviceStages, RackStages, PduStages, SocketStages, ConnectStages,
       DisconnectStages, PlaceStages, SubmitStages, ChangeSocketStages

\* The end of a transaction leaves the other requests as they are.
LEMMA EndTxShape ==
  ASSUME Shape, NEW p \in Proc, EndTx(p)
  PROVE  /\ lock' \in [Row -> Proc \cup {None}] /\ req' \in [Proc -> Request]
         /\ \A q \in Proc : q # p => req'[q] = req[q]
         /\ req'[p] = Idle
         /\ \A q \in Proc : ArgumentsOK(req'[q])
BY IdleShape DEF EndTx, Shape, TypeOK

LEMMA RollbackShape ==
  ASSUME Shape, NEW p \in Proc, Rollback(p)
  PROVE  Shape'
BY EndTxShape, IdleShape DEF Rollback, tables, Shape, TypeOK, RowsOK, ForeignKeys, Found

\* A statement that only reads or locks turns the request into one with well-formed
\* arguments.
LEMMA TakeRowShape ==
  ASSUME Shape, NEW p \in Proc, NEW x, NEW r \in Request, ArgumentsOK(r),
         Found(r),
         TakeRow(p, x, r) \/ Begin(p, r), UNCHANGED tables
  PROVE  Shape'
BY DEF TakeRow, Begin, tables, Shape, TypeOK, RowsOK, ForeignKeys, Found

-----------------------------------------------------------------------------
(* Requests that begin *)

LEMMA UpdateDeviceReadShape ==
  ASSUME Shape, NEW p \in Proc, NEW d \in Device, NEW h \in Heights,
         UpdateDeviceRead(p, d, h)
  PROVE  Shape'
<1> DEFINE height == IF h > 0 THEN h ELSE device[d].height
           next == IF height = device[d].height THEN "update.write" ELSE "update.position"
           r == [Idle EXCEPT !.at = next, !.dev = d, !.height = height, !.ver = device[d].ver]
<1>1. height \in Int /\ device[d].ver \in Nat /\ next \in {"update.write", "update.position"}
  BY InputAssumption DEF Shape, TypeOK, DeviceRow
<1> HIDE DEF height, next
<1>2. r \in Request
  BY IdleRequest, <1>1 DEF Request, Stage
<1>3. r.at = next /\ r.dev = d
  BY IdleRequest DEF Request
<1>4. Found(r)
  BY <1>1, <1>3 DEF Found, SocketStages, ConnectStages, DisconnectStages, ChangeSocketStages,
           PlaceStages
<1>5. Begin(p, r) /\ UNCHANGED tables
  BY DEF UpdateDeviceRead, height, next
<1> HIDE DEF r
<1>6. ArgumentsOK(r)
  BY <1>2, <1>3, <1>1 DEF ArgumentsOK, DeviceStages, RackStages, PduStages, SocketStages,
           ConnectStages, DisconnectStages, PlaceStages, SubmitStages, ChangeSocketStages
<1> QED BY <1>2, <1>4, <1>5, <1>6, TakeRowShape

LEMMA DeleteDeviceCheckShape ==
  ASSUME Shape, NEW p \in Proc, NEW d \in Device,
         DeleteDeviceCheck(p, d)
  PROVE  Shape'
<1> DEFINE r == [Idle EXCEPT !.at = "delete.write", !.dev = d, !.ver = device[d].ver]
<1>1. device[d].ver \in Nat
  BY DEF Shape, TypeOK, DeviceRow
<1>2. r \in Request
  BY IdleRequest, <1>1 DEF Request, Stage
<1>3. r.at = "delete.write" /\ r.dev = d
  BY IdleRequest DEF Request
<1>4. Found(r)
  BY <1>3 DEF Found, SocketStages, ConnectStages, DisconnectStages, ChangeSocketStages,
           PlaceStages
<1>5. Begin(p, r) /\ UNCHANGED tables
  BY DEF DeleteDeviceCheck
<1> HIDE DEF r
<1>6. ArgumentsOK(r)
  BY <1>2, <1>3, <1>1 DEF ArgumentsOK, DeviceStages, RackStages, PduStages, SocketStages,
           ConnectStages, DisconnectStages, PlaceStages, SubmitStages, ChangeSocketStages
<1> QED BY <1>2, <1>4, <1>5, <1>6, TakeRowShape

LEMMA RequestPlaceShape ==
  ASSUME Shape, NEW p \in Proc, NEW op \in Operation, NEW d \in Device, NEW r0 \in Rack, NEW u \in StartUs,
         RequestPlace(p, op, d, r0, u)
  PROVE  Shape'
<1> DEFINE r == [Idle EXCEPT !.at = "place.device", !.op = op, !.dev = d, !.rack = r0, !.startU = u]
<1>1. u \in Int /\ op \in Intent
  BY InputAssumption DEF Operation, Intent
<1>2. r \in Request
  BY IdleRequest, <1>1 DEF Request, Stage
<1>3. r.at = "place.device" /\ r.op = op /\ r.dev = d /\ r.rack = r0 /\ r.ticket = None
  BY IdleRequest DEF Request, Idle
<1>4. Found(r)
  BY <1>3 DEF Found, SocketStages, ConnectStages, DisconnectStages, ChangeSocketStages,
           PlaceStages
<1>5. Begin(p, r) /\ UNCHANGED tables
  BY DEF RequestPlace
<1> HIDE DEF r
<1>6. ArgumentsOK(r)
  BY <1>2, <1>3, <1>1 DEF ArgumentsOK, DeviceStages, RackStages, PduStages, SocketStages,
           ConnectStages, DisconnectStages, PlaceStages, SubmitStages, ChangeSocketStages, Operation
<1> QED BY <1>2, <1>4, <1>5, <1>6, TakeRowShape

LEMMA DecommissionDeviceShape ==
  ASSUME Shape, NEW p \in Proc, NEW d \in Device,
         DecommissionDevice(p, d)
  PROVE  Shape'
<1> DEFINE r == [Idle EXCEPT !.at = "off.commit", !.dev = d]
<1>1. r \in Request
  BY IdleRequest DEF Request, Stage
<1>2. r.at = "off.commit" /\ r.dev = d
  BY IdleRequest DEF Request
<1>3. Found(r)
  BY <1>2 DEF Found, SocketStages, ConnectStages, DisconnectStages, ChangeSocketStages,
           PlaceStages
<1>4. TakeRow(p, d, r) /\ UNCHANGED tables
  BY DEF DecommissionDevice
<1> HIDE DEF r
<1>5. ArgumentsOK(r)
  BY <1>1, <1>2 DEF ArgumentsOK, DeviceStages, RackStages, PduStages, SocketStages,
           ConnectStages, DisconnectStages, PlaceStages, SubmitStages, ChangeSocketStages
<1> QED BY <1>1, <1>3, <1>4, <1>5, TakeRowShape

LEMMA DeleteRackCheckShape ==
  ASSUME Shape, NEW p \in Proc, NEW r0 \in Rack,
         DeleteRackCheck(p, r0)
  PROVE  Shape'
<1> DEFINE r == [Idle EXCEPT !.at = "retire.commit", !.rack = r0]
<1>1. r \in Request
  BY IdleRequest DEF Request, Stage
<1>2. r.at = "retire.commit" /\ r.rack = r0
  BY IdleRequest DEF Request
<1>3. Found(r)
  BY <1>2 DEF Found, SocketStages, ConnectStages, DisconnectStages, ChangeSocketStages,
           PlaceStages
<1>4. TakeRow(p, r0, r) /\ UNCHANGED tables
  BY DEF DeleteRackCheck
<1> HIDE DEF r
<1>5. ArgumentsOK(r)
  BY <1>1, <1>2 DEF ArgumentsOK, DeviceStages, RackStages, PduStages, SocketStages,
           ConnectStages, DisconnectStages, PlaceStages, SubmitStages, ChangeSocketStages
<1> QED BY <1>1, <1>3, <1>4, <1>5, TakeRowShape

LEMMA CreatePduRackShape ==
  ASSUME Shape, NEW p \in Proc, NEW u \in Pdu, NEW r0 \in Rack,
         CreatePduRack(p, u, r0)
  PROVE  Shape'
<1> DEFINE r == [Idle EXCEPT !.at = "pdu.create", !.pdu = u, !.rack = r0]
<1>1. r \in Request
  BY IdleRequest DEF Request, Stage
<1>2. r.at = "pdu.create" /\ r.pdu = u /\ r.rack = r0
  BY IdleRequest DEF Request
<1>3. Found(r)
  BY <1>2 DEF Found, SocketStages, ConnectStages, DisconnectStages, ChangeSocketStages,
           PlaceStages
<1>4. TakeRow(p, r0, r) /\ UNCHANGED tables
  BY DEF CreatePduRack
<1> HIDE DEF r
<1>5. ArgumentsOK(r)
  BY <1>1, <1>2 DEF ArgumentsOK, DeviceStages, RackStages, PduStages, SocketStages,
           ConnectStages, DisconnectStages, PlaceStages, SubmitStages, ChangeSocketStages
<1> QED BY <1>1, <1>3, <1>4, <1>5, TakeRowShape

LEMMA DeletePduCheckShape ==
  ASSUME Shape, NEW p \in Proc, NEW u \in Pdu,
         DeletePduCheck(p, u)
  PROVE  Shape'
<1> DEFINE r == [Idle EXCEPT !.at = "pdu.delete", !.pdu = u]
<1>1. r \in Request
  BY IdleRequest DEF Request, Stage
<1>2. r.at = "pdu.delete" /\ r.pdu = u
  BY IdleRequest DEF Request
<1>3. Found(r)
  BY <1>2 DEF DeletePduCheck, LivePdu, Found, SocketStages, ConnectStages, DisconnectStages, ChangeSocketStages,
           PlaceStages
<1>4. TakeRow(p, u, r) /\ UNCHANGED tables
  BY DEF DeletePduCheck
<1> HIDE DEF r
<1>5. ArgumentsOK(r)
  BY <1>1, <1>2 DEF ArgumentsOK, DeviceStages, RackStages, PduStages, SocketStages,
           ConnectStages, DisconnectStages, PlaceStages, SubmitStages, ChangeSocketStages
<1> QED BY <1>1, <1>3, <1>4, <1>5, TakeRowShape

LEMMA ArchivePduCheckShape ==
  ASSUME Shape, NEW p \in Proc, NEW u \in Pdu, NEW n \in Nat,
         ArchivePduCheck(p, u, n)
  PROVE  Shape'
<1> DEFINE r == [Idle EXCEPT !.at = "pdu.archive", !.pdu = u, !.count = n]
<1>1. r \in Request
  BY IdleRequest DEF Request, Stage
<1>2. r.at = "pdu.archive" /\ r.pdu = u
  BY IdleRequest DEF Request
<1>3. Found(r)
  BY <1>2 DEF ArchivePduCheck, LivePdu, Found, SocketStages, ConnectStages, DisconnectStages, ChangeSocketStages,
           PlaceStages
<1>4. TakeRow(p, u, r) /\ UNCHANGED tables
  BY DEF ArchivePduCheck
<1> HIDE DEF r
<1>5. ArgumentsOK(r)
  BY <1>1, <1>2 DEF ArgumentsOK, DeviceStages, RackStages, PduStages, SocketStages,
           ConnectStages, DisconnectStages, PlaceStages, SubmitStages, ChangeSocketStages
<1> QED BY <1>1, <1>3, <1>4, <1>5, TakeRowShape

LEMMA CreateSocketPduShape ==
  ASSUME Shape, NEW p \in Proc, NEW s \in Socket, NEW u \in Pdu,
         CreateSocketPdu(p, s, u)
  PROVE  Shape'
<1> DEFINE r == [Idle EXCEPT !.at = "socket.create", !.sock = s, !.pdu = u]
<1>1. r \in Request
  BY IdleRequest DEF Request, Stage
<1>2. r.at = "socket.create" /\ r.sock = s /\ r.pdu = u
  BY IdleRequest DEF Request
<1>3. Found(r)
  BY <1>2 DEF Found, SocketStages, ConnectStages, DisconnectStages, ChangeSocketStages,
           PlaceStages
<1>4. TakeRow(p, u, r) /\ UNCHANGED tables
  BY DEF CreateSocketPdu
<1> HIDE DEF r
<1>5. ArgumentsOK(r)
  BY <1>1, <1>2 DEF ArgumentsOK, DeviceStages, RackStages, PduStages, SocketStages,
           ConnectStages, DisconnectStages, PlaceStages, SubmitStages, ChangeSocketStages
<1> QED BY <1>1, <1>3, <1>4, <1>5, TakeRowShape

LEMMA ChangeSocketPduShape ==
  ASSUME Shape, NEW p \in Proc, NEW op \in {"UPDATE", "DELETE"}, NEW s \in Socket,
         ChangeSocketPdu(p, op, s)
  PROVE  Shape'
<1> DEFINE r == [Idle EXCEPT !.at = "socket.row", !.op = op, !.sock = s]
<1> op \in Intent
  BY DEF Intent
<1>1. r \in Request
  BY IdleRequest DEF Request, Stage
<1>2. r.at = "socket.row" /\ r.op = op /\ r.sock = s
  BY IdleRequest DEF Request
<1>3. Found(r)
  BY <1>2 DEF Found, PlaceStages, ChangeSocketPdu, LiveSocket
<1>4. TakeRow(p, sock[s].pdu, r) /\ UNCHANGED tables
  BY DEF ChangeSocketPdu
<1> HIDE DEF r
<1>5. ArgumentsOK(r)
  BY <1>1, <1>2 DEF ArgumentsOK, DeviceStages, RackStages, PduStages, SocketStages,
           ConnectStages, DisconnectStages, PlaceStages, SubmitStages, ChangeSocketStages
<1> QED BY <1>1, <1>3, <1>4, <1>5, TakeRowShape

LEMMA ConnectDeviceShape ==
  ASSUME Shape, NEW p \in Proc, NEW c \in Conn, NEW s \in Socket, NEW d \in Device, NEW role \in Role,
         ConnectDevice(p, c, s, d, role)
  PROVE  Shape'
<1> DEFINE r == [Idle EXCEPT !.at = "connect.pdu", !.dev = d, !.sock = s,
                              !.role = role, !.conn = c]
<1>1. r \in Request
  BY IdleRequest DEF Request, Stage
<1>2. r.at = "connect.pdu" /\ r.dev = d /\ r.sock = s /\ r.role = role /\ r.conn = c
  BY IdleRequest DEF Request
<1>3. Found(r)
  BY <1>2 DEF Found, PlaceStages, ConnectDevice, LiveSocket
<1>4. TakeRow(p, d, r) /\ UNCHANGED tables
  BY DEF ConnectDevice
<1> HIDE DEF r
<1>5. ArgumentsOK(r)
  BY <1>1, <1>2 DEF ArgumentsOK, DeviceStages, RackStages, PduStages, SocketStages,
           ConnectStages, DisconnectStages, PlaceStages, SubmitStages, ChangeSocketStages
<1> QED BY <1>1, <1>3, <1>4, <1>5, TakeRowShape

LEMMA RequestDisconnectShape ==
  ASSUME Shape, NEW p \in Proc, NEW c \in Conn,
         RequestDisconnect(p, c)
  PROVE  Shape'
<1> DEFINE r == [Idle EXCEPT !.at = "disconnect.pdu", !.conn = c, !.sock = conn[c].sock]
<1>1. conn[c].sock \in Socket
  BY DEF RequestDisconnect, LiveConns, Shape, RowsOK, ForeignKeys
<1>2. r \in Request
  BY IdleRequest, <1>1 DEF Request, Stage
<1>3. r.at = "disconnect.pdu" /\ r.conn = c /\ r.sock = conn[c].sock
  BY IdleRequest DEF Request
<1>4. Found(r)
  BY <1>3 DEF Found, PlaceStages, RequestDisconnect, LiveConns, LiveSocket
<1>5. Begin(p, r) /\ UNCHANGED tables
  BY DEF RequestDisconnect
<1> HIDE DEF r
<1>6. ArgumentsOK(r)
  BY <1>2, <1>3, <1>1 DEF ArgumentsOK, DeviceStages, RackStages, PduStages, SocketStages,
           ConnectStages, DisconnectStages, PlaceStages, SubmitStages, ChangeSocketStages
<1> QED BY <1>2, <1>4, <1>5, <1>6, TakeRowShape

LEMMA RequestApprovalShape ==
  ASSUME Shape, NEW p \in Proc, NEW t \in Ticket, NEW op \in Operation, NEW d \in Device, NEW r0 \in Rack,
         NEW u \in StartUs,
         RequestApproval(p, t, op, d, r0, u)
  PROVE  Shape'
<1> DEFINE r == [Idle EXCEPT !.at = "submit.position", !.op = op, !.dev = d, !.rack = r0,
                              !.ticket = t, !.startU = u, !.height = device[d].height, !.ver = device[d].ver,
                              !.was = pos[d]]
<1>1. u \in Int /\ op \in Intent /\ device[d].height \in Int /\ device[d].ver \in Nat /\ pos[d] \in Place
  BY InputAssumption DEF Operation, Intent, Shape, TypeOK, DeviceRow
<1>2. r \in Request
  BY IdleRequest, <1>1 DEF Request, Stage
<1>3. r.at = "submit.position" /\ r.op = op /\ r.dev = d /\ r.rack = r0 /\ r.ticket = t
  BY IdleRequest DEF Request
<1>4. Found(r)
  BY <1>3 DEF Found, SocketStages, ConnectStages, DisconnectStages, ChangeSocketStages,
           PlaceStages
<1>5. Begin(p, r) /\ UNCHANGED tables
  BY DEF RequestApproval
<1> HIDE DEF r
<1>6. ArgumentsOK(r)
  BY <1>2, <1>3, <1>1 DEF ArgumentsOK, DeviceStages, RackStages, PduStages, SocketStages,
           ConnectStages, DisconnectStages, PlaceStages, SubmitStages, ChangeSocketStages, Operation
<1> QED BY <1>2, <1>4, <1>5, <1>6, TakeRowShape

LEMMA ApproveShape ==
  ASSUME Shape, NEW p \in Proc, NEW t \in Ticket,
         Approve(p, t)
  PROVE  Shape'
<1> DEFINE r == [Idle EXCEPT !.at = "place.device", !.ticket = t, !.op = ticket[t].op,
                              !.dev = ticket[t].dev, !.rack = ticket[t].rack,
                              !.startU = ticket[t].startU]
<1>1. ticket[t] \in TicketRow /\ ticket[t].op \in Operation \cap Intent /\ ticket[t].dev \in Device
        /\ ticket[t].st # "none" /\ ticket[t].rack \in Rack /\ ticket[t].startU \in Int
  BY DEF Approve, Shape, TypeOK, RowsOK, ForeignKeys, TicketRow,
     Operation, Intent
<1>2. r \in Request
  BY IdleRequest, <1>1 DEF Request, Stage
<1>3. r.at = "place.device" /\ r.ticket = t /\ r.op = ticket[t].op /\ r.dev = ticket[t].dev /\ r.rack = ticket[t].rack
  BY IdleRequest DEF Request
<1>4. Found(r)
  BY <1>1, <1>3 DEF Found, SocketStages, ConnectStages, DisconnectStages, ChangeSocketStages,
           PlaceStages
<1>5. TakeRow(p, t, r) /\ UNCHANGED tables
  BY DEF Approve
<1> HIDE DEF r
<1>6. ArgumentsOK(r)
  BY <1>2, <1>3, <1>1 DEF ArgumentsOK, DeviceStages, RackStages, PduStages, SocketStages,
           ConnectStages, DisconnectStages, PlaceStages, SubmitStages, ChangeSocketStages
<1> QED BY <1>2, <1>4, <1>5, <1>6, TakeRowShape

-----------------------------------------------------------------------------
(* Requests that go on *)

LEMMA UpdateDevicePositionShape ==
  ASSUME Shape, NEW p \in Proc,
         UpdateDevicePosition(p)
  PROVE  Shape'
<1> DEFINE r == [req[p] EXCEPT !.at = "update.write"]
<1>1. req[p] \in Request /\ ArgumentsOK(req[p])
  BY DEF Shape, TypeOK
<1>2. r \in Request /\ ArgumentsOK(r)
  BY <1>1 DEF Request, Stage, UpdateDevicePosition,
           ArgumentsOK, DeviceStages, RackStages, PduStages, SocketStages,
           ConnectStages, DisconnectStages, PlaceStages, SubmitStages, ChangeSocketStages
<1>3. Found(r)
  BY <1>1 DEF Request, UpdateDevicePosition, Shape, RowsOK, Found, SocketStages, ConnectStages,
           DisconnectStages, ChangeSocketStages, PlaceStages
<1>4. CASE Begin(p, r) /\ UNCHANGED tables
  <2> HIDE DEF r
  <2> QED BY <1>2, <1>3, <1>4, TakeRowShape
<1>5. CASE Begin(p, Idle) /\ UNCHANGED tables
  BY <1>5, IdleShape, TakeRowShape
<1> QED BY <1>4, <1>5 DEF UpdateDevicePosition

LEMMA PlaceDeviceShape ==
  ASSUME Shape, NEW p \in Proc,
         PlaceDevice(p)
  PROVE  Shape'
<1> DEFINE r == [req[p] EXCEPT !.at = "place.rack", !.height = device[req[p].dev].height]
<1>1. req[p] \in Request /\ ArgumentsOK(req[p])
  BY DEF Shape, TypeOK
<1>2. r \in Request /\ ArgumentsOK(r)
  BY <1>1 DEF Request, Stage, PlaceDevice, Shape, TypeOK, DeviceRow,
           ArgumentsOK, DeviceStages, RackStages, PduStages, SocketStages,
           ConnectStages, DisconnectStages, PlaceStages, SubmitStages, ChangeSocketStages
<1>3. Found(r)
  BY <1>1 DEF Request, PlaceDevice, Shape, RowsOK, Found, SocketStages, ConnectStages,
           DisconnectStages, ChangeSocketStages, PlaceStages
<1>4. CASE TakeRow(p, req[p].dev, r) /\ UNCHANGED tables
  <2> HIDE DEF r
  <2> QED BY <1>2, <1>3, <1>4, TakeRowShape
<1>5. CASE Rollback(p)
  BY <1>5, RollbackShape
<1> QED BY <1>4, <1>5 DEF PlaceDevice

LEMMA PlaceRackShape ==
  ASSUME Shape, NEW p \in Proc,
         PlaceRack(p)
  PROVE  Shape'
<1> DEFINE r == [req[p] EXCEPT !.at = "place.commit"]
<1>1. req[p] \in Request /\ ArgumentsOK(req[p])
  BY DEF Shape, TypeOK
<1>2. r \in Request /\ ArgumentsOK(r)
  BY <1>1 DEF Request, Stage, PlaceRack,
           ArgumentsOK, DeviceStages, RackStages, PduStages, SocketStages,
           ConnectStages, DisconnectStages, PlaceStages, SubmitStages, ChangeSocketStages
<1>3. Found(r)
  BY <1>1 DEF Request, PlaceRack, Shape, RowsOK, Found, SocketStages, ConnectStages,
           DisconnectStages, ChangeSocketStages, PlaceStages
<1>4. CASE TakeRow(p, req[p].rack, r) /\ UNCHANGED tables
  <2> HIDE DEF r
  <2> QED BY <1>2, <1>3, <1>4, TakeRowShape
<1>5. CASE Rollback(p)
  BY <1>5, RollbackShape
<1> QED BY <1>4, <1>5 DEF PlaceRack

LEMMA ChangeSocketRowShape ==
  ASSUME Shape, NEW p \in Proc,
         ChangeSocketRow(p)
  PROVE  Shape'
<1> DEFINE r == [req[p] EXCEPT !.at = "socket.commit", !.status = sock[req[p].sock].status]
<1>1. req[p] \in Request /\ ArgumentsOK(req[p])
  BY DEF Shape, TypeOK
<1>2. req[p].sock \in Socket
  BY <1>1 DEF ChangeSocketRow, ArgumentsOK, SocketStages, ChangeSocketStages
<1>3. sock[req[p].sock].status \in SocketStatus
  BY <1>2 DEF Shape, TypeOK, SocketRow
<1>4. r \in Request
  BY <1>1, <1>3 DEF Request, Stage
<1>5. r = [req[p] EXCEPT !.at = "socket.commit", !.status = r.status]
  BY <1>1 DEF Request
<1>6. Found(r)
  BY <1>1 DEF Shape, RowsOK, Found, PlaceStages, Request, ChangeSocketRow, SocketStages, ChangeSocketStages
<1> HIDE DEF r
<1>7. ArgumentsOK(r)
  BY <1>1, <1>5 DEF ChangeSocketRow, Request, ArgumentsOK, DeviceStages, RackStages,
           PduStages, SocketStages, ConnectStages, DisconnectStages, PlaceStages,
           SubmitStages, ChangeSocketStages
<1>8. CASE TakeRow(p, req[p].sock, r) /\ UNCHANGED tables
  BY <1>4, <1>6, <1>7, <1>8, TakeRowShape
<1>9. CASE Rollback(p)
  BY <1>9, RollbackShape
<1> QED BY <1>8, <1>9 DEF ChangeSocketRow, r

LEMMA ConnectPduShape ==
  ASSUME Shape, NEW p \in Proc,
         ConnectPdu(p)
  PROVE  Shape'
<1> DEFINE r == [req[p] EXCEPT !.at = "connect.socket"]
<1>1. req[p] \in Request /\ ArgumentsOK(req[p])
  BY DEF Shape, TypeOK
<1>2. r \in Request /\ ArgumentsOK(r)
  BY <1>1 DEF Request, Stage, ConnectPdu,
           ArgumentsOK, DeviceStages, RackStages, PduStages, SocketStages,
           ConnectStages, DisconnectStages, PlaceStages, SubmitStages, ChangeSocketStages
<1>3. Found(r)
  BY <1>1 DEF Shape, RowsOK, Found, PlaceStages, Request, ConnectPdu, SocketStages, ConnectStages,
           DisconnectStages, ChangeSocketStages
<1>4. CASE TakeRow(p, sock[req[p].sock].pdu, r) /\ UNCHANGED tables
  <2> HIDE DEF r
  <2> QED BY <1>2, <1>3, <1>4, TakeRowShape
<1>5. CASE Rollback(p)
  BY <1>5, RollbackShape
<1> QED BY <1>4, <1>5 DEF ConnectPdu

LEMMA ConnectSocketShape ==
  ASSUME Shape, NEW p \in Proc,
         ConnectSocket(p)
  PROVE  Shape'
<1> DEFINE r == [req[p] EXCEPT !.at = "connect.commit"]
<1>1. req[p] \in Request /\ ArgumentsOK(req[p])
  BY DEF Shape, TypeOK
<1>2. r \in Request /\ ArgumentsOK(r)
  BY <1>1 DEF Request, Stage, ConnectSocket,
           ArgumentsOK, DeviceStages, RackStages, PduStages, SocketStages,
           ConnectStages, DisconnectStages, PlaceStages, SubmitStages, ChangeSocketStages
<1>3. Found(r)
  BY <1>1 DEF Shape, RowsOK, Found, PlaceStages, Request, ConnectSocket, SocketStages, ConnectStages,
           DisconnectStages, ChangeSocketStages
<1>4. CASE TakeRow(p, req[p].sock, r) /\ UNCHANGED tables
  <2> HIDE DEF r
  <2> QED BY <1>2, <1>3, <1>4, TakeRowShape
<1>5. CASE Rollback(p)
  BY <1>5, RollbackShape
<1> QED BY <1>4, <1>5 DEF ConnectSocket

LEMMA DisconnectPduShape ==
  ASSUME Shape, NEW p \in Proc,
         DisconnectPdu(p)
  PROVE  Shape'
<1> DEFINE r == [req[p] EXCEPT !.at = "disconnect.socket"]
<1>1. req[p] \in Request /\ ArgumentsOK(req[p])
  BY DEF Shape, TypeOK
<1>2. r \in Request /\ ArgumentsOK(r)
  BY <1>1 DEF Request, Stage, DisconnectPdu,
           ArgumentsOK, DeviceStages, RackStages, PduStages, SocketStages,
           ConnectStages, DisconnectStages, PlaceStages, SubmitStages, ChangeSocketStages
<1>3. Found(r)
  BY <1>1 DEF Shape, RowsOK, Found, PlaceStages, Request, DisconnectPdu, SocketStages, ConnectStages,
           DisconnectStages, ChangeSocketStages
<1>4. CASE TakeRow(p, sock[req[p].sock].pdu, r) /\ UNCHANGED tables
  <2> HIDE DEF r
  <2> QED BY <1>2, <1>3, <1>4, TakeRowShape
<1>5. CASE Rollback(p)
  BY <1>5, RollbackShape
<1> QED BY <1>4, <1>5 DEF DisconnectPdu

LEMMA DisconnectSocketShape ==
  ASSUME Shape, NEW p \in Proc,
         DisconnectSocket(p)
  PROVE  Shape'
<1> DEFINE r == [req[p] EXCEPT !.at = "disconnect.commit"]
<1>1. req[p] \in Request /\ ArgumentsOK(req[p])
  BY DEF Shape, TypeOK
<1>2. r \in Request /\ ArgumentsOK(r)
  BY <1>1 DEF Request, Stage, DisconnectSocket,
           ArgumentsOK, DeviceStages, RackStages, PduStages, SocketStages,
           ConnectStages, DisconnectStages, PlaceStages, SubmitStages, ChangeSocketStages
<1>3. Found(r)
  BY <1>1 DEF Shape, RowsOK, Found, PlaceStages, Request, DisconnectSocket, SocketStages, ConnectStages,
           DisconnectStages, ChangeSocketStages
<1>4. CASE TakeRow(p, req[p].sock, r) /\ UNCHANGED tables
  <2> HIDE DEF r
  <2> QED BY <1>2, <1>3, <1>4, TakeRowShape
<1>5. CASE Rollback(p)
  BY <1>5, RollbackShape
<1> QED BY <1>4, <1>5 DEF DisconnectSocket

LEMMA SubmitPositionShape ==
  ASSUME Shape, NEW p \in Proc,
         SubmitPosition(p)
  PROVE  Shape'
<1> PICK source \in {pos[req[p].dev], NoPlace} :
         Begin(p, [req[p] EXCEPT !.at = "submit.insert", !.from = source])
  BY DEF SubmitPosition
<1> DEFINE r == [req[p] EXCEPT !.at = "submit.insert", !.from = source]
<1>0. source \in Place
  BY DEF SubmitPosition, Shape, TypeOK, ArgumentsOK, DeviceStages, SubmitStages, Place, NoPlace
<1>1. req[p] \in Request /\ ArgumentsOK(req[p])
  BY DEF Shape, TypeOK
<1>2. r \in Request /\ ArgumentsOK(r)
  BY <1>0, <1>1 DEF Request, Stage, SubmitPosition, Shape, TypeOK,
           ArgumentsOK, DeviceStages, RackStages, PduStages, SocketStages,
           ConnectStages, DisconnectStages, PlaceStages, SubmitStages, ChangeSocketStages
<1>3. Found(r)
  BY <1>1 DEF Request, SubmitPosition, Shape, RowsOK, Found, SocketStages, ConnectStages,
           DisconnectStages, ChangeSocketStages, PlaceStages
<1>4. CASE Begin(p, r) /\ UNCHANGED tables
  <2> HIDE DEF r
  <2> QED BY <1>2, <1>3, <1>4, TakeRowShape
<1> QED BY <1>4 DEF SubmitPosition

-----------------------------------------------------------------------------
(* Writes *)

\* The rows of the tables have their types.
TablesTyped ==
  /\ device \in [Device -> DeviceRow] /\ rack \in [Rack -> RackRow]
  /\ pos \in [Device -> Place] /\ hist \in [Device -> Seq(HistoryRow)]
  /\ pdu \in [Pdu -> PduRow] /\ sock \in [Socket -> SocketRow] /\ conn \in [Conn -> ConnRow]
  /\ ticket \in [Ticket -> TicketRow] /\ policy \in [{"ASSIGN", "MOVE"} -> BOOLEAN]

LEMMA ConstantsTyped ==
  /\ "live" \in Existence /\ "deleted" \in Existence
  /\ "RUNNING" \in Lifecycle /\ "OFF_RACK" \in Lifecycle
  /\ "AVAILABLE" \in SocketStatus /\ "CONNECTED" \in SocketStatus
  /\ NoPlace \in Place
BY DEF Existence, Lifecycle, SocketStatus, NoPlace, Place

\* Rows stay rows when a field is overwritten.
LEMMA SocketRowWritten ==
  ASSUME NEW row \in SocketRow
  PROVE  /\ \A v \in SocketStatus : [row EXCEPT !.status = v] \in SocketRow
         /\ [row EXCEPT !.st = "deleted"] \in SocketRow
BY ConstantsTyped DEF SocketRow

LEMMA ConnRowWritten ==
  ASSUME NEW row \in ConnRow
  PROVE  [row EXCEPT !.st = "deleted"] \in ConnRow
BY ConstantsTyped DEF ConnRow

LEMMA TicketRowWritten ==
  ASSUME NEW row \in TicketRow
  PROVE  /\ [row EXCEPT !.st = "APPROVED"] \in TicketRow
         /\ [row EXCEPT !.st = "REJECTED"] \in TicketRow
BY DEF TicketRow

LEMMA ShapeTables == Shape => TablesTyped /\ ForeignKeys
BY DEF Shape, TypeOK, RowsOK, TablesTyped

\* A statement that writes, and ends its transaction or runs outside of one, keeps Shape
\* if what it writes is well formed and it takes away no row.
LEMMA WriteShape ==
  ASSUME Shape, (\E p \in Proc : EndTx(p) \/ Begin(p, Idle)) \/ UNCHANGED <<lock, req>>,
         TablesTyped', ForeignKeys',
         \A s \in Socket : sock[s].st # "none" => sock'[s].st # "none",
         \A t \in Ticket : ticket[t].st # "none" => ticket'[t].st # "none",
         \A u \in Pdu : pdu[u].st # "none" => pdu'[u].st # "none"
  PROVE  Shape'
<1>1. /\ lock' \in [Row -> Proc \cup {None}] /\ req' \in [Proc -> Request]
      /\ \A q \in Proc : req'[q] = req[q] \/ req'[q] = Idle
  BY EndTxShape, IdleShape DEF Begin, Shape, TypeOK
<1>2. \A q \in Proc : ArgumentsOK(req'[q])
  BY <1>1, IdleShape DEF Shape
<1>3. TypeOK'
  BY <1>1 DEF TypeOK, TablesTyped
<1>4. ASSUME NEW q \in Proc PROVE Found(req[q])'
  <2>1. CASE req'[q] = Idle
    BY <2>1, IdleShape DEF Idle, Found, SocketStages, ConnectStages, DisconnectStages,
           ChangeSocketStages, PlaceStages
  <2>2. CASE req'[q] = req[q]
    <3>1. /\ req[q] \in Request /\ Found(req[q])
          /\ req[q].at \in SocketStages => req[q].sock \in Socket
          /\ req[q].at \in {"pdu.delete", "pdu.archive"} => req[q].pdu \in Pdu
      BY DEF Shape, TypeOK, RowsOK, ArgumentsOK, PduStages
    <3>2. req[q].ticket \in Ticket \cup {None}
      BY <3>1 DEF Request
    <3> QED BY <2>2, <3>1, <3>2 DEF Found
  <2> QED BY <1>1, <2>1, <2>2
<1> QED BY <1>2, <1>3, <1>4 DEF Shape, RowsOK

LEMMA CreateDeviceShape ==
  ASSUME Shape, NEW d \in Device, NEW h \in Heights, NEW life \in Lives,
         CreateDevice(d, h, life)
  PROVE  Shape'
<1>1. [st |-> "live", ver |-> 1, life |-> life, height |-> h] \in DeviceRow
  BY InputAssumption DEF DeviceRow, Existence
<1>2. TablesTyped' /\ ForeignKeys'
  BY <1>1, ShapeTables DEF CreateDevice, TablesTyped, ForeignKeys
<1> QED BY <1>2, WriteShape DEF CreateDevice

LEMMA CreateRackShape ==
  ASSUME Shape, NEW r \in Rack, NEW h \in UHeights, NEW s \in Statuses,
         CreateRack(r, h, s)
  PROVE  Shape'
<1>1. [st |-> "live", status |-> s, uHeight |-> h] \in RackRow
  BY InputAssumption DEF RackRow, Existence
<1>2. TablesTyped' /\ ForeignKeys'
  BY <1>1, ShapeTables DEF CreateRack, TablesTyped, ForeignKeys
<1> QED BY <1>2, WriteShape DEF CreateRack

LEMMA UpdateRackShape ==
  ASSUME Shape, NEW r \in Rack, NEW h \in UHeights, NEW s \in Statuses,
         UpdateRack(r, h, s)
  PROVE  Shape'
<1>1. [rack[r] EXCEPT !.status = s, !.uHeight = h] \in RackRow
  BY InputAssumption DEF RackRow, Shape, TypeOK
<1>2. TablesTyped' /\ ForeignKeys'
  BY <1>1, ShapeTables DEF UpdateRack, TablesTyped, ForeignKeys
<1> QED BY <1>2, WriteShape DEF UpdateRack

LEMMA UpdatePolicyShape ==
  ASSUME Shape, NEW op \in Operation, NEW on \in BOOLEAN,
         UpdatePolicy(op, on)
  PROVE  Shape'
<1>1. TablesTyped' /\ ForeignKeys'
  BY ShapeTables DEF UpdatePolicy, TablesTyped, ForeignKeys
<1> QED BY <1>1, WriteShape DEF UpdatePolicy

LEMMA RejectShape ==
  ASSUME Shape, NEW t \in Ticket,
         Reject(t)
  PROVE  Shape'
<1>1. [ticket[t] EXCEPT !.st = "REJECTED"] \in TicketRow
  BY ShapeTables, TicketRowWritten DEF TablesTyped
<1>2. TablesTyped' /\ ForeignKeys'
  BY <1>1, ShapeTables DEF Reject, TablesTyped, ForeignKeys
<1> QED BY <1>2, WriteShape DEF Reject

\* Every write of a device row bumps its version.
LEMMA DeviceWriteTyped ==
  ASSUME Shape, NEW d \in Device
  PROVE  /\ \A h \in Int : [device[d] EXCEPT !.height = h, !.ver = @ + 1] \in DeviceRow
         /\ [device[d] EXCEPT !.st = "deleted", !.ver = @ + 1] \in DeviceRow
         /\ \A life \in Lifecycle : WithLife(device[d], life) \in DeviceRow
<1> DEFINE row == device[d]
           v == row.ver + 1
<1>1. row \in DeviceRow /\ v \in Nat
  BY ShapeTables DEF TablesTyped, DeviceRow
<1> HIDE DEF v, row
<1>2. /\ \A h \in Int : [row EXCEPT !.height = h, !.ver = v] \in DeviceRow
      /\ [row EXCEPT !.st = "deleted", !.ver = v] \in DeviceRow
      /\ \A life \in Lifecycle : [row EXCEPT !.life = life, !.ver = v] \in DeviceRow
  BY <1>1, ConstantsTyped DEF DeviceRow
<1> QED BY <1>2 DEF v, row, WithLife

LEMMA JournalTyped ==
  ASSUME Shape, NEW d \in Device, NEW op \in {"ASSIGN", "MOVE", "DECOMMISSION"}, NEW to \in Place
  PROVE  Journal(d, op, to) \in Seq(HistoryRow)
<1> DEFINE e == [op |-> op, from |-> pos[d], to |-> to]
<1>1. e \in HistoryRow
  BY ShapeTables DEF TablesTyped, HistoryRow
<1>2. hist[d] \in Seq(HistoryRow)
  BY ShapeTables DEF TablesTyped
<1>3. Journal(d, op, to) = Append(hist[d], e)
  BY DEF Journal
<1> HIDE DEF e
<1> QED BY <1>1, <1>2, <1>3

LEMMA UpdateDeviceWriteShape ==
  ASSUME Shape, NEW p \in Proc,
         UpdateDeviceWrite(p)
  PROVE  Shape'
<1>1. req[p] \in Request /\ req[p].dev \in Device
  BY DEF UpdateDeviceWrite, Shape, TypeOK, ArgumentsOK, DeviceStages, PlaceStages, SubmitStages
<1>2. [device[req[p].dev] EXCEPT !.height = req[p].height, !.ver = @ + 1] \in DeviceRow
  BY <1>1, ShapeTables, DeviceWriteTyped, ConstantsTyped DEF TablesTyped, Request
<1>3. TablesTyped'
  BY <1>1, <1>2, ShapeTables DEF UpdateDeviceWrite, TablesTyped
<1>4. ForeignKeys'
  BY <1>1, <1>2, ShapeTables DEF UpdateDeviceWrite, ForeignKeys
<1> QED BY <1>1, <1>2, <1>3, <1>4, WriteShape DEF UpdateDeviceWrite

LEMMA DeleteDeviceWriteShape ==
  ASSUME Shape, NEW p \in Proc,
         DeleteDeviceWrite(p)
  PROVE  Shape'
<1>1. req[p] \in Request /\ req[p].dev \in Device
  BY DEF DeleteDeviceWrite, Shape, TypeOK, ArgumentsOK, DeviceStages, PlaceStages, SubmitStages
<1>2. [device[req[p].dev] EXCEPT !.st = "deleted", !.ver = @ + 1] \in DeviceRow
  BY <1>1, ShapeTables, DeviceWriteTyped, ConstantsTyped DEF TablesTyped
<1>3. TablesTyped'
  BY <1>1, <1>2, ShapeTables DEF DeleteDeviceWrite, TablesTyped
<1>4. ForeignKeys'
  BY <1>1, <1>2, ShapeTables DEF DeleteDeviceWrite, ForeignKeys
<1> QED BY <1>1, <1>2, <1>3, <1>4, WriteShape DEF DeleteDeviceWrite

LEMMA SubmitInsertShape ==
  ASSUME Shape, NEW p \in Proc,
         SubmitInsert(p)
  PROVE  Shape'
<1>1. req[p] \in Request /\ req[p].dev \in Device /\ req[p].rack \in Rack /\ req[p].op \in Operation
  BY DEF SubmitInsert, Shape, TypeOK, ArgumentsOK, DeviceStages, RackStages, SubmitStages
<1>2. [st |-> "PENDING", op |-> req[p].op, dev |-> req[p].dev, ver |-> req[p].ver,
      height |-> req[p].height, from |-> req[p].from, was |-> req[p].was, rack |-> req[p].rack,
      startU |-> req[p].startU] \in TicketRow
  BY <1>1 DEF Request, TicketRow, Operation
<1>3. TablesTyped'
  BY <1>1, <1>2, ShapeTables DEF SubmitInsert, TablesTyped
<1>4. ForeignKeys'
  BY <1>1, <1>2, ShapeTables DEF SubmitInsert, ForeignKeys
<1> QED BY <1>1, <1>2, <1>3, <1>4, WriteShape DEF SubmitInsert

LEMMA PlaceCommitShape ==
  ASSUME Shape, NEW p \in Proc,
         PlaceCommit(p)
  PROVE  Shape'
<1>1. req[p] \in Request /\ req[p].dev \in Device /\ req[p].rack \in Rack /\ req[p].op \in Operation
  BY DEF PlaceCommit, Shape, TypeOK, ArgumentsOK, DeviceStages, RackStages, PlaceStages
<1>2. Target(req[p]) \in Place
  BY <1>1 DEF Request, Target, PlaceAt, Place
<1>3. WithLife(device[req[p].dev], "RUNNING") \in DeviceRow
  BY <1>1, ShapeTables, DeviceWriteTyped, ConstantsTyped DEF TablesTyped
<1>4. Journal(req[p].dev, req[p].op, Target(req[p])) \in Seq(HistoryRow)
  BY <1>1, <1>2, JournalTyped DEF Operation
<1>5. \A t \in Ticket : [ticket[t] EXCEPT !.st = "APPROVED"] \in TicketRow
  BY ShapeTables, TicketRowWritten DEF TablesTyped
<1>6. TablesTyped'
  BY <1>1, <1>2, <1>3, <1>4, <1>5, ShapeTables DEF PlaceCommit, TablesTyped
<1>7. ForeignKeys'
  <2>1. \A t \in Ticket : /\ ticket'[t].st # "none" => ticket[t].st # "none" \/ t = req[p].ticket
                         /\ ticket'[t].dev = ticket[t].dev /\ ticket'[t].rack = ticket[t].rack
                         /\ ticket'[t].op = ticket[t].op
    <3>1. ticket \in [Ticket -> TicketRow]
      BY ShapeTables DEF TablesTyped
    <3> QED BY <3>1 DEF PlaceCommit, TicketRow
  <2>2. req[p].ticket # None => ticket[req[p].ticket].st # "none"
    BY DEF PlaceCommit, Shape, RowsOK, Found, PlaceStages
  <2> QED BY <2>1, <2>2, ShapeTables DEF PlaceCommit, ForeignKeys
<1> QED BY <1>1, <1>2, <1>3, <1>4, <1>5, <1>6, <1>7, WriteShape DEF PlaceCommit

LEMMA DecommissionCommitShape ==
  ASSUME Shape, NEW p \in Proc,
         DecommissionCommit(p)
  PROVE  Shape'
<1>1. req[p] \in Request /\ req[p].dev \in Device
  BY DEF DecommissionCommit, Shape, TypeOK, ArgumentsOK, DeviceStages, PlaceStages, SubmitStages
<1>2. NoPlace \in Place
  BY ConstantsTyped
<1>3. WithLife(device[req[p].dev], "OFF_RACK") \in DeviceRow
  BY <1>1, ShapeTables, DeviceWriteTyped, ConstantsTyped DEF TablesTyped
<1>4. Journal(req[p].dev, "DECOMMISSION", NoPlace) \in Seq(HistoryRow)
  BY <1>1, <1>2, JournalTyped
<1>5. TablesTyped'
  BY <1>1, <1>2, <1>3, <1>4, ShapeTables DEF DecommissionCommit, TablesTyped
<1>6. ForeignKeys'
  BY <1>1, <1>2, <1>3, <1>4, ShapeTables DEF DecommissionCommit, ForeignKeys
<1> QED BY <1>1, <1>2, <1>3, <1>4, <1>5, <1>6, WriteShape DEF DecommissionCommit

LEMMA DeleteRackCommitShape ==
  ASSUME Shape, NEW p \in Proc,
         DeleteRackCommit(p)
  PROVE  Shape'
<1>1. req[p].rack \in Rack /\ [rack[req[p].rack] EXCEPT !.st = "deleted"] \in RackRow
  BY DEF DeleteRackCommit, Shape, TypeOK, ArgumentsOK, RackStages, RackRow, Existence
<1>2. TablesTyped'
  BY <1>1, ShapeTables DEF DeleteRackCommit, TablesTyped
<1>3. ForeignKeys'
  BY <1>1, ShapeTables DEF DeleteRackCommit, ForeignKeys
<1> QED BY <1>1, <1>2, <1>3, WriteShape DEF DeleteRackCommit

LEMMA CreatePduCommitShape ==
  ASSUME Shape, NEW p \in Proc,
         CreatePduCommit(p)
  PROVE  Shape'
<1>1. req[p].rack \in Rack /\ req[p].pdu \in Pdu
  BY DEF CreatePduCommit, Shape, ArgumentsOK, RackStages, PduStages
<1>2. [st |-> "live", rack |-> req[p].rack] \in PduRow
  BY <1>1, ConstantsTyped DEF PduRow
<1>3. TablesTyped'
  BY <1>1, <1>2, ShapeTables DEF CreatePduCommit, TablesTyped
<1>4. ForeignKeys'
  BY <1>1, <1>2, ShapeTables DEF CreatePduCommit, ForeignKeys
<1> QED BY <1>1, <1>2, <1>3, <1>4, WriteShape DEF CreatePduCommit

LEMMA RetiredTyped ==
  ASSUME Shape, NEW u \in Pdu
  PROVE  PduGone(u) \in [Pdu -> PduRow] /\ SocketsGone(u) \in [Socket -> SocketRow]
<1>1. [pdu[u] EXCEPT !.st = "deleted"] \in PduRow
  BY ShapeTables, ConstantsTyped DEF TablesTyped, PduRow
<1>2. \A s \in Socket : [sock[s] EXCEPT !.st = "deleted"] \in SocketRow
  BY ShapeTables, ConstantsTyped DEF TablesTyped, SocketRow
<1> QED BY <1>1, <1>2 DEF PduGone, SocketsGone, Shape, TypeOK

LEMMA SocketsKept ==
  ASSUME Shape, NEW u \in Pdu, NEW s \in Socket
  PROVE  /\ SocketsGone(u)[s].pdu = sock[s].pdu
         /\ SocketsGone(u)[s].st = "none" <=> sock[s].st = "none"
BY ShapeTables DEF TablesTyped, SocketRow, SocketsGone, SocketsOfPdu, LiveSocket

LEMMA DeletePduCommitShape ==
  ASSUME Shape, NEW p \in Proc,
         DeletePduCommit(p)
  PROVE  Shape'
<1>1. req[p].pdu \in Pdu /\ pdu[req[p].pdu].st # "none"
  BY DEF DeletePduCommit, Shape, RowsOK, Found, ArgumentsOK, PduStages
<1>2. PduGone(req[p].pdu) \in [Pdu -> PduRow] /\ SocketsGone(req[p].pdu) \in [Socket -> SocketRow]
  BY <1>1, RetiredTyped
<1>3. TablesTyped'
  BY <1>1, <1>2, ShapeTables DEF DeletePduCommit, TablesTyped
<1>4. ForeignKeys'
  <2>1. \A u \in Pdu : pdu'[u].rack = pdu[u].rack /\ (pdu'[u].st # "none" => pdu[u].st # "none")
    BY <1>1, ShapeTables DEF PduGone, TablesTyped, PduRow, DeletePduCommit
  <2> QED BY <1>1, <2>1, SocketsKept, ShapeTables DEF DeletePduCommit, ForeignKeys, PduGone
<1> QED BY <1>1, SocketsKept, <1>3, <1>4, WriteShape DEF DeletePduCommit, PduGone

LEMMA ArchivePduCommitShape ==
  ASSUME Shape, NEW p \in Proc,
         ArchivePduCommit(p)
  PROVE  Shape'
<1>1. req[p].pdu \in Pdu /\ pdu[req[p].pdu].st # "none"
  BY DEF ArchivePduCommit, Shape, RowsOK, Found, ArgumentsOK, PduStages
<1>2. PduGone(req[p].pdu) \in [Pdu -> PduRow] /\ SocketsGone(req[p].pdu) \in [Socket -> SocketRow]
  BY <1>1, RetiredTyped
<1>3. \A c \in Conn : [conn[c] EXCEPT !.st = "deleted"] \in ConnRow
  BY ShapeTables, ConnRowWritten DEF TablesTyped
<1>4. TablesTyped'
  BY <1>1, <1>2, <1>3, ShapeTables DEF ArchivePduCommit, TablesTyped
<1>5. ForeignKeys'
  <2>1. \A u \in Pdu : pdu'[u].rack = pdu[u].rack /\ (pdu'[u].st # "none" => pdu[u].st # "none")
    BY <1>1, ShapeTables DEF PduGone, TablesTyped, PduRow, ArchivePduCommit
  <2> QED BY <1>1, <2>1, SocketsKept, ShapeTables DEF ArchivePduCommit, ForeignKeys, PduGone, ArchivedConns, LiveConns
<1> QED BY <1>1, SocketsKept, <1>4, <1>5, WriteShape DEF ArchivePduCommit, PduGone

LEMMA CreateSocketCommitShape ==
  ASSUME Shape, NEW p \in Proc,
         CreateSocketCommit(p)
  PROVE  Shape'
<1>1. req[p].sock \in Socket /\ req[p].pdu \in Pdu
  BY DEF CreateSocketCommit, Shape, ArgumentsOK, PduStages
<1>2. [st |-> "live", pdu |-> req[p].pdu, status |-> "AVAILABLE"] \in SocketRow
  BY <1>1, ConstantsTyped DEF SocketRow
<1>3. TablesTyped'
  BY <1>1, <1>2, ShapeTables DEF CreateSocketCommit, TablesTyped
<1>4. ForeignKeys'
  BY <1>1, <1>2, ShapeTables DEF CreateSocketCommit, ForeignKeys
<1> QED BY <1>1, <1>2, <1>3, <1>4, WriteShape DEF CreateSocketCommit

LEMMA ChangeSocketCommitShape ==
  ASSUME Shape, NEW p \in Proc,
         ChangeSocketCommit(p)
  PROVE  Shape'
<1>1. req[p] \in Request /\ req[p].sock \in Socket /\ sock[req[p].sock].st # "none"
  BY DEF ChangeSocketCommit, Shape, TypeOK, RowsOK, Found, ArgumentsOK, SocketStages, ConnectStages, DisconnectStages, ChangeSocketStages
<1>2. /\ [sock[req[p].sock] EXCEPT !.status = req[p].status] \in SocketRow
      /\ [sock[req[p].sock] EXCEPT !.st = "deleted"] \in SocketRow
  <2>1. req[p].status \in SocketStatus
    BY <1>1 DEF Request
  <2>2. sock[req[p].sock] \in SocketRow
    BY <1>1, ShapeTables DEF TablesTyped
  <2> QED BY <2>1, <2>2, SocketRowWritten
<1>3. TablesTyped'
  BY <1>1, <1>2, ShapeTables DEF ChangeSocketCommit, TablesTyped
<1>4. ForeignKeys'
  BY <1>1, <1>2, ShapeTables DEF ChangeSocketCommit, ForeignKeys
<1> QED BY <1>1, <1>2, <1>3, <1>4, WriteShape DEF ChangeSocketCommit

LEMMA ConnectCommitShape ==
  ASSUME Shape, NEW p \in Proc,
         ConnectCommit(p)
  PROVE  Shape'
<1>1. req[p] \in Request /\ req[p].sock \in Socket /\ sock[req[p].sock].st # "none"
      /\ req[p].conn \in Conn /\ req[p].dev \in Device
  BY DEF ConnectCommit, Shape, TypeOK, RowsOK, Found, ArgumentsOK, DeviceStages, SocketStages, ConnectStages, DisconnectStages, ChangeSocketStages
<1>2. /\ [sock[req[p].sock] EXCEPT !.status = "CONNECTED"] \in SocketRow
      /\ [st |-> "live", sock |-> req[p].sock, dev |-> req[p].dev, role |-> req[p].role] \in ConnRow
  <2>1. req[p].role \in Role \cup {None}
    BY <1>1 DEF Request
  <2>2. sock[req[p].sock] \in SocketRow
    BY <1>1, ShapeTables DEF TablesTyped
  <2>3. [st |-> "live", sock |-> req[p].sock, dev |-> req[p].dev, role |-> req[p].role] \in ConnRow
    BY <1>1, <2>1, ConstantsTyped DEF ConnRow
  <2> QED BY <2>2, <2>3, SocketRowWritten, ConstantsTyped
<1>3. TablesTyped'
  BY <1>1, <1>2, ShapeTables DEF ConnectCommit, TablesTyped
<1>4. ForeignKeys'
  BY <1>1, <1>2, ShapeTables DEF ConnectCommit, ForeignKeys
<1> QED BY <1>1, <1>2, <1>3, <1>4, WriteShape DEF ConnectCommit

LEMMA DisconnectCommitShape ==
  ASSUME Shape, NEW p \in Proc,
         DisconnectCommit(p)
  PROVE  Shape'
<1>1. req[p] \in Request /\ req[p].sock \in Socket /\ sock[req[p].sock].st # "none"
      /\ req[p].conn \in LiveConns
  BY DEF DisconnectCommit, Shape, TypeOK, RowsOK, Found, ArgumentsOK, SocketStages, ConnectStages, DisconnectStages, ChangeSocketStages
<1>2. /\ [sock[req[p].sock] EXCEPT !.status = "AVAILABLE"] \in SocketRow
      /\ [conn[req[p].conn] EXCEPT !.st = "deleted"] \in ConnRow
  <2>1. sock[req[p].sock] \in SocketRow /\ conn[req[p].conn] \in ConnRow
    BY <1>1, ShapeTables DEF TablesTyped, LiveConns
  <2> QED BY <2>1, SocketRowWritten, ConnRowWritten, ConstantsTyped
<1>3. TablesTyped'
  BY <1>1, <1>2, ShapeTables DEF DisconnectCommit, TablesTyped
<1>4. ForeignKeys'
  <2>1. \A x \in Socket : sock'[x].st = sock[x].st /\ sock'[x].pdu = sock[x].pdu
    BY <1>1, ShapeTables DEF DisconnectCommit, TablesTyped, SocketRow
  <2>2. \A c \in Conn : /\ conn'[c].st # "none" => conn[c].st # "none"
                        /\ conn'[c].sock = conn[c].sock /\ conn'[c].dev = conn[c].dev
    BY <1>1, ShapeTables DEF DisconnectCommit, TablesTyped, ConnRow, LiveConns
  <2>3. ForeignKeys /\ UNCHANGED <<pdu, ticket>>
    BY ShapeTables DEF DisconnectCommit
  <2> QED BY <2>1, <2>2, <2>3 DEF ForeignKeys
<1> QED BY <1>1, <1>2, <1>3, <1>4, WriteShape DEF DisconnectCommit, LiveConns

-----------------------------------------------------------------------------
(* The whole *)

LEMMA PlacementShape ==
  ASSUME Shape, PlacementCall \/ \E p \in Proc : PlacementStep(p)
  PROVE  Shape'
<1>1. CASE PlacementCall
  BY <1>1, CreateDeviceShape, CreateRackShape, UpdateRackShape, UpdateDeviceReadShape,
     DeleteDeviceCheckShape, RequestPlaceShape, DecommissionDeviceShape, DeleteRackCheckShape
     DEF PlacementCall
<1>2. ASSUME NEW p \in Proc, PlacementStep(p) PROVE Shape'
  BY <1>2, UpdateDevicePositionShape, UpdateDeviceWriteShape, DeleteDeviceWriteShape,
     PlaceDeviceShape, PlaceRackShape, PlaceCommitShape, DecommissionCommitShape,
     DeleteRackCommitShape
     DEF PlacementStep
<1> QED BY <1>1, <1>2

LEMMA PowerShape ==
  ASSUME Shape, PowerCall \/ \E p \in Proc : PowerStep(p)
  PROVE  Shape'
<1>1. ASSUME NEW p \in Proc, NEW u \in Pdu, NEW n \in 0 .. Cardinality(Conn), ArchivePduCheck(p, u, n)
      PROVE  Shape'
  <2>1. n \in Nat
    BY <1>1 DEF ArchivePduCheck
  <2> QED BY <1>1, <2>1, ArchivePduCheckShape
<1>2. CASE PowerCall
  BY <1>1, <1>2, CreatePduRackShape, DeletePduCheckShape, CreateSocketPduShape,
     ChangeSocketPduShape, ConnectDeviceShape, RequestDisconnectShape
     DEF PowerCall
<1>3. ASSUME NEW p \in Proc, PowerStep(p) PROVE Shape'
  BY <1>3, CreatePduCommitShape, DeletePduCommitShape, ArchivePduCommitShape,
     CreateSocketCommitShape, ChangeSocketRowShape, ChangeSocketCommitShape, ConnectPduShape,
     ConnectSocketShape, ConnectCommitShape, DisconnectPduShape, DisconnectSocketShape,
     DisconnectCommitShape, RollbackShape
     DEF PowerStep, DisconnectConflict
<1> QED BY <1>2, <1>3

LEMMA ApprovalShape ==
  ASSUME Shape, ApprovalCall \/ \E p \in Proc : ApprovalStep(p)
  PROVE  Shape'
<1>1. CASE ApprovalCall
  BY <1>1, UpdatePolicyShape, RejectShape, RequestApprovalShape, ApproveShape DEF ApprovalCall
<1>2. ASSUME NEW p \in Proc, ApprovalStep(p) PROVE Shape'
  BY <1>2, SubmitPositionShape, SubmitInsertShape DEF ApprovalStep
<1> QED BY <1>1, <1>2

LEMMA ShapeNext == Shape /\ [Next]_vars => Shape'
<1> SUFFICES ASSUME Shape, [Next]_vars PROVE Shape'
  OBVIOUS
<1>1. CASE Call
  BY <1>1, PlacementShape, PowerShape, ApprovalShape DEF Call
<1>2. ASSUME NEW p \in Proc, Step(p) PROVE Shape'
  BY <1>2, PlacementShape, PowerShape, ApprovalShape DEF Step
<1>3. ASSUME NEW p \in Proc, Crash(p) PROVE Shape'
  BY <1>3, RollbackShape DEF Crash
<1>4. CASE UNCHANGED vars
  BY <1>4 DEF vars, Shape, TypeOK, RowsOK, ForeignKeys, Found
<1> QED BY <1>1, <1>2, <1>3, <1>4 DEF Next

\* Requests and rows are well formed in every reachable state: a request has the
\* arguments its stage needs, every foreign key of a written row leads to a row, and the
\* rows a request has found are still there, deleted or not, when it uses them.
THEOREM ShapeInvariant == Spec => []Shape
BY InitShape, ShapeNext, PTL DEF Spec

\* Every variable has its type in every reachable state, for any sets of processes and
\* rows: no handler writes a value its table does not take.
THEOREM TypeCorrect == Spec => []TypeOK
<1>1. Shape => TypeOK
  BY DEF Shape
<1> QED BY <1>1, ShapeInvariant, PTL

-----------------------------------------------------------------------------
(* The frame *)

\* A step of p leaves the other requests and the locks they hold alone.
OthersKept(p) ==
  \A o \in Proc \ {p} :
    req'[o] = req[o] /\ \A x \in Row : lock[x] = o => lock'[x] = o

\* The steps by which a request of p gets to the stages the guards are about.
Arrives(p) ==
  /\ req'[p].at = "place.commit" => PlaceRack(p)
  /\ req'[p].at \in PlaceStages =>
       \/ \E op \in Operation, d \in Device, r \in Rack, u \in StartUs : RequestPlace(p, op, d, r, u)
       \/ \E t \in Ticket : Approve(p, t)
       \/ PlaceDevice(p) \/ PlaceRack(p)
  /\ req'[p].at \in ConnectStages =>
       \/ \E c \in Conn, s \in Socket, d \in Device, role \in Role : ConnectDevice(p, c, s, d, role)
       \/ ConnectPdu(p) \/ ConnectSocket(p)
  /\ req'[p].at \in SubmitStages =>
       \/ \E t \in Ticket, op \in Operation, d \in Device, r \in Rack, u \in StartUs :
            RequestApproval(p, t, op, d, r, u)
       \/ SubmitPosition(p)

\* The steps by which p writes a position, a connection or an approval.
Writes(p) ==
  /\ UNCHANGED <<pos, hist>> \/ PlaceCommit(p) \/ DecommissionCommit(p)
  /\ \/ \A c \in Conn : conn'[c].st = "live" => conn'[c] = conn[c]
     \/ ConnectCommit(p)
  /\ UNCHANGED ticket \/ PlaceCommit(p) \/ SubmitInsert(p)

StepOf(p) == OthersKept(p) /\ Arrives(p) /\ Writes(p)

LEMMA BeginKept ==
  ASSUME Shape, NEW p \in Proc, NEW r, Begin(p, r)
  PROVE  OthersKept(p) /\ req'[p] = r
BY DEF Begin, OthersKept, Shape, TypeOK

LEMMA TakeRowKept ==
  ASSUME Shape, NEW p \in Proc, NEW x, NEW r, Available(p, x), TakeRow(p, x, r)
  PROVE  OthersKept(p) /\ req'[p] = r /\ (x \in Row => lock'[x] = p)
BY NoneAssumption DEF TakeRow, Available, OthersKept, Shape, TypeOK

LEMMA EndTxKept ==
  ASSUME Shape, NEW p \in Proc, EndTx(p)
  PROVE  OthersKept(p) /\ req'[p] = Idle
BY DEF EndTx, OthersKept, Shape, TypeOK

\* Stages no guard is about.
Plain(at) ==
  at \notin PlaceStages \cup ConnectStages \cup SubmitStages

LEMMA PlainArrives ==
  ASSUME NEW p \in Proc, Plain(req'[p].at)
  PROVE  Arrives(p)
BY DEF Plain, Arrives, PlaceStages

LEMMA TablesKept ==
  ASSUME NEW p \in Proc, UNCHANGED tables
  PROVE  Writes(p)
BY DEF tables, Writes

LEMMA IdlePlain == Plain(Idle.at)
BY DEF Idle, Plain, PlaceStages, ConnectStages, SubmitStages

LEMMA RollbackStep ==
  ASSUME Shape, NEW p \in Proc, Rollback(p)
  PROVE  StepOf(p)
BY EndTxKept, PlainArrives, TablesKept, IdlePlain DEF Rollback, StepOf

LEMMA ReadStep ==
  ASSUME Shape, NEW p \in Proc, NEW x, NEW r, Plain(r.at), UNCHANGED tables,
         Begin(p, r) \/ (Available(p, x) /\ TakeRow(p, x, r))
  PROVE  StepOf(p)
BY BeginKept, TakeRowKept, PlainArrives, TablesKept DEF StepOf

\* A request that has a stage of its own in the guards.
LEMMA GuardedStep ==
  ASSUME Shape, NEW p \in Proc, NEW x, NEW r, UNCHANGED tables, Arrives(p),
         Begin(p, r) \/ (Available(p, x) /\ TakeRow(p, x, r))
  PROVE  StepOf(p)
BY BeginKept, TakeRowKept, TablesKept DEF StepOf

LEMMA WriteStep ==
  ASSUME Shape, NEW p \in Proc, EndTx(p) \/ Begin(p, Idle), Writes(p)
  PROVE  StepOf(p)
BY EndTxKept, BeginKept, PlainArrives, IdlePlain DEF StepOf

-----------------------------------------------------------------------------
(* Every step has the frame *)

LEMMA PlacementFrame ==
  ASSUME Shape, NEW p \in Proc, PlacementStep(p)
  PROVE  StepOf(p)
<1> USE DEF PlaceStages, ConnectStages, SubmitStages
<1>0. req[p] \in Request
  BY DEF Shape, TypeOK
<1>1. CASE UpdateDevicePosition(p)
  <2> DEFINE r == [req[p] EXCEPT !.at = "update.write"]
  <2>1. Plain(r.at)
    BY <1>0 DEF Request, Plain
  <2>2. UNCHANGED tables /\ (Begin(p, r) \/ Begin(p, Idle))
    BY <1>1 DEF UpdateDevicePosition
  <2> HIDE DEF r
  <2> QED BY <2>1, <2>2, IdlePlain, ReadStep
<1>2. CASE UpdateDeviceWrite(p) \/ DeleteDeviceWrite(p)
  BY <1>2, WriteStep DEF UpdateDeviceWrite, DeleteDeviceWrite, Writes
<1>3. CASE PlaceDevice(p)
  <2> DEFINE r == [req[p] EXCEPT !.at = "place.rack", !.height = device[req[p].dev].height]
  <2>1. CASE TakeRow(p, req[p].dev, r) /\ UNCHANGED tables
    <3>1. r.at = "place.rack"
      BY <1>0 DEF Request
    <3>2. Available(p, req[p].dev)
      BY <1>3 DEF PlaceDevice
    <3> HIDE DEF r
    <3>3. req'[p].at = "place.rack"
      BY <2>1, <3>1, <3>2, TakeRowKept
    <3>4. Arrives(p)
      BY <1>3, <3>3 DEF Arrives
    <3> QED BY <2>1, <3>2, <3>4, GuardedStep
  <2> QED BY <1>3, <2>1, RollbackStep DEF PlaceDevice
<1>4. CASE PlaceRack(p)
  <2> DEFINE r == [req[p] EXCEPT !.at = "place.commit"]
  <2>1. CASE TakeRow(p, req[p].rack, r) /\ UNCHANGED tables
    <3>1. r.at = "place.commit"
      BY <1>0 DEF Request
    <3>2. Available(p, req[p].rack)
      BY <1>4 DEF PlaceRack
    <3> HIDE DEF r
    <3>3. req'[p].at = "place.commit"
      BY <2>1, <3>1, <3>2, TakeRowKept
    <3>4. Arrives(p)
      BY <1>4, <3>3 DEF Arrives
    <3> QED BY <2>1, <3>2, <3>4, GuardedStep
  <2> QED BY <1>4, <2>1, RollbackStep DEF PlaceRack
<1>5. CASE PlaceCommit(p) \/ DecommissionCommit(p) \/ DeleteRackCommit(p)
  BY <1>5, WriteStep DEF PlaceCommit, DecommissionCommit, DeleteRackCommit, Writes
<1> QED BY <1>1, <1>2, <1>3, <1>4, <1>5 DEF PlacementStep

LEMMA PowerFrame ==
  ASSUME Shape, NEW p \in Proc, PowerStep(p)
  PROVE  StepOf(p)
<1> USE DEF PlaceStages, ConnectStages, SubmitStages
<1>0. req[p] \in Request
  BY DEF Shape, TypeOK
<1>1. CASE CreatePduCommit(p) \/ DeletePduCommit(p) \/ CreateSocketCommit(p) \/ ChangeSocketCommit(p)
  BY <1>1, WriteStep
     DEF CreatePduCommit, DeletePduCommit, CreateSocketCommit, ChangeSocketCommit, Writes
<1>2. CASE ArchivePduCommit(p)
  <2>1. \A c \in Conn : conn'[c].st = "live" => conn'[c] = conn[c]
    BY <1>2 DEF ArchivePduCommit, Shape, TypeOK, ConnRow
  <2> QED BY <1>2, <2>1, WriteStep DEF ArchivePduCommit, Writes
<1>3. CASE DisconnectCommit(p)
  <2>1. \A c \in Conn : conn'[c].st = "live" => conn'[c] = conn[c]
    BY <1>3 DEF DisconnectCommit, Shape, TypeOK, ConnRow
  <2> QED BY <1>3, <2>1, WriteStep DEF DisconnectCommit, Writes
<1>4. CASE ConnectCommit(p)
  BY <1>4, WriteStep DEF ConnectCommit, Writes
<1>5. CASE DisconnectConflict(p)
  BY <1>5, RollbackStep DEF DisconnectConflict
<1>6. CASE ChangeSocketRow(p)
  <2> DEFINE r == [req[p] EXCEPT !.at = "socket.commit", !.status = sock[req[p].sock].status]
  <2>1. Plain(r.at)
    BY <1>0 DEF Request, Plain
  <2>2. Available(p, req[p].sock) /\ ((TakeRow(p, req[p].sock, r) /\ UNCHANGED tables) \/ Rollback(p))
    BY <1>6 DEF ChangeSocketRow
  <2> HIDE DEF r
  <2> QED BY <2>1, <2>2, ReadStep, RollbackStep
<1>7. CASE DisconnectPdu(p)
  <2> DEFINE r == [req[p] EXCEPT !.at = "disconnect.socket"]
             u == sock[req[p].sock].pdu
  <2>1. Plain(r.at)
    BY <1>0 DEF Request, Plain
  <2>2. Available(p, u) /\ ((TakeRow(p, u, r) /\ UNCHANGED tables) \/ Rollback(p))
    BY <1>7 DEF DisconnectPdu
  <2> HIDE DEF r, u
  <2> QED BY <2>1, <2>2, ReadStep, RollbackStep
<1>8. CASE DisconnectSocket(p)
  <2> DEFINE r == [req[p] EXCEPT !.at = "disconnect.commit"]
  <2>1. Plain(r.at)
    BY <1>0 DEF Request, Plain
  <2>2. Available(p, req[p].sock) /\ ((TakeRow(p, req[p].sock, r) /\ UNCHANGED tables) \/ Rollback(p))
    BY <1>8 DEF DisconnectSocket
  <2> HIDE DEF r
  <2> QED BY <2>1, <2>2, ReadStep, RollbackStep
<1>9. CASE ConnectPdu(p)
  <2> DEFINE r == [req[p] EXCEPT !.at = "connect.socket"]
             u == sock[req[p].sock].pdu
  <2>1. r.at = "connect.socket"
    BY <1>0 DEF Request
  <2>2. Available(p, u) /\ ((TakeRow(p, u, r) /\ UNCHANGED tables) \/ Rollback(p))
    BY <1>9 DEF ConnectPdu
  <2> HIDE DEF r, u
  <2>3. TakeRow(p, u, r) => Arrives(p)
    BY <1>9, <2>1, <2>2, TakeRowKept DEF Arrives
  <2> QED BY <2>2, <2>3, GuardedStep, RollbackStep
<1>10. CASE ConnectSocket(p)
  <2> DEFINE r == [req[p] EXCEPT !.at = "connect.commit"]
  <2>1. r.at = "connect.commit"
    BY <1>0 DEF Request
  <2>2. Available(p, req[p].sock) /\ ((TakeRow(p, req[p].sock, r) /\ UNCHANGED tables) \/ Rollback(p))
    BY <1>10 DEF ConnectSocket
  <2> HIDE DEF r
  <2>3. TakeRow(p, req[p].sock, r) => Arrives(p)
    BY <1>10, <2>1, <2>2, TakeRowKept DEF Arrives
  <2> QED BY <2>2, <2>3, GuardedStep, RollbackStep
<1> QED BY <1>1, <1>2, <1>3, <1>4, <1>5, <1>6, <1>7, <1>8, <1>9, <1>10 DEF PowerStep

LEMMA ApprovalFrame ==
  ASSUME Shape, NEW p \in Proc, ApprovalStep(p)
  PROVE  StepOf(p)
<1> USE DEF PlaceStages, ConnectStages, SubmitStages
<1>0. req[p] \in Request
  BY DEF Shape, TypeOK
<1>1. CASE SubmitPosition(p)
  <2> PICK source : Begin(p, [req[p] EXCEPT !.at = "submit.insert", !.from = source])
    BY <1>1 DEF SubmitPosition
  <2> DEFINE r == [req[p] EXCEPT !.at = "submit.insert", !.from = source]
  <2>1. r.at = "submit.insert"
    BY <1>0 DEF Request
  <2>2. Begin(p, r) /\ UNCHANGED tables
    BY <1>1 DEF SubmitPosition
  <2> HIDE DEF r
  <2>3. Arrives(p)
    BY <1>1, <2>1, <2>2, BeginKept DEF Arrives
  <2> QED BY <2>2, <2>3, GuardedStep
<1>2. CASE SubmitInsert(p)
  BY <1>2, WriteStep DEF SubmitInsert, Writes
<1> QED BY <1>1, <1>2 DEF ApprovalStep

\* A call that asks for a row nobody holds.
LEMMA UnlockedAvailable ==
  ASSUME NEW p \in Proc, NEW x, Unlocked(x)
  PROVE  Available(p, x)
BY DEF Unlocked, Available

(* Calls *)

LEMMA UpdateDeviceReadFrame ==
  ASSUME Shape, NEW p \in Proc, NEW d \in Device, NEW h \in Heights, UpdateDeviceRead(p, d, h)
  PROVE  StepOf(p)
<1> DEFINE height == IF h > 0 THEN h ELSE device[d].height
           next == IF height = device[d].height THEN "update.write" ELSE "update.position"
           r == [Idle EXCEPT !.at = next, !.dev = d, !.height = height, !.ver = device[d].ver]
<1>1. Begin(p, r) /\ UNCHANGED tables
  BY DEF UpdateDeviceRead
<1>2. Plain(next)
  BY DEF Plain, PlaceStages, ConnectStages, SubmitStages
<1>3. r.at = next
  BY IdleRequest DEF Request
<1> HIDE DEF r, next
<1> QED BY <1>1, <1>2, <1>3, ReadStep

LEMMA DeleteDeviceCheckFrame ==
  ASSUME Shape, NEW p \in Proc, NEW d \in Device, DeleteDeviceCheck(p, d)
  PROVE  StepOf(p)
<1> DEFINE r == [Idle EXCEPT !.at = "delete.write", !.dev = d, !.ver = device[d].ver]
<1>1. Begin(p, r) /\ UNCHANGED tables
  BY DEF DeleteDeviceCheck
<1>2. Plain(r.at)
  BY IdleRequest DEF Request, Plain, PlaceStages, ConnectStages, SubmitStages
<1> HIDE DEF r
<1> QED BY <1>1, <1>2, ReadStep

LEMMA DecommissionDeviceFrame ==
  ASSUME Shape, NEW p \in Proc, NEW d \in Device, DecommissionDevice(p, d)
  PROVE  StepOf(p)
<1> DEFINE r == [Idle EXCEPT !.at = "off.commit", !.dev = d]
<1>1. Available(p, d) /\ TakeRow(p, d, r) /\ UNCHANGED tables
  BY UnlockedAvailable DEF DecommissionDevice
<1>2. Plain(r.at)
  BY IdleRequest DEF Request, Plain, PlaceStages, ConnectStages, SubmitStages
<1> HIDE DEF r
<1> QED BY <1>1, <1>2, ReadStep

LEMMA DeleteRackCheckFrame ==
  ASSUME Shape, NEW p \in Proc, NEW r0 \in Rack, DeleteRackCheck(p, r0)
  PROVE  StepOf(p)
<1> DEFINE r == [Idle EXCEPT !.at = "retire.commit", !.rack = r0]
<1>1. Available(p, r0) /\ TakeRow(p, r0, r) /\ UNCHANGED tables
  BY UnlockedAvailable DEF DeleteRackCheck
<1>2. Plain(r.at)
  BY IdleRequest DEF Request, Plain, PlaceStages, ConnectStages, SubmitStages
<1> HIDE DEF r
<1> QED BY <1>1, <1>2, ReadStep

LEMMA CreatePduRackFrame ==
  ASSUME Shape, NEW p \in Proc, NEW u \in Pdu, NEW r0 \in Rack, CreatePduRack(p, u, r0)
  PROVE  StepOf(p)
<1> DEFINE r == [Idle EXCEPT !.at = "pdu.create", !.pdu = u, !.rack = r0]
<1>1. Available(p, r0) /\ TakeRow(p, r0, r) /\ UNCHANGED tables
  BY UnlockedAvailable DEF CreatePduRack
<1>2. Plain(r.at)
  BY IdleRequest DEF Request, Plain, PlaceStages, ConnectStages, SubmitStages
<1> HIDE DEF r
<1> QED BY <1>1, <1>2, ReadStep

LEMMA DeletePduCheckFrame ==
  ASSUME Shape, NEW p \in Proc, NEW u \in Pdu, DeletePduCheck(p, u)
  PROVE  StepOf(p)
<1> DEFINE r == [Idle EXCEPT !.at = "pdu.delete", !.pdu = u]
<1>1. Available(p, u) /\ TakeRow(p, u, r) /\ UNCHANGED tables
  BY UnlockedAvailable DEF DeletePduCheck
<1>2. Plain(r.at)
  BY IdleRequest DEF Request, Plain, PlaceStages, ConnectStages, SubmitStages
<1> HIDE DEF r
<1> QED BY <1>1, <1>2, ReadStep

LEMMA ArchivePduCheckFrame ==
  ASSUME Shape, NEW p \in Proc, NEW u \in Pdu, NEW n, ArchivePduCheck(p, u, n)
  PROVE  StepOf(p)
<1> DEFINE r == [Idle EXCEPT !.at = "pdu.archive", !.pdu = u, !.count = n]
<1>1. Available(p, u) /\ TakeRow(p, u, r) /\ UNCHANGED tables
  BY UnlockedAvailable DEF ArchivePduCheck
<1>2. Plain(r.at)
  BY IdleRequest DEF Request, Plain, PlaceStages, ConnectStages, SubmitStages
<1> HIDE DEF r
<1> QED BY <1>1, <1>2, ReadStep

LEMMA CreateSocketPduFrame ==
  ASSUME Shape, NEW p \in Proc, NEW s \in Socket, NEW u \in Pdu, CreateSocketPdu(p, s, u)
  PROVE  StepOf(p)
<1> DEFINE r == [Idle EXCEPT !.at = "socket.create", !.sock = s, !.pdu = u]
<1>1. Available(p, u) /\ TakeRow(p, u, r) /\ UNCHANGED tables
  BY UnlockedAvailable DEF CreateSocketPdu
<1>2. Plain(r.at)
  BY IdleRequest DEF Request, Plain, PlaceStages, ConnectStages, SubmitStages
<1> HIDE DEF r
<1> QED BY <1>1, <1>2, ReadStep

LEMMA ChangeSocketPduFrame ==
  ASSUME Shape, NEW p \in Proc, NEW op, NEW s \in Socket, ChangeSocketPdu(p, op, s)
  PROVE  StepOf(p)
<1> DEFINE r == [Idle EXCEPT !.at = "socket.row", !.op = op, !.sock = s]
<1>1. Available(p, sock[s].pdu) /\ TakeRow(p, sock[s].pdu, r) /\ UNCHANGED tables
  BY UnlockedAvailable DEF ChangeSocketPdu
<1>2. Plain(r.at)
  BY IdleRequest DEF Request, Plain, PlaceStages, ConnectStages, SubmitStages
<1> HIDE DEF r
<1> QED BY <1>1, <1>2, ReadStep

LEMMA RequestDisconnectFrame ==
  ASSUME Shape, NEW p \in Proc, NEW c \in Conn, RequestDisconnect(p, c)
  PROVE  StepOf(p)
<1> DEFINE r == [Idle EXCEPT !.at = "disconnect.pdu", !.conn = c, !.sock = conn[c].sock]
<1>1. Begin(p, r) /\ UNCHANGED tables
  BY DEF RequestDisconnect
<1>2. Plain(r.at)
  BY IdleRequest DEF Request, Plain, PlaceStages, ConnectStages, SubmitStages
<1> HIDE DEF r
<1> QED BY <1>1, <1>2, ReadStep

LEMMA RequestPlaceFrame ==
  ASSUME Shape, NEW p \in Proc, NEW op \in Operation, NEW d \in Device, NEW r0 \in Rack, NEW u \in StartUs,
         RequestPlace(p, op, d, r0, u)
  PROVE  StepOf(p)
<1> DEFINE r == [Idle EXCEPT !.at = "place.device", !.op = op, !.dev = d, !.rack = r0, !.startU = u]
<1>1. Begin(p, r) /\ UNCHANGED tables
  BY DEF RequestPlace
<1>2. r.at = "place.device"
  BY IdleRequest DEF Request
<1> HIDE DEF r
<1>3. req'[p].at = "place.device"
  BY <1>1, <1>2, BeginKept
<1>4. Arrives(p)
  BY <1>3 DEF Arrives, PlaceStages, ConnectStages, SubmitStages
<1> QED BY <1>1, <1>4, GuardedStep

LEMMA ConnectDeviceFrame ==
  ASSUME Shape, NEW p \in Proc, NEW c \in Conn, NEW s \in Socket, NEW d \in Device,
         NEW role \in Role,
         ConnectDevice(p, c, s, d, role)
  PROVE  StepOf(p)
<1> DEFINE r == [Idle EXCEPT !.at = "connect.pdu", !.dev = d, !.sock = s,
                            !.role = role, !.conn = c]
<1>1. Available(p, d) /\ TakeRow(p, d, r) /\ UNCHANGED tables
  BY UnlockedAvailable DEF ConnectDevice
<1>2. r.at = "connect.pdu"
  BY IdleRequest DEF Request
<1> HIDE DEF r
<1>3. req'[p].at = "connect.pdu"
  BY <1>1, <1>2, TakeRowKept
<1>4. Arrives(p)
  BY <1>3 DEF Arrives, PlaceStages, ConnectStages, SubmitStages
<1> QED BY <1>1, <1>4, GuardedStep

LEMMA RequestApprovalFrame ==
  ASSUME Shape, NEW p \in Proc, NEW t \in Ticket, NEW op \in Operation, NEW d \in Device,
         NEW r0 \in Rack, NEW u \in StartUs,
         RequestApproval(p, t, op, d, r0, u)
  PROVE  StepOf(p)
<1> DEFINE r == [Idle EXCEPT !.at = "submit.position", !.op = op, !.dev = d, !.rack = r0,
                            !.ticket = t, !.startU = u, !.height = device[d].height, !.ver = device[d].ver,
                              !.was = pos[d]]
<1>1. Begin(p, r) /\ UNCHANGED tables
  BY DEF RequestApproval
<1>2. r.at = "submit.position"
  BY IdleRequest DEF Request
<1> HIDE DEF r
<1>3. req'[p].at = "submit.position"
  BY <1>1, <1>2, BeginKept
<1>4. Arrives(p)
  BY <1>3 DEF Arrives, PlaceStages, ConnectStages, SubmitStages
<1> QED BY <1>1, <1>4, GuardedStep

LEMMA ApproveFrame ==
  ASSUME Shape, NEW p \in Proc, NEW t \in Ticket,
         Approve(p, t)
  PROVE  StepOf(p)
<1> DEFINE r == [Idle EXCEPT !.at = "place.device", !.ticket = t, !.op = ticket[t].op,
                            !.dev = ticket[t].dev, !.rack = ticket[t].rack,
                            !.startU = ticket[t].startU]
<1>1. Available(p, t) /\ TakeRow(p, t, r) /\ UNCHANGED tables
  BY UnlockedAvailable DEF Approve
<1>2. r.at = "place.device"
  BY IdleRequest DEF Request
<1> HIDE DEF r
<1>3. req'[p].at = "place.device"
  BY <1>1, <1>2, TakeRowKept
<1>4. Arrives(p)
  BY <1>3 DEF Arrives, PlaceStages, ConnectStages, SubmitStages
<1> QED BY <1>1, <1>4, GuardedStep

\* The writes that are no process's: single statements outside of a transaction.
Statement ==
  /\ UNCHANGED <<pos, hist, conn, lock, req>>
  /\ UNCHANGED ticket \/ \E t \in Ticket : Reject(t)

LEMMA CallFrame ==
  ASSUME Shape, Call
  PROVE  Statement \/ \E p \in Proc : StepOf(p)
<1>1. CASE PlacementCall
  BY <1>1, UpdateDeviceReadFrame, DeleteDeviceCheckFrame, RequestPlaceFrame,
     DecommissionDeviceFrame, DeleteRackCheckFrame
     DEF PlacementCall, CreateDevice, CreateRack, UpdateRack, Statement
<1>2. CASE PowerCall
  BY <1>2, CreatePduRackFrame, DeletePduCheckFrame, ArchivePduCheckFrame, CreateSocketPduFrame,
     ChangeSocketPduFrame, ConnectDeviceFrame, RequestDisconnectFrame
     DEF PowerCall
<1>3. CASE ApprovalCall
  <2>1. ASSUME NEW t \in Ticket, Reject(t) PROVE Statement
    BY <2>1 DEF Reject, Statement
  <2>2. ASSUME NEW op, NEW on, UpdatePolicy(op, on) PROVE Statement
    BY <2>2 DEF UpdatePolicy, Statement
  <2> QED BY <1>3, <2>1, <2>2, RequestApprovalFrame, ApproveFrame DEF ApprovalCall
<1> QED BY <1>1, <1>2, <1>3 DEF Call

\* The frame of every step of the system.
LEMMA NextFrame ==
  ASSUME Shape, [Next]_vars
  PROVE  Statement \/ \E p \in Proc : StepOf(p)
<1>1. ASSUME NEW p \in Proc, Step(p) PROVE StepOf(p)
  BY <1>1, PlacementFrame, PowerFrame, ApprovalFrame DEF Step
<1>2. ASSUME NEW p \in Proc, Crash(p) PROVE StepOf(p)
  BY <1>2, RollbackStep DEF Crash
<1>3. CASE UNCHANGED vars
  BY <1>3 DEF vars, Statement
<1> QED BY <1>1, <1>2, <1>3, CallFrame DEF Next

-----------------------------------------------------------------------------
(* Mounted devices do not overlap *)

\* About to write a position, a request holds the rack, and the units are free.
RackGuard(p) ==
  req[p].at = "place.commit" =>
    lock[req[p].rack] = p /\ ~Taken(req[p].dev, Target(req[p]))

Footprints == FootprintsDisjoint /\ \A p \in Proc : RackGuard(p)

\* What the place of a commit is.
LEMMA CommitTarget ==
  ASSUME Shape, NEW p \in Proc, req[p].at \in PlaceStages
  PROVE  /\ req[p].dev \in Device /\ req[p].rack \in Rack /\ req[p].rack \in Row
         /\ req[p].rack # None
         /\ Target(req[p]).rack = req[p].rack
BY NoneAssumption DEF Shape, ArgumentsOK, DeviceStages, RackStages, Row, Target, PlaceAt

\* A rack lock is taken together with the check that the units are free.
LEMMA PlaceRackGuard ==
  ASSUME Shape, NEW p \in Proc, PlaceRack(p), req'[p].at = "place.commit"
  PROVE  RackGuard(p)'
<1> DEFINE r == [req[p] EXCEPT !.at = "place.commit"]
<1>1. req[p] \in Request /\ req[p].at \in PlaceStages
  BY DEF Shape, TypeOK, PlaceRack, PlaceStages
<1>2. r.dev = req[p].dev /\ r.rack = req[p].rack /\ Target(r) = Target(req[p])
  BY <1>1 DEF Request, Target
<1> HIDE DEF r
<1>3. ~Rollback(p)
  BY EndTxKept DEF Rollback, Idle
<1>4. /\ Available(p, req[p].rack) /\ TakeRow(p, req[p].rack, r) /\ UNCHANGED tables
      /\ ~Taken(req[p].dev, Target(req[p]))
  BY <1>3 DEF PlaceRack, Fits, r
<1>5. req'[p] = r /\ lock'[req[p].rack] = p
  BY <1>1, <1>4, TakeRowKept, CommitTarget
<1>6. Taken(req[p].dev, Target(req[p]))' = Taken(r.dev, Target(r))
  BY <1>4, <1>5 DEF Taken, tables, RangesOverlap, Target
<1> QED BY <1>2, <1>4, <1>5, <1>6 DEF RackGuard

\* While a rack is locked, only the holder of the lock mounts a device in it.
LEMMA OthersRackGuard ==
  ASSUME Shape, NEW p \in Proc, StepOf(p), RackGuard(p), NEW q \in Proc \ {p}, RackGuard(q)
  PROVE  RackGuard(q)'
<1> SUFFICES ASSUME req[q].at = "place.commit" PROVE RackGuard(q)'
  BY DEF StepOf, OthersKept, RackGuard
<1> DEFINE w == Target(req[q])
<1>1. req[q].rack \in Row /\ req[q].rack # None /\ w.rack = req[q].rack
  BY CommitTarget DEF PlaceStages
<1>2. req'[q] = req[q] /\ lock'[req[q].rack] = q
  BY <1>1 DEF StepOf, OthersKept, RackGuard
<1>3. ~Taken(req[q].dev, w)
  BY DEF RackGuard
<1> HIDE DEF w
<1>4. \A e \in Device : pos'[e] # pos[e] => pos'[e].rack # w.rack
  <2>1. CASE UNCHANGED pos
    BY <2>1
  <2>2. CASE PlaceCommit(p)
    <3>1. Target(req[p]).rack = req[p].rack /\ req[p].rack # req[q].rack
      BY <2>2, CommitTarget DEF RackGuard, PlaceCommit, PlaceStages
    <3> QED BY <1>1, <2>2, <3>1 DEF PlaceCommit, Shape, TypeOK
  <2>3. CASE DecommissionCommit(p)
    BY <1>1, <2>3 DEF DecommissionCommit, NoPlace, Shape, TypeOK
  <2> QED BY <2>1, <2>2, <2>3 DEF StepOf, Writes
<1>5. ~(\E e \in Device \ {req[q].dev} : pos'[e].rack = w.rack /\ RangesOverlap(pos'[e], w))
  BY <1>3, <1>4 DEF Taken
<1> QED BY <1>2, <1>5 DEF RackGuard, Taken, RangesOverlap, Target, w

LEMMA FootprintsStep ==
  ASSUME Shape, Footprints, NEW p \in Proc, StepOf(p)
  PROVE  FootprintsDisjoint'
<1>1. CASE UNCHANGED pos
  BY <1>1 DEF Footprints, FootprintsDisjoint, Positioned, RangesOverlap
<1>2. CASE PlaceCommit(p)
  <2> DEFINE w == Target(req[p])
             d == req[p].dev
  <2>1. d \in Device /\ pos \in [Device -> Place]
    BY <1>2, CommitTarget DEF PlaceCommit, PlaceStages, Shape, TypeOK
  <2>2. pos' = [pos EXCEPT ![d] = w] /\ ~Taken(d, w)
    BY <1>2 DEF PlaceCommit, Footprints, RackGuard
  <2> HIDE DEF w, d
  <2>3. \A a \in Device : \A e \in Device \ {a} :
          pos'[a].rack # None /\ pos'[a].rack = pos'[e].rack => ~RangesOverlap(pos'[a], pos'[e])
    BY <2>1, <2>2 DEF Footprints, FootprintsDisjoint, Positioned, Taken, RangesOverlap
  <2> QED BY <2>3 DEF FootprintsDisjoint, Positioned, RangesOverlap
<1>3. CASE DecommissionCommit(p)
  <2>1. \A e \in Device : pos'[e] = pos[e] \/ pos'[e].rack = None
    BY <1>3 DEF DecommissionCommit, NoPlace, Shape, TypeOK
  <2> QED BY <2>1 DEF Footprints, FootprintsDisjoint, Positioned, RangesOverlap
<1> QED BY <1>1, <1>2, <1>3 DEF StepOf, Writes

LEMMA FootprintsNext == Shape /\ Footprints /\ [Next]_vars => Footprints'
<1> SUFFICES ASSUME Shape, Footprints, [Next]_vars PROVE Footprints'
  OBVIOUS
<1>1. CASE Statement
  BY <1>1 DEF Statement, Footprints, FootprintsDisjoint, RackGuard, Taken, Positioned,
     RangesOverlap, Target
<1>2. ASSUME NEW p \in Proc, StepOf(p) PROVE Footprints'
  <2>1. RackGuard(p)'
    BY <1>2, PlaceRackGuard DEF StepOf, Arrives, RackGuard
  <2>2. \A q \in Proc \ {p} : RackGuard(q)'
    BY <1>2, OthersRackGuard DEF Footprints
  <2> QED BY <1>2, <2>1, <2>2, FootprintsStep DEF Footprints
<1> QED BY <1>1, <1>2, NextFrame

LEMMA FootprintsInit == Init => Footprints
BY DEF Init, Footprints, FootprintsDisjoint, RackGuard, Positioned, NoPlace, Idle

\* No two mounted devices share a unit of a rack, whatever the handlers' interleaving:
\* the check that placeInTx makes under the rack lock suffices, without the exclusion
\* constraint of the database.
THEOREM NoOverlap == Spec => []FootprintsDisjoint
<1>1. Footprints => FootprintsDisjoint
  BY DEF Footprints
<1> QED BY <1>1, FootprintsInit, FootprintsNext, ShapeInvariant, PTL DEF Spec

-----------------------------------------------------------------------------
(* The history is unbroken *)

LEMMA AppendFacts ==
  ASSUME NEW S, NEW h \in Seq(S), NEW e \in S
  PROVE  /\ Len(Append(h, e)) = Len(h) + 1 /\ Append(h, e)[Len(h) + 1] = e
         /\ \A i \in 1 .. Len(h) : Append(h, e)[i] = h[i]
         /\ Append(h, e) # << >> /\ Len(h) \in Nat /\ (Len(h) = 0 <=> h = << >>)
<1>1. Append(h, e) # << >> /\ (Len(h) = 0 <=> h = << >>)
  BY EmptySeq, AppendProperties
<1> QED BY <1>1, AppendProperties

\* A commit that takes device d to place w enters where d was and where it goes.
LEMMA JournalStep ==
  ASSUME Shape, HistoryChain, NEW d \in Device, NEW w \in Place,
         NEW op \in {"ASSIGN", "MOVE", "DECOMMISSION"},
         pos' = [pos EXCEPT ![d] = w], hist' = [hist EXCEPT ![d] = Journal(d, op, w)]
  PROVE  HistoryChain'
<1>1. pos \in [Device -> Place] /\ hist \in [Device -> Seq(HistoryRow)]
  BY DEF Shape, TypeOK
<1> DEFINE h == hist[d]
           row == [op |-> op, from |-> pos[d], to |-> w]
<1>2. /\ h \in Seq(HistoryRow) /\ hist'[d] = Append(h, row) /\ pos'[d] = w
      /\ \A e \in Device \ {d} : hist'[e] = hist[e] /\ pos'[e] = pos[e]
  BY <1>1 DEF Journal
<1>3. row \in HistoryRow /\ row.from = pos[d] /\ row.to = w
  BY <1>1 DEF HistoryRow
<1>4. /\ \A i \in 1 .. Len(h) : h[i].from = IF i = 1 THEN NoPlace ELSE h[i - 1].to
      /\ pos[d] = IF h = << >> THEN NoPlace ELSE h[Len(h)].to
  BY DEF HistoryChain
<1> HIDE DEF h, row
<1>5. /\ Len(Append(h, row)) = Len(h) + 1 /\ Append(h, row)[Len(h) + 1] = row
      /\ \A i \in 1 .. Len(h) : Append(h, row)[i] = h[i]
      /\ Append(h, row) # << >> /\ Len(h) \in Nat /\ (Len(h) = 0 <=> h = << >>)
  BY <1>2, <1>3, AppendFacts
<1>6. ASSUME NEW i \in 1 .. Len(h) + 1
      PROVE  Append(h, row)[i].from = IF i = 1 THEN NoPlace ELSE Append(h, row)[i - 1].to
  <2>1. CASE i = Len(h) + 1
    BY <1>3, <1>4, <1>5, <2>1
  <2>2. CASE i \in 1 .. Len(h)
    BY <1>4, <1>5, <2>2
  <2> QED BY <1>5, <2>1, <2>2
<1> DEFINE Chain(e, g) ==
             /\ \A i \in 1 .. Len(g) : g[i].from = IF i = 1 THEN NoPlace ELSE g[i - 1].to
             /\ e = IF g = << >> THEN NoPlace ELSE g[Len(g)].to
<1>7. Chain(w, Append(h, row))
  BY <1>3, <1>5, <1>6
<1>8. \A e \in Device \ {d} : Chain(pos[e], hist[e])
  BY DEF HistoryChain
<1>9. \A e \in Device : Chain(pos'[e], hist'[e])
  <2> HIDE DEF Chain
  <2> QED BY <1>2, <1>7, <1>8
<1> QED BY <1>9 DEF HistoryChain

LEMMA HistoryNext == Shape /\ HistoryChain /\ [Next]_vars => HistoryChain'
<1> SUFFICES ASSUME Shape, HistoryChain, [Next]_vars PROVE HistoryChain'
  OBVIOUS
<1>1. CASE UNCHANGED <<pos, hist>>
  BY <1>1 DEF HistoryChain
<1>2. ASSUME NEW p \in Proc, PlaceCommit(p) PROVE HistoryChain'
  <2>1. /\ req[p].dev \in Device /\ req[p].rack \in Rack
        /\ req[p] \in Request /\ req[p].op \in Operation
    BY <1>2, CommitTarget
       DEF PlaceCommit, PlaceStages, Shape, TypeOK, ArgumentsOK
  <2>2. Target(req[p]) \in Place
    BY <2>1 DEF Request, Target, PlaceAt, Place
  <2> QED BY <1>2, <2>1, <2>2, JournalStep DEF PlaceCommit, Operation
<1>3. ASSUME NEW p \in Proc, DecommissionCommit(p) PROVE HistoryChain'
  <2>1. req[p].dev \in Device
    BY <1>3 DEF DecommissionCommit, Shape, ArgumentsOK, DeviceStages
  <2> QED BY <1>3, <2>1, JournalStep, ConstantsTyped DEF DecommissionCommit
<1> QED BY <1>1, <1>2, <1>3, NextFrame DEF Statement, StepOf, Writes

\* The history of a device is an unbroken account of where it was, whichever requests
\* placed it: writeHistory runs in the transaction that writes the position.
THEOREM HistoryUnbroken == Spec => []HistoryChain
<1>1. Init => HistoryChain
  BY DEF Init, HistoryChain
<1> QED BY <1>1, HistoryNext, ShapeInvariant, PTL DEF Spec

-----------------------------------------------------------------------------
(* A redundancy role is connected once *)

\* Connect holds the device from its first statement on; about to write, it has seen
\* that the role is free.
RoleGuard(p) ==
  /\ req[p].at \in ConnectStages => lock[req[p].dev] = p
  /\ req[p].at = "connect.commit" => ~HasRole(req[p].dev, req[p].role)

Roles == RoleOnce /\ \A p \in Proc : RoleGuard(p)

LEMMA ConnectArguments ==
  ASSUME Shape, NEW p \in Proc, req[p].at \in ConnectStages
  PROVE  req[p].dev \in Device /\ req[p].dev \in Row /\ req[p].conn \in Conn
BY DEF Shape, ArgumentsOK, DeviceStages, Row

\* A statement of p's that locks row x keeps the locks p has.
LEMMA LocksKept ==
  ASSUME Shape, NEW p \in Proc, NEW x, NEW r, TakeRow(p, x, r), NEW y \in Row, lock[y] = p
  PROVE  lock'[y] = p
BY DEF TakeRow, Shape, TypeOK

LEMMA OwnRoleGuard ==
  ASSUME Shape, NEW p \in Proc, StepOf(p), RoleGuard(p)
  PROVE  RoleGuard(p)'
<1> SUFFICES ASSUME req'[p].at \in ConnectStages PROVE RoleGuard(p)'
  BY DEF RoleGuard, ConnectStages
<1>0. req[p] \in Request /\ ~Rollback(p)
  BY EndTxKept DEF Rollback, Idle, ConnectStages, Shape, TypeOK
<1>1. ASSUME NEW c \in Conn, NEW s \in Socket, NEW d \in Device, NEW role \in Role,
             ConnectDevice(p, c, s, d, role)
      PROVE  RoleGuard(p)'
  <2> DEFINE r == [Idle EXCEPT !.at = "connect.pdu", !.dev = d, !.sock = s,
                               !.role = role, !.conn = c]
  <2>1. Available(p, d) /\ TakeRow(p, d, r) /\ d \in Row
    BY <1>1, UnlockedAvailable DEF ConnectDevice, Row
  <2>2. r.at = "connect.pdu" /\ r.dev = d
    BY IdleRequest DEF Request
  <2> HIDE DEF r
  <2> QED BY <2>1, <2>2, TakeRowKept DEF RoleGuard
<1>2. CASE ConnectPdu(p)
  <2> DEFINE r == [req[p] EXCEPT !.at = "connect.socket"]
             u == sock[req[p].sock].pdu
  <2>1. req[p].at \in ConnectStages
    BY <1>2 DEF ConnectPdu, ConnectStages
  <2>2. Available(p, u) /\ TakeRow(p, u, r)
    BY <1>0, <1>2 DEF ConnectPdu
  <2>3. r.at = "connect.socket" /\ r.dev = req[p].dev
    BY <1>0 DEF Request
  <2> HIDE DEF r, u
  <2> QED BY <2>1, <2>2, <2>3, TakeRowKept, LocksKept, ConnectArguments DEF RoleGuard
<1>3. CASE ConnectSocket(p)
  <2> DEFINE r == [req[p] EXCEPT !.at = "connect.commit"]
             s == req[p].sock
  <2>1. req[p].at \in ConnectStages
    BY <1>3 DEF ConnectSocket, ConnectStages
  <2>2. /\ Available(p, s) /\ TakeRow(p, s, r) /\ UNCHANGED conn
        /\ ~HasRole(req[p].dev, req[p].role)
    BY <1>0, <1>3 DEF ConnectSocket, MayConnect, tables
  <2>3. r.at = "connect.commit" /\ r.dev = req[p].dev /\ r.role = req[p].role
    BY <1>0 DEF Request
  <2> HIDE DEF r, s
  <2>4. lock'[req[p].dev] = p /\ req'[p] = r
    BY <2>1, <2>2, TakeRowKept, LocksKept, ConnectArguments DEF RoleGuard
  <2>5. ~(\E c \in Conn : conn'[c].st = "live" /\ conn'[c].dev = r.dev /\ conn'[c].role = r.role)
    BY <2>2, <2>3 DEF HasRole, ConnsOfDevice, LiveConns
  <2> QED BY <2>3, <2>4, <2>5 DEF RoleGuard, HasRole, ConnsOfDevice, LiveConns
<1> QED BY <1>1, <1>2, <1>3 DEF StepOf, Arrives

\* What Connect writes is the connection of a device it holds.
LEMMA ConnectionsWritten ==
  ASSUME Shape, NEW p \in Proc, StepOf(p), NEW c \in Conn, conn'[c].st = "live"
  PROVE  \/ conn'[c] = conn[c]
         \/ /\ ConnectCommit(p)
            /\ c = req[p].conn /\ conn'[c].dev = req[p].dev /\ conn'[c].role = req[p].role
BY DEF StepOf, Writes, ConnectCommit, Shape, TypeOK

LEMMA OthersRoleGuard ==
  ASSUME Shape, NEW p \in Proc, StepOf(p), RoleGuard(p), NEW q \in Proc \ {p}, RoleGuard(q)
  PROVE  RoleGuard(q)'
<1> SUFFICES ASSUME req[q].at \in ConnectStages PROVE RoleGuard(q)'
  BY DEF StepOf, OthersKept, RoleGuard, ConnectStages
<1>1. req'[q] = req[q] /\ lock'[req[q].dev] = q
  BY ConnectArguments DEF StepOf, OthersKept, RoleGuard
<1>2. ASSUME NEW c \in Conn, conn'[c].st = "live", conn'[c].dev = req[q].dev
      PROVE  conn'[c] = conn[c]
  <2>1. ConnectCommit(p) => req[p].dev # req[q].dev
    BY DEF RoleGuard, ConnectCommit, ConnectStages
  <2> QED BY <1>2, <2>1, ConnectionsWritten
<1>3. req[q].at = "connect.commit" => ~HasRole(req[q].dev, req[q].role)'
  BY <1>1, <1>2 DEF RoleGuard, HasRole, ConnsOfDevice, LiveConns
<1> QED BY <1>1, <1>3 DEF RoleGuard

LEMMA RoleOnceStep ==
  ASSUME Shape, Roles, NEW p \in Proc, StepOf(p)
  PROVE  RoleOnce'
<1> SUFFICES ASSUME NEW c \in Conn, NEW e \in Conn, conn'[c].st = "live", conn'[e].st = "live",
                    conn'[c].dev = conn'[e].dev, conn'[c].role = conn'[e].role
             PROVE  c = e
  BY DEF RoleOnce, LiveConns
<1>1. CASE conn'[c] = conn[c] /\ conn'[e] = conn[e]
  BY <1>1 DEF Roles, RoleOnce, LiveConns
<1>2. CASE conn'[c] # conn[c] /\ conn'[e] # conn[e]
  BY <1>2, ConnectionsWritten
<1>3. ASSUME NEW a \in Conn, NEW b \in Conn, conn'[a] # conn[a], conn'[b] = conn[b],
             conn'[a].st = "live", conn'[b].st = "live"
      PROVE  ~(conn'[a].dev = conn'[b].dev /\ conn'[a].role = conn'[b].role)
  <2>1. ConnectCommit(p) /\ conn'[a].dev = req[p].dev /\ conn'[a].role = req[p].role
    BY <1>3, ConnectionsWritten
  <2>2. ~HasRole(req[p].dev, req[p].role)
    BY <2>1 DEF Roles, RoleGuard, ConnectCommit
  <2>3. ~(conn[b].dev = req[p].dev /\ conn[b].role = req[p].role)
    BY <1>3, <2>2 DEF HasRole, ConnsOfDevice, LiveConns
  <2> QED BY <1>3, <2>1, <2>3
<1> QED BY <1>1, <1>2, <1>3

LEMMA RolesNext == Shape /\ Roles /\ [Next]_vars => Roles'
<1> SUFFICES ASSUME Shape, Roles, [Next]_vars PROVE Roles'
  OBVIOUS
<1>1. CASE Statement
  BY <1>1 DEF Statement, Roles, RoleOnce, RoleGuard, HasRole, ConnsOfDevice, LiveConns
<1>2. ASSUME NEW p \in Proc, StepOf(p) PROVE Roles'
  BY <1>2, OwnRoleGuard, OthersRoleGuard, RoleOnceStep DEF Roles
<1> QED BY <1>1, <1>2, NextFrame

LEMMA RolesInit == Init => Roles
BY DEF Init, Roles, RoleOnce, RoleGuard, LiveConns, Idle, ConnectStages

\* A device has one connection per redundancy role: the check that Connect makes under
\* the device lock suffices, without the unique index of the database.
THEOREM RoleConnectedOnce == Spec => []RoleOnce
<1>1. Roles => RoleOnce
  BY DEF Roles
<1> QED BY <1>1, RolesInit, RolesNext, ShapeInvariant, PTL DEF Spec

-----------------------------------------------------------------------------
(* A decision is final *)

\* A request that executes an approval holds its row, which is still pending; one that
\* submits an approval has an id of its own.
TicketGuard(p) ==
  LET q == req[p] IN
    /\ q.at \in PlaceStages /\ q.ticket # None =>
         lock[q.ticket] = p /\ ticket[q.ticket].st = "PENDING"
    /\ q.at \in SubmitStages =>
         /\ ticket[q.ticket].st = "none"
         /\ \A o \in Proc \ {p} : req[o].at \in SubmitStages => req[o].ticket # q.ticket

Tickets == \A p \in Proc : TicketGuard(p)

LEMMA TicketArguments ==
  ASSUME Shape, NEW p \in Proc
  PROVE  /\ req[p] \in Request
         /\ req[p].ticket \in Ticket \cup {None}
         /\ req[p].at \in SubmitStages => req[p].ticket \in Ticket
         /\ Ticket \subseteq Row
BY DEF Shape, TypeOK, ArgumentsOK, Request, Row

\* Approvals are written by their decision, or inserted under a fresh id.
LEMMA TicketsWritten ==
  ASSUME Shape, Tickets, NEW p \in Proc, StepOf(p), NEW t \in Ticket, ticket'[t] # ticket[t]
  PROVE  /\ t = req[p].ticket
         /\ \/ /\ ticket[t].st = "PENDING" /\ lock[t] = p
               /\ ticket'[t] = [ticket[t] EXCEPT !.st = "APPROVED"]
            \/ /\ ticket[t].st = "none" /\ req[p].at \in SubmitStages
               /\ req'[p] = Idle
<1>0. ticket \in [Ticket -> TicketRow] /\ TicketGuard(p)
  BY DEF Shape, TypeOK, Tickets
<1>1. CASE PlaceCommit(p)
  BY <1>0, <1>1, NoneAssumption, TicketArguments DEF PlaceCommit, TicketGuard, PlaceStages
<1>2. CASE SubmitInsert(p)
  BY <1>0, <1>2, BeginKept, TicketArguments DEF SubmitInsert, TicketGuard, SubmitStages
<1> QED BY <1>1, <1>2 DEF StepOf, Writes

LEMMA TicketsStep ==
  ASSUME Shape, Tickets, NEW p \in Proc, StepOf(p)
  PROVE  DecidedOnce
<1> SUFFICES ASSUME NEW t \in Ticket, ticket[t].st # "none", ticket'[t] # ticket[t]
             PROVE  /\ ticket[t].st = "PENDING"
                    /\ ticket'[t] = [ticket[t] EXCEPT !.st = "APPROVED"]
  BY DEF DecidedOnce
<1> QED BY TicketsWritten

LEMMA StatementDecides ==
  ASSUME Shape, Statement
  PROVE  DecidedOnce
<1>1. ASSUME NEW t \in Ticket, Reject(t) PROVE DecidedOnce
  BY <1>1 DEF Reject, DecidedOnce, Shape, TypeOK
<1>2. CASE UNCHANGED ticket
  BY <1>2 DEF DecidedOnce
<1> QED BY <1>1, <1>2 DEF Statement

LEMMA StatementTickets ==
  ASSUME Shape, Tickets, Statement
  PROVE  Tickets'
<1> SUFFICES ASSUME NEW p \in Proc PROVE TicketGuard(p)'
  BY DEF Tickets
<1>1. TicketGuard(p) /\ UNCHANGED <<lock, req>>
  BY DEF Tickets, Statement
<1>2. ASSUME NEW t \in Ticket, Reject(t) PROVE TicketGuard(p)'
  <2>1. ticket[t].st = "PENDING" /\ lock[t] = None
    BY <1>2 DEF Reject, Unlocked
  <2>2. \A x \in Ticket \ {t} : ticket'[x] = ticket[x]
    BY <1>2 DEF Reject, Shape, TypeOK
  <2> QED BY <1>1, <2>1, <2>2, TicketArguments, NoneAssumption DEF TicketGuard
<1>3. CASE UNCHANGED ticket
  BY <1>1, <1>3 DEF TicketGuard
<1> QED BY <1>2, <1>3 DEF Statement

LEMMA OthersTicketGuard ==
  ASSUME Shape, Tickets, NEW p \in Proc, StepOf(p), NEW q \in Proc \ {p}
  PROVE  /\ req[q].at \in PlaceStages /\ req[q].ticket # None =>
              lock'[req[q].ticket] = q /\ ticket'[req[q].ticket].st = "PENDING"
         /\ req[q].at \in SubmitStages => ticket'[req[q].ticket].st = "none"
<1>1. TicketGuard(q) /\ TicketGuard(p)
  BY DEF Tickets
<1>2. ASSUME req[q].at \in PlaceStages, req[q].ticket # None
      PROVE  lock'[req[q].ticket] = q /\ ticket'[req[q].ticket].st = "PENDING"
  <2>1. req[q].ticket \in Ticket /\ req[q].ticket \in Row
    BY <1>2, TicketArguments
  <2>2. lock[req[q].ticket] = q /\ ticket[req[q].ticket].st = "PENDING"
    BY <1>1, <1>2 DEF TicketGuard
  <2>3. ticket'[req[q].ticket] = ticket[req[q].ticket]
    BY <2>1, <2>2, TicketsWritten
  <2> QED BY <2>1, <2>2, <2>3 DEF StepOf, OthersKept
<1>3. ASSUME req[q].at \in SubmitStages
      PROVE  ticket'[req[q].ticket].st = "none"
  <2>1. req[q].ticket \in Ticket /\ ticket[req[q].ticket].st = "none"
    BY <1>1, <1>3, TicketArguments DEF TicketGuard
  <2>2. req[p].at \in SubmitStages => req[p].ticket # req[q].ticket
    BY <1>1, <1>3 DEF TicketGuard
  <2> QED BY <2>1, <2>2, TicketsWritten
<1> QED BY <1>2, <1>3

LEMMA OwnTicketGuard ==
  ASSUME Shape, Tickets, NEW p \in Proc, StepOf(p)
  PROVE  /\ req'[p].at \in PlaceStages /\ req'[p].ticket # None =>
              lock'[req'[p].ticket] = p /\ ticket'[req'[p].ticket].st = "PENDING"
         /\ req'[p].at \in SubmitStages =>
              /\ ticket'[req'[p].ticket].st = "none"
              /\ \A o \in Proc \ {p} : req[o].at \in SubmitStages => req[o].ticket # req'[p].ticket
<1>0. req[p] \in Request /\ TicketGuard(p) /\ Idle.at \notin PlaceStages \cup SubmitStages
  BY TicketArguments DEF Tickets, Idle, PlaceStages, SubmitStages
<1>1. ASSUME req'[p].at \in PlaceStages, req'[p].ticket # None
      PROVE  lock'[req'[p].ticket] = p /\ ticket'[req'[p].ticket].st = "PENDING"
  <2>0. ~Rollback(p)
    BY <1>0, <1>1, EndTxKept DEF Rollback
  <2>1. ASSUME NEW op \in Operation, NEW d \in Device, NEW r0 \in Rack, NEW u \in StartUs,
               RequestPlace(p, op, d, r0, u)
        PROVE  FALSE
    <3> DEFINE r == [Idle EXCEPT !.at = "place.device", !.op = op, !.dev = d, !.rack = r0, !.startU = u]
    <3>1. Begin(p, r)
      BY <2>1 DEF RequestPlace
    <3>2. r.ticket = None
      BY DEF Idle
    <3> HIDE DEF r
    <3> QED BY <1>1, <3>1, <3>2, BeginKept
  <2>2. ASSUME NEW t \in Ticket, Approve(p, t)
        PROVE  lock'[req'[p].ticket] = p /\ ticket'[req'[p].ticket].st = "PENDING"
    <3> DEFINE r == [Idle EXCEPT !.at = "place.device", !.ticket = t, !.op = ticket[t].op,
                                 !.dev = ticket[t].dev, !.rack = ticket[t].rack,
                                 !.startU = ticket[t].startU]
    <3>1. TakeRow(p, t, r) /\ Available(p, t) /\ ticket'[t].st = "PENDING"
      BY <2>2, UnlockedAvailable DEF Approve, tables
    <3>2. r.ticket = t
      BY IdleRequest DEF Request
    <3> HIDE DEF r
    <3> QED BY <3>1, <3>2, TakeRowKept, TicketArguments
  <2>3. CASE PlaceDevice(p)
    <3> DEFINE r == [req[p] EXCEPT !.at = "place.rack", !.height = device[req[p].dev].height]
    <3>1. /\ TakeRow(p, req[p].dev, r) /\ Available(p, req[p].dev) /\ UNCHANGED ticket
          /\ req[p].at \in PlaceStages
      BY <2>0, <2>3 DEF PlaceDevice, tables, PlaceStages
    <3>2. r.ticket = req[p].ticket
      BY <1>0 DEF Request
    <3> HIDE DEF r
    <3> QED BY <1>0, <1>1, <3>1, <3>2, TakeRowKept, LocksKept, TicketArguments DEF TicketGuard
  <2>4. CASE PlaceRack(p)
    <3> DEFINE r == [req[p] EXCEPT !.at = "place.commit"]
    <3>1. /\ TakeRow(p, req[p].rack, r) /\ Available(p, req[p].rack) /\ UNCHANGED ticket
          /\ req[p].at \in PlaceStages
      BY <2>0, <2>4 DEF PlaceRack, tables, PlaceStages
    <3>2. r.ticket = req[p].ticket
      BY <1>0 DEF Request
    <3> HIDE DEF r
    <3> QED BY <1>0, <1>1, <3>1, <3>2, TakeRowKept, LocksKept, TicketArguments DEF TicketGuard
  <2> QED BY <1>1, <2>1, <2>2, <2>3, <2>4 DEF StepOf, Arrives
<1>2. ASSUME req'[p].at \in SubmitStages
      PROVE  /\ ticket'[req'[p].ticket].st = "none"
             /\ \A o \in Proc \ {p} : req[o].at \in SubmitStages => req[o].ticket # req'[p].ticket
  <2>1. ASSUME NEW t \in Ticket, NEW op \in Operation, NEW d \in Device, NEW r0 \in Rack,
               NEW u \in StartUs, RequestApproval(p, t, op, d, r0, u)
        PROVE  req'[p].ticket = t /\ ticket'[t].st = "none" /\ \A o \in Proc : req[o].ticket # t
    <3> DEFINE r == [Idle EXCEPT !.at = "submit.position", !.op = op, !.dev = d, !.rack = r0,
                                 !.ticket = t, !.startU = u, !.height = device[d].height,
                                 !.ver = device[d].ver,
                              !.was = pos[d]]
    <3>1. Begin(p, r) /\ ticket'[t].st = "none" /\ \A o \in Proc : req[o].ticket # t
      BY <2>1 DEF RequestApproval, FreshTicket, tables
    <3>2. r.ticket = t
      BY IdleRequest DEF Request
    <3> HIDE DEF r
    <3> QED BY <3>1, <3>2, BeginKept
  <2>2. CASE SubmitPosition(p)
    <3> PICK source : Begin(p, [req[p] EXCEPT !.at = "submit.insert", !.from = source])
      BY <2>2 DEF SubmitPosition
    <3> DEFINE r == [req[p] EXCEPT !.at = "submit.insert", !.from = source]
    <3>1. Begin(p, r) /\ UNCHANGED ticket /\ req[p].at \in SubmitStages
      BY <2>2 DEF SubmitPosition, tables, SubmitStages
    <3>2. r.ticket = req[p].ticket
      BY <1>0 DEF Request
    <3> HIDE DEF r
    <3> QED BY <1>0, <3>1, <3>2, BeginKept DEF TicketGuard
  <2> QED BY <1>2, <2>1, <2>2 DEF StepOf, Arrives
<1> QED BY <1>1, <1>2

LEMMA TicketsNext == Shape /\ Tickets /\ [Next]_vars => Tickets' /\ [DecidedOnce]_vars
<1> SUFFICES ASSUME Shape, Tickets, [Next]_vars PROVE Tickets' /\ DecidedOnce
  OBVIOUS
<1>1. CASE Statement
  BY <1>1, StatementTickets, StatementDecides
<1>2. ASSUME NEW p \in Proc, StepOf(p) PROVE Tickets' /\ DecidedOnce
  <2>1. \A q \in Proc \ {p} : req'[q] = req[q]
    BY <1>2 DEF StepOf, OthersKept
  <2>2. TicketGuard(p)'
    BY <1>2, <2>1, OwnTicketGuard DEF TicketGuard
  <2>3. ASSUME NEW q \in Proc \ {p} PROVE TicketGuard(q)'
    <3>1. \A o \in Proc \ {q} :
            req[q].at \in SubmitStages /\ req'[o].at \in SubmitStages => req'[o].ticket # req[q].ticket
      BY <1>2, <2>1, OwnTicketGuard DEF Tickets, TicketGuard
    <3> QED BY <1>2, <2>1, <3>1, OthersTicketGuard DEF TicketGuard
  <2> QED BY <1>2, <2>2, <2>3, TicketsStep DEF Tickets
<1> QED BY <1>1, <1>2, NextFrame

LEMMA TicketsInit == Init => Tickets
BY DEF Init, Tickets, TicketGuard, Idle, PlaceStages, SubmitStages

\* An approval is decided at most once, by whichever of two racing decisions gets its
\* row first: the conditional update and the row lock it takes suffice.
THEOREM DecidedForGood == Spec => DecisionFinal
BY TicketsInit, TicketsNext, ShapeInvariant, PTL DEF Spec, DecisionFinal
=============================================================================
