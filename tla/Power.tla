-------------------------------- MODULE Power --------------------------------
(***************************************************************************)
(* PDUs, their sockets and the connections through which they feed         *)
(* devices: internal/service/template_pdu.go (PDUService) and the          *)
(* repository methods it calls.                                            *)
(*                                                                         *)
(* Locks are taken in the order device, PDU, socket.  A socket's PDU and a *)
(* PDU's rack never change, so the unlocked GetSocket that only finds them *)
(* is part of the first locking step.  Versions of PDUs, sockets and       *)
(* connections only serve to refuse a request and are left out: a request  *)
(* that carries a stale one changes nothing.                               *)
(***************************************************************************)
EXTENDS Inventory

\* Row ids are fresh uuids: no row and no other request has them.
FreshPdu(u) == pdu[u].st = "none" /\ \A q \in Proc : req[q].pdu # u
FreshSocket(s) == sock[s].st = "none" /\ \A q \in Proc : req[q].sock # s
FreshConn(c) == conn[c].st = "none" /\ \A q \in Proc : req[q].conn # c

\* With a bug: the rack is read without being locked.
CreatePduRackUnlocked(p, u, r) ==
  /\ req[p].at = "idle" /\ FreshPdu(u) /\ LiveRack(r)
  /\ Begin(p, [Idle EXCEPT !.at = "pdu.create", !.pdu = u, !.rack = r])
  /\ UNCHANGED tables

CreatePduRack(p, u, r) ==
  /\ req[p].at = "idle"
  /\ FreshPdu(u)
  /\ Unlocked(r) /\ LiveRack(r)
  /\ TakeRow(p, r, [Idle EXCEPT !.at = "pdu.create", !.pdu = u, !.rack = r])
  /\ UNCHANGED tables

CreatePduCommit(p) ==
  /\ req[p].at = "pdu.create"
  /\ pdu' = [pdu EXCEPT ![req[p].pdu] = [st |-> "live", rack |-> req[p].rack]]
  /\ EndTx(p)
  /\ UNCHANGED <<device, rack, pos, hist, sock, conn, ticket, policy>>

\* GetPDULock, CountActiveConnectionsByPDU.
DeletePduCheck(p, u) ==
  /\ req[p].at = "idle"
  /\ Unlocked(u) /\ LivePdu(u)
  /\ ConnsOfPdu(u) = {}
  /\ TakeRow(p, u, [Idle EXCEPT !.at = "pdu.delete", !.pdu = u])
  /\ UNCHANGED tables

SocketsOfPdu(u) == {s \in Socket : LiveSocket(s) /\ sock[s].pdu = u}

\* Soft deletion of a PDU and of the sockets that are part of it.
PduGone(u) == [pdu EXCEPT ![u].st = "deleted"]
SocketsGone(u) ==
  [s \in Socket |-> IF s \in SocketsOfPdu(u) THEN [sock[s] EXCEPT !.st = "deleted"] ELSE sock[s]]

DeletePduCommit(p) ==
  /\ req[p].at = "pdu.delete"
  /\ pdu' = PduGone(req[p].pdu)
  /\ sock' = SocketsGone(req[p].pdu)
  /\ EndTx(p)
  /\ UNCHANGED <<device, rack, pos, hist, conn, ticket, policy>>

\* With a bug: the impact is counted before the PDU is locked.
ArchivePduCheckUnlocked(p, u, n) ==
  /\ req[p].at = "idle" /\ LivePdu(u) /\ n = Cardinality(ConnsOfPdu(u))
  /\ Begin(p, [Idle EXCEPT !.at = "pdu.archive", !.pdu = u, !.count = n])
  /\ UNCHANGED tables

\* The administrator confirms n connections; the impact is counted again under the
\* lock of the PDU row and any other number is refused.
ArchivePduCheck(p, u, n) ==
  /\ req[p].at = "idle"
  /\ Unlocked(u) /\ LivePdu(u)
  /\ n = Cardinality(ConnsOfPdu(u))
  /\ TakeRow(p, u, [Idle EXCEPT !.at = "pdu.archive", !.pdu = u, !.count = n])
  /\ UNCHANGED tables

\* ForceArchivePDUTx closes the connections on every socket of the PDU, those on a
\* deleted socket included.
ArchivedConns(u) == {c \in LiveConns : sock[conn[c].sock].pdu = u}

ArchivePduCommit(p) ==
  /\ req[p].at = "pdu.archive"
  /\ LET u == req[p].pdu IN
       /\ conn' = [c \in Conn |-> IF c \in ArchivedConns(u) THEN [conn[c] EXCEPT !.st = "deleted"] ELSE conn[c]]
       /\ sock' = SocketsGone(u)
       /\ pdu' = PduGone(u)
  /\ EndTx(p)
  /\ UNCHANGED <<device, rack, pos, hist, ticket, policy>>

CreateSocketPdu(p, s, u) ==
  /\ req[p].at = "idle"
  /\ FreshSocket(s)
  /\ Unlocked(u) /\ LivePdu(u)
  /\ TakeRow(p, u, [Idle EXCEPT !.at = "socket.create", !.sock = s, !.pdu = u])
  /\ UNCHANGED tables

CreateSocketCommit(p) ==
  /\ req[p].at = "socket.create"
  /\ sock' = [sock EXCEPT ![req[p].sock] =
                 [st |-> "live", pdu |-> req[p].pdu, status |-> "AVAILABLE"]]
  /\ EndTx(p)
  /\ UNCHANGED <<device, rack, pos, hist, pdu, conn, ticket, policy>>

\* UpdateSocket and DeleteSocket: GetSocket, then the lock of its PDU.
ChangeSocketPdu(p, op, s) ==
  /\ req[p].at = "idle"
  /\ LiveSocket(s)
  /\ Unlocked(sock[s].pdu) /\ LivePdu(sock[s].pdu)
  /\ TakeRow(p, sock[s].pdu, [Idle EXCEPT !.at = "socket.row", !.op = op, !.sock = s])
  /\ UNCHANGED tables

\* The socket is locked and read again; a connected one is not deleted.
ChangeSocketRow(p) ==
  /\ req[p].at = "socket.row"
  /\ LET s == req[p].sock
         allowed == LiveSocket(s) /\ (req[p].op = "DELETE" => ConnsOfSocket(s) = {})
     IN /\ Available(p, s)
        /\ \/ /\ allowed
              /\ TakeRow(p, s, [req[p] EXCEPT !.at = "socket.commit", !.status = sock[s].status])
              /\ UNCHANGED tables
           \/ ~allowed /\ Rollback(p)

\* UpdateSocket writes back the status it read; DeleteSocket soft-deletes.
ChangeSocketCommit(p) ==
  /\ req[p].at = "socket.commit"
  /\ LET s == req[p].sock IN
       sock' = IF req[p].op = "UPDATE" THEN [sock EXCEPT ![s].status = req[p].status]
                                       ELSE [sock EXCEPT ![s].st = "deleted"]
  /\ EndTx(p)
  /\ UNCHANGED <<device, rack, pos, hist, pdu, conn, ticket, policy>>

\* With bugs: the device is not locked; the socket is locked first and the PDU after it.
ConnectDeviceUnlocked(p, c, s, d, role) ==
  /\ req[p].at = "idle" /\ FreshConn(c) /\ LiveSocket(s) /\ LiveDevice(d)
  /\ Begin(p, [Idle EXCEPT !.at = "connect.pdu", !.dev = d, !.sock = s, !.role = role, !.conn = c])
  /\ UNCHANGED tables
ConnectSocketFirst(p, c, s, d, role) ==
  /\ req[p].at = "idle" /\ FreshConn(c) /\ LiveSocket(s) /\ LiveDevice(d) /\ Unlocked(s)
  /\ TakeRow(p, s, [Idle EXCEPT !.at = "connect.pdu", !.dev = d, !.sock = s, !.role = role, !.conn = c])
  /\ UNCHANGED tables

\* Connect: GetSocket, then the device row, the PDU row and the socket row.
ConnectDevice(p, c, s, d, role) ==
  /\ req[p].at = "idle"
  /\ FreshConn(c) /\ LiveSocket(s)
  /\ Unlocked(d) /\ LiveDevice(d)
  /\ TakeRow(p, d, [Idle EXCEPT !.at = "connect.pdu", !.dev = d, !.sock = s,
                            !.role = role, !.conn = c])
  /\ UNCHANGED tables

ConnectPdu(p) ==
  /\ req[p].at = "connect.pdu"
  /\ LET u == sock[req[p].sock].pdu IN
       /\ Available(p, u)
       /\ \/ /\ LivePdu(u)
             /\ TakeRow(p, u, [req[p] EXCEPT !.at = "connect.socket"])
             /\ UNCHANGED tables
          \/ ~LivePdu(u) /\ Rollback(p)

\* DeviceHasRoleConnection
HasRole(d, role) == \E c \in ConnsOfDevice(d) : conn[c].role = role

\* With a bug: the device may have a connection of that role already.
MayConnectAnyRole(s, d, role) ==
  /\ LiveSocket(s) /\ sock[s].status # "CONNECTED"
  /\ Positioned(d) /\ pos[d].rack = pdu[sock[s].pdu].rack

\* What Connect checks once it holds device, PDU and socket.
MayConnect(s, d, role) ==
  /\ LiveSocket(s) /\ sock[s].status # "CONNECTED"
  /\ Positioned(d) /\ pos[d].rack = pdu[sock[s].pdu].rack
  /\ ~HasRole(d, role)

ConnectSocket(p) ==
  /\ req[p].at = "connect.socket"
  /\ LET s == req[p].sock
         allowed == MayConnect(s, req[p].dev, req[p].role)
     IN /\ Available(p, s)
        /\ \/ /\ allowed
              /\ TakeRow(p, s, [req[p] EXCEPT !.at = "connect.commit"])
              /\ UNCHANGED tables
           \/ ~allowed /\ Rollback(p)

\* CreateConnection, UpdateSocketStatus.
ConnectCommit(p) ==
  /\ req[p].at = "connect.commit"
  /\ conn' = [conn EXCEPT ![req[p].conn] = [st |-> "live", sock |-> req[p].sock,
                                            dev |-> req[p].dev, role |-> req[p].role]]
  /\ sock' = [sock EXCEPT ![req[p].sock].status = "CONNECTED"]
  /\ EndTx(p)
  /\ UNCHANGED <<device, rack, pos, hist, pdu, ticket, policy>>

\* Disconnect: GetConnection and GetSocket without a lock; the device is not locked.
RequestDisconnect(p, c) ==
  /\ req[p].at = "idle"
  /\ c \in LiveConns /\ LiveSocket(conn[c].sock)
  /\ Begin(p, [Idle EXCEPT !.at = "disconnect.pdu", !.conn = c, !.sock = conn[c].sock])
  /\ UNCHANGED tables

DisconnectPdu(p) ==
  /\ req[p].at = "disconnect.pdu"
  /\ LET u == sock[req[p].sock].pdu IN
       /\ Available(p, u)
       /\ \/ /\ LivePdu(u)
             /\ TakeRow(p, u, [req[p] EXCEPT !.at = "disconnect.socket"])
             /\ UNCHANGED tables
          \/ ~LivePdu(u) /\ Rollback(p)

DisconnectSocket(p) ==
  /\ req[p].at = "disconnect.socket"
  /\ LET s == req[p].sock IN
       /\ Available(p, s)
       /\ \/ /\ LiveSocket(s)
             /\ TakeRow(p, s, [req[p] EXCEPT !.at = "disconnect.commit"])
             /\ UNCHANGED tables
          \/ ~LiveSocket(s) /\ Rollback(p)

\* With a bug: the socket is freed even if the connection was closed meanwhile.
DisconnectCommitAnyway(p) ==
  /\ req[p].at = "disconnect.commit"
  /\ conn' = [conn EXCEPT ![req[p].conn].st = "deleted"]
  /\ sock' = [sock EXCEPT ![req[p].sock].status = "AVAILABLE"]
  /\ EndTx(p)
  /\ UNCHANGED <<device, rack, pos, hist, pdu, ticket, policy>>

\* SoftDeleteConnection finds the connection live or the transaction rolls back.
DisconnectCommit(p) ==
  /\ req[p].at = "disconnect.commit"
  /\ req[p].conn \in LiveConns
  /\ conn' = [conn EXCEPT ![req[p].conn].st = "deleted"]
  /\ sock' = [sock EXCEPT ![req[p].sock].status = "AVAILABLE"]
  /\ EndTx(p)
  /\ UNCHANGED <<device, rack, pos, hist, pdu, ticket, policy>>

DisconnectConflict(p) ==
  /\ req[p].at = "disconnect.commit"
  /\ req[p].conn \notin LiveConns
  /\ Rollback(p)

PowerStep(p) ==
  \/ CreatePduCommit(p) \/ DeletePduCommit(p) \/ ArchivePduCommit(p)
  \/ CreateSocketCommit(p) \/ ChangeSocketRow(p) \/ ChangeSocketCommit(p)
  \/ ConnectPdu(p) \/ ConnectSocket(p) \/ ConnectCommit(p)
  \/ DisconnectPdu(p) \/ DisconnectSocket(p) \/ DisconnectCommit(p) \/ DisconnectConflict(p)

PowerCall ==
  \E p \in Proc :
    \/ \E u \in Pdu, r \in Rack : CreatePduRack(p, u, r)
    \/ \E u \in Pdu : DeletePduCheck(p, u)
    \/ \E u \in Pdu, n \in 0 .. Cardinality(Conn) : ArchivePduCheck(p, u, n)
    \/ \E s \in Socket, u \in Pdu : CreateSocketPdu(p, s, u)
    \/ \E op \in {"UPDATE", "DELETE"}, s \in Socket : ChangeSocketPdu(p, op, s)
    \/ \E c \in Conn, s \in Socket, d \in Device, role \in Role : ConnectDevice(p, c, s, d, role)
    \/ \E c \in Conn : RequestDisconnect(p, c)
-----------------------------------------------------------------------------
(* Properties *)

\* A live connection leads from a live device through a live socket of a live PDU,
\* and the device is mounted in the PDU's rack.  Connect, the placement operations
\* and the deletions each check their part of this under different row locks.
SamePlacePower ==
  \A c \in LiveConns :
    LET d == conn[c].dev  s == conn[c].sock  u == sock[s].pdu IN
      /\ LiveDevice(d) /\ LiveSocket(s) /\ LivePdu(u) /\ LiveRack(pdu[u].rack)
      /\ pos[d].rack = pdu[u].rack

\* The cached status of a socket tells the truth: CONNECTED exactly while one live
\* connection uses it.  UpdateSocket writes the status it has read, and a late
\* Disconnect must not free a socket that has been connected again.
SocketStatusTruth ==
  \A s \in Socket : LiveSocket(s) =>
    /\ sock[s].status = "CONNECTED" <=> ConnsOfSocket(s) # {}
    /\ \A c, e \in ConnsOfSocket(s) : c = e

\* A device has one connection per redundancy role.  The unique index on
\* (device_id, redundancy_role) is not part of the model: the check Connect makes
\* under the device lock must suffice.
RoleOnce ==
  \A c, e \in LiveConns : conn[c].dev = conn[e].dev /\ conn[c].role = conn[e].role => c = e

\* The step that retires a PDU leaves no connection on it and closes as many as its
\* request confirmed: those of the impact list for a forced archive, none for a
\* deletion.
RetiresOnlyConfirmed ==
  [][\A u \in Pdu : pdu[u].st = "live" /\ pdu'[u].st = "deleted" =>
       /\ \A c \in LiveConns : sock[conn[c].sock].pdu = u => conn'[c].st = "deleted"
       /\ \E p \in Proc : /\ req[p].at \in {"pdu.archive", "pdu.delete"} /\ req[p].pdu = u
                         /\ Cardinality(LiveConns \ LiveConns') = req[p].count]_vars
=============================================================================
