------------------------------ MODULE Invariant ------------------------------
(***************************************************************************)
(* The inductive invariant of the inventory core, in layers: what the      *)
(* fields of requests and rows hold (Shape), which rows a transaction has  *)
(* locked at each of its stages (Locks) and which ids are its own (Fresh), *)
(* what it may rely on because of those locks or of the versions it has    *)
(* read (Facts), and how the tables agree (Consistent).                    *)
(***************************************************************************)
EXTENDS Dcim

PlaceStages == {"place.device", "place.rack", "place.commit"}
SubmitStages == {"submit.position", "submit.insert"}
ConnectStages == {"connect.pdu", "connect.socket", "connect.commit"}
DisconnectStages == {"disconnect.pdu", "disconnect.socket", "disconnect.commit"}
ChangeSocketStages == {"socket.row", "socket.commit"}

DeviceStages ==
  PlaceStages \cup SubmitStages \cup ConnectStages
    \cup {"update.position", "update.write", "delete.write", "off.commit"}
RackStages == PlaceStages \cup SubmitStages \cup {"retire.commit", "pdu.create"}
PduStages == {"pdu.create", "pdu.delete", "pdu.archive", "socket.create"}
\* The stages of requests about a socket that exists.
SocketStages == ConnectStages \cup DisconnectStages \cup ChangeSocketStages

\* A request's arguments at each stage.
ArgumentsOK(q) ==
  /\ q.at \in DeviceStages => q.dev \in Device
  /\ q.at \in RackStages => q.rack \in Rack
  /\ q.at \in PduStages => q.pdu \in Pdu
  /\ q.at = "socket.create" => q.sock \in Socket
  /\ q.at \in SocketStages => q.sock \in Socket
  /\ q.at \in ConnectStages \cup DisconnectStages => q.conn \in Conn
  /\ q.at \in ConnectStages => q.role \in Role
  /\ q.at \in PlaceStages \cup SubmitStages => q.op \in Operation
  /\ q.at \in SubmitStages => q.ticket \in Ticket

\* The foreign keys of rows that were written.
ForeignKeys ==
  /\ \A u \in Pdu : pdu[u].st # "none" => pdu[u].rack \in Rack
  /\ \A s \in Socket : sock[s].st # "none" => sock[s].pdu \in Pdu
  /\ \A c \in Conn : conn[c].st # "none" =>
       conn[c].sock \in Socket /\ sock[conn[c].sock].st # "none" /\ conn[c].dev \in Device
  /\ \A t \in Ticket : ticket[t].st # "none" =>
       ticket[t].dev \in Device /\ ticket[t].rack \in Rack /\ ticket[t].op \in Operation

\* The rows a request is about have been inserted before it.
Found(q) ==
  /\ q.at \in {"pdu.delete", "pdu.archive"} => pdu[q.pdu].st # "none"
  /\ q.at \in SocketStages => sock[q.sock].st # "none"
  /\ q.at \in PlaceStages /\ q.ticket # None => ticket[q.ticket].st # "none"

RowsOK == ForeignKeys /\ \A p \in Proc : Found(req[p])

\* First layer.
Shape == TypeOK /\ (\A p \in Proc : ArgumentsOK(req[p])) /\ RowsOK
-----------------------------------------------------------------------------
(* Second layer: row locks and fresh ids *)

\* The stages of requests that hold the PDU of their socket.
BelowPduStages ==
  ChangeSocketStages \cup {"connect.socket", "connect.commit", "disconnect.socket", "disconnect.commit"}
SocketCommits == {"socket.commit", "connect.commit", "disconnect.commit"}

\* A request at its stage holds row x.
Holds(q, x) ==
  \/ q.at \in PlaceStages /\ x = q.ticket
  \/ q.at \in {"place.rack", "place.commit", "off.commit"} \cup ConnectStages /\ x = q.dev
  \/ q.at \in {"place.commit", "retire.commit", "pdu.create"} /\ x = q.rack
  \/ q.at \in {"pdu.delete", "pdu.archive", "socket.create"} /\ x = q.pdu
  \/ q.at \in BelowPduStages /\ x = sock[q.sock].pdu
  \/ q.at \in SocketCommits /\ x = q.sock

\* Second layer: a transaction has locked what its stage says, no less and no more.
Locks == \A p \in Proc : \A x \in Row : lock[x] = p <=> Holds(req[p], x)

\* The ids that requests hold for rows they will insert.
FreshRows(q) ==
  /\ q.at = "pdu.create" => pdu[q.pdu].st = "none"
  /\ q.at = "socket.create" => sock[q.sock].st = "none"
  /\ q.at \in ConnectStages => conn[q.conn].st = "none"
  /\ q.at \in SubmitStages => ticket[q.ticket].st = "none"

SameRow(q, o) ==
  \/ q.at = "pdu.create" /\ o.at = "pdu.create" /\ q.pdu = o.pdu
  \/ q.at = "socket.create" /\ o.at = "socket.create" /\ q.sock = o.sock
  \/ q.at \in ConnectStages /\ o.at \in ConnectStages /\ q.conn = o.conn
  \/ q.at \in SubmitStages /\ o.at \in SubmitStages /\ q.ticket = o.ticket

Fresh ==
  /\ \A p \in Proc : FreshRows(req[p])
  /\ \A p \in Proc : \A o \in Proc \ {p} : ~SameRow(req[p], req[o])

-----------------------------------------------------------------------------
(* Third layer: what a request may rely on at each stage *)

Unfed(d) == \A c \in Conn : conn[c].st = "live" => conn[c].dev # d

\* While it holds the device.
DeviceFacts(q) ==
  LET d == q.dev IN
    /\ q.at \in {"place.rack", "place.commit", "off.commit"} => LiveDevice(d) /\ Unfed(d)
    /\ q.at \in {"place.rack", "place.commit"} =>
         /\ q.height = device[d].height
         /\ q.op = "ASSIGN" => device[d].life \in {"WAITING_RACK", "OFF_RACK"}
    /\ q.at \in ConnectStages => LiveDevice(d)
    /\ q.at = "connect.commit" =>
         /\ Positioned(d) /\ pos[d].rack = pdu[sock[q.sock].pdu].rack
         /\ ~HasRole(d, q.role)

\* While it holds the rack.
RackFacts(q) ==
  /\ q.at = "place.commit" => q.height >= 1 /\ Fits(q.dev, Target(q))
  /\ q.at \in {"retire.commit", "pdu.create"} => LiveRack(q.rack)
  /\ q.at = "retire.commit" =>
       /\ \A e \in Device : pos[e].rack # q.rack
       /\ \A u \in Pdu : pdu[u].st = "live" => pdu[u].rack # q.rack

\* While it holds the PDU, and with it all its sockets and connections.
PduFacts(q) ==
  LET s == q.sock IN
    /\ q.at \in {"pdu.delete", "pdu.archive", "socket.create"} => LivePdu(q.pdu)
    /\ q.at = "pdu.delete" =>
         q.count = 0 /\ \A c \in Conn : conn[c].st = "live" => sock[conn[c].sock].pdu # q.pdu
    /\ q.at = "pdu.archive" => q.count = Cardinality(ConnsOfPdu(q.pdu))
    /\ q.at \in BelowPduStages => LivePdu(sock[s].pdu)
    /\ q.at \in SocketCommits => LiveSocket(s)
    /\ q.at \in ChangeSocketStages => q.op \in {"UPDATE", "DELETE"}
    /\ q.at = "socket.commit" =>
         /\ q.op = "UPDATE" => q.status = sock[s].status
         /\ q.op # "UPDATE" => \A c \in Conn : conn[c].st = "live" => conn[c].sock # s
    /\ q.at = "connect.commit" => sock[s].status # "CONNECTED"
    /\ q.at \in DisconnectStages => conn[q.conn].st # "none" /\ conn[q.conn].sock = s

\* What was read without a lock is true while the version is the one that was read.
VersionFacts(q) ==
  LET d == q.dev IN
    q.at \in {"update.position", "update.write", "delete.write"} \cup SubmitStages =>
      /\ q.ver =< device[d].ver
      /\ q.ver = device[d].ver =>
           /\ q.at = "update.write" => ~Positioned(d) \/ q.height = device[d].height
           /\ q.at = "delete.write" => ~Positioned(d)
           /\ q.at \in SubmitStages => q.height = device[d].height /\ q.was = pos[d]
           /\ q.at = "submit.insert" => q.from \in {pos[d], NoPlace}

\* While it holds the approval it executes.
TicketFacts(q) ==
  q.at \in PlaceStages /\ q.ticket # None =>
    LET t == ticket[q.ticket] IN
      /\ t.st = "PENDING"
      /\ t.op = q.op /\ t.dev = q.dev /\ t.rack = q.rack /\ t.startU = q.startU
      /\ q.at # "place.device" => t.ver = device[q.dev].ver

FactsOf(q) ==
  DeviceFacts(q) /\ RackFacts(q) /\ PduFacts(q) /\ VersionFacts(q) /\ TicketFacts(q)

Facts == \A p \in Proc : FactsOf(req[p])

-----------------------------------------------------------------------------
(* Fourth layer: the tables agree with one another *)

\* A position without a rack is the one place that is none.
Vacant == \A d \in Device : ~Positioned(d) => pos[d] = NoPlace

\* A device that was never inserted has no version.
Unborn == \A d \in Device : device[d].st = "none" => device[d].ver = 0

\* What exists rests on what exists.
Containment ==
  /\ \A u \in Pdu : LivePdu(u) => LiveRack(pdu[u].rack)
  /\ \A s \in Socket : LiveSocket(s) => LivePdu(sock[s].pdu)

\* The snapshot of a pending request is true while its device has the recorded version;
\* a failed lookup leaves the source out of it.
Snapshots ==
  \A t \in Ticket : ticket[t].st = "PENDING" =>
    LET d == ticket[t].dev IN
      /\ ticket[t].ver =< device[d].ver
      /\ ticket[t].ver = device[d].ver =>
           /\ ticket[t].height = device[d].height /\ ticket[t].was = pos[d]
           /\ ticket[t].from \in {pos[d], NoPlace}

Consistent ==
  /\ FootprintsDisjoint /\ NoGhostPosition /\ PositionMatchesDevice /\ Vacant /\ Unborn
  /\ Containment /\ SamePlacePower /\ SocketStatusTruth /\ RoleOnce /\ Snapshots

\* The inductive invariant.
Inductive == Shape /\ Locks /\ Fresh /\ Facts /\ Consistent
=============================================================================
