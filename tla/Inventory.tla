------------------------------ MODULE Inventory ------------------------------
(***************************************************************************)
(* The PostgreSQL tables the inventory services share, the row locks of    *)
(* open transactions and the requests the HTTP handlers are executing.     *)
(*                                                                         *)
(* A request of process p (one handler goroutine) is req[p]: a record of   *)
(* its arguments, of what it has read so far and of the statement it is    *)
(* about to run (field "at").  A transaction is a sequence of steps: every *)
(* SELECT ... FOR UPDATE, with the checks that follow it, is one step, and *)
(* the writes up to COMMIT are one step, since none of them is visible to  *)
(* another transaction before COMMIT (Read Committed).  lock[x] = p while  *)
(* p's transaction holds row x FOR UPDATE.                                 *)
(*                                                                         *)
(* Rows are never removed (soft deletion sets deleted_at) and their uuids  *)
(* are never reused: st goes none -> live -> deleted.                      *)
(***************************************************************************)
EXTENDS Integers, Sequences, FiniteSets

CONSTANTS
  Proc,         \* concurrently served HTTP requests
  Device, Rack, Pdu, Socket, Conn, Ticket,   \* row ids; Ticket: approval_records
  Role,         \* redundancy roles of a power connection
  None,         \* no row
  Heights,      \* heightU values requests carry
  UHeights,     \* uHeight values requests carry
  StartUs,      \* startU values requests carry
  Lives,        \* lifecycle states a client may give a new device
  Statuses,     \* status values requests give a rack
  MaxVersion    \* bound: no transaction starts on a device row above it

Row == Device \cup Rack \cup Pdu \cup Socket \cup Ticket

Lifecycle ==
  {"WAITING_RACK", "RUNNING", "MAINTENANCE", "PENDING_REMOVAL", "OFF_RACK", "SCRAPPED"}
\* PARTIAL, FULL and MAINTENANCE racks accept devices like AVAILABLE ones.
RackStatus == {"AVAILABLE", "PLANNING", "DISABLED"}

\* None names no row, and no row id is the id of two rows.
ASSUME NoneAssumption == None \notin Row \cup Proc \cup Conn \cup Role
ASSUME RowAssumption ==
  /\ Device \cap Rack = {} /\ Device \cap Pdu = {} /\ Device \cap Socket = {}
  /\ Device \cap Ticket = {} /\ Rack \cap Pdu = {} /\ Rack \cap Socket = {}
  /\ Rack \cap Ticket = {} /\ Pdu \cap Socket = {} /\ Pdu \cap Ticket = {}
  /\ Socket \cap Ticket = {}
ASSUME InputAssumption ==
  /\ Heights \subseteq Int /\ UHeights \subseteq Int /\ StartUs \subseteq Int
  /\ Lives \subseteq Lifecycle /\ Statuses \subseteq RackStatus

VARIABLES
  device,   \* devices
  rack,     \* racks
  pos,      \* rack_device_positions with its rack_u_occupancies row, per device
  hist,     \* device_position_history, per device
  pdu,      \* pdus
  sock,     \* pdu_sockets
  conn,     \* pdu_connections
  ticket,   \* approval_records
  policy,   \* operation_policies: which operations need approval
  lock,     \* row -> the process whose transaction holds it FOR UPDATE
  req       \* process -> its request

tables == <<device, rack, pos, hist, pdu, sock, conn, ticket, policy>>
vars == <<device, rack, pos, hist, pdu, sock, conn, ticket, policy, lock, req>>

Existence == {"none", "live", "deleted"}
SocketStatus == {"AVAILABLE", "CONNECTED"}

DeviceRow == [st: Existence, ver: Nat, life: Lifecycle, height: Int]
RackRow == [st: Existence, status: RackStatus, uHeight: Int]
PduRow == [st: Existence, rack: Rack \cup {None}]
SocketRow == [st: Existence, pdu: Pdu \cup {None}, status: SocketStatus]
ConnRow == [st: Existence, sock: Socket \cup {None}, dev: Device \cup {None}, role: Role \cup {None}]

Place == [rack: Rack \cup {None}, startU: Int, endU: Int]
NoPlace == [rack |-> None, startU |-> 0, endU |-> 0]

HistoryRow == [op: {"ASSIGN", "MOVE", "DECOMMISSION"}, from: Place, to: Place]

TicketRow ==
  [st: {"none", "PENDING", "APPROVED", "REJECTED"}, op: {"none", "ASSIGN", "MOVE"},
   dev: Device \cup {None}, ver: Nat, height: Int, from: Place,
   was: Place, rack: Rack \cup {None}, startU: Int]

Stage ==
  {"idle", "place.device", "place.rack", "place.commit", "update.position",
   "update.write", "delete.write", "off.commit", "retire.commit",
   "pdu.create", "pdu.delete", "pdu.archive", "socket.create",
   "socket.row", "socket.commit", "connect.pdu", "connect.socket",
   "connect.commit", "disconnect.pdu", "disconnect.socket",
   "disconnect.commit", "submit.position", "submit.insert"}

Intent == {"none", "ASSIGN", "MOVE", "UPDATE", "DELETE"}

Request ==
  [at: Stage, op: Intent,
   dev: Device \cup {None}, rack: Rack \cup {None}, startU: Int, height: Int,
   ver: Nat, from: Place, was: Place, pdu: Pdu \cup {None}, sock: Socket \cup {None},
   conn: Conn \cup {None}, role: Role \cup {None}, ticket: Ticket \cup {None},
   status: SocketStatus, count: Nat]

Idle ==
  [at |-> "idle", op |-> "none", dev |-> None, rack |-> None, startU |-> 0,
   height |-> 0, ver |-> 0, from |-> NoPlace, was |-> NoPlace, pdu |-> None,
   sock |-> None, conn |-> None, role |-> None, ticket |-> None, status |-> "AVAILABLE",
   count |-> 0]

(***************************************************************************)
(* Every variable has its type.                                            *)
(***************************************************************************)
TypeOK ==
  /\ device \in [Device -> DeviceRow]
  /\ rack \in [Rack -> RackRow]
  /\ pos \in [Device -> Place]
  /\ hist \in [Device -> Seq(HistoryRow)]
  /\ pdu \in [Pdu -> PduRow]
  /\ sock \in [Socket -> SocketRow]
  /\ conn \in [Conn -> ConnRow]
  /\ ticket \in [Ticket -> TicketRow]
  /\ policy \in [{"ASSIGN", "MOVE"} -> BOOLEAN]
  /\ lock \in [Row -> Proc \cup {None}]
  /\ req \in [Proc -> Request]

\* The schema after the migrations: the tables are empty; the policy row that GetPolicy
\* creates when it is first read asks for no approval.
Init ==
  /\ device = [d \in Device |-> [st |-> "none", ver |-> 0, life |-> "WAITING_RACK", height |-> 1]]
  /\ rack = [r \in Rack |-> [st |-> "none", status |-> "AVAILABLE", uHeight |-> 0]]
  /\ pos = [d \in Device |-> NoPlace]
  /\ hist = [d \in Device |-> << >>]
  /\ pdu = [u \in Pdu |-> [st |-> "none", rack |-> None]]
  /\ sock = [s \in Socket |-> [st |-> "none", pdu |-> None, status |-> "AVAILABLE"]]
  /\ conn = [c \in Conn |-> [st |-> "none", sock |-> None, dev |-> None, role |-> None]]
  /\ ticket = [t \in Ticket |-> [st |-> "none", op |-> "none", dev |-> None, ver |-> 0,
                                 height |-> 0, from |-> NoPlace, was |-> NoPlace, rack |-> None, startU |-> 0]]
  /\ policy = [op \in {"ASSIGN", "MOVE"} |-> FALSE]
  /\ lock = [x \in Row |-> None]
  /\ req = [p \in Proc |-> Idle]

-----------------------------------------------------------------------------
(* Requests and row locks *)

Unlocked(x) == lock[x] = None

\* With a bug: a SELECT that forgets FOR UPDATE waits for nobody.
AvailableUnlocked(p, x) == TRUE

\* p can have row x FOR UPDATE now: nobody holds it, or p's own transaction does.
Available(p, x) == lock[x] \in {None, p}

\* p starts a request whose next statement is described by r; it holds nothing yet.
Begin(p, r) == req' = [req EXCEPT ![p] = r] /\ UNCHANGED lock

\* p's SELECT ... FOR UPDATE returned row x; r describes what p does next.
TakeRow(p, x, r) ==
  /\ lock' = [lock EXCEPT ![x] = p]
  /\ req' = [req EXCEPT ![p] = r]

\* COMMIT or ROLLBACK: the transaction's row locks are released, the handler answers.
EndTx(p) ==
  /\ lock' = [x \in Row |-> IF lock[x] = p THEN None ELSE lock[x]]
  /\ req' = [req EXCEPT ![p] = Idle]

\* With a bug: the transaction is abandoned, not rolled back.
RollbackForgotten(p) == req' = [req EXCEPT ![p] = Idle] /\ UNCHANGED <<lock, tables>>

\* Any error inside the closure of DB().Transaction: nothing was written.
Rollback(p) == EndTx(p) /\ UNCHANGED tables

\* A statement of p's fails, its context is cancelled or the server process dies:
\* PostgreSQL rolls the open transaction back.
Crash(p) == req[p].at # "idle" /\ Rollback(p)

-----------------------------------------------------------------------------
(* Queries *)

LiveDevice(d) == d \in Device /\ device[d].st = "live"
LiveRack(r) == r \in Rack /\ rack[r].st = "live"
LivePdu(u) == u \in Pdu /\ pdu[u].st = "live"
LiveSocket(s) == s \in Socket /\ sock[s].st = "live"

\* GetActivePosition finds a row.
Positioned(d) == pos[d].rack # None

\* CountActivePositions
Occupants(r) == {d \in Device : pos[d].rack = r}

LiveConns == {c \in Conn : conn[c].st = "live"}
ConnsOfDevice(d) == {c \in LiveConns : conn[c].dev = d}
ConnsOfSocket(s) == {c \in LiveConns : conn[c].sock = s}
\* CountActiveConnectionsByPDU and PDUImpact: live connections on live sockets of u.
ConnsOfPdu(u) ==
  {c \in LiveConns : LiveSocket(conn[c].sock) /\ sock[conn[c].sock].pdu = u}

\* Mutant: a unit shared at one end is no overlap.
RangesOverlapStrictly(a, b) == a.startU < b.endU /\ b.startU < a.endU
RangesOverlap(a, b) == a.startU =< b.endU /\ b.startU =< a.endU

\* Some device other than d occupies part of place w.
Taken(d, w) ==
  \E e \in Device \ {d} : pos[e].rack = w.rack /\ RangesOverlap(pos[e], w)

\* The place a device of height h gets at unit u of rack r.
PlaceAt(r, u, h) == [rack |-> r, startU |-> u, endU |-> u + h - 1]

\* With a bug: the version stays, and edits based on the old place still match.
WithLifeSameVersion(row, life) == [row EXCEPT !.life = life]

\* UpdateDeviceLifecycle: every placement bumps the device's version.
WithLife(row, life) == [row EXCEPT !.life = life, !.ver = @ + 1]

\* With bugs: the entry does not say where the device came from; it keeps the racks
\* and not the units.
JournalNoSource(d, op, to) == Append(hist[d], [op |-> op, from |-> NoPlace, to |-> to])
JournalRacksOnly(d, op, to) == Append(hist[d], [op |-> op, from |-> pos[d].rack, to |-> to.rack])

Journal(d, op, to) == Append(hist[d], [op |-> op, from |-> pos[d], to |-> to])
=============================================================================
