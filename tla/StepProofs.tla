----------------------------- MODULE StepProofs -----------------------------
(***************************************************************************)
(* The row locks and what they protect: Locks, Fresh and Facts of module   *)
(* Invariant are preserved.  A step either reads and locks, and then its   *)
(* own request has to be shown right, or writes, and then it has to be     *)
(* shown to spare what the others rely on.                                 *)
(***************************************************************************)
EXTENDS SafetyProofs

-----------------------------------------------------------------------------
(* What a write may do *)

\* Every write of a device or its position gives it another version; rows that were
\* inserted stay, with their foreign keys; of an approval only the decision changes.
Grows ==
  /\ \A d \in Device :
       /\ device[d].ver =< device'[d].ver
       /\ device[d].ver = device'[d].ver => device'[d] = device[d] /\ pos'[d] = pos[d]
  /\ \A u \in Pdu : pdu[u].st # "none" => pdu'[u].st # "none" /\ pdu'[u].rack = pdu[u].rack
  /\ \A s \in Socket : sock[s].st # "none" => sock'[s].st # "none" /\ sock'[s].pdu = sock[s].pdu
  /\ \A c \in Conn : conn[c].st # "none" =>
       /\ conn'[c].st # "none" /\ conn'[c].sock = conn[c].sock
       /\ conn'[c].dev = conn[c].dev /\ conn'[c].role = conn[c].role

\* What is below a row that q has locked is left alone.
SparesDevice(q) ==
  \A d \in Device : lock[d] = q =>
    /\ device'[d] = device[d] /\ pos'[d] = pos[d]
    /\ \A c \in Conn : conn'[c].st = "live" /\ conn'[c].dev = d => conn'[c] = conn[c]
SparesRack(q) ==
  \A r \in Rack : lock[r] = q =>
    /\ rack'[r] = rack[r]
    /\ \A e \in Device : pos'[e].rack = r => pos'[e] = pos[e]
    /\ \A u \in Pdu : pdu'[u].st = "live" /\ pdu'[u].rack = r => pdu'[u] = pdu[u]
SparesPdu(q) ==
  \A u \in Pdu : lock[u] = q =>
    /\ pdu'[u] = pdu[u]
    /\ \A s \in Socket : sock'[s].pdu = u => sock'[s] = sock[s]
    /\ \A c \in Conn : conn'[c].st # "none" /\ sock'[conn'[c].sock].pdu = u => conn'[c] = conn[c]
SparesTicket(q) == \A t \in Ticket : lock[t] = q => ticket'[t] = ticket[t]

\* So are the rows that q is about to insert.
SparesIds(q) ==
  /\ req[q].at = "pdu.create" => pdu'[req[q].pdu] = pdu[req[q].pdu]
  /\ req[q].at = "socket.create" => sock'[req[q].sock] = sock[req[q].sock]
  /\ req[q].at \in ConnectStages => conn'[req[q].conn] = conn[req[q].conn]
  /\ req[q].at \in SubmitStages => ticket'[req[q].ticket] = ticket[req[q].ticket]

Spares(q) ==
  /\ req'[q] = req[q] /\ \A x \in Row : lock'[x] = q <=> lock[x] = q
  /\ SparesDevice(q) /\ SparesRack(q) /\ SparesPdu(q) /\ SparesTicket(q) /\ SparesIds(q)

-----------------------------------------------------------------------------
(* A step that spares what q relies on leaves what q knows true *)

\* What the arguments and the locks of a request are, by its stage.
LEMMA Stages ==
  ASSUME Shape, Locks, NEW q \in Proc
  PROVE  /\ req[q] \in Request
         /\ req[q].at \in DeviceStages => req[q].dev \in Device
         /\ req[q].at \in RackStages => req[q].rack \in Rack
         /\ req[q].at \in PduStages => req[q].pdu \in Pdu
         /\ req[q].at \in SocketStages =>
              /\ req[q].sock \in Socket /\ sock[req[q].sock].st # "none"
              /\ sock[req[q].sock].pdu \in Pdu
         /\ req[q].at \in ConnectStages \cup DisconnectStages => req[q].conn \in Conn
         /\ req[q].at \in {"place.rack", "place.commit", "off.commit"} \cup ConnectStages =>
              lock[req[q].dev] = q
         /\ req[q].at \in {"place.commit", "retire.commit", "pdu.create"} => lock[req[q].rack] = q
         /\ req[q].at \in {"pdu.delete", "pdu.archive", "socket.create"} => lock[req[q].pdu] = q
         /\ req[q].at \in BelowPduStages => lock[sock[req[q].sock].pdu] = q
         /\ req[q].at \in PlaceStages /\ req[q].ticket # None =>
              /\ req[q].ticket \in Ticket /\ lock[req[q].ticket] = q
              /\ ticket[req[q].ticket].st # "none"
<1> USE DEF DeviceStages, RackStages, PduStages, SocketStages, BelowPduStages, ConnectStages,
            DisconnectStages, ChangeSocketStages, PlaceStages, SubmitStages
<1>1. req[q] \in Request /\ ArgumentsOK(req[q]) /\ Found(req[q]) /\ ForeignKeys
  BY DEF Shape, TypeOK, RowsOK
<1>2. \A x \in Row : Holds(req[q], x) => lock[x] = q
  BY DEF Locks
<1>3. /\ req[q].at \in SocketStages => sock[req[q].sock].pdu \in Pdu
      /\ req[q].ticket \in Ticket \cup {None}
  BY <1>1 DEF ArgumentsOK, Found, ForeignKeys, Request
<1> QED BY <1>1, <1>2, <1>3 DEF ArgumentsOK, Found, Holds, Row

\* In each of the following r is the request of q, before and after the step.
LEMMA DeviceFactsKept ==
  ASSUME Shape, Locks, Facts, NEW q \in Proc, NEW r, r = req[q], Grows, Spares(q)
  PROVE  DeviceFacts(r)'
<1> DEFINE d == r.dev
           stages == {"place.rack", "place.commit", "off.commit"} \cup ConnectStages
<1>1. DeviceFacts(r) /\ (r.at \in stages => d \in Device /\ lock[d] = q)
  BY Stages DEF Facts, FactsOf, DeviceStages, PlaceStages
<1>2. ASSUME r.at \in stages
      PROVE  /\ d \in Device /\ device'[d] = device[d] /\ pos'[d] = pos[d]
             /\ \A c \in Conn : conn'[c].st = "live" /\ conn'[c].dev = d => conn'[c] = conn[c]
  BY <1>1, <1>2 DEF Spares, SparesDevice
<1>3. r.at = "connect.commit" => pdu'[sock'[r.sock].pdu].rack = pdu[sock[r.sock].pdu].rack
  BY Stages DEF SocketStages, ConnectStages, BelowPduStages, Grows, Spares, SparesPdu
<1> HIDE DEF d
<1>4. ASSUME r.at \in stages
      PROVE  /\ LiveDevice(d)' = LiveDevice(d) /\ Positioned(d)' = Positioned(d)
             /\ Unfed(d) => Unfed(d)'
             /\ HasRole(d, r.role)' => HasRole(d, r.role)
  BY <1>2, <1>4 DEF LiveDevice, Positioned, Unfed, HasRole, ConnsOfDevice, LiveConns
<1> HIDE DEF stages
<1>5. r.at \in {"place.rack", "place.commit", "off.commit"} \cup ConnectStages <=> r.at \in stages
  BY DEF stages
<1> QED
  BY <1>1, <1>2, <1>3, <1>4, <1>5 DEF DeviceFacts, d, ConnectStages

LEMMA RackFactsKept ==
  ASSUME Shape, Locks, Facts, NEW q \in Proc, NEW r, r = req[q], Grows, Spares(q)
  PROVE  RackFacts(r)'
<1> DEFINE k == r.rack
           stages == {"place.commit", "retire.commit", "pdu.create"}
<1>1. RackFacts(r) /\ (r.at \in stages => k \in Rack /\ lock[k] = q)
  BY Stages DEF Facts, FactsOf, RackStages, PlaceStages
<1>2. ASSUME r.at \in stages
      PROVE  /\ k \in Rack /\ rack'[k] = rack[k]
             /\ \A e \in Device : pos'[e].rack = k => pos'[e] = pos[e]
             /\ \A u \in Pdu : pdu'[u].st = "live" /\ pdu'[u].rack = k => pdu'[u] = pdu[u]
  BY <1>1, <1>2 DEF Spares, SparesRack
<1>3. Target(r).rack = k
  BY DEF Target, PlaceAt
<1> HIDE DEF k
<1>4. ASSUME r.at \in stages
      PROVE  /\ LiveRack(k)' = LiveRack(k)
             /\ Fits(r.dev, Target(r)) => Fits(r.dev, Target(r))'
  <2> DEFINE w == Target(r)
  <2> HIDE DEF w
  <2>1. Taken(r.dev, w)' => Taken(r.dev, w)
    BY <1>2, <1>3, <1>4 DEF Taken, RangesOverlap, w
  <2>2. (Fits(r.dev, w) => Fits(r.dev, w)') /\ LiveRack(k)' = LiveRack(k)
    BY <1>2, <1>3, <1>4, <2>1 DEF Fits, LiveRack, w
  <2> QED BY <2>2 DEF w
<1> QED
  BY <1>1, <1>2, <1>4 DEF RackFacts, k

LEMMA PduFactsKept ==
  ASSUME Shape, Locks, Facts, NEW q \in Proc, NEW r, r = req[q], Grows, Spares(q)
  PROVE  PduFacts(r)'
<1> DEFINE s == r.sock
           u == IF r.at \in BelowPduStages THEN sock[s].pdu ELSE r.pdu
           stages == {"pdu.delete", "pdu.archive", "socket.create"} \cup BelowPduStages
<1>1. PduFacts(r) /\ (r.at \in stages => u \in Pdu /\ lock[u] = q)
  BY Stages DEF Facts, FactsOf, PduStages, SocketStages, BelowPduStages, ConnectStages, DisconnectStages,
     ChangeSocketStages
<1>2. ASSUME r.at \in stages
      PROVE  /\ u \in Pdu /\ pdu'[u] = pdu[u]
             /\ \A x \in Socket : sock'[x].pdu = u => sock'[x] = sock[x]
             /\ \A c \in Conn : conn'[c].st # "none" /\ sock'[conn'[c].sock].pdu = u => conn'[c] = conn[c]
  BY <1>1, <1>2 DEF Spares, SparesPdu
<1>3. r.at \in SocketStages => s \in Socket /\ sock[s].st # "none" /\ sock'[s].pdu = sock[s].pdu
  BY Stages DEF Grows
<1>4. r.at \in DisconnectStages => conn'[r.conn].st # "none" /\ conn'[r.conn].sock = s
  BY <1>1, Stages DEF PduFacts, Grows
<1>5. \A c \in Conn : conn[c].st # "none" =>
        /\ conn[c].sock \in Socket /\ sock[conn[c].sock].st # "none"
        /\ conn'[c].st # "none" /\ conn'[c].sock = conn[c].sock
        /\ sock'[conn[c].sock].pdu = sock[conn[c].sock].pdu
  BY DEF Shape, RowsOK, ForeignKeys, Grows
<1>6. ASSUME r.at \in stages
      PROVE  \A c \in Conn : conn'[c].st = "live" /\ sock'[conn'[c].sock].pdu = u
                             <=> conn[c].st = "live" /\ sock[conn[c].sock].pdu = u
  BY <1>2, <1>5, <1>6
<1>7. ASSUME r.at \in BelowPduStages
      PROVE  /\ sock'[s] = sock[s] /\ LivePdu(sock[s].pdu)' = LivePdu(sock[s].pdu)
             /\ \A c \in Conn : conn'[c].st = "live" /\ conn'[c].sock = s => conn'[c] = conn[c]
  BY <1>2, <1>3, <1>7 DEF LivePdu, SocketStages, BelowPduStages, ConnectStages, DisconnectStages, ChangeSocketStages
<1>8. ASSUME r.at \in {"pdu.delete", "pdu.archive", "socket.create"}
      PROVE  /\ LivePdu(r.pdu)' = LivePdu(r.pdu)
             /\ ConnsOfPdu(r.pdu)' = ConnsOfPdu(r.pdu)
             /\ \A c \in Conn : conn'[c].st = "live" /\ sock'[conn'[c].sock].pdu = r.pdu
                                => conn[c].st = "live" /\ sock[conn[c].sock].pdu = r.pdu
  <2>1. u = r.pdu /\ r.at \in stages
    BY <1>8 DEF BelowPduStages, ChangeSocketStages
  <2> HIDE DEF u, s, stages
  <2>2. ASSUME NEW c \in Conn
        PROVE  c \in ConnsOfPdu(r.pdu)' <=> c \in ConnsOfPdu(r.pdu)
    <3>1. conn[c].st = "live" /\ sock[conn[c].sock].pdu = r.pdu
          => conn'[c] = conn[c] /\ sock'[conn[c].sock] = sock[conn[c].sock] /\ conn[c].sock \in Socket
      BY <1>2, <1>5, <2>1
    <3>2. conn'[c].st = "live" /\ sock'[conn'[c].sock].pdu = r.pdu
          => conn[c].st = "live" /\ sock[conn[c].sock].pdu = r.pdu
      BY <1>6, <2>1
    <3> QED BY <3>1, <3>2 DEF ConnsOfPdu, LiveConns, LiveSocket
  <2>3. ConnsOfPdu(r.pdu)' = ConnsOfPdu(r.pdu)
    BY <2>2 DEF ConnsOfPdu, LiveConns
  <2> QED BY <1>2, <1>6, <2>1, <2>3 DEF LivePdu
<1> HIDE DEF s, u, stages
<1> QED
  BY <1>1, <1>3, <1>4, <1>7, <1>8
     DEF PduFacts, LiveSocket, s, SocketCommits, SocketStages, BelowPduStages, ConnectStages, DisconnectStages, ChangeSocketStages

LEMMA VersionFactsKept ==
  ASSUME Shape, Locks, Facts, NEW q \in Proc, NEW r, r = req[q], Shape', Grows
  PROVE  VersionFacts(r)'
<1>1. VersionFacts(r) /\ (r.at \in DeviceStages => r.dev \in Device) /\ r \in Request
  BY Stages DEF Facts, FactsOf
<1>2. ASSUME r.dev \in Device
      PROVE  /\ device[r.dev].ver \in Nat /\ device'[r.dev].ver \in Nat
             /\ device[r.dev].ver =< device'[r.dev].ver
             /\ device[r.dev].ver = device'[r.dev].ver => device'[r.dev] = device[r.dev] /\ pos'[r.dev] = pos[r.dev]
  BY <1>2 DEF Grows, Shape, TypeOK, DeviceRow
<1> QED
  BY <1>1, <1>2 DEF VersionFacts, Positioned, DeviceStages, SubmitStages, Request

LEMMA TicketFactsKept ==
  ASSUME Shape, Locks, Facts, NEW q \in Proc, NEW r, r = req[q], Grows, Spares(q)
  PROVE  TicketFacts(r)'
<1>1. /\ TicketFacts(r)
      /\ r.at \in PlaceStages /\ r.ticket # None => r.ticket \in Ticket /\ lock[r.ticket] = q
      /\ r.at \in {"place.rack", "place.commit"} => r.dev \in Device /\ lock[r.dev] = q
  BY Stages DEF Facts, FactsOf, DeviceStages, PlaceStages
<1>2. /\ r.at \in PlaceStages /\ r.ticket # None => ticket'[r.ticket] = ticket[r.ticket]
      /\ r.at \in {"place.rack", "place.commit"} => device'[r.dev] = device[r.dev]
  BY <1>1 DEF Spares, SparesTicket, SparesDevice
<1> QED
  BY <1>1, <1>2 DEF TicketFacts, PlaceStages

LEMMA FactsKept ==
  ASSUME Shape, Shape', Locks, Facts, NEW q \in Proc, NEW r, r = req[q], Grows, Spares(q)
  PROVE  FactsOf(r)'
BY DeviceFactsKept, RackFactsKept, PduFactsKept, VersionFactsKept, TicketFactsKept DEF FactsOf

LEMMA FreshRowsKept ==
  ASSUME Fresh, NEW q \in Proc, NEW r, r = req[q], Spares(q)
  PROVE  FreshRows(r)'
<1>1. FreshRows(r)
  BY DEF Fresh
<1> QED
  BY <1>1 DEF FreshRows, Spares, SparesIds

LEMMA HoldsKept ==
  ASSUME Shape, Locks, NEW q \in Proc, NEW r, r = req[q], Grows, NEW x
  PROVE  Holds(r, x)' <=> Holds(r, x)
<1>1. r.at \in BelowPduStages => sock'[r.sock].pdu = sock[r.sock].pdu
  BY Stages DEF Grows, SocketStages, BelowPduStages, ConnectStages, DisconnectStages, ChangeSocketStages
<1> QED
  BY <1>1 DEF Holds

LEMMA IdleKnows ==
  /\ FactsOf(Idle) /\ FreshRows(Idle) /\ \A x : ~Holds(Idle, x)
  /\ \A o : ~SameRow(Idle, o) /\ ~SameRow(o, Idle)
BY DEF Idle, FactsOf, DeviceFacts, RackFacts, PduFacts, VersionFacts, TicketFacts, FreshRows, Holds, SameRow,
       PlaceStages, ConnectStages, SubmitStages, DisconnectStages, ChangeSocketStages, BelowPduStages, SocketCommits

LEMMA IdleKnowsThen ==
  /\ FactsOf(Idle)' /\ FreshRows(Idle)' /\ \A x : ~Holds(Idle, x)'
BY DEF Idle, FactsOf, DeviceFacts, RackFacts, PduFacts, VersionFacts, TicketFacts, FreshRows, Holds,
       PlaceStages, ConnectStages, SubmitStages, DisconnectStages, ChangeSocketStages, BelowPduStages, SocketCommits

Layers == Locks /\ Fresh /\ Facts

\* The end of a transaction that spares the others.
LEMMA WriteKept ==
  ASSUME Shape, Shape', Layers, NEW p \in Proc, Grows, \A q \in Proc \ {p} : Spares(q),
         EndTx(p) \/ (Begin(p, Idle) /\ \A x \in Row : ~Holds(req[p], x))
  PROVE  Layers'
<1>1. req'[p] = Idle /\ \A q \in Proc \ {p} : req'[q] = req[q]
  BY EndTxKept, BeginKept DEF Spares
<1>2. \A x \in Row : lock'[x] # p
  BY NoneAssumption DEF EndTx, Begin, Layers, Locks, Shape, TypeOK
<1>3. Locks'
  <2> SUFFICES ASSUME NEW q \in Proc, NEW x \in Row PROVE lock'[x] = q <=> Holds(req[q], x)'
    BY DEF Locks
  <2>1. CASE q = p
    BY <1>1, <1>2, <2>1, IdleKnowsThen
  <2>2. CASE q # p
    BY <1>1, <2>2, HoldsKept DEF Layers, Locks, Spares
  <2> QED BY <2>1, <2>2
<1>4. \A q \in Proc : FactsOf(req[q])' /\ FreshRows(req[q])'
  <2> TAKE q \in Proc
  <2>1. CASE q = p
    BY <1>1, <2>1, IdleKnowsThen
  <2>2. CASE q # p
    BY <1>1, <2>2, FactsKept, FreshRowsKept DEF Layers
  <2> QED BY <2>1, <2>2
<1>5. \A q \in Proc : \A o \in Proc \ {q} : ~SameRow(req[q], req[o])'
  BY <1>1, IdleKnows DEF Layers, Fresh, SameRow
<1> QED
  BY <1>3, <1>4, <1>5 DEF Layers, Fresh, Facts

\* A single statement that spares everybody.
LEMMA StatementKept ==
  ASSUME Shape, Shape', Layers, UNCHANGED <<lock, req>>, Grows, \A q \in Proc : Spares(q)
  PROVE  Layers'
<1>1. Locks'
  BY HoldsKept DEF Layers, Locks
<1>2. \A q \in Proc : FactsOf(req[q])' /\ FreshRows(req[q])'
  BY FactsKept, FreshRowsKept DEF Layers
<1>3. \A q \in Proc : \A o \in Proc \ {q} : ~SameRow(req[q], req[o])'
  BY DEF Layers, Fresh, SameRow
<1> QED
  BY <1>1, <1>2, <1>3 DEF Layers, Fresh, Facts

-----------------------------------------------------------------------------
(* A step that only reads and locks *)

LEMMA FactsRead ==
  ASSUME NEW r, UNCHANGED tables
  PROVE  (FactsOf(r) => FactsOf(r)') /\ (FreshRows(r) => FreshRows(r)')
<1> USE DEF tables
<1>1. ConnsOfPdu(r.pdu)' = ConnsOfPdu(r.pdu)
  BY DEF ConnsOfPdu, LiveConns, LiveSocket
<1>2. DeviceFacts(r) => DeviceFacts(r)'
  BY DEF DeviceFacts, LiveDevice, Unfed, Positioned, HasRole, ConnsOfDevice, LiveConns
<1>3. RackFacts(r) => RackFacts(r)'
  <2>1. Taken(r.dev, Target(r))' <=> Taken(r.dev, Target(r))
    BY DEF Taken, RangesOverlap, Target
  <2> QED BY <2>1 DEF RackFacts, LiveRack, Fits, Target
<1>4. PduFacts(r) => PduFacts(r)'
  BY <1>1 DEF PduFacts, LivePdu, LiveSocket
<1>5. (VersionFacts(r) => VersionFacts(r)') /\ (TicketFacts(r) => TicketFacts(r)')
  BY DEF VersionFacts, TicketFacts, Positioned
<1> QED
  BY <1>2, <1>3, <1>4, <1>5 DEF FactsOf, FreshRows

LEMMA HoldsRead ==
  ASSUME NEW r, NEW x, UNCHANGED tables
  PROVE  Holds(r, x)' <=> Holds(r, x)
BY DEF tables, Holds

\* p goes on as r, holding row x besides those it holds, if it is a row.
LEMMA ReadKept ==
  ASSUME Shape, Layers, NEW p \in Proc, NEW x, NEW r, UNCHANGED tables,
         FactsOf(r), FreshRows(r), \A o \in Proc \ {p} : ~SameRow(r, req[o]) /\ ~SameRow(req[o], r),
         \/ Begin(p, r) /\ \A y \in Row : Holds(r, y) <=> Holds(req[p], y)
         \/ Available(p, x) /\ TakeRow(p, x, r) /\ \A y \in Row : Holds(r, y) <=> Holds(req[p], y) \/ y = x
  PROVE  Layers' /\ UNCHANGED tables
<1>1. req'[p] = r /\ \A q \in Proc \ {p} : req'[q] = req[q]
  BY BeginKept, TakeRowKept DEF OthersKept
<1>2. \A y \in Row : lock'[y] = p <=> Holds(r, y)
  BY DEF Begin, TakeRow, Layers, Locks, Shape, TypeOK
<1>3. \A q \in Proc \ {p} : \A y \in Row : lock'[y] = q <=> lock[y] = q
  BY NoneAssumption DEF Begin, TakeRow, Available, Shape, TypeOK
<1>4. Locks'
  BY <1>1, <1>2, <1>3, HoldsRead DEF Layers, Locks
<1>5. \A q \in Proc : FactsOf(req[q])' /\ FreshRows(req[q])'
  BY <1>1, FactsRead DEF Layers, Facts, Fresh
<1>6. \A q \in Proc : \A o \in Proc \ {q} : ~SameRow(req[q], req[o])'
  BY <1>1 DEF Layers, Fresh, SameRow
<1> QED
  BY <1>4, <1>5, <1>6 DEF Layers, Fresh, Facts

LEMMA RollbackKept ==
  ASSUME Shape, Layers, NEW p \in Proc, Rollback(p)
  PROVE  Layers' /\ UNCHANGED tables
<1>1. Grows /\ \A q \in Proc \ {p} : Spares(q)
  BY EndTxKept, NoneAssumption
     DEF Rollback, EndTx, tables, Grows, Spares, SparesDevice, SparesRack, SparesPdu, SparesTicket, SparesIds, Shape,
         TypeOK, DeviceRow
<1>2. Shape'
  BY RollbackShape
<1> QED
  BY <1>1, <1>2, WriteKept DEF Rollback

\* A call that only reads, and one that locks the row x.
LEMMA CallBegins ==
  ASSUME Shape, Layers, NEW p \in Proc, NEW r, UNCHANGED tables, req[p].at = "idle", Begin(p, r),
         FactsOf(r), FreshRows(r), \A o \in Proc \ {p} : ~SameRow(r, req[o]) /\ ~SameRow(req[o], r),
         \A y \in Row : ~Holds(r, y)
  PROVE  Layers' /\ UNCHANGED tables
<1>1. \A y \in Row : ~Holds(req[p], y)
  BY DEF Holds, PlaceStages, ConnectStages, DisconnectStages, ChangeSocketStages, BelowPduStages,
     SocketCommits
<1> QED
  BY <1>1, ReadKept

LEMMA CallLocks ==
  ASSUME Shape, Layers, NEW p \in Proc, NEW x, NEW r, UNCHANGED tables, req[p].at = "idle",
         TakeRow(p, x, r) /\ Unlocked(x),
         FactsOf(r), FreshRows(r), \A o \in Proc \ {p} : ~SameRow(r, req[o]) /\ ~SameRow(req[o], r),
         \A y \in Row : Holds(r, y) <=> y = x
  PROVE  Layers' /\ UNCHANGED tables
<1>1. \A y \in Row : ~Holds(req[p], y)
  BY DEF Holds, PlaceStages, ConnectStages, DisconnectStages, ChangeSocketStages, BelowPduStages,
     SocketCommits
<1> QED
  BY <1>1, ReadKept, UnlockedAvailable

LEMMA DeleteDeviceCheckKept ==
  ASSUME Shape, Layers, Consistent, NEW p \in Proc, NEW d \in Device, DeleteDeviceCheck(p, d)
  PROVE  Layers' /\ UNCHANGED tables
<1> DEFINE q == [Idle EXCEPT !.at = "delete.write", !.dev = d, !.ver = device[d].ver]
<1>1. q.at = "delete.write" /\ q.dev = d /\ q.ver = device[d].ver /\ q.ticket = None /\ q.count = 0
  BY DEF Idle
<1>2. UNCHANGED tables /\ req[p].at = "idle" /\ Begin(p, q)
  BY DEF DeleteDeviceCheck
<1> HIDE DEF q
<1>6. device[d].ver \in Nat
  BY DEF Shape, TypeOK, DeviceRow
<1>3. FactsOf(q)
  BY <1>1, <1>6 DEF DeleteDeviceCheck, FactsOf, DeviceFacts, RackFacts, PduFacts, VersionFacts, TicketFacts,
     PlaceStages, SubmitStages, ConnectStages, DisconnectStages, ChangeSocketStages, BelowPduStages,
     SocketCommits, Positioned
<1>4. FreshRows(q) /\ \A o \in Proc \ {p} : ~SameRow(q, req[o]) /\ ~SameRow(req[o], q)
  BY <1>1 DEF DeleteDeviceCheck, FreshRows, SameRow, PlaceStages, SubmitStages, ConnectStages,
     DisconnectStages, ChangeSocketStages, BelowPduStages, SocketCommits, Positioned
<1>5. \A y \in Row : ~Holds(q, y)
  BY <1>1 DEF Holds, PlaceStages, SubmitStages, ConnectStages, DisconnectStages, ChangeSocketStages,
     BelowPduStages, SocketCommits
<1> QED
  BY <1>2, <1>3, <1>4, <1>5, CallBegins

LEMMA RequestPlaceKept ==
  ASSUME Shape, Layers, Consistent, NEW p \in Proc, NEW op \in Operation, NEW d \in Device, NEW r \in Rack, NEW u \in StartUs, RequestPlace(p, op, d, r, u)
  PROVE  Layers' /\ UNCHANGED tables
<1> DEFINE q == [Idle EXCEPT !.at = "place.device", !.op = op, !.dev = d, !.rack = r, !.startU = u]
<1>1. q.at = "place.device" /\ q.op = op /\ q.dev = d /\ q.rack = r /\ q.startU = u /\ q.ticket = None /\ q.count = 0
  BY DEF Idle
<1>2. UNCHANGED tables /\ req[p].at = "idle" /\ Begin(p, q)
  BY DEF RequestPlace
<1> HIDE DEF q
<1>3. FactsOf(q)
  BY <1>1 DEF RequestPlace, FactsOf, DeviceFacts, RackFacts, PduFacts, VersionFacts, TicketFacts,
     PlaceStages, SubmitStages, ConnectStages, DisconnectStages, ChangeSocketStages, BelowPduStages,
     SocketCommits
<1>4. FreshRows(q) /\ \A o \in Proc \ {p} : ~SameRow(q, req[o]) /\ ~SameRow(req[o], q)
  BY <1>1 DEF RequestPlace, FreshRows, SameRow, PlaceStages, SubmitStages, ConnectStages, DisconnectStages,
     ChangeSocketStages, BelowPduStages, SocketCommits
<1>5. \A y \in Row : ~Holds(q, y)
  BY <1>1, NoneAssumption DEF Holds, PlaceStages, SubmitStages, ConnectStages, DisconnectStages,
     ChangeSocketStages, BelowPduStages, SocketCommits
<1> QED
  BY <1>2, <1>3, <1>4, <1>5, CallBegins

LEMMA DecommissionDeviceKept ==
  ASSUME Shape, Layers, Consistent, NEW p \in Proc, NEW d \in Device, DecommissionDevice(p, d)
  PROVE  Layers' /\ UNCHANGED tables
<1> DEFINE q == [Idle EXCEPT !.at = "off.commit", !.dev = d]
<1>1. q.at = "off.commit" /\ q.dev = d /\ q.ticket = None /\ q.count = 0
  BY DEF Idle
<1>2. UNCHANGED tables /\ req[p].at = "idle" /\ TakeRow(p, d, q) /\ Unlocked(d)
  BY DEF DecommissionDevice
<1> HIDE DEF q
<1>3. FactsOf(q)
  BY <1>1 DEF DecommissionDevice, FactsOf, DeviceFacts, RackFacts, PduFacts, VersionFacts, TicketFacts,
     PlaceStages, SubmitStages, ConnectStages, DisconnectStages, ChangeSocketStages, BelowPduStages,
     SocketCommits, LiveDevice, Unfed, ConnsOfDevice, LiveConns
<1>4. FreshRows(q) /\ \A o \in Proc \ {p} : ~SameRow(q, req[o]) /\ ~SameRow(req[o], q)
  BY <1>1 DEF DecommissionDevice, FreshRows, SameRow, PlaceStages, SubmitStages, ConnectStages,
     DisconnectStages, ChangeSocketStages, BelowPduStages, SocketCommits, LiveDevice, Unfed, ConnsOfDevice,
     LiveConns
<1>5. \A y \in Row : Holds(q, y) <=> y = d
  BY <1>1 DEF Holds, PlaceStages, SubmitStages, ConnectStages, DisconnectStages, ChangeSocketStages,
     BelowPduStages, SocketCommits
<1> QED
  BY <1>2, <1>3, <1>4, <1>5, CallLocks

LEMMA DeleteRackCheckKept ==
  ASSUME Shape, Layers, Consistent, NEW p \in Proc, NEW r \in Rack, DeleteRackCheck(p, r)
  PROVE  Layers' /\ UNCHANGED tables
<1> DEFINE q == [Idle EXCEPT !.at = "retire.commit", !.rack = r]
<1>1. q.at = "retire.commit" /\ q.rack = r /\ q.ticket = None /\ q.count = 0
  BY DEF Idle
<1>2. UNCHANGED tables /\ req[p].at = "idle" /\ TakeRow(p, r, q) /\ Unlocked(r)
  BY DEF DeleteRackCheck
<1> HIDE DEF q
<1>3. FactsOf(q)
  BY <1>1 DEF DeleteRackCheck, FactsOf, DeviceFacts, RackFacts, PduFacts, VersionFacts, TicketFacts,
     PlaceStages, SubmitStages, ConnectStages, DisconnectStages, ChangeSocketStages, BelowPduStages,
     SocketCommits, LiveRack, Occupants
<1>4. FreshRows(q) /\ \A o \in Proc \ {p} : ~SameRow(q, req[o]) /\ ~SameRow(req[o], q)
  BY <1>1 DEF DeleteRackCheck, FreshRows, SameRow, PlaceStages, SubmitStages, ConnectStages,
     DisconnectStages, ChangeSocketStages, BelowPduStages, SocketCommits, LiveRack, Occupants
<1>5. \A y \in Row : Holds(q, y) <=> y = r
  BY <1>1 DEF Holds, PlaceStages, SubmitStages, ConnectStages, DisconnectStages, ChangeSocketStages,
     BelowPduStages, SocketCommits
<1> QED
  BY <1>2, <1>3, <1>4, <1>5, CallLocks

LEMMA CreatePduRackKept ==
  ASSUME Shape, Layers, Consistent, NEW p \in Proc, NEW u \in Pdu, NEW r \in Rack, CreatePduRack(p, u, r)
  PROVE  Layers' /\ UNCHANGED tables
<1> DEFINE q == [Idle EXCEPT !.at = "pdu.create", !.pdu = u, !.rack = r]
<1>1. q.at = "pdu.create" /\ q.pdu = u /\ q.rack = r /\ q.ticket = None /\ q.count = 0
  BY DEF Idle
<1>2. UNCHANGED tables /\ req[p].at = "idle" /\ TakeRow(p, r, q) /\ Unlocked(r)
  BY DEF CreatePduRack
<1> HIDE DEF q
<1>3. FactsOf(q)
  BY <1>1 DEF CreatePduRack, FactsOf, DeviceFacts, RackFacts, PduFacts, VersionFacts, TicketFacts,
     PlaceStages, SubmitStages, ConnectStages, DisconnectStages, ChangeSocketStages, BelowPduStages,
     SocketCommits, LiveRack, FreshPdu
<1>4. FreshRows(q) /\ \A o \in Proc \ {p} : ~SameRow(q, req[o]) /\ ~SameRow(req[o], q)
  BY <1>1 DEF CreatePduRack, FreshRows, SameRow, PlaceStages, SubmitStages, ConnectStages, DisconnectStages,
     ChangeSocketStages, BelowPduStages, SocketCommits, LiveRack, FreshPdu
<1>5. \A y \in Row : Holds(q, y) <=> y = r
  BY <1>1 DEF Holds, PlaceStages, SubmitStages, ConnectStages, DisconnectStages, ChangeSocketStages,
     BelowPduStages, SocketCommits
<1> QED
  BY <1>2, <1>3, <1>4, <1>5, CallLocks

LEMMA DeletePduCheckKept ==
  ASSUME Shape, Layers, Consistent, NEW p \in Proc, NEW u \in Pdu, DeletePduCheck(p, u)
  PROVE  Layers' /\ UNCHANGED tables
<1> DEFINE q == [Idle EXCEPT !.at = "pdu.delete", !.pdu = u]
<1>1. q.at = "pdu.delete" /\ q.pdu = u /\ q.ticket = None /\ q.count = 0
  BY DEF Idle
<1>2. UNCHANGED tables /\ req[p].at = "idle" /\ TakeRow(p, u, q) /\ Unlocked(u)
  BY DEF DeletePduCheck
<1> HIDE DEF q
<1>6. \A c \in Conn : conn[c].st = "live" => sock[conn[c].sock].pdu # u
  BY DEF DeletePduCheck, ConnsOfPdu, LiveConns, Consistent, SamePlacePower
<1>3. FactsOf(q)
  BY <1>1, <1>6 DEF DeletePduCheck, FactsOf, DeviceFacts, RackFacts, PduFacts, VersionFacts, TicketFacts,
     PlaceStages, SubmitStages, ConnectStages, DisconnectStages, ChangeSocketStages, BelowPduStages,
     SocketCommits, LivePdu
<1>4. FreshRows(q) /\ \A o \in Proc \ {p} : ~SameRow(q, req[o]) /\ ~SameRow(req[o], q)
  BY <1>1 DEF DeletePduCheck, FreshRows, SameRow, PlaceStages, SubmitStages, ConnectStages,
     DisconnectStages, ChangeSocketStages, BelowPduStages, SocketCommits, LivePdu
<1>5. \A y \in Row : Holds(q, y) <=> y = u
  BY <1>1 DEF Holds, PlaceStages, SubmitStages, ConnectStages, DisconnectStages, ChangeSocketStages,
     BelowPduStages, SocketCommits
<1> QED
  BY <1>2, <1>3, <1>4, <1>5, CallLocks

LEMMA ArchivePduCheckKept ==
  ASSUME Shape, Layers, Consistent, NEW p \in Proc, NEW u \in Pdu, NEW n \in Nat, ArchivePduCheck(p, u, n)
  PROVE  Layers' /\ UNCHANGED tables
<1> DEFINE q == [Idle EXCEPT !.at = "pdu.archive", !.pdu = u, !.count = n]
<1>1. q.at = "pdu.archive" /\ q.pdu = u /\ q.count = n /\ q.ticket = None
  BY DEF Idle
<1>2. UNCHANGED tables /\ req[p].at = "idle" /\ TakeRow(p, u, q) /\ Unlocked(u)
  BY DEF ArchivePduCheck
<1> HIDE DEF q
<1>3. FactsOf(q)
  BY <1>1 DEF ArchivePduCheck, FactsOf, DeviceFacts, RackFacts, PduFacts, VersionFacts, TicketFacts,
     PlaceStages, SubmitStages, ConnectStages, DisconnectStages, ChangeSocketStages, BelowPduStages,
     SocketCommits, LivePdu
<1>4. FreshRows(q) /\ \A o \in Proc \ {p} : ~SameRow(q, req[o]) /\ ~SameRow(req[o], q)
  BY <1>1 DEF ArchivePduCheck, FreshRows, SameRow, PlaceStages, SubmitStages, ConnectStages,
     DisconnectStages, ChangeSocketStages, BelowPduStages, SocketCommits, LivePdu
<1>5. \A y \in Row : Holds(q, y) <=> y = u
  BY <1>1 DEF Holds, PlaceStages, SubmitStages, ConnectStages, DisconnectStages, ChangeSocketStages,
     BelowPduStages, SocketCommits
<1> QED
  BY <1>2, <1>3, <1>4, <1>5, CallLocks

LEMMA CreateSocketPduKept ==
  ASSUME Shape, Layers, Consistent, NEW p \in Proc, NEW s \in Socket, NEW u \in Pdu, CreateSocketPdu(p, s, u)
  PROVE  Layers' /\ UNCHANGED tables
<1> DEFINE q == [Idle EXCEPT !.at = "socket.create", !.sock = s, !.pdu = u]
<1>1. q.at = "socket.create" /\ q.sock = s /\ q.pdu = u /\ q.ticket = None /\ q.count = 0
  BY DEF Idle
<1>2. UNCHANGED tables /\ req[p].at = "idle" /\ TakeRow(p, u, q) /\ Unlocked(u)
  BY DEF CreateSocketPdu
<1> HIDE DEF q
<1>3. FactsOf(q)
  BY <1>1 DEF CreateSocketPdu, FactsOf, DeviceFacts, RackFacts, PduFacts, VersionFacts, TicketFacts,
     PlaceStages, SubmitStages, ConnectStages, DisconnectStages, ChangeSocketStages, BelowPduStages,
     SocketCommits, LivePdu, FreshSocket
<1>4. FreshRows(q) /\ \A o \in Proc \ {p} : ~SameRow(q, req[o]) /\ ~SameRow(req[o], q)
  BY <1>1 DEF CreateSocketPdu, FreshRows, SameRow, PlaceStages, SubmitStages, ConnectStages,
     DisconnectStages, ChangeSocketStages, BelowPduStages, SocketCommits, LivePdu, FreshSocket
<1>5. \A y \in Row : Holds(q, y) <=> y = u
  BY <1>1 DEF Holds, PlaceStages, SubmitStages, ConnectStages, DisconnectStages, ChangeSocketStages,
     BelowPduStages, SocketCommits
<1> QED
  BY <1>2, <1>3, <1>4, <1>5, CallLocks

LEMMA ChangeSocketPduKept ==
  ASSUME Shape, Layers, Consistent, NEW p \in Proc, NEW op \in {"UPDATE", "DELETE"}, NEW s \in Socket, ChangeSocketPdu(p, op, s)
  PROVE  Layers' /\ UNCHANGED tables
<1> DEFINE q == [Idle EXCEPT !.at = "socket.row", !.op = op, !.sock = s]
<1>1. q.at = "socket.row" /\ q.op = op /\ q.sock = s /\ q.ticket = None /\ q.count = 0
  BY DEF Idle
<1>2. UNCHANGED tables /\ req[p].at = "idle" /\ TakeRow(p, sock[s].pdu, q) /\ Unlocked(sock[s].pdu)
  BY DEF ChangeSocketPdu
<1> HIDE DEF q
<1>3. FactsOf(q)
  BY <1>1 DEF ChangeSocketPdu, FactsOf, DeviceFacts, RackFacts, PduFacts, VersionFacts, TicketFacts,
     PlaceStages, SubmitStages, ConnectStages, DisconnectStages, ChangeSocketStages, BelowPduStages,
     SocketCommits, LivePdu
<1>4. FreshRows(q) /\ \A o \in Proc \ {p} : ~SameRow(q, req[o]) /\ ~SameRow(req[o], q)
  BY <1>1 DEF ChangeSocketPdu, FreshRows, SameRow, PlaceStages, SubmitStages, ConnectStages,
     DisconnectStages, ChangeSocketStages, BelowPduStages, SocketCommits, LivePdu
<1>5. \A y \in Row : Holds(q, y) <=> y = sock[s].pdu
  BY <1>1 DEF Holds, PlaceStages, SubmitStages, ConnectStages, DisconnectStages, ChangeSocketStages,
     BelowPduStages, SocketCommits
<1> QED
  BY <1>2, <1>3, <1>4, <1>5, CallLocks

LEMMA ConnectDeviceKept ==
  ASSUME Shape, Layers, Consistent, NEW p \in Proc, NEW c \in Conn, NEW s \in Socket, NEW d \in Device, NEW role \in Role, ConnectDevice(p, c, s, d, role)
  PROVE  Layers' /\ UNCHANGED tables
<1> DEFINE q == [Idle EXCEPT !.at = "connect.pdu", !.dev = d, !.sock = s, !.role = role, !.conn = c]
<1>1. q.at = "connect.pdu" /\ q.dev = d /\ q.sock = s /\ q.role = role /\ q.conn = c /\ q.ticket = None /\ q.count = 0
  BY DEF Idle
<1>2. UNCHANGED tables /\ req[p].at = "idle" /\ TakeRow(p, d, q) /\ Unlocked(d)
  BY DEF ConnectDevice
<1> HIDE DEF q
<1>3. FactsOf(q)
  BY <1>1 DEF ConnectDevice, FactsOf, DeviceFacts, RackFacts, PduFacts, VersionFacts, TicketFacts,
     PlaceStages, SubmitStages, ConnectStages, DisconnectStages, ChangeSocketStages, BelowPduStages,
     SocketCommits, LiveDevice, FreshConn
<1>4. FreshRows(q) /\ \A o \in Proc \ {p} : ~SameRow(q, req[o]) /\ ~SameRow(req[o], q)
  BY <1>1 DEF ConnectDevice, FreshRows, SameRow, PlaceStages, SubmitStages, ConnectStages, DisconnectStages,
     ChangeSocketStages, BelowPduStages, SocketCommits, LiveDevice, FreshConn
<1>5. \A y \in Row : Holds(q, y) <=> y = d
  BY <1>1 DEF Holds, PlaceStages, SubmitStages, ConnectStages, DisconnectStages, ChangeSocketStages,
     BelowPduStages, SocketCommits
<1> QED
  BY <1>2, <1>3, <1>4, <1>5, CallLocks

LEMMA RequestDisconnectKept ==
  ASSUME Shape, Layers, Consistent, NEW p \in Proc, NEW c \in Conn, RequestDisconnect(p, c)
  PROVE  Layers' /\ UNCHANGED tables
<1> DEFINE q == [Idle EXCEPT !.at = "disconnect.pdu", !.conn = c, !.sock = conn[c].sock]
<1>1. q.at = "disconnect.pdu" /\ q.conn = c /\ q.sock = conn[c].sock /\ q.ticket = None /\ q.count = 0
  BY DEF Idle
<1>2. UNCHANGED tables /\ req[p].at = "idle" /\ Begin(p, q)
  BY DEF RequestDisconnect
<1> HIDE DEF q
<1>3. FactsOf(q)
  BY <1>1 DEF RequestDisconnect, FactsOf, DeviceFacts, RackFacts, PduFacts, VersionFacts, TicketFacts,
     PlaceStages, SubmitStages, ConnectStages, DisconnectStages, ChangeSocketStages, BelowPduStages,
     SocketCommits, LiveConns
<1>4. FreshRows(q) /\ \A o \in Proc \ {p} : ~SameRow(q, req[o]) /\ ~SameRow(req[o], q)
  BY <1>1 DEF RequestDisconnect, FreshRows, SameRow, PlaceStages, SubmitStages, ConnectStages,
     DisconnectStages, ChangeSocketStages, BelowPduStages, SocketCommits, LiveConns
<1>5. \A y \in Row : ~Holds(q, y)
  BY <1>1 DEF Holds, PlaceStages, SubmitStages, ConnectStages, DisconnectStages, ChangeSocketStages,
     BelowPduStages, SocketCommits
<1> QED
  BY <1>2, <1>3, <1>4, <1>5, CallBegins

LEMMA RequestApprovalKept ==
  ASSUME Shape, Layers, Consistent, NEW p \in Proc, NEW t \in Ticket, NEW op \in Operation, NEW d \in Device, NEW r \in Rack, NEW u \in StartUs, RequestApproval(p, t, op, d, r, u)
  PROVE  Layers' /\ UNCHANGED tables
<1> DEFINE q == [Idle EXCEPT !.at = "submit.position", !.op = op, !.dev = d, !.rack = r, !.ticket = t, !.startU = u, !.height = device[d].height, !.ver = device[d].ver,
                              !.was = pos[d]]
<1>1. q.at = "submit.position" /\ q.op = op /\ q.dev = d /\ q.rack = r /\ q.ticket = t /\ q.startU = u /\ q.height = device[d].height /\ q.ver = device[d].ver /\ q.was = pos[d] /\ q.count = 0
  BY DEF Idle
<1>2. UNCHANGED tables /\ req[p].at = "idle" /\ Begin(p, q)
  BY DEF RequestApproval
<1> HIDE DEF q
<1>6. device[d].ver \in Nat
  BY DEF Shape, TypeOK, DeviceRow
<1>3. FactsOf(q)
  BY <1>1, <1>6 DEF RequestApproval, FactsOf, DeviceFacts, RackFacts, PduFacts, VersionFacts, TicketFacts,
     PlaceStages, SubmitStages, ConnectStages, DisconnectStages, ChangeSocketStages, BelowPduStages,
     SocketCommits, FreshTicket
<1>4. FreshRows(q) /\ \A o \in Proc \ {p} : ~SameRow(q, req[o]) /\ ~SameRow(req[o], q)
  BY <1>1 DEF RequestApproval, FreshRows, SameRow, PlaceStages, SubmitStages, ConnectStages,
     DisconnectStages, ChangeSocketStages, BelowPduStages, SocketCommits, FreshTicket
<1>5. \A y \in Row : ~Holds(q, y)
  BY <1>1 DEF Holds, PlaceStages, SubmitStages, ConnectStages, DisconnectStages, ChangeSocketStages,
     BelowPduStages, SocketCommits
<1> QED
  BY <1>2, <1>3, <1>4, <1>5, CallBegins

LEMMA ApproveKept ==
  ASSUME Shape, Layers, Consistent, NEW p \in Proc, NEW t \in Ticket, Approve(p, t)
  PROVE  Layers' /\ UNCHANGED tables
<1> DEFINE q == [Idle EXCEPT !.at = "place.device", !.ticket = t, !.op = ticket[t].op, !.dev = ticket[t].dev, !.rack = ticket[t].rack, !.startU = ticket[t].startU]
<1>1. q.at = "place.device" /\ q.ticket = t /\ q.op = ticket[t].op /\ q.dev = ticket[t].dev /\ q.rack = ticket[t].rack /\ q.startU = ticket[t].startU /\ q.count = 0
  BY DEF Idle
<1>2. UNCHANGED tables /\ req[p].at = "idle" /\ TakeRow(p, t, q) /\ Unlocked(t)
  BY DEF Approve
<1> HIDE DEF q
<1>3. FactsOf(q)
  BY <1>1 DEF Approve, FactsOf, DeviceFacts, RackFacts, PduFacts, VersionFacts, TicketFacts, PlaceStages,
     SubmitStages, ConnectStages, DisconnectStages, ChangeSocketStages, BelowPduStages, SocketCommits
<1>4. FreshRows(q) /\ \A o \in Proc \ {p} : ~SameRow(q, req[o]) /\ ~SameRow(req[o], q)
  BY <1>1 DEF Approve, FreshRows, SameRow, PlaceStages, SubmitStages, ConnectStages, DisconnectStages,
     ChangeSocketStages, BelowPduStages, SocketCommits
<1>5. \A y \in Row : Holds(q, y) <=> y = t
  BY <1>1 DEF Holds, PlaceStages, SubmitStages, ConnectStages, DisconnectStages, ChangeSocketStages,
     BelowPduStages, SocketCommits
<1> QED
  BY <1>2, <1>3, <1>4, <1>5, CallLocks

LEMMA UpdateDeviceReadKept ==
  ASSUME Shape, Layers, Consistent, NEW p \in Proc, NEW d \in Device, NEW h \in Heights, UpdateDeviceRead(p, d, h)
  PROVE  Layers' /\ UNCHANGED tables
<1> DEFINE height == IF h > 0 THEN h ELSE device[d].height
           next == IF height = device[d].height THEN "update.write" ELSE "update.position"
           q == [Idle EXCEPT !.at = next, !.dev = d, !.height = height, !.ver = device[d].ver]
<1>1. q.at = next /\ q.dev = d /\ q.ver = device[d].ver /\ q.height = height /\ q.ticket = None
  BY DEF Idle
<1>2. UNCHANGED tables /\ req[p].at = "idle" /\ Begin(p, q)
  BY DEF UpdateDeviceRead
<1>3. \/ q.at = "update.write" /\ q.height = device[d].height
      \/ q.at = "update.position"
  BY <1>1
<1>4. device[d].ver \in Nat
  BY DEF Shape, TypeOK, DeviceRow
<1> HIDE DEF q, height, next
<1>5. FactsOf(q)
  BY <1>1, <1>3, <1>4 DEF FactsOf, DeviceFacts, RackFacts, PduFacts, VersionFacts, TicketFacts, PlaceStages,
     SubmitStages, ConnectStages, DisconnectStages, ChangeSocketStages, BelowPduStages, SocketCommits
<1>6. FreshRows(q) /\ \A o \in Proc \ {p} : ~SameRow(q, req[o]) /\ ~SameRow(req[o], q)
  BY <1>3 DEF FreshRows, SameRow, SubmitStages, ConnectStages
<1>7. \A y \in Row : ~Holds(q, y)
  BY <1>3 DEF Holds, PlaceStages, ConnectStages, DisconnectStages, ChangeSocketStages, BelowPduStages,
     SocketCommits
<1> QED
  BY <1>2, <1>5, <1>6, <1>7, CallBegins

-----------------------------------------------------------------------------
(* Statements of a request that has begun, and that only read and lock *)

LEMMA UpdateDevicePositionKept ==
  ASSUME Shape, Layers, Consistent, NEW p \in Proc, UpdateDevicePosition(p)
  PROVE  Layers' /\ UNCHANGED tables
<1>1. UNCHANGED tables /\ req[p].at = "update.position" /\ req[p] \in Request /\ FactsOf(req[p])
  BY Stages DEF UpdateDevicePosition, Layers, Facts
<1>2. \A y \in Row : ~Holds(req[p], y)
  BY <1>1 DEF Holds, PlaceStages, ConnectStages, DisconnectStages, ChangeSocketStages, BelowPduStages,
     SocketCommits
<1>3. CASE Begin(p, Idle)
  BY <1>1, <1>2, <1>3, ReadKept, IdleKnows
<1>4. CASE ~Positioned(req[p].dev) /\ Begin(p, [req[p] EXCEPT !.at = "update.write"])
  <2> DEFINE q == [req[p] EXCEPT !.at = "update.write"]
  <2>1. q.at = "update.write" /\ q.dev = req[p].dev /\ q.ver = req[p].ver /\ q.height = req[p].height
        /\ q.ticket = req[p].ticket
    BY <1>1 DEF Request
  <2> HIDE DEF q
  <2>2. VersionFacts(q)
    BY <1>1, <1>4, <2>1 DEF FactsOf, VersionFacts, SubmitStages
  <2>3. FactsOf(q)
    BY <2>1, <2>2 DEF FactsOf, DeviceFacts, RackFacts, PduFacts, TicketFacts, PlaceStages, SubmitStages,
       ConnectStages, DisconnectStages, ChangeSocketStages, BelowPduStages, SocketCommits
  <2>4. FreshRows(q) /\ \A o \in Proc \ {p} : ~SameRow(q, req[o]) /\ ~SameRow(req[o], q)
    BY <2>1 DEF FreshRows, SameRow, SubmitStages, ConnectStages
  <2>5. \A y \in Row : ~Holds(q, y)
    BY <2>1 DEF Holds, PlaceStages, ConnectStages, DisconnectStages, ChangeSocketStages, BelowPduStages,
       SocketCommits
  <2> QED BY <1>1, <1>2, <1>4, <2>3, <2>4, <2>5, ReadKept DEF q
<1> QED BY <1>3, <1>4 DEF UpdateDevicePosition

LEMMA SubmitPositionKept ==
  ASSUME Shape, Layers, Consistent, NEW p \in Proc, SubmitPosition(p)
  PROVE  Layers' /\ UNCHANGED tables
<1> PICK source \in {pos[req[p].dev], NoPlace} :
         Begin(p, [req[p] EXCEPT !.at = "submit.insert", !.from = source])
  BY DEF SubmitPosition
<1> DEFINE q == [req[p] EXCEPT !.at = "submit.insert", !.from = source]
<1>1. UNCHANGED tables /\ req[p].at = "submit.position" /\ req[p] \in Request /\ FactsOf(req[p])
  BY Stages DEF SubmitPosition, Layers, Facts
<1>2. /\ q.at = "submit.insert" /\ q.from \in {pos[q.dev], NoPlace} /\ q.was = req[p].was
      /\ q.dev = req[p].dev /\ q.ver = req[p].ver /\ q.height = req[p].height /\ q.ticket = req[p].ticket
  BY <1>1 DEF Request
<1>3. Begin(p, q)
  BY DEF SubmitPosition
<1> HIDE DEF q
<1>4. VersionFacts(q)
  BY <1>1, <1>2 DEF FactsOf, VersionFacts, SubmitStages
<1>5. FactsOf(q)
  BY <1>2, <1>4 DEF FactsOf, DeviceFacts, RackFacts, PduFacts, TicketFacts, PlaceStages, ConnectStages,
     DisconnectStages, ChangeSocketStages, BelowPduStages, SocketCommits
<1>6. FreshRows(q) /\ \A o \in Proc \ {p} : ~SameRow(q, req[o]) /\ ~SameRow(req[o], q)
  BY <1>1, <1>2 DEF Layers, Fresh, FreshRows, SameRow, SubmitStages, ConnectStages
<1>7. \A y \in Row : ~Holds(q, y) /\ ~Holds(req[p], y)
  BY <1>1, <1>2 DEF Holds, PlaceStages, ConnectStages, DisconnectStages, ChangeSocketStages, BelowPduStages,
     SocketCommits
<1> QED
  BY <1>1, <1>3, <1>5, <1>6, <1>7, ReadKept

\* p has locked row x, and goes on with the same rows to insert.
LEMMA NextLocks ==
  ASSUME Shape, Layers, NEW p \in Proc, NEW x, NEW r, UNCHANGED tables, Available(p, x), TakeRow(p, x, r),
         FactsOf(r), \A y \in Row : Holds(r, y) <=> Holds(req[p], y) \/ y = x,
         r.at # "pdu.create", r.at # "socket.create", r.at \notin SubmitStages,
         r.at \in ConnectStages => req[p].at \in ConnectStages /\ r.conn = req[p].conn
  PROVE  Layers' /\ UNCHANGED tables
<1>1. FreshRows(r) /\ \A o \in Proc \ {p} : ~SameRow(r, req[o]) /\ ~SameRow(req[o], r)
  BY DEF Layers, Fresh, FreshRows, SameRow
<1> QED
  BY <1>1, ReadKept

LEMMA PlaceDeviceKept ==
  ASSUME Shape, Layers, Consistent, NEW p \in Proc, PlaceDevice(p)
  PROVE  Layers' /\ UNCHANGED tables
<1> DEFINE d == req[p].dev
           q == [req[p] EXCEPT !.at = "place.rack", !.height = device[d].height]
<1>1. req[p].at = "place.device" /\ Available(p, d) /\ req[p] \in Request /\ FactsOf(req[p]) /\ d \in Device
  BY Stages DEF PlaceDevice, Layers, Facts, DeviceStages, PlaceStages
<1>2. CASE Rollback(p)
  BY <1>2, RollbackKept
<1>3. CASE /\ LiveDevice(d) /\ ApprovedVersion(req[p].ticket, d) /\ MayPlace(d, req[p].op)
           /\ TakeRow(p, d, q) /\ UNCHANGED tables
  <2>1. /\ q.at = "place.rack" /\ q.height = device[d].height /\ q.op = req[p].op /\ q.dev = d
        /\ q.rack = req[p].rack /\ q.startU = req[p].startU /\ q.ticket = req[p].ticket
    BY <1>1 DEF Request
  <2> HIDE DEF q, d
  <2>2. Unfed(d)
    <3>1. CASE ConnsOfDevice(d) = {}
      BY <3>1 DEF Unfed, ConnsOfDevice, LiveConns
    <3>2. CASE device[d].life \in {"WAITING_RACK", "OFF_RACK"}
      <4>1. pos[d].rack = None
        BY <1>1, <3>2 DEF Consistent, PositionMatchesDevice, Positioned
      <4> QED BY <1>1, <4>1, NoneAssumption DEF Unfed, Consistent, SamePlacePower, LiveConns, LiveRack, Row
    <3> QED BY <1>3, <3>1, <3>2 DEF MayPlace
  <2>3. DeviceFacts(q)
    BY <1>3, <2>1, <2>2 DEF DeviceFacts, MayPlace, ConnectStages
  <2>4. TicketFacts(q)
    BY <1>1, <1>3, <2>1 DEF d, FactsOf, TicketFacts, ApprovedVersion, PlaceStages
  <2>5. FactsOf(q)
    BY <2>1, <2>3, <2>4 DEF FactsOf, RackFacts, PduFacts, VersionFacts, SubmitStages, ConnectStages,
       DisconnectStages, ChangeSocketStages, BelowPduStages, SocketCommits
  <2>6. \A y \in Row : Holds(q, y) <=> Holds(req[p], y) \/ y = d
    BY <1>1, <2>1 DEF Holds, PlaceStages, ConnectStages, DisconnectStages, ChangeSocketStages,
       BelowPduStages, SocketCommits
  <2> QED BY <1>1, <1>3, <2>1, <2>5, <2>6, NextLocks DEF ConnectStages, SubmitStages
<1> QED BY <1>2, <1>3 DEF PlaceDevice

LEMMA PlaceRackKept ==
  ASSUME Shape, Layers, Consistent, NEW p \in Proc, PlaceRack(p)
  PROVE  Layers' /\ UNCHANGED tables
<1> DEFINE q == [req[p] EXCEPT !.at = "place.commit"]
<1>1. /\ req[p].at = "place.rack" /\ Available(p, req[p].rack) /\ req[p] \in Request /\ FactsOf(req[p])
  BY Stages DEF PlaceRack, Layers, Facts
<1>2. CASE Rollback(p)
  BY <1>2, RollbackKept
<1>3. CASE /\ req[p].height >= 1 /\ Fits(req[p].dev, Target(req[p]))
           /\ TakeRow(p, req[p].rack, q) /\ UNCHANGED tables
  <2>1. /\ q.at = "place.commit" /\ q.height = req[p].height /\ q.op = req[p].op /\ q.dev = req[p].dev
        /\ q.rack = req[p].rack /\ q.startU = req[p].startU /\ q.ticket = req[p].ticket
    BY <1>1 DEF Request
  <2>2. Target(q) = Target(req[p])
    BY <2>1 DEF Target
  <2> HIDE DEF q
  <2>3. RackFacts(q) /\ DeviceFacts(q)
    BY <1>1, <1>3, <2>1, <2>2 DEF RackFacts, FactsOf, DeviceFacts, ConnectStages
  <2>4. TicketFacts(q)
    BY <1>1, <2>1 DEF FactsOf, TicketFacts, PlaceStages
  <2>5. FactsOf(q)
    BY <2>1, <2>3, <2>4 DEF FactsOf, PduFacts, VersionFacts, SubmitStages, ConnectStages, DisconnectStages,
       ChangeSocketStages, BelowPduStages, SocketCommits
  <2>6. \A y \in Row : Holds(q, y) <=> Holds(req[p], y) \/ y = req[p].rack
    BY <1>1, <2>1 DEF Holds, PlaceStages, ConnectStages, DisconnectStages, ChangeSocketStages,
       BelowPduStages, SocketCommits
  <2> QED BY <1>1, <1>3, <2>1, <2>5, <2>6, NextLocks DEF ConnectStages, SubmitStages
<1> QED BY <1>2, <1>3 DEF PlaceRack

LEMMA ChangeSocketRowKept ==
  ASSUME Shape, Layers, Consistent, NEW p \in Proc, ChangeSocketRow(p)
  PROVE  Layers' /\ UNCHANGED tables
<1> DEFINE s == req[p].sock
           q == [req[p] EXCEPT !.at = "socket.commit", !.status = sock[s].status]
<1>1. req[p].at = "socket.row" /\ Available(p, s) /\ req[p] \in Request /\ FactsOf(req[p])
  BY Stages DEF ChangeSocketRow, Layers, Facts
<1>2. CASE Rollback(p)
  BY <1>2, RollbackKept
<1>3. CASE /\ LiveSocket(s) /\ (req[p].op = "DELETE" => ConnsOfSocket(s) = {})
           /\ TakeRow(p, s, q) /\ UNCHANGED tables
  <2>1. q.at = "socket.commit" /\ q.sock = s /\ q.op = req[p].op /\ q.status = sock[s].status
    BY <1>1 DEF Request
  <2> HIDE DEF q, s
  <2>2. PduFacts(q)
    BY <1>1, <1>3, <2>1 DEF s, FactsOf, PduFacts, ConnsOfSocket, LiveConns, ConnectStages, DisconnectStages,
       ChangeSocketStages, BelowPduStages, SocketCommits
  <2>3. FactsOf(q)
    BY <2>1, <2>2 DEF FactsOf, DeviceFacts, RackFacts, VersionFacts, TicketFacts, PlaceStages, SubmitStages,
       ConnectStages
  <2>4. \A y \in Row : Holds(q, y) <=> Holds(req[p], y) \/ y = s
    BY <1>1, <2>1 DEF s, Holds, PlaceStages, ConnectStages, DisconnectStages, ChangeSocketStages,
       BelowPduStages, SocketCommits
  <2> QED BY <1>1, <1>3, <2>1, <2>3, <2>4, NextLocks DEF ConnectStages, SubmitStages
<1> QED BY <1>2, <1>3 DEF ChangeSocketRow

LEMMA ConnectPduKept ==
  ASSUME Shape, Layers, Consistent, NEW p \in Proc, ConnectPdu(p)
  PROVE  Layers' /\ UNCHANGED tables
<1> DEFINE u == sock[req[p].sock].pdu
           q == [req[p] EXCEPT !.at = "connect.socket"]
<1>1. req[p].at = "connect.pdu" /\ Available(p, u) /\ req[p] \in Request /\ FactsOf(req[p])
  BY Stages DEF ConnectPdu, Layers, Facts
<1>2. CASE Rollback(p)
  BY <1>2, RollbackKept
<1>3. CASE LivePdu(u) /\ TakeRow(p, u, q) /\ UNCHANGED tables
  <2>1. q.at = "connect.socket" /\ q.sock = req[p].sock /\ q.dev = req[p].dev /\ q.conn = req[p].conn
    BY <1>1 DEF Request
  <2> HIDE DEF q
  <2>2. PduFacts(q) /\ DeviceFacts(q)
    BY <1>1, <1>3, <2>1 DEF FactsOf, PduFacts, DeviceFacts, ConnectStages, DisconnectStages,
       ChangeSocketStages, BelowPduStages, SocketCommits
  <2>3. FactsOf(q)
    BY <2>1, <2>2 DEF FactsOf, RackFacts, VersionFacts, TicketFacts, PlaceStages, SubmitStages
  <2>4. \A y \in Row : Holds(q, y) <=> Holds(req[p], y) \/ y = u
    BY <1>1, <2>1 DEF Holds, PlaceStages, ConnectStages, DisconnectStages, ChangeSocketStages,
       BelowPduStages, SocketCommits
  <2> QED BY <1>1, <1>3, <2>1, <2>3, <2>4, NextLocks DEF ConnectStages, SubmitStages
<1> QED BY <1>2, <1>3 DEF ConnectPdu

LEMMA ConnectSocketKept ==
  ASSUME Shape, Layers, Consistent, NEW p \in Proc, ConnectSocket(p)
  PROVE  Layers' /\ UNCHANGED tables
<1> DEFINE s == req[p].sock
           q == [req[p] EXCEPT !.at = "connect.commit"]
<1>1. req[p].at = "connect.socket" /\ Available(p, s) /\ req[p] \in Request /\ FactsOf(req[p])
  BY Stages DEF ConnectSocket, Layers, Facts
<1>2. CASE Rollback(p)
  BY <1>2, RollbackKept
<1>3. CASE MayConnect(s, req[p].dev, req[p].role) /\ TakeRow(p, s, q) /\ UNCHANGED tables
  <2>1. /\ q.at = "connect.commit" /\ q.sock = s /\ q.dev = req[p].dev /\ q.conn = req[p].conn
        /\ q.role = req[p].role
    BY <1>1 DEF Request
  <2> HIDE DEF q, s
  <2>2. DeviceFacts(q)
    BY <1>1, <1>3, <2>1 DEF s, MayConnect, FactsOf, DeviceFacts, ConnectStages
  <2>3. PduFacts(q)
    BY <1>1, <1>3, <2>1 DEF s, MayConnect, FactsOf, PduFacts, ConnectStages, DisconnectStages,
       ChangeSocketStages, BelowPduStages, SocketCommits
  <2>4. FactsOf(q)
    BY <2>1, <2>2, <2>3 DEF FactsOf, RackFacts, VersionFacts, TicketFacts, PlaceStages, SubmitStages
  <2>5. \A y \in Row : Holds(q, y) <=> Holds(req[p], y) \/ y = s
    BY <1>1, <2>1 DEF s, Holds, PlaceStages, ConnectStages, DisconnectStages, ChangeSocketStages,
       BelowPduStages, SocketCommits
  <2> QED BY <1>1, <1>3, <2>1, <2>4, <2>5, NextLocks DEF ConnectStages, SubmitStages
<1> QED BY <1>2, <1>3 DEF ConnectSocket

LEMMA DisconnectPduKept ==
  ASSUME Shape, Layers, Consistent, NEW p \in Proc, DisconnectPdu(p)
  PROVE  Layers' /\ UNCHANGED tables
<1> DEFINE u == sock[req[p].sock].pdu
           q == [req[p] EXCEPT !.at = "disconnect.socket"]
<1>1. req[p].at = "disconnect.pdu" /\ Available(p, u) /\ req[p] \in Request /\ FactsOf(req[p])
  BY Stages DEF DisconnectPdu, Layers, Facts
<1>2. CASE Rollback(p)
  BY <1>2, RollbackKept
<1>3. CASE LivePdu(u) /\ TakeRow(p, u, q) /\ UNCHANGED tables
  <2>1. q.at = "disconnect.socket" /\ q.sock = req[p].sock /\ q.conn = req[p].conn
    BY <1>1 DEF Request
  <2> HIDE DEF q
  <2>2. PduFacts(q)
    BY <1>1, <1>3, <2>1 DEF FactsOf, PduFacts, ConnectStages, DisconnectStages, ChangeSocketStages,
       BelowPduStages, SocketCommits
  <2>3. FactsOf(q)
    BY <2>1, <2>2 DEF FactsOf, DeviceFacts, RackFacts, VersionFacts, TicketFacts, PlaceStages, SubmitStages,
       ConnectStages
  <2>4. \A y \in Row : Holds(q, y) <=> Holds(req[p], y) \/ y = u
    BY <1>1, <2>1 DEF Holds, PlaceStages, ConnectStages, DisconnectStages, ChangeSocketStages,
       BelowPduStages, SocketCommits
  <2> QED BY <1>1, <1>3, <2>1, <2>3, <2>4, NextLocks DEF ConnectStages, SubmitStages
<1> QED BY <1>2, <1>3 DEF DisconnectPdu

LEMMA DisconnectSocketKept ==
  ASSUME Shape, Layers, Consistent, NEW p \in Proc, DisconnectSocket(p)
  PROVE  Layers' /\ UNCHANGED tables
<1> DEFINE s == req[p].sock
           q == [req[p] EXCEPT !.at = "disconnect.commit"]
<1>1. req[p].at = "disconnect.socket" /\ Available(p, s) /\ req[p] \in Request /\ FactsOf(req[p])
  BY Stages DEF DisconnectSocket, Layers, Facts
<1>2. CASE Rollback(p)
  BY <1>2, RollbackKept
<1>3. CASE LiveSocket(s) /\ TakeRow(p, s, q) /\ UNCHANGED tables
  <2>1. q.at = "disconnect.commit" /\ q.sock = s /\ q.conn = req[p].conn
    BY <1>1 DEF Request
  <2> HIDE DEF q, s
  <2>2. PduFacts(q)
    BY <1>1, <1>3, <2>1 DEF s, FactsOf, PduFacts, ConnectStages, DisconnectStages, ChangeSocketStages,
       BelowPduStages, SocketCommits
  <2>3. FactsOf(q)
    BY <2>1, <2>2 DEF FactsOf, DeviceFacts, RackFacts, VersionFacts, TicketFacts, PlaceStages, SubmitStages,
       ConnectStages
  <2>4. \A y \in Row : Holds(q, y) <=> Holds(req[p], y) \/ y = s
    BY <1>1, <2>1 DEF s, Holds, PlaceStages, ConnectStages, DisconnectStages, ChangeSocketStages,
       BelowPduStages, SocketCommits
  <2> QED BY <1>1, <1>3, <2>1, <2>3, <2>4, NextLocks DEF ConnectStages, SubmitStages
<1> QED BY <1>2, <1>3 DEF DisconnectSocket

-----------------------------------------------------------------------------
(* The commits and single statements *)

\* A locked row exists: a device, rack or PDU in use, an approval not yet decided.
LEMMA Held ==
  ASSUME Shape, Layers, NEW q \in Proc, NEW x \in Row, lock[x] = q
  PROVE  /\ x \in Device => LiveDevice(x)
         /\ x \in Rack => LiveRack(x)
         /\ x \in Pdu => LivePdu(x)
         /\ x \in Ticket => ticket[x].st = "PENDING"
<1> USE DEF BelowPduStages, SocketCommits, ConnectStages, DisconnectStages, ChangeSocketStages, PlaceStages
<1>1. Holds(req[q], x) /\ FactsOf(req[q])
  BY DEF Layers, Locks, Facts
<1>2. /\ req[q].at \in DeviceStages => req[q].dev \in Device
      /\ req[q].at \in RackStages => req[q].rack \in Rack
      /\ req[q].at \in PduStages => req[q].pdu \in Pdu
      /\ req[q].at \in SocketStages => req[q].sock \in Socket /\ sock[req[q].sock].pdu \in Pdu
      /\ req[q].ticket \in Ticket \cup {None}
  BY Stages DEF Layers, Request
<1>3. CASE req[q].at \in PlaceStages /\ x = req[q].ticket
  <2>1. x \in Ticket /\ ticket[x].st = "PENDING"
    BY <1>1, <1>2, <1>3, NoneAssumption DEF FactsOf, TicketFacts
  <2> QED BY <2>1, RowAssumption
<1>4. CASE req[q].at \in {"place.rack", "place.commit", "off.commit"} \cup ConnectStages /\ x = req[q].dev
  <2>1. x \in Device /\ LiveDevice(x)
    BY <1>1, <1>2, <1>4 DEF FactsOf, DeviceFacts, DeviceStages
  <2> QED BY <2>1, RowAssumption
<1>5. CASE req[q].at \in {"place.commit", "retire.commit", "pdu.create"} /\ x = req[q].rack
  <2>1. x \in Rack /\ LiveRack(x)
    BY <1>1, <1>2, <1>5 DEF FactsOf, RackFacts, RackStages, Fits, Target, PlaceAt
  <2> QED BY <2>1, RowAssumption
<1>6. CASE req[q].at \in {"pdu.delete", "pdu.archive", "socket.create"} /\ x = req[q].pdu
  <2>1. x \in Pdu /\ LivePdu(x)
    BY <1>1, <1>2, <1>6 DEF FactsOf, PduFacts, PduStages
  <2> QED BY <2>1, RowAssumption
<1>7. CASE req[q].at \in BelowPduStages /\ x = sock[req[q].sock].pdu
  <2>1. x \in Pdu /\ LivePdu(x)
    BY <1>1, <1>2, <1>7 DEF FactsOf, PduFacts, SocketStages
  <2> QED BY <2>1, RowAssumption
<1>8. CASE req[q].at \in SocketCommits /\ x = req[q].sock
  <2>1. x \in Socket
    BY <1>2, <1>8 DEF SocketStages
  <2> QED BY <2>1, RowAssumption
<1> QED
  BY <1>1, <1>3, <1>4, <1>5, <1>6, <1>7, <1>8 DEF Holds

LEMMA VersionsTyped ==
  ASSUME Shape
  PROVE  \A d \in Device : device[d].ver \in Nat
BY DEF Shape, TypeOK, DeviceRow

\* What the end of p's transaction leaves to q.
LEMMA Ended ==
  ASSUME Shape, NEW p \in Proc, EndTx(p) \/ Begin(p, Idle), NEW q \in Proc \ {p}
  PROVE  req'[q] = req[q] /\ \A x \in Row : lock'[x] = q <=> lock[x] = q
<1>1. req'[q] = req[q]
  BY BeginKept, EndTxKept DEF OthersKept
<1>2. \A x \in Row : lock'[x] = q <=> lock[x] = q
  BY NoneAssumption DEF EndTx, Begin
<1> QED BY <1>1, <1>2

LEMMA FreshIds ==
  ASSUME Fresh, NEW p \in Proc, NEW q \in Proc \ {p}
  PROVE  FreshRows(req[p]) /\ FreshRows(req[q]) /\ ~SameRow(req[p], req[q])
BY DEF Fresh

LEMMA PlaceCommitSpares ==
  ASSUME Shape, Layers, NEW p \in Proc, PlaceCommit(p)
  PROVE  Grows /\ \A q \in Proc \ {p} : Spares(q)
<1> DEFINE d == req[p].dev
           t == req[p].ticket
           r == req[p].rack
<1>1. /\ d \in Device /\ lock[d] = p /\ r \in Rack /\ lock[r] = p
      /\ t # None => t \in Ticket /\ lock[t] = p /\ ticket[t].st # "none"
  BY Stages DEF PlaceCommit, Layers, DeviceStages, RackStages, PlaceStages
<1>2. /\ pos' = [pos EXCEPT ![d] = Target(req[p])] /\ device' = [device EXCEPT ![d] = WithLife(@, "RUNNING")]
      /\ ticket' = IF t = None THEN ticket ELSE [ticket EXCEPT ![t].st = "APPROVED"]
      /\ UNCHANGED <<rack, pdu, sock, conn>> /\ Target(req[p]).rack = r /\ EndTx(p)
  BY DEF PlaceCommit, Target, PlaceAt
<1> HIDE DEF d, t, r
<1>3. /\ device'[d].ver = device[d].ver + 1 /\ \A e \in Device \ {d} : device'[e] = device[e] /\ pos'[e] = pos[e]
      /\ pos'[d].rack = r /\ \A e \in Device : device[e].ver \in Nat
      /\ \A x \in Ticket \ {t} : ticket'[x] = ticket[x]
  BY <1>1, <1>2 DEF Shape, TypeOK, DeviceRow, WithLife
<1>4. Grows
  BY <1>2, <1>3 DEF Grows
<1>5. ASSUME NEW q \in Proc \ {p} PROVE Spares(q)
  <2>1. req'[q] = req[q] /\ \A x \in Row : lock'[x] = q <=> lock[x] = q
    BY <1>2, Ended
  <2>2. SparesDevice(q) /\ SparesRack(q) /\ SparesPdu(q)
    BY <1>1, <1>2, <1>3 DEF SparesDevice, SparesRack, SparesPdu
  <2>3. SparesTicket(q) /\ SparesIds(q)
    BY <1>1, <1>2, <1>3, FreshIds, Stages
       DEF SparesTicket, SparesIds, Layers, FreshRows, Shape, ArgumentsOK, ConnectStages, SubmitStages
  <2> QED BY <2>1, <2>2, <2>3 DEF Spares
<1> QED BY <1>4, <1>5

LEMMA DecommissionCommitSpares ==
  ASSUME Shape, Layers, NEW p \in Proc, DecommissionCommit(p)
  PROVE  Grows /\ \A q \in Proc \ {p} : Spares(q)
<1> DEFINE d == req[p].dev
<1>1. d \in Device /\ lock[d] = p
  BY Stages DEF DecommissionCommit, Layers, DeviceStages
<1>2. /\ pos' = [pos EXCEPT ![d] = NoPlace] /\ device' = [device EXCEPT ![d] = WithLife(@, "OFF_RACK")]
      /\ UNCHANGED <<rack, pdu, sock, conn, ticket>> /\ EndTx(p)
  BY DEF DecommissionCommit
<1> HIDE DEF d
<1>3. /\ device'[d].ver = device[d].ver + 1 /\ \A e \in Device \ {d} : device'[e] = device[e] /\ pos'[e] = pos[e]
      /\ pos'[d].rack = None /\ \A e \in Device : device[e].ver \in Nat
  BY <1>1, <1>2 DEF Shape, TypeOK, DeviceRow, WithLife, NoPlace
<1>4. Grows
  BY <1>2, <1>3 DEF Grows
<1>5. ASSUME NEW q \in Proc \ {p} PROVE Spares(q)
  <2>1. req'[q] = req[q] /\ \A x \in Row : lock'[x] = q <=> lock[x] = q
    BY <1>2, Ended
  <2>2. SparesDevice(q) /\ SparesRack(q) /\ SparesPdu(q) /\ SparesTicket(q) /\ SparesIds(q)
    BY <1>1, <1>2, <1>3, NoneAssumption DEF SparesDevice, SparesRack, SparesPdu, SparesTicket, SparesIds, Row
  <2> QED BY <2>1, <2>2 DEF Spares
<1> QED BY <1>4, <1>5

LEMMA DeviceWriteSpares ==
  ASSUME Shape, Layers, NEW p \in Proc, UpdateDeviceWrite(p) \/ DeleteDeviceWrite(p)
  PROVE  Grows /\ \A q \in Proc \ {p} : Spares(q)
<1> DEFINE d == req[p].dev
<1>1. d \in Device /\ lock[d] = None /\ \A e \in Device : device[e].ver \in Nat
  BY Stages DEF UpdateDeviceWrite, DeleteDeviceWrite, Unlocked, Layers, DeviceStages, Shape, TypeOK, DeviceRow
<1>2. /\ \A e \in Device \ {d} : device'[e] = device[e]
      /\ device'[d] = device[d] \/ device'[d].ver = device[d].ver + 1
      /\ UNCHANGED <<pos, rack, pdu, sock, conn, ticket>> /\ Begin(p, Idle)
  BY DEF UpdateDeviceWrite, DeleteDeviceWrite, Shape, TypeOK, DeviceRow
<1> HIDE DEF d
<1>3. Grows
  BY <1>1, <1>2 DEF Grows
<1>4. ASSUME NEW q \in Proc \ {p} PROVE Spares(q)
  <2>1. req'[q] = req[q] /\ \A x \in Row : lock'[x] = q <=> lock[x] = q
    BY <1>2, Ended
  <2>2. SparesDevice(q) /\ SparesRack(q) /\ SparesPdu(q) /\ SparesTicket(q) /\ SparesIds(q)
    BY <1>1, <1>2, NoneAssumption DEF SparesDevice, SparesRack, SparesPdu, SparesTicket, SparesIds
  <2> QED BY <2>1, <2>2 DEF Spares
<1> QED BY <1>3, <1>4

LEMMA DeleteRackCommitSpares ==
  ASSUME Shape, Layers, NEW p \in Proc, DeleteRackCommit(p)
  PROVE  Grows /\ \A q \in Proc \ {p} : Spares(q)
<1> DEFINE r == req[p].rack
<1>1. r \in Rack /\ lock[r] = p
  BY Stages DEF DeleteRackCommit, Layers, RackStages
<1>2. /\ \A x \in Rack \ {r} : rack'[x] = rack[x]
      /\ UNCHANGED <<device, pos, pdu, sock, conn, ticket>> /\ EndTx(p)
  BY DEF DeleteRackCommit, Shape, TypeOK
<1> HIDE DEF r
<1>3. Grows
  BY <1>2, VersionsTyped DEF Grows
<1>4. ASSUME NEW q \in Proc \ {p} PROVE Spares(q)
  <2>1. req'[q] = req[q] /\ \A x \in Row : lock'[x] = q <=> lock[x] = q
    BY <1>2, Ended
  <2>2. SparesDevice(q) /\ SparesRack(q) /\ SparesPdu(q) /\ SparesTicket(q) /\ SparesIds(q)
    BY <1>1, <1>2 DEF SparesDevice, SparesRack, SparesPdu, SparesTicket, SparesIds
  <2> QED BY <2>1, <2>2 DEF Spares
<1> QED BY <1>3, <1>4

LEMMA CreatePduCommitSpares ==
  ASSUME Shape, Layers, NEW p \in Proc, CreatePduCommit(p)
  PROVE  Grows /\ \A q \in Proc \ {p} : Spares(q)
<1> DEFINE u == req[p].pdu
           r == req[p].rack
<1>1. u \in Pdu /\ pdu[u].st = "none" /\ r \in Rack /\ lock[r] = p
  BY Stages DEF CreatePduCommit, Layers, RackStages, PduStages, Fresh, FreshRows
<1>2. /\ \A x \in Pdu \ {u} : pdu'[x] = pdu[x]
      /\ pdu'[u].rack = r /\ pdu'[u].st = "live"
      /\ UNCHANGED <<device, pos, rack, sock, conn, ticket>> /\ EndTx(p)
  BY <1>1 DEF CreatePduCommit, Shape, TypeOK
<1>3. \A q \in Proc \ {p} : req[q].at = "pdu.create" => req[q].pdu # u /\ req[q].pdu \in Pdu
  BY FreshIds, Stages DEF CreatePduCommit, SameRow, Layers, PduStages
<1> HIDE DEF u, r
<1>4. Grows
  BY <1>1, <1>2, VersionsTyped DEF Grows
<1>5. ASSUME NEW q \in Proc \ {p} PROVE Spares(q)
  <2>1. req'[q] = req[q] /\ \A x \in Row : lock'[x] = q <=> lock[x] = q
    BY <1>2, Ended
  <2>2. lock[u] # q
    BY <1>1, Held DEF LivePdu, Row
  <2>3. SparesDevice(q) /\ SparesRack(q) /\ SparesPdu(q) /\ SparesTicket(q) /\ SparesIds(q)
    BY <1>1, <1>2, <1>3, <2>2 DEF SparesDevice, SparesRack, SparesPdu, SparesTicket, SparesIds
  <2> QED BY <2>1, <2>3 DEF Spares
<1> QED BY <1>4, <1>5

\* Deletion and forced archive.
LEMMA PduGoneSpares ==
  ASSUME Shape, Layers, NEW p \in Proc, DeletePduCommit(p) \/ ArchivePduCommit(p)
  PROVE  Grows /\ \A q \in Proc \ {p} : Spares(q)
<1> DEFINE u == req[p].pdu
<1>1. u \in Pdu /\ lock[u] = p /\ pdu[u].st = "live"
  BY Stages DEF DeletePduCommit, ArchivePduCommit, Layers, PduStages, Facts, FactsOf, PduFacts, LivePdu
<1>2. /\ pdu' = PduGone(u) /\ sock' = SocketsGone(u)
      /\ UNCHANGED <<device, pos, rack, ticket>> /\ EndTx(p)
  BY DEF DeletePduCommit, ArchivePduCommit
<1>3. /\ \A x \in Pdu \ {u} : pdu'[x] = pdu[x]
      /\ pdu'[u].rack = pdu[u].rack /\ pdu'[u].st = "deleted"
  BY <1>1, <1>2 DEF PduGone, Shape, TypeOK, PduRow
<1>4. \A s \in Socket : \/ sock'[s] = sock[s]
                        \/ /\ sock[s].st = "live" /\ sock[s].pdu = u
                           /\ sock'[s].st = "deleted" /\ sock'[s].pdu = u
  BY <1>1, <1>2 DEF SocketsGone, SocketsOfPdu, LiveSocket, Shape, TypeOK, SocketRow
<1>5. \A c \in Conn : \/ conn'[c] = conn[c]
                      \/ /\ conn[c].st = "live" /\ sock[conn[c].sock].pdu = u
                         /\ conn'[c].st = "deleted" /\ conn'[c].sock = conn[c].sock
                         /\ conn'[c].dev = conn[c].dev /\ conn'[c].role = conn[c].role
  BY DEF DeletePduCommit, ArchivePduCommit, ArchivedConns, LiveConns, Shape, TypeOK, ConnRow
<1>6. \A c \in Conn : conn[c].st # "none" => conn[c].sock \in Socket
  BY DEF Shape, RowsOK, ForeignKeys
<1> HIDE DEF u
<1>7. Grows
  BY <1>1, <1>2, <1>3, <1>4, <1>5, VersionsTyped DEF Grows
<1>8. ASSUME NEW q \in Proc \ {p} PROVE Spares(q)
  <2>1. req'[q] = req[q] /\ \A x \in Row : lock'[x] = q <=> lock[x] = q
    BY <1>2, Ended
  <2>2. SparesDevice(q) /\ SparesRack(q) /\ SparesTicket(q)
    BY <1>2, <1>3, <1>5 DEF SparesDevice, SparesRack, SparesTicket
  <2>3. SparesPdu(q)
    BY <1>1, <1>3, <1>4, <1>5, <1>6 DEF SparesPdu
  <2>4. SparesIds(q)
    <3>1. /\ req[q].at = "pdu.create" => req[q].pdu \in Pdu /\ pdu[req[q].pdu].st = "none"
          /\ req[q].at = "socket.create" => req[q].sock \in Socket /\ sock[req[q].sock].st = "none"
          /\ req[q].at \in ConnectStages => req[q].conn \in Conn /\ conn[req[q].conn].st = "none"
      BY DEF Layers, Fresh, FreshRows, Shape, ArgumentsOK, PduStages
    <3> QED BY <1>1, <1>2, <1>3, <1>4, <1>5, <3>1 DEF SparesIds
  <2> QED BY <2>1, <2>2, <2>3, <2>4 DEF Spares
<1> QED BY <1>7, <1>8

LEMMA CreateSocketCommitSpares ==
  ASSUME Shape, Layers, NEW p \in Proc, CreateSocketCommit(p)
  PROVE  Grows /\ \A q \in Proc \ {p} : Spares(q)
<1> DEFINE s == req[p].sock
           u == req[p].pdu
<1>1. s \in Socket /\ sock[s].st = "none" /\ u \in Pdu /\ lock[u] = p
  BY Stages DEF CreateSocketCommit, Layers, PduStages, Fresh, FreshRows, Shape, ArgumentsOK
<1>2. /\ \A x \in Socket \ {s} : sock'[x] = sock[x]
      /\ sock'[s].pdu = u /\ sock'[s].st = "live"
      /\ UNCHANGED <<device, pos, rack, pdu, conn, ticket>> /\ EndTx(p)
  BY <1>1 DEF CreateSocketCommit, Shape, TypeOK
<1>3. \A q \in Proc \ {p} : req[q].at = "socket.create" => req[q].sock # s /\ req[q].sock \in Socket
  BY FreshIds DEF CreateSocketCommit, SameRow, Layers, Shape, ArgumentsOK
<1> HIDE DEF s, u
<1>4. Grows
  BY <1>1, <1>2, VersionsTyped DEF Grows
<1>5. ASSUME NEW q \in Proc \ {p} PROVE Spares(q)
  <2>1. req'[q] = req[q] /\ \A x \in Row : lock'[x] = q <=> lock[x] = q
    BY <1>2, Ended
  <2>2. SparesDevice(q) /\ SparesRack(q) /\ SparesTicket(q) /\ SparesPdu(q)
    BY <1>1, <1>2 DEF SparesDevice, SparesRack, SparesPdu, SparesTicket
  <2>3. SparesIds(q)
    BY <1>1, <1>2, <1>3 DEF SparesIds
  <2> QED BY <2>1, <2>2, <2>3 DEF Spares
<1> QED BY <1>4, <1>5

LEMMA ChangeSocketCommitSpares ==
  ASSUME Shape, Layers, NEW p \in Proc, ChangeSocketCommit(p)
  PROVE  Grows /\ \A q \in Proc \ {p} : Spares(q)
<1> DEFINE s == req[p].sock
           u == sock[s].pdu
<1>1. s \in Socket /\ sock[s].st # "none" /\ lock[u] = p
  BY Stages DEF ChangeSocketCommit, Layers, SocketStages, ChangeSocketStages, BelowPduStages
<1>2. /\ \A x \in Socket \ {s} : sock'[x] = sock[x]
      /\ sock'[s].pdu = u /\ sock'[s].st # "none"
      /\ UNCHANGED <<device, pos, rack, pdu, conn, ticket>> /\ EndTx(p)
  BY <1>1 DEF ChangeSocketCommit, Shape, TypeOK, SocketRow
<1>3. \A q \in Proc \ {p} : req[q].at = "socket.create" => req[q].sock # s /\ req[q].sock \in Socket
  BY <1>1 DEF Fresh, FreshRows, Layers, Shape, ArgumentsOK
<1> HIDE DEF s, u
<1>4. Grows
  BY <1>1, <1>2, VersionsTyped DEF Grows, u
<1>5. ASSUME NEW q \in Proc \ {p} PROVE Spares(q)
  <2>1. req'[q] = req[q] /\ \A x \in Row : lock'[x] = q <=> lock[x] = q
    BY <1>2, Ended
  <2>2. SparesDevice(q) /\ SparesRack(q) /\ SparesTicket(q) /\ SparesPdu(q)
    BY <1>1, <1>2 DEF SparesDevice, SparesRack, SparesPdu, SparesTicket
  <2>3. SparesIds(q)
    BY <1>1, <1>2, <1>3 DEF SparesIds
  <2> QED BY <2>1, <2>2, <2>3 DEF Spares
<1> QED BY <1>4, <1>5

LEMMA ConnectCommitSpares ==
  ASSUME Shape, Layers, NEW p \in Proc, ConnectCommit(p)
  PROVE  Grows /\ \A q \in Proc \ {p} : Spares(q)
<1> DEFINE s == req[p].sock
           u == sock[s].pdu
           c == req[p].conn
           d == req[p].dev
<1>1. /\ s \in Socket /\ sock[s].st # "none" /\ lock[u] = p
      /\ c \in Conn /\ conn[c].st = "none" /\ d \in Device /\ lock[d] = p
  BY Stages
     DEF ConnectCommit, Layers, SocketStages, ConnectStages, BelowPduStages, DeviceStages, Fresh, FreshRows
<1>2. /\ \A x \in Socket \ {s} : sock'[x] = sock[x]
      /\ sock'[s].pdu = u /\ sock'[s].st = sock[s].st
      /\ \A x \in Conn \ {c} : conn'[x] = conn[x]
      /\ conn'[c].st = "live" /\ conn'[c].sock = s /\ conn'[c].dev = d
      /\ UNCHANGED <<device, pos, rack, pdu, ticket>> /\ EndTx(p)
  BY <1>1 DEF ConnectCommit, Shape, TypeOK, SocketRow
<1>3. \A q \in Proc \ {p} :
        /\ req[q].at = "socket.create" => req[q].sock # s /\ req[q].sock \in Socket
        /\ req[q].at \in ConnectStages => req[q].conn # c /\ req[q].conn \in Conn
  BY <1>1, FreshIds DEF ConnectCommit, SameRow, FreshRows, Layers, Shape, ArgumentsOK, ConnectStages
<1> HIDE DEF s, u, c, d
<1>4. Grows
  BY <1>1, <1>2, VersionsTyped DEF Grows, u
<1>5. ASSUME NEW q \in Proc \ {p} PROVE Spares(q)
  <2>1. req'[q] = req[q] /\ \A x \in Row : lock'[x] = q <=> lock[x] = q
    BY <1>2, Ended
  <2>2. SparesDevice(q) /\ SparesRack(q) /\ SparesTicket(q) /\ SparesPdu(q)
    BY <1>1, <1>2 DEF SparesDevice, SparesRack, SparesPdu, SparesTicket
  <2>3. SparesIds(q)
    BY <1>1, <1>2, <1>3 DEF SparesIds
  <2> QED BY <2>1, <2>2, <2>3 DEF Spares
<1> QED BY <1>4, <1>5

LEMMA DisconnectCommitSpares ==
  ASSUME Shape, Layers, NEW p \in Proc, DisconnectCommit(p)
  PROVE  Grows /\ \A q \in Proc \ {p} : Spares(q)
<1> DEFINE s == req[p].sock
           u == sock[s].pdu
           c == req[p].conn
<1>1. /\ s \in Socket /\ sock[s].st # "none" /\ lock[u] = p
      /\ c \in Conn /\ conn[c].st = "live" /\ conn[c].sock = s
  BY Stages
     DEF DisconnectCommit, Layers, SocketStages, DisconnectStages, BelowPduStages, LiveConns, Facts, FactsOf, PduFacts
<1>2. /\ \A x \in Socket \ {s} : sock'[x] = sock[x]
      /\ sock'[s].pdu = u /\ sock'[s].st = sock[s].st
      /\ \A x \in Conn \ {c} : conn'[x] = conn[x]
      /\ conn'[c].st = "deleted" /\ conn'[c].sock = s /\ conn'[c].dev = conn[c].dev /\ conn'[c].role = conn[c].role
      /\ UNCHANGED <<device, pos, rack, pdu, ticket>> /\ EndTx(p)
  BY <1>1 DEF DisconnectCommit, Shape, TypeOK, SocketRow, ConnRow
<1>3. \A q \in Proc \ {p} :
        /\ req[q].at = "socket.create" => req[q].sock # s /\ req[q].sock \in Socket
        /\ req[q].at \in ConnectStages => req[q].conn # c /\ req[q].conn \in Conn
  BY <1>1, FreshIds DEF FreshRows, Layers, Shape, ArgumentsOK, ConnectStages
<1> HIDE DEF s, u, c
<1>4. Grows
  BY <1>1, <1>2, VersionsTyped DEF Grows, u
<1>5. ASSUME NEW q \in Proc \ {p} PROVE Spares(q)
  <2>1. req'[q] = req[q] /\ \A x \in Row : lock'[x] = q <=> lock[x] = q
    BY <1>2, Ended
  <2>2. SparesDevice(q) /\ SparesRack(q) /\ SparesTicket(q) /\ SparesPdu(q)
    BY <1>1, <1>2 DEF SparesDevice, SparesRack, SparesPdu, SparesTicket
  <2>3. SparesIds(q)
    BY <1>1, <1>2, <1>3 DEF SparesIds
  <2> QED BY <2>1, <2>2, <2>3 DEF Spares
<1> QED BY <1>4, <1>5

LEMMA SubmitInsertSpares ==
  ASSUME Shape, Layers, NEW p \in Proc, SubmitInsert(p)
  PROVE  Grows /\ \A q \in Proc \ {p} : Spares(q)
<1> DEFINE t == req[p].ticket
<1>1. t \in Ticket /\ ticket[t].st = "none"
  BY DEF SubmitInsert, Layers, SubmitStages, Fresh, FreshRows, Shape, ArgumentsOK
<1>2. /\ \A x \in Ticket \ {t} : ticket'[x] = ticket[x]
      /\ UNCHANGED <<device, pos, rack, pdu, sock, conn>> /\ Begin(p, Idle)
  BY DEF SubmitInsert, Shape, TypeOK
<1>3. \A q \in Proc \ {p} : req[q].at \in SubmitStages => req[q].ticket # t /\ req[q].ticket \in Ticket
  BY FreshIds DEF SubmitInsert, SameRow, Layers, Shape, ArgumentsOK, SubmitStages
<1> HIDE DEF t
<1>4. Grows
  BY <1>2, VersionsTyped DEF Grows
<1>5. ASSUME NEW q \in Proc \ {p} PROVE Spares(q)
  <2>1. req'[q] = req[q] /\ \A x \in Row : lock'[x] = q <=> lock[x] = q
    BY <1>2, Ended
  <2>2. lock[t] # q
    BY <1>1, Held DEF Row
  <2>3. SparesDevice(q) /\ SparesRack(q) /\ SparesTicket(q) /\ SparesPdu(q) /\ SparesIds(q)
    BY <1>1, <1>2, <1>3, <2>2 DEF SparesDevice, SparesRack, SparesPdu, SparesTicket, SparesIds
  <2> QED BY <2>1, <2>3 DEF Spares
<1> QED BY <1>4, <1>5

\* The statements without a transaction.
LEMMA CreateDeviceSpares ==
  ASSUME Shape, Layers, Unborn, NEW d \in Device, NEW h, NEW life, CreateDevice(d, h, life)
  PROVE  Grows /\ UNCHANGED <<lock, req>> /\ \A q \in Proc : Spares(q)
<1>1. /\ device[d].st = "none" /\ device[d].ver = 0 /\ device'[d].ver = 1
      /\ \A e \in Device \ {d} : device'[e] = device[e]
      /\ UNCHANGED <<pos, rack, pdu, sock, conn, ticket, lock, req>>
  BY DEF CreateDevice, Unborn, Shape, TypeOK
<1>2. Grows
  BY <1>1, VersionsTyped DEF Grows
<1>3. ASSUME NEW q \in Proc PROVE Spares(q)
  <2>1. lock[d] # q
    BY <1>1, Held DEF LiveDevice, Row
  <2>2. SparesDevice(q) /\ SparesRack(q) /\ SparesTicket(q) /\ SparesPdu(q) /\ SparesIds(q)
    BY <1>1, <2>1 DEF SparesDevice, SparesRack, SparesPdu, SparesTicket, SparesIds
  <2> QED BY <1>1, <2>2 DEF Spares
<1> QED BY <1>1, <1>2, <1>3

LEMMA RackStatementSpares ==
  ASSUME Shape, Layers, NEW r \in Rack, NEW h, NEW s, CreateRack(r, h, s) \/ UpdateRack(r, h, s)
  PROVE  Grows /\ UNCHANGED <<lock, req>> /\ \A q \in Proc : Spares(q)
<1>1. /\ rack[r].st = "none" \/ lock[r] = None
      /\ \A x \in Rack \ {r} : rack'[x] = rack[x]
      /\ UNCHANGED <<device, pos, pdu, sock, conn, ticket, lock, req>>
  BY DEF CreateRack, UpdateRack, Unlocked, Shape, TypeOK
<1>2. Grows
  BY <1>1, VersionsTyped DEF Grows
<1>3. ASSUME NEW q \in Proc PROVE Spares(q)
  <2>1. lock[r] # q
    BY <1>1, Held, NoneAssumption DEF LiveRack, Row
  <2>2. SparesDevice(q) /\ SparesRack(q) /\ SparesTicket(q) /\ SparesPdu(q) /\ SparesIds(q)
    BY <1>1, <2>1 DEF SparesDevice, SparesRack, SparesPdu, SparesTicket, SparesIds
  <2> QED BY <1>1, <2>2 DEF Spares
<1> QED BY <1>1, <1>2, <1>3

LEMMA RejectSpares ==
  ASSUME Shape, Layers, NEW t \in Ticket, Reject(t)
  PROVE  Grows /\ UNCHANGED <<lock, req>> /\ \A q \in Proc : Spares(q)
<1>1. /\ lock[t] = None /\ ticket[t].st = "PENDING"
      /\ \A x \in Ticket \ {t} : ticket'[x] = ticket[x]
      /\ UNCHANGED <<device, pos, rack, pdu, sock, conn, lock, req>>
  BY DEF Reject, Unlocked, Shape, TypeOK
<1>2. Grows
  BY <1>1, VersionsTyped DEF Grows
<1>3. ASSUME NEW q \in Proc PROVE Spares(q)
  <2>1. lock[t] # q
    BY <1>1, NoneAssumption
  <2>2. req[q].at \in SubmitStages => req[q].ticket \in Ticket /\ req[q].ticket # t
    BY <1>1 DEF Layers, Fresh, FreshRows, Shape, ArgumentsOK
  <2>3. SparesDevice(q) /\ SparesRack(q) /\ SparesTicket(q) /\ SparesPdu(q) /\ SparesIds(q)
    BY <1>1, <2>1, <2>2 DEF SparesDevice, SparesRack, SparesPdu, SparesTicket, SparesIds
  <2> QED BY <1>1, <2>3 DEF Spares
<1> QED BY <1>1, <1>2, <1>3

\* The policy, and a stuttering step.
LEMMA OtherSpares ==
  ASSUME Shape, UNCHANGED <<device, rack, pos, pdu, sock, conn, ticket, lock, req>>
  PROVE  Grows /\ \A q \in Proc : Spares(q)
BY DEF Grows, Spares, SparesDevice, SparesRack, SparesPdu, SparesTicket, SparesIds, Shape, TypeOK, DeviceRow

-----------------------------------------------------------------------------
(* The whole *)

\* The steps that write a table: the last step of a request, and the statements that
\* are requests of their own.
Commit(p) ==
  \/ UpdateDeviceWrite(p) \/ DeleteDeviceWrite(p) \/ PlaceCommit(p) \/ DecommissionCommit(p)
  \/ DeleteRackCommit(p) \/ CreatePduCommit(p) \/ DeletePduCommit(p) \/ ArchivePduCommit(p)
  \/ CreateSocketCommit(p) \/ ChangeSocketCommit(p) \/ ConnectCommit(p) \/ DisconnectCommit(p)
  \/ SubmitInsert(p)

Single ==
  \/ \E d \in Device, h \in Heights, life \in Lives : CreateDevice(d, h, life)
  \/ \E r \in Rack, h \in UHeights, s \in Statuses : CreateRack(r, h, s) \/ UpdateRack(r, h, s)
  \/ \E op \in Operation, on \in BOOLEAN : UpdatePolicy(op, on)
  \/ \E t \in Ticket : Reject(t)

Reads == Layers' /\ UNCHANGED tables

LEMMA CallReads ==
  ASSUME Shape, Layers, Consistent, Call
  PROVE  Reads \/ Single
<1>1. CASE PlacementCall
  BY <1>1, UpdateDeviceReadKept, DeleteDeviceCheckKept, RequestPlaceKept, DecommissionDeviceKept, DeleteRackCheckKept
     DEF PlacementCall, Single, Reads
<1>2. ASSUME NEW p \in Proc, NEW u \in Pdu, NEW n \in 0 .. Cardinality(Conn), ArchivePduCheck(p, u, n)
      PROVE  Reads
  <2>1. n \in Nat
    BY <1>2 DEF ArchivePduCheck
  <2> QED BY <1>2, <2>1, ArchivePduCheckKept DEF Reads
<1>3. CASE PowerCall
  BY <1>2, <1>3, CreatePduRackKept, DeletePduCheckKept, CreateSocketPduKept, ChangeSocketPduKept, ConnectDeviceKept,
     RequestDisconnectKept
     DEF PowerCall, Reads
<1>4. CASE ApprovalCall
  BY <1>4, RequestApprovalKept, ApproveKept DEF ApprovalCall, Single, Reads
<1> QED BY <1>1, <1>3, <1>4 DEF Call

LEMMA StepReads ==
  ASSUME Shape, Layers, Consistent, NEW p \in Proc, Step(p) \/ Crash(p)
  PROVE  Reads \/ Commit(p)
<1>1. CASE PlacementStep(p)
  BY <1>1, UpdateDevicePositionKept, PlaceDeviceKept, PlaceRackKept DEF PlacementStep, Commit, Reads
<1>2. CASE PowerStep(p)
  BY <1>2, ChangeSocketRowKept, ConnectPduKept, ConnectSocketKept, DisconnectPduKept, DisconnectSocketKept, RollbackKept
     DEF PowerStep, DisconnectConflict, Commit, Reads
<1>3. CASE ApprovalStep(p)
  BY <1>3, SubmitPositionKept DEF ApprovalStep, Commit, Reads
<1>4. CASE Crash(p)
  BY <1>4, RollbackKept DEF Crash, Reads
<1> QED BY <1>1, <1>2, <1>3, <1>4 DEF Step

LEMMA CommitSpares ==
  ASSUME Shape, Shape', Layers, NEW p \in Proc, Commit(p)
  PROVE  Layers' /\ Grows /\ \A q \in Proc \ {p} : Spares(q)
<1>1. Grows /\ \A q \in Proc \ {p} : Spares(q)
  BY PlaceCommitSpares, DecommissionCommitSpares, DeviceWriteSpares, DeleteRackCommitSpares, CreatePduCommitSpares,
     PduGoneSpares, CreateSocketCommitSpares, ChangeSocketCommitSpares, ConnectCommitSpares, DisconnectCommitSpares,
     SubmitInsertSpares
     DEF Commit
<1>2. EndTx(p) \/ (Begin(p, Idle) /\ req[p].at \in {"update.write", "delete.write", "submit.insert"})
  BY DEF Commit, UpdateDeviceWrite, DeleteDeviceWrite, PlaceCommit, DecommissionCommit, DeleteRackCommit,
     CreatePduCommit, DeletePduCommit, ArchivePduCommit, CreateSocketCommit, ChangeSocketCommit, ConnectCommit,
     DisconnectCommit, SubmitInsert
<1>3. req[p].at \in {"update.write", "delete.write", "submit.insert"} => \A x \in Row : ~Holds(req[p], x)
  BY DEF Holds, PlaceStages, ConnectStages, DisconnectStages, ChangeSocketStages, BelowPduStages, SocketCommits
<1> QED
  BY <1>1, <1>2, <1>3, WriteKept

LEMMA SingleSpares ==
  ASSUME Shape, Shape', Layers, Consistent, Single
  PROVE  Layers' /\ Grows /\ \A q \in Proc : Spares(q)
<1>1. ASSUME NEW op, NEW on, UpdatePolicy(op, on)
      PROVE  Grows /\ UNCHANGED <<lock, req>> /\ \A q \in Proc : Spares(q)
  BY <1>1, OtherSpares DEF UpdatePolicy
<1>2. Grows /\ UNCHANGED <<lock, req>> /\ \A q \in Proc : Spares(q)
  BY <1>1, CreateDeviceSpares, RackStatementSpares, RejectSpares DEF Single, Consistent
<1> QED
  BY <1>2, StatementKept

\* Every step reads, commits or is a statement of its own, and keeps the first three layers.
LEMMA Steps ==
  ASSUME Shape, Layers, Consistent, [Next]_vars
  PROVE  Shape' /\ Layers' /\ (UNCHANGED tables \/ Single \/ \E p \in Proc : Commit(p))
<1>1. Shape'
  BY ShapeNext
<1>2. CASE UNCHANGED vars
  BY <1>1, <1>2, OtherSpares, StatementKept DEF vars, tables
<1>3. CASE Next
  BY <1>1, <1>3, CallReads, StepReads, CommitSpares, SingleSpares DEF Next, Reads
<1> QED BY <1>1, <1>2, <1>3

LEMMA LayersInit == Init => Layers
<1> SUFFICES ASSUME Init PROVE Layers
  OBVIOUS
<1>1. \A p \in Proc : req[p] = Idle
  BY DEF Init
<1>2. \A x \in Row : lock[x] = None
  BY DEF Init
<1> QED
  BY <1>1, <1>2, IdleKnows, NoneAssumption DEF Layers, Locks, Fresh, Facts

=============================================================================
