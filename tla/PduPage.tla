------------------------------- MODULE PduPage -------------------------------
(***************************************************************************)
(* PduManager.vue, for one rack: PDUs (rows of the group), their sockets    *)
(* and the connections of the sockets.  A load has two stages: PDUs with    *)
(* connections, then the sockets of the PDUs.                               *)
(***************************************************************************)
EXTENDS Wire

Closed == [mode |-> "closed", row |-> NoRow, ver |-> 0, up |-> NoRow]
\* busy: the sockets that are not AVAILABLE, as of the answer that lists them.
Pdus(rack) == [page |-> "pdus", rack |-> rack, rows |-> {}, socks |-> {}, busy |-> {}, conns |-> {},
               dlg |-> Closed, form |-> Blank, saving |-> FALSE, loading |-> FALSE, ok |-> FALSE]

OnPdus == ui.page = "pdus"
AtPdus == OnPdus /\ ui.dlg.mode = "closed"

\* The three kinds of rows, by what they belong to.
Units(rows) == {x \in rows: x.up \in Group}
Sockets(rows) == {x \in rows: \E p \in Units(rows): x.up = p.row}
Connections(rows) == {x \in rows: \E s \in Sockets(rows): x.up = s.row}
ConnectionOf(s) == {c \in ui.conns: c.up = s.row}

Fetch(ctx, rack) == [Call EXCEPT !.ctx = ctx, !.up = rack]
PduCall(op, ctx, r, v) == [Call EXCEPT !.op = op, !.ctx = ctx, !.row = r, !.ver = v]

LoadAll == AtPdus /\ ~ui.loading /\ Quiet /\ Load(ui, Fetch("pdus", ui.rack))

\* The first stage; a failed list of connections counts as an empty one.
LandPdus(m) ==
  LET saved == m.ctx = "pdusSaved" IN
  /\ \/ Landed(m, "pdus")
     \/ Landed(m, "pdusSaved")
  /\ UNCHANGED srv
  /\ IF m.res # "ok"
     THEN ui' = [ui EXCEPT !.loading = FALSE, !.saving = @ /\ ~saved, !.ok = FALSE] /\ net' = net \ {m}
     ELSE /\ net' = Add(net \ {m}, Fetch(IF saved THEN "socketsSaved" ELSE "sockets", ui.rack))
          /\ \/ ui' = [ui EXCEPT !.rows = Units(m.rows), !.conns = Connections(m.rows)]
             \/ ui' = [ui EXCEPT !.rows = Units(m.rows), !.conns = {}, !.ok = FALSE]

\* The second stage; sockets that could not be listed are not shown.
LandSockets(m) ==
  /\ \/ Landed(m, "sockets")
     \/ Landed(m, "socketsSaved")
  /\ net' = net \ {m} /\ UNCHANGED srv
  /\ ui' = [ui EXCEPT !.socks = Sockets(m.rows), !.busy = {c.up: c \in Connections(m.rows)},
                      !.loading = FALSE, !.saving = @ /\ m.ctx # "socketsSaved", !.ok = @ /\ m.res = "ok"]

Open(mode, r, v, up) == Set([ui EXCEPT !.dlg = [mode |-> mode, row |-> r, ver |-> v, up |-> up], !.form = [row |-> r, ver |-> v]])
OpenCreatePDU == Open("pdu", NoRow, 0, NoRow)
OpenEditPDU(p) == Open("pdu", p.row, p.ver, NoRow)
OpenCreateSocket(p) == Open("socket", NoRow, 0, p.row)
OpenEditSocket(s) == Open("socket", s.row, s.ver, s.up)
OpenConnect(s) == Open("connect", NoRow, 0, s.row)
Cancel == OnPdus /\ ui.dlg.mode # "closed" /\ Set([ui EXCEPT !.dlg = Closed])

\* The three save buttons, which are disabled while a save is under way.
Saving(mode, c) == OnPdus /\ ui.dlg.mode = mode /\ ~ui.saving /\ Write([ui EXCEPT !.saving = TRUE], c)
SavePDU ==
  Saving("pdu", IF ui.dlg.row = NoRow THEN [PduCall("post", "pdu", NoRow, 0) EXCEPT !.up = ui.rack]
                ELSE [PduCall("overwrite", "pdu", ui.dlg.row, ui.dlg.ver) EXCEPT !.form = ui.form])
SaveSocket ==
  Saving("socket", IF ui.dlg.row = NoRow THEN [PduCall("post", "socket", NoRow, 0) EXCEPT !.up = ui.dlg.up]
                   ELSE [PduCall("overwrite", "socket", ui.dlg.row, ui.dlg.ver) EXCEPT !.form = ui.form])
ConfirmConnect == Saving("connect", [PduCall("post", "connect", NoRow, 0) EXCEPT !.up = ui.dlg.up])

LandSave(m) ==
  /\ m.ctx \in {"pdu", "socket", "connect"} /\ Landed(m, m.ctx)
  /\ After(m, IF ui.dlg.mode = m.ctx THEN [ui EXCEPT !.dlg = Closed] ELSE ui, Fetch("pdusSaved", ui.rack),
           [ui EXCEPT !.saving = FALSE])

RemovePDU(p) == Write(ui, PduCall("delete", "remove", p.row, p.ver))
RemoveSocket(s) == Write(ui, PduCall("delete", "remove", s.row, s.ver))
Disconnect(c) == Write(ui, PduCall("delete", "remove", c.row, c.ver))
LandRemove(m) == Landed(m, "remove") /\ After(m, ui, Fetch("pdus", ui.rack), ui)

PduButtons ==
  AtPdus /\ (OpenCreatePDU \/ \E p \in ui.rows: OpenEditPDU(p) \/ RemovePDU(p) \/ OpenCreateSocket(p))
\* A socket can be disconnected when a connection of it is listed, and connected
\* when none is and its status was AVAILABLE.
SocketButtons ==
  /\ AtPdus
  /\ \E s \in ui.socks:
       \/ OpenEditSocket(s) \/ RemoveSocket(s)
       \/ \E c \in ConnectionOf(s): Disconnect(c)
       \/ ConnectionOf(s) = {} /\ s.row \notin ui.busy /\ OpenConnect(s)

\* The panel is mounted in the dialog of a rack and loads at once.
Mounted == \E g \in Group: ui = Begin(Pdus(g), {}) /\ net = Add({}, Fetch("pdus", g))
PageNext ==
  \/ LoadAll \/ PduButtons \/ SocketButtons \/ Cancel
  \/ SavePDU \/ SaveSocket \/ ConfirmConnect
  \/ \E m \in net: LandPdus(m) \/ LandSockets(m) \/ LandSave(m) \/ LandRemove(m)

\* What is drawn: the PDUs, the sockets of them and the connections of those.
ShowsTruth ==
  LET now == Matching(ui.rack) IN
  /\ ui.rows = Units(now)
  /\ ui.socks = Sockets(now)
  /\ ui.conns = Connections(now)
=============================================================================
