------------------------------ MODULE ScreenPage ------------------------------
(***************************************************************************)
(* RoomScreenView.vue with its drawer and editor: the racks of one room,    *)
(* drawn with the devices mounted in them.  The racks come with the tree;   *)
(* what is mounted in a rack is asked for once and then kept, until the     *)
(* page itself has placed a device.  Rows: rooms, racks below a room,       *)
(* devices below a rack or, off the racks, below the group.                 *)
(***************************************************************************)
EXTENDS Wire

CONSTANT Hideable     \* bound: the racks that filter and keyword may leave out

Closed == [mode |-> "closed", row |-> NoRow, ver |-> 0, target |-> NoRow]

\* `devs` keeps what was mounted in a rack, `hidden` the racks that the status
\* filter and the keyword leave out, `sel` the selected rack as it was when it was
\* selected, `form` what the editor of devices holds, from one opening to the next.
\* `fresh` is history: nothing has excused `devs` from the truth.
Screen == [page |-> "screen", rows |-> {}, room |-> NoRow, devs |-> {}, sel |-> Blank, hidden |-> {}, dlg |-> Closed,
           form |-> Blank, cand |-> {}, saving |-> FALSE, dragging |-> 0, exporting |-> FALSE, loading |-> FALSE,
           ok |-> FALSE, fresh |-> FALSE]

OnScreen == ui.page = "screen"
AtScreen == OnScreen /\ ui.dlg.mode = "closed"
\* The mask of a load covers the canvas, not the panel and the tool bar.
AtCanvas == AtScreen /\ ~ui.loading
InDialog(mode) == OnScreen /\ ui.dlg.mode = mode

Rooms(rows) == {x \in rows: x.up = All}
Racks(s) == {x \in s.rows: x.up = s.room /\ x.up # All}
Filtered(s) == {x \in Racks(s): x.row \notin s.hidden}
First(S) == IF S = {} THEN NoRow ELSE (CHOOSE x \in S: \A y \in S: x.row <= y.row).row
Has(S, r) == \E x \in S: x.row = r
Snapshot(x) == [row |-> x.row, ver |-> x.ver]
Mounted(s, r) == UNION {d.rows: d \in {e \in s.devs: e.rack = r}}

\* Without a selection that is drawn, the first rack that is drawn is selected.
EnsureSelection(s) ==
  IF Has(Filtered(s), s.sel.row) THEN s
  ELSE [s EXCEPT !.sel = IF Filtered(s) = {} THEN Blank
                         ELSE Snapshot(CHOOSE x \in Filtered(s): x.row = First(Filtered(s)))]

ScreenCall(op, ctx, r, v) == [Call EXCEPT !.op = op, !.ctx = ctx, !.row = r, !.ver = v]
FetchTree(ctx) == ScreenCall("list", ctx, NoRow, 0)

-----------------------------------------------------------------------------
(* Loading.  The calls of one batch are awaited together; what follows them   *)
(* is the context they carry.                                                *)

Batches == {"tree", "treeSaved", "treeDragged", "room", "placed", "export"}
Batch(b) == {m \in net: m.op = "layout" /\ m.page = b}
Spare(calls) == CHOOSE b \in 1..(Cardinality(calls) + 1): \A m \in calls: m.op # "layout" \/ m.page # b
Missing(s) == {x.row: x \in Racks(s)} \ {d.rack: d \in s.devs}

\* What is done when a batch, or a load that fails, has ended.
Ended(s, ctx) ==
  LET t == [s EXCEPT !.loading = @ /\ ctx \notin {"tree", "treeSaved", "treeDragged"}, !.saving = @ /\ ctx # "treeSaved",
                     !.dragging = IF ctx = "treeDragged" THEN 0 ELSE @, !.exporting = @ /\ ctx # "export"]
  IN IF ctx \in {"placed", "export"} THEN t ELSE EnsureSelection(t)

LoadLayouts(s, ctx, calls) ==
  IF Missing(s) = {} THEN ui' = Ended(s, ctx) /\ net' = calls
  ELSE /\ ui' = s
       /\ net' = calls \cup {[ScreenCall("layout", ctx, r, 0) EXCEPT !.page = Spare(calls)]: r \in Missing(s)}

\* A layout that could not be had is left out.
LandLayouts(b) ==
  LET batch == Batch(b)
      got == {m \in batch: m.res = "ok"}
      ctx == (CHOOSE m \in batch: TRUE).ctx
      s == [ui EXCEPT !.devs = {d \in @: \A m \in got: d.rack # m.row} \cup {[rack |-> m.row, rows |-> m.rows]: m \in got},
                      !.fresh = @ /\ got = batch]
  IN /\ batch # {} /\ \A m \in batch: m.res # "pending"
     /\ ui' = Ended(s, ctx) /\ net' = net \ batch /\ UNCHANGED <<srv, left>>

\* The tree lands: a room that is gone gives way to the first, and layouts that
\* are missing are asked for.
LandTree(m) ==
  /\ m.op = "list" /\ m.ctx \in Batches /\ Landed(m, m.ctx) /\ UNCHANGED srv
  /\ IF m.res # "ok"
     THEN /\ net' = net \ {m}
          /\ ui' = [Ended(ui, m.ctx) EXCEPT !.sel = ui.sel, !.ok = FALSE]
     ELSE LET rooms == Rooms(m.rows)
              tree == {x \in m.rows: x.up = All \/ Has(rooms, x.up)}
          IN LoadLayouts([ui EXCEPT !.rows = tree, !.room = IF Has(rooms, @) THEN @ ELSE First(rooms)], m.ctx, net \ {m})

LoadTree == AtScreen /\ Quiet /\ Load(ui, FetchTree("tree"))

\* Another room, or another data centre and its first room.
OnRoomChange == /\ AtScreen /\ Quiet /\ UNCHANGED srv
                /\ \E x \in Rooms(ui.rows): x.row # ui.room /\ LoadLayouts([ui EXCEPT !.room = x.row, !.sel = Blank], "room", net)

\* The status filter repairs the selection, typing a keyword does not; Enter
\* selects the first rack that is drawn.
Filter(S) == S # ui.hidden /\ UNCHANGED <<srv, net, left>>
             /\ \/ ui' = EnsureSelection([ui EXCEPT !.hidden = S])
                \/ ui' = [ui EXCEPT !.hidden = S]
SetStatus == AtScreen /\ \E S \in SUBSET ({x.row: x \in Racks(ui)} \cap Hideable): Filter(S)
ApplySearch == AtCanvas /\ ui.hidden # {} /\ \E x \in Filtered(ui): x.row = First(Filtered(ui)) /\ Set([ui EXCEPT !.sel = Snapshot(x)])
SelectRack == AtCanvas /\ \E x \in Filtered(ui): ui.sel # Snapshot(x) /\ Set([ui EXCEPT !.sel = Snapshot(x)])

\* The workbook is made of what is kept, after the missing layouts.
DoExport == AtScreen /\ ~ui.exporting /\ Racks(ui) # {} /\ Quiet /\ UNCHANGED srv
            /\ LoadLayouts([ui EXCEPT !.exporting = TRUE], "export", net)

-----------------------------------------------------------------------------
(* Devices.  After a placement all layouts are thrown away.  An older answer,  *)
(* of a layout or of a device that was saved, may still overtake the new ones. *)

Older(calls) == {m \in calls: m.op = "layout" \/ m.ctx = "saved"}
ReloadLayouts(s, calls) ==
  LoadLayouts([s EXCEPT !.devs = {}, !.fresh = Older(calls) = {}], "placed", calls)

OpenDevice(mode, d) == [ui EXCEPT !.dlg = [Closed EXCEPT !.mode = mode, !.row = d.row]]
DevicesOf(rack) == Mounted(ui, rack.row)

\* A free unit of a rack: the devices off the racks are offered.
AssignAt == AtCanvas /\ \E x \in Filtered(ui):
              Write([ui EXCEPT !.dlg = [Closed EXCEPT !.mode = "assign", !.target = x.row]],
                    [ScreenCall("list", "assignable", NoRow, 0) EXCEPT !.up = CHOOSE g \in Group: TRUE])
LandAssignable(m) == /\ Landed(m, "assignable") /\ net' = net \ {m} /\ UNCHANGED srv
                     /\ ui' = IF m.res = "ok" THEN [ui EXCEPT !.cand = {x \in m.rows: x.up \in Group}] ELSE ui
ConfirmAssign == InDialog("assign") /\ \E x \in ui.cand: Write(ui, [ScreenCall("mount", "place", x.row, 0) EXCEPT !.up = ui.dlg.target])

OpenMove == AtCanvas /\ \E x \in Filtered(ui): \E d \in DevicesOf(x): Set(OpenDevice("move", d))
ConfirmMove == InDialog("move") /\ \E x \in Racks(ui): Write(ui, [ScreenCall("shift", "place", ui.dlg.row, 0) EXCEPT !.up = x.row])

\* From the menu of a device, and from the drawer, which names the device it shows.
Unmount(r) == [ScreenCall("unmount", "off", r, 0) EXCEPT !.up = CHOOSE g \in Group: TRUE]
OfflineDevice == AtCanvas /\ \E x \in Filtered(ui): \E d \in DevicesOf(x): Write(ui, Unmount(d.row))
DrawerOffline == InDialog("drawer") /\ ui.dlg.target # NoRow /\ Write(ui, Unmount(ui.dlg.target))

\* No call names its dialog, and what is open is closed: for a device taken off, the drawer.
LandPlace(m) ==
  /\ \/ Landed(m, "place")
     \/ Landed(m, "off")
  /\ UNCHANGED srv
  /\ LET modes == IF m.op = "mount" THEN {"assign"} ELSE IF m.op = "shift" THEN {"move"} ELSE {"drawer"} IN
     IF m.res # "ok" THEN ui' = (IF m.did THEN Excused(ui) ELSE ui) /\ net' = net \ {m}
     ELSE ReloadLayouts([ui EXCEPT !.dlg = IF @.mode \in modes THEN Closed ELSE @], net \ {m})

\* The drawer, empty when it opens, shows (as its target) whichever answer comes
\* last; so does the editor, which keeps what the last opening left in it.
OpenDeviceDetail ==
  AtCanvas /\ \E x \in Filtered(ui): \E d \in DevicesOf(x), mode \in {"drawer", "device"}:
    Write(OpenDevice(mode, d), ScreenCall("get", mode, d.row, 0))
LandDetail(m) ==
  /\ m.ctx \in {"drawer", "device"} /\ Landed(m, m.ctx) /\ net' = net \ {m} /\ UNCHANGED srv
  /\ ui' = IF m.res # "ok" THEN [ui EXCEPT !.dlg = IF @.mode = m.ctx THEN Closed ELSE @]
           ELSE IF m.ctx = "device" THEN [ui EXCEPT !.form = Snapshot(CHOOSE x \in m.rows: TRUE)]
           ELSE [ui EXCEPT !.dlg.target = IF ui.dlg.mode = "drawer" THEN m.row ELSE @]

\* The editor saves with the version that came with the form, reads the device
\* again, and hands it to the page, which puts it where the old one was.
SaveDevice ==
  /\ InDialog("device") /\ ui.form # Blank /\ ~ui.saving
  /\ Write([ui EXCEPT !.saving = TRUE],
           [ScreenCall("put", "saveDevice", ui.dlg.row, ui.form.ver) EXCEPT !.form = ui.form, !.mixed = ui.form.row # ui.dlg.row])
LandSaveDevice(m) ==
  /\ Landed(m, "saveDevice") /\ UNCHANGED srv
  /\ IF m.res = "ok"
     THEN ui' = ui /\ net' = Add(net \ {m}, ScreenCall("get", "saved", m.row, 0))
     ELSE ui' = (IF m.did THEN [Excused(ui) EXCEPT !.saving = FALSE] ELSE [ui EXCEPT !.saving = FALSE]) /\ net' = net \ {m}
InPlace(S, x) == {IF d.row = x.row THEN [d EXCEPT !.ver = x.ver] ELSE d: d \in S}
LandSaved(m) ==
  /\ Landed(m, "saved") /\ net' = net \ {m} /\ UNCHANGED srv
  /\ IF m.res # "ok" THEN ui' = [ui EXCEPT !.saving = FALSE, !.fresh = FALSE]
     ELSE LET x == CHOOSE x \in m.rows: TRUE IN
          ui' = [ui EXCEPT !.saving = FALSE, !.dlg = IF @.mode = "device" THEN Closed ELSE @,
                           !.devs = {[d EXCEPT !.rows = InPlace(@, x)]: d \in @},
                           !.fresh = @ /\ ~Waiting("layout", net)]

-----------------------------------------------------------------------------
(* Racks                                                                      *)

OpenCreateRack == AtScreen /\ Has(Rooms(ui.rows), ui.room) /\ Set([ui EXCEPT !.dlg = [Closed EXCEPT !.mode = "rack"]])
\* The selected rack is edited, and deleted, as it was when it was selected.
OpenEditRack == AtScreen /\ ui.sel # Blank
                /\ Set([ui EXCEPT !.dlg = [Closed EXCEPT !.mode = "rack", !.row = ui.sel.row, !.ver = ui.sel.ver]])
SaveRack ==
  /\ InDialog("rack") /\ ~ui.saving
  /\ Write([ui EXCEPT !.saving = TRUE],
           IF ui.dlg.row = NoRow THEN [ScreenCall("post", "saveRack", NoRow, 0) EXCEPT !.up = ui.room]
           ELSE [ScreenCall("put", "saveRack", ui.dlg.row, ui.dlg.ver) EXCEPT !.form = Snapshot(ui.dlg)])
LandSaveRack(m) == Landed(m, "saveRack") /\ After(m, [ui EXCEPT !.dlg = IF @.mode = "rack" THEN Closed ELSE @],
                                                  FetchTree("treeSaved"), [ui EXCEPT !.saving = FALSE])
RemoveRack == AtScreen /\ ui.sel # Blank /\ Write(ui, ScreenCall("delete", "removeRack", ui.sel.row, ui.sel.ver))
LandRemoveRack(m) == Landed(m, "removeRack") /\ After(m, [ui EXCEPT !.sel = Blank], FetchTree("tree"), ui)

\* Two racks exchange their coordinates, in two updates at once; the first
\* failure ends the wait, and then nothing is loaded.
Drag(x) == [ScreenCall("put", "drag", x.row, x.ver) EXCEPT !.form = Snapshot(x)]
SwapRacks == /\ AtCanvas /\ ui.dragging = 0 /\ Quiet /\ UNCHANGED srv
             /\ \E a \in Filtered(ui): \E b \in Racks(ui) \ {a}:
                  ui' = [ui EXCEPT !.dragging = 2] /\ net' = net \cup {Drag(a), Drag(b)}
LandDrag(m) ==
  /\ Landed(m, "drag") /\ UNCHANGED srv
  /\ LET others == net \ {m} IN
     IF m.res # "ok"
     THEN /\ ui' = [ui EXCEPT !.dragging = 0, !.ok = FALSE]
          /\ net' = {IF x.ctx = "drag" THEN [x EXCEPT !.ctx = "forgotten"] ELSE x: x \in others}
     ELSE IF ui.dragging = 2 THEN ui' = [ui EXCEPT !.dragging = 1] /\ net' = others
     ELSE ui' = Begin(ui, others) /\ net' = Add(others, FetchTree("treeDragged"))
LandForgotten(m) == Landed(m, "forgotten") /\ net' = net \ {m} /\ UNCHANGED srv /\ ui' = [ui EXCEPT !.ok = @ /\ ~m.did]

Cancel == OnScreen /\ ui.dlg.mode # "closed" /\ Set([ui EXCEPT !.dlg = Closed])

-----------------------------------------------------------------------------
OnMounted == ui = [Begin(Screen, {}) EXCEPT !.fresh = TRUE] /\ net = Add({}, FetchTree("tree"))
PageNext ==
  \/ LoadTree \/ OnRoomChange \/ SetStatus \/ ApplySearch \/ SelectRack \/ DoExport
  \/ AssignAt \/ ConfirmAssign \/ OpenMove \/ ConfirmMove \/ OfflineDevice \/ DrawerOffline \/ OpenDeviceDetail \/ SaveDevice
  \/ OpenCreateRack \/ OpenEditRack \/ SaveRack \/ RemoveRack \/ SwapRacks \/ Cancel
  \/ \E b \in {m.page: m \in net}: LandLayouts(b)
  \/ \E m \in net: \/ LandTree(m) \/ LandAssignable(m) \/ LandPlace(m) \/ LandDetail(m) \/ LandSaveDevice(m) \/ LandSaved(m)
                   \/ LandSaveRack(m) \/ LandRemoveRack(m) \/ LandDrag(m) \/ LandForgotten(m)

\* The racks of the last load, and, while nothing excuses them, their devices.
ShowsTruth ==
  LET now == {x \in Matching(All): x.up = All \/ Up(x.up) = All} IN
  /\ ui.rows = {x \in now: x.up # All => x.up \in Row}
  /\ ui.fresh => \A x \in Racks(ui): Mounted(ui, x.row) = Matching(x.row)
SelectionExists == ui.sel # Blank /\ ~ui.loading /\ ~Waiting("layout", net) => Has(Racks(ui), ui.sel.row)
=============================================================================
