---------------------------- MODULE HierarchyPage ----------------------------
(***************************************************************************)
(* ResourceHierarchy.vue: data centres, rooms and racks in three columns,   *)
(* with a selection that every load of the tree repairs, and dialogs to     *)
(* create, edit, copy and move.  No button is disabled while a call is in   *)
(* flight; the mask of a load covers the page but not the dialogs.          *)
(***************************************************************************)
EXTENDS Wire

\* One dialog is open at a time; row = NoRow: it creates.
Closed == [mode |-> "closed", row |-> NoRow, ver |-> 0, target |-> NoRow]
Hierarchy == [page |-> "hierarchy", rows |-> {}, dc |-> NoRow, room |-> NoRow, dlg |-> Closed, form |-> Blank,
              loading |-> FALSE, ok |-> FALSE]

OnHierarchy == ui.page = "hierarchy"
AtHierarchy == OnHierarchy /\ ui.dlg.mode = "closed" /\ ~ui.loading
InDialog(mode) == OnHierarchy /\ ui.dlg.mode = mode

Kids(rows, r) == {x \in rows: x.up = r}
First(S) == IF S = {} THEN NoRow ELSE (CHOOSE x \in S: \A y \in S: x.row <= y.row).row
Has(S, r) == \E x \in S: x.row = r

\* The three columns.
Centres == Kids(ui.rows, All)
Rooms == Kids(ui.rows, ui.dc)
SelectedDc == {x \in Centres: x.row = ui.dc}
SelectedRoom == {x \in Rooms: x.row = ui.room}
Racks == IF SelectedRoom = {} THEN {} ELSE Kids(ui.rows, ui.room)

FetchTree(ctx) == [Call EXCEPT !.ctx = ctx]
CentreCall(op, ctx, x) == [Call EXCEPT !.op = op, !.ctx = ctx, !.row = x.row, !.ver = x.ver]
RoomCall(op, ctx, x) == [Call EXCEPT !.op = op, !.ctx = ctx, !.row = x.row, !.ver = x.ver]
RackCall(op, ctx, x) == [Call EXCEPT !.op = op, !.ctx = ctx, !.row = x.row, !.ver = x.ver]

SelectDc(x) == Set([ui EXCEPT !.dc = x.row, !.room = First(Kids(ui.rows, x.row))])
SelectRoom(x) == Set([ui EXCEPT !.room = x.row])

\* Mutant: a selection that is gone is kept.
ReselectGone(s, keep) == s
\* The tree lands.  A selection that is not there any more, or is not to be
\* kept, becomes the first data centre, and its first room.
Reselect(s, keep) ==
  LET dc == IF keep /\ Has(Kids(s.rows, All), s.dc) THEN s.dc ELSE First(Kids(s.rows, All))
      room == IF keep /\ Has(Kids(s.rows, dc), s.room) THEN s.room ELSE First(Kids(s.rows, dc))
  IN [s EXCEPT !.dc = dc, !.room = room]
LandTree(m) ==
  /\ \/ Landed(m, "tree")
     \/ Landed(m, "first")
  /\ net' = net \ {m} /\ UNCHANGED srv
  /\ ui' = IF m.res # "ok" THEN [ui EXCEPT !.loading = FALSE, !.ok = FALSE]
           ELSE Reselect([ui EXCEPT !.loading = FALSE, !.rows = m.rows], m.ctx = "tree")

LoadTree == AtHierarchy /\ Quiet /\ Load(ui, FetchTree("tree"))

\* The dialogs; each opening fills the form.
Shut(s) == [s EXCEPT !.dlg = Closed, !.form = Blank]
OpenCreate(mode) == Set([ui EXCEPT !.dlg = [Closed EXCEPT !.mode = mode], !.form = Blank])
OpenEdit(mode, x) == Set([ui EXCEPT !.dlg = [mode |-> mode, row |-> x.row, ver |-> x.ver, target |-> NoRow],
                                    !.form = [row |-> x.row, ver |-> x.ver]])
OpenDcCreate == AtHierarchy /\ OpenCreate("dc")
OpenDcEdit == AtHierarchy /\ \E x \in SelectedDc: OpenEdit("dc", x)
OpenRoomCreate == AtHierarchy /\ SelectedDc # {} /\ OpenCreate("room")
OpenRoomEdit == AtHierarchy /\ \E x \in SelectedRoom: OpenEdit("room", x)
OpenRackCreate == AtHierarchy /\ SelectedRoom # {} /\ OpenCreate("rack")
OpenRackEdit(x) == OpenEdit("rack", x)

\* The forms are sent with the version of the dialog.
SubmitDc ==
  /\ InDialog("dc")
  /\ Write(ui, IF ui.dlg.row # NoRow THEN [CentreCall("put", "dc", ui.dlg) EXCEPT !.form = ui.form]
               ELSE CentreCall("post", "dc", Closed))

\* A new room, or rack, goes to what is selected when it is saved; when nothing
\* is any more, nothing is created and the dialog reports success.
NothingToSave == ui' = Begin(Shut(ui), net) /\ net' = Add(net, FetchTree("tree")) /\ UNCHANGED srv
SubmitRoom ==
  /\ InDialog("room")
  /\ \/ ui.dlg.row # NoRow /\ Write(ui, [RoomCall("put", "room", ui.dlg) EXCEPT !.form = ui.form])
     \/ ui.dlg.row = NoRow /\ SelectedDc # {} /\ Write(ui, [RoomCall("post", "room", Closed) EXCEPT !.up = ui.dc])
     \/ ui.dlg.row = NoRow /\ SelectedDc = {} /\ Quiet /\ NothingToSave
SubmitRack ==
  /\ InDialog("rack")
  /\ \/ ui.dlg.row # NoRow /\ Write(ui, [RackCall("put", "rack", ui.dlg) EXCEPT !.form = ui.form])
     \/ ui.dlg.row = NoRow /\ SelectedRoom # {} /\ Write(ui, [RackCall("post", "rack", Closed) EXCEPT !.up = ui.room])
     \/ ui.dlg.row = NoRow /\ SelectedRoom = {} /\ Quiet /\ NothingToSave

\* The answer closes the dialog of its kind, whichever row that is open for.
LandSubmit(m) ==
  /\ m.ctx \in {"dc", "room", "rack", "copy", "move"} /\ Landed(m, m.ctx)
  /\ After(m, IF ui.dlg.mode = m.ctx THEN Shut(ui) ELSE ui, FetchTree("tree"), ui)

\* The target that the dialog offers for a copy is not sent.
OpenCopy(x) == Set([ui EXCEPT !.dlg = [mode |-> "copy", row |-> x.row, ver |-> x.ver, target |-> NoRow]])
SubmitCopy == InDialog("copy") /\ Write(ui, CentreCall("copy", "copy", ui.dlg))

\* A room moves to another data centre, the first one unless another is chosen; a
\* rack to a room of the selected data centre that has to be chosen.
OtherCentres == {x \in Centres: x.row # ui.dc}
OtherRooms == {x \in Rooms: x.row # ui.room}
OpenMove(x) == Set([ui EXCEPT !.dlg = [mode |-> "move", row |-> x.row, ver |-> x.ver,
                                       target |-> IF x \in Rooms THEN First(OtherCentres) ELSE NoRow]])
IsRoom(r) == \E x \in ui.rows: x.row = r /\ Has(Centres, x.up)
ChooseTarget ==
  /\ InDialog("move")
  /\ \E x \in IF IsRoom(ui.dlg.row) THEN OtherCentres ELSE OtherRooms:
       x.row # ui.dlg.target /\ Set([ui EXCEPT !.dlg.target = x.row])
\* Mutant: the target need not have been chosen.
SubmitMoveAnywhere ==
  InDialog("move") /\ Write(ui, [RoomCall("move", "move", ui.dlg) EXCEPT !.up = ui.dlg.target])
SubmitMove ==
  /\ InDialog("move") /\ ui.dlg.target # NoRow
  /\ Write(ui, [RoomCall("move", "move", ui.dlg) EXCEPT !.up = ui.dlg.target])

Cancel == OnHierarchy /\ ui.dlg.mode # "closed" /\ Set(Shut(ui))

\* The deletion of a data centre ends with a load that keeps no selection.
RemoveDc == \E x \in SelectedDc: Write(ui, CentreCall("delete", "removeDc", x))
RemoveRoom == \E x \in SelectedRoom: Write(ui, RoomCall("delete", "remove", x))
RemoveRack(x) == Write(ui, RackCall("delete", "remove", x))
LandRemove(m) ==
  \/ Landed(m, "removeDc") /\ After(m, ui, FetchTree("first"), ui)
  \/ Landed(m, "remove") /\ After(m, ui, FetchTree("tree"), ui)

\* The menu of a data centre copies the one it was opened for, but edits and
\* deletes the selected one: opening it does not select.
CentreColumn == AtHierarchy /\ (RemoveDc \/ \E x \in Centres: SelectDc(x) \/ OpenCopy(x))
RoomColumn == AtHierarchy /\ (RemoveRoom \/ \E x \in Rooms: SelectRoom(x) \/ OpenCopy(x) \/ OpenMove(x))
RackColumn == AtHierarchy /\ \E x \in Racks: OpenRackEdit(x) \/ OpenCopy(x) \/ OpenMove(x) \/ RemoveRack(x)

Mounted == ui = Begin(Hierarchy, {}) /\ net = Add({}, FetchTree("first"))
PageNext ==
  \/ LoadTree \/ CentreColumn \/ RoomColumn \/ RackColumn
  \/ OpenDcCreate \/ OpenDcEdit \/ OpenRoomCreate \/ OpenRoomEdit \/ OpenRackCreate
  \/ SubmitDc \/ SubmitRoom \/ SubmitRack \/ SubmitCopy \/ SubmitMove \/ ChooseTarget \/ Cancel
  \/ \E m \in net: LandTree(m) \/ LandSubmit(m) \/ LandRemove(m)

ShowsTruth == ui.rows = Matching(All)
SelectionExists ==
  /\ ui.dc # NoRow => SelectedDc # {}
  /\ ui.room # NoRow => SelectedRoom # {}
=============================================================================
