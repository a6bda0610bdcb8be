----------------------------- MODULE DevicesPage -----------------------------
(***************************************************************************)
(* DeviceManager.vue: the ledger of devices, the types of devices and the  *)
(* positions of one rack, each a tab with its own state and calls.         *)
(***************************************************************************)
EXTENDS Wire

Closed == [mode |-> "closed", row |-> NoRow, ver |-> 0]
Pages(total) == IF total = 0 THEN 1 ELSE ((total - 1) \div PageSize) + 1

DeviceCall(op, ctx, r, v) == [Call EXCEPT !.op = op, !.ctx = ctx, !.row = r, !.ver = v]
TypeCall(op, ctx, r, v) == [Call EXCEPT !.op = op, !.ctx = ctx, !.row = r, !.ver = v]

-----------------------------------------------------------------------------
(* The ledger.  `own` is history: whether the form was filled by the answer   *)
(* of the present opening of the dialog ("unsure": or of an earlier one).     *)

Ledger == [page |-> "devices", filter |-> All, pg |-> 1, rows |-> {}, total |-> 0, loading |-> FALSE, ok |-> FALSE,
           dlg |-> Closed, form |-> Blank, own |-> "no"]

FetchDevices(s) == [DeviceCall("list", "devices", NoRow, 0) EXCEPT !.up = s.filter, !.page = s.pg]

OnLedger == ui.page = "devices"
AtLedger == OnLedger /\ ui.dlg.mode = "closed"

\* Refresh, a page of the list, and the filters, which go back to page 1.
LoadDevices == AtLedger /\ Quiet /\ Load(ui, FetchDevices(ui))
TurnPage == \E p \in 1..Pages(ui.total): LET s == [ui EXCEPT !.pg = p] IN Load(s, FetchDevices(s))
SearchDevices(g) == LET s == [ui EXCEPT !.filter = g, !.pg = 1] IN Load(s, FetchDevices(s))
Filters == AtLedger /\ Quiet /\ (TurnPage \/ \E g \in Group \cup {All}: SearchDevices(g))

\* The pagination corrects a page past the end, which loads again.
Clamp(s, m) == [s EXCEPT !.pg = IF @ > Pages(m.total) THEN Pages(m.total) ELSE @]

LandDevices(m) ==
  /\ Landed(m, "devices") /\ UNCHANGED srv
  /\ IF m.res # "ok" THEN ui' = [ui EXCEPT !.loading = FALSE, !.ok = FALSE] /\ net' = net \ {m}
     ELSE LET s == Clamp([ui EXCEPT !.rows = m.rows, !.total = m.total, !.loading = FALSE], m) IN
          IF s.pg = ui.pg THEN ui' = s /\ net' = net \ {m}
          ELSE ui' = Begin(s, net \ {m}) /\ net' = Add(net \ {m}, FetchDevices(s))

OpenDeviceCreate == AtLedger /\ Set([ui EXCEPT !.dlg.mode = "create", !.form = Blank, !.own = "no"])

\* The dialog opens at once, with the id and the version of the row and with the
\* form of the last opening; the answer fills the form of whatever is open then.
OpenDeviceEdit(x) ==
  AtLedger /\ Write([ui EXCEPT !.dlg = [mode |-> "edit", row |-> x.row, ver |-> x.ver],
                               !.own = IF Waiting("get", net) THEN "unsure" ELSE "no"],
                    DeviceCall("get", "device", x.row, 0))
LandDevice(m) ==
  /\ Landed(m, "device") /\ net' = net \ {m} /\ UNCHANGED srv
  /\ IF m.res = "ok"
     THEN ui' = [ui EXCEPT !.form = [row |-> m.row, ver |-> (CHOOSE x \in m.rows: TRUE).ver],
                           !.own = IF @ = "no" THEN "yes" ELSE @]
     ELSE ui' = [ui EXCEPT !.dlg = Closed]

CloseDevice == OnLedger /\ ui.dlg.mode # "closed" /\ Set([ui EXCEPT !.dlg = Closed])

\* Nothing disables the button while a call is in flight: the overlay that
\* openDeviceEdit asks for is taken down when the dialog has opened.
SubmitDevice(g) ==
  /\ OnLedger /\ ui.dlg.mode # "closed" /\ (ui.dlg.mode = "edit" <=> g = All)
  /\ Write(ui, [DeviceCall(IF ui.dlg.mode = "edit" THEN "put" ELSE "post", "save", ui.dlg.row, ui.dlg.ver)
                EXCEPT !.form = ui.form, !.up = g, !.mixed = ui.own # "yes"])
LandSave(m) == Landed(m, "save") /\ After(m, [ui EXCEPT !.dlg = Closed], FetchDevices(ui), ui)

\* What happens while the question is open is what happens before the call is served.
RemoveDevice(x) == AtLedger /\ Write(ui, DeviceCall("delete", "remove", x.row, x.ver))
LandRemove(m) == Landed(m, "remove") /\ After(m, ui, FetchDevices(ui), ui)

LedgerNext ==
  \/ LoadDevices \/ Filters \/ OpenDeviceCreate \/ CloseDevice
  \/ OnLedger /\ \E g \in Group \cup {All}: SubmitDevice(g)
  \/ OnLedger /\ \E x \in ui.rows: OpenDeviceEdit(x) \/ RemoveDevice(x)
  \/ \E m \in net: LandDevices(m) \/ LandDevice(m) \/ LandSave(m) \/ LandRemove(m)

-----------------------------------------------------------------------------
(* The types.  The form and the version are of the same row of the list; a    *)
(* failed load empties the list.                                              *)

Types == [page |-> "types", rows |-> {}, loading |-> FALSE, ok |-> FALSE, dlg |-> Closed, form |-> Blank]
FetchTypes == TypeCall("list", "types", NoRow, 0)
OnTypes == ui.page = "types"

LandTypes(m) ==
  /\ Landed(m, "types") /\ net' = net \ {m} /\ UNCHANGED srv
  /\ ui' = [ui EXCEPT !.rows = m.rows, !.loading = FALSE, !.ok = @ /\ m.res = "ok"]

OpenTypeCreate == Set([ui EXCEPT !.dlg.mode = "create", !.form = Blank])
OpenTypeEdit(x) == Set([ui EXCEPT !.dlg = [mode |-> "edit", row |-> x.row, ver |-> x.ver],
                                  !.form = [row |-> x.row, ver |-> x.ver]])
SubmitType ==
  /\ OnTypes /\ ui.dlg.mode # "closed"
  /\ Write(ui, [TypeCall(IF ui.dlg.mode = "edit" THEN "put" ELSE "post", "saveType", ui.dlg.row, ui.dlg.ver)
                EXCEPT !.form = ui.form])
LandSaveType(m) == Landed(m, "saveType") /\ After(m, [ui EXCEPT !.dlg = Closed], FetchTypes, ui)
RemoveType(x) == Write(ui, TypeCall("delete", "removeType", x.row, x.ver))
LandRemoveType(m) == Landed(m, "removeType") /\ After(m, ui, FetchTypes, ui)

\* The buttons of the tab, and of its dialog.
TypeButtons ==
  /\ OnTypes
  /\ \/ /\ ui.dlg.mode = "closed"
        /\ \/ OpenTypeCreate
           \/ \E x \in ui.rows: OpenTypeEdit(x) \/ RemoveType(x)
     \/ /\ ui.dlg.mode # "closed"
        /\ Set([ui EXCEPT !.dlg = Closed])
TypesNext ==
  \/ TypeButtons \/ SubmitType
  \/ \E m \in net: LandTypes(m) \/ LandSaveType(m) \/ LandRemoveType(m)

-----------------------------------------------------------------------------
(* The positions of a rack: a change of the selection asks for its layout.    *)

Layout == [page |-> "ulayout", rows |-> {}, sel |-> NoRow, layout |-> Blank, loading |-> FALSE, ok |-> TRUE]
FetchRacks == [Call EXCEPT !.ctx = "racks"]
FetchULayout(r) == [Call EXCEPT !.op = "get", !.ctx = "layout", !.row = r]
OnLayout == ui.page = "ulayout"

\* The watcher of the selection.
Select(s, r, calls) ==
  /\ ui' = [s EXCEPT !.sel = r, !.loading = TRUE, !.ok = ~Waiting("get", calls)]
  /\ net' = Add(calls, FetchULayout(r))

\* Entering the tab loads the racks unless some are there.
EnterTab == OnLayout /\ Quiet /\ ui.rows = {} /\ net' = Add(net, FetchRacks) /\ UNCHANGED <<ui, srv>>
SelectRack(x) == OnLayout /\ Quiet /\ x.row # ui.sel /\ Select(ui, x.row, net) /\ UNCHANGED srv
LandRacks(m) ==
  /\ Landed(m, "racks") /\ UNCHANGED srv
  /\ LET s == [ui EXCEPT !.rows = m.rows] IN
     IF ui.sel = NoRow /\ m.rows # {}
     THEN Select(s, (CHOOSE x \in m.rows: \A y \in m.rows: x.row <= y.row).row, net \ {m})
     ELSE ui' = s /\ net' = net \ {m}
LandLayout(m) ==
  /\ Landed(m, "layout") /\ net' = net \ {m} /\ UNCHANGED srv
  /\ ui' = [ui EXCEPT !.loading = FALSE, !.ok = @ /\ m.res = "ok",
                      !.layout = IF m.res = "ok" THEN [row |-> m.row, ver |-> (CHOOSE x \in m.rows: TRUE).ver]
                                 ELSE Blank]
LayoutNext ==
  \/ EnterTab
  \/ OnLayout /\ \E x \in ui.rows: SelectRack(x)
  \/ \E m \in net: LandRacks(m) \/ LandLayout(m)

-----------------------------------------------------------------------------
\* Mounted: the page loads devices and types; the address may name a rack.
Mounted ==
  \/ ui = Begin(Ledger, {}) /\ net = Add({}, FetchDevices(Ledger))
  \/ ui = Begin(Types, {}) /\ net = Add({}, FetchTypes)
  \/ ui = Layout /\ net = Add({}, FetchRacks)
  \/ \E r \in Row: /\ ui = [Layout EXCEPT !.sel = r, !.loading = TRUE]
                   /\ net = Add(Add({}, FetchRacks), FetchULayout(r))
PageNext == LedgerNext \/ TypesNext \/ LayoutNext

ShowsTruth ==
  /\ OnLedger => ui.rows = Slice(Matching(ui.filter), ui.pg)
  /\ OnTypes => ui.rows = Matching(All)
  /\ OnLayout => ui.layout.row = ui.sel
=============================================================================
