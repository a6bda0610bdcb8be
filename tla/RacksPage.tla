------------------------------ MODULE RacksPage ------------------------------
(***************************************************************************)
(* CabinetManager.vue: the racks of all rooms, from the resource tree, with *)
(* a filter by room, pages cut in the browser, and a dialog whose save may  *)
(* generate the code and then repeats itself once (rackShared.ts).  Rows    *)
(* without a parent are rooms, the others racks.                            *)
(***************************************************************************)
EXTENDS Wire

Closed == [mode |-> "closed", row |-> NoRow, ver |-> 0]
Racks == [page |-> "racks", rows |-> {}, room |-> NoRow, pg |-> 1, dlg |-> Closed, form |-> Blank, target |-> NoRow,
          saving |-> FALSE, loading |-> FALSE, ok |-> FALSE]

OnRacks == ui.page = "racks"
AtRacks == OnRacks /\ ui.dlg.mode = "closed"

\* allRacks, dcRoomPairs and filteredRacks, of the tree the page holds.
Rooms(rows) == {x \in rows: x.up = All}
Filtered(s) == {x \in s.rows \ Rooms(s.rows): s.room = NoRow \/ x.up = s.room}
First(S) == CHOOSE x \in S: \A y \in S: x.row <= y.row

FetchTree(ctx) == [Call EXCEPT !.ctx = ctx]
RackCall(op, ctx, r, v) == [Call EXCEPT !.op = op, !.ctx = ctx, !.row = r, !.ver = v]

\* Refresh; the button is disabled while the page loads.
LoadAll == AtRacks /\ ~ui.loading /\ Quiet /\ Load(ui, FetchTree("tree"))

\* The tree lands; a filter whose room has gone is dropped.  A save is over when
\* the load after it is.
LandTree(m) ==
  /\ \/ Landed(m, "tree")
     \/ Landed(m, "treeSaved")
  /\ net' = net \ {m} /\ UNCHANGED srv
  /\ LET s == [ui EXCEPT !.loading = FALSE, !.saving = @ /\ m.ctx # "treeSaved"] IN
     ui' = IF m.res # "ok" THEN [s EXCEPT !.ok = FALSE]
           ELSE [s EXCEPT !.rows = m.rows, !.room = IF \E x \in Rooms(m.rows): x.row = @ THEN @ ELSE NoRow]

\* The filters go back to page 1; the pagination is there when there is more than a page.
FilterRoom == AtRacks /\ \E x \in Rooms(ui.rows): ui.room # x.row /\ Set([ui EXCEPT !.room = x.row, !.pg = 1])
ResetFilters == AtRacks /\ ui.room # NoRow /\ Set([ui EXCEPT !.room = NoRow, !.pg = 1])
TurnPage == /\ AtRacks /\ Cardinality(Filtered(ui)) > PageSize
            /\ \E p \in 1..Cardinality(Filtered(ui)): p # ui.pg /\ (p - 1) * PageSize < Cardinality(Filtered(ui)) /\ Set([ui EXCEPT !.pg = p])

\* The new rack goes to the room of the filter, which is one of the tree (LandTree), or
\* else to the first.  All rooms are those of one data centre.
OpenCreate ==
  /\ AtRacks /\ Rooms(ui.rows) # {}
  /\ Set([ui EXCEPT !.dlg.mode = "create", !.form = Blank,
                    !.target = IF ui.room # NoRow THEN ui.room ELSE First(Rooms(ui.rows)).row])
ChooseRoom == /\ OnRacks /\ ui.dlg.mode = "create"
              /\ \E x \in Rooms(ui.rows): x.row # ui.target /\ Set([ui EXCEPT !.target = x.row])

\* Of the list, or of the drawer, which shows a row as it was when it was opened:
\* as a dialog left open does.
OpenEdit == /\ AtRacks
            /\ \E x \in ui.rows \ Rooms(ui.rows):
                 Set([ui EXCEPT !.dlg = [mode |-> "edit", row |-> x.row, ver |-> x.ver],
                                !.form = [row |-> x.row, ver |-> x.ver], !.target = x.up])
Cancel == OnRacks /\ ui.dlg.mode # "closed" /\ Set([ui EXCEPT !.dlg = Closed])

\* `auto`: the code is to be generated.  The button is disabled while saving.
Save(auto) ==
  /\ OnRacks /\ ui.dlg.mode # "closed" /\ ~ui.saving /\ (auto => ui.dlg.mode = "create")
  /\ Write([ui EXCEPT !.saving = TRUE],
           IF ui.dlg.mode = "edit"
           THEN [RackCall("put", "save", ui.dlg.row, ui.dlg.ver) EXCEPT !.form = ui.form]
           ELSE [RackCall("post", IF auto THEN "saveAuto" ELSE "save", NoRow, 0) EXCEPT !.up = ui.target])

\* Mutant: whatever failed is repeated.
IsAnyFailure(m) == m.res # "ok"
\* submitWithAutoCode: a refusal for its code repeats the call with another one.
IsConflict(m) == m.res = "conflict"
Retry(m) == /\ ui' = ui /\ UNCHANGED srv
            /\ net' = Add(net \ {m}, [RackCall("post", "save", NoRow, 0) EXCEPT !.up = m.up, !.again = m.did])
LandSave(m) ==
  \/ Landed(m, "saveAuto") /\ IsConflict(m) /\ Retry(m)
  \/ /\ \/ Landed(m, "saveAuto") /\ ~IsConflict(m)
        \/ Landed(m, "save")
     /\ After(m, [ui EXCEPT !.dlg = Closed], FetchTree("treeSaved"), [ui EXCEPT !.saving = FALSE])

Remove == AtRacks /\ \E x \in ui.rows \ Rooms(ui.rows): Write(ui, RackCall("delete", "remove", x.row, x.ver))
LandRemove(m) == Landed(m, "remove") /\ After(m, ui, FetchTree("tree"), ui)

Mounted == ui = Begin(Racks, {}) /\ net = Add({}, FetchTree("tree"))
PageNext ==
  \/ LoadAll \/ FilterRoom \/ ResetFilters \/ TurnPage
  \/ OpenCreate \/ ChooseRoom \/ OpenEdit \/ Cancel \/ Remove
  \/ \E auto \in BOOLEAN: Save(auto)
  \/ \E m \in net: LandTree(m) \/ LandSave(m) \/ LandRemove(m)

ShowsTruth == OnRacks => ui.rows = Matching(All)
SelectionExists == OnRacks /\ ui.room # NoRow => \E x \in Rooms(ui.rows): x.row = ui.room
=============================================================================
