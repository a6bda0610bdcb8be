------------------------------ MODULE RackImport ------------------------------
(***************************************************************************)
(* Bulk import of racks: RackImportDialog.vue.  A code stands for its       *)
(* trimmed upper-case text, 0 for a blank one; numbers above Made are codes *)
(* the browser makes up.                                                    *)
(***************************************************************************)
EXTENDS Sheets

CONSTANTS Rack,   \* rows of the table
          Room,   \* the rooms, open ones among them
          Made

Existing == {r \in Rack: db[r].live}
Fresh == [kind |-> "racks", rows |-> <<>>, batch |-> <<>>, same |-> TRUE, todo |-> <<>>, importing |-> FALSE, done |-> FALSE,
          racks |-> {db[r].code: r \in Existing}, retried |-> FALSE]

Cell == {"blank", "good", "bad"}
Line == [room: Nat, code: Nat, name: Cell, cells: Cell]
Table == [Rack -> [live: BOOLEAN, room: Nat, code: Nat]]
\* The dialog opens.
Start == db \in Table /\ net = {} /\ dlg = Fresh /\ \A f \in bound.files: f \in Seq(Line)

-----------------------------------------------------------------------------
(* Reading the file *)

\* The room is named by its code and that of its data centre, which must be in use.
RoomChecks(r) == r.room \in Room
\* The other cells: name, template, status, numbers, angle, power flag.
CellChecks(r) == "bad" \notin {r.name, r.cells} /\ r.name # "blank"
\* A code is refused when some rack of the page has it, in whichever room, or an
\* earlier row.
CodeChecks(rows, i) ==
  rows[i].code # 0 => /\ rows[i].code \notin dlg.racks
                      /\ \A j \in 1..(i - 1): rows[j].code # rows[i].code
\* Lines of blanks are left out.
DataRows(rows) ==
  LET kept == InOrder({i \in DOMAIN rows: rows[i].room # 0 \/ rows[i].code # 0 \/ rows[i].name # "blank" \/ rows[i].cells # "blank"})
  IN [k \in DOMAIN kept |-> rows[kept[k]]]
Validated(file) ==
  LET rows == DataRows(file) IN
  [i \in DOMAIN rows |->
    [st |-> IF RoomChecks(rows[i]) /\ CellChecks(rows[i]) /\ CodeChecks(rows, i) THEN "valid" ELSE "rejected",
     room |-> rows[i].room, code |-> rows[i].code, did |-> FALSE]]

OnFileChange(f) == Spent("turns") /\ dlg' = Show(dlg, Validated(f)) /\ UNCHANGED <<db, net>>

-----------------------------------------------------------------------------
(* Submitting the rows *)

\* The import hands the same maker of codes to rows with and without a code: also a
\* code that a row gives, and that was checked to be unique, is replaced by it.
GenCode(row) == Made
CreateRack(row, c) == Request("create", "row", [room |-> row.room, code |-> c])
Send(s, calls) == \E c \in GenCode(s.batch[Head(s.todo)]):
                    dlg' = s /\ net' = calls \cup {CreateRack(s.batch[Head(s.todo)], c)}

StartImport ==
  /\ ~dlg.importing /\ ValidRows(dlg.rows) # {} /\ Spent("turns") /\ UNCHANGED db
  /\ Send([StartLoop(dlg) EXCEPT !.retried = FALSE, !.done = dlg.done], net)

\* submitWithAutoCode: a row without a code is sent once more after a conflict.
Retries(m) == m.res = "conflict" /\ ~dlg.retried /\ dlg.batch[Head(dlg.todo)].code = 0
LandRow(m) ==
  /\ Answered(m, "row")
  /\ IF Retries(m) THEN Send([dlg EXCEPT !.retried = TRUE], net \ {m})
     ELSE LET s == [RowDone(dlg, Head(dlg.todo), IF m.res = "ok" THEN "valid" ELSE "failed", m.did) EXCEPT !.retried = FALSE]
          IN IF s.importing THEN Send(s, net \ {m})
             ELSE dlg' = s /\ net' = (net \ {m}) \cup {Request("tree", "tree", 0)}

\* The page hears that rows were imported, and loads its racks again.
LandTree(m) ==
  /\ Answered(m, "tree") /\ net' = net \ {m}
  /\ dlg' = IF m.res = "ok" THEN [dlg EXCEPT !.racks = m.body.items] ELSE dlg
OpenChange == dlg.rows # <<>> /\ dlg' = Show(dlg, <<>>) /\ UNCHANGED <<db, net, bound>>

-----------------------------------------------------------------------------
(* The back end: a code is unique among the racks of a room *)

ServeTree(m) == Asked(m, "tree") /\ Reply(m, "ok", FALSE, [items |-> {db[r].code: r \in Existing}, total |-> 0]) /\ UNCHANGED db
Taken(room, c) == \E r \in Existing: db[r].room = room /\ db[r].code = c
ServeCreate(m) ==
  /\ Asked(m, "create")
  /\ \/ /\ ~Taken(m.arg.room, m.arg.code)
        /\ \E r \in Rack \ Existing:
             /\ \A q \in Rack \ Existing: r <= q
             /\ db' = [db EXCEPT ![r] = [live |-> TRUE, room |-> m.arg.room, code |-> m.arg.code]]
        /\ \E res \in {"ok", "failed"}: Reply(m, res, TRUE, NoBody)
     \/ Taken(m.arg.room, m.arg.code) /\ Reply(m, "conflict", FALSE, NoBody) /\ UNCHANGED db

\* Another user creates a rack, or deletes one.
Foreign(r) ==
  /\ Spent("foreign") /\ UNCHANGED <<net, dlg>>
  /\ \/ db[r].live /\ db' = [db EXCEPT ![r].live = FALSE]
     \/ /\ ~db[r].live
        /\ \E room \in Room, c \in Made:
             /\ ~Taken(room, c)
             /\ db' = [db EXCEPT ![r] = [live |-> TRUE, room |-> room, code |-> c]]

DialogNext ==
  \/ StartImport \/ OpenChange
  \/ \E f \in bound.files: OnFileChange(f)
  \/ \E m \in net: LandRow(m) \/ LandTree(m) \/ ServeTree(m) \/ ServeCreate(m) \/ Lose(m)
  \/ \E r \in Rack: Foreign(r)
=============================================================================
