----------------------------- MODULE DeviceImport -----------------------------
(***************************************************************************)
(* Bulk import of devices: deviceImport.ts and DeviceImportDialog.vue.      *)
(* An identifier stands for its trimmed upper-case text; 0 is a blank one.  *)
(* The other cells of a row are blank, good or bad.                         *)
(***************************************************************************)
EXTENDS Sheets

CONSTANTS Device,          \* rows of the table, numbered in the order of the list
          PerPage,         \* the page size of the library
          Spare,           \* identifiers another user may give
          MaxVersion

Key == {"code", "sn", "asset"}
Cell == {"blank", "good", "bad"}
\* The code the back end makes up for a device.
Auto(d) == 100 + d

Copies(D) == {[id |-> d, ver |-> db[d].ver, code |-> db[d].code, sn |-> db[d].sn, asset |-> db[d].asset]: d \in D}
Existing == {d \in Device: db[d].live}

-----------------------------------------------------------------------------
(* Matching and checking the rows *)

Nobody == [id |-> 0, ver |-> 0, code |-> 0, sn |-> 0, asset |-> 0]
Match(c) == [refused |-> FALSE, dev |-> c]
Refused == [refused |-> TRUE, dev |-> Nobody]

\* The library is a list: a device may be in it twice, once per page.
By(lib, k, v) == {x \in lib: v # 0 /\ x.copy[k] = v}
MatchExistingDevice(lib, r) ==
  LET byCode == By(lib, "code", r.code)
      bySn == By(lib, "sn", r.sn)
      byAsset == By(lib, "asset", r.asset)
      others == {x.copy.id: x \in bySn \cup byAsset}
      Only(S) == (CHOOSE x \in S: TRUE).copy
  IN CASE \E S \in {byCode, bySn, byAsset}: Cardinality(S) > 1 -> Refused
       [] byCode # {} -> IF others \subseteq {Only(byCode).id} THEN Match(Only(byCode)) ELSE Refused
       [] byCode = {} /\ others # {} ->
            IF r.code # 0 \/ Cardinality(others) > 1 THEN Refused
            ELSE Match(Only(IF bySn # {} THEN bySn ELSE byAsset))
       [] OTHER -> Match(Nobody)

\* A device type is found by its code or its name, among those in use.
MatchType(r) == r.type = "good"
\* Life cycle, height, addresses, numbers and the power flag are each checked
\* when they are filled in; a new device needs a type and a name.
RowChecks(r, create) ==
  /\ IF r.type = "blank" THEN ~create ELSE MatchType(r)
  /\ create => r.name # "blank"
  /\ "bad" \notin {r.name, r.other}

\* What is sent: the device as it was read, with the cells that are filled in.
Payload(r, c) == [k \in Key |-> IF r[k] # 0 THEN r[k] ELSE c[k]]
BuildRow(lib, r) ==
  LET m == MatchExistingDevice(lib, r) IN
  [st |-> IF m.refused \/ ~RowChecks(r, m.dev.id = 0) THEN "rejected" ELSE "valid",
   id |-> m.dev.id, ver |-> m.dev.ver, payload |-> Payload(r, m.dev), cells |-> r, did |-> FALSE]

\* Mutant: only codes are compared within the file.
SameCode(rows, i) == \E j \in DOMAIN rows \ {i}: rows[i].code # 0 /\ rows[j].code = rows[i].code
\* Rows of one file that name the same identifier, or the same device.
SameIdentifier(rows, i) == \E j \in DOMAIN rows \ {i}: \E k \in Key: rows[i][k] # 0 /\ rows[j][k] = rows[i][k]
SameDevice(results, i) == \E j \in DOMAIN results \ {i}: results[i].id # 0 /\ results[j].id = results[i].id
ValidateImportRows(lib, rows) ==
  LET results == [i \in DOMAIN rows |-> BuildRow(lib, rows[i])] IN
  [i \in DOMAIN rows |-> IF SameIdentifier(rows, i) \/ SameDevice(results, i)
                         THEN [results[i] EXCEPT !.st = "rejected"] ELSE results[i]]

-----------------------------------------------------------------------------
(* The dialog.  `fair` is history: a library was asked for, with no two devices *)
(* of one identifier and no loop running; since then it has been read, nobody    *)
(* else has written, and the rows are submitted once and not during a load.      *)

Fresh == [kind |-> "devices", rows |-> <<>>, batch |-> <<>>, same |-> TRUE, todo |-> <<>>, importing |-> FALSE, done |-> FALSE,
          file |-> <<>>, loading |-> FALSE, lib |-> {}, await |-> {}, fair |-> FALSE]
Unique == \A k \in Key, d, e \in Existing: db[d][k] = db[e][k] => d = e \/ db[d][k] = 0

\* A file has some lines of cells; the rows of the table have identifiers and versions.
Line == [code: Nat, sn: Nat, asset: Nat, type: Cell, name: Cell, other: Cell]
Table == [Device -> [live: BOOLEAN, ver: Nat, code: Nat, sn: Nat, asset: Nat]]
\* The dialog opens.
Start == db \in Table /\ net = {} /\ dlg = Fresh /\ \A f \in bound.files: f \in Seq(Line)

FetchPage(p) == Request("page", "library", [page |-> p])

\* The file is read, and every device is asked for.
OnFileChange(f) ==
  /\ ~dlg.loading /\ Spent("turns") /\ UNCHANGED db
  /\ dlg' = [dlg EXCEPT !.file = f, !.loading = TRUE, !.lib = {}, !.await = {1}, !.fair = ~dlg.importing /\ Unique]
  /\ net' = net \cup {FetchPage(1)}

\* The first page tells how many there are; the others are asked for together.
LandPage(m) ==
  /\ Answered(m, "library")
  /\ LET p == m.arg.page
         more == IF p = 1 THEN 2..(((m.body.total + PerPage) - 1) \div PerPage) ELSE {}
         await == (dlg.await \ {p}) \cup more
         lib == dlg.lib \cup {[copy |-> c, page |-> p]: c \in m.body.items}
         s == [dlg EXCEPT !.await = await, !.lib = lib]
     IN /\ m.res = "ok"
        /\ net' = (net \ {m}) \cup {FetchPage(q): q \in more}
        /\ dlg' = IF await # {} THEN s
                  ELSE Show([s EXCEPT !.loading = FALSE, !.lib = {}, !.file = <<>>], ValidateImportRows(lib, dlg.file))
\* The rows on show stay, though they were checked against an earlier library.
LandPageLost(m) ==
  /\ Answered(m, "library") /\ m.res # "ok"
  /\ dlg' = [dlg EXCEPT !.loading = FALSE, !.await = {}, !.lib = {}, !.fair = FALSE]
  /\ net' = {x \in net: x.ctx # "library"}

SubmitRow(s) ==
  LET r == s.batch[Head(s.todo)] IN
  Request(IF r.id = 0 THEN "create" ELSE "update", "row", [id |-> r.id, ver |-> r.ver, payload |-> r.payload, cells |-> r.cells])

\* Mutant: a second click starts a second loop.
StartImportAgain ==
  /\ ValidRows(dlg.rows) # {} /\ Spent("turns") /\ UNCHANGED db
  /\ LET s == StartLoop(dlg) IN dlg' = s /\ net' = net \cup {SubmitRow(s)}
StartImport ==
  /\ ~dlg.importing /\ ValidRows(dlg.rows) # {} /\ Spent("turns") /\ UNCHANGED db
  /\ LET s == StartLoop([dlg EXCEPT !.fair = @ /\ ~dlg.loading /\ \A i \in ValidRows(dlg.rows): ~dlg.rows[i].did])
     IN dlg' = s /\ net' = net \cup {SubmitRow(s)}

LandRow(m) ==
  /\ Answered(m, "row")
  /\ LET s == RowDone(dlg, Head(dlg.todo), IF m.res = "ok" THEN "valid" ELSE "failed", m.did)
     IN dlg' = s /\ net' = (net \ {m}) \cup IF s.importing THEN {SubmitRow(s)} ELSE {}

\* The dialog is closed and opened again; the component stays, and so does a loop.
OpenChange == dlg.rows # <<>> /\ dlg' = Show(dlg, <<>>) /\ UNCHANGED <<db, net, bound>>

-----------------------------------------------------------------------------
(* The back end: codes and asset numbers are unique there, serial numbers are not *)

ServePage(m) ==
  /\ Asked(m, "page") /\ UNCHANGED db
  /\ LET before(d) == Cardinality({e \in Existing: e < d})
         here == {d \in Existing: before(d) \div PerPage = m.arg.page - 1}
     IN Reply(m, "ok", FALSE, [items |-> Copies(here), total |-> Cardinality(Existing)])

NoClash(d, p) == \A e \in Existing \ {d}: /\ db[e].code # p.code
                                          /\ p.asset = 0 \/ db[e].asset # p.asset
Stored(d, p, ver) == db' = [db EXCEPT ![d] = [live |-> TRUE, ver |-> ver, code |-> p.code, sn |-> p.sn, asset |-> p.asset]]
Settled(m) == \E res \in {"ok", "failed"}: Reply(m, res, TRUE, NoBody)

ServeCreate(m) ==
  /\ Asked(m, "create")
  /\ \/ \E d \in Device \ Existing:
          LET p == [m.arg.payload EXCEPT !.code = IF @ = 0 THEN Auto(d) ELSE @] IN
          /\ db[d].ver = 0 /\ \A e \in Device: e < d => db[e].ver # 0
          /\ NoClash(d, p) /\ Stored(d, p, 1) /\ Settled(m)
     \/ Reply(m, "failed", FALSE, NoBody) /\ UNCHANGED db

\* Mutant: the version is not compared.
CurrentAnyVersion(m) == m.arg.id \in Existing
Current(m) == m.arg.id \in Existing /\ db[m.arg.id].ver = m.arg.ver
ServeUpdate(m) ==
  /\ Asked(m, "update")
  /\ \/ /\ Current(m) /\ NoClash(m.arg.id, m.arg.payload) /\ m.arg.ver < MaxVersion
        /\ Stored(m.arg.id, m.arg.payload, m.arg.ver + 1) /\ Settled(m)
     \/ Reply(m, "failed", FALSE, NoBody) /\ UNCHANGED db

\* Another user deletes a device, or gives it the identifier of none.
Foreign(d) ==
  /\ d \in Existing /\ db[d].ver < MaxVersion /\ Spent("foreign") /\ UNCHANGED net
  /\ dlg' = [dlg EXCEPT !.fair = FALSE]
  /\ \/ db' = [db EXCEPT ![d].live = FALSE]
     \/ \E k \in {"sn", "code"}, v \in Spare:
          /\ \A e \in Existing: db[e][k] # v
          /\ db' = [db EXCEPT ![d][k] = v, ![d].ver = @ + 1]

DialogNext ==
  \/ StartImport \/ OpenChange
  \/ \E f \in bound.files: OnFileChange(f)
  \/ \E m \in net: LandPage(m) \/ LandPageLost(m) \/ LandRow(m) \/ ServePage(m) \/ ServeCreate(m) \/ ServeUpdate(m) \/ Lose(m)
  \/ \E d \in Device: Foreign(d)

-----------------------------------------------------------------------------
\* The back end lets two devices have one serial number: the checks of the file
\* against the library and against itself are what keeps them apart.
SerialsStayUnique == dlg.fair => Unique

\* Whatever others write meanwhile, and whichever pages the library was read
\* from, an update changes a device that has, at that moment, the code of its
\* row, or, when the row names none, a serial or asset number of it.
Names(r, d) == IF r.code # 0 THEN db[d].code = r.code
               ELSE \E k \in {"sn", "asset"}: r[k] # 0 /\ db[d][k] = r[k]
UpdatesNamed == \A m \in net \ net': m.op = "update" /\ m.res = "pending" /\ db' # db /\ bound' = bound => Names(m.arg.cells, m.arg.id)
=============================================================================
