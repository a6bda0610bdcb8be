------------------------------- MODULE Imports -------------------------------
(***************************************************************************)
(* The three import dialogs of the console, one of which is open: devices  *)
(* and racks from a table, and the diagram of a rack.                      *)
(***************************************************************************)
EXTENDS Sheets

CONSTANTS Device, PerPage, Spare, MaxVersion, Rack, Room, Made, Name, Slashed, Height, Token

ASSUME ImportsAssumption == /\ Device \cup Rack \cup Token \subseteq Nat \ {0} /\ IsFiniteSet(Device)
                            /\ PerPage \in Nat \ {0} /\ Made # {} /\ Name \subseteq Nat \ {0}

Devices == INSTANCE DeviceImport
Racks == INSTANCE RackImport
Diagram == INSTANCE DiagramImport

Next ==
  \/ dlg.kind = "devices" /\ Devices!DialogNext
  \/ dlg.kind = "racks" /\ Racks!DialogNext
  \/ dlg.kind = "diagram" /\ Diagram!DialogNext

\* One of the dialogs is open.
Start == /\ \E files: bound \in [foreign: Nat, turns: Nat, files: {files}]
         /\ Devices!Start \/ Racks!Start \/ Diagram!Start
Spec == Start /\ [][Next]_sheets

-----------------------------------------------------------------------------
\* The calls in flight are those of the dialog, and no row is submitted twice in
\* one go.
ImportsTypeOK ==
  /\ \A m \in net: m.res \in {"pending", "ok", "failed", "conflict", "stale", "expired", "refused"} /\ m.did \in BOOLEAN
  /\ dlg.kind # "diagram" =>
       /\ dlg.importing <=> dlg.todo # <<>>
       /\ Cardinality({m \in net: m.ctx = "row"}) = IF dlg.importing THEN 1 ELSE 0
       /\ \A i \in DOMAIN dlg.rows: dlg.rows[i].st \in {"valid", "rejected", "failed"}
  /\ dlg.kind = "diagram" => dlg.draft \in Token \cup {0} /\ (dlg.items # {} => dlg.draft # 0)

\* What the table of results says was submitted has been executed, when its rows
\* were not chosen during a submission of others.
ReportedRowsExist == dlg.kind # "diagram" /\ dlg.same => ReportsTruth(dlg)
\* DeviceImportDialog.vue:5-6: every row is submitted, and those that fail record the
\* reason.  Whenever its rows were chosen, a row shown as submitted has been executed,
\* or one like it has.
ReceiptsTrue ==
  dlg.kind = "devices" /\ ~dlg.importing =>
    \A i \in DOMAIN dlg.rows: ShownSubmitted(dlg, i) => \E j \in DOMAIN dlg.batch: dlg.batch[j] = [dlg.rows[i] EXCEPT !.did = TRUE]
\* Two devices never come to have one serial number.
SerialsStayUnique == dlg.kind = "devices" => Devices!SerialsStayUnique
\* An update changes the device that its row names.
UpdatesNamed == [][dlg.kind = "devices" => Devices!UpdatesNamed]_sheets
\* A validated diagram is executed once.
CommittedOnce == dlg.kind = "diagram" => Diagram!CommittedOnce
\* A diagram disturbs no device the person has not decided about.
ImportKeepsRest == [][dlg.kind = "diagram" => Diagram!ImportKeepsRest]_sheets
=============================================================================
