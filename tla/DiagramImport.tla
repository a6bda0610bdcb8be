---------------------------- MODULE DiagramImport ----------------------------
(***************************************************************************)
(* The diagram of a rack goes out as a workbook, is edited and comes back:  *)
(* rackDiagram.ts, RackDiagramImportDialog.vue and rack_import.go.  There   *)
(* is one rack.  A block of the canvas is a device at its units; the cell   *)
(* of its top unit is where the hidden sheet looks up whose it was.         *)
(***************************************************************************)
EXTENDS Sheets

CONSTANTS Device,     \* rows of the table of devices
          Name,       \* the texts of blocks
          Slashed,    \* those of them the parser takes apart
          Height,     \* the units of the rack
          Token

Unit == 1..Height
Off == [lo |-> 0, hi |-> 0]
Units(p) == p.lo..p.hi
Placed == {d \in Device: db.at[d] # Off}

-----------------------------------------------------------------------------
(* Export *)

\* The canvas: a block for each device of the rack, drawn at its top unit.
Blocks == {[lo |-> db.at[d].lo, hi |-> db.at[d].hi, text |-> db.name[d]]: d \in Placed}
\* The records of the hidden sheet: the device drawn at a cell.
Records == [u \in Unit |-> IF \E d \in Placed: db.at[d].hi = u THEN CHOOSE d \in Placed: db.at[d].hi = u ELSE 0]
Export == [blocks |-> Blocks, records |-> Records]

\* What a person does to the canvas; the hidden sheet stays as it is.
Free(f, b, p) == \A c \in f.blocks \ {b}: Units(c) \cap Units(p) = {}
Edits(f) ==
  LET put(b, c) == [f EXCEPT !.blocks = (@ \ {b}) \cup {c}] IN
  {f}
    \cup {[f EXCEPT !.blocks = @ \ {b}]: b \in f.blocks}
    \cup (UNION {{put(b, [b EXCEPT !.text = n]): n \in Name}: b \in f.blocks})
    \cup (UNION {{put(b, [b EXCEPT !.lo = u, !.hi = u]): u \in {v \in Unit: Free(f, b, [lo |-> v, hi |-> v])}}: b \in f.blocks})
    \cup (UNION {{[f EXCEPT !.blocks = @ \cup {[lo |-> u, hi |-> u, text |-> n]}]: n \in Name}:
                 u \in {v \in Unit: \A b \in f.blocks: v \notin Units(b)}})

-----------------------------------------------------------------------------
(* The file is parsed *)

\* A text is the name, the serial number and the power between slashes; a name
\* with a slash is taken apart.
ParseDeviceText(n) == IF n \in Slashed THEN [name |-> n, whole |-> FALSE] ELSE [name |-> n, whole |-> TRUE]
\* The record of the cell gives the code of the device, and never its id: the
\* parser reads a column that the export does not write.
ParseRackDiagram(f) == {[lo |-> b.lo, hi |-> b.hi, text |-> ParseDeviceText(b.text), code |-> f.records[b.hi]]: b \in f.blocks}

-----------------------------------------------------------------------------
(* The dialog *)

\* `chosen` is history: the devices the person has decided to take off the rack.
Fresh == [kind |-> "diagram", file |-> {}, picked |-> FALSE, validating |-> FALSE, draft |-> 0, items |-> {}, choice |-> {},
          confirm |-> FALSE, committing |-> FALSE, chosen |-> {}, sheet |-> [blocks |-> {}, records |-> [u \in Unit |-> 0]]]

\* The dialog opens on a rack that has been exported, before anything was validated.
Start ==
  /\ db \in [at: [Device -> [lo: Nat, hi: Nat]], name: [Device -> Nat], drafts: {{}}, next: {1}, runs: [Token -> {0}]]
  /\ \A d \in Placed: db.name[d] # 0
  /\ net = {} /\ dlg = [Fresh EXCEPT !.sheet = Export]

\* The diagram is exported, edited and chosen, at some time and in some state.
ExportFile == /\ Spent("turns") /\ dlg' = [dlg EXCEPT !.sheet = Export] /\ UNCHANGED <<db, net>>
OnFileChange ==
  /\ ~dlg.confirm /\ Spent("turns") /\ UNCHANGED <<db, net>>
  /\ \E f \in Edits(dlg.sheet):
       dlg' = [dlg EXCEPT !.file = ParseRackDiagram(f), !.picked = TRUE, !.draft = 0, !.items = {}, !.choice = {}, !.chosen = {}]

Validate == /\ dlg.picked /\ ~dlg.validating /\ ~dlg.confirm /\ Spent("turns") /\ UNCHANGED db
            /\ dlg' = [dlg EXCEPT !.validating = TRUE]
            /\ net' = net \cup {Request("validate", "validate", [rows |-> dlg.file, items |-> {}])}
LandValidate(m) ==
  /\ Answered(m, "validate") /\ net' = net \ {m}
  /\ dlg' = [dlg EXCEPT !.validating = FALSE, !.draft = m.body.total, !.items = m.body.items]
  \* (no draft and no items when the validation has failed)

\* An item that must be decided is, before the import can be confirmed.
Undecided == {i \in dlg.items: i.kind = "REMOVE_MISSING" /\ \A c \in dlg.choice: c.dev # i.dev}
Decide(i, action) ==
  /\ i.kind = "REMOVE_MISSING" /\ ~dlg.confirm /\ UNCHANGED <<db, net, bound>>
  /\ dlg' = [dlg EXCEPT !.choice = {c \in @: c.dev # i.dev} \cup {[dev |-> i.dev, action |-> action]},
                        !.chosen = IF action = "DECOMMISSION" THEN @ \cup {i.dev} ELSE @ \ {i.dev}]
OpenConfirm == /\ dlg.draft # 0 /\ ~dlg.confirm /\ ~dlg.committing /\ Undecided = {}
               /\ dlg' = [dlg EXCEPT !.confirm = TRUE] /\ UNCHANGED <<db, net, bound>>
\* The draft itself is found by the back end.
NoDraft == [token |-> 0, items |-> {}, at |-> <<>>]
DoCommit == /\ dlg.confirm /\ ~dlg.committing /\ dlg.draft # 0 /\ Spent("turns") /\ UNCHANGED db
            /\ dlg' = [dlg EXCEPT !.committing = TRUE]
            /\ net' = net \cup {Request("commit", "commit", [token |-> dlg.draft, choice |-> dlg.choice, chosen |-> dlg.chosen, draft |-> NoDraft])}
LandCommit(m) ==
  /\ Answered(m, "commit") /\ net' = net \ {m}
  /\ dlg' = IF m.res = "ok"
            THEN [dlg EXCEPT !.committing = FALSE, !.confirm = FALSE, !.draft = 0, !.items = {}, !.picked = FALSE, !.file = {}]
            ELSE [dlg EXCEPT !.committing = FALSE]
Back == dlg.confirm /\ dlg' = [dlg EXCEPT !.confirm = FALSE] /\ UNCHANGED <<db, net, bound>>
Reset == dlg.picked /\ dlg' = [Fresh EXCEPT !.sheet = dlg.sheet, !.committing = dlg.committing, !.validating = dlg.validating]
         /\ UNCHANGED <<db, net, bound>>

-----------------------------------------------------------------------------
(* The back end.  A validation reads the positions, and then their fingerprint; *)
(* a commit compares the fingerprint, and then executes in a transaction.     *)

\* A row is matched by its code, among the devices of the rack.
Classify(r) ==
  LET d == IF r.code \in Placed THEN r.code ELSE 0
      same == r.text.whole /\ db.name[d] = r.text.name
  IN [dev |-> d, lo |-> r.lo, hi |-> r.hi, name |-> r.text.name, code |-> r.code,
      kind |-> IF d = 0 THEN "CREATE_NEW"
               ELSE IF db.at[d] # [lo |-> r.lo, hi |-> r.hi] THEN "MOVE_EXISTING"
               ELSE IF same THEN "UNCHANGED" ELSE "UPDATE_EXISTING"]
Missing(d) == [dev |-> d, lo |-> db.at[d].lo, hi |-> db.at[d].hi, name |-> db.name[d], code |-> d, kind |-> "REMOVE_MISSING"]
Items(rows) == LET found == {Classify(r): r \in rows} IN
               found \cup {Missing(d): d \in Placed \ {i.dev: i \in found}}

ServeValidate(m) ==
  /\ Asked(m, "validate") /\ m.arg.rows # {} /\ UNCHANGED db
  /\ net' = (net \ {m}) \cup {Request("fingerprint", "validate", [rows |-> {}, items |-> Items(m.arg.rows)])}
Put(D, d) == {x \in D: x.token # d.token} \cup {d}
ServeFingerprint(m) ==
  /\ Asked(m, "fingerprint") /\ db.next \in Token
  /\ db' = [db EXCEPT !.next = @ + 1, !.drafts = Put(@, [token |-> db.next, items |-> m.arg.items, at |-> db.at])]
  /\ Reply(m, "ok", TRUE, [items |-> m.arg.items, total |-> db.next])

\* Mutant: the draft stays in the store.
TakeDraftShared(D, d) == D
\* The draft is taken out of the store, and gone when the racks have changed.
TakeDraft(D, d) == D \ {d}
ServeCommit(m) ==
  /\ Asked(m, "commit")
  /\ \/ \E d \in db.drafts:
          /\ d.token = m.arg.token /\ db' = [db EXCEPT !.drafts = TakeDraft(@, d)]
          /\ IF d.at = db.at
             THEN net' = (net \ {m}) \cup {Request("execute", "commit", [m.arg EXCEPT !.draft = d])}
             ELSE Reply(m, "stale", FALSE, NoBody)
     \/ (\A d \in db.drafts: d.token # m.arg.token) /\ Reply(m, "expired", FALSE, NoBody) /\ UNCHANGED db

\* Rows of the file first, the missing devices last.  An update or a move names
\* its device by the id in the file, which the console never fills in; a new
\* device needs a code nobody has; the constraint on the units sees each row.
Creations(items) == {i \in items: i.kind = "CREATE_NEW"}
\* Mutant: a missing device that nobody kept is taken off the rack.
RemovedUnlessKept(m) == {i.dev: i \in {j \in m.arg.draft.items: j.kind = "REMOVE_MISSING" /\ [dev |-> j.dev, action |-> "KEEP"] \notin m.arg.choice}}
Removed(m) == {i.dev: i \in {j \in m.arg.draft.items: j.kind = "REMOVE_MISSING" /\ [dev |-> j.dev, action |-> "DECOMMISSION"] \in m.arg.choice}}
SourceKnown(i) == i.kind \notin {"UPDATE_EXISTING", "MOVE_EXISTING"}
Fits(m) ==
  \A i \in Creations(m.arg.draft.items):
    /\ i.code = 0 /\ i.hi <= Height
    /\ \A d \in Placed: Units(i) \cap Units(db.at[d]) = {}
Executable(m) == /\ \A i \in m.arg.draft.items: SourceKnown(i)
                 /\ Fits(m) /\ Removed(m) \subseteq Placed
                 /\ Cardinality(Creations(m.arg.draft.items)) <= Cardinality({d \in Device: db.name[d] = 0})
\* The person need not have chosen the type of new devices, and is then refused.
NoType(m) == Creations(m.arg.draft.items) # {}
\* The new devices get free rows, in the order of their units.
NewRow(m, d) == {i \in Creations(m.arg.draft.items): Cardinality({j \in Creations(m.arg.draft.items): j.lo < i.lo})
                                                = Cardinality({e \in Device: db.name[e] = 0 /\ e < d})}
After(m) ==
  [db EXCEPT !.runs[m.arg.token] = @ + 1,
             !.at = [d \in Device |-> IF d \in Removed(m) THEN Off
                                      ELSE IF db.name[d] = 0 /\ NewRow(m, d) # {}
                                      THEN LET i == CHOOSE i \in NewRow(m, d): TRUE IN [lo |-> i.lo, hi |-> i.hi] ELSE db.at[d]],
             !.name = [d \in Device |-> IF db.name[d] = 0 /\ NewRow(m, d) # {}
                                        THEN (CHOOSE i \in NewRow(m, d): TRUE).name ELSE db.name[d]]]
\* Whatever is refused, or a statement that fails, rolls everything back, and the
\* draft is given back.
ServeExecute(m) ==
  /\ Asked(m, "execute")
  /\ \/ Executable(m) /\ db' = After(m) /\ \E res \in {"ok", "failed"}: Reply(m, res, TRUE, NoBody)
     \/ /\ \/ (~Executable(m) \/ NoType(m)) /\ Reply(m, "refused", FALSE, NoBody)
           \/ Reply(m, "failed", FALSE, NoBody)
        /\ db' = [db EXCEPT !.drafts = Put(@, m.arg.draft)]

\* Drafts are kept in memory, for half an hour: a restart or time takes them.
Forget == db.drafts # {} /\ Spent("foreign") /\ db' = [db EXCEPT !.drafts = {}] /\ UNCHANGED <<net, dlg>>
\* Another user places a device at free units, or takes it off the rack.
Foreign(d) ==
  /\ db.name[d] # 0 /\ Spent("foreign") /\ UNCHANGED <<net, dlg>>
  /\ \/ db.at[d] # Off /\ db' = [db EXCEPT !.at[d] = Off]
     \/ \E u \in Unit: /\ \A e \in Placed \ {d}: u \notin Units(db.at[e])
                      /\ db' = [db EXCEPT !.at[d] = [lo |-> u, hi |-> u]]

DialogNext ==
  \/ ExportFile \/ OnFileChange \/ Validate \/ OpenConfirm \/ DoCommit \/ Back \/ Reset \/ Forget
  \/ \E i \in dlg.items, a \in {"DECOMMISSION", "IGNORE"}: Decide(i, a)
  \/ \E m \in net: LandValidate(m) \/ LandCommit(m) \/ ServeValidate(m) \/ ServeFingerprint(m) \/ ServeCommit(m)
                   \/ ServeExecute(m) \/ Lose(m)
  \/ \E d \in Device: Foreign(d)

-----------------------------------------------------------------------------
\* However often the person tries again, and whichever answers are lost, a draft
\* is executed once.
CommittedOnce == \A t \in Token: db.runs[t] <= 1

\* An import moves no device that is in the rack, and takes none off that the
\* person has not decided to, for the file that is on show.
ImportKeepsRest ==
  \A m \in net \ net': m.op = "execute" /\ m.res = "pending" =>
    \A d \in Placed: db'.at[d] # db.at[d] => d \in m.arg.chosen /\ db'.at[d] = Off
=============================================================================
