---------------------------- MODULE TemplatesPage ----------------------------
(***************************************************************************)
(* CabinetTemplate.vue: templates of racks; one dialog for their data and   *)
(* one that publishes a new version of their parameters.  Both carry the    *)
(* version of the row they were opened from.                                *)
(***************************************************************************)
EXTENDS Wire

CONSTANT Builtin     \* templates the system ships, which have no delete button

Closed == [mode |-> "closed", row |-> NoRow, ver |-> 0]
Templates == [page |-> "templates", rows |-> {}, dlg |-> Closed, form |-> Blank,
              saving |-> FALSE, loading |-> FALSE, ok |-> FALSE]

OnTemplates == ui.page = "templates"
AtTemplates == OnTemplates /\ ui.dlg.mode = "closed"

TemplateCall(op, ctx, r, v) == [Call EXCEPT !.op = op, !.ctx = ctx, !.row = r, !.ver = v]
FetchTemplates(ctx) == TemplateCall("list", ctx, NoRow, 0)

LoadAll == AtTemplates /\ ~ui.loading /\ Quiet /\ Load(ui, FetchTemplates("templates"))
LandTemplates(m) ==
  /\ \/ Landed(m, "templates")
     \/ Landed(m, "templatesSaved")
  /\ net' = net \ {m} /\ UNCHANGED srv
  /\ LET s == [ui EXCEPT !.loading = FALSE, !.saving = @ /\ m.ctx # "templatesSaved"] IN
     ui' = IF m.res = "ok" THEN [s EXCEPT !.rows = m.rows] ELSE [s EXCEPT !.ok = FALSE]

OpenCreate == AtTemplates /\ Set([ui EXCEPT !.dlg.mode = "create", !.form = Blank])
OpenEdit(x) == AtTemplates /\ Set([ui EXCEPT !.dlg = [mode |-> "edit", row |-> x.row, ver |-> x.ver],
                                             !.form = [row |-> x.row, ver |-> x.ver]])
\* The parameters of the latest version fill the form.
OpenVersion(x) == AtTemplates /\ Set([ui EXCEPT !.dlg = [mode |-> "version", row |-> x.row, ver |-> x.ver],
                                                !.form = [row |-> x.row, ver |-> x.ver]])
Cancel == OnTemplates /\ ui.dlg.mode # "closed" /\ Set([ui EXCEPT !.dlg = Closed])

\* The row of the table, or of a dialog, that its buttons act on.
Buttons == /\ OnTemplates
           /\ \/ OpenCreate
              \/ Cancel
              \/ \E x \in ui.rows: OpenEdit(x) \/ OpenVersion(x)

Save(auto) ==
  /\ OnTemplates /\ ui.dlg.mode \in {"create", "edit"} /\ ~ui.saving /\ (auto => ui.dlg.mode = "create")
  /\ Write([ui EXCEPT !.saving = TRUE],
           IF ui.dlg.mode = "edit"
           THEN [TemplateCall("overwrite", "save", ui.dlg.row, ui.dlg.ver) EXCEPT !.form = ui.form]
           ELSE \* as for racks, a generated code that is taken is replaced once
                [TemplateCall("post", IF auto THEN "saveAuto" ELSE "save", NoRow, 0) EXCEPT !.up = CHOOSE g \in Group: TRUE])
PublishVersion ==
  /\ OnTemplates /\ ui.dlg.mode = "version" /\ ~ui.saving
  /\ Write([ui EXCEPT !.saving = TRUE], [TemplateCall("put", "save", ui.dlg.row, ui.dlg.ver) EXCEPT !.form = ui.form])

LandSave(m) ==
  \/ /\ Landed(m, "saveAuto") /\ m.res = "conflict" /\ ui' = ui /\ UNCHANGED srv
     /\ net' = Add(net \ {m}, [TemplateCall("post", "save", NoRow, 0) EXCEPT !.up = m.up, !.again = m.did])
  \/ /\ \/ Landed(m, "saveAuto") /\ m.res # "conflict"
        \/ Landed(m, "save")
     /\ After(m, [ui EXCEPT !.dlg = Closed], FetchTemplates("templatesSaved"), [ui EXCEPT !.saving = FALSE])

Remove == AtTemplates /\ \E x \in ui.rows: x.row \notin Builtin /\ Write(ui, TemplateCall("delete", "remove", x.row, x.ver))
LandRemove(m) == Landed(m, "remove") /\ After(m, ui, FetchTemplates("templates"), ui)

Mounted == ui = Begin(Templates, {}) /\ net = Add({}, FetchTemplates("templates"))
PageNext == \/ LoadAll \/ Buttons \/ PublishVersion \/ Remove
            \/ \E auto \in BOOLEAN: Save(auto)
            \/ \E m \in net: LandTemplates(m) \/ LandSave(m) \/ LandRemove(m)

ShowsTruth == OnTemplates => ui.rows = Matching(All)
=============================================================================
