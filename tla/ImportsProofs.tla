---------------------------- MODULE ImportsProofs ----------------------------
(***************************************************************************)
(* What the import dialogs keep, whichever the files, the tables and the   *)
(* other users.                                                            *)
(***************************************************************************)
EXTENDS Imports, FiniteSetTheorems, TLAPS

-----------------------------------------------------------------------------
(* The inductive invariant of the diagram.  A draft has one token, which has not *)
(* been executed; it is in the store, or a commit in flight has it, never both.  *)

Parsed(rows) == \A r \in rows: r.text.name # 0
Named(items) == \A i \in items: i.name # 0
Decided(choice, chosen) == \A c \in choice: c.action = "DECOMMISSION" => c.dev \in chosen

DraftOK(x, B) == /\ x = [token |-> x.token, items |-> x.items, at |-> x.at]
                 /\ Named(x.items) /\ x.token \in Token /\ x.token < B.next /\ B.runs[x.token] = 0

StoreOK(B) ==
  /\ B = [at |-> B.at, name |-> B.name, drafts |-> B.drafts, next |-> B.next, runs |-> B.runs]
  /\ B.at = [d \in Device |-> B.at[d]] /\ B.name = [d \in Device |-> B.name[d]]
  /\ \A d \in Device: B.at[d] # Diagram!Off => B.name[d] # 0
  /\ B.next \in Nat \ {0} /\ B.runs \in [Token -> {0, 1}]
  /\ \A t \in Token: B.next =< t => B.runs[t] = 0
  /\ \A x \in B.drafts: DraftOK(x, B)
  /\ \A x, y \in B.drafts: x.token = y.token => x = y

CommitOK(a) == /\ a = [token |-> a.token, choice |-> a.choice, chosen |-> a.chosen, draft |-> a.draft]
               /\ Decided(a.choice, a.chosen)
Executing(m) == m.op = "execute" /\ m.res = "pending"
TypedCall(m) ==
  /\ m = [op |-> m.op, ctx |-> m.ctx, res |-> m.res, did |-> m.did, arg |-> m.arg, body |-> m.body]
  /\ m.res \in {"pending", "ok", "failed", "conflict", "stale", "expired", "refused"} /\ m.did \in BOOLEAN
PendingOK(m, B) ==
  /\ m.op = "validate" => Parsed(m.arg.rows)
  /\ m.op = "fingerprint" => Named(m.arg.items)
  /\ m.op = "commit" => CommitOK(m.arg)
  /\ m.op = "execute" => /\ CommitOK(m.arg) /\ DraftOK(m.arg.draft, B) /\ m.arg.draft.token = m.arg.token
                         /\ \A x \in B.drafts: x.token # m.arg.token
DiagramCallOK(m, B) ==
  /\ TypedCall(m) /\ m.body.total \in Token \cup {0} /\ (m.body.items # {} => m.body.total # 0)
  /\ m.res = "pending" => PendingOK(m, B)
DiagramCalls(N, B) ==
  /\ \A m \in N: DiagramCallOK(m, B)
  /\ \A m, o \in N: Executing(m) /\ Executing(o) /\ m.arg.token = o.arg.token => m = o

BlockOK(b) == b.text # 0 /\ b = [lo |-> b.lo, hi |-> b.hi, text |-> b.text]
SheetOK(f) == f = [blocks |-> f.blocks, records |-> f.records] /\ \A b \in f.blocks: BlockOK(b)
DiagramDialog(s) ==
  /\ s = [kind |-> s.kind, file |-> s.file, picked |-> s.picked, validating |-> s.validating, draft |-> s.draft,
          items |-> s.items, choice |-> s.choice, confirm |-> s.confirm, committing |-> s.committing,
          chosen |-> s.chosen, sheet |-> s.sheet]
  /\ s.kind = "diagram" /\ Decided(s.choice, s.chosen) /\ Parsed(s.file) /\ SheetOK(s.sheet)
  /\ s.draft \in Token \cup {0} /\ (s.items # {} => s.draft # 0)

DiagramInv == StoreOK(db) /\ DiagramCalls(net, db) /\ DiagramDialog(dlg)

-----------------------------------------------------------------------------
(* The sheet of the diagram *)

LEMMA ExportOK ==
  ASSUME StoreOK(db)
  PROVE  SheetOK(Diagram!Export)
<1>1. \A b \in Diagram!Blocks: BlockOK(b)
  BY DEF StoreOK, Diagram!Blocks, Diagram!Placed, BlockOK
<1> QED BY <1>1 DEF SheetOK, Diagram!Export

LEMMA Swapped ==
  ASSUME NEW f, SheetOK(f), NEW b, NEW c, BlockOK(c)
  PROVE  SheetOK([f EXCEPT !.blocks = (@ \ {b}) \cup {c}])
<1>1. PICK B: B = (f.blocks \ {b}) \cup {c}
  OBVIOUS
<1>2. \A x \in B: BlockOK(x)
  BY <1>1 DEF SheetOK
<1>3. [f EXCEPT !.blocks = (@ \ {b}) \cup {c}] = [blocks |-> B, records |-> f.records]
  BY <1>1 DEF SheetOK
<1> QED BY <1>2, <1>3 DEF SheetOK

LEMMA EditsOK ==
  ASSUME NEW f, SheetOK(f), NEW g \in Diagram!Edits(f)
  PROVE  SheetOK(g)
<1>1. CASE g = f
  BY <1>1
<1>2. CASE \E b \in f.blocks: g = [f EXCEPT !.blocks = @ \ {b}]
  <2>1. PICK b \in f.blocks: g = [f EXCEPT !.blocks = @ \ {b}]
    BY <1>2
  <2>2. g = [blocks |-> f.blocks \ {b}, records |-> f.records]
    BY <2>1 DEF SheetOK
  <2> QED BY <2>2 DEF SheetOK
<1>3. CASE \E b \in f.blocks: \E c: BlockOK(c) /\ g = [f EXCEPT !.blocks = (@ \ {b}) \cup {c}]
  BY <1>3, Swapped
<1>4. CASE \E u \in Diagram!Unit, n \in Name: g = [f EXCEPT !.blocks = @ \cup {[lo |-> u, hi |-> u, text |-> n]}]
  <2>1. PICK u \in Diagram!Unit, n \in Name: g = [f EXCEPT !.blocks = @ \cup {[lo |-> u, hi |-> u, text |-> n]}]
    BY <1>4
  <2>2. BlockOK([lo |-> u, hi |-> u, text |-> n])
    BY ImportsAssumption DEF BlockOK
  <2>3. PICK c: c = [lo |-> u, hi |-> u, text |-> n] /\ BlockOK(c)
    BY <2>2
  <2>4. g = [blocks |-> f.blocks \cup {c}, records |-> f.records]
    BY <2>1, <2>3 DEF SheetOK
  <2> QED BY <2>3, <2>4 DEF SheetOK
<1>5. ASSUME NEW b \in f.blocks, NEW n \in Name, g = [f EXCEPT !.blocks = (@ \ {b}) \cup {[b EXCEPT !.text = n]}]
      PROVE  BlockOK([b EXCEPT !.text = n])
  BY ImportsAssumption DEF SheetOK, BlockOK
<1>6. ASSUME NEW b \in f.blocks, NEW u \in Diagram!Unit
      PROVE  BlockOK([b EXCEPT !.lo = u, !.hi = u])
  <2>1. BlockOK(b)
    BY DEF SheetOK
  <2>2. b.text # 0 /\ b = [lo |-> b.lo, hi |-> b.hi, text |-> b.text]
    BY <2>1 DEF BlockOK
  <2>3. [b EXCEPT !.lo = u, !.hi = u] = [lo |-> u, hi |-> u, text |-> b.text]
    <3>1. PICK l, h, t: b = [lo |-> l, hi |-> h, text |-> t]
      BY <2>2
    <3>2. PICK y: y = u
      OBVIOUS
    <3>3. PICK c: c = [b EXCEPT !.lo = y, !.hi = y]
      OBVIOUS
    <3>4. c = [lo |-> y, hi |-> y, text |-> t]
      BY <3>1, <3>3
    <3> QED BY <3>1, <3>2, <3>3, <3>4
  <2> QED BY <2>2, <2>3 DEF BlockOK
<1>7. \/ g = f
      \/ \E b \in f.blocks: g = [f EXCEPT !.blocks = @ \ {b}]
      \/ \E b \in f.blocks, n \in Name: g = [f EXCEPT !.blocks = (@ \ {b}) \cup {[b EXCEPT !.text = n]}]
      \/ \E b \in f.blocks, u \in Diagram!Unit: g = [f EXCEPT !.blocks = (@ \ {b}) \cup {[b EXCEPT !.lo = u, !.hi = u]}]
      \/ \E u \in Diagram!Unit, n \in Name: g = [f EXCEPT !.blocks = @ \cup {[lo |-> u, hi |-> u, text |-> n]}]
  <2>1. PICK W: W = UNION {{[f EXCEPT !.blocks = (@ \ {b}) \cup {[b EXCEPT !.lo = u, !.hi = u]}]:
                             u \in {v \in Diagram!Unit: Diagram!Free(f, b, [lo |-> v, hi |-> v])}}: b \in f.blocks}
    OBVIOUS
  <2>2. PICK X: X = UNION {{[f EXCEPT !.blocks = @ \cup {[lo |-> u, hi |-> u, text |-> n]}]: n \in Name}:
                             u \in {v \in Diagram!Unit: \A b \in f.blocks: v \notin Diagram!Units(b)}}
    OBVIOUS
  <2>3. PICK Y: Y = {[f EXCEPT !.blocks = @ \ {b}]: b \in f.blocks}
    OBVIOUS
  <2>4. PICK Z: Z = UNION {{[f EXCEPT !.blocks = (@ \ {b}) \cup {[b EXCEPT !.text = n]}]: n \in Name}: b \in f.blocks}
    OBVIOUS
  <2>5. g \in {f} \cup Y \cup Z \cup W \cup X
    BY <2>1, <2>2, <2>3, <2>4 DEF Diagram!Edits
  <2>6. g \in W => \E b \in f.blocks, u \in Diagram!Unit: g = [f EXCEPT !.blocks = (@ \ {b}) \cup {[b EXCEPT !.lo = u, !.hi = u]}]
    BY <2>1, Zenon
  <2>7. g \in X => \E u \in Diagram!Unit, n \in Name: g = [f EXCEPT !.blocks = @ \cup {[lo |-> u, hi |-> u, text |-> n]}]
    BY <2>2, Zenon
  <2>8. g \in Y => \E b \in f.blocks: g = [f EXCEPT !.blocks = @ \ {b}]
    BY <2>3, Zenon
  <2>9. g \in Z => \E b \in f.blocks, n \in Name: g = [f EXCEPT !.blocks = (@ \ {b}) \cup {[b EXCEPT !.text = n]}]
    BY <2>4, Zenon
  <2> QED BY <2>5, <2>6, <2>7, <2>8, <2>9
<1> QED BY <1>1, <1>2, <1>3, <1>4, <1>5, <1>6, <1>7

LEMMA ParsedOK ==
  ASSUME NEW f, SheetOK(f)
  PROVE  Parsed(Diagram!ParseRackDiagram(f))
BY DEF Diagram!ParseRackDiagram, Diagram!ParseDeviceText, Parsed, SheetOK, BlockOK

-----------------------------------------------------------------------------
(* The calls in flight *)

LEMMA Sent ==
  ASSUME NEW N, NEW B, DiagramCalls(N, B), NEW a, DiagramCallOK(a, B), ~Executing(a)
  PROVE  DiagramCalls(N \cup {a}, B)
BY DEF DiagramCalls

LEMMA Fewer ==
  ASSUME NEW N, NEW B, DiagramCalls(N, B), NEW m
  PROVE  DiagramCalls(N \ {m}, B)
BY DEF DiagramCalls

LEMMA Exchanged ==
  ASSUME NEW N, NEW B, DiagramCalls(N, B), NEW m, NEW a, DiagramCallOK(a, B), ~Executing(a)
  PROVE  DiagramCalls((N \ {m}) \cup {a}, B)
BY Sent, Fewer

\* What a call came to is an answer.
LEMMA Answers ==
  ASSUME NEW m, TypedCall(m), NEW res \in {"ok", "failed", "stale", "expired", "refused"}, NEW did \in BOOLEAN, NEW B,
         NEW x, x.total \in Token \cup {0}, x.items # {} => x.total # 0, Diagram!Reply(m, res, did, x)
  PROVE  \E a: /\ net' = (net \ {m}) \cup {a} /\ DiagramCallOK(a, B) /\ ~Executing(a)
<1>1. PICK a: a = [op |-> m.op, ctx |-> m.ctx, res |-> res, did |-> did, arg |-> m.arg, body |-> x]
  OBVIOUS
<1>2. TypedCall(a) /\ a.res = res /\ a.body = x
  BY <1>1 DEF TypedCall
<1>3. net' = (net \ {m}) \cup {a}
  BY <1>1 DEF Diagram!Reply
<1> QED BY <1>2, <1>3 DEF DiagramCallOK, Executing

LEMMA NoBodyOK == Diagram!NoBody.total \in Token \cup {0} /\ Diagram!NoBody.items = {}
BY DEF Diagram!NoBody

\* A request that was just sent.
LEMMA Requested ==
  ASSUME NEW op, NEW ctx, NEW arg, NEW B, PendingOK([op |-> op, arg |-> arg], B)
  PROVE  DiagramCallOK(Diagram!Request(op, ctx, arg), B)
<1>1. PICK a: a = Diagram!Request(op, ctx, arg)
  OBVIOUS
<1>2. TypedCall(a) /\ a.body.total = 0 /\ a.body.items = {} /\ a.op = op /\ a.arg = arg
  BY <1>1 DEF Diagram!Request, Diagram!NoBody, TypedCall
<1>3. PendingOK(a, B)
  BY <1>2 DEF PendingOK
<1> QED BY <1>1, <1>2, <1>3 DEF DiagramCallOK

-----------------------------------------------------------------------------
(* The dialog's own actions *)

LEMMA DialogActions ==
  ASSUME DiagramInv, \/ Diagram!ExportFile \/ Diagram!OnFileChange \/ Diagram!Validate \/ Diagram!OpenConfirm
                     \/ Diagram!DoCommit \/ Diagram!Back \/ Diagram!Reset
                     \/ \E i \in dlg.items, a \in {"DECOMMISSION", "IGNORE"}: Diagram!Decide(i, a)
                     \/ \E m \in net: Diagram!LandValidate(m) \/ Diagram!LandCommit(m)
  PROVE  DiagramInv' /\ db' = db
<1> USE DEF DiagramInv
<1>1. CASE Diagram!ExportFile
  <2>1. PICK f: f = Diagram!Export /\ SheetOK(f)
    BY ExportOK
  <2>2. dlg' = [dlg EXCEPT !.sheet = f] /\ UNCHANGED <<db, net>>
    BY <1>1, <2>1 DEF Diagram!ExportFile
  <2>3. DiagramDialog(dlg')
    BY <2>1, <2>2 DEF DiagramDialog
  <2> QED BY <2>2, <2>3
<1>2. CASE Diagram!OnFileChange
  <2>1. PICK f \in Diagram!Edits(dlg.sheet):
          dlg' = [dlg EXCEPT !.file = Diagram!ParseRackDiagram(f), !.picked = TRUE, !.draft = 0, !.items = {}, !.choice = {}, !.chosen = {}]
    BY <1>2 DEF Diagram!OnFileChange
  <2>2. UNCHANGED <<db, net>>
    BY <1>2 DEF Diagram!OnFileChange
  <2>3. PICK r: r = Diagram!ParseRackDiagram(f) /\ Parsed(r)
    BY EditsOK, ParsedOK DEF DiagramDialog
  <2>4. PICK y: y = TRUE
    OBVIOUS
  <2>5. dlg' = [dlg EXCEPT !.file = r, !.picked = y, !.draft = 0, !.items = {}, !.choice = {}, !.chosen = {}]
    BY <2>1, <2>3, <2>4, Zenon
  <2>6. DiagramDialog(dlg')
    BY <2>3, <2>5 DEF DiagramDialog, Decided
  <2> QED BY <2>2, <2>6
<1>3. CASE Diagram!Validate
  <2>1. PICK y: y = TRUE
    OBVIOUS
  <2>2. dlg' = [dlg EXCEPT !.validating = y] /\ UNCHANGED db
    BY <1>3, <2>1 DEF Diagram!Validate
  <2>3. PICK g: g = [rows |-> dlg.file, items |-> {}]
    OBVIOUS
  <2>4. net' = net \cup {Diagram!Request("validate", "validate", g)}
    BY <1>3, <2>3 DEF Diagram!Validate
  <2>5. PendingOK([op |-> "validate", arg |-> g], db)
    BY <2>3 DEF PendingOK, DiagramDialog
  <2>6. DiagramCallOK(Diagram!Request("validate", "validate", g), db) /\ ~Executing(Diagram!Request("validate", "validate", g))
    BY <2>5, Requested DEF Diagram!Request, Executing
  <2>7. DiagramCalls(net', db')
    BY <2>2, <2>4, <2>6, Sent
  <2>8. DiagramDialog(dlg')
    BY <2>2 DEF DiagramDialog
  <2> QED BY <2>2, <2>7, <2>8
<1>4. CASE Diagram!OpenConfirm \/ Diagram!Back
  <2>1. PICK y \in BOOLEAN: dlg' = [dlg EXCEPT !.confirm = y]
    BY <1>4 DEF Diagram!OpenConfirm, Diagram!Back
  <2>2. UNCHANGED <<db, net>>
    BY <1>4 DEF Diagram!OpenConfirm, Diagram!Back
  <2>3. DiagramDialog(dlg')
    BY <2>1 DEF DiagramDialog
  <2> QED BY <2>2, <2>3
<1>5. CASE Diagram!DoCommit
  <2>1. PICK y: y = TRUE
    OBVIOUS
  <2>2. dlg' = [dlg EXCEPT !.committing = y] /\ UNCHANGED db
    BY <1>5, <2>1 DEF Diagram!DoCommit
  <2>3. PICK g: g = [token |-> dlg.draft, choice |-> dlg.choice, chosen |-> dlg.chosen, draft |-> Diagram!NoDraft]
    OBVIOUS
  <2>4. net' = net \cup {Diagram!Request("commit", "commit", g)}
    BY <1>5, <2>3 DEF Diagram!DoCommit
  <2>5. PendingOK([op |-> "commit", arg |-> g], db)
    BY <2>3 DEF PendingOK, DiagramDialog, CommitOK
  <2>6. DiagramCallOK(Diagram!Request("commit", "commit", g), db) /\ ~Executing(Diagram!Request("commit", "commit", g))
    BY <2>5, Requested DEF Diagram!Request, Executing
  <2>7. DiagramCalls(net', db')
    BY <2>2, <2>4, <2>6, Sent
  <2>8. DiagramDialog(dlg')
    BY <2>2 DEF DiagramDialog
  <2> QED BY <2>2, <2>7, <2>8
<1>6. CASE Diagram!Reset
  <2>1. dlg' = [Diagram!Fresh EXCEPT !.sheet = dlg.sheet, !.committing = dlg.committing, !.validating = dlg.validating]
    BY <1>6 DEF Diagram!Reset
  <2>2. UNCHANGED <<db, net>>
    BY <1>6 DEF Diagram!Reset
  <2>3. DiagramDialog(dlg')
    BY <2>1 DEF DiagramDialog, Diagram!Fresh, Decided, Parsed
  <2> QED BY <2>2, <2>3
<1>7. ASSUME NEW i, NEW a, Diagram!Decide(i, a)
      PROVE  DiagramInv' /\ db' = db
  <2>1. PICK c: c = {x \in dlg.choice: x.dev # i.dev} \cup {[dev |-> i.dev, action |-> a]}
    OBVIOUS
  <2>2. PICK k: k = IF a = "DECOMMISSION" THEN dlg.chosen \cup {i.dev} ELSE dlg.chosen \ {i.dev}
    OBVIOUS
  <2>3. Decided(c, k)
    BY <2>1, <2>2 DEF Decided, DiagramDialog
  <2>4. dlg' = [dlg EXCEPT !.choice = c, !.chosen = k] /\ UNCHANGED <<db, net>>
    BY <1>7, <2>1, <2>2 DEF Diagram!Decide
  <2>5. DiagramDialog(dlg')
    BY <2>3, <2>4 DEF DiagramDialog
  <2> QED BY <2>4, <2>5
<1>8. ASSUME NEW m \in net, Diagram!LandValidate(m)
      PROVE  DiagramInv' /\ db' = db
  <2>1. net' = net \ {m} /\ UNCHANGED db
    BY <1>8 DEF Diagram!LandValidate, Diagram!Answered
  <2>2. PICK n, k: n = m.body.total /\ k = m.body.items
    OBVIOUS
  <2>3. n \in Token \cup {0} /\ (k # {} => n # 0)
    BY <2>2 DEF DiagramCalls, DiagramCallOK
  <2>4. PICK y: y = FALSE
    OBVIOUS
  <2>5. dlg' = [dlg EXCEPT !.validating = y, !.draft = n, !.items = k]
    BY <1>8, <2>2, <2>4 DEF Diagram!LandValidate
  <2>6. DiagramDialog(dlg')
    BY <2>3, <2>5 DEF DiagramDialog
  <2> QED BY <2>1, <2>6, Fewer
<1>9. ASSUME NEW m \in net, Diagram!LandCommit(m)
      PROVE  DiagramInv' /\ db' = db
  <2>1. net' = net \ {m} /\ UNCHANGED db
    BY <1>9 DEF Diagram!LandCommit, Diagram!Answered
  <2>2. PICK y: y = FALSE
    OBVIOUS
  <2>3. \/ dlg' = [dlg EXCEPT !.committing = y, !.confirm = y, !.draft = 0, !.items = {}, !.picked = y, !.file = {}]
        \/ dlg' = [dlg EXCEPT !.committing = y]
    BY <1>9, <2>2 DEF Diagram!LandCommit
  <2>4. DiagramDialog(dlg')
    BY <2>3 DEF DiagramDialog, Parsed
  <2> QED BY <2>1, <2>4, Fewer
<1> QED BY <1>1, <1>2, <1>3, <1>4, <1>5, <1>6, <1>7, <1>8, <1>9

-----------------------------------------------------------------------------
(* The back end of the diagram *)

\* The items of a validated file have names.
LEMMA ItemsNamed ==
  ASSUME StoreOK(db), NEW rows, Parsed(rows)
  PROVE  Named(Diagram!Items(rows))
<1>1. PICK F: F = {Diagram!Classify(r): r \in rows}
  OBVIOUS
<1>2. PICK G: G = {Diagram!Missing(d): d \in Diagram!Placed \ {i.dev: i \in F}}
  OBVIOUS
<1>3. Diagram!Items(rows) = F \cup G
  BY <1>1, <1>2 DEF Diagram!Items
<1>4. \A r: Diagram!Classify(r).name = r.text.name
  BY DEF Diagram!Classify
<1>5. \A i \in F: i.name # 0
  BY <1>1, <1>4 DEF Parsed
<1>6. \A d: Diagram!Missing(d).name = db.name[d]
  BY DEF Diagram!Missing
<1>7. \A i \in G: i.name # 0
  <2>1. \A d \in Diagram!Placed: db.name[d] # 0
    BY DEF StoreOK, Diagram!Placed
  <2>2. ASSUME NEW i \in G
        PROVE  i.name # 0
    <3>1. PICK d \in Diagram!Placed: i = Diagram!Missing(d)
      BY <1>2
    <3> QED BY <1>6, <2>1, <3>1
  <2> QED BY <2>2
<1> QED BY <1>3, <1>5, <1>7 DEF Named

\* A call in flight is still in order when no draft of its token has come up and
\* its token has not been executed.
LEMMA CallKept ==
  ASSUME NEW B, NEW C, NEW m, DiagramCallOK(m, B), B.next \in Nat, C.next \in Nat, B.next =< C.next, Token \subseteq Nat,
         Executing(m) => /\ \A x \in C.drafts: x.token # m.arg.token
                         /\ C.runs[m.arg.token] = B.runs[m.arg.token]
  PROVE  DiagramCallOK(m, C)
<1>1. CASE Executing(m)
  <2>1. DraftOK(m.arg.draft, B) /\ m.arg.draft.token = m.arg.token
    BY <1>1 DEF DiagramCallOK, PendingOK, Executing
  <2>2. DraftOK(m.arg.draft, C)
    <3>1. PICK x: x = m.arg.draft
      OBVIOUS
    <3>2. x.token \in Token /\ x.token < B.next /\ B.runs[x.token] = 0
      BY <2>1, <3>1 DEF DraftOK
    <3>3. x.token < C.next
      <4>1. x.token \in Nat
        BY <3>2
      <4>2. PICK t, b, c: t = x.token /\ b = B.next /\ c = C.next
        OBVIOUS
      <4> QED BY <3>2, <4>1, <4>2
    <3>4. C.runs[x.token] = 0
      BY <1>1, <2>1, <3>1, <3>2
    <3> QED BY <2>1, <3>1, <3>2, <3>3, <3>4 DEF DraftOK
  <2> QED BY <1>1, <2>1, <2>2 DEF DiagramCallOK, PendingOK, Executing
<1>2. CASE ~Executing(m)
  BY <1>2 DEF DiagramCallOK, PendingOK, Executing
<1> QED BY <1>1, <1>2

LEMMA CallsKept ==
  ASSUME NEW B, NEW C, NEW N, DiagramCalls(N, B), B.next \in Nat, C.next \in Nat, B.next =< C.next,
         \A m \in N: Executing(m) => /\ \A x \in C.drafts: x.token # m.arg.token
                                     /\ C.runs[m.arg.token] = B.runs[m.arg.token]
  PROVE  DiagramCalls(N, C)
<1>1. Token \subseteq Nat
  BY ImportsAssumption
<1> QED BY <1>1, CallKept DEF DiagramCalls

LEMMA ValidateServed ==
  ASSUME DiagramInv, NEW m \in net, Diagram!ServeValidate(m)
  PROVE  DiagramInv'
<1> USE DEF DiagramInv
<1>1. m.op = "validate" /\ m.res = "pending" /\ UNCHANGED <<db, dlg>>
  BY DEF Diagram!ServeValidate, Diagram!Asked
<1>2. Parsed(m.arg.rows)
  BY <1>1 DEF DiagramCalls, DiagramCallOK, PendingOK
<1>3. PICK g: g = [rows |-> {}, items |-> Diagram!Items(m.arg.rows)]
  OBVIOUS
<1>4. Named(g.items)
  BY <1>2, <1>3, ItemsNamed
<1>5. net' = (net \ {m}) \cup {Diagram!Request("fingerprint", "validate", g)}
  BY <1>3 DEF Diagram!ServeValidate
<1>6. PendingOK([op |-> "fingerprint", arg |-> g], db)
  BY <1>4 DEF PendingOK
<1>7. DiagramCallOK(Diagram!Request("fingerprint", "validate", g), db) /\ ~Executing(Diagram!Request("fingerprint", "validate", g))
  BY <1>6, Requested DEF Diagram!Request, Executing
<1> QED BY <1>1, <1>5, <1>7, Exchanged

LEMMA Lost ==
  ASSUME DiagramInv, NEW m \in net, Diagram!Lose(m)
  PROVE  DiagramInv'
<1> USE DEF DiagramInv
<1>1. TypedCall(m) /\ UNCHANGED <<db, dlg>> /\ Diagram!Reply(m, "failed", FALSE, Diagram!NoBody)
  BY DEF DiagramCalls, DiagramCallOK, Diagram!Lose
<1>2. PICK a: net' = (net \ {m}) \cup {a} /\ DiagramCallOK(a, db) /\ ~Executing(a)
  BY <1>1, Answers, NoBodyOK
<1> QED BY <1>1, <1>2, Exchanged

LEMMA FingerprintServed ==
  ASSUME DiagramInv, NEW m \in net, Diagram!ServeFingerprint(m)
  PROVE  DiagramInv'
<1> USE DEF DiagramInv
<1>1. m.op = "fingerprint" /\ m.res = "pending" /\ dlg' = dlg /\ db.next \in Token /\ TypedCall(m)
  BY DEF Diagram!ServeFingerprint, Diagram!Asked, DiagramCalls, DiagramCallOK
<1>2. Named(m.arg.items)
  BY <1>1 DEF DiagramCalls, DiagramCallOK, PendingOK
<1>3. PICK a, n, D, k, u: db = [at |-> a, name |-> n, drafts |-> D, next |-> k, runs |-> u]
  BY DEF StoreOK
<1>4. k \in Nat \ {0} /\ k \in Token /\ u \in [Token -> {0, 1}] /\ Token \subseteq Nat /\ (\A t \in Token: k =< t => u[t] = 0)
  BY <1>1, <1>3, ImportsAssumption DEF StoreOK
<1>5. PICK x: x = [token |-> k, items |-> m.arg.items, at |-> a]
  OBVIOUS
<1>6. PICK P: P = Diagram!Put(D, x)
  OBVIOUS
<1>7. db' = [db EXCEPT !.next = k + 1, !.drafts = P]
  BY <1>3, <1>5, <1>6 DEF Diagram!ServeFingerprint
<1>8. db' = [at |-> a, name |-> n, drafts |-> P, next |-> k + 1, runs |-> u]
  BY <1>3, <1>7
<1>9. P = {y \in D: y.token # k} \cup {x}
  BY <1>5, <1>6 DEF Diagram!Put
<1>10. \A y \in D: DraftOK(y, db) /\ y.token # k
  BY <1>3, <1>4 DEF StoreOK, DraftOK
<1>11. \A y \in D: DraftOK(y, db')
  BY <1>3, <1>4, <1>8, <1>10 DEF DraftOK
<1>12. DraftOK(x, db')
  BY <1>2, <1>4, <1>5, <1>8 DEF DraftOK
<1>13. StoreOK(db')
  <2>1. \A t \in Token: k + 1 =< t => u[t] = 0
    BY <1>4
  <2>2. \A y, z \in P: y.token = z.token => y = z
    BY <1>3, <1>5, <1>9, <1>10 DEF StoreOK
  <2>3. a = [d \in Device |-> a[d]] /\ n = [d \in Device |-> n[d]] /\ \A d \in Device: a[d] # Diagram!Off => n[d] # 0
    BY <1>3 DEF StoreOK
  <2>4. k + 1 \in Nat \ {0}
    BY <1>4
  <2>5. \A y \in P: DraftOK(y, db')
    BY <1>9, <1>11, <1>12
  <2> QED BY <1>4, <1>8, <2>1, <2>2, <2>3, <2>4, <2>5 DEF StoreOK
<1>14. DiagramCalls(net, db')
  <2>1. db.next \in Nat /\ db'.next \in Nat /\ db.next =< db'.next
    BY <1>3, <1>4, <1>8
  <2>2. ASSUME NEW c \in net, Executing(c)
        PROVE  (\A y \in db'.drafts: y.token # c.arg.token) /\ db'.runs[c.arg.token] = db.runs[c.arg.token]
    <3>1. DraftOK(c.arg.draft, db) /\ c.arg.draft.token = c.arg.token /\ \A y \in D: y.token # c.arg.token
      BY <1>3, <2>2 DEF DiagramCalls, DiagramCallOK, PendingOK, Executing
    <3>2. c.arg.token # k
      BY <1>3, <1>4, <3>1 DEF DraftOK
    <3> QED BY <1>3, <1>5, <1>8, <1>9, <3>1, <3>2
  <2> QED BY <2>1, <2>2, CallsKept
<1>15. PICK b: b = [items |-> m.arg.items, total |-> k]
  OBVIOUS
<1>16. Diagram!Reply(m, "ok", TRUE, b) /\ b.total \in Token \cup {0} /\ b.total # 0
  BY <1>3, <1>4, <1>15 DEF Diagram!ServeFingerprint
<1>17. PICK c: net' = (net \ {m}) \cup {c} /\ DiagramCallOK(c, db') /\ ~Executing(c)
  BY <1>1, <1>16, Answers
<1> QED BY <1>1, <1>13, <1>14, <1>17, Exchanged

LEMMA CommitServed ==
  ASSUME DiagramInv, NEW m \in net, Diagram!ServeCommit(m)
  PROVE  DiagramInv'
<1> USE DEF DiagramInv
<1>1. m.op = "commit" /\ m.res = "pending" /\ dlg' = dlg /\ TypedCall(m) /\ CommitOK(m.arg)
  BY DEF Diagram!ServeCommit, Diagram!Asked, DiagramCalls, DiagramCallOK, PendingOK
<1>2. CASE Diagram!Reply(m, "expired", FALSE, Diagram!NoBody) /\ UNCHANGED db
  <2>1. PICK a: net' = (net \ {m}) \cup {a} /\ DiagramCallOK(a, db) /\ ~Executing(a)
    BY <1>1, <1>2, Answers, NoBodyOK
  <2> QED BY <1>1, <1>2, <2>1, Exchanged
<1>3. CASE \E d \in db.drafts:
             /\ d.token = m.arg.token /\ db' = [db EXCEPT !.drafts = Diagram!TakeDraft(@, d)]
             /\ IF d.at = db.at
                THEN net' = (net \ {m}) \cup {Diagram!Request("execute", "commit", [m.arg EXCEPT !.draft = d])}
                ELSE Diagram!Reply(m, "stale", FALSE, Diagram!NoBody)
  <2>1. PICK d \in db.drafts:
             /\ d.token = m.arg.token /\ db' = [db EXCEPT !.drafts = Diagram!TakeDraft(@, d)]
             /\ \/ net' = (net \ {m}) \cup {Diagram!Request("execute", "commit", [m.arg EXCEPT !.draft = d])}
                \/ Diagram!Reply(m, "stale", FALSE, Diagram!NoBody)
    BY <1>3
  <2>2. PICK a, n, D, k, u: db = [at |-> a, name |-> n, drafts |-> D, next |-> k, runs |-> u]
    BY DEF StoreOK
  <2>3. PICK P: P = D \ {d}
    OBVIOUS
  <2>4. db' = [db EXCEPT !.drafts = P]
    BY <2>1, <2>2, <2>3 DEF Diagram!TakeDraft
  <2>5. db' = [at |-> a, name |-> n, drafts |-> P, next |-> k, runs |-> u]
    BY <2>2, <2>4
  <2>6. \A x \in P: x \in D /\ DraftOK(x, db') /\ x.token # d.token
    BY <2>1, <2>2, <2>3, <2>5 DEF StoreOK, DraftOK
  <2>7. DraftOK(d, db')
    BY <2>2, <2>5 DEF StoreOK, DraftOK
  <2>8. StoreOK(db')
    BY <2>2, <2>5, <2>6 DEF StoreOK
  <2>9. DiagramCalls(net, db')
    <3>1. db.next \in Nat /\ db'.next \in Nat /\ db.next =< db'.next
      BY <2>2, <2>5 DEF StoreOK
    <3>2. ASSUME NEW c \in net, Executing(c)
          PROVE  (\A y \in db'.drafts: y.token # c.arg.token) /\ db'.runs[c.arg.token] = db.runs[c.arg.token]
      BY <2>2, <2>5, <2>6, <3>2 DEF DiagramCalls, DiagramCallOK, PendingOK, Executing
    <3> QED BY <3>1, <3>2, CallsKept
  <2>10. CASE Diagram!Reply(m, "stale", FALSE, Diagram!NoBody)
    <3>1. PICK c: net' = (net \ {m}) \cup {c} /\ DiagramCallOK(c, db') /\ ~Executing(c)
      BY <1>1, <2>10, Answers, NoBodyOK
    <3> QED BY <1>1, <2>8, <2>9, <3>1, Exchanged
  <2>11. CASE net' = (net \ {m}) \cup {Diagram!Request("execute", "commit", [m.arg EXCEPT !.draft = d])}
    <3>1. PICK g: g = [m.arg EXCEPT !.draft = d]
      OBVIOUS
    <3>2. CommitOK(g) /\ g.draft = d /\ g.token = d.token
      BY <1>1, <2>1, <3>1 DEF CommitOK
    <3>3. PendingOK([op |-> "execute", arg |-> g], db')
      BY <2>5, <2>6, <2>7, <3>2 DEF PendingOK
    <3>4. PICK r: r = Diagram!Request("execute", "commit", g)
      OBVIOUS
    <3>5. DiagramCallOK(r, db') /\ r.arg = g
      BY <3>3, <3>4, Requested DEF Diagram!Request
    <3>6. net' = (net \ {m}) \cup {r}
      BY <2>11, <3>1, <3>4
    <3>7. \A c \in net: Executing(c) => c.arg.token # g.token
      <4> SUFFICES ASSUME NEW c \in net, Executing(c)
                   PROVE  c.arg.token # g.token
        OBVIOUS
      <4>1. \A y \in db.drafts: y.token # c.arg.token
        BY DEF DiagramCalls, DiagramCallOK, PendingOK, Executing
      <4> QED BY <3>2, <4>1
    <3>8. DiagramCalls(net', db')
      BY <2>9, <3>5, <3>6, <3>7 DEF DiagramCalls
    <3> QED BY <1>1, <2>8, <3>8
  <2> QED BY <2>1, <2>10, <2>11
<1> QED BY <1>2, <1>3 DEF Diagram!ServeCommit

LEMMA Forgot ==
  ASSUME DiagramInv, Diagram!Forget
  PROVE  DiagramInv'
<1> USE DEF DiagramInv
<1>1. UNCHANGED <<net, dlg>> /\ db' = [db EXCEPT !.drafts = {}]
  BY DEF Diagram!Forget
<1>2. PICK a, n, D, k, u: db = [at |-> a, name |-> n, drafts |-> D, next |-> k, runs |-> u]
  BY DEF StoreOK
<1>3. db' = [at |-> a, name |-> n, drafts |-> {}, next |-> k, runs |-> u]
  BY <1>1, <1>2
<1>4. StoreOK(db')
  BY <1>2, <1>3 DEF StoreOK
<1>5. DiagramCalls(net, db')
  <2>1. db.next \in Nat /\ db'.next \in Nat /\ db.next =< db'.next
    BY <1>2, <1>3 DEF StoreOK
  <2>2. PICK B, C, N: B = db /\ C = db' /\ N = net
    OBVIOUS
  <2>3. \A c \in N: Executing(c) => /\ \A y \in C.drafts: y.token # c.arg.token
                                   /\ C.runs[c.arg.token] = B.runs[c.arg.token]
    BY <1>2, <1>3, <2>2
  <2>4. DiagramCalls(N, B) /\ B.next \in Nat /\ C.next \in Nat /\ B.next =< C.next
    BY <2>1, <2>2
  <2>5. DiagramCalls(N, C)
    BY <2>3, <2>4, CallsKept
  <2> QED BY <2>2, <2>5
<1> QED BY <1>1, <1>4, <1>5

\* Others place devices, which have names, or take them off.
LEMMA Disturbed ==
  ASSUME DiagramInv, NEW d \in Device, Diagram!Foreign(d)
  PROVE  DiagramInv'
<1> USE DEF DiagramInv
<1>1. UNCHANGED <<net, dlg>> /\ db.name[d] # 0 /\ \E p: db' = [db EXCEPT !.at[d] = p]
  BY DEF Diagram!Foreign
<1>2. PICK p: db' = [db EXCEPT !.at[d] = p]
  BY <1>1
<1>3. PICK a, n, D, k, u: db = [at |-> a, name |-> n, drafts |-> D, next |-> k, runs |-> u]
  BY DEF StoreOK
<1>4. PICK b: b = [a EXCEPT ![d] = p]
  OBVIOUS
<1>5. db' = [at |-> b, name |-> n, drafts |-> D, next |-> k, runs |-> u]
  BY <1>2, <1>3, <1>4
<1>6. a = [e \in Device |-> a[e]] /\ n = [e \in Device |-> n[e]] /\ \A e \in Device: a[e] # Diagram!Off => n[e] # 0
  BY <1>3 DEF StoreOK
<1>7. b = [e \in Device |-> b[e]] /\ \A e \in Device: b[e] # Diagram!Off => n[e] # 0
  BY <1>1, <1>3, <1>4, <1>6
<1>8. \A x \in D: DraftOK(x, db')
  BY <1>3, <1>5 DEF StoreOK, DraftOK
<1>9. StoreOK(db')
  BY <1>3, <1>5, <1>6, <1>7, <1>8 DEF StoreOK
<1>10. DiagramCalls(net, db')
  <2>1. db.next \in Nat /\ db'.next \in Nat /\ db.next =< db'.next
    BY <1>3, <1>5 DEF StoreOK
  <2>2. ASSUME NEW c \in net, Executing(c)
        PROVE  (\A y \in db'.drafts: y.token # c.arg.token) /\ db'.runs[c.arg.token] = db.runs[c.arg.token]
    BY <1>3, <1>5, <2>2 DEF DiagramCalls, DiagramCallOK, PendingOK, Executing
  <2> QED BY <2>1, <2>2, CallsKept
<1> QED BY <1>1, <1>9, <1>10

\* What an execution writes: the token has been run, and a place goes only to a
\* device that has a name, or gets one.
LEMMA Executed ==
  ASSUME StoreOK(db), NEW m, CommitOK(m.arg), DraftOK(m.arg.draft, db), m.arg.draft.token = m.arg.token,
         \A x \in db.drafts: x.token # m.arg.token
  PROVE  /\ StoreOK(Diagram!After(m))
         /\ Diagram!After(m).drafts = db.drafts /\ Diagram!After(m).next = db.next
         /\ \A t \in Token \ {m.arg.token}: Diagram!After(m).runs[t] = db.runs[t]
<1>1. PICK a, n, D, k, u: db = [at |-> a, name |-> n, drafts |-> D, next |-> k, runs |-> u]
  BY DEF StoreOK
<1>2. PICK R: R = Diagram!Removed(m)
  OBVIOUS
<1>3. PICK W: W = [d \in Device |-> Diagram!NewRow(m, d)]
  OBVIOUS
<1>4. PICK w: w = [d \in Device |-> CHOOSE i \in Diagram!NewRow(m, d): TRUE]
  OBVIOUS
<1>5. PICK b: b = [d \in Device |-> IF d \in R THEN Diagram!Off
                                    ELSE IF n[d] = 0 /\ W[d] # {} THEN [lo |-> w[d].lo, hi |-> w[d].hi] ELSE a[d]]
  OBVIOUS
<1>6. PICK c: c = [d \in Device |-> IF n[d] = 0 /\ W[d] # {} THEN w[d].name ELSE n[d]]
  OBVIOUS
<1>7. PICK v: v = [u EXCEPT ![m.arg.token] = @ + 1]
  OBVIOUS
<1>8. Diagram!After(m) = [at |-> b, name |-> c, drafts |-> D, next |-> k, runs |-> v]
  <2>1. b = [d \in Device |-> IF d \in Diagram!Removed(m) THEN Diagram!Off
                              ELSE IF db.name[d] = 0 /\ Diagram!NewRow(m, d) # {}
                              THEN LET i == CHOOSE i \in Diagram!NewRow(m, d): TRUE IN [lo |-> i.lo, hi |-> i.hi] ELSE db.at[d]]
    BY <1>1, <1>2, <1>3, <1>4, <1>5
  <2>2. c = [d \in Device |-> IF db.name[d] = 0 /\ Diagram!NewRow(m, d) # {}
                              THEN (CHOOSE i \in Diagram!NewRow(m, d): TRUE).name ELSE db.name[d]]
    BY <1>1, <1>3, <1>4, <1>6
  <2>3. PICK t: t = m.arg.token
    OBVIOUS
  <2>4. Diagram!After(m) = [db EXCEPT !.runs[t] = @ + 1, !.at = b, !.name = c]
    BY <2>1, <2>2, <2>3, Zenon DEF Diagram!After
  <2> QED BY <1>1, <1>7, <2>3, <2>4
<1>9. \A d \in Device: W[d] # {} => w[d].name # 0
  <2> SUFFICES ASSUME NEW d \in Device, W[d] # {}
               PROVE  w[d].name # 0
    OBVIOUS
  <2>1. w[d] \in Diagram!NewRow(m, d)
    BY <1>3, <1>4
  <2>2. w[d] \in m.arg.draft.items
    BY <2>1 DEF Diagram!NewRow, Diagram!Creations
  <2> QED BY <2>2 DEF DraftOK, Named
<1>10. a = [d \in Device |-> a[d]] /\ n = [d \in Device |-> n[d]] /\ \A d \in Device: a[d] # Diagram!Off => n[d] # 0
  BY <1>1 DEF StoreOK
<1>11. \A d \in Device: b[d] # Diagram!Off => c[d] # 0
  BY <1>5, <1>6, <1>9, <1>10
<1>12. m.arg.token \in Token /\ u[m.arg.token] = 0 /\ m.arg.token < k /\ k \in Nat \ {0} /\ u \in [Token -> {0, 1}]
  BY <1>1 DEF StoreOK, DraftOK
<1>13. v \in [Token -> {0, 1}] /\ \A t \in Token \ {m.arg.token}: v[t] = u[t]
  BY <1>7, <1>12
<1>14. \A t \in Token: k =< t => v[t] = 0
  <2>1. \A t \in Token: k =< t => u[t] = 0
    BY <1>1 DEF StoreOK
  <2>2. ~(k =< m.arg.token)
    BY <1>12, ImportsAssumption
  <2> QED BY <1>13, <2>1, <2>2
<1>15. \A x \in D: x.token \in Token \ {m.arg.token}
  BY <1>1 DEF StoreOK, DraftOK
<1>16. PICK B: B = Diagram!After(m)
  OBVIOUS
<1>17. \A x \in D: DraftOK(x, B)
  BY <1>1, <1>8, <1>13, <1>15, <1>16 DEF StoreOK, DraftOK
<1>18. \A x, y \in D: x.token = y.token => x = y
  BY <1>1 DEF StoreOK
<1>19. b = [d \in Device |-> b[d]] /\ c = [d \in Device |-> c[d]]
  BY <1>5, <1>6
<1>20. StoreOK(B)
  BY <1>8, <1>11, <1>12, <1>13, <1>14, <1>16, <1>17, <1>18, <1>19 DEF StoreOK
<1> QED BY <1>1, <1>8, <1>13, <1>16, <1>20

LEMMA ExecuteServed ==
  ASSUME DiagramInv, NEW m \in net, Diagram!ServeExecute(m)
  PROVE  DiagramInv'
<1> USE DEF DiagramInv
<1>1. m.op = "execute" /\ m.res = "pending" /\ dlg' = dlg /\ TypedCall(m) /\ Executing(m)
  BY DEF Diagram!ServeExecute, Diagram!Asked, DiagramCalls, DiagramCallOK, Executing
<1>2. /\ CommitOK(m.arg) /\ DraftOK(m.arg.draft, db) /\ m.arg.draft.token = m.arg.token
      /\ \A x \in db.drafts: x.token # m.arg.token
  BY <1>1 DEF DiagramCalls, DiagramCallOK, PendingOK
<1>3. \A c \in net \ {m}: Executing(c) => c.arg.token # m.arg.token
  BY <1>1 DEF DiagramCalls
<1>4. \A c \in net: Executing(c) => c.arg.token \in Token /\ \A y \in db.drafts: y.token # c.arg.token
  BY DEF DiagramCalls, DiagramCallOK, PendingOK, Executing, DraftOK
<1>5. CASE db' = Diagram!After(m) /\ \E res \in {"ok", "failed"}: Diagram!Reply(m, res, TRUE, Diagram!NoBody)
  <2>1. PICK B: B = Diagram!After(m)
    OBVIOUS
  <2>2. StoreOK(B) /\ B.drafts = db.drafts /\ B.next = db.next /\ \A t \in Token \ {m.arg.token}: B.runs[t] = db.runs[t]
    BY <1>2, <2>1, Executed
  <2>3. db' = B
    BY <1>5, <2>1
  <2>4. DiagramCalls(net \ {m}, B)
    <3>1. DiagramCalls(net \ {m}, db) /\ db.next \in Nat /\ B.next \in Nat /\ db.next =< B.next
      <4>1. DiagramCalls(net \ {m}, db)
        BY Fewer
      <4>2. db.next \in Nat
        BY DEF StoreOK
      <4> QED BY <2>2, <4>1, <4>2
    <3>2. \A c \in net \ {m}: Executing(c) => (\A y \in B.drafts: y.token # c.arg.token) /\ B.runs[c.arg.token] = db.runs[c.arg.token]
      BY <1>3, <1>4, <2>2
    <3> QED BY <3>1, <3>2, CallsKept
  <2>5. PICK res \in {"ok", "failed"}: Diagram!Reply(m, res, TRUE, Diagram!NoBody)
    BY <1>5
  <2>6. PICK a: net' = (net \ {m}) \cup {a} /\ DiagramCallOK(a, B) /\ ~Executing(a)
    <3>1. TypedCall(m)
      BY <1>1
    <3>2. CASE Diagram!Reply(m, "ok", TRUE, Diagram!NoBody)
      BY <3>1, <3>2, Answers, NoBodyOK
    <3>3. CASE Diagram!Reply(m, "failed", TRUE, Diagram!NoBody)
      BY <3>1, <3>3, Answers, NoBodyOK
    <3>4. res = "ok" \/ res = "failed"
      OBVIOUS
    <3> QED BY <2>5, <3>2, <3>3, <3>4
  <2> QED BY <1>1, <2>2, <2>3, <2>4, <2>6, Sent
<1>6. CASE /\ db' = [db EXCEPT !.drafts = Diagram!Put(@, m.arg.draft)]
           /\ Diagram!Reply(m, "refused", FALSE, Diagram!NoBody) \/ Diagram!Reply(m, "failed", FALSE, Diagram!NoBody)
  <2>1. PICK a, n, D, k, u: db = [at |-> a, name |-> n, drafts |-> D, next |-> k, runs |-> u]
    BY DEF StoreOK
  <2>2. PICK x: x = m.arg.draft
    OBVIOUS
  <2>3. PICK P: P = Diagram!Put(D, x)
    OBVIOUS
  <2>4. db' = [db EXCEPT !.drafts = P]
    BY <1>6, <2>1, <2>2, <2>3
  <2>5. db' = [at |-> a, name |-> n, drafts |-> P, next |-> k, runs |-> u]
    BY <2>1, <2>4
  <2>6. P = {y \in D: y.token # x.token} \cup {x} /\ x.token = m.arg.token
    BY <1>2, <2>2, <2>3 DEF Diagram!Put
  <2>7. DraftOK(x, db') /\ \A y \in D: DraftOK(y, db') /\ y.token # x.token
    BY <1>2, <2>1, <2>2, <2>5 DEF StoreOK, DraftOK
  <2>8. StoreOK(db')
    <3>1. \A y \in P: DraftOK(y, db')
      BY <2>6, <2>7
    <3>2. \A y, z \in P: y.token = z.token => y = z
      BY <2>1, <2>6, <2>7 DEF StoreOK
    <3> QED BY <2>1, <2>5, <3>1, <3>2 DEF StoreOK
  <2>9. DiagramCalls(net \ {m}, db')
    <3>1. DiagramCalls(net \ {m}, db) /\ db.next \in Nat /\ db'.next \in Nat /\ db.next =< db'.next
      BY <2>1, <2>5, Fewer DEF StoreOK
    <3>2. \A c \in net \ {m}: Executing(c) => (\A y \in db'.drafts: y.token # c.arg.token) /\ db'.runs[c.arg.token] = db.runs[c.arg.token]
      BY <1>3, <1>4, <2>1, <2>5, <2>6
    <3> QED BY <3>1, <3>2, CallsKept
  <2>10. PICK c: net' = (net \ {m}) \cup {c} /\ DiagramCallOK(c, db') /\ ~Executing(c)
    <3>1. TypedCall(m) /\ FALSE \in BOOLEAN
      BY <1>1
    <3>2. CASE Diagram!Reply(m, "refused", FALSE, Diagram!NoBody)
      BY <3>1, <3>2, Answers, NoBodyOK
    <3>3. CASE Diagram!Reply(m, "failed", FALSE, Diagram!NoBody)
      BY <3>1, <3>3, Answers, NoBodyOK
    <3> QED BY <1>6, <3>2, <3>3
  <2> QED BY <1>1, <2>8, <2>9, <2>10, Sent
<1> QED BY <1>5, <1>6 DEF Diagram!ServeExecute

LEMMA DiagramSteps ==
  ASSUME DiagramInv, Diagram!DialogNext
  PROVE  DiagramInv'
BY DialogActions, Forgot, Disturbed, ValidateServed, FingerprintServed, CommitServed, ExecuteServed, Lost DEF Diagram!DialogNext

\* An execution takes off what the person has decided to, and moves nothing.
LEMMA DiagramKeeps ==
  ASSUME DiagramInv, Diagram!DialogNext
  PROVE  Diagram!ImportKeepsRest
<1> USE DEF DiagramInv
<1>1. SUFFICES ASSUME NEW m \in net \ net', Executing(m), NEW d \in Diagram!Placed, db'.at[d] # db.at[d]
               PROVE  d \in m.arg.chosen /\ db'.at[d] = Diagram!Off
  BY DEF Diagram!ImportKeepsRest, Executing
<1>2. ~(db' = db)
  BY <1>1
<1>3. \A D, k: ~(db' = [db EXCEPT !.drafts = D]) /\ ~(db' = [db EXCEPT !.next = k, !.drafts = D])
  BY <1>1 DEF StoreOK
<1>4. ~Diagram!Forget
  BY <1>3 DEF Diagram!Forget
<1>5. \A e \in Device: ~Diagram!Foreign(e)
  BY <1>1 DEF Diagram!Foreign
<1>6. ASSUME NEW o \in net, Diagram!ServeValidate(o) \/ Diagram!Lose(o)
      PROVE  FALSE
  BY <1>2, <1>6 DEF Diagram!ServeValidate, Diagram!Lose
<1>7. ASSUME NEW o \in net, Diagram!ServeFingerprint(o)
      PROVE  FALSE
  BY <1>3, <1>7 DEF Diagram!ServeFingerprint
<1>8. ASSUME NEW o \in net, Diagram!ServeCommit(o)
      PROVE  FALSE
  BY <1>2, <1>3, <1>8 DEF Diagram!ServeCommit
<1>9. PICK o \in net: Diagram!ServeExecute(o)
  BY <1>2, <1>4, <1>5, <1>6, <1>7, <1>8, DialogActions DEF Diagram!DialogNext
<1>10. db' = Diagram!After(o)
  BY <1>3, <1>9 DEF Diagram!ServeExecute
<1>11. m = o
  <2>1. \E a: net' = (net \ {o}) \cup {a}
    BY <1>9 DEF Diagram!ServeExecute, Diagram!Reply
  <2> QED BY <1>1, <2>1
<1>12. d \in Device /\ db.name[d] # 0
  BY DEF Diagram!Placed, StoreOK
<1>13. PICK a, n, D, k, u: db = [at |-> a, name |-> n, drafts |-> D, next |-> k, runs |-> u]
  BY DEF StoreOK
<1>14. db'.at = [e \in Device |-> IF e \in Diagram!Removed(m) THEN Diagram!Off
                                   ELSE IF db.name[e] = 0 /\ Diagram!NewRow(m, e) # {}
                                   THEN LET i == CHOOSE i \in Diagram!NewRow(m, e): TRUE IN [lo |-> i.lo, hi |-> i.hi] ELSE db.at[e]]
  <2>1. PICK b: b = [e \in Device |-> IF e \in Diagram!Removed(m) THEN Diagram!Off
                                   ELSE IF db.name[e] = 0 /\ Diagram!NewRow(m, e) # {}
                                   THEN LET i == CHOOSE i \in Diagram!NewRow(m, e): TRUE IN [lo |-> i.lo, hi |-> i.hi] ELSE db.at[e]]
    OBVIOUS
  <2>2. PICK c: c = [e \in Device |-> IF db.name[e] = 0 /\ Diagram!NewRow(m, e) # {}
                                      THEN (CHOOSE i \in Diagram!NewRow(m, e): TRUE).name ELSE db.name[e]]
    OBVIOUS
  <2>3. PICK t: t = m.arg.token
    OBVIOUS
  <2>4. Diagram!After(m) = [db EXCEPT !.runs[t] = @ + 1, !.at = b, !.name = c]
    BY <2>1, <2>2, <2>3, Zenon DEF Diagram!After
  <2>5. db'.at = b
    BY <1>10, <1>11, <1>13, <2>4
  <2> QED BY <2>1, <2>5
<1>15. d \in Diagram!Removed(m)
  BY <1>1, <1>12, <1>14
<1>16. PICK j \in m.arg.draft.items: d = j.dev /\ [dev |-> j.dev, action |-> "DECOMMISSION"] \in m.arg.choice
  BY <1>15 DEF Diagram!Removed
<1>17. Decided(m.arg.choice, m.arg.chosen)
  BY <1>1 DEF DiagramCalls, DiagramCallOK, PendingOK, CommitOK, Executing
<1>18. d \in m.arg.chosen
  BY <1>16, <1>17 DEF Decided
<1> QED BY <1>12, <1>14, <1>15, <1>18

LEMMA DiagramStarts ==
  ASSUME Diagram!Start
  PROVE  DiagramInv
<1>1. PICK a, n, u: db = [at |-> a, name |-> n, drafts |-> {}, next |-> 1, runs |-> u]
                    /\ a \in [Device -> [lo: Nat, hi: Nat]] /\ n \in [Device -> Nat] /\ u \in [Token -> {0}]
  BY DEF Diagram!Start
<1>2. \A d \in Device: a[d] # Diagram!Off => n[d] # 0
  BY <1>1 DEF Diagram!Start, Diagram!Placed
<1>3. StoreOK(db)
  BY <1>1, <1>2 DEF StoreOK
<1>4. PICK f: f = Diagram!Export /\ SheetOK(f)
  BY <1>3, ExportOK
<1>5. net = {} /\ dlg = [Diagram!Fresh EXCEPT !.sheet = f]
  BY <1>4 DEF Diagram!Start
<1>6. DiagramCalls(net, db)
  BY <1>5 DEF DiagramCalls
<1>7. DiagramDialog(dlg)
  BY <1>4, <1>5 DEF DiagramDialog, Diagram!Fresh, Decided, Parsed
<1> QED BY <1>3, <1>6, <1>7 DEF DiagramInv

-----------------------------------------------------------------------------
(* The inductive invariant of the two tables.  The loop keeps, of every row that *)
(* counts as submitted, that it has been executed or is still to do; and a row   *)
(* that names a device was matched to what that version of the device holds.     *)

StatusOK(r) == r.st \in {"valid", "rejected", "failed"} /\ r.did \in BOOLEAN
Listed(rows, n) == rows = [i \in 1..n |-> rows[i]]
LoopOK(s) ==
  /\ \E n \in Nat: s.rows = [i \in 1..n |-> s.rows[i]]
  /\ \E n \in Nat: s.batch = [i \in 1..n |-> s.batch[i]]
  /\ s.todo \in Seq(DOMAIN s.batch) /\ s.importing \in BOOLEAN /\ (s.importing <=> s.todo # <<>>)
  /\ s.same => s.rows = s.batch \/ (~s.importing /\ ~s.done)
  /\ \A i \in DOMAIN s.batch: s.batch[i].st = "valid" => s.batch[i].did \/ \E k \in 1..Len(s.todo): s.todo[k] = i

\* The one call of the loop.
RowCalls(N) == {m \in N: m.ctx = "row"}
OneCall(N, importing) == IF importing THEN \E m \in N: RowCalls(N) = {m} ELSE RowCalls(N) = {}

FilesOK(L) == /\ bound = [foreign |-> bound.foreign, turns |-> bound.turns, files |-> bound.files]
              /\ \A f \in bound.files: f \in Seq(L)

\* What was read of a device: it had, in that version, these identifiers.
CopyOK(c, B) ==
  /\ c = [id |-> c.id, ver |-> c.ver, code |-> c.code, sn |-> c.sn, asset |-> c.asset]
  /\ c.id \in Device /\ c.ver \in Nat /\ c.ver =< B[c.id].ver
  /\ c.ver = B[c.id].ver => c.code = B[c.id].code /\ c.sn = B[c.id].sn /\ c.asset = B[c.id].asset
Named1(r, x) == IF r.code # 0 THEN x.code = r.code ELSE (r.sn # 0 /\ x.sn = r.sn) \/ (r.asset # 0 /\ x.asset = r.asset)
NamedRow(r, B) == r.id # 0 => /\ r.id \in Device /\ r.ver \in Nat /\ r.ver =< B[r.id].ver
                              /\ r.ver = B[r.id].ver => Named1(r.cells, B[r.id])
DeviceRow(r, B) == /\ r = [st |-> r.st, id |-> r.id, ver |-> r.ver, payload |-> r.payload, cells |-> r.cells, did |-> r.did]
                   /\ StatusOK(r) /\ NamedRow(r, B)
DeviceTable(B) ==
  /\ B = [d \in Device |-> [live |-> B[d].live, ver |-> B[d].ver, code |-> B[d].code, sn |-> B[d].sn, asset |-> B[d].asset]]
  /\ \A d \in Device: B[d].ver \in Nat
DeviceCallOK(m, B) ==
  /\ TypedCall(m) /\ (m.ctx = "row" /\ m.res = "ok" => m.did) /\ (m.op = "page" <=> m.ctx = "library")
  /\ m.ctx = "library" => \A c \in m.body.items: CopyOK(c, B)
  /\ m.op = "update" /\ m.res = "pending" => m.arg.id # 0 /\ NamedRow(m.arg, B)
DeviceDialog(s, B) ==
  /\ s = [kind |-> s.kind, rows |-> s.rows, batch |-> s.batch, same |-> s.same, todo |-> s.todo, importing |-> s.importing,
          done |-> s.done, file |-> s.file, loading |-> s.loading, lib |-> s.lib, await |-> s.await, fair |-> s.fair]
  /\ s.kind = "devices" /\ LoopOK(s) /\ s.file \in Seq(Devices!Line)
  /\ \A i \in DOMAIN s.rows: DeviceRow(s.rows[i], B)
  /\ \A i \in DOMAIN s.batch: DeviceRow(s.batch[i], B)
  /\ \A x \in s.lib: CopyOK(x.copy, B)
DevicesInv ==
  /\ FilesOK(Devices!Line) /\ DeviceTable(db) /\ DeviceDialog(dlg, db)
  /\ \A m \in net: DeviceCallOK(m, db)
  /\ OneCall(net, dlg.importing)

RackRow(r) == r = [st |-> r.st, room |-> r.room, code |-> r.code, did |-> r.did] /\ StatusOK(r)
RackCallOK(m) == /\ TypedCall(m) /\ (m.ctx = "row" /\ m.res = "ok" => m.did) /\ (m.op = "tree" <=> m.ctx = "tree")
RackDialog(s) ==
  /\ s = [kind |-> s.kind, rows |-> s.rows, batch |-> s.batch, same |-> s.same, todo |-> s.todo, importing |-> s.importing,
          done |-> s.done, racks |-> s.racks, retried |-> s.retried]
  /\ s.kind = "racks" /\ LoopOK(s)
  /\ \A i \in DOMAIN s.rows: RackRow(s.rows[i])
  /\ \A i \in DOMAIN s.batch: RackRow(s.batch[i])
RacksInv ==
  /\ FilesOK(Racks!Line) /\ RackDialog(dlg) /\ (\A m \in net: RackCallOK(m)) /\ OneCall(net, dlg.importing)

ImportsInv == \/ dlg.kind = "diagram" /\ DiagramInv
              \/ dlg.kind = "devices" /\ DevicesInv
              \/ dlg.kind = "racks" /\ RacksInv

-----------------------------------------------------------------------------
(* The numbers of a set in their order *)

LEMMA Ranks ==
  ASSUME NEW S, IsFiniteSet(S), S \subseteq Nat
  PROVE  /\ Cardinality(S) \in Nat
         /\ \A i \in S: Cardinality({j \in S: j < i}) + 1 \in 1..Cardinality(S)
         /\ \A i, o \in S: Cardinality({j \in S: j < i}) = Cardinality({j \in S: j < o}) => i = o
         /\ \A k \in 1..Cardinality(S): \E i \in S: Cardinality({j \in S: j < i}) = k - 1
<1> DEFINE Below(i) == {j \in S: j < i}
<1>1. \A i \in S: IsFiniteSet(Below(i)) /\ Cardinality(Below(i)) \in Nat /\ Cardinality(Below(i)) < Cardinality(S)
  <2> SUFFICES ASSUME NEW i \in S
               PROVE  IsFiniteSet(Below(i)) /\ Cardinality(Below(i)) \in Nat /\ Cardinality(Below(i)) < Cardinality(S)
    OBVIOUS
  <2>1. Below(i) \in SUBSET S /\ i \notin Below(i)
    OBVIOUS
  <2>2. IsFiniteSet(Below(i)) /\ Cardinality(Below(i)) =< Cardinality(S) /\ Cardinality(Below(i)) # Cardinality(S)
    BY <2>1, FS_Subset
  <2> QED BY <2>2, FS_CardinalityType
<1>2. Cardinality(S) \in Nat
  BY FS_CardinalityType
<1>3. ASSUME NEW i \in S, NEW o \in S, i < o
      PROVE  Cardinality(Below(i)) < Cardinality(Below(o))
  <2>1. Below(i) \in SUBSET Below(o) /\ i \in Below(o) /\ i \notin Below(i)
    <3>1. \A j \in S: j < i => j < o
      BY <1>3
    <3>2. ~(i < i)
      OBVIOUS
    <3> QED BY <1>3, <3>1, <3>2
  <2>2. Cardinality(Below(i)) =< Cardinality(Below(o)) /\ Cardinality(Below(i)) # Cardinality(Below(o))
    BY <1>1, <2>1, FS_Subset
  <2> QED BY <1>1, <2>2
<1>4. \A i, o \in S: Cardinality(Below(i)) = Cardinality(Below(o)) => i = o
  <2> SUFFICES ASSUME NEW i \in S, NEW o \in S, i # o
               PROVE  Cardinality(Below(i)) # Cardinality(Below(o))
    OBVIOUS
  <2>1. i < o \/ o < i
    OBVIOUS
  <2> QED BY <1>1, <1>3, <2>1
<1> DEFINE n == Cardinality(S)
           rank == [i \in S |-> Cardinality(Below(i)) + 1]
<1>5. \A i \in S: rank[i] \in 1..n
  BY <1>1, <1>2
<1>6. rank \in Injection(S, 1..n)
  <2>1. rank \in [S -> 1..n]
    BY <1>5
  <2>2. ASSUME NEW i \in S, NEW o \in S, rank[i] = rank[o]
        PROVE  i = o
    <3>1. Cardinality(Below(i)) + 1 = Cardinality(Below(o)) + 1
      BY <2>2
    <3>2. Cardinality(Below(i)) = Cardinality(Below(o))
      BY <1>1, <3>1
    <3> QED BY <1>4, <3>2
  <2> HIDE DEF rank
  <2> QED BY <2>1, <2>2 DEF Injection, IsInjective
<1>7. IsFiniteSet(1..n) /\ Cardinality(1..n) = n
  BY <1>2, FS_Interval
<1>8. rank \in Surjection(S, 1..n)
  BY <1>6, <1>7, FS_Injection
<1>9. \A k \in 1..n: \E i \in S: rank[i] = k
  BY <1>8 DEF Surjection
<1>10. \A k \in 1..n: \E i \in S: Cardinality(Below(i)) = k - 1
  <2> SUFFICES ASSUME NEW k \in 1..n
               PROVE  \E i \in S: Cardinality(Below(i)) = k - 1
    OBVIOUS
  <2>1. PICK i \in S: rank[i] = k
    BY <1>9
  <2>2. Cardinality(Below(i)) + 1 = k /\ Cardinality(Below(i)) \in Nat
    BY <1>1, <2>1
  <2>3. Cardinality(Below(i)) = k - 1
    BY <2>2
  <2> QED BY <2>3
<1>11. \A i \in S: Cardinality(Below(i)) + 1 \in 1..n
  BY <1>1, <1>2
<1> QED BY <1>2, <1>4, <1>10, <1>11

LEMMA Ordered ==
  ASSUME NEW S, IsFiniteSet(S), S \subseteq Nat
  PROVE  /\ InOrder(S) \in Seq(S) /\ (S # {} => InOrder(S) # <<>>)
         /\ \E n \in Nat: n = Cardinality(S) /\ DOMAIN InOrder(S) = 1..n
         /\ \A i \in S: \E k \in 1..Len(InOrder(S)): InOrder(S)[k] = i
<1>1. PICK n \in Nat: n = Cardinality(S)
  BY Ranks
<1>2. PICK R: R = [i \in S |-> Cardinality({j \in S: j < i})]
  OBVIOUS
<1>3. /\ \A i \in S: R[i] + 1 \in 1..n
      /\ \A i, o \in S: R[i] = R[o] => i = o
      /\ \A k \in 1..n: \E i \in S: R[i] = k - 1
  <2>1. \A i \in S: R[i] = Cardinality({j \in S: j < i})
    BY <1>2
  <2>2. \A i \in S: Cardinality({j \in S: j < i}) + 1 \in 1..n
    <3>1. \A i \in S: Cardinality({j \in S: j < i}) + 1 \in 1..Cardinality(S)
      BY Ranks
    <3> QED BY <1>1, <3>1
  <2>3. \A i, o \in S: Cardinality({j \in S: j < i}) = Cardinality({j \in S: j < o}) => i = o
    BY Ranks
  <2>4. \A k \in 1..n: \E i \in S: Cardinality({j \in S: j < i}) = k - 1
    BY <1>1, Ranks
  <2> QED BY <2>1, <2>2, <2>3, <2>4
<1>4. PICK s: s = [k \in 1..n |-> CHOOSE i \in S: R[i] = k - 1]
  OBVIOUS
<1>5. InOrder(S) = s
  <2>1. \A k \in 1..n: (CHOOSE i \in S: R[i] = k - 1) = (CHOOSE i \in S: Cardinality({j \in S: j < i}) = k - 1)
    BY <1>2
  <2> QED BY <1>1, <1>4, <2>1 DEF InOrder
<1>6. \A k \in 1..n: s[k] \in S /\ R[s[k]] = k - 1
  BY <1>3, <1>4
<1>7. s \in Seq(S) /\ Len(s) = n
  BY <1>4, <1>6
<1>8. ASSUME NEW i \in S
      PROVE  \E k \in 1..n: s[k] = i
  <2>1. PICK r: r = R[i]
    OBVIOUS
  <2>2. r + 1 \in 1..n
    BY <1>3, <2>1
  <2>3. r \in Int
    BY <1>1, <1>2, <2>1, Ranks
  <2>4. R[s[r + 1]] = r
    BY <1>6, <2>2, <2>3
  <2>5. s[r + 1] = i
    BY <1>3, <1>6, <2>1, <2>2, <2>4
  <2> QED BY <2>2, <2>5
<1>9. S # {} => n # 0
  <2>1. \A i \in S: n # 0
    BY <1>8
  <2> QED BY <2>1
<1>10. n # 0 => s # <<>>
  BY <1>7
<1> QED BY <1>1, <1>4, <1>5, <1>7, <1>8, <1>9, <1>10

-----------------------------------------------------------------------------
(* The loop *)

LEMMA SeqOfMore ==
  ASSUME NEW S, NEW T, S \subseteq T, NEW q \in Seq(S)
  PROVE  q \in Seq(T)
OBVIOUS

LEMMA LoopStarts ==
  ASSUME NEW s, LoopOK(s), ValidRows(s.rows) # {}, NEW t, t.rows = s.rows, t.batch = s.rows,
         t.todo = InOrder(ValidRows(s.rows)), t.importing = TRUE
  PROVE  LoopOK(t)
<1>1. PICK n \in Nat: s.rows = [i \in 1..n |-> s.rows[i]]
  BY DEF LoopOK
<1>2. PICK S: S = ValidRows(s.rows)
  OBVIOUS
<1>3. S \subseteq 1..n /\ S \subseteq DOMAIN s.rows /\ S \subseteq Nat /\ \A i \in DOMAIN s.rows: s.rows[i].st = "valid" => i \in S
  BY <1>1, <1>2 DEF ValidRows
<1>4. IsFiniteSet(S)
  <2>1. IsFiniteSet(1..n)
    BY FS_Interval
  <2> QED BY <1>3, <2>1, FS_Subset
<1>5. InOrder(S) \in Seq(S) /\ InOrder(S) # <<>> /\ \A i \in S: \E k \in 1..Len(InOrder(S)): InOrder(S)[k] = i
  <2>1. S # {} /\ S \subseteq Nat
    BY <1>2, <1>3
  <2> QED BY <1>4, <2>1, Ordered
<1>6. PICK q: q = InOrder(S)
  OBVIOUS
<1>7. q \in Seq(DOMAIN s.rows)
  BY <1>3, <1>5, <1>6, SeqOfMore
<1>8. \A i \in DOMAIN s.rows: s.rows[i].st = "valid" => \E k \in 1..Len(q): q[k] = i
  BY <1>3, <1>5, <1>6
<1>9. t.todo = q /\ q # <<>>
  BY <1>2, <1>5, <1>6
<1>10. (\E k \in Nat: t.rows = [i \in 1..k |-> t.rows[i]]) /\ (\E k \in Nat: t.batch = [i \in 1..k |-> t.batch[i]])
  BY <1>1
<1>11. t.todo \in Seq(DOMAIN t.batch) /\ t.importing \in BOOLEAN /\ (t.importing <=> t.todo # <<>>) /\ t.rows = t.batch
  BY <1>7, <1>9
<1>12. \A i \in DOMAIN t.batch: t.batch[i].st = "valid" => t.batch[i].did \/ \E k \in 1..Len(t.todo): t.todo[k] = i
  BY <1>8, <1>9
<1> QED BY <1>10, <1>11, <1>12 DEF LoopOK

LEMMA LoopShows ==
  ASSUME NEW s, LoopOK(s), NEW t, \E n \in Nat: t.rows = [i \in 1..n |-> t.rows[i]], 
         t.same = ~s.importing, t.done = FALSE, t.batch = s.batch, t.todo = s.todo, t.importing = s.importing
  PROVE  LoopOK(t)
<1>1. /\ \E n \in Nat: t.batch = [i \in 1..n |-> t.batch[i]]
      /\ t.todo \in Seq(DOMAIN t.batch)
  BY DEF LoopOK
<1>2. t.importing \in BOOLEAN /\ (t.importing <=> t.todo # <<>>)
  BY DEF LoopOK
<1>3. \A i \in DOMAIN t.batch: t.batch[i].st = "valid" => t.batch[i].did \/ \E k \in 1..Len(t.todo): t.todo[k] = i
  BY DEF LoopOK
<1> QED BY <1>1, <1>2, <1>3 DEF LoopOK

LEMMA LoopSame ==
  ASSUME NEW s, LoopOK(s), NEW t, t.rows = s.rows, t.batch = s.batch, t.same = s.same, t.todo = s.todo, t.importing = s.importing,
         t.done = s.done
  PROVE  LoopOK(t)
<1>1. (\E n \in Nat: t.rows = [i \in 1..n |-> t.rows[i]]) /\ (\E n \in Nat: t.batch = [i \in 1..n |-> t.batch[i]])
  BY DEF LoopOK
<1>2. t.todo \in Seq(DOMAIN t.batch)
  BY DEF LoopOK
<1>3. t.importing \in BOOLEAN /\ (t.importing <=> t.todo # <<>>)
  BY DEF LoopOK
<1>4. t.same => t.rows = t.batch \/ (~t.importing /\ ~t.done)
  BY DEF LoopOK
<1>5. \A i \in DOMAIN t.batch: t.batch[i].st = "valid" => t.batch[i].did \/ \E k \in 1..Len(t.todo): t.todo[k] = i
  BY DEF LoopOK
<1> QED BY <1>1, <1>2, <1>3, <1>4, <1>5 DEF LoopOK

LEMMA TailOf ==
  ASSUME NEW D, NEW q \in Seq(D), q # <<>>
  PROVE  /\ Head(q) \in D /\ Tail(q) \in Seq(D) /\ Head(q) = q[1] /\ Len(q) \in Nat \ {0}
         /\ Len(Tail(q)) = Len(q) - 1 /\ \A k \in 1..(Len(q) - 1): Tail(q)[k] = q[k + 1]
OBVIOUS

LEMMA LoopGoesOn ==
  ASSUME NEW s, LoopOK(s), s.todo # <<>>, NEW t,
         t.batch = [j \in DOMAIN s.batch |-> t.batch[j]],
         \A j \in DOMAIN s.batch \ {Head(s.todo)}: t.batch[j] = s.batch[j],
         t.batch[Head(s.todo)].st = "valid" => t.batch[Head(s.todo)].did,
         t.rows = IF s.same THEN t.batch ELSE s.rows, t.same = s.same,
         t.todo = Tail(s.todo), t.importing = (Tail(s.todo) # <<>>)
  PROVE  LoopOK(t)
<1>1. PICK n \in Nat: s.batch = [i \in 1..n |-> s.batch[i]]
  BY DEF LoopOK
<1>2. DOMAIN s.batch = 1..n /\ DOMAIN t.batch = 1..n /\ t.batch = [j \in 1..n |-> t.batch[j]]
  BY <1>1
<1>3. s.todo \in Seq(DOMAIN s.batch)
  BY DEF LoopOK
<1>4. PICK q, h, l: q = s.todo /\ h = Head(q) /\ l = Tail(q)
  OBVIOUS
<1>5. /\ h \in 1..n /\ l \in Seq(1..n) /\ h = q[1] /\ Len(q) \in Nat \ {0} /\ Len(l) = Len(q) - 1
      /\ \A k \in 1..(Len(q) - 1): l[k] = q[k + 1]
  <2>1. q \in Seq(1..n) /\ q # <<>>
    BY <1>2, <1>3, <1>4
  <2>2. PICK D: D = 1..n
    OBVIOUS
  <2>3. q \in Seq(D)
    BY <2>1, <2>2
  <2>4. /\ Head(q) \in D /\ Tail(q) \in Seq(D) /\ Head(q) = q[1] /\ Len(q) \in Nat \ {0}
        /\ Len(Tail(q)) = Len(q) - 1 /\ \A k \in 1..(Len(q) - 1): Tail(q)[k] = q[k + 1]
    BY <2>1, <2>3, TailOf
  <2> QED BY <1>4, <2>2, <2>4
<1>6. \E k \in Nat: t.rows = [i \in 1..k |-> t.rows[i]]
  <2>1. CASE s.same
    BY <1>2, <2>1
  <2>2. CASE ~s.same
    <3>1. t.rows = s.rows
      BY <2>2
    <3> QED BY <3>1 DEF LoopOK
  <2> QED BY <2>1, <2>2
<1>7. ASSUME NEW i \in 1..n, t.batch[i].st = "valid"
      PROVE  t.batch[i].did \/ \E k \in 1..Len(l): l[k] = i
  <2>1. CASE i = h
    BY <1>4, <1>7, <2>1
  <2>2. CASE i # h
    <3>1. t.batch[i] = s.batch[i]
      BY <1>2, <1>4, <2>2
    <3>2. s.batch[i].did \/ \E k \in 1..Len(q): q[k] = i
      BY <1>2, <1>4, <1>7, <3>1 DEF LoopOK
    <3>3. ASSUME NEW k \in 1..Len(q), q[k] = i
          PROVE  \E o \in 1..Len(l): l[o] = i
      <4>1. k # 1
        BY <1>5, <2>2, <3>3
      <4>2. k - 1 \in 1..Len(l) /\ (k - 1) + 1 = k
        BY <1>5, <4>1
      <4>3. l[k - 1] = i
        BY <1>5, <3>3, <4>2
      <4> QED BY <4>2, <4>3
    <3> QED BY <3>1, <3>2, <3>3
  <2> QED BY <2>1, <2>2
<1>8. t.same => t.rows = t.batch
  OBVIOUS
<1>9. t.importing \in BOOLEAN /\ (t.importing <=> t.todo # <<>>)
  OBVIOUS
<1>10. t.todo \in Seq(DOMAIN t.batch)
  BY <1>2, <1>4, <1>5
<1>11. \A i \in DOMAIN t.batch: t.batch[i].st = "valid" => t.batch[i].did \/ \E k \in 1..Len(t.todo): t.todo[k] = i
  <2>1. DOMAIN t.batch = 1..n /\ t.todo = l
    BY <1>2, <1>4
  <2> QED BY <1>7, <2>1
<1> QED BY <1>2, <1>6, <1>8, <1>9, <1>10, <1>11 DEF LoopOK

-----------------------------------------------------------------------------
(* The call of the loop *)

LEMMA CallReplied ==
  ASSUME NEW N, NEW go, OneCall(N, go), NEW m \in N, NEW a, a.ctx = m.ctx
  PROVE  OneCall((N \ {m}) \cup {a}, go)
<1>1. PICK M: M = (N \ {m}) \cup {a}
  OBVIOUS
<1>2. CASE m.ctx = "row"
  <2>1. RowCalls(N) = {m} /\ go
    BY <1>2 DEF OneCall, RowCalls
  <2>2. RowCalls(M) = {a} /\ a \in M
    BY <1>1, <1>2, <2>1 DEF RowCalls
  <2> QED BY <1>1, <2>1, <2>2 DEF OneCall
<1>3. CASE m.ctx # "row"
  <2>1. RowCalls(M) = RowCalls(N) /\ \A x \in RowCalls(N): x \in M
    BY <1>1, <1>3 DEF RowCalls
  <2> QED BY <1>1, <2>1 DEF OneCall, RowCalls
<1> QED BY <1>2, <1>3

LEMMA CallSent ==
  ASSUME NEW N, OneCall(N, FALSE), NEW a, a.ctx = "row"
  PROVE  OneCall(N \cup {a}, TRUE)
<1>1. RowCalls(N \cup {a}) = {a}
  BY DEF OneCall, RowCalls
<1> QED BY <1>1 DEF OneCall

LEMMA CallLanded ==
  ASSUME NEW N, NEW go, OneCall(N, go), NEW m \in N, m.ctx = "row"
  PROVE  go /\ OneCall(N \ {m}, FALSE)
<1>1. RowCalls(N) = {m} /\ go
  BY DEF OneCall, RowCalls
<1>2. RowCalls(N \ {m}) = {}
  BY <1>1 DEF RowCalls
<1> QED BY <1>1, <1>2 DEF OneCall

LEMMA CallApart ==
  ASSUME NEW N, NEW M, NEW go, OneCall(N, go), RowCalls(M) = RowCalls(N)
  PROVE  OneCall(M, go)
BY DEF OneCall, RowCalls

LEMMA FilesKept ==
  ASSUME NEW L, FilesOK(L), bound' = bound \/ \E f \in {"turns", "foreign"}: Spent(f)
  PROVE  FilesOK(L)'
<1>1. CASE bound' = bound
  BY <1>1 DEF FilesOK
<1>2. ASSUME NEW f \in {"turns", "foreign"}, Spent(f)
      PROVE  FilesOK(L)'
  <2>1. PICK a, b, F: bound = [foreign |-> a, turns |-> b, files |-> F]
    BY DEF FilesOK
  <2>2. \E c, d: bound' = [foreign |-> c, turns |-> d, files |-> F]
    BY <1>2, <2>1 DEF Spent
  <2> QED BY <2>1, <2>2 DEF FilesOK
<1> QED BY <1>1, <1>2

-----------------------------------------------------------------------------
(* The steps of the table of racks *)

LEMMA RackRowsRead ==
  ASSUME NEW f \in Seq(Racks!Line)
  PROVE  /\ \E n \in Nat: Racks!Validated(f) = [i \in 1..n |-> Racks!Validated(f)[i]]
         /\ \A i \in DOMAIN Racks!Validated(f): RackRow(Racks!Validated(f)[i])
<1>1. PICK S: S = {i \in DOMAIN f: f[i].room # 0 \/ f[i].code # 0 \/ f[i].name # "blank" \/ f[i].cells # "blank"}
  OBVIOUS
<1>2. S \subseteq 1..Len(f) /\ S \subseteq Nat /\ IsFiniteSet(1..Len(f))
  <2>1. Len(f) \in Nat /\ DOMAIN f = 1..Len(f)
    OBVIOUS
  <2>2. S \subseteq DOMAIN f
    BY <1>1
  <2>3. IsFiniteSet(1..Len(f))
    BY <2>1, FS_Interval
  <2> QED BY <2>1, <2>2, <2>3
<1>3. IsFiniteSet(S)
  BY <1>2, FS_Subset
<1>4. PICK n \in Nat: DOMAIN InOrder(S) = 1..n
  BY <1>2, <1>3, Ordered
<1>5. Racks!InOrder(S) = InOrder(S)
  BY DEF Racks!InOrder, InOrder, Racks!Cardinality, Cardinality
<1>6. PICK q: q = Racks!InOrder(S)
  OBVIOUS
<1>7. Racks!DataRows(f) = [k \in DOMAIN q |-> f[q[k]]]
  BY <1>1, <1>6, Zenon DEF Racks!DataRows
<1>8. PICK rows: rows = Racks!DataRows(f) /\ DOMAIN rows = 1..n
  BY <1>4, <1>5, <1>6, <1>7
<1>9. PICK V: V = [i \in DOMAIN rows |->
    [st |-> IF Racks!RoomChecks(rows[i]) /\ Racks!CellChecks(rows[i]) /\ Racks!CodeChecks(rows, i) THEN "valid" ELSE "rejected",
     room |-> rows[i].room, code |-> rows[i].code, did |-> FALSE]]
  OBVIOUS
<1>10. Racks!Validated(f) = V
  BY <1>8, <1>9, Zenon DEF Racks!Validated
<1>11. \A i \in DOMAIN V: RackRow(V[i])
  BY <1>9 DEF RackRow, StatusOK
<1>12. V = [i \in 1..n |-> V[i]]
  BY <1>8, <1>9
<1> QED BY <1>10, <1>11, <1>12

LEMMA RackRequested ==
  ASSUME NEW op, NEW ctx, NEW arg, op = "tree" <=> ctx = "tree"
  PROVE  RackCallOK(Racks!Request(op, ctx, arg)) /\ Racks!Request(op, ctx, arg).ctx = ctx
BY DEF RackCallOK, TypedCall, Racks!Request

LEMMA RackAnswers ==
  ASSUME NEW m, RackCallOK(m), NEW res \in {"ok", "failed", "conflict"}, NEW did \in BOOLEAN, NEW x,
         m.ctx = "row" /\ res = "ok" => did, Racks!Reply(m, res, did, x)
  PROVE  \E a: net' = (net \ {m}) \cup {a} /\ RackCallOK(a) /\ a.ctx = m.ctx
<1>1. PICK a: a = [op |-> m.op, ctx |-> m.ctx, res |-> res, did |-> did, arg |-> m.arg, body |-> x]
  OBVIOUS
<1>2. RackCallOK(a) /\ a.ctx = m.ctx
  BY <1>1 DEF TypedCall, RackCallOK
<1>3. net' = (net \ {m}) \cup {a}
  BY <1>1 DEF Racks!Reply
<1> QED BY <1>2, <1>3

LEMMA RackSends ==
  ASSUME NEW s, NEW calls, Racks!Send(s, calls)
  PROVE  dlg' = s /\ \E a: net' = calls \cup {a} /\ RackCallOK(a) /\ a.ctx = "row"
<1>1. PICK c: dlg' = s /\ net' = calls \cup {Racks!CreateRack(s.batch[Head(s.todo)], c)}
  BY DEF Racks!Send
<1>2. PICK r: r = s.batch[Head(s.todo)]
  OBVIOUS
<1>3. PICK a: a = Racks!CreateRack(r, c)
  OBVIOUS
<1>4. RackCallOK(a) /\ a.ctx = "row"
  BY <1>3, RackRequested DEF Racks!CreateRack
<1> QED BY <1>1, <1>2, <1>3, <1>4

LEMMA RackRowsMarked ==
  ASSUME NEW B, NEW n \in Nat, Listed(B, n), \A i \in 1..n: RackRow(B[i]),
         NEW h \in 1..n, NEW v \in {"valid", "failed"}, NEW y \in BOOLEAN, v = "valid" => y,
         NEW b, b = Racks!Marked(B, h, v, y)
  PROVE  /\ Listed(b, n) /\ \A i \in 1..n: RackRow(b[i])
         /\ \A i \in 1..n \ {h}: b[i] = B[i]
         /\ b[h].st = "valid" => b[h].did
<1>1. PICK a, c, d, e: B[h] = [st |-> a, room |-> c, code |-> d, did |-> e]
  BY DEF RackRow
<1>2. PICK z: z = (B[h].did \/ y)
  OBVIOUS
<1>3. z \in BOOLEAN /\ (y => z)
  BY <1>2
<1>4. PICK w, x, o: w = v /\ x = B[h] /\ o = z
  OBVIOUS
<1>5. PICK k: k = [B EXCEPT ![h].st = w]
  OBVIOUS
<1>6. PICK r: r = k[h]
  OBVIOUS
<1>7. r = [x EXCEPT !.st = w] /\ k = [i \in 1..n |-> k[i]] /\ \A i \in 1..n \ {h}: k[i] = B[i]
  BY <1>4, <1>5, <1>6 DEF Listed
<1>8. r = [st |-> w, room |-> c, code |-> d, did |-> e]
  BY <1>1, <1>4, <1>7
<1>9. b = [k EXCEPT ![h].did = o]
  BY <1>2, <1>4, <1>5 DEF Racks!Marked
<1>10. PICK q: q = b[h]
  OBVIOUS
<1>11. q = [r EXCEPT !.did = o]
  BY <1>6, <1>7, <1>9, <1>10
<1>12. q = [st |-> w, room |-> c, code |-> d, did |-> o]
  BY <1>8, <1>11
<1>13. Listed(b, n) /\ \A i \in 1..n \ {h}: b[i] = B[i]
  BY <1>7, <1>9 DEF Listed
<1>14. q = [st |-> q.st, room |-> q.room, code |-> q.code, did |-> q.did] /\ q.st = w /\ q.did = o
  BY <1>12
<1>15. RackRow(q) /\ (q.st = "valid" => q.did)
  <2>1. q.st \in {"valid", "rejected", "failed"}
    BY <1>4, <1>14
  <2>2. q.did \in BOOLEAN /\ (q.st = "valid" => q.did)
    BY <1>3, <1>4, <1>14
  <2> QED BY <1>14, <2>1, <2>2 DEF RackRow, StatusOK
<1> QED BY <1>10, <1>13, <1>15

\* The loop marks a row and goes on.
LEMMA RackMarked ==
  ASSUME NEW s, RackDialog(s), s.todo # <<>>, NEW st \in {"valid", "failed"}, NEW did \in BOOLEAN, st = "valid" => did,
         NEW t
  PROVE  t = [Racks!RowDone(s, Head(s.todo), st, did) EXCEPT !.retried = FALSE]
           => RackDialog(t) /\ t.importing = (Tail(s.todo) # <<>>)
<1>0. SUFFICES ASSUME t = [Racks!RowDone(s, Head(s.todo), st, did) EXCEPT !.retried = FALSE]
               PROVE  RackDialog(t) /\ t.importing = (Tail(s.todo) # <<>>)
  OBVIOUS
<1>1. PICK h: h = Head(s.todo)
  OBVIOUS
<1>2. PICK R, B, e, T, g, k, rk, rt: s = [kind |-> "racks", rows |-> R, batch |-> B, same |-> e, todo |-> T, importing |-> g,
          done |-> k, racks |-> rk, retried |-> rt]
  BY DEF RackDialog
<1>4. PICK n \in Nat: B = [i \in 1..n |-> B[i]]
  BY <1>2 DEF RackDialog, LoopOK
<1>5. \A i \in 1..n: RackRow(B[i])
  BY <1>2, <1>4 DEF RackDialog
<1>6. h \in 1..n
  <2>1. T \in Seq(1..n) /\ T # <<>>
    BY <1>2, <1>4 DEF RackDialog, LoopOK
  <2> QED BY <1>1, <1>2, <2>1
<1>7. PICK b: b = Racks!Marked(B, h, st, did)
  OBVIOUS
<1>8. Listed(B, n)
  BY <1>4 DEF Listed
<1>9. /\ Listed(b, n) /\ \A i \in 1..n: RackRow(b[i])
      /\ \A i \in 1..n \ {h}: b[i] = B[i]
      /\ b[h].st = "valid" => b[h].did
  BY <1>5, <1>6, <1>7, <1>8, RackRowsMarked
<1>10. b = [i \in 1..n |-> b[i]]
  BY <1>9 DEF Listed
<1>13. PICK w: w = (Tail(T) # <<>>)
  OBVIOUS
<1>14. \E o: t = [kind |-> "racks", rows |-> IF e THEN b ELSE R, batch |-> b, same |-> e, todo |-> Tail(T), importing |-> w,
                  done |-> o, racks |-> rk, retried |-> FALSE]
  <2>1. PICK o: o = Racks!Counted(s, st)
    OBVIOUS
  <2>2. PICK W: W = IF e THEN b ELSE R
    OBVIOUS
  <2>3. t = [[s EXCEPT !.batch = b, !.rows = W, !.done = o, !.todo = Tail(T), !.importing = w] EXCEPT !.retried = FALSE]
    <3>1. s.batch = B /\ s.rows = R /\ s.done = k /\ s.todo = T /\ s.same = e
      BY <1>2
    <3> QED BY <1>0, <1>1, <1>7, <1>13, <2>1, <2>2, <3>1, Zenon DEF Racks!RowDone
  <2>4. t = [kind |-> "racks", rows |-> W, batch |-> b, same |-> e, todo |-> Tail(T), importing |-> w,
                  done |-> o, racks |-> rk, retried |-> FALSE]
    BY <1>2, <2>3
  <2> QED BY <2>2, <2>4
<1>15. t.batch = b /\ t.rows = (IF e THEN b ELSE R) /\ t.same = e /\ t.todo = Tail(T) /\ t.importing = w
  BY <1>14
<1>16. LoopOK(t)
  <2>1. LoopOK(s) /\ s.todo # <<>> /\ s.batch = B /\ s.rows = R /\ s.same = e /\ s.todo = T
    BY <1>2 DEF RackDialog
  <2>2. LoopOK(s) /\ s.todo # <<>> /\ t.same = s.same /\ t.todo = Tail(s.todo) /\ t.importing = (Tail(s.todo) # <<>>)
    BY <1>13, <1>15, <2>1
  <2>3. t.batch = [x \in DOMAIN s.batch |-> t.batch[x]] /\ \A x \in DOMAIN s.batch \ {Head(s.todo)}: t.batch[x] = s.batch[x]
    BY <1>1, <1>4, <1>9, <1>10, <1>15, <2>1
  <2>4. (t.batch[Head(s.todo)].st = "valid" => t.batch[Head(s.todo)].did) /\ t.rows = (IF s.same THEN t.batch ELSE s.rows)
    BY <1>1, <1>9, <1>15, <2>1
  <2> QED BY <2>2, <2>3, <2>4, LoopGoesOn
<1>17. \A i \in DOMAIN t.rows: RackRow(t.rows[i])
  <2>1. \A i \in DOMAIN R: RackRow(R[i])
    BY <1>2 DEF RackDialog
  <2>2. DOMAIN b = 1..n
    BY <1>10
  <2> QED BY <1>9, <1>15, <2>1, <2>2
<1>18. \A i \in DOMAIN t.batch: RackRow(t.batch[i])
  BY <1>9, <1>10, <1>15
<1>19. t = [kind |-> t.kind, rows |-> t.rows, batch |-> t.batch, same |-> t.same, todo |-> t.todo, importing |-> t.importing,
            done |-> t.done, racks |-> t.racks, retried |-> t.retried] /\ t.kind = "racks"
  BY <1>14
<1> QED BY <1>2, <1>13, <1>15, <1>16, <1>17, <1>18, <1>19 DEF RackDialog

LEMMA RackSteps ==
  ASSUME RacksInv, Racks!DialogNext
  PROVE  RacksInv'
<1> USE DEF RacksInv
<1>1. FilesOK(Racks!Line)'
  <2>1. bound' = bound \/ Racks!Spent("turns") \/ Racks!Spent("foreign")
    BY DEF Racks!DialogNext, Racks!StartImport, Racks!OpenChange, Racks!OnFileChange, Racks!LandRow, Racks!LandTree, Racks!ServeTree,
           Racks!ServeCreate, Racks!Lose, Racks!Foreign, Racks!Answered, Racks!Asked
  <2>2. bound' = bound \/ Spent("turns") \/ Spent("foreign")
    BY <2>1 DEF Racks!Spent, Spent
  <2> QED BY <2>2, FilesKept
<1>2. LoopOK(dlg) /\ dlg.importing \in BOOLEAN /\ (dlg.importing <=> dlg.todo # <<>>)
  BY DEF RackDialog, LoopOK
<1>3. CASE Racks!StartImport
  <2>1. PICK S: S = InOrder(ValidRows(dlg.rows))
    OBVIOUS
  <2>2. Racks!ValidRows(dlg.rows) = ValidRows(dlg.rows) /\ Racks!InOrder(ValidRows(dlg.rows)) = InOrder(ValidRows(dlg.rows))
    BY DEF Racks!ValidRows, ValidRows, Racks!InOrder, InOrder, Racks!Cardinality, Cardinality
  <2>3. PICK y: y = TRUE
    OBVIOUS
  <2>4. PICK k, o, n: k = FALSE /\ o = dlg.done /\ n = FALSE
    OBVIOUS
  <2>5. PICK t: t = [[dlg EXCEPT !.importing = y, !.batch = dlg.rows, !.same = y, !.todo = S, !.done = k] EXCEPT !.retried = n, !.done = o]
    OBVIOUS
  <2>6. Racks!Send(t, net) /\ ~dlg.importing /\ ValidRows(dlg.rows) # {}
    BY <1>3, <2>1, <2>2, <2>3, <2>4, <2>5, Zenon DEF Racks!StartImport, Racks!StartLoop
  <2>7. PICK R, B, e, T, g, kk, rk, rt: dlg = [kind |-> "racks", rows |-> R, batch |-> B, same |-> e, todo |-> T, importing |-> g,
          done |-> kk, racks |-> rk, retried |-> rt]
    BY DEF RackDialog
  <2>8. t = [kind |-> "racks", rows |-> R, batch |-> R, same |-> y, todo |-> S, importing |-> y, done |-> o, racks |-> rk, retried |-> n]
    BY <2>5, <2>7
  <2>9. LoopOK(t)
    <3>1. t.rows = dlg.rows /\ t.batch = dlg.rows /\ t.todo = InOrder(ValidRows(dlg.rows)) /\ t.importing = TRUE
      BY <2>1, <2>3, <2>7, <2>8
    <3> QED BY <1>2, <2>6, <3>1, LoopStarts
  <2>10. RackDialog(t) /\ t.importing = TRUE
    <3>1. \A i \in DOMAIN R: RackRow(R[i])
      BY <2>7 DEF RackDialog
    <3> QED BY <2>3, <2>8, <2>9, <3>1 DEF RackDialog
  <2>11. PICK a: dlg' = t /\ net' = net \cup {a} /\ RackCallOK(a) /\ a.ctx = "row"
    BY <2>6, RackSends
  <2>12. OneCall(net', dlg'.importing)
    <3>1. OneCall(net, FALSE) /\ a.ctx = "row"
      BY <2>6, <2>11 DEF OneCall
    <3>2. OneCall(net \cup {a}, TRUE)
      BY <3>1, CallSent
    <3>3. dlg'.importing = TRUE /\ net' = net \cup {a}
      BY <2>10, <2>11
    <3> QED BY <3>2, <3>3
  <2> QED BY <1>1, <2>10, <2>11, <2>12
<1>4. CASE Racks!OpenChange \/ \E f \in bound.files: Racks!OnFileChange(f)
  <2>1. PICK V: /\ \E n \in Nat: V = [i \in 1..n |-> V[i]]
                /\ \A i \in DOMAIN V: RackRow(V[i])
                /\ dlg' = Racks!Show(dlg, V) /\ net' = net
    <3>1. CASE Racks!OpenChange
      <4>1. PICK V: V = <<>>
        OBVIOUS
      <4>2. V = [i \in 1..0 |-> V[i]] /\ DOMAIN V = {}
        BY <4>1
      <4>3. dlg' = Racks!Show(dlg, V) /\ net' = net
        BY <3>1, <4>1 DEF Racks!OpenChange
      <4> QED BY <4>2, <4>3
    <3>2. CASE \E f \in bound.files: Racks!OnFileChange(f)
      <4>1. PICK f \in bound.files: Racks!OnFileChange(f)
        BY <3>2
      <4>2. f \in Seq(Racks!Line)
        BY DEF FilesOK
      <4>3. PICK V: V = Racks!Validated(f)
        OBVIOUS
      <4>4. (\E n \in Nat: V = [i \in 1..n |-> V[i]]) /\ \A i \in DOMAIN V: RackRow(V[i])
        BY <4>2, <4>3, RackRowsRead
      <4>5. dlg' = Racks!Show(dlg, V) /\ net' = net
        BY <4>1, <4>3 DEF Racks!OnFileChange
      <4> QED BY <4>4, <4>5
    <3> QED BY <1>4, <3>1, <3>2
  <2>2. PICK n, k: n = ~dlg.importing /\ k = FALSE
    OBVIOUS
  <2>3. dlg' = [dlg EXCEPT !.rows = V, !.same = n, !.done = k]
    BY <2>1, <2>2 DEF Racks!Show
  <2>4. PICK R, B, e, T, g, kk, rk, rt: dlg = [kind |-> "racks", rows |-> R, batch |-> B, same |-> e, todo |-> T, importing |-> g,
          done |-> kk, racks |-> rk, retried |-> rt]
    BY DEF RackDialog
  <2>5. PICK t: t = dlg'
    OBVIOUS
  <2>6. t = [kind |-> "racks", rows |-> V, batch |-> B, same |-> n, todo |-> T, importing |-> g, done |-> k, racks |-> rk, retried |-> rt]
    BY <2>3, <2>4, <2>5
  <2>7. LoopOK(t)
    <3>1. t.same = ~dlg.importing /\ t.done = FALSE /\ t.rows = V /\ t.batch = dlg.batch /\ t.todo = dlg.todo /\ t.importing = dlg.importing
      BY <2>2, <2>4, <2>6
    <3>2. \E m \in Nat: t.rows = [i \in 1..m |-> t.rows[i]]
      BY <2>1, <3>1
    <3> QED BY <1>2, <3>1, <3>2, LoopShows
  <2>8. RackDialog(t) /\ t.importing = dlg.importing
    <3>1. \A i \in DOMAIN B: RackRow(B[i])
      BY <2>4 DEF RackDialog
    <3> QED BY <2>1, <2>4, <2>6, <2>7, <3>1 DEF RackDialog
  <2> QED BY <1>1, <2>1, <2>5, <2>8
<1>5. ASSUME NEW m \in net, Racks!LandRow(m)
      PROVE  RacksInv'
  <2>1. m.ctx = "row" /\ m.res # "pending" /\ RackCallOK(m)
    BY <1>5 DEF Racks!LandRow, Racks!Answered
  <2>2. dlg.importing /\ OneCall(net \ {m}, FALSE) /\ dlg.todo # <<>>
    BY <1>2, <2>1, CallLanded
  <2>3. \A x \in net \ {m}: RackCallOK(x)
    OBVIOUS
  <2>4. CASE Racks!Retries(m)
    <3>1. PICK y: y = TRUE
      OBVIOUS
    <3>2. PICK t: t = [dlg EXCEPT !.retried = y]
      OBVIOUS
    <3>3. Racks!Send(t, net \ {m})
      BY <1>5, <2>4, <3>1, <3>2 DEF Racks!LandRow
    <3>4. PICK a: dlg' = t /\ net' = (net \ {m}) \cup {a} /\ RackCallOK(a) /\ a.ctx = "row"
      BY <3>3, RackSends
    <3>5. RackDialog(t) /\ t.importing = dlg.importing
      BY <3>2 DEF RackDialog, LoopOK
    <3>6. OneCall(net', TRUE) /\ dlg'.importing = TRUE
      BY <1>2, <2>2, <3>4, <3>5, CallSent
    <3> QED BY <1>1, <2>3, <3>4, <3>5, <3>6
  <2>5. CASE ~Racks!Retries(m)
    <3>1. PICK st \in {"valid", "failed"}: st = IF m.res = "ok" THEN "valid" ELSE "failed"
      OBVIOUS
    <3>2. m.did \in BOOLEAN /\ (st = "valid" => m.did)
      BY <2>1, <3>1 DEF RackCallOK, TypedCall
    <3>3. PICK t: t = [Racks!RowDone(dlg, Head(dlg.todo), st, m.did) EXCEPT !.retried = FALSE]
      OBVIOUS
    <3>4. RackDialog(t) /\ t.importing = (Tail(dlg.todo) # <<>>)
      BY <2>2, <3>2, <3>3, RackMarked
    <3>5. IF t.importing THEN Racks!Send(t, net \ {m})
                         ELSE dlg' = t /\ net' = (net \ {m}) \cup {Racks!Request("tree", "tree", 0)}
      BY <1>5, <2>5, <3>1, <3>3, Zenon DEF Racks!LandRow
    <3>6. CASE t.importing
      <4>1. PICK a: dlg' = t /\ net' = (net \ {m}) \cup {a} /\ RackCallOK(a) /\ a.ctx = "row"
        BY <3>5, <3>6, RackSends
      <4>2. t.importing = TRUE
        BY <3>4, <3>6
      <4>3. OneCall(net', dlg'.importing)
        BY <2>2, <4>1, <4>2, CallSent
      <4> QED BY <1>1, <2>3, <3>4, <4>1, <4>3
    <3>7. CASE ~t.importing
      <4>1. PICK a: a = Racks!Request("tree", "tree", 0)
        OBVIOUS
      <4>2. dlg' = t /\ net' = (net \ {m}) \cup {a} /\ RackCallOK(a) /\ a.ctx = "tree"
        BY <3>5, <3>7, <4>1, RackRequested
      <4>3. RowCalls(net') = RowCalls(net \ {m})
        BY <4>2 DEF RowCalls
      <4>4. t.importing = FALSE
        BY <3>4, <3>7
      <4>5. OneCall(net', dlg'.importing)
        BY <2>2, <4>2, <4>3, <4>4, CallApart
      <4> QED BY <1>1, <2>3, <3>4, <4>2, <4>5
    <3> QED BY <3>6, <3>7
  <2> QED BY <2>4, <2>5
<1>6. ASSUME NEW m \in net, Racks!LandTree(m)
      PROVE  RacksInv'
  <2>1. m.ctx = "tree" /\ net' = net \ {m}
    BY <1>6 DEF Racks!LandTree, Racks!Answered
  <2>2. RowCalls(net') = RowCalls(net)
    BY <2>1 DEF RowCalls
  <2>3. PICK x: dlg' = [dlg EXCEPT !.racks = x] \/ dlg' = dlg
    BY <1>6 DEF Racks!LandTree
  <2>4. RackDialog(dlg') /\ dlg'.importing = dlg.importing
    <3>1. CASE dlg' = dlg
      BY <3>1
    <3>2. CASE dlg' = [dlg EXCEPT !.racks = x]
      <4>1. PICK R, B, e, T, g, k, rk, rt: dlg = [kind |-> "racks", rows |-> R, batch |-> B, same |-> e, todo |-> T,
              importing |-> g, done |-> k, racks |-> rk, retried |-> rt]
        BY DEF RackDialog
      <4>2. PICK t: t = dlg'
        OBVIOUS
      <4>3. t = [kind |-> "racks", rows |-> R, batch |-> B, same |-> e, todo |-> T, importing |-> g, done |-> k, racks |-> x,
                 retried |-> rt]
        BY <3>2, <4>1, <4>2
      <4>4. LoopOK(t)
        <5>1. /\ t.rows = dlg.rows /\ t.batch = dlg.batch /\ t.same = dlg.same /\ t.todo = dlg.todo
              /\ t.importing = dlg.importing /\ t.done = dlg.done
          BY <4>1, <4>3
        <5> QED BY <1>2, <5>1, LoopSame
      <4>5. \A i \in DOMAIN R: RackRow(R[i])
        BY <4>1 DEF RackDialog
      <4>6. \A i \in DOMAIN B: RackRow(B[i])
        BY <4>1 DEF RackDialog
      <4> QED BY <4>1, <4>2, <4>3, <4>4, <4>5, <4>6 DEF RackDialog
    <3> QED BY <2>3, <3>1, <3>2
  <2> QED BY <1>1, <2>1, <2>2, <2>4, CallApart
<1>7. ASSUME NEW m \in net, Racks!ServeTree(m) \/ Racks!ServeCreate(m) \/ Racks!Lose(m)
      PROVE  RacksInv'
  <2>1. dlg' = dlg /\ RackCallOK(m)
    BY <1>7 DEF Racks!ServeTree, Racks!ServeCreate, Racks!Lose, Racks!Asked
  <2>2. PICK a: net' = (net \ {m}) \cup {a} /\ RackCallOK(a) /\ a.ctx = m.ctx
    <3>1. CASE Racks!ServeTree(m)
      <4>1. m.ctx # "row"
        BY <2>1, <3>1 DEF Racks!ServeTree, Racks!Asked, RackCallOK
      <4>2. \E x: Racks!Reply(m, "ok", FALSE, x)
        BY <3>1 DEF Racks!ServeTree
      <4> QED BY <2>1, <4>1, <4>2, RackAnswers
    <3>2. CASE Racks!ServeCreate(m)
      <4>1. \/ Racks!Reply(m, "ok", TRUE, Racks!NoBody) \/ Racks!Reply(m, "failed", TRUE, Racks!NoBody)
            \/ Racks!Reply(m, "conflict", FALSE, Racks!NoBody)
        BY <3>2 DEF Racks!ServeCreate
      <4> QED BY <2>1, <4>1, RackAnswers
    <3>3. CASE Racks!Lose(m)
      BY <2>1, <3>3, RackAnswers DEF Racks!Lose
    <3> QED BY <1>7, <3>1, <3>2, <3>3
  <2>3. OneCall(net', dlg'.importing)
    BY <2>1, <2>2, CallReplied
  <2> QED BY <1>1, <2>1, <2>2, <2>3
<1>8. ASSUME NEW r \in Rack, Racks!Foreign(r)
      PROVE  RacksInv'
  BY <1>1, <1>8 DEF Racks!Foreign
<1> QED BY <1>3, <1>4, <1>5, <1>6, <1>7, <1>8 DEF Racks!DialogNext

LEMMA RacksStart ==
  ASSUME Racks!Start, FilesOK(Racks!Line)
  PROVE  RacksInv
<1>1. net = {} /\ dlg = Racks!Fresh
  BY DEF Racks!Start
<1>2. PICK y, z, u: y = TRUE /\ z = FALSE /\ u = FALSE
  OBVIOUS
<1>3. PICK e: e = <<>>
  OBVIOUS
<1>4. PICK k: dlg = [kind |-> "racks", rows |-> e, batch |-> e, same |-> y, todo |-> e, importing |-> z, done |-> z, racks |-> k, retried |-> u]
  BY <1>1, <1>2, <1>3, Zenon DEF Racks!Fresh
<1>5. e = [i \in 1..0 |-> e[i]] /\ DOMAIN e = {} /\ e \in Seq(DOMAIN e)
  BY <1>3
<1>6. LoopOK(dlg)
  BY <1>2, <1>3, <1>4, <1>5 DEF LoopOK
<1>7. RackDialog(dlg)
  BY <1>4, <1>5, <1>6 DEF RackDialog
<1>8. OneCall(net, dlg.importing)
  BY <1>1, <1>2, <1>4 DEF OneCall, RowCalls
<1> QED BY <1>1, <1>7, <1>8 DEF RacksInv

-----------------------------------------------------------------------------
(* The table of devices: a version is the content it was given *)

Later(B, C) ==
  /\ DeviceTable(C)
  /\ \A d \in Device: /\ B[d].ver =< C[d].ver
                      /\ C[d].ver = B[d].ver => C[d].code = B[d].code /\ C[d].sn = B[d].sn /\ C[d].asset = B[d].asset

LEMMA CopyLater ==
  ASSUME NEW B, DeviceTable(B), NEW C, Later(B, C), NEW c, CopyOK(c, B)
  PROVE  CopyOK(c, C)
<1>1. c.id \in Device /\ c.ver \in Nat /\ B[c.id].ver \in Nat /\ C[c.id].ver \in Nat
  BY DEF CopyOK, DeviceTable, Later
<1>2. c.ver =< C[c.id].ver
  BY <1>1 DEF CopyOK, Later
<1>3. ASSUME c.ver = C[c.id].ver
      PROVE  c.code = C[c.id].code /\ c.sn = C[c.id].sn /\ c.asset = C[c.id].asset
  <2>1. c.ver = B[c.id].ver /\ C[c.id].ver = B[c.id].ver
    BY <1>1, <1>3 DEF CopyOK, Later
  <2> QED BY <1>1, <2>1 DEF CopyOK, Later
<1> QED BY <1>1, <1>2, <1>3 DEF CopyOK

LEMMA NamedLater ==
  ASSUME NEW B, DeviceTable(B), NEW C, Later(B, C), NEW r, NamedRow(r, B)
  PROVE  NamedRow(r, C)
<1> SUFFICES ASSUME r.id # 0
             PROVE  /\ r.id \in Device /\ r.ver \in Nat /\ r.ver =< C[r.id].ver
                    /\ r.ver = C[r.id].ver => Named1(r.cells, C[r.id])
  BY DEF NamedRow
<1>1. r.id \in Device /\ r.ver \in Nat /\ B[r.id].ver \in Nat /\ C[r.id].ver \in Nat
  BY DEF NamedRow, DeviceTable, Later
<1>2. r.ver =< C[r.id].ver
  BY <1>1 DEF NamedRow, Later
<1>3. ASSUME r.ver = C[r.id].ver
      PROVE  Named1(r.cells, C[r.id])
  <2>1. r.ver = B[r.id].ver /\ C[r.id].ver = B[r.id].ver
    BY <1>1, <1>3 DEF NamedRow, Later
  <2>2. Named1(r.cells, B[r.id])
    BY <2>1 DEF NamedRow
  <2>3. C[r.id].code = B[r.id].code /\ C[r.id].sn = B[r.id].sn /\ C[r.id].asset = B[r.id].asset
    BY <1>1, <2>1 DEF Later
  <2> QED BY <2>2, <2>3 DEF Named1
<1> QED BY <1>1, <1>2, <1>3

LEMMA CallLater ==
  ASSUME NEW B, DeviceTable(B), NEW C, Later(B, C), NEW m, DeviceCallOK(m, B)
  PROVE  DeviceCallOK(m, C)
<1>1. m.ctx = "library" => \A c \in m.body.items: CopyOK(c, C)
  BY CopyLater DEF DeviceCallOK
<1>2. m.op = "update" /\ m.res = "pending" => m.arg.id # 0 /\ NamedRow(m.arg, C)
  BY NamedLater DEF DeviceCallOK
<1> QED BY <1>1, <1>2 DEF DeviceCallOK

LEMMA DialogLater ==
  ASSUME NEW B, DeviceTable(B), NEW C, Later(B, C), NEW s, DeviceDialog(s, B)
  PROVE  DeviceDialog(s, C)
<1>1. ASSUME NEW r, DeviceRow(r, B)
      PROVE  DeviceRow(r, C)
  BY <1>1, NamedLater DEF DeviceRow
<1>2. \A i \in DOMAIN s.rows: DeviceRow(s.rows[i], C)
  BY <1>1 DEF DeviceDialog
<1>3. \A i \in DOMAIN s.batch: DeviceRow(s.batch[i], C)
  BY <1>1 DEF DeviceDialog
<1>4. \A x \in s.lib: CopyOK(x.copy, C)
  BY CopyLater DEF DeviceDialog
<1> QED BY <1>2, <1>3, <1>4 DEF DeviceDialog

\* One device gets the next version.
LEMMA Rewritten ==
  ASSUME DeviceTable(db), NEW d \in Device, NEW v \in Nat, db[d].ver < v, NEW p, Devices!Stored(d, p, v)
  PROVE  Later(db, db')
<1>1. PICK x: x = [live |-> TRUE, ver |-> v, code |-> p.code, sn |-> p.sn, asset |-> p.asset]
  OBVIOUS
<1>2. db = [e \in Device |-> db[e]] /\ \A e \in Device: db[e].ver \in Nat
  BY DEF DeviceTable
<1>3. db' = [db EXCEPT ![d] = x]
  BY <1>1, Zenon DEF Devices!Stored
<1>4. db' = [e \in Device |-> db'[e]] /\ db'[d] = x /\ \A e \in Device \ {d}: db'[e] = db[e]
  BY <1>2, <1>3
<1>5. x = [live |-> x.live, ver |-> x.ver, code |-> x.code, sn |-> x.sn, asset |-> x.asset] /\ x.ver = v
  BY <1>1
<1>6. \A e \in Device: db[e] = [live |-> db[e].live, ver |-> db[e].ver, code |-> db[e].code, sn |-> db[e].sn, asset |-> db[e].asset]
  BY DEF DeviceTable
<1>7. DeviceTable(db')
  <2>1. \A e \in Device: db'[e] = [live |-> db'[e].live, ver |-> db'[e].ver, code |-> db'[e].code, sn |-> db'[e].sn,
                                   asset |-> db'[e].asset]
    BY <1>4, <1>5, <1>6
  <2>2. \A e \in Device: db'[e].ver \in Nat
    BY <1>2, <1>4, <1>5
  <2> QED BY <1>4, <2>1, <2>2 DEF DeviceTable
<1>8. \A e \in Device: /\ db[e].ver =< db'[e].ver
                       /\ db'[e].ver = db[e].ver => db'[e].code = db[e].code /\ db'[e].sn = db[e].sn /\ db'[e].asset = db[e].asset
  <2>1. \A e \in Device \ {d}: /\ db[e].ver =< db'[e].ver /\ db'[e].code = db[e].code /\ db'[e].sn = db[e].sn
                               /\ db'[e].asset = db[e].asset
    BY <1>2, <1>4
  <2>2. db[d].ver =< db'[d].ver /\ db'[d].ver # db[d].ver
    BY <1>2, <1>4, <1>5
  <2> QED BY <2>1, <2>2
<1> QED BY <1>7, <1>8 DEF Later

\* Another user's write.
LEMMA WrittenByOthers ==
  ASSUME DeviceTable(db), NEW d \in Device, Devices!Foreign(d)
  PROVE  Later(db, db')
<1>1. db = [e \in Device |-> db[e]] /\ \A e \in Device: db[e].ver \in Nat
  BY DEF DeviceTable
<1>2. \A e \in Device: db[e] = [live |-> db[e].live, ver |-> db[e].ver, code |-> db[e].code, sn |-> db[e].sn, asset |-> db[e].asset]
  BY DEF DeviceTable
<1>3. PICK old: old = db[d]
  OBVIOUS
<1>4. PICK l, v, c, s, a: old = [live |-> l, ver |-> v, code |-> c, sn |-> s, asset |-> a]
  BY <1>2, <1>3
<1>5. v \in Nat
  BY <1>1, <1>4, <1>3
<1>6. PICK x: /\ db' = [db EXCEPT ![d] = x]
              /\ x = [live |-> x.live, ver |-> x.ver, code |-> x.code, sn |-> x.sn, asset |-> x.asset]
              /\ x.ver \in Nat /\ v =< x.ver /\ (x.ver = v => x.code = c /\ x.sn = s /\ x.asset = a)
  <2>1. CASE db' = [db EXCEPT ![d].live = FALSE]
    <3>1. PICK x: x = [old EXCEPT !.live = FALSE]
      OBVIOUS
    <3>2. PICK f: f = FALSE
      OBVIOUS
    <3>5. x = [old EXCEPT !.live = f]
      BY <3>1, <3>2
    <3>3. x = [live |-> f, ver |-> v, code |-> c, sn |-> s, asset |-> a]
      BY <1>4, <3>5
    <3>4. db' = [db EXCEPT ![d] = x]
      BY <1>3, <2>1, <3>1
    <3>6. /\ x = [live |-> x.live, ver |-> x.ver, code |-> x.code, sn |-> x.sn, asset |-> x.asset]
          /\ x.ver = v /\ x.code = c /\ x.sn = s /\ x.asset = a
      BY <3>3
    <3>7. x.ver \in Nat /\ v =< x.ver
      BY <1>5, <3>6
    <3> QED BY <3>4, <3>6, <3>7
  <2>2. ASSUME NEW k \in {"sn", "code"}, NEW w \in Spare, db' = [db EXCEPT ![d][k] = w, ![d].ver = @ + 1]
        PROVE  \E x: /\ db' = [db EXCEPT ![d] = x]
                     /\ x = [live |-> x.live, ver |-> x.ver, code |-> x.code, sn |-> x.sn, asset |-> x.asset]
                     /\ x.ver \in Nat /\ v =< x.ver /\ (x.ver = v => x.code = c /\ x.sn = s /\ x.asset = a)
    <3>1. PICK x: x = db'[d]
      OBVIOUS
    <3>2. PICK B: B = [db EXCEPT ![d][k] = w]
      OBVIOUS
    <3>3. db' = [B EXCEPT ![d].ver = @ + 1]
      BY <2>2, <3>2
    <3>4. B = [e \in Device |-> B[e]] /\ \A e \in Device \ {d}: B[e] = db[e]
      BY <1>1, <3>2
    <3>5. PICK z: z = B[d]
      OBVIOUS
    <3>6. z = [old EXCEPT ![k] = w]
      BY <1>1, <1>3, <3>2, <3>5
    <3>7. \E q, u: z = [live |-> l, ver |-> v, code |-> q, sn |-> u, asset |-> a]
      <4>1. CASE k = "sn"
        <5>1. z = [live |-> l, ver |-> v, code |-> c, sn |-> w, asset |-> a]
          BY <1>4, <3>6, <4>1
        <5> QED BY <5>1
      <4>2. CASE k = "code"
        <5>1. z = [live |-> l, ver |-> v, code |-> w, sn |-> s, asset |-> a]
          BY <1>4, <3>6, <4>2
        <5> QED BY <5>1
      <4> QED BY <2>2, <4>1, <4>2
    <3>8. PICK q, u: z = [live |-> l, ver |-> v, code |-> q, sn |-> u, asset |-> a]
      BY <3>7
    <3>9. x = [z EXCEPT !.ver = z.ver + 1]
      BY <3>1, <3>3, <3>4, <3>5
    <3>10. x = [live |-> l, ver |-> v + 1, code |-> q, sn |-> u, asset |-> a]
      BY <3>8, <3>9
    <3>11. db' = [db EXCEPT ![d] = x]
      <4>1. db' = [e \in Device |-> db'[e]] /\ \A e \in Device \ {d}: db'[e] = db[e]
        BY <3>3, <3>4
      <4> QED BY <1>1, <3>1, <4>1
    <3>12. x.ver = v + 1
      BY <3>10
    <3>13. x.ver \in Nat /\ v =< x.ver /\ x.ver # v
      BY <1>5, <3>12
    <3> QED BY <3>10, <3>11, <3>13
  <2> QED BY <2>1, <2>2 DEF Devices!Foreign
<1>7. db' = [e \in Device |-> db'[e]] /\ db'[d] = x /\ \A e \in Device \ {d}: db'[e] = db[e]
  BY <1>1, <1>6
<1>8. DeviceTable(db')
  <2>1. \A e \in Device: db'[e] = [live |-> db'[e].live, ver |-> db'[e].ver, code |-> db'[e].code, sn |-> db'[e].sn,
                                   asset |-> db'[e].asset]
    BY <1>6, <1>7, <1>2
  <2>2. \A e \in Device: db'[e].ver \in Nat
    BY <1>1, <1>6, <1>7
  <2> QED BY <1>7, <2>1, <2>2 DEF DeviceTable
<1>9. \A e \in Device: /\ db[e].ver =< db'[e].ver
                       /\ db'[e].ver = db[e].ver => db'[e].code = db[e].code /\ db'[e].sn = db[e].sn /\ db'[e].asset = db[e].asset
  <2>1. \A e \in Device \ {d}: /\ db[e].ver =< db'[e].ver /\ db'[e].code = db[e].code /\ db'[e].sn = db[e].sn
                               /\ db'[e].asset = db[e].asset
    BY <1>1, <1>7
  <2>2. db[d].ver = v /\ db[d].code = c /\ db[d].sn = s /\ db[d].asset = a
    BY <1>4, <1>3
  <2>3. /\ db[d].ver =< db'[d].ver
        /\ db'[d].ver = db[d].ver => db'[d].code = db[d].code /\ db'[d].sn = db[d].sn /\ db'[d].asset = db[d].asset
    BY <1>6, <1>7, <2>2
  <2> QED BY <2>1, <2>3
<1> QED BY <1>8, <1>9 DEF Later

-----------------------------------------------------------------------------
(* The steps of the table of devices *)

\* A row that names a device is matched to a copy that has what the row gives.
LEMMA Matched ==
  ASSUME NEW lib, \A x \in lib: CopyOK(x.copy, db), NEW r, NEW c, c = Devices!MatchExistingDevice(lib, r).dev, c.id # 0
  PROVE  CopyOK(c, db) /\ Named1(r, c)
<1> DEFINE P == Devices!By(lib, "code", r.code)
           S == Devices!By(lib, "sn", r.sn)
           A == Devices!By(lib, "asset", r.asset)
           o == {x.copy.id: x \in S \cup A}
           p == (CHOOSE x \in P: TRUE).copy
           q == (CHOOSE x \in (IF S # {} THEN S ELSE A): TRUE).copy
<1>2. /\ \A x \in P: x \in lib /\ r.code # 0 /\ x.copy.code = r.code
      /\ \A x \in S: x \in lib /\ r.sn # 0 /\ x.copy.sn = r.sn
      /\ \A x \in A: x \in lib /\ r.asset # 0 /\ x.copy.asset = r.asset
  BY DEF Devices!By
<1>5. Devices!Nobody.id = 0
  BY DEF Devices!Nobody
<1>6. \/ P # {} /\ c = p
      \/ P = {} /\ o # {} /\ r.code = 0 /\ c = q
  <2> DEFINE M == CASE \E X \in {P, S, A}: Devices!Cardinality(X) > 1 -> Devices!Refused
                    [] P # {} -> IF o \subseteq {p.id} THEN Devices!Match(p) ELSE Devices!Refused
                    [] P = {} /\ o # {} -> IF r.code # 0 \/ Devices!Cardinality(o) > 1 THEN Devices!Refused ELSE Devices!Match(q)
                    [] OTHER -> Devices!Match(Devices!Nobody)
  <2>4. Devices!MatchExistingDevice(lib, r) = M
    BY DEF Devices!MatchExistingDevice
  <2>5. Devices!Refused.dev = Devices!Nobody /\ \A x: Devices!Match(x).dev = x
    BY DEF Devices!Refused, Devices!Match
  <2> HIDE DEF P, S, A, o, p, q
  <2> QED BY <1>5, <2>4, <2>5
<1>7. CASE P # {} /\ c = p
  <2>1. PICK x: x = (CHOOSE y \in P: TRUE)
    OBVIOUS
  <2>2. x \in P /\ c = x.copy
    BY <1>7, <2>1
  <2> QED BY <1>2, <2>2 DEF Named1
<1>8. CASE o # {} /\ r.code = 0 /\ c = q
  <2>1. PICK W: W = IF S # {} THEN S ELSE A
    OBVIOUS
  <2>2. PICK x: x = (CHOOSE y \in W: TRUE)
    OBVIOUS
  <2>3. W # {}
    BY <1>8, <2>1
  <2>4. x \in W /\ c = x.copy
    BY <1>8, <2>1, <2>2, <2>3
  <2>5. x \in S \/ x \in A
    BY <2>1, <2>4
  <2> QED BY <1>2, <1>8, <2>4, <2>5 DEF Named1
<1> QED BY <1>6, <1>7, <1>8

LEMMA RowBuilt ==
  ASSUME NEW lib, \A x \in lib: CopyOK(x.copy, db), NEW l
  PROVE  DeviceRow(Devices!BuildRow(lib, l), db)
<1>1. PICK c: c = Devices!MatchExistingDevice(lib, l).dev
  OBVIOUS
<1>2. PICK st: st = IF Devices!MatchExistingDevice(lib, l).refused \/ ~Devices!RowChecks(l, c.id = 0) THEN "rejected" ELSE "valid"
  OBVIOUS
<1>3. PICK p: p = Devices!Payload(l, c)
  OBVIOUS
<1>4. PICK r: r = Devices!BuildRow(lib, l)
  OBVIOUS
<1>5. PICK n: n = FALSE
  OBVIOUS
<1>6. r = [st |-> st, id |-> c.id, ver |-> c.ver, payload |-> p, cells |-> l, did |-> n]
  BY <1>1, <1>2, <1>3, <1>4, <1>5, Zenon DEF Devices!BuildRow
<1>7. st \in {"rejected", "valid"} /\ n \in BOOLEAN
  BY <1>2, <1>5
<1>8. ASSUME c.id # 0
      PROVE  /\ c.id \in Device /\ c.ver \in Nat /\ c.ver =< db[c.id].ver
             /\ c.ver = db[c.id].ver => Named1(l, db[c.id])
  <2>1. CopyOK(c, db) /\ Named1(l, c)
    BY <1>1, <1>8, Matched
  <2> QED BY <2>1 DEF CopyOK, Named1
<1>9. NamedRow(r, db)
  <2>1. r.id = c.id /\ r.ver = c.ver /\ r.cells = l
    BY <1>6
  <2> QED BY <1>8, <2>1 DEF NamedRow
<1>10. /\ r = [st |-> r.st, id |-> r.id, ver |-> r.ver, payload |-> r.payload, cells |-> r.cells, did |-> r.did]
       /\ r.st = st /\ r.did = n
  BY <1>6
<1> QED BY <1>4, <1>7, <1>9, <1>10 DEF DeviceRow, StatusOK

LEMMA DeviceRowsRead ==
  ASSUME NEW lib, \A x \in lib: CopyOK(x.copy, db), NEW f \in Seq(Devices!Line), NEW V, V = Devices!ValidateImportRows(lib, f)
  PROVE  /\ \E n \in Nat: V = [i \in 1..n |-> V[i]]
         /\ \A i \in DOMAIN V: DeviceRow(V[i], db)
<1>1. PICK n \in Nat: DOMAIN f = 1..n
  OBVIOUS
<1>2. PICK R: R = [i \in 1..n |-> Devices!BuildRow(lib, f[i])]
  OBVIOUS
<1>3. V = [i \in 1..n |-> IF Devices!SameIdentifier(f, i) \/ Devices!SameDevice(R, i)
                          THEN [R[i] EXCEPT !.st = "rejected"] ELSE R[i]]
  BY <1>1, <1>2, Zenon DEF Devices!ValidateImportRows
<1>4. ASSUME NEW i \in 1..n
      PROVE  DeviceRow(V[i], db)
  <2>1. PICK r: r = R[i]
    OBVIOUS
  <2>2. r = Devices!BuildRow(lib, f[i])
    BY <1>2, <2>1
  <2>3. DeviceRow(r, db)
    BY <2>2, RowBuilt
  <2>4. PICK q: q = V[i]
    OBVIOUS
  <2>5. q = [r EXCEPT !.st = "rejected"] \/ q = r
    BY <1>3, <2>1, <2>4
  <2>6. CASE q = [r EXCEPT !.st = "rejected"]
    <3>1. PICK a, b, c, d, e, g: r = [st |-> a, id |-> b, ver |-> c, payload |-> d, cells |-> e, did |-> g]
      BY <2>3 DEF DeviceRow
    <3>2. q = [st |-> "rejected", id |-> b, ver |-> c, payload |-> d, cells |-> e, did |-> g]
      BY <2>6, <3>1
    <3>3. /\ q = [st |-> q.st, id |-> q.id, ver |-> q.ver, payload |-> q.payload, cells |-> q.cells, did |-> q.did]
          /\ q.st = "rejected" /\ q.did = r.did /\ q.id = r.id /\ q.ver = r.ver /\ q.cells = r.cells
      BY <3>1, <3>2
    <3>4. NamedRow(q, db)
      BY <2>3, <3>3 DEF DeviceRow, NamedRow
    <3>5. StatusOK(q)
      BY <2>3, <3>3 DEF DeviceRow, StatusOK
    <3> QED BY <2>4, <3>3, <3>4, <3>5 DEF DeviceRow
  <2> QED BY <2>3, <2>4, <2>5, <2>6
<1>5. V = [i \in 1..n |-> V[i]]
  BY <1>3
<1> QED BY <1>4, <1>5

\* The row that is submitted is a row of the batch.
LEMMA DeviceSubmitted ==
  ASSUME NEW s, DeviceDialog(s, db), s.todo # <<>>
  PROVE  DeviceCallOK(Devices!SubmitRow(s), db) /\ Devices!SubmitRow(s).ctx = "row"
<1>1. PICK h: h = Head(s.todo)
  OBVIOUS
<1>2. h \in DOMAIN s.batch
  <2>1. PICK D: D = DOMAIN s.batch
    OBVIOUS
  <2>2. s.todo \in Seq(D)
    BY <2>1 DEF DeviceDialog, LoopOK
  <2> QED BY <1>1, <2>1, <2>2, TailOf
<1>3. PICK r: r = s.batch[h]
  OBVIOUS
<1>4. NamedRow(r, db)
  BY <1>2, <1>3 DEF DeviceDialog, DeviceRow
<1>5. PICK op: op = IF r.id = 0 THEN "create" ELSE "update"
  OBVIOUS
<1>6. PICK arg: arg = [id |-> r.id, ver |-> r.ver, payload |-> r.payload, cells |-> r.cells]
  OBVIOUS
<1>7. PICK a: a = Devices!SubmitRow(s)
  OBVIOUS
<1>8. a = [op |-> op, ctx |-> "row", res |-> "pending", did |-> FALSE, arg |-> arg, body |-> Devices!NoBody]
  BY <1>1, <1>3, <1>5, <1>6, <1>7 DEF Devices!SubmitRow, Devices!Request
<1>9. TypedCall(a) /\ a.ctx = "row" /\ a.op = op /\ a.arg = arg /\ a.res = "pending"
  BY <1>8 DEF TypedCall
<1>10. op = "update" => arg.id # 0 /\ NamedRow(arg, db)
  BY <1>4, <1>5, <1>6 DEF NamedRow
<1>11. op # "page"
  BY <1>5
<1> QED BY <1>7, <1>9, <1>10, <1>11 DEF DeviceCallOK

LEMMA PageFetched ==
  ASSUME NEW p
  PROVE  DeviceCallOK(Devices!FetchPage(p), db) /\ Devices!FetchPage(p).ctx = "library"
<1>1. PICK a: a = Devices!FetchPage(p)
  OBVIOUS
<1>2. /\ a = [op |-> a.op, ctx |-> a.ctx, res |-> a.res, did |-> a.did, arg |-> a.arg, body |-> a.body]
      /\ a.op = "page" /\ a.ctx = "library" /\ a.res = "pending" /\ a.did = FALSE /\ a.body = Devices!NoBody
  BY <1>1 DEF Devices!FetchPage, Devices!Request
<1>3. Devices!NoBody.items = {}
  BY DEF Devices!NoBody
<1>4. TypedCall(a)
  BY <1>2 DEF TypedCall
<1> QED BY <1>1, <1>2, <1>3, <1>4 DEF DeviceCallOK

LEMMA DeviceAnswers ==
  ASSUME NEW m, DeviceCallOK(m, db), NEW res \in {"ok", "failed"}, NEW did \in BOOLEAN, NEW x,
         m.ctx = "row" /\ res = "ok" => did, \A c \in x.items: CopyOK(c, db), Devices!Reply(m, res, did, x)
  PROVE  \E a: net' = (net \ {m}) \cup {a} /\ DeviceCallOK(a, db) /\ a.ctx = m.ctx
<1>1. PICK a: a = [op |-> m.op, ctx |-> m.ctx, res |-> res, did |-> did, arg |-> m.arg, body |-> x]
  OBVIOUS
<1>2. TypedCall(a) /\ a.ctx = m.ctx /\ a.op = m.op /\ a.res = res /\ a.did = did /\ a.body = x
  BY <1>1 DEF TypedCall, DeviceCallOK
<1>3. DeviceCallOK(a, db)
  BY <1>2 DEF DeviceCallOK
<1>4. net' = (net \ {m}) \cup {a}
  BY <1>1 DEF Devices!Reply
<1> QED BY <1>2, <1>3, <1>4

LEMMA DeviceRowsMarked ==
  ASSUME NEW B, NEW n \in Nat, Listed(B, n), \A i \in 1..n: DeviceRow(B[i], db),
         NEW h \in 1..n, NEW v \in {"valid", "failed"}, NEW y \in BOOLEAN, v = "valid" => y,
         NEW b, b = Devices!Marked(B, h, v, y)
  PROVE  /\ Listed(b, n) /\ \A i \in 1..n: DeviceRow(b[i], db)
         /\ \A i \in 1..n \ {h}: b[i] = B[i]
         /\ b[h].st = "valid" => b[h].did
<1>1. PICK a, c, d, g, l, e: B[h] = [st |-> a, id |-> c, ver |-> d, payload |-> g, cells |-> l, did |-> e]
  BY DEF DeviceRow
<1>2. PICK z: z = (B[h].did \/ y)
  OBVIOUS
<1>3. z \in BOOLEAN /\ (y => z)
  BY <1>2
<1>4. PICK w, x, o: w = v /\ x = B[h] /\ o = z
  OBVIOUS
<1>5. PICK k: k = [B EXCEPT ![h].st = w]
  OBVIOUS
<1>6. PICK r: r = k[h]
  OBVIOUS
<1>7. r = [x EXCEPT !.st = w] /\ k = [i \in 1..n |-> k[i]] /\ \A i \in 1..n \ {h}: k[i] = B[i]
  BY <1>4, <1>5, <1>6 DEF Listed
<1>8. r = [st |-> w, id |-> c, ver |-> d, payload |-> g, cells |-> l, did |-> e]
  BY <1>1, <1>4, <1>7
<1>9. b = [k EXCEPT ![h].did = o]
  BY <1>2, <1>4, <1>5 DEF Devices!Marked
<1>10. PICK q: q = b[h]
  OBVIOUS
<1>11. q = [r EXCEPT !.did = o]
  BY <1>6, <1>7, <1>9, <1>10
<1>12. q = [st |-> w, id |-> c, ver |-> d, payload |-> g, cells |-> l, did |-> o]
  BY <1>8, <1>11
<1>13. Listed(b, n) /\ \A i \in 1..n \ {h}: b[i] = B[i]
  BY <1>7, <1>9 DEF Listed
<1>14. /\ q = [st |-> q.st, id |-> q.id, ver |-> q.ver, payload |-> q.payload, cells |-> q.cells, did |-> q.did]
       /\ q.st = w /\ q.did = o /\ q.id = c /\ q.ver = d /\ q.cells = l
  BY <1>12
<1>15. NamedRow(q, db)
  <2>1. NamedRow(x, db) /\ x.id = c /\ x.ver = d /\ x.cells = l
    BY <1>1, <1>4 DEF DeviceRow
  <2> QED BY <1>14, <2>1 DEF NamedRow
<1>16. DeviceRow(q, db) /\ (q.st = "valid" => q.did)
  <2>1. q.st \in {"valid", "rejected", "failed"}
    BY <1>4, <1>14
  <2>2. q.did \in BOOLEAN /\ (q.st = "valid" => q.did)
    BY <1>3, <1>4, <1>14
  <2> QED BY <1>14, <1>15, <2>1, <2>2 DEF DeviceRow, StatusOK
<1> QED BY <1>10, <1>13, <1>16

\* The loop marks a row and goes on.
LEMMA DeviceMarked ==
  ASSUME NEW s, DeviceDialog(s, db), s.todo # <<>>, NEW st \in {"valid", "failed"}, NEW did \in BOOLEAN, st = "valid" => did,
         NEW t, t = Devices!RowDone(s, Head(s.todo), st, did)
  PROVE  DeviceDialog(t, db) /\ t.importing = (Tail(s.todo) # <<>>) /\ t.todo = Tail(s.todo)
<1>1. PICK h: h = Head(s.todo)
  OBVIOUS
<1>2. PICK R, B, e, T, g, k, f, ld, lb, aw, fr:
        s = [kind |-> "devices", rows |-> R, batch |-> B, same |-> e, todo |-> T, importing |-> g, done |-> k, file |-> f,
             loading |-> ld, lib |-> lb, await |-> aw, fair |-> fr]
  BY DEF DeviceDialog
<1>3. PICK n \in Nat: B = [i \in 1..n |-> B[i]]
  BY <1>2 DEF DeviceDialog, LoopOK
<1>4. \A i \in 1..n: DeviceRow(B[i], db)
  BY <1>2, <1>3 DEF DeviceDialog
<1>5. h \in 1..n
  <2>1. T \in Seq(1..n) /\ T # <<>>
    BY <1>2, <1>3 DEF DeviceDialog, LoopOK
  <2> QED BY <1>1, <1>2, <2>1
<1>6. PICK b: b = Devices!Marked(B, h, st, did)
  OBVIOUS
<1>7. Listed(B, n)
  BY <1>3 DEF Listed
<1>8. /\ Listed(b, n) /\ \A i \in 1..n: DeviceRow(b[i], db)
      /\ \A i \in 1..n \ {h}: b[i] = B[i]
      /\ b[h].st = "valid" => b[h].did
  BY <1>4, <1>5, <1>6, <1>7, DeviceRowsMarked
<1>9. b = [i \in 1..n |-> b[i]]
  BY <1>8 DEF Listed
<1>10. PICK w: w = (Tail(T) # <<>>)
  OBVIOUS
<1>11. \E o: t = [kind |-> "devices", rows |-> IF e THEN b ELSE R, batch |-> b, same |-> e, todo |-> Tail(T), importing |-> w,
                  done |-> o, file |-> f, loading |-> ld, lib |-> lb, await |-> aw, fair |-> fr]
  <2>1. PICK o: o = Devices!Counted(s, st)
    OBVIOUS
  <2>2. PICK W: W = IF e THEN b ELSE R
    OBVIOUS
  <2>3. t = [s EXCEPT !.batch = b, !.rows = W, !.done = o, !.todo = Tail(T), !.importing = w]
    <3>1. s.batch = B /\ s.rows = R /\ s.done = k /\ s.todo = T /\ s.same = e
      BY <1>2
    <3> QED BY <1>1, <1>6, <1>10, <2>1, <2>2, <3>1, Zenon DEF Devices!RowDone
  <2>4. t = [kind |-> "devices", rows |-> W, batch |-> b, same |-> e, todo |-> Tail(T), importing |-> w,
             done |-> o, file |-> f, loading |-> ld, lib |-> lb, await |-> aw, fair |-> fr]
    BY <1>2, <2>3
  <2> QED BY <2>2, <2>4
<1>12. t.batch = b /\ t.rows = (IF e THEN b ELSE R) /\ t.same = e /\ t.todo = Tail(T) /\ t.importing = w
  BY <1>11
<1>13. LoopOK(t)
  <2>1. LoopOK(s) /\ s.todo # <<>> /\ s.batch = B /\ s.rows = R /\ s.same = e /\ s.todo = T
    BY <1>2 DEF DeviceDialog
  <2>2. LoopOK(s) /\ s.todo # <<>> /\ t.same = s.same /\ t.todo = Tail(s.todo) /\ t.importing = (Tail(s.todo) # <<>>)
    BY <1>10, <1>12, <2>1
  <2>3. t.batch = [x \in DOMAIN s.batch |-> t.batch[x]] /\ \A x \in DOMAIN s.batch \ {Head(s.todo)}: t.batch[x] = s.batch[x]
    BY <1>1, <1>3, <1>8, <1>9, <1>12, <2>1
  <2>4. (t.batch[Head(s.todo)].st = "valid" => t.batch[Head(s.todo)].did) /\ t.rows = (IF s.same THEN t.batch ELSE s.rows)
    BY <1>1, <1>8, <1>12, <2>1
  <2> QED BY <2>2, <2>3, <2>4, LoopGoesOn
<1>14. \A i \in DOMAIN t.rows: DeviceRow(t.rows[i], db)
  <2>1. \A i \in DOMAIN R: DeviceRow(R[i], db)
    BY <1>2 DEF DeviceDialog
  <2>2. DOMAIN b = 1..n
    BY <1>9
  <2> QED BY <1>8, <1>12, <2>1, <2>2
<1>15. \A i \in DOMAIN t.batch: DeviceRow(t.batch[i], db)
  BY <1>8, <1>9, <1>12
<1>16. /\ t = [kind |-> t.kind, rows |-> t.rows, batch |-> t.batch, same |-> t.same, todo |-> t.todo, importing |-> t.importing,
               done |-> t.done, file |-> t.file, loading |-> t.loading, lib |-> t.lib, await |-> t.await, fair |-> t.fair]
       /\ t.kind = "devices" /\ t.file = s.file /\ t.lib = s.lib
  BY <1>2, <1>11
<1>17. t.importing = (Tail(s.todo) # <<>>) /\ t.todo = Tail(s.todo)
  <2>1. s.todo = T
    BY <1>2
  <2> QED BY <1>10, <1>12, <2>1
<1>18. DeviceDialog(t, db)
  <2>1. t.file = s.file /\ t.lib = s.lib
    BY <1>16
  <2> QED BY <1>13, <1>14, <1>15, <1>16, <2>1 DEF DeviceDialog
<1> QED BY <1>17, <1>18

\* The page that comes last is the one that has the file checked.
LEMMA DevicePageLands ==
  ASSUME DevicesInv, NEW m \in net, Devices!LandPage(m)
  PROVE  DevicesInv'
<1> USE DEF DevicesInv
<1>1. m.ctx = "library" /\ m.res = "ok" /\ db' = db /\ bound' = bound /\ DeviceCallOK(m, db)
  BY DEF Devices!LandPage, Devices!Answered
<1>2. PICK more: more = IF m.arg.page = 1 THEN 2..(((m.body.total + PerPage) - 1) \div PerPage) ELSE {}
  OBVIOUS
<1>3. PICK w: w = (dlg.await \ {m.arg.page}) \cup more
  OBVIOUS
<1>4. PICK L: L = dlg.lib \cup {[copy |-> c, page |-> m.arg.page]: c \in m.body.items}
  OBVIOUS
<1>5. /\ net' = (net \ {m}) \cup {Devices!FetchPage(q): q \in more}
      /\ dlg' = IF w # {} THEN [dlg EXCEPT !.await = w, !.lib = L]
                ELSE Devices!Show([[dlg EXCEPT !.await = w, !.lib = L] EXCEPT !.loading = FALSE, !.lib = {}, !.file = <<>>],
                                  Devices!ValidateImportRows(L, dlg.file))
  BY <1>2, <1>3, <1>4, Zenon DEF Devices!LandPage
<1>6. \A x \in L: CopyOK(x.copy, db)
  <2>1. \A c \in m.body.items: CopyOK(c, db)
    BY <1>1 DEF DeviceCallOK
  <2>2. \A x \in dlg.lib: CopyOK(x.copy, db)
    BY DEF DeviceDialog
  <2>3. \A x \in {[copy |-> c, page |-> m.arg.page]: c \in m.body.items}: x.copy \in m.body.items
    OBVIOUS
  <2> QED BY <1>4, <2>1, <2>2, <2>3
<1>7. \A x \in net': DeviceCallOK(x, db)
  BY <1>5, PageFetched
<1>8. OneCall(net', dlg.importing)
  <2>1. \A q \in more: Devices!FetchPage(q).ctx # "row"
    BY PageFetched
  <2>2. RowCalls(net') = RowCalls(net)
    BY <1>1, <1>5, <2>1 DEF RowCalls
  <2> QED BY <2>2, CallApart
<1>9. PICK R, B, e, T, g, k, f, ld, lb, aw, fr:
        dlg = [kind |-> "devices", rows |-> R, batch |-> B, same |-> e, todo |-> T, importing |-> g, done |-> k, file |-> f,
               loading |-> ld, lib |-> lb, await |-> aw, fair |-> fr]
  BY DEF DeviceDialog
<1>10. LoopOK(dlg) /\ (\A i \in DOMAIN R: DeviceRow(R[i], db)) /\ (\A i \in DOMAIN B: DeviceRow(B[i], db)) /\ f \in Seq(Devices!Line)
  BY <1>9 DEF DeviceDialog
<1>11. PICK t: t = dlg'
  OBVIOUS
<1>12. CASE w # {}
  <2>1. t = [dlg EXCEPT !.await = w, !.lib = L]
    BY <1>5, <1>11, <1>12
  <2>2. t = [kind |-> "devices", rows |-> R, batch |-> B, same |-> e, todo |-> T, importing |-> g, done |-> k, file |-> f,
             loading |-> ld, lib |-> L, await |-> w, fair |-> fr]
    BY <1>9, <2>1
  <2>3. LoopOK(t) /\ t.importing = dlg.importing
    <3>1. t.rows = dlg.rows /\ t.batch = dlg.batch /\ t.same = dlg.same /\ t.todo = dlg.todo /\ t.importing = dlg.importing /\ t.done = dlg.done
      BY <1>9, <2>2
    <3> QED BY <1>10, <3>1, LoopSame
  <2>4. DeviceDialog(t, db)
    BY <1>6, <1>10, <2>2, <2>3 DEF DeviceDialog
  <2> QED BY <1>1, <1>7, <1>8, <1>11, <2>3, <2>4 DEF FilesOK
<1>13. CASE w = {}
  <2>1. PICK V: V = Devices!ValidateImportRows(L, dlg.file)
    OBVIOUS
  <2>2. (\E n \in Nat: V = [i \in 1..n |-> V[i]]) /\ \A i \in DOMAIN V: DeviceRow(V[i], db)
    BY <1>6, <1>9, <1>10, <2>1, DeviceRowsRead
  <2>3. PICK n, E, z, k0, s: /\ n = FALSE /\ E = {} /\ z = <<>> /\ k0 = FALSE
                             /\ s = [[dlg EXCEPT !.await = w, !.lib = L] EXCEPT !.loading = n, !.lib = E, !.file = z]
    OBVIOUS
  <2>4. PICK E2: E2 = ~s.importing /\ t = [s EXCEPT !.rows = V, !.same = E2, !.done = k0]
    BY <1>5, <1>11, <1>13, <2>1, <2>3, Zenon DEF Devices!Show
  <2>5. t = [kind |-> "devices", rows |-> V, batch |-> B, same |-> E2, todo |-> T, importing |-> g, done |-> k0, file |-> z,
             loading |-> n, lib |-> E, await |-> w, fair |-> fr]
    BY <1>9, <2>3, <2>4
  <2>6. LoopOK(t) /\ t.importing = dlg.importing
    <3>1. t.same = ~dlg.importing /\ t.done = FALSE /\ t.rows = V /\ t.batch = dlg.batch /\ t.todo = dlg.todo /\ t.importing = dlg.importing
      <4>1. s.importing = g
        BY <1>9, <2>3
      <4> QED BY <1>9, <2>3, <2>4, <2>5, <4>1
    <3>2. \E o \in Nat: t.rows = [i \in 1..o |-> t.rows[i]]
      BY <2>2, <3>1
    <3> QED BY <1>10, <3>1, <3>2, LoopShows
  <2>7. z \in Seq(Devices!Line)
    BY <2>3
  <2>8. DeviceDialog(t, db)
    BY <1>10, <2>2, <2>3, <2>5, <2>6, <2>7 DEF DeviceDialog
  <2> QED BY <1>1, <1>7, <1>8, <1>11, <2>6, <2>8 DEF FilesOK
<1> QED BY <1>12, <1>13

LEMMA DevicePageLost ==
  ASSUME DevicesInv, NEW m \in net, Devices!LandPageLost(m)
  PROVE  DevicesInv'
<1> USE DEF DevicesInv
<1>1. PICK n, E: n = FALSE /\ E = {}
  OBVIOUS
<1>2. /\ db' = db /\ bound' = bound /\ net' = {x \in net: x.ctx # "library"}
      /\ dlg' = [dlg EXCEPT !.loading = n, !.await = E, !.lib = E, !.fair = n]
  BY <1>1, Zenon DEF Devices!LandPageLost, Devices!Answered
<1>3. PICK R, B, e, T, g, k, f, ld, lb, aw, fr:
        dlg = [kind |-> "devices", rows |-> R, batch |-> B, same |-> e, todo |-> T, importing |-> g, done |-> k, file |-> f,
               loading |-> ld, lib |-> lb, await |-> aw, fair |-> fr]
  BY DEF DeviceDialog
<1>4. LoopOK(dlg) /\ (\A i \in DOMAIN R: DeviceRow(R[i], db)) /\ (\A i \in DOMAIN B: DeviceRow(B[i], db)) /\ f \in Seq(Devices!Line)
  BY <1>3 DEF DeviceDialog
<1>5. PICK t: t = dlg'
  OBVIOUS
<1>6. t = [kind |-> "devices", rows |-> R, batch |-> B, same |-> e, todo |-> T, importing |-> g, done |-> k, file |-> f,
           loading |-> n, lib |-> E, await |-> E, fair |-> n]
  BY <1>2, <1>3, <1>5
<1>7. LoopOK(t) /\ t.importing = dlg.importing
  <2>1. t.rows = dlg.rows /\ t.batch = dlg.batch /\ t.same = dlg.same /\ t.todo = dlg.todo /\ t.importing = dlg.importing /\ t.done = dlg.done
    BY <1>3, <1>6
  <2> QED BY <1>4, <2>1, LoopSame
<1>8. DeviceDialog(t, db)
  BY <1>1, <1>4, <1>6, <1>7 DEF DeviceDialog
<1>9. OneCall(net', dlg.importing)
  <2>1. RowCalls(net') = RowCalls(net)
    BY <1>2 DEF RowCalls
  <2> QED BY <2>1, CallApart
<1> QED BY <1>2, <1>5, <1>7, <1>8, <1>9 DEF FilesOK

LEMMA DeviceImportStarts ==
  ASSUME DevicesInv, Devices!StartImport
  PROVE  DevicesInv'
<1> USE DEF DevicesInv
<1>1. FilesOK(Devices!Line)'
  <2>1. Spent("turns")
    BY DEF Devices!StartImport, Devices!Spent, Spent
  <2> QED BY <2>1, FilesKept
<1>2. PICK S: S = InOrder(ValidRows(dlg.rows))
  OBVIOUS
<1>3. Devices!ValidRows(dlg.rows) = ValidRows(dlg.rows) /\ Devices!InOrder(ValidRows(dlg.rows)) = InOrder(ValidRows(dlg.rows))
  BY DEF Devices!ValidRows, ValidRows, Devices!InOrder, InOrder, Devices!Cardinality, Cardinality
<1>4. PICK y, u: y = TRUE /\ u = (dlg.fair /\ ~dlg.loading /\ \A i \in ValidRows(dlg.rows): ~dlg.rows[i].did)
  OBVIOUS
<1>5. PICK k0, t: k0 = FALSE /\ t = [[dlg EXCEPT !.fair = u] EXCEPT !.importing = y, !.batch = dlg.rows, !.same = y, !.todo = S, !.done = k0]
  OBVIOUS
<1>6. PICK R, B, e, T, g, k, f, ld, lb, aw, fr:
        dlg = [kind |-> "devices", rows |-> R, batch |-> B, same |-> e, todo |-> T, importing |-> g, done |-> k, file |-> f,
               loading |-> ld, lib |-> lb, await |-> aw, fair |-> fr]
  BY DEF DeviceDialog
<1>7. t = [kind |-> "devices", rows |-> R, batch |-> R, same |-> y, todo |-> S, importing |-> y, done |-> k0, file |-> f,
           loading |-> ld, lib |-> lb, await |-> aw, fair |-> u]
  BY <1>5, <1>6
<1>8. PICK d: d = [dlg EXCEPT !.fair = u]
  OBVIOUS
<1>9. d.rows = dlg.rows
  BY <1>6, <1>8
<1>10. Devices!StartLoop(d) = t
  BY <1>2, <1>3, <1>4, <1>5, <1>8, <1>9 DEF Devices!StartLoop
<1>11. /\ ~dlg.importing /\ ValidRows(dlg.rows) # {} /\ db' = db
       /\ dlg' = t /\ net' = net \cup {Devices!SubmitRow(t)}
  BY <1>3, <1>4, <1>8, <1>10 DEF Devices!StartImport
<1>12. LoopOK(dlg) /\ (\A i \in DOMAIN R: DeviceRow(R[i], db)) /\ (\A x \in lb: CopyOK(x.copy, db)) /\ f \in Seq(Devices!Line)
  BY <1>6 DEF DeviceDialog
<1>13. LoopOK(t) /\ t.importing = TRUE
  <2>1. t.rows = dlg.rows /\ t.batch = dlg.rows /\ t.todo = InOrder(ValidRows(dlg.rows)) /\ t.importing = TRUE
    BY <1>2, <1>4, <1>6, <1>7
  <2> QED BY <1>11, <1>12, <2>1, LoopStarts
<1>14. DeviceDialog(t, db)
  BY <1>7, <1>12, <1>13 DEF DeviceDialog
<1>15. PICK a: a = Devices!SubmitRow(t)
  OBVIOUS
<1>16. t.todo # <<>>
  BY <1>13 DEF LoopOK
<1>17. DeviceCallOK(a, db) /\ a.ctx = "row"
  BY <1>14, <1>15, <1>16, DeviceSubmitted
<1>18. OneCall(net', dlg'.importing)
  <2>1. OneCall(net, FALSE)
    BY <1>11 DEF OneCall
  <2>2. OneCall(net \cup {a}, TRUE)
    BY <1>17, <2>1, CallSent
  <2> QED BY <1>11, <1>13, <1>15, <2>2
<1> QED BY <1>1, <1>11, <1>14, <1>15, <1>17, <1>18

LEMMA DeviceRowLands ==
  ASSUME DevicesInv, NEW m \in net, Devices!LandRow(m)
  PROVE  DevicesInv'
<1> USE DEF DevicesInv
<1>1. m.ctx = "row" /\ db' = db /\ bound' = bound /\ DeviceCallOK(m, db) /\ m.res # "pending"
  BY DEF Devices!LandRow, Devices!Answered
<1>2. dlg.importing /\ OneCall(net \ {m}, FALSE)
  BY <1>1, CallLanded
<1>3. dlg.todo # <<>>
  BY <1>2 DEF DeviceDialog, LoopOK
<1>4. PICK st \in {"valid", "failed"}: st = IF m.res = "ok" THEN "valid" ELSE "failed"
  OBVIOUS
<1>5. m.did \in BOOLEAN /\ (st = "valid" => m.did)
  BY <1>1, <1>4 DEF DeviceCallOK, TypedCall
<1>6. PICK t: t = Devices!RowDone(dlg, Head(dlg.todo), st, m.did)
  OBVIOUS
<1>7. DeviceDialog(t, db) /\ t.importing = (Tail(dlg.todo) # <<>>) /\ t.todo = Tail(dlg.todo)
  BY <1>3, <1>5, <1>6, DeviceMarked
<1>8. dlg' = t /\ net' = (net \ {m}) \cup IF t.importing THEN {Devices!SubmitRow(t)} ELSE {}
  BY <1>4, <1>6, Zenon DEF Devices!LandRow
<1>9. FilesOK(Devices!Line)'
  BY <1>1 DEF FilesOK
<1>10. CASE t.importing
  <2>1. PICK a: a = Devices!SubmitRow(t)
    OBVIOUS
  <2>2. DeviceCallOK(a, db) /\ a.ctx = "row"
    BY <1>7, <1>10, <2>1, DeviceSubmitted
  <2>3. net' = (net \ {m}) \cup {a}
    BY <1>8, <1>10, <2>1
  <2>4. OneCall((net \ {m}) \cup {a}, TRUE)
    BY <1>2, <2>2, CallSent
  <2>5. t.importing = TRUE
    BY <1>7, <1>10
  <2> QED BY <1>1, <1>7, <1>8, <1>9, <2>2, <2>3, <2>4, <2>5
<1>11. CASE ~t.importing
  <2>1. net' = net \ {m} /\ t.importing = FALSE
    BY <1>7, <1>8, <1>11
  <2> QED BY <1>1, <1>2, <1>7, <1>8, <1>9, <2>1
<1> QED BY <1>10, <1>11

LEMMA DeviceFileRead ==
  ASSUME DevicesInv, NEW file \in bound.files, Devices!OnFileChange(file)
  PROVE  DevicesInv'
<1> USE DEF DevicesInv
<1>1. FilesOK(Devices!Line)' /\ file \in Seq(Devices!Line)
  <2>1. Spent("turns")
    BY DEF Devices!OnFileChange, Devices!Spent, Spent
  <2> QED BY <2>1, FilesKept DEF FilesOK
<1>2. PICK y, E, W, u: y = TRUE /\ E = {} /\ W = {1} /\ u = (~dlg.importing /\ Devices!Unique)
  OBVIOUS
<1>3. PICK a: a = Devices!FetchPage(1)
  OBVIOUS
<1>4. /\ db' = db /\ net' = net \cup {a}
      /\ dlg' = [dlg EXCEPT !.file = file, !.loading = y, !.lib = E, !.await = W, !.fair = u]
  BY <1>2, <1>3, Zenon DEF Devices!OnFileChange
<1>5. PICK R, B, e, T, g, k, f, ld, lb, aw, fr:
        dlg = [kind |-> "devices", rows |-> R, batch |-> B, same |-> e, todo |-> T, importing |-> g, done |-> k, file |-> f,
               loading |-> ld, lib |-> lb, await |-> aw, fair |-> fr]
  BY DEF DeviceDialog
<1>6. LoopOK(dlg) /\ (\A i \in DOMAIN R: DeviceRow(R[i], db)) /\ (\A i \in DOMAIN B: DeviceRow(B[i], db))
  BY <1>5 DEF DeviceDialog
<1>7. PICK t: t = dlg'
  OBVIOUS
<1>8. t = [kind |-> "devices", rows |-> R, batch |-> B, same |-> e, todo |-> T, importing |-> g, done |-> k, file |-> file,
           loading |-> y, lib |-> E, await |-> W, fair |-> u]
  BY <1>4, <1>5, <1>7
<1>9. LoopOK(t) /\ t.importing = dlg.importing
  <2>1. t.rows = dlg.rows /\ t.batch = dlg.batch /\ t.same = dlg.same /\ t.todo = dlg.todo /\ t.importing = dlg.importing /\ t.done = dlg.done
    BY <1>5, <1>8
  <2> QED BY <1>6, <2>1, LoopSame
<1>10. DeviceDialog(t, db)
  BY <1>1, <1>2, <1>6, <1>8, <1>9 DEF DeviceDialog
<1>11. DeviceCallOK(a, db) /\ a.ctx = "library"
  BY <1>3, PageFetched
<1>12. OneCall(net', dlg.importing)
  <2>1. RowCalls(net') = RowCalls(net)
    BY <1>4, <1>11 DEF RowCalls
  <2> QED BY <2>1, CallApart
<1> QED BY <1>1, <1>4, <1>7, <1>9, <1>10, <1>11, <1>12

LEMMA DeviceRowsLeave ==
  ASSUME DevicesInv, Devices!OpenChange
  PROVE  DevicesInv'
<1> USE DEF DevicesInv
<1>1. PICK V, n, k0: V = <<>> /\ n = ~dlg.importing /\ k0 = FALSE
  OBVIOUS
<1>2. db' = db /\ net' = net /\ bound' = bound /\ dlg' = [dlg EXCEPT !.rows = V, !.same = n, !.done = k0]
  BY <1>1, Zenon DEF Devices!OpenChange, Devices!Show
<1>3. PICK R, B, e, T, g, k, f, ld, lb, aw, fr:
        dlg = [kind |-> "devices", rows |-> R, batch |-> B, same |-> e, todo |-> T, importing |-> g, done |-> k, file |-> f,
               loading |-> ld, lib |-> lb, await |-> aw, fair |-> fr]
  BY DEF DeviceDialog
<1>4. /\ LoopOK(dlg) /\ (\A i \in DOMAIN B: DeviceRow(B[i], db)) /\ f \in Seq(Devices!Line)
      /\ \A x \in lb: CopyOK(x.copy, db)
  BY <1>3 DEF DeviceDialog
<1>5. PICK t: t = dlg'
  OBVIOUS
<1>6. t = [kind |-> "devices", rows |-> V, batch |-> B, same |-> n, todo |-> T, importing |-> g, done |-> k0, file |-> f,
           loading |-> ld, lib |-> lb, await |-> aw, fair |-> fr]
  BY <1>2, <1>3, <1>5
<1>7. DOMAIN V = {} /\ V = [i \in 1..0 |-> V[i]]
  BY <1>1
<1>8. LoopOK(t) /\ t.importing = dlg.importing
  <2>1. t.same = ~dlg.importing /\ t.done = FALSE /\ t.batch = dlg.batch /\ t.todo = dlg.todo /\ t.importing = dlg.importing
    BY <1>1, <1>3, <1>6
  <2>2. \E o \in Nat: t.rows = [i \in 1..o |-> t.rows[i]]
    BY <1>6, <1>7
  <2> QED BY <1>4, <2>1, <2>2, LoopShows
<1>9. DeviceDialog(t, db)
  BY <1>4, <1>6, <1>7, <1>8 DEF DeviceDialog
<1> QED BY <1>2, <1>5, <1>8, <1>9 DEF FilesOK

\* What the back end does about a call.
LEMMA DeviceServed ==
  ASSUME DevicesInv, NEW m \in net, Devices!ServePage(m) \/ Devices!ServeCreate(m) \/ Devices!ServeUpdate(m) \/ Devices!Lose(m)
  PROVE  DevicesInv'
<1> USE DEF DevicesInv
<1>1. dlg' = dlg /\ bound' = bound /\ DeviceCallOK(m, db)
  BY DEF Devices!ServePage, Devices!ServeCreate, Devices!ServeUpdate, Devices!Lose, Devices!Asked
<1>2. Devices!NoBody.items = {}
  BY DEF Devices!NoBody
<1>3. ASSUME NEW res \in {"ok", "failed"}, Devices!Reply(m, res, TRUE, Devices!NoBody)
      PROVE  \E a: net' = (net \ {m}) \cup {a} /\ DeviceCallOK(a, db) /\ a.ctx = m.ctx
  BY <1>1, <1>2, <1>3, DeviceAnswers
<1>4. ASSUME Devices!Reply(m, "failed", FALSE, Devices!NoBody)
      PROVE  \E a: net' = (net \ {m}) \cup {a} /\ DeviceCallOK(a, db) /\ a.ctx = m.ctx
  BY <1>1, <1>2, <1>4, DeviceAnswers
<1>5. (\E a: net' = (net \ {m}) \cup {a} /\ DeviceCallOK(a, db) /\ a.ctx = m.ctx) /\ Later(db, db')
  <2>1. ASSUME db' = db
        PROVE  Later(db, db')
    BY <2>1 DEF Later, DeviceTable
  <2>2. CASE Devices!ServePage(m)
    <3>1. PICK D: D = {d \in {d \in Device: db[d].live}:
                         Devices!Cardinality({e \in {d2 \in Device: db[d2].live}: e < d}) \div PerPage = m.arg.page - 1}
      OBVIOUS
    <3>2. PICK x: x = [items |-> Devices!Copies(D), total |-> Devices!Cardinality(Devices!Existing)]
      OBVIOUS
    <3>3. Devices!Reply(m, "ok", FALSE, x) /\ db' = db /\ m.op = "page"
      BY <2>2, <3>1, <3>2, Zenon DEF Devices!ServePage, Devices!Existing, Devices!Asked
    <3>4. \A c \in x.items: CopyOK(c, db)
      <4>1. x.items = {[id |-> d, ver |-> db[d].ver, code |-> db[d].code, sn |-> db[d].sn, asset |-> db[d].asset]: d \in D}
        BY <3>2 DEF Devices!Copies
      <4>2. ASSUME NEW d \in D, NEW c, c = [id |-> d, ver |-> db[d].ver, code |-> db[d].code, sn |-> db[d].sn, asset |-> db[d].asset]
            PROVE  CopyOK(c, db)
        <5>1. d \in Device
          BY <3>1
        <5>2. db[d].ver \in Nat /\ db[d].ver =< db[d].ver
          BY <5>1 DEF DeviceTable
        <5> QED BY <4>2, <5>1, <5>2 DEF CopyOK
      <4> QED BY <4>1, <4>2
    <3>5. m.ctx # "row"
      BY <1>1, <3>3 DEF DeviceCallOK
    <3> QED BY <1>1, <2>1, <3>3, <3>4, <3>5, DeviceAnswers
  <2>3. CASE Devices!ServeCreate(m)
    <3>1. CASE Devices!Reply(m, "failed", FALSE, Devices!NoBody) /\ db' = db
      BY <1>4, <2>1, <3>1
    <3>2. ASSUME NEW d \in Device, NEW p, db[d].ver = 0, Devices!Stored(d, p, 1), Devices!Settled(m)
          PROVE  (\E a: net' = (net \ {m}) \cup {a} /\ DeviceCallOK(a, db) /\ a.ctx = m.ctx) /\ Later(db, db')
      <4>1. Later(db, db')
        BY <3>2, Rewritten
      <4> QED BY <1>3, <3>2, <4>1 DEF Devices!Settled
    <3> QED BY <2>3, <3>1, <3>2, Zenon DEF Devices!ServeCreate, Devices!Existing
  <2>4. CASE Devices!ServeUpdate(m)
    <3>1. CASE Devices!Reply(m, "failed", FALSE, Devices!NoBody) /\ db' = db
      BY <1>4, <2>1, <3>1
    <3>2. ASSUME Devices!Current(m), Devices!Stored(m.arg.id, m.arg.payload, m.arg.ver + 1), Devices!Settled(m)
          PROVE  (\E a: net' = (net \ {m}) \cup {a} /\ DeviceCallOK(a, db) /\ a.ctx = m.ctx) /\ Later(db, db')
      <4>1. PICK d, v: d = m.arg.id /\ v = m.arg.ver + 1
        OBVIOUS
      <4>2. d \in Device /\ db[d].ver = m.arg.ver
        BY <3>2, <4>1 DEF Devices!Current, Devices!Existing
      <4>3. v \in Nat /\ db[d].ver < v
        BY <4>1, <4>2 DEF DeviceTable
      <4>4. Later(db, db')
        BY <3>2, <4>1, <4>2, <4>3, Rewritten
      <4> QED BY <1>3, <3>2, <4>4 DEF Devices!Settled
    <3> QED BY <2>4, <3>1, <3>2, Zenon DEF Devices!ServeUpdate
  <2>5. CASE Devices!Lose(m)
    BY <1>4, <2>1, <2>5 DEF Devices!Lose
  <2> QED BY <2>2, <2>3, <2>4, <2>5
<1>6. PICK a: net' = (net \ {m}) \cup {a} /\ DeviceCallOK(a, db) /\ a.ctx = m.ctx
  BY <1>5
<1>7. \A x \in net': DeviceCallOK(x, db')
  BY <1>5, <1>6, CallLater
<1>8. DeviceDialog(dlg', db')
  BY <1>1, <1>5, DialogLater
<1>9. OneCall(net', dlg'.importing)
  BY <1>1, <1>6, CallReplied
<1> QED BY <1>1, <1>5, <1>7, <1>8, <1>9 DEF FilesOK, Later

LEMMA DeviceOthers ==
  ASSUME DevicesInv, NEW d \in Device, Devices!Foreign(d)
  PROVE  DevicesInv'
<1> USE DEF DevicesInv
<1>1. Later(db, db')
  BY WrittenByOthers
<1>2. FilesOK(Devices!Line)'
  <2>1. Spent("foreign")
    BY DEF Devices!Foreign, Devices!Spent, Spent
  <2> QED BY <2>1, FilesKept
<1>3. PICK n: n = FALSE
  OBVIOUS
<1>4. net' = net /\ dlg' = [dlg EXCEPT !.fair = n]
  BY <1>3 DEF Devices!Foreign
<1>5. PICK R, B, e, T, g, k, f, ld, lb, aw, fr:
        dlg = [kind |-> "devices", rows |-> R, batch |-> B, same |-> e, todo |-> T, importing |-> g, done |-> k, file |-> f,
               loading |-> ld, lib |-> lb, await |-> aw, fair |-> fr]
  BY DEF DeviceDialog
<1>6. /\ LoopOK(dlg) /\ (\A i \in DOMAIN R: DeviceRow(R[i], db)) /\ (\A i \in DOMAIN B: DeviceRow(B[i], db))
      /\ f \in Seq(Devices!Line) /\ \A x \in lb: CopyOK(x.copy, db)
  BY <1>5 DEF DeviceDialog
<1>7. PICK t: t = dlg'
  OBVIOUS
<1>8. t = [kind |-> "devices", rows |-> R, batch |-> B, same |-> e, todo |-> T, importing |-> g, done |-> k, file |-> f,
           loading |-> ld, lib |-> lb, await |-> aw, fair |-> n]
  BY <1>4, <1>5, <1>7
<1>9. LoopOK(t) /\ t.importing = dlg.importing
  <2>1. t.rows = dlg.rows /\ t.batch = dlg.batch /\ t.same = dlg.same /\ t.todo = dlg.todo /\ t.importing = dlg.importing /\ t.done = dlg.done
    BY <1>5, <1>8
  <2> QED BY <1>6, <2>1, LoopSame
<1>10. DeviceDialog(t, db)
  BY <1>6, <1>8, <1>9 DEF DeviceDialog
<1>11. DeviceDialog(t, db')
  BY <1>1, <1>10, DialogLater
<1>12. \A x \in net: DeviceCallOK(x, db')
  BY <1>1, CallLater
<1> QED BY <1>1, <1>2, <1>4, <1>7, <1>9, <1>11, <1>12 DEF Later

LEMMA DeviceSteps ==
  ASSUME DevicesInv, Devices!DialogNext
  PROVE  DevicesInv'
BY DevicePageLands, DevicePageLost, DeviceImportStarts, DeviceRowLands, DeviceFileRead, DeviceRowsLeave, DeviceServed, DeviceOthers
   DEF Devices!DialogNext

LEMMA DevicesStart ==
  ASSUME Devices!Start, FilesOK(Devices!Line)
  PROVE  DevicesInv
<1>1. net = {} /\ dlg = Devices!Fresh /\ db \in Devices!Table
  BY DEF Devices!Start
<1>2. PICK y, z, u, E, w: y = TRUE /\ z = FALSE /\ u = FALSE /\ E = {} /\ w = FALSE
  OBVIOUS
<1>3. PICK e: e = <<>>
  OBVIOUS
<1>4. dlg = [kind |-> "devices", rows |-> e, batch |-> e, same |-> y, todo |-> e, importing |-> z, done |-> z, file |-> e,
             loading |-> u, lib |-> E, await |-> E, fair |-> w]
  BY <1>1, <1>2, <1>3, Zenon DEF Devices!Fresh
<1>5. e = [i \in 1..0 |-> e[i]] /\ DOMAIN e = {} /\ e \in Seq(DOMAIN e) /\ e \in Seq(Devices!Line)
  BY <1>3
<1>6. LoopOK(dlg)
  BY <1>2, <1>3, <1>4, <1>5 DEF LoopOK
<1>7. DeviceDialog(dlg, db)
  BY <1>2, <1>4, <1>5, <1>6 DEF DeviceDialog
<1>8. OneCall(net, dlg.importing)
  BY <1>1, <1>2, <1>4 DEF OneCall, RowCalls
<1>9. DeviceTable(db)
  BY <1>1 DEF Devices!Table, DeviceTable
<1> QED BY <1>1, <1>7, <1>8, <1>9 DEF DevicesInv

\* The version that was read tells what the device has now.
LEMMA DeviceUpdates ==
  ASSUME DevicesInv, Devices!DialogNext
  PROVE  Devices!UpdatesNamed
<1> SUFFICES ASSUME NEW m \in net \ net', m.op = "update", m.res = "pending", db' # db, bound' = bound
             PROVE  Devices!Names(m.arg.cells, m.arg.id)
  BY DEF Devices!UpdatesNamed
<1>1. PICK o \in net: Devices!ServeCreate(o) \/ Devices!ServeUpdate(o)
  <2>1. ASSUME NEW d \in Device, Devices!Foreign(d)
        PROVE  FALSE
    BY <2>1 DEF Devices!Foreign
  <2> QED BY <2>1 DEF Devices!DialogNext, Devices!StartImport, Devices!OpenChange, Devices!OnFileChange, Devices!LandPage,
             Devices!LandPageLost, Devices!LandRow, Devices!ServePage, Devices!Lose, Devices!Answered, Devices!Asked
<1>2. \E a: net' = (net \ {o}) \cup {a}
  BY <1>1 DEF Devices!ServeCreate, Devices!ServeUpdate, Devices!Settled, Devices!Reply
<1>3. m = o
  BY <1>2
<1>4. Devices!Current(m)
  BY <1>1, <1>3 DEF Devices!ServeCreate, Devices!ServeUpdate, Devices!Asked
<1>5. m.arg.id # 0 /\ NamedRow(m.arg, db)
  BY DEF DevicesInv, DeviceCallOK
<1>6. Named1(m.arg.cells, db[m.arg.id])
  BY <1>4, <1>5 DEF NamedRow, Devices!Current
<1> QED BY <1>6 DEF Named1, Devices!Names

-----------------------------------------------------------------------------
(* The inductive invariant of the serial numbers.  While a library is read, what *)
(* has come of it is what the table holds; once it is there, each row that is    *)
(* still to be submitted gives a serial number that no other device and no other *)
(* such row has.                                                                 *)

LibraryCalls(N) == {m \in N: m.ctx = "library"}
LiveIn(B) == {d \in Device: B[d].live}
CopyOf(d, B) == [id |-> d, ver |-> B[d].ver, code |-> B[d].code, sn |-> B[d].sn, asset |-> B[d].asset]
UniqueIn(B) == \A k \in {"code", "sn", "asset"}, d, e \in LiveIn(B): B[d][k] = B[e][k] => d = e \/ B[d][k] = 0
PageOf(d, B) == (Cardinality({e \in LiveIn(B): e < d}) \div PerPage) + 1
PageRead(m, B) == /\ m.body.items = {CopyOf(d, B): d \in {e \in LiveIn(B): PageOf(e, B) = m.arg.page}}
                  /\ m.body.total = Cardinality(LiveIn(B))

\* Each page that is awaited is asked for once.
PagesAsked(N, s) ==
  /\ \A m \in N: (m.ctx = "library" \/ m.ctx = "row") /\ (m.res = "pending" => ~m.did)
  /\ \A m \in LibraryCalls(N): s.loading /\ m.arg.page \in s.await
  /\ \A m, o \in LibraryCalls(N): m.arg.page = o.arg.page => m = o
  /\ s.await \subseteq Nat \ {0} /\ (1 \in s.await => s.await = {1} /\ s.lib = {})
  /\ s.loading \in BOOLEAN /\ s.fair \in BOOLEAN
\* The row under way is the first one to do.
RowSent(m, r) == /\ m.arg = [id |-> r.id, ver |-> r.ver, payload |-> r.payload, cells |-> r.cells]
                 /\ m.op = IF r.id = 0 THEN "create" ELSE "update"
RowsSent(N, s) == /\ \A m \in RowCalls(N): RowSent(m, s.batch[s.todo[1]])
                  /\ \A k, l \in 1..Len(s.todo): s.todo[k] = s.todo[l] => k = l

\* The pages that have come hold the devices that are on them.
LibraryRead(N, s, B) ==
  /\ \A m \in LibraryCalls(N): m.res = "ok" => PageRead(m, B)
  /\ \A x \in s.lib: \E d \in LiveIn(B): x.copy = CopyOf(d, B)
  /\ 1 \notin s.await => \A d \in LiveIn(B): PageOf(d, B) \in s.await \/ \E x \in s.lib: x.copy = CopyOf(d, B)

Fits(r, B) == /\ r.payload = [k \in {"code", "sn", "asset"} |-> r.payload[k]]
              /\ \A d \in LiveIn(B): d # r.id /\ B[d].sn = r.payload.sn => r.payload.sn = 0
Apart(r, o) == (r.payload.sn = o.payload.sn => r.payload.sn = 0) /\ (r.id = o.id => r.id = 0)
ToDo(rows) == {i \in DOMAIN rows: rows[i].st = "valid" /\ ~rows[i].did}
RowsApart(rows, B) == /\ \A i \in ToDo(rows): Fits(rows[i], B)
                      /\ \A i, j \in ToDo(rows): i # j => Apart(rows[i], rows[j])
LoopApart(N, s, B) ==
  /\ \A m \in RowCalls(N), k \in 1..Len(s.todo): (k = 1 /\ m.did) \/ Fits(s.batch[s.todo[k]], B)
  /\ \A k, l \in 1..Len(s.todo): k # l => Apart(s.batch[s.todo[k]], s.batch[s.todo[l]])

FairInv(N, s, B) ==
  /\ UniqueIn(B)
  /\ s.loading => ~s.importing /\ LibraryRead(N, s, B)
  /\ s.importing => ~s.loading /\ (s.same \/ s.rows = <<>>) /\ LoopApart(N, s, B)
  /\ ~s.loading /\ ~s.importing => RowsApart(s.rows, B)
SerialsInv(N, s, B) == PagesAsked(N, s) /\ RowsSent(N, s) /\ (s.fair => FairInv(N, s, B))

-----------------------------------------------------------------------------
(* The pages of the library *)

LEMMA PageBounds ==
  ASSUME NEW p \in Nat \ {0}, NEW b \in Nat, NEW n \in Nat, b < n
  PROVE  (b \div p) + 1 \in Nat \ {0} /\ (b \div p) + 1 =< ((n + p) - 1) \div p
<1>1. PICK q, Q: q = b \div p /\ Q = ((n + p) - 1) \div p
  OBVIOUS
<1>2. q \in Nat /\ Q \in Nat
  BY <1>1
<1>3. p * q =< b /\ (n + p) - 1 < p * (Q + 1)
  BY <1>1
<1>4. p * (q + 1) < p * (Q + 1)
  <2>1. p * (q + 1) = p * q + p
    BY <1>2
  <2>2. p * q \in Nat /\ p * (Q + 1) \in Nat
    BY <1>2
  <2> QED BY <1>3, <2>1, <2>2
<1>5. q + 1 < Q + 1
  BY <1>2, <1>4
<1> QED BY <1>1, <1>2, <1>5

\* Every device is on one of the pages there are.
LEMMA PagesCover ==
  ASSUME NEW B, NEW d \in LiveIn(B)
  PROVE  /\ PageOf(d, B) \in Nat \ {0}
         /\ PageOf(d, B) = 1 \/ PageOf(d, B) \in 2..(((Cardinality(LiveIn(B)) + PerPage) - 1) \div PerPage)
<1>1. PICK S: S = LiveIn(B)
  OBVIOUS
<1>2. S \in SUBSET Device /\ IsFiniteSet(Device) /\ Device \subseteq Nat /\ PerPage \in Nat \ {0}
  BY <1>1, ImportsAssumption DEF LiveIn
<1>3. IsFiniteSet(S) /\ S \subseteq Nat /\ d \in S
  BY <1>1, <1>2, FS_Subset
<1>4. PICK b, n: b = Cardinality({e \in S: e < d}) /\ n = Cardinality(S)
  OBVIOUS
<1>5. b + 1 \in 1..n /\ n \in Nat
  <2>1. Cardinality(S) \in Nat /\ Cardinality({e \in S: e < d}) + 1 \in 1..Cardinality(S)
    BY <1>3, Ranks
  <2> QED BY <1>4, <2>1
<1>6. b \in Nat
  <2>1. {e \in S: e < d} \in SUBSET S
    OBVIOUS
  <2>2. IsFiniteSet({e \in S: e < d})
    BY <1>3, <2>1, FS_Subset
  <2> QED BY <1>4, <2>2, FS_CardinalityType
<1>7. (b \div PerPage) + 1 \in Nat \ {0} /\ (b \div PerPage) + 1 =< ((n + PerPage) - 1) \div PerPage
  BY <1>2, <1>5, <1>6, PageBounds
<1>8. PageOf(d, B) = (b \div PerPage) + 1
  BY <1>1, <1>4 DEF PageOf
<1>9. PICK g, P: g = PageOf(d, B) /\ P = ((n + PerPage) - 1) \div PerPage
  OBVIOUS
<1>10. g \in Nat \ {0} /\ g =< P /\ P \in Int
  BY <1>2, <1>5, <1>7, <1>8, <1>9
<1>11. g = 1 \/ g \in 2..P
  BY <1>10
<1> QED BY <1>1, <1>4, <1>9, <1>10, <1>11

\* A page has come: what it adds (L), and what is left to wait for (w).
Brings(m, s, w, L) ==
  /\ \A q \in s.await: q = m.arg.page \/ q \in w
  /\ m.arg.page = 1 => 2..(((m.body.total + PerPage) - 1) \div PerPage) \subseteq w
  /\ s.lib \subseteq L /\ \A x \in L: x \in s.lib \/ x.copy \in m.body.items
  /\ \A c \in m.body.items: \E x \in L: x.copy = c

LEMMA PageComes ==
  ASSUME NEW N, NEW s, NEW B, PagesAsked(N, s), LibraryRead(N, s, B), NEW m \in LibraryCalls(N), m.res = "ok", NEW w, NEW L,
         Brings(m, s, w, L)
  PROVE  /\ \A x \in L: \E d \in LiveIn(B): x.copy = CopyOf(d, B)
         /\ \A d \in LiveIn(B): PageOf(d, B) \in w \/ \E x \in L: x.copy = CopyOf(d, B)
<1>1. PICK p: p = m.arg.page
  OBVIOUS
<1>2. p \in s.await /\ (1 \in s.await => s.await = {1}) /\ PageRead(m, B)
  BY <1>1 DEF PagesAsked, LibraryRead
<1>3. \A c \in m.body.items: \E d \in LiveIn(B): c = CopyOf(d, B)
  BY <1>2 DEF PageRead
<1>4. \A d \in LiveIn(B): PageOf(d, B) = p => CopyOf(d, B) \in m.body.items
  BY <1>1, <1>2 DEF PageRead
<1>5. \A c \in m.body.items: \E x \in L: x.copy = c
  BY DEF Brings
<1>6. \A x \in L: x \in s.lib \/ x.copy \in m.body.items
  BY DEF Brings
<1>7. \A x \in L: \E d \in LiveIn(B): x.copy = CopyOf(d, B)
  BY <1>3, <1>6 DEF LibraryRead
<1>8. ASSUME NEW d \in LiveIn(B)
      PROVE  PageOf(d, B) \in w \/ \E x \in L: x.copy = CopyOf(d, B)
  <2>1. CASE PageOf(d, B) = p
    BY <1>4, <1>5, <2>1
  <2>2. CASE p = 1 /\ PageOf(d, B) # 1
    <3>1. m.body.total = Cardinality(LiveIn(B))
      BY <1>2 DEF PageRead
    <3>2. PageOf(d, B) \in 2..(((m.body.total + PerPage) - 1) \div PerPage)
      BY <2>2, <3>1, PagesCover
    <3> QED BY <1>1, <2>2, <3>2 DEF Brings
  <2>3. CASE p # 1 /\ PageOf(d, B) # p
    <3>1. 1 \notin s.await
      BY <1>2, <2>3
    <3>2. PageOf(d, B) \in s.await \/ \E x \in s.lib: x.copy = CopyOf(d, B)
      BY <3>1 DEF LibraryRead
    <3> QED BY <1>1, <2>3, <3>2 DEF Brings
  <2> QED BY <2>1, <2>2, <2>3
<1> QED BY <1>7, <1>8

-----------------------------------------------------------------------------
(* The file against the library, when that holds each device of the table *)

Complete(lib, B) == /\ \A x \in lib: \E d \in LiveIn(B): x.copy = CopyOf(d, B)
                    /\ \A d \in LiveIn(B): \E x \in lib: x.copy = CopyOf(d, B)

\* A row is refused, or has no device, or one that is there.
LEMMA MatchedWhat ==
  ASSUME NEW lib, Complete(lib, db), NEW r, NEW M, M = Devices!MatchExistingDevice(lib, r), ~M.refused
  PROVE  M.dev = Devices!Nobody \/ \E d \in LiveIn(db): M.dev = CopyOf(d, db)
<1>1. PICK P, S, A: P = Devices!By(lib, "code", r.code) /\ S = Devices!By(lib, "sn", r.sn) /\ A = Devices!By(lib, "asset", r.asset)
  OBVIOUS
<1>2. P \subseteq lib /\ S \subseteq lib /\ A \subseteq lib
  BY <1>1 DEF Devices!By
<1>3. PICK o, p, q: /\ o = {x.copy.id: x \in S \cup A} /\ p = (CHOOSE x \in P: TRUE).copy
                    /\ q = (CHOOSE x \in (IF S # {} THEN S ELSE A): TRUE).copy
  OBVIOUS
<1>4. M = CASE \E X \in {P, S, A}: Devices!Cardinality(X) > 1 -> Devices!Refused
            [] P # {} -> IF o \subseteq {p.id} THEN Devices!Match(p) ELSE Devices!Refused
            [] P = {} /\ o # {} -> IF r.code # 0 \/ Devices!Cardinality(o) > 1 THEN Devices!Refused ELSE Devices!Match(q)
            [] OTHER -> Devices!Match(Devices!Nobody)
  BY <1>1, <1>3 DEF Devices!MatchExistingDevice
<1>5. Devices!Refused.refused = TRUE /\ \A x: Devices!Match(x).dev = x
  BY DEF Devices!Refused, Devices!Match
<1>6. M.dev = Devices!Nobody \/ (P # {} /\ M.dev = p) \/ (o # {} /\ M.dev = q)
  BY <1>4, <1>5
<1>7. ASSUME P # {}
      PROVE  \E d \in LiveIn(db): p = CopyOf(d, db)
  <2>1. PICK x: x = CHOOSE y \in P: TRUE
    OBVIOUS
  <2>2. x \in lib /\ p = x.copy
    BY <1>2, <1>3, <1>7, <2>1
  <2> QED BY <2>2 DEF Complete
<1>8. ASSUME o # {}
      PROVE  \E d \in LiveIn(db): q = CopyOf(d, db)
  <2>1. PICK W: W = IF S # {} THEN S ELSE A
    OBVIOUS
  <2>2. PICK x: x = CHOOSE y \in W: TRUE
    OBVIOUS
  <2>3. W # {} /\ W \subseteq lib
    BY <1>2, <1>3, <1>8, <2>1
  <2>4. x \in lib /\ q = x.copy
    BY <1>3, <2>1, <2>2, <2>3
  <2> QED BY <2>4 DEF Complete
<1> QED BY <1>6, <1>7, <1>8

\* A serial number that a device has leads to that device, or to an error.
LEMMA MatchedSerial ==
  ASSUME NEW lib, Complete(lib, db), UniqueIn(db), NEW r, NEW M, M = Devices!MatchExistingDevice(lib, r), ~M.refused,
         NEW d \in LiveIn(db), r.sn # 0, db[d].sn = r.sn
  PROVE  M.dev.id = d
<1>1. PICK P, S, A: P = Devices!By(lib, "code", r.code) /\ S = Devices!By(lib, "sn", r.sn) /\ A = Devices!By(lib, "asset", r.asset)
  OBVIOUS
<1>2. PICK o, p, q: /\ o = {x.copy.id: x \in S \cup A} /\ p = (CHOOSE x \in P: TRUE).copy
                    /\ q = (CHOOSE x \in (IF S # {} THEN S ELSE A): TRUE).copy
  OBVIOUS
<1>3. M = CASE \E X \in {P, S, A}: Devices!Cardinality(X) > 1 -> Devices!Refused
            [] P # {} -> IF o \subseteq {p.id} THEN Devices!Match(p) ELSE Devices!Refused
            [] P = {} /\ o # {} -> IF r.code # 0 \/ Devices!Cardinality(o) > 1 THEN Devices!Refused ELSE Devices!Match(q)
            [] OTHER -> Devices!Match(Devices!Nobody)
  BY <1>1, <1>2 DEF Devices!MatchExistingDevice
<1>4. Devices!Refused.refused = TRUE /\ \A x: Devices!Match(x).dev = x
  BY DEF Devices!Refused, Devices!Match
<1>5. PICK x \in lib: x.copy = CopyOf(d, db)
  BY DEF Complete
<1>6. x.copy.sn = db[d].sn /\ x.copy.id = d
  BY <1>5 DEF CopyOf
<1>7. x \in S /\ d \in o
  <2>1. x \in S
    BY <1>1, <1>6 DEF Devices!By
  <2> QED BY <1>2, <1>6, <2>1
<1>8. \A y \in S: y.copy.id = d
  <2> SUFFICES ASSUME NEW y \in S
               PROVE  y.copy.id = d
    OBVIOUS
  <2>1. y \in lib /\ y.copy.sn = r.sn
    BY <1>1 DEF Devices!By
  <2>2. PICK e \in LiveIn(db): y.copy = CopyOf(e, db)
    BY <2>1 DEF Complete
  <2>3. y.copy.sn = db[e].sn /\ y.copy.id = e
    BY <2>2 DEF CopyOf
  <2>4. db[d]["sn"] = db[e]["sn"] /\ db[d]["sn"] # 0
    BY <2>1, <2>3
  <2> QED BY <2>3, <2>4 DEF UniqueIn
<1>9. CASE P # {} /\ o \subseteq {p.id} /\ M.dev = p
  BY <1>7, <1>9
<1>10. CASE M.dev = q
  <2>1. S # {}
    BY <1>7
  <2>2. PICK y: y = CHOOSE z \in S: TRUE
    OBVIOUS
  <2>3. y \in S /\ q = y.copy
    BY <1>2, <2>1, <2>2
  <2> QED BY <1>8, <1>10, <2>3
<1> QED BY <1>3, <1>4, <1>7, <1>9, <1>10

\* Where the serial number comes from that is sent for a line.
Gives(r, l, B) ==
  /\ r.cells = l /\ r.payload = [k \in {"code", "sn", "asset"} |-> r.payload[k]]
  /\ \A d \in LiveIn(B): l.sn # 0 /\ B[d].sn = l.sn => r.id = d
  /\ IF l.sn # 0 THEN r.payload.sn = l.sn
     ELSE r.payload.sn = 0 \/ (r.id \in LiveIn(B) /\ r.payload.sn = B[r.id].sn)

\* What is sent for a row that is valid.
LEMMA RowMade ==
  ASSUME NEW lib, Complete(lib, db), UniqueIn(db), NEW l, NEW r, r = Devices!BuildRow(lib, l), r.st = "valid"
  PROVE  Gives(r, l, db)
<1>1. PICK M, c: M = Devices!MatchExistingDevice(lib, l) /\ c = M.dev
  OBVIOUS
<1>2. PICK p: p = Devices!Payload(l, c)
  OBVIOUS
<1>3. PICK st: st = IF M.refused \/ ~Devices!RowChecks(l, c.id = 0) THEN "rejected" ELSE "valid"
  OBVIOUS
<1>4. r = [st |-> st, id |-> c.id, ver |-> c.ver, payload |-> p, cells |-> l, did |-> FALSE]
  BY <1>1, <1>2, <1>3, Zenon DEF Devices!BuildRow
<1>5. r.id = c.id /\ r.payload = p /\ r.cells = l /\ ~M.refused
  <2>1. r.st = st
    BY <1>4
  <2> QED BY <1>3, <1>4, <2>1
<1>6. p = [k \in {"code", "sn", "asset"} |-> IF l[k] # 0 THEN l[k] ELSE c[k]]
  BY <1>2 DEF Devices!Payload, Devices!Key
<1>7. p = [k \in {"code", "sn", "asset"} |-> p[k]] /\ p["sn"] = IF l["sn"] # 0 THEN l["sn"] ELSE c["sn"]
  BY <1>6
<1>8. \A d \in LiveIn(db): l.sn # 0 /\ db[d].sn = l.sn => c.id = d
  BY <1>1, <1>5, MatchedSerial
<1>9. ASSUME l.sn = 0
      PROVE  p.sn = 0 \/ (c.id \in LiveIn(db) /\ p.sn = db[c.id].sn)
  <2>1. p.sn = c.sn
    BY <1>7, <1>9
  <2>2. CASE c = Devices!Nobody
    BY <2>1, <2>2 DEF Devices!Nobody
  <2>3. ASSUME NEW d \in LiveIn(db), c = CopyOf(d, db)
        PROVE  c.id \in LiveIn(db) /\ c.sn = db[c.id].sn
    BY <2>3 DEF CopyOf
  <2> QED BY <1>1, <1>5, <2>1, <2>2, <2>3, MatchedWhat
<1> QED BY <1>5, <1>7, <1>8, <1>9 DEF Gives

\* The rows of a file that has been checked: each gives a serial number nobody
\* else has.
LEMMA FileApart ==
  ASSUME NEW lib, Complete(lib, db), UniqueIn(db), NEW f \in Seq(Devices!Line), NEW V, V = Devices!ValidateImportRows(lib, f)
  PROVE  RowsApart(V, db)
<1>1. PICK n \in Nat: DOMAIN f = 1..n
  OBVIOUS
<1>2. PICK R: R = [i \in 1..n |-> Devices!BuildRow(lib, f[i])]
  OBVIOUS
<1>3. V = [i \in 1..n |-> IF Devices!SameIdentifier(f, i) \/ Devices!SameDevice(R, i)
                          THEN [R[i] EXCEPT !.st = "rejected"] ELSE R[i]]
  BY <1>1, <1>2, Zenon DEF Devices!ValidateImportRows
<1>4. PICK T: T = ToDo(V)
  OBVIOUS
<1>5. ASSUME NEW i \in T
      PROVE  /\ i \in 1..n /\ V[i] = R[i] /\ R[i].st = "valid" /\ R[i] = Devices!BuildRow(lib, f[i])
             /\ ~Devices!SameIdentifier(f, i) /\ ~Devices!SameDevice(R, i)
  <2>1. i \in 1..n /\ V[i].st = "valid"
    BY <1>3, <1>4, <1>5 DEF ToDo
  <2>2. PICK x, y: x = R[i] /\ y = Devices!BuildRow(lib, f[i])
    OBVIOUS
  <2>3. y.st = (IF Devices!MatchExistingDevice(lib, f[i]).refused \/ ~Devices!RowChecks(f[i], Devices!MatchExistingDevice(lib, f[i]).dev.id = 0)
                THEN "rejected" ELSE "valid") /\ "st" \in DOMAIN y
    BY <2>2 DEF Devices!BuildRow
  <2>4. x = y
    BY <1>2, <2>1, <2>2
  <2>5. [x EXCEPT !.st = "rejected"].st = "rejected"
    BY <2>3, <2>4
  <2> QED BY <1>3, <2>1, <2>2, <2>4, <2>5
<1>6. ASSUME NEW i \in T
      PROVE  Gives(V[i], f[i], db)
  <2>1. PICK l, r: l = f[i] /\ r = V[i]
    OBVIOUS
  <2>2. r = Devices!BuildRow(lib, l) /\ r.st = "valid"
    BY <1>5, <2>1
  <2> QED BY <2>1, <2>2, RowMade
<1>7. \A d, e \in LiveIn(db): db[d].sn = db[e].sn => d = e \/ db[d].sn = 0
  <2>1. \A d, e \in LiveIn(db): db[d]["sn"] = db[e]["sn"] => d = e \/ db[d]["sn"] = 0
    BY DEF UniqueIn
  <2> QED BY <2>1
<1>8. ASSUME NEW i \in T
      PROVE  Fits(V[i], db)
  <2>1. PICK r, l: r = V[i] /\ l = f[i]
    OBVIOUS
  <2>2. Gives(r, l, db)
    BY <1>6, <2>1
  <2>3. ASSUME NEW d \in LiveIn(db), d # r.id, db[d].sn = r.payload.sn
        PROVE  r.payload.sn = 0
    <3>1. l.sn = 0
      BY <2>2, <2>3 DEF Gives
    <3>2. r.payload.sn = 0 \/ (r.id \in LiveIn(db) /\ r.payload.sn = db[r.id].sn)
      BY <2>2, <3>1 DEF Gives
    <3> QED BY <1>7, <2>3, <3>2
  <2>4. r.payload = [k \in {"code", "sn", "asset"} |-> r.payload[k]]
    BY <2>2 DEF Gives
  <2> QED BY <2>1, <2>3, <2>4 DEF Fits
<1>9. ASSUME NEW i \in T, NEW j \in T, i # j
      PROVE  Apart(V[i], V[j])
  <2>1. PICK r, l, q, o: r = V[i] /\ l = f[i] /\ q = V[j] /\ o = f[j]
    OBVIOUS
  <2>2. Gives(r, l, db) /\ Gives(q, o, db)
    BY <1>6, <2>1
  <2>3. r.id = q.id => r.id = 0
    <3>1. DOMAIN R = 1..n /\ R[i] = r /\ R[j] = q
      BY <1>2, <1>5, <2>1
    <3>2. ~(R[i].id # 0 /\ R[j].id = R[i].id)
      BY <1>5, <1>9, <3>1 DEF Devices!SameDevice
    <3> QED BY <3>1, <3>2
  <2>4. l.sn = o.sn => l.sn = 0
    <3>1. f[i]["sn"] = f[j]["sn"] => f[i]["sn"] = 0
      BY <1>1, <1>5, <1>9 DEF Devices!SameIdentifier, Devices!Key
    <3> QED BY <2>1, <3>1
  <2>5. 0 \notin LiveIn(db)
    BY ImportsAssumption DEF LiveIn
  <2>6. ASSUME r.payload.sn = q.payload.sn, r.payload.sn # 0
        PROVE  FALSE
    <3>1. CASE l.sn # 0 /\ o.sn # 0
      BY <2>2, <2>4, <2>6, <3>1 DEF Gives
    <3>2. CASE l.sn # 0 /\ o.sn = 0
      <4>1. q.id \in LiveIn(db) /\ db[q.id].sn = l.sn
        BY <2>2, <2>6, <3>2 DEF Gives
      <4>2. r.id = q.id
        BY <2>2, <3>2, <4>1 DEF Gives
      <4> QED BY <2>3, <2>5, <4>1, <4>2
    <3>3. CASE l.sn = 0 /\ o.sn # 0
      <4>1. r.id \in LiveIn(db) /\ db[r.id].sn = o.sn
        BY <2>2, <2>6, <3>3 DEF Gives
      <4>2. q.id = r.id
        BY <2>2, <3>3, <4>1 DEF Gives
      <4> QED BY <2>3, <2>5, <4>1, <4>2
    <3>4. CASE l.sn = 0 /\ o.sn = 0
      <4>1. r.id \in LiveIn(db) /\ db[r.id].sn = r.payload.sn /\ q.id \in LiveIn(db) /\ db[q.id].sn = q.payload.sn
        BY <2>2, <2>6, <3>4 DEF Gives
      <4>2. q.id = r.id
        BY <1>7, <2>6, <4>1
      <4> QED BY <2>3, <2>5, <4>1, <4>2
    <3> QED BY <3>1, <3>2, <3>3, <3>4
  <2> QED BY <2>1, <2>3, <2>6 DEF Apart
<1> QED BY <1>4, <1>8, <1>9 DEF RowsApart

-----------------------------------------------------------------------------
(* The steps that keep the serial numbers apart *)

NowSerials == SerialsInv(net, dlg, db)

\* A call is answered: its page or its row stays.
LEMMA AnswerKeeps ==
  ASSUME NEW N, NEW s, PagesAsked(N, s), RowsSent(N, s), NEW m \in N, NEW a, a.ctx = m.ctx, a.op = m.op, a.arg = m.arg, a.res # "pending"
  PROVE  PagesAsked((N \ {m}) \cup {a}, s) /\ RowsSent((N \ {m}) \cup {a}, s)
<1>1. PICK M: M = (N \ {m}) \cup {a}
  OBVIOUS
<1>2. ASSUME NEW x \in M
      PROVE  /\ (x.ctx = "library" \/ x.ctx = "row") /\ (x.res = "pending" => ~x.did)
             /\ x.ctx = "library" => s.loading /\ x.arg.page \in s.await
             /\ x.ctx = "row" => RowSent(x, s.batch[s.todo[1]])
  <2>1. CASE x = a
    BY <2>1 DEF PagesAsked, LibraryCalls, RowsSent, RowCalls, RowSent
  <2>2. CASE x \in N
    BY <2>2 DEF PagesAsked, LibraryCalls, RowsSent, RowCalls
  <2> QED BY <1>1, <2>1, <2>2
<1>3. ASSUME NEW x \in LibraryCalls(M), NEW y \in LibraryCalls(M), x.arg.page = y.arg.page
      PROVE  x = y
  <2>1. \A z \in LibraryCalls(M): z = a \/ (z \in LibraryCalls(N) /\ z # m)
    BY <1>1 DEF LibraryCalls
  <2>2. a \in LibraryCalls(M) => m \in LibraryCalls(N)
    BY DEF LibraryCalls
  <2> QED BY <1>3, <2>1, <2>2 DEF PagesAsked
<1>4. PagesAsked(M, s)
  BY <1>2, <1>3 DEF PagesAsked, LibraryCalls
<1>5. RowsSent(M, s)
  BY <1>2 DEF RowsSent, RowCalls
<1> QED BY <1>1, <1>4, <1>5

\* Without a write, and with true pages, an answer changes nothing about the rows.
LEMMA AnswerApart ==
  ASSUME NEW N, NEW s, NEW B, FairInv(N, s, B), NEW m \in N, m.did = FALSE, NEW a, a.ctx = m.ctx,
         a.ctx = "library" /\ a.res = "ok" => PageRead(a, B)
  PROVE  FairInv((N \ {m}) \cup {a}, s, B)
<1>1. PICK M: M = (N \ {m}) \cup {a}
  OBVIOUS
<1>2. ASSUME LibraryRead(N, s, B)
      PROVE  LibraryRead(M, s, B)
  <2>1. \A x \in LibraryCalls(M): x.res = "ok" => PageRead(x, B)
    BY <1>1, <1>2 DEF LibraryRead, LibraryCalls
  <2> QED BY <1>2, <2>1 DEF LibraryRead
<1>3. ASSUME LoopApart(N, s, B)
      PROVE  LoopApart(M, s, B)
  <2>1. ASSUME NEW x \in RowCalls(M), NEW k \in 1..Len(s.todo)
        PROVE  (k = 1 /\ x.did) \/ Fits(s.batch[s.todo[k]], B)
    <3>1. CASE x \in RowCalls(N)
      BY <1>3, <3>1 DEF LoopApart
    <3>2. CASE x = a
      <4>1. m \in RowCalls(N)
        BY <2>1, <3>2 DEF RowCalls
      <4> QED BY <1>3, <4>1 DEF LoopApart
    <3> QED BY <1>1, <3>1, <3>2 DEF RowCalls
  <2> QED BY <1>3, <2>1 DEF LoopApart
<1> QED BY <1>1, <1>2, <1>3 DEF FairInv

\* A row is written: its serial number stays that of one device.
LEMMA WrittenApart ==
  ASSUME NEW B, NEW C, UniqueIn(B), NEW d \in Device, NEW r, Fits(r, B), d = r.id \/ r.id = 0,
         \A e \in Device \ {d}: C[e] = B[e], C[d].sn = r.payload.sn,
         \A e \in LiveIn(B) \ {d}: B[e].code # C[d].code /\ (C[d].asset = 0 \/ B[e].asset # C[d].asset)
  PROVE  UniqueIn(C) /\ \A o: Fits(o, B) /\ Apart(r, o) => Fits(o, C)
<1>1. \A e \in LiveIn(C): e = d \/ (e \in LiveIn(B) \ {d} /\ C[e] = B[e])
  BY DEF LiveIn
<1>2. \A e \in LiveIn(B) \ {d}: e # r.id
  BY ImportsAssumption DEF LiveIn
<1>3. \A e \in LiveIn(B) \ {d}: B[e].sn = C[d].sn => C[d].sn = 0
  BY <1>2 DEF Fits
<1>4. ASSUME NEW k \in {"code", "sn", "asset"}, NEW e \in LiveIn(B) \ {d}, B[e][k] = C[d][k]
      PROVE  C[d][k] = 0
  <2>1. CASE k = "code"
    BY <1>4, <2>1
  <2>2. CASE k = "asset"
    BY <1>4, <2>2
  <2>3. CASE k = "sn"
    BY <1>3, <1>4, <2>3
  <2> QED BY <2>1, <2>2, <2>3
<1>5. UniqueIn(C)
  <2> SUFFICES ASSUME NEW k \in {"code", "sn", "asset"}, NEW x \in LiveIn(C), NEW y \in LiveIn(C), C[x][k] = C[y][k], x # y
               PROVE  C[x][k] = 0
    BY DEF UniqueIn
  <2>1. CASE x = d
    <3>1. y \in LiveIn(B) \ {d} /\ C[y] = B[y]
      BY <1>1, <2>1
    <3> QED BY <1>4, <2>1, <3>1
  <2>2. CASE y = d
    <3>1. x \in LiveIn(B) \ {d} /\ C[x] = B[x]
      BY <1>1, <2>2
    <3> QED BY <1>4, <2>2, <3>1
  <2>3. CASE x # d /\ y # d
    <3>1. x \in LiveIn(B) /\ y \in LiveIn(B) /\ C[x] = B[x] /\ C[y] = B[y]
      BY <1>1, <2>3
    <3> QED BY <3>1 DEF UniqueIn
  <2> QED BY <2>1, <2>2, <2>3
<1>6. ASSUME NEW o, Fits(o, B), Apart(r, o)
      PROVE  Fits(o, C)
  <2>1. ASSUME NEW e \in LiveIn(C), e # o.id, C[e].sn = o.payload.sn
        PROVE  o.payload.sn = 0
    <3>1. CASE e = d
      BY <1>6, <2>1, <3>1 DEF Apart
    <3>2. CASE e # d
      <4>1. e \in LiveIn(B) /\ C[e] = B[e]
        BY <1>1, <3>2
      <4> QED BY <1>6, <2>1, <4>1 DEF Fits
    <3> QED BY <3>1, <3>2
  <2> QED BY <1>6, <2>1 DEF Fits
<1> QED BY <1>5, <1>6

LEMMA PageServedSerials ==
  ASSUME DevicesInv, NowSerials, NEW m \in net, Devices!ServePage(m)
  PROVE  NowSerials'
<1>1. m.op = "page" /\ m.res = "pending" /\ dlg' = dlg /\ db' = db /\ DeviceCallOK(m, db)
  BY DEF Devices!ServePage, Devices!Asked, DevicesInv
<1>2. m.ctx = "library" /\ m.did = FALSE
  <2>1. m.did \in BOOLEAN /\ m.ctx = "library"
    BY <1>1 DEF DeviceCallOK, TypedCall
  <2> QED BY <1>1, <2>1 DEF NowSerials, SerialsInv, PagesAsked
<1>3. m.arg.page \in Nat
  <2>1. m \in LibraryCalls(net)
    BY <1>2 DEF LibraryCalls
  <2> QED BY <2>1 DEF NowSerials, SerialsInv, PagesAsked
<1>4. PICK D: D = {d \in {d \in Device: db[d].live}:
                     Devices!Cardinality({e \in {d2 \in Device: db[d2].live}: e < d}) \div PerPage = m.arg.page - 1}
  OBVIOUS
<1>5. PICK x: x = [items |-> Devices!Copies(D), total |-> Devices!Cardinality(Devices!Existing)]
  OBVIOUS
<1>6. PICK a: a = [op |-> m.op, ctx |-> m.ctx, res |-> "ok", did |-> FALSE, arg |-> m.arg, body |-> x]
  OBVIOUS
<1>7. net' = (net \ {m}) \cup {a}
  BY <1>4, <1>5, <1>6, Zenon DEF Devices!ServePage, Devices!Existing, Devices!Reply
<1>8. a.op = m.op /\ a.ctx = m.ctx /\ a.arg = m.arg /\ a.res = "ok" /\ a.body = x
  BY <1>6
<1>9. D = {e \in LiveIn(db): PageOf(e, db) = m.arg.page}
  <2>1. \A X: Devices!Cardinality(X) = Cardinality(X)
    BY DEF Devices!Cardinality, Cardinality
  <2>2. \A d \in LiveIn(db): Cardinality({e \in LiveIn(db): e < d}) \div PerPage \in Int
    <3> SUFFICES ASSUME NEW d \in LiveIn(db)
                 PROVE  Cardinality({e \in LiveIn(db): e < d}) \div PerPage \in Int
      OBVIOUS
    <3>1. PageOf(d, db) \in Nat
      BY PagesCover
    <3>2. LiveIn(db) \in SUBSET Device /\ IsFiniteSet(Device) /\ PerPage \in Nat \ {0}
      BY ImportsAssumption DEF LiveIn
    <3>3. {e \in LiveIn(db): e < d} \in SUBSET Device
      BY <3>2
    <3>4. Cardinality({e \in LiveIn(db): e < d}) \in Nat
      BY <3>2, <3>3, FS_Subset, FS_CardinalityType
    <3> QED BY <3>2, <3>4
  <2>3. \A g \in Int: g + 1 = m.arg.page <=> g = m.arg.page - 1
    BY <1>3
  <2>4. \A d \in LiveIn(db): PageOf(d, db) = m.arg.page <=> Cardinality({e \in LiveIn(db): e < d}) \div PerPage = m.arg.page - 1
    BY <2>2, <2>3 DEF PageOf
  <2> QED BY <1>4, <2>1, <2>4 DEF LiveIn
<1>10. PageRead(a, db)
  <2>1. x.items = {CopyOf(d, db): d \in D}
    BY <1>5 DEF Devices!Copies, CopyOf
  <2>2. x.total = Cardinality(LiveIn(db))
    BY <1>5 DEF Devices!Cardinality, Cardinality, Devices!Existing, LiveIn
  <2> QED BY <1>8, <1>9, <2>1, <2>2 DEF PageRead
<1>11. PagesAsked(net', dlg) /\ RowsSent(net', dlg)
  BY <1>7, <1>8, AnswerKeeps DEF NowSerials, SerialsInv
<1>12. ASSUME FairInv(net, dlg, db)
       PROVE  FairInv(net', dlg, db)
  BY <1>2, <1>7, <1>8, <1>10, <1>12, AnswerApart
<1> QED BY <1>1, <1>11, <1>12 DEF NowSerials, SerialsInv

LEMMA CallLostSerials ==
  ASSUME DevicesInv, NowSerials, NEW m \in net, m.res = "pending", Devices!Reply(m, "failed", FALSE, Devices!NoBody), dlg' = dlg, db' = db
  PROVE  NowSerials'
<1>1. m.did = FALSE
  <2>1. m.did \in BOOLEAN
    BY DEF DevicesInv, DeviceCallOK, TypedCall
  <2> QED BY <2>1 DEF NowSerials, SerialsInv, PagesAsked
<1>2. PICK a: a = [op |-> m.op, ctx |-> m.ctx, res |-> "failed", did |-> FALSE, arg |-> m.arg, body |-> Devices!NoBody]
  OBVIOUS
<1>3. net' = (net \ {m}) \cup {a}
  BY <1>2 DEF Devices!Reply
<1>4. a.op = m.op /\ a.ctx = m.ctx /\ a.arg = m.arg /\ a.res = "failed"
  BY <1>2
<1>5. PagesAsked(net', dlg) /\ RowsSent(net', dlg)
  BY <1>3, <1>4, AnswerKeeps DEF NowSerials, SerialsInv
<1>6. ASSUME FairInv(net, dlg, db)
      PROVE  FairInv(net', dlg, db)
  BY <1>1, <1>3, <1>4, <1>6, AnswerApart
<1> QED BY <1>5, <1>6 DEF NowSerials, SerialsInv

\* The row the back end is asked to write, when nothing has come in between.
LEMMA RowAsked ==
  ASSUME DevicesInv, NowSerials, dlg.fair, NEW m \in net, m.res = "pending", m.op # "page", NEW r, r = dlg.batch[dlg.todo[1]]
  PROVE  /\ m.ctx = "row" /\ RowCalls(net) = {m} /\ dlg.importing /\ UniqueIn(db) /\ LoopApart(net, dlg, db) /\ ~dlg.loading
         /\ 1 \in 1..Len(dlg.todo) /\ Fits(r, db) /\ RowSent(m, r) /\ (dlg.same \/ dlg.rows = <<>>)
<1>1. DeviceCallOK(m, db) /\ OneCall(net, dlg.importing) /\ LoopOK(dlg)
  BY DEF DevicesInv, DeviceDialog
<1>2. m.ctx = "row" /\ ~m.did
  BY <1>1 DEF DeviceCallOK, NowSerials, SerialsInv, PagesAsked
<1>3. RowCalls(net) = {m} /\ dlg.importing
  BY <1>1, <1>2 DEF OneCall, RowCalls
<1>4. FairInv(net, dlg, db)
  BY DEF NowSerials, SerialsInv
<1>5. UniqueIn(db) /\ LoopApart(net, dlg, db) /\ ~dlg.loading /\ (dlg.same \/ dlg.rows = <<>>)
  BY <1>3, <1>4 DEF FairInv
<1>6. 1 \in 1..Len(dlg.todo)
  <2>1. PICK D: D = DOMAIN dlg.batch
    OBVIOUS
  <2>2. dlg.todo \in Seq(D) /\ dlg.todo # <<>>
    BY <1>1, <1>3, <2>1 DEF LoopOK
  <2>3. Len(dlg.todo) \in Nat \ {0}
    BY <2>2, TailOf
  <2> QED BY <2>3
<1>7. Fits(r, db)
  BY <1>2, <1>3, <1>5, <1>6 DEF LoopApart
<1>8. RowSent(m, r)
  BY <1>3 DEF NowSerials, SerialsInv, RowsSent
<1> QED BY <1>2, <1>3, <1>5, <1>6, <1>7, <1>8

\* The back end executes the row that is under way.
LEMMA RowWrittenSerials ==
  ASSUME DevicesInv, NowSerials, NEW m \in net, m.res = "pending", m.op # "page", dlg' = dlg,
         NEW d \in Device, NEW p, NEW v, Devices!Stored(d, p, v), Devices!NoClash(d, p), Devices!Settled(m),
         d = m.arg.id \/ m.op = "create", dlg.fair => p.sn = m.arg.payload.sn
  PROVE  NowSerials'
<1>1. DeviceTable(db)
  BY DEF DevicesInv
<1>2. PICK x: x = [live |-> TRUE, ver |-> v, code |-> p.code, sn |-> p.sn, asset |-> p.asset]
  OBVIOUS
<1>3. db' = [db EXCEPT ![d] = x]
  BY <1>2, Zenon DEF Devices!Stored
<1>4. db'[d] = x /\ \A e \in Device \ {d}: db'[e] = db[e]
  BY <1>1, <1>3 DEF DeviceTable
<1>5. PICK res \in {"ok", "failed"}: Devices!Reply(m, res, TRUE, Devices!NoBody)
  BY DEF Devices!Settled
<1>6. PICK a: a = [op |-> m.op, ctx |-> m.ctx, res |-> res, did |-> TRUE, arg |-> m.arg, body |-> Devices!NoBody]
  OBVIOUS
<1>7. net' = (net \ {m}) \cup {a}
  BY <1>5, <1>6 DEF Devices!Reply
<1>8. a.op = m.op /\ a.ctx = m.ctx /\ a.arg = m.arg /\ a.res # "pending" /\ a.did = TRUE
  BY <1>5, <1>6
<1>9. PagesAsked(net', dlg) /\ RowsSent(net', dlg)
  BY <1>7, <1>8, AnswerKeeps DEF NowSerials, SerialsInv
<1>10. ASSUME dlg.fair
       PROVE  FairInv(net', dlg, db')
  <2>1. PICK r: r = dlg.batch[dlg.todo[1]]
    OBVIOUS
  <2>2. /\ m.ctx = "row" /\ RowCalls(net) = {m} /\ dlg.importing /\ UniqueIn(db) /\ LoopApart(net, dlg, db) /\ ~dlg.loading
        /\ 1 \in 1..Len(dlg.todo) /\ Fits(r, db) /\ RowSent(m, r) /\ (dlg.same \/ dlg.rows = <<>>)
    BY <1>10, <2>1, RowAsked
  <2>3. d = r.id \/ r.id = 0
    <3>1. m.arg.id = r.id /\ m.op = IF r.id = 0 THEN "create" ELSE "update"
      BY <2>2 DEF RowSent
    <3> QED BY <3>1
  <2>4. PICK C: C = db'
    OBVIOUS
  <2>5. (\A e \in Device \ {d}: C[e] = db[e]) /\ C[d].sn = r.payload.sn
    <3>1. m.arg.payload = r.payload
      BY <2>2 DEF RowSent
    <3>2. x.sn = p.sn
      BY <1>2
    <3> QED BY <1>4, <1>10, <2>4, <3>1, <3>2
  <2>6. \A e \in LiveIn(db) \ {d}: db[e].code # C[d].code /\ (C[d].asset = 0 \/ db[e].asset # C[d].asset)
    <3>1. x.code = p.code /\ x.asset = p.asset
      BY <1>2
    <3>2. \A e \in LiveIn(db) \ {d}: db[e].code # p.code /\ (p.asset = 0 \/ db[e].asset # p.asset)
      BY DEF Devices!NoClash, Devices!Existing, LiveIn
    <3> QED BY <1>4, <2>4, <3>1, <3>2
  <2>7. UniqueIn(C) /\ \A o: Fits(o, db) /\ Apart(r, o) => Fits(o, C)
    BY <2>2, <2>3, <2>5, <2>6, WrittenApart
  <2>8. RowCalls(net') = {a}
    BY <1>7, <1>8, <2>2 DEF RowCalls
  <2>9. LoopApart(net', dlg, C)
    <3>1. ASSUME NEW k \in 1..Len(dlg.todo), k # 1
          PROVE  Fits(dlg.batch[dlg.todo[k]], C)
      <4>1. Fits(dlg.batch[dlg.todo[k]], db)
        BY <2>2, <3>1 DEF LoopApart
      <4>2. Apart(r, dlg.batch[dlg.todo[k]])
        BY <2>1, <2>2, <3>1 DEF LoopApart
      <4> QED BY <2>7, <4>1, <4>2
    <3> QED BY <1>8, <2>2, <2>8, <3>1 DEF LoopApart
  <2> QED BY <2>2, <2>4, <2>7, <2>9 DEF FairInv
<1> QED BY <1>9, <1>10 DEF NowSerials, SerialsInv

LEMMA ServedSerials ==
  ASSUME DevicesInv, NowSerials, NEW m \in net,
         Devices!ServePage(m) \/ Devices!ServeCreate(m) \/ Devices!ServeUpdate(m) \/ Devices!Lose(m)
  PROVE  NowSerials'
<1>1. CASE Devices!ServePage(m)
  BY <1>1, PageServedSerials
<1>2. CASE Devices!Lose(m)
  <2>1. m.res = "pending" /\ Devices!Reply(m, "failed", FALSE, Devices!NoBody) /\ dlg' = dlg /\ db' = db
    BY <1>2 DEF Devices!Lose
  <2> QED BY <2>1, CallLostSerials
<1>3. CASE Devices!ServeCreate(m)
  <2>1. m.op = "create" /\ m.res = "pending" /\ dlg' = dlg
    BY <1>3 DEF Devices!ServeCreate, Devices!Asked
  <2>2. CASE Devices!Reply(m, "failed", FALSE, Devices!NoBody) /\ db' = db
    BY <2>1, <2>2, CallLostSerials
  <2>3. ASSUME NEW d \in Device, NEW p, p = [m.arg.payload EXCEPT !.code = IF @ = 0 THEN Devices!Auto(d) ELSE @],
               Devices!NoClash(d, p), Devices!Stored(d, p, 1), Devices!Settled(m)
        PROVE  NowSerials'
    <3>1. ASSUME dlg.fair
          PROVE  p.sn = m.arg.payload.sn
      <4>1. PICK r: r = dlg.batch[dlg.todo[1]]
        OBVIOUS
      <4>2. Fits(r, db) /\ RowSent(m, r)
        BY <2>1, <3>1, <4>1, RowAsked
      <4>3. PICK q: q = m.arg.payload
        OBVIOUS
      <4>4. q = [k \in {"code", "sn", "asset"} |-> q[k]]
        BY <4>2, <4>3 DEF Fits, RowSent
      <4>5. PICK c: c = IF q.code = 0 THEN Devices!Auto(d) ELSE q.code
        OBVIOUS
      <4>6. p = [q EXCEPT !.code = c]
        BY <2>3, <4>3, <4>5
      <4>7. p["sn"] = q["sn"]
        BY <4>4, <4>6
      <4> QED BY <4>3, <4>7
    <3> QED BY <2>1, <2>3, <3>1, RowWrittenSerials
  <2> QED BY <1>3, <2>2, <2>3, Zenon DEF Devices!ServeCreate, Devices!Existing
<1>4. CASE Devices!ServeUpdate(m)
  <2>1. m.op = "update" /\ m.res = "pending" /\ dlg' = dlg
    BY <1>4 DEF Devices!ServeUpdate, Devices!Asked
  <2>2. CASE Devices!Reply(m, "failed", FALSE, Devices!NoBody) /\ db' = db
    BY <2>1, <2>2, CallLostSerials
  <2>3. CASE /\ Devices!Current(m) /\ Devices!NoClash(m.arg.id, m.arg.payload)
             /\ Devices!Stored(m.arg.id, m.arg.payload, m.arg.ver + 1) /\ Devices!Settled(m)
    <3>1. PICK d, p: d = m.arg.id /\ p = m.arg.payload
      OBVIOUS
    <3>2. d \in Device
      BY <2>3, <3>1 DEF Devices!Current, Devices!Existing
    <3> QED BY <2>1, <2>3, <3>1, <3>2, RowWrittenSerials
  <2> QED BY <1>4, <2>2, <2>3, Zenon DEF Devices!ServeUpdate
<1> QED BY <1>1, <1>2, <1>3, <1>4

\* The dialog goes on with what a page has brought.
LEMMA PageLandsSerials ==
  ASSUME DevicesInv, NowSerials, NEW m \in net, Devices!LandPage(m)
  PROVE  NowSerials'
<1>1. m.ctx = "library" /\ m.res = "ok" /\ db' = db
  BY DEF Devices!LandPage, Devices!Answered
<1>2. PICK more: more = IF m.arg.page = 1 THEN 2..(((m.body.total + PerPage) - 1) \div PerPage) ELSE {}
  OBVIOUS
<1>3. PICK w: w = (dlg.await \ {m.arg.page}) \cup more
  OBVIOUS
<1>4. PICK L: L = dlg.lib \cup {[copy |-> c, page |-> m.arg.page]: c \in m.body.items}
  OBVIOUS
<1>5. /\ net' = (net \ {m}) \cup {Devices!FetchPage(q): q \in more}
      /\ dlg' = IF w # {} THEN [dlg EXCEPT !.await = w, !.lib = L]
                ELSE Devices!Show([[dlg EXCEPT !.await = w, !.lib = L] EXCEPT !.loading = FALSE, !.lib = {}, !.file = <<>>],
                                  Devices!ValidateImportRows(L, dlg.file))
  BY <1>2, <1>3, <1>4, Zenon DEF Devices!LandPage
<1>6. PICK R, B, e, T, g, k, f, ld, lb, aw, fr:
        dlg = [kind |-> "devices", rows |-> R, batch |-> B, same |-> e, todo |-> T, importing |-> g, done |-> k, file |-> f,
               loading |-> ld, lib |-> lb, await |-> aw, fair |-> fr]
  BY DEF DevicesInv, DeviceDialog
<1>7. m \in LibraryCalls(net) /\ PagesAsked(net, dlg) /\ RowsSent(net, dlg)
  BY <1>1 DEF LibraryCalls, NowSerials, SerialsInv
<1>8. dlg.loading /\ m.arg.page \in dlg.await /\ dlg.await \subseteq Nat \ {0} /\ (1 \in dlg.await => dlg.await = {1})
  BY <1>7 DEF PagesAsked
<1>9. ASSUME NEW q
      PROVE  LET a == Devices!FetchPage(q) IN a.ctx = "library" /\ a.res = "pending" /\ ~a.did /\ a.arg.page = q
  BY DEF Devices!FetchPage, Devices!Request
<1>10. more \subseteq Nat \ {0} /\ 1 \notin more /\ 1 \notin w /\ w \subseteq Nat \ {0}
  <2>1. \A q \in more: q \in Int /\ 2 =< q
    BY <1>2
  <2>2. more \subseteq Nat \ {0} /\ 1 \notin more
    BY <2>1
  <2> QED BY <1>3, <1>8, <2>2
<1>11. \A x \in LibraryCalls(net): x # m => x.arg.page \in w
  <2> SUFFICES ASSUME NEW x \in LibraryCalls(net), x # m
               PROVE  x.arg.page \in w
    OBVIOUS
  <2>1. x.arg.page \in dlg.await /\ x.arg.page # m.arg.page
    BY <1>7 DEF PagesAsked
  <2> QED BY <1>3, <2>1
<1>12. \A x \in LibraryCalls(net'): \/ x \in LibraryCalls(net) /\ x # m
                                   \/ \E q \in more: x = Devices!FetchPage(q)
  BY <1>5 DEF LibraryCalls
<1>13. \A x \in LibraryCalls(net'): x.arg.page \in w
  BY <1>3, <1>9, <1>11, <1>12
<1>14. ASSUME NEW x \in LibraryCalls(net'), NEW y \in LibraryCalls(net'), x.arg.page = y.arg.page
       PROVE  x = y
  <2>1. ASSUME more # {}, NEW z \in LibraryCalls(net), z # m
        PROVE  FALSE
    <3>1. m.arg.page = 1 /\ dlg.await = {1}
      BY <1>2, <1>8, <2>1
    <3> QED BY <1>7, <2>1, <3>1 DEF PagesAsked
  <2>2. CASE more # {}
    <3>1. PICK q \in more, o \in more: x = Devices!FetchPage(q) /\ y = Devices!FetchPage(o)
      BY <1>12, <2>1, <2>2
    <3> QED BY <1>9, <1>14, <3>1
  <2>3. CASE more = {}
    BY <1>7, <1>12, <1>14, <2>3 DEF PagesAsked
  <2> QED BY <2>2, <2>3
<1>15. \A x \in net': (x.ctx = "library" \/ x.ctx = "row") /\ (x.res = "pending" => ~x.did)
  BY <1>5, <1>7, <1>9 DEF PagesAsked
<1>16. RowCalls(net') = RowCalls(net)
  BY <1>1, <1>5, <1>9 DEF RowCalls
<1>17. ASSUME fr
       PROVE  FairInv(net, dlg, db) /\ ~dlg.importing /\ LibraryRead(net, dlg, db) /\ UniqueIn(db)
  <2>1. FairInv(net, dlg, db)
    BY <1>6, <1>17 DEF NowSerials, SerialsInv
  <2> QED BY <1>8, <2>1 DEF FairInv
<1>18. ASSUME fr
       PROVE  /\ \A x \in L: \E d \in LiveIn(db): x.copy = CopyOf(d, db)
              /\ \A d \in LiveIn(db): PageOf(d, db) \in w \/ \E x \in L: x.copy = CopyOf(d, db)
  <2>1. PagesAsked(net, dlg) /\ LibraryRead(net, dlg, db) /\ m \in LibraryCalls(net) /\ m.res = "ok"
    BY <1>1, <1>7, <1>17, <1>18
  <2>2. \A q \in dlg.await: q = m.arg.page \/ q \in w
    BY <1>3
  <2>3. m.arg.page = 1 => 2..(((m.body.total + PerPage) - 1) \div PerPage) \subseteq w
    BY <1>2, <1>3
  <2>4. dlg.lib \subseteq L /\ \A x \in L: x \in dlg.lib \/ x.copy \in m.body.items
    BY <1>4
  <2>5. ASSUME NEW c \in m.body.items
        PROVE  \E x \in L: x.copy = c
    <3>1. [copy |-> c, page |-> m.arg.page] \in L /\ [copy |-> c, page |-> m.arg.page].copy = c
      BY <1>4
    <3> QED BY <3>1
  <2>6. Brings(m, dlg, w, L)
    BY <2>2, <2>3, <2>4, <2>5 DEF Brings
  <2> QED BY <2>1, <2>6, PageComes
<1>19. PICK t: t = dlg'
  OBVIOUS
<1>20. CASE w # {}
  <2>1. t = [dlg EXCEPT !.await = w, !.lib = L]
    BY <1>5, <1>19, <1>20
  <2>2. t = [kind |-> "devices", rows |-> R, batch |-> B, same |-> e, todo |-> T, importing |-> g, done |-> k, file |-> f,
             loading |-> ld, lib |-> L, await |-> w, fair |-> fr]
    BY <1>6, <2>1
  <2>3. /\ t.rows = dlg.rows /\ t.batch = dlg.batch /\ t.todo = dlg.todo /\ t.importing = dlg.importing /\ t.loading = dlg.loading
        /\ t.await = w /\ t.lib = L /\ t.fair = fr /\ dlg.fair = fr
    BY <1>6, <2>2
  <2>4. PagesAsked(net', t)
    BY <1>7, <1>8, <1>10, <1>13, <1>14, <1>15, <2>3 DEF PagesAsked
  <2>5. RowsSent(net', t)
    BY <1>7, <1>16, <2>3 DEF RowsSent
  <2>6. ASSUME fr
        PROVE  FairInv(net', t, db)
    <3>1. \A x \in LibraryCalls(net'): x.res = "ok" => PageRead(x, db)
      BY <1>9, <1>12, <1>17, <2>6 DEF LibraryRead
    <3>2. LibraryRead(net', t, db)
      BY <1>18, <2>3, <2>6, <3>1 DEF LibraryRead
    <3> QED BY <1>8, <1>17, <2>3, <2>6, <3>2 DEF FairInv
  <2> QED BY <1>1, <1>19, <2>3, <2>4, <2>5, <2>6 DEF NowSerials, SerialsInv
<1>21. CASE w = {}
  <2>1. PICK V: V = Devices!ValidateImportRows(L, dlg.file)
    OBVIOUS
  <2>2. PICK n, E, z, k0, s: /\ n = FALSE /\ E = {} /\ z = <<>> /\ k0 = FALSE
                             /\ s = [[dlg EXCEPT !.await = w, !.lib = L] EXCEPT !.loading = n, !.lib = E, !.file = z]
    OBVIOUS
  <2>3. PICK E2: E2 = ~s.importing /\ t = [s EXCEPT !.rows = V, !.same = E2, !.done = k0]
    BY <1>5, <1>19, <1>21, <2>1, <2>2, Zenon DEF Devices!Show
  <2>4. t = [kind |-> "devices", rows |-> V, batch |-> B, same |-> E2, todo |-> T, importing |-> g, done |-> k0, file |-> z,
             loading |-> n, lib |-> E, await |-> w, fair |-> fr]
    BY <1>6, <2>2, <2>3
  <2>5. /\ t.rows = V /\ t.batch = dlg.batch /\ t.todo = dlg.todo /\ t.importing = dlg.importing /\ t.loading = FALSE
        /\ t.await = w /\ t.lib = {} /\ t.fair = fr /\ dlg.fair = fr
    BY <1>6, <2>2, <2>4
  <2>6. PagesAsked(net', t)
    <3>1. LibraryCalls(net') = {}
      BY <1>13, <1>21
    <3>2. t.fair \in BOOLEAN
      BY <1>7, <2>5 DEF PagesAsked
    <3> QED BY <1>10, <1>15, <1>21, <2>5, <3>1, <3>2 DEF PagesAsked
  <2>7. RowsSent(net', t)
    BY <1>7, <1>16, <2>5 DEF RowsSent
  <2>8. ASSUME fr
        PROVE  FairInv(net', t, db)
    <3>1. Complete(L, db)
      BY <1>18, <1>21, <2>8 DEF Complete
    <3>2. dlg.file \in Seq(Devices!Line)
      BY DEF DevicesInv, DeviceDialog
    <3>3. RowsApart(V, db)
      BY <1>17, <2>1, <2>8, <3>1, <3>2, FileApart
    <3> QED BY <1>17, <2>5, <2>8, <3>3 DEF FairInv
  <2> QED BY <1>1, <1>19, <2>5, <2>6, <2>7, <2>8 DEF NowSerials, SerialsInv
<1> QED BY <1>20, <1>21

LEMMA PageLostSerials ==
  ASSUME DevicesInv, NowSerials, NEW m \in net, Devices!LandPageLost(m)
  PROVE  NowSerials'
<1>1. PICK n, E: n = FALSE /\ E = {}
  OBVIOUS
<1>2. /\ net' = {x \in net: x.ctx # "library"}
      /\ dlg' = [dlg EXCEPT !.loading = n, !.await = E, !.lib = E, !.fair = n]
  BY <1>1, Zenon DEF Devices!LandPageLost
<1>3. PICK t: t = dlg'
  OBVIOUS
<1>4. /\ t.loading = FALSE /\ t.await = {} /\ t.lib = {} /\ t.fair = FALSE /\ t.batch = dlg.batch /\ t.todo = dlg.todo
  BY <1>1, <1>2, <1>3 DEF DevicesInv, DeviceDialog
<1>5. LibraryCalls(net') = {} /\ RowCalls(net') = RowCalls(net)
  BY <1>2 DEF LibraryCalls, RowCalls
<1>6. PagesAsked(net', t)
  BY <1>2, <1>4, <1>5 DEF NowSerials, SerialsInv, PagesAsked
<1>7. RowsSent(net', t)
  BY <1>4, <1>5 DEF NowSerials, SerialsInv, RowsSent
<1> QED BY <1>3, <1>4, <1>6, <1>7 DEF NowSerials, SerialsInv

LEMMA FileReadSerials ==
  ASSUME DevicesInv, NowSerials, NEW file \in bound.files, Devices!OnFileChange(file)
  PROVE  NowSerials'
<1>1. PICK y, E, W, u: y = TRUE /\ E = {} /\ W = {1} /\ u = (~dlg.importing /\ Devices!Unique)
  OBVIOUS
<1>2. PICK a: a = Devices!FetchPage(1)
  OBVIOUS
<1>3. /\ db' = db /\ net' = net \cup {a} /\ ~dlg.loading
      /\ dlg' = [dlg EXCEPT !.file = file, !.loading = y, !.lib = E, !.await = W, !.fair = u]
  BY <1>1, <1>2, Zenon DEF Devices!OnFileChange
<1>4. a.ctx = "library" /\ a.res = "pending" /\ ~a.did /\ a.arg.page = 1
  BY <1>2 DEF Devices!FetchPage, Devices!Request
<1>5. PICK t: t = dlg'
  OBVIOUS
<1>6. /\ t.loading = TRUE /\ t.await = {1} /\ t.lib = {} /\ t.fair = u /\ t.batch = dlg.batch /\ t.todo = dlg.todo
      /\ t.importing = dlg.importing
  BY <1>1, <1>3, <1>5 DEF DevicesInv, DeviceDialog
<1>7. LibraryCalls(net) = {}
  BY <1>3 DEF NowSerials, SerialsInv, PagesAsked
<1>8. LibraryCalls(net') = {a} /\ RowCalls(net') = RowCalls(net)
  BY <1>3, <1>4, <1>7 DEF LibraryCalls, RowCalls
<1>9. PagesAsked(net', t)
  <2>1. u \in BOOLEAN
    BY <1>1
  <2>2. \A x \in net': (x.ctx = "library" \/ x.ctx = "row") /\ (x.res = "pending" => ~x.did)
    BY <1>3, <1>4 DEF NowSerials, SerialsInv, PagesAsked
  <2>3. \A x, o \in LibraryCalls(net'): x = a /\ o = a
    BY <1>8
  <2>4. t.await \subseteq Nat \ {0} /\ 1 \in t.await
    BY <1>6
  <2>5. \A x \in LibraryCalls(net'): t.loading /\ x.arg.page \in t.await
    BY <1>4, <1>6, <2>3
  <2> QED BY <1>6, <2>1, <2>2, <2>3, <2>4, <2>5 DEF PagesAsked
<1>10. RowsSent(net', t)
  BY <1>6, <1>8 DEF NowSerials, SerialsInv, RowsSent
<1>11. ASSUME u
       PROVE  FairInv(net', t, db)
  <2>1. UniqueIn(db) /\ ~dlg.importing
    BY <1>1, <1>11 DEF Devices!Unique, Devices!Existing, Devices!Key, UniqueIn, LiveIn
  <2>2. LibraryRead(net', t, db)
    BY <1>4, <1>6, <1>8 DEF LibraryRead
  <2> QED BY <1>6, <2>1, <2>2 DEF FairInv
<1> QED BY <1>3, <1>5, <1>6, <1>9, <1>10, <1>11 DEF NowSerials, SerialsInv

LEMMA RowsLeaveSerials ==
  ASSUME DevicesInv, NowSerials, Devices!OpenChange
  PROVE  NowSerials'
<1>1. PICK V, n, k0: V = <<>> /\ n = ~dlg.importing /\ k0 = FALSE
  OBVIOUS
<1>2. db' = db /\ net' = net /\ dlg' = [dlg EXCEPT !.rows = V, !.same = n, !.done = k0]
  BY <1>1, Zenon DEF Devices!OpenChange, Devices!Show
<1>3. PICK t: t = dlg'
  OBVIOUS
<1>4. /\ t.rows = <<>> /\ t.loading = dlg.loading /\ t.await = dlg.await /\ t.lib = dlg.lib /\ t.fair = dlg.fair /\ t.batch = dlg.batch
      /\ t.todo = dlg.todo /\ t.importing = dlg.importing
  BY <1>1, <1>2, <1>3 DEF DevicesInv, DeviceDialog
<1>5. PagesAsked(net, t)
  BY <1>4 DEF NowSerials, SerialsInv, PagesAsked
<1>6. RowsSent(net, t)
  BY <1>4 DEF NowSerials, SerialsInv, RowsSent
<1>7. ASSUME FairInv(net, dlg, db)
      PROVE  FairInv(net, t, db)
  <2>1. LibraryRead(net, dlg, db) => LibraryRead(net, t, db)
    BY <1>4 DEF LibraryRead
  <2>2. LoopApart(net, dlg, db) => LoopApart(net, t, db)
    BY <1>4 DEF LoopApart
  <2>3. RowsApart(t.rows, db)
    BY <1>4 DEF RowsApart, ToDo
  <2> QED BY <1>4, <1>7, <2>1, <2>2, <2>3 DEF FairInv
<1> QED BY <1>2, <1>3, <1>4, <1>5, <1>6, <1>7 DEF NowSerials, SerialsInv

LEMMA OthersSerials ==
  ASSUME DevicesInv, NowSerials, NEW d \in Device, Devices!Foreign(d)
  PROVE  NowSerials'
<1>1. PICK n: n = FALSE
  OBVIOUS
<1>2. net' = net /\ dlg' = [dlg EXCEPT !.fair = n]
  BY <1>1 DEF Devices!Foreign
<1>3. PICK t: t = dlg'
  OBVIOUS
<1>4. /\ t.loading = dlg.loading /\ t.await = dlg.await /\ t.lib = dlg.lib /\ t.fair = FALSE /\ t.batch = dlg.batch /\ t.todo = dlg.todo
  BY <1>1, <1>2, <1>3 DEF DevicesInv, DeviceDialog
<1>5. PagesAsked(net, t)
  BY <1>4 DEF NowSerials, SerialsInv, PagesAsked
<1>6. RowsSent(net, t)
  BY <1>4 DEF NowSerials, SerialsInv, RowsSent
<1> QED BY <1>2, <1>3, <1>4, <1>5, <1>6 DEF NowSerials, SerialsInv

\* No number comes twice in the order.
LEMMA OrderedOnce ==
  ASSUME NEW S, IsFiniteSet(S), S \subseteq Nat
  PROVE  \A k, l \in 1..Len(InOrder(S)): InOrder(S)[k] = InOrder(S)[l] => k = l
<1>1. PICK n \in Nat: n = Cardinality(S)
  BY Ranks
<1>2. PICK R: R = [i \in S |-> Cardinality({j \in S: j < i})]
  OBVIOUS
<1>3. \A k \in 1..n: \E i \in S: R[i] = k - 1
  <2>1. \A k \in 1..n: \E i \in S: Cardinality({j \in S: j < i}) = k - 1
    BY <1>1, Ranks
  <2> QED BY <1>2, <2>1
<1>4. PICK s: s = [k \in 1..n |-> CHOOSE i \in S: R[i] = k - 1]
  OBVIOUS
<1>5. InOrder(S) = s
  <2>1. \A k \in 1..n: (CHOOSE i \in S: R[i] = k - 1) = (CHOOSE i \in S: Cardinality({j \in S: j < i}) = k - 1)
    BY <1>2
  <2> QED BY <1>1, <1>4, <2>1 DEF InOrder
<1>6. \A k \in 1..n: R[s[k]] = k - 1
  BY <1>3, <1>4
<1>7. Len(s) = n
  BY <1>4
<1>8. ASSUME NEW k \in 1..n, NEW l \in 1..n, s[k] = s[l]
      PROVE  k = l
  <2>1. k - 1 = l - 1
    BY <1>6, <1>8
  <2> QED BY <2>1
<1> QED BY <1>5, <1>7, <1>8

\* A call for a row, as it is sent.
LEMMA RowCalled ==
  ASSUME NEW s, s.todo # <<>>, \E D: s.todo \in Seq(D), NEW a, a = Devices!SubmitRow(s)
  PROVE  /\ a.ctx = "row" /\ a.res = "pending" /\ ~a.did
         /\ RowSent(a, s.batch[s.todo[1]])
<1>1. PICK h: h = Head(s.todo)
  OBVIOUS
<1>2. h = s.todo[1]
  BY <1>1, TailOf
<1>3. PICK r: r = s.batch[h]
  OBVIOUS
<1>4. PICK op, arg: /\ op = (IF r.id = 0 THEN "create" ELSE "update")
                    /\ arg = [id |-> r.id, ver |-> r.ver, payload |-> r.payload, cells |-> r.cells]
  OBVIOUS
<1>5. a = [op |-> op, ctx |-> "row", res |-> "pending", did |-> FALSE, arg |-> arg, body |-> Devices!NoBody]
  BY <1>1, <1>3, <1>4 DEF Devices!SubmitRow, Devices!Request
<1>6. a.op = op /\ a.arg = arg /\ a.ctx = "row" /\ a.res = "pending" /\ a.did = FALSE
  BY <1>5
<1>7. RowSent(a, r)
  BY <1>4, <1>6 DEF RowSent
<1> QED BY <1>2, <1>3, <1>6, <1>7

LEMMA ImportStartsSerials ==
  ASSUME DevicesInv, NowSerials, Devices!StartImport
  PROVE  NowSerials'
<1>1. PICK S: S = InOrder(ValidRows(dlg.rows))
  OBVIOUS
<1>2. Devices!ValidRows(dlg.rows) = ValidRows(dlg.rows) /\ Devices!InOrder(ValidRows(dlg.rows)) = InOrder(ValidRows(dlg.rows))
  BY DEF Devices!ValidRows, ValidRows, Devices!InOrder, InOrder, Devices!Cardinality, Cardinality
<1>3. PICK y, u: y = TRUE /\ u = (dlg.fair /\ ~dlg.loading /\ \A i \in ValidRows(dlg.rows): ~dlg.rows[i].did)
  OBVIOUS
<1>4. PICK k0, t: k0 = FALSE /\ t = [[dlg EXCEPT !.fair = u] EXCEPT !.importing = y, !.batch = dlg.rows, !.same = y, !.todo = S, !.done = k0]
  OBVIOUS
<1>5. /\ t.rows = dlg.rows /\ t.batch = dlg.rows /\ t.same = TRUE /\ t.todo = S /\ t.importing = TRUE /\ t.loading = dlg.loading
      /\ t.lib = dlg.lib /\ t.await = dlg.await /\ t.fair = u
  BY <1>3, <1>4 DEF DevicesInv, DeviceDialog
<1>6. PICK d: d = [dlg EXCEPT !.fair = u]
  OBVIOUS
<1>7. d.rows = dlg.rows
  BY <1>6 DEF DevicesInv, DeviceDialog
<1>8. Devices!StartLoop(d) = t
  BY <1>1, <1>2, <1>3, <1>4, <1>6, <1>7 DEF Devices!StartLoop
<1>9. PICK a: a = Devices!SubmitRow(t)
  OBVIOUS
<1>10. ~dlg.importing /\ ValidRows(dlg.rows) # {} /\ db' = db /\ dlg' = t /\ net' = net \cup {a}
  BY <1>2, <1>3, <1>6, <1>8, <1>9 DEF Devices!StartImport
<1>11. IsFiniteSet(ValidRows(dlg.rows)) /\ ValidRows(dlg.rows) \subseteq Nat
  <2>1. PICK n \in Nat: dlg.rows = [i \in 1..n |-> dlg.rows[i]]
    BY DEF DevicesInv, DeviceDialog, LoopOK
  <2>2. ValidRows(dlg.rows) \in SUBSET (1..n) /\ IsFiniteSet(1..n)
    BY <2>1, FS_Interval DEF ValidRows
  <2> QED BY <2>2, FS_Subset
<1>12. /\ S \in Seq(ValidRows(dlg.rows)) /\ S # <<>>
       /\ \A k, l \in 1..Len(S): S[k] = S[l] => k = l
  <2>1. S \in Seq(ValidRows(dlg.rows)) /\ S # <<>>
    BY <1>1, <1>10, <1>11, Ordered
  <2>2. \A k, l \in 1..Len(S): S[k] = S[l] => k = l
    BY <1>1, <1>11, OrderedOnce
  <2> QED BY <2>1, <2>2
<1>13. a.ctx = "row" /\ a.res = "pending" /\ ~a.did /\ RowSent(a, t.batch[t.todo[1]])
  BY <1>5, <1>9, <1>12, RowCalled
<1>14. RowCalls(net) = {}
  BY <1>10 DEF DevicesInv, OneCall
<1>15. RowCalls(net') = {a} /\ LibraryCalls(net') = LibraryCalls(net)
  BY <1>10, <1>13, <1>14 DEF RowCalls, LibraryCalls
<1>16. PagesAsked(net', t)
  <2>1. u \in BOOLEAN
    BY <1>3 DEF NowSerials, SerialsInv, PagesAsked
  <2>2. PagesAsked(net, dlg)
    BY DEF NowSerials, SerialsInv
  <2>3. \A x \in net': (x.ctx = "library" \/ x.ctx = "row") /\ (x.res = "pending" => ~x.did)
    BY <1>10, <1>13, <2>2 DEF PagesAsked
  <2> QED BY <1>5, <1>15, <2>1, <2>2, <2>3 DEF PagesAsked
<1>17. RowsSent(net', t)
  BY <1>5, <1>12, <1>13, <1>15 DEF RowsSent
<1>18. ASSUME u
       PROVE  FairInv(net', t, db)
  <2>1. FairInv(net, dlg, db) /\ ~dlg.loading /\ \A i \in ValidRows(dlg.rows): ~dlg.rows[i].did
    BY <1>3, <1>18 DEF NowSerials, SerialsInv
  <2>2. RowsApart(dlg.rows, db) /\ UniqueIn(db)
    BY <1>10, <2>1 DEF FairInv
  <2>3. \A k \in 1..Len(S): S[k] \in ToDo(dlg.rows)
    <3>1. \A k \in 1..Len(S): S[k] \in ValidRows(dlg.rows)
      BY <1>12
    <3> QED BY <2>1, <3>1 DEF ToDo, ValidRows
  <2>4. LoopApart(net', t, db)
    <3>1. \A k \in 1..Len(S): Fits(dlg.rows[S[k]], db)
      BY <2>2, <2>3 DEF RowsApart
    <3>2. \A k, l \in 1..Len(S): k # l => Apart(dlg.rows[S[k]], dlg.rows[S[l]])
      BY <1>12, <2>2, <2>3 DEF RowsApart
    <3> QED BY <1>5, <3>1, <3>2 DEF LoopApart
  <2> QED BY <1>5, <2>1, <2>2, <2>4 DEF FairInv
<1> QED BY <1>5, <1>10, <1>16, <1>17, <1>18 DEF NowSerials, SerialsInv

LEMMA RowLandsSerials ==
  ASSUME DevicesInv, NowSerials, NEW m \in net, Devices!LandRow(m)
  PROVE  NowSerials'
<1>1. m.ctx = "row" /\ db' = db /\ m.res # "pending" /\ DeviceCallOK(m, db) /\ DevicesInv'
  BY DeviceRowLands DEF Devices!LandRow, Devices!Answered, DevicesInv
<1>2. dlg.importing /\ OneCall(net \ {m}, FALSE) /\ RowCalls(net) = {m}
  BY <1>1, CallLanded DEF DevicesInv, OneCall, RowCalls
<1>3. PICK R, B, e, T, g, k, f, ld, lb, aw, fr:
        dlg = [kind |-> "devices", rows |-> R, batch |-> B, same |-> e, todo |-> T, importing |-> g, done |-> k, file |-> f,
               loading |-> ld, lib |-> lb, await |-> aw, fair |-> fr]
  BY DEF DevicesInv, DeviceDialog
<1>4. PICK n \in Nat: B = [i \in 1..n |-> B[i]]
  BY <1>3 DEF DevicesInv, DeviceDialog, LoopOK
<1>5. T \in Seq(1..n) /\ T # <<>> /\ LoopOK(dlg)
  BY <1>2, <1>3, <1>4 DEF DevicesInv, DeviceDialog, LoopOK
<1>6. PICK h, l: h = Head(T) /\ l = Tail(T)
  OBVIOUS
<1>7. /\ h \in 1..n /\ l \in Seq(1..n) /\ h = T[1] /\ Len(T) \in Nat \ {0} /\ Len(l) = Len(T) - 1
      /\ \A o \in 1..(Len(T) - 1): l[o] = T[o + 1]
  <2>1. PICK D: D = 1..n
    OBVIOUS
  <2>2. T \in Seq(D)
    BY <1>5, <2>1
  <2> QED BY <1>5, <1>6, <2>1, <2>2, TailOf
<1>8. PICK st \in {"valid", "failed"}: st = IF m.res = "ok" THEN "valid" ELSE "failed"
  OBVIOUS
<1>9. m.did \in BOOLEAN /\ (st = "valid" => m.did)
  BY <1>1, <1>8 DEF DeviceCallOK, TypedCall
<1>10. PICK b: b = Devices!Marked(B, h, st, m.did)
  OBVIOUS
<1>11. Listed(b, n) /\ \A i \in 1..n \ {h}: b[i] = B[i]
  <2>1. \A i \in 1..n: DeviceRow(B[i], db)
    BY <1>3, <1>4 DEF DevicesInv, DeviceDialog
  <2>2. Listed(B, n)
    BY <1>4 DEF Listed
  <2> QED BY <1>7, <1>9, <1>10, <2>1, <2>2, DeviceRowsMarked
<1>12. PICK w, o, W: w = (Tail(T) # <<>>) /\ o = Devices!Counted(dlg, st) /\ W = (IF e THEN b ELSE R)
  OBVIOUS
<1>13. PICK t: t = Devices!RowDone(dlg, Head(dlg.todo), st, m.did)
  OBVIOUS
<1>14. t = [dlg EXCEPT !.batch = b, !.rows = W, !.done = o, !.todo = Tail(T), !.importing = w]
  <2>1. dlg.batch = B /\ dlg.rows = R /\ dlg.done = k /\ dlg.todo = T /\ dlg.same = e
    BY <1>3
  <2> QED BY <1>6, <1>10, <1>12, <1>13, <2>1, Zenon DEF Devices!RowDone
<1>15. t = [kind |-> "devices", rows |-> W, batch |-> b, same |-> e, todo |-> Tail(T), importing |-> w, done |-> o, file |-> f,
            loading |-> ld, lib |-> lb, await |-> aw, fair |-> fr]
  BY <1>3, <1>14
<1>16. /\ t.rows = W /\ t.batch = b /\ t.same = dlg.same /\ t.todo = l /\ t.importing = w /\ t.loading = dlg.loading
       /\ t.lib = dlg.lib /\ t.await = dlg.await /\ t.fair = fr /\ dlg.fair = fr /\ dlg.rows = R /\ dlg.batch = B /\ dlg.todo = T
       /\ dlg.same = e
  BY <1>3, <1>6, <1>15
<1>17. PICK a: a = Devices!SubmitRow(t)
  OBVIOUS
<1>18. dlg' = t /\ net' = (net \ {m}) \cup IF w THEN {a} ELSE {}
  <2>1. dlg' = t /\ net' = (net \ {m}) \cup IF t.importing THEN {Devices!SubmitRow(t)} ELSE {}
    BY <1>8, <1>13, Zenon DEF Devices!LandRow
  <2> QED BY <1>16, <1>17, <2>1
<1>19. w => l # <<>> /\ a.ctx = "row" /\ a.res = "pending" /\ ~a.did /\ RowSent(a, t.batch[t.todo[1]])
  <2>1. ASSUME w
        PROVE  a.ctx = "row" /\ a.res = "pending" /\ ~a.did /\ RowSent(a, t.batch[t.todo[1]])
    <3>1. t.todo # <<>> /\ t.todo \in Seq(1..n)
      BY <1>6, <1>7, <1>12, <1>16, <2>1
    <3> QED BY <1>17, <3>1, RowCalled
  <2> QED BY <1>6, <1>12, <2>1
<1>20. RowCalls(net') = (IF w THEN {a} ELSE {}) /\ LibraryCalls(net') = LibraryCalls(net)
  <2>1. RowCalls(net \ {m}) = {}
    BY <1>2 DEF OneCall
  <2> QED BY <1>1, <1>18, <1>19, <2>1 DEF RowCalls, LibraryCalls
<1>21. PagesAsked(net, dlg) /\ RowsSent(net, dlg)
  BY DEF NowSerials, SerialsInv
<1>22. PagesAsked(net', t)
  <2>1. \A x \in net': (x.ctx = "library" \/ x.ctx = "row") /\ (x.res = "pending" => ~x.did)
    BY <1>18, <1>19, <1>21 DEF PagesAsked
  <2>2. \A x \in LibraryCalls(net'): t.loading /\ x.arg.page \in t.await
    BY <1>16, <1>20, <1>21 DEF PagesAsked
  <2>3. \A x, y \in LibraryCalls(net'): x.arg.page = y.arg.page => x = y
    BY <1>20, <1>21 DEF PagesAsked
  <2>4. /\ t.await \subseteq Nat \ {0} /\ (1 \in t.await => t.await = {1} /\ t.lib = {})
        /\ t.loading \in BOOLEAN /\ t.fair \in BOOLEAN
    BY <1>16, <1>21 DEF PagesAsked
  <2> QED BY <2>1, <2>2, <2>3, <2>4 DEF PagesAsked
<1>23. ASSUME NEW i \in 1..Len(l)
       PROVE  i + 1 \in 1..Len(T) /\ i + 1 # 1 /\ l[i] = T[i + 1] /\ T[i + 1] \in 1..n /\ T[i + 1] # h /\ b[l[i]] = B[T[i + 1]]
  <2>1. i + 1 \in 1..Len(T) /\ i + 1 # 1 /\ 1 \in 1..Len(T) /\ l[i] = T[i + 1]
    BY <1>7
  <2>2. T[i + 1] \in 1..n
    BY <1>5, <2>1
  <2>3. T[i + 1] # h
    BY <1>7, <1>16, <1>21, <2>1 DEF RowsSent
  <2> QED BY <1>11, <2>1, <2>2, <2>3
<1>24. RowsSent(net', t)
  <2>1. ASSUME NEW i \in 1..Len(l), NEW j \in 1..Len(l), l[i] = l[j]
        PROVE  i = j
    <3>1. i + 1 = j + 1
      BY <1>16, <1>21, <1>23, <2>1 DEF RowsSent
    <3> QED BY <3>1
  <2> QED BY <1>16, <1>19, <1>20, <2>1 DEF RowsSent
<1>25. ASSUME fr
       PROVE  FairInv(net', t, db)
  <2>1. FairInv(net, dlg, db)
    BY <1>16, <1>25 DEF NowSerials, SerialsInv
  <2>2. UniqueIn(db) /\ ~dlg.loading /\ (dlg.same \/ dlg.rows = <<>>) /\ LoopApart(net, dlg, db)
    BY <1>2, <2>1 DEF FairInv
  <2>3. t.same \/ t.rows = <<>>
    BY <1>12, <1>16, <2>2
  <2>4. \A i \in 1..Len(l): Fits(b[l[i]], db)
    BY <1>2, <1>16, <1>23, <2>2 DEF LoopApart
  <2>5. ASSUME NEW i \in 1..Len(l), NEW j \in 1..Len(l), i # j
        PROVE  Apart(b[l[i]], b[l[j]])
    <3>1. i + 1 # j + 1
      BY <2>5
    <3> QED BY <1>16, <1>23, <2>2, <3>1 DEF LoopApart
  <2>6. LoopApart(net', t, db)
    BY <1>16, <2>4, <2>5 DEF LoopApart
  <2>7. ASSUME ~w
        PROVE  RowsApart(t.rows, db)
    <3>1. LoopOK(t) /\ Len(l) = 0
      BY <1>1, <1>6, <1>12, <1>18, <2>7 DEF DevicesInv, DeviceDialog
    <3>2. ToDo(b) = {}
      BY <1>16, <3>1 DEF ToDo, LoopOK
    <3>3. ToDo(t.rows) = {}
      BY <1>12, <1>16, <2>3, <3>2 DEF ToDo
    <3> QED BY <3>3 DEF RowsApart
  <2> QED BY <1>16, <2>2, <2>3, <2>6, <2>7 DEF FairInv
<1> QED BY <1>1, <1>16, <1>18, <1>22, <1>24, <1>25 DEF NowSerials, SerialsInv

LEMMA SerialsSteps ==
  ASSUME DevicesInv, NowSerials, Devices!DialogNext
  PROVE  NowSerials'
BY PageLandsSerials, PageLostSerials, ImportStartsSerials, RowLandsSerials, FileReadSerials, RowsLeaveSerials, ServedSerials, OthersSerials
   DEF Devices!DialogNext

LEMMA SerialsStart ==
  ASSUME Devices!Start
  PROVE  NowSerials
<1>1. net = {} /\ dlg = Devices!Fresh
  BY DEF Devices!Start
<1>2. dlg.todo = <<>> /\ dlg.loading = FALSE /\ dlg.await = {} /\ dlg.fair = FALSE
  BY <1>1 DEF Devices!Fresh
<1>3. PagesAsked(net, dlg)
  BY <1>1, <1>2 DEF PagesAsked, LibraryCalls
<1>4. RowsSent(net, dlg)
  <2>1. Len(dlg.todo) = 0
    BY <1>2
  <2> QED BY <1>1, <2>1 DEF RowsSent, RowCalls
<1> QED BY <1>2, <1>3, <1>4 DEF NowSerials, SerialsInv

-----------------------------------------------------------------------------
(* The dialogs together *)

LEMMA ImportsStart ==
  ASSUME Start
  PROVE  ImportsInv
<1>1. bound = [foreign |-> bound.foreign, turns |-> bound.turns, files |-> bound.files]
  BY DEF Start
<1>2. CASE Devices!Start
  <2>1. FilesOK(Devices!Line)
    BY <1>1, <1>2 DEF FilesOK, Devices!Start
  <2>2. DevicesInv
    BY <1>2, <2>1, DevicesStart
  <2> QED BY <2>2 DEF ImportsInv, DevicesInv, DeviceDialog
<1>3. CASE Racks!Start
  <2>1. FilesOK(Racks!Line)
    BY <1>1, <1>3 DEF FilesOK, Racks!Start
  <2>2. RacksInv
    BY <1>3, <2>1, RacksStart
  <2> QED BY <2>2 DEF ImportsInv, RacksInv, RackDialog
<1>4. CASE Diagram!Start
  <2>1. DiagramInv
    BY <1>4, DiagramStarts
  <2> QED BY <2>1 DEF ImportsInv, DiagramInv, DiagramDialog
<1> QED BY <1>2, <1>3, <1>4 DEF Start

LEMMA ImportsStep ==
  ASSUME ImportsInv, [Next]_sheets
  PROVE  ImportsInv'
<1>1. CASE dlg.kind = "diagram"
  <2>1. DiagramInv
    BY <1>1 DEF ImportsInv
  <2>2. CASE Next
    <3>1. DiagramInv'
      BY <1>1, <2>1, <2>2, DiagramSteps DEF Next
    <3> QED BY <3>1 DEF ImportsInv, DiagramInv, DiagramDialog
  <2>3. CASE UNCHANGED sheets
    <3>1. DiagramInv'
      BY <2>1, <2>3 DEF sheets, DiagramInv
    <3> QED BY <3>1 DEF ImportsInv, DiagramInv, DiagramDialog
  <2> QED BY <2>2, <2>3
<1>2. CASE dlg.kind = "devices"
  <2>1. DevicesInv
    BY <1>2 DEF ImportsInv
  <2>2. CASE Next
    <3>1. DevicesInv'
      BY <1>2, <2>1, <2>2, DeviceSteps DEF Next
    <3> QED BY <3>1 DEF ImportsInv, DevicesInv, DeviceDialog
  <2>3. CASE UNCHANGED sheets
    <3>1. DevicesInv'
      BY <2>1, <2>3 DEF sheets, DevicesInv, FilesOK
    <3> QED BY <3>1 DEF ImportsInv, DevicesInv, DeviceDialog
  <2> QED BY <2>2, <2>3
<1>3. CASE dlg.kind = "racks"
  <2>1. RacksInv
    BY <1>3 DEF ImportsInv
  <2>2. CASE Next
    <3>1. RacksInv'
      BY <1>3, <2>1, <2>2, RackSteps DEF Next
    <3> QED BY <3>1 DEF ImportsInv, RacksInv, RackDialog
  <2>3. CASE UNCHANGED sheets
    <3>1. RacksInv'
      BY <2>1, <2>3 DEF sheets, RacksInv, FilesOK
    <3> QED BY <3>1 DEF ImportsInv, RacksInv, RackDialog
  <2> QED BY <2>2, <2>3
<1> QED BY <1>1, <1>2, <1>3 DEF ImportsInv

\* What the loop of a table keeps gives the parts of the type invariant.
LEMMA LoopTypes ==
  ASSUME LoopOK(dlg), OneCall(net, dlg.importing), \A i \in DOMAIN dlg.rows: StatusOK(dlg.rows[i])
  PROVE  /\ dlg.importing <=> dlg.todo # <<>>
         /\ Cardinality({m \in net: m.ctx = "row"}) = IF dlg.importing THEN 1 ELSE 0
         /\ \A i \in DOMAIN dlg.rows: dlg.rows[i].st \in {"valid", "rejected", "failed"}
<1>1. CASE dlg.importing
  <2>1. PICK m: RowCalls(net) = {m}
    BY <1>1 DEF OneCall
  <2>2. Cardinality({m}) = 1
    BY FS_Singleton
  <2>3. Cardinality({o \in net: o.ctx = "row"}) = 1
    BY <2>1, <2>2 DEF RowCalls
  <2> QED BY <1>1, <2>3 DEF LoopOK, StatusOK
<1>2. CASE ~dlg.importing
  <2>1. RowCalls(net) = {}
    BY <1>2 DEF OneCall
  <2>2. Cardinality({o \in net: o.ctx = "row"}) = 0
    BY <2>1, FS_EmptySet DEF RowCalls
  <2> QED BY <1>2, <2>2 DEF LoopOK, StatusOK
<1> QED BY <1>1, <1>2

LEMMA LoopReports ==
  ASSUME NEW s, LoopOK(s), s.same
  PROVE  ReportsTruth(s)
<1>1. SUFFICES ASSUME ~s.importing, s.done, NEW i \in DOMAIN s.rows, s.rows[i].st = "valid"
               PROVE  s.rows[i].did
  BY DEF ReportsTruth, ShownSubmitted
<1>2. s.rows = s.batch /\ s.todo = <<>>
  BY <1>1 DEF LoopOK
<1>3. Len(s.todo) = 0
  BY <1>2
<1>4. s.batch[i].did \/ \E k \in 1..Len(s.todo): s.todo[k] = i
  BY <1>1, <1>2 DEF LoopOK
<1> QED BY <1>2, <1>3, <1>4

LEMMA ImportsTyped ==
  ASSUME ImportsInv
  PROVE  ImportsTypeOK
<1>1. CASE dlg.kind = "diagram"
  BY <1>1 DEF ImportsInv, ImportsTypeOK, DiagramInv, DiagramCalls, DiagramCallOK, TypedCall, DiagramDialog
<1>2. CASE dlg.kind = "devices"
  <2>1. DevicesInv
    BY <1>2 DEF ImportsInv
  <2>2. LoopOK(dlg) /\ OneCall(net, dlg.importing) /\ \A i \in DOMAIN dlg.rows: StatusOK(dlg.rows[i])
    BY <2>1 DEF DevicesInv, DeviceDialog, DeviceRow
  <2>3. \A m \in net: TypedCall(m)
    BY <2>1 DEF DevicesInv, DeviceCallOK
  <2> QED BY <1>2, <2>2, <2>3, LoopTypes DEF ImportsTypeOK, TypedCall
<1>3. CASE dlg.kind = "racks"
  <2>1. RacksInv
    BY <1>3 DEF ImportsInv
  <2>2. LoopOK(dlg) /\ OneCall(net, dlg.importing) /\ \A i \in DOMAIN dlg.rows: StatusOK(dlg.rows[i])
    BY <2>1 DEF RacksInv, RackDialog, RackRow
  <2>3. \A m \in net: TypedCall(m)
    BY <2>1 DEF RacksInv, RackCallOK
  <2> QED BY <1>3, <2>2, <2>3, LoopTypes DEF ImportsTypeOK, TypedCall
<1> QED BY <1>1, <1>2, <1>3 DEF ImportsInv

LEMMA ImportsAlways == Spec => []ImportsInv
<1>1. Start => ImportsInv
  BY ImportsStart
<1>2. ImportsInv /\ [Next]_sheets => ImportsInv'
  BY ImportsStep
<1> QED BY <1>1, <1>2, PTL DEF Spec

LEMMA SerialsAlways == Spec => [](dlg.kind = "devices" => NowSerials)
<1>1. Start => (dlg.kind = "devices" => NowSerials)
  <2>1. Racks!Start => dlg.kind = "racks"
    BY DEF Racks!Start, Racks!Fresh
  <2>2. Diagram!Start => dlg.kind = "diagram"
    BY DEF Diagram!Start, Diagram!Fresh
  <2> QED BY <2>1, <2>2, SerialsStart DEF Start
<1>2. ImportsInv /\ (dlg.kind = "devices" => NowSerials) /\ [Next]_sheets => (dlg.kind = "devices" => NowSerials)'
  <2> SUFFICES ASSUME ImportsInv, dlg.kind = "devices" => NowSerials, [Next]_sheets, dlg'.kind = "devices"
               PROVE  NowSerials'
    OBVIOUS
  <2>1. CASE UNCHANGED sheets
    BY <2>1 DEF sheets, NowSerials
  <2>2. CASE Next /\ dlg.kind = "devices"
    BY <2>2, SerialsSteps DEF Next, ImportsInv, DiagramInv, DiagramDialog, RacksInv, RackDialog
  <2>3. CASE Next /\ dlg.kind = "racks"
    <3>1. RacksInv'
      BY <2>3, RackSteps DEF Next, ImportsInv, DiagramInv, DiagramDialog, DevicesInv, DeviceDialog
    <3> QED BY <3>1 DEF RacksInv, RackDialog
  <2>4. CASE Next /\ dlg.kind = "diagram"
    <3>1. DiagramInv'
      BY <2>4, DiagramSteps DEF Next, ImportsInv, RacksInv, RackDialog, DevicesInv, DeviceDialog
    <3> QED BY <3>1 DEF DiagramInv, DiagramDialog
  <2> QED BY <2>1, <2>2, <2>3, <2>4 DEF Next
<1> QED BY <1>1, <1>2, ImportsAlways, PTL DEF Spec

-----------------------------------------------------------------------------
\* Whatever the file: a table has one row under way while a submission runs and
\* none when it does not, and items of a diagram are shown with their draft.
THEOREM ImportsTypes == Spec => []ImportsTypeOK
<1>1. ImportsInv => ImportsTypeOK
  BY ImportsTyped
<1> QED BY <1>1, ImportsAlways, PTL

\* The rows a table reports as submitted have been executed, whichever answers
\* are lost and however often they are submitted.  Rows that were chosen while a
\* submission of others ran are left out.
THEOREM ReportsAreTrue == Spec => []ReportedRowsExist
<1>1. ImportsInv => ReportedRowsExist
  BY LoopReports DEF ImportsInv, ReportedRowsExist, DevicesInv, DeviceDialog, RacksInv, RackDialog
<1> QED BY <1>1, ImportsAlways, PTL

\* Two devices never come to have one serial number, although the table of the
\* back end lets them: a library that was read to its end has every device on
\* one of its pages, the rows of a file that was checked against it give serial
\* numbers nobody else has, and each row that is written leaves that true of the
\* rows still to come.
THEOREM SerialsUnique == Spec => []SerialsStayUnique
<1>1. (dlg.kind = "devices" => NowSerials) => SerialsStayUnique
  <2> SUFFICES ASSUME dlg.kind = "devices", NowSerials, dlg.fair
               PROVE  Devices!Unique
    BY DEF SerialsStayUnique, Devices!SerialsStayUnique
  <2>1. UniqueIn(db)
    BY DEF NowSerials, SerialsInv, FairInv
  <2> QED BY <2>1 DEF UniqueIn, LiveIn, Devices!Unique, Devices!Existing, Devices!Key
<1> QED BY <1>1, SerialsAlways, PTL

\* A draft is executed once: it has one token, which is in the store or with one
\* commit, and is gone once that has succeeded.
THEOREM DraftsRunOnce == Spec => []CommittedOnce
<1>1. ImportsInv => CommittedOnce
  <2>1. DiagramInv => \A t \in Token: db.runs[t] \in {0, 1}
    BY DEF DiagramInv, StoreOK
  <2>2. \A k \in {0, 1}: k =< 1
    OBVIOUS
  <2> QED BY <2>1, <2>2 DEF ImportsInv, CommittedOnce, Diagram!CommittedOnce
<1> QED BY <1>1, ImportsAlways, PTL

\* Executing a diagram moves no device and takes off only those the person has
\* decided about, for the file that was on show.
THEOREM DiagramsDisturbOnlyWhatIsDecided == Spec => ImportKeepsRest
<1>1. ImportsInv /\ [Next]_sheets => [dlg.kind = "diagram" => Diagram!ImportKeepsRest]_sheets
  BY DiagramKeeps DEF ImportsInv, Next
<1> QED BY <1>1, ImportsAlways, PTL DEF Spec, ImportKeepsRest

\* An update hits the device its row names: the version it carries is that of the
\* copy the row was matched to, and a device of that version still has what the
\* copy had.
THEOREM UpdatesHitNamedDevices == Spec => UpdatesNamed
<1>1. ImportsInv /\ [Next]_sheets => [dlg.kind = "devices" => Devices!UpdatesNamed]_sheets
  BY DeviceUpdates DEF ImportsInv, Next
<1> QED BY <1>1, ImportsAlways, PTL DEF Spec, UpdatesNamed
=============================================================================
