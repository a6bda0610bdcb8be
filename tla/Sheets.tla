-------------------------------- MODULE Sheets --------------------------------
(***************************************************************************)
(* What the import dialogs share: a table of the back end, calls in flight *)
(* whose answers may be lost, and, for devices and racks, the loop that    *)
(* submits the valid rows of a file one after the other.                   *)
(***************************************************************************)
EXTENDS Naturals, FiniteSets, Sequences, TLC

VARIABLES db,     \* the back end
          net,    \* the calls in flight
          dlg,    \* the dialog that is open (its shape is the dialog's)
          bound   \* what bounds a behaviour: the files at hand, and how many writes of other
                  \* users (foreign) and files and submissions (turns) are left

sheets == <<db, net, dlg, bound>>

NoBody == [items |-> {}, total |-> 0]
Spent(f) == bound[f] > 0 /\ bound' = [bound EXCEPT ![f] = @ - 1]
Answered(m, ctx) == m \in net /\ m.ctx = ctx /\ m.res # "pending" /\ UNCHANGED <<db, bound>>
Asked(m, op) == m \in net /\ m.op = op /\ m.res = "pending" /\ UNCHANGED <<dlg, bound>>
\* What a call came to; an executed one may be answered by a failure.
Reply(m, res, did, x) == net' = (net \ {m}) \cup {[op |-> m.op, ctx |-> m.ctx, res |-> res, did |-> did, arg |-> m.arg, body |-> x]}
Lose(m) == m \in net /\ m.res = "pending" /\ Reply(m, "failed", FALSE, NoBody) /\ UNCHANGED <<db, dlg, bound>>
Request(op, ctx, arg) == [op |-> op, ctx |-> ctx, res |-> "pending", did |-> FALSE, arg |-> arg, body |-> NoBody]

-----------------------------------------------------------------------------
(* The loop over the valid rows.  `rows` is what the dialog shows, `batch` the *)
(* rows the loop goes through; `same` is FALSE when the rows on show took the *)
(* place of those of a loop that was still running.  `done` is whether the    *)
(* dialog counts a row since then: devices count failed rows too, racks only  *)
(* those imported.  Of a row, st is "valid", "rejected" or "failed", and did  *)
(* is history: the back end has executed it.                                  *)

ValidRows(rows) == {i \in DOMAIN rows: rows[i].st = "valid"}
InOrder(S) == [k \in 1..Cardinality(S) |-> CHOOSE i \in S: Cardinality({j \in S: j < i}) = k - 1]

\* Other rows take the place of those on show, also while a loop runs: the loop
\* goes on with its own, and goes on counting.
Show(s, rows) == [s EXCEPT !.rows = rows, !.same = ~s.importing, !.done = FALSE]

StartLoop(s) == [s EXCEPT !.importing = TRUE, !.batch = s.rows, !.same = TRUE, !.todo = InOrder(ValidRows(s.rows)), !.done = FALSE]

Marked(rows, i, st, did) == [rows EXCEPT ![i].st = st, ![i].did = @ \/ did]
Counted(s, st) == s.done \/ s.kind = "devices" \/ st = "valid"
\* Mutant: a row that failed counts as valid.
RowDoneValid(s, i, st, did) ==
  LET b == [s.batch EXCEPT ![i].did = @ \/ did] IN
  [s EXCEPT !.batch = b, !.rows = IF s.same THEN b ELSE @, !.done = Counted(s, st),
            !.todo = Tail(@), !.importing = Tail(s.todo) # <<>>]
\* One row is done: the loop goes on with the rest.
RowDone(s, i, st, did) ==
  LET b == Marked(s.batch, i, st, did) IN
  [s EXCEPT !.batch = b, !.rows = IF s.same THEN b ELSE @, !.done = Counted(s, st),
            !.todo = Tail(@), !.importing = Tail(s.todo) # <<>>]

\* A row is shown as submitted when it has no error and the dialog counts a row.
ShownSubmitted(s, i) == s.rows[i].st = "valid" /\ s.done

\* When no submission runs, every row shown as submitted has been executed.
ReportsTruth(s) == ~s.importing => \A i \in DOMAIN s.rows: ShownSubmitted(s, i) => s.rows[i].did
=============================================================================
