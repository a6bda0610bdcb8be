-------------------------------- MODULE Wire --------------------------------
(***************************************************************************)
(* What every page of the console shares: a back end with rows of one      *)
(* kind, and the calls of resource/api.ts in flight.  A call is executed,  *)
(* refused or lost, and its answer lands, in any order.  The content of a  *)
(* row is abstracted to its version, and a form to the row and the version *)
(* its content was read from.  Other users write to the same rows.         *)
(***************************************************************************)
EXTENDS Naturals, FiniteSets

CONSTANTS Row,                     \* rows a page may show, numbered in the order of the lists
          Group, All,              \* what a row belongs to and a list is filtered by, and "no filter"
          PageSize,
          MaxVer, MaxNet, MaxCalls \* bounds: writes per row, calls in flight when a person acts, calls a person starts

ASSUME WireAssumption == /\ Row \subseteq Nat \ {0} /\ IsFiniteSet(Row) /\ Group # {}
                         /\ All \notin Group \cup Row /\ Group \cap Row = {}
                         /\ {PageSize, MaxVer, MaxNet, MaxCalls} \subseteq Nat \ {0}

VARIABLES srv,     \* the rows of the back end
          net,     \* the calls in flight
          ui,      \* the state of the page that is open (its shape is the page's)
          left     \* the calls a person may still start

wire == <<srv, net, ui, left>>

NoRow == 0
Blank == [row |-> NoRow, ver |-> 0]
\* A row that may still be created, in the group or under the row `g`.
Slot(g) == [live |-> FALSE, ver |-> 0, up |-> g]

\* A call: what it asks (op), which handler awaits it (ctx), the row and the
\* version it names, the form it sends and the group it asks for or writes; its
\* answer (res, rows, total); whether it was executed (did); whether it repeats
\* a call that was executed (again); whether its form may hold something else
\* than what the present opening of the dialog has read of the row (mixed): a
\* dialog may be saved before its read is answered.  The last three are history.
Call == [n |-> 0, op |-> "list", ctx |-> "", row |-> NoRow, ver |-> 0, form |-> Blank, up |-> All, page |-> 0,
         res |-> "pending", rows |-> {}, total |-> 0, did |-> FALSE, again |-> FALSE, mixed |-> FALSE]

Rows == [Row -> [live: BOOLEAN, ver: 0..MaxVer, up: Group \cup Row \cup {All}]]
WireOK ==
  /\ srv \in Rows
  /\ \A m \in net: /\ m.op \in {"list", "get", "layout", "put", "overwrite", "post", "copy", "delete", "move",
                               "mount", "shift", "unmount"}
                   /\ m.res \in {"pending", "ok", "conflict", "failed"}
                   /\ m.row \in Row \cup {NoRow} /\ m.form.row \in Row \cup {NoRow}
                   /\ m.op \in {"move", "mount", "shift"} => m.up \in Row \cup {All}

\* One more call in flight; n tells calls apart that are equal otherwise.
Add(calls, c) == LET free == {k \in 0..Cardinality(calls): [c EXCEPT !.n = k] \notin calls}
                 IN calls \cup {[c EXCEPT !.n = CHOOSE k \in free: \A j \in free: k <= j]}
Quiet == Cardinality(net) < MaxNet /\ left > 0 /\ left' = left - 1
Waiting(op, calls) == \E m \in calls: m.op = op

-----------------------------------------------------------------------------
(* The back end *)

Live == {r \in Row: srv[r].live}
Seen(r) == [row |-> r, ver |-> srv[r].ver, up |-> srv[r].up]
\* What a row belongs to, at any level: a list may ask for all of it.
Up(x) == IF x \in Row THEN srv[x].up ELSE All
Matching(g) == {Seen(r): r \in {x \in Live: g \in {All, Up(x), Up(Up(x)), Up(Up(Up(x)))}}}
\* Page p of a list: the rows with (p-1)*PageSize to p*PageSize-1 rows before them.
Slice(S, p) ==
  IF p = 0 THEN S
  ELSE {x \in S: Cardinality({y \in S: y.row < x.row}) \in ((p - 1) * PageSize)..(p * PageSize - 1)}

Pending(m, ops) == m \in net /\ m.res = "pending" /\ m.op \in ops
\* Of the call, its answer keeps what a handler still reads.
Answer(m, r, rows, total, did) ==
  net' = Add(net \ {m}, [Call EXCEPT !.op = m.op, !.ctx = m.ctx, !.row = m.row, !.again = m.again, !.up = IF m.op = "post" THEN m.up ELSE All,
                                     !.page = IF m.op = "layout" THEN m.page ELSE 0,
                                     !.res = r, !.rows = rows, !.total = total, !.did = did])

\* A list, what is mounted in one rack, or one row.
ServeRead(m) ==
  /\ Pending(m, {"list", "layout", "get"})
  /\ IF m.op = "list" THEN Answer(m, "ok", Slice(Matching(m.up), m.page), Cardinality(Matching(m.up)), TRUE)
     ELSE IF m.op = "layout" THEN Answer(m, "ok", Matching(m.row), 0, TRUE)
     ELSE IF m.row \in Live THEN Answer(m, "ok", {Seen(m.row)}, 1, TRUE)
     ELSE Answer(m, "failed", {}, 0, FALSE)
  /\ UNCHANGED <<srv, ui, left>>

\* Mutant: the version is not compared.
CurrentAnyVersion(m) == m.row \in Live
\* An update, a deletion and a move name the version they are based on; the call
\* is refused when the row is gone or has another one, whatever its form holds.
\* Only the code in it must not be that of another live row, which a person may
\* have changed: that refusal is one of Fail.  Updates of templates, PDUs and
\* sockets ("overwrite") use the version the server reads instead.
Current(m) == m.row \in Live /\ srv[m.row].ver = m.ver
\* TemplateService.Update, PDUService.Update and UpdateSocket.
Overwrite(m) == m.op = "overwrite" /\ m.row \in Live
\* A placement names no version; only a device off the racks is mounted, and
\* only one in a rack is moved or taken off.
Placing(m) ==
  /\ m.row \in Live
  /\ \/ m.op = "mount" /\ srv[m.row].up \in Group /\ m.up \in Live
     \/ m.op = "shift" /\ srv[m.row].up \in Row /\ m.up \in Live
     \/ m.op = "unmount" /\ srv[m.row].up \in Row

\* A deletion is refused while other rows belong to the row; a PDU's sockets go
\* with it, and what refuses its deletion are their connections.
InUse(r) == \E x \in Live: r = IF srv[r].up \in Group THEN Up(srv[x].up) ELSE srv[x].up
Erased(r) == {x \in Live: x = r \/ srv[x].up = r}
Written(rows, alive, up) ==
  [x \in Row |-> IF x \in rows THEN [live |-> alive, ver |-> srv[x].ver + 1, up |-> IF up = All THEN srv[x].up ELSE up] ELSE srv[x]]
Writable(rows) == \A x \in rows: srv[x].ver < MaxVer

Accepted(m) ==
  /\ \/ Overwrite(m)
     \/ Placing(m)
     \/ m.op \in {"put", "delete", "move"} /\ Current(m)
  /\ m.op = "delete" => ~InUse(m.row)
  /\ m.op = "move" => m.up \in Live

\* The answer of an executed call may be lost.
ServeWrite(m) ==
  /\ Pending(m, {"put", "overwrite", "delete", "move", "mount", "shift", "unmount"})
  /\ \/ LET rows == IF m.op = "delete" THEN Erased(m.row) ELSE {m.row} IN
        /\ Accepted(m) /\ Writable(rows)
        /\ srv' = Written(rows, m.op # "delete", m.up)
        /\ \E r \in {"ok", "failed"}: Answer(m, r, {}, 0, TRUE)
     \/ ~Accepted(m) /\ Answer(m, "failed", {}, 0, FALSE) /\ UNCHANGED srv
  /\ UNCHANGED <<ui, left>>

\* A creation; its code may be taken, what it belongs to may be gone.  A copy is
\* created beside its source, whose version is not compared.
Target(m) == IF m.op = "copy" THEN Up(m.row) ELSE m.up
ServePost(m) ==
  /\ Pending(m, {"post", "copy"})
  /\ \/ \E r \in Row: /\ srv[r] = Slot(Target(m)) /\ \A x \in Row: x < r => srv[x] # Slot(Target(m))
                      /\ {m.row, Target(m)} \cap Row \subseteq Live
                      /\ srv' = [srv EXCEPT ![r] = [live |-> TRUE, ver |-> 1, up |-> @.up]]
                      /\ \E a \in {"ok", "failed"}: Answer(m, a, {}, 0, TRUE)
     \/ Answer(m, "conflict", {}, 0, FALSE) /\ UNCHANGED srv
  /\ UNCHANGED <<ui, left>>

\* The call is lost, or refused for another reason than its version: its code,
\* or what else its form holds.
Fail(m) == /\ m \in net /\ m.res = "pending" /\ Answer(m, "failed", {}, 0, FALSE)
           /\ UNCHANGED <<srv, ui, left>>

\* Another user writes a row.  `ok`, and `fresh` of the screen, are history:
\* nothing has excused the page from showing the truth since its last load.
Excused(s) == [f \in DOMAIN s |-> IF f \in {"ok", "fresh"} THEN FALSE ELSE s[f]]
Foreign(r) ==
  /\ srv[r].live /\ left > 0 /\ left' = left - 1
  /\ \E alive \in BOOLEAN: LET rows == IF alive THEN {r} ELSE Erased(r) IN
       /\ alive \/ ~InUse(r)
       /\ Writable(rows) /\ srv' = Written(rows, alive, All)
  /\ ui' = Excused(ui) /\ UNCHANGED net

WireNext == \/ \E m \in net: ServeRead(m) \/ ServeWrite(m) \/ ServePost(m) \/ Fail(m)
            \/ \E r \in Row: Foreign(r)

Landed(m, ctx) == m \in net /\ m.ctx = ctx /\ m.res # "pending" /\ UNCHANGED left

-----------------------------------------------------------------------------
(* What the handlers of the pages have in common *)

\* A load starts: the spinner turns, and no page orders its loads.
Begin(s, calls) == [s EXCEPT !.loading = TRUE, !.ok = ~Waiting("list", calls)]
Load(s, c) == ui' = Begin(s, net) /\ net' = Add(net, c) /\ UNCHANGED srv
Write(s, c) == Quiet /\ ui' = s /\ net' = Add(net, c) /\ UNCHANGED srv
Set(s) == ui' = s /\ UNCHANGED <<srv, net, left>>

\* Mutant: the page does not load again.
AfterStale(m, s, c, t) ==
  /\ IF m.res = "ok" THEN ui' = s /\ net' = net \ {m}
     ELSE ui' = [t EXCEPT !.ok = @ /\ ~m.did] /\ net' = net \ {m}
  /\ UNCHANGED srv
\* The answer of a write lands: when it was accepted the page becomes s and loads
\* again with c; otherwise it becomes t, and may not know what was executed.
After(m, s, c, t) ==
  /\ IF m.res = "ok" THEN ui' = Begin(s, net \ {m}) /\ net' = Add(net \ {m}, c)
     ELSE ui' = [t EXCEPT !.ok = @ /\ ~m.did] /\ net' = net \ {m}
  /\ UNCHANGED srv

-----------------------------------------------------------------------------
\* Whatever another user, a late answer or a lost one does, an update whose form
\* was filled by the read of its own dialog is accepted only when that form has
\* the content it replaces: nobody's change is overwritten unseen.  Updates that a
\* person sends before that read is answered, or while the answer to an earlier
\* dialog may still come, are left out (mixed): they do overwrite changes, which
\* NoStaleSave shows.
AcceptedOnCurrent ==
  \A m \in net \ net', k \in net' \ net:
    m.op = "put" /\ ~m.mixed /\ m.res = "pending" /\ k.did /\ k.op = "put"
      => m.form = [row |-> m.row, ver |-> srv[m.row].ver]
NoLostUpdate == [][AcceptedOnCurrent]_wire
\* The expectation of docs/frontend/ALE-BEHAVIOR-MAP.md:40, that an update that is
\* out of date is refused, for what is written: content that was read from an
\* earlier version of the row replaces no later one, whenever it is sent.
StaleRefused ==
  \A m \in net \ net', k \in net' \ net:
    m.op = "put" /\ m.form.row = m.row /\ m.res = "pending" /\ k.did /\ k.op = "put"
      => m.form.ver = srv[m.row].ver
NoStaleSave == [][StaleRefused]_wire
\* A save that the page repeats by itself has not been executed before.
RetriesCreateNothing == \A m \in net: ~m.again
=============================================================================
