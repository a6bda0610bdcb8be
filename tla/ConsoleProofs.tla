---------------------------- MODULE ConsoleProofs ----------------------------
(***************************************************************************)
(* What the pages of the console keep, on any table, with any number of    *)
(* calls in flight and whatever other users write.                         *)
(***************************************************************************)
EXTENDS Console, FiniteSetTheorems, WellFoundedInduction, TLAPS

-----------------------------------------------------------------------------
(* The inductive invariant: calls *)

Ref == Row \cup {NoRow}
Ups == Group \cup Row \cup {All}
CallFields == {"n", "op", "ctx", "row", "ver", "form", "up", "page", "res", "rows", "total", "did", "again", "mixed"}
Op == {"list", "get", "layout", "put", "overwrite", "post", "copy", "delete", "move", "mount", "shift", "unmount"}
Res == {"pending", "ok", "conflict", "failed"}

\* What a page or an answer shows of a row was its content at an earlier version, or is.
SeenOK(x, S) ==
  /\ DOMAIN x = {"row", "ver", "up"}
  /\ x.row \in Row /\ x.ver \in Nat /\ x.ver =< S[x.row].ver /\ x.up \in Ups
SeenAll(X, S) == \A x \in X: SeenOK(x, S)
FormOK(f, S) ==
  /\ f = [row |-> f.row, ver |-> f.ver] /\ f.row \in Ref /\ f.ver \in Nat
  /\ f.row \in Row => f.ver =< S[f.row].ver
  /\ f.row = NoRow => f = Blank

\* An update whose form is of its own dialog is for the row of the form, and names the
\* version of the form or an older one; a creation that is
\* refused for its code has not been executed.
CallOK(m, S) ==
  /\ DOMAIN m = CallFields /\ m.op \in Op /\ m.res \in Res
  /\ m.row \in Ref /\ m.ver \in Nat /\ m.up \in Ups \cup {NoRow} /\ FormOK(m.form, S)
  /\ m.op \in {"move", "mount", "shift"} => m.up \in Row \cup {All}
  /\ m.op \in {"put", "overwrite", "delete"} => m.up = All
  /\ m.op = "unmount" => m.up \in Group \cup {All}
  /\ ~m.again /\ (m.res = "conflict" => ~m.did) /\ (m.res = "pending" => ~m.did)
  /\ SeenAll(m.rows, S)
  /\ m.op = "get" /\ m.res = "ok" => \E x \in m.rows: m.rows = {x} /\ x.row = m.row
  /\ m.op = "put" /\ m.res = "pending" /\ ~m.mixed => m.form.row = m.row /\ m.ver =< m.form.ver
Calls(N, S) == \A m \in N: CallOK(m, S)

\* The table is typed, and versions only grow.
Newer(S, T) == \A r \in Row: S[r].ver =< T[r].ver

-----------------------------------------------------------------------------
\* A set of numbers that is not empty has a least one.
LEMMA Least ==
  ASSUME NEW S, S \subseteq Nat, S # {}
  PROVE  \E x \in S: \A y \in S: x =< y
<1>1. PICK x \in S: \A y \in S: ~(<<y, x>> \in OpToRel(<, Nat))
  BY WFMin, NatLessThanWellFounded
<1>2. \A y \in S: <<y, x>> \in Nat \X Nat
  OBVIOUS
<1>3. \A y \in S: ~(y < x)
  BY <1>1, <1>2 DEF OpToRel
<1> QED BY <1>3

\* The two calls differ in nothing but the number that tells them apart.
SameCall(d, c) ==
  /\ DOMAIN d = CallFields
  /\ d.op = c.op /\ d.ctx = c.ctx /\ d.row = c.row /\ d.ver = c.ver /\ d.form = c.form /\ d.up = c.up /\ d.page = c.page
  /\ d.res = c.res /\ d.rows = c.rows /\ d.total = c.total /\ d.did = c.did /\ d.again = c.again /\ d.mixed = c.mixed

\* Add makes one more call, which asks what it is told to.
LEMMA AddOne ==
  ASSUME NEW calls, NEW c, DOMAIN c = CallFields
  PROVE  \E d: Add(calls, c) = calls \cup {d} /\ SameCall(d, c)
<1>1. PICK k: Add(calls, c) = calls \cup {[c EXCEPT !.n = k]}
  BY DEF Add
<1>2. PICK d: d = [c EXCEPT !.n = k]
  OBVIOUS
<1>3. SameCall(d, c)
  BY <1>2 DEF SameCall, CallFields
<1> QED BY <1>1, <1>2, <1>3

\* A call has the fields of Call.
LEMMA CallDomain == DOMAIN Call = CallFields
BY DEF Call, CallFields

\* The empty form holds on any table.
LEMMA BlankOK == \A S: FormOK(Blank, S)
<1>1. 0 \notin Row
  BY WireAssumption
<1> QED BY <1>1 DEF FormOK, Blank, Ref, NoRow

\* What was seen of a row stays true of a table that has grown.
LEMMA SeenGrows ==
  ASSUME NEW S, NEW T, S \in Rows, T \in Rows, Newer(S, T), NEW x, SeenOK(x, S)
  PROVE  SeenOK(x, T)
BY DEF SeenOK, Newer, Rows

\* So does what a form was filled from.
LEMMA FormGrows ==
  ASSUME NEW S, NEW T, S \in Rows, T \in Rows, Newer(S, T), NEW x, FormOK(x, S)
  PROVE  FormOK(x, T)
BY DEF FormOK, Newer, Rows

\* And what a call carries.
LEMMA CallGrows ==
  ASSUME NEW S, NEW T, S \in Rows, T \in Rows, Newer(S, T), NEW m, CallOK(m, S)
  PROVE  CallOK(m, T)
<1>1. FormOK(m.form, T) /\ SeenAll(m.rows, T)
  BY SeenGrows, FormGrows DEF CallOK, SeenAll
<1> QED BY <1>1 DEF CallOK

\* The number that tells equal calls apart does not matter.
LEMMA SameCallOK ==
  ASSUME NEW S, NEW c, NEW d, CallOK(c, S), SameCall(d, c)
  PROVE  CallOK(d, S)
BY DEF CallOK, SameCall

-----------------------------------------------------------------------------
(* The back end's steps *)

\* What the back end may answer to m.
AnswerOK(m, r, rows, did, S) ==
  /\ r \in Res \ {"pending"} /\ SeenAll(rows, S) /\ did \in BOOLEAN /\ (r = "conflict" => ~did)
  /\ m.op = "get" /\ r = "ok" => \E x: rows = {x} /\ x.row = m.row
\* It is an answer d.
IsAnswer(d, m, r, rows, did) ==
  /\ d.op = m.op /\ d.ctx = m.ctx /\ d.row = m.row /\ d.res = r /\ d.rows = rows /\ d.did = did
  /\ m.op = "layout" => d.page = m.page

\* Answer replaces the call by an answer to it.
LEMMA Answered ==
  ASSUME NEW m, NEW r, NEW rows, NEW total, NEW did, Answer(m, r, rows, total, did), NEW S, CallOK(m, S),
         AnswerOK(m, r, rows, did, S)
  PROVE  \E d: net' = (net \ {m}) \cup {d} /\ CallOK(d, S) /\ IsAnswer(d, m, r, rows, did)
<1>1. PICK c: /\ c = [Call EXCEPT !.op = m.op, !.ctx = m.ctx, !.row = m.row, !.again = m.again,
                   !.up = IF m.op = "post" THEN m.up ELSE All,
                                     !.page = IF m.op = "layout" THEN m.page ELSE 0,
                                     !.res = r, !.rows = rows, !.total = total, !.did = did]
              /\ net' = Add(net \ {m}, c)
  BY DEF Answer
<1>2. /\ DOMAIN c = CallFields
      /\ c.op = m.op /\ c.ctx = m.ctx /\ c.row = m.row /\ c.again = m.again /\ c.res = r /\ c.rows = rows /\ c.did = did
      /\ c.form = Blank /\ c.ver = 0 /\ c.up = (IF m.op = "post" THEN m.up ELSE All)
      /\ c.page = (IF m.op = "layout" THEN m.page ELSE 0)
  BY <1>1 DEF Call, CallFields
<1>3. FormOK(Blank, S) /\ m.op \in Op /\ m.row \in Ref /\ m.up \in Ups \cup {NoRow} /\ ~m.again
  <2>1. FormOK(Blank, S)
    BY BlankOK
  <2> QED BY <2>1 DEF CallOK
<1>4. CallOK(c, S)
  BY <1>2, <1>3, WireAssumption DEF CallOK, Op, Ups, AnswerOK
<1>5. PICK d: Add(net \ {m}, c) = (net \ {m}) \cup {d} /\ SameCall(d, c)
  BY <1>2, AddOne
<1>6. CallOK(d, S)
  BY <1>4, <1>5, SameCallOK
<1>7. IsAnswer(d, m, r, rows, did)
  BY <1>2, <1>5 DEF SameCall, IsAnswer
<1> QED BY <1>1, <1>5, <1>6, <1>7

\* The call m is answered by d; what that means for the table, and for an update.
Reply(m, d) ==
  /\ m \in net /\ m.res = "pending" /\ d.res # "pending" /\ net' = (net \ {m}) \cup {d}
  /\ d.op = m.op /\ d.ctx = m.ctx /\ d.row = m.row /\ (m.op = "layout" => d.page = m.page)
  /\ d.rows \subseteq Matching(IF m.op = "layout" THEN m.row ELSE All)
  /\ d.did /\ m.op = "put" /\ ~m.mixed => m.form = [row |-> m.row, ver |-> srv[m.row].ver]
  /\ \A r \in Row: srv'[r].up # srv[r].up =>
       r = m.row /\ m.op \in {"move", "mount", "shift", "unmount"} /\ srv'[r].up = m.up
  /\ UNCHANGED <<ui, left>>

Answers(m) == \E d: Reply(m, d) /\ CallOK(d, srv')
TableOK == srv' \in Rows /\ Newer(srv, srv')

\* A step that does not write leaves the table as it should be.
LEMMA TableStays ==
  ASSUME srv \in Rows, srv' = srv
  PROVE  TableOK
BY DEF TableOK, Newer, Rows

\* What a row belongs to is a group, a row or nothing.
LEMMA UpTyped ==
  ASSUME srv \in Rows
  PROVE  All \notin Row /\ (\A x: Up(x) \in Ups) /\ \A r \in Row: Up(r) = srv[r].up
BY WireAssumption DEF Up, Ups, Rows

\* A list shows rows that are live, as they are.
LEMMA SeenTyped ==
  ASSUME srv \in Rows
  PROVE  \A g: \A x \in Matching(g): SeenOK(x, srv) /\ x = Seen(x.row) /\ srv[x.row].live
<1> SUFFICES ASSUME NEW g, NEW x \in Matching(g) PROVE SeenOK(x, srv) /\ x = Seen(x.row) /\ srv[x.row].live
  OBVIOUS
<1>1. PICK r \in Row: x = Seen(r) /\ srv[r].live
  BY DEF Matching, Live
<1>2. PICK v, u: v = srv[r].ver /\ u = srv[r].up
  OBVIOUS
<1>3. x = [row |-> r, ver |-> v, up |-> u]
  BY <1>1, <1>2 DEF Seen
<1>4. v \in Nat /\ u \in Ups
  BY <1>2 DEF Rows, Ups
<1>5. x.row = r /\ x.ver = v /\ x.up = u /\ DOMAIN x = {"row", "ver", "up"}
  BY <1>3
<1> QED BY <1>1, <1>2, <1>4, <1>5 DEF SeenOK

\* A filtered list is part of the list.
LEMMA MatchingAll == \A g: Matching(g) \subseteq Matching(All)
BY DEF Matching

\* A list, a layout or a row is answered with what the table holds.
LEMMA ServeReadReply ==
  ASSUME srv \in Rows, NEW m, CallOK(m, srv), ServeRead(m)
  PROVE  Answers(m) /\ TableOK
<1>1. m \in net /\ m.res = "pending" /\ UNCHANGED <<srv, ui, left>> /\ m.op \in {"list", "layout", "get"}
  BY DEF ServeRead, Pending
<1>2. TableOK
  BY <1>1, TableStays
<1>3. PICK r, rows, total, did:
        /\ Answer(m, r, rows, total, did) /\ r \in {"ok", "failed"} /\ did \in BOOLEAN
        /\ rows \subseteq Matching(IF m.op = "layout" THEN m.row ELSE All)
        /\ m.op = "get" /\ r = "ok" => \E x: rows = {x} /\ x.row = m.row
  <2>1. CASE m.op = "list"
    <3>1. Slice(Matching(m.up), m.page) \subseteq Matching(All)
      BY MatchingAll DEF Slice
    <3> QED BY <2>1, <3>1 DEF ServeRead
  <2>2. CASE m.op = "layout"
    BY <2>2 DEF ServeRead
  <2>3. CASE m.op = "get" /\ m.row \in Live
    <3>1. Seen(m.row) \in Matching(All) /\ Seen(m.row).row = m.row
      BY <2>3 DEF Matching, Seen
    <3>2. Answer(m, "ok", {Seen(m.row)}, 1, TRUE)
      BY <2>3 DEF ServeRead
    <3> QED BY <2>3, <3>1, <3>2
  <2>4. CASE m.op = "get" /\ m.row \notin Live
    <3>1. PICK did \in BOOLEAN: did = FALSE
      OBVIOUS
    <3>2. Answer(m, "failed", {}, 0, did) /\ {} \subseteq Matching(IF m.op = "layout" THEN m.row ELSE All)
      BY <2>4, <3>1 DEF ServeRead
    <3> QED BY <3>2
  <2> QED BY <1>1, <2>1, <2>2, <2>3, <2>4
<1>4. AnswerOK(m, r, rows, did, srv)
  BY <1>3, SeenTyped DEF SeenAll, AnswerOK, Res
<1>6. PICK d: net' = (net \ {m}) \cup {d} /\ CallOK(d, srv) /\ IsAnswer(d, m, r, rows, did)
  BY <1>3, <1>4, Answered
<1>7. Reply(m, d)
  BY <1>1, <1>3, <1>6 DEF Reply, IsAnswer
<1> QED BY <1>1, <1>2, <1>6, <1>7 DEF Answers

\* A call that is lost has not been executed.
LEMMA FailReply ==
  ASSUME srv \in Rows, NEW m, CallOK(m, srv), Fail(m)
  PROVE  Answers(m) /\ TableOK
<1>1. m \in net /\ m.res = "pending" /\ UNCHANGED <<srv, ui, left>> /\ Answer(m, "failed", {}, 0, FALSE)
  BY DEF Fail
<1>2. TableOK
  BY <1>1, TableStays
<1>3. AnswerOK(m, "failed", {}, FALSE, srv)
  BY DEF SeenAll, AnswerOK, Res
<1>4. PICK d: net' = (net \ {m}) \cup {d} /\ CallOK(d, srv) /\ IsAnswer(d, m, "failed", {}, FALSE)
  BY <1>1, <1>3, Answered
<1>5. Reply(m, d)
  BY <1>1, <1>4 DEF Reply, IsAnswer
<1> QED BY <1>1, <1>2, <1>4, <1>5 DEF Answers

\* A write makes versions grow, and changes only what its rows belong to.
LEMMA WrittenTable ==
  ASSUME srv \in Rows, NEW rows \in SUBSET Row, NEW alive \in BOOLEAN, NEW up \in Ups, Writable(rows),
         srv' = Written(rows, alive, up)
  PROVE  /\ TableOK
         /\ \A r \in Row: srv'[r].up = IF r \in rows /\ up # All THEN up ELSE srv[r].up
<1> DEFINE W(x) == IF x \in rows THEN [live |-> alive, ver |-> srv[x].ver + 1, up |-> IF up = All THEN srv[x].up
      ELSE up]
                   ELSE srv[x]
<1>1. srv' = [x \in Row |-> W(x)]
  BY DEF Written
<1>2. MaxVer \in Nat /\ \A x \in Row: srv[x] \in [live: BOOLEAN, ver: 0..MaxVer, up: Group \cup Row \cup {All}]
  BY WireAssumption DEF Rows
<1>3. \A x \in Row: /\ W(x) \in [live: BOOLEAN, ver: 0..MaxVer, up: Group \cup Row \cup {All}]
                    /\ srv[x].ver =< W(x).ver
                    /\ W(x).up = IF x \in rows /\ up # All THEN up ELSE srv[x].up
  <2> SUFFICES ASSUME NEW x \in Row
               PROVE  /\ W(x) \in [live: BOOLEAN, ver: 0..MaxVer, up: Group \cup Row \cup {All}]
                      /\ srv[x].ver =< W(x).ver
                      /\ W(x).up = IF x \in rows /\ up # All THEN up ELSE srv[x].up
    OBVIOUS
  <2>1. x \in rows => srv[x].ver < MaxVer
    BY DEF Writable
  <2>2. PICK v, u: v = srv[x].ver /\ u = (IF up = All THEN srv[x].up ELSE up)
    OBVIOUS
  <2>3. v \in 0..MaxVer /\ u \in Group \cup Row \cup {All}
    BY <1>2, <2>2 DEF Ups
  <2>4. CASE x \in rows
    <3>1. W(x) = [live |-> alive, ver |-> v + 1, up |-> u]
      BY <2>2, <2>4
    <3>2. v + 1 \in 0..MaxVer
      BY <1>2, <2>1, <2>2, <2>3, <2>4
    <3> HIDE DEF W
    <3> QED BY <2>2, <2>3, <2>4, <3>1, <3>2
  <2>5. CASE x \notin rows
    BY <1>2, <2>2, <2>3, <2>5
  <2> QED BY <2>4, <2>5
<1> HIDE DEF W
<1> QED BY <1>1, <1>3 DEF TableOK, Rows, Newer

\* A write that is accepted found the row at the version of the form.
LEMMA ServeWriteReply ==
  ASSUME srv \in Rows, NEW m, CallOK(m, srv), ServeWrite(m)
  PROVE  Answers(m) /\ TableOK
<1>1. /\ m \in net /\ m.res = "pending" /\ UNCHANGED <<ui, left>>
      /\ m.op \in {"put", "overwrite", "delete", "move", "mount", "shift", "unmount"}
  BY DEF ServeWrite, Pending
<1>2. CASE ~Accepted(m) /\ Answer(m, "failed", {}, 0, FALSE) /\ UNCHANGED srv
  <2>1. Fail(m)
    BY <1>1, <1>2 DEF Fail
  <2> QED BY <2>1, FailReply
<1>3. ASSUME NEW rows, rows = (IF m.op = "delete" THEN Erased(m.row) ELSE {m.row}), Accepted(m), Writable(rows),
             srv' = Written(rows, m.op # "delete", m.up), NEW r \in {"ok", "failed"}, Answer(m, r, {}, 0, TRUE)
      PROVE  Answers(m) /\ TableOK
  <2>1. m.row \in Live /\ m.row \in Row
    BY <1>1, <1>3 DEF Accepted, Overwrite, Placing, Current, Live
  <2>2. m.up \in Ups /\ (m.op # "delete") \in BOOLEAN /\ rows \in SUBSET Row
    BY <1>1, <1>3, <2>1 DEF CallOK, Ups, Erased, Live
  <2>3. TableOK /\ \A x \in Row: srv'[x].up = IF x \in rows /\ m.up # All THEN m.up ELSE srv[x].up
    BY <1>3, <2>2, WrittenTable
  <2>4. PICK T \in Rows: T = srv' /\ CallOK(m, T)
    BY <2>3, CallGrows DEF TableOK
  <2>5. PICK d: net' = (net \ {m}) \cup {d} /\ CallOK(d, T) /\ IsAnswer(d, m, r, {}, TRUE)
    <3>1. AnswerOK(m, r, {}, TRUE, T)
      BY <1>1, <1>3 DEF SeenAll, AnswerOK, Res
    <3> QED BY <1>3, <2>4, <3>1, Answered
  <2>6. m.op = "put" /\ ~m.mixed => m.form = [row |-> m.row, ver |-> srv[m.row].ver]
    <3>1. m.op = "put" => srv[m.row].ver = m.ver
      BY <1>3 DEF Accepted, Overwrite, Placing, Current
    <3>2. /\ m.form = [row |-> m.form.row, ver |-> m.form.ver] /\ m.form.ver \in Nat
          /\ m.form.row \in Row => m.form.ver =< srv[m.form.row].ver
          /\ m.op = "put" /\ ~m.mixed => m.form.row = m.row /\ m.ver =< m.form.ver
      BY <1>1 DEF CallOK, FormOK
    <3>3. srv[m.row].ver \in Nat
      BY <2>1 DEF Rows
    <3>4. m.op = "put" /\ ~m.mixed => m.form.row = m.row /\ m.form.ver = srv[m.row].ver
      BY <2>1, <3>1, <3>2, <3>3
    <3> QED BY <3>2, <3>4
  <2>7. \A x \in Row: srv'[x].up # srv[x].up =>
          x = m.row /\ m.op \in {"move", "mount", "shift", "unmount"} /\ srv'[x].up = m.up
    BY <1>1, <1>3, <2>3 DEF CallOK
  <2>8. Reply(m, d)
    BY <1>1, <1>3, <2>5, <2>6, <2>7 DEF Reply, IsAnswer
  <2> QED BY <2>3, <2>4, <2>5, <2>8 DEF Answers
<1>4. CASE \E rows: /\ rows = IF m.op = "delete" THEN Erased(m.row) ELSE {m.row}
                    /\ Accepted(m) /\ Writable(rows) /\ srv' = Written(rows, m.op # "delete", m.up)
                    /\ \E r \in {"ok", "failed"}: Answer(m, r, {}, 0, TRUE)
  BY <1>3, <1>4
<1> QED BY <1>2, <1>4 DEF ServeWrite

\* A creation uses a row that was free; one refused for its code has not been executed.
LEMMA ServePostReply ==
  ASSUME srv \in Rows, NEW m, CallOK(m, srv), ServePost(m)
  PROVE  Answers(m) /\ TableOK
<1>1. m \in net /\ m.res = "pending" /\ UNCHANGED <<ui, left>> /\ m.op \in {"post", "copy"}
  BY DEF ServePost, Pending
<1>2. ASSUME TableOK, \A r \in Row: srv'[r].up = srv[r].up, NEW a \in {"ok", "failed", "conflict"}, NEW did \in BOOLEAN,
             a = "conflict" => ~did, Answer(m, a, {}, 0, did)
      PROVE  Answers(m)
  <2>1. PICK T \in Rows: T = srv' /\ CallOK(m, T)
    BY <1>2, CallGrows DEF TableOK
  <2>2. PICK d: net' = (net \ {m}) \cup {d} /\ CallOK(d, T) /\ IsAnswer(d, m, a, {}, did)
    <3>1. AnswerOK(m, a, {}, did, T)
      BY <1>1, <1>2 DEF SeenAll, AnswerOK, Res
    <3> QED BY <1>2, <2>1, <3>1, Answered
  <2>3. Reply(m, d)
    BY <1>1, <1>2, <2>2 DEF Reply, IsAnswer
  <2> QED BY <2>1, <2>2, <2>3 DEF Answers
<1>3. CASE Answer(m, "conflict", {}, 0, FALSE) /\ UNCHANGED srv
  BY <1>2, <1>3, TableStays
<1>4. ASSUME NEW r \in Row, srv' = [srv EXCEPT ![r] = [live |-> TRUE, ver |-> 1, up |-> @.up]],
             srv[r] = Slot(Target(m)), NEW a \in {"ok", "failed"}, Answer(m, a, {}, 0, TRUE)
      PROVE  Answers(m) /\ TableOK
  <2>1. PICK u: u = srv[r].up /\ srv[r].ver = 0
    BY <1>4 DEF Slot
  <2>2. srv' = [srv EXCEPT ![r] = [live |-> TRUE, ver |-> 1, up |-> u]] /\ u \in Group \cup Row \cup {All}
    BY <1>4, <2>1 DEF Rows
  <2>3. 1 \in 0..MaxVer
    BY WireAssumption
  <2>4. TableOK /\ \A x \in Row: srv'[x].up = srv[x].up
    <3>1. \A x \in Row: srv[x].ver \in Nat
      BY DEF Rows
    <3>2. srv' \in Rows
      BY <2>2, <2>3 DEF Rows
    <3>3. srv'[r].up = u /\ srv'[r].ver = 1 /\ \A x \in Row \ {r}: srv'[x] = srv[x]
      BY <2>2 DEF Rows
    <3> QED BY <2>1, <3>1, <3>2, <3>3 DEF TableOK, Newer
  <2> QED BY <1>2, <1>4, <2>4
<1> QED BY <1>3, <1>4 DEF ServePost

\* Another user's write takes nothing to another place.
LEMMA ForeignTable ==
  ASSUME srv \in Rows, NEW r \in Row, Foreign(r)
  PROVE  TableOK /\ ui' = Excused(ui) /\ net' = net /\ \A x \in Row: srv'[x].up = srv[x].up
<1>1. PICK rows, alive: /\ alive \in BOOLEAN /\ rows = (IF alive THEN {r} ELSE Erased(r))
                        /\ Writable(rows) /\ srv' = Written(rows, alive, All)
  BY DEF Foreign
<1>2. rows \in SUBSET Row /\ All \in Ups
  BY <1>1 DEF Erased, Live, Ups
<1> QED BY <1>1, <1>2, WrittenTable DEF Foreign

-----------------------------------------------------------------------------
(* A handler's step: calls are taken off, new ones are made.                  *)

Sound(c) == CallOK(c, srv) /\ ~c.did
Made(D) == \A d \in D: Sound(d)
Handled(R, D) == net' = (net \ R) \cup D /\ Made(D) /\ UNCHANGED srv
CallsOK == srv' \in Rows /\ Calls(net', srv') /\ AcceptedOnCurrent

\* A handler that takes calls off and makes sound ones leaves the calls as they should be.
LEMMA HandledOK ==
  ASSUME srv \in Rows, Calls(net, srv), NEW R, NEW D, Handled(R, D)
  PROVE  CallsOK
<1>1. Calls(net', srv)
  BY DEF Handled, Calls, Made, Sound
<1>2. AcceptedOnCurrent
  BY DEF Handled, Made, Sound, AcceptedOnCurrent
<1> QED BY <1>1, <1>2 DEF CallsOK, Handled, Calls

\* A handler that makes the call c, after taking R off.
Makes(R, c, d) == Handled(R, {d}) /\ SameCall(d, c)

\* Adding a call is making one.
LEMMA MakesOne ==
  ASSUME NEW R, NEW c, Sound(c), net' = Add(net \ R, c), UNCHANGED srv
  PROVE  \E d: Makes(R, c, d)
<1>1. PICK d: Add(net \ R, c) = (net \ R) \cup {d} /\ SameCall(d, c)
  BY AddOne DEF CallOK, Sound
<1>2. Sound(d)
  BY <1>1, SameCallOK DEF SameCall, Sound
<1> QED BY <1>1, <1>2 DEF Makes, Handled, Made

\* A landing that makes no call takes one off.
LEMMA Takes ==
  ASSUME NEW R, net' = net \ R, UNCHANGED srv
  PROVE  Handled(R, {})
BY DEF Handled, Made

\* The two states of a page differ in nothing but the spinner and the history of the load.
Alike(t, s) ==
  /\ DOMAIN t = DOMAIN s
  /\ \A f \in DOMAIN s \ {"loading", "ok"}: t[f] = s[f]

\* Starting a load changes the spinner and the history.
LEMMA BeginAlike ==
  ASSUME NEW s, NEW calls
  PROVE  Alike(Begin(s, calls), s)
BY DEF Begin, Alike

\* The forms of a step that the handlers of all pages share.
Writes(s, c) == ui' = s /\ \E d: Makes({}, c, d)
Loads(s, c) == Alike(ui', s) /\ \E d: Makes({}, c, d)
Sets(s) == ui' = s /\ Handled({}, {})
\* The page becomes like s and loads with c, or becomes like t.
Follows(m, s, c, t) ==
  \/ Alike(ui', s) /\ \E d: Makes({m}, c, d)
  \/ Alike(ui', t) /\ Handled({m}, {})

\* A call as a handler makes it: what it asks, and nothing else.
Asks(c, op, r, v, f, u) ==
  /\ DOMAIN c = CallFields
  /\ c.op = op /\ c.row = r /\ c.ver = v /\ c.form = f /\ c.up = u
  /\ c.res = "pending" /\ c.rows = {} /\ ~c.did /\ ~c.again

\* How rows, groups and the two constants that are neither relate.
LEMMA SetsTyped ==
  /\ NoRow \in Ref /\ 0 \in Nat /\ All \in Ups /\ NoRow \notin Row /\ All \notin Row /\ All \notin Group
  /\ Row \subseteq Ref /\ Row \subseteq Ups /\ Group \subseteq Ups /\ Ref \subseteq Ups \cup {NoRow}
BY WireAssumption DEF Ref, Ups, NoRow

\* A list may be asked for by any filter.
LEMMA ListAsked ==
  ASSUME NEW c, NEW u \in Ups \cup {NoRow}, Asks(c, "list", NoRow, 0, Blank, u)
  PROVE  Sound(c)
BY SetsTyped, BlankOK DEF Asks, Sound, CallOK, Op, Res, SeenAll

\* A creation may name any place and form.
LEMMA PostAsked ==
  ASSUME NEW c, NEW u \in Ups \cup {NoRow}, NEW r \in Ref, NEW v \in Nat, NEW f, FormOK(f, srv),
    Asks(c, "post", r, v, f, u)
  PROVE  Sound(c)
BY SetsTyped DEF Asks, Sound, CallOK, Op, Res, SeenAll

\* A deletion names a row and a version.
LEMMA DeleteAsked ==
  ASSUME NEW c, NEW r \in Ref, NEW v \in Nat, Asks(c, "delete", r, v, Blank, All)
  PROVE  Sound(c)
BY SetsTyped, BlankOK DEF Asks, Sound, CallOK, Op, Res, SeenAll

\* One row is asked for by its number.
LEMMA GetAsked ==
  ASSUME NEW c, NEW r \in Ref, Asks(c, "get", r, 0, Blank, All)
  PROVE  Sound(c)
BY SetsTyped, BlankOK DEF Asks, Sound, CallOK, Op, Res, SeenAll

\* A form of its own dialog is sent for its row, and has the version that is named, or a later one.
LEMMA FormAsked ==
  ASSUME NEW c, NEW op \in {"put", "overwrite"}, NEW r \in Ref, NEW v \in Nat, NEW f, FormOK(f, srv),
         op = "put" /\ ~c.mixed => f.row = r /\ v =< f.ver, Asks(c, op, r, v, f, All)
  PROVE  Sound(c)
BY SetsTyped DEF Asks, Sound, CallOK, Op, Res, SeenAll

\* A copy names its source.
LEMMA CopyAsked ==
  ASSUME NEW c, NEW r \in Ref, NEW v \in Nat, Asks(c, "copy", r, v, Blank, All)
  PROVE  Sound(c)
BY SetsTyped, BlankOK DEF Asks, Sound, CallOK, Op, Res, SeenAll

\* A placement, or a move, names a row.
LEMMA PlaceAsked ==
  ASSUME NEW c, NEW op \in {"move", "mount", "shift"}, NEW r \in Ref, NEW v \in Nat, NEW u \in Row,
    Asks(c, op, r, v, Blank, u)
  PROVE  Sound(c)
BY SetsTyped, BlankOK DEF Asks, Sound, CallOK, Op, Res, SeenAll

-----------------------------------------------------------------------------
(* The inductive invariant: pages *)

\* A dialog about a row has a version the row has had; a form filled from the row of
\* the dialog has the dialog's version.
DlgOK(d, S) == d.row \in Ref /\ d.ver \in Nat /\ (d.row \in Row => d.ver =< S[d.row].ver)
Filled(s) == s.form = [row |-> s.dlg.row, ver |-> s.dlg.ver]

\* The one answer that fills the form of a dialog for editing comes after the dialog
\* took its version.
OwnForm(s, N) ==
  /\ s.own = "no" =>
       /\ \A m \in N: m.op = "get" => m.row = s.dlg.row /\ (m.res = "ok" => \A x \in m.rows: s.dlg.ver =< x.ver)
       /\ \A m, k \in N: m.op = "get" /\ k.op = "get" => m = k
  /\ s.own = "yes" => (\A m \in N: m.op # "get") /\ s.form.row = s.dlg.row /\ s.dlg.ver =< s.form.ver
LedgerInv(s, N, S) ==
  /\ DOMAIN s = {"page", "filter", "pg", "rows", "total", "loading", "ok", "dlg", "form", "own"}
  /\ s.page = "devices" /\ s.filter \in Group \cup {All} /\ SeenAll(s.rows, S)
  /\ DOMAIN s.dlg = {"mode", "row", "ver"} /\ DlgOK(s.dlg, S) /\ FormOK(s.form, S)
  /\ s.dlg.mode = "edit" => s.dlg.row \in Row /\ OwnForm(s, N)
  /\ \A m \in N: m.ctx \in {"devices", "device", "save", "remove"} /\ (m.op = "get" <=> m.ctx = "device")

TypesInv(s, N, S) ==
  /\ DOMAIN s = {"page", "rows", "loading", "ok", "dlg", "form"}
  /\ s.page = "types" /\ SeenAll(s.rows, S)
  /\ DOMAIN s.dlg = {"mode", "row", "ver"} /\ DlgOK(s.dlg, S) /\ FormOK(s.form, S)
  /\ s.dlg.mode = "edit" => Filled(s)
  /\ \A m \in N: m.ctx \in {"types", "saveType", "removeType"}

LayoutInv(s, N, S) ==
  /\ DOMAIN s = {"page", "rows", "sel", "layout", "loading", "ok"}
  /\ s.page = "ulayout" /\ SeenAll(s.rows, S) /\ s.sel \in Ref
  /\ \A m \in N: m.ctx \in {"racks", "layout"}

RacksInv(s, N, S) ==
  /\ DOMAIN s = {"page", "rows", "room", "pg", "dlg", "form", "target", "saving", "loading", "ok"}
  /\ s.page = "racks" /\ SeenAll(s.rows, S) /\ s.target \in Ups \cup {NoRow}
  /\ s.room = NoRow \/ \E x \in s.rows: x.up = All /\ x.row = s.room
  /\ DOMAIN s.dlg = {"mode", "row", "ver"} /\ DlgOK(s.dlg, S) /\ FormOK(s.form, S)
  /\ s.dlg.mode = "edit" => Filled(s)

TemplatesInv(s, N, S) ==
  /\ DOMAIN s = {"page", "rows", "dlg", "form", "saving", "loading", "ok"}
  /\ s.page = "templates" /\ SeenAll(s.rows, S)
  /\ DOMAIN s.dlg = {"mode", "row", "ver"} /\ DlgOK(s.dlg, S) /\ FormOK(s.form, S)
  /\ s.dlg.mode \in {"edit", "version"} => Filled(s)

TreeInv(s, N, S) ==
  /\ DOMAIN s = {"page", "rows", "dc", "room", "dlg", "form", "loading", "ok"}
  /\ s.page = "hierarchy" /\ SeenAll(s.rows, S)
  /\ s.dc = NoRow \/ \E x \in s.rows: x.up = All /\ x.row = s.dc
  /\ s.room = NoRow \/ \E x \in s.rows: x.up = s.dc /\ x.row = s.room
  /\ DOMAIN s.dlg = {"mode", "row", "ver", "target"} /\ DlgOK(s.dlg, S) /\ s.dlg.target \in Ref /\ FormOK(s.form, S)
  /\ s.dlg.mode \in {"dc", "room", "rack"} => Filled(s)

PdusInv(s, N, S) ==
  /\ DOMAIN s = {"page", "rack", "rows", "socks", "busy", "conns", "dlg", "form", "saving", "loading", "ok"}
  /\ s.page = "pdus" /\ s.rack \in Group /\ SeenAll(s.rows, S) /\ SeenAll(s.socks, S) /\ SeenAll(s.conns, S)
  /\ DOMAIN s.dlg = {"mode", "row", "ver", "up"} /\ DlgOK(s.dlg, S) /\ s.dlg.up \in Ups \cup {NoRow}
       /\ FormOK(s.form, S)

-----------------------------------------------------------------------------
(* The screen: what a row is never changes *)

IsRoom(r, S) == r \in Row /\ S[r].up = All
IsRack(r, S) == r \in Row /\ S[r].up \in Row /\ S[S[r].up].up = All
IsDevice(r, S) == r \in Row /\ ~IsRoom(r, S) /\ ~IsRack(r, S)
\* What is seen of a room or a rack tells what it is.
PlaceOK(x, S) ==
  IF IsDevice(x.row, S) THEN x.up # All /\ ~IsRoom(x.up, S) ELSE x.up = S[x.row].up

Repairs == {"tree", "treeSaved", "treeDragged", "room"}
ScreenCallOK(m, S) ==
  /\ m.op \notin {"move", "copy"}
  /\ m.op \in {"mount", "shift", "unmount"} /\ m.res = "pending" =>
       IsDevice(m.row, S) /\ (IF m.op = "unmount" THEN m.up \in Group ELSE IsRack(m.up, S))
  /\ m.ctx \in {"drawer", "device", "saved"} => m.op = "get"
  /\ m.ctx \in {"drawer", "device", "saved", "saveDevice"} => IsDevice(m.row, S)
  /\ m.op = "layout" => m.ctx \in Repairs \cup {"placed", "export"} /\ IsRack(m.row, S)
       /\ \A x \in m.rows: IsDevice(x.row, S)
  /\ m.op = "list" => m.ctx \in {"tree", "treeSaved", "treeDragged", "assignable"}
  /\ m.ctx = "drag" => m.op = "put"
  /\ \A x \in m.rows: PlaceOK(x, S)

ScreenDlgOK(d, S) ==
  /\ DOMAIN d = {"mode", "row", "ver", "target"} /\ DlgOK(d, S) /\ d.target \in Ref
  /\ d.mode \in {"move", "drawer", "device"} => IsDevice(d.row, S)
  /\ d.mode = "assign" => IsRack(d.target, S)
  /\ d.mode = "rack" /\ d.row # NoRow => IsRack(d.row, S)
  /\ d.mode = "drawer" => d.target = NoRow \/ IsDevice(d.target, S)

\* The calls of one batch are awaited for one purpose.
Batched(N) == \A m, k \in N: m.op = "layout" /\ k.op = "layout" /\ m.page = k.page => m.ctx = k.ctx
\* A selection that is not drawn is about to be repaired.
SelOK(s, N) ==
  s.sel = Blank \/ (\E x \in s.rows: x.up = s.room /\ x.up # All /\ x.row = s.sel.row)
    \/ \E m \in N: m.op = "layout" /\ m.ctx \in Repairs
\* The updates of an exchange that are still awaited; the load after it is alone.
DragOK(s, N) ==
  /\ s.dragging \in {0, 1, 2}
  /\ s.dragging = 0 => \A m \in N: m.ctx # "drag"
  /\ s.dragging = 1 => \A m, k \in N: m.ctx = "drag" /\ k.ctx = "drag" => m = k
  /\ \A m, k, j \in N: m.ctx = "drag" /\ k.ctx = "drag" /\ j.ctx = "drag" => m = k \/ m = j \/ k = j
  /\ \A m \in N: m.ctx = "treeDragged" => s.dragging = 1 /\ \A k \in N: k.ctx # "drag"
  /\ \A m, k \in N: m.ctx = "treeDragged" /\ k.ctx = "treeDragged" =>
       m = k \/ (m.op = "layout" /\ k.op = "layout" /\ m.page = k.page)

ScreenRows(s, S) ==
  /\ SeenAll(s.rows, S) /\ \A x \in s.rows: PlaceOK(x, S) /\ (x.up = All \/ IsRack(x.row, S))
  /\ SeenAll(s.cand, S) /\ \A x \in s.cand: IsDevice(x.row, S)
  /\ \A e \in s.devs: /\ DOMAIN e = {"rack", "rows"} /\ SeenAll(e.rows, S)
                      /\ \A x \in e.rows: IsDevice(x.row, S)

ScreenUi(s, S) ==
  /\ DOMAIN s = {"page", "rows", "room", "devs", "sel", "hidden", "dlg", "form", "cand", "saving", "dragging",
                 "exporting", "loading", "ok", "fresh"}
  /\ s.page = "screen" /\ ScreenRows(s, S) /\ s.room \in Ref
  /\ FormOK(s.sel, S) /\ (s.sel.row # NoRow => IsRack(s.sel.row, S))
  /\ FormOK(s.form, S) /\ ScreenDlgOK(s.dlg, S)
ScreenNet(N, S) == IsFiniteSet(N) /\ Batched(N) /\ \A m \in N: ScreenCallOK(m, S)
ScreenInv(s, N, S) == ScreenUi(s, S) /\ ScreenNet(N, S) /\ SelOK(s, N) /\ DragOK(s, N)

PageInv(s, N, S) ==
  \/ LedgerInv(s, N, S) \/ TypesInv(s, N, S) \/ LayoutInv(s, N, S) \/ RacksInv(s, N, S)
  \/ TemplatesInv(s, N, S) \/ TreeInv(s, N, S) \/ PdusInv(s, N, S) \/ ScreenInv(s, N, S)
ConsoleInv == srv \in Rows /\ Calls(net, srv) /\ PageInv(ui, net, srv)

-----------------------------------------------------------------------------
(* Templates                                                                  *)

\* The instance for the templates has the definitions of module Wire.
LEMMA TemplatesSame ==
  /\ Templates!Call = Call /\ Templates!Blank = Blank
  /\ \A calls, c: Templates!Add(calls, c) = Add(calls, c)
  /\ \A s, calls: Templates!Begin(s, calls) = Begin(s, calls)
<1>1. Templates!Call = Call /\ Templates!Blank = Blank
  BY DEF Templates!Call, Call, Templates!Blank, Blank, Templates!NoRow, NoRow
<1>2. \A calls, c: Templates!Add(calls, c) = Add(calls, c)
  BY DEF Templates!Add, Add, Templates!Cardinality, Cardinality
<1>3. \A s, calls: Templates!Begin(s, calls) = Begin(s, calls)
  BY DEF Templates!Begin, Begin, Templates!Waiting, Waiting
<1> QED BY <1>1, <1>2, <1>3

\* The forms of a step, on the templates.
LEMMA TemplatesForms ==
  ASSUME NEW m, NEW s, NEW c, Sound(c)
  PROVE  /\ Templates!Write(s, c) => Writes(s, c)
         /\ Templates!Load(s, c) => Loads(s, c)
         /\ Templates!Set(s) => Sets(s)
         /\ \A t: "ok" \in DOMAIN t /\ Templates!After(m, s, c, t) => Follows(m, s, c, t)
<1>1. ASSUME Templates!Write(s, c) PROVE Writes(s, c)
  BY <1>1, MakesOne, TemplatesSame DEF Templates!Write, Writes
<1>2. ASSUME Templates!Load(s, c) PROVE Loads(s, c)
  BY <1>2, MakesOne, TemplatesSame, BeginAlike DEF Templates!Load, Loads
<1>3. ASSUME Templates!Set(s) PROVE Sets(s)
  BY <1>3, Takes DEF Templates!Set, Sets
<1>4. ASSUME NEW t, "ok" \in DOMAIN t, Templates!After(m, s, c, t) PROVE Follows(m, s, c, t)
  <2>1. CASE m.res = "ok"
    BY <1>4, <2>1, MakesOne, TemplatesSame, BeginAlike DEF Templates!After, Follows
  <2>2. CASE m.res # "ok"
    <3>1. Alike([t EXCEPT !.ok = @ /\ ~m.did], t)
      BY DEF Alike
    <3> QED BY <1>4, <2>2, <3>1, Takes DEF Templates!After, Follows
  <2> QED BY <2>1, <2>2
<1> QED BY <1>1, <1>2, <1>3, <1>4

\* Flags, history and the page of the list do not matter to the templates.
LEMMA TemplatesAlike ==
  ASSUME NEW s, NEW t, NEW N, NEW M, NEW S, TemplatesInv(s, N, S), Alike(t, s)
  PROVE  TemplatesInv(t, M, S)
<1>1. t.page = s.page /\ t.rows = s.rows /\ t.dlg = s.dlg /\ t.form = s.form /\ DOMAIN t = DOMAIN s
  BY DEF TemplatesInv, Alike
<1> QED BY <1>1 DEF TemplatesInv, Filled

TemplatesKept == (\E R, D: Handled(R, D)) /\ TemplatesInv(ui', net', srv)

\* The forms of a step keep the templates as they should be.
LEMMA TemplatesKeep ==
  ASSUME NEW s, TemplatesInv(s, net, srv), NEW c, NEW m
  PROVE  /\ Writes(s, c) => TemplatesKept
         /\ Loads(s, c) => TemplatesKept
         /\ Sets(s) => TemplatesKept
         /\ \A t: TemplatesInv(t, net, srv) /\ Follows(m, s, c, t) => TemplatesKept
<1>1. Alike(s, s) /\ \A t: Alike(t, s) => TemplatesInv(t, net', srv)
  BY TemplatesAlike DEF Alike
<1>2. \A t, u: TemplatesInv(t, net, srv) /\ Alike(u, t) => TemplatesInv(u, net', srv)
  BY TemplatesAlike
<1> QED BY <1>1, <1>2 DEF Writes, Loads, Sets, Follows, TemplatesKept, Makes

\* The calls of the templates are sound.
LEMMA TemplatesCalls ==
  ASSUME srv \in Rows, TemplatesInv(ui, net, srv)
  PROVE  /\ \A ctx: Sound(Templates!FetchTemplates(ctx))
         /\ \A x, auto: Sound([Templates!TemplateCall("post", IF auto THEN "saveAuto" ELSE "save", NoRow, 0)
              EXCEPT !.up = CHOOSE g \in Group: TRUE])
         /\ ui.dlg.mode = "edit" => Sound([Templates!TemplateCall("overwrite", "save", ui.dlg.row, ui.dlg.ver)
              EXCEPT !.form = ui.form])
         /\ ui.dlg.mode = "version" => Sound([Templates!TemplateCall("put", "save", ui.dlg.row, ui.dlg.ver)
              EXCEPT !.form = ui.form])
         /\ \A x \in ui.rows: Sound(Templates!TemplateCall("delete", "remove", x.row, x.ver))
<1>1. ASSUME NEW ctx PROVE Sound(Templates!FetchTemplates(ctx))
  <2>1. PICK c: c = Templates!FetchTemplates(ctx)
    OBVIOUS
  <2>2. Asks(c, "list", NoRow, 0, Blank, All)
    BY <2>1, TemplatesSame DEF Templates!FetchTemplates, Templates!TemplateCall, Call, Asks, CallFields,
       Templates!NoRow, NoRow
  <2> QED BY <2>1, <2>2, ListAsked, SetsTyped
<1>2. ASSUME NEW auto PROVE Sound([Templates!TemplateCall("post", IF auto THEN "saveAuto" ELSE "save", NoRow, 0)
        EXCEPT !.up = CHOOSE g \in Group: TRUE])
  <2>1. PICK c, u: c = [Templates!TemplateCall("post", IF auto THEN "saveAuto" ELSE "save", NoRow, 0)
          EXCEPT !.up = CHOOSE g \in Group: TRUE]
                  /\ u = CHOOSE g \in Group: TRUE
    OBVIOUS
  <2>2. Asks(c, "post", NoRow, 0, Blank, u)
    BY <2>1, TemplatesSame DEF Templates!TemplateCall, Call, Asks, CallFields
  <2>3. u \in Ups
    BY <2>1, WireAssumption DEF Ups
  <2> QED BY <2>1, <2>2, <2>3, PostAsked, SetsTyped, BlankOK
<1>3. ASSUME NEW op \in {"put", "overwrite"}, ui.dlg.mode \in {"edit", "version"}
        PROVE Sound([Templates!TemplateCall(op, "save", ui.dlg.row, ui.dlg.ver) EXCEPT !.form = ui.form])
  <2>1. PICK c: c = [Templates!TemplateCall(op, "save", ui.dlg.row, ui.dlg.ver) EXCEPT !.form = ui.form]
    OBVIOUS
  <2>2. Asks(c, op, ui.dlg.row, ui.dlg.ver, ui.form, All)
    BY <2>1, TemplatesSame DEF Templates!TemplateCall, Call, Asks, CallFields
  <2>3. ui.dlg.row \in Ref /\ ui.dlg.ver \in Nat /\ FormOK(ui.form, srv) /\ Filled(ui)
    BY <1>3 DEF TemplatesInv, DlgOK
  <2>4. ui.form.row = ui.dlg.row /\ ui.dlg.ver =< ui.form.ver
    BY <2>3 DEF Filled
  <2> QED BY <2>1, <2>2, <2>3, <2>4, FormAsked
<1>4. ASSUME NEW x \in ui.rows PROVE Sound(Templates!TemplateCall("delete", "remove", x.row, x.ver))
  <2>1. PICK c: c = Templates!TemplateCall("delete", "remove", x.row, x.ver)
    OBVIOUS
  <2>2. Asks(c, "delete", x.row, x.ver, Blank, All)
    BY <2>1, TemplatesSame DEF Templates!TemplateCall, Call, Asks, CallFields
  <2>3. x.row \in Ref /\ x.ver \in Nat
    BY SetsTyped DEF TemplatesInv, SeenAll, SeenOK
  <2> QED BY <2>1, <2>2, <2>3, DeleteAsked
<1> QED BY <1>1, <1>2, <1>3, <1>4

\* Every step of the templates.
LEMMA TemplatesStep ==
  ASSUME srv \in Rows, Calls(net, srv), TemplatesInv(ui, net, srv), Templates!PageNext
  PROVE  TemplatesKept
<1> USE TemplatesKeep, TemplatesForms, TemplatesCalls
<1>0. /\ DOMAIN ui = {"page", "rows", "dlg", "form", "saving", "loading", "ok"} /\ ui.page = "templates"
      /\ SeenAll(ui.rows, srv) /\ DOMAIN ui.dlg = {"mode", "row", "ver"} /\ DlgOK(ui.dlg, srv) /\ FormOK(ui.form, srv)
      /\ ui.dlg.mode \in {"edit", "version"} => Filled(ui)
  BY DEF TemplatesInv
<1>1. CASE Templates!LoadAll
  BY <1>1 DEF Templates!LoadAll
<1>2. ASSUME NEW s, DOMAIN s = DOMAIN ui, s.page = ui.page, s.rows = ui.rows, s.dlg = ui.dlg, s.form = ui.form
      PROVE  TemplatesInv(s, net, srv)
  BY <1>0, <1>2 DEF TemplatesInv, Filled
<1>3. ASSUME NEW s, DOMAIN s = DOMAIN ui, s.page = ui.page, s.rows = ui.rows, s.dlg = Templates!Closed, s.form = ui.form
      PROVE  TemplatesInv(s, net, srv)
  BY <1>0, <1>3, SetsTyped DEF TemplatesInv, Templates!Closed, DlgOK, Templates!NoRow, NoRow
<1>4. ASSUME NEW m, Templates!LandTemplates(m), m \in net
      PROVE  TemplatesKept
  <2>1. Handled({m}, {})
    BY <1>4, Takes DEF Templates!LandTemplates
  <2>2. SeenAll(m.rows, srv)
    BY <1>4 DEF Calls, CallOK
  <2>3. /\ DOMAIN ui' = DOMAIN ui /\ ui'.page = ui.page /\ ui'.dlg = ui.dlg /\ ui'.form = ui.form
        /\ ui'.rows \in {ui.rows, m.rows}
    BY <1>0, <1>4 DEF Templates!LandTemplates
  <2> QED BY <1>0, <2>1, <2>2, <2>3 DEF TemplatesKept, TemplatesInv, Filled
<1>5. CASE Templates!OpenCreate
  <2>1. PICK s: s = [ui EXCEPT !.dlg.mode = "create", !.form = Blank]
    OBVIOUS
  <2>2. /\ DOMAIN s = DOMAIN ui /\ s.page = ui.page /\ s.rows = ui.rows /\ s.form = Blank
             /\ DOMAIN s.dlg = DOMAIN ui.dlg
        /\ s.dlg.mode = "create" /\ s.dlg.row = ui.dlg.row /\ s.dlg.ver = ui.dlg.ver
    BY <1>0, <2>1
  <2>3. TemplatesInv(s, net, srv)
    BY <1>0, <2>2, BlankOK DEF TemplatesInv, DlgOK
  <2>4. Sets(s)
    BY <1>5, <2>1, TemplatesSame, Takes DEF Templates!OpenCreate, Templates!Set, Sets
  <2> QED BY <2>3, <2>4
<1>6. ASSUME NEW x \in ui.rows, Templates!OpenEdit(x) \/ Templates!OpenVersion(x)
      PROVE  TemplatesKept
  <2>1. PICK s, mode: /\ mode \in {"edit", "version"}
                      /\ s = [ui EXCEPT !.dlg = [mode |-> mode, row |-> x.row, ver |-> x.ver],
                           !.form = [row |-> x.row, ver |-> x.ver]]
                      /\ Templates!Set(s)
    BY <1>6 DEF Templates!OpenEdit, Templates!OpenVersion
  <2>2. x.row \in Row /\ x.ver \in Nat /\ x.ver =< srv[x.row].ver
    BY <1>0 DEF SeenAll, SeenOK
  <2>3. FormOK([row |-> x.row, ver |-> x.ver], srv)
    BY <2>2, SetsTyped DEF FormOK
  <2>4. TemplatesInv(s, net, srv)
    BY <1>0, <2>1, <2>2, <2>3, SetsTyped DEF TemplatesInv, DlgOK, Filled
  <2>5. Sets(s)
    BY <2>1, Takes DEF Templates!Set, Sets
  <2> QED BY <2>4, <2>5
<1>7. CASE Templates!Cancel
  <2>1. PICK s: s = [ui EXCEPT !.dlg = Templates!Closed] /\ Templates!Set(s)
    BY <1>7 DEF Templates!Cancel
  <2>2. Sets(s)
    BY <2>1, Takes DEF Templates!Set, Sets
  <2>3. TemplatesInv(s, net, srv)
    BY <1>0, <1>3, <2>1
  <2> QED BY <2>2, <2>3
<1>8. ASSUME NEW s, s = [ui EXCEPT !.saving = TRUE], NEW c, Sound(c), Templates!Write(s, c)
      PROVE  TemplatesKept
  <2>1. TemplatesInv(s, net, srv)
    BY <1>0, <1>2, <1>8
  <2> QED BY <1>8, <2>1
<1>9. ASSUME NEW auto \in BOOLEAN, Templates!Save(auto)
      PROVE  TemplatesKept
  <2>1. PICK c: /\ c = IF ui.dlg.mode = "edit"
                        THEN [Templates!TemplateCall("overwrite", "save", ui.dlg.row, ui.dlg.ver)
                          EXCEPT !.form = ui.form]
                        ELSE [Templates!TemplateCall("post", IF auto THEN "saveAuto" ELSE "save", NoRow, 0)
                          EXCEPT !.up = CHOOSE g \in Group: TRUE]
                /\ Templates!Write([ui EXCEPT !.saving = TRUE], c)
    BY <1>9 DEF Templates!Save, Templates!NoRow, NoRow
  <2>2. Sound(c)
    BY <2>1
  <2> QED BY <1>8, <2>1, <2>2
<1>10. CASE Templates!PublishVersion
  BY <1>8, <1>10 DEF Templates!PublishVersion
<1>11. CASE Templates!Remove
  BY <1>11 DEF Templates!Remove
<1>12. ASSUME NEW m \in net, Templates!LandRemove(m)
       PROVE  TemplatesKept
  BY <1>0, <1>12 DEF Templates!LandRemove
<1>13. ASSUME NEW m \in net, Templates!LandSave(m)
       PROVE  TemplatesKept
  <2>1. CASE /\ m.res = "conflict" /\ ui' = ui /\ UNCHANGED srv
             /\ net' = Templates!Add(net \ {m}, [Templates!TemplateCall("post", "save", Templates!NoRow, 0)
                  EXCEPT !.up = m.up, !.again = m.did])
    <3>1. PICK c: c = [Templates!TemplateCall("post", "save", Templates!NoRow, 0) EXCEPT !.up = m.up, !.again = m.did]
      OBVIOUS
    <3>2. CallOK(m, srv)
      BY DEF Calls
    <3>3. m.up \in Ups \cup {NoRow} /\ ~m.did
      BY <2>1, <3>2 DEF CallOK
    <3>4. Asks(c, "post", NoRow, 0, Blank, m.up)
      BY <3>1, <3>3, TemplatesSame DEF Templates!TemplateCall, Call, Asks, CallFields, Templates!NoRow, NoRow
    <3>5. Sound(c)
      BY <3>3, <3>4, PostAsked, SetsTyped, BlankOK
    <3>6. \E d: Makes({m}, c, d)
      BY <2>1, <3>1, <3>5, MakesOne, TemplatesSame
    <3>7. TemplatesInv(ui', net', srv)
      BY <2>1, TemplatesAlike DEF Alike
    <3> QED BY <3>6, <3>7 DEF TemplatesKept, Makes
  <2>2. CASE Templates!After(m, [ui EXCEPT !.dlg = Templates!Closed], Templates!FetchTemplates("templatesSaved"),
          [ui EXCEPT !.saving = FALSE])
    <3>1. PICK s, t: s = [ui EXCEPT !.dlg = Templates!Closed] /\ t = [ui EXCEPT !.saving = FALSE]
      OBVIOUS
    <3>2. TemplatesInv(s, net, srv) /\ TemplatesInv(t, net, srv) /\ "ok" \in DOMAIN t
      BY <1>0, <1>2, <1>3, <3>1
    <3>3. Follows(m, s, Templates!FetchTemplates("templatesSaved"), t)
      BY <2>2, <3>1, <3>2
    <3> QED BY <3>2, <3>3
  <2> QED BY <1>13, <2>1, <2>2 DEF Templates!LandSave
<1>14. CASE Templates!Buttons
  BY <1>5, <1>6, <1>7, <1>14 DEF Templates!Buttons
<1> QED BY <1>1, <1>4, <1>9, <1>10, <1>11, <1>12, <1>13, <1>14 DEF Templates!PageNext

-----------------------------------------------------------------------------
(* Racks                                                                      *)

\* The instance for the racks has the definitions of module Wire.
LEMMA RackListSame ==
  /\ RackList!Call = Call /\ RackList!Blank = Blank
  /\ \A calls, c: RackList!Add(calls, c) = Add(calls, c)
  /\ \A s, calls: RackList!Begin(s, calls) = Begin(s, calls)
<1>1. RackList!Call = Call /\ RackList!Blank = Blank
  BY DEF RackList!Call, Call, RackList!Blank, Blank, RackList!NoRow, NoRow
<1>2. \A calls, c: RackList!Add(calls, c) = Add(calls, c)
  BY DEF RackList!Add, Add, RackList!Cardinality, Cardinality
<1>3. \A s, calls: RackList!Begin(s, calls) = Begin(s, calls)
  BY DEF RackList!Begin, Begin, RackList!Waiting, Waiting
<1> QED BY <1>1, <1>2, <1>3

\* The forms of a step, on the racks.
LEMMA RackListForms ==
  ASSUME NEW m, NEW s, NEW c, Sound(c)
  PROVE  /\ RackList!Write(s, c) => Writes(s, c)
         /\ RackList!Load(s, c) => Loads(s, c)
         /\ RackList!Set(s) => Sets(s)
         /\ \A t: "ok" \in DOMAIN t /\ RackList!After(m, s, c, t) => Follows(m, s, c, t)
<1>1. ASSUME RackList!Write(s, c) PROVE Writes(s, c)
  BY <1>1, MakesOne, RackListSame DEF RackList!Write, Writes
<1>2. ASSUME RackList!Load(s, c) PROVE Loads(s, c)
  BY <1>2, MakesOne, RackListSame, BeginAlike DEF RackList!Load, Loads
<1>3. ASSUME RackList!Set(s) PROVE Sets(s)
  BY <1>3, Takes DEF RackList!Set, Sets
<1>4. ASSUME NEW t, "ok" \in DOMAIN t, RackList!After(m, s, c, t) PROVE Follows(m, s, c, t)
  <2>1. CASE m.res = "ok"
    BY <1>4, <2>1, MakesOne, RackListSame, BeginAlike DEF RackList!After, Follows
  <2>2. CASE m.res # "ok"
    <3>1. Alike([t EXCEPT !.ok = @ /\ ~m.did], t)
      BY DEF Alike
    <3> QED BY <1>4, <2>2, <3>1, Takes DEF RackList!After, Follows
  <2> QED BY <2>1, <2>2
<1> QED BY <1>1, <1>2, <1>3, <1>4

\* Flags, history and the page of the list do not matter to the racks.
LEMMA RacksAlike ==
  ASSUME NEW s, NEW t, NEW N, NEW M, NEW S, RacksInv(s, N, S), DOMAIN t = DOMAIN s,
         \A f \in DOMAIN s \ {"loading", "ok", "saving", "pg"}: t[f] = s[f]
  PROVE  RacksInv(t, M, S)
<1>1. t.page = s.page /\ t.rows = s.rows /\ t.room = s.room /\ t.target = s.target /\ t.dlg = s.dlg /\ t.form = s.form
  BY DEF RacksInv
<1> QED BY <1>1 DEF RacksInv, Filled

RacksKept == (\E R, D: Handled(R, D)) /\ RacksInv(ui', net', srv)

\* The forms of a step keep the racks as they should be.
LEMMA RacksKeep ==
  ASSUME NEW s, RacksInv(s, net, srv), NEW c, NEW m
  PROVE  /\ Writes(s, c) => RacksKept
         /\ Loads(s, c) => RacksKept
         /\ Sets(s) => RacksKept
         /\ \A t: RacksInv(t, net, srv) /\ Follows(m, s, c, t) => RacksKept
<1>1. \A t, u: RacksInv(t, net, srv) /\ Alike(u, t) => RacksInv(u, net', srv)
  <2> SUFFICES ASSUME NEW t, NEW u, RacksInv(t, net, srv), Alike(u, t) PROVE RacksInv(u, net', srv)
    OBVIOUS
  <2> QED BY RacksAlike DEF Alike
<1>2. Alike(s, s)
  BY DEF Alike
<1> QED BY <1>1, <1>2 DEF Writes, Loads, Sets, Follows, RacksKept, Makes

\* The calls of the racks are sound.
LEMMA RacksCalls ==
  ASSUME srv \in Rows, RacksInv(ui, net, srv)
  PROVE  /\ \A ctx: Sound(RackList!FetchTree(ctx))
         /\ \A auto: Sound([RackList!RackCall("post", IF auto THEN "saveAuto" ELSE "save", NoRow, 0)
              EXCEPT !.up = ui.target])
         /\ ui.dlg.mode = "edit" => Sound([RackList!RackCall("put", "save", ui.dlg.row, ui.dlg.ver)
              EXCEPT !.form = ui.form])
         /\ \A x \in ui.rows: Sound(RackList!RackCall("delete", "remove", x.row, x.ver))
<1>1. ASSUME NEW ctx PROVE Sound(RackList!FetchTree(ctx))
  <2>1. PICK c: c = RackList!FetchTree(ctx)
    OBVIOUS
  <2>2. Asks(c, "list", NoRow, 0, Blank, All)
    BY <2>1, RackListSame DEF RackList!FetchTree, Call, Asks, CallFields
  <2> QED BY <2>1, <2>2, ListAsked, SetsTyped
<1>2. ASSUME NEW auto PROVE Sound([RackList!RackCall("post", IF auto THEN "saveAuto" ELSE "save", NoRow, 0)
        EXCEPT !.up = ui.target])
  <2>1. PICK c: c = [RackList!RackCall("post", IF auto THEN "saveAuto" ELSE "save", NoRow, 0) EXCEPT !.up = ui.target]
    OBVIOUS
  <2>2. Asks(c, "post", NoRow, 0, Blank, ui.target)
    BY <2>1, RackListSame DEF RackList!RackCall, Call, Asks, CallFields
  <2>3. ui.target \in Ups \cup {NoRow}
    BY DEF RacksInv
  <2> QED BY <2>1, <2>2, <2>3, PostAsked, SetsTyped, BlankOK
<1>3. ASSUME ui.dlg.mode = "edit" PROVE Sound([RackList!RackCall("put", "save", ui.dlg.row, ui.dlg.ver)
        EXCEPT !.form = ui.form])
  <2>1. PICK c: c = [RackList!RackCall("put", "save", ui.dlg.row, ui.dlg.ver) EXCEPT !.form = ui.form]
    OBVIOUS
  <2>2. Asks(c, "put", ui.dlg.row, ui.dlg.ver, ui.form, All)
    BY <2>1, RackListSame DEF RackList!RackCall, Call, Asks, CallFields
  <2>3. ui.dlg.row \in Ref /\ ui.dlg.ver \in Nat /\ FormOK(ui.form, srv) /\ Filled(ui)
    BY <1>3 DEF RacksInv, DlgOK
  <2>4. ui.form.row = ui.dlg.row /\ ui.dlg.ver =< ui.form.ver
    BY <2>3 DEF Filled
  <2> QED BY <2>1, <2>2, <2>3, <2>4, FormAsked
<1>4. ASSUME NEW x \in ui.rows PROVE Sound(RackList!RackCall("delete", "remove", x.row, x.ver))
  <2>1. PICK c: c = RackList!RackCall("delete", "remove", x.row, x.ver)
    OBVIOUS
  <2>2. Asks(c, "delete", x.row, x.ver, Blank, All)
    BY <2>1, RackListSame DEF RackList!RackCall, Call, Asks, CallFields
  <2>3. x.row \in Ref /\ x.ver \in Nat
    BY SetsTyped DEF RacksInv, SeenAll, SeenOK
  <2> QED BY <2>1, <2>2, <2>3, DeleteAsked
<1> QED BY <1>1, <1>2, <1>3, <1>4

\* The first of the rows that are shown is one of them.
LEMMA FirstRack ==
  ASSUME NEW S, S # {}, \A x \in S: x.row \in Nat
  PROVE  RackList!First(S) \in S
<1>1. PICK k \in {x.row: x \in S}: \A l \in {x.row: x \in S}: k =< l
  BY Least
<1>2. \E x \in S: \A y \in S: x.row =< y.row
  BY <1>1
<1> QED BY <1>2 DEF RackList!First

\* Every step of the racks.
LEMMA RacksStep ==
  ASSUME srv \in Rows, Calls(net, srv), RacksInv(ui, net, srv), RackList!PageNext
  PROVE  RacksKept
<1> USE RacksKeep, RackListForms, RacksCalls
<1>0. /\ DOMAIN ui = {"page", "rows", "room", "pg", "dlg", "form", "target", "saving", "loading", "ok"}
           /\ ui.page = "racks"
      /\ SeenAll(ui.rows, srv) /\ ui.target \in Ups \cup {NoRow}
      /\ ui.room = NoRow \/ \E x \in ui.rows: x.up = All /\ x.row = ui.room
      /\ DOMAIN ui.dlg = {"mode", "row", "ver"} /\ DlgOK(ui.dlg, srv) /\ FormOK(ui.form, srv)
      /\ ui.dlg.mode = "edit" => Filled(ui)
  BY DEF RacksInv
<1>a. \A x \in ui.rows: x.row \in Row /\ x.row \in Nat /\ x.ver \in Nat /\ x.ver =< srv[x.row].ver /\ x.up \in Ups
  BY <1>0, WireAssumption DEF SeenAll, SeenOK
<1>1. CASE RackList!LoadAll
  BY <1>1 DEF RackList!LoadAll
<1>2. ASSUME NEW s, DOMAIN s = DOMAIN ui, \A f \in DOMAIN ui \ {"loading", "ok", "saving", "pg"}: s[f] = ui[f]
      PROVE  RacksInv(s, net, srv)
  BY <1>2, RacksAlike
<1>3. ASSUME NEW s, DOMAIN s = DOMAIN ui, s.page = ui.page, s.rows = ui.rows, s.form = ui.form, s.room = ui.room,
        s.target = ui.target,
             s.dlg = RackList!Closed
      PROVE  RacksInv(s, net, srv)
  BY <1>0, <1>3, SetsTyped DEF RacksInv, RackList!Closed, DlgOK, RackList!NoRow, NoRow
<1>4. ASSUME NEW m, RackList!LandTree(m), m \in net
      PROVE  RacksKept
  <2>1. Handled({m}, {})
    BY <1>4, Takes DEF RackList!LandTree
  <2>2. SeenAll(m.rows, srv)
    BY <1>4 DEF Calls, CallOK
  <2>3. /\ DOMAIN ui' = DOMAIN ui /\ ui'.page = ui.page /\ ui'.dlg = ui.dlg /\ ui'.form = ui.form
             /\ ui'.target = ui.target
    BY <1>0, <1>4 DEF RackList!LandTree
  <2>4. \/ ui'.rows = ui.rows /\ ui'.room = ui.room
        \/ ui'.rows = m.rows /\ (ui'.room = NoRow \/ \E x \in m.rows: x.up = All /\ x.row = ui'.room)
    BY <1>0, <1>4 DEF RackList!LandTree, RackList!Rooms, RackList!NoRow, NoRow
  <2>5. SeenAll(ui'.rows, srv) /\ (ui'.room = NoRow \/ \E x \in ui'.rows: x.up = All /\ x.row = ui'.room)
    BY <1>0, <2>2, <2>4
  <2> QED BY <1>0, <2>1, <2>3, <2>5 DEF RacksKept, RacksInv, Filled
<1>5. ASSUME NEW s, NEW r, s = [ui EXCEPT !.room = r, !.pg = 1],
        r = NoRow \/ (\E x \in RackList!Rooms(ui.rows): x.row = r), RackList!Set(s)
      PROVE  RacksKept
  <2>1. /\ DOMAIN s = DOMAIN ui /\ s.page = ui.page /\ s.rows = ui.rows /\ s.form = ui.form /\ s.room = r
             /\ s.dlg = ui.dlg
        /\ s.target = ui.target
    BY <1>0, <1>5
  <2>2. RacksInv(s, net, srv)
    BY <1>0, <1>5, <2>1 DEF RacksInv, Filled, RackList!Rooms
  <2>3. Sets(s)
    BY <1>5, Takes DEF RackList!Set, Sets
  <2> QED BY <2>2, <2>3
<1>6. CASE RackList!FilterRoom \/ RackList!ResetFilters
  BY <1>5, <1>6 DEF RackList!FilterRoom, RackList!ResetFilters, RackList!NoRow, NoRow
<1>7. CASE RackList!TurnPage
  <2>1. PICK p: RackList!Set([ui EXCEPT !.pg = p])
    BY <1>7 DEF RackList!TurnPage
  <2>2. RacksInv([ui EXCEPT !.pg = p], net, srv)
    BY <1>0, <1>2
  <2>3. Sets([ui EXCEPT !.pg = p])
    BY <2>1, Takes DEF RackList!Set, Sets
  <2> QED BY <2>2, <2>3
<1>8. CASE RackList!OpenCreate
  <2>1. PICK u: u = IF ui.room # NoRow THEN ui.room ELSE RackList!First(RackList!Rooms(ui.rows)).row
    OBVIOUS
  <2>2. u \in Ups \cup {NoRow}
    <3>1. RackList!Rooms(ui.rows) # {} /\ \A x \in RackList!Rooms(ui.rows): x \in ui.rows /\ x.row \in Nat
      BY <1>8, <1>a DEF RackList!OpenCreate, RackList!Rooms
    <3>2. RackList!First(RackList!Rooms(ui.rows)) \in ui.rows
      BY <3>1, FirstRack
    <3> QED BY <1>0, <1>a, <2>1, <3>2, SetsTyped
  <2>3. PICK s: s = [ui EXCEPT !.dlg.mode = "create", !.form = Blank, !.target = u]
    OBVIOUS
  <2>4. /\ DOMAIN s = DOMAIN ui /\ s.page = ui.page /\ s.rows = ui.rows /\ s.form = Blank
             /\ DOMAIN s.dlg = DOMAIN ui.dlg
        /\ s.dlg.mode = "create" /\ s.dlg.row = ui.dlg.row /\ s.dlg.ver = ui.dlg.ver /\ s.room = ui.room /\ s.target = u
    BY <1>0, <2>3
  <2>5. RacksInv(s, net, srv)
    BY <1>0, <2>2, <2>4, BlankOK DEF RacksInv, DlgOK
  <2>6. Sets(s)
    BY <1>8, <2>1, <2>3, RackListSame, Takes DEF RackList!OpenCreate, RackList!Set, Sets, RackList!NoRow, NoRow
  <2> QED BY <2>5, <2>6
<1>9. CASE RackList!ChooseRoom
  <2>1. PICK x, s: x \in ui.rows /\ s = [ui EXCEPT !.target = x.row] /\ RackList!Set(s)
    BY <1>9 DEF RackList!ChooseRoom, RackList!Rooms
  <2>2. RacksInv(s, net, srv)
    BY <1>0, <1>a, <2>1, SetsTyped DEF RacksInv, Filled
  <2>3. Sets(s)
    BY <2>1, Takes DEF RackList!Set, Sets
  <2> QED BY <2>2, <2>3
<1>10. CASE RackList!OpenEdit
  <2>1. PICK x, s: /\ x \in ui.rows /\ RackList!Set(s)
                   /\ s = [ui EXCEPT !.dlg = [mode |-> "edit", row |-> x.row, ver |-> x.ver],
                                     !.form = [row |-> x.row, ver |-> x.ver], !.target = x.up]
    BY <1>10 DEF RackList!OpenEdit
  <2>2. FormOK([row |-> x.row, ver |-> x.ver], srv)
    BY <1>a, <2>1, SetsTyped DEF FormOK
  <2>3. RacksInv(s, net, srv)
    BY <1>0, <1>a, <2>1, <2>2, SetsTyped DEF RacksInv, DlgOK, Filled
  <2>4. Sets(s)
    BY <2>1, Takes DEF RackList!Set, Sets
  <2> QED BY <2>3, <2>4
<1>11. CASE RackList!Cancel
  <2>1. PICK s: s = [ui EXCEPT !.dlg = RackList!Closed] /\ RackList!Set(s)
    BY <1>11 DEF RackList!Cancel
  <2>2. Sets(s)
    BY <2>1, Takes DEF RackList!Set, Sets
  <2>3. RacksInv(s, net, srv)
    BY <1>0, <1>3, <2>1
  <2> QED BY <2>2, <2>3
<1>12. ASSUME NEW auto \in BOOLEAN, RackList!Save(auto)
      PROVE  RacksKept
  <2>1. PICK c: /\ c = IF ui.dlg.mode = "edit"
                       THEN [RackList!RackCall("put", "save", ui.dlg.row, ui.dlg.ver) EXCEPT !.form = ui.form]
                       ELSE [RackList!RackCall("post", IF auto THEN "saveAuto" ELSE "save", NoRow, 0)
                         EXCEPT !.up = ui.target]
                /\ RackList!Write([ui EXCEPT !.saving = TRUE], c)
    BY <1>12 DEF RackList!Save, RackList!NoRow, NoRow
  <2>2. Sound(c)
    BY <2>1
  <2>3. PICK s: s = [ui EXCEPT !.saving = TRUE]
    OBVIOUS
  <2>4. RacksInv(s, net, srv)
    BY <1>0, <1>2, <2>3
  <2>5. Writes(s, c)
    BY <2>1, <2>2, <2>3
  <2> QED BY <2>4, <2>5
<1>13. CASE RackList!Remove
  BY <1>13 DEF RackList!Remove
<1>14. ASSUME NEW m \in net, RackList!LandRemove(m)
       PROVE  RacksKept
  BY <1>0, <1>14 DEF RackList!LandRemove
<1>15. ASSUME NEW m \in net, RackList!LandSave(m)
       PROVE  RacksKept
  <2>1. CASE RackList!IsConflict(m) /\ RackList!Retry(m)
    <3>1. PICK c: c = [RackList!RackCall("post", "save", RackList!NoRow, 0) EXCEPT !.up = m.up, !.again = m.did]
      OBVIOUS
    <3>2. CallOK(m, srv)
      BY DEF Calls
    <3>3. m.up \in Ups \cup {NoRow} /\ ~m.did
      BY <2>1, <3>2 DEF CallOK, RackList!IsConflict
    <3>4. Asks(c, "post", NoRow, 0, Blank, m.up)
      BY <3>1, <3>3, RackListSame DEF RackList!RackCall, Call, Asks, CallFields, RackList!NoRow, NoRow
    <3>5. Sound(c)
      BY <3>3, <3>4, PostAsked, SetsTyped, BlankOK
    <3>6. \E d: Makes({m}, c, d)
      BY <2>1, <3>1, <3>5, MakesOne, RackListSame DEF RackList!Retry
    <3>7. RacksInv(ui', net', srv)
      BY <2>1, RacksAlike DEF RackList!Retry
    <3> QED BY <3>6, <3>7 DEF RacksKept, Makes
  <2>2. CASE RackList!After(m, [ui EXCEPT !.dlg = RackList!Closed], RackList!FetchTree("treeSaved"),
          [ui EXCEPT !.saving = FALSE])
    <3>1. PICK s, t: s = [ui EXCEPT !.dlg = RackList!Closed] /\ t = [ui EXCEPT !.saving = FALSE]
      OBVIOUS
    <3>2. RacksInv(s, net, srv) /\ RacksInv(t, net, srv) /\ "ok" \in DOMAIN t
      BY <1>0, <1>2, <1>3, <3>1
    <3>3. Follows(m, s, RackList!FetchTree("treeSaved"), t)
      BY <2>2, <3>1, <3>2
    <3> QED BY <3>2, <3>3
  <2> QED BY <1>15, <2>1, <2>2 DEF RackList!LandSave
<1> QED BY <1>1, <1>4, <1>6, <1>7, <1>8, <1>9, <1>10, <1>11, <1>12, <1>13, <1>14, <1>15 DEF RackList!PageNext

-----------------------------------------------------------------------------
(* PDUs                                                                       *)

\* The instance for the PDUs has the definitions of module Wire.
LEMMA PdusSame ==
  /\ Power!Call = Call /\ Power!Blank = Blank
  /\ \A calls, c: Power!Add(calls, c) = Add(calls, c)
  /\ \A s, calls: Power!Begin(s, calls) = Begin(s, calls)
<1>1. Power!Call = Call /\ Power!Blank = Blank
  BY DEF Power!Call, Call, Power!Blank, Blank, Power!NoRow, NoRow
<1>2. \A calls, c: Power!Add(calls, c) = Add(calls, c)
  BY DEF Power!Add, Add, Power!Cardinality, Cardinality
<1>3. \A s, calls: Power!Begin(s, calls) = Begin(s, calls)
  BY DEF Power!Begin, Begin, Power!Waiting, Waiting
<1> QED BY <1>1, <1>2, <1>3

\* The forms of a step, on the PDUs.
LEMMA PdusForms ==
  ASSUME NEW m, NEW s, NEW c, Sound(c)
  PROVE  /\ Power!Write(s, c) => Writes(s, c)
         /\ Power!Load(s, c) => Loads(s, c)
         /\ Power!Set(s) => Sets(s)
         /\ \A t: "ok" \in DOMAIN t /\ Power!After(m, s, c, t) => Follows(m, s, c, t)
<1>1. ASSUME Power!Write(s, c) PROVE Writes(s, c)
  BY <1>1, MakesOne, PdusSame DEF Power!Write, Writes
<1>2. ASSUME Power!Load(s, c) PROVE Loads(s, c)
  BY <1>2, MakesOne, PdusSame, BeginAlike DEF Power!Load, Loads
<1>3. ASSUME Power!Set(s) PROVE Sets(s)
  BY <1>3, Takes DEF Power!Set, Sets
<1>4. ASSUME NEW t, "ok" \in DOMAIN t, Power!After(m, s, c, t) PROVE Follows(m, s, c, t)
  <2>1. CASE m.res = "ok"
    BY <1>4, <2>1, MakesOne, PdusSame, BeginAlike DEF Power!After, Follows
  <2>2. CASE m.res # "ok"
    <3>1. Alike([t EXCEPT !.ok = @ /\ ~m.did], t)
      BY DEF Alike
    <3> QED BY <1>4, <2>2, <3>1, Takes DEF Power!After, Follows
  <2> QED BY <2>1, <2>2
<1> QED BY <1>1, <1>2, <1>3, <1>4

\* Flags, history and the page of the list do not matter to the PDUs.
LEMMA PdusAlike ==
  ASSUME NEW s, NEW t, NEW N, NEW M, NEW S, PdusInv(s, N, S), DOMAIN t = DOMAIN s,
         \A f \in DOMAIN s \ {"loading", "ok", "saving"}: t[f] = s[f]
  PROVE  PdusInv(t, M, S)
<1>1. /\ t.page = s.page /\ t.rack = s.rack /\ t.rows = s.rows /\ t.socks = s.socks /\ t.conns = s.conns
      /\ t.dlg = s.dlg /\ t.form = s.form
  BY DEF PdusInv
<1> QED BY <1>1 DEF PdusInv

PdusKept == (\E R, D: Handled(R, D)) /\ PdusInv(ui', net', srv)

\* The forms of a step keep the PDUs as they should be.
LEMMA PdusKeep ==
  ASSUME NEW s, PdusInv(s, net, srv), NEW c, NEW m
  PROVE  /\ Writes(s, c) => PdusKept
         /\ Loads(s, c) => PdusKept
         /\ Sets(s) => PdusKept
         /\ \A t: PdusInv(t, net, srv) /\ Follows(m, s, c, t) => PdusKept
<1>1. \A t, u: PdusInv(t, net, srv) /\ Alike(u, t) => PdusInv(u, net', srv)
  <2> SUFFICES ASSUME NEW t, NEW u, PdusInv(t, net, srv), Alike(u, t) PROVE PdusInv(u, net', srv)
    OBVIOUS
  <2> QED BY PdusAlike DEF Alike
<1>2. Alike(s, s)
  BY DEF Alike
<1> QED BY <1>1, <1>2 DEF Writes, Loads, Sets, Follows, PdusKept, Makes

\* The calls of the PDUs are sound.
LEMMA PdusCalls ==
  ASSUME srv \in Rows, PdusInv(ui, net, srv)
  PROVE  /\ \A ctx: Sound(Power!Fetch(ctx, ui.rack))
         /\ \A ctx: \A u \in {ui.rack, ui.dlg.up}: Sound([Power!PduCall("post", ctx, NoRow, 0) EXCEPT !.up = u])
         /\ \A ctx: Sound([Power!PduCall("overwrite", ctx, ui.dlg.row, ui.dlg.ver) EXCEPT !.form = ui.form])
         /\ \A x \in ui.rows \cup ui.socks \cup ui.conns: Sound(Power!PduCall("delete", "remove", x.row, x.ver))
<1>0. ui.rack \in Ups /\ ui.dlg.up \in Ups \cup {NoRow}
  BY SetsTyped DEF PdusInv
<1>1. ASSUME NEW ctx PROVE Sound(Power!Fetch(ctx, ui.rack))
  <2>1. PICK c: c = Power!Fetch(ctx, ui.rack)
    OBVIOUS
  <2>2. Asks(c, "list", NoRow, 0, Blank, ui.rack)
    BY <2>1, PdusSame DEF Power!Fetch, Call, Asks, CallFields
  <2> QED BY <1>0, <2>1, <2>2, ListAsked
<1>2. ASSUME NEW ctx, NEW u \in {ui.rack, ui.dlg.up} PROVE Sound([Power!PduCall("post", ctx, NoRow, 0) EXCEPT !.up = u])
  <2>1. PICK c: c = [Power!PduCall("post", ctx, NoRow, 0) EXCEPT !.up = u]
    OBVIOUS
  <2>2. Asks(c, "post", NoRow, 0, Blank, u)
    BY <2>1, PdusSame DEF Power!PduCall, Call, Asks, CallFields
  <2>3. u \in Ups \cup {NoRow}
    BY <1>0
  <2> QED BY <2>1, <2>2, <2>3, PostAsked, SetsTyped, BlankOK
<1>3. ASSUME NEW ctx PROVE Sound([Power!PduCall("overwrite", ctx, ui.dlg.row, ui.dlg.ver) EXCEPT !.form = ui.form])
  <2>1. PICK c: c = [Power!PduCall("overwrite", ctx, ui.dlg.row, ui.dlg.ver) EXCEPT !.form = ui.form]
    OBVIOUS
  <2>2. Asks(c, "overwrite", ui.dlg.row, ui.dlg.ver, ui.form, All)
    BY <2>1, PdusSame DEF Power!PduCall, Call, Asks, CallFields
  <2>3. ui.dlg.row \in Ref /\ ui.dlg.ver \in Nat /\ FormOK(ui.form, srv)
    BY DEF PdusInv, DlgOK
  <2> QED BY <2>1, <2>2, <2>3, FormAsked
<1>4. ASSUME NEW x \in ui.rows \cup ui.socks \cup ui.conns PROVE Sound(Power!PduCall("delete", "remove", x.row, x.ver))
  <2>1. PICK c: c = Power!PduCall("delete", "remove", x.row, x.ver)
    OBVIOUS
  <2>2. Asks(c, "delete", x.row, x.ver, Blank, All)
    BY <2>1, PdusSame DEF Power!PduCall, Call, Asks, CallFields
  <2>3. x.row \in Ref /\ x.ver \in Nat
    BY SetsTyped DEF PdusInv, SeenAll, SeenOK
  <2> QED BY <2>1, <2>2, <2>3, DeleteAsked
<1> QED BY <1>1, <1>2, <1>3, <1>4

\* Every step of the PDUs.
LEMMA PdusStep ==
  ASSUME srv \in Rows, Calls(net, srv), PdusInv(ui, net, srv), Power!PageNext
  PROVE  PdusKept
<1> USE PdusKeep, PdusForms, PdusCalls
<1>0. /\ DOMAIN ui = {"page", "rack", "rows", "socks", "busy", "conns", "dlg", "form", "saving", "loading", "ok"}
      /\ ui.page = "pdus" /\ ui.rack \in Group /\ SeenAll(ui.rows, srv) /\ SeenAll(ui.socks, srv)
           /\ SeenAll(ui.conns, srv)
      /\ DOMAIN ui.dlg = {"mode", "row", "ver", "up"} /\ DlgOK(ui.dlg, srv) /\ ui.dlg.up \in Ups \cup {NoRow}
      /\ FormOK(ui.form, srv)
  BY DEF PdusInv
<1>a. \A x \in ui.rows \cup ui.socks: x.row \in Row /\ x.ver \in Nat /\ x.ver =< srv[x.row].ver /\ x.up \in Ups
  BY <1>0 DEF SeenAll, SeenOK
<1>1. CASE Power!LoadAll
  BY <1>1 DEF Power!LoadAll
<1>2. ASSUME NEW s, DOMAIN s = DOMAIN ui, \A f \in DOMAIN ui \ {"loading", "ok", "saving"}: s[f] = ui[f]
      PROVE  PdusInv(s, net, srv)
  BY <1>2, PdusAlike
<1>3. ASSUME NEW s, s = [ui EXCEPT !.dlg = Power!Closed]
      PROVE  PdusInv(s, net, srv)
  <2>1. /\ DOMAIN s = DOMAIN ui /\ s.page = ui.page /\ s.rack = ui.rack /\ s.rows = ui.rows /\ s.socks = ui.socks
        /\ s.conns = ui.conns /\ s.dlg = Power!Closed /\ s.form = ui.form
    BY <1>0, <1>3
  <2> QED BY <1>0, <2>1, SetsTyped DEF PdusInv, Power!Closed, DlgOK, Power!NoRow, NoRow
<1>4. ASSUME NEW m \in net, Power!LandPdus(m)
      PROVE  PdusKept
  <2>1. SeenAll(m.rows, srv)
    BY <1>4 DEF Calls, CallOK
  <2>2. /\ DOMAIN ui' = DOMAIN ui /\ ui'.page = ui.page /\ ui'.dlg = ui.dlg /\ ui'.form = ui.form /\ ui'.rack = ui.rack
        /\ ui'.socks = ui.socks /\ SeenAll(ui'.rows, srv) /\ SeenAll(ui'.conns, srv)
    <3>1. CASE m.res # "ok"
      BY <1>0, <1>4, <3>1 DEF Power!LandPdus
    <3>2. CASE m.res = "ok"
      <4>1. SeenAll(Power!Units(m.rows), srv) /\ SeenAll(Power!Connections(m.rows), srv) /\ SeenAll({}, srv)
        BY <2>1 DEF SeenAll, Power!Units, Power!Connections
      <4> QED BY <1>0, <1>4, <3>2, <4>1 DEF Power!LandPdus
    <3> QED BY <3>1, <3>2
  <2>3. PdusInv(ui', net', srv)
    BY <1>0, <2>2 DEF PdusInv
  <2>4. CASE m.res # "ok"
    <3>1. Handled({m}, {})
      BY <1>4, <2>4, Takes DEF Power!LandPdus
    <3> QED BY <2>3, <3>1 DEF PdusKept
  <2>5. CASE m.res = "ok"
    <3>1. PICK ctx: net' = Power!Add(net \ {m}, Power!Fetch(ctx, ui.rack)) /\ UNCHANGED srv
      BY <1>4, <2>5 DEF Power!LandPdus
    <3>2. \E d: Makes({m}, Power!Fetch(ctx, ui.rack), d)
      BY <3>1, MakesOne, PdusSame
    <3> QED BY <2>3, <3>2 DEF PdusKept, Makes
  <2> QED BY <2>4, <2>5
<1>5. ASSUME NEW m \in net, Power!LandSockets(m)
      PROVE  PdusKept
  <2>1. Handled({m}, {})
    BY <1>5, Takes DEF Power!LandSockets
  <2>2. SeenAll(Power!Sockets(m.rows), srv)
    BY DEF Calls, CallOK, SeenAll, Power!Sockets
  <2>3. /\ DOMAIN ui' = DOMAIN ui /\ ui'.page = ui.page /\ ui'.dlg = ui.dlg /\ ui'.form = ui.form /\ ui'.rack = ui.rack
        /\ ui'.socks = Power!Sockets(m.rows) /\ ui'.rows = ui.rows /\ ui'.conns = ui.conns
    BY <1>0, <1>5 DEF Power!LandSockets
  <2> QED BY <1>0, <2>1, <2>2, <2>3 DEF PdusKept, PdusInv
<1>6. ASSUME NEW mode, NEW r, NEW v, NEW u, Power!Open(mode, r, v, u), u \in Ups \cup {NoRow}, v \in Nat,
             (r = NoRow /\ v = 0) \/ (r \in Row /\ v =< srv[r].ver)
      PROVE  PdusKept
  <2>1. PICK s: /\ s = [ui EXCEPT !.dlg = [mode |-> mode, row |-> r, ver |-> v, up |-> u],
                     !.form = [row |-> r, ver |-> v]]
                /\ Power!Set(s)
    BY <1>6 DEF Power!Open
  <2>2. FormOK([row |-> r, ver |-> v], srv)
    BY <1>6, SetsTyped DEF FormOK, Blank
  <2>3. PdusInv(s, net, srv)
    BY <1>0, <1>6, <2>1, <2>2, SetsTyped DEF PdusInv, DlgOK
  <2>4. Sets(s)
    BY <2>1, Takes DEF Power!Set, Sets
  <2> QED BY <2>3, <2>4
<1>7. ASSUME NEW x \in ui.rows \cup ui.socks \cup ui.conns,
        Power!RemovePDU(x) \/ Power!RemoveSocket(x) \/ Power!Disconnect(x)
      PROVE  PdusKept
  BY <1>7 DEF Power!RemovePDU, Power!RemoveSocket, Power!Disconnect
<1>8. CASE Power!PduButtons
  <2>1. NoRow \in Ups \cup {NoRow} /\ 0 \in Nat /\ \A x \in ui.rows: x.row \in Ups \cup {NoRow}
    BY <1>a, SetsTyped
  <2>2. CASE Power!OpenCreatePDU
    BY <1>6, <2>1, <2>2 DEF Power!OpenCreatePDU, Power!NoRow, NoRow
  <2>3. ASSUME NEW p \in ui.rows, Power!OpenEditPDU(p) PROVE PdusKept
    BY <1>6, <1>a, <2>1, <2>3 DEF Power!OpenEditPDU, Power!NoRow, NoRow
  <2>4. ASSUME NEW p \in ui.rows, Power!OpenCreateSocket(p) PROVE PdusKept
    BY <1>6, <1>a, <2>1, <2>4 DEF Power!OpenCreateSocket, Power!NoRow, NoRow
  <2> QED BY <1>7, <1>8, <2>2, <2>3, <2>4 DEF Power!PduButtons
<1>9. CASE Power!SocketButtons
  <2>1. 0 \in Nat /\ \A x \in ui.socks: x.row \in Ups \cup {NoRow}
    BY <1>a, SetsTyped
  <2>2. ASSUME NEW x \in ui.socks, Power!OpenEditSocket(x) PROVE PdusKept
    BY <1>6, <1>a, <2>2 DEF Power!OpenEditSocket
  <2>3. ASSUME NEW x \in ui.socks, Power!OpenConnect(x) PROVE PdusKept
    BY <1>6, <2>1, <2>3 DEF Power!OpenConnect, Power!NoRow, NoRow
  <2> QED BY <1>7, <1>9, <2>2, <2>3 DEF Power!SocketButtons, Power!ConnectionOf
<1>10. CASE Power!Cancel
  <2>1. PICK s: s = [ui EXCEPT !.dlg = Power!Closed] /\ Power!Set(s)
    BY <1>10 DEF Power!Cancel
  <2>2. Sets(s)
    BY <2>1, Takes DEF Power!Set, Sets
  <2> QED BY <1>3, <2>1, <2>2
<1>11. ASSUME NEW mode, NEW c, Sound(c), Power!Saving(mode, c)
       PROVE  PdusKept
  <2>1. PICK s: s = [ui EXCEPT !.saving = TRUE]
    OBVIOUS
  <2>2. PdusInv(s, net, srv)
    BY <1>0, <1>2, <2>1
  <2>3. Writes(s, c)
    BY <1>11, <2>1 DEF Power!Saving
  <2> QED BY <2>2, <2>3
<1>12. CASE Power!SavePDU
  <2>1. PICK c: /\ c = IF ui.dlg.row = NoRow THEN [Power!PduCall("post", "pdu", NoRow, 0) EXCEPT !.up = ui.rack]
                       ELSE [Power!PduCall("overwrite", "pdu", ui.dlg.row, ui.dlg.ver) EXCEPT !.form = ui.form]
                /\ Power!Saving("pdu", c)
    BY <1>12 DEF Power!SavePDU, Power!NoRow, NoRow
  <2>2. Sound(c)
    BY <2>1
  <2> QED BY <1>11, <2>1, <2>2
<1>13. CASE Power!SaveSocket
  <2>1. PICK c: /\ c = IF ui.dlg.row = NoRow THEN [Power!PduCall("post", "socket", NoRow, 0) EXCEPT !.up = ui.dlg.up]
                       ELSE [Power!PduCall("overwrite", "socket", ui.dlg.row, ui.dlg.ver) EXCEPT !.form = ui.form]
                /\ Power!Saving("socket", c)
    BY <1>13 DEF Power!SaveSocket, Power!NoRow, NoRow
  <2>2. Sound(c)
    BY <2>1
  <2> QED BY <1>11, <2>1, <2>2
<1>14. CASE Power!ConfirmConnect
  <2>1. PICK c: /\ c = [Power!PduCall("post", "connect", NoRow, 0) EXCEPT !.up = ui.dlg.up]
                /\ Power!Saving("connect", c)
    BY <1>14 DEF Power!ConfirmConnect, Power!NoRow, NoRow
  <2>2. Sound(c)
    BY <2>1
  <2> QED BY <1>11, <2>1, <2>2
<1>15. ASSUME NEW m \in net, Power!LandSave(m)
       PROVE  PdusKept
  <2>1. PICK s, t: /\ s = (IF ui.dlg.mode = m.ctx THEN [ui EXCEPT !.dlg = Power!Closed] ELSE ui)
                   /\ t = [ui EXCEPT !.saving = FALSE]
    OBVIOUS
  <2>2. PdusInv(s, net, srv) /\ PdusInv(t, net, srv) /\ "ok" \in DOMAIN t
    BY <1>0, <1>2, <1>3, <2>1
  <2>3. Follows(m, s, Power!Fetch("pdusSaved", ui.rack), t)
    BY <1>15, <2>1, <2>2 DEF Power!LandSave
  <2> QED BY <2>2, <2>3
<1>16. ASSUME NEW m \in net, Power!LandRemove(m)
       PROVE  PdusKept
  BY <1>0, <1>16 DEF Power!LandRemove
<1> QED BY <1>1, <1>4, <1>5, <1>8, <1>9, <1>10, <1>12, <1>13, <1>14, <1>15, <1>16 DEF Power!PageNext

-----------------------------------------------------------------------------
(* The hierarchy                                                              *)

\* The instance for the hierarchy has the definitions of module Wire.
LEMMA TreeSame ==
  /\ Tree!Call = Call /\ Tree!Blank = Blank
  /\ \A calls, c: Tree!Add(calls, c) = Add(calls, c)
  /\ \A s, calls: Tree!Begin(s, calls) = Begin(s, calls)
<1>1. Tree!Call = Call /\ Tree!Blank = Blank
  BY DEF Tree!Call, Call, Tree!Blank, Blank, Tree!NoRow, NoRow
<1>2. \A calls, c: Tree!Add(calls, c) = Add(calls, c)
  BY DEF Tree!Add, Add, Tree!Cardinality, Cardinality
<1>3. \A s, calls: Tree!Begin(s, calls) = Begin(s, calls)
  BY DEF Tree!Begin, Begin, Tree!Waiting, Waiting
<1> QED BY <1>1, <1>2, <1>3

\* The forms of a step, on the hierarchy.
LEMMA TreeForms ==
  ASSUME NEW m, NEW s, NEW c, Sound(c)
  PROVE  /\ Tree!Write(s, c) => Writes(s, c)
         /\ Tree!Load(s, c) => Loads(s, c)
         /\ Tree!Set(s) => Sets(s)
         /\ \A t: "ok" \in DOMAIN t /\ Tree!After(m, s, c, t) => Follows(m, s, c, t)
<1>1. ASSUME Tree!Write(s, c) PROVE Writes(s, c)
  BY <1>1, MakesOne, TreeSame DEF Tree!Write, Writes
<1>2. ASSUME Tree!Load(s, c) PROVE Loads(s, c)
  BY <1>2, MakesOne, TreeSame, BeginAlike DEF Tree!Load, Loads
<1>3. ASSUME Tree!Set(s) PROVE Sets(s)
  BY <1>3, Takes DEF Tree!Set, Sets
<1>4. ASSUME NEW t, "ok" \in DOMAIN t, Tree!After(m, s, c, t) PROVE Follows(m, s, c, t)
  <2>1. CASE m.res = "ok"
    BY <1>4, <2>1, MakesOne, TreeSame, BeginAlike DEF Tree!After, Follows
  <2>2. CASE m.res # "ok"
    <3>1. Alike([t EXCEPT !.ok = @ /\ ~m.did], t)
      BY DEF Alike
    <3> QED BY <1>4, <2>2, <3>1, Takes DEF Tree!After, Follows
  <2> QED BY <2>1, <2>2
<1> QED BY <1>1, <1>2, <1>3, <1>4

\* Flags, history and the page of the list do not matter to the hierarchy.
LEMMA TreeAlike ==
  ASSUME NEW s, NEW t, NEW N, NEW M, NEW S, TreeInv(s, N, S), Alike(t, s)
  PROVE  TreeInv(t, M, S)
<1>1. /\ t.page = s.page /\ t.rows = s.rows /\ t.dc = s.dc /\ t.room = s.room /\ t.dlg = s.dlg /\ t.form = s.form
      /\ DOMAIN t = DOMAIN s
  BY DEF TreeInv, Alike
<1> QED BY <1>1 DEF TreeInv, Filled

TreeKept == (\E R, D: Handled(R, D)) /\ TreeInv(ui', net', srv)

\* The forms of a step keep the hierarchy as they should be.
LEMMA TreeKeep ==
  ASSUME NEW s, TreeInv(s, net, srv), NEW c, NEW m
  PROVE  /\ Writes(s, c) => TreeKept
         /\ Loads(s, c) => TreeKept
         /\ Sets(s) => TreeKept
         /\ \A t: TreeInv(t, net, srv) /\ Follows(m, s, c, t) => TreeKept
<1>1. \A t, u: TreeInv(t, net, srv) /\ Alike(u, t) => TreeInv(u, net', srv)
  BY TreeAlike
<1>2. Alike(s, s)
  BY DEF Alike
<1> QED BY <1>1, <1>2 DEF Writes, Loads, Sets, Follows, TreeKept, Makes

\* The calls of the hierarchy are those of module Wire.
LEMMA TreeCallsSame ==
  \A op, ctx, x: /\ Tree!RoomCall(op, ctx, x) = Tree!CentreCall(op, ctx, x)
                 /\ Tree!RackCall(op, ctx, x) = Tree!CentreCall(op, ctx, x)
BY DEF Tree!RoomCall, Tree!CentreCall, Tree!RackCall

\* The calls of the hierarchy are sound.
LEMMA TreeCalls ==
  ASSUME srv \in Rows, TreeInv(ui, net, srv)
  PROVE  /\ \A ctx: Sound(Tree!FetchTree(ctx))
         /\ \A ctx: Sound(Tree!CentreCall("post", ctx, Tree!Closed))
         /\ \A ctx: \A u \in {ui.dc, ui.room}: Sound([Tree!CentreCall("post", ctx, Tree!Closed) EXCEPT !.up = u])
         /\ \A ctx: Filled(ui) => Sound([Tree!CentreCall("put", ctx, ui.dlg) EXCEPT !.form = ui.form])
         /\ \A ctx: Sound(Tree!CentreCall("copy", ctx, ui.dlg))
         /\ \A ctx: ui.dlg.target # NoRow => Sound([Tree!CentreCall("move", ctx, ui.dlg) EXCEPT !.up = ui.dlg.target])
         /\ \A x \in ui.rows: \A ctx: Sound(Tree!CentreCall("delete", ctx, x))
<1>0. /\ ui.dc \in Ups \cup {NoRow} /\ ui.room \in Ups \cup {NoRow}
      /\ ui.dlg.row \in Ref /\ ui.dlg.ver \in Nat /\ FormOK(ui.form, srv) /\ ui.dlg.target \in Ref
  BY SetsTyped DEF TreeInv, SeenAll, SeenOK, DlgOK
<1>1. ASSUME NEW ctx PROVE Sound(Tree!FetchTree(ctx))
  <2>1. PICK c: c = Tree!FetchTree(ctx)
    OBVIOUS
  <2>2. Asks(c, "list", NoRow, 0, Blank, All)
    BY <2>1, TreeSame DEF Tree!FetchTree, Call, Asks, CallFields
  <2> QED BY <2>1, <2>2, ListAsked, SetsTyped
<1>2. ASSUME NEW ctx, NEW c, NEW u \in Ups \cup {NoRow},
             c = [Tree!CentreCall("post", ctx, Tree!Closed) EXCEPT !.up = u] \/ (u = All
               /\ c = Tree!CentreCall("post", ctx, Tree!Closed))
      PROVE  Sound(c)
  <2>1. Tree!Closed.row = NoRow /\ Tree!Closed.ver = 0
    BY DEF Tree!Closed, Tree!NoRow, NoRow
  <2>2. PICK b: b = Tree!CentreCall("post", ctx, Tree!Closed)
    OBVIOUS
  <2>3. Asks(b, "post", NoRow, 0, Blank, All)
    BY <2>1, <2>2, TreeSame DEF Tree!CentreCall, Call, Asks, CallFields
  <2>4. c = [b EXCEPT !.up = u] \/ (u = All /\ c = b)
    BY <1>2, <2>2
  <2>5. Asks(c, "post", NoRow, 0, Blank, u)
    BY <2>3, <2>4 DEF Asks, CallFields
  <2> QED BY <2>5, PostAsked, SetsTyped, BlankOK
<1>3. ASSUME NEW ctx, Filled(ui) PROVE Sound([Tree!CentreCall("put", ctx, ui.dlg) EXCEPT !.form = ui.form])
  <2>1. PICK c: c = [Tree!CentreCall("put", ctx, ui.dlg) EXCEPT !.form = ui.form]
    OBVIOUS
  <2>2. Asks(c, "put", ui.dlg.row, ui.dlg.ver, ui.form, All)
    BY <2>1, TreeSame DEF Tree!CentreCall, Call, Asks, CallFields
  <2>3. ui.form.row = ui.dlg.row /\ ui.dlg.ver =< ui.form.ver
    BY <1>0, <1>3 DEF Filled
  <2> QED BY <1>0, <2>1, <2>2, <2>3, FormAsked
<1>4. ASSUME NEW ctx PROVE Sound(Tree!CentreCall("copy", ctx, ui.dlg))
  <2>1. PICK c: c = Tree!CentreCall("copy", ctx, ui.dlg)
    OBVIOUS
  <2>2. Asks(c, "copy", ui.dlg.row, ui.dlg.ver, Blank, All)
    BY <2>1, TreeSame DEF Tree!CentreCall, Call, Asks, CallFields
  <2> QED BY <1>0, <2>1, <2>2, CopyAsked
<1>5. ASSUME NEW ctx, ui.dlg.target # NoRow PROVE Sound([Tree!CentreCall("move", ctx, ui.dlg)
        EXCEPT !.up = ui.dlg.target])
  <2>1. PICK c: c = [Tree!CentreCall("move", ctx, ui.dlg) EXCEPT !.up = ui.dlg.target]
    OBVIOUS
  <2>2. Asks(c, "move", ui.dlg.row, ui.dlg.ver, Blank, ui.dlg.target)
    BY <2>1, TreeSame DEF Tree!CentreCall, Call, Asks, CallFields
  <2>3. ui.dlg.target \in Row
    BY <1>0, <1>5 DEF Ref
  <2> QED BY <1>0, <2>1, <2>2, <2>3, PlaceAsked
<1>6. ASSUME NEW x \in ui.rows, NEW ctx PROVE Sound(Tree!CentreCall("delete", ctx, x))
  <2>1. PICK c: c = Tree!CentreCall("delete", ctx, x)
    OBVIOUS
  <2>2. Asks(c, "delete", x.row, x.ver, Blank, All)
    BY <2>1, TreeSame DEF Tree!CentreCall, Call, Asks, CallFields
  <2>3. x.row \in Ref /\ x.ver \in Nat
    BY SetsTyped DEF TreeInv, SeenAll, SeenOK
  <2> QED BY <2>1, <2>2, <2>3, DeleteAsked
<1> QED BY <1>0, <1>1, <1>2, <1>3, <1>4, <1>5, <1>6, SetsTyped

\* The first of the children is one of them.
LEMMA TreeFirst ==
  ASSUME NEW S, \A x \in S: x.row \in Nat
  PROVE  Tree!First(S) = NoRow \/ \E x \in S: x.row = Tree!First(S)
<1>1. CASE S = {}
  BY <1>1 DEF Tree!First, Tree!NoRow, NoRow
<1>2. CASE S # {}
  <2>1. PICK k \in {x.row: x \in S}: \A l \in {x.row: x \in S}: k =< l
    BY <1>2, Least
  <2>2. \E x \in S: \A y \in S: x.row =< y.row
    BY <2>1
  <2> QED BY <1>2, <2>2 DEF Tree!First
<1> QED BY <1>1, <1>2

\* What is selected is in the tree.
Selected(rows, dc, room) ==
  /\ dc = NoRow \/ \E x \in rows: x.up = All /\ x.row = dc
  /\ room = NoRow \/ \E x \in rows: x.up = dc /\ x.row = room

Reselects(t, s, m) == t = Tree!Reselect(s, m.ctx = "tree")

\* The repaired selection is in the tree.
LEMMA TreeReselect ==
  ASSUME NEW s, DOMAIN s = {"page", "rows", "dc", "room", "dlg", "form", "loading", "ok"},
    \A x \in s.rows: x.row \in Nat, NEW m,
         NEW t, Reselects(t, s, m)
  PROVE  /\ DOMAIN t = DOMAIN s /\ t.page = s.page /\ t.rows = s.rows /\ t.dlg = s.dlg /\ t.form = s.form
         /\ Selected(t.rows, t.dc, t.room)
<1>1. PICK dc: dc = IF m.ctx = "tree" /\ Tree!Has(Tree!Kids(s.rows, All), s.dc) THEN s.dc
        ELSE Tree!First(Tree!Kids(s.rows, All))
  OBVIOUS
<1>2. PICK room: room = IF m.ctx = "tree" /\ Tree!Has(Tree!Kids(s.rows, dc), s.room) THEN s.room
        ELSE Tree!First(Tree!Kids(s.rows, dc))
  OBVIOUS
<1>3. t = [s EXCEPT !.dc = dc, !.room = room]
  BY <1>1, <1>2 DEF Reselects, Tree!Reselect
<1>4. dc = NoRow \/ \E x \in s.rows: x.up = All /\ x.row = dc
  <2>1. \A x \in Tree!Kids(s.rows, All): x.row \in Nat
    BY DEF Tree!Kids
  <2>2. Tree!First(Tree!Kids(s.rows, All)) = NoRow \/ \E x \in Tree!Kids(s.rows,
          All): x.row = Tree!First(Tree!Kids(s.rows, All))
    BY <2>1, TreeFirst
  <2> QED BY <1>1, <2>2 DEF Tree!Kids, Tree!Has
<1>5. room = NoRow \/ \E x \in s.rows: x.up = dc /\ x.row = room
  <2>1. \A x \in Tree!Kids(s.rows, dc): x.row \in Nat
    BY DEF Tree!Kids
  <2>2. Tree!First(Tree!Kids(s.rows, dc)) = NoRow \/ \E x \in Tree!Kids(s.rows,
          dc): x.row = Tree!First(Tree!Kids(s.rows, dc))
    BY <2>1, TreeFirst
  <2> QED BY <1>2, <2>2 DEF Tree!Kids, Tree!Has
<1> QED BY <1>3, <1>4, <1>5 DEF Selected

\* Every step of the hierarchy.
LEMMA TreeStep ==
  ASSUME srv \in Rows, Calls(net, srv), TreeInv(ui, net, srv), Tree!PageNext
  PROVE  TreeKept
<1> USE TreeKeep, TreeForms, TreeCalls
<1>0. /\ DOMAIN ui = {"page", "rows", "dc", "room", "dlg", "form", "loading", "ok"} /\ ui.page = "hierarchy"
      /\ SeenAll(ui.rows, srv) /\ Selected(ui.rows, ui.dc, ui.room)
      /\ DOMAIN ui.dlg = {"mode", "row", "ver", "target"} /\ DlgOK(ui.dlg, srv) /\ ui.dlg.target \in Ref
           /\ FormOK(ui.form, srv)
      /\ ui.dlg.mode \in {"dc", "room", "rack"} => Filled(ui)
  BY DEF TreeInv, Selected
<1>a. \A x \in ui.rows: x.row \in Row /\ x.row \in Nat /\ x.ver \in Nat /\ x.ver =< srv[x.row].ver /\ x.up \in Ups
  BY <1>0, WireAssumption DEF SeenAll, SeenOK
<1>1. CASE Tree!LoadTree
  BY <1>1 DEF Tree!LoadTree
<1>2. ASSUME NEW s, DOMAIN s = DOMAIN ui, s.page = ui.page, SeenAll(s.rows, srv), Selected(s.rows, s.dc, s.room),
        s.dlg = ui.dlg, s.form = ui.form
      PROVE  TreeInv(s, net, srv)
  BY <1>0, <1>2 DEF TreeInv, Filled, Selected
<1>3. ASSUME NEW s, DOMAIN s = DOMAIN ui, s.page = ui.page, s.rows = ui.rows, s.dc = ui.dc, s.room = ui.room,
             DOMAIN s.dlg = DOMAIN ui.dlg, DlgOK(s.dlg, srv), s.dlg.target \in Ref, FormOK(s.form, srv),
             s.dlg.mode \in {"dc", "room", "rack"} => Filled(s)
      PROVE  TreeInv(s, net, srv)
  BY <1>0, <1>3 DEF TreeInv, Selected
<1>4. ASSUME NEW s, TreeInv(s, net, srv), Tree!Set(s)
      PROVE  TreeKept
  <2>1. Sets(s)
    BY <1>4, Takes DEF Tree!Set, Sets
  <2> QED BY <1>4, <2>1
<1>5. ASSUME NEW m, Tree!LandTree(m), m \in net
      PROVE  TreeKept
  <2>1. Handled({m}, {})
    BY <1>5, Takes DEF Tree!LandTree
  <2>2. SeenAll(m.rows, srv) /\ \A x \in m.rows: x.row \in Nat
    BY <1>5, WireAssumption DEF Calls, CallOK, SeenAll, SeenOK
  <2>3. /\ DOMAIN ui' = DOMAIN ui /\ ui'.page = ui.page /\ ui'.dlg = ui.dlg /\ ui'.form = ui.form
        /\ SeenAll(ui'.rows, srv) /\ Selected(ui'.rows, ui'.dc, ui'.room)
    <3>1. CASE m.res # "ok"
      BY <1>0, <1>5, <3>1 DEF Tree!LandTree
    <3>2. CASE m.res = "ok"
      <4>1. PICK s, t: s = [ui EXCEPT !.loading = FALSE, !.rows = m.rows] /\ Reselects(t, s, m)
        BY DEF Reselects
      <4>2. /\ DOMAIN s = {"page", "rows", "dc", "room", "dlg", "form", "loading", "ok"} /\ s.rows = m.rows
            /\ s.page = ui.page /\ s.dlg = ui.dlg /\ s.form = ui.form
            /\ \A x \in s.rows: x.row \in Nat
        BY <1>0, <2>2, <4>1
      <4>3. /\ DOMAIN t = DOMAIN s /\ t.page = s.page /\ t.rows = s.rows /\ t.dlg = s.dlg /\ t.form = s.form
            /\ Selected(t.rows, t.dc, t.room)
        <5>1. Reselects(t, s, m)
          BY <4>1
        <5> QED BY <4>2, <5>1, TreeReselect
      <4>4. ui' = t
        BY <1>5, <3>2, <4>1 DEF Tree!LandTree, Reselects
      <4> QED BY <1>0, <2>2, <4>2, <4>3, <4>4
    <3> QED BY <3>1, <3>2
  <2>4. PICK s: s = ui'
    OBVIOUS
  <2>5. TreeInv(s, net, srv)
    BY <1>2, <2>3, <2>4
  <2>6. TreeInv(s, net', srv)
    BY <2>5 DEF TreeInv
  <2> QED BY <2>1, <2>4, <2>6 DEF TreeKept
<1>6. ASSUME NEW s, NEW dc, NEW room, s = [ui EXCEPT !.dc = dc, !.room = room], Selected(ui.rows, dc, room), Tree!Set(s)
      PROVE  TreeKept
  <2>1. DOMAIN s = DOMAIN ui /\ s.page = ui.page /\ s.rows = ui.rows /\ s.dlg = ui.dlg /\ s.form = ui.form
          /\ s.dc = dc /\ s.room = room
    BY <1>0, <1>6
  <2> QED BY <1>0, <1>2, <1>4, <1>6, <2>1
<1>7. ASSUME NEW x \in Tree!Centres, Tree!SelectDc(x)
      PROVE  TreeKept
  <2>1. PICK dc, room: dc = x.row /\ room = Tree!First(Tree!Kids(ui.rows, x.row))
    OBVIOUS
  <2>2. \A y \in Tree!Kids(ui.rows, x.row): y.row \in Nat
    BY <1>a DEF Tree!Kids
  <2>3. room = NoRow \/ \E y \in Tree!Kids(ui.rows, x.row): y.row = room
    BY <2>1, <2>2, TreeFirst
  <2>4. Selected(ui.rows, dc, room)
    BY <1>7, <2>1, <2>3 DEF Selected, Tree!Kids, Tree!Centres
  <2>5. PICK s: s = [ui EXCEPT !.dc = dc, !.room = room]
    OBVIOUS
  <2>6. Tree!Set(s)
    BY <1>7, <2>1, <2>5 DEF Tree!SelectDc
  <2> QED BY <1>6, <2>4, <2>5, <2>6
<1>8. ASSUME NEW x \in Tree!Rooms, Tree!SelectRoom(x)
      PROVE  TreeKept
  <2>1. PICK s: s = [ui EXCEPT !.room = x.row] /\ Tree!Set(s)
    BY <1>8 DEF Tree!SelectRoom
  <2>2. /\ DOMAIN s = DOMAIN ui /\ s.page = ui.page /\ s.rows = ui.rows /\ s.dlg = ui.dlg /\ s.form = ui.form
        /\ s.dc = ui.dc /\ s.room = x.row
    BY <1>0, <2>1
  <2>3. Selected(ui.rows, ui.dc, x.row)
    BY <1>0, <1>8 DEF Selected, Tree!Rooms, Tree!Kids
  <2> QED BY <1>0, <1>2, <1>4, <2>1, <2>2, <2>3
<1>9. ASSUME NEW s, NEW d, NEW f, s = [ui EXCEPT !.dlg = d, !.form = f], Tree!Set(s), DOMAIN d = DOMAIN ui.dlg,
        DlgOK(d, srv),
             d.target \in Ref, FormOK(f, srv), d.mode \in {"dc", "room", "rack"} => f = [row |-> d.row, ver |-> d.ver]
      PROVE  TreeKept
  <2>1. /\ DOMAIN s = DOMAIN ui /\ s.page = ui.page /\ s.rows = ui.rows /\ s.dc = ui.dc /\ s.room = ui.room
        /\ s.dlg = d /\ s.form = f
    BY <1>0, <1>9
  <2>2. s.dlg.mode \in {"dc", "room", "rack"} => Filled(s)
    BY <1>9, <2>1 DEF Filled
  <2>3. DOMAIN s.dlg = DOMAIN ui.dlg /\ DlgOK(s.dlg, srv) /\ s.dlg.target \in Ref /\ FormOK(s.form, srv)
    BY <1>9, <2>1
  <2>4. TreeInv(s, net, srv)
    BY <1>3, <2>1, <2>2, <2>3
  <2> QED BY <1>4, <1>9, <2>4
<1>10. Tree!Closed = [mode |-> "closed", row |-> NoRow, ver |-> 0, target |-> NoRow]
  BY DEF Tree!Closed, Tree!NoRow, NoRow
<1>11. ASSUME NEW mode, Tree!OpenCreate(mode)
       PROVE  TreeKept
  <2>1. PICK d, f: d = [Tree!Closed EXCEPT !.mode = mode] /\ f = Blank
    OBVIOUS
  <2>2. d.row = NoRow /\ d.ver = 0 /\ d.target = NoRow /\ DOMAIN d = DOMAIN ui.dlg
    BY <1>0, <1>10, <2>1
  <2>3. DlgOK(d, srv) /\ d.target \in Ref /\ FormOK(f, srv) /\ f = [row |-> d.row, ver |-> d.ver]
    BY <2>1, <2>2, SetsTyped, BlankOK DEF DlgOK, Blank
  <2> QED BY <1>9, <1>11, <2>1, <2>2, <2>3, TreeSame DEF Tree!OpenCreate
<1>12. ASSUME NEW x \in ui.rows, NEW mode, Tree!OpenEdit(mode, x)
       PROVE  TreeKept
  <2>1. PICK d, f: d = [mode |-> mode, row |-> x.row, ver |-> x.ver, target |-> NoRow]
          /\ f = [row |-> x.row, ver |-> x.ver]
    OBVIOUS
  <2>2. DlgOK(d, srv) /\ d.target \in Ref /\ FormOK(f, srv) /\ f = [row |-> d.row, ver |-> d.ver]
          /\ DOMAIN d = DOMAIN ui.dlg
    BY <1>0, <1>a, <2>1, SetsTyped DEF DlgOK, FormOK
  <2> QED BY <1>9, <1>12, <2>1, <2>2 DEF Tree!OpenEdit, Tree!NoRow, NoRow
<1>13. ASSUME NEW s, NEW d, s = [ui EXCEPT !.dlg = d], Tree!Set(s), DOMAIN d = DOMAIN ui.dlg, DlgOK(d, srv),
         d.target \in Ref,
              d.mode \notin {"dc", "room", "rack"}
       PROVE  TreeKept
  <2>1. /\ DOMAIN s = DOMAIN ui /\ s.page = ui.page /\ s.rows = ui.rows /\ s.dc = ui.dc /\ s.room = ui.room
        /\ s.dlg = d /\ s.form = ui.form
    BY <1>0, <1>13
  <2> QED BY <1>0, <1>3, <1>4, <1>13, <2>1
<1>14. ASSUME NEW x \in ui.rows, Tree!OpenCopy(x) \/ Tree!OpenMove(x)
       PROVE  TreeKept
  <2>1. PICK mode, u: /\ mode \in {"copy", "move"} /\ u \in {NoRow, Tree!First(Tree!OtherCentres)}
                      /\ Tree!Set([ui EXCEPT !.dlg = [mode |-> mode, row |-> x.row, ver |-> x.ver, target |-> u]])
    BY <1>14 DEF Tree!OpenCopy, Tree!OpenMove, Tree!NoRow, NoRow
  <2>2. u \in Ref
    <3>1. \A y \in Tree!OtherCentres: y \in ui.rows
      BY DEF Tree!OtherCentres, Tree!Centres, Tree!Kids
    <3>2. Tree!First(Tree!OtherCentres) = NoRow \/ \E y \in Tree!OtherCentres: y.row = Tree!First(Tree!OtherCentres)
      BY <1>a, <3>1, TreeFirst
    <3> QED BY <1>a, <2>1, <3>1, <3>2, SetsTyped
  <2>3. PICK d: d = [mode |-> mode, row |-> x.row, ver |-> x.ver, target |-> u]
    OBVIOUS
  <2>4. DOMAIN d = DOMAIN ui.dlg /\ DlgOK(d, srv) /\ d.target \in Ref /\ d.mode \notin {"dc", "room", "rack"}
    BY <1>0, <1>a, <2>1, <2>2, <2>3, SetsTyped DEF DlgOK
  <2> QED BY <1>13, <2>1, <2>3, <2>4
<1>15. CASE Tree!ChooseTarget
  <2>1. PICK x, s: x \in ui.rows /\ ui.dlg.mode = "move" /\ s = [ui EXCEPT !.dlg.target = x.row] /\ Tree!Set(s)
    BY <1>15 DEF Tree!ChooseTarget, Tree!InDialog, Tree!OtherCentres, Tree!OtherRooms, Tree!Centres, Tree!Rooms,
       Tree!Kids
  <2>2. PICK d: d = [ui.dlg EXCEPT !.target = x.row]
    OBVIOUS
  <2>3. s = [ui EXCEPT !.dlg = d]
    BY <1>0, <2>1, <2>2
  <2>4. DOMAIN d = DOMAIN ui.dlg /\ d.mode = "move" /\ d.row = ui.dlg.row /\ d.ver = ui.dlg.ver /\ d.target = x.row
    BY <1>0, <2>1, <2>2
  <2>5. DlgOK(d, srv) /\ d.target \in Ref
    BY <1>0, <1>a, <2>1, <2>4, SetsTyped DEF DlgOK
  <2> QED BY <1>13, <2>1, <2>3, <2>4, <2>5
<1>16. ASSUME NEW s, s = Tree!Shut(ui)
       PROVE  TreeInv(s, net, srv)
  <2>1. /\ DOMAIN s = DOMAIN ui /\ s.page = ui.page /\ s.rows = ui.rows /\ s.dc = ui.dc /\ s.room = ui.room
        /\ s.dlg = Tree!Closed /\ s.form = Blank
    BY <1>0, <1>16, TreeSame DEF Tree!Shut
  <2>2. DOMAIN s.dlg = DOMAIN ui.dlg /\ DlgOK(s.dlg, srv) /\ s.dlg.target \in Ref /\ s.dlg.mode = "closed"
    BY <1>0, <1>10, <2>1, SetsTyped DEF DlgOK
  <2> QED BY <1>3, <2>1, <2>2, BlankOK
<1>17. CASE Tree!Cancel
  BY <1>4, <1>16, <1>17 DEF Tree!Cancel
<1>18. ASSUME NEW c, Sound(c), Tree!Write(ui, c)
       PROVE  TreeKept
  BY <1>18
<1>19. CASE Tree!NothingToSave
  <2>1. Loads(Tree!Shut(ui), Tree!FetchTree("tree"))
    BY <1>19, MakesOne, TreeSame, BeginAlike DEF Tree!NothingToSave, Loads
  <2> QED BY <1>16, <2>1
<1>20. ui.dlg.mode \in {"dc", "room", "rack"} =>
         \A ctx: Sound([Tree!CentreCall("put", ctx, ui.dlg) EXCEPT !.form = ui.form])
  BY <1>0
<1>21. CASE Tree!SubmitDc
  <2>1. PICK c: /\ c \in {[Tree!CentreCall("put", "dc", ui.dlg) EXCEPT !.form = ui.form],
                     Tree!CentreCall("post", "dc", Tree!Closed)}
                /\ Tree!Write(ui, c) /\ ui.dlg.mode = "dc"
    BY <1>21 DEF Tree!SubmitDc, Tree!InDialog
  <2>2. Sound(c)
    BY <1>20, <2>1
  <2> QED BY <1>18, <2>1, <2>2
<1>22. CASE Tree!SubmitRoom
  <2>1. CASE Tree!NothingToSave
    BY <1>19, <2>1
  <2>2. CASE ~Tree!NothingToSave
    <3>1. PICK c: /\ c \in {[Tree!CentreCall("put", "room", ui.dlg) EXCEPT !.form = ui.form],
                            [Tree!CentreCall("post", "room", Tree!Closed) EXCEPT !.up = ui.dc]}
                  /\ Tree!Write(ui, c) /\ ui.dlg.mode = "room"
      BY <1>22, <2>2, TreeCallsSame DEF Tree!SubmitRoom, Tree!InDialog
    <3>2. Sound(c)
      BY <1>20, <3>1
    <3> QED BY <1>18, <3>1, <3>2
  <2> QED BY <2>1, <2>2
<1>23. CASE Tree!SubmitRack
  <2>1. CASE Tree!NothingToSave
    BY <1>19, <2>1
  <2>2. CASE ~Tree!NothingToSave
    <3>1. PICK c: /\ c \in {[Tree!CentreCall("put", "rack", ui.dlg) EXCEPT !.form = ui.form],
                            [Tree!CentreCall("post", "rack", Tree!Closed) EXCEPT !.up = ui.room]}
                  /\ Tree!Write(ui, c) /\ ui.dlg.mode = "rack"
      BY <1>23, <2>2, TreeCallsSame DEF Tree!SubmitRack, Tree!InDialog
    <3>2. Sound(c)
      BY <1>20, <3>1
    <3> QED BY <1>18, <3>1, <3>2
  <2> QED BY <2>1, <2>2
<1>24. CASE Tree!SubmitCopy
  BY <1>24 DEF Tree!SubmitCopy
<1>25. CASE Tree!SubmitMove
  <2>1. PICK c: c = [Tree!CentreCall("move", "move", ui.dlg) EXCEPT !.up = ui.dlg.target] /\ Tree!Write(ui, c)
          /\ ui.dlg.target # NoRow
    BY <1>25, TreeCallsSame DEF Tree!SubmitMove, Tree!NoRow, NoRow
  <2>2. Sound(c)
    BY <2>1
  <2> QED BY <1>18, <2>1, <2>2
<1>26. ASSUME NEW m \in net, Tree!LandSubmit(m)
       PROVE  TreeKept
  <2>1. PICK s: s = IF ui.dlg.mode = m.ctx THEN Tree!Shut(ui) ELSE ui
    OBVIOUS
  <2>2. TreeInv(s, net, srv) /\ "ok" \in DOMAIN ui
    BY <1>0, <1>16, <2>1
  <2>3. Follows(m, s, Tree!FetchTree("tree"), ui)
    BY <1>26, <2>1, <2>2 DEF Tree!LandSubmit
  <2> QED BY <2>2, <2>3
<1>27. ASSUME NEW m \in net, Tree!LandRemove(m)
       PROVE  TreeKept
  <2>1. PICK ctx: Tree!After(m, ui, Tree!FetchTree(ctx), ui)
    BY <1>27 DEF Tree!LandRemove
  <2> QED BY <1>0, <2>1
<1>28. \A x \in Tree!SelectedDc \cup Tree!Centres \cup Tree!SelectedRoom \cup Tree!Rooms \cup Tree!Racks: x \in ui.rows
  BY DEF Tree!SelectedDc, Tree!Centres, Tree!SelectedRoom, Tree!Rooms, Tree!Racks, Tree!Kids
<1>29. CASE Tree!CentreColumn
  <2>1. CASE Tree!RemoveDc
    BY <1>18, <1>28, <2>1 DEF Tree!RemoveDc
  <2> QED BY <1>7, <1>14, <1>28, <1>29, <2>1 DEF Tree!CentreColumn
<1>30. CASE Tree!RoomColumn
  <2>1. CASE Tree!RemoveRoom
    BY <1>18, <1>28, <2>1, TreeCallsSame DEF Tree!RemoveRoom
  <2> QED BY <1>8, <1>14, <1>28, <1>30, <2>1 DEF Tree!RoomColumn
<1>31. CASE Tree!RackColumn
  <2>1. ASSUME NEW x \in Tree!Racks, Tree!RemoveRack(x) PROVE TreeKept
    BY <1>18, <1>28, <2>1, TreeCallsSame DEF Tree!RemoveRack
  <2>2. ASSUME NEW x \in Tree!Racks, Tree!OpenRackEdit(x) PROVE TreeKept
    BY <1>12, <1>28, <2>2 DEF Tree!OpenRackEdit
  <2> QED BY <1>14, <1>28, <1>31, <2>1, <2>2 DEF Tree!RackColumn
<1>32. CASE Tree!OpenDcCreate \/ Tree!OpenRoomCreate \/ Tree!OpenRackCreate
  BY <1>11, <1>32 DEF Tree!OpenDcCreate, Tree!OpenRoomCreate, Tree!OpenRackCreate
<1>33. CASE Tree!OpenDcEdit \/ Tree!OpenRoomEdit
  BY <1>12, <1>28, <1>33 DEF Tree!OpenDcEdit, Tree!OpenRoomEdit
<1> QED BY <1>1, <1>5, <1>15, <1>17, <1>21, <1>22, <1>23, <1>24, <1>25, <1>26, <1>27, <1>29, <1>30, <1>31, <1>32, <1>33
        DEF Tree!PageNext

-----------------------------------------------------------------------------
(* The devices: types of devices and the positions of a rack                  *)

\* The instance for the device tabs has the definitions of module Wire.
LEMMA DevicesSame ==
  /\ Devices!Call = Call /\ Devices!Blank = Blank
  /\ \A calls, c: Devices!Add(calls, c) = Add(calls, c)
  /\ \A s, calls: Devices!Begin(s, calls) = Begin(s, calls)
<1>1. Devices!Call = Call /\ Devices!Blank = Blank
  BY DEF Devices!Call, Call, Devices!Blank, Blank, Devices!NoRow, NoRow
<1>2. \A calls, c: Devices!Add(calls, c) = Add(calls, c)
  BY DEF Devices!Add, Add, Devices!Cardinality, Cardinality
<1>3. \A s, calls: Devices!Begin(s, calls) = Begin(s, calls)
  BY DEF Devices!Begin, Begin, Devices!Waiting, Waiting
<1> QED BY <1>1, <1>2, <1>3

\* The forms of a step, on the device tabs.
LEMMA DevicesForms ==
  ASSUME NEW m, NEW s, NEW c, Sound(c)
  PROVE  /\ Devices!Write(s, c) => Writes(s, c)
         /\ Devices!Load(s, c) => Loads(s, c)
         /\ Devices!Set(s) => Sets(s)
         /\ \A t: "ok" \in DOMAIN t /\ Devices!After(m, s, c, t) => Follows(m, s, c, t)
<1>1. ASSUME Devices!Write(s, c) PROVE Writes(s, c)
  BY <1>1, MakesOne, DevicesSame DEF Devices!Write, Writes
<1>2. ASSUME Devices!Load(s, c) PROVE Loads(s, c)
  BY <1>2, MakesOne, DevicesSame, BeginAlike DEF Devices!Load, Loads
<1>3. ASSUME Devices!Set(s) PROVE Sets(s)
  BY <1>3, Takes DEF Devices!Set, Sets
<1>4. ASSUME NEW t, "ok" \in DOMAIN t, Devices!After(m, s, c, t) PROVE Follows(m, s, c, t)
  <2>1. CASE m.res = "ok"
    BY <1>4, <2>1, MakesOne, DevicesSame, BeginAlike DEF Devices!After, Follows
  <2>2. CASE m.res # "ok"
    <3>1. Alike([t EXCEPT !.ok = @ /\ ~m.did], t)
      BY DEF Alike
    <3> QED BY <1>4, <2>2, <3>1, Takes DEF Devices!After, Follows
  <2> QED BY <2>1, <2>2
<1> QED BY <1>1, <1>2, <1>3, <1>4

\* Flags, history and the page of the list do not matter to the types.
LEMMA TypesAlike ==
  ASSUME NEW s, NEW t, NEW N, NEW M, NEW S, TypesInv(s, N, S), Alike(t, s),
    \A m \in M: m.ctx \in {"types", "saveType", "removeType"}
  PROVE  TypesInv(t, M, S)
<1>1. t.page = s.page /\ t.rows = s.rows /\ t.dlg = s.dlg /\ t.form = s.form /\ DOMAIN t = DOMAIN s
  BY DEF TypesInv, Alike
<1> QED BY <1>1 DEF TypesInv, Filled

TypesKept == (\E R, D: Handled(R, D)) /\ TypesInv(ui', net', srv)

\* The forms of a step keep the types as they should be.
LEMMA TypesKeep ==
  ASSUME NEW s, TypesInv(s, net, srv), NEW c, c.ctx \in {"types", "saveType", "removeType"}, NEW m
  PROVE  /\ Writes(s, c) => TypesKept
         /\ Loads(s, c) => TypesKept
         /\ Sets(s) => TypesKept
         /\ \A t: TypesInv(t, net, srv) /\ Follows(m, s, c, t) => TypesKept
<1>1. ASSUME NEW R, NEW d, Makes(R, c, d), Alike(ui', s) PROVE TypesKept
  <2>1. \A k \in net': k.ctx \in {"types", "saveType", "removeType"}
    BY <1>1 DEF Makes, SameCall, Handled, TypesInv
  <2> QED BY <1>1, <2>1, TypesAlike DEF TypesKept, Makes
<1>2. ASSUME NEW R, Handled(R, {}), NEW t, TypesInv(t, net, srv), Alike(ui', t) PROVE TypesKept
  <2>1. \A k \in net': k.ctx \in {"types", "saveType", "removeType"}
    BY <1>2 DEF Handled, TypesInv
  <2> QED BY <1>2, <2>1, TypesAlike DEF TypesKept
<1>3. Alike(s, s)
  BY DEF Alike
<1> QED BY <1>1, <1>2, <1>3 DEF Writes, Loads, Sets, Follows

\* The calls of the types are sound.
LEMMA TypesCalls ==
  ASSUME srv \in Rows, TypesInv(ui, net, srv)
  PROVE  /\ Sound(Devices!FetchTypes) /\ Devices!FetchTypes.ctx = "types"
         /\ \A x \in ui.rows: /\ Sound(Devices!TypeCall("delete", "removeType", x.row, x.ver))
                              /\ Devices!TypeCall("delete", "removeType", x.row, x.ver).ctx = "removeType"
         /\ \A c: c = [Devices!TypeCall(IF ui.dlg.mode = "edit" THEN "put" ELSE "post", "saveType", ui.dlg.row,
              ui.dlg.ver)
                       EXCEPT !.form = ui.form] => Sound(c) /\ c.ctx = "saveType"
<1>1. Sound(Devices!FetchTypes) /\ Devices!FetchTypes.ctx = "types"
  <2>1. PICK c: c = Devices!FetchTypes
    OBVIOUS
  <2>2. Asks(c, "list", NoRow, 0, Blank, All) /\ c.ctx = "types"
    BY <2>1, DevicesSame DEF Devices!FetchTypes, Devices!TypeCall, Call, Asks, CallFields, Devices!NoRow, NoRow
  <2> QED BY <2>1, <2>2, ListAsked, SetsTyped
<1>2. ASSUME NEW x \in ui.rows
      PROVE  /\ Sound(Devices!TypeCall("delete", "removeType", x.row, x.ver))
             /\ Devices!TypeCall("delete", "removeType", x.row, x.ver).ctx = "removeType"
  <2>1. PICK c: c = Devices!TypeCall("delete", "removeType", x.row, x.ver)
    OBVIOUS
  <2>2. Asks(c, "delete", x.row, x.ver, Blank, All) /\ c.ctx = "removeType"
    BY <2>1, DevicesSame DEF Devices!TypeCall, Call, Asks, CallFields
  <2>3. x.row \in Ref /\ x.ver \in Nat
    BY SetsTyped DEF TypesInv, SeenAll, SeenOK
  <2> QED BY <2>1, <2>2, <2>3, DeleteAsked
<1>3. ASSUME NEW c, c = [Devices!TypeCall(IF ui.dlg.mode = "edit" THEN "put" ELSE "post", "saveType", ui.dlg.row,
        ui.dlg.ver)
                       EXCEPT !.form = ui.form]
      PROVE  Sound(c) /\ c.ctx = "saveType"
  <2>1. PICK op: op = IF ui.dlg.mode = "edit" THEN "put" ELSE "post"
    OBVIOUS
  <2>2. Asks(c, op, ui.dlg.row, ui.dlg.ver, ui.form, All) /\ c.ctx = "saveType"
    BY <1>3, <2>1, DevicesSame DEF Devices!TypeCall, Call, Asks, CallFields
  <2>3. ui.dlg.row \in Ref /\ ui.dlg.ver \in Nat /\ FormOK(ui.form, srv) /\ (op = "put" => Filled(ui))
    BY <2>1 DEF TypesInv, DlgOK
  <2>4. op = "put" => ui.form.row = ui.dlg.row /\ ui.dlg.ver =< ui.form.ver
    BY <2>3 DEF Filled
  <2>5. CASE op = "put"
    BY <2>2, <2>3, <2>4, <2>5, FormAsked
  <2>6. CASE op = "post"
    BY <2>2, <2>3, <2>6, PostAsked, SetsTyped
  <2> QED BY <2>1, <2>5, <2>6
<1> QED BY <1>1, <1>2, <1>3

\* Every step of the types.
LEMMA TypesStep ==
  ASSUME srv \in Rows, Calls(net, srv), TypesInv(ui, net, srv), Devices!PageNext
  PROVE  TypesKept
<1>0. /\ DOMAIN ui = {"page", "rows", "loading", "ok", "dlg", "form"} /\ ui.page = "types" /\ SeenAll(ui.rows, srv)
      /\ DOMAIN ui.dlg = {"mode", "row", "ver"} /\ DlgOK(ui.dlg, srv) /\ FormOK(ui.form, srv)
      /\ ui.dlg.mode = "edit" => Filled(ui)
      /\ \A m \in net: m.ctx \in {"types", "saveType", "removeType"}
  BY DEF TypesInv
<1>1. Devices!TypesNext
  BY <1>0 DEF Devices!PageNext, Devices!LedgerNext, Devices!LayoutNext, Devices!LoadDevices, Devices!Filters,
     Devices!OpenDeviceCreate,
     Devices!CloseDevice, Devices!AtLedger, Devices!OnLedger, Devices!LandDevices, Devices!LandDevice, Devices!LandSave,
     Devices!LandRemove, Devices!EnterTab, Devices!OnLayout, Devices!LandRacks, Devices!LandLayout, Devices!Landed
<1>2. ASSUME NEW s, DOMAIN s = DOMAIN ui, s.page = ui.page, s.rows = ui.rows, DOMAIN s.dlg = DOMAIN ui.dlg,
             DlgOK(s.dlg, srv), FormOK(s.form, srv), s.dlg.mode = "edit" => Filled(s)
      PROVE  TypesInv(s, net, srv)
  BY <1>0, <1>2 DEF TypesInv
<1>3. ASSUME NEW s, TypesInv(s, net, srv), Devices!Set(s)
      PROVE  TypesKept
  <2>1. Sets(s)
    BY <1>3, Takes DEF Devices!Set, Sets
  <2> QED BY <1>3, <2>1, TypesKeep, TypesCalls
<1>4. ASSUME NEW m \in net, Devices!LandTypes(m)
      PROVE  TypesKept
  <2>1. Handled({m}, {})
    BY <1>4, Takes DEF Devices!LandTypes
  <2>2. SeenAll(m.rows, srv)
    BY <1>4 DEF Calls, CallOK
  <2>3. /\ DOMAIN ui' = DOMAIN ui /\ ui'.page = ui.page /\ ui'.dlg = ui.dlg /\ ui'.form = ui.form
        /\ ui'.rows = m.rows /\ net' = net \ {m}
    BY <1>0, <1>4 DEF Devices!LandTypes
  <2> QED BY <1>0, <2>1, <2>2, <2>3 DEF TypesKept, TypesInv, Filled
<1>5. ASSUME NEW s, s = [ui EXCEPT !.dlg = Devices!Closed]
      PROVE  TypesInv(s, net, srv)
  <2>1. /\ DOMAIN s = DOMAIN ui /\ s.page = ui.page /\ s.rows = ui.rows /\ s.form = ui.form /\ s.dlg = Devices!Closed
    BY <1>0, <1>5
  <2>2. DOMAIN s.dlg = DOMAIN ui.dlg /\ DlgOK(s.dlg, srv) /\ s.dlg.mode = "closed"
    BY <1>0, <2>1, SetsTyped DEF Devices!Closed, DlgOK, Devices!NoRow, NoRow
  <2> QED BY <1>0, <1>2, <2>1, <2>2
<1>6. CASE Devices!OpenTypeCreate
  <2>1. PICK s: s = [ui EXCEPT !.dlg.mode = "create", !.form = Blank]
    OBVIOUS
  <2>2. /\ DOMAIN s = DOMAIN ui /\ s.page = ui.page /\ s.rows = ui.rows /\ s.form = Blank
             /\ DOMAIN s.dlg = DOMAIN ui.dlg
        /\ s.dlg.mode = "create" /\ s.dlg.row = ui.dlg.row /\ s.dlg.ver = ui.dlg.ver
    BY <1>0, <2>1
  <2>3. DlgOK(s.dlg, srv)
    BY <1>0, <2>2 DEF DlgOK
  <2>4. TypesInv(s, net, srv)
    BY <1>2, <2>2, <2>3, BlankOK
  <2> QED BY <1>3, <1>6, <2>1, <2>4, DevicesSame DEF Devices!OpenTypeCreate
<1>7. ASSUME NEW x \in ui.rows, Devices!OpenTypeEdit(x)
      PROVE  TypesKept
  <2>1. PICK s: /\ s = [ui EXCEPT !.dlg = [mode |-> "edit", row |-> x.row, ver |-> x.ver],
                     !.form = [row |-> x.row, ver |-> x.ver]]
                /\ Devices!Set(s)
    BY <1>7 DEF Devices!OpenTypeEdit
  <2>2. x.row \in Row /\ x.ver \in Nat /\ x.ver =< srv[x.row].ver
    BY <1>0 DEF SeenAll, SeenOK
  <2>3. FormOK([row |-> x.row, ver |-> x.ver], srv)
    BY <2>2, SetsTyped DEF FormOK
  <2>4. TypesInv(s, net, srv)
    BY <1>0, <2>1, <2>2, <2>3, SetsTyped DEF TypesInv, DlgOK, Filled
  <2> QED BY <1>3, <2>1, <2>4
<1>8. ASSUME NEW c, Sound(c), c.ctx \in {"types", "saveType", "removeType"}, Devices!Write(ui, c)
      PROVE  TypesKept
  <2>1. Writes(ui, c)
    BY <1>8, DevicesForms
  <2> QED BY <1>8, <2>1, TypesKeep
<1>9. CASE Devices!SubmitType
  BY <1>8, <1>9, TypesCalls DEF Devices!SubmitType
<1>10. ASSUME NEW x \in ui.rows, Devices!RemoveType(x) PROVE TypesKept
  BY <1>8, <1>10, TypesCalls DEF Devices!RemoveType
<1>11. ASSUME NEW m \in net, Devices!LandSaveType(m) \/ Devices!LandRemoveType(m)
       PROVE  TypesKept
  <2>1. PICK s: s \in {ui, [ui EXCEPT !.dlg = Devices!Closed]} /\ Devices!After(m, s, Devices!FetchTypes, ui)
    BY <1>11 DEF Devices!LandSaveType, Devices!LandRemoveType
  <2>2. TypesInv(s, net, srv) /\ "ok" \in DOMAIN ui
    BY <1>0, <1>5, <2>1
  <2>3. Follows(m, s, Devices!FetchTypes, ui)
    BY <2>1, <2>2, DevicesForms, TypesCalls
  <2> QED BY <2>2, <2>3, TypesKeep, TypesCalls
<1>12. CASE Devices!TypeButtons
  BY <1>3, <1>5, <1>6, <1>7, <1>10, <1>12 DEF Devices!TypeButtons
<1> QED BY <1>1, <1>4, <1>9, <1>11, <1>12 DEF Devices!TypesNext

-----------------------------------------------------------------------------
\* The calls of the tab with the positions of a rack.
LEMMA LayoutCalls ==
  /\ Sound(Devices!FetchRacks) /\ Devices!FetchRacks.ctx = "racks"
  /\ \A r \in Row: Sound(Devices!FetchULayout(r)) /\ Devices!FetchULayout(r).ctx = "layout"
<1>1. Sound(Devices!FetchRacks) /\ Devices!FetchRacks.ctx = "racks"
  <2>1. PICK c: c = Devices!FetchRacks
    OBVIOUS
  <2>2. Asks(c, "list", NoRow, 0, Blank, All) /\ c.ctx = "racks"
    BY <2>1, DevicesSame DEF Devices!FetchRacks, Call, Asks, CallFields
  <2> QED BY <2>1, <2>2, ListAsked, SetsTyped
<1>2. ASSUME NEW r \in Row PROVE Sound(Devices!FetchULayout(r)) /\ Devices!FetchULayout(r).ctx = "layout"
  <2>1. PICK c: c = Devices!FetchULayout(r)
    OBVIOUS
  <2>2. Asks(c, "get", r, 0, Blank, All) /\ c.ctx = "layout"
    BY <2>1, DevicesSame DEF Devices!FetchULayout, Call, Asks, CallFields
  <2> QED BY <2>1, <2>2, GetAsked, SetsTyped
<1> QED BY <1>1, <1>2

LayoutKept == (\E R, D: Handled(R, D)) /\ LayoutInv(ui', net', srv)

\* Every step of the positions.
LEMMA LayoutStep ==
  ASSUME srv \in Rows, Calls(net, srv), LayoutInv(ui, net, srv), Devices!PageNext
  PROVE  LayoutKept
<1>0. /\ DOMAIN ui = {"page", "rows", "sel", "layout", "loading", "ok"} /\ ui.page = "ulayout"
           /\ SeenAll(ui.rows, srv) /\ ui.sel \in Ref
      /\ \A m \in net: m.ctx \in {"racks", "layout"}
  BY DEF LayoutInv
<1>1. Devices!LayoutNext
  BY <1>0 DEF Devices!PageNext, Devices!LedgerNext, Devices!TypesNext, Devices!LoadDevices, Devices!Filters,
     Devices!OpenDeviceCreate,
     Devices!CloseDevice, Devices!AtLedger, Devices!OnLedger, Devices!LandDevices, Devices!LandDevice, Devices!LandSave,
     Devices!LandRemove, Devices!TypeButtons, Devices!OnTypes, Devices!SubmitType, Devices!LandTypes,
       Devices!LandSaveType,
     Devices!LandRemoveType, Devices!Landed
<1>2. ASSUME NEW R, NEW c, Sound(c), c.ctx \in {"racks", "layout"}, net' = Add(net \ R, c), UNCHANGED srv,
             DOMAIN ui' = DOMAIN ui, ui'.page = ui.page, SeenAll(ui'.rows, srv), ui'.sel \in Ref
      PROVE  LayoutKept
  <2>1. PICK d: Makes(R, c, d)
    BY <1>2, MakesOne
  <2>2. \A m \in net': m.ctx \in {"racks", "layout"}
    BY <1>0, <1>2, <2>1 DEF Makes, SameCall, Handled
  <2> QED BY <1>0, <1>2, <2>1, <2>2 DEF LayoutKept, LayoutInv, Makes
<1>3. ASSUME NEW R, net' = net \ R, UNCHANGED srv,
             DOMAIN ui' = DOMAIN ui, ui'.page = ui.page, SeenAll(ui'.rows, srv), ui'.sel \in Ref
      PROVE  LayoutKept
  BY <1>0, <1>3, Takes DEF LayoutKept, LayoutInv
<1>4. CASE Devices!EnterTab
  <2>1. net' = Add(net \ {}, Devices!FetchRacks) /\ UNCHANGED <<ui, srv>>
    BY <1>4, DevicesSame DEF Devices!EnterTab
  <2> QED BY <1>0, <1>2, <2>1, LayoutCalls
<1>5. ASSUME NEW s, NEW r \in Row, NEW R, Devices!Select(s, r, net \ R), UNCHANGED srv, DOMAIN s = DOMAIN ui,
        s.page = ui.page, SeenAll(s.rows, srv)
      PROVE  LayoutKept
  <2>1. net' = Add(net \ R, Devices!FetchULayout(r))
    BY <1>5, DevicesSame DEF Devices!Select
  <2>2. DOMAIN ui' = DOMAIN ui /\ ui'.page = ui.page /\ ui'.rows = s.rows /\ ui'.sel = r
    BY <1>0, <1>5 DEF Devices!Select
  <2> QED BY <1>2, <1>5, <2>1, <2>2, LayoutCalls, SetsTyped
<1>6. ASSUME NEW x \in ui.rows, Devices!SelectRack(x)
      PROVE  LayoutKept
  <2>1. x.row \in Row /\ Devices!Select(ui, x.row, net \ {}) /\ UNCHANGED srv
    BY <1>0, <1>6 DEF Devices!SelectRack, SeenAll, SeenOK
  <2> QED BY <1>0, <1>5, <2>1
<1>7. ASSUME NEW m \in net, Devices!LandRacks(m)
      PROVE  LayoutKept
  <2>1. SeenAll(m.rows, srv) /\ UNCHANGED srv
    BY <1>7 DEF Calls, CallOK, Devices!LandRacks
  <2>2. PICK s: s = [ui EXCEPT !.rows = m.rows]
    OBVIOUS
  <2>3. DOMAIN s = DOMAIN ui /\ s.page = ui.page /\ s.rows = m.rows /\ s.sel = ui.sel
    BY <1>0, <2>2
  <2>4. CASE ui.sel = NoRow /\ m.rows # {}
    <3>1. \E x \in m.rows: \A y \in m.rows: x.row =< y.row
      <4>1. \A x \in m.rows: x.row \in Nat
        BY <2>1, WireAssumption DEF SeenAll, SeenOK
      <4>2. PICK k \in {x.row: x \in m.rows}: \A l \in {x.row: x \in m.rows}: k =< l
        BY <2>4, <4>1, Least
      <4> QED BY <4>2
    <3>2. PICK x: x \in m.rows /\ Devices!Select(s, x.row, net \ {m})
      BY <1>7, <2>2, <2>4, <3>1 DEF Devices!LandRacks, Devices!NoRow, NoRow
    <3>3. x.row \in Row
      BY <2>1, <3>2 DEF SeenAll, SeenOK
    <3> QED BY <1>5, <2>1, <2>3, <3>2, <3>3
  <2>5. CASE ~(ui.sel = NoRow /\ m.rows # {})
    <3>1. ui' = s /\ net' = net \ {m}
      BY <1>7, <2>2, <2>5 DEF Devices!LandRacks, Devices!NoRow, NoRow
    <3> QED BY <1>0, <1>3, <2>1, <2>3, <3>1
  <2> QED BY <2>4, <2>5
<1>8. ASSUME NEW m \in net, Devices!LandLayout(m)
      PROVE  LayoutKept
  <2>1. net' = net \ {m} /\ UNCHANGED srv /\ DOMAIN ui' = DOMAIN ui /\ ui'.page = ui.page /\ ui'.rows = ui.rows
          /\ ui'.sel = ui.sel
    BY <1>0, <1>8 DEF Devices!LandLayout
  <2> QED BY <1>0, <1>3, <2>1
<1> QED BY <1>1, <1>4, <1>6, <1>7, <1>8 DEF Devices!LayoutNext

-----------------------------------------------------------------------------
(* The ledger of devices                                                      *)

LedgerCtx == {"devices", "device", "save", "remove"}
\* The calls of M are calls of N, or do not ask for one device.
Around(M, N) == \A m \in M: m \in N \/ (m.op # "get" /\ m.ctx \in LedgerCtx \ {"device"})

\* Flags, history and the page of the list do not matter to the ledger.
LEMMA LedgerAlike ==
  ASSUME NEW s, NEW t, NEW N, NEW M, NEW S, LedgerInv(s, N, S), DOMAIN t = DOMAIN s,
         \A f \in DOMAIN s \ {"loading", "ok", "pg", "total"}: t[f] = s[f], Around(M, N)
  PROVE  LedgerInv(t, M, S)
<1>1. /\ t.page = s.page /\ t.filter = s.filter /\ t.rows = s.rows /\ t.dlg = s.dlg /\ t.form = s.form /\ t.own = s.own
  BY DEF LedgerInv
<1>2. OwnForm(s, N) => OwnForm(t, M)
  BY <1>1 DEF OwnForm, Around
<1>3. \A m \in M: m.ctx \in LedgerCtx /\ (m.op = "get" <=> m.ctx = "device")
  BY DEF Around, LedgerCtx, LedgerInv
<1> QED BY <1>1, <1>2, <1>3 DEF LedgerInv, LedgerCtx

LedgerKept == (\E R, D: Handled(R, D)) /\ LedgerInv(ui', net', srv)
Another(c) == c.op # "get" /\ c.ctx \in LedgerCtx \ {"device"}

\* The forms of a step keep the ledger as they should be.
LEMMA LedgerKeep ==
  ASSUME NEW s, LedgerInv(s, net, srv), NEW c, Another(c), NEW m
  PROVE  /\ Writes(s, c) => LedgerKept
         /\ Loads(s, c) => LedgerKept
         /\ Sets(s) => LedgerKept
         /\ \A t: LedgerInv(t, net, srv) /\ Follows(m, s, c, t) => LedgerKept
<1>1. ASSUME NEW R, NEW d, Makes(R, c, d), Alike(ui', s) PROVE LedgerKept
  <2>1. Around(net', net)
    BY <1>1 DEF Makes, SameCall, Handled, Around, Another
  <2> QED BY <1>1, <2>1, LedgerAlike DEF LedgerKept, Makes, Alike
<1>2. ASSUME NEW R, Handled(R, {}), NEW t, LedgerInv(t, net, srv), Alike(ui', t) PROVE LedgerKept
  <2>1. Around(net', net)
    BY <1>2 DEF Handled, Around
  <2> QED BY <1>2, <2>1, LedgerAlike DEF LedgerKept, Alike
<1>3. Alike(s, s)
  BY DEF Alike
<1> QED BY <1>1, <1>2, <1>3 DEF Writes, Loads, Sets, Follows

\* The calls of the ledger: its list,
LEMMA LedgerFetch ==
  ASSUME NEW s, s.filter \in Group \cup {All}
  PROVE  Sound(Devices!FetchDevices(s)) /\ Another(Devices!FetchDevices(s))
<1>1. PICK c: c = Devices!FetchDevices(s)
  OBVIOUS
<1>2. Asks(c, "list", NoRow, 0, Blank, s.filter) /\ c.op = "list" /\ c.ctx = "devices"
  BY <1>1, DevicesSame DEF Devices!FetchDevices, Devices!DeviceCall, Call, Asks, CallFields, Devices!NoRow, NoRow
<1>3. s.filter \in Ups \cup {NoRow}
  BY SetsTyped
<1> QED BY <1>1, <1>2, <1>3, ListAsked DEF Another, LedgerCtx

\* and the save, which names the version of the dialog.
LEMMA LedgerSubmits ==
  ASSUME srv \in Rows, LedgerInv(ui, net, srv), NEW g \in Group \cup {All}, ui.dlg.mode = "edit" => g = All, NEW c,
         c = [Devices!DeviceCall(IF ui.dlg.mode = "edit" THEN "put" ELSE "post", "save", ui.dlg.row, ui.dlg.ver)
                EXCEPT !.form = ui.form, !.up = g, !.mixed = ui.own # "yes"]
  PROVE  Sound(c) /\ Another(c)
<1>1. PICK op: op = IF ui.dlg.mode = "edit" THEN "put" ELSE "post"
  OBVIOUS
<1>2. Asks(c, op, ui.dlg.row, ui.dlg.ver, ui.form, g) /\ c.op = op /\ c.ctx = "save" /\ (~c.mixed => ui.own = "yes")
  BY <1>1, DevicesSame DEF Devices!DeviceCall, Call, Asks, CallFields
<1>3. ui.dlg.row \in Ref /\ ui.dlg.ver \in Nat /\ FormOK(ui.form, srv)
  BY DEF LedgerInv, DlgOK
<1>4. Another(c)
  BY <1>1, <1>2 DEF Another, LedgerCtx
<1>5. CASE ui.dlg.mode = "edit"
  <2>1. op = "put" /\ ~c.mixed => ui.form.row = ui.dlg.row /\ ui.dlg.ver =< ui.form.ver
    BY <1>2, <1>5 DEF LedgerInv, OwnForm
  <2> QED BY <1>1, <1>2, <1>3, <1>4, <1>5, <2>1, FormAsked
<1>6. CASE ui.dlg.mode # "edit"
  <2>1. g \in Ups \cup {NoRow} /\ Asks(c, "post", ui.dlg.row, ui.dlg.ver, ui.form, g)
    BY <1>1, <1>2, <1>6, SetsTyped
  <2>2. Sound(c)
    BY <1>3, <2>1, PostAsked
  <2> QED BY <1>4, <2>2
<1> QED BY <1>5, <1>6

\* Every step of the ledger.
LEMMA LedgerStep ==
  ASSUME srv \in Rows, Calls(net, srv), LedgerInv(ui, net, srv), Devices!PageNext
  PROVE  LedgerKept
<1>0. /\ DOMAIN ui = {"page", "filter", "pg", "rows", "total", "loading", "ok", "dlg", "form", "own"}
      /\ ui.page = "devices" /\ ui.filter \in Group \cup {All} /\ SeenAll(ui.rows, srv)
      /\ DOMAIN ui.dlg = {"mode", "row", "ver"} /\ DlgOK(ui.dlg, srv) /\ FormOK(ui.form, srv)
      /\ ui.dlg.mode = "edit" => ui.dlg.row \in Row /\ OwnForm(ui, net)
      /\ \A m \in net: m.ctx \in LedgerCtx /\ (m.op = "get" <=> m.ctx = "device")
  BY DEF LedgerInv, LedgerCtx
<1>1. Devices!LedgerNext
  BY <1>0 DEF LedgerCtx, Devices!PageNext, Devices!LayoutNext, Devices!TypesNext, Devices!EnterTab, Devices!OnLayout,
     Devices!LandRacks,
     Devices!LandLayout, Devices!SelectRack,
     Devices!TypeButtons, Devices!OnTypes, Devices!SubmitType, Devices!LandTypes, Devices!LandSaveType,
     Devices!LandRemoveType, Devices!Landed
<1>a. \A x \in ui.rows: x.row \in Row /\ x.row \in Nat /\ x.ver \in Nat /\ x.ver =< srv[x.row].ver
  BY <1>0, WireAssumption DEF SeenAll, SeenOK
<1>b. Sound(Devices!FetchDevices(ui)) /\ Another(Devices!FetchDevices(ui))
  BY <1>0, LedgerFetch
<1>2. ASSUME NEW s, DOMAIN s = DOMAIN ui, s.page = ui.page, s.rows = ui.rows, s.filter \in Group \cup {All},
        DOMAIN s.dlg = DOMAIN ui.dlg,
             DlgOK(s.dlg, srv), FormOK(s.form, srv), s.dlg.mode # "edit"
      PROVE  LedgerInv(s, net, srv)
  BY <1>0, <1>2 DEF LedgerInv, LedgerCtx
<1>3. ASSUME NEW s, LedgerInv(s, net, srv), Devices!Set(s)
      PROVE  LedgerKept
  <2>1. Sets(s)
    BY <1>3, Takes DEF Devices!Set, Sets
  <2> QED BY <1>3, <2>1, LedgerKeep, <1>b
<1>4. ASSUME NEW s, LedgerInv(s, net, srv), Devices!Load(s, Devices!FetchDevices(s))
      PROVE  LedgerKept
  <2>1. Sound(Devices!FetchDevices(s)) /\ Another(Devices!FetchDevices(s))
    BY <1>4, LedgerFetch DEF LedgerInv
  <2>2. Loads(s, Devices!FetchDevices(s))
    BY <1>4, <2>1, DevicesForms
  <2> QED BY <1>4, <2>1, <2>2, LedgerKeep
<1>5. CASE Devices!LoadDevices
  BY <1>4, <1>5 DEF Devices!LoadDevices
<1>6. ASSUME NEW p, NEW g \in Group \cup {All}, NEW s, s = [ui EXCEPT !.filter = g, !.pg = p]
      PROVE  LedgerInv(s, net, srv)
  <2>1. /\ DOMAIN s = DOMAIN ui /\ s.page = ui.page /\ s.rows = ui.rows /\ s.filter = g /\ s.dlg = ui.dlg
             /\ s.form = ui.form /\ s.own = ui.own
    BY <1>0, <1>6
  <2> QED BY <1>0, <2>1 DEF LedgerInv, OwnForm, LedgerCtx
<1>7. CASE Devices!Filters
  <2>1. PICK s, p: /\ Devices!Load(s, Devices!FetchDevices(s))
                   /\ s = [ui EXCEPT !.pg = p] \/ \E g \in Group \cup {All}: s = [ui EXCEPT !.filter = g, !.pg = p]
    BY <1>7 DEF Devices!Filters, Devices!TurnPage, Devices!SearchDevices
  <2>2. \E g \in Group \cup {All}: s = [ui EXCEPT !.filter = g, !.pg = p]
    <3>1. CASE s = [ui EXCEPT !.pg = p]
      <4>1. [ui EXCEPT !.pg = p] = [[ui EXCEPT !.filter = ui.filter] EXCEPT !.pg = p]
        OBVIOUS
      <4> QED BY <1>0, <3>1, <4>1
    <3> QED BY <2>1, <3>1
  <2>3. LedgerInv(s, net, srv)
    BY <1>6, <2>2
  <2> QED BY <1>4, <2>1, <2>3
<1>8. ASSUME NEW m \in net, Devices!LandDevices(m)
      PROVE  LedgerKept
  <2>1. SeenAll(m.rows, srv) /\ UNCHANGED srv
    BY <1>8 DEF Calls, CallOK, Devices!LandDevices
  <2>2. CASE m.res # "ok"
    <3>1. PICK s: s = [ui EXCEPT !.loading = FALSE, !.ok = FALSE]
      OBVIOUS
    <3>2. ui' = s /\ Handled({m}, {}) /\ net' = net \ {m}
      BY <1>8, <2>2, <3>1, Takes DEF Devices!LandDevices
    <3>3. Around(net \ {m}, net)
      BY DEF Around
    <3>4. LedgerInv(s, net \ {m}, srv)
      BY <1>0, <3>1, <3>3, LedgerAlike
    <3> QED BY <3>2, <3>4 DEF LedgerKept
  <2>3. CASE m.res = "ok"
    <3>1. PICK s: s = Devices!Clamp([ui EXCEPT !.rows = m.rows, !.total = m.total, !.loading = FALSE], m)
      OBVIOUS
    <3>2. /\ DOMAIN s = DOMAIN ui /\ s.page = ui.page /\ s.rows = m.rows /\ s.filter = ui.filter /\ s.dlg = ui.dlg
          /\ s.form = ui.form /\ s.own = ui.own
      BY <1>0, <3>1 DEF Devices!Clamp
    <3>3. LedgerInv(s, net, srv)
      BY <1>0, <2>1, <3>2 DEF LedgerInv, OwnForm, LedgerCtx
    <3>4. CASE ui' = s /\ net' = net \ {m}
      <4>1. Handled({m}, {}) /\ Around(net', net) /\ Alike(ui', s)
        BY <2>1, <3>4, Takes DEF Around, Alike
      <4> QED BY <3>3, <3>4, <4>1, LedgerAlike DEF LedgerKept, Alike
    <3>5. CASE ui' = Devices!Begin(s, net \ {m}) /\ net' = Devices!Add(net \ {m}, Devices!FetchDevices(s))
      <4>1. Sound(Devices!FetchDevices(s)) /\ Another(Devices!FetchDevices(s))
        BY <3>3, LedgerFetch DEF LedgerInv
      <4>2. Follows(m, s, Devices!FetchDevices(s), s)
        BY <2>1, <3>5, <4>1, MakesOne, BeginAlike, DevicesSame DEF Follows
      <4> QED BY <3>3, <4>1, <4>2, LedgerKeep
    <3> QED BY <1>8, <2>3, <3>1, <3>4, <3>5 DEF Devices!LandDevices
  <2> QED BY <2>2, <2>3
<1>9. CASE Devices!OpenDeviceCreate
  <2>1. PICK s: s = [ui EXCEPT !.dlg.mode = "create", !.form = Blank, !.own = "no"]
    OBVIOUS
  <2>2. /\ DOMAIN s = DOMAIN ui /\ s.page = ui.page /\ s.rows = ui.rows /\ s.form = Blank
             /\ DOMAIN s.dlg = DOMAIN ui.dlg
        /\ s.dlg.mode = "create" /\ s.dlg.row = ui.dlg.row /\ s.dlg.ver = ui.dlg.ver /\ s.filter = ui.filter
    BY <1>0, <2>1
  <2>3. DlgOK(s.dlg, srv)
    BY <1>0, <2>2 DEF DlgOK
  <2>4. LedgerInv(s, net, srv)
    BY <1>0, <1>2, <2>2, <2>3, BlankOK
  <2> QED BY <1>3, <1>9, <2>1, <2>4, DevicesSame DEF Devices!OpenDeviceCreate
<1>10. ASSUME NEW s, s = [ui EXCEPT !.dlg = Devices!Closed]
      PROVE  LedgerInv(s, net, srv)
  <2>1. /\ DOMAIN s = DOMAIN ui /\ s.page = ui.page /\ s.rows = ui.rows /\ s.form = ui.form /\ s.dlg = Devices!Closed
             /\ s.filter = ui.filter
    BY <1>0, <1>10
  <2>2. DOMAIN s.dlg = DOMAIN ui.dlg /\ DlgOK(s.dlg, srv) /\ s.dlg.mode # "edit"
    BY <1>0, <2>1, SetsTyped DEF Devices!Closed, DlgOK, Devices!NoRow, NoRow
  <2> QED BY <1>0, <1>2, <2>1, <2>2
<1>11. CASE Devices!CloseDevice
  BY <1>3, <1>10, <1>11 DEF Devices!CloseDevice
<1>12. ASSUME NEW x \in ui.rows, Devices!OpenDeviceEdit(x)
       PROVE  LedgerKept
  <2>1. PICK s, c, own: /\ own = (IF Devices!Waiting("get", net) THEN "unsure" ELSE "no")
                        /\ s = [ui EXCEPT !.dlg = [mode |-> "edit", row |-> x.row, ver |-> x.ver], !.own = own]
                        /\ c = Devices!DeviceCall("get", "device", x.row, 0)
                        /\ Devices!Write(s, c)
    BY <1>12 DEF Devices!OpenDeviceEdit, Devices!NoRow, NoRow
  <2>2. Asks(c, "get", x.row, 0, Blank, All) /\ c.ctx = "device"
    BY <2>1, DevicesSame DEF Devices!DeviceCall, Call, Asks, CallFields
  <2>3. Sound(c)
    BY <1>a, <2>2, GetAsked, SetsTyped
  <2>4. PICK d: ui' = s /\ Makes({}, c, d)
    <3>1. Writes(s, c)
      BY <2>1, <2>3, DevicesForms
    <3> QED BY <3>1 DEF Writes
  <2>5. d.op = "get" /\ d.ctx = "device" /\ d.row = x.row /\ d.res = "pending" /\ net' = net \cup {d} /\ UNCHANGED srv
    BY <2>2, <2>4 DEF Makes, SameCall, Asks, Handled
  <2>6. /\ DOMAIN s = DOMAIN ui /\ s.page = ui.page /\ s.rows = ui.rows /\ s.form = ui.form /\ s.filter = ui.filter
             /\ s.own = own
        /\ DOMAIN s.dlg = DOMAIN ui.dlg /\ s.dlg.row = x.row /\ s.dlg.ver = x.ver
    BY <1>0, <2>1
  <2>7. OwnForm(s, net')
    <3>1. CASE Devices!Waiting("get", net)
      BY <2>1, <2>6, <3>1 DEF OwnForm
    <3>2. CASE ~Devices!Waiting("get", net)
      BY <2>1, <2>5, <2>6, <3>2 DEF OwnForm, Devices!Waiting
    <3> QED BY <3>1, <3>2
  <2>8. DlgOK(s.dlg, srv)
    BY <1>a, <2>6, SetsTyped DEF DlgOK
  <2>9. LedgerInv(s, net', srv)
    BY <1>0, <1>a, <2>5, <2>6, <2>7, <2>8 DEF LedgerInv, LedgerCtx
  <2> QED BY <2>4, <2>9 DEF LedgerKept, Makes
<1>13. ASSUME NEW m \in net, Devices!LandDevice(m)
       PROVE  LedgerKept
  <2>1. Handled({m}, {}) /\ net' = net \ {m} /\ m.ctx = "device" /\ m.op = "get" /\ m.res # "pending"
    BY <1>0, <1>13, Takes DEF Devices!LandDevice, Devices!Landed
  <2>2. CASE m.res # "ok"
    <3>1. PICK s: s = [ui EXCEPT !.dlg = Devices!Closed] /\ ui' = s
      BY <1>13, <2>2 DEF Devices!LandDevice
    <3>2. LedgerInv(s, net, srv)
      BY <1>10, <3>1
    <3>3. Alike(ui', s) /\ Around(net', net)
      BY <2>1, <3>1 DEF Alike, Around
    <3> QED BY <2>1, <3>1, <3>2, <3>3, LedgerAlike DEF LedgerKept, Alike
  <2>3. CASE m.res = "ok"
    <3>1. PICK x \in m.rows: m.rows = {x} /\ x.row = m.row /\ SeenOK(x, srv)
      BY <2>1, <2>3 DEF Calls, CallOK, SeenAll
    <3>2. /\ ui' = [ui EXCEPT !.form = [row |-> m.row, ver |-> x.ver], !.own = IF @ = "no" THEN "yes" ELSE @]
      <4>1. (CHOOSE y \in m.rows: TRUE) = x
        BY <3>1
      <4> QED BY <1>13, <2>3, <4>1 DEF Devices!LandDevice
    <3>3. PICK s: s = ui'
      OBVIOUS
    <3>4. /\ DOMAIN s = DOMAIN ui /\ s.page = ui.page /\ s.rows = ui.rows /\ s.filter = ui.filter /\ s.dlg = ui.dlg
          /\ s.form = [row |-> m.row, ver |-> x.ver] /\ s.own = IF ui.own = "no" THEN "yes" ELSE ui.own
      BY <1>0, <3>2, <3>3
    <3>5. FormOK(s.form, srv)
      BY <3>1, <3>4, SetsTyped DEF FormOK, SeenOK
    <3>6. ui.dlg.mode = "edit" => OwnForm(s, net')
      <4>1. SUFFICES ASSUME ui.dlg.mode = "edit" PROVE OwnForm(s, net')
        OBVIOUS
      <4>2. OwnForm(ui, net)
        BY <1>0, <4>1
      <4>3. ui.own # "yes"
        BY <2>1, <4>2 DEF OwnForm
      <4>4. ui.own = "no" => m.row = ui.dlg.row /\ ui.dlg.ver =< x.ver /\ \A k \in net: k.op = "get" => k = m
        BY <2>1, <2>3, <3>1, <4>2 DEF OwnForm
      <4>5. s.form.row = m.row /\ s.form.ver = x.ver
        BY <3>4
      <4> QED BY <2>1, <3>4, <4>3, <4>4, <4>5 DEF OwnForm
    <3>7. LedgerInv(s, net', srv)
      BY <1>0, <2>1, <3>4, <3>5, <3>6 DEF LedgerInv, LedgerCtx
    <3> QED BY <2>1, <3>3, <3>7 DEF LedgerKept
  <2> QED BY <2>2, <2>3
<1>14. ASSUME NEW g \in Group \cup {All}, Devices!SubmitDevice(g)
       PROVE  LedgerKept
  <2>1. PICK c: /\ c = [Devices!DeviceCall(IF ui.dlg.mode = "edit" THEN "put" ELSE "post", "save", ui.dlg.row,
                     ui.dlg.ver)
                        EXCEPT !.form = ui.form, !.up = g, !.mixed = ui.own # "yes"]
                /\ Devices!Write(ui, c) /\ (ui.dlg.mode = "edit" => g = All)
    BY <1>14 DEF Devices!SubmitDevice
  <2>2. Sound(c) /\ Another(c)
    BY <2>1, LedgerSubmits
  <2>3. Writes(ui, c)
    BY <2>1, <2>2, DevicesForms
  <2> QED BY <2>2, <2>3, LedgerKeep
<1>15. ASSUME NEW x \in ui.rows, Devices!RemoveDevice(x)
       PROVE  LedgerKept
  <2>1. PICK c: c = Devices!DeviceCall("delete", "remove", x.row, x.ver) /\ Devices!Write(ui, c)
    BY <1>15 DEF Devices!RemoveDevice
  <2>2. Asks(c, "delete", x.row, x.ver, Blank, All) /\ c.op = "delete" /\ c.ctx = "remove"
    BY <2>1, DevicesSame DEF Devices!DeviceCall, Call, Asks, CallFields
  <2>3. Sound(c) /\ Another(c)
    BY <1>a, <2>2, DeleteAsked, SetsTyped DEF Another, LedgerCtx
  <2>4. Writes(ui, c)
    BY <2>1, <2>3, DevicesForms
  <2> QED BY <2>3, <2>4, LedgerKeep
<1>16. ASSUME NEW m \in net, Devices!LandSave(m) \/ Devices!LandRemove(m)
       PROVE  LedgerKept
  <2>1. PICK s: s \in {ui, [ui EXCEPT !.dlg = Devices!Closed]} /\ Devices!After(m, s, Devices!FetchDevices(ui), ui)
    BY <1>16 DEF Devices!LandSave, Devices!LandRemove
  <2>2. LedgerInv(s, net, srv) /\ "ok" \in DOMAIN ui
    BY <1>0, <1>10, <2>1
  <2>3. Follows(m, s, Devices!FetchDevices(ui), ui)
    BY <1>b, <2>1, <2>2, DevicesForms
  <2> QED BY <1>b, <2>2, <2>3, LedgerKeep
<1> QED BY <1>1, <1>5, <1>7, <1>8, <1>9, <1>11, <1>12, <1>13, <1>14, <1>15, <1>16 DEF Devices!LedgerNext

-----------------------------------------------------------------------------
(* The screen                                                                 *)

\* The instance for the screen has the definitions of module Wire.
LEMMA ScreenSame ==
  /\ Screen!Call = Call /\ Screen!Blank = Blank
  /\ \A calls, c: Screen!Add(calls, c) = Add(calls, c)
  /\ \A s, calls: Screen!Begin(s, calls) = Begin(s, calls)
  /\ \A s: Screen!Excused(s) = Excused(s)
<1>1. Screen!Call = Call /\ Screen!Blank = Blank
  BY DEF Screen!Call, Call, Screen!Blank, Blank, Screen!NoRow, NoRow
<1>2. \A calls, c: Screen!Add(calls, c) = Add(calls, c)
  BY DEF Screen!Add, Add, Screen!Cardinality, Cardinality
<1>3. \A s, calls: Screen!Begin(s, calls) = Begin(s, calls)
  BY DEF Screen!Begin, Begin, Screen!Waiting, Waiting
<1>4. \A s: Screen!Excused(s) = Excused(s)
  BY DEF Screen!Excused, Excused
<1> QED BY <1>1, <1>2, <1>3, <1>4

\* The forms of a step, on the screen.
LEMMA ScreenForms ==
  ASSUME NEW m, NEW s, NEW c, Sound(c)
  PROVE  /\ Screen!Write(s, c) => Writes(s, c)
         /\ Screen!Load(s, c) => Loads(s, c)
         /\ Screen!Set(s) => Sets(s)
         /\ \A t: "ok" \in DOMAIN t /\ Screen!After(m, s, c, t) => Follows(m, s, c, t)
<1>1. ASSUME Screen!Write(s, c) PROVE Writes(s, c)
  BY <1>1, MakesOne, ScreenSame DEF Screen!Write, Writes
<1>2. ASSUME Screen!Load(s, c) PROVE Loads(s, c)
  BY <1>2, MakesOne, ScreenSame, BeginAlike DEF Screen!Load, Loads
<1>3. ASSUME Screen!Set(s) PROVE Sets(s)
  BY <1>3, Takes DEF Screen!Set, Sets
<1>4. ASSUME NEW t, "ok" \in DOMAIN t, Screen!After(m, s, c, t) PROVE Follows(m, s, c, t)
  <2>1. CASE m.res = "ok"
    BY <1>4, <2>1, MakesOne, ScreenSame, BeginAlike DEF Screen!After, Follows
  <2>2. CASE m.res # "ok"
    <3>1. Alike([t EXCEPT !.ok = @ /\ ~m.did], t)
      BY DEF Alike
    <3> QED BY <1>4, <2>2, <3>1, Takes DEF Screen!After, Follows
  <2> QED BY <2>1, <2>2
<1> QED BY <1>1, <1>2, <1>3, <1>4

\* The table changes no room and no rack.
SameKinds(S, T) ==
  \A r \in Row: \/ T[r].up = S[r].up
                \/ IsDevice(r, S) /\ (T[r].up \in Group \/ IsRack(T[r].up, S))

\* Then rooms, racks and devices stay what they are.
LEMMA KindsStay ==
  ASSUME NEW S \in Rows, NEW T \in Rows, SameKinds(S, T)
  PROVE  /\ \A r: IsRoom(r, T) <=> IsRoom(r, S)
         /\ \A r: IsRack(r, T) <=> IsRack(r, S)
         /\ \A r: IsDevice(r, T) <=> IsDevice(r, S)
         /\ \A r: ~IsDevice(r, S) /\ r \in Row => T[r].up = S[r].up
<1>0. All \notin Row /\ All \notin Group /\ Group \cap Row = {}
  BY WireAssumption
<1>1. \A r: IsRoom(r, T) <=> IsRoom(r, S)
  BY <1>0 DEF SameKinds, IsRoom, IsRack, IsDevice
<1>2. \A r: IsRack(r, T) <=> IsRack(r, S)
  <2>1. \A r \in Row: ~IsDevice(r, S) => T[r].up = S[r].up
    BY DEF SameKinds
  <2>2. ASSUME NEW r, IsRack(r, S) PROVE IsRack(r, T)
    <3>1. T[r].up = S[r].up
      BY <2>1, <2>2 DEF IsDevice, IsRack
    <3>2. IsRoom(S[r].up, S)
      BY <2>2 DEF IsRack, IsRoom
    <3> QED BY <1>1, <2>2, <3>1, <3>2 DEF IsRack, IsRoom
  <2>3. ASSUME NEW r, IsRack(r, T), ~IsRack(r, S) PROVE FALSE
    <3>1. r \in Row /\ IsRoom(T[r].up, T) /\ T[r].up \in Row
      BY <2>3 DEF IsRack, IsRoom
    <3>2. IsRoom(T[r].up, S)
      BY <1>1, <3>1
    <3>3. T[r].up # S[r].up
      BY <2>3, <3>1, <3>2 DEF IsRack, IsRoom
    <3>4. IsRack(T[r].up, S)
      BY <1>0, <3>1, <3>3 DEF SameKinds
    <3> QED BY <1>0, <3>2, <3>4 DEF IsRack, IsRoom
  <2> QED BY <2>2, <2>3
<1>3. \A r: IsDevice(r, T) <=> IsDevice(r, S)
  BY <1>1, <1>2 DEF IsDevice
<1> QED BY <1>1, <1>2, <1>3 DEF SameKinds

\* What was seen of a place stays true.
LEMMA PlaceStays ==
  ASSUME NEW S \in Rows, NEW T \in Rows, SameKinds(S, T), NEW x, x.row \in Row, PlaceOK(x, S)
  PROVE  PlaceOK(x, T)
BY KindsStay DEF PlaceOK

\* The screen's state stays right on a table that has grown.
LEMMA ScreenUiGrows ==
  ASSUME NEW S \in Rows, NEW T \in Rows, SameKinds(S, T), Newer(S, T), NEW s, ScreenUi(s, S)
  PROVE  ScreenUi(s, T)
<1>1. /\ \A X: SeenAll(X, S) => SeenAll(X, T)
      /\ \A f: FormOK(f, S) => FormOK(f, T)
      /\ \A d: DlgOK(d, S) => DlgOK(d, T)
  <2>1. \A X: SeenAll(X, S) => SeenAll(X, T)
    BY SeenGrows DEF SeenAll
  <2>2. \A f: FormOK(f, S) => FormOK(f, T)
    BY FormGrows
  <2>3. \A d: DlgOK(d, S) => DlgOK(d, T)
    BY DEF DlgOK, Newer, Rows
  <2> QED BY <2>1, <2>2, <2>3
<1>2. /\ \A r: IsRack(r, T) <=> IsRack(r, S)
      /\ \A r: IsDevice(r, T) <=> IsDevice(r, S)
  BY KindsStay
<1>3. ScreenRows(s, T)
  <2>1. SeenAll(s.rows, S) /\ SeenAll(s.cand, S)
    BY DEF ScreenUi, ScreenRows
  <2>2. \A x \in s.rows: PlaceOK(x, T) /\ (x.up = All \/ IsRack(x.row, T))
    <3>1. ASSUME NEW x \in s.rows PROVE PlaceOK(x, T)
      BY <2>1, PlaceStays DEF ScreenUi, ScreenRows, SeenAll, SeenOK
    <3> QED BY <1>2, <3>1 DEF ScreenUi, ScreenRows
  <2>3. \A e \in s.devs: /\ DOMAIN e = {"rack", "rows"} /\ SeenAll(e.rows, T)
                         /\ \A x \in e.rows: IsDevice(x.row, T)
    BY <1>1, <1>2 DEF ScreenUi, ScreenRows
  <2> QED BY <1>1, <1>2, <2>1, <2>2, <2>3 DEF ScreenUi, ScreenRows
<1>4. FormOK(s.sel, T) /\ FormOK(s.form, T) /\ ScreenDlgOK(s.dlg, T)
  BY <1>1, <1>2 DEF ScreenUi, ScreenDlgOK
<1> QED BY <1>2, <1>3, <1>4 DEF ScreenUi

\* So do its calls.
LEMMA ScreenCallStays ==
  ASSUME NEW S \in Rows, NEW T \in Rows, SameKinds(S, T), NEW m, CallOK(m, S), ScreenCallOK(m, S)
  PROVE  ScreenCallOK(m, T)
<1>1. /\ \A r: IsRack(r, T) <=> IsRack(r, S)
      /\ \A r: IsDevice(r, T) <=> IsDevice(r, S)
  BY KindsStay
<1>2. \A x \in m.rows: PlaceOK(x, T)
  BY PlaceStays DEF ScreenCallOK, CallOK, SeenAll, SeenOK
<1> QED BY <1>1, <1>2 DEF ScreenCallOK

\* What the screen reads of the table tells what it is.
LEMMA SeenPlace ==
  ASSUME srv \in Rows, NEW g, NEW x \in Matching(g)
  PROVE  PlaceOK(x, srv) /\ (IsRack(g, srv) => IsDevice(x.row, srv))
<1>0. All \notin Row
  BY WireAssumption
<1>1. PICK r \in Row: x = Seen(r) /\ g \in {All, Up(r), Up(Up(r)), Up(Up(Up(r)))}
  BY DEF Matching, Live
<1>2. x.row = r /\ x.up = srv[r].up
  BY <1>1 DEF Seen
<1>3. PlaceOK(x, srv)
  BY <1>0, <1>2 DEF PlaceOK, IsDevice, IsRack, IsRoom
<1>4. ASSUME IsRack(g, srv) PROVE IsDevice(r, srv)
  <2>1. g \in Row /\ g # All /\ ~IsRoom(g, srv)
    BY <1>0, <1>4 DEF IsRack, IsRoom
  <2>2. Up(All) = All
    BY <1>0 DEF Up
  <2>3. ~IsRoom(r, srv)
    <3>1. SUFFICES ASSUME IsRoom(r, srv) PROVE FALSE
      OBVIOUS
    <3>2. Up(r) = All
      BY <3>1 DEF Up, IsRoom
    <3> QED BY <1>1, <2>1, <2>2, <3>2
  <2>4. ~IsRack(r, srv)
    <3>1. SUFFICES ASSUME IsRack(r, srv) PROVE FALSE
      OBVIOUS
    <3>2. Up(r) = srv[r].up /\ Up(r) \in Row /\ IsRoom(Up(r), srv) /\ Up(Up(r)) = All
      BY <3>1 DEF Up, IsRack, IsRoom
    <3> QED BY <1>1, <2>1, <2>2, <3>2
  <2> QED BY <2>3, <2>4 DEF IsDevice
<1> QED BY <1>2, <1>3, <1>4

\* An answer, and what it changes in the table, leaves the screen as it should be.
LEMMA ScreenReply ==
  ASSUME srv \in Rows, TableOK, Calls(net, srv), ScreenInv(ui, net, srv), NEW m, NEW d, Reply(m, d), CallOK(d, srv')
  PROVE  ScreenInv(ui', net', srv')
<1>1. PICK T \in Rows: T = srv' /\ Newer(srv, T)
  BY DEF TableOK
<1>2. m \in net /\ CallOK(m, srv) /\ ScreenCallOK(m, srv) /\ m.res = "pending"
  BY DEF Reply, Calls, ScreenInv, ScreenNet
<1>3. SameKinds(srv, T)
  <2>1. \A r \in Row: T[r].up # srv[r].up => r = m.row /\ m.op \in {"move", "mount", "shift", "unmount"}
          /\ T[r].up = m.up
    BY <1>1 DEF Reply
  <2> QED BY <1>2, <2>1 DEF SameKinds, ScreenCallOK
<1>4. ScreenUi(ui', T)
  BY <1>1, <1>3, ScreenUiGrows DEF ScreenInv, Reply
<1>5. /\ net' = (net \ {m}) \cup {d} /\ d.op = m.op /\ d.ctx = m.ctx /\ d.row = m.row
           /\ (m.op = "layout" => d.page = m.page)
      /\ d.rows \subseteq Matching(IF m.op = "layout" THEN m.row ELSE All) /\ d.res # "pending" /\ ui' = ui
  BY DEF Reply
<1>6. ScreenCallOK(d, srv)
  <2>1. \A x \in d.rows: PlaceOK(x, srv)
    BY <1>5, SeenPlace
  <2>2. m.op = "layout" => \A x \in d.rows: IsDevice(x.row, srv)
    BY <1>2, <1>5, SeenPlace DEF ScreenCallOK
  <2> QED BY <1>2, <1>5, <2>1, <2>2 DEF ScreenCallOK
<1>7. ScreenCallOK(d, T)
  <2>1. \A x \in d.rows: x.row \in Row
    BY <1>5, SeenTyped DEF SeenOK
  <2>2. /\ \A r: IsRack(r, T) <=> IsRack(r, srv)
        /\ \A r: IsDevice(r, T) <=> IsDevice(r, srv)
    BY <1>3, KindsStay
  <2>3. \A x \in d.rows: PlaceOK(x, T)
    BY <1>3, <1>6, <2>1, PlaceStays DEF ScreenCallOK
  <2> QED BY <1>6, <2>2, <2>3 DEF ScreenCallOK
<1>8. ScreenNet(net', T)
  <2>1. IsFiniteSet(net')
    <3>1. IsFiniteSet(net) /\ IsFiniteSet({d})
      BY FS_Singleton DEF ScreenInv, ScreenNet
    <3>2. IsFiniteSet(net \ {m})
      BY <3>1, FS_Difference
    <3> QED BY <1>5, <3>1, <3>2, FS_Union
  <2>2. Batched(net')
    BY <1>2, <1>5 DEF ScreenInv, ScreenNet, Batched
  <2>3. \A k \in net': ScreenCallOK(k, T)
    <3>1. ASSUME NEW k \in net PROVE ScreenCallOK(k, T)
      BY <1>3, <3>1, ScreenCallStays DEF ScreenInv, ScreenNet, Calls
    <3> QED BY <1>5, <1>7, <3>1
  <2> QED BY <2>1, <2>2, <2>3 DEF ScreenNet
<1>9. SelOK(ui, net')
  <2>1. SelOK(ui, net)
    BY DEF ScreenInv
  <2>2. ASSUME NEW k \in net, k.op = "layout", k.ctx \in Repairs PROVE SelOK(ui, net')
    <3>1. CASE k = m
      BY <1>5, <2>2, <3>1 DEF SelOK
    <3>2. CASE k # m
      BY <1>5, <2>2, <3>2 DEF SelOK
    <3> QED BY <3>1, <3>2
  <2> QED BY <2>1, <2>2 DEF SelOK
<1>10. DragOK(ui, net')
  <2>1. DragOK(ui, net)
    BY DEF ScreenInv
  <2>2. ui.dragging = 1 => \A k, j \in net': k.ctx = "drag" /\ j.ctx = "drag" => k = j
    BY <1>2, <1>5, <2>1 DEF DragOK
  <2>3. \A k, j, i \in net': k.ctx = "drag" /\ j.ctx = "drag" /\ i.ctx = "drag" => k = j \/ k = i \/ j = i
    BY <1>2, <1>5, <2>1 DEF DragOK
  <2>4. \A k \in net': k.ctx = "treeDragged" => ui.dragging = 1 /\ \A j \in net': j.ctx # "drag"
    BY <1>2, <1>5, <2>1 DEF DragOK
  <2>5. \A k, j \in net': k.ctx = "treeDragged" /\ j.ctx = "treeDragged" =>
          k = j \/ (k.op = "layout" /\ j.op = "layout" /\ k.page = j.page)
    BY <1>2, <1>5, <2>1 DEF DragOK
  <2>6. ui.dragging \in {0, 1, 2} /\ (ui.dragging = 0 => \A k \in net': k.ctx # "drag")
    BY <1>2, <1>5, <2>1 DEF DragOK
  <2> QED BY <2>2, <2>3, <2>4, <2>5, <2>6 DEF DragOK
<1> QED BY <1>1, <1>4, <1>5, <1>8, <1>9, <1>10 DEF ScreenInv

-----------------------------------------------------------------------------
ScreenKept == CallsOK /\ UNCHANGED srv /\ ScreenInv(ui', net', srv)

\* A call that no batch and no exchange of racks waits for.
Calm(c) == Sound(c) /\ ScreenCallOK(c, srv) /\ c.op # "layout" /\ c.ctx \notin {"drag", "treeDragged"}
\* A state of the page that only its calls have to agree with.
Steady(s) == ScreenUi(s, srv) /\ SelOK(s, net) /\ s.dragging = ui.dragging

\* The flags and the history of the screen do not matter to its state.
LEMMA ScreenUiLike ==
  ASSUME NEW s, NEW t, NEW S, ScreenUi(s, S), DOMAIN t = DOMAIN s,
         \A f \in DOMAIN s \ {"loading", "ok", "fresh", "hidden", "saving", "exporting", "dragging"}: t[f] = s[f]
  PROVE  /\ ScreenUi(t, S)
         /\ \A N: SelOK(s, N) => SelOK(t, N)
<1>1. /\ t.page = s.page /\ t.rows = s.rows /\ t.room = s.room /\ t.devs = s.devs /\ t.sel = s.sel /\ t.dlg = s.dlg
      /\ t.form = s.form /\ t.cand = s.cand
  BY DEF ScreenUi
<1>2. ScreenUi(t, S)
  BY <1>1 DEF ScreenUi, ScreenRows
<1> QED BY <1>1, <1>2 DEF SelOK

\* Calls that no batch or exchange waits for may come and go.
LEMMA ScreenCalm ==
  ASSUME ScreenInv(ui, net, srv), NEW t, ScreenUi(t, srv), SelOK(t, net), t.dragging = ui.dragging,
         NEW R, \A m \in R: m.op # "layout", NEW D, IsFiniteSet(D), \A d \in D: Calm(d)
  PROVE  ScreenInv(t, (net \ R) \cup D, srv)
<1> DEFINE M == (net \ R) \cup D
<1>1. ScreenNet(net, srv) /\ DragOK(ui, net)
  BY DEF ScreenInv
<1>2. IsFiniteSet(M)
  <2>1. IsFiniteSet(net \ R)
    BY <1>1, FS_Difference DEF ScreenNet
  <2> QED BY <2>1, FS_Union
<1>3. Batched(M) /\ \A m \in M: ScreenCallOK(m, srv)
  BY <1>1 DEF ScreenNet, Batched, Calm
<1>4. SelOK(t, M)
  BY DEF SelOK
<1>5. DragOK(t, M)
  BY <1>1 DEF DragOK, Calm
<1> QED BY <1>2, <1>3, <1>4, <1>5 DEF ScreenInv, ScreenNet

\* The forms of a step keep the screen as it should be, with such calls.
LEMMA ScreenKeep ==
  ASSUME srv \in Rows, Calls(net, srv), ScreenInv(ui, net, srv), NEW s, Steady(s), NEW c, NEW m, m.op # "layout"
  PROVE  /\ Calm(c) /\ Writes(s, c) => ScreenKept
         /\ Calm(c) /\ Loads(s, c) => ScreenKept
         /\ Sets(s) => ScreenKept
         /\ Alike(ui', s) /\ Handled({m}, {}) => ScreenKept
         /\ \A t: Calm(c) /\ Steady(t) /\ Follows(m, s, c, t) => ScreenKept
<1>1. ASSUME NEW t, NEW u, Steady(t), Alike(u, t) PROVE Steady(u)
  <2>1. u.dragging = t.dragging
    BY <1>1 DEF Steady, Alike, ScreenUi
  <2> QED BY <1>1, <2>1, ScreenUiLike DEF Steady, Alike
<1>2. ASSUME NEW R, \A k \in R: k.op # "layout", NEW D, Handled(R, D), IsFiniteSet(D), \A d \in D: Calm(d), Steady(ui')
      PROVE  ScreenKept
  <2>1. PICK u: u = ui'
    OBVIOUS
  <2>2. ScreenInv(u, (net \ R) \cup D, srv)
    BY <1>2, <2>1, ScreenCalm DEF Steady
  <2> QED BY <1>2, <2>1, <2>2, HandledOK DEF ScreenKept, Handled
<1>3. ASSUME NEW t, Steady(t), Alike(ui', t), NEW R, \A k \in R: k.op # "layout", Calm(c), NEW d, Makes(R, c, d)
        PROVE ScreenKept
  <2>1. Steady(ui')
    BY <1>1, <1>3
  <2>2. Calm(d)
    BY <1>3 DEF Makes, Calm, ScreenCallOK, SameCall, Handled, Made
  <2>3. IsFiniteSet({d})
    BY FS_Singleton
  <2> QED BY <1>2, <1>3, <2>1, <2>2, <2>3 DEF Makes
<1>4. ASSUME NEW t, Steady(t), Alike(ui', t), NEW R, \A k \in R: k.op # "layout", Handled(R, {}) PROVE ScreenKept
  BY <1>1, <1>2, <1>4, FS_EmptySet
<1>5. Alike(s, s)
  BY DEF Alike
<1> QED BY <1>3, <1>4, <1>5 DEF Writes, Loads, Sets, Follows

\* The first of the rows that are drawn.
LEMMA ScreenFirst ==
  ASSUME NEW S, \A x \in S: x.row \in Nat
  PROVE  /\ Screen!First(S) = NoRow \/ \E x \in S: x.row = Screen!First(S)
         /\ S # {} => \E x \in S: x.row = Screen!First(S)
<1>1. CASE S = {}
  BY <1>1 DEF Screen!First, Screen!NoRow, NoRow
<1>2. CASE S # {}
  <2>1. PICK k \in {x.row: x \in S}: \A l \in {x.row: x \in S}: k =< l
    BY <1>2, Least
  <2>2. \E x \in S: \A y \in S: x.row =< y.row
    BY <2>1
  <2> QED BY <1>2, <2>2 DEF Screen!First
<1> QED BY <1>1, <1>2

\* The racks that are drawn are racks, at a version they have had.
LEMMA ScreenRacks ==
  ASSUME NEW s, ScreenUi(s, srv), srv \in Rows
  PROVE  /\ \A x \in s.rows: x.row \in Row /\ x.row \in Nat /\ x.ver \in Nat /\ x.ver =< srv[x.row].ver
         /\ \A x \in Screen!Racks(s): IsRack(x.row, srv) /\ FormOK(Screen!Snapshot(x), srv)
              /\ Screen!Snapshot(x).row = x.row
         /\ Screen!Filtered(s) \subseteq Screen!Racks(s) /\ Screen!Racks(s) \subseteq s.rows
<1>1. \A x \in s.rows: x.row \in Row /\ x.row \in Nat /\ x.ver \in Nat /\ x.ver =< srv[x.row].ver
  BY WireAssumption DEF ScreenUi, ScreenRows, SeenAll, SeenOK
<1>2. Screen!Filtered(s) \subseteq Screen!Racks(s) /\ Screen!Racks(s) \subseteq s.rows
  BY DEF Screen!Filtered, Screen!Racks
<1>3. ASSUME NEW x \in Screen!Racks(s) PROVE IsRack(x.row, srv) /\ FormOK(Screen!Snapshot(x), srv)
        /\ Screen!Snapshot(x).row = x.row
  <2>1. x \in s.rows /\ x.up # All
    BY DEF Screen!Racks
  <2>2. IsRack(x.row, srv)
    BY <2>1 DEF ScreenUi, ScreenRows
  <2>3. FormOK(Screen!Snapshot(x), srv)
    BY <1>1, <2>1, SetsTyped DEF FormOK, Screen!Snapshot
  <2> QED BY <2>2, <2>3 DEF Screen!Snapshot
<1> QED BY <1>1, <1>2, <1>3

\* A rack that is drawn may be selected.
LEMMA ScreenSelects ==
  ASSUME srv \in Rows, NEW s, ScreenUi(s, srv), NEW x \in Screen!Racks(s), NEW t, DOMAIN t = DOMAIN s,
    t.sel = Screen!Snapshot(x),
         \A f \in DOMAIN s \ {"sel", "hidden"}: t[f] = s[f]
  PROVE  ScreenUi(t, srv) /\ \A N: SelOK(t, N)
<1>1. /\ t.page = s.page /\ t.rows = s.rows /\ t.room = s.room /\ t.devs = s.devs /\ t.dlg = s.dlg /\ t.form = s.form
           /\ t.cand = s.cand
  BY DEF ScreenUi
<1>2. IsRack(x.row, srv) /\ FormOK(t.sel, srv) /\ t.sel.row = x.row
  BY ScreenRacks
<1>3. ScreenUi(t, srv)
  BY <1>1, <1>2 DEF ScreenUi, ScreenRows
<1>4. x \in t.rows /\ x.up = t.room /\ x.up # All
  BY <1>1 DEF Screen!Racks
<1> QED BY <1>2, <1>3, <1>4 DEF SelOK

\* The repaired selection is drawn, or empty.
LEMMA ScreenEnsures ==
  ASSUME srv \in Rows, NEW s, ScreenUi(s, srv), NEW t, t = Screen!EnsureSelection(s)
  PROVE  ScreenUi(t, srv) /\ t.dragging = s.dragging /\ \A N: SelOK(t, N)
<1>1. CASE Screen!Has(Screen!Filtered(s), s.sel.row)
  <2>1. t = s
    BY <1>1 DEF Screen!EnsureSelection
  <2>2. \E x \in s.rows: x.up = s.room /\ x.up # All /\ x.row = s.sel.row
    BY <1>1 DEF Screen!Has, Screen!Filtered, Screen!Racks
  <2> QED BY <2>1, <2>2 DEF SelOK
<1>2. CASE ~Screen!Has(Screen!Filtered(s), s.sel.row) /\ Screen!Filtered(s) = {}
  <2>1. t = [s EXCEPT !.sel = Blank]
    BY <1>2, ScreenSame DEF Screen!EnsureSelection
  <2>2. /\ DOMAIN t = DOMAIN s /\ t.page = s.page /\ t.rows = s.rows /\ t.room = s.room /\ t.devs = s.devs
             /\ t.dlg = s.dlg
        /\ t.form = s.form /\ t.cand = s.cand /\ t.dragging = s.dragging /\ t.sel = Blank
    BY <2>1 DEF ScreenUi
  <2>3. ScreenUi(t, srv)
    BY <2>2, BlankOK DEF ScreenUi, ScreenRows, Blank
  <2> QED BY <2>2, <2>3 DEF SelOK
<1>3. CASE ~Screen!Has(Screen!Filtered(s), s.sel.row) /\ Screen!Filtered(s) # {}
  <2>1. \A x \in Screen!Filtered(s): x.row \in Nat
    BY ScreenRacks
  <2>2. PICK x \in Screen!Filtered(s): x = (CHOOSE y \in Screen!Filtered(s): y.row = Screen!First(Screen!Filtered(s)))
    BY <1>3, <2>1, ScreenFirst
  <2>3. t = [s EXCEPT !.sel = Screen!Snapshot(x)]
    BY <1>3, <2>2 DEF Screen!EnsureSelection
  <2>4. x \in Screen!Racks(s) /\ DOMAIN t = DOMAIN s /\ t.sel = Screen!Snapshot(x)
          /\ (\A f \in DOMAIN s \ {"sel", "hidden"}: t[f] = s[f])
        /\ t.dragging = s.dragging
    BY <2>3, ScreenRacks DEF ScreenUi
  <2> QED BY <2>4, ScreenSelects
<1> QED BY <1>1, <1>2, <1>3

-----------------------------------------------------------------------------
(* Batches of layouts                                                         *)

\* A new batch has a number that no batch in flight has.
LEMMA SpareFree ==
  ASSUME NEW calls, IsFiniteSet(calls)
  PROVE  \A m \in calls: m.op # "layout" \/ m.page # Screen!Spare(calls)
<1>1. PICK n \in Nat: n = Cardinality(calls)
  BY FS_CardinalityType
<1>2. \A C: Screen!Cardinality(C) = Cardinality(C)
  BY DEF Screen!Cardinality, Cardinality
<1>3. \E b \in 1..(n + 1): \A m \in calls: m.op # "layout" \/ m.page # b
  <2>1. SUFFICES ASSUME \A b \in 1..(n + 1): \E m \in calls: m.op = "layout" /\ m.page = b
                 PROVE  FALSE
    OBVIOUS
  <2>2. PICK f: f = [b \in 1..(n + 1) |-> CHOOSE m \in calls: m.op = "layout" /\ m.page = b]
    OBVIOUS
  <2>3. f \in [1..(n + 1) -> calls] /\ \A b \in 1..(n + 1): f[b].page = b
    BY <2>1, <2>2
  <2>4. IsFiniteSet(1..(n + 1)) /\ Cardinality(1..(n + 1)) = n + 1
    <3>1. 1 \in Int /\ n + 1 \in Int /\ ~(1 > n + 1) /\ (n + 1) - 1 + 1 = n + 1
      OBVIOUS
    <3> QED BY <3>1, FS_Interval
  <2>5. Cardinality(calls) < Cardinality(1..(n + 1))
    BY <1>1, <2>4
  <2>6. PICK x, y \in 1..(n + 1): x # y /\ f[x] = f[y]
    BY <2>3, <2>4, <2>5, FS_PigeonHole
  <2> QED BY <2>3, <2>6
<1> QED BY <1>1, <1>2, <1>3 DEF Screen!Spare

\* When a load has ended, and not one for a placement or an export, the selection is drawn.
LEMMA ScreenEnded ==
  ASSUME srv \in Rows, NEW s, ScreenUi(s, srv), NEW ctx, NEW u, u = Screen!Ended(s, ctx)
  PROVE  /\ ScreenUi(u, srv) /\ u.dragging = (IF ctx = "treeDragged" THEN 0 ELSE s.dragging)
         /\ \A N: SelOK(s, N) => SelOK(u, N)
         /\ ctx \notin {"placed", "export"} => \A N: SelOK(u, N)
<1>1. PICK t: t = [s EXCEPT !.loading = @ /\ ctx \notin {"tree", "treeSaved", "treeDragged"}, !.saving = @
        /\ ctx # "treeSaved",
                     !.dragging = IF ctx = "treeDragged" THEN 0 ELSE @, !.exporting = @ /\ ctx # "export"]
  OBVIOUS
<1>2. /\ DOMAIN t = DOMAIN s /\ t.dragging = (IF ctx = "treeDragged" THEN 0 ELSE s.dragging)
      /\ \A f \in DOMAIN s \ {"loading", "ok", "fresh", "hidden", "saving", "exporting", "dragging"}: t[f] = s[f]
  BY <1>1 DEF ScreenUi
<1>3. ScreenUi(t, srv) /\ \A N: SelOK(s, N) => SelOK(t, N)
  BY <1>2, ScreenUiLike
<1>4. u = IF ctx \in {"placed", "export"} THEN t ELSE Screen!EnsureSelection(t)
  BY <1>1 DEF Screen!Ended
<1>5. CASE ctx \in {"placed", "export"}
  BY <1>2, <1>3, <1>4, <1>5
<1>6. CASE ctx \notin {"placed", "export"}
  <2>1. u = Screen!EnsureSelection(t)
    BY <1>4, <1>6
  <2>2. ScreenUi(u, srv) /\ u.dragging = t.dragging /\ \A N: SelOK(u, N)
    BY <1>3, <2>1, ScreenEnsures
  <2> QED BY <1>2, <2>2
<1> QED BY <1>5, <1>6

\* The state and the calls from which a batch for ctx starts.
Ready(s, ctx, calls) ==
  /\ ScreenUi(s, srv) /\ ScreenNet(calls, srv) /\ DragOK(s, calls)
  /\ ctx \in Repairs \/ (ctx \in {"placed", "export"} /\ SelOK(s, calls))
  /\ ctx = "treeDragged" => s.dragging = 1 /\ \A m \in calls: m.ctx \notin {"drag", "treeDragged"}

\* A batch for the layouts that are missing, or the end of the load when none is.
LEMMA ScreenLoads ==
  ASSUME srv \in Rows, NEW s, NEW ctx, NEW calls, Ready(s, ctx, calls), Screen!LoadLayouts(s, ctx, calls)
  PROVE  ScreenInv(ui', net', srv) /\ \E D: net' = calls \cup D /\ Made(D)
<1>1. CASE Screen!Missing(s) = {}
  <2>1. PICK u: ui' = u /\ u = Screen!Ended(s, ctx) /\ net' = calls
    BY <1>1 DEF Screen!LoadLayouts
  <2>2. /\ ScreenUi(u, srv) /\ u.dragging = (IF ctx = "treeDragged" THEN 0 ELSE s.dragging)
        /\ \A N: SelOK(s, N) => SelOK(u, N)
        /\ ctx \notin {"placed", "export"} => \A N: SelOK(u, N)
    BY <2>1, ScreenEnded DEF Ready
  <2>3. SelOK(u, calls)
    BY <2>2 DEF Ready, Repairs
  <2>4. DragOK(u, calls)
    BY <2>2 DEF Ready, DragOK
  <2>5. net' = calls \cup {} /\ Made({})
    BY <2>1 DEF Made
  <2> QED BY <2>1, <2>2, <2>3, <2>4, <2>5 DEF ScreenInv, Ready
<1>2. CASE Screen!Missing(s) # {}
  <2>1. PICK b: b = Screen!Spare(calls)
    OBVIOUS
  <2> DEFINE New(r) == [Screen!ScreenCall("layout", ctx, r, 0) EXCEPT !.page = b]
             D == {New(r): r \in Screen!Missing(s)}
  <2>2. ui' = s /\ net' = calls \cup D
    BY <1>2, <2>1 DEF Screen!LoadLayouts
  <2>3. \A m \in calls: m.op # "layout" \/ m.page # b
    BY <2>1, SpareFree DEF Ready, ScreenNet
  <2>4. \A r \in Screen!Missing(s): IsRack(r, srv)
    BY ScreenRacks DEF Screen!Missing, Ready
  <2>5. ctx \in Repairs \cup {"placed", "export"}
    BY DEF Ready
  <2>6. \A r: Asks(New(r), "layout", r, 0, Blank, All) /\ New(r).ctx = ctx /\ New(r).page = b
    BY ScreenSame DEF Screen!ScreenCall, Call, Asks, CallFields
  <2> HIDE DEF New
  <2>7. ASSUME NEW r \in Screen!Missing(s) PROVE Sound(New(r)) /\ ScreenCallOK(New(r), srv)
    <3>1. Asks(New(r), "layout", r, 0, Blank, All) /\ New(r).ctx = ctx /\ IsRack(r, srv)
      BY <2>4, <2>6
    <3>2. r \in Ref
      BY <3>1, SetsTyped DEF IsRack
    <3>3. Sound(New(r))
      BY <3>1, <3>2, SetsTyped, BlankOK DEF Asks, Sound, CallOK, Op, Res, SeenAll
    <3>4. ScreenCallOK(New(r), srv)
      BY <2>5, <3>1 DEF Asks, ScreenCallOK, Repairs
    <3> QED BY <3>3, <3>4
  <2>8. IsFiniteSet(calls \cup D)
    <3>1. IsFiniteSet(Screen!Missing(s))
      <4>1. Screen!Missing(s) \subseteq Row /\ IsFiniteSet(Row)
        BY <2>4, WireAssumption DEF IsRack
      <4> QED BY <4>1, FS_Subset
    <3>2. IsFiniteSet(D)
      <4>1. PICK f: f = [r \in Screen!Missing(s) |-> New(r)]
        OBVIOUS
      <4>2. f \in Surjection(Screen!Missing(s), D)
        BY <4>1 DEF Surjection
      <4> QED BY <3>1, <4>2, FS_Surjection
    <3> QED BY <3>2, FS_Union DEF Ready, ScreenNet
  <2>9. \A d \in D: d.op = "layout" /\ d.ctx = ctx /\ d.page = b /\ Sound(d) /\ ScreenCallOK(d, srv)
    BY <2>6, <2>7 DEF Asks
  <2>10. D # {}
    BY <1>2
  <2> HIDE DEF D
  <2>11. ScreenNet(net', srv)
    <3>1. Batched(net')
      BY <2>2, <2>3, <2>9 DEF Batched, Ready, ScreenNet
    <3> QED BY <2>2, <2>8, <2>9, <3>1 DEF Ready, ScreenNet
  <2>12. SelOK(s, net')
    BY <2>2, <2>9, <2>10 DEF SelOK, Ready, Repairs
  <2>13. DragOK(s, net')
    BY <2>2, <2>5, <2>9 DEF DragOK, Ready, Repairs
  <2>14. Made(D)
    BY <2>9 DEF Made
  <2> QED BY <2>2, <2>11, <2>12, <2>13, <2>14 DEF ScreenInv, Ready
<1> QED BY <1>1, <1>2

-----------------------------------------------------------------------------
(* The screen's calls *)

\* A list is such a call.
LEMMA ListCalm ==
  ASSUME NEW c, NEW u \in Ups \cup {NoRow}, Asks(c, "list", NoRow, 0, Blank, u),
    c.ctx \in {"tree", "treeSaved", "assignable"}
  PROVE  Calm(c)
<1>1. Sound(c)
  BY ListAsked
<1> QED BY <1>1 DEF Calm, Asks, ScreenCallOK

\* Loading the tree.
LEMMA TreeCalled ==
  /\ \A ctx \in {"tree", "treeSaved"}: Calm(Screen!FetchTree(ctx))
  /\ Sound(Screen!FetchTree("treeDragged")) /\ Screen!FetchTree("treeDragged").ctx = "treeDragged"
  /\ Screen!FetchTree("treeDragged").op = "list" /\ Screen!FetchTree("treeDragged").rows = {}
<1>1. ASSUME NEW ctx, NEW c, c = Screen!FetchTree(ctx) PROVE Asks(c, "list", NoRow, 0, Blank, All) /\ c.ctx = ctx
  BY <1>1, ScreenSame DEF Screen!FetchTree, Screen!ScreenCall, Call, Asks, CallFields, Screen!NoRow, NoRow
<1>2. ASSUME NEW ctx \in {"tree", "treeSaved"} PROVE Calm(Screen!FetchTree(ctx))
  BY <1>1, ListCalm, SetsTyped
<1>3. PICK c: c = Screen!FetchTree("treeDragged")
  OBVIOUS
<1>4. Asks(c, "list", NoRow, 0, Blank, All) /\ c.ctx = "treeDragged"
  BY <1>1, <1>3
<1>5. Sound(c) /\ c.op = "list" /\ c.rows = {}
  BY <1>4, ListAsked, SetsTyped DEF Asks
<1> QED BY <1>2, <1>3, <1>4, <1>5

\* Asking for the devices off the racks.
LEMMA AssignableCalled ==
  /\ (CHOOSE g \in Group: TRUE) \in Group
  /\ Calm([Screen!ScreenCall("list", "assignable", NoRow, 0) EXCEPT !.up = CHOOSE g \in Group: TRUE])
<1>1. PICK u: u = CHOOSE g \in Group: TRUE
  OBVIOUS
<1>2. u \in Group
  BY <1>1, WireAssumption
<1>3. PICK c: c = [Screen!ScreenCall("list", "assignable", NoRow, 0) EXCEPT !.up = u]
  OBVIOUS
<1>4. Asks(c, "list", NoRow, 0, Blank, u) /\ c.ctx = "assignable"
  BY <1>3, ScreenSame DEF Screen!ScreenCall, Call, Asks, CallFields
<1>5. Calm(c)
  BY <1>2, <1>4, ListCalm, SetsTyped
<1> QED BY <1>1, <1>2, <1>3, <1>5

\* Mounting a device and moving it.
LEMMA PlaceCalled ==
  ASSUME srv \in Rows, NEW op \in {"mount", "shift"}, NEW r, IsDevice(r, srv), NEW u, IsRack(u, srv)
  PROVE  Calm([Screen!ScreenCall(op, "place", r, 0) EXCEPT !.up = u])
<1>1. PICK c: c = [Screen!ScreenCall(op, "place", r, 0) EXCEPT !.up = u]
  OBVIOUS
<1>2. Asks(c, op, r, 0, Blank, u) /\ c.ctx = "place"
  BY <1>1, ScreenSame DEF Screen!ScreenCall, Call, Asks, CallFields
<1>3. r \in Ref /\ u \in Row
  BY SetsTyped DEF IsDevice, IsRack
<1>4. Sound(c)
  BY <1>2, <1>3, SetsTyped, PlaceAsked
<1>5. Calm(c)
  BY <1>2, <1>4 DEF Calm, Asks, ScreenCallOK
<1> QED BY <1>1, <1>5

\* Taking it off.
LEMMA UnmountCalled ==
  ASSUME srv \in Rows, NEW r, IsDevice(r, srv)
  PROVE  Calm(Screen!Unmount(r))
<1>1. PICK u: u = CHOOSE g \in Group: TRUE
  OBVIOUS
<1>2. u \in Group
  BY <1>1, WireAssumption
<1>3. PICK c: c = Screen!Unmount(r)
  OBVIOUS
<1>4. Asks(c, "unmount", r, 0, Blank, u) /\ c.ctx = "off"
  BY <1>1, <1>3, ScreenSame DEF Screen!Unmount, Screen!ScreenCall, Call, Asks, CallFields
<1>5. r \in Ref
  BY SetsTyped DEF IsDevice
<1>6. Sound(c)
  BY <1>2, <1>4, <1>5, SetsTyped, BlankOK DEF Asks, Sound, CallOK, Op, Res, SeenAll
<1>7. Calm(c)
  BY <1>2, <1>4, <1>6 DEF Calm, Asks, ScreenCallOK
<1> QED BY <1>3, <1>7

\* Reading one device.
LEMMA DetailCalled ==
  ASSUME srv \in Rows, NEW ctx \in {"drawer", "device", "saved"}, NEW r, IsDevice(r, srv)
  PROVE  Calm(Screen!ScreenCall("get", ctx, r, 0))
<1>1. PICK c: c = Screen!ScreenCall("get", ctx, r, 0)
  OBVIOUS
<1>2. Asks(c, "get", r, 0, Blank, All) /\ c.ctx = ctx
  BY <1>1, ScreenSame DEF Screen!ScreenCall, Call, Asks, CallFields
<1>3. r \in Ref
  BY SetsTyped DEF IsDevice
<1>4. Sound(c)
  BY <1>2, <1>3, GetAsked
<1>5. Calm(c)
  BY <1>2, <1>4 DEF Calm, Asks, ScreenCallOK
<1> QED BY <1>1, <1>5

\* Saving it, with the version of the form, which may be of another device.
LEMMA SaveDeviceCalled ==
  ASSUME srv \in Rows, NEW r, IsDevice(r, srv), NEW f, FormOK(f, srv)
  PROVE  Calm([Screen!ScreenCall("put", "saveDevice", r, f.ver) EXCEPT !.form = f, !.mixed = f.row # r])
<1>1. PICK c: c = [Screen!ScreenCall("put", "saveDevice", r, f.ver) EXCEPT !.form = f, !.mixed = f.row # r]
  OBVIOUS
<1>2. Asks(c, "put", r, f.ver, f, All) /\ c.ctx = "saveDevice" /\ (~c.mixed => f.row = r)
  BY <1>1, ScreenSame DEF Screen!ScreenCall, Call, Asks, CallFields
<1>3. r \in Ref /\ f.ver \in Nat /\ f.ver =< f.ver
  BY SetsTyped DEF IsDevice, FormOK
<1>4. Sound(c)
  BY <1>2, <1>3, FormAsked
<1>5. Calm(c)
  BY <1>2, <1>4 DEF Calm, Asks, ScreenCallOK
<1> QED BY <1>1, <1>5

\* Creating or saving a rack, with the version of the dialog.
LEMMA SaveRackCalled ==
  ASSUME srv \in Rows, NEW s, ScreenUi(s, srv), s.dlg.mode = "rack"
  PROVE  Calm(IF s.dlg.row = NoRow THEN [Screen!ScreenCall("post", "saveRack", NoRow, 0) EXCEPT !.up = s.room]
              ELSE [Screen!ScreenCall("put", "saveRack", s.dlg.row, s.dlg.ver) EXCEPT !.form = Screen!Snapshot(s.dlg)])
<1>0. PICK f: f = Screen!Snapshot(s.dlg)
  OBVIOUS
<1>1. /\ s.room \in Ref /\ s.dlg.row \in Ref /\ s.dlg.ver \in Nat /\ f.row = s.dlg.row /\ f.ver = s.dlg.ver
      /\ s.dlg.row # NoRow => FormOK(f, srv)
  BY <1>0 DEF ScreenUi, ScreenDlgOK, DlgOK, Screen!Snapshot, FormOK
<1>2. CASE s.dlg.row = NoRow
  <2>1. PICK c: c = [Screen!ScreenCall("post", "saveRack", NoRow, 0) EXCEPT !.up = s.room]
    OBVIOUS
  <2>2. Asks(c, "post", NoRow, 0, Blank, s.room) /\ c.ctx = "saveRack"
    BY <2>1, ScreenSame DEF Screen!ScreenCall, Call, Asks, CallFields
  <2>3. Sound(c)
    BY <1>1, <2>2, PostAsked, SetsTyped, BlankOK
  <2>4. Calm(c)
    BY <2>2, <2>3 DEF Calm, Asks, ScreenCallOK
  <2> QED BY <1>2, <2>1, <2>4
<1>3. CASE s.dlg.row # NoRow
  <2>1. PICK c: c = [Screen!ScreenCall("put", "saveRack", s.dlg.row, s.dlg.ver) EXCEPT !.form = Screen!Snapshot(s.dlg)]
    OBVIOUS
  <2>2. Asks(c, "put", s.dlg.row, s.dlg.ver, f, All) /\ c.ctx = "saveRack"
    BY <1>0, <2>1, ScreenSame DEF Screen!ScreenCall, Call, Asks, CallFields
  <2>3. f.row = s.dlg.row /\ s.dlg.ver =< f.ver
    BY <1>1
  <2>4. Sound(c)
    BY <1>1, <1>3, <2>2, <2>3, FormAsked
  <2>5. Calm(c)
    BY <2>2, <2>4 DEF Calm, Asks, ScreenCallOK
  <2> QED BY <1>3, <2>1, <2>5
<1> QED BY <1>2, <1>3

\* Deleting a rack.
LEMMA RemoveRackCalled ==
  ASSUME srv \in Rows, NEW f, FormOK(f, srv)
  PROVE  Calm(Screen!ScreenCall("delete", "removeRack", f.row, f.ver))
<1>1. PICK c: c = Screen!ScreenCall("delete", "removeRack", f.row, f.ver)
  OBVIOUS
<1>2. Asks(c, "delete", f.row, f.ver, Blank, All) /\ c.ctx = "removeRack"
  BY <1>1, ScreenSame DEF Screen!ScreenCall, Call, Asks, CallFields
<1>3. f.row \in Ref /\ f.ver \in Nat
  BY DEF FormOK
<1>4. Sound(c)
  BY <1>2, <1>3, DeleteAsked
<1>5. Calm(c)
  BY <1>2, <1>4 DEF Calm, Asks, ScreenCallOK
<1> QED BY <1>1, <1>5

\* What an exchange of racks sends.
LEMMA DragCalled ==
  ASSUME srv \in Rows, NEW x, FormOK(Screen!Snapshot(x), srv)
  PROVE  /\ Sound(Screen!Drag(x)) /\ ScreenCallOK(Screen!Drag(x), srv)
         /\ Screen!Drag(x).op = "put" /\ Screen!Drag(x).ctx = "drag"
<1>1. PICK c: c = Screen!Drag(x)
  OBVIOUS
<1>2. Asks(c, "put", x.row, x.ver, Screen!Snapshot(x), All) /\ c.ctx = "drag"
  BY <1>1, ScreenSame DEF Screen!Drag, Screen!ScreenCall, Call, Asks, CallFields
<1>3. x.row = Screen!Snapshot(x).row /\ x.ver = Screen!Snapshot(x).ver
  BY DEF Screen!Snapshot
<1>4. x.row \in Ref /\ x.ver \in Nat /\ x.ver =< Screen!Snapshot(x).ver
  BY <1>3 DEF FormOK
<1>5. Sound(c)
  BY <1>2, <1>3, <1>4, FormAsked
<1>6. ScreenCallOK(c, srv) /\ c.op = "put"
  BY <1>2 DEF Asks, ScreenCallOK
<1> QED BY <1>1, <1>2, <1>5, <1>6

-----------------------------------------------------------------------------
(* The screen's steps: what a person does *)

\* Dialog and form may change together.
LEMMA ScreenDialog ==
  ASSUME srv \in Rows, ScreenInv(ui, net, srv), NEW t, DOMAIN t = DOMAIN ui,
         \A f \in DOMAIN ui \ {"loading", "ok", "fresh", "hidden", "saving", "exporting", "dlg", "form"}: t[f] = ui[f],
         FormOK(t.form, srv), ScreenDlgOK(t.dlg, srv)
  PROVE  Steady(t)
<1>1. /\ t.page = ui.page /\ t.rows = ui.rows /\ t.room = ui.room /\ t.devs = ui.devs /\ t.sel = ui.sel
      /\ t.cand = ui.cand /\ t.dragging = ui.dragging
  BY DEF ScreenInv, ScreenUi
<1>2. ScreenUi(t, srv)
  BY <1>1 DEF ScreenInv, ScreenUi, ScreenRows
<1> QED BY <1>1, <1>2 DEF Steady, ScreenInv, SelOK

\* Flags and history may change.
LEMMA ScreenSteady ==
  ASSUME srv \in Rows, ScreenInv(ui, net, srv), NEW t, DOMAIN t = DOMAIN ui,
         \A f \in DOMAIN ui \ {"loading", "ok", "fresh", "hidden", "saving", "exporting"}: t[f] = ui[f]
  PROVE  Steady(t)
<1>1. t.dlg = ui.dlg /\ t.form = ui.form
  BY DEF ScreenInv, ScreenUi
<1>2. FormOK(t.form, srv) /\ ScreenDlgOK(t.dlg, srv)
  BY <1>1 DEF ScreenInv, ScreenUi
<1> QED BY <1>2, ScreenDialog

\* It is a dialog with these fields.
Dialog(d, mode, r, v, t) == DOMAIN d = {"mode", "row", "ver", "target"} /\ d.mode = mode /\ d.row = r /\ d.ver = v
  /\ d.target = t

\* The dialogs that the page opens.
LEMMA DialogsOK ==
  ASSUME srv \in Rows, NEW f
  PROVE  /\ ScreenDlgOK(Screen!Closed, srv)
         /\ ScreenDlgOK([Screen!Closed EXCEPT !.mode = "rack"], srv)
         /\ \A r: IsDevice(r, srv) =>
              /\ ScreenDlgOK([Screen!Closed EXCEPT !.mode = "move", !.row = r], srv)
              /\ ScreenDlgOK([Screen!Closed EXCEPT !.mode = "device", !.row = r], srv)
              /\ ScreenDlgOK([Screen!Closed EXCEPT !.mode = "drawer", !.row = r], srv)
         /\ \A r: IsRack(r, srv) => ScreenDlgOK([Screen!Closed EXCEPT !.mode = "assign", !.target = r], srv)
         /\ FormOK(f, srv) /\ IsRack(f.row, srv) => ScreenDlgOK([Screen!Closed EXCEPT !.mode = "rack", !.row = f.row,
              !.ver = f.ver], srv)
<1>0. Screen!NoRow = NoRow
  BY DEF Screen!NoRow, NoRow
<1>1. Screen!Closed = [mode |-> "closed", row |-> NoRow, ver |-> 0, target |-> NoRow]
  BY <1>0 DEF Screen!Closed
<1>2. \A r \in Row: srv[r].ver \in Nat /\ 0 =< srv[r].ver
  BY WireAssumption DEF Rows
<1>3. ASSUME NEW d, NEW mode, NEW r \in Ref, NEW v \in Nat, r \in Row => v =< srv[r].ver, NEW t \in Ref,
        Dialog(d, mode, r, v, t),
             mode \in {"move", "drawer", "device"} => IsDevice(r, srv), mode = "assign" => IsRack(t, srv),
             mode = "rack" /\ r # NoRow => IsRack(r, srv), mode = "drawer" => t = NoRow
      PROVE  ScreenDlgOK(d, srv)
  BY <1>3 DEF Dialog, ScreenDlgOK, DlgOK
<1>4. ScreenDlgOK(Screen!Closed, srv)
  <2>1. Dialog(Screen!Closed, "closed", NoRow, 0, NoRow)
    BY <1>1 DEF Dialog
  <2> QED BY <1>3, <2>1, SetsTyped
<1>5. ScreenDlgOK([Screen!Closed EXCEPT !.mode = "rack"], srv)
  <2>1. PICK d: d = [Screen!Closed EXCEPT !.mode = "rack"]
    OBVIOUS
  <2>2. Dialog(d, "rack", NoRow, 0, NoRow)
    BY <1>1, <2>1 DEF Dialog
  <2> QED BY <1>3, <2>1, <2>2, SetsTyped
<1>6. ASSUME NEW r, IsDevice(r, srv), NEW mode \in {"move", "device", "drawer"}
      PROVE  ScreenDlgOK([Screen!Closed EXCEPT !.mode = mode, !.row = r], srv)
  <2>1. PICK d: d = [Screen!Closed EXCEPT !.mode = mode, !.row = r]
    OBVIOUS
  <2>2. Dialog(d, mode, r, 0, NoRow)
    BY <1>1, <2>1 DEF Dialog
  <2>3. r \in Row /\ r \in Ref /\ 0 =< srv[r].ver
    BY <1>2, <1>6, SetsTyped DEF IsDevice
  <2>4. ScreenDlgOK(d, srv)
    BY <1>3, <1>6, <2>2, <2>3, SetsTyped
  <2> QED BY <2>1, <2>4
<1>7. ASSUME NEW r, IsRack(r, srv) PROVE ScreenDlgOK([Screen!Closed EXCEPT !.mode = "assign", !.target = r], srv)
  <2>1. PICK d: d = [Screen!Closed EXCEPT !.mode = "assign", !.target = r]
    OBVIOUS
  <2>2. Dialog(d, "assign", NoRow, 0, r)
    BY <1>1, <2>1 DEF Dialog
  <2>3. r \in Ref
    BY <1>7, SetsTyped DEF IsRack
  <2>4. ScreenDlgOK(d, srv)
    BY <1>3, <1>7, <2>2, <2>3, SetsTyped
  <2> QED BY <2>1, <2>4
<1>8. ASSUME FormOK(f, srv), IsRack(f.row, srv)
      PROVE  ScreenDlgOK([Screen!Closed EXCEPT !.mode = "rack", !.row = f.row, !.ver = f.ver], srv)
  <2>1. PICK d: d = [Screen!Closed EXCEPT !.mode = "rack", !.row = f.row, !.ver = f.ver]
    OBVIOUS
  <2>2. Dialog(d, "rack", f.row, f.ver, NoRow)
    BY <1>1, <2>1 DEF Dialog
  <2>3. f.row \in Ref /\ f.ver \in Nat /\ (f.row \in Row => f.ver =< srv[f.row].ver)
    BY <1>8 DEF FormOK
  <2>4. ScreenDlgOK(d, srv)
    BY <1>3, <1>8, <2>2, <2>3, SetsTyped
  <2> QED BY <2>1, <2>4
<1> QED BY <1>4, <1>5, <1>6, <1>7, <1>8

\* What is drawn in a rack are devices.
LEMMA DrawnDevices ==
  ASSUME ScreenInv(ui, net, srv), NEW x, NEW d \in Screen!DevicesOf(x)
  PROVE  IsDevice(d.row, srv)
BY DEF Screen!DevicesOf, Screen!Mounted, ScreenInv, ScreenUi, ScreenRows

\* A step of a person: on the state s it makes the call c, or only changes the state to s.
LEMMA ScreenActs ==
  ASSUME srv \in Rows, Calls(net, srv), ScreenInv(ui, net, srv), NEW s, Steady(s)
  PROVE  /\ \A c: Calm(c) /\ Screen!Write(s, c) => ScreenKept
         /\ \A c: Calm(c) /\ Screen!Load(s, c) => ScreenKept
         /\ Screen!Set(s) => ScreenKept
<1>0. PICK m: m = Call
  OBVIOUS
<1>1. m.op # "layout"
  BY <1>0 DEF Call
<1>2. ASSUME NEW c, Calm(c), Screen!Write(s, c) PROVE ScreenKept
  <2>1. Sound(c)
    BY <1>2 DEF Calm
  <2>2. Writes(s, c)
    BY <1>2, <2>1, ScreenForms
  <2> QED BY <1>1, <1>2, <2>2, ScreenKeep
<1>3. ASSUME NEW c, Calm(c), Screen!Load(s, c) PROVE ScreenKept
  <2>1. Sound(c)
    BY <1>3 DEF Calm
  <2>2. Loads(s, c)
    BY <1>3, <2>1, ScreenForms
  <2> QED BY <1>1, <1>3, <2>2, ScreenKeep
<1>4. ASSUME Screen!Set(s) PROVE ScreenKept
  <2>1. Sets(s)
    BY <1>4, Takes DEF Screen!Set, Sets
  <2> QED BY <1>1, <2>1, ScreenKeep
<1> QED BY <1>2, <1>3, <1>4

\* Everything a person does but changing the room, exporting and exchanging racks.
LEMMA ScreenActions ==
  ASSUME srv \in Rows, Calls(net, srv), ScreenInv(ui, net, srv)
  PROVE  /\ Screen!LoadTree => ScreenKept
         /\ Screen!ApplySearch => ScreenKept
         /\ Screen!SelectRack => ScreenKept
         /\ Screen!SetStatus => ScreenKept
         /\ Screen!AssignAt => ScreenKept
         /\ Screen!ConfirmAssign => ScreenKept
         /\ Screen!OpenMove => ScreenKept
         /\ Screen!ConfirmMove => ScreenKept
         /\ Screen!OfflineDevice => ScreenKept
         /\ Screen!DrawerOffline => ScreenKept
         /\ Screen!OpenDeviceDetail => ScreenKept
         /\ Screen!SaveDevice => ScreenKept
         /\ Screen!OpenCreateRack => ScreenKept
         /\ Screen!OpenEditRack => ScreenKept
         /\ Screen!SaveRack => ScreenKept
         /\ Screen!RemoveRack => ScreenKept
         /\ Screen!Cancel => ScreenKept
<1>0. /\ DOMAIN ui = {"page", "rows", "room", "devs", "sel", "hidden", "dlg", "form", "cand", "saving", "dragging",
           "exporting",
                      "loading", "ok", "fresh"}
      /\ ScreenUi(ui, srv) /\ FormOK(ui.form, srv) /\ FormOK(ui.sel, srv) /\ ScreenDlgOK(ui.dlg, srv)
      /\ Steady(ui)
  BY DEF ScreenInv, ScreenUi, Steady
<1>1. ASSUME Screen!LoadTree PROVE ScreenKept
  <2>1. PICK c: c = Screen!FetchTree("tree")
    OBVIOUS
  <2>2. Calm(c)
    BY <2>1, TreeCalled
  <2>3. Screen!Load(ui, c)
    BY <1>1, <2>1 DEF Screen!LoadTree
  <2> QED BY <1>0, <2>2, <2>3, ScreenActs
<1>2. ASSUME NEW x \in Screen!Filtered(ui), Screen!Set([ui EXCEPT !.sel = Screen!Snapshot(x)]) PROVE ScreenKept
  <2>1. PICK s: s = [ui EXCEPT !.sel = Screen!Snapshot(x)]
    OBVIOUS
  <2>2. DOMAIN s = DOMAIN ui /\ s.sel = Screen!Snapshot(x) /\ s.dragging = ui.dragging
          /\ \A f \in DOMAIN ui \ {"sel", "hidden"}: s[f] = ui[f]
    BY <1>0, <2>1
  <2>3. x \in Screen!Racks(ui)
    BY <1>0, ScreenRacks
  <2>4. ScreenUi(s, srv) /\ \A N: SelOK(s, N)
    BY <1>0, <2>2, <2>3, ScreenSelects
  <2>5. Steady(s)
    BY <2>2, <2>4 DEF Steady
  <2> QED BY <1>2, <2>1, <2>5, ScreenActs
<1>3. ASSUME Screen!ApplySearch PROVE ScreenKept
  BY <1>2, <1>3 DEF Screen!ApplySearch
<1>4. ASSUME Screen!SelectRack PROVE ScreenKept
  BY <1>2, <1>4 DEF Screen!SelectRack
<1>5. ASSUME Screen!SetStatus PROVE ScreenKept
  <2>1. PICK S, s: Screen!Filter(S) /\ s = [ui EXCEPT !.hidden = S]
    BY <1>5 DEF Screen!SetStatus
  <2>2. DOMAIN s = DOMAIN ui /\ s.dragging = ui.dragging
        /\ \A f \in DOMAIN ui \ {"loading", "ok", "fresh", "hidden", "saving", "exporting"}: s[f] = ui[f]
    BY <1>0, <2>1
  <2>3. Steady(s)
    BY <2>2, ScreenSteady
  <2>4. PICK u: u = Screen!EnsureSelection(s)
    OBVIOUS
  <2>5. ScreenUi(u, srv) /\ u.dragging = s.dragging /\ \A N: SelOK(u, N)
    BY <2>3, <2>4, ScreenEnsures DEF Steady
  <2>6. Steady(u)
    BY <2>2, <2>5 DEF Steady
  <2>7. Screen!Set(u) \/ Screen!Set(s)
    BY <2>1, <2>4 DEF Screen!Filter, Screen!Set
  <2> QED BY <2>3, <2>6, <2>7, ScreenActs
<1>6. ASSUME Screen!AssignAt PROVE ScreenKept
  <2>1. PICK c: c = [Screen!ScreenCall("list", "assignable", Screen!NoRow, 0) EXCEPT !.up = CHOOSE g \in Group: TRUE]
    OBVIOUS
  <2>2. Calm(c)
    BY <2>1, AssignableCalled DEF Screen!NoRow, NoRow
  <2>3. PICK x, d, s: /\ x \in Screen!Filtered(ui) /\ d = [Screen!Closed EXCEPT !.mode = "assign", !.target = x.row]
                      /\ s = [ui EXCEPT !.dlg = d] /\ Screen!Write(s, c)
    BY <1>6, <2>1 DEF Screen!AssignAt
  <2>4. IsRack(x.row, srv)
    BY <1>0, <2>3, ScreenRacks
  <2>5. ScreenDlgOK(d, srv)
    BY <2>3, <2>4, DialogsOK
  <2>6. DOMAIN s = DOMAIN ui /\ s.dlg = d /\ s.form = ui.form /\ \A f \in DOMAIN ui \ {"dlg"}: s[f] = ui[f]
    BY <1>0, <2>3
  <2>7. Steady(s)
    BY <1>0, <2>5, <2>6, ScreenDialog
  <2> QED BY <2>2, <2>3, <2>7, ScreenActs
<1>7. ASSUME Screen!ConfirmAssign PROVE ScreenKept
  <2>1. PICK x, c: /\ x \in ui.cand /\ c = [Screen!ScreenCall("mount", "place", x.row, 0) EXCEPT !.up = ui.dlg.target]
                   /\ ui.dlg.mode = "assign" /\ Screen!Write(ui, c)
    BY <1>7 DEF Screen!ConfirmAssign, Screen!InDialog
  <2>2. IsDevice(x.row, srv) /\ IsRack(ui.dlg.target, srv)
    BY <1>0, <2>1 DEF ScreenUi, ScreenRows, ScreenDlgOK
  <2>3. Calm(c)
    BY <2>1, <2>2, PlaceCalled
  <2> QED BY <1>0, <2>1, <2>3, ScreenActs
<1>8. ASSUME Screen!OpenMove PROVE ScreenKept
  <2>1. PICK x, d, e, s: /\ d \in Screen!DevicesOf(x) /\ e = [Screen!Closed EXCEPT !.mode = "move", !.row = d.row]
                         /\ s = [ui EXCEPT !.dlg = e] /\ Screen!Set(s)
    BY <1>8 DEF Screen!OpenMove, Screen!OpenDevice
  <2>2. IsDevice(d.row, srv)
    BY <2>1, DrawnDevices
  <2>3. ScreenDlgOK(e, srv)
    BY <2>1, <2>2, DialogsOK
  <2>4. DOMAIN s = DOMAIN ui /\ s.dlg = e /\ s.form = ui.form /\ \A f \in DOMAIN ui \ {"dlg"}: s[f] = ui[f]
    BY <1>0, <2>1
  <2>5. Steady(s)
    BY <1>0, <2>3, <2>4, ScreenDialog
  <2> QED BY <2>1, <2>5, ScreenActs
<1>9. ASSUME Screen!ConfirmMove PROVE ScreenKept
  <2>1. PICK x, c: /\ x \in Screen!Racks(ui) /\ c = [Screen!ScreenCall("shift", "place", ui.dlg.row, 0)
                        EXCEPT !.up = x.row]
                   /\ ui.dlg.mode = "move" /\ Screen!Write(ui, c)
    BY <1>9 DEF Screen!ConfirmMove, Screen!InDialog
  <2>2. IsRack(x.row, srv) /\ IsDevice(ui.dlg.row, srv)
    BY <1>0, <2>1, ScreenRacks DEF ScreenDlgOK
  <2>3. Calm(c)
    BY <2>1, <2>2, PlaceCalled
  <2> QED BY <1>0, <2>1, <2>3, ScreenActs
<1>10. ASSUME Screen!OfflineDevice PROVE ScreenKept
  <2>1. PICK x, d, c: d \in Screen!DevicesOf(x) /\ c = Screen!Unmount(d.row) /\ Screen!Write(ui, c)
    BY <1>10 DEF Screen!OfflineDevice
  <2>2. IsDevice(d.row, srv)
    BY <2>1, DrawnDevices
  <2>3. Calm(c)
    BY <2>1, <2>2, UnmountCalled
  <2> QED BY <1>0, <2>1, <2>3, ScreenActs
<1>11. ASSUME Screen!DrawerOffline PROVE ScreenKept
  <2>1. PICK c: c = Screen!Unmount(ui.dlg.target) /\ Screen!Write(ui, c) /\ ui.dlg.mode = "drawer" /\ ui.dlg.target # NoRow
    BY <1>11 DEF Screen!DrawerOffline, Screen!InDialog, Screen!NoRow, NoRow
  <2>2. IsDevice(ui.dlg.target, srv)
    BY <1>0, <2>1 DEF ScreenDlgOK
  <2>3. Calm(c)
    BY <2>1, <2>2, UnmountCalled
  <2> QED BY <1>0, <2>1, <2>3, ScreenActs
<1>12. ASSUME Screen!OpenDeviceDetail PROVE ScreenKept
  <2>1. PICK x, d, mode, e, s, c:
          /\ d \in Screen!DevicesOf(x) /\ mode \in {"drawer", "device"}
               /\ e = [Screen!Closed EXCEPT !.mode = mode, !.row = d.row]
          /\ s = Screen!OpenDevice(mode, d)
          /\ c = Screen!ScreenCall("get", mode, d.row, 0) /\ Screen!Write(s, c)
    BY <1>12 DEF Screen!OpenDeviceDetail
  <2>2. IsDevice(d.row, srv)
    BY <2>1, DrawnDevices
  <2>3. Calm(c)
    BY <2>1, <2>2, DetailCalled
  <2>4. DOMAIN s = DOMAIN ui /\ s.dlg = e /\ s.form = ui.form /\ \A f \in DOMAIN ui \ {"dlg"}: s[f] = ui[f]
    BY <1>0, <2>1 DEF Screen!OpenDevice
  <2>5. ScreenDlgOK(e, srv)
    BY <2>1, <2>2, DialogsOK
  <2>6. Steady(s)
    BY <1>0, <2>4, <2>5, ScreenDialog
  <2> QED BY <2>1, <2>3, <2>6, ScreenActs
<1>13. ASSUME Screen!SaveDevice PROVE ScreenKept
  <2>1. PICK s, c: /\ s = [ui EXCEPT !.saving = TRUE] /\ ui.dlg.mode = "device"
                   /\ c = [Screen!ScreenCall("put", "saveDevice", ui.dlg.row, ui.form.ver)
                             EXCEPT !.form = ui.form, !.mixed = ui.form.row # ui.dlg.row]
                   /\ Screen!Write(s, c)
    BY <1>13 DEF Screen!SaveDevice, Screen!InDialog
  <2>2. IsDevice(ui.dlg.row, srv)
    BY <1>0, <2>1 DEF ScreenDlgOK
  <2>3. Calm(c)
    BY <1>0, <2>1, <2>2, SaveDeviceCalled
  <2>4. DOMAIN s = DOMAIN ui /\ \A f \in DOMAIN ui \ {"saving"}: s[f] = ui[f]
    BY <1>0, <2>1
  <2>5. Steady(s)
    BY <2>4, ScreenSteady
  <2> QED BY <2>1, <2>3, <2>5, ScreenActs
<1>14. ASSUME Screen!OpenCreateRack PROVE ScreenKept
  <2>1. PICK d, s: d = [Screen!Closed EXCEPT !.mode = "rack"] /\ s = [ui EXCEPT !.dlg = d]
          /\ Screen!Set(s)
    BY <1>14 DEF Screen!OpenCreateRack
  <2>2. DOMAIN s = DOMAIN ui /\ s.dlg = d /\ s.form = ui.form /\ \A f \in DOMAIN ui \ {"dlg"}: s[f] = ui[f]
    BY <1>0, <2>1
  <2>3. FormOK(s.form, srv) /\ ScreenDlgOK(s.dlg, srv)
    BY <1>0, <2>1, <2>2, DialogsOK
  <2>4. Steady(s)
    BY <2>2, <2>3, ScreenDialog
  <2> QED BY <2>1, <2>4, ScreenActs
<1>15. ASSUME Screen!OpenEditRack PROVE ScreenKept
  <2>1. PICK d, s: /\ d = [Screen!Closed EXCEPT !.mode = "rack", !.row = ui.sel.row, !.ver = ui.sel.ver]
                   /\ s = [ui EXCEPT !.dlg = d] /\ Screen!Set(s) /\ ui.sel # Blank
    BY <1>15, ScreenSame DEF Screen!OpenEditRack
  <2>2. DOMAIN s = DOMAIN ui /\ s.dlg = d /\ s.form = ui.form /\ \A f \in DOMAIN ui \ {"dlg"}: s[f] = ui[f]
    BY <1>0, <2>1
  <2>3. IsRack(ui.sel.row, srv)
    BY <1>0, <2>1 DEF FormOK, ScreenUi
  <2>4. FormOK(s.form, srv) /\ ScreenDlgOK(s.dlg, srv)
    BY <1>0, <2>1, <2>2, <2>3, DialogsOK
  <2>5. Steady(s)
    BY <2>2, <2>4, ScreenDialog
  <2> QED BY <2>1, <2>5, ScreenActs
<1>16. ASSUME Screen!SaveRack PROVE ScreenKept
  <2>1. PICK s, c: /\ s = [ui EXCEPT !.saving = TRUE] /\ ui.dlg.mode = "rack" /\ Screen!Write(s, c)
                   /\ c = IF ui.dlg.row = Screen!NoRow THEN [Screen!ScreenCall("post", "saveRack", Screen!NoRow, 0)
                        EXCEPT !.up = ui.room]
                          ELSE [Screen!ScreenCall("put", "saveRack", ui.dlg.row, ui.dlg.ver)
                                 EXCEPT !.form = Screen!Snapshot(ui.dlg)]
    BY <1>16 DEF Screen!SaveRack, Screen!InDialog
  <2>2. Calm(c)
    BY <1>0, <2>1, SaveRackCalled DEF Screen!NoRow, NoRow
  <2>3. DOMAIN s = DOMAIN ui /\ \A f \in DOMAIN ui \ {"saving"}: s[f] = ui[f]
    BY <1>0, <2>1
  <2>4. Steady(s)
    BY <2>3, ScreenSteady
  <2> QED BY <2>1, <2>2, <2>4, ScreenActs
<1>17. ASSUME Screen!RemoveRack PROVE ScreenKept
  <2>1. PICK c: c = Screen!ScreenCall("delete", "removeRack", ui.sel.row, ui.sel.ver) /\ Screen!Write(ui, c)
    BY <1>17 DEF Screen!RemoveRack
  <2>2. Calm(c)
    BY <1>0, <2>1, RemoveRackCalled
  <2> QED BY <1>0, <2>1, <2>2, ScreenActs
<1>18. ASSUME Screen!Cancel PROVE ScreenKept
  <2>1. PICK s: s = [ui EXCEPT !.dlg = Screen!Closed] /\ Screen!Set(s)
    BY <1>18 DEF Screen!Cancel
  <2>2. DOMAIN s = DOMAIN ui /\ s.dlg = Screen!Closed /\ s.form = ui.form /\ \A f \in DOMAIN ui \ {"dlg"}: s[f] = ui[f]
    BY <1>0, <2>1
  <2>3. ScreenDlgOK(s.dlg, srv) /\ FormOK(s.form, srv)
    BY <1>0, <2>2, DialogsOK
  <2>4. Steady(s)
    BY <2>2, <2>3, ScreenDialog
  <2> QED BY <2>1, <2>4, ScreenActs
<1> QED BY <1>1, <1>3, <1>4, <1>5, <1>6, <1>7, <1>8, <1>9, <1>10, <1>11, <1>12, <1>13, <1>14, <1>15, <1>16, <1>17, <1>18

-----------------------------------------------------------------------------
(* The screen's steps: layouts are asked for                                  *)

\* A step that takes calls off and then loads layouts.
LEMMA ScreenLoaded ==
  ASSUME srv \in Rows, Calls(net, srv), NEW R, NEW s, NEW ctx, Ready(s, ctx, net \ R),
    Screen!LoadLayouts(s, ctx, net \ R), UNCHANGED srv
  PROVE  ScreenKept
<1>1. PICK N: N = net \ R
  OBVIOUS
<1>2. ScreenInv(ui', net', srv) /\ \E D: net' = N \cup D /\ Made(D)
  BY <1>1, ScreenLoads
<1>3. PICK D: Handled(R, D)
  BY <1>1, <1>2 DEF Handled
<1>4. CallsOK
  BY <1>3, HandledOK
<1>5. PICK T: T = srv' /\ T = srv
  OBVIOUS
<1> QED BY <1>2, <1>4 DEF ScreenKept

\* Another room, whose selection is repaired when its layouts are there.
LEMMA RoomChanges ==
  ASSUME srv \in Rows, Calls(net, srv), ScreenInv(ui, net, srv), Screen!OnRoomChange
  PROVE  ScreenKept
<1>1. PICK x, s: x \in ui.rows /\ s = [ui EXCEPT !.room = x.row, !.sel = Blank] /\ Screen!LoadLayouts(s, "room", net)
        /\ UNCHANGED srv
  BY ScreenSame DEF Screen!OnRoomChange, Screen!Rooms
<1>2. /\ DOMAIN s = DOMAIN ui /\ s.page = ui.page /\ s.rows = ui.rows /\ s.room = x.row /\ s.devs = ui.devs
           /\ s.sel = Blank /\ s.dlg = ui.dlg
      /\ s.form = ui.form /\ s.cand = ui.cand /\ s.dragging = ui.dragging
  BY <1>1 DEF ScreenInv, ScreenUi
<1>3. x.row \in Ref
  BY <1>1, SetsTyped DEF ScreenInv, ScreenUi, ScreenRows, SeenAll, SeenOK
<1>4. ScreenUi(s, srv)
  BY <1>2, <1>3, BlankOK DEF ScreenInv, ScreenUi, ScreenRows, Blank
<1>5. Ready(s, "room", net)
  BY <1>2, <1>4 DEF Ready, ScreenInv, DragOK, Repairs
<1>6. net \ {} = net
  OBVIOUS
<1> QED BY <1>1, <1>5, <1>6, ScreenLoaded

\* The export first asks for the layouts that are missing.
LEMMA Exports ==
  ASSUME srv \in Rows, Calls(net, srv), ScreenInv(ui, net, srv), Screen!DoExport
  PROVE  ScreenKept
<1>1. PICK s: s = [ui EXCEPT !.exporting = TRUE] /\ Screen!LoadLayouts(s, "export", net) /\ UNCHANGED srv
  BY DEF Screen!DoExport
<1>2. /\ DOMAIN s = DOMAIN ui /\ s.dragging = ui.dragging
      /\ \A f \in DOMAIN ui \ {"loading", "ok", "fresh", "hidden", "saving", "exporting"}: s[f] = ui[f]
  BY <1>1 DEF ScreenInv, ScreenUi
<1>3. Steady(s)
  BY <1>2, ScreenSteady
<1>4. Ready(s, "export", net)
  BY <1>2, <1>3 DEF Steady, Ready, ScreenInv, DragOK
<1>5. net \ {} = net
  OBVIOUS
<1> QED BY <1>1, <1>4, <1>5, ScreenLoaded

\* Two updates leave at once.
LEMMA Swaps ==
  ASSUME srv \in Rows, Calls(net, srv), ScreenInv(ui, net, srv), Screen!SwapRacks
  PROVE  ScreenKept
<1>1. PICK a, b, c, d: /\ a \in Screen!Racks(ui) /\ b \in Screen!Racks(ui) /\ c = Screen!Drag(a)
                            /\ d = Screen!Drag(b) /\ ui.dragging = 0
                       /\ ui' = [ui EXCEPT !.dragging = 2] /\ net' = net \cup {c, d} /\ UNCHANGED srv
  BY ScreenRacks DEF Screen!SwapRacks, ScreenInv
<1>2. PICK u: u = ui' /\ u = [ui EXCEPT !.dragging = 2]
  BY <1>1
<1>3. /\ DOMAIN u = DOMAIN ui /\ u.dragging = 2
      /\ \A f \in DOMAIN ui \ {"loading", "ok", "fresh", "hidden", "saving", "exporting", "dragging"}: u[f] = ui[f]
  BY <1>2 DEF ScreenInv, ScreenUi
<1>4. ScreenUi(u, srv) /\ SelOK(u, net)
  BY <1>3, ScreenUiLike DEF ScreenInv
<1>5. /\ Sound(c) /\ ScreenCallOK(c, srv) /\ c.op = "put" /\ c.ctx = "drag"
      /\ Sound(d) /\ ScreenCallOK(d, srv) /\ d.op = "put" /\ d.ctx = "drag"
  BY <1>1, ScreenRacks, DragCalled DEF ScreenInv
<1>6. Handled({}, {c, d})
  BY <1>1, <1>5 DEF Handled, Made
<1>7. ScreenNet(net', srv)
  <2>1. IsFiniteSet(net')
    <3>1. IsFiniteSet({c}) /\ IsFiniteSet({d}) /\ IsFiniteSet(net)
      BY FS_Singleton DEF ScreenInv, ScreenNet
    <3>2. IsFiniteSet({c} \cup {d})
      BY <3>1, FS_Union
    <3>3. net' = net \cup ({c} \cup {d})
      BY <1>1
    <3> QED BY <3>1, <3>2, <3>3, FS_Union
  <2>2. Batched(net')
    BY <1>1, <1>5 DEF ScreenInv, ScreenNet, Batched
  <2>3. \A m \in net': ScreenCallOK(m, srv)
    BY <1>1, <1>5 DEF ScreenInv, ScreenNet
  <2> QED BY <2>1, <2>2, <2>3 DEF ScreenNet
<1>8. SelOK(u, net')
  BY <1>1, <1>4 DEF SelOK
<1>9. DragOK(u, net')
  <2>1. (\A m \in net: m.ctx # "drag") /\ (\A m \in net: m.ctx # "treeDragged")
    BY <1>1 DEF ScreenInv, DragOK
  <2>2. \A m \in net': m.ctx = "drag" => m = c \/ m = d
    BY <1>1, <2>1
  <2>3. \A m \in net': m.ctx # "treeDragged"
    BY <1>1, <1>5, <2>1
  <2> QED BY <1>3, <2>2, <2>3 DEF DragOK
<1>10. CallsOK
  BY <1>6, HandledOK
<1> QED BY <1>1, <1>2, <1>4, <1>7, <1>8, <1>9, <1>10 DEF ScreenInv, ScreenKept

-----------------------------------------------------------------------------
(* The screen's steps: an answer lands                                        *)

\* The last answer of a batch ends it: all its calls are taken off together.
LEMMA LayoutsLand ==
  ASSUME srv \in Rows, Calls(net, srv), ScreenInv(ui, net, srv), NEW b, Screen!LandLayouts(b)
  PROVE  ScreenKept
<1>1. PICK B, G, m0, ctx, s, u:
        /\ B = {m \in net: m.op = "layout" /\ m.page = b} /\ G = {m \in B: m.res = "ok"}
        /\ m0 \in B /\ ctx = m0.ctx
        /\ s = [ui EXCEPT !.devs = {d \in @: \A m \in G: d.rack # m.row} \cup {[rack |-> m.row,
             rows |-> m.rows]: m \in G},
                          !.fresh = @ /\ G = B]
        /\ u = Screen!Ended(s, ctx) /\ ui' = u /\ net' = net \ B /\ UNCHANGED srv
  BY DEF Screen!LandLayouts, Screen!Batch
<1>2. /\ DOMAIN s = DOMAIN ui /\ s.page = ui.page /\ s.rows = ui.rows /\ s.room = ui.room /\ s.sel = ui.sel
           /\ s.dlg = ui.dlg
      /\ s.form = ui.form /\ s.cand = ui.cand /\ s.dragging = ui.dragging
      /\ \A e \in s.devs: e \in ui.devs \/ \E m \in G: e = [rack |-> m.row, rows |-> m.rows]
  BY <1>1 DEF ScreenInv, ScreenUi
<1>3. \A e \in s.devs: DOMAIN e = {"rack", "rows"} /\ SeenAll(e.rows, srv) /\ \A x \in e.rows: IsDevice(x.row, srv)
  <2>1. ASSUME NEW m \in G, NEW e, e = [rack |-> m.row, rows |-> m.rows]
        PROVE  DOMAIN e = {"rack", "rows"} /\ SeenAll(e.rows, srv) /\ \A x \in e.rows: IsDevice(x.row, srv)
    <3>1. m \in net /\ m.op = "layout" /\ CallOK(m, srv) /\ ScreenCallOK(m, srv)
      BY <1>1 DEF Calls, ScreenInv, ScreenNet
    <3> QED BY <2>1, <3>1 DEF CallOK, ScreenCallOK
  <2> QED BY <1>2, <2>1 DEF ScreenInv, ScreenUi, ScreenRows
<1>4. ScreenUi(s, srv)
  BY <1>2, <1>3 DEF ScreenInv, ScreenUi, ScreenRows
<1>5. \A m \in B: m.ctx = ctx
  BY <1>1 DEF ScreenInv, ScreenNet, Batched
<1>6. /\ ScreenUi(u, srv) /\ u.dragging = (IF ctx = "treeDragged" THEN 0 ELSE s.dragging)
      /\ \A N: SelOK(s, N) => SelOK(u, N)
      /\ ctx \notin {"placed", "export"} => \A N: SelOK(u, N)
  <2>1. u = Screen!Ended(s, ctx)
    BY <1>1
  <2> QED BY <1>4, <2>1, ScreenEnded
<1>7. SelOK(u, net')
  <2>1. CASE ctx \notin {"placed", "export"}
    BY <1>6, <2>1
  <2>2. CASE ctx \in {"placed", "export"}
    <3>1. SelOK(s, net')
      BY <1>1, <1>2, <1>5, <2>2 DEF SelOK, ScreenInv, Repairs
    <3> QED BY <1>6, <3>1
  <2> QED BY <2>1, <2>2
<1>8. ScreenNet(net', srv)
  <2>1. IsFiniteSet(net')
    BY <1>1, FS_Difference DEF ScreenInv, ScreenNet
  <2> QED BY <1>1, <2>1 DEF ScreenInv, ScreenNet, Batched
<1>9. DragOK(u, net')
  <2>1. CASE ctx = "treeDragged"
    <3>1. u.dragging = 0
      BY <1>6, <2>1
    <3>2. \A k \in net: k.ctx # "drag"
      BY <1>1, <2>1 DEF ScreenInv, DragOK
    <3>3. \A k \in net': k.ctx # "treeDragged"
      BY <1>1, <2>1 DEF ScreenInv, DragOK
    <3> QED BY <1>1, <3>1, <3>2, <3>3 DEF DragOK
  <2>2. CASE ctx # "treeDragged"
    <3>1. u.dragging = ui.dragging /\ net' \subseteq net
      BY <1>1, <1>2, <1>6, <2>2
    <3>2. DragOK(ui, net)
      BY DEF ScreenInv
    <3> QED BY <3>1, <3>2 DEF DragOK
  <2> QED BY <2>1, <2>2
<1>10. Handled(B, {})
  BY <1>1, Takes
<1>11. CallsOK
  BY <1>10, HandledOK
<1> QED BY <1>1, <1>6, <1>7, <1>8, <1>9, <1>11 DEF ScreenInv, ScreenKept

\* What a tree shows below a room are racks.
LEMMA TreeShows ==
  ASSUME srv \in Rows, NEW X, SeenAll(X, srv), \A x \in X: PlaceOK(x, srv)
  PROVE  \A x \in X: Screen!Has(Screen!Rooms(X), x.up) => IsRack(x.row, srv)
<1>0. All \notin Row
  BY WireAssumption
<1>1. SUFFICES ASSUME NEW x \in X, Screen!Has(Screen!Rooms(X), x.up) PROVE IsRack(x.row, srv)
  OBVIOUS
<1>2. PICK y \in X: y.up = All /\ y.row = x.up
  BY <1>1 DEF Screen!Has, Screen!Rooms
<1>3. y.row \in Row /\ x.row \in Row
  BY DEF SeenAll, SeenOK
<1>4. IsRoom(y.row, srv)
  BY <1>2, <1>3 DEF PlaceOK, IsRoom
<1>5. ~IsDevice(x.row, srv)
  BY <1>2, <1>4 DEF PlaceOK
<1>6. srv[x.row].up = y.row
  BY <1>2, <1>5 DEF PlaceOK
<1> QED BY <1>0, <1>3, <1>4, <1>6 DEF IsRack, IsRoom

\* The tree lands; what is drawn are racks of rooms that exist.
LEMMA TreeLands ==
  ASSUME srv \in Rows, Calls(net, srv), ScreenInv(ui, net, srv), NEW m \in net, Screen!LandTree(m)
  PROVE  ScreenKept
<1>1. /\ m.op = "list" /\ m.ctx \in {"tree", "treeSaved", "treeDragged"} /\ CallOK(m, srv) /\ ScreenCallOK(m, srv)
           /\ UNCHANGED srv
      /\ IsFiniteSet(net \ {m}) /\ Batched(net \ {m}) /\ (\A k \in net \ {m}: ScreenCallOK(k, srv))
  <2>1. m.op = "list" /\ m.ctx \in Screen!Batches /\ UNCHANGED srv
    BY DEF Screen!LandTree
  <2>2. CallOK(m, srv) /\ ScreenCallOK(m, srv) /\ IsFiniteSet(net \ {m})
    BY FS_Difference DEF Calls, ScreenInv, ScreenNet
  <2> QED BY <2>1, <2>2 DEF Screen!Batches, ScreenCallOK, ScreenInv, ScreenNet, Batched
<1>2. m.ctx = "treeDragged" => ui.dragging = 1 /\ \A k \in net \ {m}: k.ctx \notin {"drag", "treeDragged"}
  BY <1>1 DEF ScreenInv, DragOK
<1>3. \A s: SelOK(s, net) => SelOK(s, net \ {m})
  BY <1>1 DEF SelOK
<1>4. CASE m.res # "ok"
  <2>1. PICK e, u: e = Screen!Ended(ui, m.ctx) /\ u = [e EXCEPT !.sel = ui.sel, !.ok = FALSE] /\ ui' = u
          /\ net' = net \ {m}
    BY <1>4 DEF Screen!LandTree
  <2>2. PICK t: t = [ui EXCEPT !.loading = @ /\ m.ctx \notin {"tree", "treeSaved", "treeDragged"}, !.saving = @
          /\ m.ctx # "treeSaved",
                               !.dragging = IF m.ctx = "treeDragged" THEN 0 ELSE @, !.exporting = @ /\ m.ctx # "export"]
    OBVIOUS
  <2>3. e = Screen!EnsureSelection(t)
    BY <1>1, <2>1, <2>2 DEF Screen!Ended
  <2>4. /\ DOMAIN t = DOMAIN ui /\ t.dragging = (IF m.ctx = "treeDragged" THEN 0 ELSE ui.dragging)
        /\ \A f \in DOMAIN ui \ {"loading", "saving", "dragging", "exporting"}: t[f] = ui[f]
    BY <2>2 DEF ScreenInv, ScreenUi
  <2>5. e = t \/ \E x: e = [t EXCEPT !.sel = x]
    BY <2>3 DEF Screen!EnsureSelection
  <2>6. /\ DOMAIN u = DOMAIN ui /\ u.dragging = t.dragging
        /\ \A f \in DOMAIN ui \ {"loading", "ok", "fresh", "hidden", "saving", "exporting", "dragging"}: u[f] = ui[f]
    <3>1. DOMAIN e = DOMAIN t /\ e.dragging = t.dragging /\ \A f \in DOMAIN t \ {"sel"}: e[f] = t[f]
      BY <2>4, <2>5 DEF ScreenInv, ScreenUi
    <3>2. DOMAIN u = DOMAIN e /\ u.dragging = e.dragging /\ u.sel = ui.sel
            /\ \A f \in DOMAIN e \ {"sel", "ok"}: u[f] = e[f]
      BY <2>1, <2>4, <3>1 DEF ScreenInv, ScreenUi
    <3> QED BY <2>4, <3>1, <3>2
  <2>7. ScreenUi(u, srv) /\ SelOK(u, net)
    BY <2>6, ScreenUiLike DEF ScreenInv
  <2>8. DragOK(u, net \ {m})
    BY <1>2, <2>4, <2>6 DEF ScreenInv, DragOK
  <2>9. CallsOK
    BY <1>1, <2>1, Takes, HandledOK
  <2> QED BY <1>1, <1>3, <2>1, <2>7, <2>8, <2>9 DEF ScreenInv, ScreenNet, ScreenKept
<1>5. CASE m.res = "ok"
  <2>1. PICK rooms, tree, room, s:
          /\ rooms = Screen!Rooms(m.rows) /\ tree = {x \in m.rows: x.up = All \/ Screen!Has(rooms, x.up)}
          /\ room = (IF Screen!Has(rooms, ui.room) THEN ui.room ELSE Screen!First(rooms))
          /\ s = [ui EXCEPT !.rows = tree, !.room = room] /\ Screen!LoadLayouts(s, m.ctx, net \ {m})
    <3>1. PICK s: /\ s = [ui EXCEPT !.rows = {x \in m.rows: x.up = All \/ Screen!Has(Screen!Rooms(m.rows), x.up)},
                                    !.room = IF Screen!Has(Screen!Rooms(m.rows), @) THEN @
                                      ELSE Screen!First(Screen!Rooms(m.rows))]
                  /\ Screen!LoadLayouts(s, m.ctx, net \ {m})
      BY <1>5 DEF Screen!LandTree
    <3> QED BY <3>1
  <2>2. /\ DOMAIN s = DOMAIN ui /\ s.page = ui.page /\ s.rows = tree /\ s.room = room /\ s.devs = ui.devs
             /\ s.sel = ui.sel /\ s.dlg = ui.dlg
        /\ s.form = ui.form /\ s.cand = ui.cand /\ s.dragging = ui.dragging
    BY <2>1 DEF ScreenInv, ScreenUi
  <2>3. SeenAll(m.rows, srv) /\ \A x \in m.rows: PlaceOK(x, srv)
    BY <1>1 DEF CallOK, ScreenCallOK
  <2>4. SeenAll(tree, srv) /\ \A x \in tree: PlaceOK(x, srv) /\ (x.up = All \/ IsRack(x.row, srv))
    BY <2>1, <2>3, TreeShows DEF SeenAll
  <2>5. room \in Ref
    <3>1. \A x \in rooms: x.row \in Row /\ x.row \in Nat
      BY <2>1, <2>3, WireAssumption DEF Screen!Rooms, SeenAll, SeenOK
    <3>2. Screen!First(rooms) = NoRow \/ \E x \in rooms: x.row = Screen!First(rooms)
      BY <3>1, ScreenFirst
    <3> QED BY <2>1, <3>1, <3>2, SetsTyped DEF ScreenInv, ScreenUi
  <2>6. ScreenUi(s, srv)
    BY <2>2, <2>4, <2>5 DEF ScreenInv, ScreenUi, ScreenRows
  <2>7. DragOK(s, net \ {m})
    BY <2>2 DEF ScreenInv, DragOK
  <2>8. Ready(s, m.ctx, net \ {m})
    BY <1>1, <1>2, <2>2, <2>6, <2>7 DEF Ready, ScreenNet, Repairs
  <2> QED BY <1>1, <2>1, <2>8, ScreenLoaded
<1> QED BY <1>4, <1>5

\* A landing that makes no call.
LEMMA ScreenTakes ==
  ASSUME srv \in Rows, Calls(net, srv), ScreenInv(ui, net, srv), NEW m, m.op # "layout", NEW u, ui' = u, Steady(u),
         net' = net \ {m}, UNCHANGED srv
  PROVE  ScreenKept
<1>1. Handled({m}, {}) /\ Alike(ui', u)
  BY Takes DEF Alike
<1>2. PICK c: c = Call
  OBVIOUS
<1> QED BY <1>1, <1>2, ScreenKeep

\* A landing that makes one.
LEMMA ScreenAdds ==
  ASSUME srv \in Rows, Calls(net, srv), ScreenInv(ui, net, srv), NEW m, m.op # "layout", NEW u, Alike(ui', u),
    Steady(u),
         NEW c, Calm(c), net' = Add(net \ {m}, c), UNCHANGED srv
  PROVE  ScreenKept
<1>1. \E d: Makes({m}, c, d)
  BY MakesOne DEF Calm
<1>2. Follows(m, u, c, u)
  BY <1>1 DEF Follows
<1> QED BY <1>2, ScreenKeep

\* The dialog is closed, or left as it is.
LEMMA MayClose ==
  ASSUME srv \in Rows, NEW d, ScreenDlgOK(d, srv)
  PROVE  \A M: ScreenDlgOK(IF d.mode \in M THEN Screen!Closed ELSE d, srv)
BY DialogsOK

\* The history does not matter.
LEMMA ExcusedLike ==
  ASSUME NEW s, NEW S, ScreenUi(s, S)
  PROVE  DOMAIN Excused(s) = DOMAIN s /\ \A f \in DOMAIN s \ {"ok", "fresh"}: Excused(s)[f] = s[f]
BY DEF Excused

\* The answer with one row.
LEMMA OneRow ==
  ASSUME srv \in Rows, NEW m, CallOK(m, srv), ScreenCallOK(m, srv), m.ctx \in {"drawer", "device", "saved"},
    m.res = "ok"
  PROVE  LET x == CHOOSE x \in m.rows: TRUE
         IN x.row = m.row /\ x.ver \in Nat /\ IsDevice(x.row, srv) /\ x.ver =< srv[x.row].ver
<1>1. m.op = "get"
  BY DEF ScreenCallOK
<1>2. PICK y \in m.rows: m.rows = {y} /\ y.row = m.row
  BY <1>1 DEF CallOK
<1>3. (CHOOSE x \in m.rows: TRUE) = y
  BY <1>2
<1>4. SeenOK(y, srv)
  BY DEF CallOK, SeenAll
<1>5. IsDevice(y.row, srv)
  BY <1>2 DEF ScreenCallOK
<1> QED BY <1>2, <1>3, <1>4, <1>5 DEF SeenOK

\* The answers about devices.
LEMMA DeviceLandings ==
  ASSUME srv \in Rows, Calls(net, srv), ScreenInv(ui, net, srv), NEW m \in net
  PROVE  /\ Screen!LandAssignable(m) => ScreenKept
         /\ Screen!LandPlace(m) => ScreenKept
         /\ Screen!LandDetail(m) => ScreenKept
         /\ Screen!LandSaveDevice(m) => ScreenKept
         /\ Screen!LandSaved(m) => ScreenKept
<1>0. /\ DOMAIN ui = {"page", "rows", "room", "devs", "sel", "hidden", "dlg", "form", "cand", "saving", "dragging",
           "exporting",
                      "loading", "ok", "fresh"}
      /\ ScreenUi(ui, srv) /\ FormOK(ui.form, srv) /\ ScreenDlgOK(ui.dlg, srv)
      /\ Steady(ui) /\ CallOK(m, srv) /\ ScreenCallOK(m, srv)
  BY DEF ScreenInv, ScreenUi, Steady, Calls, ScreenNet
<1>1. m.ctx \notin Repairs \cup {"placed", "export"} => m.op # "layout"
  BY <1>0 DEF ScreenCallOK
<1>2. ASSUME Screen!LandAssignable(m) PROVE ScreenKept
  <2>1. PICK u: /\ ui' = u /\ u = (IF m.res = "ok" THEN [ui EXCEPT !.cand = {x \in m.rows: x.up \in Group}] ELSE ui)
                /\ net' = net \ {m} /\ UNCHANGED srv /\ m.op # "layout"
    BY <1>1, <1>2 DEF Screen!LandAssignable, Screen!Landed, Repairs
  <2>2. Steady(u)
    <3>1. CASE m.res = "ok"
      <4>1. /\ DOMAIN u = DOMAIN ui /\ u.page = ui.page /\ u.rows = ui.rows /\ u.room = ui.room /\ u.devs = ui.devs
                 /\ u.sel = ui.sel /\ u.dlg = ui.dlg
            /\ u.form = ui.form /\ u.cand = {x \in m.rows: x.up \in Group} /\ u.dragging = ui.dragging
        BY <1>0, <2>1, <3>1
      <4>2. ASSUME NEW x \in m.rows, x.up \in Group PROVE IsDevice(x.row, srv)
        <5>1. PlaceOK(x, srv) /\ x.row \in Row
          BY <1>0 DEF ScreenCallOK, CallOK, SeenAll, SeenOK
        <5>2. x.up \notin Row /\ x.up # All
          BY <4>2, WireAssumption
        <5> QED BY <5>1, <5>2 DEF PlaceOK, IsDevice, IsRoom, IsRack
      <4>3. SeenAll(u.cand, srv) /\ \A x \in u.cand: IsDevice(x.row, srv)
        BY <1>0, <4>1, <4>2 DEF CallOK, SeenAll
      <4>4. ScreenUi(u, srv)
        BY <1>0, <4>1, <4>3 DEF ScreenUi, ScreenRows
      <4> QED BY <1>0, <4>1, <4>4 DEF Steady, SelOK
    <3> QED BY <1>0, <2>1, <3>1
  <2> QED BY <2>1, <2>2, ScreenTakes
<1>3. ASSUME Screen!LandPlace(m) PROVE ScreenKept
  <2>1. UNCHANGED srv /\ m.op # "layout"
    BY <1>1, <1>3 DEF Screen!LandPlace, Screen!Landed, Repairs
  <2>2. CASE m.res # "ok"
    <3>1. PICK u: ui' = u /\ (u = Excused(ui) \/ u = ui) /\ net' = net \ {m}
      BY <1>3, <2>2, ScreenSame DEF Screen!LandPlace
    <3>2. DOMAIN u = DOMAIN ui /\ \A f \in DOMAIN ui \ {"loading", "ok", "fresh", "hidden", "saving",
            "exporting"}: u[f] = ui[f]
      BY <1>0, <3>1, ExcusedLike
    <3>3. Steady(u)
      BY <3>2, ScreenSteady
    <3> QED BY <2>1, <3>1, <3>3, ScreenTakes
  <2>3. CASE m.res = "ok"
    <3>1. PICK M, d, s, t:
            /\ d = (IF ui.dlg.mode \in M THEN Screen!Closed ELSE ui.dlg) /\ s = [ui EXCEPT !.dlg = d]
            /\ t = [s EXCEPT !.devs = {}, !.fresh = Screen!Older(net \ {m}) = {}]
            /\ Screen!LoadLayouts(t, "placed", net \ {m})
      <4>1. PICK M: Screen!ReloadLayouts([ui EXCEPT !.dlg = IF @.mode \in M THEN Screen!Closed ELSE @], net \ {m})
        BY <1>3, <2>3 DEF Screen!LandPlace
      <4> QED BY <4>1 DEF Screen!ReloadLayouts
    <3>2. ScreenDlgOK(d, srv)
      BY <1>0, <3>1, MayClose
    <3>3. /\ DOMAIN t = DOMAIN ui /\ t.page = ui.page /\ t.rows = ui.rows /\ t.room = ui.room /\ t.devs = {}
               /\ t.sel = ui.sel /\ t.dlg = d
          /\ t.form = ui.form /\ t.cand = ui.cand /\ t.dragging = ui.dragging
      <4>1. DOMAIN s = DOMAIN ui /\ s.dlg = d /\ \A f \in DOMAIN ui \ {"dlg"}: s[f] = ui[f]
        BY <1>0, <3>1
      <4>2. DOMAIN t = DOMAIN s /\ t.devs = {} /\ \A f \in DOMAIN s \ {"devs", "fresh"}: t[f] = s[f]
        BY <1>0, <3>1, <4>1
      <4> QED BY <1>0, <4>1, <4>2
    <3>4. ScreenUi(t, srv)
      BY <1>0, <3>2, <3>3 DEF ScreenUi, ScreenRows
    <3>5. ScreenNet(net \ {m}, srv)
      <4>1. IsFiniteSet(net \ {m})
        BY FS_Difference DEF ScreenInv, ScreenNet
      <4> QED BY <4>1 DEF ScreenInv, ScreenNet, Batched
    <3>6. DragOK(t, net \ {m})
      BY <2>1, <3>3 DEF ScreenInv, DragOK
    <3>7. SelOK(t, net \ {m})
      BY <2>1, <3>3 DEF ScreenInv, SelOK
    <3>8. Ready(t, "placed", net \ {m})
      BY <3>4, <3>5, <3>6, <3>7 DEF Ready
    <3> QED BY <2>1, <3>1, <3>8, ScreenLoaded
  <2> QED BY <2>2, <2>3
<1>4. ASSUME Screen!LandDetail(m) PROVE ScreenKept
  <2>1. UNCHANGED srv /\ m.op # "layout" /\ net' = net \ {m} /\ m.ctx \in {"drawer", "device"}
    BY <1>1, <1>4 DEF Screen!LandDetail, Repairs
  <2>2. CASE m.res = "ok" /\ m.ctx = "device"
    <3>1. PICK x, f, u: x = (CHOOSE y \in m.rows: TRUE) /\ f = [row |-> x.row, ver |-> x.ver]
            /\ u = [ui EXCEPT !.form = f] /\ ui' = u
      BY <1>4, <2>2 DEF Screen!LandDetail, Screen!Snapshot
    <3>2. x.row = m.row /\ x.ver \in Nat /\ IsDevice(x.row, srv) /\ x.ver =< srv[x.row].ver
      BY <1>0, <2>1, <2>2, <3>1, OneRow
    <3>3. FormOK(f, srv)
      BY <3>1, <3>2, SetsTyped DEF FormOK, IsDevice
    <3>4. DOMAIN u = DOMAIN ui /\ u.form = f /\ u.dlg = ui.dlg /\ \A g \in DOMAIN ui \ {"form"}: u[g] = ui[g]
      BY <1>0, <3>1
    <3>5. Steady(u)
      BY <1>0, <3>3, <3>4, ScreenDialog
    <3> QED BY <2>1, <3>1, <3>5, ScreenTakes
  <2>4. CASE m.res = "ok" /\ m.ctx = "drawer"
    <3>1. PICK d, u: /\ d = [ui.dlg EXCEPT !.target = IF ui.dlg.mode = "drawer" THEN m.row ELSE @]
                     /\ u = [ui EXCEPT !.dlg = d] /\ ui' = u
      BY <1>4, <2>4 DEF Screen!LandDetail
    <3>2. IsDevice(m.row, srv)
      BY <1>0, <2>4 DEF ScreenCallOK
    <3>3. /\ DOMAIN d = {"mode", "row", "ver", "target"} /\ d.mode = ui.dlg.mode /\ d.row = ui.dlg.row /\ d.ver = ui.dlg.ver
          /\ d.target = IF ui.dlg.mode = "drawer" THEN m.row ELSE ui.dlg.target
      BY <1>0, <3>1 DEF ScreenDlgOK
    <3>4. ScreenDlgOK(d, srv)
      BY <1>0, <3>2, <3>3, SetsTyped DEF ScreenDlgOK, DlgOK, IsDevice
    <3>5. DOMAIN u = DOMAIN ui /\ u.dlg = d /\ u.form = ui.form /\ \A g \in DOMAIN ui \ {"dlg"}: u[g] = ui[g]
      BY <1>0, <3>1
    <3>6. Steady(u)
      BY <1>0, <3>4, <3>5, ScreenDialog
    <3> QED BY <2>1, <3>1, <3>6, ScreenTakes
  <2>3. CASE m.res # "ok"
    <3>1. PICK d, u: d = (IF ui.dlg.mode \in {m.ctx} THEN Screen!Closed ELSE ui.dlg) /\ u = [ui EXCEPT !.dlg = d]
            /\ ui' = u
      BY <1>4, <2>3 DEF Screen!LandDetail
    <3>2. DOMAIN u = DOMAIN ui /\ u.dlg = d /\ u.form = ui.form /\ \A g \in DOMAIN ui \ {"dlg"}: u[g] = ui[g]
      BY <1>0, <3>1
    <3>3. ScreenDlgOK(u.dlg, srv) /\ FormOK(u.form, srv)
      BY <1>0, <3>1, <3>2, MayClose
    <3>4. Steady(u)
      BY <3>2, <3>3, ScreenDialog
    <3> QED BY <2>1, <3>1, <3>4, ScreenTakes
  <2> QED BY <2>1, <2>2, <2>3, <2>4
<1>5. ASSUME Screen!LandSaveDevice(m) PROVE ScreenKept
  <2>1. UNCHANGED srv /\ m.op # "layout" /\ m.ctx = "saveDevice"
    BY <1>1, <1>5 DEF Screen!LandSaveDevice, Screen!Landed, Repairs
  <2>2. CASE m.res = "ok"
    <3>1. PICK c, u: c = Screen!ScreenCall("get", "saved", m.row, 0) /\ u = ui /\ ui' = u
            /\ net' = Screen!Add(net \ {m}, c)
      BY <1>5, <2>2 DEF Screen!LandSaveDevice
    <3>2. Calm(c)
      BY <1>0, <2>1, <3>1, DetailCalled DEF ScreenCallOK
    <3>3. Alike(ui', u) /\ net' = Add(net \ {m}, c)
      BY <3>1, ScreenSame DEF Alike
    <3> QED BY <1>0, <2>1, <3>1, <3>2, <3>3, ScreenAdds
  <2>3. CASE m.res # "ok"
    <3>1. PICK v, u: (v = ui \/ v = Excused(ui)) /\ u = [v EXCEPT !.saving = FALSE] /\ ui' = u /\ net' = net \ {m}
      BY <1>5, <2>3, ScreenSame DEF Screen!LandSaveDevice
    <3>2. DOMAIN v = DOMAIN ui /\ \A f \in DOMAIN ui \ {"ok", "fresh"}: v[f] = ui[f]
      BY <1>0, <3>1, ExcusedLike
    <3>3. DOMAIN u = DOMAIN ui /\ \A f \in DOMAIN ui \ {"loading", "ok", "fresh", "hidden", "saving",
            "exporting"}: u[f] = ui[f]
      BY <1>0, <3>1, <3>2
    <3>4. Steady(u)
      BY <3>3, ScreenSteady
    <3> QED BY <2>1, <3>1, <3>4, ScreenTakes
  <2> QED BY <2>2, <2>3
<1>6. ASSUME Screen!LandSaved(m) PROVE ScreenKept
  <2>1. UNCHANGED srv /\ m.op # "layout" /\ m.ctx = "saved" /\ net' = net \ {m}
    BY <1>1, <1>6 DEF Screen!LandSaved, Screen!Landed, Repairs
  <2>2. CASE m.res # "ok"
    <3>1. PICK u: u = [ui EXCEPT !.saving = FALSE, !.fresh = FALSE] /\ ui' = u
      BY <1>6, <2>2 DEF Screen!LandSaved
    <3>2. DOMAIN u = DOMAIN ui /\ \A f \in DOMAIN ui \ {"loading", "ok", "fresh", "hidden", "saving",
            "exporting"}: u[f] = ui[f]
      BY <1>0, <3>1
    <3>3. Steady(u)
      BY <3>2, ScreenSteady
    <3> QED BY <2>1, <3>1, <3>3, ScreenTakes
  <2>3. CASE m.res = "ok"
    <3>0. ui' = [ui EXCEPT !.saving = FALSE, !.dlg = IF @.mode = "device" THEN Screen!Closed ELSE @,
                           !.devs = {[d EXCEPT !.rows = Screen!InPlace(@, CHOOSE x \in m.rows: TRUE)]: d \in @},
                           !.fresh = @ /\ ~Screen!Waiting("layout", net)]
      BY <1>6, <2>3 DEF Screen!LandSaved
    <3>11. PICK D: D = {[d EXCEPT !.rows = Screen!InPlace(@, CHOOSE x \in m.rows: TRUE)]: d \in ui.devs}
      OBVIOUS
    <3>12. PICK g: g = IF ui.dlg.mode = "device" THEN Screen!Closed ELSE ui.dlg
      OBVIOUS
    <3>13. PICK f: f = (ui.fresh /\ ~Screen!Waiting("layout", net))
      OBVIOUS
    <3>14. ui' = [ui EXCEPT !.saving = FALSE, !.dlg = g, !.devs = D, !.fresh = f]
      BY <3>0, <3>11, <3>12, <3>13
    <3>15. PICK x: x = CHOOSE y \in m.rows: TRUE
      OBVIOUS
    <3>1. PICK u: u = [ui EXCEPT !.saving = FALSE, !.dlg = g, !.devs = D, !.fresh = f] /\ ui' = u
      BY <3>14
    <3>2. x.row = m.row /\ x.ver \in Nat /\ IsDevice(x.row, srv) /\ x.ver =< srv[x.row].ver
      BY <1>0, <2>1, <2>3, <3>15, OneRow
    <3>3. ASSUME NEW e \in D PROVE DOMAIN e = {"rack", "rows"} /\ SeenAll(e.rows, srv)
            /\ \A y \in e.rows: IsDevice(y.row, srv)
      <4>1. PICK e0 \in ui.devs: e = [e0 EXCEPT !.rows = Screen!InPlace(@, x)]
        BY <3>3, <3>11, <3>15
      <4>2. DOMAIN e0 = {"rack", "rows"} /\ SeenAll(e0.rows, srv) /\ \A y \in e0.rows: IsDevice(y.row, srv)
        BY <1>0 DEF ScreenUi, ScreenRows
      <4>3. DOMAIN e = {"rack", "rows"} /\ e.rows = Screen!InPlace(e0.rows, x)
        BY <4>1, <4>2
      <4>4. ASSUME NEW y \in e.rows PROVE SeenOK(y, srv) /\ IsDevice(y.row, srv)
        <5>1. PICK z \in e0.rows: y = IF z.row = x.row THEN [z EXCEPT !.ver = x.ver] ELSE z
          BY <4>3, <4>4 DEF Screen!InPlace
        <5>2. SeenOK(z, srv) /\ IsDevice(z.row, srv)
          BY <4>2 DEF SeenAll
        <5>3. CASE z.row # x.row
          BY <5>1, <5>2, <5>3
        <5>4. CASE z.row = x.row
          <6>1. DOMAIN y = {"row", "ver", "up"} /\ y.row = z.row /\ y.ver = x.ver /\ y.up = z.up
            BY <5>1, <5>2, <5>4 DEF SeenOK
          <6> QED BY <3>2, <5>2, <5>4, <6>1 DEF SeenOK
        <5> QED BY <5>3, <5>4
      <4> QED BY <4>3, <4>4 DEF SeenAll
    <3>4. ScreenDlgOK(g, srv)
      <4>1. g = IF ui.dlg.mode \in {"device"} THEN Screen!Closed ELSE ui.dlg
        BY <3>12
      <4> QED BY <1>0, <4>1, MayClose
    <3>5. /\ DOMAIN u = DOMAIN ui /\ u.page = ui.page /\ u.rows = ui.rows /\ u.room = ui.room /\ u.devs = D
               /\ u.sel = ui.sel /\ u.dlg = g
          /\ u.form = ui.form /\ u.cand = ui.cand /\ u.dragging = ui.dragging
      BY <1>0, <3>1
    <3>6. ScreenUi(u, srv)
      BY <1>0, <3>3, <3>4, <3>5 DEF ScreenUi, ScreenRows
    <3>7. Steady(u)
      BY <1>0, <3>5, <3>6 DEF Steady, SelOK
    <3> QED BY <2>1, <3>1, <3>7, ScreenTakes
  <2> QED BY <2>2, <2>3
<1> QED BY <1>2, <1>3, <1>4, <1>5, <1>6

\* The answers about racks.
LEMMA RackLandings ==
  ASSUME srv \in Rows, Calls(net, srv), ScreenInv(ui, net, srv), NEW m \in net
  PROVE  /\ Screen!LandSaveRack(m) => ScreenKept
         /\ Screen!LandRemoveRack(m) => ScreenKept
         /\ Screen!LandForgotten(m) => ScreenKept
<1>0. /\ DOMAIN ui = {"page", "rows", "room", "devs", "sel", "hidden", "dlg", "form", "cand", "saving", "dragging",
           "exporting",
                      "loading", "ok", "fresh"}
      /\ ScreenUi(ui, srv) /\ FormOK(ui.form, srv) /\ ScreenDlgOK(ui.dlg, srv)
      /\ Steady(ui) /\ CallOK(m, srv) /\ ScreenCallOK(m, srv)
  BY DEF ScreenInv, ScreenUi, Steady, Calls, ScreenNet
<1>1. m.ctx \notin Repairs \cup {"placed", "export"} => m.op # "layout"
  BY <1>0 DEF ScreenCallOK
<1>2. ASSUME Screen!LandSaveRack(m) PROVE ScreenKept
  <2>1. PICK d, s, c, t: /\ d = (IF ui.dlg.mode \in {"rack"} THEN Screen!Closed ELSE ui.dlg)
                              /\ s = [ui EXCEPT !.dlg = d]
                         /\ c = Screen!FetchTree("treeSaved") /\ t = [ui EXCEPT !.saving = FALSE]
                              /\ Screen!After(m, s, c, t)
                         /\ m.op # "layout"
    BY <1>1, <1>2 DEF Screen!LandSaveRack, Screen!Landed, Repairs
  <2>2. DOMAIN s = DOMAIN ui /\ s.dlg = d /\ s.form = ui.form /\ \A f \in DOMAIN ui \ {"dlg"}: s[f] = ui[f]
    BY <1>0, <2>1
  <2>3. ScreenDlgOK(s.dlg, srv) /\ FormOK(s.form, srv)
    BY <1>0, <2>1, <2>2, MayClose
  <2>4. Steady(s)
    BY <2>2, <2>3, ScreenDialog
  <2>5. DOMAIN t = DOMAIN ui /\ \A f \in DOMAIN ui \ {"saving"}: t[f] = ui[f]
    BY <1>0, <2>1
  <2>6. Steady(t) /\ "ok" \in DOMAIN t
    BY <1>0, <2>5, ScreenSteady
  <2>7. Calm(c)
    BY <2>1, TreeCalled
  <2>8. Sound(c)
    BY <2>7 DEF Calm
  <2>9. Follows(m, s, c, t)
    BY <2>1, <2>6, <2>8, ScreenForms
  <2> QED BY <2>1, <2>4, <2>6, <2>7, <2>9, ScreenKeep
<1>3. ASSUME Screen!LandRemoveRack(m) PROVE ScreenKept
  <2>1. PICK s, c, t: s = [ui EXCEPT !.sel = Blank] /\ c = Screen!FetchTree("tree") /\ t = ui
          /\ Screen!After(m, s, c, t) /\ m.op # "layout"
    BY <1>1, <1>3, ScreenSame DEF Screen!LandRemoveRack, Screen!Landed, Repairs
  <2>2. /\ DOMAIN s = DOMAIN ui /\ s.page = ui.page /\ s.rows = ui.rows /\ s.room = ui.room /\ s.devs = ui.devs
             /\ s.sel = Blank
        /\ s.dlg = ui.dlg /\ s.form = ui.form /\ s.cand = ui.cand /\ s.dragging = ui.dragging
    BY <1>0, <2>1
  <2>3. ScreenUi(s, srv)
    BY <1>0, <2>2, BlankOK DEF ScreenUi, ScreenRows, Blank
  <2>4. Steady(s)
    BY <2>2, <2>3 DEF Steady, SelOK
  <2>5. Steady(t) /\ "ok" \in DOMAIN t
    BY <1>0, <2>1
  <2>6. Calm(c)
    BY <2>1, TreeCalled
  <2>7. Sound(c)
    BY <2>6 DEF Calm
  <2>8. Follows(m, s, c, t)
    BY <2>1, <2>5, <2>7, ScreenForms
  <2> QED BY <2>1, <2>4, <2>5, <2>6, <2>8, ScreenKeep
<1>4. ASSUME Screen!LandForgotten(m) PROVE ScreenKept
  <2>1. PICK u: u = [ui EXCEPT !.ok = @ /\ ~m.did] /\ ui' = u /\ net' = net \ {m} /\ UNCHANGED srv /\ m.op # "layout"
    BY <1>1, <1>4 DEF Screen!LandForgotten, Screen!Landed, Repairs
  <2>2. DOMAIN u = DOMAIN ui /\ \A f \in DOMAIN ui \ {"ok"}: u[f] = ui[f]
    BY <1>0, <2>1
  <2>3. Steady(u)
    BY <2>2, ScreenSteady
  <2> QED BY <2>1, <2>3, ScreenTakes
<1> QED BY <1>2, <1>3, <1>4

\* The calls of an exchange are forgotten: only what they are awaited for changes.
Forget(x) == IF x.ctx = "drag" THEN [x EXCEPT !.ctx = "forgotten"] ELSE x

\* A forgotten call stays as sound as it was.
LEMMA Forgotten ==
  ASSUME NEW x, CallOK(x, srv), ScreenCallOK(x, srv)
  PROVE  /\ CallOK(Forget(x), srv) /\ ScreenCallOK(Forget(x), srv) /\ Forget(x).ctx # "drag"
         /\ Forget(x).op = x.op /\ Forget(x).res = x.res /\ Forget(x).did = x.did /\ Forget(x).page = x.page
         /\ (x.ctx # "drag" => Forget(x) = x)
<1>1. CASE x.ctx # "drag"
  BY <1>1 DEF Forget
<1>2. CASE x.ctx = "drag"
  <2>1. PICK y: y = [x EXCEPT !.ctx = "forgotten"]
    OBVIOUS
  <2>2. /\ DOMAIN y = CallFields /\ y.ctx = "forgotten"
        /\ y.n = x.n /\ y.op = x.op /\ y.row = x.row /\ y.ver = x.ver /\ y.form = x.form /\ y.up = x.up
             /\ y.page = x.page
        /\ y.res = x.res /\ y.rows = x.rows /\ y.total = x.total /\ y.did = x.did /\ y.again = x.again
             /\ y.mixed = x.mixed
    BY <2>1 DEF CallOK, CallFields
  <2>3. CallOK(y, srv)
    BY <2>2 DEF CallOK
  <2>4. ScreenCallOK(y, srv)
    BY <1>2, <2>2 DEF ScreenCallOK
  <2> QED BY <1>2, <2>1, <2>2, <2>3, <2>4 DEF Forget
<1> QED BY <1>1, <1>2

\* An update of an exchange lands: at most one other is still awaited.
LEMMA DragLands ==
  ASSUME srv \in Rows, Calls(net, srv), ScreenInv(ui, net, srv), NEW m \in net, Screen!LandDrag(m)
  PROVE  ScreenKept
<1>0. /\ DOMAIN ui = {"page", "rows", "room", "devs", "sel", "hidden", "dlg", "form", "cand", "saving", "dragging",
           "exporting",
                      "loading", "ok", "fresh"}
      /\ m.ctx = "drag" /\ m.res # "pending" /\ UNCHANGED srv /\ ScreenCallOK(m, srv) /\ DragOK(ui, net)
      /\ ScreenUi(ui, srv) /\ SelOK(ui, net) /\ Batched(net) /\ IsFiniteSet(net) /\ \A k \in net: CallOK(k, srv)
           /\ ScreenCallOK(k, srv)
  BY DEF Screen!LandDrag, Screen!Landed, ScreenInv, ScreenUi, ScreenNet, Calls
<1>1. m.op = "put" /\ ui.dragging # 0 /\ \A k \in net: k.ctx # "treeDragged"
  BY <1>0 DEF ScreenCallOK, DragOK
<1>2. IsFiniteSet(net \ {m})
  BY <1>0, FS_Difference
<1>3. CASE m.res # "ok"
  <2>1. PICK u, N: /\ u = [ui EXCEPT !.dragging = 0, !.ok = FALSE] /\ ui' = u
                   /\ N = {Forget(x): x \in net \ {m}} /\ net' = N
    BY <1>3 DEF Screen!LandDrag, Forget
  <2>2. /\ DOMAIN u = DOMAIN ui /\ u.dragging = 0
        /\ \A f \in DOMAIN ui \ {"loading", "ok", "fresh", "hidden", "saving", "exporting", "dragging"}: u[f] = ui[f]
    BY <1>0, <2>1
  <2>3. ScreenUi(u, srv) /\ SelOK(u, net)
    BY <1>0, <2>2, ScreenUiLike
  <2>4. \A k \in N: \E x \in net \ {m}: k = Forget(x) /\ k.op = x.op /\ k.did = x.did /\ k.res = x.res
          /\ k.page = x.page
                                         /\ (x.ctx # "drag" => k = x) /\ k.ctx # "drag" /\ CallOK(k, srv)
                                              /\ ScreenCallOK(k, srv)
    BY <1>0, <2>1, Forgotten
  <2>5. \A x \in net \ {m}: x.ctx # "drag" => x \in N
    BY <1>0, <2>1, Forgotten
  <2>6. IsFiniteSet(N)
    <3>1. PICK f: f = [x \in net \ {m} |-> Forget(x)]
      OBVIOUS
    <3>2. f \in Surjection(net \ {m}, N)
      BY <2>1, <3>1 DEF Surjection
    <3> QED BY <1>2, <3>2, FS_Surjection
  <2>7. \A k \in N: k.op = "layout" => k \in net
    BY <1>0, <2>4 DEF ScreenCallOK
  <2>8. Batched(N)
    BY <1>0, <2>7 DEF Batched
  <2>9. ScreenNet(N, srv)
    BY <2>4, <2>6, <2>8 DEF ScreenNet
  <2>10. SelOK(u, N)
    <3>1. \A x \in net: x.op = "layout" => x \in N
      BY <1>0, <1>1, <2>5 DEF ScreenCallOK
    <3> QED BY <2>3, <3>1 DEF SelOK
  <2>11. DragOK(u, N)
    <3>1. \A k \in N: k.ctx # "treeDragged"
      <4>1. ASSUME NEW k \in N, k.ctx = "treeDragged" PROVE FALSE
        <5>1. PICK x \in net \ {m}: k = Forget(x) /\ (x.ctx # "drag" => k = x)
          BY <2>4
        <5>2. x.ctx = "drag"
          BY <1>1, <4>1, <5>1
        <5>3. k.ctx = "forgotten"
          BY <1>0, <5>1, <5>2 DEF Forget, CallOK, CallFields
        <5> QED BY <4>1, <5>3
      <4> QED BY <4>1
    <3> QED BY <2>2, <2>4, <3>1 DEF DragOK
  <2>12. AcceptedOnCurrent
    <3>1. SUFFICES ASSUME NEW a \in net \ N, NEW k \in N \ net, a.res = "pending", k.did PROVE FALSE
      BY <2>1 DEF AcceptedOnCurrent
    <3>2. a.ctx = "drag" /\ a # m
      BY <1>0, <2>5, <3>1
    <3>3. PICK j \in net \ {m}: k = Forget(j) /\ k.did = j.did /\ (j.ctx # "drag" => k = j)
      BY <2>4
    <3>4. j.ctx = "drag"
      BY <3>1, <3>3
    <3>5. a = j
      BY <1>0, <3>2, <3>3, <3>4 DEF DragOK
    <3> QED BY <1>0, <3>1, <3>3, <3>5 DEF CallOK
  <2>13. CallsOK
    <3>1. PICK T: T = srv' /\ T = srv
      BY <1>0
    <3> QED BY <2>1, <2>4, <2>12, <3>1 DEF CallsOK, Calls
  <2> QED BY <1>0, <2>1, <2>3, <2>9, <2>10, <2>11, <2>13 DEF ScreenInv, ScreenKept
<1>4. CASE m.res = "ok" /\ ui.dragging = 2
  <2>1. PICK u: u = [ui EXCEPT !.dragging = 1] /\ ui' = u /\ net' = net \ {m}
    BY <1>4 DEF Screen!LandDrag
  <2>2. /\ DOMAIN u = DOMAIN ui /\ u.dragging = 1
        /\ \A f \in DOMAIN ui \ {"loading", "ok", "fresh", "hidden", "saving", "exporting", "dragging"}: u[f] = ui[f]
    BY <1>0, <2>1
  <2>3. ScreenUi(u, srv) /\ SelOK(u, net)
    BY <1>0, <2>2, ScreenUiLike
  <2>4. SelOK(u, net \ {m})
    BY <1>1, <2>3 DEF SelOK
  <2>5. DragOK(u, net \ {m})
    BY <1>0, <1>1, <2>2 DEF DragOK
  <2>6. ScreenNet(net \ {m}, srv)
    BY <1>0, <1>2 DEF ScreenNet, Batched
  <2>7. CallsOK
    BY <1>0, <2>1, Takes, HandledOK
  <2> QED BY <1>0, <2>1, <2>3, <2>4, <2>5, <2>6, <2>7 DEF ScreenInv, ScreenKept
<1>5. CASE m.res = "ok" /\ ui.dragging # 2
  <2>1. PICK c, u: c = Screen!FetchTree("treeDragged") /\ u = Begin(ui, net \ {m}) /\ ui' = u
          /\ net' = Add(net \ {m}, c)
    BY <1>5, ScreenSame DEF Screen!LandDrag
  <2>2. Sound(c) /\ c.op = "list" /\ c.ctx = "treeDragged" /\ c.rows = {}
    BY <2>1, TreeCalled
  <2>3. PICK d: Handled({m}, {d}) /\ net' = (net \ {m}) \cup {d} /\ SameCall(d, c)
    BY <1>0, <2>1, <2>2, MakesOne DEF Makes, Handled
  <2>4. d.op = "list" /\ d.ctx = "treeDragged" /\ d.rows = {}
    BY <2>2, <2>3 DEF SameCall
  <2>5. ScreenCallOK(d, srv)
    BY <2>4 DEF ScreenCallOK
  <2>6. Alike(u, ui)
    BY <2>1, BeginAlike
  <2>7. u.dragging = 1 /\ ScreenUi(u, srv) /\ SelOK(u, net)
    <3>1. u.dragging = 1
      BY <1>0, <1>1, <1>5, <2>6 DEF Alike, DragOK
    <3> QED BY <1>0, <2>6, <3>1, ScreenUiLike DEF Alike
  <2>8. SelOK(u, net')
    BY <1>1, <2>3, <2>7 DEF SelOK
  <2>9. DragOK(u, net')
    <3>1. ui.dragging = 1
      BY <1>0, <1>1, <1>5 DEF DragOK
    <3>2. \A k \in net \ {m}: k.ctx # "drag"
      BY <1>0, <3>1 DEF DragOK
    <3>3. \A k \in net': k.ctx # "drag" /\ (k.ctx = "treeDragged" => k = d)
      BY <1>1, <2>3, <2>4, <3>2
    <3> QED BY <2>7, <3>3 DEF DragOK
  <2>10. ScreenNet(net', srv)
    <3>1. IsFiniteSet(net')
      BY <1>2, <2>3, FS_Singleton, FS_Union
    <3> QED BY <1>0, <2>3, <2>4, <2>5, <3>1 DEF ScreenNet, Batched
  <2>11. CallsOK
    BY <2>3, HandledOK
  <2> QED BY <1>0, <2>1, <2>7, <2>8, <2>9, <2>10, <2>11 DEF ScreenInv, ScreenKept
<1> QED BY <1>3, <1>4, <1>5

\* Every step of the screen.
LEMMA ScreenStep ==
  ASSUME srv \in Rows, Calls(net, srv), ScreenInv(ui, net, srv), Screen!PageNext
  PROVE  ScreenKept
<1>1. CASE \E b \in {m.page: m \in net}: Screen!LandLayouts(b)
  BY <1>1, LayoutsLand
<1>2. CASE \E m \in net: \/ Screen!LandTree(m) \/ Screen!LandAssignable(m) \/ Screen!LandPlace(m) \/ Screen!LandDetail(m)
                         \/ Screen!LandSaveDevice(m) \/ Screen!LandSaved(m) \/ Screen!LandSaveRack(m)
                         \/ Screen!LandRemoveRack(m) \/ Screen!LandDrag(m) \/ Screen!LandForgotten(m)
  BY <1>2, TreeLands, DeviceLandings, RackLandings, DragLands
<1>3. CASE ~(\E b \in {m.page: m \in net}: Screen!LandLayouts(b)) /\
           ~(\E m \in net: \/ Screen!LandTree(m) \/ Screen!LandAssignable(m) \/ Screen!LandPlace(m) \/ Screen!LandDetail(m)
                           \/ Screen!LandSaveDevice(m) \/ Screen!LandSaved(m) \/ Screen!LandSaveRack(m)
                           \/ Screen!LandRemoveRack(m) \/ Screen!LandDrag(m) \/ Screen!LandForgotten(m))
  BY <1>3, ScreenActions, RoomChanges, Exports, Swaps DEF Screen!PageNext
<1> QED BY <1>1, <1>2, <1>3

-----------------------------------------------------------------------------
(* The back end's steps, on each page                                         *)

\* What a page knows stays true when the table grows; its history, and which calls
\* have been answered, do not matter.
LEMMA PagesGrow ==
  ASSUME NEW S \in Rows, NEW T \in Rows, Newer(S, T), NEW s, NEW t, DOMAIN t = DOMAIN s,
         \A f \in DOMAIN s \ {"ok", "fresh"}: t[f] = s[f],
         NEW N, NEW M, \A k \in M: \E j \in N: k.ctx = j.ctx /\ k.op = j.op
  PROVE  /\ TypesInv(s, N, S) => TypesInv(t, M, T)
         /\ LayoutInv(s, N, S) => LayoutInv(t, M, T)
         /\ RacksInv(s, N, S) => RacksInv(t, M, T)
         /\ TemplatesInv(s, N, S) => TemplatesInv(t, M, T)
         /\ TreeInv(s, N, S) => TreeInv(t, M, T)
         /\ PdusInv(s, N, S) => PdusInv(t, M, T)
         /\ LedgerInv(s, N, S) /\ (s.dlg.mode = "edit" => OwnForm(s, M)) => LedgerInv(t, M, T)
<1>1. /\ \A X: SeenAll(X, S) => SeenAll(X, T)
      /\ \A f: FormOK(f, S) => FormOK(f, T)
      /\ \A d: DlgOK(d, S) => DlgOK(d, T)
  <2>1. \A X: SeenAll(X, S) => SeenAll(X, T)
    BY SeenGrows DEF SeenAll
  <2>2. \A f: FormOK(f, S) => FormOK(f, T)
    BY FormGrows
  <2>3. \A d: DlgOK(d, S) => DlgOK(d, T)
    BY DEF DlgOK, Newer, Rows
  <2> QED BY <2>1, <2>2, <2>3
<1>2. ASSUME TypesInv(s, N, S) PROVE TypesInv(t, M, T)
  <2>1. t.page = s.page /\ t.rows = s.rows /\ t.dlg = s.dlg /\ t.form = s.form
    BY <1>2 DEF TypesInv
  <2> QED BY <1>1, <1>2, <2>1 DEF TypesInv, Filled
<1>3. ASSUME LayoutInv(s, N, S) PROVE LayoutInv(t, M, T)
  <2>1. t.page = s.page /\ t.rows = s.rows /\ t.sel = s.sel
    BY <1>3 DEF LayoutInv
  <2> QED BY <1>1, <1>3, <2>1 DEF LayoutInv
<1>4. ASSUME RacksInv(s, N, S) PROVE RacksInv(t, M, T)
  <2>1. t.page = s.page /\ t.rows = s.rows /\ t.room = s.room /\ t.target = s.target /\ t.dlg = s.dlg /\ t.form = s.form
    BY <1>4 DEF RacksInv
  <2> QED BY <1>1, <1>4, <2>1 DEF RacksInv, Filled
<1>5. ASSUME TemplatesInv(s, N, S) PROVE TemplatesInv(t, M, T)
  <2>1. t.page = s.page /\ t.rows = s.rows /\ t.dlg = s.dlg /\ t.form = s.form
    BY <1>5 DEF TemplatesInv
  <2> QED BY <1>1, <1>5, <2>1 DEF TemplatesInv, Filled
<1>6. ASSUME TreeInv(s, N, S) PROVE TreeInv(t, M, T)
  <2>1. t.page = s.page /\ t.rows = s.rows /\ t.dc = s.dc /\ t.room = s.room /\ t.dlg = s.dlg /\ t.form = s.form
    BY <1>6 DEF TreeInv
  <2> QED BY <1>1, <1>6, <2>1 DEF TreeInv, Filled
<1>7. ASSUME PdusInv(s, N, S) PROVE PdusInv(t, M, T)
  <2>1. t.page = s.page /\ t.rack = s.rack /\ t.rows = s.rows /\ t.socks = s.socks /\ t.conns = s.conns
          /\ t.dlg = s.dlg /\ t.form = s.form
    BY <1>7 DEF PdusInv
  <2> QED BY <1>1, <1>7, <2>1 DEF PdusInv
<1>8. ASSUME LedgerInv(s, N, S), s.dlg.mode = "edit" => OwnForm(s, M) PROVE LedgerInv(t, M, T)
  <2>1. /\ DOMAIN t = DOMAIN s /\ t.page = s.page /\ t.filter = s.filter /\ t.rows = s.rows /\ t.dlg = s.dlg
             /\ t.form = s.form /\ t.own = s.own
    BY <1>8 DEF LedgerInv
  <2>2. t.dlg.mode = "edit" => OwnForm(t, M)
    BY <1>8, <2>1 DEF OwnForm
  <2> QED BY <1>1, <1>8, <2>1, <2>2 DEF LedgerInv
<1> QED BY <1>2, <1>3, <1>4, <1>5, <1>6, <1>7, <1>8

\* The answer that fills the form of the dialog is not older than the dialog.
LEMMA OwnAnswered ==
  ASSUME srv \in Rows, Calls(net, srv), LedgerInv(ui, net, srv), ui.dlg.mode = "edit", NEW m, NEW d, Reply(m, d),
    CallOK(d, srv')
  PROVE  OwnForm(ui, net')
<1>1. /\ m \in net /\ net' = (net \ {m}) \cup {d} /\ d.op = m.op /\ d.row = m.row
      /\ OwnForm(ui, net) /\ ui.dlg.row \in Row /\ DlgOK(ui.dlg, srv)
  BY DEF Reply, LedgerInv
<1>2. ASSUME m.op = "get", ui.own = "no", d.res = "ok", NEW x \in d.rows PROVE ui.dlg.ver =< x.ver
  <2>1. m.row = ui.dlg.row
    BY <1>1, <1>2 DEF OwnForm
  <2>2. x.row = d.row
    BY <1>1, <1>2 DEF CallOK
  <2>3. PICK g: x \in Matching(g)
    BY <1>2 DEF Reply
  <2>4. x = Seen(x.row)
    BY <2>3, SeenTyped
  <2>5. x.ver = srv[x.row].ver
    BY <2>4 DEF Seen
  <2> QED BY <1>1, <2>1, <2>2, <2>5 DEF DlgOK
<1>3. ASSUME ui.own = "no"
      PROVE  /\ \A k \in net': k.op = "get" => k.row = ui.dlg.row
                  /\ (k.res = "ok" => \A x \in k.rows: ui.dlg.ver =< x.ver)
             /\ \A k, j \in net': k.op = "get" /\ j.op = "get" => k = j
  BY <1>1, <1>2, <1>3 DEF OwnForm
<1>4. ASSUME ui.own = "yes" PROVE (\A k \in net': k.op # "get") /\ ui.form.row = ui.dlg.row /\ ui.dlg.ver =< ui.form.ver
  BY <1>1, <1>4 DEF OwnForm
<1> QED BY <1>3, <1>4 DEF OwnForm

\* An answer of the back end keeps every page as it should be.
LEMMA ReplyKeeps ==
  ASSUME ConsoleInv, TableOK, NEW m, Answers(m)
  PROVE  ConsoleInv' /\ AcceptedOnCurrent
<1>1. PICK d: Reply(m, d) /\ CallOK(d, srv')
  BY DEF Answers
<1>2. PICK T \in Rows: T = srv' /\ Newer(srv, T)
  BY DEF TableOK
<1>3. PICK N, s: N = net' /\ N = (net \ {m}) \cup {d} /\ m \in net /\ d.op = m.op /\ d.ctx = m.ctx /\ s = ui /\ ui' = s
  BY <1>1 DEF Reply
<1>4. srv \in Rows /\ Calls(net, srv) /\ PageInv(s, net, srv)
  BY <1>3 DEF ConsoleInv
<1>5. AcceptedOnCurrent
  <2>1. SUFFICES ASSUME NEW a \in net \ net', NEW k \in net' \ net, a.op = "put", ~a.mixed, k.did
                 PROVE  a.form = [row |-> a.row, ver |-> srv[a.row].ver]
    BY DEF AcceptedOnCurrent
  <2>2. a = m /\ k = d
    BY <1>3, <2>1
  <2> QED BY <1>1, <2>1, <2>2 DEF Reply
<1>6. Calls(N, T)
  <2>1. \A k \in net: CallOK(k, T)
    BY <1>2, <1>4, CallGrows DEF Calls
  <2> QED BY <1>1, <1>2, <1>3, <2>1 DEF Calls
<1>7. PageInv(s, N, T)
  <2>1. \A k \in N: \E j \in net: k.ctx = j.ctx /\ k.op = j.op
    BY <1>3
  <2>2. DOMAIN s = DOMAIN s /\ \A f \in DOMAIN s \ {"ok", "fresh"}: s[f] = s[f]
    OBVIOUS
  <2>3. ASSUME LedgerInv(s, net, srv) PROVE LedgerInv(s, N, T)
    <3>1. s.dlg.mode = "edit" => OwnForm(s, N)
      BY <1>1, <1>3, <1>4, <2>3, OwnAnswered
    <3> QED BY <1>2, <1>4, <2>1, <2>2, <2>3, <3>1, PagesGrow
  <2>4. ASSUME ScreenInv(s, net, srv) PROVE ScreenInv(s, N, T)
    BY <1>1, <1>2, <1>3, <1>4, <2>4, ScreenReply
  <2>5. /\ TypesInv(s, net, srv) => TypesInv(s, N, T)
        /\ LayoutInv(s, net, srv) => LayoutInv(s, N, T)
        /\ RacksInv(s, net, srv) => RacksInv(s, N, T)
        /\ TemplatesInv(s, net, srv) => TemplatesInv(s, N, T)
        /\ TreeInv(s, net, srv) => TreeInv(s, N, T)
        /\ PdusInv(s, net, srv) => PdusInv(s, N, T)
    BY <1>2, <1>4, <2>1, <2>2, PagesGrow
  <2> QED BY <1>4, <2>3, <2>4, <2>5 DEF PageInv
<1> QED BY <1>2, <1>3, <1>5, <1>6, <1>7 DEF ConsoleInv

\* The history of a page does not matter.
LEMMA ExcusedStays ==
  ASSUME NEW s, NEW N, NEW S, PageInv(s, N, S)
  PROVE  DOMAIN Excused(s) = DOMAIN s /\ \A f \in DOMAIN s \ {"ok", "fresh"}: Excused(s)[f] = s[f]
BY DEF Excused

\* Another user's write keeps every page as it should be.
LEMMA ForeignKeeps ==
  ASSUME ConsoleInv, NEW r \in Row, Foreign(r)
  PROVE  ConsoleInv' /\ AcceptedOnCurrent
<1>1. TableOK /\ ui' = Excused(ui) /\ net' = net /\ \A x \in Row: srv'[x].up = srv[x].up
  BY ForeignTable DEF ConsoleInv
<1>2. PICK T \in Rows: T = srv' /\ Newer(srv, T) /\ \A x \in Row: T[x].up = srv[x].up
  BY <1>1 DEF TableOK
<1>3. PICK s, t, N: s = ui /\ t = Excused(s) /\ ui' = t /\ N = net /\ net' = N
  BY <1>1
<1>4. srv \in Rows /\ Calls(N, srv) /\ PageInv(s, N, srv)
  BY <1>3 DEF ConsoleInv
<1>5. AcceptedOnCurrent
  BY <1>1 DEF AcceptedOnCurrent
<1>6. Calls(N, T)
  BY <1>2, <1>4, CallGrows DEF Calls
<1>7. DOMAIN t = DOMAIN s /\ \A f \in DOMAIN s \ {"ok", "fresh"}: t[f] = s[f]
  BY <1>3, <1>4, ExcusedStays
<1>8. PageInv(t, N, T)
  <2>1. \A k \in N: \E j \in N: k.ctx = j.ctx /\ k.op = j.op
    OBVIOUS
  <2>2. ASSUME LedgerInv(s, N, srv) PROVE LedgerInv(t, N, T)
    <3>1. s.dlg.mode = "edit" => OwnForm(s, N)
      BY <2>2 DEF LedgerInv
    <3> QED BY <1>2, <1>4, <1>7, <2>1, <2>2, <3>1, PagesGrow
  <2>3. ASSUME ScreenInv(s, N, srv) PROVE ScreenInv(t, N, T)
    <3>1. SameKinds(srv, T)
      BY <1>2 DEF SameKinds
    <3>2. ScreenUi(s, T)
      BY <1>2, <1>4, <2>3, <3>1, ScreenUiGrows DEF ScreenInv
    <3>3. ScreenUi(t, T) /\ (SelOK(s, N) => SelOK(t, N)) /\ t.dragging = s.dragging
      <4>1. t.dragging = s.dragging
        BY <1>7, <3>2 DEF ScreenUi
      <4> QED BY <1>7, <3>2, <4>1, ScreenUiLike
    <3>4. ScreenNet(N, T)
      <4>1. ASSUME NEW k \in N PROVE ScreenCallOK(k, T)
        <5>1. CallOK(k, srv) /\ ScreenCallOK(k, srv)
          BY <1>4, <2>3 DEF Calls, ScreenInv, ScreenNet
        <5> QED BY <1>2, <1>4, <3>1, <5>1, ScreenCallStays
      <4> QED BY <2>3, <4>1 DEF ScreenInv, ScreenNet
    <3>5. DragOK(t, N)
      BY <2>3, <3>3 DEF ScreenInv, DragOK
    <3> QED BY <2>3, <3>3, <3>4, <3>5 DEF ScreenInv
  <2>4. /\ TypesInv(s, N, srv) => TypesInv(t, N, T)
        /\ LayoutInv(s, N, srv) => LayoutInv(t, N, T)
        /\ RacksInv(s, N, srv) => RacksInv(t, N, T)
        /\ TemplatesInv(s, N, srv) => TemplatesInv(t, N, T)
        /\ TreeInv(s, N, srv) => TreeInv(t, N, T)
        /\ PdusInv(s, N, srv) => PdusInv(t, N, T)
    BY <1>2, <1>4, <1>7, <2>1, PagesGrow
  <2> QED BY <1>4, <2>2, <2>3, <2>4 DEF PageInv
<1> QED BY <1>2, <1>3, <1>5, <1>6, <1>8 DEF ConsoleInv

\* Every step of the back end and of other users.
LEMMA WireKeeps ==
  ASSUME ConsoleInv, WireNext
  PROVE  ConsoleInv' /\ AcceptedOnCurrent
<1>0. srv \in Rows /\ Calls(net, srv)
  BY DEF ConsoleInv
<1>1. ASSUME NEW m \in net, ServeRead(m) \/ ServeWrite(m) \/ ServePost(m) \/ Fail(m) PROVE Answers(m) /\ TableOK
  BY <1>0, <1>1, ServeReadReply, ServeWriteReply, ServePostReply, FailReply DEF Calls
<1> QED BY <1>1, ReplyKeeps, ForeignKeeps DEF WireNext

-----------------------------------------------------------------------------
(* The first states                                                           *)

\* A page opens with one call.
LEMMA Opens ==
  ASSUME NEW s, NEW c, Sound(c), ui = Begin(s, {}), net = Add({}, c)
  PROVE  Calls(net, srv) /\ Alike(ui, s) /\ \E d: net = {d} /\ SameCall(d, c)
<1>1. PICK d: Add({}, c) = {} \cup {d} /\ SameCall(d, c)
  BY AddOne DEF Sound, CallOK
<1>2. Calls(net, srv)
  BY <1>1, SameCallOK DEF Calls, Sound
<1> QED BY <1>1, <1>2, BeginAlike

\* The call a page opens with is sound.
LEMMA ListOpens ==
  ASSUME NEW c, NEW ctx, NEW u, u \in Group \cup {All}, Asks(c, "list", NoRow, 0, Blank, u)
  PROVE  Sound(c)
BY ListAsked, SetsTyped

\* A dialog that names nothing.
LEMMA NothingNamed ==
  ASSUME srv \in Rows, NEW d, d.row = NoRow, d.ver = 0
  PROVE  DlgOK(d, srv) /\ FormOK(Blank, srv)
BY SetsTyped, BlankOK DEF DlgOK

\* The three tabs of the device page.
LEMMA DevicesOpen ==
  ASSUME srv \in Rows, Devices!Mounted
  PROVE  Calls(net, srv) /\ (LedgerInv(ui, net, srv) \/ TypesInv(ui, net, srv) \/ LayoutInv(ui, net, srv))
<1>0. Devices!NoRow = NoRow
  BY DEF Devices!NoRow, NoRow
<1>1. CASE ui = Devices!Begin(Devices!Ledger, {}) /\ net = Devices!Add({}, Devices!FetchDevices(Devices!Ledger))
  <2>1. PICK s, c: s = Devices!Ledger /\ c = Devices!FetchDevices(s) /\ ui = Begin(s, {}) /\ net = Add({}, c)
    BY <1>1, DevicesSame
  <2>2. /\ DOMAIN s = {"page", "filter", "pg", "rows", "total", "loading", "ok", "dlg", "form", "own"}
        /\ s.page = "devices" /\ s.filter = All /\ s.rows = {} /\ s.dlg = [mode |-> "closed", row |-> NoRow, ver |-> 0]
        /\ s.form = Blank
    BY <1>0, <2>1, DevicesSame DEF Devices!Ledger, Devices!Closed
  <2>3. Asks(c, "list", NoRow, 0, Blank, All) /\ c.ctx = "devices"
    BY <1>0, <2>1, <2>2, DevicesSame DEF Devices!FetchDevices, Devices!DeviceCall, Call, Asks, CallFields
  <2>4. Sound(c)
    BY <2>3, ListOpens
  <2>5. Calls(net, srv) /\ Alike(ui, s) /\ \E d: net = {d} /\ SameCall(d, c)
    BY <2>1, <2>4, Opens
  <2>6. PICK d: net = {d} /\ d.op = "list" /\ d.ctx = "devices"
    BY <2>3, <2>5 DEF SameCall, Asks
  <2>7. /\ ui.page = "devices" /\ ui.filter = All /\ ui.rows = {}
             /\ ui.dlg = [mode |-> "closed", row |-> NoRow, ver |-> 0]
        /\ ui.form = Blank /\ DOMAIN ui = DOMAIN s
    BY <2>2, <2>5 DEF Alike
  <2>8. DlgOK(ui.dlg, srv) /\ FormOK(ui.form, srv) /\ DOMAIN ui.dlg = {"mode", "row", "ver"} /\ ui.dlg.mode = "closed"
    BY <2>7, NothingNamed
  <2>9. LedgerInv(ui, net, srv)
    BY <2>2, <2>6, <2>7, <2>8 DEF LedgerInv, SeenAll
  <2> QED BY <2>5, <2>9
<1>2. CASE ui = Devices!Begin(Devices!Types, {}) /\ net = Devices!Add({}, Devices!FetchTypes)
  <2>1. PICK s, c: s = Devices!Types /\ c = Devices!FetchTypes /\ ui = Begin(s, {}) /\ net = Add({}, c)
    BY <1>2, DevicesSame
  <2>2. /\ DOMAIN s = {"page", "rows", "loading", "ok", "dlg", "form"}
        /\ s.page = "types" /\ s.rows = {} /\ s.dlg = [mode |-> "closed", row |-> NoRow, ver |-> 0] /\ s.form = Blank
    BY <1>0, <2>1, DevicesSame DEF Devices!Types, Devices!Closed
  <2>3. Asks(c, "list", NoRow, 0, Blank, All) /\ c.ctx = "types"
    BY <1>0, <2>1, DevicesSame DEF Devices!FetchTypes, Devices!TypeCall, Call, Asks, CallFields
  <2>4. Sound(c)
    BY <2>3, ListOpens
  <2>5. Calls(net, srv) /\ Alike(ui, s) /\ \E d: net = {d} /\ SameCall(d, c)
    BY <2>1, <2>4, Opens
  <2>6. PICK d: net = {d} /\ d.ctx = "types"
    BY <2>3, <2>5 DEF SameCall
  <2>7. /\ ui.page = "types" /\ ui.rows = {} /\ ui.dlg = [mode |-> "closed", row |-> NoRow, ver |-> 0]
        /\ ui.form = Blank /\ DOMAIN ui = DOMAIN s
    BY <2>2, <2>5 DEF Alike
  <2>8. DlgOK(ui.dlg, srv) /\ FormOK(ui.form, srv) /\ DOMAIN ui.dlg = {"mode", "row", "ver"} /\ ui.dlg.mode = "closed"
    BY <2>7, NothingNamed
  <2>9. TypesInv(ui, net, srv)
    BY <2>2, <2>6, <2>7, <2>8 DEF TypesInv, SeenAll
  <2> QED BY <2>5, <2>9
<1>3. ASSUME NEW c, c = Devices!FetchRacks PROVE Sound(c) /\ c.ctx = "racks"
  <2>1. Asks(c, "list", NoRow, 0, Blank, All) /\ c.ctx = "racks"
    BY <1>3, DevicesSame DEF Devices!FetchRacks, Call, Asks, CallFields
  <2> QED BY <2>1, ListOpens
<1>4. CASE ui = Devices!Layout /\ net = Devices!Add({}, Devices!FetchRacks)
  <2>1. PICK c: c = Devices!FetchRacks /\ net = Add({}, c) /\ Sound(c) /\ c.ctx = "racks"
    BY <1>3, <1>4, DevicesSame
  <2>2. PICK d: Add({}, c) = {} \cup {d} /\ SameCall(d, c)
    BY <2>1, AddOne DEF Sound, CallOK
  <2>3. Calls(net, srv) /\ \A k \in net: k.ctx = "racks"
    BY <2>1, <2>2, SameCallOK DEF Calls, Sound, SameCall
  <2>4. DOMAIN ui = {"page", "rows", "sel", "layout", "loading", "ok"} /\ ui.page = "ulayout" /\ ui.rows = {}
          /\ ui.sel = NoRow
    BY <1>0, <1>4 DEF Devices!Layout
  <2> QED BY <2>3, <2>4, SetsTyped DEF LayoutInv, SeenAll
<1>5. ASSUME NEW r \in Row, ui = [Devices!Layout EXCEPT !.sel = r, !.loading = TRUE],
             net = Devices!Add(Devices!Add({}, Devices!FetchRacks), Devices!FetchULayout(r))
      PROVE  Calls(net, srv) /\ LayoutInv(ui, net, srv)
  <2>1. PICK c, g: c = Devices!FetchRacks /\ g = Devices!FetchULayout(r) /\ net = Add(Add({}, c), g) /\ Sound(c)
          /\ c.ctx = "racks"
    BY <1>3, <1>5, DevicesSame
  <2>2. Asks(g, "get", r, 0, Blank, All) /\ g.ctx = "layout"
    BY <2>1, DevicesSame DEF Devices!FetchULayout, Call, Asks, CallFields
  <2>3. Sound(g)
    BY <2>2, GetAsked, SetsTyped
  <2>4. PICK d: Add({}, c) = {} \cup {d} /\ SameCall(d, c)
    BY <2>1, AddOne DEF Sound, CallOK
  <2>5. PICK N: N = Add({}, c) /\ net = Add(N, g)
    BY <2>1
  <2>6. PICK e: Add(N, g) = N \cup {e} /\ SameCall(e, g)
    BY <2>3, AddOne DEF Sound, CallOK
  <2>7. CallOK(d, srv) /\ CallOK(e, srv)
    BY <2>1, <2>3, <2>4, <2>6, SameCallOK DEF Sound
  <2>8. Calls(net, srv) /\ \A k \in net: k.ctx \in {"racks", "layout"}
    BY <2>1, <2>2, <2>4, <2>5, <2>6, <2>7 DEF Calls, SameCall
  <2>9. PICK s: s = Devices!Layout
    OBVIOUS
  <2>10. DOMAIN s = {"page", "rows", "sel", "layout", "loading", "ok"} /\ s.page = "ulayout" /\ s.rows = {}
    BY <2>9 DEF Devices!Layout
  <2>11. DOMAIN ui = DOMAIN s /\ ui.page = "ulayout" /\ ui.rows = {} /\ ui.sel = r
    BY <1>5, <2>9, <2>10
  <2> QED BY <2>8, <2>10, <2>11, SetsTyped DEF LayoutInv, SeenAll
<1> QED BY <1>1, <1>2, <1>4, <1>5 DEF Devices!Mounted

\* The list of racks.
LEMMA RacksOpen ==
  ASSUME srv \in Rows, RackList!Mounted
  PROVE  Calls(net, srv) /\ RacksInv(ui, net, srv)
<1>0. RackList!NoRow = NoRow
  BY DEF RackList!NoRow, NoRow
<1>1. PICK s, c: s = RackList!Racks /\ c = RackList!FetchTree("tree") /\ ui = Begin(s, {}) /\ net = Add({}, c)
  BY RackListSame DEF RackList!Mounted
<1>2. /\ DOMAIN s = {"page", "rows", "room", "pg", "dlg", "form", "target", "saving", "loading", "ok"}
      /\ s.page = "racks" /\ s.rows = {} /\ s.room = NoRow /\ s.target = NoRow /\ s.form = Blank
      /\ s.dlg = [mode |-> "closed", row |-> NoRow, ver |-> 0]
  BY <1>0, <1>1, RackListSame DEF RackList!Racks, RackList!Closed
<1>3. Asks(c, "list", NoRow, 0, Blank, All)
  BY <1>1, RackListSame DEF RackList!FetchTree, Call, Asks, CallFields
<1>4. Sound(c)
  BY <1>3, ListOpens
<1>5. Calls(net, srv) /\ Alike(ui, s)
  BY <1>1, <1>4, Opens
<1>6. /\ DOMAIN ui = DOMAIN s /\ ui.page = "racks" /\ ui.rows = {} /\ ui.room = NoRow /\ ui.target = NoRow
           /\ ui.form = Blank
      /\ ui.dlg = [mode |-> "closed", row |-> NoRow, ver |-> 0]
  BY <1>2, <1>5 DEF Alike
<1>7. DlgOK(ui.dlg, srv) /\ FormOK(ui.form, srv) /\ DOMAIN ui.dlg = {"mode", "row", "ver"} /\ ui.dlg.mode = "closed"
  BY <1>6, NothingNamed
<1> QED BY <1>2, <1>5, <1>6, <1>7, SetsTyped DEF RacksInv, SeenAll

\* The list of templates.
LEMMA TemplatesOpen ==
  ASSUME srv \in Rows, Templates!Mounted
  PROVE  Calls(net, srv) /\ TemplatesInv(ui, net, srv)
<1>0. Templates!NoRow = NoRow
  BY DEF Templates!NoRow, NoRow
<1>1. PICK s, c: s = Templates!Templates /\ c = Templates!FetchTemplates("templates") /\ ui = Begin(s, {})
        /\ net = Add({}, c)
  BY TemplatesSame DEF Templates!Mounted
<1>2. /\ DOMAIN s = {"page", "rows", "dlg", "form", "saving", "loading", "ok"}
      /\ s.page = "templates" /\ s.rows = {} /\ s.form = Blank
      /\ s.dlg = [mode |-> "closed", row |-> NoRow, ver |-> 0]
  BY <1>0, <1>1, TemplatesSame DEF Templates!Templates, Templates!Closed
<1>3. Asks(c, "list", NoRow, 0, Blank, All)
  BY <1>0, <1>1, TemplatesSame DEF Templates!FetchTemplates, Templates!TemplateCall, Call, Asks, CallFields
<1>4. Sound(c)
  BY <1>3, ListOpens
<1>5. Calls(net, srv) /\ Alike(ui, s)
  BY <1>1, <1>4, Opens
<1>6. /\ DOMAIN ui = DOMAIN s /\ ui.page = "templates" /\ ui.rows = {} /\ ui.form = Blank
      /\ ui.dlg = [mode |-> "closed", row |-> NoRow, ver |-> 0]
  BY <1>2, <1>5 DEF Alike
<1>7. DlgOK(ui.dlg, srv) /\ FormOK(ui.form, srv) /\ DOMAIN ui.dlg = {"mode", "row", "ver"} /\ ui.dlg.mode = "closed"
  BY <1>6, NothingNamed
<1> QED BY <1>2, <1>5, <1>6, <1>7 DEF TemplatesInv, SeenAll

\* The hierarchy.
LEMMA TreeOpens ==
  ASSUME srv \in Rows, Tree!Mounted
  PROVE  Calls(net, srv) /\ TreeInv(ui, net, srv)
<1>0. Tree!NoRow = NoRow
  BY DEF Tree!NoRow, NoRow
<1>1. PICK s, c: s = Tree!Hierarchy /\ c = Tree!FetchTree("first") /\ ui = Begin(s, {}) /\ net = Add({}, c)
  BY TreeSame DEF Tree!Mounted
<1>2. /\ DOMAIN s = {"page", "rows", "dc", "room", "dlg", "form", "loading", "ok"}
      /\ s.page = "hierarchy" /\ s.rows = {} /\ s.dc = NoRow /\ s.room = NoRow /\ s.form = Blank
      /\ s.dlg = [mode |-> "closed", row |-> NoRow, ver |-> 0, target |-> NoRow]
  BY <1>0, <1>1, TreeSame DEF Tree!Hierarchy, Tree!Closed
<1>3. Asks(c, "list", NoRow, 0, Blank, All)
  BY <1>1, TreeSame DEF Tree!FetchTree, Call, Asks, CallFields
<1>4. Sound(c)
  BY <1>3, ListOpens
<1>5. Calls(net, srv) /\ Alike(ui, s)
  BY <1>1, <1>4, Opens
<1>6. /\ DOMAIN ui = DOMAIN s /\ ui.page = "hierarchy" /\ ui.rows = {} /\ ui.dc = NoRow /\ ui.room = NoRow
           /\ ui.form = Blank
      /\ ui.dlg = [mode |-> "closed", row |-> NoRow, ver |-> 0, target |-> NoRow]
  BY <1>2, <1>5 DEF Alike
<1>7. /\ DlgOK(ui.dlg, srv) /\ FormOK(ui.form, srv) /\ DOMAIN ui.dlg = {"mode", "row", "ver", "target"}
           /\ ui.dlg.mode = "closed"
      /\ ui.dlg.target = NoRow
  BY <1>6, NothingNamed
<1> QED BY <1>2, <1>5, <1>6, <1>7, SetsTyped DEF TreeInv, SeenAll

\* The panel of a rack's PDUs.
LEMMA PdusOpen ==
  ASSUME srv \in Rows, Power!Mounted
  PROVE  Calls(net, srv) /\ PdusInv(ui, net, srv)
<1>0. Power!NoRow = NoRow
  BY DEF Power!NoRow, NoRow
<1>1. PICK g, s, c: g \in Group /\ s = Power!Pdus(g) /\ c = Power!Fetch("pdus", g) /\ ui = Begin(s, {})
        /\ net = Add({}, c)
  BY PdusSame DEF Power!Mounted
<1>2. /\ DOMAIN s = {"page", "rack", "rows", "socks", "busy", "conns", "dlg", "form", "saving", "loading", "ok"}
      /\ s.page = "pdus" /\ s.rack = g /\ s.rows = {} /\ s.socks = {} /\ s.conns = {} /\ s.form = Blank
      /\ s.dlg = [mode |-> "closed", row |-> NoRow, ver |-> 0, up |-> NoRow]
  BY <1>0, <1>1, PdusSame DEF Power!Pdus, Power!Closed
<1>3. Asks(c, "list", NoRow, 0, Blank, g)
  BY <1>1, PdusSame DEF Power!Fetch, Call, Asks, CallFields
<1>4. Sound(c)
  BY <1>1, <1>3, ListOpens
<1>5. Calls(net, srv) /\ Alike(ui, s)
  BY <1>1, <1>4, Opens
<1>6. /\ DOMAIN ui = DOMAIN s /\ ui.page = "pdus" /\ ui.rack = g /\ ui.rows = {} /\ ui.socks = {} /\ ui.conns = {}
           /\ ui.form = Blank
      /\ ui.dlg = [mode |-> "closed", row |-> NoRow, ver |-> 0, up |-> NoRow]
  BY <1>2, <1>5 DEF Alike
<1>7. /\ DlgOK(ui.dlg, srv) /\ FormOK(ui.form, srv) /\ DOMAIN ui.dlg = {"mode", "row", "ver", "up"} /\ ui.dlg.up = NoRow
  BY <1>6, NothingNamed
<1> QED BY <1>1, <1>2, <1>5, <1>6, <1>7, SetsTyped DEF PdusInv, SeenAll

\* The screen.
LEMMA ScreenOpens ==
  ASSUME srv \in Rows, Screen!OnMounted
  PROVE  Calls(net, srv) /\ ScreenInv(ui, net, srv)
<1>0. Screen!NoRow = NoRow
  BY DEF Screen!NoRow, NoRow
<1>1. PICK s, b, c: /\ s = Screen!Screen /\ b = Begin(s, {}) /\ c = Screen!FetchTree("tree")
                         /\ ui = [b EXCEPT !.fresh = TRUE] /\ net = Add({}, c)
  BY ScreenSame DEF Screen!OnMounted
<1>2. /\ DOMAIN s = {"page", "rows", "room", "devs", "sel", "hidden", "dlg", "form", "cand", "saving", "dragging",
           "exporting",
                     "loading", "ok", "fresh"}
      /\ s.page = "screen" /\ s.rows = {} /\ s.room = NoRow /\ s.devs = {} /\ s.sel = Blank /\ s.cand = {}
           /\ s.form = Blank
      /\ s.dragging = 0 /\ s.dlg = Screen!Closed
  BY <1>0, <1>1, ScreenSame DEF Screen!Screen
<1>3. Alike(b, s)
  BY <1>1, BeginAlike
<1>4. DOMAIN b = DOMAIN s /\ \A f \in DOMAIN s \ {"loading", "ok"}: b[f] = s[f]
  BY <1>3 DEF Alike
<1>5. DOMAIN ui = DOMAIN b /\ \A f \in DOMAIN b \ {"fresh"}: ui[f] = b[f]
  BY <1>1, <1>2, <1>4
<1>6. /\ DOMAIN ui = DOMAIN s /\ ui.page = "screen" /\ ui.rows = {} /\ ui.room = NoRow /\ ui.devs = {}
           /\ ui.sel = Blank /\ ui.cand = {}
      /\ ui.form = Blank /\ ui.dragging = 0 /\ ui.dlg = Screen!Closed
  BY <1>2, <1>4, <1>5
<1>7. ScreenDlgOK(ui.dlg, srv)
  BY <1>6, DialogsOK
<1>8. ScreenUi(ui, srv)
  BY <1>2, <1>6, <1>7, BlankOK, SetsTyped DEF ScreenUi, ScreenRows, SeenAll, Blank
<1>9. Calm(c) /\ c.ctx = "tree" /\ c.rows = {}
  <2>1. Asks(c, "list", NoRow, 0, Blank, All) /\ c.ctx = "tree"
    BY <1>0, <1>1, ScreenSame DEF Screen!FetchTree, Screen!ScreenCall, Call, Asks, CallFields
  <2> QED BY <1>1, <2>1, TreeCalled DEF Asks
<1>10. PICK d: Add({}, c) = {} \cup {d} /\ SameCall(d, c)
  BY <1>9, AddOne DEF Calm, Sound, CallOK
<1>11. CallOK(d, srv) /\ ScreenCallOK(d, srv) /\ d.ctx = "tree" /\ d.op # "layout"
  BY <1>9, <1>10, SameCallOK DEF Calm, Sound, SameCall, ScreenCallOK
<1>12. net = {d} /\ IsFiniteSet(net)
  <2>1. net = {d}
    BY <1>1, <1>10
  <2> QED BY <2>1, FS_Singleton
<1>13. Calls(net, srv) /\ ScreenNet(net, srv)
  BY <1>11, <1>12 DEF Calls, ScreenNet, Batched
<1>14. SelOK(ui, net) /\ DragOK(ui, net)
  BY <1>6, <1>11, <1>12 DEF SelOK, DragOK
<1> QED BY <1>8, <1>13, <1>14 DEF ScreenInv

\* Every page opens as it should be.
LEMMA StartKeeps == Start => ConsoleInv
BY DevicesOpen, RacksOpen, TemplatesOpen, TreeOpens, PdusOpen, ScreenOpens DEF Start, ConsoleInv, PageInv

-----------------------------------------------------------------------------
(* Every step                                                                 *)

\* The invariant that holds is the one of the page that is open.
LEMMA PageOpen ==
  ASSUME PageInv(ui, net, srv)
  PROVE  /\ OpenPage = "devices" => LedgerInv(ui, net, srv) \/ TypesInv(ui, net, srv) \/ LayoutInv(ui, net, srv)
         /\ OpenPage = "racks" => RacksInv(ui, net, srv)
         /\ OpenPage = "templates" => TemplatesInv(ui, net, srv)
         /\ OpenPage = "hierarchy" => TreeInv(ui, net, srv)
         /\ OpenPage = "pdus" => PdusInv(ui, net, srv)
         /\ OpenPage = "screen" => ScreenInv(ui, net, srv)
<1>1. OpenPage = IF ui.page \in {"devices", "types", "ulayout"} THEN "devices" ELSE ui.page
  BY DEF OpenPage
<1>2. /\ LedgerInv(ui, net, srv) => ui.page = "devices"
      /\ TypesInv(ui, net, srv) => ui.page = "types"
      /\ LayoutInv(ui, net, srv) => ui.page = "ulayout"
      /\ RacksInv(ui, net, srv) => ui.page = "racks"
      /\ TemplatesInv(ui, net, srv) => ui.page = "templates"
      /\ TreeInv(ui, net, srv) => ui.page = "hierarchy"
      /\ PdusInv(ui, net, srv) => ui.page = "pdus"
      /\ ScreenInv(ui, net, srv) => ui.page = "screen"
  BY DEF LedgerInv, TypesInv, LayoutInv, RacksInv, TemplatesInv, TreeInv, PdusInv, ScreenInv, ScreenUi
<1> QED BY <1>1, <1>2 DEF PageInv

\* Every step keeps it so, and accepts no update on content that was not seen.
LEMMA NextKeeps ==
  ASSUME ConsoleInv, [Next]_wire
  PROVE  ConsoleInv' /\ [AcceptedOnCurrent]_wire
<1>0. srv \in Rows /\ Calls(net, srv) /\ PageInv(ui, net, srv)
  BY DEF ConsoleInv
<1>1. CASE WireNext
  BY <1>1, WireKeeps
<1>2. ASSUME CallsOK, UNCHANGED srv, PageInv(ui', net', srv) PROVE ConsoleInv' /\ AcceptedOnCurrent
  <2>1. PICK T: T = srv' /\ T = srv
    BY <1>2
  <2> QED BY <1>2, <2>1 DEF CallsOK, ConsoleInv
<1>3. ASSUME \E R, D: Handled(R, D), PageInv(ui', net', srv) PROVE ConsoleInv' /\ AcceptedOnCurrent
  <2>1. CallsOK /\ UNCHANGED srv
    BY <1>0, <1>3, HandledOK DEF Handled
  <2> QED BY <1>2, <1>3, <2>1
<1>4. CASE OpenPage = "devices" /\ Devices!PageNext
  <2>1. CASE LedgerInv(ui, net, srv)
    BY <1>0, <1>3, <1>4, <2>1, LedgerStep DEF LedgerKept, PageInv
  <2>2. CASE TypesInv(ui, net, srv)
    BY <1>0, <1>3, <1>4, <2>2, TypesStep DEF TypesKept, PageInv
  <2>3. CASE LayoutInv(ui, net, srv)
    BY <1>0, <1>3, <1>4, <2>3, LayoutStep DEF LayoutKept, PageInv
  <2> QED BY <1>0, <1>4, <2>1, <2>2, <2>3, PageOpen
<1>5. CASE OpenPage = "racks" /\ RackList!PageNext
  BY <1>0, <1>3, <1>5, PageOpen, RacksStep DEF RacksKept, PageInv
<1>6. CASE OpenPage = "templates" /\ Templates!PageNext
  BY <1>0, <1>3, <1>6, PageOpen, TemplatesStep DEF TemplatesKept, PageInv
<1>7. CASE OpenPage = "hierarchy" /\ Tree!PageNext
  BY <1>0, <1>3, <1>7, PageOpen, TreeStep DEF TreeKept, PageInv
<1>8. CASE OpenPage = "pdus" /\ Power!PageNext
  BY <1>0, <1>3, <1>8, PageOpen, PdusStep DEF PdusKept, PageInv
<1>9. CASE OpenPage = "screen" /\ Screen!PageNext
  BY <1>0, <1>2, <1>9, PageOpen, ScreenStep DEF ScreenKept, PageInv
<1>10. CASE UNCHANGED wire
  <2>1. PICK T, N, u: T = srv' /\ T = srv /\ N = net' /\ N = net /\ u = ui' /\ u = ui
    BY <1>10 DEF wire
  <2>2. ConsoleInv'
    BY <1>0, <2>1 DEF ConsoleInv
  <2> QED BY <1>10, <2>2
<1> QED BY <1>1, <1>4, <1>5, <1>6, <1>7, <1>8, <1>9, <1>10 DEF Next

-----------------------------------------------------------------------------
(* What the pages keep                                                        *)

\* On any table, with whatever calls in flight, the state of the page that is open
\* agrees with the back end's as the handlers need: this is inductive.
THEOREM ConsoleInvariant == Spec => []ConsoleInv
<1>1. ConsoleInv /\ [Next]_wire => ConsoleInv'
  BY NextKeeps
<1> QED BY <1>1, StartKeeps, PTL DEF Spec

\* The rows of the back end and the calls of api.ts keep their shape.
THEOREM CallsTyped == Spec => []WireOK
<1>1. ConsoleInv => WireOK
  <2> SUFFICES ASSUME ConsoleInv PROVE WireOK
    OBVIOUS
  <2>1. srv \in Rows
    BY DEF ConsoleInv
  <2>2. ASSUME NEW m \in net
        PROVE  /\ m.op \in {"list", "get", "layout", "put", "overwrite", "post", "copy", "delete", "move",
                            "mount", "shift", "unmount"}
               /\ m.res \in {"pending", "ok", "conflict", "failed"}
               /\ m.row \in Row \cup {NoRow} /\ m.form.row \in Row \cup {NoRow}
               /\ m.op \in {"move", "mount", "shift"} => m.up \in Row \cup {All}
    <3>1. CallOK(m, srv)
      BY DEF ConsoleInv, Calls
    <3> QED BY <3>1 DEF CallOK, FormOK, Op, Res, Ref
  <2> QED BY <2>1, <2>2 DEF WireOK
<1> QED BY <1>1, ConsoleInvariant, PTL

\* No page repeats by itself a creation that was executed: a save that answers
\* "code taken" is sent again only because nothing has been created.
THEOREM RetriesAreSafe == Spec => []RetriesCreateNothing
<1>1. ConsoleInv => RetriesCreateNothing
  BY DEF ConsoleInv, Calls, CallOK, RetriesCreateNothing
<1> QED BY <1>1, ConsoleInvariant, PTL

\* On every page and in every order of answers, an update that the back end accepts
\* replaces the content its form was filled from, when that was done by the read of
\* its own dialog.  Saves before that read is answered, or while the answer to an
\* earlier dialog may still come, and an editor of the screen that holds another
\* device, are left out (mixed).
THEOREM UpdatesAreSeen == Spec => NoLostUpdate
<1>1. ConsoleInv /\ [Next]_wire => [AcceptedOnCurrent]_wire
  BY NextKeeps
<1> QED BY <1>1, ConsoleInvariant, PTL DEF Spec, NoLostUpdate

\* What the racks page filters by, what the hierarchy has selected, and, between its
\* loads, what the screen has selected is in the tree the page shows.
THEOREM SelectionsShown == Spec => []SelectionExists
<1>1. ASSUME ConsoleInv PROVE SelectionExists
  <2>0. PageInv(ui, net, srv)
    BY <1>1 DEF ConsoleInv
  <2>1. OpenPage = "racks" => RackList!SelectionExists
    BY <2>0, PageOpen DEF RacksInv, RackList!SelectionExists, RackList!Rooms, RackList!NoRow, NoRow
  <2>2. OpenPage = "hierarchy" => Tree!SelectionExists
    BY <2>0, PageOpen DEF TreeInv, Tree!SelectionExists, Tree!SelectedDc, Tree!SelectedRoom, Tree!Centres, Tree!Rooms,
       Tree!Kids,
                          Tree!NoRow, NoRow
  <2>3. OpenPage = "screen" => Screen!SelectionExists
    <3>1. SUFFICES ASSUME SelOK(ui, net), ui.sel # Blank, ~Screen!Waiting("layout", net)
            PROVE Screen!Has(Screen!Racks(ui), ui.sel.row)
      BY <2>0, PageOpen, ScreenSame DEF ScreenInv, Screen!SelectionExists
    <3> QED BY <3>1 DEF SelOK, Screen!Waiting, Screen!Has, Screen!Racks
  <2> QED BY <2>1, <2>2, <2>3 DEF SelectionExists
<1>2. ConsoleInv => SelectionExists
  BY <1>1
<1> QED BY <1>2, ConsoleInvariant, PTL
=============================================================================
