----------------------------- MODULE ShownProofs -----------------------------
(***************************************************************************)
(* What the pages of the console show: once every call has been answered,   *)
(* a page that nothing excuses shows what the back end holds.  The table    *)
(* and the loads come first, then the pages with one list, then the screen, *)
(* with its two stages of loads and what it keeps of its racks.             *)
(***************************************************************************)
EXTENDS ConsoleProofs

-----------------------------------------------------------------------------
(* What the lists show: the table                                             *)

\* The lists of a table S, as Matching gives those of the back end.
UpIn(S, x) == IF x \in Row THEN S[x].up ELSE All
SeenIn(S, r) == [row |-> r, ver |-> S[r].ver, up |-> S[r].up]
Under(S, g, x) == g \in {All, UpIn(S, x), UpIn(S, UpIn(S, x)), UpIn(S, UpIn(S, UpIn(S, x)))}
Listed(S, g) == {SeenIn(S, r): r \in {x \in Row: S[x].live /\ Under(S, g, x)}}

\* They are those of the back end now.
LEMMA ListedNow == \A g: Matching(g) = Listed(srv, g)
<1>1. \A x: Up(x) = UpIn(srv, x)
  BY DEF Up, UpIn
<1>2. \A r: Seen(r) = SeenIn(srv, r)
  BY DEF Seen, SeenIn
<1> QED BY <1>1, <1>2 DEF Matching, Listed, Live, Under

\* The whole list has every live row.
LEMMA ListedAll ==
  ASSUME NEW S
  PROVE  Listed(S, All) = {SeenIn(S, r): r \in {x \in Row: S[x].live}}
BY DEF Listed, Under

\* The page that is no page is the whole list.
LEMMA WholeSlice == \A X: Slice(X, 0) = X
BY DEF Slice

\* A call that is executed: what it writes, and on which conditions.
Executed(m) ==
  \/ /\ m.op \in {"put", "overwrite", "move", "mount", "shift", "unmount"} /\ m.row \in Live
     /\ m.op \in {"move", "mount", "shift"} => m.up \in Live
     /\ Writable({m.row}) /\ srv' = Written({m.row}, TRUE, m.up)
  \/ /\ m.op = "delete" /\ m.row \in Live /\ ~InUse(m.row)
     /\ Writable(Erased(m.row)) /\ srv' = Written(Erased(m.row), FALSE, m.up)
  \/ /\ m.op \in {"post", "copy"} /\ {Target(m)} \cap Row \subseteq Live
     /\ \E r \in Row: srv[r] = Slot(Target(m)) /\ srv' = [srv EXCEPT ![r] = [live |-> TRUE, ver |-> 1, up |-> @.up]]
Reads == {"list", "get", "layout"}

\* The call m is answered by d, which tells what the table holds.
Told(m, d) ==
  /\ m \in net /\ m.res = "pending" /\ d.res # "pending" /\ net' = (net \ {m}) \cup {d} /\ ui' = ui
  /\ d.op = m.op /\ d.ctx = m.ctx /\ d.row = m.row
  /\ (m.op = "layout" => d.page = m.page) /\ (m.op = "post" => d.up = m.up)
  /\ m.op = "list" /\ d.res = "ok" => d.rows = Slice(Listed(srv, m.up), m.page)
  /\ m.op = "layout" /\ d.res = "ok" => d.rows = Listed(srv, m.row)
  /\ m.op = "get" /\ d.res = "ok" => d.rows = {SeenIn(srv, m.row)} /\ m.row \in Live
  /\ d.res # "ok" => d.rows = {}
  /\ (UNCHANGED srv /\ (d.did => m.op \in Reads)) \/ (d.did /\ Executed(m) /\ m.op \notin Reads)

\* Answer makes one answer, with what it is given.
LEMMA AnswerMakes ==
  ASSUME NEW m, NEW r, NEW rows, NEW total, NEW did, Answer(m, r, rows, total, did)
  PROVE  \E d: /\ net' = (net \ {m}) \cup {d} /\ d.op = m.op /\ d.ctx = m.ctx /\ d.row = m.row /\ d.res = r /\ d.rows = rows
               /\ d.did = did /\ (m.op = "layout" => d.page = m.page) /\ (m.op = "post" => d.up = m.up)
<1>1. PICK c: /\ c = [Call EXCEPT !.op = m.op, !.ctx = m.ctx, !.row = m.row, !.again = m.again,
                   !.up = IF m.op = "post" THEN m.up ELSE All,
                                     !.page = IF m.op = "layout" THEN m.page ELSE 0,
                                     !.res = r, !.rows = rows, !.total = total, !.did = did]
              /\ net' = Add(net \ {m}, c)
  BY DEF Answer
<1>2. /\ DOMAIN c = CallFields
      /\ c.op = m.op /\ c.ctx = m.ctx /\ c.row = m.row /\ c.res = r /\ c.rows = rows /\ c.did = did
      /\ c.up = (IF m.op = "post" THEN m.up ELSE All)
      /\ c.page = (IF m.op = "layout" THEN m.page ELSE 0)
  BY <1>1 DEF Call, CallFields
<1>3. PICK d: Add(net \ {m}, c) = (net \ {m}) \cup {d} /\ SameCall(d, c)
  BY <1>2, AddOne
<1>4. net' = (net \ {m}) \cup {d}
  BY <1>1, <1>3
<1>5. d.op = c.op /\ d.ctx = c.ctx /\ d.row = c.row /\ d.res = c.res /\ d.rows = c.rows /\ d.did = c.did
  BY <1>3 DEF SameCall
<1>6. d.up = c.up /\ d.page = c.page
  BY <1>3 DEF SameCall
<1>7. (m.op = "layout" => d.page = m.page) /\ (m.op = "post" => d.up = m.up)
  BY <1>2, <1>6
<1>8. d.op = m.op /\ d.ctx = m.ctx /\ d.row = m.row /\ d.res = r /\ d.rows = rows /\ d.did = did
  BY <1>2, <1>5
<1> QED BY <1>4, <1>7, <1>8

\* Every step of the back end is told, or is another user's.
LEMMA ServedTold ==
  ASSUME NEW m \in net, ServeRead(m) \/ ServeWrite(m) \/ ServePost(m) \/ Fail(m)
  PROVE  \E d: Told(m, d)
<1>1. PICK no, yes: no = FALSE /\ yes = TRUE
  OBVIOUS
<1>2. ASSUME NEW r \in {"failed", "conflict"}, m.res = "pending", UNCHANGED <<srv, ui>>, Answer(m, r, {}, 0, no)
      PROVE  \E d: Told(m, d)
  <2>1. PICK d: /\ net' = (net \ {m}) \cup {d} /\ d.op = m.op /\ d.ctx = m.ctx /\ d.row = m.row /\ d.res = r
                /\ d.rows = {} /\ d.did = no /\ (m.op = "layout" => d.page = m.page) /\ (m.op = "post" => d.up = m.up)
    BY <1>2, AnswerMakes
  <2> QED BY <1>1, <1>2, <2>1 DEF Told
<1>3. CASE Fail(m)
  BY <1>1, <1>2, <1>3 DEF Fail
<1>4. CASE ServeRead(m)
  <2>0. m.res = "pending" /\ UNCHANGED <<srv, ui>> /\ m.op \in Reads
    BY <1>4 DEF ServeRead, Pending, Reads
  <2>1. ASSUME NEW rows, NEW total, Answer(m, "ok", rows, total, yes),
               m.op = "list" => rows = Slice(Listed(srv, m.up), m.page),
               m.op = "layout" => rows = Listed(srv, m.row), m.op = "get" => rows = {SeenIn(srv, m.row)} /\ m.row \in Live
        PROVE  \E d: Told(m, d)
    <3>1. PICK d: /\ net' = (net \ {m}) \cup {d} /\ d.op = m.op /\ d.ctx = m.ctx /\ d.row = m.row /\ d.res = "ok"
                  /\ d.rows = rows /\ d.did = yes
                  /\ (m.op = "layout" => d.page = m.page) /\ (m.op = "post" => d.up = m.up)
      BY <2>1, AnswerMakes
    <3> QED BY <2>0, <2>1, <3>1 DEF Told
  <2>2. CASE m.op = "list"
    <3>1. Answer(m, "ok", Slice(Matching(m.up), m.page), Cardinality(Matching(m.up)), yes)
      BY <1>1, <1>4, <2>2 DEF ServeRead
    <3> QED BY <2>1, <2>2, <3>1, ListedNow
  <2>3. CASE m.op = "layout"
    <3>1. Answer(m, "ok", Matching(m.row), 0, yes)
      BY <1>1, <1>4, <2>3 DEF ServeRead
    <3> QED BY <2>1, <2>3, <3>1, ListedNow
  <2>4. CASE m.op = "get"
    <3>1. CASE m.row \in Live
      <4>1. Answer(m, "ok", {Seen(m.row)}, 1, yes)
        BY <1>1, <1>4, <2>4, <3>1 DEF ServeRead
      <4>2. {Seen(m.row)} = {SeenIn(srv, m.row)}
        BY DEF Seen, SeenIn
      <4> QED BY <2>1, <2>4, <3>1, <4>1, <4>2
    <3>2. CASE m.row \notin Live
      BY <1>1, <1>2, <1>4, <2>0, <2>4, <3>2 DEF ServeRead
    <3> QED BY <3>1, <3>2
  <2> QED BY <2>0, <2>2, <2>3, <2>4 DEF Reads
<1>5. ASSUME Executed(m), m.op \notin Reads, m.res = "pending", ui' = ui, NEW r \in {"ok", "failed"}, Answer(m, r, {}, 0, yes)
      PROVE  \E d: Told(m, d)
  <2>1. PICK d: /\ net' = (net \ {m}) \cup {d} /\ d.op = m.op /\ d.ctx = m.ctx /\ d.row = m.row /\ d.res = r
                /\ d.rows = {} /\ d.did = yes /\ (m.op = "layout" => d.page = m.page) /\ (m.op = "post" => d.up = m.up)
    BY <1>5, AnswerMakes
  <2> QED BY <1>1, <1>5, <2>1 DEF Told, Reads
<1>6. CASE ServeWrite(m)
  <2>0. /\ m.res = "pending" /\ ui' = ui
        /\ m.op \in {"put", "overwrite", "delete", "move", "mount", "shift", "unmount"} /\ m.op \notin Reads
    BY <1>6 DEF ServeWrite, Pending, Reads
  <2>1. CASE ~Accepted(m) /\ Answer(m, "failed", {}, 0, FALSE) /\ UNCHANGED srv
    BY <1>1, <1>2, <2>0, <2>1
  <2>2. CASE \E rows: /\ rows = IF m.op = "delete" THEN Erased(m.row) ELSE {m.row}
                      /\ Accepted(m) /\ Writable(rows) /\ srv' = Written(rows, m.op # "delete", m.up)
                      /\ \E r \in {"ok", "failed"}: Answer(m, r, {}, 0, TRUE)
    <3>1. PICK rows, r: /\ rows = (IF m.op = "delete" THEN Erased(m.row) ELSE {m.row}) /\ r \in {"ok", "failed"}
                        /\ Accepted(m) /\ Writable(rows) /\ srv' = Written(rows, m.op # "delete", m.up)
                        /\ Answer(m, r, {}, 0, yes)
      BY <1>1, <2>2
    <3>2. m.row \in Live /\ (m.op \in {"move", "mount", "shift"} => m.up \in Live) /\ (m.op = "delete" => ~InUse(m.row))
      BY <2>0, <3>1 DEF Accepted, Overwrite, Placing, Current
    <3>3. Executed(m)
      <4>1. CASE m.op = "delete"
        <5>1. srv' = Written(Erased(m.row), FALSE, m.up)
          BY <3>1, <4>1
        <5> QED BY <3>1, <3>2, <4>1, <5>1 DEF Executed
      <4>2. CASE m.op # "delete"
        <5>1. srv' = Written({m.row}, TRUE, m.up)
          BY <3>1, <4>2
        <5> QED BY <2>0, <3>1, <3>2, <4>2, <5>1 DEF Executed
      <4> QED BY <4>1, <4>2
    <3> QED BY <1>5, <2>0, <3>1, <3>3
  <2> QED BY <1>6, <2>1, <2>2 DEF ServeWrite
<1>7. CASE ServePost(m)
  <2>0. m.res = "pending" /\ ui' = ui /\ m.op \in {"post", "copy"} /\ m.op \notin Reads
    BY <1>7 DEF ServePost, Pending, Reads
  <2>1. CASE Answer(m, "conflict", {}, 0, FALSE) /\ UNCHANGED srv
    BY <1>1, <1>2, <2>0, <2>1
  <2>2. CASE \E r \in Row: /\ srv[r] = Slot(Target(m)) /\ {m.row, Target(m)} \cap Row \subseteq Live
                           /\ srv' = [srv EXCEPT ![r] = [live |-> TRUE, ver |-> 1, up |-> @.up]]
                           /\ \E a \in {"ok", "failed"}: Answer(m, a, {}, 0, TRUE)
    <3>1. Executed(m)
      BY <2>0, <2>2 DEF Executed
    <3>2. PICK a \in {"ok", "failed"}: Answer(m, a, {}, 0, yes)
      BY <1>1, <2>2
    <3> QED BY <1>5, <2>0, <3>1, <3>2
  <2> QED BY <1>7, <2>1, <2>2 DEF ServePost
<1> QED BY <1>3, <1>4, <1>6, <1>7

-----------------------------------------------------------------------------
(* What the lists show: the loads                                             *)

\* A write has been executed and its answer has not landed.
Owed(N) == \E m \in N: m.did /\ m.op \notin Reads
NoList(N) == \A a \in N: a.op # "list"
\* One load is under way at most, for the filter u and the page p.
OneList(N, u, p) ==
  /\ \A a, b \in N: a.op = "list" /\ b.op = "list" => a = b
  /\ \A a \in N: a.op = "list" /\ a.res = "pending" => a.up = u /\ a.page = p
AnswersTrue(N, W) == \A a \in N: a.op = "list" /\ a.res = "ok" => a.rows = W
\* A list that nothing excuses: its load is the last one that was asked for, and unless a
\* write is still to be followed by a load, what has been answered or is shown is true.
ListShown(s, N, S, u, p) ==
  s.ok => /\ OneList(N, u, p)
          /\ \/ Owed(N)
             \/ /\ AnswersTrue(N, Slice(Listed(S, u), p))
                /\ NoList(N) => s.rows = Slice(Listed(S, u), p)
\* The handlers that await a list, L, are known by their contexts.
Lists(N, L) == \A m \in N: m.op = "list" <=> m.ctx \in L
ListPage(L, s, N, S, u, p) == Lists(N, L) /\ ListShown(s, N, S, u, p)

\* A step that neither takes nor makes a list, and takes no executed write unless the
\* page is excused.
LEMMA ListKept ==
  ASSUME NEW L, NEW S, NEW u, NEW p, NEW s, NEW N, ListPage(L, s, N, S, u, p), NEW t, NEW M,
         t.ok => s.ok /\ t.rows = s.rows,
         \A k \in M: k \in N \/ (k.op # "list" /\ k.ctx \notin L),
         \A k \in N: k \in M \/ (k.op # "list" /\ (t.ok => ~k.did \/ k.op \in Reads))
  PROVE  ListPage(L, t, M, S, u, p)
<1>1. Lists(M, L)
  BY DEF ListPage, Lists
<1>2. ASSUME t.ok
      PROVE  /\ OneList(M, u, p)
             /\ \/ Owed(M)
                \/ AnswersTrue(M, Slice(Listed(S, u), p)) /\ (NoList(M) => t.rows = Slice(Listed(S, u), p))
  <2>1. PICK W: W = Slice(Listed(S, u), p)
    OBVIOUS
  <2>2. OneList(N, u, p) /\ (Owed(N) \/ (AnswersTrue(N, W) /\ (NoList(N) => s.rows = W)))
    BY <1>2, <2>1 DEF ListPage, ListShown
  <2>3. OneList(M, u, p)
    BY <2>2 DEF OneList
  <2>4. Owed(N) => Owed(M)
    BY <1>2 DEF Owed
  <2>5. AnswersTrue(N, W) => AnswersTrue(M, W)
    BY DEF AnswersTrue
  <2>6. NoList(M) => NoList(N)
    BY DEF NoList
  <2> QED BY <1>2, <2>1, <2>2, <2>3, <2>4, <2>5, <2>6
<1> QED BY <1>1, <1>2 DEF ListPage, ListShown

\* A load that starts alone.
LEMMA ListBegun ==
  ASSUME NEW L, NEW S, NEW u, NEW p, NEW N, Lists(N, L), NEW R, NEW d, NEW M, M = (N \ R) \cup {d},
         d.op = "list", d.ctx \in L, d.res = "pending", d.up = u, d.page = p,
         NEW t, t.ok => ~Waiting("list", N \ R)
  PROVE  ListPage(L, t, M, S, u, p)
<1>1. Lists(M, L)
  BY DEF Lists
<1>2. ASSUME t.ok
      PROVE  OneList(M, u, p) /\ AnswersTrue(M, Slice(Listed(S, u), p)) /\ ~NoList(M)
  <2>1. \A a \in M: a.op = "list" => a = d
    BY <1>2 DEF Waiting
  <2>2. OneList(M, u, p)
    BY <2>1 DEF OneList
  <2>3. AnswersTrue(M, Slice(Listed(S, u), p))
    BY <2>1 DEF AnswersTrue
  <2> QED BY <2>2, <2>3 DEF NoList
<1> QED BY <1>1, <1>2 DEF ListPage, ListShown

\* A list lands; it was the only one.
LEMMA ListLands ==
  ASSUME NEW L, NEW S, NEW u, NEW p, NEW s, NEW N, ListPage(L, s, N, S, u, p), NEW m \in N, m.op = "list",
         NEW t, t.ok => s.ok /\ m.res = "ok" /\ t.rows = m.rows
  PROVE  ListPage(L, t, N \ {m}, S, u, p)
<1>1. Lists(N \ {m}, L)
  BY DEF ListPage, Lists
<1>2. ASSUME t.ok
      PROVE  /\ OneList(N \ {m}, u, p)
             /\ \/ Owed(N \ {m})
                \/ AnswersTrue(N \ {m}, Slice(Listed(S, u), p)) /\ (NoList(N \ {m}) => t.rows = Slice(Listed(S, u), p))
  <2>1. PICK W: W = Slice(Listed(S, u), p)
    OBVIOUS
  <2>2. OneList(N, u, p) /\ (Owed(N) \/ AnswersTrue(N, W))
    BY <1>2, <2>1 DEF ListPage, ListShown
  <2>3. OneList(N \ {m}, u, p)
    BY <2>2 DEF OneList
  <2>4. Owed(N) => Owed(N \ {m})
    BY DEF Owed, Reads
  <2>5. AnswersTrue(N, W) => AnswersTrue(N \ {m}, W) /\ t.rows = W
    BY <1>2 DEF AnswersTrue
  <2> QED BY <1>2, <2>1, <2>2, <2>3, <2>4, <2>5
<1> QED BY <1>1, <1>2 DEF ListPage, ListShown

\* The back end answers: a list with what the table holds, a write by owing a load.
LEMMA ListTold ==
  ASSUME NEW L, NEW u, NEW p, ListPage(L, ui, net, srv, u, p), Calls(net, srv), NEW m, NEW d, Told(m, d)
  PROVE  ListPage(L, ui, net', srv', u, p)
<1>1. PICK N: N = net' /\ N = (net \ {m}) \cup {d} /\ m \in net /\ m.res = "pending" /\ d.res # "pending"
              /\ d.op = m.op /\ d.ctx = m.ctx
  BY DEF Told
<1>2. Lists(N, L)
  BY <1>1 DEF ListPage, Lists
<1>3. ASSUME ui.ok
      PROVE  /\ OneList(N, u, p)
             /\ \/ Owed(N)
                \/ /\ srv' = srv
                   /\ AnswersTrue(N, Slice(Listed(srv, u), p)) /\ (NoList(N) => ui.rows = Slice(Listed(srv, u), p))
  <2>1. PICK W: W = Slice(Listed(srv, u), p)
    OBVIOUS
  <2>2. OneList(net, u, p) /\ (Owed(net) \/ (AnswersTrue(net, W) /\ (NoList(net) => ui.rows = W)))
    BY <1>3, <2>1 DEF ListPage, ListShown
  <2>3. OneList(N, u, p)
    BY <1>1, <2>2 DEF OneList
  <2>4. Owed(net) => Owed(N)
    <3>1. ~m.did
      BY <1>1 DEF Calls, CallOK
    <3> QED BY <1>1, <3>1 DEF Owed
  <2>5. CASE srv' = srv
    <3>1. m.op = "list" /\ d.res = "ok" => d.rows = W
      BY <1>1, <2>1, <2>2 DEF Told, OneList
    <3>2. AnswersTrue(net, W) => AnswersTrue(N, W)
      BY <1>1, <3>1 DEF AnswersTrue
    <3>3. NoList(N) => NoList(net)
      BY <1>1 DEF NoList
    <3> QED BY <2>1, <2>2, <2>3, <2>4, <2>5, <3>2, <3>3
  <2>6. CASE d.did /\ m.op \notin Reads
    BY <1>1, <2>3, <2>6 DEF Owed
  <2> QED BY <2>5, <2>6 DEF Told
<1>4. PICK T: T = srv'
  OBVIOUS
<1>5. ListPage(L, ui, N, T, u, p)
  BY <1>2, <1>3, <1>4 DEF ListPage, ListShown
<1> QED BY <1>1, <1>4, <1>5

-----------------------------------------------------------------------------
(* What the lists show: the forms of a step                                   *)

Wrote(s, c) == ui' = s /\ srv' = srv /\ \E d: net' = net \cup {d} /\ SameCall(d, c)
Loaded(s, c) == ui' = Begin(s, net) /\ srv' = srv /\ \E d: net' = net \cup {d} /\ SameCall(d, c)
Went(m, s, c, t) ==
  /\ srv' = srv
  /\ \/ m.res = "ok" /\ ui' = Begin(s, net \ {m}) /\ \E d: net' = (net \ {m}) \cup {d} /\ SameCall(d, c)
     \/ ui' = [t EXCEPT !.ok = @ /\ ~m.did] /\ net' = net \ {m}

\* A call of a page: a list it loads, or another call.
Fetches(c, L, u, p) ==
  DOMAIN c = CallFields /\ c.op = "list" /\ c.ctx \in L /\ c.res = "pending" /\ c.up = u /\ c.page = p
Acts(c, L) == DOMAIN c = CallFields /\ c.op # "list" /\ c.ctx \notin L
\* The page shows what it showed.
Still(s) == s.ok = ui.ok /\ s.rows = ui.rows

\* The answer of a write lands, which makes the page s and loads again, or t.
Goes(m, s, c, t, L, u, p) ==
  /\ m \in net /\ m.ctx \notin L /\ "ok" \in DOMAIN s /\ {"ok", "rows"} \subseteq DOMAIN t /\ Still(t)
  /\ Fetches(c, L, u, p) /\ Went(m, s, c, t)

\* The forms of a step keep what a list shows true, or begin a load for another filter.
LEMMA ListForms ==
  ASSUME NEW L, NEW u, NEW p, ListPage(L, ui, net, srv, u, p), NEW s, NEW c, NEW v, NEW q
  PROVE  /\ Still(s) /\ ui' = s /\ UNCHANGED <<net, srv>> => ListPage(L, ui', net', srv', u, p)
         /\ Still(s) /\ Wrote(s, c) /\ Acts(c, L) => ListPage(L, ui', net', srv', u, p)
         /\ "ok" \in DOMAIN s /\ Loaded(s, c) /\ Fetches(c, L, v, q) => ListPage(L, ui', net', srv', v, q)
         /\ \A t, m: Goes(m, s, c, t, L, u, p) => ListPage(L, ui', net', srv', u, p)
<1>1. PICK t, N, S: t = ui' /\ N = net' /\ S = srv'
  OBVIOUS
<1>2. ASSUME Still(s), t = s, N = net, S = srv PROVE ListPage(L, t, N, S, u, p)
  BY <1>2, ListKept DEF Still
<1>3. ASSUME Still(s), t = s, S = srv, NEW d, N = net \cup {d}, SameCall(d, c), Acts(c, L)
      PROVE  ListPage(L, t, N, S, u, p)
  <2>1. d.op # "list" /\ d.ctx \notin L
    BY <1>3 DEF SameCall, Acts
  <2> QED BY <1>3, <2>1, ListKept DEF Still
<1>4. ASSUME "ok" \in DOMAIN s, NEW R, t = Begin(s, net \ R), S = srv, NEW d, N = (net \ R) \cup {d}, SameCall(d, c),
             NEW w, NEW o, Fetches(c, L, w, o)
      PROVE  ListPage(L, t, N, S, w, o)
  <2>1. d.op = "list" /\ d.ctx \in L /\ d.res = "pending" /\ d.up = w /\ d.page = o
    BY <1>4 DEF SameCall, Fetches
  <2>2. t.ok => ~Waiting("list", net \ R)
    BY <1>4 DEF Begin
  <2> QED BY <1>4, <2>1, <2>2, ListBegun DEF ListPage
<1>5. ASSUME NEW x, NEW m \in net, m.ctx \notin L, {"ok", "rows"} \subseteq DOMAIN x, Still(x),
             t = [x EXCEPT !.ok = @ /\ ~m.did], N = net \ {m}, S = srv
      PROVE  ListPage(L, t, N, S, u, p)
  <2>1. t.rows = x.rows /\ (t.ok => x.ok /\ ~m.did)
    BY <1>5
  <2>2. m.op # "list"
    BY <1>5 DEF ListPage, Lists
  <2> QED BY <1>5, <2>1, <2>2, ListKept DEF Still
<1>6. net \ {} = net
  OBVIOUS
<1>7. Still(s) /\ ui' = s /\ UNCHANGED <<net, srv>> => ListPage(L, t, N, S, u, p)
  BY <1>1, <1>2
<1>8. Still(s) /\ Wrote(s, c) /\ Acts(c, L) => ListPage(L, t, N, S, u, p)
  BY <1>1, <1>3 DEF Wrote
<1>9. "ok" \in DOMAIN s /\ Loaded(s, c) /\ Fetches(c, L, v, q) => ListPage(L, t, N, S, v, q)
  BY <1>1, <1>4, <1>6 DEF Loaded
<1>10. ASSUME NEW x, NEW m \in net, m.ctx \notin L, "ok" \in DOMAIN s, {"ok", "rows"} \subseteq DOMAIN x, Still(x),
              Fetches(c, L, u, p), Went(m, s, c, x)
       PROVE  ListPage(L, t, N, S, u, p)
  BY <1>1, <1>4, <1>5, <1>10 DEF Went
<1>11. \A x, m: Goes(m, s, c, x, L, u, p) => ListPage(L, t, N, S, u, p)
  BY <1>10 DEF Goes
<1> QED BY <1>1, <1>7, <1>8, <1>9, <1>11

\* A call of a page, from what it asks.
Named(c, op, ctx) == DOMAIN c = CallFields /\ c.op = op /\ c.ctx = ctx

\* A call that asks for no list is none of the loads.
LEMMA NamedActs ==
  ASSUME NEW c, NEW op, NEW ctx, Named(c, op, ctx), NEW L, op # "list", ctx \notin L
  PROVE  Acts(c, L)
BY DEF Named, Acts

\* The same, for a call that is repeated.
LEMMA ListRepeats ==
  ASSUME NEW L, NEW u, NEW p, ListPage(L, ui, net, srv, u, p), NEW m \in net, m.ctx \notin L, ~m.did, NEW c, Acts(c, L),
         ui' = ui, srv' = srv, net' = Add(net \ {m}, c)
  PROVE  ListPage(L, ui', net', srv', u, p)
<1>1. PICK d: net' = (net \ {m}) \cup {d} /\ SameCall(d, c)
  BY AddOne DEF Acts
<1>2. PICK N, S, t: N = net' /\ N = (net \ {m}) \cup {d} /\ S = srv' /\ S = srv /\ t = ui' /\ t = ui
  BY <1>1
<1>3. m.op # "list" /\ d.op # "list" /\ d.ctx \notin L
  BY <1>1 DEF ListPage, Lists, SameCall, Acts
<1>4. ListPage(L, t, N, S, u, p)
  BY <1>2, <1>3, ListKept
<1> QED BY <1>2, <1>4

\* A page writes, or the answer of a write lands.
LEMMA ListWrites ==
  ASSUME NEW L, NEW u, NEW p, ListPage(L, ui, net, srv, u, p), NEW s, NEW c, NEW op, NEW ctx,
         Still(s), Wrote(s, c), Named(c, op, ctx), op # "list", ctx \notin L
  PROVE  ListPage(L, ui', net', srv', u, p)
BY NamedActs, ListForms

\* The answer of a write lands, which is followed by a load or not.
LEMMA ListGoes ==
  ASSUME NEW L, NEW u, NEW p, ListPage(L, ui, net, srv, u, p), NEW m \in net, m.ctx \notin L, NEW s, NEW t, "ok" \in DOMAIN s,
         {"ok", "rows"} \subseteq DOMAIN t, Still(t), NEW c, Fetches(c, L, u, p), Went(m, s, c, t)
  PROVE  ListPage(L, ui', net', srv', u, p)
<1>1. Goes(m, s, c, t, L, u, p)
  BY DEF Goes
<1> QED BY <1>1, ListForms

-----------------------------------------------------------------------------
(* What the lists show: templates                                             *)

\* The forms of a step, on the templates, with the history of the load.
LEMMA TemplatesWent ==
  ASSUME NEW s, NEW c, DOMAIN c = CallFields
  PROVE  /\ Templates!Write(s, c) => Wrote(s, c)
         /\ Templates!Load(s, c) => Loaded(s, c)
         /\ \A m, t: Templates!After(m, s, c, t) => Went(m, s, c, t)
<1>1. \A calls: \E d: Templates!Add(calls, c) = calls \cup {d} /\ SameCall(d, c)
  BY TemplatesSame, AddOne
<1> QED BY <1>1, TemplatesSame DEF Templates!Write, Wrote, Templates!Load, Loaded, Templates!After, Went

TemplateLists == {"templates", "templatesSaved"}
TemplatesShown(s, N, S) == ListPage(TemplateLists, s, N, S, All, 0)

\* What a load of the templates asks for.
LEMMA TemplatesFetch ==
  ASSUME NEW ctx \in TemplateLists
  PROVE  \E c: c = Templates!FetchTemplates(ctx) /\ Fetches(c, TemplateLists, All, 0)
<1>1. PICK c: c = Templates!FetchTemplates(ctx)
  OBVIOUS
<1>2. DOMAIN c = CallFields /\ c.op = "list" /\ c.ctx = ctx /\ c.up = All /\ c.page = 0 /\ c.res = "pending"
  BY <1>1, TemplatesSame DEF Templates!FetchTemplates, Templates!TemplateCall, Call, CallFields
<1> QED BY <1>1, <1>2 DEF Fetches

\* Every step of the templates keeps what they show true.
LEMMA TemplatesShow ==
  ASSUME Calls(net, srv), TemplatesInv(ui, net, srv), Templates!PageNext, TemplatesShown(ui, net, srv)
  PROVE  TemplatesShown(ui', net', srv')
<1>0. DOMAIN ui = {"page", "rows", "dlg", "form", "saving", "loading", "ok"}
  BY DEF TemplatesInv
<1>a. "templates" \in TemplateLists /\ "templatesSaved" \in TemplateLists
      /\ \A x \in {"save", "saveAuto", "remove"}: x \notin TemplateLists
  BY DEF TemplateLists
<1>b. ListPage(TemplateLists, ui, net, srv, All, 0)
  BY DEF TemplatesShown
<1>1. ASSUME NEW s, Still(s), ui' = s, UNCHANGED <<net, srv>> PROVE TemplatesShown(ui', net', srv')
  BY <1>b, <1>1, ListForms DEF TemplatesShown
<1>2. ASSUME NEW s, NEW c, NEW op, NEW ctx, Still(s), Templates!Write(s, c), Named(c, op, ctx), op # "list",
             ctx \in {"save", "saveAuto", "remove"}
      PROVE  TemplatesShown(ui', net', srv')
  <2>1. Acts(c, TemplateLists)
    BY <1>2, <1>a, NamedActs
  <2>2. Wrote(s, c)
    BY <1>2, TemplatesWent DEF Named
  <2> QED BY <1>b, <1>2, <2>1, <2>2, ListForms DEF TemplatesShown
<1>3. ASSUME NEW s, NEW t, NEW m \in net, "ok" \in DOMAIN s, {"ok", "rows"} \subseteq DOMAIN t, Still(t),
             m.ctx \in {"save", "saveAuto", "remove"}, NEW ctx \in TemplateLists,
             Templates!After(m, s, Templates!FetchTemplates(ctx), t)
      PROVE  TemplatesShown(ui', net', srv')
  <2>1. PICK c: c = Templates!FetchTemplates(ctx) /\ Fetches(c, TemplateLists, All, 0)
    BY TemplatesFetch
  <2>2. Went(m, s, c, t)
    BY <1>3, <2>1, TemplatesWent DEF Fetches
  <2>3. Goes(m, s, c, t, TemplateLists, All, 0)
    BY <1>a, <1>3, <2>1, <2>2 DEF Goes
  <2> QED BY <1>b, <2>3, ListForms DEF TemplatesShown
<1>4. CASE Templates!LoadAll
  <2>1. PICK c: c = Templates!FetchTemplates("templates") /\ Fetches(c, TemplateLists, All, 0)
    BY <1>a, TemplatesFetch
  <2>2. Loaded(ui, c)
    BY <1>4, <2>1, TemplatesWent DEF Fetches, Templates!LoadAll
  <2> QED BY <1>0, <1>b, <2>1, <2>2, ListForms DEF TemplatesShown
<1>5. ASSUME NEW m \in net, Templates!LandTemplates(m) PROVE TemplatesShown(ui', net', srv')
  <2>1. m.op = "list"
    BY <1>5, <1>b DEF Templates!LandTemplates, Templates!Landed, ListPage, Lists, TemplateLists
  <2>2. PICK t, N, S: t = ui' /\ N = net' /\ N = net \ {m} /\ S = srv' /\ S = srv
    BY <1>5 DEF Templates!LandTemplates
  <2>3. t.ok => ui.ok /\ m.res = "ok" /\ t.rows = m.rows
    BY <1>0, <1>5, <2>2 DEF Templates!LandTemplates
  <2>4. ListPage(TemplateLists, t, N, S, All, 0)
    BY <1>b, <2>1, <2>2, <2>3, ListLands
  <2> QED BY <2>2, <2>4 DEF TemplatesShown
<1>6. CASE Templates!Buttons
  <2>1. PICK t: t = ui'
    OBVIOUS
  <2>2. Still(t) /\ UNCHANGED <<net, srv>>
    BY <1>0, <1>6, <2>1 DEF Templates!Buttons, Templates!OpenCreate, Templates!Cancel, Templates!OpenEdit,
      Templates!OpenVersion, Templates!Set, Still
  <2> QED BY <1>1, <2>1, <2>2
<1>7. ASSUME NEW b
      PROVE  \E s: /\ s = [ui EXCEPT !.saving = b] /\ DOMAIN s = DOMAIN ui /\ Still(s)
  <2>1. PICK s: s = [ui EXCEPT !.saving = b]
    OBVIOUS
  <2>2. DOMAIN s = DOMAIN ui /\ Still(s)
    BY <1>0, <2>1 DEF Still
  <2> QED BY <2>1, <2>2
<1>8. CASE Templates!PublishVersion
  <2>1. PICK c: c = [Templates!TemplateCall("put", "save", ui.dlg.row, ui.dlg.ver) EXCEPT !.form = ui.form]
    OBVIOUS
  <2>2. Named(c, "put", "save")
    BY <2>1, TemplatesSame DEF Templates!TemplateCall, Call, CallFields, Named
  <2>3. PICK s: s = [ui EXCEPT !.saving = TRUE] /\ Still(s)
    BY <1>7
  <2>4. Templates!Write(s, c)
    BY <1>8, <2>1, <2>3 DEF Templates!PublishVersion
  <2> QED BY <1>2, <2>2, <2>3, <2>4
<1>9. ASSUME NEW auto \in BOOLEAN, Templates!Save(auto) PROVE TemplatesShown(ui', net', srv')
  <2>0. PICK s: s = [ui EXCEPT !.saving = TRUE] /\ Still(s)
    BY <1>7
  <2>1. CASE ui.dlg.mode = "edit"
    <3>1. PICK c: c = [Templates!TemplateCall("overwrite", "save", ui.dlg.row, ui.dlg.ver) EXCEPT !.form = ui.form]
      OBVIOUS
    <3>2. Named(c, "overwrite", "save")
      BY <3>1, TemplatesSame DEF Templates!TemplateCall, Call, CallFields, Named
    <3>3. Templates!Write(s, c)
      BY <1>9, <2>0, <2>1, <3>1 DEF Templates!Save
    <3> QED BY <1>2, <2>0, <3>2, <3>3
  <2>2. CASE ui.dlg.mode # "edit"
    <3>1. PICK c: c = [Templates!TemplateCall("post", IF auto THEN "saveAuto" ELSE "save", Templates!NoRow, 0)
                         EXCEPT !.up = CHOOSE g \in Group: TRUE]
      OBVIOUS
    <3>2. Named(c, "post", IF auto THEN "saveAuto" ELSE "save")
      BY <3>1, TemplatesSame DEF Templates!TemplateCall, Call, CallFields, Named
    <3>3. Templates!Write(s, c)
      BY <1>9, <2>0, <2>2, <3>1 DEF Templates!Save
    <3> QED BY <1>2, <2>0, <3>2, <3>3
  <2> QED BY <2>1, <2>2
<1>10. CASE Templates!Remove
  <2>1. PICK x, c: c = Templates!TemplateCall("delete", "remove", x.row, x.ver) /\ Templates!Write(ui, c)
    BY <1>10 DEF Templates!Remove
  <2>2. Named(c, "delete", "remove")
    BY <2>1, TemplatesSame DEF Templates!TemplateCall, Call, CallFields, Named
  <2> QED BY <1>2, <2>1, <2>2 DEF Still
<1>11. ASSUME NEW m \in net, Templates!LandSave(m) PROVE TemplatesShown(ui', net', srv')
  <2>1. CASE /\ m.res = "conflict" /\ m.ctx = "saveAuto" /\ ui' = ui /\ UNCHANGED srv
             /\ net' = Templates!Add(net \ {m}, [Templates!TemplateCall("post", "save", Templates!NoRow, 0)
                  EXCEPT !.up = m.up, !.again = m.did])
    <3>1. PICK c: c = [Templates!TemplateCall("post", "save", Templates!NoRow, 0) EXCEPT !.up = m.up, !.again = m.did]
      OBVIOUS
    <3>2. Named(c, "post", "save")
      BY <3>1, TemplatesSame DEF Templates!TemplateCall, Call, CallFields, Named
    <3>3. Acts(c, TemplateLists)
      BY <1>a, <3>2, NamedActs
    <3>4. ~m.did /\ m.ctx \notin TemplateLists
      BY <1>a, <2>1 DEF Calls, CallOK
    <3>5. ui' = ui /\ srv' = srv /\ net' = Add(net \ {m}, c)
      BY <2>1, <3>1, TemplatesSame
    <3> QED BY <1>b, <3>3, <3>4, <3>5, ListRepeats DEF TemplatesShown
  <2>2. CASE /\ m.ctx \in {"save", "saveAuto"}
             /\ Templates!After(m, [ui EXCEPT !.dlg = Templates!Closed], Templates!FetchTemplates("templatesSaved"),
                                [ui EXCEPT !.saving = FALSE])
    <3>1. PICK t: t = [ui EXCEPT !.saving = FALSE] /\ DOMAIN t = DOMAIN ui /\ Still(t)
      BY <1>7
    <3>2. PICK s: s = [ui EXCEPT !.dlg = Templates!Closed]
      OBVIOUS
    <3>4. DOMAIN s = DOMAIN ui
      BY <3>2
    <3>3. Templates!After(m, s, Templates!FetchTemplates("templatesSaved"), t)
      BY <2>2, <3>1, <3>2
    <3> QED BY <1>0, <1>a, <1>3, <2>2, <3>1, <3>3, <3>4
  <2> QED BY <1>11, <2>1, <2>2 DEF Templates!LandSave, Templates!Landed
<1>12. ASSUME NEW m \in net, Templates!LandRemove(m) PROVE TemplatesShown(ui', net', srv')
  <2>1. m.ctx = "remove" /\ Templates!After(m, ui, Templates!FetchTemplates("templates"), ui)
    BY <1>12 DEF Templates!LandRemove, Templates!Landed
  <2> QED BY <1>0, <1>a, <1>3, <2>1 DEF Still
<1> QED BY <1>4, <1>5, <1>6, <1>8, <1>9, <1>10, <1>11, <1>12 DEF Templates!PageNext

-----------------------------------------------------------------------------
(* What the lists show: racks                                                 *)

\* The forms of a step, on the racks.
LEMMA RacksWent ==
  ASSUME NEW s, NEW c, DOMAIN c = CallFields
  PROVE  /\ RackList!Write(s, c) => Wrote(s, c)
         /\ RackList!Load(s, c) => Loaded(s, c)
         /\ \A m, t: RackList!After(m, s, c, t) => Went(m, s, c, t)
<1>1. \A calls: \E d: RackList!Add(calls, c) = calls \cup {d} /\ SameCall(d, c)
  BY RackListSame, AddOne
<1> QED BY <1>1, RackListSame DEF RackList!Write, Wrote, RackList!Load, Loaded, RackList!After, Went

TreeLists == {"tree", "treeSaved"}
RacksShown(s, N, S) == ListPage(TreeLists, s, N, S, All, 0)

\* What a load of the racks asks for.
LEMMA RacksFetch ==
  ASSUME NEW ctx \in TreeLists
  PROVE  \E c: c = RackList!FetchTree(ctx) /\ Fetches(c, TreeLists, All, 0)
<1>1. PICK c: c = RackList!FetchTree(ctx)
  OBVIOUS
<1>2. DOMAIN c = CallFields /\ c.op = "list" /\ c.ctx = ctx /\ c.up = All /\ c.page = 0 /\ c.res = "pending"
  BY <1>1, RackListSame DEF RackList!FetchTree, Call, CallFields
<1> QED BY <1>1, <1>2 DEF Fetches

\* Every step of the racks keeps what they show true.
LEMMA RacksShow ==
  ASSUME Calls(net, srv), RacksInv(ui, net, srv), RackList!PageNext, RacksShown(ui, net, srv)
  PROVE  RacksShown(ui', net', srv')
<1>0. DOMAIN ui = {"page", "rows", "room", "pg", "dlg", "form", "target", "saving", "loading", "ok"}
  BY DEF RacksInv
<1>a. "tree" \in TreeLists /\ "treeSaved" \in TreeLists /\ \A x \in {"save", "saveAuto", "remove"}: x \notin TreeLists
  BY DEF TreeLists
<1>b. ListPage(TreeLists, ui, net, srv, All, 0)
  BY DEF RacksShown
<1>1. ASSUME NEW s, Still(s), ui' = s, UNCHANGED <<net, srv>> PROVE RacksShown(ui', net', srv')
  BY <1>b, <1>1, ListForms DEF RacksShown
<1>2. ASSUME NEW s, NEW c, NEW op, NEW ctx, Still(s), RackList!Write(s, c), Named(c, op, ctx), op # "list",
             ctx \in {"save", "saveAuto", "remove"}
      PROVE  RacksShown(ui', net', srv')
  <2>1. Wrote(s, c)
    BY <1>2, RacksWent DEF Named
  <2> QED BY <1>a, <1>b, <1>2, <2>1, ListWrites DEF RacksShown
<1>3. ASSUME NEW s, NEW t, NEW m \in net, "ok" \in DOMAIN s, {"ok", "rows"} \subseteq DOMAIN t, Still(t),
             m.ctx \in {"save", "saveAuto", "remove"}, NEW ctx \in TreeLists,
             RackList!After(m, s, RackList!FetchTree(ctx), t)
      PROVE  RacksShown(ui', net', srv')
  <2>1. PICK c: c = RackList!FetchTree(ctx) /\ Fetches(c, TreeLists, All, 0)
    BY RacksFetch
  <2>2. Went(m, s, c, t)
    BY <1>3, <2>1, RacksWent DEF Fetches
  <2> QED BY <1>a, <1>b, <1>3, <2>1, <2>2, ListGoes DEF RacksShown
<1>4. CASE RackList!LoadAll
  <2>1. PICK c: c = RackList!FetchTree("tree") /\ Fetches(c, TreeLists, All, 0)
    BY <1>a, RacksFetch
  <2>2. Loaded(ui, c)
    BY <1>4, <2>1, RacksWent DEF Fetches, RackList!LoadAll
  <2> QED BY <1>0, <1>b, <2>1, <2>2, ListForms DEF RacksShown
<1>5. ASSUME NEW m \in net, RackList!LandTree(m) PROVE RacksShown(ui', net', srv')
  <2>1. m.op = "list"
    BY <1>5, <1>b DEF RackList!LandTree, RackList!Landed, ListPage, Lists, TreeLists
  <2>2. PICK t, N, S: t = ui' /\ N = net' /\ N = net \ {m} /\ S = srv' /\ S = srv
    BY <1>5 DEF RackList!LandTree
  <2>3. t.ok => ui.ok /\ m.res = "ok" /\ t.rows = m.rows
    BY <1>0, <1>5, <2>2 DEF RackList!LandTree
  <2>4. ListPage(TreeLists, t, N, S, All, 0)
    BY <1>b, <2>1, <2>2, <2>3, ListLands
  <2> QED BY <2>2, <2>4 DEF RacksShown
<1>6. CASE \/ RackList!FilterRoom \/ RackList!ResetFilters \/ RackList!TurnPage
           \/ RackList!OpenCreate \/ RackList!ChooseRoom \/ RackList!OpenEdit \/ RackList!Cancel
  <2>1. PICK t: t = ui'
    OBVIOUS
  <2>2. Still(t) /\ UNCHANGED <<net, srv>>
    <3>1. CASE RackList!FilterRoom
      BY <1>0, <2>1, <3>1 DEF RackList!FilterRoom, RackList!Set, Still
    <3>2. CASE RackList!ResetFilters
      BY <1>0, <2>1, <3>2 DEF RackList!ResetFilters, RackList!Set, Still
    <3>3. CASE RackList!TurnPage
      <4>1. PICK k: RackList!Set([ui EXCEPT !.pg = k])
        BY <3>3 DEF RackList!TurnPage
      <4> QED BY <1>0, <2>1, <4>1 DEF RackList!Set, Still
    <3>4. CASE RackList!OpenCreate
      <4>1. PICK r: RackList!Set([ui EXCEPT !.dlg.mode = "create", !.form = RackList!Blank, !.target = r])
        BY <3>4 DEF RackList!OpenCreate
      <4> QED BY <1>0, <2>1, <4>1 DEF RackList!Set, Still
    <3>5. CASE RackList!ChooseRoom \/ RackList!OpenEdit \/ RackList!Cancel
      BY <1>0, <2>1, <3>5 DEF RackList!ChooseRoom, RackList!OpenEdit, RackList!Cancel, RackList!Set, Still
    <3> QED BY <1>6, <3>1, <3>2, <3>3, <3>4, <3>5
  <2> QED BY <1>1, <2>1, <2>2
<1>7. ASSUME NEW b
      PROVE  \E s: /\ s = [ui EXCEPT !.saving = b] /\ DOMAIN s = DOMAIN ui /\ Still(s)
  <2>1. PICK s: s = [ui EXCEPT !.saving = b]
    OBVIOUS
  <2>2. DOMAIN s = DOMAIN ui /\ Still(s)
    BY <1>0, <2>1 DEF Still
  <2> QED BY <2>1, <2>2
<1>8. ASSUME NEW auto \in BOOLEAN, RackList!Save(auto) PROVE RacksShown(ui', net', srv')
  <2>0. PICK s: s = [ui EXCEPT !.saving = TRUE] /\ Still(s)
    BY <1>7
  <2>1. CASE ui.dlg.mode = "edit"
    <3>1. PICK c: c = [RackList!RackCall("put", "save", ui.dlg.row, ui.dlg.ver) EXCEPT !.form = ui.form]
      OBVIOUS
    <3>2. Named(c, "put", "save")
      BY <3>1, RackListSame DEF RackList!RackCall, Call, CallFields, Named
    <3>3. RackList!Write(s, c)
      BY <1>8, <2>0, <2>1, <3>1 DEF RackList!Save
    <3> QED BY <1>2, <2>0, <3>2, <3>3
  <2>2. CASE ui.dlg.mode # "edit"
    <3>1. PICK c: c = [RackList!RackCall("post", IF auto THEN "saveAuto" ELSE "save", RackList!NoRow, 0)
                         EXCEPT !.up = ui.target]
      OBVIOUS
    <3>2. Named(c, "post", IF auto THEN "saveAuto" ELSE "save")
      BY <3>1, RackListSame DEF RackList!RackCall, Call, CallFields, Named
    <3>3. RackList!Write(s, c)
      BY <1>8, <2>0, <2>2, <3>1 DEF RackList!Save
    <3> QED BY <1>2, <2>0, <3>2, <3>3
  <2> QED BY <2>1, <2>2
<1>9. CASE RackList!Remove
  <2>1. PICK x, c: c = RackList!RackCall("delete", "remove", x.row, x.ver) /\ RackList!Write(ui, c)
    BY <1>9 DEF RackList!Remove
  <2>2. Named(c, "delete", "remove")
    BY <2>1, RackListSame DEF RackList!RackCall, Call, CallFields, Named
  <2> QED BY <1>2, <2>1, <2>2 DEF Still
<1>10. ASSUME NEW m \in net, RackList!LandSave(m) PROVE RacksShown(ui', net', srv')
  <2>1. CASE m.ctx = "saveAuto" /\ RackList!IsConflict(m) /\ RackList!Retry(m)
    <3>1. PICK c: c = [RackList!RackCall("post", "save", RackList!NoRow, 0) EXCEPT !.up = m.up, !.again = m.did]
      OBVIOUS
    <3>2. Named(c, "post", "save")
      BY <3>1, RackListSame DEF RackList!RackCall, Call, CallFields, Named
    <3>3. Acts(c, TreeLists)
      BY <1>a, <3>2, NamedActs
    <3>4. ~m.did /\ m.ctx \notin TreeLists
      BY <1>a, <2>1 DEF Calls, CallOK, RackList!IsConflict
    <3>5. ui' = ui /\ srv' = srv /\ net' = Add(net \ {m}, c)
      BY <2>1, <3>1, RackListSame DEF RackList!Retry
    <3> QED BY <1>b, <3>3, <3>4, <3>5, ListRepeats DEF RacksShown
  <2>2. CASE /\ m.ctx \in {"save", "saveAuto"}
             /\ RackList!After(m, [ui EXCEPT !.dlg = RackList!Closed], RackList!FetchTree("treeSaved"),
                                [ui EXCEPT !.saving = FALSE])
    <3>1. PICK t: t = [ui EXCEPT !.saving = FALSE] /\ DOMAIN t = DOMAIN ui /\ Still(t)
      BY <1>7
    <3>2. PICK s: s = [ui EXCEPT !.dlg = RackList!Closed]
      OBVIOUS
    <3>3. RackList!After(m, s, RackList!FetchTree("treeSaved"), t)
      BY <2>2, <3>1, <3>2
    <3>4. DOMAIN s = DOMAIN ui
      BY <3>2
    <3> QED BY <1>0, <1>a, <1>3, <2>2, <3>1, <3>3, <3>4
  <2> QED BY <1>10, <2>1, <2>2 DEF RackList!LandSave, RackList!Landed
<1>11. ASSUME NEW m \in net, RackList!LandRemove(m) PROVE RacksShown(ui', net', srv')
  <2>1. m.ctx = "remove" /\ RackList!After(m, ui, RackList!FetchTree("tree"), ui)
    BY <1>11 DEF RackList!LandRemove, RackList!Landed
  <2> QED BY <1>0, <1>a, <1>3, <2>1 DEF Still
<1> QED BY <1>4, <1>5, <1>6, <1>8, <1>9, <1>10, <1>11 DEF RackList!PageNext

-----------------------------------------------------------------------------
(* What the lists show: device types                                          *)

\* The forms of a step, on the tabs of the device page.
LEMMA DevicesWent ==
  ASSUME NEW s, NEW c, DOMAIN c = CallFields
  PROVE  /\ Devices!Write(s, c) => Wrote(s, c)
         /\ Devices!Load(s, c) => Loaded(s, c)
         /\ \A m, t: Devices!After(m, s, c, t) => Went(m, s, c, t)
<1>1. \A calls: \E d: Devices!Add(calls, c) = calls \cup {d} /\ SameCall(d, c)
  BY DevicesSame, AddOne
<1> QED BY <1>1, DevicesSame DEF Devices!Write, Wrote, Devices!Load, Loaded, Devices!After, Went

TypesShown(s, N, S) == ListPage({"types"}, s, N, S, All, 0)

\* What a load of the types asks for.
LEMMA TypesFetch == \E c: c = Devices!FetchTypes /\ Fetches(c, {"types"}, All, 0)
<1>1. PICK c: c = Devices!FetchTypes
  OBVIOUS
<1>2. DOMAIN c = CallFields /\ c.op = "list" /\ c.ctx = "types" /\ c.up = All /\ c.page = 0 /\ c.res = "pending"
  BY <1>1, DevicesSame DEF Devices!FetchTypes, Devices!TypeCall, Call, CallFields
<1> QED BY <1>1, <1>2 DEF Fetches

\* Every step of the types keeps what they show true.
LEMMA TypesShow ==
  ASSUME TypesInv(ui, net, srv), Devices!TypesNext, TypesShown(ui, net, srv)
  PROVE  TypesShown(ui', net', srv')
<1>0. DOMAIN ui = {"page", "rows", "loading", "ok", "dlg", "form"}
  BY DEF TypesInv
<1>a. PICK L: L = {"types"}
  OBVIOUS
<1>b. ListPage(L, ui, net, srv, All, 0) /\ (ListPage(L, ui', net', srv', All, 0) => TypesShown(ui', net', srv'))
  BY <1>a DEF TypesShown
<1>c. \A x \in {"saveType", "removeType"}: x \notin L
  BY <1>a
<1>1. ASSUME NEW s, Still(s), Devices!Set(s) PROVE TypesShown(ui', net', srv')
  BY <1>b, <1>1, ListForms DEF Devices!Set
<1>2. ASSUME NEW c, NEW op, NEW ctx, Devices!Write(ui, c), Named(c, op, ctx), op # "list", ctx \in {"saveType", "removeType"}
      PROVE  TypesShown(ui', net', srv')
  <2>1. Wrote(ui, c)
    BY <1>2, DevicesWent DEF Named
  <2> QED BY <1>b, <1>c, <1>2, <2>1, ListWrites DEF Still
<1>3. ASSUME NEW s, NEW m \in net, "ok" \in DOMAIN s, m.ctx \in {"saveType", "removeType"},
             Devices!After(m, s, Devices!FetchTypes, ui)
      PROVE  TypesShown(ui', net', srv')
  <2>1. PICK c: c = Devices!FetchTypes /\ Fetches(c, L, All, 0)
    BY <1>a, TypesFetch
  <2>2. Went(m, s, c, ui)
    BY <1>3, <2>1, DevicesWent DEF Fetches
  <2> QED BY <1>0, <1>b, <1>c, <1>3, <2>1, <2>2, ListGoes DEF Still
<1>4. ASSUME NEW m \in net, Devices!LandTypes(m) PROVE TypesShown(ui', net', srv')
  <2>1. m.op = "list"
    BY <1>4, <1>a, <1>b DEF Devices!LandTypes, Devices!Landed, ListPage, Lists
  <2>2. PICK t, N, S: t = ui' /\ N = net' /\ N = net \ {m} /\ S = srv' /\ S = srv
    BY <1>4 DEF Devices!LandTypes
  <2>3. t.ok => ui.ok /\ m.res = "ok" /\ t.rows = m.rows
    BY <1>0, <1>4, <2>2 DEF Devices!LandTypes
  <2>4. ListPage(L, t, N, S, All, 0)
    BY <1>b, <2>1, <2>2, <2>3, ListLands
  <2> QED BY <1>b, <2>2, <2>4
<1>5. ASSUME NEW s, NEW d, NEW f, s = [ui EXCEPT !.dlg = d, !.form = f] \/ s = [ui EXCEPT !.dlg = d], Devices!Set(s)
      PROVE  TypesShown(ui', net', srv')
  <2>1. Still(s)
    BY <1>0, <1>5 DEF Still
  <2> QED BY <1>1, <1>5, <2>1
<1>6. CASE Devices!TypeButtons
  <2>1. CASE Devices!OpenTypeCreate
    <3>1. PICK s: s = [ui EXCEPT !.dlg.mode = "create", !.form = Devices!Blank]
      OBVIOUS
    <3>2. Still(s)
      BY <1>0, <3>1 DEF Still
    <3> QED BY <1>1, <2>1, <3>1, <3>2 DEF Devices!OpenTypeCreate
  <2>2. ASSUME NEW x, Devices!OpenTypeEdit(x) PROVE TypesShown(ui', net', srv')
    <3>1. PICK d, f: d = [mode |-> "edit", row |-> x.row, ver |-> x.ver] /\ f = [row |-> x.row, ver |-> x.ver]
      OBVIOUS
    <3> QED BY <1>5, <2>2, <3>1 DEF Devices!OpenTypeEdit
  <2>3. ASSUME NEW x, Devices!RemoveType(x) PROVE TypesShown(ui', net', srv')
    <3>1. PICK c: c = Devices!TypeCall("delete", "removeType", x.row, x.ver)
      OBVIOUS
    <3>2. Named(c, "delete", "removeType")
      BY <3>1, DevicesSame DEF Devices!TypeCall, Call, CallFields, Named
    <3> QED BY <1>2, <2>3, <3>1, <3>2 DEF Devices!RemoveType
  <2>4. CASE Devices!Set([ui EXCEPT !.dlg = Devices!Closed])
    BY <1>5, <2>4
  <2> QED BY <1>6, <2>1, <2>2, <2>3, <2>4 DEF Devices!TypeButtons
<1>7. CASE Devices!SubmitType
  <2>1. PICK op, c: /\ c = [Devices!TypeCall(op, "saveType", ui.dlg.row, ui.dlg.ver) EXCEPT !.form = ui.form]
                    /\ Devices!Write(ui, c) /\ op \in {"put", "post"}
    BY <1>7 DEF Devices!SubmitType
  <2>2. Named(c, op, "saveType")
    BY <2>1, DevicesSame DEF Devices!TypeCall, Call, CallFields, Named
  <2> QED BY <1>2, <2>1, <2>2
<1>8. ASSUME NEW m \in net, Devices!LandSaveType(m) \/ Devices!LandRemoveType(m) PROVE TypesShown(ui', net', srv')
  <2>1. PICK s: s = [ui EXCEPT !.dlg = Devices!Closed]
    OBVIOUS
  <2>2. "ok" \in DOMAIN s /\ "ok" \in DOMAIN ui
    BY <1>0, <2>1
  <2>3. /\ m.ctx \in {"saveType", "removeType"}
        /\ Devices!After(m, s, Devices!FetchTypes, ui) \/ Devices!After(m, ui, Devices!FetchTypes, ui)
    BY <1>8, <2>1 DEF Devices!LandSaveType, Devices!LandRemoveType, Devices!Landed
  <2> QED BY <1>3, <2>2, <2>3
<1> QED BY <1>4, <1>6, <1>7, <1>8 DEF Devices!TypesNext

-----------------------------------------------------------------------------
(* What the lists show: the hierarchy                                         *)

\* The forms of a step, on the hierarchy.
LEMMA TreeWent ==
  ASSUME NEW s, NEW c, DOMAIN c = CallFields
  PROVE  /\ Tree!Write(s, c) => Wrote(s, c)
         /\ Tree!Load(s, c) => Loaded(s, c)
         /\ \A m, t: Tree!After(m, s, c, t) => Went(m, s, c, t)
<1>1. \A calls: \E d: Tree!Add(calls, c) = calls \cup {d} /\ SameCall(d, c)
  BY TreeSame, AddOne
<1> QED BY <1>1, TreeSame DEF Tree!Write, Wrote, Tree!Load, Loaded, Tree!After, Went

WholeTrees == {"tree", "first"}
HierarchyShown(s, N, S) == ListPage(WholeTrees, s, N, S, All, 0)

\* What a load of the hierarchy asks for.
LEMMA TreeFetch ==
  ASSUME NEW ctx \in WholeTrees
  PROVE  \E c: c = Tree!FetchTree(ctx) /\ Fetches(c, WholeTrees, All, 0)
<1>1. PICK c: c = Tree!FetchTree(ctx)
  OBVIOUS
<1>2. DOMAIN c = CallFields /\ c.op = "list" /\ c.ctx = ctx /\ c.up = All /\ c.page = 0 /\ c.res = "pending"
  BY <1>1, TreeSame DEF Tree!FetchTree, Call, CallFields
<1> QED BY <1>1, <1>2 DEF Fetches

TreeWrites == {"dc", "room", "rack", "copy", "move", "removeDc", "remove"}

\* The calls of the hierarchy that are no lists.
LEMMA TreeNamed ==
  ASSUME NEW op, NEW ctx, NEW x, NEW c, NEW f, NEW g,
         \/ c \in {Tree!CentreCall(op, ctx, x), Tree!RoomCall(op, ctx, x), Tree!RackCall(op, ctx, x)}
         \/ c \in {[Tree!CentreCall(op, ctx, x) EXCEPT !.form = f], [Tree!RoomCall(op, ctx, x) EXCEPT !.form = f],
                   [Tree!RackCall(op, ctx, x) EXCEPT !.form = f]}
         \/ c \in {[Tree!RoomCall(op, ctx, x) EXCEPT !.up = g], [Tree!RackCall(op, ctx, x) EXCEPT !.up = g]}
  PROVE  Named(c, op, ctx)
<1>1. PICK b: b = [Call EXCEPT !.op = op, !.ctx = ctx, !.row = x.row, !.ver = x.ver]
  OBVIOUS
<1>2. b = Tree!CentreCall(op, ctx, x) /\ b = Tree!RoomCall(op, ctx, x) /\ b = Tree!RackCall(op, ctx, x)
  BY <1>1, TreeSame DEF Tree!CentreCall, Tree!RoomCall, Tree!RackCall
<1>3. DOMAIN b = CallFields /\ b.op = op /\ b.ctx = ctx
  BY <1>1 DEF Call, CallFields
<1>4. PICK h, k: h = [b EXCEPT !.form = f] /\ k = [b EXCEPT !.up = g]
  OBVIOUS
<1>5. /\ h = [Tree!CentreCall(op, ctx, x) EXCEPT !.form = f] /\ h = [Tree!RoomCall(op, ctx, x) EXCEPT !.form = f]
      /\ h = [Tree!RackCall(op, ctx, x) EXCEPT !.form = f]
  BY <1>2, <1>4
<1>6. k = [Tree!RoomCall(op, ctx, x) EXCEPT !.up = g] /\ k = [Tree!RackCall(op, ctx, x) EXCEPT !.up = g]
  BY <1>2, <1>4
<1>7. c = b \/ c = h \/ c = k
  BY <1>2, <1>5, <1>6
<1>8. Named(b, op, ctx) /\ Named(h, op, ctx) /\ Named(k, op, ctx)
  BY <1>3, <1>4 DEF Named, CallFields
<1> QED BY <1>7, <1>8

\* Every step of the hierarchy keeps what it shows true.
LEMMA HierarchyShow ==
  ASSUME TreeInv(ui, net, srv), Tree!PageNext, HierarchyShown(ui, net, srv)
  PROVE  HierarchyShown(ui', net', srv')
<1>0. DOMAIN ui = {"page", "rows", "dc", "room", "dlg", "form", "loading", "ok"}
  BY DEF TreeInv
<1>a. "tree" \in WholeTrees /\ "first" \in WholeTrees /\ \A x \in TreeWrites: x \notin WholeTrees
  BY DEF WholeTrees, TreeWrites
<1>b. ListPage(WholeTrees, ui, net, srv, All, 0)
  BY DEF HierarchyShown
<1>1. ASSUME NEW s, Still(s), Tree!Set(s) PROVE HierarchyShown(ui', net', srv')
  BY <1>b, <1>1, ListForms DEF HierarchyShown, Tree!Set
<1>2. ASSUME NEW c, NEW op, NEW ctx, Tree!Write(ui, c), Named(c, op, ctx), op # "list", ctx \in TreeWrites
      PROVE  HierarchyShown(ui', net', srv')
  <2>1. Wrote(ui, c)
    BY <1>2, TreeWent DEF Named
  <2> QED BY <1>a, <1>b, <1>2, <2>1, ListWrites DEF HierarchyShown, Still
<1>3. ASSUME NEW s, NEW m \in net, "ok" \in DOMAIN s, m.ctx \in TreeWrites, NEW ctx \in WholeTrees,
             Tree!After(m, s, Tree!FetchTree(ctx), ui)
      PROVE  HierarchyShown(ui', net', srv')
  <2>1. PICK c: c = Tree!FetchTree(ctx) /\ Fetches(c, WholeTrees, All, 0)
    BY TreeFetch
  <2>2. Went(m, s, c, ui)
    BY <1>3, <2>1, TreeWent DEF Fetches
  <2> QED BY <1>0, <1>a, <1>b, <1>3, <2>1, <2>2, ListGoes DEF HierarchyShown, Still
<1>4. ASSUME NEW s, "ok" \in DOMAIN s, Tree!Load(s, Tree!FetchTree("tree"))
      PROVE  HierarchyShown(ui', net', srv')
  <2>1. PICK c: c = Tree!FetchTree("tree") /\ Fetches(c, WholeTrees, All, 0)
    BY <1>a, TreeFetch
  <2>2. Loaded(s, c)
    BY <1>4, <2>1, TreeWent DEF Fetches
  <2> QED BY <1>b, <1>4, <2>1, <2>2, ListForms DEF HierarchyShown
<1>5. PICK s: s = Tree!Shut(ui)
  OBVIOUS
<1>6. "ok" \in DOMAIN s /\ "ok" \in DOMAIN ui /\ Still(s)
  BY <1>0, <1>5 DEF Tree!Shut, Still
<1>7. ASSUME NEW m \in net, Tree!LandTree(m) PROVE HierarchyShown(ui', net', srv')
  <2>1. m.op = "list"
    BY <1>7, <1>b DEF Tree!LandTree, Tree!Landed, ListPage, Lists, WholeTrees
  <2>2. PICK t, N, S: t = ui' /\ N = net' /\ N = net \ {m} /\ S = srv' /\ S = srv
    BY <1>7 DEF Tree!LandTree
  <2>3. t.ok => ui.ok /\ m.res = "ok" /\ t.rows = m.rows
    <3>1. CASE m.res # "ok"
      BY <1>0, <1>7, <2>2, <3>1 DEF Tree!LandTree
    <3>2. CASE m.res = "ok"
      <4>1. PICK x, keep: x = [ui EXCEPT !.loading = FALSE, !.rows = m.rows] /\ t = Tree!Reselect(x, keep)
        BY <1>7, <2>2, <3>2 DEF Tree!LandTree
      <4>2. PICK dc, room: t = [x EXCEPT !.dc = dc, !.room = room]
        BY <4>1 DEF Tree!Reselect
      <4>3. x.ok = ui.ok /\ x.rows = m.rows
        BY <1>0, <4>1
      <4> QED BY <3>2, <4>2, <4>3
    <3> QED BY <3>1, <3>2
  <2>4. ListPage(WholeTrees, t, N, S, All, 0)
    BY <1>b, <2>1, <2>2, <2>3, ListLands
  <2> QED BY <2>2, <2>4 DEF HierarchyShown
<1>8. ASSUME NEW d, NEW f, NEW x,
             x = [ui EXCEPT !.dlg = d, !.form = f] \/ x = [ui EXCEPT !.dlg = d] \/ x = [ui EXCEPT !.room = d]
                \/ x = [ui EXCEPT !.dc = d, !.room = f] \/ x = [ui EXCEPT !.dlg.target = d], Tree!Set(x)
      PROVE  HierarchyShown(ui', net', srv')
  <2>1. Still(x)
    BY <1>0, <1>8 DEF Still
  <2> QED BY <1>1, <1>8, <2>1
<1>9. ASSUME NEW mode, Tree!OpenCreate(mode) PROVE HierarchyShown(ui', net', srv')
  <2>1. PICK d, f: d = [Tree!Closed EXCEPT !.mode = mode] /\ f = Tree!Blank
    OBVIOUS
  <2> QED BY <1>8, <1>9, <2>1 DEF Tree!OpenCreate
<1>10. ASSUME NEW mode, NEW x, Tree!OpenEdit(mode, x) PROVE HierarchyShown(ui', net', srv')
  <2>1. PICK d, f: /\ d = [mode |-> mode, row |-> x.row, ver |-> x.ver, target |-> Tree!NoRow]
                   /\ f = [row |-> x.row, ver |-> x.ver]
    OBVIOUS
  <2> QED BY <1>8, <1>10, <2>1 DEF Tree!OpenEdit
<1>11. ASSUME NEW x, Tree!OpenCopy(x) \/ Tree!OpenMove(x) \/ Tree!SelectDc(x) \/ Tree!SelectRoom(x)
      PROVE HierarchyShown(ui', net', srv')
  <2>1. CASE Tree!OpenCopy(x)
    <3>1. PICK d: d = [mode |-> "copy", row |-> x.row, ver |-> x.ver, target |-> Tree!NoRow]
      OBVIOUS
    <3> QED BY <1>8, <2>1, <3>1 DEF Tree!OpenCopy
  <2>2. CASE Tree!OpenMove(x)
    <3>1. PICK d: d = [mode |-> "move", row |-> x.row, ver |-> x.ver,
                       target |-> IF x \in Tree!Rooms THEN Tree!First(Tree!OtherCentres) ELSE Tree!NoRow]
      OBVIOUS
    <3> QED BY <1>8, <2>2, <3>1 DEF Tree!OpenMove
  <2>3. CASE Tree!SelectDc(x)
    <3>1. PICK d, f: d = x.row /\ f = Tree!First(Tree!Kids(ui.rows, x.row))
      OBVIOUS
    <3> QED BY <1>8, <2>3, <3>1 DEF Tree!SelectDc
  <2>4. CASE Tree!SelectRoom(x)
    BY <1>8, <2>4 DEF Tree!SelectRoom
  <2> QED BY <1>11, <2>1, <2>2, <2>3, <2>4
<1>12. ASSUME NEW op, NEW ctx, NEW x, op # "list", ctx \in TreeWrites, NEW c, Tree!Write(ui, c), NEW f, NEW g,
         \/ c \in {Tree!CentreCall(op, ctx, x), Tree!RoomCall(op, ctx, x), Tree!RackCall(op, ctx, x)}
         \/ c \in {[Tree!CentreCall(op, ctx, x) EXCEPT !.form = f], [Tree!RoomCall(op, ctx, x) EXCEPT !.form = f],
                   [Tree!RackCall(op, ctx, x) EXCEPT !.form = f]}
         \/ c \in {[Tree!RoomCall(op, ctx, x) EXCEPT !.up = g], [Tree!RackCall(op, ctx, x) EXCEPT !.up = g]}
       PROVE  HierarchyShown(ui', net', srv')
  <2>1. Named(c, op, ctx)
    BY <1>12, TreeNamed
  <2> QED BY <1>2, <1>12, <2>1
<1>13. CASE Tree!LoadTree
  BY <1>4, <1>6, <1>13 DEF Tree!LoadTree
<1>14. CASE Tree!NothingToSave
  <2>1. Tree!Load(s, Tree!FetchTree("tree"))
    BY <1>5, <1>14 DEF Tree!NothingToSave, Tree!Load
  <2> QED BY <1>4, <1>6, <2>1
<1>15. ASSUME NEW x,
              Tree!Write(ui, Tree!CentreCall("delete", "removeDc", x)) \/ Tree!Write(ui, Tree!RoomCall("delete", "remove", x))
                \/ Tree!Write(ui, Tree!RackCall("delete", "remove", x))
       PROVE  HierarchyShown(ui', net', srv')
  BY <1>12, <1>15 DEF TreeWrites
<1>16. CASE Tree!CentreColumn
  BY <1>11, <1>15, <1>16 DEF Tree!CentreColumn, Tree!RemoveDc
<1>17. CASE Tree!RoomColumn
  BY <1>11, <1>15, <1>17 DEF Tree!RoomColumn, Tree!RemoveRoom
<1>18. CASE Tree!RackColumn
  BY <1>10, <1>11, <1>15, <1>18 DEF Tree!RackColumn, Tree!RemoveRack, Tree!OpenRackEdit
<1>19. CASE \/ Tree!OpenDcCreate \/ Tree!OpenDcEdit \/ Tree!OpenRoomCreate \/ Tree!OpenRoomEdit \/ Tree!OpenRackCreate
  BY <1>9, <1>10, <1>19 DEF Tree!OpenDcCreate, Tree!OpenDcEdit, Tree!OpenRoomCreate, Tree!OpenRoomEdit, Tree!OpenRackCreate
<1>20. CASE Tree!SubmitDc
  <2>1. PICK c: Tree!Write(ui, c) /\ \/ c = [Tree!CentreCall("put", "dc", ui.dlg) EXCEPT !.form = ui.form]
                                     \/ c = Tree!CentreCall("post", "dc", Tree!Closed)
    BY <1>20 DEF Tree!SubmitDc
  <2> QED BY <1>12, <2>1 DEF TreeWrites
<1>21. CASE Tree!SubmitRoom
  <2>1. CASE Tree!NothingToSave
    BY <1>14, <2>1
  <2>2. CASE \E c: Tree!Write(ui, c) /\ \/ c = [Tree!RoomCall("put", "room", ui.dlg) EXCEPT !.form = ui.form]
                                        \/ c = [Tree!RoomCall("post", "room", Tree!Closed) EXCEPT !.up = ui.dc]
    BY <1>12, <2>2 DEF TreeWrites
  <2> QED BY <1>21, <2>1, <2>2 DEF Tree!SubmitRoom
<1>22. CASE Tree!SubmitRack
  <2>1. CASE Tree!NothingToSave
    BY <1>14, <2>1
  <2>2. CASE \E c: Tree!Write(ui, c) /\ \/ c = [Tree!RackCall("put", "rack", ui.dlg) EXCEPT !.form = ui.form]
                                        \/ c = [Tree!RackCall("post", "rack", Tree!Closed) EXCEPT !.up = ui.room]
    BY <1>12, <2>2 DEF TreeWrites
  <2> QED BY <1>22, <2>1, <2>2 DEF Tree!SubmitRack
<1>23. CASE Tree!SubmitCopy \/ Tree!SubmitMove
  <2>1. PICK c: Tree!Write(ui, c) /\ \/ c = Tree!CentreCall("copy", "copy", ui.dlg)
                                     \/ c = [Tree!RoomCall("move", "move", ui.dlg) EXCEPT !.up = ui.dlg.target]
    BY <1>23 DEF Tree!SubmitCopy, Tree!SubmitMove
  <2> QED BY <1>12, <2>1 DEF TreeWrites
<1>24. CASE Tree!ChooseTarget
  <2>1. PICK r: Tree!Set([ui EXCEPT !.dlg.target = r])
    BY <1>24 DEF Tree!ChooseTarget
  <2> QED BY <1>8, <2>1
<1>25. CASE Tree!Cancel
  BY <1>1, <1>5, <1>6, <1>25 DEF Tree!Cancel
<1>26. ASSUME NEW m \in net, Tree!LandSubmit(m) PROVE HierarchyShown(ui', net', srv')
  <2>1. m.ctx \in TreeWrites
    BY <1>26 DEF Tree!LandSubmit, TreeWrites
  <2>2. Tree!After(m, s, Tree!FetchTree("tree"), ui) \/ Tree!After(m, ui, Tree!FetchTree("tree"), ui)
    BY <1>5, <1>26 DEF Tree!LandSubmit
  <2> QED BY <1>a, <1>3, <1>6, <2>1, <2>2
<1>27. ASSUME NEW m \in net, Tree!LandRemove(m) PROVE HierarchyShown(ui', net', srv')
  <2>1. /\ m.ctx \in TreeWrites
        /\ Tree!After(m, ui, Tree!FetchTree("first"), ui) \/ Tree!After(m, ui, Tree!FetchTree("tree"), ui)
    BY <1>27 DEF Tree!LandRemove, Tree!Landed, TreeWrites
  <2> QED BY <1>a, <1>3, <1>6, <2>1
<1> QED BY <1>7, <1>13, <1>16, <1>17, <1>18, <1>19, <1>20, <1>21, <1>22, <1>23, <1>24, <1>25, <1>26, <1>27 DEF Tree!PageNext

-----------------------------------------------------------------------------
(* What the lists show: the ledger of devices, a page of those a filter admits *)

LedgerShown(s, N, S) == ListPage({"devices"}, s, N, S, s.filter, s.pg)

\* What a load of the ledger asks for.
LEMMA DevicesFetch ==
  ASSUME NEW s
  PROVE  \E c: c = Devices!FetchDevices(s) /\ Fetches(c, {"devices"}, s.filter, s.pg)
<1>1. PICK c: c = Devices!FetchDevices(s)
  OBVIOUS
<1>2. DOMAIN c = CallFields /\ c.op = "list" /\ c.ctx = "devices" /\ c.up = s.filter /\ c.page = s.pg /\ c.res = "pending"
  BY <1>1, DevicesSame DEF Devices!FetchDevices, Devices!DeviceCall, Call, CallFields
<1> QED BY <1>1, <1>2 DEF Fetches

\* Every step of the ledger keeps what it shows true.
LEMMA LedgerShow ==
  ASSUME LedgerInv(ui, net, srv), Devices!LedgerNext, LedgerShown(ui, net, srv)
  PROVE  LedgerShown(ui', net', srv')
<1>0. DOMAIN ui = {"page", "filter", "pg", "rows", "total", "loading", "ok", "dlg", "form", "own"}
  BY DEF LedgerInv
<1>a. PICK L: L = {"devices"}
  OBVIOUS
<1>b. ListPage(L, ui, net, srv, ui.filter, ui.pg)
  BY <1>a DEF LedgerShown
<1>c. \A x \in {"device", "save", "remove"}: x \notin L
  BY <1>a
<1>d. ASSUME NEW u, NEW p, ui'.filter = u, ui'.pg = p, ListPage(L, ui', net', srv', u, p) PROVE LedgerShown(ui', net', srv')
  BY <1>a, <1>d DEF LedgerShown
<1>1. ASSUME NEW s, Still(s), s.filter = ui.filter, s.pg = ui.pg, Devices!Set(s) PROVE LedgerShown(ui', net', srv')
  <2>1. ListPage(L, ui', net', srv', ui.filter, ui.pg)
    BY <1>b, <1>1, ListForms DEF Devices!Set
  <2> QED BY <1>1, <1>d, <2>1 DEF Devices!Set
<1>2. ASSUME NEW s, Still(s), s.filter = ui.filter, s.pg = ui.pg, NEW c, NEW op, NEW ctx, Devices!Write(s, c),
             Named(c, op, ctx), op # "list", ctx \in {"device", "save", "remove"}
      PROVE  LedgerShown(ui', net', srv')
  <2>1. Wrote(s, c)
    BY <1>2, DevicesWent DEF Named
  <2>2. ListPage(L, ui', net', srv', ui.filter, ui.pg)
    BY <1>b, <1>c, <1>2, <2>1, ListWrites
  <2> QED BY <1>2, <1>d, <2>2 DEF Devices!Write
<1>3. ASSUME NEW s, NEW m \in net, DOMAIN s = DOMAIN ui, s.filter = ui.filter, s.pg = ui.pg, m.ctx \in {"save", "remove"},
             Devices!After(m, s, Devices!FetchDevices(ui), ui)
      PROVE  LedgerShown(ui', net', srv')
  <2>1. PICK c: c = Devices!FetchDevices(ui) /\ Fetches(c, L, ui.filter, ui.pg)
    BY <1>a, DevicesFetch
  <2>2. Went(m, s, c, ui)
    BY <1>3, <2>1, DevicesWent DEF Fetches
  <2>3. ListPage(L, ui', net', srv', ui.filter, ui.pg)
    BY <1>0, <1>b, <1>c, <1>3, <2>1, <2>2, ListGoes DEF Still
  <2>4. ui'.filter = ui.filter /\ ui'.pg = ui.pg
    BY <1>0, <1>3, <2>2 DEF Went, Begin
  <2> QED BY <1>d, <2>3, <2>4
<1>4. ASSUME NEW s, DOMAIN s = DOMAIN ui, Devices!Load(s, Devices!FetchDevices(s)) PROVE LedgerShown(ui', net', srv')
  <2>1. PICK c: c = Devices!FetchDevices(s) /\ Fetches(c, L, s.filter, s.pg)
    BY <1>a, DevicesFetch
  <2>2. Loaded(s, c)
    BY <1>4, <2>1, DevicesWent DEF Fetches
  <2>3. ListPage(L, ui', net', srv', s.filter, s.pg)
    BY <1>0, <1>b, <1>4, <2>1, <2>2, ListForms
  <2>4. ui'.filter = s.filter /\ ui'.pg = s.pg
    BY <1>0, <1>4, <2>2 DEF Loaded, Begin
  <2> QED BY <1>d, <2>3, <2>4
<1>5. CASE Devices!LoadDevices
  BY <1>4, <1>5 DEF Devices!LoadDevices
<1>6. CASE Devices!Filters
  <2>1. CASE Devices!TurnPage
    <3>1. PICK p, s: s = [ui EXCEPT !.pg = p] /\ Devices!Load(s, Devices!FetchDevices(s))
      BY <2>1 DEF Devices!TurnPage
    <3>2. DOMAIN s = DOMAIN ui
      BY <3>1
    <3> QED BY <1>4, <3>1, <3>2
  <2>2. ASSUME NEW g, Devices!SearchDevices(g) PROVE LedgerShown(ui', net', srv')
    <3>1. PICK s: s = [ui EXCEPT !.filter = g, !.pg = 1] /\ Devices!Load(s, Devices!FetchDevices(s))
      BY <2>2 DEF Devices!SearchDevices
    <3>2. DOMAIN s = DOMAIN ui
      BY <3>1
    <3> QED BY <1>4, <3>1, <3>2
  <2> QED BY <1>6, <2>1, <2>2 DEF Devices!Filters
<1>7. ASSUME NEW m \in net, Devices!LandDevices(m) PROVE LedgerShown(ui', net', srv')
  <2>1. m.op = "list" /\ srv' = srv
    BY <1>7, <1>a, <1>b DEF Devices!LandDevices, Devices!Landed, ListPage, Lists
  <2>2. ASSUME net' = net \ {m}, ui'.filter = ui.filter, ui'.pg = ui.pg, ui'.ok => ui.ok /\ m.res = "ok" /\ ui'.rows = m.rows
        PROVE  LedgerShown(ui', net', srv')
    <3>1. PICK t, N, S: t = ui' /\ N = net' /\ N = net \ {m} /\ S = srv' /\ S = srv
      BY <2>1, <2>2
    <3>2. ListPage(L, t, N, S, ui.filter, ui.pg)
      BY <1>b, <2>1, <2>2, <3>1, ListLands
    <3> QED BY <1>d, <2>2, <3>1, <3>2
  <2>3. CASE m.res # "ok"
    BY <1>0, <1>7, <2>2, <2>3 DEF Devices!LandDevices
  <2>4. CASE m.res = "ok"
    <3>1. PICK x: x = [ui EXCEPT !.rows = m.rows, !.total = m.total, !.loading = FALSE]
      OBVIOUS
    <3>2. PICK s: s = Devices!Clamp(x, m)
      OBVIOUS
    <3>3. DOMAIN s = DOMAIN ui /\ s.filter = ui.filter /\ s.rows = m.rows /\ s.ok = ui.ok
      BY <1>0, <3>1, <3>2 DEF Devices!Clamp
    <3>4. CASE s.pg = ui.pg
      <4>1. ui' = s /\ net' = net \ {m}
        BY <1>7, <2>4, <3>1, <3>2, <3>4 DEF Devices!LandDevices
      <4> QED BY <2>2, <2>4, <3>3, <3>4, <4>1
    <3>5. CASE s.pg # ui.pg
      <4>1. ui' = Devices!Begin(s, net \ {m}) /\ net' = Devices!Add(net \ {m}, Devices!FetchDevices(s))
        BY <1>7, <2>4, <3>1, <3>2, <3>5 DEF Devices!LandDevices
      <4>2. PICK c: c = Devices!FetchDevices(s) /\ Fetches(c, L, s.filter, s.pg)
        BY <1>a, DevicesFetch
      <4>3. PICK d: net' = (net \ {m}) \cup {d} /\ SameCall(d, c)
        BY <4>1, <4>2, AddOne, DevicesSame DEF Fetches
      <4>4. PICK t, N, S: t = ui' /\ N = net' /\ N = (net \ {m}) \cup {d} /\ S = srv' /\ S = srv
        BY <2>1, <4>3
      <4>5. t = Begin(s, net \ {m})
        BY <4>1, <4>4, DevicesSame
      <4>6. t.filter = s.filter /\ t.pg = s.pg /\ (t.ok => ~Waiting("list", net \ {m}))
        BY <1>0, <3>3, <4>5 DEF Begin
      <4>7. d.op = "list" /\ d.ctx \in L /\ d.res = "pending" /\ d.up = s.filter /\ d.page = s.pg
        BY <4>2, <4>3 DEF SameCall, Fetches
      <4>8. ListPage(L, t, N, S, s.filter, s.pg)
        BY <1>b, <4>4, <4>6, <4>7, ListBegun DEF ListPage
      <4> QED BY <1>d, <4>4, <4>6, <4>8
    <3> QED BY <3>4, <3>5
  <2> QED BY <2>3, <2>4
<1>8. CASE Devices!OpenDeviceCreate
  <2>1. PICK s: s = [ui EXCEPT !.dlg.mode = "create", !.form = Devices!Blank, !.own = "no"]
    OBVIOUS
  <2>2. Still(s) /\ s.filter = ui.filter /\ s.pg = ui.pg
    BY <1>0, <2>1 DEF Still
  <2> QED BY <1>1, <1>8, <2>1, <2>2 DEF Devices!OpenDeviceCreate
<1>9. CASE Devices!CloseDevice
  <2>1. PICK s: s = [ui EXCEPT !.dlg = Devices!Closed]
    OBVIOUS
  <2>2. Still(s) /\ s.filter = ui.filter /\ s.pg = ui.pg
    BY <1>0, <2>1 DEF Still
  <2> QED BY <1>1, <1>9, <2>1, <2>2 DEF Devices!CloseDevice
<1>10. ASSUME NEW x, Devices!OpenDeviceEdit(x) PROVE LedgerShown(ui', net', srv')
  <2>1. PICK s, c: /\ s = [ui EXCEPT !.dlg = [mode |-> "edit", row |-> x.row, ver |-> x.ver],
                                     !.own = IF Devices!Waiting("get", net) THEN "unsure" ELSE "no"]
                   /\ c = Devices!DeviceCall("get", "device", x.row, 0)
    OBVIOUS
  <2>2. Devices!Write(s, c)
    BY <1>10, <2>1 DEF Devices!OpenDeviceEdit
  <2>3. Still(s) /\ s.filter = ui.filter /\ s.pg = ui.pg
    BY <1>0, <2>1 DEF Still
  <2>4. Named(c, "get", "device")
    BY <2>1, DevicesSame DEF Devices!DeviceCall, Call, CallFields, Named
  <2> QED BY <1>2, <2>2, <2>3, <2>4
<1>11. ASSUME NEW m \in net, Devices!LandDevice(m) PROVE LedgerShown(ui', net', srv')
  <2>1. PICK t, N, S: t = ui' /\ N = net' /\ N = net \ {m} /\ S = srv' /\ S = srv
    BY <1>11 DEF Devices!LandDevice
  <2>2. Still(t) /\ t.filter = ui.filter /\ t.pg = ui.pg
    <3>1. CASE m.res = "ok"
      <4>1. PICK f: t = [ui EXCEPT !.form = f, !.own = IF @ = "no" THEN "yes" ELSE @]
        BY <1>11, <2>1, <3>1 DEF Devices!LandDevice
      <4> QED BY <1>0, <4>1 DEF Still
    <3>2. CASE m.res # "ok"
      <4>1. t = [ui EXCEPT !.dlg = Devices!Closed]
        BY <1>11, <2>1, <3>2 DEF Devices!LandDevice
      <4> QED BY <1>0, <4>1 DEF Still
    <3> QED BY <3>1, <3>2
  <2>3. m.op = "get" /\ m.op \in Reads /\ m.op # "list"
    BY <1>11 DEF LedgerInv, Devices!LandDevice, Devices!Landed, Reads
  <2>4. ListPage(L, t, N, S, ui.filter, ui.pg)
    BY <1>b, <2>1, <2>2, <2>3, ListKept DEF Still
  <2> QED BY <1>d, <2>1, <2>2, <2>4
<1>12. ASSUME NEW g, Devices!SubmitDevice(g) PROVE LedgerShown(ui', net', srv')
  <2>1. PICK op, c: /\ c = [Devices!DeviceCall(op, "save", ui.dlg.row, ui.dlg.ver)
                             EXCEPT !.form = ui.form, !.up = g, !.mixed = ui.own # "yes"]
                    /\ Devices!Write(ui, c) /\ op \in {"put", "post"}
    BY <1>12 DEF Devices!SubmitDevice
  <2>2. Named(c, op, "save")
    BY <2>1, DevicesSame DEF Devices!DeviceCall, Call, CallFields, Named
  <2> QED BY <1>2, <2>1, <2>2 DEF Still
<1>13. ASSUME NEW x, Devices!RemoveDevice(x) PROVE LedgerShown(ui', net', srv')
  <2>1. PICK c: c = Devices!DeviceCall("delete", "remove", x.row, x.ver) /\ Devices!Write(ui, c)
    BY <1>13 DEF Devices!RemoveDevice
  <2>2. Named(c, "delete", "remove")
    BY <2>1, DevicesSame DEF Devices!DeviceCall, Call, CallFields, Named
  <2> QED BY <1>2, <2>1, <2>2 DEF Still
<1>14. ASSUME NEW m \in net, Devices!LandSave(m) \/ Devices!LandRemove(m) PROVE LedgerShown(ui', net', srv')
  <2>1. PICK s: s = [ui EXCEPT !.dlg = Devices!Closed]
    OBVIOUS
  <2>2. DOMAIN s = DOMAIN ui /\ s.filter = ui.filter /\ s.pg = ui.pg
    BY <1>0, <2>1
  <2>3. /\ m.ctx \in {"save", "remove"}
        /\ Devices!After(m, s, Devices!FetchDevices(ui), ui) \/ Devices!After(m, ui, Devices!FetchDevices(ui), ui)
    BY <1>14, <2>1 DEF Devices!LandSave, Devices!LandRemove, Devices!Landed
  <2> QED BY <1>3, <2>2, <2>3
<1> QED BY <1>5, <1>6, <1>7, <1>8, <1>9, <1>10, <1>11, <1>12, <1>13, <1>14 DEF Devices!LedgerNext

-----------------------------------------------------------------------------
(* What the lists show: PDUs, which are loaded in two stages                  *)

PdusLists == {"pdus", "pdusSaved", "sockets", "socketsSaved"}
FirstStage == {"pdus", "pdusSaved"}
\* What has been answered, and the stages that are over, show the rows X.
StagesShow(s, N, X) ==
  /\ AnswersTrue(N, X)
  /\ (\A m \in N: m.ctx \notin FirstStage) => s.rows = Power!Units(X) /\ s.conns = Power!Connections(X)
  /\ NoList(N) => s.socks = Power!Sockets(X)
PdusShown(s, N, S) ==
  /\ Lists(N, PdusLists)
  /\ s.ok => OneList(N, s.rack, 0) /\ (Owed(N) \/ StagesShow(s, N, Listed(S, s.rack)))

\* The page shows what it showed, of the same rack.
SamePdus(t, s) == t.rack = s.rack /\ t.rows = s.rows /\ t.socks = s.socks /\ t.conns = s.conns

\* A step that neither takes nor makes a load, and takes no executed write unless it excuses.
LEMMA PdusStay ==
  ASSUME NEW s, NEW N, NEW S, PdusShown(s, N, S), NEW t, NEW M, SamePdus(t, s), t.ok => s.ok,
         \A k \in M: k \in N \/ (k.op # "list" /\ k.ctx \notin PdusLists),
         \A k \in N: k \in M \/ (k.ctx \notin PdusLists /\ (t.ok => ~k.did))
  PROVE  PdusShown(t, M, S)
<1>0. \A k \in N: k.op = "list" <=> k.ctx \in PdusLists
  BY DEF PdusShown, Lists
<1>a. FirstStage \subseteq PdusLists
  BY DEF FirstStage, PdusLists
<1>1. Lists(M, PdusLists)
  BY <1>0 DEF Lists
<1>2. ASSUME t.ok
      PROVE  OneList(M, t.rack, 0) /\ (Owed(M) \/ StagesShow(t, M, Listed(S, t.rack)))
  <2>1. PICK X: X = Listed(S, s.rack) /\ X = Listed(S, t.rack)
    BY DEF SamePdus
  <2>2. OneList(N, s.rack, 0) /\ (Owed(N) \/ StagesShow(s, N, X))
    BY <1>2, <2>1 DEF PdusShown
  <2>3. OneList(M, t.rack, 0)
    BY <1>0, <2>2 DEF OneList, SamePdus
  <2>4. Owed(N) => Owed(M)
    BY <1>2 DEF Owed
  <2>5. AnswersTrue(N, X) => AnswersTrue(M, X)
    BY DEF AnswersTrue
  <2>6. NoList(M) => NoList(N)
    BY <1>0 DEF NoList
  <2>7. (\A m \in M: m.ctx \notin FirstStage) => \A m \in N: m.ctx \notin FirstStage
    BY <1>a
  <2>8. StagesShow(s, N, X) => StagesShow(t, M, X)
    BY <2>5, <2>6, <2>7 DEF StagesShow, SamePdus
  <2> QED BY <2>1, <2>2, <2>3, <2>4, <2>8
<1> QED BY <1>1, <1>2 DEF PdusShown

\* A load of the PDUs starts alone.
LEMMA PdusBegun ==
  ASSUME NEW s, NEW N, NEW S, PdusShown(s, N, S), NEW R, NEW c, Fetches(c, FirstStage, s.rack, 0),
         NEW d, SameCall(d, c), NEW M, M = (N \ R) \cup {d}, NEW t, t.rack = s.rack, t.ok => ~Waiting("list", N \ R)
  PROVE  PdusShown(t, M, S)
<1>0. d.op = "list" /\ d.ctx \in FirstStage /\ d.ctx \in PdusLists /\ d.res = "pending" /\ d.up = s.rack /\ d.page = 0
  BY DEF SameCall, Fetches, FirstStage, PdusLists
<1>1. Lists(M, PdusLists)
  BY <1>0 DEF PdusShown, Lists
<1>2. ASSUME t.ok
      PROVE  OneList(M, t.rack, 0) /\ StagesShow(t, M, Listed(S, t.rack))
  <2>1. \A a \in M: a.op = "list" => a = d
    BY <1>2 DEF Waiting
  <2>2. OneList(M, t.rack, 0)
    BY <1>0, <2>1 DEF OneList
  <2>3. AnswersTrue(M, Listed(S, t.rack))
    BY <1>0, <2>1 DEF AnswersTrue
  <2>4. ~NoList(M) /\ ~(\A m \in M: m.ctx \notin FirstStage)
    BY <1>0 DEF NoList
  <2> QED BY <2>2, <2>3, <2>4 DEF StagesShow
<1> QED BY <1>1, <1>2 DEF PdusShown

\* The first stage lands, and starts the second.
LEMMA PdusTurn ==
  ASSUME NEW s, NEW N, NEW S, PdusShown(s, N, S), NEW m \in N, m.ctx \in FirstStage,
         NEW c, Fetches(c, {"sockets", "socketsSaved"}, s.rack, 0), NEW d, SameCall(d, c), NEW M, M = (N \ {m}) \cup {d},
         NEW t, t.rack = s.rack,
         t.ok => s.ok /\ m.res = "ok" /\ t.rows = Power!Units(m.rows) /\ t.conns = Power!Connections(m.rows)
  PROVE  PdusShown(t, M, S)
<1>0. /\ d.op = "list" /\ d.ctx \in PdusLists /\ d.ctx \notin FirstStage /\ d.res = "pending" /\ d.up = s.rack
      /\ d.page = 0 /\ m.op = "list"
  BY DEF SameCall, Fetches, FirstStage, PdusLists, PdusShown, Lists
<1>1. Lists(M, PdusLists)
  BY <1>0 DEF PdusShown, Lists
<1>2. ASSUME t.ok
      PROVE  OneList(M, t.rack, 0) /\ (Owed(M) \/ StagesShow(t, M, Listed(S, t.rack)))
  <2>1. PICK X: X = Listed(S, s.rack) /\ X = Listed(S, t.rack)
    OBVIOUS
  <2>2. OneList(N, s.rack, 0) /\ (Owed(N) \/ StagesShow(s, N, X))
    BY <1>2, <2>1 DEF PdusShown
  <2>3. \A a \in M: a.op = "list" => a = d
    BY <1>0, <2>2 DEF OneList
  <2>4. OneList(M, t.rack, 0)
    BY <1>0, <2>3 DEF OneList
  <2>5. Owed(N) => Owed(M)
    BY <1>0 DEF Owed, Reads
  <2>6. AnswersTrue(M, X) /\ ~NoList(M)
    BY <1>0, <2>3 DEF AnswersTrue, NoList
  <2>7. StagesShow(s, N, X) => m.rows = X
    BY <1>0, <1>2 DEF StagesShow, AnswersTrue
  <2>8. StagesShow(s, N, X) => StagesShow(t, M, X)
    BY <1>2, <2>6, <2>7 DEF StagesShow
  <2> QED BY <2>1, <2>2, <2>4, <2>5, <2>8
<1> QED BY <1>1, <1>2 DEF PdusShown

\* A load ends: with the sockets, or because its first stage failed.
LEMMA PdusEnd ==
  ASSUME NEW s, NEW N, NEW S, PdusShown(s, N, S), NEW m \in N, m.ctx \in PdusLists, NEW t, t.rack = s.rack,
         t.ok => /\ s.ok /\ m.ctx \notin FirstStage /\ m.res = "ok" /\ t.rows = s.rows /\ t.conns = s.conns
                 /\ t.socks = Power!Sockets(m.rows)
  PROVE  PdusShown(t, N \ {m}, S)
<1>0. m.op = "list"
  BY DEF PdusShown, Lists
<1>1. Lists(N \ {m}, PdusLists)
  BY DEF PdusShown, Lists
<1>2. ASSUME t.ok
      PROVE  OneList(N \ {m}, t.rack, 0) /\ (Owed(N \ {m}) \/ StagesShow(t, N \ {m}, Listed(S, t.rack)))
  <2>1. PICK X: X = Listed(S, s.rack) /\ X = Listed(S, t.rack)
    OBVIOUS
  <2>2. OneList(N, s.rack, 0) /\ (Owed(N) \/ StagesShow(s, N, X))
    BY <1>2, <2>1 DEF PdusShown
  <2>3. NoList(N \ {m})
    BY <1>0, <2>2 DEF OneList, NoList
  <2>4. OneList(N \ {m}, t.rack, 0) /\ AnswersTrue(N \ {m}, X)
    BY <2>3 DEF OneList, NoList, AnswersTrue
  <2>5. Owed(N) => Owed(N \ {m})
    BY <1>0 DEF Owed, Reads
  <2>6. \A k \in N: k.ctx \in FirstStage => k = m
    BY <1>0, <2>2 DEF OneList, PdusShown, Lists, FirstStage, PdusLists
  <2>7. StagesShow(s, N, X) => m.rows = X /\ t.rows = Power!Units(X) /\ t.conns = Power!Connections(X)
    BY <1>0, <1>2, <2>6 DEF StagesShow, AnswersTrue
  <2>8. StagesShow(s, N, X) => StagesShow(t, N \ {m}, X)
    BY <1>2, <2>4, <2>7 DEF StagesShow
  <2> QED BY <2>1, <2>2, <2>4, <2>5, <2>8
<1> QED BY <1>1, <1>2 DEF PdusShown

\* The back end answers.
LEMMA PdusTold ==
  ASSUME PdusShown(ui, net, srv), Calls(net, srv), NEW m, NEW d, Told(m, d)
  PROVE  PdusShown(ui, net', srv')
<1>1. PICK N: N = net' /\ N = (net \ {m}) \cup {d} /\ m \in net /\ m.res = "pending" /\ d.res # "pending"
              /\ d.op = m.op /\ d.ctx = m.ctx
  BY DEF Told
<1>2. Lists(N, PdusLists)
  BY <1>1 DEF PdusShown, Lists
<1>3. ASSUME ui.ok
      PROVE  /\ OneList(N, ui.rack, 0)
             /\ Owed(N) \/ (srv' = srv /\ StagesShow(ui, N, Listed(srv, ui.rack)))
  <2>1. PICK X: X = Listed(srv, ui.rack)
    OBVIOUS
  <2>2. OneList(net, ui.rack, 0) /\ (Owed(net) \/ StagesShow(ui, net, X))
    BY <1>3, <2>1 DEF PdusShown
  <2>3. OneList(N, ui.rack, 0)
    BY <1>1, <2>2 DEF OneList
  <2>4. Owed(net) => Owed(N)
    <3>1. ~m.did
      BY <1>1 DEF Calls, CallOK
    <3> QED BY <1>1, <3>1 DEF Owed
  <2>5. CASE srv' = srv
    <3>1. m.op = "list" /\ d.res = "ok" => d.rows = X
      BY <1>1, <2>1, <2>2, WholeSlice DEF Told, OneList
    <3>2. AnswersTrue(net, X) => AnswersTrue(N, X)
      BY <1>1, <3>1 DEF AnswersTrue
    <3>3. NoList(N) => NoList(net)
      BY <1>1 DEF NoList
    <3>4. (\A k \in N: k.ctx \notin FirstStage) => \A k \in net: k.ctx \notin FirstStage
      BY <1>1
    <3>5. StagesShow(ui, net, X) => StagesShow(ui, N, X)
      BY <3>2, <3>3, <3>4 DEF StagesShow
    <3> QED BY <2>1, <2>2, <2>3, <2>4, <2>5, <3>5
  <2>6. CASE d.did /\ m.op \notin Reads
    BY <1>1, <2>3, <2>6 DEF Owed
  <2> QED BY <2>5, <2>6 DEF Told
<1>4. PICK T: T = srv'
  OBVIOUS
<1>5. PdusShown(ui, N, T)
  BY <1>2, <1>3, <1>4 DEF PdusShown
<1> QED BY <1>1, <1>4, <1>5

\* The forms of a step, on the PDUs.
LEMMA PdusWent ==
  ASSUME NEW s, NEW c, DOMAIN c = CallFields
  PROVE  /\ Power!Write(s, c) => Wrote(s, c)
         /\ Power!Load(s, c) => Loaded(s, c)
         /\ \A m, t: Power!After(m, s, c, t) => Went(m, s, c, t)
<1>1. \A calls: \E d: Power!Add(calls, c) = calls \cup {d} /\ SameCall(d, c)
  BY PdusSame, AddOne
<1> QED BY <1>1, PdusSame DEF Power!Write, Wrote, Power!Load, Loaded, Power!After, Went

\* What a stage of the load asks for.
LEMMA PdusFetch ==
  ASSUME NEW ctx, NEW L, ctx \in L, NEW rack
  PROVE  \E c: c = Power!Fetch(ctx, rack) /\ Fetches(c, L, rack, 0)
<1>1. PICK c: c = Power!Fetch(ctx, rack)
  OBVIOUS
<1>2. DOMAIN c = CallFields /\ c.op = "list" /\ c.ctx = ctx /\ c.up = rack /\ c.page = 0 /\ c.res = "pending"
  BY <1>1, PdusSame DEF Power!Fetch, Call, CallFields
<1> QED BY <1>1, <1>2 DEF Fetches

\* Every step of the PDUs keeps what they show true.
LEMMA PdusShow ==
  ASSUME PdusInv(ui, net, srv), Power!PageNext, PdusShown(ui, net, srv)
  PROVE  PdusShown(ui', net', srv')
<1>0. DOMAIN ui = {"page", "rack", "rows", "socks", "busy", "conns", "dlg", "form", "saving", "loading", "ok"}
  BY DEF PdusInv
<1>a. PICK t, N, S: t = ui' /\ N = net' /\ S = srv'
  OBVIOUS
<1> SUFFICES PdusShown(t, N, S)
  BY <1>a
<1>b. \A x \in {"pdu", "socket", "connect", "remove"}: x \notin PdusLists
  BY DEF PdusLists
<1>1. ASSUME NEW s, SamePdus(s, ui), s.ok = ui.ok, Power!Set(s) PROVE PdusShown(t, N, S)
  <2>1. t = s /\ N = net /\ S = srv
    BY <1>a, <1>1 DEF Power!Set
  <2> QED BY <1>1, <2>1, PdusStay
<1>2. ASSUME NEW s, SamePdus(s, ui), s.ok = ui.ok, NEW c, NEW op, NEW ctx, Power!Write(s, c), Named(c, op, ctx),
             op # "list", ctx \in {"pdu", "socket", "connect", "remove"}
      PROVE  PdusShown(t, N, S)
  <2>1. Wrote(s, c)
    BY <1>2, PdusWent DEF Named
  <2>2. PICK d: t = s /\ N = net \cup {d} /\ SameCall(d, c) /\ S = srv
    BY <1>a, <2>1 DEF Wrote
  <2>3. d.op # "list" /\ d.ctx \notin PdusLists
    BY <1>b, <1>2, <2>2 DEF SameCall, Named
  <2> QED BY <1>2, <2>2, <2>3, PdusStay
<1>3. ASSUME NEW s, DOMAIN s = DOMAIN ui, s.rack = ui.rack, NEW x, DOMAIN x = DOMAIN ui, SamePdus(x, ui), x.ok = ui.ok,
             NEW m \in net, m.ctx \in {"pdu", "socket", "connect", "remove"}, NEW ctx \in FirstStage,
             Power!After(m, s, Power!Fetch(ctx, ui.rack), x)
      PROVE  PdusShown(t, N, S)
  <2>1. PICK c: c = Power!Fetch(ctx, ui.rack) /\ Fetches(c, FirstStage, ui.rack, 0)
    BY PdusFetch
  <2>2. Went(m, s, c, x)
    BY <1>3, <2>1, PdusWent DEF Fetches
  <2>3. CASE ui' = Begin(s, net \ {m}) /\ \E d: net' = (net \ {m}) \cup {d} /\ SameCall(d, c)
    <3>1. PICK d: N = (net \ {m}) \cup {d} /\ SameCall(d, c) /\ S = srv /\ t = Begin(s, net \ {m})
      BY <1>a, <2>2, <2>3 DEF Went
    <3>2. t.rack = ui.rack /\ (t.ok => ~Waiting("list", net \ {m}))
      BY <1>0, <1>3, <3>1 DEF Begin
    <3> QED BY <2>1, <3>1, <3>2, PdusBegun
  <2>4. CASE ui' = [x EXCEPT !.ok = @ /\ ~m.did] /\ net' = net \ {m}
    <3>1. N = net \ {m} /\ S = srv /\ t = [x EXCEPT !.ok = @ /\ ~m.did]
      BY <1>a, <2>2, <2>4 DEF Went
    <3>2. SamePdus(t, ui) /\ (t.ok => ui.ok /\ ~m.did)
      BY <1>0, <1>3, <3>1 DEF SamePdus
    <3> QED BY <1>b, <1>3, <3>1, <3>2, PdusStay
  <2> QED BY <2>2, <2>3, <2>4 DEF Went
<1>4. CASE Power!LoadAll
  <2>1. "pdus" \in FirstStage
    BY DEF FirstStage
  <2>2. PICK c: c = Power!Fetch("pdus", ui.rack) /\ Fetches(c, FirstStage, ui.rack, 0)
    BY <2>1, PdusFetch
  <2>3. Loaded(ui, c)
    BY <1>4, <2>2, PdusWent DEF Fetches, Power!LoadAll
  <2>4. PICK d: N = net \cup {d} /\ SameCall(d, c) /\ S = srv /\ t = Begin(ui, net)
    BY <1>a, <2>3 DEF Loaded
  <2>5. t.rack = ui.rack /\ (t.ok => ~Waiting("list", net \ {})) /\ N = (net \ {}) \cup {d}
    <3>1. net \ {} = net
      OBVIOUS
    <3> QED BY <1>0, <2>4, <3>1 DEF Begin
  <2> QED BY <2>2, <2>4, <2>5, PdusBegun
<1>5. ASSUME NEW m \in net, Power!LandPdus(m) PROVE PdusShown(t, N, S)
  <2>1. S = srv /\ m.ctx \in FirstStage
    BY <1>5, <1>a DEF Power!LandPdus, Power!Landed, FirstStage
  <2>2. CASE m.res # "ok"
    <3>1. N = net \ {m} /\ t.rack = ui.rack /\ ~t.ok
      BY <1>0, <1>a, <1>5, <2>2 DEF Power!LandPdus
    <3> QED BY <2>1, <3>1, PdusEnd DEF FirstStage, PdusLists
  <2>3. CASE m.res = "ok"
    <3>1. PICK ctx: /\ ctx = IF m.ctx = "pdusSaved" THEN "socketsSaved" ELSE "sockets"
                    /\ N = Power!Add(net \ {m}, Power!Fetch(ctx, ui.rack))
      BY <1>a, <1>5, <2>3 DEF Power!LandPdus
    <3>2. PICK c: c = Power!Fetch(ctx, ui.rack) /\ Fetches(c, {"sockets", "socketsSaved"}, ui.rack, 0)
      BY <3>1, PdusFetch
    <3>3. PICK d: N = (net \ {m}) \cup {d} /\ SameCall(d, c)
      BY <3>1, <3>2, AddOne, PdusSame DEF Fetches
    <3>4. /\ t.rack = ui.rack
          /\ t.ok => ui.ok /\ m.res = "ok" /\ t.rows = Power!Units(m.rows) /\ t.conns = Power!Connections(m.rows)
      BY <1>0, <1>a, <1>5, <2>3 DEF Power!LandPdus
    <3> QED BY <2>1, <3>2, <3>3, <3>4, PdusTurn
  <2> QED BY <2>2, <2>3
<1>6. ASSUME NEW m \in net, Power!LandSockets(m) PROVE PdusShown(t, N, S)
  <2>1. S = srv /\ N = net \ {m} /\ m.ctx \in PdusLists /\ m.ctx \notin FirstStage
    BY <1>6, <1>a DEF Power!LandSockets, Power!Landed, FirstStage, PdusLists
  <2>2. PICK b: t = [ui EXCEPT !.socks = Power!Sockets(m.rows), !.busy = b,
                      !.loading = FALSE, !.saving = @ /\ m.ctx # "socketsSaved", !.ok = @ /\ m.res = "ok"]
    BY <1>a, <1>6 DEF Power!LandSockets
  <2>3. /\ t.rack = ui.rack /\ t.rows = ui.rows /\ t.conns = ui.conns
        /\ t.ok => ui.ok /\ m.res = "ok" /\ t.socks = Power!Sockets(m.rows)
    BY <1>0, <2>2
  <2> QED BY <2>1, <2>3, PdusEnd
<1>7. ASSUME NEW mode, NEW r, NEW v, NEW up, Power!Open(mode, r, v, up) PROVE PdusShown(t, N, S)
  <2>1. PICK d, f: Power!Set([ui EXCEPT !.dlg = d, !.form = f])
    BY <1>7 DEF Power!Open
  <2>2. PICK s: s = [ui EXCEPT !.dlg = d, !.form = f]
    OBVIOUS
  <2>3. SamePdus(s, ui) /\ s.ok = ui.ok
    BY <1>0, <2>2 DEF SamePdus
  <2> QED BY <1>1, <2>1, <2>2, <2>3
<1>8. ASSUME NEW x, Power!Write(ui, Power!PduCall("delete", "remove", x.row, x.ver)) PROVE PdusShown(t, N, S)
  <2>1. PICK c: c = Power!PduCall("delete", "remove", x.row, x.ver)
    OBVIOUS
  <2>2. Named(c, "delete", "remove")
    BY <2>1, PdusSame DEF Power!PduCall, Call, CallFields, Named
  <2> QED BY <1>2, <1>8, <2>1, <2>2 DEF SamePdus
<1>9. CASE Power!PduButtons
  BY <1>7, <1>8, <1>9 DEF Power!PduButtons, Power!OpenCreatePDU, Power!OpenEditPDU, Power!RemovePDU, Power!OpenCreateSocket
<1>10. CASE Power!SocketButtons
  BY <1>7, <1>8, <1>10 DEF Power!SocketButtons, Power!OpenEditSocket, Power!RemoveSocket, Power!Disconnect, Power!OpenConnect
<1>11. CASE Power!Cancel
  <2>1. PICK s: s = [ui EXCEPT !.dlg = Power!Closed]
    OBVIOUS
  <2>2. SamePdus(s, ui) /\ s.ok = ui.ok
    BY <1>0, <2>1 DEF SamePdus
  <2> QED BY <1>1, <1>11, <2>1, <2>2 DEF Power!Cancel
<1>12. ASSUME NEW mode \in {"pdu", "socket", "connect"}, NEW c, NEW op, Named(c, op, mode), op # "list", Power!Saving(mode, c)
       PROVE  PdusShown(t, N, S)
  <2>1. PICK s: s = [ui EXCEPT !.saving = TRUE]
    OBVIOUS
  <2>2. SamePdus(s, ui) /\ s.ok = ui.ok
    BY <1>0, <2>1 DEF SamePdus
  <2>3. Power!Write(s, c)
    BY <1>12, <2>1 DEF Power!Saving
  <2> QED BY <1>2, <1>12, <2>2, <2>3
<1>13. ASSUME NEW mode, NEW u, NEW c, c = [Power!PduCall("post", mode, Power!NoRow, 0) EXCEPT !.up = u]
       PROVE  Named(c, "post", mode)
  BY <1>13, PdusSame DEF Power!PduCall, Call, CallFields, Named
<1>14. ASSUME NEW mode, NEW c, c = [Power!PduCall("overwrite", mode, ui.dlg.row, ui.dlg.ver) EXCEPT !.form = ui.form]
       PROVE  Named(c, "overwrite", mode)
  BY <1>14, PdusSame DEF Power!PduCall, Call, CallFields, Named
<1>15. CASE Power!SavePDU
  <2>1. PICK c: Power!Saving("pdu", c) /\ \/ c = [Power!PduCall("post", "pdu", Power!NoRow, 0) EXCEPT !.up = ui.rack]
                                          \/ c = [Power!PduCall("overwrite", "pdu", ui.dlg.row, ui.dlg.ver) EXCEPT !.form = ui.form]
    BY <1>15 DEF Power!SavePDU
  <2>2. Named(c, "post", "pdu") \/ Named(c, "overwrite", "pdu")
    BY <1>13, <1>14, <2>1
  <2> QED BY <1>12, <2>1, <2>2
<1>16. CASE Power!SaveSocket
  <2>1. PICK c: Power!Saving("socket", c) /\ \/ c = [Power!PduCall("post", "socket", Power!NoRow, 0) EXCEPT !.up = ui.dlg.up]
                                             \/ c = [Power!PduCall("overwrite", "socket", ui.dlg.row, ui.dlg.ver) EXCEPT !.form = ui.form]
    BY <1>16 DEF Power!SaveSocket
  <2>2. Named(c, "post", "socket") \/ Named(c, "overwrite", "socket")
    BY <1>13, <1>14, <2>1
  <2> QED BY <1>12, <2>1, <2>2
<1>17. CASE Power!ConfirmConnect
  <2>1. PICK c: Power!Saving("connect", c) /\ c = [Power!PduCall("post", "connect", Power!NoRow, 0) EXCEPT !.up = ui.dlg.up]
    BY <1>17 DEF Power!ConfirmConnect
  <2> QED BY <1>12, <1>13, <2>1
<1>18. ASSUME NEW m \in net, Power!LandSave(m) PROVE PdusShown(t, N, S)
  <2>1. PICK s, x: /\ s = (IF ui.dlg.mode = m.ctx THEN [ui EXCEPT !.dlg = Power!Closed] ELSE ui)
                   /\ x = [ui EXCEPT !.saving = FALSE]
    OBVIOUS
  <2>2. DOMAIN s = DOMAIN ui /\ s.rack = ui.rack /\ DOMAIN x = DOMAIN ui /\ SamePdus(x, ui) /\ x.ok = ui.ok
    BY <1>0, <2>1 DEF SamePdus
  <2>3. "pdusSaved" \in FirstStage /\ m.ctx \in {"pdu", "socket", "connect"}
    BY <1>18 DEF FirstStage, Power!LandSave
  <2>4. Power!After(m, s, Power!Fetch("pdusSaved", ui.rack), x)
    BY <1>18, <2>1 DEF Power!LandSave
  <2> QED BY <1>3, <2>2, <2>3, <2>4
<1>19. ASSUME NEW m \in net, Power!LandRemove(m) PROVE PdusShown(t, N, S)
  <2>1. "pdus" \in FirstStage /\ m.ctx = "remove" /\ Power!After(m, ui, Power!Fetch("pdus", ui.rack), ui)
    BY <1>19 DEF FirstStage, Power!LandRemove, Power!Landed
  <2> QED BY <1>3, <2>1 DEF SamePdus
<1> QED BY <1>4, <1>5, <1>6, <1>9, <1>10, <1>11, <1>15, <1>16, <1>17, <1>18, <1>19 DEF Power!PageNext

-----------------------------------------------------------------------------
(* What the tab with the positions shows: the layout of the selected rack     *)

LayoutShown(s, N) ==
  /\ \A m \in N: m.op = "get" <=> m.ctx = "layout"
  /\ s.ok => /\ \A a, b \in N: a.op = "get" /\ b.op = "get" => a = b
             /\ \A a \in N: a.op = "get" => a.row = s.sel
             /\ (\A a \in N: a.op # "get") => s.layout.row = s.sel

\* A selection, which asks for the layout of r.
LEMMA LayoutAsked ==
  ASSUME NEW s, NEW N, LayoutShown(s, N), NEW R, NEW d, d.op = "get", d.ctx = "layout", NEW t, d.row = t.sel,
         t.ok => ~Waiting("get", N \ R), NEW M, M = (N \ R) \cup {d}
  PROVE  LayoutShown(t, M)
<1>1. \A m \in M: m.op = "get" <=> m.ctx = "layout"
  BY DEF LayoutShown
<1>2. t.ok => \A a \in M: a.op = "get" => a = d
  BY DEF Waiting
<1> QED BY <1>1, <1>2 DEF LayoutShown

\* The racks, and whatever else is no layout, come and go.
LEMMA LayoutStays ==
  ASSUME NEW s, NEW N, LayoutShown(s, N), NEW t, t.ok => s.ok, t.sel = s.sel, t.layout = s.layout,
         NEW M, \A m \in M: m \in N \/ (m.op # "get" /\ m.ctx # "layout"), \A m \in N: m \in M \/ m.op # "get"
  PROVE  LayoutShown(t, M)
<1>1. (\A a \in M: a.op # "get") => \A a \in N: a.op # "get"
  OBVIOUS
<1> QED BY <1>1 DEF LayoutShown

\* An answer names the rack it is asked for.
LEMMA LayoutTold ==
  ASSUME LayoutShown(ui, net), NEW m, NEW d, Told(m, d)
  PROVE  LayoutShown(ui, net')
<1>1. PICK N: N = net' /\ N = (net \ {m}) \cup {d} /\ m \in net /\ d.op = m.op /\ d.ctx = m.ctx /\ d.row = m.row
  BY DEF Told
<1>2. (\A a \in N: a.op # "get") => \A a \in net: a.op # "get"
  BY <1>1
<1>3. (\A a, b \in net: a.op = "get" /\ b.op = "get" => a = b) => \A a, b \in N: a.op = "get" /\ b.op = "get" => a = b
  BY <1>1
<1>4. LayoutShown(ui, N)
  BY <1>1, <1>2, <1>3 DEF LayoutShown
<1> QED BY <1>1, <1>4

\* Every step of the positions keeps what they show true.
LEMMA LayoutShow ==
  ASSUME LayoutInv(ui, net, srv), Devices!LayoutNext, LayoutShown(ui, net)
  PROVE  LayoutShown(ui', net')
<1>0. DOMAIN ui = {"page", "rows", "sel", "layout", "loading", "ok"} /\ \A m \in net: m.ctx \in {"racks", "layout"}
  BY DEF LayoutInv
<1>a. PICK t, N: t = ui' /\ N = net'
  OBVIOUS
<1> SUFFICES LayoutShown(t, N)
  BY <1>a
<1>1. ASSUME NEW s, DOMAIN s = DOMAIN ui, NEW r, NEW R, Devices!Select(s, r, net \ R) PROVE LayoutShown(t, N)
  <2>1. PICK c: c = Devices!FetchULayout(r)
    OBVIOUS
  <2>2. DOMAIN c = CallFields /\ c.op = "get" /\ c.ctx = "layout" /\ c.row = r
    BY <2>1, DevicesSame DEF Devices!FetchULayout, Call, CallFields
  <2>3. PICK d: N = (net \ R) \cup {d} /\ SameCall(d, c)
    BY <1>1, <1>a, <2>1, <2>2, AddOne, DevicesSame DEF Devices!Select
  <2>4. PICK k: t = [s EXCEPT !.sel = r, !.loading = TRUE, !.ok = k] /\ k = ~Devices!Waiting("get", net \ R)
    <3>1. PICK k: k = ~Devices!Waiting("get", net \ R)
      OBVIOUS
    <3>2. t = [s EXCEPT !.sel = r, !.loading = TRUE, !.ok = k]
      BY <1>1, <1>a, <3>1 DEF Devices!Select
    <3> QED BY <3>1, <3>2
  <2>5. t.sel = r /\ (t.ok => ~Waiting("get", net \ R))
    BY <1>0, <1>1, <2>4 DEF Devices!Waiting, Waiting
  <2>6. d.op = "get" /\ d.ctx = "layout" /\ d.row = t.sel
    BY <2>2, <2>3, <2>5 DEF SameCall
  <2> QED BY <2>3, <2>5, <2>6, LayoutAsked
<1>2. CASE Devices!EnterTab
  <2>1. PICK c: c = Devices!FetchRacks /\ Named(c, "list", "racks")
    <3>1. PICK c: c = Devices!FetchRacks
      OBVIOUS
    <3>2. Named(c, "list", "racks")
      BY <3>1, DevicesSame DEF Devices!FetchRacks, Call, CallFields, Named
    <3> QED BY <3>1, <3>2
  <2>2. PICK d: N = net \cup {d} /\ SameCall(d, c) /\ t = ui
    BY <1>2, <1>a, <2>1, AddOne, DevicesSame DEF Devices!EnterTab, Named
  <2>3. d.op # "get" /\ d.ctx # "layout"
    BY <2>1, <2>2 DEF Named, SameCall
  <2> QED BY <2>2, <2>3, LayoutStays
<1>3. ASSUME NEW x, Devices!SelectRack(x) PROVE LayoutShown(t, N)
  <2>1. Devices!Select(ui, x.row, net \ {})
    <3>1. net \ {} = net
      OBVIOUS
    <3> QED BY <1>3, <3>1 DEF Devices!SelectRack
  <2> QED BY <1>1, <2>1
<1>4. ASSUME NEW m \in net, Devices!LandRacks(m) PROVE LayoutShown(t, N)
  <2>1. PICK s: s = [ui EXCEPT !.rows = m.rows]
    OBVIOUS
  <2>2. DOMAIN s = DOMAIN ui /\ s.ok = ui.ok /\ s.sel = ui.sel /\ s.layout = ui.layout
    BY <1>0, <2>1
  <2>3. m.op # "get"
    BY <1>4 DEF LayoutShown, Devices!LandRacks, Devices!Landed
  <2>4. \/ \E r: Devices!Select(s, r, net \ {m})
        \/ t = s /\ N = net \ {m}
    BY <1>4, <1>a, <2>1 DEF Devices!LandRacks
  <2>5. CASE \E r: Devices!Select(s, r, net \ {m})
    BY <1>1, <2>2, <2>5
  <2>6. CASE t = s /\ N = net \ {m}
    BY <2>2, <2>3, <2>6, LayoutStays
  <2> QED BY <2>4, <2>5, <2>6
<1>5. ASSUME NEW m \in net, Devices!LandLayout(m) PROVE LayoutShown(t, N)
  <2>1. N = net \ {m} /\ m.op = "get"
    BY <1>5, <1>a DEF LayoutShown, Devices!LandLayout, Devices!Landed
  <2>2. PICK k, l: /\ t = [ui EXCEPT !.loading = FALSE, !.ok = k, !.layout = l] /\ k = (ui.ok /\ m.res = "ok")
                   /\ m.res = "ok" => l.row = m.row
    <3>1. PICK k, l: /\ k = (ui.ok /\ m.res = "ok")
                     /\ l = IF m.res = "ok" THEN [row |-> m.row, ver |-> (CHOOSE x \in m.rows: TRUE).ver] ELSE Devices!Blank
      OBVIOUS
    <3>2. t = [ui EXCEPT !.loading = FALSE, !.ok = k, !.layout = l]
      BY <1>5, <1>a, <3>1 DEF Devices!LandLayout
    <3>3. m.res = "ok" => l.row = m.row
      BY <3>1
    <3> QED BY <3>1, <3>2, <3>3
  <2>3. t.sel = ui.sel /\ (t.ok => ui.ok /\ t.layout.row = m.row)
    BY <1>0, <2>2
  <2> QED BY <2>1, <2>3 DEF LayoutShown
<1> QED BY <1>2, <1>3, <1>4, <1>5 DEF Devices!LayoutNext

-----------------------------------------------------------------------------
(* What the screen shows: the racks of the last tree, and what is kept of them *)

TreeCtx == {"tree", "treeSaved", "treeDragged"}
RackWrites == {"saveRack", "removeRack", "drag", "forgotten"}
Placements == {"place", "off"}
IsTree(m) == m.op = "list" /\ m.ctx # "assignable"
OneEach(X) == \A x, y \in X: x.row = y.row => x = y
RackIn(r, S) == r \in Row => IsRack(r, S)

\* What a call is for, by the context that awaits it.
Purpose(m, S) ==
  /\ \/ m.op = "list" /\ m.ctx \in TreeCtx \cup {"assignable"} /\ OneEach(m.rows)
     \/ m.op = "layout" /\ m.ctx \in TreeCtx \cup {"room", "placed", "export"}
     \/ m.op = "get" /\ m.ctx \in {"drawer", "device", "saved"}
     \/ m.op \in {"mount", "shift", "unmount"} /\ m.ctx \in Placements
     \/ m.op = "put" /\ m.ctx = "saveDevice"
     \/ m.op = "put" /\ m.ctx \in {"saveRack", "drag", "forgotten"} /\ RackIn(m.row, S)
     \/ m.op = "delete" /\ m.ctx = "removeRack" /\ RackIn(m.row, S)
     \/ m.op = "post" /\ m.ctx = "saveRack" /\ (m.res = "pending" => m.up = NoRow \/ IsRoom(m.up, S))
  /\ IsTree(m) /\ m.res = "pending" => m.up = All /\ m.page = 0
Purposes(N, S) == \A m \in N: Purpose(m, S)

\* The editor has one save under way, with the load that follows it.
Saver(m) == m.ctx \in {"saveDevice", "saved", "saveRack", "treeSaved"}
Savers(s, N) ==
  /\ (\E m \in N: Saver(m)) => s.saving
  /\ \A m, k \in N: Saver(m) /\ Saver(k) => m = k \/ (m.op = "layout" /\ k.op = "layout" /\ m.page = k.page)
\* Both updates of an exchange are awaited, until one has landed.
Dragged(s, N) == s.dragging = 2 => \E m, k \in N: m.ctx = "drag" /\ k.ctx = "drag" /\ m.row # k.row
PlacesShown(s, S) == (s.room = NoRow \/ IsRoom(s.room, S)) /\ (\A e \in s.devs: IsRack(e.rack, S)) /\ OneEach(s.rows)

\* The rooms and racks of the table, and of an answer.
Drawn(S) == {x \in Listed(S, All): ~IsDevice(x.row, S)}
Places(a, S) == {x \in a.rows: ~IsDevice(x.row, S)}
\* A write of racks is still to be followed by a load; of an exchange, half is not enough.
TreeOwed(s, N) == \E m \in N: (m.did /\ m.ctx \in RackWrites) \/ (m.ctx = "drag" /\ s.dragging = 1)
TreeShown(s, N, S) ==
  s.ok => /\ \A a, b \in N: IsTree(a) /\ IsTree(b) => a = b
          /\ \/ TreeOwed(s, N)
             \/ /\ \A a \in N: IsTree(a) /\ a.res = "ok" => Places(a, S) = Drawn(S)
                /\ (\A a \in N: ~IsTree(a)) => s.rows = Drawn(S)

\* A placement was executed and its answer has not landed; the devices whose new version
\* is still to be put where the old one was.
Placed(N) == \E m \in N: m.did /\ m.ctx \in Placements
Updated(N) == {m.row: m \in {k \in N: k.ctx = "saved" \/ (k.ctx = "saveDevice" /\ k.did)}}
\* X is W, but for the versions of the rows of O.
Entry(y) == y = [row |-> y.row, ver |-> y.ver, up |-> y.up]
Agrees(X, W, O) ==
  /\ \A y \in X: Entry(y)
  /\ \A y \in X: \E z \in W: z.row = y.row /\ z.up = y.up /\ (y.row \notin O => z.ver = y.ver)
  /\ \A z \in W: \E y \in X: y.row = z.row
Covers(s, N) ==
  s.fresh => \A x \in Screen!Racks(s): (\E e \in s.devs: e.rack = x.row) \/ \E m \in N: m.op = "layout" /\ m.row = x.row
DevicesTrue(s, N, S) ==
  s.fresh => \/ Placed(N)
             \/ /\ \A e \in s.devs: Agrees(e.rows, Listed(S, e.rack), Updated(N))
                /\ \A m \in N: m.op = "layout" /\ m.res = "ok" => Agrees(m.rows, Listed(S, m.row), Updated(N))
                /\ \A m \in N: m.ctx = "saved" /\ m.res = "ok" => m.rows = {SeenIn(S, m.row)} /\ S[m.row].live

ScreenShown(s, N, S) ==
  /\ Purposes(N, S) /\ Savers(s, N) /\ Dragged(s, N) /\ PlacesShown(s, S)
  /\ TreeShown(s, N, S) /\ Covers(s, N) /\ DevicesTrue(s, N, S)

\* Devices agree with fewer demands too.
LEMMA AgreesLess ==
  ASSUME NEW X, NEW W, NEW O, NEW P, Agrees(X, W, O), O \subseteq P
  PROVE  Agrees(X, W, P)
BY DEF Agrees

\* What stays, when no tree comes or goes.
LEMMA TreeStays ==
  ASSUME NEW s, NEW N, NEW S, TreeShown(s, N, S), NEW t, NEW M,
         t.ok => s.ok /\ t.rows = s.rows /\ (TreeOwed(s, N) => TreeOwed(t, M)),
         \A k \in M: k \in N \/ ~IsTree(k), \A k \in N: k \in M \/ ~IsTree(k)
  PROVE  TreeShown(t, M, S)
BY DEF TreeShown

\* What stays, when no answer comes.
LEMMA DevicesStay ==
  ASSUME NEW s, NEW N, NEW S, DevicesTrue(s, N, S), NEW t, NEW M,
         t.fresh => s.fresh /\ t.devs = s.devs /\ (Placed(N) => Placed(M)) /\ Updated(N) \subseteq Updated(M),
         \A k \in M: k \in N \/ (k.op = "layout" \/ k.ctx = "saved" => k.res # "ok")
  PROVE  DevicesTrue(t, M, S)
<1>1. CASE ~t.fresh
  BY <1>1 DEF DevicesTrue
<1>2. CASE t.fresh
  <2>1. PICK O, P: O = Updated(N) /\ P = Updated(M) /\ O \subseteq P
    BY <1>2
  <2>2. CASE Placed(N)
    BY <1>2, <2>2 DEF DevicesTrue
  <2>3. CASE ~Placed(N)
    <3>1. /\ \A e \in s.devs: Agrees(e.rows, Listed(S, e.rack), O)
          /\ \A m \in N: m.op = "layout" /\ m.res = "ok" => Agrees(m.rows, Listed(S, m.row), O)
          /\ \A m \in N: m.ctx = "saved" /\ m.res = "ok" => m.rows = {SeenIn(S, m.row)} /\ S[m.row].live
      BY <1>2, <2>1, <2>3 DEF DevicesTrue
    <3>2. \A e \in t.devs: Agrees(e.rows, Listed(S, e.rack), P)
      BY <1>2, <2>1, <3>1, AgreesLess
    <3>3. \A m \in M: m.op = "layout" /\ m.res = "ok" => Agrees(m.rows, Listed(S, m.row), P)
      BY <2>1, <3>1, AgreesLess
    <3>4. \A m \in M: m.ctx = "saved" /\ m.res = "ok" => m.rows = {SeenIn(S, m.row)} /\ S[m.row].live
      BY <3>1
    <3> QED BY <2>1, <3>2, <3>3, <3>4 DEF DevicesTrue
  <2> QED BY <2>2, <2>3
<1> QED BY <1>1, <1>2

\* The save that is under way begins, lands, or is followed by another call.
LEMMA SaversStay ==
  ASSUME NEW s, NEW N, Savers(s, N), NEW t, NEW M
  PROVE  /\ t.saving = s.saving /\ (\A k \in M: Saver(k) => k \in N) => Savers(t, M)
         /\ \A d: ~s.saving /\ t.saving /\ M = N \cup {d} => Savers(t, M)
         /\ \A m \in N: Saver(m) /\ m.op # "layout" => s.saving /\ \A k \in N \ {m}: ~Saver(k)
<1>1. ASSUME t.saving = s.saving, \A k \in M: Saver(k) => k \in N PROVE Savers(t, M)
  BY <1>1 DEF Savers
<1>2. ASSUME ~s.saving, t.saving, NEW d, M = N \cup {d} PROVE Savers(t, M)
  BY <1>2 DEF Savers
<1>3. ASSUME NEW m \in N, Saver(m), m.op # "layout" PROVE s.saving /\ \A k \in N \ {m}: ~Saver(k)
  BY <1>3 DEF Savers
<1> QED BY <1>1, <1>2, <1>3

\* The calls that a step takes off have done nothing that the page t must still follow.
GoneTree(m, t) == ~IsTree(m) /\ m.ctx # "drag" /\ (t.ok => ~(m.did /\ m.ctx \in RackWrites))
GoneDevices(m, t, M) ==
  /\ m.op # "layout"
  /\ t.fresh => /\ m.ctx # "saved" /\ ~(m.did /\ m.ctx \in Placements)
                /\ m.did /\ m.ctx = "saveDevice" => \E k \in M: k.ctx = "saved" /\ k.row = m.row
\* A call that asks for neither a tree nor a layout.
Aside(d, S) == Purpose(d, S) /\ d.res = "pending" /\ d.op # "layout" /\ ~IsTree(d)
\* The page shows what it did.
Same(t, s) == t.rows = s.rows /\ t.room = s.room /\ t.devs = s.devs

\* The devices that are shown stay true when the calls R go and D come.
LEMMA DevicesKept ==
  ASSUME NEW s, NEW N, NEW S, Covers(s, N), DevicesTrue(s, N, S), NEW t, Same(t, s), t.fresh => s.fresh,
         NEW R, NEW D, NEW M, M = (N \ R) \cup D,
         \A d \in D: d.op # "layout" /\ (d.ctx = "saved" => d.res = "pending"),
         \A m \in R: GoneDevices(m, t, M)
  PROVE  Covers(t, M) /\ DevicesTrue(t, M, S)
<1>1. Covers(t, M)
  <2>1. Screen!Racks(t) = Screen!Racks(s)
    BY DEF Same, Screen!Racks
  <2> QED BY <2>1 DEF Covers, Same, GoneDevices
<1>2. t.fresh => (Placed(N) => Placed(M))
  BY DEF Placed, GoneDevices
<1>3. t.fresh => Updated(N) \subseteq Updated(M)
  BY DEF Updated, GoneDevices
<1>4. DevicesTrue(t, M, S)
  BY <1>2, <1>3, DevicesStay DEF Same
<1> QED BY <1>1, <1>4

\* A step that asks for no tree and no layout.
LEMMA ScreenStays ==
  ASSUME NEW s, NEW N, NEW S, ScreenShown(s, N, S),
         NEW t, Same(t, s), t.dragging = s.dragging, t.ok => s.ok, t.fresh => s.fresh,
         NEW R, NEW D, NEW M, M = (N \ R) \cup D, \A d \in D: Aside(d, S),
         \A m \in R: GoneTree(m, t) /\ GoneDevices(m, t, M), Savers(t, M)
  PROVE  ScreenShown(t, M, S)
<1>1. Purposes(M, S) /\ PlacesShown(t, S)
  BY DEF ScreenShown, Purposes, Aside, PlacesShown, Same
<1>2. Dragged(t, M)
  BY DEF ScreenShown, Dragged, Same, GoneTree
<1>3. TreeShown(t, M, S)
  <2>1. t.ok => (TreeOwed(s, N) => TreeOwed(t, M))
    BY DEF TreeOwed, Same, GoneTree
  <2>2. (\A k \in M: k \in N \/ ~IsTree(k)) /\ (\A k \in N: k \in M \/ ~IsTree(k))
    BY DEF Aside, GoneTree
  <2> QED BY <2>1, <2>2, TreeStays DEF ScreenShown, Same
<1>4. Covers(t, M) /\ DevicesTrue(t, M, S)
  BY DevicesKept DEF ScreenShown, Aside
<1> QED BY <1>1, <1>2, <1>3, <1>4 DEF ScreenShown

\* A tree is asked for, alone.
LEMMA ScreenBegins ==
  ASSUME NEW s, NEW N, NEW S, ScreenShown(s, N, S), NEW t, Same(t, s), t.dragging = s.dragging,
         t.fresh => s.fresh, NEW R, s.dragging # 2 \/ \A m \in R: m.ctx # "drag", t.ok => ~Waiting("list", N \ R),
         NEW d, Purpose(d, S), IsTree(d), d.res = "pending", NEW M, M = (N \ R) \cup {d},
         \A m \in R: GoneDevices(m, t, M), Savers(t, M)
  PROVE  ScreenShown(t, M, S)
<1>1. Purposes(M, S) /\ PlacesShown(t, S)
  BY DEF ScreenShown, Purposes, PlacesShown, Same
<1>2. Dragged(t, M)
  BY DEF ScreenShown, Dragged, Same
<1>3. TreeShown(t, M, S)
  <2>1. SUFFICES ASSUME t.ok PROVE \A a \in M: IsTree(a) => a = d
    BY DEF TreeShown
  <2> QED BY <2>1 DEF Waiting, IsTree
<1>4. Covers(t, M) /\ DevicesTrue(t, M, S)
  BY DevicesKept DEF ScreenShown, IsTree
<1> QED BY <1>1, <1>2, <1>3, <1>4 DEF ScreenShown

-----------------------------------------------------------------------------
(* What the screen shows: layouts are asked for                               *)

ScreenFields == {"page", "rows", "room", "devs", "sel", "hidden", "dlg", "form", "cand", "saving", "dragging",
                 "exporting", "loading", "ok", "fresh"}

\* The end of a batch changes flags and the selection.
LEMMA EndedFields ==
  ASSUME NEW s, DOMAIN s = ScreenFields, NEW ctx, NEW t, t = Screen!Ended(s, ctx)
  PROVE  /\ DOMAIN t = ScreenFields /\ t.rows = s.rows /\ t.room = s.room /\ t.devs = s.devs
         /\ t.ok = s.ok /\ t.fresh = s.fresh
         /\ t.saving = (s.saving /\ ctx # "treeSaved") /\ t.dragging = (IF ctx = "treeDragged" THEN 0 ELSE s.dragging)
<1>1. PICK l, v, g, e: /\ l = (s.loading /\ ctx \notin {"tree", "treeSaved", "treeDragged"})
                       /\ v = (s.saving /\ ctx # "treeSaved") /\ g = (IF ctx = "treeDragged" THEN 0 ELSE s.dragging)
                       /\ e = (s.exporting /\ ctx # "export")
  OBVIOUS
<1>2. PICK u: u = [s EXCEPT !.loading = l, !.saving = v, !.dragging = g, !.exporting = e]
  OBVIOUS
<1>3. t = IF ctx \in {"placed", "export"} THEN u ELSE Screen!EnsureSelection(u)
  BY <1>1, <1>2 DEF Screen!Ended
<1>4. /\ DOMAIN u = ScreenFields /\ u.rows = s.rows /\ u.room = s.room /\ u.devs = s.devs
      /\ u.ok = s.ok /\ u.fresh = s.fresh /\ u.saving = v /\ u.dragging = g
  BY <1>2 DEF ScreenFields
<1>5. t = u \/ \E x: t = [u EXCEPT !.sel = x]
  BY <1>3 DEF Screen!EnsureSelection
<1>6. DOMAIN t = ScreenFields /\ t.rows = s.rows /\ t.room = s.room /\ t.devs = s.devs
      /\ t.ok = s.ok /\ t.fresh = s.fresh /\ t.saving = v /\ t.dragging = g
  BY <1>4, <1>5 DEF ScreenFields
<1> QED BY <1>1, <1>6

\* What must hold when layouts are asked for, so that the screen will be true when they are there.
LoadReady(s, ctx, C, S) ==
  /\ DOMAIN s = ScreenFields /\ IsFiniteSet(C)
  /\ Purposes(C, S) /\ PlacesShown(s, S) /\ TreeShown(s, C, S) /\ DevicesTrue(s, C, S) /\ Dragged(s, C) /\ Savers(s, C)
  /\ \A x \in Screen!Racks(s): IsRack(x.row, S)
  /\ ctx \in TreeCtx \cup {"room", "placed", "export"}
  /\ ctx = "treeSaved" => s.saving /\ \A k \in C: ~Saver(k)
  /\ ctx = "treeDragged" => \A k \in C: k.ctx # "drag"

\* The layouts that are asked for.
LEMMA LayoutsAsked ==
  ASSUME NEW s, NEW ctx, NEW C, Screen!LoadLayouts(s, ctx, C)
  PROVE  \/ Screen!Missing(s) = {} /\ ui' = Screen!Ended(s, ctx) /\ net' = C
         \/ /\ Screen!Missing(s) # {} /\ ui' = s
            /\ \E D: /\ net' = C \cup D /\ (\A r \in Screen!Missing(s): \E d \in D: d.row = r)
                     /\ \A d \in D: /\ d.op = "layout" /\ d.ctx = ctx /\ d.page = Screen!Spare(C) /\ d.res = "pending"
                                    /\ ~d.did /\ d.row \in Screen!Missing(s)
<1>1. CASE Screen!Missing(s) = {}
  BY <1>1 DEF Screen!LoadLayouts
<1>2. CASE Screen!Missing(s) # {}
  <2>1. PICK b: b = Screen!Spare(C)
    OBVIOUS
  <2> DEFINE New(r) == [Screen!ScreenCall("layout", ctx, r, 0) EXCEPT !.page = b]
             D == {New(r): r \in Screen!Missing(s)}
  <2>2. ui' = s /\ net' = C \cup D
    BY <1>2, <2>1 DEF Screen!LoadLayouts
  <2>3. ASSUME NEW r
        PROVE  New(r).op = "layout" /\ New(r).ctx = ctx /\ New(r).page = b /\ New(r).res = "pending" /\ ~New(r).did
               /\ New(r).row = r
    <3>1. PICK c: c = [Call EXCEPT !.op = "layout", !.ctx = ctx, !.row = r, !.ver = 0]
      OBVIOUS
    <3>2. DOMAIN c = CallFields /\ c.op = "layout" /\ c.ctx = ctx /\ c.row = r /\ c.res = "pending" /\ ~c.did
      BY <3>1 DEF Call, CallFields
    <3>3. New(r) = [c EXCEPT !.page = b]
      BY <3>1, ScreenSame DEF Screen!ScreenCall
    <3> QED BY <3>2, <3>3 DEF CallFields
  <2>4. \A r \in Screen!Missing(s): \E d \in D: d.row = r
    <3>1. ASSUME NEW r \in Screen!Missing(s) PROVE \E d \in D: d.row = r
      <4>1. New(r) \in D /\ New(r).row = r
        BY <2>3
      <4> QED BY <4>1
    <3> QED BY <3>1
  <2>5. \A d \in D: /\ d.op = "layout" /\ d.ctx = ctx /\ d.page = b /\ d.res = "pending" /\ ~d.did
                    /\ d.row \in Screen!Missing(s)
    <3>1. ASSUME NEW d \in D
          PROVE  d.op = "layout" /\ d.ctx = ctx /\ d.page = b /\ d.res = "pending" /\ ~d.did /\ d.row \in Screen!Missing(s)
      <4>1. PICK r \in Screen!Missing(s): d = New(r)
        OBVIOUS
      <4> QED BY <2>3, <4>1
    <3> QED BY <3>1
  <2> QED BY <1>2, <2>1, <2>2, <2>4, <2>5
<1> QED BY <1>1, <1>2

\* The layouts of the racks that are missing are asked for.
LEMMA LoadShown ==
  ASSUME NEW S, NEW s, NEW ctx, NEW C, LoadReady(s, ctx, C, S), Screen!LoadLayouts(s, ctx, C)
  PROVE  ScreenShown(ui', net', S)
<1>0. /\ DOMAIN s = ScreenFields /\ IsFiniteSet(C)
      /\ Purposes(C, S) /\ PlacesShown(s, S) /\ TreeShown(s, C, S) /\ DevicesTrue(s, C, S) /\ Dragged(s, C) /\ Savers(s, C)
      /\ (\A x \in Screen!Racks(s): IsRack(x.row, S)) /\ ctx \in TreeCtx \cup {"room", "placed", "export"}
      /\ (ctx = "treeSaved" => s.saving /\ \A k \in C: ~Saver(k)) /\ (ctx = "treeDragged" => \A k \in C: k.ctx # "drag")
  BY DEF LoadReady
<1>a. PICK t, N: t = ui' /\ N = net'
  OBVIOUS
<1> SUFFICES ScreenShown(t, N, S)
  BY <1>a
<1>1. CASE Screen!Missing(s) = {} /\ ui' = Screen!Ended(s, ctx) /\ net' = C
  <2>1. t = Screen!Ended(s, ctx) /\ N = C
    BY <1>1, <1>a
  <2>2. /\ t.rows = s.rows /\ t.room = s.room /\ t.devs = s.devs /\ t.ok = s.ok /\ t.fresh = s.fresh
        /\ t.saving = (s.saving /\ ctx # "treeSaved") /\ t.dragging = (IF ctx = "treeDragged" THEN 0 ELSE s.dragging)
    BY <1>0, <2>1, EndedFields
  <2>3. PlacesShown(t, S)
    BY <1>0, <2>2 DEF PlacesShown
  <2>4. Savers(t, N)
    BY <1>0, <2>1, <2>2 DEF Savers
  <2>5. Dragged(t, N)
    BY <1>0, <2>1, <2>2 DEF Dragged
  <2>6. TreeShown(t, N, S)
    <3>1. TreeOwed(s, C) => TreeOwed(t, N)
      BY <1>0, <2>1, <2>2 DEF TreeOwed
    <3> QED BY <1>0, <2>1, <2>2, <3>1, TreeStays
  <2>7. Covers(t, N)
    <3>1. Screen!Racks(t) = Screen!Racks(s)
      BY <2>2 DEF Screen!Racks
    <3>2. \A x \in Screen!Racks(s): \E e \in s.devs: e.rack = x.row
      BY <1>1 DEF Screen!Missing
    <3> QED BY <2>2, <3>1, <3>2 DEF Covers
  <2>8. DevicesTrue(t, N, S)
    BY <1>0, <2>1, <2>2, DevicesStay
  <2> QED BY <1>0, <2>1, <2>3, <2>4, <2>5, <2>6, <2>7, <2>8 DEF ScreenShown
<1>2. ASSUME NEW D, ui' = s, net' = C \cup D, \A r \in Screen!Missing(s): \E d \in D: d.row = r,
             \A d \in D: /\ d.op = "layout" /\ d.ctx = ctx /\ d.page = Screen!Spare(C) /\ d.res = "pending"
                         /\ ~d.did /\ d.row \in Screen!Missing(s)
      PROVE  ScreenShown(t, N, S)
  <2>1. t = s /\ N = C \cup D
    BY <1>2, <1>a
  <2>2. Purposes(N, S)
    BY <1>0, <1>2, <2>1 DEF Purposes, Purpose, IsTree
  <2>3. Savers(t, N)
    <3>1. CASE ctx = "treeSaved"
      BY <1>0, <1>2, <2>1, <3>1 DEF Savers
    <3>2. CASE ctx # "treeSaved"
      <4>1. \A d \in D: ~Saver(d)
        BY <1>0, <1>2, <3>2 DEF Saver, TreeCtx
      <4> QED BY <1>0, <2>1, <4>1 DEF Savers
    <3> QED BY <3>1, <3>2
  <2>4. Dragged(t, N)
    BY <1>0, <2>1 DEF Dragged
  <2>5. TreeShown(t, N, S)
    <3>1. TreeOwed(s, C) => TreeOwed(t, N)
      BY <2>1 DEF TreeOwed
    <3>2. \A d \in D: ~IsTree(d)
      BY <1>2 DEF IsTree
    <3> QED BY <1>0, <2>1, <3>1, <3>2, TreeStays
  <2>6. Covers(t, N)
    <3>1. ASSUME NEW x \in Screen!Racks(s)
          PROVE  (\E e \in s.devs: e.rack = x.row) \/ \E m \in N: m.op = "layout" /\ m.row = x.row
      <4>1. (\E e \in s.devs: e.rack = x.row) \/ x.row \in Screen!Missing(s)
        BY DEF Screen!Missing
      <4> QED BY <1>2, <2>1, <4>1
    <3> QED BY <2>1, <3>1 DEF Covers
  <2>7. DevicesTrue(t, N, S)
    <3>1. (Placed(C) => Placed(N)) /\ Updated(C) \subseteq Updated(N)
      BY <2>1 DEF Placed, Updated
    <3>2. \A k \in N: k \in C \/ (k.op = "layout" \/ k.ctx = "saved" => k.res # "ok")
      BY <1>2, <2>1
    <3> QED BY <1>0, <2>1, <3>1, <3>2, DevicesStay
  <2> QED BY <1>0, <2>1, <2>2, <2>3, <2>4, <2>5, <2>6, <2>7 DEF ScreenShown
<1> QED BY <1>1, <1>2, LayoutsAsked

-----------------------------------------------------------------------------
(* What the screen shows: what a person does                                  *)

\* A step leaves what is drawn, and the history.
Calmly(s) == Same(s, ui) /\ s.dragging = ui.dragging /\ s.ok = ui.ok /\ s.fresh = ui.fresh

\* A call that is like an aside is one.
LEMMA AsideSame ==
  ASSUME NEW S, NEW c, Aside(c, S), NEW d, SameCall(d, c)
  PROVE  Aside(d, S) /\ (Saver(d) <=> Saver(c))
<1>1. /\ d.op = c.op /\ d.ctx = c.ctx /\ d.row = c.row /\ d.up = c.up /\ d.page = c.page /\ d.res = c.res
      /\ d.rows = c.rows
  BY DEF SameCall
<1>2. Purpose(d, S)
  BY <1>1 DEF Aside, Purpose, IsTree
<1> QED BY <1>1, <1>2 DEF Aside, IsTree, Saver

\* The forms of such a step.
LEMMA ScreenSteps ==
  ASSUME ScreenShown(ui, net, srv), NEW s, Calmly(s), NEW c
  PROVE  /\ s.saving = ui.saving /\ Screen!Set(s) => ScreenShown(ui', net', srv')
         /\ /\ Screen!Write(s, c) /\ DOMAIN c = CallFields /\ Aside(c, srv)
            /\ (s.saving = ui.saving /\ ~Saver(c)) \/ (~ui.saving /\ s.saving)
            => ScreenShown(ui', net', srv')
<1>a. PICK t, N, S: t = ui' /\ N = net' /\ S = srv'
  OBVIOUS
<1>0. PICK R: R = {}
  OBVIOUS
<1>1. ASSUME s.saving = ui.saving, Screen!Set(s) PROVE ScreenShown(t, N, S)
  <2>1. t = s /\ N = net /\ S = srv
    BY <1>1, <1>a DEF Screen!Set
  <2>a. PICK D: D = {}
    OBVIOUS
  <2>2. R = {} /\ D = {} /\ N = (net \ R) \cup D
    BY <1>0, <2>1, <2>a
  <2>3. Savers(t, N)
    BY <1>1, <2>1 DEF ScreenShown, Savers
  <2>4. Same(t, ui) /\ t.dragging = ui.dragging /\ t.ok = ui.ok /\ t.fresh = ui.fresh /\ ScreenShown(ui, net, S)
    BY <2>1 DEF Calmly
  <2>5. (\A k \in D: Aside(k, S)) /\ \A k \in R: GoneTree(k, t) /\ GoneDevices(k, t, N)
    BY <2>2
  <2> QED BY <2>2, <2>3, <2>4, <2>5, ScreenStays
<1>2. ASSUME Screen!Write(s, c), DOMAIN c = CallFields, Aside(c, srv),
             (s.saving = ui.saving /\ ~Saver(c)) \/ (~ui.saving /\ s.saving)
      PROVE  ScreenShown(t, N, S)
  <2>1. PICK d: N = net \cup {d} /\ SameCall(d, c) /\ t = s /\ S = srv
    BY <1>2, <1>a, AddOne, ScreenSame DEF Screen!Write
  <2>2. Aside(d, srv) /\ (Saver(d) <=> Saver(c))
    BY <1>2, <2>1, AsideSame
  <2>a. PICK D: D = {d}
    OBVIOUS
  <2>3. R = {} /\ D = {d} /\ N = (net \ R) \cup D
    BY <1>0, <2>1, <2>a
  <2>4. Savers(t, N)
    <3>1. CASE s.saving = ui.saving /\ ~Saver(c)
      BY <2>1, <2>2, <3>1 DEF ScreenShown, Savers
    <3>2. CASE ~ui.saving /\ s.saving
      BY <2>1, <3>2 DEF ScreenShown, Savers
    <3> QED BY <1>2, <3>1, <3>2
  <2>5. Same(t, ui) /\ t.dragging = ui.dragging /\ t.ok = ui.ok /\ t.fresh = ui.fresh /\ ScreenShown(ui, net, S)
    BY <2>1 DEF Calmly
  <2>6. (\A k \in D: Aside(k, S)) /\ \A k \in R: GoneTree(k, t) /\ GoneDevices(k, t, N)
    BY <2>1, <2>2, <2>3
  <2> QED BY <2>3, <2>4, <2>5, <2>6, ScreenStays
<1> QED BY <1>a, <1>1, <1>2


\* The calls that ask for no tree and no layout.
LEMMA AsideAsked ==
  ASSUME NEW c, NEW op, NEW r, NEW v, NEW f, NEW u, Asks(c, op, r, v, f, u),
         \/ op = "list" /\ c.ctx = "assignable"
         \/ op = "get" /\ c.ctx \in {"drawer", "device", "saved"}
         \/ op \in {"mount", "shift", "unmount"} /\ c.ctx \in Placements
         \/ op = "put" /\ c.ctx = "saveDevice"
         \/ op = "put" /\ c.ctx = "saveRack" /\ RackIn(r, srv)
         \/ op = "delete" /\ c.ctx = "removeRack" /\ RackIn(r, srv)
         \/ op = "post" /\ c.ctx = "saveRack" /\ (u = NoRow \/ IsRoom(u, srv))
  PROVE  /\ DOMAIN c = CallFields /\ Aside(c, srv)
         /\ Saver(c) <=> c.ctx \in {"saveDevice", "saved", "saveRack"}
<1>1. DOMAIN c = CallFields /\ c.op = op /\ c.row = r /\ c.up = u /\ c.res = "pending" /\ c.rows = {}
  BY DEF Asks
<1>2. OneEach(c.rows)
  BY <1>1 DEF OneEach
<1>3. ~IsTree(c) /\ op # "layout"
  BY <1>1 DEF IsTree
<1>4. Purpose(c, srv)
  BY <1>1, <1>2, <1>3 DEF Purpose
<1>5. Saver(c) <=> c.ctx \in {"saveDevice", "saved", "saveRack"}
  BY <1>1 DEF Saver, Placements
<1> QED BY <1>1, <1>3, <1>4, <1>5 DEF Aside

\* A tree is asked for.
LEMMA ScreenBegun ==
  ASSUME ScreenShown(ui, net, srv), NEW s, DOMAIN s = ScreenFields, Same(s, ui), s.dragging = ui.dragging, s.fresh = ui.fresh,
         NEW R, ui.dragging # 2 \/ \A m \in R: m.ctx # "drag",
         \A m \in R: m.op # "layout" /\ m.ctx \notin Placements \cup {"saved", "saveDevice"},
         NEW ctx \in TreeCtx, s.saving = ui.saving, ctx = "treeSaved" => s.saving /\ \A k \in net \ R: ~Saver(k),
         ui' = Begin(s, net \ R), net' = Add(net \ R, Screen!FetchTree(ctx)), UNCHANGED srv
  PROVE  ScreenShown(ui', net', srv')
<1>a. PICK t, N, S: t = ui' /\ N = net' /\ S = srv' /\ S = srv
  OBVIOUS
<1>1. PICK c: c = Screen!FetchTree(ctx)
  OBVIOUS
<1>2. Asks(c, "list", NoRow, 0, Blank, All) /\ c.ctx = ctx /\ c.page = 0
  BY <1>1, ScreenSame DEF Screen!FetchTree, Screen!ScreenCall, Call, Asks, CallFields, Screen!NoRow, NoRow
<1>3. PICK d: N = (net \ R) \cup {d} /\ SameCall(d, c)
  BY <1>a, <1>1, <1>2, AddOne DEF Asks
<1>4. d.op = "list" /\ d.ctx = ctx /\ d.rows = {} /\ d.up = All /\ d.page = 0 /\ d.res = "pending"
  BY <1>2, <1>3 DEF Asks, SameCall
<1>5. IsTree(d) /\ Purpose(d, S)
  BY <1>4 DEF IsTree, Purpose, OneEach, TreeCtx
<1>6. PICK k: t = [s EXCEPT !.loading = TRUE, !.ok = k] /\ k = ~Waiting("list", net \ R)
  BY <1>a DEF Begin
<1>7. /\ Same(t, ui) /\ t.dragging = ui.dragging /\ t.fresh = ui.fresh /\ t.saving = ui.saving
      /\ t.ok => ~Waiting("list", net \ R)
  BY <1>6 DEF ScreenFields, Same
<1>8. Savers(t, N)
  <2>1. CASE ctx = "treeSaved"
    BY <1>3, <1>4, <1>7, <2>1 DEF Savers
  <2>2. CASE ctx # "treeSaved"
    <3>1. ~Saver(d)
      BY <1>4, <2>2 DEF Saver, TreeCtx
    <3> QED BY <1>3, <1>7, <3>1 DEF ScreenShown, Savers
  <2> QED BY <2>1, <2>2
<1>9. \A m \in R: GoneDevices(m, t, N)
  BY DEF GoneDevices
<1>10. ScreenShown(ui, net, S)
  BY <1>a
<1>11. ScreenShown(t, N, S)
  BY <1>3, <1>4, <1>5, <1>7, <1>8, <1>9, <1>10, ScreenBegins
<1> QED BY <1>a, <1>11

\* Everything a person does but changing the room, exporting and exchanging racks.
LEMMA ScreenWrites ==
  ASSUME srv \in Rows, ScreenInv(ui, net, srv), ScreenShown(ui, net, srv)
  PROVE  /\ Screen!LoadTree => ScreenShown(ui', net', srv')
         /\ Screen!ApplySearch => ScreenShown(ui', net', srv')
         /\ Screen!SelectRack => ScreenShown(ui', net', srv')
         /\ Screen!SetStatus => ScreenShown(ui', net', srv')
         /\ Screen!AssignAt => ScreenShown(ui', net', srv')
         /\ Screen!ConfirmAssign => ScreenShown(ui', net', srv')
         /\ Screen!OpenMove => ScreenShown(ui', net', srv')
         /\ Screen!ConfirmMove => ScreenShown(ui', net', srv')
         /\ Screen!OfflineDevice => ScreenShown(ui', net', srv')
         /\ Screen!DrawerOffline => ScreenShown(ui', net', srv')
         /\ Screen!OpenDeviceDetail => ScreenShown(ui', net', srv')
         /\ Screen!SaveDevice => ScreenShown(ui', net', srv')
         /\ Screen!OpenCreateRack => ScreenShown(ui', net', srv')
         /\ Screen!OpenEditRack => ScreenShown(ui', net', srv')
         /\ Screen!SaveRack => ScreenShown(ui', net', srv')
         /\ Screen!RemoveRack => ScreenShown(ui', net', srv')
         /\ Screen!Cancel => ScreenShown(ui', net', srv')
<1>0. /\ DOMAIN ui = ScreenFields /\ ScreenUi(ui, srv) /\ FormOK(ui.sel, srv) /\ ScreenDlgOK(ui.dlg, srv)
      /\ Screen!NoRow = NoRow
  BY DEF ScreenInv, ScreenUi, ScreenFields, Screen!NoRow, NoRow
<1>g. PICK g: g = ScreenShown(ui', net', srv')
  OBVIOUS
<1> SUFFICES /\ Screen!LoadTree => g
             /\ Screen!ApplySearch => g
             /\ Screen!SelectRack => g
             /\ Screen!SetStatus => g
             /\ Screen!AssignAt => g
             /\ Screen!ConfirmAssign => g
             /\ Screen!OpenMove => g
             /\ Screen!ConfirmMove => g
             /\ Screen!OfflineDevice => g
             /\ Screen!DrawerOffline => g
             /\ Screen!OpenDeviceDetail => g
             /\ Screen!SaveDevice => g
             /\ Screen!OpenCreateRack => g
             /\ Screen!OpenEditRack => g
             /\ Screen!SaveRack => g
             /\ Screen!RemoveRack => g
             /\ Screen!Cancel => g
  BY <1>g
\* The two forms: the page becomes s, with no call or with c.
<1>1. ASSUME NEW s, Calmly(s), s.saving = ui.saving, Screen!Set(s) PROVE g
  BY <1>1, <1>g, ScreenSteps
<1>2. ASSUME NEW s, Calmly(s), NEW c, NEW op, NEW r, NEW v, NEW f, NEW u, Asks(c, op, r, v, f, u), Screen!Write(s, c),
             \/ op = "list" /\ c.ctx = "assignable"
             \/ op = "get" /\ c.ctx \in {"drawer", "device"}
             \/ op \in {"mount", "shift", "unmount"} /\ c.ctx \in Placements
             \/ op = "put" /\ c.ctx = "saveDevice"
             \/ op = "put" /\ c.ctx = "saveRack" /\ RackIn(r, srv)
             \/ op = "delete" /\ c.ctx = "removeRack" /\ RackIn(r, srv)
             \/ op = "post" /\ c.ctx = "saveRack" /\ (u = NoRow \/ IsRoom(u, srv)),
             c.ctx \notin {"saveDevice", "saveRack"} => s.saving = ui.saving,
             c.ctx \in {"saveDevice", "saveRack"} => ~ui.saving /\ s.saving
      PROVE  g
  <2>1. /\ DOMAIN c = CallFields /\ Aside(c, srv)
        /\ Saver(c) <=> c.ctx \in {"saveDevice", "saved", "saveRack"}
    BY <1>2, AsideAsked
  <2>2. (s.saving = ui.saving /\ ~Saver(c)) \/ (~ui.saving /\ s.saving)
    BY <1>2, <2>1 DEF Placements
  <2> QED BY <1>2, <1>g, <2>1, <2>2, ScreenSteps
\* What leaves what is drawn alone.
<1>3. Calmly(ui)
  BY DEF Calmly, Same
<1>4. ASSUME NEW s, DOMAIN s = ScreenFields, 
             \A f \in ScreenFields \ {"sel", "hidden", "dlg", "form", "cand", "saving"}: s[f] = ui[f]
      PROVE  Calmly(s)
  BY <1>4 DEF Calmly, Same, ScreenFields
<1>5. Screen!LoadTree => g
  <2>1. ASSUME Screen!LoadTree
        PROVE  /\ ui' = Begin(ui, net \ {}) /\ net' = Add(net \ {}, Screen!FetchTree("tree")) /\ UNCHANGED srv
    <3>1. net \ {} = net
      OBVIOUS
    <3> QED BY <2>1, <3>1, ScreenSame DEF Screen!LoadTree, Screen!Load
  <2> QED BY <1>0, <1>3, <1>g, <2>1, ScreenBegun DEF Calmly, TreeCtx
<1>6. ASSUME NEW x, Screen!Set([ui EXCEPT !.sel = x]) PROVE g
  <2>1. PICK s: s = [ui EXCEPT !.sel = x]
    OBVIOUS
  <2>2. Calmly(s) /\ s.saving = ui.saving
    BY <1>0, <1>4, <2>1 DEF ScreenFields
  <2> QED BY <1>1, <1>6, <2>1, <2>2
<1>7. Screen!ApplySearch => g
  BY <1>6 DEF Screen!ApplySearch
<1>8. Screen!SelectRack => g
  BY <1>6 DEF Screen!SelectRack
<1>9. Screen!SetStatus => g
  <2>1. SUFFICES ASSUME NEW H, Screen!Filter(H) PROVE g
    BY DEF Screen!SetStatus
  <2>2. PICK s: s = [ui EXCEPT !.hidden = H]
    OBVIOUS
  <2>3. DOMAIN s = ScreenFields /\ Calmly(s) /\ s.saving = ui.saving
    BY <1>0, <1>4, <2>2 DEF ScreenFields
  <2>4. PICK u: u = Screen!EnsureSelection(s)
    OBVIOUS
  <2>5. u = s \/ \E x: u = [s EXCEPT !.sel = x]
    BY <2>4 DEF Screen!EnsureSelection
  <2>6. Calmly(u) /\ u.saving = ui.saving
    BY <2>3, <2>5 DEF Calmly, Same, ScreenFields
  <2>7. Screen!Set(u) \/ Screen!Set(s)
    BY <2>1, <2>2, <2>4 DEF Screen!Filter, Screen!Set
  <2> QED BY <1>1, <2>3, <2>6, <2>7
<1>10. ASSUME NEW e, NEW s, s = [ui EXCEPT !.dlg = e] PROVE Calmly(s) /\ s.saving = ui.saving
  BY <1>0, <1>4, <1>10 DEF ScreenFields
<1>12. ASSUME NEW s, s = [ui EXCEPT !.saving = TRUE] PROVE Calmly(s) /\ s.saving
  BY <1>0, <1>4, <1>12 DEF ScreenFields
<1>13. Screen!AssignAt => g
  <2>1. SUFFICES ASSUME Screen!AssignAt PROVE g
    OBVIOUS
  <2>2. PICK u: u = CHOOSE x \in Group: TRUE
    OBVIOUS
  <2>3. PICK c: c = [Screen!ScreenCall("list", "assignable", NoRow, 0) EXCEPT !.up = u]
    OBVIOUS
  <2>4. Asks(c, "list", NoRow, 0, Blank, u) /\ c.ctx = "assignable"
    BY <2>3, ScreenSame DEF Screen!ScreenCall, Call, Asks, CallFields
  <2>5. PICK e, s: s = [ui EXCEPT !.dlg = e] /\ Screen!Write(s, c)
    BY <1>0, <2>1, <2>2, <2>3 DEF Screen!AssignAt
  <2> QED BY <1>2, <1>10, <2>4, <2>5
<1>14. ASSUME NEW op, op \in {"mount", "shift"}, NEW r, NEW u,
              Screen!Write(ui, [Screen!ScreenCall(op, "place", r, 0) EXCEPT !.up = u])
       PROVE  g
  <2>1. PICK c: c = [Screen!ScreenCall(op, "place", r, 0) EXCEPT !.up = u]
    OBVIOUS
  <2>2. Asks(c, op, r, 0, Blank, u) /\ c.ctx = "place"
    BY <2>1, ScreenSame DEF Screen!ScreenCall, Call, Asks, CallFields
  <2> QED BY <1>2, <1>3, <1>14, <2>1, <2>2 DEF Placements
<1>15. Screen!ConfirmAssign => g
  BY <1>14 DEF Screen!ConfirmAssign
<1>16. Screen!ConfirmMove => g
  BY <1>14 DEF Screen!ConfirmMove
<1>17. Screen!OpenMove => g
  <2>1. SUFFICES ASSUME NEW e, Screen!Set([ui EXCEPT !.dlg = e]) PROVE g
    BY DEF Screen!OpenMove, Screen!OpenDevice
  <2>2. PICK s: s = [ui EXCEPT !.dlg = e]
    OBVIOUS
  <2> QED BY <1>1, <1>10, <2>1, <2>2
<1>18. ASSUME NEW r, Screen!Write(ui, Screen!Unmount(r)) PROVE g
  <2>1. PICK u: u = CHOOSE x \in Group: TRUE
    OBVIOUS
  <2>2. PICK c: c = Screen!Unmount(r)
    OBVIOUS
  <2>3. Asks(c, "unmount", r, 0, Blank, u) /\ c.ctx = "off"
    BY <2>1, <2>2, ScreenSame DEF Screen!Unmount, Screen!ScreenCall, Call, Asks, CallFields
  <2> QED BY <1>2, <1>3, <1>18, <2>2, <2>3 DEF Placements
<1>19. Screen!OfflineDevice => g
  BY <1>18 DEF Screen!OfflineDevice
<1>20. Screen!DrawerOffline => g
  BY <1>18 DEF Screen!DrawerOffline
<1>21. Screen!OpenDeviceDetail => g
  <2>1. SUFFICES ASSUME Screen!OpenDeviceDetail PROVE g
    OBVIOUS
  <2>2. PICK d, mode, e, s, c:
          /\ mode \in {"drawer", "device"} /\ c = Screen!ScreenCall("get", mode, d.row, 0)
          /\ s = [ui EXCEPT !.dlg = e] /\ Screen!Write(s, c)
    BY <2>1 DEF Screen!OpenDeviceDetail, Screen!OpenDevice
  <2>3. Asks(c, "get", d.row, 0, Blank, All) /\ c.ctx = mode
    BY <2>2, ScreenSame DEF Screen!ScreenCall, Call, Asks, CallFields
  <2>4. Calmly(s) /\ s.saving = ui.saving
    BY <1>10, <2>2
  <2> QED BY <1>2, <2>2, <2>3, <2>4
<1>22. Screen!SaveDevice => g
  <2>1. SUFFICES ASSUME Screen!SaveDevice PROVE g
    OBVIOUS
  <2>2. PICK s, c: /\ s = [ui EXCEPT !.saving = TRUE] /\ ~ui.saving
                   /\ c = [Screen!ScreenCall("put", "saveDevice", ui.dlg.row, ui.form.ver)
                             EXCEPT !.form = ui.form, !.mixed = ui.form.row # ui.dlg.row]
                   /\ Screen!Write(s, c)
    BY <2>1 DEF Screen!SaveDevice
  <2>3. Asks(c, "put", ui.dlg.row, ui.form.ver, ui.form, All) /\ c.ctx = "saveDevice"
    BY <2>2, ScreenSame DEF Screen!ScreenCall, Call, Asks, CallFields
  <2> QED BY <1>2, <1>12, <2>2, <2>3
<1>23. Screen!OpenCreateRack => g
  <2>1. SUFFICES ASSUME NEW e, Screen!Set([ui EXCEPT !.dlg = e]) PROVE g
    BY DEF Screen!OpenCreateRack
  <2>2. PICK s: s = [ui EXCEPT !.dlg = e]
    OBVIOUS
  <2> QED BY <1>1, <1>10, <2>1, <2>2
<1>24. Screen!OpenEditRack => g
  <2>1. SUFFICES ASSUME NEW e, Screen!Set([ui EXCEPT !.dlg = e]) PROVE g
    BY DEF Screen!OpenEditRack
  <2>2. PICK s: s = [ui EXCEPT !.dlg = e]
    OBVIOUS
  <2> QED BY <1>1, <1>10, <2>1, <2>2
<1>25. Screen!SaveRack => g
  <2>1. SUFFICES ASSUME Screen!SaveRack PROVE g
    OBVIOUS
  <2>2. PICK s, c: /\ s = [ui EXCEPT !.saving = TRUE] /\ ui.dlg.mode = "rack" /\ ~ui.saving /\ Screen!Write(s, c)
                   /\ c = IF ui.dlg.row = NoRow THEN [Screen!ScreenCall("post", "saveRack", NoRow, 0) EXCEPT !.up = ui.room]
                          ELSE [Screen!ScreenCall("put", "saveRack", ui.dlg.row, ui.dlg.ver)
                                 EXCEPT !.form = Screen!Snapshot(ui.dlg)]
    BY <1>0, <2>1 DEF Screen!SaveRack, Screen!InDialog
  <2>3. CASE ui.dlg.row = NoRow
    <3>1. c = [Screen!ScreenCall("post", "saveRack", NoRow, 0) EXCEPT !.up = ui.room]
      BY <2>2, <2>3
    <3>2. Asks(c, "post", NoRow, 0, Blank, ui.room) /\ c.ctx = "saveRack"
      BY <3>1, ScreenSame DEF Screen!ScreenCall, Call, Asks, CallFields
    <3>3. ui.room = NoRow \/ IsRoom(ui.room, srv)
      BY DEF ScreenShown, PlacesShown
    <3> QED BY <1>2, <1>12, <2>2, <3>2, <3>3
  <2>4. CASE ui.dlg.row # NoRow
    <3>1. c = [Screen!ScreenCall("put", "saveRack", ui.dlg.row, ui.dlg.ver) EXCEPT !.form = Screen!Snapshot(ui.dlg)]
      BY <2>2, <2>4
    <3>2. Asks(c, "put", ui.dlg.row, ui.dlg.ver, Screen!Snapshot(ui.dlg), All) /\ c.ctx = "saveRack"
      BY <3>1, ScreenSame DEF Screen!ScreenCall, Call, Asks, CallFields
    <3>3. RackIn(ui.dlg.row, srv)
      BY <1>0, <2>2, <2>4 DEF ScreenDlgOK, RackIn
    <3> QED BY <1>2, <1>12, <2>2, <3>2, <3>3
  <2> QED BY <2>3, <2>4
<1>26. Screen!RemoveRack => g
  <2>1. SUFFICES ASSUME Screen!RemoveRack PROVE g
    OBVIOUS
  <2>2. PICK c: c = Screen!ScreenCall("delete", "removeRack", ui.sel.row, ui.sel.ver) /\ Screen!Write(ui, c)
    BY <2>1 DEF Screen!RemoveRack
  <2>3. Asks(c, "delete", ui.sel.row, ui.sel.ver, Blank, All) /\ c.ctx = "removeRack"
    BY <2>2, ScreenSame DEF Screen!ScreenCall, Call, Asks, CallFields
  <2>4. RackIn(ui.sel.row, srv)
    BY <1>0, WireAssumption DEF ScreenUi, RackIn, NoRow
  <2> QED BY <1>2, <1>3, <2>2, <2>3, <2>4
<1>27. Screen!Cancel => g
  <2>1. SUFFICES ASSUME NEW e, Screen!Set([ui EXCEPT !.dlg = e]) PROVE g
    BY DEF Screen!Cancel
  <2>2. PICK s: s = [ui EXCEPT !.dlg = e]
    OBVIOUS
  <2> QED BY <1>1, <1>10, <2>1, <2>2
<1> QED BY <1>5, <1>7, <1>8, <1>9, <1>13, <1>15, <1>16, <1>17, <1>19, <1>20, <1>21, <1>22, <1>23, <1>24, <1>25, <1>26, <1>27

\* What the screen draws, and the calls in flight, when layouts are asked for.
LEMMA ScreenReady ==
  ASSUME srv \in Rows, ScreenInv(ui, net, srv), ScreenShown(ui, net, srv)
  PROVE  /\ \A x \in Screen!Racks(ui): IsRack(x.row, srv) /\ x \in ui.rows
         /\ LoadReady(ui, "room", net, srv)
<1>1. DOMAIN ui = ScreenFields /\ IsFiniteSet(net) /\ ScreenUi(ui, srv)
  BY DEF ScreenInv, ScreenUi, ScreenNet, ScreenFields
<1>2. \A x \in Screen!Racks(ui): IsRack(x.row, srv) /\ x \in ui.rows
  BY <1>1, ScreenRacks
<1> QED BY <1>1, <1>2 DEF LoadReady, ScreenShown

\* Another room, and its layouts.
LEMMA RoomShows ==
  ASSUME srv \in Rows, ScreenInv(ui, net, srv), ScreenShown(ui, net, srv), Screen!OnRoomChange
  PROVE  ScreenShown(ui', net', srv')
<1>1. PICK x, b, s: x \in ui.rows /\ x.up = All /\ s = [ui EXCEPT !.room = x.row, !.sel = b]
                    /\ Screen!LoadLayouts(s, "room", net) /\ UNCHANGED srv
  BY DEF Screen!OnRoomChange, Screen!Rooms
<1>2. /\ LoadReady(ui, "room", net, srv) /\ DOMAIN ui = ScreenFields /\ ScreenUi(ui, srv)
  BY ScreenReady DEF LoadReady, ScreenInv
<1>3. /\ DOMAIN s = ScreenFields /\ s.rows = ui.rows /\ s.room = x.row /\ s.devs = ui.devs /\ s.ok = ui.ok
      /\ s.fresh = ui.fresh /\ s.dragging = ui.dragging /\ s.saving = ui.saving
  BY <1>1, <1>2 DEF ScreenFields
<1>4. IsRoom(x.row, srv)
  <2>1. x.row \in Row /\ PlaceOK(x, srv)
    BY <1>1, <1>2 DEF ScreenUi, ScreenRows, SeenAll, SeenOK
  <2> QED BY <1>1, <2>1 DEF PlaceOK, IsRoom
<1>5. \A y \in Screen!Racks(s): IsRack(y.row, srv)
  <2>1. \A y \in Screen!Racks(s): y \in ui.rows /\ y.up # All
    BY <1>3 DEF Screen!Racks
  <2> QED BY <1>2, <2>1 DEF ScreenUi, ScreenRows
<1>6. PlacesShown(s, srv)
  BY <1>2, <1>3, <1>4 DEF LoadReady, PlacesShown
<1>7. TreeShown(s, net, srv)
  BY <1>2, <1>3 DEF LoadReady, TreeShown, TreeOwed
<1>8. DevicesTrue(s, net, srv)
  BY <1>2, <1>3 DEF LoadReady, DevicesTrue
<1>9. Dragged(s, net) /\ Savers(s, net)
  BY <1>2, <1>3 DEF LoadReady, Dragged, Savers
<1>10. LoadReady(s, "room", net, srv)
  BY <1>2, <1>3, <1>5, <1>6, <1>7, <1>8, <1>9 DEF LoadReady
<1>11. PICK t, N, S: t = ui' /\ N = net' /\ S = srv' /\ S = srv
  BY <1>1
<1>12. ScreenShown(t, N, srv)
  BY <1>1, <1>10, <1>11, LoadShown
<1> QED BY <1>11, <1>12

\* An export, and the layouts that are missing.
LEMMA ExportShows ==
  ASSUME srv \in Rows, ScreenInv(ui, net, srv), ScreenShown(ui, net, srv), Screen!DoExport
  PROVE  ScreenShown(ui', net', srv')
<1>1. PICK s: s = [ui EXCEPT !.exporting = TRUE] /\ Screen!LoadLayouts(s, "export", net) /\ UNCHANGED srv
  BY DEF Screen!DoExport
<1>2. LoadReady(ui, "room", net, srv) /\ DOMAIN ui = ScreenFields
  BY ScreenReady DEF LoadReady
<1>3. /\ DOMAIN s = ScreenFields /\ s.rows = ui.rows /\ s.room = ui.room /\ s.devs = ui.devs /\ s.ok = ui.ok
      /\ s.fresh = ui.fresh /\ s.dragging = ui.dragging /\ s.saving = ui.saving
  BY <1>1, <1>2 DEF ScreenFields
<1>4. Screen!Racks(s) = Screen!Racks(ui)
  BY <1>3 DEF Screen!Racks
<1>5. PlacesShown(s, srv) /\ TreeShown(s, net, srv)
  BY <1>2, <1>3 DEF LoadReady, PlacesShown, TreeShown, TreeOwed
<1>6. DevicesTrue(s, net, srv) /\ Dragged(s, net) /\ Savers(s, net)
  BY <1>2, <1>3 DEF LoadReady, DevicesTrue, Dragged, Savers
<1>7. LoadReady(s, "export", net, srv)
  BY <1>2, <1>3, <1>4, <1>5, <1>6 DEF LoadReady
<1>8. PICK t, N, S: t = ui' /\ N = net' /\ S = srv' /\ S = srv
  BY <1>1
<1>9. ScreenShown(t, N, srv)
  BY <1>1, <1>7, <1>8, LoadShown
<1> QED BY <1>8, <1>9

\* Two racks are exchanged.
LEMMA SwapShows ==
  ASSUME srv \in Rows, ScreenInv(ui, net, srv), ScreenShown(ui, net, srv), Screen!SwapRacks
  PROVE  ScreenShown(ui', net', srv')
<1>0. DOMAIN ui = ScreenFields /\ ScreenUi(ui, srv)
  BY DEF ScreenInv, ScreenUi, ScreenFields
<1>1. PICK a, b: /\ a \in Screen!Racks(ui) /\ b \in Screen!Racks(ui) /\ a # b /\ ui.dragging = 0
                 /\ ui' = [ui EXCEPT !.dragging = 2] /\ net' = net \cup {Screen!Drag(a), Screen!Drag(b)} /\ UNCHANGED srv
  BY <1>0, ScreenRacks DEF Screen!SwapRacks
<1>2. PICK t, N, S: t = ui' /\ N = net' /\ S = srv' /\ S = srv
  BY <1>1
<1>3. PICK D, c, d: D = {c, d} /\ c = Screen!Drag(a) /\ d = Screen!Drag(b)
  OBVIOUS
<1>4. ASSUME NEW x, NEW e, e = Screen!Drag(x)
      PROVE  e.op = "put" /\ e.ctx = "drag" /\ e.row = x.row /\ e.res = "pending" /\ ~e.did
  <2>1. PICK f: e = [Call EXCEPT !.op = "put", !.ctx = "drag", !.row = x.row, !.ver = x.ver, !.form = f]
    <3>1. PICK f, o: f = Screen!Snapshot(x) /\ o = [Call EXCEPT !.op = "put", !.ctx = "drag", !.row = x.row, !.ver = x.ver]
      OBVIOUS
    <3>2. e = [o EXCEPT !.form = f]
      BY <1>4, <3>1, ScreenSame DEF Screen!Drag, Screen!ScreenCall
    <3>3. e = [Call EXCEPT !.op = "put", !.ctx = "drag", !.row = x.row, !.ver = x.ver, !.form = f]
      BY <3>1, <3>2 DEF Call
    <3> QED BY <3>3
  <2> QED BY <2>1 DEF Call
<1>5. c.row = a.row /\ d.row = b.row /\ \A e \in D: e.op = "put" /\ e.ctx = "drag" /\ e.res = "pending" /\ ~e.did
  BY <1>3, <1>4
<1>6. N = (net \ {}) \cup D
  BY <1>1, <1>2, <1>3
<1>7. /\ Same(t, ui) /\ t.ok = ui.ok /\ t.fresh = ui.fresh /\ t.saving = ui.saving /\ t.dragging = 2
  BY <1>0, <1>1, <1>2 DEF Same, ScreenFields
<1>8. IsRack(a.row, srv) /\ IsRack(b.row, srv) /\ a.row # b.row
  BY <1>1, ScreenReady DEF ScreenShown, PlacesShown, OneEach
<1>9. Purposes(N, S)
  <2>1. \A e \in D: RackIn(e.row, S)
    BY <1>2, <1>3, <1>5, <1>8 DEF RackIn
  <2>2. \A e \in D: Purpose(e, S)
    BY <1>5, <2>1 DEF Purpose, IsTree
  <2> QED BY <1>2, <1>6, <2>2 DEF ScreenShown, Purposes
<1>10. PlacesShown(t, S)
  BY <1>2, <1>7 DEF ScreenShown, PlacesShown, Same
<1>11. Savers(t, N)
  BY <1>5, <1>6, <1>7 DEF ScreenShown, Savers, Saver
<1>12. Dragged(t, N)
  BY <1>3, <1>5, <1>6, <1>8 DEF Dragged
<1>13. TreeShown(t, N, S)
  <2>1. TreeOwed(ui, net) => TreeOwed(t, N)
    BY <1>1, <1>6 DEF TreeOwed
  <2>2. (\A k \in N: k \in net \/ ~IsTree(k)) /\ (\A k \in net: k \in N \/ ~IsTree(k))
    BY <1>5, <1>6 DEF IsTree
  <2>3. TreeShown(ui, net, S) /\ t.rows = ui.rows
    BY <1>2, <1>7 DEF ScreenShown, Same
  <2> QED BY <1>7, <2>1, <2>2, <2>3, TreeStays
<1>14. Covers(t, N) /\ DevicesTrue(t, N, S)
  <2>1. PICK R: R = {}
    OBVIOUS
  <2>2. N = (net \ R) \cup D /\ \A m \in R: GoneDevices(m, t, N)
    BY <1>6, <2>1
  <2>3. \A e \in D: e.op # "layout" /\ (e.ctx = "saved" => e.res = "pending")
    BY <1>5
  <2>4. Covers(ui, net) /\ DevicesTrue(ui, net, S)
    BY <1>2 DEF ScreenShown
  <2> QED BY <1>7, <2>2, <2>3, <2>4, DevicesKept
<1> QED BY <1>2, <1>9, <1>10, <1>11, <1>12, <1>13, <1>14 DEF ScreenShown

-----------------------------------------------------------------------------
(* What the screen shows: answers land                                        *)

\* The last answer of a batch lands: what was answered is kept.
LEMMA LayoutsShow ==
  ASSUME srv \in Rows, ScreenInv(ui, net, srv), ScreenShown(ui, net, srv), NEW b, Screen!LandLayouts(b)
  PROVE  ScreenShown(ui', net', srv')
<1>0. /\ DOMAIN ui = ScreenFields /\ DragOK(ui, net) /\ Batched(net) /\ \A m \in net: ScreenCallOK(m, srv)
      /\ Purposes(net, srv) /\ Savers(ui, net) /\ Dragged(ui, net) /\ PlacesShown(ui, srv)
      /\ TreeShown(ui, net, srv) /\ Covers(ui, net) /\ DevicesTrue(ui, net, srv)
  BY DEF ScreenInv, ScreenUi, ScreenFields, ScreenNet, ScreenShown
<1>1. PICK B, G: B = {m \in net: m.op = "layout" /\ m.page = b} /\ G = {m \in B: m.res = "ok"}
  OBVIOUS
<1>a. PICK V: V = {d \in ui.devs: \A m \in G: d.rack # m.row} \cup {[rack |-> m.row, rows |-> m.rows]: m \in G}
  OBVIOUS
<1>b. PICK w: w = (ui.fresh /\ G = B)
  OBVIOUS
<1>c. PICK m0: m0 \in B /\ m0 = CHOOSE m \in B: TRUE
  BY <1>1 DEF Screen!LandLayouts, Screen!Batch
<1>d. PICK s: s = [ui EXCEPT !.devs = V, !.fresh = w]
  OBVIOUS
<1>e. PICK ctx: ctx = m0.ctx
  OBVIOUS
<1>f. PICK u: u = Screen!Ended(s, ctx)
  OBVIOUS
<1>g. ui' = u /\ net' = net \ B /\ srv' = srv
  BY <1>1, <1>a, <1>b, <1>c, <1>d, <1>e, <1>f DEF Screen!LandLayouts, Screen!Batch
<1>h. m0 \in B
  BY <1>c
<1>i. B \subseteq net /\ G \subseteq B /\ \A m \in G: m.res = "ok"
  BY <1>1
<1>2. /\ DOMAIN s = ScreenFields /\ s.rows = ui.rows /\ s.room = ui.room /\ s.devs = V /\ s.ok = ui.ok
      /\ s.fresh = w /\ s.dragging = ui.dragging /\ s.saving = ui.saving
  BY <1>0, <1>d DEF ScreenFields
<1>3. PICK t, N, S: t = ui' /\ N = net' /\ S = srv' /\ S = srv /\ t = u /\ N = net \ B
  BY <1>g
<1>j. DOMAIN s = ScreenFields /\ t = Screen!Ended(s, ctx)
  BY <1>2, <1>3, <1>f
<1>k. /\ t.rows = s.rows /\ t.room = s.room /\ t.devs = s.devs /\ t.ok = s.ok /\ t.fresh = s.fresh
      /\ t.saving = (s.saving /\ ctx # "treeSaved") /\ t.dragging = (IF ctx = "treeDragged" THEN 0 ELSE s.dragging)
  BY <1>j, EndedFields
<1>4. /\ t.rows = ui.rows /\ t.room = ui.room /\ t.devs = V /\ t.ok = ui.ok /\ t.fresh = w
      /\ t.saving = (ui.saving /\ ctx # "treeSaved") /\ t.dragging = (IF ctx = "treeDragged" THEN 0 ELSE ui.dragging)
  BY <1>2, <1>k
<1>5. \A m \in B: /\ m \in net /\ m.op = "layout" /\ m.page = b /\ m.ctx = ctx /\ IsRack(m.row, srv)
                  /\ m.ctx \in Repairs \cup {"placed", "export"} /\ ~IsTree(m)
  BY <1>0, <1>1, <1>e, <1>h DEF Batched, ScreenCallOK, IsTree
<1>6. \A m \in B: m.ctx \notin RackWrites \cup Placements \cup {"saved", "saveDevice"}
  BY <1>5 DEF RackWrites, Placements, Repairs
<1>7. \A e \in V: e \in ui.devs \/ \E m \in G: e.rack = m.row /\ e.rows = m.rows
  BY <1>a
<1>8. PlacesShown(t, S)
  BY <1>0, <1>3, <1>4, <1>5, <1>7, <1>i DEF PlacesShown
<1>9. Purposes(N, S)
  BY <1>0, <1>3 DEF Purposes
<1>10. Savers(t, N)
  <2>1. CASE ctx = "treeSaved"
    <3>1. \A k \in net: Saver(k) => k \in B
      <4>1. Saver(m0)
        BY <1>5, <1>h, <2>1 DEF Saver
      <4> QED BY <1>0, <1>1, <1>5, <1>h, <4>1 DEF Savers
    <3> QED BY <1>3, <3>1 DEF Savers
  <2>2. CASE ctx # "treeSaved"
    BY <1>0, <1>3, <1>4, <2>2 DEF Savers
  <2> QED BY <2>1, <2>2
<1>11. Dragged(t, N)
  BY <1>0, <1>3, <1>4, <1>6 DEF Dragged, RackWrites
<1>12. TreeShown(t, N, S)
  <2>1. TreeOwed(ui, net) => TreeOwed(t, N)
    <3>1. CASE ctx = "treeDragged"
      <4>1. \A k \in net: k.ctx # "drag"
        BY <1>0, <1>5, <1>h, <3>1 DEF DragOK
      <4> QED BY <1>3, <1>6, <4>1 DEF TreeOwed
    <3>2. CASE ctx # "treeDragged"
      BY <1>3, <1>4, <1>6, <3>2 DEF TreeOwed, RackWrites
    <3> QED BY <3>1, <3>2
  <2> QED BY <1>0, <1>3, <1>4, <1>5, <2>1, TreeStays
<1>13. Covers(t, N)
  <2>1. SUFFICES ASSUME t.fresh, NEW x \in Screen!Racks(t)
                 PROVE  (\E e \in t.devs: e.rack = x.row) \/ \E m \in N: m.op = "layout" /\ m.row = x.row
    BY DEF Covers
  <2>2. ui.fresh /\ G = B /\ x \in Screen!Racks(ui)
    BY <1>b, <1>4, <2>1 DEF Screen!Racks
  <2>3. ASSUME NEW m \in B, m.row = x.row PROVE \E e \in V: e.rack = x.row
    <3>1. PICK e: e = [rack |-> m.row, rows |-> m.rows]
      OBVIOUS
    <3>2. e \in V /\ e.rack = x.row
      BY <1>a, <2>2, <2>3, <3>1
    <3> QED BY <3>2
  <2>4. CASE \E m \in net: m.op = "layout" /\ m.row = x.row
    BY <1>3, <1>4, <2>3, <2>4
  <2>5. CASE \E e \in ui.devs: e.rack = x.row
    <3>1. PICK e \in ui.devs: e.rack = x.row
      BY <2>5
    <3>2. CASE \A m \in G: e.rack # m.row
      BY <1>a, <1>4, <3>1, <3>2
    <3>3. CASE \E m \in G: e.rack = m.row
      BY <1>4, <2>2, <2>3, <3>1, <3>3
    <3> QED BY <3>2, <3>3
  <2> QED BY <1>0, <2>2, <2>4, <2>5 DEF Covers
<1>14. DevicesTrue(t, N, S)
  <2>1. CASE ~t.fresh
    BY <2>1 DEF DevicesTrue
  <2>2. CASE t.fresh
    <3>1. PICK O: O = Updated(net) /\ O = Updated(N)
      <4>1. Updated(net) \subseteq Updated(N) /\ Updated(N) \subseteq Updated(net)
        BY <1>3, <1>6 DEF Updated
      <4> QED BY <4>1
    <3>2. CASE Placed(net)
      <4>1. Placed(N)
        BY <1>3, <1>6, <3>2 DEF Placed
      <4> QED BY <4>1 DEF DevicesTrue
    <3>3. CASE ~Placed(net)
      <4>1. /\ \A e \in ui.devs: Agrees(e.rows, Listed(S, e.rack), O)
            /\ \A m \in net: m.op = "layout" /\ m.res = "ok" => Agrees(m.rows, Listed(S, m.row), O)
            /\ \A m \in net: m.ctx = "saved" /\ m.res = "ok" => m.rows = {SeenIn(S, m.row)} /\ S[m.row].live
        BY <1>0, <1>3, <1>4, <1>b, <2>2, <3>1, <3>3 DEF DevicesTrue
      <4>2. \A e \in V: Agrees(e.rows, Listed(S, e.rack), O)
        <5>1. ASSUME NEW e \in V PROVE Agrees(e.rows, Listed(S, e.rack), O)
          <6>1. CASE e \in ui.devs
            BY <4>1, <6>1
          <6>2. CASE \E m \in G: e.rack = m.row /\ e.rows = m.rows
            <7>1. PICK m \in net: m.op = "layout" /\ m.res = "ok" /\ e.rack = m.row /\ e.rows = m.rows
              BY <1>i, <1>5, <6>2
            <7> QED BY <4>1, <7>1
          <6> QED BY <1>7, <6>1, <6>2
        <5> QED BY <5>1
      <4> QED BY <1>3, <1>4, <3>1, <4>1, <4>2 DEF DevicesTrue
    <3> QED BY <3>2, <3>3
  <2> QED BY <2>1, <2>2
<1> QED BY <1>3, <1>8, <1>9, <1>10, <1>11, <1>12, <1>13, <1>14 DEF ScreenShown

\* What is drawn of an answer that has every room and rack, is every one.
LEMMA TreeDrawn ==
  ASSUME srv \in Rows, Homed(srv), NEW X, SeenAll(X, srv), \A x \in X: PlaceOK(x, srv),
         {x \in X: ~IsDevice(x.row, srv)} = Drawn(srv)
  PROVE  {x \in X: x.up = All \/ Screen!Has(Screen!Rooms(X), x.up)} = Drawn(srv)
<1>1. \A x \in X: x.up = All \/ Screen!Has(Screen!Rooms(X), x.up) => x \in Drawn(srv)
  <2>1. ASSUME NEW x \in X, x.up = All PROVE ~IsDevice(x.row, srv)
    BY <2>1 DEF PlaceOK
  <2>2. ASSUME NEW x \in X, Screen!Has(Screen!Rooms(X), x.up) PROVE ~IsDevice(x.row, srv)
    BY <2>2, TreeShows DEF IsDevice
  <2> QED BY <2>1, <2>2
<1>2. ASSUME NEW x \in Drawn(srv) PROVE x \in X /\ (x.up = All \/ Screen!Has(Screen!Rooms(X), x.up))
  <2>1. x \in X
    OBVIOUS
  <2>2. PICK r \in Row: x = SeenIn(srv, r) /\ srv[r].live
    BY DEF Drawn, Listed
  <2>3. x.row = r /\ x.up = srv[r].up
    BY <2>2 DEF SeenIn
  <2>4. IsRoom(r, srv) \/ IsRack(r, srv)
    BY <2>3 DEF Drawn, IsDevice
  <2>5. CASE IsRoom(r, srv)
    BY <2>1, <2>3, <2>5 DEF IsRoom
  <2>6. CASE IsRack(r, srv)
    <3>1. PICK q, y: q = srv[r].up /\ y = SeenIn(srv, q)
      OBVIOUS
    <3>2. q \in Row /\ srv[q].up = All /\ srv[q].live
      BY <2>2, <2>6, <3>1 DEF IsRack, Homed
    <3>3. y \in Listed(srv, All)
      BY <3>1, <3>2, ListedAll
    <3>4. y.row = q /\ y.up = All
      BY <3>1, <3>2 DEF SeenIn
    <3>5. y \in X
      BY <3>2, <3>3, <3>4 DEF Drawn, IsDevice, IsRoom
    <3> QED BY <2>1, <2>3, <3>1, <3>4, <3>5 DEF Screen!Has, Screen!Rooms
  <2> QED BY <2>4, <2>5, <2>6
<1> QED BY <1>1, <1>2

\* What m is, when it is the tree that lands.
TreeIn(m) == /\ m.op = "list" /\ m.ctx \in TreeCtx /\ IsTree(m) /\ SeenAll(m.rows, srv) /\ OneEach(m.rows)
             /\ \A x \in m.rows: PlaceOK(x, srv)
             /\ (m.ctx = "treeDragged" => \A k \in net \ {m}: k.ctx # "drag")
             /\ (m.ctx = "treeSaved" => ui.saving /\ \A k \in net \ {m}: ~Saver(k))

\* What is known of a tree that lands.
LEMMA TreeKnown ==
  ASSUME Calls(net, srv), ScreenInv(ui, net, srv), ScreenShown(ui, net, srv), NEW m \in net, Screen!LandTree(m)
  PROVE  TreeIn(m)
<1>1. m.op = "list" /\ m.ctx \in Screen!Batches
  BY DEF Screen!LandTree
<1>2. ScreenCallOK(m, srv) /\ CallOK(m, srv) /\ Purpose(m, srv) /\ DragOK(ui, net) /\ Savers(ui, net)
  BY DEF ScreenInv, ScreenNet, Calls, ScreenShown, Purposes
<1>3. m.ctx \in TreeCtx /\ IsTree(m)
  BY <1>1, <1>2 DEF ScreenCallOK, Screen!Batches, TreeCtx, IsTree
<1>4. SeenAll(m.rows, srv) /\ (\A x \in m.rows: PlaceOK(x, srv)) /\ OneEach(m.rows)
  BY <1>1, <1>2 DEF ScreenCallOK, CallOK, Purpose
<1>5. m.ctx = "treeDragged" => \A k \in net \ {m}: k.ctx # "drag"
  BY <1>2 DEF DragOK
<1>6. m.ctx = "treeSaved" => ui.saving /\ \A k \in net \ {m}: ~Saver(k)
  BY <1>1, <1>2 DEF Savers, Saver
<1> QED BY <1>1, <1>3, <1>4, <1>5, <1>6 DEF TreeIn

\* The tree could not be had.
LEMMA TreeFails ==
  ASSUME Calls(net, srv), ScreenInv(ui, net, srv), ScreenShown(ui, net, srv), NEW m \in net, Screen!LandTree(m), m.res # "ok"
  PROVE  ScreenShown(ui', net', srv')
<1>0. /\ DOMAIN ui = ScreenFields /\ Purposes(net, srv) /\ Savers(ui, net) /\ Dragged(ui, net) /\ PlacesShown(ui, srv)
      /\ Covers(ui, net) /\ DevicesTrue(ui, net, srv) /\ TreeIn(m)
  BY TreeKnown DEF ScreenInv, ScreenUi, ScreenFields, ScreenShown
<1>1. PICK e, o: e = Screen!Ended(ui, m.ctx) /\ o = FALSE
  OBVIOUS
<1>2. ui' = [e EXCEPT !.sel = ui.sel, !.ok = o] /\ net' = net \ {m} /\ srv' = srv
  BY <1>1 DEF Screen!LandTree
<1>3. PICK t, N, S: t = ui' /\ N = net' /\ S = srv' /\ S = srv
  BY <1>2
<1>4. /\ DOMAIN e = ScreenFields /\ e.rows = ui.rows /\ e.room = ui.room /\ e.devs = ui.devs /\ e.fresh = ui.fresh
      /\ e.saving = (ui.saving /\ m.ctx # "treeSaved") /\ e.dragging = (IF m.ctx = "treeDragged" THEN 0 ELSE ui.dragging)
  BY <1>0, <1>1, EndedFields
<1>5. PICK b: t = [e EXCEPT !.sel = b, !.ok = o]
  BY <1>2, <1>3
<1>6. /\ t.rows = e.rows /\ t.room = e.room /\ t.devs = e.devs /\ t.fresh = e.fresh /\ t.ok = o
      /\ t.saving = e.saving /\ t.dragging = e.dragging
  BY <1>4, <1>5 DEF ScreenFields
<1>7. /\ t.rows = ui.rows /\ t.room = ui.room /\ t.devs = ui.devs /\ t.fresh = ui.fresh /\ ~t.ok
      /\ t.saving = (ui.saving /\ m.ctx # "treeSaved") /\ t.dragging = (IF m.ctx = "treeDragged" THEN 0 ELSE ui.dragging)
  BY <1>1, <1>4, <1>6
<1>8. N = net \ {m}
  BY <1>2, <1>3
<1>9. Purposes(N, S) /\ PlacesShown(t, S)
  BY <1>0, <1>3, <1>7, <1>8 DEF Purposes, PlacesShown
<1>10. Savers(t, N)
  BY <1>0, <1>7, <1>8 DEF Savers, TreeIn
<1>11. Dragged(t, N)
  BY <1>0, <1>7, <1>8 DEF Dragged, TreeIn, TreeCtx
<1>12. TreeShown(t, N, S)
  BY <1>7 DEF TreeShown
<1>13. Covers(t, N) /\ DevicesTrue(t, N, S)
  <2>1. PICK R, D: R = {m} /\ D = {}
    OBVIOUS
  <2>2. N = (net \ R) \cup D /\ (\A d \in D: d.op # "layout" /\ (d.ctx = "saved" => d.res = "pending"))
    BY <1>8, <2>1
  <2>3. GoneDevices(m, t, N)
    BY <1>0 DEF TreeIn, TreeCtx, GoneDevices, Placements
  <2>4. Same(t, ui) /\ (t.fresh => ui.fresh) /\ \A k \in R: GoneDevices(k, t, N)
    BY <1>7, <2>1, <2>3 DEF Same
  <2>5. DevicesTrue(ui, net, S) /\ Covers(ui, net)
    BY <1>0, <1>3
  <2> QED BY <2>2, <2>4, <2>5, DevicesKept
<1> QED BY <1>3, <1>9, <1>10, <1>11, <1>12, <1>13 DEF ScreenShown

\* The tree is there: what is drawn of it is drawn, and the layouts that are missing are asked for.
LEMMA TreeArrives ==
  ASSUME srv \in Rows, Homed(srv), Calls(net, srv), ScreenInv(ui, net, srv), ScreenShown(ui, net, srv),
         NEW m \in net, Screen!LandTree(m), m.res = "ok"
  PROVE  ScreenShown(ui', net', srv')
<1>0. /\ DOMAIN ui = ScreenFields /\ Purposes(net, srv) /\ Savers(ui, net) /\ Dragged(ui, net) /\ PlacesShown(ui, srv)
      /\ TreeShown(ui, net, srv) /\ DevicesTrue(ui, net, srv) /\ TreeIn(m)
  BY TreeKnown DEF ScreenInv, ScreenUi, ScreenFields, ScreenShown
<1>1. PICK rooms: rooms = Screen!Rooms(m.rows)
  OBVIOUS
<1>2. PICK tree: tree = {x \in m.rows: x.up = All \/ Screen!Has(rooms, x.up)}
  OBVIOUS
<1>3. PICK room: room = IF Screen!Has(rooms, ui.room) THEN ui.room ELSE Screen!First(rooms)
  OBVIOUS
<1>4. PICK s, ctx, C: s = [ui EXCEPT !.rows = tree, !.room = room] /\ ctx = m.ctx /\ C = net \ {m}
  OBVIOUS
<1>5. Screen!LoadLayouts(s, ctx, C) /\ srv' = srv
  <2>1. PICK z: /\ z = [ui EXCEPT !.rows = {x \in m.rows: x.up = All \/ Screen!Has(Screen!Rooms(m.rows), x.up)},
                                    !.room = IF Screen!Has(Screen!Rooms(m.rows), @) THEN @
                                      ELSE Screen!First(Screen!Rooms(m.rows))]
                  /\ Screen!LoadLayouts(z, m.ctx, net \ {m}) /\ srv' = srv
    BY DEF Screen!LandTree
  <2>2. z = s
    BY <1>1, <1>2, <1>3, <1>4, <2>1
  <2> QED BY <1>4, <2>1, <2>2
<1>6. /\ DOMAIN s = ScreenFields /\ s.rows = tree /\ s.room = room /\ s.devs = ui.devs /\ s.ok = ui.ok /\ s.fresh = ui.fresh
      /\ s.dragging = ui.dragging /\ s.saving = ui.saving
  BY <1>0, <1>4 DEF ScreenFields
<1>7. IsFiniteSet(C)
  BY <1>4, FS_Difference DEF ScreenInv, ScreenNet
<1>8. C \subseteq net /\ \A k \in net: k \in C \/ k = m
  BY <1>4
<1>9. tree \subseteq m.rows /\ \A x \in tree: x.up = All \/ Screen!Has(rooms, x.up)
  BY <1>2
<1>10. \A x \in rooms: x.row \in Row /\ x.row \in Nat /\ IsRoom(x.row, srv)
  <2>1. ASSUME NEW x \in rooms PROVE x.row \in Row /\ IsRoom(x.row, srv)
    <3>1. x \in m.rows /\ x.up = All
      BY <1>1 DEF Screen!Rooms
    <3>2. x.row \in Row /\ PlaceOK(x, srv)
      BY <1>0, <3>1 DEF TreeIn, SeenAll, SeenOK
    <3> QED BY <3>1, <3>2 DEF PlaceOK, IsRoom
  <2> QED BY <2>1, WireAssumption
<1>11. room = NoRow \/ IsRoom(room, srv)
  <2>1. CASE Screen!Has(rooms, ui.room)
    BY <1>3, <1>10, <2>1 DEF Screen!Has
  <2>2. CASE ~Screen!Has(rooms, ui.room)
    BY <1>3, <1>10, <2>2, ScreenFirst
  <2> QED BY <2>1, <2>2
<1>12. PlacesShown(s, srv)
  <2>1. OneEach(s.rows)
    BY <1>0, <1>6, <1>9 DEF TreeIn, OneEach
  <2> QED BY <1>0, <1>6, <1>11, <2>1 DEF PlacesShown
<1>13. \A x \in Screen!Racks(s): IsRack(x.row, srv)
  <2>1. ASSUME NEW x \in Screen!Racks(s) PROVE IsRack(x.row, srv)
    <3>1. x \in m.rows /\ Screen!Has(Screen!Rooms(m.rows), x.up)
      BY <1>1, <1>6, <1>9 DEF Screen!Racks
    <3>2. SeenAll(m.rows, srv) /\ \A y \in m.rows: PlaceOK(y, srv)
      BY <1>0 DEF TreeIn
    <3> QED BY <3>1, <3>2, TreeShows
  <2> QED BY <2>1
<1>14. TreeShown(s, C, srv)
  <2>1. SUFFICES ASSUME s.ok
                 PROVE  /\ \A a, b \in C: IsTree(a) /\ IsTree(b) => a = b
                        /\ \/ TreeOwed(s, C)
                           \/ /\ \A a \in C: IsTree(a) /\ a.res = "ok" => Places(a, srv) = Drawn(srv)
                              /\ (\A a \in C: ~IsTree(a)) => s.rows = Drawn(srv)
    BY DEF TreeShown
  <2>2. /\ \A a, b \in net: IsTree(a) /\ IsTree(b) => a = b
        /\ TreeOwed(ui, net) \/ \A a \in net: IsTree(a) /\ a.res = "ok" => Places(a, srv) = Drawn(srv)
    BY <1>0, <1>6, <2>1 DEF TreeShown
  <2>3. \A a \in C: ~IsTree(a)
    BY <1>0, <1>4, <2>2 DEF TreeIn
  <2>4. CASE TreeOwed(ui, net)
    <3>1. m.ctx \notin RackWrites
      BY <1>0 DEF TreeIn, TreeCtx, RackWrites
    <3>2. TreeOwed(s, C)
      BY <1>6, <1>8, <2>4, <3>1 DEF TreeOwed, RackWrites
    <3> QED BY <2>3, <3>2
  <2>5. CASE Places(m, srv) = Drawn(srv)
    <3>1. {x \in m.rows: ~IsDevice(x.row, srv)} = Drawn(srv)
      BY <2>5 DEF Places
    <3>2. {x \in m.rows: x.up = All \/ Screen!Has(Screen!Rooms(m.rows), x.up)} = Drawn(srv)
      BY <1>0, <3>1, TreeDrawn DEF TreeIn
    <3> QED BY <1>1, <1>2, <1>6, <2>3, <3>2
  <2> QED BY <1>0, <2>2, <2>4, <2>5 DEF TreeIn
<1>15. DevicesTrue(s, C, srv)
  <2>1. m.ctx \notin Placements \cup {"saved", "saveDevice"}
    BY <1>0 DEF TreeIn, TreeCtx, Placements
  <2>2. (Placed(net) => Placed(C)) /\ Updated(net) \subseteq Updated(C)
    BY <1>8, <2>1 DEF Placed, Updated
  <2> QED BY <1>0, <1>6, <1>8, <2>2, DevicesStay
<1>16. Dragged(s, C) /\ Savers(s, C)
  <2>1. m.ctx # "drag"
    BY <1>0 DEF TreeIn, TreeCtx
  <2> QED BY <1>0, <1>6, <1>8, <2>1 DEF Dragged, Savers
<1>17. LoadReady(s, ctx, C, srv)
  <2>1. Purposes(C, srv)
    BY <1>0, <1>8 DEF Purposes
  <2>2. ctx \in TreeCtx /\ (ctx = "treeSaved" => s.saving /\ \A k \in C: ~Saver(k))
        /\ (ctx = "treeDragged" => \A k \in C: k.ctx # "drag")
    BY <1>0, <1>4, <1>6 DEF TreeIn
  <2> QED BY <1>6, <1>7, <1>12, <1>13, <1>14, <1>15, <1>16, <2>1, <2>2 DEF LoadReady
<1>18. PICK S: S = srv' /\ S = srv
  BY <1>5
<1>19. ScreenShown(ui', net', S)
  BY <1>5, <1>17, <1>18, LoadShown
<1> QED BY <1>18, <1>19


\* An answer lands that asks for nothing more.
LEMMA ScreenLands ==
  ASSUME ScreenShown(ui, net, srv), NEW m \in net, NEW t, Same(t, ui), t.dragging = ui.dragging,
         t.ok => ui.ok, t.fresh => ui.fresh,
         GoneTree(m, t), GoneDevices(m, t, net'), t.saving = ui.saving \/ Saver(m),
         ui' = t, net' = net \ {m}, srv' = srv
  PROVE  ScreenShown(ui', net', srv')
<1>1. PICK N, S, R, D: N = net' /\ S = srv' /\ S = srv /\ R = {m} /\ D = {}
  OBVIOUS
<1>2. N = (net \ R) \cup D /\ (\A d \in D: Aside(d, S)) /\ N = net \ {m}
  BY <1>1
<1>3. Savers(t, N)
  BY <1>2 DEF ScreenShown, Savers, GoneDevices
<1>4. \A k \in R: GoneTree(k, t) /\ GoneDevices(k, t, N)
  BY <1>1
<1>5. ScreenShown(ui, net, S)
  BY <1>1
<1>6. ScreenShown(t, N, S)
  BY <1>2, <1>3, <1>4, <1>5, ScreenStays
<1> QED BY <1>1, <1>6

\* The devices that are offered, or the one that is shown, land.
LEMMA AssignableShows ==
  ASSUME ScreenInv(ui, net, srv), ScreenShown(ui, net, srv), NEW m \in net, Screen!LandAssignable(m)
  PROVE  ScreenShown(ui', net', srv')
<1>1. DOMAIN ui = ScreenFields /\ Purpose(m, srv)
  BY DEF ScreenInv, ScreenUi, ScreenFields, ScreenShown, Purposes
<1>2. m.ctx = "assignable" /\ net' = net \ {m} /\ srv' = srv
  BY DEF Screen!LandAssignable, Screen!Landed
<1>3. PICK t: t = ui'
  OBVIOUS
<1>4. t = ui \/ \E C: t = [ui EXCEPT !.cand = C]
  BY <1>3 DEF Screen!LandAssignable
<1>5. Same(t, ui) /\ t.dragging = ui.dragging /\ t.ok = ui.ok /\ t.fresh = ui.fresh /\ t.saving = ui.saving
  BY <1>1, <1>4 DEF Same, ScreenFields
<1>6. GoneTree(m, t) /\ GoneDevices(m, t, net')
  BY <1>1, <1>2 DEF GoneTree, GoneDevices, Purpose, IsTree, RackWrites, Placements, TreeCtx
<1> QED BY <1>2, <1>3, <1>5, <1>6, ScreenLands

\* A device that is opened in the drawer lands.
LEMMA DetailShows ==
  ASSUME ScreenInv(ui, net, srv), ScreenShown(ui, net, srv), NEW m \in net, Screen!LandDetail(m)
  PROVE  ScreenShown(ui', net', srv')
<1>1. DOMAIN ui = ScreenFields /\ Purpose(m, srv)
  BY DEF ScreenInv, ScreenUi, ScreenFields, ScreenShown, Purposes
<1>2. m.ctx \in {"drawer", "device"} /\ net' = net \ {m} /\ srv' = srv
  BY DEF Screen!LandDetail
<1>3. PICK t: t = ui'
  OBVIOUS
<1>4. (\E f: t = [ui EXCEPT !.form = f]) \/ \E d: t = [ui EXCEPT !.dlg = d]
  BY <1>3 DEF Screen!LandDetail
<1>5. Same(t, ui) /\ t.dragging = ui.dragging /\ t.ok = ui.ok /\ t.fresh = ui.fresh /\ t.saving = ui.saving
  BY <1>1, <1>4 DEF Same, ScreenFields
<1>6. GoneTree(m, t) /\ GoneDevices(m, t, net')
  BY <1>1, <1>2 DEF GoneTree, GoneDevices, Purpose, IsTree, RackWrites, Placements, TreeCtx
<1> QED BY <1>2, <1>3, <1>5, <1>6, ScreenLands

\* A placement lands that was not accepted: it may have been executed.
LEMMA PlaceFails ==
  ASSUME ScreenInv(ui, net, srv), ScreenShown(ui, net, srv), NEW m \in net, Screen!LandPlace(m), m.res # "ok"
  PROVE  ScreenShown(ui', net', srv')
<1>1. DOMAIN ui = ScreenFields /\ Purpose(m, srv)
  BY DEF ScreenInv, ScreenUi, ScreenFields, ScreenShown, Purposes
<1>2. m.ctx \in Placements /\ net' = net \ {m} /\ srv' = srv
  BY DEF Screen!LandPlace, Screen!Landed, Placements
<1>3. PICK t: t = ui'
  OBVIOUS
<1>4. IF m.did THEN t = Excused(ui) ELSE t = ui
  BY <1>3, ScreenSame DEF Screen!LandPlace
<1>5. DOMAIN ui = ScreenFields /\ (m.did => ~t.ok /\ ~t.fresh)
  BY <1>1, <1>4 DEF Excused, ScreenFields
<1>6. t.rows = ui.rows /\ t.room = ui.room /\ t.devs = ui.devs /\ t.dragging = ui.dragging /\ t.saving = ui.saving
  BY <1>1, <1>4 DEF Excused, ScreenFields
<1>7. Same(t, ui) /\ (t.ok => ui.ok) /\ (t.fresh => ui.fresh)
  BY <1>4, <1>5, <1>6 DEF Same
<1>8. GoneTree(m, t) /\ GoneDevices(m, t, net')
  BY <1>1, <1>2, <1>5 DEF GoneTree, GoneDevices, Purpose, IsTree, RackWrites, Placements, TreeCtx
<1> QED BY <1>2, <1>3, <1>6, <1>7, <1>8, ScreenLands

\* A placement was accepted: all layouts are asked for.
LEMMA PlaceShows ==
  ASSUME srv \in Rows, ScreenInv(ui, net, srv), ScreenShown(ui, net, srv), NEW m \in net, Screen!LandPlace(m), m.res = "ok"
  PROVE  ScreenShown(ui', net', srv')
<1>1. /\ DOMAIN ui = ScreenFields /\ Purpose(m, srv) /\ Purposes(net, srv) /\ PlacesShown(ui, srv)
      /\ TreeShown(ui, net, srv) /\ Dragged(ui, net) /\ Savers(ui, net)
  BY DEF ScreenInv, ScreenUi, ScreenFields, ScreenShown, Purposes
<1>2. m.ctx \in Placements /\ srv' = srv
  BY DEF Screen!LandPlace, Screen!Landed, Placements
<1>3. PICK C: C = net \ {m}
  OBVIOUS
<1>4. PICK g, w: Screen!ReloadLayouts(g, C) /\ g = [ui EXCEPT !.dlg = w]
  <2>1. \E w: Screen!ReloadLayouts([ui EXCEPT !.dlg = w], C)
    BY <1>3 DEF Screen!LandPlace
  <2> QED BY <2>1
<1>5. PICK f: f = (Screen!Older(C) = {})
  OBVIOUS
<1>6. PICK s: s = [g EXCEPT !.devs = {}, !.fresh = f] /\ Screen!LoadLayouts(s, "placed", C)
  BY <1>4, <1>5 DEF Screen!ReloadLayouts
<1>7. /\ DOMAIN g = ScreenFields /\ g.rows = ui.rows /\ g.room = ui.room /\ g.ok = ui.ok
      /\ g.dragging = ui.dragging /\ g.saving = ui.saving
  BY <1>1, <1>4 DEF ScreenFields
<1>8. /\ DOMAIN s = ScreenFields /\ s.rows = ui.rows /\ s.room = ui.room /\ s.devs = {} /\ s.ok = ui.ok
      /\ s.fresh = f /\ s.dragging = ui.dragging /\ s.saving = ui.saving
  BY <1>6, <1>7 DEF ScreenFields
<1>9. IsFiniteSet(C)
  BY <1>3, FS_Difference DEF ScreenInv, ScreenNet
<1>10. PlacesShown(s, srv)
  BY <1>1, <1>8 DEF PlacesShown
<1>11. \A x \in Screen!Racks(s): IsRack(x.row, srv)
  <2>1. Screen!Racks(s) = Screen!Racks(ui)
    BY <1>8 DEF Screen!Racks
  <2> QED BY <2>1, ScreenReady
<1>12. TreeShown(s, C, srv)
  <2>1. TreeOwed(ui, net) => TreeOwed(s, C)
    BY <1>2, <1>3, <1>8 DEF TreeOwed, RackWrites, Placements
  <2>2. ~IsTree(m)
    BY <1>1, <1>2 DEF Purpose, IsTree, Placements, TreeCtx
  <2> QED BY <1>1, <1>3, <1>8, <2>1, <2>2, TreeStays
<1>13. DevicesTrue(s, C, srv)
  <2>1. s.fresh => \A k \in C: k.op # "layout" /\ k.ctx # "saved"
    BY <1>5, <1>8 DEF Screen!Older
  <2> QED BY <1>8, <2>1 DEF DevicesTrue
<1>14. Dragged(s, C) /\ Savers(s, C)
  BY <1>1, <1>2, <1>3, <1>8 DEF Dragged, Savers, Placements
<1>15. LoadReady(s, "placed", C, srv)
  <2>1. Purposes(C, srv)
    BY <1>1, <1>3 DEF Purposes
  <2> QED BY <1>8, <1>9, <1>10, <1>11, <1>12, <1>13, <1>14, <2>1 DEF LoadReady
<1>16. PICK S: S = srv' /\ S = srv
  BY <1>2
<1>17. ScreenShown(ui', net', S)
  BY <1>6, <1>15, <1>16, LoadShown
<1> QED BY <1>16, <1>17

\* A device was saved: it is read again, or the save was not accepted.
LEMMA SaveDeviceShows ==
  ASSUME ScreenInv(ui, net, srv), ScreenShown(ui, net, srv), NEW m \in net, Screen!LandSaveDevice(m)
  PROVE  ScreenShown(ui', net', srv')
<1>1. DOMAIN ui = ScreenFields /\ Purpose(m, srv)
  BY DEF ScreenInv, ScreenUi, ScreenFields, ScreenShown, Purposes
<1>2. m.ctx = "saveDevice" /\ srv' = srv
  BY DEF Screen!LandSaveDevice, Screen!Landed
<1>3. PICK t, N, S: t = ui' /\ N = net' /\ S = srv' /\ S = srv
  BY <1>2
<1>4. m.op = "put" /\ Saver(m)
  BY <1>1, <1>2 DEF Purpose, TreeCtx, Placements, Saver
<1>5. CASE m.res # "ok"
  <2>1. PICK o: o = IF m.did THEN Excused(ui) ELSE ui
    OBVIOUS
  <2>2. t = [o EXCEPT !.saving = FALSE] /\ net' = net \ {m}
    BY <1>3, <1>5, <2>1, ScreenSame DEF Screen!LandSaveDevice
  <2>3. DOMAIN o = ScreenFields /\ (m.did => ~o.ok /\ ~o.fresh) /\ (~m.did => o = ui)
    BY <1>1, <2>1 DEF Excused, ScreenFields
  <2>4. o.rows = ui.rows /\ o.room = ui.room /\ o.devs = ui.devs /\ o.dragging = ui.dragging
    BY <1>1, <2>1 DEF Excused, ScreenFields
  <2>5. t.rows = o.rows /\ t.room = o.room /\ t.devs = o.devs /\ t.dragging = o.dragging /\ t.ok = o.ok /\ t.fresh = o.fresh
    BY <2>2, <2>3 DEF ScreenFields
  <2>6. Same(t, ui) /\ t.dragging = ui.dragging /\ (t.ok => ui.ok) /\ (t.fresh => ui.fresh /\ ~m.did)
    BY <2>3, <2>4, <2>5 DEF Same
  <2>7. GoneTree(m, t) /\ GoneDevices(m, t, net')
    BY <1>2, <1>4, <2>6 DEF GoneTree, GoneDevices, IsTree, RackWrites, Placements
  <2> QED BY <1>2, <1>3, <1>4, <2>2, <2>6, <2>7, ScreenLands
<1>6. CASE m.res = "ok"
  <2>1. PICK c: c = Screen!ScreenCall("get", "saved", m.row, 0)
    OBVIOUS
  <2>2. Asks(c, "get", m.row, 0, Blank, All) /\ c.ctx = "saved"
    BY <2>1, ScreenSame DEF Screen!ScreenCall, Call, Asks, CallFields
  <2>3. DOMAIN c = CallFields /\ Aside(c, srv) /\ c.row = m.row
    BY <2>2, AsideAsked DEF Asks
  <2>4. t = ui /\ N = Add(net \ {m}, c)
    BY <1>3, <1>6, <2>1, ScreenSame DEF Screen!LandSaveDevice
  <2>5. PICK d: N = (net \ {m}) \cup {d} /\ SameCall(d, c)
    BY <2>3, <2>4, AddOne
  <2>6. Aside(d, S) /\ d.ctx = "saved" /\ d.row = m.row
    BY <1>3, <2>2, <2>3, <2>5, AsideSame DEF SameCall
  <2>7. Savers(t, N)
    <3>1. ui.saving /\ \A k \in net \ {m}: ~Saver(k)
      BY <1>4, SaversStay DEF ScreenShown
    <3> QED BY <2>4, <2>5, <3>1 DEF Savers
  <2>8. PICK R, D: R = {m} /\ D = {d}
    OBVIOUS
  <2>9. N = (net \ R) \cup D /\ (\A k \in D: Aside(k, S))
    BY <2>5, <2>6, <2>8
  <2>10. GoneTree(m, t) /\ GoneDevices(m, t, N)
    BY <1>2, <1>4, <2>5, <2>6 DEF GoneTree, GoneDevices, IsTree, RackWrites, Placements
  <2>11. \A k \in R: GoneTree(k, t) /\ GoneDevices(k, t, N)
    BY <2>8, <2>10
  <2>12. Same(t, ui) /\ t.dragging = ui.dragging /\ t.ok = ui.ok /\ t.fresh = ui.fresh /\ ScreenShown(ui, net, S)
    BY <1>3, <2>4 DEF Same
  <2>13. ScreenShown(t, N, S)
    BY <2>7, <2>9, <2>11, <2>12, ScreenStays
  <2> QED BY <1>3, <2>13
<1> QED BY <1>5, <1>6


\* Putting the new version where the old one was makes agreement complete.
LEMMA PlacedAgree ==
  ASSUME NEW S, NEW X, SeenAll(X, S), NEW g, NEW r, Agrees(X, Listed(S, g), {r}), NEW x, x = SeenIn(S, r),
         NEW O
  PROVE  Agrees(Screen!InPlace(X, x), Listed(S, g), O)
<1>1. PICK Y: Y = Screen!InPlace(X, x)
  OBVIOUS
<1>2. Y = {IF d.row = x.row THEN [d EXCEPT !.ver = x.ver] ELSE d: d \in X}
  BY <1>1 DEF Screen!InPlace
<1>3. x.row = r /\ x.ver = S[r].ver
  BY DEF SeenIn
<1>4. \A z \in Listed(S, g): z.ver = S[z.row].ver
  BY DEF Listed, SeenIn
<1>5. ASSUME NEW y \in Y PROVE \E z \in Listed(S, g): z.row = y.row /\ z.up = y.up /\ z.ver = y.ver
  <2>1. PICK d \in X: y = IF d.row = x.row THEN [d EXCEPT !.ver = x.ver] ELSE d
    BY <1>2
  <2>2. DOMAIN d = {"row", "ver", "up"}
    BY DEF SeenAll, SeenOK
  <2>3. PICK z \in Listed(S, g): z.row = d.row /\ z.up = d.up /\ (d.row # r => z.ver = d.ver)
    BY DEF Agrees
  <2>4. y.row = d.row /\ y.up = d.up /\ y.ver = (IF d.row = x.row THEN x.ver ELSE d.ver)
    BY <2>1, <2>2
  <2> QED BY <1>3, <1>4, <2>3, <2>4
<1>6. ASSUME NEW z \in Listed(S, g) PROVE \E y \in Y: y.row = z.row
  <2>1. PICK d \in X: d.row = z.row
    BY DEF Agrees
  <2>2. DOMAIN d = {"row", "ver", "up"}
    BY DEF SeenAll, SeenOK
  <2>3. PICK y: y = IF d.row = x.row THEN [d EXCEPT !.ver = x.ver] ELSE d
    OBVIOUS
  <2>4. y \in Y /\ y.row = d.row
    BY <1>2, <2>2, <2>3
  <2> QED BY <2>1, <2>4
<1>7. ASSUME NEW y \in Y PROVE Entry(y)
  <2>1. PICK d \in X: y = IF d.row = x.row THEN [d EXCEPT !.ver = x.ver] ELSE d
    BY <1>2
  <2>2. Entry(d)
    BY DEF Agrees
  <2>3. PICK a, b, c: d = [row |-> a, ver |-> b, up |-> c]
    BY <2>2 DEF Entry
  <2>4. y = [row |-> a, ver |-> b, up |-> c] \/ y = [row |-> a, ver |-> x.ver, up |-> c]
    BY <2>1, <2>3
  <2> QED BY <2>4 DEF Entry
<1> QED BY <1>1, <1>5, <1>6, <1>7 DEF Agrees

PutIn(d, X) == [d EXCEPT !.rows = Screen!InPlace(@, CHOOSE y \in X: TRUE)]

\* The device that was saved lands: it is put in place, or could not be had.
LEMMA SavedFails ==
  ASSUME ScreenInv(ui, net, srv), ScreenShown(ui, net, srv), NEW m \in net, Screen!LandSaved(m), m.res # "ok"
  PROVE  ScreenShown(ui', net', srv')
<1>1. DOMAIN ui = ScreenFields /\ Purpose(m, srv)
  BY DEF ScreenInv, ScreenUi, ScreenFields, ScreenShown, Purposes
<1>2. m.ctx = "saved" /\ net' = net \ {m} /\ srv' = srv
  BY DEF Screen!LandSaved, Screen!Landed
<1>3. PICK t, f: t = ui' /\ f = FALSE
  OBVIOUS
<1>4. t = [ui EXCEPT !.saving = f, !.fresh = f]
  BY <1>3 DEF Screen!LandSaved
<1>5. Same(t, ui) /\ t.dragging = ui.dragging /\ t.ok = ui.ok /\ ~t.fresh
  BY <1>1, <1>3, <1>4 DEF Same, ScreenFields
<1>6. GoneTree(m, t) /\ GoneDevices(m, t, net') /\ Saver(m)
  BY <1>1, <1>2, <1>5 DEF GoneTree, GoneDevices, Purpose, IsTree, RackWrites, Placements, TreeCtx, Saver
<1> QED BY <1>2, <1>3, <1>5, <1>6, ScreenLands

\* The device that was saved lands and is put in place.
LEMMA SavedShows ==
  ASSUME srv \in Rows, Calls(net, srv), ScreenInv(ui, net, srv), ScreenShown(ui, net, srv),
         NEW m \in net, Screen!LandSaved(m), m.res = "ok"
  PROVE  ScreenShown(ui', net', srv')
<1>1. /\ DOMAIN ui = ScreenFields /\ Purposes(net, srv) /\ PlacesShown(ui, srv) /\ Covers(ui, net)
      /\ TreeShown(ui, net, srv) /\ Dragged(ui, net) /\ Savers(ui, net) /\ DevicesTrue(ui, net, srv)
  BY DEF ScreenInv, ScreenUi, ScreenFields, ScreenShown
<1>2. /\ m.ctx = "saved" /\ m.op = "get" /\ Saver(m) /\ net' = net \ {m} /\ srv' = srv
      /\ CallOK(m, srv) /\ ScreenCallOK(m, srv)
  <2>1. m.ctx = "saved" /\ net' = net \ {m} /\ srv' = srv
    BY DEF Screen!LandSaved, Screen!Landed
  <2>2. CallOK(m, srv) /\ ScreenCallOK(m, srv)
    BY DEF Calls, ScreenInv, ScreenNet
  <2> QED BY <2>1, <2>2 DEF ScreenCallOK, Saver
<1>3. PICK t, N, S: t = ui' /\ N = net' /\ S = srv' /\ S = srv
  BY <1>2
<1>4. PICK x: m.rows = {x} /\ x = CHOOSE y \in m.rows: TRUE
  BY <1>2 DEF CallOK
<1>5. PICK V: V = {PutIn(d, m.rows): d \in ui.devs}
  OBVIOUS
<1>6. PICK w: w = (ui.fresh /\ ~Screen!Waiting("layout", net))
  OBVIOUS
<1>a. PICK g: g = IF ui.dlg.mode = "device" THEN Screen!Closed ELSE ui.dlg
  OBVIOUS
<1>7. t = [ui EXCEPT !.saving = FALSE, !.dlg = g, !.devs = V, !.fresh = w]
  <2>1. ui' = [ui EXCEPT !.saving = FALSE, !.dlg = IF @.mode = "device" THEN Screen!Closed ELSE @,
                           !.devs = {PutIn(d, m.rows): d \in @},
                           !.fresh = @ /\ ~Screen!Waiting("layout", net)]
    BY DEF Screen!LandSaved, PutIn
  <2>2. ui' = [ui EXCEPT !.saving = FALSE, !.dlg = g, !.devs = V, !.fresh = w]
    BY <1>5, <1>6, <1>a, <2>1
  <2> QED BY <1>3, <2>2
<1>8. /\ t.rows = ui.rows /\ t.room = ui.room /\ t.devs = V /\ t.ok = ui.ok /\ t.fresh = w
      /\ t.dragging = ui.dragging
  BY <1>1, <1>7 DEF ScreenFields
<1>9. N = net \ {m}
  BY <1>2, <1>3
<1>10. \A e \in V: \E d \in ui.devs: e.rack = d.rack /\ e.rows = Screen!InPlace(d.rows, x)
  <2>1. ASSUME NEW e \in V PROVE \E d \in ui.devs: e.rack = d.rack /\ e.rows = Screen!InPlace(d.rows, x)
    <3>1. PICK d \in ui.devs: e = PutIn(d, m.rows)
      BY <1>5
    <3>2. DOMAIN d = {"rack", "rows"}
      BY DEF ScreenInv, ScreenUi, ScreenRows
    <3>3. e.rack = d.rack /\ e.rows = Screen!InPlace(d.rows, CHOOSE y \in m.rows: TRUE)
      BY <3>1, <3>2 DEF PutIn
    <3> QED BY <1>4, <3>3
  <2> QED BY <2>1
<1>11. \A d \in ui.devs: \E e \in V: e.rack = d.rack
  <2>1. ASSUME NEW d \in ui.devs PROVE \E e \in V: e.rack = d.rack
    <3>1. PICK e: e = PutIn(d, m.rows)
      OBVIOUS
    <3>2. DOMAIN d = {"rack", "rows"}
      BY DEF ScreenInv, ScreenUi, ScreenRows
    <3>3. e.rack = d.rack
      BY <3>1, <3>2 DEF PutIn
    <3>4. e \in V
      BY <1>5, <3>1
    <3> QED BY <3>3, <3>4
  <2> QED BY <2>1
<1>12. \A k \in N: ~Saver(k)
  BY <1>1, <1>2, <1>9, SaversStay
<1>13. PlacesShown(t, S)
  <2>1. \A e \in t.devs: IsRack(e.rack, S)
    BY <1>1, <1>3, <1>8, <1>10 DEF PlacesShown
  <2> QED BY <1>1, <1>3, <1>8, <2>1 DEF PlacesShown
<1>14. Purposes(N, S) /\ Savers(t, N)
  BY <1>1, <1>3, <1>9, <1>12 DEF Purposes, Savers
<1>15. Dragged(t, N)
  BY <1>1, <1>2, <1>8, <1>9 DEF Dragged
<1>16. TreeShown(t, N, S)
  <2>1. TreeOwed(ui, net) => TreeOwed(t, N)
    BY <1>2, <1>8, <1>9 DEF TreeOwed, RackWrites
  <2>2. ~IsTree(m) /\ TreeShown(ui, net, S)
    BY <1>1, <1>2, <1>3 DEF IsTree
  <2> QED BY <1>8, <1>9, <2>1, <2>2, TreeStays
<1>17. Covers(t, N)
  <2>1. Screen!Racks(t) = Screen!Racks(ui) /\ (t.fresh => ui.fresh)
    BY <1>6, <1>8 DEF Screen!Racks
  <2> QED BY <1>1, <1>2, <1>8, <1>9, <1>11, <2>1 DEF Covers
<1>18. DevicesTrue(t, N, S)
  <2>1. CASE ~t.fresh
    BY <2>1 DEF DevicesTrue
  <2>2. CASE t.fresh
    <3>1. ui.fresh /\ \A k \in net: k.op # "layout"
      BY <1>6, <1>8, <2>2 DEF Screen!Waiting
    <3>2. CASE Placed(net)
      <4>1. Placed(N)
        BY <1>2, <1>9, <3>2 DEF Placed, Placements
      <4> QED BY <4>1 DEF DevicesTrue
    <3>3. CASE ~Placed(net)
      <4>1. PICK r: r = m.row
        OBVIOUS
      <4>2. Updated(net) \subseteq {r}
        BY <1>9, <1>12, <4>1 DEF Updated, Saver
      <4>3. /\ \A e \in ui.devs: Agrees(e.rows, Listed(S, e.rack), Updated(net))
            /\ m.rows = {SeenIn(S, r)}
        BY <1>1, <1>2, <1>3, <3>1, <3>3, <4>1 DEF DevicesTrue
      <4>4. x = SeenIn(S, r)
        BY <1>4, <4>3
      <4>5. ASSUME NEW e \in t.devs PROVE Agrees(e.rows, Listed(S, e.rack), Updated(N))
        <5>1. PICK d \in ui.devs: e.rack = d.rack /\ e.rows = Screen!InPlace(d.rows, x)
          BY <1>8, <1>10, <4>5
        <5>2. SeenAll(d.rows, S)
          BY <1>3 DEF ScreenInv, ScreenUi, ScreenRows
        <5>3. Agrees(d.rows, Listed(S, d.rack), {r})
          BY <4>2, <4>3, AgreesLess
        <5> QED BY <4>4, <5>1, <5>2, <5>3, PlacedAgree
      <4>6. \A k \in N: k.op # "layout" /\ k.ctx # "saved"
        BY <1>9, <1>12, <3>1 DEF Saver
      <4> QED BY <4>5, <4>6 DEF DevicesTrue
    <3> QED BY <3>2, <3>3
  <2> QED BY <2>1, <2>2
<1> QED BY <1>3, <1>13, <1>14, <1>15, <1>16, <1>17, <1>18 DEF ScreenShown


\* An update or a deletion of a rack lands: a tree is asked for, or it was not accepted.
LEMMA AfterShows ==
  ASSUME ScreenInv(ui, net, srv), ScreenShown(ui, net, srv), NEW m \in net,
         m.ctx \in {"saveRack", "removeRack"}, m.res # "pending",
         NEW s, DOMAIN s = ScreenFields, Calmly(s), s.saving = ui.saving,
         NEW t, DOMAIN t = ScreenFields, Calmly(t), t.saving = ui.saving \/ Saver(m),
         NEW ctx, ctx = (IF m.ctx = "saveRack" THEN "treeSaved" ELSE "tree"), Screen!After(m, s, Screen!FetchTree(ctx), t)
  PROVE  ScreenShown(ui', net', srv')
<1>1. Purpose(m, srv) /\ srv' = srv
  BY DEF ScreenShown, Purposes, Screen!After
<1>2. m.op \notin {"layout", "list"}
  BY <1>1 DEF Purpose, TreeCtx, Placements
<1>3. CASE m.res = "ok"
  <2>1. PICK R: R = {m}
    OBVIOUS
  <2>2. ui' = Begin(s, net \ R) /\ net' = Add(net \ R, Screen!FetchTree(ctx))
    BY <1>3, <2>1, ScreenSame DEF Screen!After
  <2>3. \A k \in R: k.op # "layout" /\ k.ctx \notin Placements \cup {"saved", "saveDevice"} /\ k.ctx # "drag"
    BY <1>2, <2>1 DEF Placements
  <2>4. ctx = "treeSaved" => s.saving /\ \A k \in net \ R: ~Saver(k)
    <3>1. ctx = "treeSaved" => Saver(m)
      BY DEF Saver
    <3> QED BY <1>2, <2>1, <3>1, SaversStay DEF ScreenShown
  <2>5. ctx \in TreeCtx /\ Same(s, ui) /\ s.dragging = ui.dragging /\ s.fresh = ui.fresh
    BY DEF TreeCtx, Calmly
  <2> QED BY <1>1, <2>2, <2>3, <2>4, <2>5, ScreenBegun
<1>4. CASE m.res # "ok"
  <2>1. PICK u, b: u = ui' /\ b = (t.ok /\ ~m.did)
    OBVIOUS
  <2>2. ui' = [t EXCEPT !.ok = @ /\ ~m.did] /\ net' = net \ {m}
    BY <1>4 DEF Screen!After
  <2>3. u = [t EXCEPT !.ok = b]
    BY <2>1, <2>2
  <2>4. /\ u.rows = t.rows /\ u.room = t.room /\ u.devs = t.devs /\ u.dragging = t.dragging /\ u.fresh = t.fresh
        /\ u.saving = t.saving /\ u.ok = b
    BY <2>3 DEF ScreenFields
  <2>5. Same(u, ui) /\ u.dragging = ui.dragging /\ u.fresh = ui.fresh /\ (u.ok => ui.ok /\ ~m.did) /\ u.saving = t.saving
    BY <2>1, <2>4 DEF Calmly, Same
  <2>6. GoneTree(m, u) /\ GoneDevices(m, u, net')
    BY <1>2, <2>5 DEF GoneTree, GoneDevices, IsTree, Placements
  <2> QED BY <1>1, <2>1, <2>2, <2>5, <2>6, ScreenLands
<1> QED BY <1>3, <1>4

\* A rack that was saved lands.
LEMMA SaveRackShows ==
  ASSUME ScreenInv(ui, net, srv), ScreenShown(ui, net, srv), NEW m \in net, Screen!LandSaveRack(m)
  PROVE  ScreenShown(ui', net', srv')
<1>1. DOMAIN ui = ScreenFields
  BY DEF ScreenInv, ScreenUi, ScreenFields
<1>2. m.ctx = "saveRack" /\ m.res # "pending" /\ Saver(m)
  BY DEF Screen!LandSaveRack, Screen!Landed, Saver
<1>3. PICK d: d = IF ui.dlg.mode = "rack" THEN Screen!Closed ELSE ui.dlg
  OBVIOUS
<1>4. PICK s: s = [ui EXCEPT !.dlg = d]
  OBVIOUS
<1>5. PICK t: t = [ui EXCEPT !.saving = FALSE]
  OBVIOUS
<1>6. Screen!After(m, s, Screen!FetchTree("treeSaved"), t)
  BY <1>3, <1>4, <1>5 DEF Screen!LandSaveRack
<1>7. DOMAIN s = ScreenFields /\ Calmly(s) /\ s.saving = ui.saving
  BY <1>1, <1>4 DEF Calmly, Same, ScreenFields
<1>8. DOMAIN t = ScreenFields /\ Calmly(t)
  BY <1>1, <1>5 DEF Calmly, Same, ScreenFields
<1> QED BY <1>2, <1>6, <1>7, <1>8, AfterShows

\* The deletion of a rack lands.
LEMMA RemoveRackShows ==
  ASSUME ScreenInv(ui, net, srv), ScreenShown(ui, net, srv), NEW m \in net, Screen!LandRemoveRack(m)
  PROVE  ScreenShown(ui', net', srv')
<1>1. DOMAIN ui = ScreenFields
  BY DEF ScreenInv, ScreenUi, ScreenFields
<1>2. m.ctx = "removeRack" /\ m.res # "pending"
  BY DEF Screen!LandRemoveRack, Screen!Landed
<1>3. PICK b: b = Screen!Blank
  OBVIOUS
<1>4. PICK s: s = [ui EXCEPT !.sel = b]
  OBVIOUS
<1>5. Screen!After(m, s, Screen!FetchTree("tree"), ui)
  BY <1>3, <1>4 DEF Screen!LandRemoveRack
<1>6. DOMAIN s = ScreenFields /\ Calmly(s) /\ s.saving = ui.saving
  BY <1>1, <1>4 DEF Calmly, Same, ScreenFields
<1>7. Calmly(ui)
  BY DEF Calmly, Same
<1> QED BY <1>1, <1>2, <1>5, <1>6, <1>7, AfterShows

\* An update of an exchange that is no longer awaited lands.
LEMMA ForgottenShows ==
  ASSUME ScreenInv(ui, net, srv), ScreenShown(ui, net, srv), NEW m \in net, Screen!LandForgotten(m)
  PROVE  ScreenShown(ui', net', srv')
<1>1. DOMAIN ui = ScreenFields /\ Purpose(m, srv)
  BY DEF ScreenInv, ScreenUi, ScreenFields, ScreenShown, Purposes
<1>2. m.ctx = "forgotten" /\ net' = net \ {m} /\ srv' = srv
  BY DEF Screen!LandForgotten, Screen!Landed
<1>3. PICK t, b: t = ui' /\ b = (ui.ok /\ ~m.did)
  OBVIOUS
<1>4. t = [ui EXCEPT !.ok = b]
  BY <1>3 DEF Screen!LandForgotten
<1>5. /\ Same(t, ui) /\ t.dragging = ui.dragging /\ t.ok = b /\ t.fresh = ui.fresh /\ t.saving = ui.saving
  BY <1>1, <1>4 DEF Same, ScreenFields
<1>6. GoneTree(m, t) /\ GoneDevices(m, t, net')
  BY <1>1, <1>2, <1>3, <1>5 DEF GoneTree, GoneDevices, Purpose, IsTree, RackWrites, Placements, TreeCtx
<1> QED BY <1>2, <1>3, <1>5, <1>6, ScreenLands

\* One update of an exchange failed.
LEMMA DragFails ==
  ASSUME Calls(net, srv), ScreenInv(ui, net, srv), ScreenShown(ui, net, srv), NEW m \in net, Screen!LandDrag(m), m.res # "ok"
  PROVE  ScreenShown(ui', net', srv')
<1>1. /\ DOMAIN ui = ScreenFields /\ Purposes(net, srv) /\ PlacesShown(ui, srv) /\ Covers(ui, net)
      /\ Savers(ui, net) /\ DevicesTrue(ui, net, srv)
  BY DEF ScreenInv, ScreenUi, ScreenFields, ScreenShown
<1>2. m.ctx = "drag" /\ srv' = srv
  BY DEF Screen!LandDrag, Screen!Landed
<1>3. PICK t, N, S: t = ui' /\ N = net' /\ S = srv' /\ S = srv
  BY <1>2
<1>4. t = [ui EXCEPT !.dragging = 0, !.ok = FALSE]
  BY <1>3 DEF Screen!LandDrag
<1>5. N = {Forget(x): x \in net \ {m}}
  BY <1>3 DEF Screen!LandDrag, Forget
<1>6. Same(t, ui) /\ t.dragging = 0 /\ ~t.ok /\ t.fresh = ui.fresh /\ t.saving = ui.saving
  BY <1>1, <1>4 DEF Same, ScreenFields
<1>7. ASSUME NEW x \in net, x.ctx = "drag"
      PROVE  Forget(x).ctx = "forgotten" /\ Forget(x).op = "put" /\ Purpose(Forget(x), S) /\ x.op = "put"
  <2>1. DOMAIN x = CallFields /\ Purpose(x, S)
    BY <1>1, <1>3 DEF Calls, CallOK, Purposes
  <2>2. Forget(x) = [x EXCEPT !.ctx = "forgotten"]
    BY <1>7 DEF Forget
  <2>3. Forget(x).ctx = "forgotten" /\ Forget(x).op = x.op /\ Forget(x).row = x.row
    BY <2>1, <2>2 DEF CallFields
  <2>4. x.op = "put" /\ RackIn(x.row, S)
    BY <1>7, <2>1 DEF Purpose, TreeCtx, Placements
  <2> QED BY <2>3, <2>4 DEF Purpose, IsTree
<1>8. \A x \in net: x.ctx # "drag" => Forget(x) = x
  BY DEF Forget
<1>9. PICK R: R = {x \in net: x.ctx = "drag"}
  OBVIOUS
<1>10. PICK D: D = {Forget(x): x \in R \ {m}}
  OBVIOUS
<1>11. N = (net \ R) \cup D
  BY <1>2, <1>5, <1>8, <1>9, <1>10
<1>12. \A d \in D: d.op = "put" /\ d.ctx = "forgotten" /\ Purpose(d, S)
  BY <1>7, <1>9, <1>10
<1>13. Purposes(N, S) /\ PlacesShown(t, S)
  BY <1>1, <1>3, <1>6, <1>11, <1>12 DEF Purposes, PlacesShown, Same
<1>14. Savers(t, N)
  BY <1>1, <1>6, <1>11, <1>12 DEF Savers, Saver
<1>15. Dragged(t, N) /\ TreeShown(t, N, S)
  BY <1>6 DEF Dragged, TreeShown
<1>16. Covers(t, N) /\ DevicesTrue(t, N, S)
  <2>1. \A k \in R: k.ctx = "drag" /\ k.op = "put"
    BY <1>7, <1>9
  <2>2. \A k \in R: GoneDevices(k, t, N)
    BY <2>1 DEF GoneDevices, Placements
  <2>3. \A d \in D: d.op # "layout" /\ (d.ctx = "saved" => d.res = "pending")
    BY <1>12
  <2>4. Covers(ui, net) /\ DevicesTrue(ui, net, S)
    BY <1>1, <1>3
  <2> QED BY <1>6, <1>11, <2>2, <2>3, <2>4, DevicesKept
<1> QED BY <1>3, <1>13, <1>14, <1>15, <1>16 DEF ScreenShown

\* One update of an exchange lands.
LEMMA DragShows ==
  ASSUME ScreenInv(ui, net, srv), ScreenShown(ui, net, srv), NEW m \in net, Screen!LandDrag(m), m.res = "ok"
  PROVE  ScreenShown(ui', net', srv')
<1>1. /\ DOMAIN ui = ScreenFields /\ Purposes(net, srv) /\ PlacesShown(ui, srv) /\ Covers(ui, net)
      /\ Savers(ui, net) /\ DevicesTrue(ui, net, srv) /\ TreeShown(ui, net, srv) /\ Dragged(ui, net) /\ Purpose(m, srv)
  BY DEF ScreenInv, ScreenUi, ScreenFields, ScreenShown, Purposes
<1>2. m.ctx = "drag" /\ srv' = srv /\ m.op = "put"
  <2>1. m.ctx = "drag" /\ srv' = srv
    BY DEF Screen!LandDrag, Screen!Landed
  <2> QED BY <1>1, <2>1 DEF Purpose, TreeCtx, Placements
<1>3. PICK t, N, S: t = ui' /\ N = net' /\ S = srv' /\ S = srv
  BY <1>2
<1>4. CASE ui.dragging = 2
  <2>1. t = [ui EXCEPT !.dragging = 1] /\ N = net \ {m}
    BY <1>3, <1>4 DEF Screen!LandDrag
  <2>2. Same(t, ui) /\ t.dragging = 1 /\ t.ok = ui.ok /\ t.fresh = ui.fresh /\ t.saving = ui.saving
    BY <1>1, <2>1 DEF Same, ScreenFields
  <2>3. N = net \ {m}
    BY <2>1
  <2>4. Purposes(N, S) /\ PlacesShown(t, S) /\ Savers(t, N) /\ Dragged(t, N)
    BY <1>1, <1>3, <2>2, <2>3 DEF Purposes, PlacesShown, Same, Savers, Dragged
  <2>5. TreeOwed(t, N)
    BY <1>1, <1>4, <2>2, <2>3 DEF Dragged, TreeOwed
  <2>6. TreeShown(t, N, S)
    BY <1>1, <2>2, <2>3, <2>5 DEF TreeShown
  <2>7. Covers(t, N) /\ DevicesTrue(t, N, S)
    <3>1. PICK R, D: R = {m} /\ D = {}
      OBVIOUS
    <3>2. N = (net \ R) \cup D /\ \A d \in D: d.op # "layout" /\ (d.ctx = "saved" => d.res = "pending")
      BY <2>3, <3>1
    <3>3. \A k \in R: GoneDevices(k, t, N)
      BY <1>2, <3>1 DEF GoneDevices, Placements
    <3>4. Covers(ui, net) /\ DevicesTrue(ui, net, S)
      BY <1>1, <1>3
    <3> QED BY <2>2, <3>2, <3>3, <3>4, DevicesKept
  <2> QED BY <1>3, <2>4, <2>6, <2>7 DEF ScreenShown
<1>5. CASE ui.dragging # 2
  <2>1. PICK R: R = {m}
    OBVIOUS
  <2>2. ui' = Begin(ui, net \ R) /\ net' = Add(net \ R, Screen!FetchTree("treeDragged"))
    BY <1>5, <2>1, ScreenSame DEF Screen!LandDrag
  <2>3. \A k \in R: k.op # "layout" /\ k.ctx \notin Placements \cup {"saved", "saveDevice"}
    BY <1>2, <2>1 DEF Placements
  <2>4. "treeDragged" \in TreeCtx /\ Same(ui, ui)
    BY DEF TreeCtx, Same
  <2> QED BY <1>1, <1>2, <1>5, <2>2, <2>3, <2>4, ScreenBegun
<1> QED BY <1>4, <1>5


\* Every step of the screen keeps what it shows true.
LEMMA ScreenShow ==
  ASSUME srv \in Rows, Homed(srv), Calls(net, srv), ScreenInv(ui, net, srv), ScreenShown(ui, net, srv), Screen!PageNext
  PROVE  ScreenShown(ui', net', srv')
<1>1. CASE \E b \in {m.page: m \in net}: Screen!LandLayouts(b)
  BY <1>1, LayoutsShow
<1>2. CASE \E m \in net: \/ Screen!LandTree(m) \/ Screen!LandAssignable(m) \/ Screen!LandPlace(m) \/ Screen!LandDetail(m)
                         \/ Screen!LandSaveDevice(m) \/ Screen!LandSaved(m)
  BY <1>2, TreeFails, TreeArrives, AssignableShows, PlaceFails, PlaceShows, DetailShows,
     SaveDeviceShows, SavedFails, SavedShows
<1>3. CASE \E m \in net: \/ Screen!LandSaveRack(m) \/ Screen!LandRemoveRack(m) \/ Screen!LandDrag(m) \/ Screen!LandForgotten(m)
  BY <1>3, SaveRackShows, RemoveRackShows, DragFails, DragShows, ForgottenShows
<1>4. CASE ~(\E b \in {m.page: m \in net}: Screen!LandLayouts(b)) /\
           ~(\E m \in net: \/ Screen!LandTree(m) \/ Screen!LandAssignable(m) \/ Screen!LandPlace(m) \/ Screen!LandDetail(m)
                           \/ Screen!LandSaveDevice(m) \/ Screen!LandSaved(m) \/ Screen!LandSaveRack(m)
                           \/ Screen!LandRemoveRack(m) \/ Screen!LandDrag(m) \/ Screen!LandForgotten(m))
  BY <1>4, ScreenWrites, RoomShows, ExportShows, SwapShows DEF Screen!PageNext
<1> QED BY <1>1, <1>2, <1>3, <1>4

-----------------------------------------------------------------------------
(* What the screen shows: the back end                                        *)

\* What is erased takes with it all that belongs to it.
LEMMA ErasedHome ==
  ASSUME Homed(srv), NEW r, ~InUse(r), NEW x \in Row, srv[x].live, x \notin Erased(r), srv[x].up \in Row
  PROVE  srv[x].up \notin Erased(r) /\ srv[srv[x].up].live
<1>1. PICK y \in Row: y = srv[x].up /\ srv[y].live
  BY DEF Homed
<1>2. x \in Live /\ y \in Live /\ y # r
  BY <1>1 DEF Live, Erased
<1>3. srv[y].up # r
  <2>1. SUFFICES ASSUME srv[y].up = r PROVE FALSE
    OBVIOUS
  <2>2. CASE srv[r].up \in Group
    <3>1. Up(srv[x].up) = r
      BY <1>1, <2>1 DEF Up
    <3> QED BY <1>2, <2>2, <3>1 DEF InUse
  <2>3. CASE srv[r].up \notin Group
    BY <1>2, <2>1, <2>3 DEF InUse
  <2> QED BY <2>2, <2>3
<1> QED BY <1>1, <1>2, <1>3 DEF Erased

\* A write, row by row.
IsWritten(T, rows, alive, up) ==
  /\ \A x \in Row: x \in rows => (T[x].live <=> alive) /\ T[x].up = (IF up = All THEN srv[x].up ELSE up)
  /\ \A x \in Row: x \notin rows => T[x] = srv[x]

\* Written is such a table.
LEMMA WrittenRows ==
  ASSUME NEW rows, NEW alive, NEW up, NEW T, T = Written(rows, alive, up)
  PROVE  IsWritten(T, rows, alive, up)
<1>1. ASSUME NEW x \in Row, x \in rows
      PROVE  (T[x].live <=> alive) /\ T[x].up = IF up = All THEN srv[x].up ELSE up
  <2>1. PICK u: u = IF up = All THEN srv[x].up ELSE up
    OBVIOUS
  <2>2. T[x] = [live |-> alive, ver |-> srv[x].ver + 1, up |-> u]
    BY <1>1, <2>1 DEF Written
  <2> QED BY <2>1, <2>2
<1>2. ASSUME NEW x \in Row, x \notin rows PROVE T[x] = srv[x]
  BY <1>2 DEF Written
<1> QED BY <1>1, <1>2 DEF IsWritten

\* Every live row stays at home.
LEMMA HomesKept ==
  ASSUME Homed(srv), NEW rows, NEW alive, NEW up, NEW T, T = Written(rows, alive, up),
         up = All \/ up \notin Row \/ up \in Live,
         IF alive THEN \A x \in rows: srv[x].live ELSE up = All /\ \E r: rows = Erased(r) /\ ~InUse(r)
  PROVE  Homed(T)
<1>1. SUFFICES ASSUME NEW x \in Row, T[x].live, T[x].up \in Row PROVE T[T[x].up].live
  BY DEF Homed
<1>0. IsWritten(T, rows, alive, up)
  BY WrittenRows
<1>2. /\ x \in rows => /\ (T[x].live <=> alive) /\ T[x].up = IF up = All THEN srv[x].up ELSE up
      /\ x \notin rows => T[x] = srv[x]
  <2>1. x \in rows => (T[x].live <=> alive)
    BY <1>0, Zenon DEF IsWritten
  <2>2. x \in rows => T[x].up = IF up = All THEN srv[x].up ELSE up
    BY <1>0, Zenon DEF IsWritten
  <2>3. x \notin rows => T[x] = srv[x]
    BY <1>0, Zenon DEF IsWritten
  <2> QED BY <2>1, <2>2, <2>3
<1>3. \A y \in Row: y \notin rows => (T[y].live <=> srv[y].live)
  BY <1>0, Zenon DEF IsWritten
<1>4. \A y \in Row: y \in rows => (T[y].live <=> alive)
  BY <1>0, Zenon DEF IsWritten
<1>5. CASE alive
  <2>1. srv[x].live
    BY <1>1, <1>2, <1>5
  <2>2. CASE T[x].up = srv[x].up
    BY <1>1, <1>3, <1>4, <1>5, <2>1, <2>2 DEF Homed
  <2>3. CASE T[x].up # srv[x].up
    BY <1>1, <1>2, <1>3, <1>4, <1>5, <2>3 DEF Live
  <2> QED BY <2>2, <2>3
<1>6. CASE ~alive
  <2>1. PICK r: rows = Erased(r) /\ ~InUse(r)
    BY <1>6
  <2>2. x \notin rows /\ srv[x].live /\ T[x].up = srv[x].up
    BY <1>1, <1>2, <1>6
  <2>3. srv[x].up \notin rows /\ srv[srv[x].up].live
    BY <1>1, <2>1, <2>2, ErasedHome
  <2> QED BY <1>1, <1>3, <2>2, <2>3
<1> QED BY <1>5, <1>6

\* Another user's write leaves what is live in what is live.
LEMMA ForeignHomes ==
  ASSUME srv \in Rows, Homed(srv), NEW r \in Row, Foreign(r)
  PROVE  Homed(srv')
<1>1. PICK alive, rows: /\ alive \in BOOLEAN
                        /\ rows = (IF alive THEN {r} ELSE Erased(r))
                        /\ alive \/ ~InUse(r)
                        /\ srv' = Written(rows, alive, All)
                        /\ srv[r].live
  BY DEF Foreign
<1>2. PICK T: T = srv' /\ T = Written(rows, alive, All)
  BY <1>1
<1>3. Homed(T)
  BY <1>1, <1>2, HomesKept
<1> QED BY <1>2, <1>3

\* So does a write that is executed.
LEMMA ToldHomes ==
  ASSUME srv \in Rows, Homed(srv), Calls(net, srv), NEW m, NEW d, Told(m, d)
  PROVE  Homed(srv')
<1>1. CallOK(m, srv) /\ m.res = "pending"
  BY DEF Told, Calls
<1>2. PICK T: T = srv'
  OBVIOUS
<1>3. CASE T = srv
  BY <1>2, <1>3
<1>4. CASE /\ m.op \in {"put", "overwrite", "move", "mount", "shift", "unmount"} /\ m.row \in Live
           /\ (m.op \in {"move", "mount", "shift"} => m.up \in Live) /\ T = Written({m.row}, TRUE, m.up)
  <2>1. m.up = All \/ m.up \notin Row \/ m.up \in Live
    BY <1>1, <1>4, WireAssumption DEF CallOK
  <2>2. PICK R: R = {m.row}
    OBVIOUS
  <2>3. \A x \in R: srv[x].live
    BY <1>4, <2>2 DEF Live
  <2>4. T = Written(R, TRUE, m.up)
    BY <1>4, <2>2
  <2> QED BY <1>2, <2>1, <2>3, <2>4, HomesKept
<1>5. CASE m.op = "delete" /\ ~InUse(m.row) /\ T = Written(Erased(m.row), FALSE, m.up)
  <2>1. m.up = All
    BY <1>1, <1>5 DEF CallOK
  <2> QED BY <1>2, <1>5, <2>1, HomesKept
<1>6. CASE /\ m.op \in {"post", "copy"} /\ {Target(m)} \cap Row \subseteq Live
           /\ \E r \in Row: srv[r] = Slot(Target(m)) /\ T = [srv EXCEPT ![r] = [live |-> TRUE, ver |-> 1, up |-> @.up]]
  <2>1. PICK r \in Row: srv[r] = Slot(Target(m)) /\ T = [srv EXCEPT ![r] = [live |-> TRUE, ver |-> 1, up |-> @.up]]
    BY <1>6
  <2>2. srv[r].up = Target(m) /\ (Target(m) \in Row => srv[Target(m)].live)
    BY <1>6, <2>1 DEF Slot, Live
  <2>3. T[r].live /\ T[r].up = srv[r].up /\ \A x \in Row: x # r => T[x] = srv[x]
    BY <2>1 DEF Rows
  <2>4. Homed(T)
    BY <2>2, <2>3 DEF Homed
  <2> QED BY <1>2, <2>4
<1>7. T = srv \/ Executed(m)
  BY <1>2 DEF Told
<1> QED BY <1>2, <1>3, <1>4, <1>5, <1>6, <1>7 DEF Executed

\* On the screen an executed call writes a rack, a new row below a room, or a device.
OneWritten(T, r) == r \in Row /\ (\A x \in Row: x # r => T[x] = srv[x])
RackWritten(T, r) ==
  /\ OneWritten(T, r) /\ T[r].up = srv[r].up /\ (srv[r].up \notin Row \/ IsRoom(srv[r].up, srv))
  /\ IsRack(r, srv) \/ ~srv[r].live
DeviceWritten(T, m) == OneWritten(T, m.row) /\ IsDevice(m.row, srv) /\ T[m.row].live /\ srv[m.row].live
                       /\ (IF m.ctx = "saveDevice" THEN T[m.row].up = srv[m.row].up
                           ELSE T[m.row].up = srv[m.row].up \/ T[m.row].up \in Group \/ IsRack(T[m.row].up, srv))

\* What a handler of the screen writes: a room or a rack, or a device.
LEMMA ScreenWritten ==
  ASSUME srv \in Rows, NEW m, CallOK(m, srv), ScreenCallOK(m, srv), Purpose(m, srv), m.res = "pending", m.op \notin Reads,
         Executed(m)
  PROVE  \/ m.ctx \in RackWrites /\ \E r: RackWritten(srv', r)
         \/ m.ctx \in Placements \cup {"saveDevice"} /\ DeviceWritten(srv', m)
<1>0. All \notin Row /\ Group \cap Row = {} /\ NoRow \notin Row
  BY WireAssumption DEF NoRow
<1>1. PICK T: T = srv'
  OBVIOUS
<1>2. ASSUME NEW rows, NEW alive, m.row \in Row, rows = {m.row}, T = Written(rows, alive, m.up)
      PROVE  /\ OneWritten(T, m.row) /\ (T[m.row].live <=> alive)
             /\ T[m.row].up = IF m.up = All THEN srv[m.row].up ELSE m.up
  <2>1. IsWritten(T, rows, alive, m.up)
    BY <1>2, WrittenRows
  <2> QED BY <1>2, <2>1 DEF IsWritten, OneWritten
<1>3. ASSUME m.op \in {"put", "mount", "shift", "unmount"}
      PROVE  m.row \in Row /\ srv[m.row].live /\ T = Written({m.row}, TRUE, m.up)
  BY <1>1, <1>3 DEF Executed, Live
<1>4. CASE m.op = "put" /\ m.ctx \in {"saveRack", "drag", "forgotten"} /\ RackIn(m.row, srv)
  <2>1. m.up = All /\ m.row \in Row /\ IsRack(m.row, srv)
    BY <1>3, <1>4 DEF CallOK, RackIn
  <2>2. OneWritten(T, m.row) /\ T[m.row].up = srv[m.row].up
    BY <1>2, <1>3, <1>4, <2>1
  <2>3. RackWritten(T, m.row)
    BY <2>1, <2>2 DEF RackWritten, IsRack, IsRoom
  <2> QED BY <1>1, <1>4, <2>3 DEF RackWrites
<1>5. CASE m.op = "delete" /\ m.ctx = "removeRack" /\ RackIn(m.row, srv)
  <2>1. m.up = All /\ m.row \in Live /\ ~InUse(m.row) /\ T = Written(Erased(m.row), FALSE, m.up)
    BY <1>1, <1>5 DEF Executed, CallOK
  <2>2. m.row \in Row /\ IsRack(m.row, srv)
    BY <1>5, <2>1 DEF RackIn, Live
  <2>3. Erased(m.row) = {m.row}
    <3>1. srv[m.row].up \notin Group
      BY <1>0, <2>2 DEF IsRack
    <3>2. \A x \in Live: srv[x].up # m.row
      BY <2>1, <3>1 DEF InUse
    <3> QED BY <2>1, <3>2 DEF Erased
  <2>4. OneWritten(T, m.row) /\ T[m.row].up = srv[m.row].up
    BY <1>2, <2>1, <2>2, <2>3
  <2>5. RackWritten(T, m.row)
    BY <2>2, <2>4 DEF RackWritten, IsRack, IsRoom
  <2> QED BY <1>1, <1>5, <2>5 DEF RackWrites
<1>6. CASE m.op = "post" /\ m.ctx = "saveRack" /\ (m.up = NoRow \/ IsRoom(m.up, srv))
  <2>1. PICK r \in Row: srv[r] = Slot(m.up) /\ T = [srv EXCEPT ![r] = [live |-> TRUE, ver |-> 1, up |-> @.up]]
    BY <1>1, <1>6 DEF Executed, Target
  <2>2. ~srv[r].live /\ srv[r].up = m.up
    BY <2>1 DEF Slot
  <2>3. OneWritten(T, r) /\ T[r].up = srv[r].up
    BY <2>1 DEF OneWritten, Rows
  <2>4. RackWritten(T, r)
    BY <1>0, <1>6, <2>2, <2>3 DEF RackWritten
  <2> QED BY <1>1, <1>6, <2>4 DEF RackWrites
<1>7. CASE m.op = "put" /\ m.ctx = "saveDevice"
  <2>1. m.up = All /\ IsDevice(m.row, srv)
    BY <1>7 DEF CallOK, ScreenCallOK
  <2>2. OneWritten(T, m.row) /\ T[m.row].up = srv[m.row].up /\ T[m.row].live /\ srv[m.row].live
    BY <1>2, <1>3, <1>7, <2>1
  <2> QED BY <1>1, <1>7, <2>1, <2>2 DEF DeviceWritten
<1>8. CASE m.op \in {"mount", "shift", "unmount"} /\ m.ctx \in Placements
  <2>1. IsDevice(m.row, srv) /\ (m.up \in Group \/ IsRack(m.up, srv))
    BY <1>8 DEF ScreenCallOK
  <2>2. OneWritten(T, m.row) /\ T[m.row].live /\ srv[m.row].live /\ (T[m.row].up = srv[m.row].up \/ T[m.row].up = m.up)
    BY <1>2, <1>3, <1>8
  <2>3. m.ctx # "saveDevice"
    BY <1>8 DEF Placements
  <2> QED BY <1>1, <1>8, <2>1, <2>2, <2>3 DEF DeviceWritten
<1> QED BY <1>4, <1>5, <1>6, <1>7, <1>8 DEF Purpose, Reads, TreeCtx, Placements

\* The kinds of the rows do not change.
KindsAre(S, T) == \A r: /\ (IsRoom(r, T) <=> IsRoom(r, S)) /\ (IsRack(r, T) <=> IsRack(r, S))
                        /\ (IsDevice(r, T) <=> IsDevice(r, S))

\* No write changes what a row is.
LEMMA WrittenKinds ==
  ASSUME srv \in Rows, NEW T \in Rows, NEW m, (\E r: RackWritten(T, r)) \/ DeviceWritten(T, m)
  PROVE  KindsAre(srv, T)
<1>1. SameKinds(srv, T)
  BY DEF SameKinds, RackWritten, DeviceWritten, OneWritten
<1>2. \A r: IsRoom(r, T) <=> IsRoom(r, srv)
  BY <1>1, KindsStay
<1>3. \A r: IsRack(r, T) <=> IsRack(r, srv)
  BY <1>1, KindsStay
<1>4. \A r: IsDevice(r, T) <=> IsDevice(r, srv)
  BY <1>1, KindsStay
<1> QED BY <1>2, <1>3, <1>4 DEF KindsAre

\* Rooms and racks that are not written are drawn as before.
LEMMA DrawnSame ==
  ASSUME NEW S, NEW T, KindsAre(S, T), \A r \in Row: IsDevice(r, S) \/ T[r] = S[r]
  PROVE  Drawn(T) = Drawn(S) /\ \A a: Places(a, T) = Places(a, S)
<1>1. ASSUME NEW V
      PROVE  \A x: x \in Drawn(V) <=> \E r \in Row: x = SeenIn(V, r) /\ V[r].live /\ ~IsDevice(r, V)
  <2>1. \A r: SeenIn(V, r).row = r
    BY DEF SeenIn
  <2>2. Drawn(V) = {x \in {SeenIn(V, r): r \in {y \in Row: V[y].live}}: ~IsDevice(x.row, V)}
    BY ListedAll DEF Drawn
  <2> QED BY <2>1, <2>2
<1>2. \A r \in Row: ~IsDevice(r, S) => SeenIn(T, r) = SeenIn(S, r) /\ T[r].live = S[r].live
  BY DEF SeenIn
<1>3. \A x: x \in Drawn(T) <=> x \in Drawn(S)
  BY <1>1, <1>2 DEF KindsAre
<1>4. \A a: Places(a, T) = Places(a, S)
  BY DEF Places, KindsAre
<1> QED BY <1>3, <1>4

\* What is written of a rack, or below a room, is in no rack.
LEMMA RackApart ==
  ASSUME srv \in Rows, NEW T, NEW r, RackWritten(T, r), NEW g, IsRack(g, srv)
  PROVE  Listed(T, g) = Listed(srv, g)
<1>0. All \notin Row
  BY WireAssumption
<1>1. g \in Row /\ g # All /\ ~IsRoom(g, srv)
  BY <1>0 DEF IsRack, IsRoom
<1>2. \A x \in Row: T[x].up = srv[x].up /\ (x # r => T[x] = srv[x])
  BY DEF RackWritten, OneWritten
<1>3. \A x: UpIn(T, x) = UpIn(srv, x)
  BY <1>2 DEF UpIn
<1>4. \A x: Under(T, g, x) <=> Under(srv, g, x)
  BY <1>3 DEF Under
<1>5. ~Under(srv, g, r)
  <2>1. PICK q: q = srv[r].up /\ q = UpIn(srv, r)
    BY DEF UpIn, RackWritten, OneWritten
  <2>2. q # g /\ UpIn(srv, q) = All
    BY <1>1, <2>1 DEF RackWritten, IsRoom, UpIn
  <2>3. UpIn(srv, All) = All
    BY <1>0 DEF UpIn
  <2> QED BY <1>1, <2>1, <2>2, <2>3 DEF Under
<1>6. \A x \in Row: Under(srv, g, x) => SeenIn(T, x) = SeenIn(srv, x) /\ T[x].live = srv[x].live
  BY <1>2, <1>5 DEF SeenIn
<1>7. \A y: y \in Listed(T, g) <=> \E x \in Row: y = SeenIn(T, x) /\ T[x].live /\ Under(T, g, x)
  BY DEF Listed
<1>8. \A y: y \in Listed(srv, g) <=> \E x \in Row: y = SeenIn(srv, x) /\ srv[x].live /\ Under(srv, g, x)
  BY DEF Listed
<1>9. \A y: y \in Listed(T, g) <=> y \in Listed(srv, g)
  BY <1>4, <1>6, <1>7, <1>8
<1> QED BY <1>9

\* The row of a device that is saved has another version, and nothing else has changed.
LEMMA SavedAgrees ==
  ASSUME srv \in Rows, NEW T \in Rows, NEW r, OneWritten(T, r), T[r].up = srv[r].up, T[r].live, srv[r].live,
         NEW X, NEW g, NEW O, Agrees(X, Listed(srv, g), O), NEW P, O \subseteq P, r \in P
  PROVE  Agrees(X, Listed(T, g), P)
<1>1. \A x \in Row: T[x].up = srv[x].up /\ (x # r => T[x] = srv[x]) /\ (T[x].live <=> srv[x].live)
  BY DEF OneWritten
<1>2. \A x: UpIn(T, x) = UpIn(srv, x)
  BY <1>1 DEF UpIn
<1>3. \A x: Under(T, g, x) <=> Under(srv, g, x)
  BY <1>2 DEF Under
<1>4. \A y: y \in Listed(T, g) <=> \E x \in Row: y = SeenIn(T, x) /\ T[x].live /\ Under(T, g, x)
  BY DEF Listed
<1>5. \A y: y \in Listed(srv, g) <=> \E x \in Row: y = SeenIn(srv, x) /\ srv[x].live /\ Under(srv, g, x)
  BY DEF Listed
<1>6. ASSUME NEW x \in Row
      PROVE  /\ SeenIn(T, x).row = x /\ SeenIn(srv, x).row = x /\ SeenIn(T, x).up = SeenIn(srv, x).up
             /\ x # r => SeenIn(T, x).ver = SeenIn(srv, x).ver
  BY <1>1 DEF SeenIn
<1>7. \A z \in Listed(srv, g): \E y \in Listed(T, g): y.row = z.row /\ y.up = z.up /\ (z.row # r => y.ver = z.ver)
  BY <1>1, <1>3, <1>4, <1>5, <1>6
<1>8. \A y \in Listed(T, g): \E z \in Listed(srv, g): z.row = y.row
  BY <1>1, <1>3, <1>4, <1>5, <1>6
<1>9. \A y \in X: \E z \in Listed(T, g): z.row = y.row /\ z.up = y.up /\ (y.row \notin P => z.ver = y.ver)
  <2>1. ASSUME NEW y \in X
        PROVE  \E z \in Listed(T, g): z.row = y.row /\ z.up = y.up /\ (y.row \notin P => z.ver = y.ver)
    <3>1. PICK w \in Listed(srv, g): w.row = y.row /\ w.up = y.up /\ (y.row \notin O => w.ver = y.ver)
      BY DEF Agrees
    <3>2. PICK z \in Listed(T, g): z.row = w.row /\ z.up = w.up /\ (w.row # r => z.ver = w.ver)
      BY <1>7
    <3> QED BY <3>1, <3>2
  <2> QED BY <2>1
<1>10. \A z \in Listed(T, g): \E y \in X: y.row = z.row
  BY <1>8 DEF Agrees
<1>11. \A y \in X: Entry(y)
  BY DEF Agrees
<1> QED BY <1>9, <1>10, <1>11 DEF Agrees

\* Another user's write excuses the screen.
LEMMA ScreenExcused ==
  ASSUME srv \in Rows, ScreenInv(ui, net, srv), ScreenShown(ui, net, srv), NEW r \in Row, Foreign(r)
  PROVE  ScreenShown(ui', net', srv')
<1>1. PICK t, N, S: t = ui' /\ N = net' /\ S = srv' /\ t = Excused(ui) /\ N = net
  BY ForeignTable
<1>2. S \in Rows /\ SameKinds(srv, S)
  BY <1>1, ForeignTable DEF TableOK, SameKinds
<1>3. (\A x: IsRoom(x, S) <=> IsRoom(x, srv)) /\ (\A x: IsRack(x, S) <=> IsRack(x, srv))
  BY <1>2, KindsStay
<1>4. DOMAIN ui = ScreenFields
  BY DEF ScreenInv, ScreenUi, ScreenFields
<1>5. /\ t.rows = ui.rows /\ t.room = ui.room /\ t.devs = ui.devs /\ t.dragging = ui.dragging /\ t.saving = ui.saving
      /\ ~t.ok /\ ~t.fresh
  BY <1>1, <1>4 DEF Excused, ScreenFields
<1>6. Purposes(N, S)
  BY <1>1, <1>3 DEF ScreenShown, Purposes, Purpose, RackIn
<1>7. PlacesShown(t, S)
  BY <1>3, <1>5 DEF ScreenShown, PlacesShown
<1>8. Savers(t, N) /\ Dragged(t, N)
  BY <1>1, <1>5 DEF ScreenShown, Savers, Dragged
<1>9. TreeShown(t, N, S) /\ Covers(t, N) /\ DevicesTrue(t, N, S)
  BY <1>5 DEF TreeShown, Covers, DevicesTrue
<1> QED BY <1>1, <1>6, <1>7, <1>8, <1>9 DEF ScreenShown

\* What the back end tells the screen: the call m is answered by d.
TellsScreen(m, d, N, T) ==
  /\ m \in net /\ N = (net \ {m}) \cup {d} /\ m.res = "pending" /\ ~m.did /\ d.res # "pending"
  /\ d.op = m.op /\ d.ctx = m.ctx /\ d.row = m.row /\ (m.op = "layout" => d.page = m.page)
  /\ Purpose(m, srv) /\ ScreenCallOK(m, srv) /\ KindsAre(srv, T)
  /\ \/ T = srv /\ (d.did => m.op \in Reads)
     \/ d.did /\ m.ctx \in RackWrites /\ m.op \notin Reads /\ \E r: RackWritten(T, r)
     \/ d.did /\ m.ctx \in Placements \cup {"saveDevice"} /\ m.op \notin Reads /\ DeviceWritten(T, m)

\* The back end answers the screen so.
LEMMA ScreenTells ==
  ASSUME srv \in Rows, TableOK, Calls(net, srv), ScreenInv(ui, net, srv), ScreenShown(ui, net, srv), NEW m, NEW d, Told(m, d)
  PROVE  TellsScreen(m, d, net', srv')
<1>1. /\ m \in net /\ net' = (net \ {m}) \cup {d} /\ m.res = "pending" /\ d.res # "pending"
      /\ d.op = m.op /\ d.ctx = m.ctx /\ d.row = m.row /\ (m.op = "layout" => d.page = m.page)
  BY DEF Told
<1>2. CallOK(m, srv) /\ ScreenCallOK(m, srv) /\ Purpose(m, srv) /\ ~m.did
  BY <1>1 DEF Calls, CallOK, ScreenInv, ScreenNet, ScreenShown, Purposes
<1>3. PICK T \in Rows: T = srv'
  BY DEF TableOK
<1>4. CASE T = srv /\ (d.did => m.op \in Reads)
  <2>1. KindsAre(srv, T)
    BY <1>4 DEF KindsAre
  <2> QED BY <1>1, <1>2, <1>3, <1>4, <2>1 DEF TellsScreen
<1>5. CASE d.did /\ Executed(m) /\ m.op \notin Reads
  <2>1. \/ m.ctx \in RackWrites /\ \E r: RackWritten(T, r)
        \/ m.ctx \in Placements \cup {"saveDevice"} /\ DeviceWritten(T, m)
    BY <1>1, <1>2, <1>3, <1>5, ScreenWritten
  <2>2. KindsAre(srv, T)
    BY <2>1, WrittenKinds
  <2> QED BY <1>1, <1>2, <1>3, <1>5, <2>1, <2>2 DEF TellsScreen
<1> QED BY <1>3, <1>4, <1>5 DEF Told

\* The tree, when the back end has answered.
LEMMA TreeTold ==
  ASSUME TreeShown(ui, net, srv), NEW m, NEW d, NEW N, NEW T, TellsScreen(m, d, N, T),
         m.op = "list" /\ d.res = "ok" => d.rows = Slice(Listed(srv, m.up), m.page)
  PROVE  TreeShown(ui, N, T)
<1>1. /\ m \in net /\ N = (net \ {m}) \cup {d} /\ m.res = "pending" /\ ~m.did /\ d.op = m.op /\ d.ctx = m.ctx
      /\ Purpose(m, srv) /\ KindsAre(srv, T)
  BY DEF TellsScreen
<1>2. IsTree(d) <=> IsTree(m)
  BY <1>1 DEF IsTree
<1>3. SUFFICES ASSUME ui.ok
               PROVE  /\ \A a, b \in N: IsTree(a) /\ IsTree(b) => a = b
                      /\ \/ TreeOwed(ui, N)
                         \/ /\ \A a \in N: IsTree(a) /\ a.res = "ok" => Places(a, T) = Drawn(T)
                            /\ (\A a \in N: ~IsTree(a)) => ui.rows = Drawn(T)
  BY DEF TreeShown
<1>4. /\ \A a, b \in net: IsTree(a) /\ IsTree(b) => a = b
      /\ \/ TreeOwed(ui, net)
         \/ /\ \A a \in net: IsTree(a) /\ a.res = "ok" => Places(a, srv) = Drawn(srv)
            /\ (\A a \in net: ~IsTree(a)) => ui.rows = Drawn(srv)
  BY <1>3 DEF TreeShown
<1>5. \A a, b \in N: IsTree(a) /\ IsTree(b) => a = b
  BY <1>1, <1>2, <1>4
<1>6. TreeOwed(ui, net) => TreeOwed(ui, N)
  BY <1>1 DEF TreeOwed
<1>7. CASE d.did /\ m.ctx \in RackWrites
  BY <1>1, <1>5, <1>7 DEF TreeOwed
<1>8. CASE Drawn(T) = Drawn(srv) /\ \A a: Places(a, T) = Places(a, srv)
  <2>1. IsTree(d) /\ d.res = "ok" => Places(d, srv) = Drawn(srv)
    <3>1. SUFFICES ASSUME IsTree(d), d.res = "ok" PROVE Places(d, srv) = Drawn(srv)
      OBVIOUS
    <3>2. m.op = "list" /\ m.up = All /\ m.page = 0
      BY <1>1, <1>2, <3>1 DEF Purpose, IsTree
    <3>3. d.rows = Listed(srv, All)
      BY <3>1, <3>2, WholeSlice
    <3> QED BY <3>3 DEF Places, Drawn
  <2>2. CASE TreeOwed(ui, net)
    BY <1>5, <1>6, <2>2
  <2>3. CASE /\ \A a \in net: IsTree(a) /\ a.res = "ok" => Places(a, srv) = Drawn(srv)
             /\ (\A a \in net: ~IsTree(a)) => ui.rows = Drawn(srv)
    <3>1. \A a \in N: IsTree(a) /\ a.res = "ok" => Places(a, T) = Drawn(T)
      BY <1>1, <1>8, <2>1, <2>3
    <3>2. (\A a \in N: ~IsTree(a)) => ui.rows = Drawn(T)
      BY <1>1, <1>2, <1>8, <2>3
    <3> QED BY <1>5, <3>1, <3>2
  <2> QED BY <1>4, <2>2, <2>3
<1>9. CASE T = srv
  BY <1>8, <1>9
<1>10. CASE DeviceWritten(T, m)
  <2>1. \A r \in Row: IsDevice(r, srv) \/ T[r] = srv[r]
    BY <1>10 DEF DeviceWritten, OneWritten
  <2>2. Drawn(T) = Drawn(srv) /\ \A a: Places(a, T) = Places(a, srv)
    BY <1>1, <2>1, DrawnSame
  <2> QED BY <1>8, <2>2
<1> QED BY <1>7, <1>9, <1>10 DEF TellsScreen

\* What has agreed, with the table as it was and with the table that is there now.
DevicesAre(s, N, S, O) ==
  /\ \A e \in s.devs: Agrees(e.rows, Listed(S, e.rack), O)
  /\ \A m \in N: m.op = "layout" /\ m.res = "ok" => Agrees(m.rows, Listed(S, m.row), O)
  /\ \A m \in N: m.ctx = "saved" /\ m.res = "ok" => m.rows = {SeenIn(S, m.row)} /\ S[m.row].live

\* The devices, when the back end has answered.
LEMMA DevicesTold ==
  ASSUME srv \in Rows, Savers(ui, net), PlacesShown(ui, srv), DevicesTrue(ui, net, srv), \A k \in net: ScreenCallOK(k, srv),
         NEW m, NEW d, NEW N, NEW T \in Rows, TellsScreen(m, d, N, T),
         m.op = "layout" /\ d.res = "ok" => d.rows = Listed(srv, m.row),
         m.op = "get" /\ d.res = "ok" => d.rows = {SeenIn(srv, m.row)} /\ srv[m.row].live
  PROVE  DevicesTrue(ui, N, T)
<1>1. /\ m \in net /\ N = (net \ {m}) \cup {d} /\ m.res = "pending" /\ ~m.did /\ d.op = m.op /\ d.ctx = m.ctx /\ d.row = m.row
      /\ Purpose(m, srv)
  BY DEF TellsScreen
<1>2. SUFFICES ASSUME ui.fresh, ~Placed(N) PROVE DevicesAre(ui, N, T, Updated(N))
  BY DEF DevicesTrue, DevicesAre
<1>3. ~Placed(net) /\ ~(d.did /\ m.ctx \in Placements)
  BY <1>1, <1>2 DEF Placed
<1>4. PICK O, P: O = Updated(net) /\ P = Updated(N) /\ O \subseteq P
  <2>1. Updated(net) \subseteq Updated(N)
    <3>1. ASSUME NEW k \in net, k.ctx = "saved" \/ (k.ctx = "saveDevice" /\ k.did)
          PROVE  \E j \in N: (j.ctx = "saved" \/ (j.ctx = "saveDevice" /\ j.did)) /\ j.row = k.row
      BY <1>1, <3>1
    <3> QED BY <3>1 DEF Updated
  <2> QED BY <2>1
<1>5. DevicesAre(ui, net, srv, O)
  BY <1>2, <1>3, <1>4 DEF DevicesTrue, DevicesAre
<1>6. (d.ctx = "saved" => m.op = "get") /\ (d.op = "layout" => IsRack(d.row, srv))
  BY <1>1 DEF ScreenCallOK
<1>7. ASSUME T = srv PROVE DevicesAre(ui, N, T, P)
  <2>1. \A e \in ui.devs: Agrees(e.rows, Listed(T, e.rack), P)
    BY <1>4, <1>5, <1>7, AgreesLess DEF DevicesAre
  <2>2. \A k \in net: k.op = "layout" /\ k.res = "ok" => Agrees(k.rows, Listed(T, k.row), P)
    BY <1>4, <1>5, <1>7, AgreesLess DEF DevicesAre
  <2>3. d.op = "layout" /\ d.res = "ok" => Agrees(d.rows, Listed(T, d.row), P)
    <3>1. \A y \in Listed(T, d.row): Entry(y)
      BY DEF Listed, SeenIn, Entry
    <3> QED BY <1>1, <1>7, <3>1 DEF Agrees
  <2>4. \A k \in net: k.ctx = "saved" /\ k.res = "ok" => k.rows = {SeenIn(T, k.row)} /\ T[k.row].live
    BY <1>5, <1>7 DEF DevicesAre
  <2>5. d.ctx = "saved" /\ d.res = "ok" => d.rows = {SeenIn(T, d.row)} /\ T[d.row].live
    BY <1>1, <1>6, <1>7
  <2> QED BY <1>1, <2>1, <2>2, <2>3, <2>4, <2>5 DEF DevicesAre
<1>8. ASSUME NEW r, RackWritten(T, r), m.op \notin Reads PROVE DevicesAre(ui, N, T, P)
  <2>1. \A g: IsRack(g, srv) => Listed(T, g) = Listed(srv, g)
    BY <1>8, RackApart
  <2>2. \A e \in ui.devs: Agrees(e.rows, Listed(T, e.rack), P)
    BY <1>4, <1>5, <2>1, AgreesLess DEF DevicesAre, PlacesShown
  <2>3. \A k \in net: k.op = "layout" /\ k.res = "ok" => Agrees(k.rows, Listed(T, k.row), P)
    BY <1>4, <1>5, <2>1, AgreesLess DEF DevicesAre, ScreenCallOK
  <2>4. \A k \in net: k.ctx = "saved" /\ k.res = "ok" => k.rows = {SeenIn(T, k.row)} /\ T[k.row].live
    <3>1. ASSUME NEW k \in net, k.ctx = "saved", k.res = "ok" PROVE k.rows = {SeenIn(T, k.row)} /\ T[k.row].live
      <4>1. k.rows = {SeenIn(srv, k.row)} /\ srv[k.row].live /\ IsDevice(k.row, srv)
        BY <1>5, <3>1 DEF DevicesAre, ScreenCallOK
      <4>2. k.row # r /\ k.row \in Row
        BY <1>8, <4>1 DEF RackWritten, IsDevice
      <4>3. T[k.row] = srv[k.row]
        BY <1>8, <4>2 DEF RackWritten, OneWritten
      <4>4. SeenIn(T, k.row) = SeenIn(srv, k.row)
        BY <4>3 DEF SeenIn
      <4> QED BY <4>1, <4>3, <4>4
    <3> QED BY <3>1
  <2>5. d.op # "layout" /\ d.ctx # "saved"
    BY <1>1, <1>6, <1>8 DEF Reads
  <2> QED BY <1>1, <2>2, <2>3, <2>4, <2>5 DEF DevicesAre
<1>9. ASSUME DeviceWritten(T, m), m.ctx = "saveDevice", m.op \notin Reads, d.did PROVE DevicesAre(ui, N, T, P)
  <2>1. m.row \in P
    BY <1>1, <1>4, <1>9 DEF Updated
  <2>2. PICK r: r = m.row /\ OneWritten(T, r) /\ T[r].up = srv[r].up /\ T[r].live /\ srv[r].live /\ r \in P
    BY <1>9, <2>1 DEF DeviceWritten
  <2>3. \A X, g: Agrees(X, Listed(srv, g), O) => Agrees(X, Listed(T, g), P)
    BY <1>4, <2>2, SavedAgrees
  <2>4. \A k \in net: k.ctx # "saved"
    <3>1. Saver(m) /\ m.op # "layout"
      BY <1>9 DEF Saver, Reads
    <3>2. \A k \in net \ {m}: ~Saver(k)
      BY <1>1, <3>1, SaversStay
    <3> QED BY <1>9, <3>2 DEF Saver
  <2>5. d.op # "layout" /\ d.ctx # "saved"
    BY <1>1, <1>6, <1>9 DEF Reads
  <2> QED BY <1>1, <1>5, <2>3, <2>4, <2>5 DEF DevicesAre
<1> QED BY <1>3, <1>4, <1>7, <1>8, <1>9 DEF TellsScreen

\* The back end answers the screen.
LEMMA ScreenTold ==
  ASSUME srv \in Rows, TableOK, Calls(net, srv), ScreenInv(ui, net, srv), ScreenShown(ui, net, srv), NEW m, NEW d, Told(m, d)
  PROVE  ScreenShown(ui', net', srv')
<1>1. PICK N, T: N = net' /\ T = srv' /\ T \in Rows
  BY DEF TableOK
<1>2. TellsScreen(m, d, N, T)
  BY <1>1, ScreenTells
<1>3. ui' = ui
  BY DEF Told
<1>4. /\ Purposes(net, srv) /\ Savers(ui, net) /\ Dragged(ui, net) /\ PlacesShown(ui, srv)
      /\ TreeShown(ui, net, srv) /\ Covers(ui, net) /\ DevicesTrue(ui, net, srv) /\ \A k \in net: ScreenCallOK(k, srv)
  BY DEF ScreenShown, ScreenInv, ScreenNet
<1>5. /\ m \in net /\ N = (net \ {m}) \cup {d} /\ m.res = "pending" /\ d.res # "pending"
      /\ d.op = m.op /\ d.ctx = m.ctx /\ d.row = m.row /\ (m.op = "layout" => d.page = m.page) /\ KindsAre(srv, T)
      /\ Purpose(m, srv)
  BY <1>2 DEF TellsScreen
<1>6. Purposes(N, T)
  <2>1. m.op = "list" => OneEach(d.rows)
    <3>1. \A g: OneEach(Listed(srv, g))
      BY DEF OneEach, Listed, SeenIn
    <3>2. \A X, p: OneEach(X) => OneEach(Slice(X, p))
      BY DEF OneEach, Slice
    <3>3. OneEach({})
      BY DEF OneEach
    <3>4. d.res # "ok" => d.rows = {}
      BY DEF Told
    <3>5. m.op = "list" /\ d.res = "ok" => OneEach(d.rows)
      BY <3>1, <3>2 DEF Told
    <3>6. d.res # "ok" => OneEach(d.rows)
      BY <3>3, <3>4
    <3> QED BY <3>5, <3>6
  <2>2. Purpose(d, T)
    BY <1>5, <2>1 DEF Purpose, KindsAre, RackIn, IsTree
  <2>3. \A k \in net: Purpose(k, T)
    BY <1>4, <1>5 DEF Purposes, Purpose, KindsAre, RackIn
  <2> QED BY <1>5, <2>2, <2>3 DEF Purposes
<1>7. PlacesShown(ui, T)
  BY <1>4, <1>5 DEF PlacesShown, KindsAre
<1>8. Savers(ui, N)
  <2>1. Saver(d) <=> Saver(m)
    BY <1>5 DEF Saver
  <2> QED BY <1>4, <1>5, <2>1 DEF Savers
<1>9. Dragged(ui, N)
  BY <1>4, <1>5 DEF Dragged
<1>10. Covers(ui, N)
  BY <1>4, <1>5 DEF Covers
<1>11. TreeShown(ui, N, T)
  <2>1. m.op = "list" /\ d.res = "ok" => d.rows = Slice(Listed(srv, m.up), m.page)
    BY DEF Told
  <2> QED BY <1>2, <1>4, <2>1, TreeTold
<1>12. DevicesTrue(ui, N, T)
  <2>1. /\ m.op = "layout" /\ d.res = "ok" => d.rows = Listed(srv, m.row)
        /\ m.op = "get" /\ d.res = "ok" => d.rows = {SeenIn(srv, m.row)} /\ srv[m.row].live
    BY DEF Told, Live
  <2> QED BY <1>1, <1>2, <1>4, <2>1, DevicesTold
<1> QED BY <1>1, <1>3, <1>6, <1>7, <1>8, <1>9, <1>10, <1>11, <1>12 DEF ScreenShown

-----------------------------------------------------------------------------
(* What the pages show: the first states                                      *)

\* What is inductive: the open page shows what it should, by its kind.
PageShown(s, N, S) ==
  /\ s.page = "devices" => LedgerShown(s, N, S)
  /\ s.page = "types" => TypesShown(s, N, S)
  /\ s.page = "ulayout" => LayoutShown(s, N)
  /\ s.page = "racks" => RacksShown(s, N, S)
  /\ s.page = "templates" => TemplatesShown(s, N, S)
  /\ s.page = "hierarchy" => HierarchyShown(s, N, S)
  /\ s.page = "pdus" => PdusShown(s, N, S)
  /\ s.page = "screen" => ScreenShown(s, N, S)
ShownInv == Homed(srv) /\ PageShown(ui, net, srv)

\* A page that opens has one load under way.
LEMMA ListOpened ==
  ASSUME NEW L, NEW u, NEW p, NEW c, Fetches(c, L, u, p), net = Add({}, c)
  PROVE  ListPage(L, ui, net, srv, u, p)
<1>1. PICK d: Add({}, c) = {} \cup {d} /\ SameCall(d, c)
  BY AddOne DEF Fetches
<1>2. d.op = "list" /\ d.ctx \in L /\ d.res = "pending" /\ d.up = u /\ d.page = p
  BY <1>1 DEF SameCall, Fetches
<1>3. \A a: a \in net <=> a = d
  BY <1>1
<1>4. Lists(net, L)
  BY <1>2, <1>3 DEF Lists
<1>5. OneList(net, u, p)
  BY <1>2, <1>3 DEF OneList
<1>6. AnswersTrue(net, Slice(Listed(srv, u), p)) /\ ~NoList(net)
  BY <1>2, <1>3 DEF AnswersTrue, NoList
<1> QED BY <1>4, <1>5, <1>6 DEF ListPage, ListShown

\* The tabs of the device page open.
LEMMA DevicesOpened ==
  ASSUME Devices!Mounted
  PROVE  PageShown(ui, net, srv)
<1>0. Devices!NoRow = NoRow
  BY DEF Devices!NoRow, NoRow
<1>1. CASE ui = Devices!Begin(Devices!Ledger, {}) /\ net = Devices!Add({}, Devices!FetchDevices(Devices!Ledger))
  <2>1. PICK s, c: s = Devices!Ledger /\ c = Devices!FetchDevices(s) /\ ui = Begin(s, {}) /\ net = Add({}, c)
    BY <1>1, DevicesSame
  <2>2. Fetches(c, {"devices"}, s.filter, s.pg)
    BY <2>1, DevicesFetch
  <2>3. DOMAIN s = {"page", "filter", "pg", "rows", "total", "loading", "ok", "dlg", "form", "own"} /\ s.page = "devices"
    BY <2>1 DEF Devices!Ledger
  <2>4. ui.page = "devices" /\ ui.filter = s.filter /\ ui.pg = s.pg
    BY <2>1, <2>3, BeginAlike DEF Alike
  <2>5. ListPage({"devices"}, ui, net, srv, s.filter, s.pg)
    BY <2>1, <2>2, ListOpened
  <2> QED BY <2>4, <2>5 DEF PageShown, LedgerShown
<1>2. CASE ui = Devices!Begin(Devices!Types, {}) /\ net = Devices!Add({}, Devices!FetchTypes)
  <2>1. PICK s, c: s = Devices!Types /\ c = Devices!FetchTypes /\ ui = Begin(s, {}) /\ net = Add({}, c)
    BY <1>2, DevicesSame
  <2>2. Fetches(c, {"types"}, All, 0)
    BY <2>1, TypesFetch
  <2>3. DOMAIN s = {"page", "rows", "loading", "ok", "dlg", "form"} /\ s.page = "types"
    BY <2>1 DEF Devices!Types
  <2>4. ui.page = "types"
    BY <2>1, <2>3, BeginAlike DEF Alike
  <2>5. ListPage({"types"}, ui, net, srv, All, 0)
    BY <2>1, <2>2, ListOpened
  <2> QED BY <2>4, <2>5 DEF PageShown, TypesShown
<1>3. \E c: c = Devices!FetchRacks /\ DOMAIN c = CallFields /\ c.op = "list" /\ c.ctx = "racks"
  <2>1. PICK c: c = Devices!FetchRacks
    OBVIOUS
  <2>2. Asks(c, "list", NoRow, 0, Blank, All) /\ c.ctx = "racks"
    BY <2>1, DevicesSame DEF Devices!FetchRacks, Call, Asks, CallFields
  <2> QED BY <2>1, <2>2 DEF Asks
<1>4. CASE ui = Devices!Layout /\ net = Devices!Add({}, Devices!FetchRacks)
  <2>1. PICK c: net = Add({}, c) /\ DOMAIN c = CallFields /\ c.op = "list" /\ c.ctx = "racks"
    BY <1>3, <1>4, DevicesSame
  <2>2. PICK d: Add({}, c) = {} \cup {d} /\ SameCall(d, c)
    BY <2>1, AddOne
  <2>3. \A a \in net: a.op = "list" /\ a.ctx = "racks"
    BY <2>1, <2>2 DEF SameCall
  <2>4. ui.page = "ulayout" /\ ui.layout.row = ui.sel
    BY <1>0, <1>4, DevicesSame DEF Devices!Layout, Blank
  <2> QED BY <2>3, <2>4 DEF PageShown, LayoutShown
<1>5. ASSUME NEW r \in Row, ui = [Devices!Layout EXCEPT !.sel = r, !.loading = TRUE],
             net = Devices!Add(Devices!Add({}, Devices!FetchRacks), Devices!FetchULayout(r))
      PROVE  PageShown(ui, net, srv)
  <2>1. PICK c, g: /\ g = Devices!FetchULayout(r) /\ net = Add(Add({}, c), g)
                   /\ DOMAIN c = CallFields /\ c.op = "list" /\ c.ctx = "racks"
    BY <1>3, <1>5, DevicesSame
  <2>2. DOMAIN g = CallFields /\ g.op = "get" /\ g.ctx = "layout" /\ g.row = r
    BY <2>1, DevicesSame DEF Devices!FetchULayout, Call, CallFields
  <2>3. PICK d: Add({}, c) = {} \cup {d} /\ SameCall(d, c)
    BY <2>1, AddOne
  <2>4. PICK N: N = Add({}, c) /\ net = Add(N, g)
    BY <2>1
  <2>5. PICK e: Add(N, g) = N \cup {e} /\ SameCall(e, g)
    BY <2>2, AddOne
  <2>6. \A a: a \in net <=> a = d \/ a = e
    BY <2>3, <2>4, <2>5
  <2>7. d.op = "list" /\ d.ctx = "racks" /\ e.op = "get" /\ e.ctx = "layout" /\ e.row = r
    BY <2>1, <2>2, <2>3, <2>5 DEF SameCall
  <2>8. PICK s: s = Devices!Layout
    OBVIOUS
  <2>9. DOMAIN s = {"page", "rows", "sel", "layout", "loading", "ok"} /\ s.page = "ulayout"
    BY <2>8 DEF Devices!Layout
  <2>10. ui.page = "ulayout" /\ ui.sel = r
    BY <1>5, <2>8, <2>9
  <2> QED BY <2>6, <2>7, <2>10 DEF PageShown, LayoutShown
<1> QED BY <1>1, <1>2, <1>4, <1>5 DEF Devices!Mounted

\* The pages that show one list.
LEMMA ListsOpened ==
  ASSUME srv \in Rows, RackList!Mounted \/ Templates!Mounted \/ Tree!Mounted
  PROVE  PageShown(ui, net, srv)
<1>1. CASE RackList!Mounted
  <2>1. PICK c: c = RackList!FetchTree("tree") /\ net = Add({}, c) /\ Fetches(c, TreeLists, All, 0)
    BY <1>1, RackListSame, RacksFetch DEF RackList!Mounted, TreeLists
  <2>2. ListPage(TreeLists, ui, net, srv, All, 0)
    BY <2>1, ListOpened
  <2>3. ui.page = "racks"
    BY <1>1, RacksOpen DEF RacksInv
  <2> QED BY <2>2, <2>3 DEF PageShown, RacksShown
<1>2. CASE Templates!Mounted
  <2>1. PICK c: c = Templates!FetchTemplates("templates") /\ net = Add({}, c) /\ Fetches(c, TemplateLists, All, 0)
    BY <1>2, TemplatesSame, TemplatesFetch DEF Templates!Mounted, TemplateLists
  <2>2. ListPage(TemplateLists, ui, net, srv, All, 0)
    BY <2>1, ListOpened
  <2>3. ui.page = "templates"
    BY <1>2, TemplatesOpen DEF TemplatesInv
  <2> QED BY <2>2, <2>3 DEF PageShown, TemplatesShown
<1>3. CASE Tree!Mounted
  <2>1. PICK c: c = Tree!FetchTree("first") /\ net = Add({}, c) /\ Fetches(c, WholeTrees, All, 0)
    BY <1>3, TreeSame, TreeFetch DEF Tree!Mounted, WholeTrees
  <2>2. ListPage(WholeTrees, ui, net, srv, All, 0)
    BY <2>1, ListOpened
  <2>3. ui.page = "hierarchy"
    BY <1>3, TreeOpens DEF TreeInv
  <2> QED BY <2>2, <2>3 DEF PageShown, HierarchyShown
<1> QED BY <1>1, <1>2, <1>3

\* The panel of a rack's PDUs opens with the first stage of its load.
LEMMA PdusOpened ==
  ASSUME srv \in Rows, Power!Mounted
  PROVE  PageShown(ui, net, srv)
<1>1. PICK g \in Group: ui = Power!Begin(Power!Pdus(g), {}) /\ net = Power!Add({}, Power!Fetch("pdus", g))
  BY DEF Power!Mounted
<1>2. PICK s, c: s = Power!Pdus(g) /\ c = Power!Fetch("pdus", g) /\ ui = Begin(s, {}) /\ net = Add({}, c)
                 /\ Fetches(c, FirstStage, g, 0)
  BY <1>1, PdusSame, PdusFetch DEF FirstStage
<1>3. s.rack = g /\ "rack" \in DOMAIN s
  BY <1>2 DEF Power!Pdus
<1>4. ui.rack = g
  BY <1>2, <1>3, BeginAlike DEF Alike
<1>5. PICK d: Add({}, c) = {} \cup {d} /\ SameCall(d, c)
  BY <1>2, AddOne DEF Fetches
<1>6. d.op = "list" /\ d.ctx \in FirstStage /\ d.ctx \in PdusLists /\ d.res = "pending" /\ d.up = g /\ d.page = 0
  BY <1>2, <1>5 DEF SameCall, Fetches, FirstStage, PdusLists
<1>7. \A a: a \in net <=> a = d
  BY <1>2, <1>5
<1>8. Lists(net, PdusLists) /\ OneList(net, ui.rack, 0)
  BY <1>4, <1>6, <1>7 DEF Lists, OneList
<1>9. StagesShow(ui, net, Listed(srv, ui.rack))
  BY <1>6, <1>7 DEF StagesShow, AnswersTrue, NoList
<1>10. ui.page = "pdus"
  BY PdusOpen DEF PdusInv
<1> QED BY <1>8, <1>9, <1>10 DEF PageShown, PdusShown

\* The screen opens with the load of the tree.
LEMMA ScreenOpened ==
  ASSUME srv \in Rows, Screen!OnMounted
  PROVE  PageShown(ui, net, srv)
<1>0. Screen!NoRow = NoRow
  BY DEF Screen!NoRow, NoRow
<1>1. PICK s, b, c: /\ s = Screen!Screen /\ b = Begin(s, {}) /\ c = Screen!FetchTree("tree")
                    /\ ui = [b EXCEPT !.fresh = TRUE] /\ net = Add({}, c)
  BY ScreenSame DEF Screen!OnMounted
<1>2. /\ DOMAIN s = {"page", "rows", "room", "devs", "sel", "hidden", "dlg", "form", "cand", "saving", "dragging",
                     "exporting", "loading", "ok", "fresh"}
      /\ s.rows = {} /\ s.room = NoRow /\ s.devs = {} /\ s.dragging = 0
  BY <1>0, <1>1, ScreenSame DEF Screen!Screen
<1>3. Alike(b, s)
  BY <1>1, BeginAlike
<1>4. DOMAIN b = DOMAIN s /\ \A f \in DOMAIN s \ {"loading", "ok"}: b[f] = s[f]
  BY <1>3 DEF Alike
<1>5. DOMAIN ui = DOMAIN b /\ \A f \in DOMAIN b \ {"fresh"}: ui[f] = b[f]
  BY <1>1, <1>2, <1>4
<1>6. ui.rows = {} /\ ui.room = NoRow /\ ui.devs = {} /\ ui.dragging = 0
  BY <1>2, <1>4, <1>5
<1>7. Asks(c, "list", NoRow, 0, Blank, All) /\ c.ctx = "tree" /\ c.rows = {} /\ c.page = 0 /\ c.res = "pending" /\ ~c.did
  BY <1>0, <1>1, ScreenSame DEF Screen!FetchTree, Screen!ScreenCall, Call, Asks, CallFields
<1>8. PICK d: Add({}, c) = {} \cup {d} /\ SameCall(d, c)
  BY <1>7, AddOne DEF Asks
<1>9. /\ d.op = "list" /\ d.ctx = "tree" /\ d.rows = {} /\ d.page = 0 /\ d.res = "pending" /\ ~d.did /\ d.up = All
  BY <1>7, <1>8 DEF SameCall, Asks
<1>10. \A a: a \in net <=> a = d
  BY <1>1, <1>8
<1>11. Purposes(net, srv)
  <2>1. OneEach(d.rows)
    BY <1>9 DEF OneEach
  <2> QED BY <1>9, <1>10, <2>1 DEF Purposes, Purpose, TreeCtx, IsTree
<1>12. Savers(ui, net) /\ Dragged(ui, net)
  BY <1>6, <1>9, <1>10 DEF Savers, Saver, Dragged
<1>13. PlacesShown(ui, srv)
  BY <1>6 DEF PlacesShown, OneEach
<1>14. TreeShown(ui, net, srv)
  BY <1>9, <1>10 DEF TreeShown, IsTree
<1>15. Covers(ui, net)
  BY <1>6 DEF Covers, Screen!Racks
<1>16. DevicesTrue(ui, net, srv)
  BY <1>6, <1>9, <1>10 DEF DevicesTrue
<1>17. ui.page = "screen"
  BY ScreenOpens DEF ScreenInv, ScreenUi
<1> QED BY <1>11, <1>12, <1>13, <1>14, <1>15, <1>16, <1>17 DEF PageShown, ScreenShown

\* Every page opens so.
LEMMA StartShown == Start => ShownInv
<1>1. SUFFICES ASSUME Start PROVE ShownInv
  OBVIOUS
<1>2. PageShown(ui, net, srv)
  BY <1>1, DevicesOpened, ListsOpened, PdusOpened, ScreenOpened DEF Start
<1> QED BY <1>1, <1>2 DEF Start, ShownInv

-----------------------------------------------------------------------------
(* What the pages show: the steps                                             *)

\* The back end answers.
LEMMA ToldShown ==
  ASSUME ConsoleInv, ShownInv, TableOK, NEW m, NEW d, Told(m, d)
  PROVE  ShownInv'
<1>0. srv \in Rows /\ Calls(net, srv) /\ PageInv(ui, net, srv) /\ Homed(srv) /\ PageShown(ui, net, srv)
  BY DEF ConsoleInv, ShownInv
<1>1. PICK t, N, S: t = ui' /\ N = net' /\ S = srv' /\ t = ui
  BY DEF Told
<1>2. Homed(S)
  BY <1>0, <1>1, ToldHomes
<1>3. \A L, u, p: ListPage(L, ui, net, srv, u, p) => ListPage(L, ui, net', srv', u, p)
  BY <1>0, ListTold
<1>4. \A L, u, p: ListPage(L, t, net, srv, u, p) => ListPage(L, t, N, S, u, p)
  BY <1>1, <1>3
<1>5. /\ LedgerShown(t, net, srv) => LedgerShown(t, N, S)
      /\ TypesShown(t, net, srv) => TypesShown(t, N, S)
      /\ RacksShown(t, net, srv) => RacksShown(t, N, S)
      /\ TemplatesShown(t, net, srv) => TemplatesShown(t, N, S)
      /\ HierarchyShown(t, net, srv) => HierarchyShown(t, N, S)
  BY <1>4 DEF LedgerShown, TypesShown, RacksShown, TemplatesShown, HierarchyShown
<1>6. LayoutShown(t, net) => LayoutShown(t, N)
  BY <1>1, LayoutTold
<1>7. PdusShown(t, net, srv) => PdusShown(t, N, S)
  BY <1>0, <1>1, PdusTold
<1>8. t.page = "screen" => ScreenShown(t, N, S)
  <2>1. ASSUME ui.page = "screen" PROVE ScreenShown(ui', net', srv')
    <3>1. ScreenInv(ui, net, srv)
      BY <1>0, <2>1, PageOpen DEF OpenPage
    <3>2. ScreenShown(ui, net, srv)
      BY <1>0, <2>1 DEF PageShown
    <3> QED BY <1>0, <3>1, <3>2, ScreenTold
  <2> QED BY <1>1, <2>1
<1>9. PageShown(t, N, S)
  BY <1>0, <1>1, <1>5, <1>6, <1>7, <1>8 DEF PageShown
<1> QED BY <1>1, <1>2, <1>9 DEF ShownInv

\* Another user writes, which excuses the page.
LEMMA ForeignShown ==
  ASSUME ConsoleInv, ShownInv, NEW r \in Row, Foreign(r)
  PROVE  ShownInv'
<1>0. srv \in Rows /\ Calls(net, srv) /\ PageInv(ui, net, srv) /\ Homed(srv) /\ PageShown(ui, net, srv)
  BY DEF ConsoleInv, ShownInv
<1>1. ui' = Excused(ui) /\ net' = net
  BY <1>0, ForeignTable
<1>2. PICK s, t, N, S: s = ui /\ t = ui' /\ t = Excused(s) /\ N = net' /\ N = net /\ S = srv'
  BY <1>1
<1>3. Homed(S)
  BY <1>0, <1>2, ForeignHomes
<1>4. {"page", "ok"} \subseteq DOMAIN s
  BY <1>0, <1>2 DEF PageInv, LedgerInv, TypesInv, LayoutInv, RacksInv, TemplatesInv, TreeInv, PdusInv, ScreenInv, ScreenUi
<1>5. t.page = s.page /\ ~t.ok
  BY <1>2, <1>4 DEF Excused
<1>6. \A L, u, p, v, q: ListPage(L, s, N, srv, u, p) => ListPage(L, t, N, S, v, q)
  BY <1>5 DEF ListPage, ListShown
<1>7. /\ LedgerShown(s, N, srv) => LedgerShown(t, N, S)
      /\ TypesShown(s, N, srv) => TypesShown(t, N, S)
      /\ RacksShown(s, N, srv) => RacksShown(t, N, S)
      /\ TemplatesShown(s, N, srv) => TemplatesShown(t, N, S)
      /\ HierarchyShown(s, N, srv) => HierarchyShown(t, N, S)
  BY <1>6 DEF LedgerShown, TypesShown, RacksShown, TemplatesShown, HierarchyShown
<1>8. LayoutShown(s, N) => LayoutShown(t, N)
  BY <1>5 DEF LayoutShown
<1>9. PdusShown(s, N, srv) => PdusShown(t, N, S)
  BY <1>5 DEF PdusShown
<1>10. t.page = "screen" => ScreenShown(t, N, S)
  <2>1. ASSUME ui.page = "screen" PROVE ScreenShown(ui', net', srv')
    <3>1. ScreenInv(ui, net, srv)
      BY <1>0, <2>1, PageOpen DEF OpenPage
    <3>2. ScreenShown(ui, net, srv)
      BY <1>0, <2>1 DEF PageShown
    <3> QED BY <1>0, <3>1, <3>2, ScreenExcused
  <2> QED BY <1>2, <1>5, <2>1
<1>11. PageShown(t, N, S)
  BY <1>0, <1>2, <1>5, <1>7, <1>8, <1>9, <1>10 DEF PageShown
<1> QED BY <1>2, <1>3, <1>11 DEF ShownInv

\* A step of one tab of the device page is made on that tab.
LEMMA Tabs ==
  ASSUME Devices!PageNext
  PROVE  /\ LedgerInv(ui, net, srv) => Devices!LedgerNext
         /\ TypesInv(ui, net, srv) => Devices!TypesNext
         /\ LayoutInv(ui, net, srv) => Devices!LayoutNext
<1>1. ASSUME LedgerInv(ui, net, srv) PROVE Devices!LedgerNext
  BY <1>1 DEF LedgerInv, Devices!PageNext, Devices!LayoutNext, Devices!TypesNext, Devices!EnterTab, Devices!OnLayout,
     Devices!LandRacks, Devices!LandLayout, Devices!SelectRack, Devices!TypeButtons, Devices!OnTypes, Devices!SubmitType,
     Devices!LandTypes, Devices!LandSaveType, Devices!LandRemoveType, Devices!Landed
<1>2. ASSUME TypesInv(ui, net, srv) PROVE Devices!TypesNext
  BY <1>2 DEF TypesInv, Devices!PageNext, Devices!LayoutNext, Devices!LedgerNext, Devices!EnterTab, Devices!OnLayout,
     Devices!LandRacks, Devices!LandLayout, Devices!OnLedger, Devices!AtLedger, Devices!LoadDevices, Devices!Filters,
     Devices!OpenDeviceCreate, Devices!CloseDevice, Devices!LandDevices, Devices!LandDevice, Devices!LandSave,
     Devices!LandRemove, Devices!Landed
<1>3. ASSUME LayoutInv(ui, net, srv) PROVE Devices!LayoutNext
  BY <1>3 DEF LayoutInv, Devices!PageNext, Devices!TypesNext, Devices!LedgerNext, Devices!TypeButtons, Devices!OnTypes,
     Devices!SubmitType, Devices!LandTypes, Devices!LandSaveType, Devices!LandRemoveType, Devices!OnLedger,
     Devices!AtLedger, Devices!LoadDevices, Devices!Filters, Devices!OpenDeviceCreate, Devices!CloseDevice,
     Devices!LandDevices, Devices!LandDevice, Devices!LandSave, Devices!LandRemove, Devices!Landed
<1> QED BY <1>1, <1>2, <1>3

\* A step of the open page.
LEMMA PageShows ==
  ASSUME ConsoleInv, ShownInv, Next, ~WireNext
  PROVE  ShownInv'
<1>0. srv \in Rows /\ Calls(net, srv) /\ PageInv(ui, net, srv) /\ Homed(srv) /\ PageShown(ui, net, srv)
  BY DEF ConsoleInv, ShownInv
<1>1. ASSUME UNCHANGED srv, PageShown(ui', net', srv') PROVE ShownInv'
  <2>1. PICK S: S = srv' /\ S = srv
    BY <1>1
  <2>2. Homed(S)
    BY <1>0, <2>1
  <2> QED BY <1>1, <2>1, <2>2 DEF ShownInv
<1>2. CASE OpenPage = "devices" /\ Devices!PageNext
  <2>1. ASSUME LedgerInv(ui, net, srv) PROVE ShownInv'
    <3>1. LedgerShown(ui, net, srv)
      BY <1>0, <2>1 DEF PageShown, LedgerInv
    <3>2. LedgerShown(ui', net', srv')
      BY <1>2, <2>1, <3>1, Tabs, LedgerShow
    <3>3. UNCHANGED srv /\ LedgerInv(ui', net', srv)
      BY <1>0, <1>2, <2>1, LedgerStep DEF LedgerKept, Handled
    <3>4. ui'.page = "devices"
      BY <3>3 DEF LedgerInv
    <3> QED BY <1>1, <3>2, <3>3, <3>4 DEF PageShown
  <2>2. ASSUME TypesInv(ui, net, srv) PROVE ShownInv'
    <3>1. TypesShown(ui, net, srv)
      BY <1>0, <2>2 DEF PageShown, TypesInv
    <3>2. TypesShown(ui', net', srv')
      BY <1>2, <2>2, <3>1, Tabs, TypesShow
    <3>3. UNCHANGED srv /\ TypesInv(ui', net', srv)
      BY <1>0, <1>2, <2>2, TypesStep DEF TypesKept, Handled
    <3>4. ui'.page = "types"
      BY <3>3 DEF TypesInv
    <3> QED BY <1>1, <3>2, <3>3, <3>4 DEF PageShown
  <2>3. ASSUME LayoutInv(ui, net, srv) PROVE ShownInv'
    <3>1. LayoutShown(ui, net)
      BY <1>0, <2>3 DEF PageShown, LayoutInv
    <3>2. LayoutShown(ui', net')
      BY <1>2, <2>3, <3>1, Tabs, LayoutShow
    <3>3. UNCHANGED srv /\ LayoutInv(ui', net', srv)
      BY <1>0, <1>2, <2>3, LayoutStep DEF LayoutKept, Handled
    <3>4. ui'.page = "ulayout"
      BY <3>3 DEF LayoutInv
    <3> QED BY <1>1, <3>2, <3>3, <3>4 DEF PageShown
  <2> QED BY <1>0, <1>2, <2>1, <2>2, <2>3, PageOpen
<1>3. CASE OpenPage = "racks" /\ RackList!PageNext
  <2>1. RacksInv(ui, net, srv)
    BY <1>0, <1>3, PageOpen
  <2>2. RacksShown(ui, net, srv)
    BY <1>0, <2>1 DEF PageShown, RacksInv
  <2>3. RacksShown(ui', net', srv')
    BY <1>0, <1>3, <2>1, <2>2, RacksShow
  <2>4. UNCHANGED srv /\ RacksInv(ui', net', srv)
    BY <1>0, <1>3, <2>1, RacksStep DEF RacksKept, Handled
  <2>5. ui'.page = "racks"
    BY <2>4 DEF RacksInv
  <2> QED BY <1>1, <2>3, <2>4, <2>5 DEF PageShown
<1>4. CASE OpenPage = "templates" /\ Templates!PageNext
  <2>1. TemplatesInv(ui, net, srv)
    BY <1>0, <1>4, PageOpen
  <2>2. TemplatesShown(ui, net, srv)
    BY <1>0, <2>1 DEF PageShown, TemplatesInv
  <2>3. TemplatesShown(ui', net', srv')
    BY <1>0, <1>4, <2>1, <2>2, TemplatesShow
  <2>4. UNCHANGED srv /\ TemplatesInv(ui', net', srv)
    BY <1>0, <1>4, <2>1, TemplatesStep DEF TemplatesKept, Handled
  <2>5. ui'.page = "templates"
    BY <2>4 DEF TemplatesInv
  <2> QED BY <1>1, <2>3, <2>4, <2>5 DEF PageShown
<1>5. CASE OpenPage = "hierarchy" /\ Tree!PageNext
  <2>1. TreeInv(ui, net, srv)
    BY <1>0, <1>5, PageOpen
  <2>2. HierarchyShown(ui, net, srv)
    BY <1>0, <2>1 DEF PageShown, TreeInv
  <2>3. HierarchyShown(ui', net', srv')
    BY <1>5, <2>1, <2>2, HierarchyShow
  <2>4. UNCHANGED srv /\ TreeInv(ui', net', srv)
    BY <1>0, <1>5, <2>1, TreeStep DEF TreeKept, Handled
  <2>5. ui'.page = "hierarchy"
    BY <2>4 DEF TreeInv
  <2> QED BY <1>1, <2>3, <2>4, <2>5 DEF PageShown
<1>6. CASE OpenPage = "pdus" /\ Power!PageNext
  <2>1. PdusInv(ui, net, srv)
    BY <1>0, <1>6, PageOpen
  <2>2. PdusShown(ui, net, srv)
    BY <1>0, <2>1 DEF PageShown, PdusInv
  <2>3. PdusShown(ui', net', srv')
    BY <1>6, <2>1, <2>2, PdusShow
  <2>4. UNCHANGED srv /\ PdusInv(ui', net', srv)
    BY <1>0, <1>6, <2>1, PdusStep DEF PdusKept, Handled
  <2>5. ui'.page = "pdus"
    BY <2>4 DEF PdusInv
  <2> QED BY <1>1, <2>3, <2>4, <2>5 DEF PageShown
<1>7. CASE OpenPage = "screen" /\ Screen!PageNext
  <2>1. ScreenInv(ui, net, srv)
    BY <1>0, <1>7, PageOpen
  <2>2. ScreenShown(ui, net, srv)
    BY <1>0, <2>1 DEF PageShown, ScreenInv, ScreenUi
  <2>3. ScreenShown(ui', net', srv')
    BY <1>0, <1>7, <2>1, <2>2, ScreenShow
  <2>4. UNCHANGED srv /\ ScreenInv(ui', net', srv)
    BY <1>0, <1>7, <2>1, ScreenStep DEF ScreenKept
  <2>5. ui'.page = "screen"
    BY <2>4 DEF ScreenInv, ScreenUi
  <2> QED BY <1>1, <2>3, <2>4, <2>5 DEF PageShown
<1> QED BY <1>2, <1>3, <1>4, <1>5, <1>6, <1>7 DEF Next

\* Every step keeps what is shown true.
LEMMA NextShows ==
  ASSUME ConsoleInv, ShownInv, [Next]_wire
  PROVE  ShownInv'
<1>0. srv \in Rows /\ Calls(net, srv)
  BY DEF ConsoleInv
<1>1. ASSUME NEW m \in net, ServeRead(m) \/ ServeWrite(m) \/ ServePost(m) \/ Fail(m) PROVE ShownInv'
  <2>1. TableOK
    BY <1>0, <1>1, ServeReadReply, ServeWriteReply, ServePostReply, FailReply DEF Calls
  <2>2. PICK d: Told(m, d)
    BY <1>1, ServedTold
  <2> QED BY <2>1, <2>2, ToldShown
<1>2. CASE WireNext
  BY <1>1, <1>2, ForeignShown DEF WireNext
<1>3. CASE Next /\ ~WireNext
  BY <1>3, PageShows
<1>4. CASE UNCHANGED wire
  <2>1. PICK t, N, S: t = ui' /\ t = ui /\ N = net' /\ N = net /\ S = srv' /\ S = srv
    BY <1>4 DEF wire
  <2> QED BY <2>1 DEF ShownInv
<1> QED BY <1>2, <1>3, <1>4

-----------------------------------------------------------------------------
(* What the pages show: the truth                                             *)

\* The lists of every page are those of the table.
LEMMA MatchingListed ==
  /\ \A g: Devices!Matching(g) = Listed(srv, g) /\ RackList!Matching(g) = Listed(srv, g)
  /\ \A g: Templates!Matching(g) = Listed(srv, g) /\ Tree!Matching(g) = Listed(srv, g)
  /\ \A g: Power!Matching(g) = Listed(srv, g) /\ Screen!Matching(g) = Listed(srv, g)
<1>1. \A g: Devices!Matching(g) = Matching(g)
  BY DEF Devices!Matching, Devices!Seen, Devices!Live, Devices!Up, Matching, Seen, Live, Up
<1>2. \A g: RackList!Matching(g) = Matching(g)
  BY DEF RackList!Matching, RackList!Seen, RackList!Live, RackList!Up, Matching, Seen, Live, Up
<1>3. \A g: Templates!Matching(g) = Matching(g)
  BY DEF Templates!Matching, Templates!Seen, Templates!Live, Templates!Up, Matching, Seen, Live, Up
<1>4. \A g: Tree!Matching(g) = Matching(g)
  BY DEF Tree!Matching, Tree!Seen, Tree!Live, Tree!Up, Matching, Seen, Live, Up
<1>5. \A g: Power!Matching(g) = Matching(g)
  BY DEF Power!Matching, Power!Seen, Power!Live, Power!Up, Matching, Seen, Live, Up
<1>6. \A g: Screen!Matching(g) = Matching(g)
  BY DEF Screen!Matching, Screen!Seen, Screen!Live, Screen!Up, Matching, Seen, Live, Up
<1> QED BY <1>1, <1>2, <1>3, <1>4, <1>5, <1>6, ListedNow

\* A list with no call under way and nothing to excuse it.
LEMMA ListSettled ==
  ASSUME NEW L, NEW u, NEW p, ListPage(L, ui, net, srv, u, p), ui.ok, net = {}
  PROVE  ui.rows = Slice(Listed(srv, u), p)
<1>1. PICK W: W = Slice(Listed(srv, u), p)
  OBVIOUS
<1>2. Owed(net) \/ (NoList(net) => ui.rows = W)
  BY <1>1 DEF ListPage, ListShown
<1> QED BY <1>1, <1>2 DEF Owed, NoList

\* The screen, with no call under way and nothing to excuse it: the racks,
LEMMA DrawnTruly ==
  ASSUME srv \in Rows, ScreenShown(ui, net, srv), ui.ok, net = {}
  PROVE  ui.rows = {x \in {y \in Screen!Matching(All): y.up = All \/ Screen!Up(y.up) = All}: x.up # All => x.up \in Row}
<1>1. ui.rows = Drawn(srv)
  BY DEF ScreenShown, TreeShown, TreeOwed
<1>2. Screen!Matching(All) = Listed(srv, All)
  BY MatchingListed
<1>3. ASSUME NEW x \in Listed(srv, All)
      PROVE  ~IsDevice(x.row, srv) <=> (x.up = All \/ Screen!Up(x.up) = All) /\ (x.up # All => x.up \in Row)
  <2>1. x.row \in Row /\ x.up = srv[x.row].up
    BY <1>3 DEF Listed, SeenIn
  <2>2. Screen!Up(x.up) = IF x.up \in Row THEN srv[x.up].up ELSE All
    BY DEF Screen!Up
  <2>3. All \notin Row
    BY WireAssumption
  <2> QED BY <2>1, <2>2, <2>3 DEF IsDevice, IsRoom, IsRack
<1> QED BY <1>1, <1>2, <1>3 DEF Drawn

\* and the devices that are mounted in them.
LEMMA MountedTruly ==
  ASSUME srv \in Rows, ScreenInv(ui, net, srv), ScreenShown(ui, net, srv), ui.fresh, net = {}, NEW x \in Screen!Racks(ui)
  PROVE  Screen!Mounted(ui, x.row) = Screen!Matching(x.row)
<1>1. PICK W: W = Listed(srv, x.row) /\ Screen!Matching(x.row) = W
  BY MatchingListed
<1>2. PICK O: O = Updated(net)
  OBVIOUS
<1>3. O = {}
  BY <1>2 DEF Updated
<1>4. ~Placed(net)
  BY DEF Placed
<1>5. \A e \in ui.devs: Agrees(e.rows, Listed(srv, e.rack), O)
  BY <1>2, <1>4 DEF ScreenShown, DevicesTrue
<1>6. PICK e \in ui.devs: e.rack = x.row
  BY DEF ScreenShown, Covers
<1>7. ASSUME NEW f \in ui.devs, f.rack = x.row PROVE f.rows = W
  <2>1. Agrees(f.rows, W, {})
    BY <1>1, <1>3, <1>5, <1>7
  <2>2. \A y \in f.rows: y = [row |-> y.row, ver |-> y.ver, up |-> y.up]
    BY <2>1 DEF Agrees, Entry
  <2>3. \A z \in W: z = [row |-> z.row, ver |-> z.ver, up |-> z.up]
    BY <1>1 DEF Listed, SeenIn
  <2>5. ASSUME NEW y \in f.rows, NEW z \in W, z.row = y.row, z.up = y.up, z.ver = y.ver PROVE y = z
    BY <2>2, <2>3, <2>5
  <2>6. \A y \in f.rows: \E z \in W: z.row = y.row /\ z.up = y.up /\ z.ver = y.ver
    BY <2>1 DEF Agrees
  <2>7. \A z \in W: \E y \in f.rows: y.row = z.row
    BY <2>1 DEF Agrees
  <2>8. \A z, w \in W: z.row = w.row => z = w
    BY <1>1 DEF Listed, SeenIn
  <2>9. f.rows \subseteq W
    BY <2>5, <2>6
  <2>10. W \subseteq f.rows
    BY <2>7, <2>8, <2>9
  <2> QED BY <2>9, <2>10
<1>8. Screen!Mounted(ui, x.row) = UNION {d.rows: d \in {f \in ui.devs: f.rack = x.row}}
  BY DEF Screen!Mounted
<1>9. \A y: y \in Screen!Mounted(ui, x.row) <=> \E d \in ui.devs: d.rack = x.row /\ y \in d.rows
  BY <1>8
<1>10. \A y: y \in Screen!Mounted(ui, x.row) <=> y \in W
  BY <1>6, <1>7, <1>9
<1> QED BY <1>1, <1>10

\* A page with no call under way shows the truth.
LEMMA ShownFollows ==
  ASSUME ConsoleInv, ShownInv
  PROVE  Shown
<1>0. srv \in Rows /\ PageInv(ui, net, srv) /\ PageShown(ui, net, srv)
  BY DEF ConsoleInv, ShownInv
<1>1. SUFFICES ASSUME ui.ok, net = {} PROVE Shown
  BY DEF Shown
<1>2. CASE OpenPage = "devices"
  <2>1. ui.page = "devices" => ui.rows = Devices!Slice(Devices!Matching(ui.filter), ui.pg)
    <3>1. \A X, p: Devices!Slice(X, p) = Slice(X, p)
      BY DEF Devices!Slice, Slice, Devices!Cardinality, Cardinality
    <3> QED BY <1>0, <1>1, <3>1, ListSettled, MatchingListed DEF PageShown, LedgerShown
  <2>2. ui.page = "types" => ui.rows = Devices!Matching(All)
    BY <1>0, <1>1, ListSettled, WholeSlice, MatchingListed DEF PageShown, TypesShown
  <2>3. ui.page = "ulayout" => ui.layout.row = ui.sel
    BY <1>0, <1>1 DEF PageShown, LayoutShown
  <2>4. Devices!ShowsTruth
    BY <2>1, <2>2, <2>3 DEF Devices!ShowsTruth, Devices!OnLedger, Devices!OnTypes, Devices!OnLayout
  <2> QED BY <1>2, <2>4 DEF Shown
<1>3. CASE OpenPage = "racks"
  <2>1. ui.page = "racks"
    BY <1>0, <1>3, PageOpen DEF RacksInv
  <2>2. ui.rows = RackList!Matching(All)
    BY <1>0, <1>1, <2>1, ListSettled, WholeSlice, MatchingListed DEF PageShown, RacksShown
  <2>3. RackList!ShowsTruth
    BY <2>2 DEF RackList!ShowsTruth
  <2> QED BY <1>3, <2>3 DEF Shown
<1>4. CASE OpenPage = "templates"
  <2>1. ui.page = "templates"
    BY <1>0, <1>4, PageOpen DEF TemplatesInv
  <2>2. ui.rows = Templates!Matching(All)
    BY <1>0, <1>1, <2>1, ListSettled, WholeSlice, MatchingListed DEF PageShown, TemplatesShown
  <2>3. Templates!ShowsTruth
    BY <2>2 DEF Templates!ShowsTruth
  <2> QED BY <1>4, <2>3 DEF Shown
<1>5. CASE OpenPage = "hierarchy"
  <2>1. ui.page = "hierarchy"
    BY <1>0, <1>5, PageOpen DEF TreeInv
  <2>2. ui.rows = Tree!Matching(All)
    BY <1>0, <1>1, <2>1, ListSettled, WholeSlice, MatchingListed DEF PageShown, HierarchyShown
  <2>3. Tree!ShowsTruth
    BY <2>2 DEF Tree!ShowsTruth
  <2> QED BY <1>5, <2>3 DEF Shown
<1>6. CASE OpenPage = "pdus"
  <2>1. ui.page = "pdus"
    BY <1>0, <1>6, PageOpen DEF PdusInv
  <2>2. PICK X: X = Listed(srv, ui.rack) /\ Power!Matching(ui.rack) = X
    BY MatchingListed
  <2>3. Owed(net) \/ StagesShow(ui, net, X)
    BY <1>0, <1>1, <2>1, <2>2 DEF PageShown, PdusShown
  <2>4. ui.rows = Power!Units(X) /\ ui.conns = Power!Connections(X) /\ ui.socks = Power!Sockets(X)
    BY <1>1, <2>3 DEF Owed, StagesShow, NoList
  <2>5. Power!ShowsTruth
    BY <2>2, <2>4 DEF Power!ShowsTruth
  <2> QED BY <1>6, <2>5 DEF Shown
<1>7. CASE OpenPage = "screen"
  <2>1. ScreenInv(ui, net, srv)
    BY <1>0, <1>7, PageOpen
  <2>2. ScreenShown(ui, net, srv)
    BY <1>0, <2>1 DEF PageShown, ScreenInv, ScreenUi
  <2>3. \A x \in Screen!Racks(ui): ui.fresh => Screen!Mounted(ui, x.row) = Screen!Matching(x.row)
    BY <1>0, <1>1, <2>1, <2>2, MountedTruly
  <2>4. ui.rows = {x \in {y \in Screen!Matching(All): y.up = All \/ Screen!Up(y.up) = All}: x.up # All => x.up \in Row}
    BY <1>0, <1>1, <2>2, DrawnTruly
  <2>5. Screen!ShowsTruth
    BY <2>3, <2>4, Zenon DEF Screen!ShowsTruth
  <2> QED BY <1>7, <2>5 DEF Shown
<1>8. OpenPage \in {"devices", "racks", "templates", "hierarchy", "pdus", "screen"}
  BY <1>0 DEF PageInv, OpenPage, LedgerInv, TypesInv, LayoutInv, RacksInv, TemplatesInv, TreeInv, PdusInv, ScreenInv, ScreenUi
<1> QED BY <1>2, <1>3, <1>4, <1>5, <1>6, <1>7, <1>8

\* A page with no call under way and nothing to excuse it (another user's write, a load
\* that overlapped another, a failure) shows what the back end holds, whatever loads,
\* writes and answers came before: every executed write is owed a load, and what has been
\* answered and is not superseded is true.
THEOREM PagesShowTruth == Spec => []Shown
<1>1. ConsoleInv /\ ShownInv /\ [Next]_wire => ShownInv'
  BY NextShows
<1>2. ConsoleInv /\ ShownInv => Shown
  BY ShownFollows
<1> QED BY <1>1, <1>2, StartShown, ConsoleInvariant, PTL DEF Spec
=============================================================================
