----------------------------- MODULE SessionProofs -----------------------------
(***************************************************************************)
(* The sessions of a browser: types, the token a tab shares with local     *)
(* storage and the pages its guard has let it show, for any number of      *)
(* tabs, users, tokens and requests in flight.                             *)
(***************************************************************************)
EXTENDS Session, TLAPS

-----------------------------------------------------------------------------
(* The inductive invariant *)

Phase == {"closed", "booting", "open", "legacy"}
Captcha == {"none", "ready", "spent"}

TokenRow == [user: User, ok: BOOLEAN]
TabRow == [phase: Phase, page: Page, nav: Page \cup {"none"}, token: Nat, user: User \cup {NoUser},
           busy: BOOLEAN, captcha: Captcha]
Message == [tab: Tab, kind: {"login", "whoami", "logout", "page"}, ctx: Captcha \cup {"boot", "login", "menu", "page"},
            user: User \cup {NoUser}, tok: Nat, res: {"pending", "ok", "401", "403", "refused", "failed"}]

\* A request can be executed for the user it names, and an answer that names a user has
\* the token of one.
MessageOK(m, n) ==
  /\ m \in Message /\ m.tok =< n
  /\ m.kind = "login" => m.user \in User
  /\ m.kind = "whoami" /\ m.res = "ok" => m.tok # 0

TabOK(s, n) == s \in TabRow /\ s.token =< n

Typed ==
  /\ token \in Seq(TokenRow)
  /\ storage \in Nat /\ storage =< Len(token)
  /\ flags \in Flag /\ writer \in Tab \cup {NoTab}
  /\ tab \in [Tab -> TabRow] /\ \A t \in Tab: tab[t].token =< Len(token)
  /\ \A m \in net: MessageOK(m, Len(token))

\* While a document boots, one whoami is in flight for it and nothing else of it is mounted.
IsBoot(m) == m.kind = "whoami" /\ m.ctx = "boot"
Boots ==
  /\ \A m \in net: IsBoot(m) => tab[m.tab].phase = "booting"
  /\ \A m, k \in net: IsBoot(m) /\ IsBoot(k) /\ m.tab = k.tab => m = k

\* The tab that wrote the token in local storage, which is st, has the same one.
StoredAt(t, s, w, st) == w = t /\ s.phase \in {"booting", "open"} => s.token = st

\* What a tab shows, or is about to, the guard has let it, and nothing has been asked since.
Shows(s) == s.nav = "admin" \/ (s.nav = "none" /\ s.page = "admin")
AdmittedAt(s, asking) ==
  /\ s.phase = "booting" => s.page # "admin" /\ s.nav # "admin"
  /\ s.phase = "open" /\ Shows(s) /\ s.token # 0 => IsAdmin(s) \/ asking

TabFacts == \A t \in Tab: StoredAt(t, tab[t], writer, storage) /\ AdmittedAt(tab[t], Asking(t))

SessionInv == Typed /\ Boots /\ TabFacts

LEMMA TypedTypes == Typed => TypeOK
<1> SUFFICES ASSUME Typed PROVE TypeOK
  OBVIOUS
<1>1. DOMAIN token = 1 .. Len(token) /\ Len(token) \in Nat
  BY DEF Typed
<1>2. \A i \in DOMAIN token: token[i] \in TokenRow
  BY DEF Typed
<1>3. \A t \in Tab: tab[t] \in TabRow /\ tab[t].token \in {0} \cup DOMAIN token
  BY <1>1 DEF Typed, TabRow
<1>4. tab \in [Tab -> [phase: Phase, page: Page, nav: Page \cup {"none"}, token: {0} \cup DOMAIN token,
                       user: User \cup {NoUser}, busy: BOOLEAN, captcha: Captcha]]
  BY <1>3 DEF Typed, TabRow
<1>5. storage \in {0} \cup DOMAIN token
  BY <1>1 DEF Typed
<1> QED BY <1>2, <1>4, <1>5 DEF TypeOK, Typed, TokenRow, MessageOK, Message, Phase, Captcha

LEMMA InitSession == Init => SessionInv
BY DEF Init, SessionInv, Typed, Boots, TabFacts, TabRow, StoredAt, AdmittedAt, Closed, Phase, Captcha, Page, Flag

-----------------------------------------------------------------------------
(* The router *)

LEMMA Guarded ==
  ASSUME NEW s, NEW to \in Page
  PROVE  LET dest == RouteGuard(s, to) IN
           /\ dest \in Page
           /\ s.token = 0 => dest = "login"
           /\ dest = "admin" => s.token # 0 /\ IsAdmin(s)
           /\ to \in {"login", "home"} => dest \in {"login", "home"}
BY DEF RouteGuard, Page

\* A push keeps the session; it decides what will be shown, or leaves for the old bundle.
LEMMA Pushed ==
  ASSUME NEW s \in TabRow, NEW to \in Page
  PROVE  LET r == Push(s, to) IN
           /\ r \in TabRow
           /\ \/ r.phase = "legacy" /\ r.token = 0 /\ to \notin {"login", "home"}
              \/ /\ r.phase = s.phase /\ r.page = s.page /\ r.token = s.token /\ r.user = s.user
                 /\ r.nav = "admin" => s.token # 0 /\ IsAdmin(s)
                 /\ Shows(r) => s.token # 0 /\ IsAdmin(s)
                 /\ to \in {"login", "home"} => r.nav \in {"none", "login", "home"}
<1> DEFINE dest == RouteGuard(s, to)
<1>1. /\ dest \in Page
      /\ dest = "admin" => s.token # 0 /\ IsAdmin(s)
      /\ to \in {"login", "home"} => dest \in {"login", "home"}
  BY Guarded
<1>2. Push(s, to) = IF LeavesFor(dest, "unset") THEN [Closed EXCEPT !.phase = "legacy"]
                    ELSE [s EXCEPT !.nav = IF dest = s.page THEN "none" ELSE dest]
  BY DEF Push
<1> HIDE DEF dest
<1>3. CASE LeavesFor(dest, "unset")
  <2>1. [Closed EXCEPT !.phase = "legacy"] \in TabRow
    BY DEF Closed, TabRow, Phase, Page, Captcha
  <2>2. dest = "devices"
    BY <1>3 DEF LeavesFor
  <2> QED BY <1>1, <1>2, <1>3, <2>1, <2>2 DEF Closed
<1>4. CASE ~LeavesFor(dest, "unset")
  <2>1. PICK n \in Page \cup {"none"} : n = IF dest = s.page THEN "none" ELSE dest
    BY <1>1
  <2>2. Push(s, to) = [s EXCEPT !.nav = n]
    BY <1>2, <1>4, <2>1
  <2>3. /\ Push(s, to) \in TabRow /\ Push(s, to).phase = s.phase /\ Push(s, to).page = s.page
        /\ Push(s, to).token = s.token /\ Push(s, to).user = s.user /\ Push(s, to).nav = n
    BY <2>2 DEF TabRow
  <2>4. s.page \in Page /\ "none" \notin Page
    BY DEF TabRow, Page
  <2> HIDE DEF Page
  <2> QED BY <1>1, <2>1, <2>3, <2>4 DEF Shows
<1> QED BY <1>3, <1>4

LEMMA ClearedRow ==
  ASSUME NEW s \in TabRow
  PROVE  /\ Cleared(s) \in TabRow
         /\ Cleared(s).phase = s.phase /\ Cleared(s).page = s.page /\ Cleared(s).nav = s.nav
         /\ Cleared(s).token = 0
BY DEF Cleared, TabRow

\* After a 401 the tab has no token and shows, or is about to show, nothing new.
LEMMA Ended ==
  ASSUME NEW s \in TabRow
  PROVE  /\ Unauthorized(s) \in TabRow /\ Push(Cleared(s), "login") \in TabRow
         /\ Unauthorized(s).phase = s.phase /\ Push(Cleared(s), "login").phase = s.phase
         /\ Unauthorized(s).page = s.page /\ Push(Cleared(s), "login").page = s.page
         /\ Unauthorized(s).token = 0 /\ Push(Cleared(s), "login").token = 0
         /\ Unauthorized(s).nav = s.nav \/ Unauthorized(s).nav \in {"none", "login", "home"}
         /\ Push(Cleared(s), "login").nav \in {"none", "login", "home"}
<1>1. "login" \in Page
  BY DEF Page
<1>2. /\ Push(Cleared(s), "login") \in TabRow
      /\ Push(Cleared(s), "login").phase = s.phase /\ Push(Cleared(s), "login").page = s.page
      /\ Push(Cleared(s), "login").token = 0
      /\ Push(Cleared(s), "login").nav \in {"none", "login", "home"}
  BY <1>1, ClearedRow, Pushed
<1> QED BY <1>2, ClearedRow DEF Unauthorized

-----------------------------------------------------------------------------
(* The steps, by what they do to the tabs *)

\* What the invariant looks at in a tab.
SameSession(a, b) ==
  a.phase = b.phase /\ a.page = b.page /\ a.nav = b.nav /\ a.token = b.token /\ a.user = b.user

NetTyped == \A m \in net: MessageOK(m, Len(token))
AskingKept(t) == Asking(t) => Asking(t)'

LEMMA TabsKept ==
  ASSUME SessionInv, token' \in Seq(TokenRow), Len(token) =< Len(token'), UNCHANGED <<storage, writer>>,
         flags' \in Flag, tab' \in [Tab -> TabRow], \A t \in Tab: SameSession(tab'[t], tab[t]),
         NetTyped', Boots', \A t \in Tab: AskingKept(t)
  PROVE  SessionInv'
<1>1. Len(token) \in Nat /\ Len(token') \in Nat /\ storage \in Nat /\ \A t \in Tab: tab[t].token \in Nat
  BY DEF SessionInv, Typed, TabRow
<1>2. Typed'
  BY <1>1 DEF SessionInv, Typed, NetTyped, SameSession
<1>3. TabFacts'
  BY DEF SessionInv, TabFacts, SameSession, StoredAt, AdmittedAt, Shows, IsAdmin, AskingKept
<1> QED BY <1>2, <1>3 DEF SessionInv

LEMMA TabChanged ==
  ASSUME SessionInv, NEW t \in Tab, NEW s, TabOK(s, Len(token')), tab' = [tab EXCEPT ![t] = s],
         token' \in Seq(TokenRow), Len(token) =< Len(token'), flags' \in Flag,
         writer' = t \/ (writer' = writer /\ storage' = storage),
         storage' \in Nat, storage' =< Len(token'),
         StoredAt(t, s, writer', storage'), AdmittedAt(s, Asking(t)'),
         NetTyped', Boots', \A x \in Tab \ {t}: AskingKept(x)
  PROVE  SessionInv'
<1>1. /\ Len(token) \in Nat /\ Len(token') \in Nat /\ \A x \in Tab: tab[x].token \in Nat
      /\ s \in TabRow /\ s.token =< Len(token') /\ tab \in [Tab -> TabRow]
  BY DEF SessionInv, Typed, TabRow, TabOK
<1>2. tab'[t] = s /\ \A x \in Tab \ {t}: tab'[x] = tab[x]
  BY <1>1
<1>3. Typed'
  BY <1>1, <1>2 DEF SessionInv, Typed, NetTyped
<1>4. \A x \in Tab \ {t}: StoredAt(x, tab'[x], writer', storage') /\ AdmittedAt(tab'[x], Asking(x)')
  BY <1>2 DEF SessionInv, TabFacts, StoredAt, AdmittedAt, AskingKept
<1>5. StoredAt(t, tab'[t], writer', storage') /\ AdmittedAt(tab'[t], Asking(t)')
  BY <1>2
<1>6. TabFacts'
  <2>1. \A x \in Tab: StoredAt(x, tab'[x], writer', storage') /\ AdmittedAt(tab'[x], Asking(x)')
    BY <1>4, <1>5
  <2> QED BY <2>1 DEF TabFacts
<1> QED BY <1>3, <1>6 DEF SessionInv

\* What is in flight is typed, and what boots boots.
LEMMA MessagesKept ==
  ASSUME NEW m, NEW n \in Nat, NEW k \in Nat, MessageOK(m, n), n =< k
  PROVE  MessageOK(m, k)
BY DEF MessageOK, Message

ResultOf(m, r, x) == [m EXCEPT !.res = r, !.tok = x]

LEMMA BootsAnswered ==
  ASSUME Boots, NEW m \in net, NEW a, a.tab = m.tab, a.kind = m.kind, a.ctx = m.ctx,
         net' = (net \ {m}) \cup {a}, \A k \in net: IsBoot(k) => tab'[k.tab].phase = tab[k.tab].phase
  PROVE  Boots' /\ \A t \in Tab: AskingKept(t)
BY DEF Boots, IsBoot, AskingKept, Asking

\* Nothing that boots is added; where a tab stops booting, what boots it goes.
LEMMA BootsKept ==
  ASSUME Boots, \A k \in net': IsBoot(k) => k \in net /\ tab'[k.tab].phase = "booting"
  PROVE  Boots'
BY DEF Boots

\* An answer, with whatever it does to the tokens and to the captcha of a form.
LEMMA Served ==
  ASSUME SessionInv, NEW m \in net, NEW a, net' = (net \ {m}) \cup {a},
         a.tab = m.tab, a.kind = m.kind, a.ctx = m.ctx, MessageOK(a, Len(token')),
         token' \in Seq(TokenRow), Len(token) =< Len(token'), UNCHANGED <<storage, flags, writer>>,
         tab' \in [Tab -> TabRow], \A t \in Tab: SameSession(tab'[t], tab[t])
  PROVE  SessionInv'
<1>1. Len(token) \in Nat /\ Len(token') \in Nat /\ \A k \in net: MessageOK(k, Len(token))
  BY DEF SessionInv, Typed
<1>2. NetTyped'
  BY <1>1, MessagesKept DEF NetTyped
<1>3. Boots' /\ \A t \in Tab: AskingKept(t)
  <2>1. \A k \in net: k.tab \in Tab
    BY <1>1 DEF MessageOK, Message
  <2> QED BY <2>1, BootsAnswered DEF SessionInv, SameSession
<1>4. flags' \in Flag
  BY DEF SessionInv, Typed
<1> QED BY <1>2, <1>3, <1>4, TabsKept

\* Requests are sent, or answers dropped that are no whoami's.
LEMMA Sent ==
  ASSUME SessionInv, \A k \in net': k \in net \/ (MessageOK(k, Len(token)) /\ ~IsBoot(k)),
         \A k \in net: k.kind = "whoami" => k \in net',
         token' \in Seq(TokenRow), Len(token') = Len(token), UNCHANGED <<storage, writer>>,
         flags' \in Flag, tab' \in [Tab -> TabRow], \A t \in Tab: SameSession(tab'[t], tab[t])
  PROVE  SessionInv'
<1>1. NetTyped'
  BY DEF NetTyped, SessionInv, Typed
<1>2. \A k \in net: k.tab \in Tab
  BY DEF SessionInv, Typed, MessageOK, Message
<1>3. Boots'
  BY <1>2, BootsKept DEF SessionInv, Boots, SameSession
<1>4. \A t \in Tab: AskingKept(t)
  BY DEF AskingKept, Asking
<1>5. Len(token) =< Len(token')
  BY DEF SessionInv, Typed
<1> QED BY <1>1, <1>3, <1>4, <1>5, TabsKept

LEMMA CaptchaSet ==
  ASSUME tab \in [Tab -> TabRow], NEW t \in Tab, NEW c \in Captcha, NEW b \in BOOLEAN,
         tab' = [tab EXCEPT ![t] = [tab[t] EXCEPT !.captcha = c, !.busy = b]]
  PROVE  tab' \in [Tab -> TabRow] /\ \A x \in Tab: SameSession(tab'[x], tab[x])
<1>1. PICK s \in TabRow: s = [tab[t] EXCEPT !.captcha = c, !.busy = b]
  BY DEF TabRow
<1>2. SameSession(s, tab[t])
  BY <1>1 DEF SameSession, TabRow
<1> QED BY <1>1, <1>2 DEF SameSession

LEMMA TokenEnded ==
  ASSUME token \in Seq(TokenRow), NEW i \in DOMAIN token, token' = [token EXCEPT ![i].ok = FALSE]
  PROVE  token' \in Seq(TokenRow) /\ Len(token') = Len(token)
<1>1. PICK no \in BOOLEAN: no = FALSE
  OBVIOUS
<1>2. PICK k: k = token[i]
  OBVIOUS
<1>3. k \in TokenRow
  BY <1>2
<1>4. PICK e: e = [k EXCEPT !.ok = no]
  OBVIOUS
<1>5. e \in TokenRow
  BY <1>3, <1>4 DEF TokenRow
<1>6. token' = [token EXCEPT ![i] = e]
  BY <1>1, <1>2, <1>4, Zenon
<1>7. i \in 1 .. Len(token) /\ token \in [1 .. Len(token) -> TokenRow] /\ Len(token) \in Nat
  OBVIOUS
<1>8. token' \in [1 .. Len(token) -> TokenRow]
  BY <1>5, <1>6, <1>7
<1> QED BY <1>7, <1>8

-----------------------------------------------------------------------------
(* The back end *)

LEMMA ServeSession ==
  ASSUME SessionInv, NEW m \in net,
         ServeLogin(m) \/ ServeWhoami(m) \/ ServeLogout(m) \/ ServePage(m) \/ FailRequest(m)
  PROVE  SessionInv'
<1>1. /\ Len(token) \in Nat /\ MessageOK(m, Len(token)) /\ token \in Seq(TokenRow)
      /\ tab \in [Tab -> TabRow] /\ flags \in Flag
  BY DEF SessionInv, Typed
<1>2. m.tok \in Nat /\ m.tok =< Len(token) /\ m.tab \in Tab /\ (m.kind = "login" => m.user \in User)
  BY <1>1 DEF MessageOK, Message
<1>a. ASSUME NEW r \in {"ok", "401", "403", "refused", "failed"}, NEW x \in Nat,
             token' \in Seq(TokenRow), x =< Len(token'), m.kind = "whoami" /\ r = "ok" => x # 0,
             NEW a, a = ResultOf(m, r, x)
      PROVE  MessageOK(a, Len(token')) /\ a.tab = m.tab /\ a.kind = m.kind /\ a.ctx = m.ctx
  <2>1. PICK n \in Nat: n = Len(token) /\ MessageOK(m, n)
    BY <1>1
  <2>2. PICK k \in Nat: k = Len(token')
    BY <1>a
  <2>3. MessageOK(a, k) /\ a.tab = m.tab /\ a.kind = m.kind /\ a.ctx = m.ctx
    <3>1. x =< k /\ MessageOK(m, n) /\ (m.kind = "whoami" /\ r = "ok" => x # 0) /\ a = ResultOf(m, r, x)
      BY <1>a, <2>1, <2>2
    <3> QED BY <3>1 DEF MessageOK, Message, ResultOf
  <2> QED BY <2>2, <2>3
<1>3. ASSUME ServeLogin(m) PROVE SessionInv'
  <2>1. UNCHANGED <<storage, flags, writer>> /\ m.kind = "login"
    BY <1>3 DEF ServeLogin, Pending
  <2>2. tab' \in [Tab -> TabRow] /\ \A t \in Tab: SameSession(tab'[t], tab[t])
    <3>1. PICK c \in Captcha: c = IF tab[m.tab].captcha = "ready" THEN "spent" ELSE tab[m.tab].captcha
      BY <1>1, <1>2 DEF TabRow, Captcha
    <3>2. PICK b \in BOOLEAN: b = tab[m.tab].busy
      BY <1>1, <1>2 DEF TabRow
    <3>3. tab' = [tab EXCEPT ![m.tab] = [tab[m.tab] EXCEPT !.captcha = c, !.busy = b]]
      BY <1>1, <1>2, <1>3, <3>1, <3>2 DEF ServeLogin, TabRow
    <3> QED BY <1>1, <1>2, <3>3, CaptchaSet
  <2>3. CASE (Answer(m, "refused") \/ Answer(m, "403")) /\ UNCHANGED token
    <3>1. PICK r \in {"refused", "403"}: net' = (net \ {m}) \cup {[m EXCEPT !.res = r, !.tok = 0]}
      BY <2>3 DEF Answer
    <3>2. PICK x \in Nat: x = 0
      OBVIOUS
    <3>3. PICK a: a = ResultOf(m, r, x)
      OBVIOUS
    <3>4. MessageOK(a, Len(token')) /\ a.tab = m.tab /\ a.kind = m.kind /\ a.ctx = m.ctx
      BY <1>1, <1>a, <2>1, <2>3, <3>2, <3>3
    <3>5. net' = (net \ {m}) \cup {a}
      BY <3>1, <3>2, <3>3 DEF ResultOf
    <3> QED BY <1>1, <2>1, <2>2, <2>3, <3>4, <3>5, Served
  <2>4. CASE /\ token' = Append(token, [user |-> m.user, ok |-> TRUE])
             /\ net' = (net \ {m}) \cup {[m EXCEPT !.res = "ok", !.tok = Len(token) + 1]}
    <3>1. [user |-> m.user, ok |-> TRUE] \in TokenRow
      BY <1>2, <2>1 DEF TokenRow
    <3>2. token' \in Seq(TokenRow) /\ Len(token') = Len(token) + 1
      BY <1>1, <2>4, <3>1
    <3>3. PICK x \in Nat: x = Len(token) + 1
      BY <1>1
    <3>4. PICK a: a = ResultOf(m, "ok", x)
      OBVIOUS
    <3>5. MessageOK(a, Len(token')) /\ a.tab = m.tab /\ a.kind = m.kind /\ a.ctx = m.ctx
      BY <1>1, <1>a, <2>1, <3>2, <3>3, <3>4
    <3>6. net' = (net \ {m}) \cup {a}
      BY <2>4, <3>3, <3>4 DEF ResultOf
    <3>7. Len(token) =< Len(token')
      BY <1>1, <3>2
    <3> QED BY <1>1, <2>1, <2>2, <3>2, <3>5, <3>6, <3>7, Served
  <2> QED BY <1>3, <2>3, <2>4 DEF ServeLogin
<1>4. ASSUME NEW r \in {"ok", "401", "failed"}, Answer(m, r), UNCHANGED browser,
             token' \in Seq(TokenRow), Len(token') = Len(token), r = "ok" => Accepts(m.tok)
      PROVE  SessionInv'
  <2>1. PICK x \in Nat: x = IF r = "ok" THEN m.tok ELSE 0
    BY <1>2
  <2>2. PICK a: a = ResultOf(m, r, x) /\ net' = (net \ {m}) \cup {a}
    BY <1>4, <2>1 DEF Answer, ResultOf
  <2>3. x =< Len(token') /\ (m.kind = "whoami" /\ r = "ok" => x # 0)
    BY <1>1, <1>2, <1>4, <2>1 DEF Accepts
  <2>4. UNCHANGED <<storage, flags, writer, tab>> /\ Len(token) =< Len(token')
    BY <1>1, <1>4 DEF browser
  <2>5. MessageOK(a, Len(token')) /\ a.tab = m.tab /\ a.kind = m.kind /\ a.ctx = m.ctx
    BY <1>a, <1>4, <2>2, <2>3
  <2> QED BY <1>1, <1>4, <2>2, <2>4, <2>5, Served DEF SameSession
<1>5. CASE ServeWhoami(m)
  BY <1>1, <1>4, <1>5 DEF ServeWhoami
<1>6. CASE ServeLogout(m)
  <2>1. token' \in Seq(TokenRow) /\ Len(token') = Len(token)
    <3>1. CASE m.tok = 0
      BY <1>1, <1>6, <3>1 DEF ServeLogout
    <3>2. CASE m.tok # 0
      <4>1. token' = [token EXCEPT ![m.tok].ok = FALSE] /\ m.tok \in DOMAIN token
        BY <1>1, <1>2, <1>6, <3>2 DEF ServeLogout
      <4> QED BY <1>1, <4>1, TokenEnded
    <3> QED BY <3>1, <3>2
  <2> QED BY <1>4, <1>6, <2>1 DEF ServeLogout
<1>7. ASSUME net' = net \ {m}, m.kind = "page", UNCHANGED <<token, browser>> PROVE SessionInv'
  BY <1>1, <1>7, Sent DEF browser, SameSession
<1>8. CASE ServePage(m)
  BY <1>1, <1>4, <1>7, <1>8 DEF ServePage, Pending
<1>9. CASE FailRequest(m)
  BY <1>1, <1>4, <1>7, <1>9 DEF FailRequest
<1> QED BY <1>3, <1>5, <1>6, <1>8, <1>9

LEMMA EndTokenSession ==
  ASSUME SessionInv, NEW i \in DOMAIN token, EndToken(i)
  PROVE  SessionInv'
<1>1. token' = [token EXCEPT ![i].ok = FALSE] /\ UNCHANGED <<browser, net>>
  BY DEF EndToken
<1>2. token \in Seq(TokenRow) /\ flags \in Flag /\ tab \in [Tab -> TabRow]
  BY DEF SessionInv, Typed
<1>3. token' \in Seq(TokenRow) /\ Len(token') = Len(token)
  BY <1>1, <1>2, TokenEnded
<1> QED BY <1>1, <1>2, <1>3, Sent DEF browser, SameSession

LEMMA OtherTabSession ==
  ASSUME SessionInv, OtherTab
  PROVE  SessionInv'
<1>1. /\ token \in Seq(TokenRow) /\ Len(token) \in Nat /\ UNCHANGED <<flags, tab, net>> /\ writer' = NoTab
      /\ \A k \in net: MessageOK(k, Len(token))
  BY DEF SessionInv, Typed, OtherTab
<1>2. token' \in Seq(TokenRow) /\ Len(token) =< Len(token') /\ storage' \in Nat /\ storage' =< Len(token')
  <2>1. CASE storage' = 0 /\ UNCHANGED token
    BY <1>1, <2>1
  <2>2. CASE \E u \in User: token' = Append(token, [user |-> u, ok |-> TRUE]) /\ storage' = Len(token) + 1
    <3>1. PICK u \in User: token' = Append(token, [user |-> u, ok |-> TRUE]) /\ storage' = Len(token) + 1
      BY <2>2
    <3>2. PICK k \in TokenRow: k = [user |-> u, ok |-> TRUE]
      BY DEF TokenRow
    <3>3. token' \in Seq(TokenRow) /\ Len(token') = Len(token) + 1
      BY <1>1, <3>1, <3>2
    <3> QED BY <1>1, <3>1, <3>3
  <2> QED BY <2>1, <2>2 DEF OtherTab
<1>3. Typed'
  <2>1. \A k \in net: MessageOK(k, Len(token'))
    BY <1>1, <1>2, MessagesKept
  <2>2. \A t \in Tab: tab[t].token \in Nat
    BY DEF SessionInv, Typed, TabRow
  <2> QED BY <1>1, <1>2, <2>1, <2>2 DEF SessionInv, Typed
<1>4. Boots' /\ TabFacts'
  BY <1>1, SessionAssumption DEF SessionInv, Boots, TabFacts, StoredAt, AdmittedAt, Asking
<1> QED BY <1>3, <1>4 DEF SessionInv


-----------------------------------------------------------------------------
(* The tabs *)

LEMMA RequestOK ==
  ASSUME NEW t \in Tab, NEW kind \in {"login", "whoami", "logout", "page"},
         NEW ctx \in Captcha \cup {"boot", "login", "menu", "page"}, NEW u \in User \cup {NoUser},
         NEW x \in Nat, NEW n \in Nat, x =< n, kind = "login" => u \in User
  PROVE  LET k == Request(t, kind, ctx, u, x) IN
           MessageOK(k, n) /\ k.tab = t /\ k.kind = kind /\ k.ctx = ctx
BY DEF Request, MessageOK, Message

LEMMA MountedOK ==
  ASSUME NEW t \in Tab, NEW page, storage \in Nat, NEW n \in Nat, storage =< n
  PROVE  \A k \in Mounted(t, page): MessageOK(k, n) /\ ~IsBoot(k)
BY RequestOK DEF Mounted, IsBoot

\* A step of one tab, with the requests it sends and the answers it takes.
LEMMA TabMoved ==
  ASSUME SessionInv, NEW t \in Tab, NEW s \in TabRow, tab' = [tab EXCEPT ![t] = s], s.token =< Len(token),
         UNCHANGED token, flags' \in Flag, writer' = t \/ (writer' = writer /\ storage' = storage),
         storage' \in Nat, storage' =< Len(token),
         StoredAt(t, s, writer', storage'), AdmittedAt(s, Asking(t)'),
         \A k \in net': \/ k \in net /\ (IsBoot(k) /\ k.tab = t => s.phase = "booting")
                        \/ MessageOK(k, Len(token)) /\ ~IsBoot(k),
         \A k \in net: k.kind = "whoami" /\ k.tab # t => k \in net'
  PROVE  SessionInv'
<1>1. /\ token' = token /\ token' \in Seq(TokenRow) /\ Len(token) =< Len(token')
      /\ tab \in [Tab -> TabRow]
  BY DEF SessionInv, Typed
<1>2. NetTyped'
  BY <1>1 DEF NetTyped, SessionInv, Typed
<1>3. \A k \in net: k.tab \in Tab
  BY DEF SessionInv, Typed, MessageOK, Message
<1>4. \A k \in net': IsBoot(k) => k \in net /\ tab'[k.tab].phase = "booting"
  BY <1>1, <1>3 DEF SessionInv, Boots
<1>5. Boots'
  BY <1>4, BootsKept DEF SessionInv
<1>6. \A x \in Tab \ {t}: AskingKept(x)
  BY DEF AskingKept, Asking
<1>7. TabOK(s, Len(token'))
  BY <1>1 DEF TabOK
<1> QED BY <1>1, <1>2, <1>5, <1>6, <1>7, TabChanged

\* The tab goes to the old bundle, whose document knows nothing of the requests.
LEMMA TabLeft ==
  ASSUME SessionInv, NEW t \in Tab, NEW s \in TabRow, tab' = [tab EXCEPT ![t] = s],
         s.phase = "legacy", s.token = 0, net' = Abandoned(t), UNCHANGED <<token, storage, writer>>, flags' \in Flag
  PROVE  SessionInv'
<1>1. storage \in Nat /\ storage =< Len(token) /\ Len(token) \in Nat
  BY DEF SessionInv, Typed
<1>2. StoredAt(t, s, writer', storage') /\ AdmittedAt(s, Asking(t)')
  BY DEF StoredAt, AdmittedAt
<1>3. /\ \A k \in net': k \in net /\ k.tab # t
      /\ \A k \in net: k.kind = "whoami" /\ k.tab # t => k \in net'
  BY DEF Abandoned
<1>4. s.token =< Len(token) /\ storage' \in Nat /\ storage' =< Len(token)
  BY <1>1
<1> QED BY <1>2, <1>3, <1>4, TabMoved

LEMMA LegacyRow ==
  LET s == [Closed EXCEPT !.phase = "legacy"] IN s \in TabRow /\ s.phase = "legacy" /\ s.token = 0
BY DEF Closed, TabRow, Phase, Page, Captcha

LEMMA RequestsSession ==
  ASSUME SessionInv, NEW t \in Tab,
         \/ PageRequest(t) \/ DoLogout(t) \/ CaptchaExpires(t)
         \/ \E ok \in BOOLEAN: RefreshCaptcha(t, ok)
         \/ \E u \in User: Submit(t, u)
  PROVE  SessionInv'
<1>1. /\ Len(token) \in Nat /\ token \in Seq(TokenRow) /\ tab \in [Tab -> TabRow] /\ flags \in Flag
      /\ storage \in Nat /\ storage =< Len(token) /\ tab[t] \in TabRow
  BY DEF SessionInv, Typed
<1>2. ASSUME NEW k, MessageOK(k, Len(token)), ~IsBoot(k), net' = net \cup {k}, UNCHANGED <<token, storage, flags, writer>>,
             tab' \in [Tab -> TabRow], \A x \in Tab: SameSession(tab'[x], tab[x])
      PROVE  SessionInv'
  BY <1>1, <1>2, Sent
<1>3. ASSUME PageRequest(t) \/ DoLogout(t) PROVE SessionInv'
  <2>1. PICK k: /\ k = Request(t, "page", "page", NoUser, storage) \/ k = Request(t, "logout", "menu", NoUser, storage)
                /\ net' = net \cup {k} /\ UNCHANGED <<token, browser>>
    BY <1>3 DEF PageRequest, DoLogout
  <2>2. MessageOK(k, Len(token)) /\ ~IsBoot(k)
    <3>1. CASE k = Request(t, "page", "page", NoUser, storage)
      BY <1>1, <3>1 DEF Request, MessageOK, Message, IsBoot
    <3>2. CASE k = Request(t, "logout", "menu", NoUser, storage)
      BY <1>1, <3>2 DEF Request, MessageOK, Message, IsBoot
    <3> QED BY <2>1, <3>1, <3>2
  <2>3. tab' \in [Tab -> TabRow] /\ \A x \in Tab: SameSession(tab'[x], tab[x])
    BY <1>1, <2>1 DEF browser, SameSession
  <2> QED BY <1>2, <2>1, <2>2, <2>3 DEF browser
<1>4. ASSUME NEW c \in Captcha, tab' = [tab EXCEPT ![t].captcha = c], UNCHANGED <<token, storage, flags, writer, net>>
      PROVE  SessionInv'
  <2>1. PICK b \in BOOLEAN: b = tab[t].busy
    BY <1>1 DEF TabRow
  <2>2. tab' = [tab EXCEPT ![t] = [tab[t] EXCEPT !.captcha = c, !.busy = b]]
    BY <1>1, <1>4, <2>1 DEF TabRow
  <2>3. tab' \in [Tab -> TabRow] /\ \A x \in Tab: SameSession(tab'[x], tab[x])
    BY <1>1, <2>2, CaptchaSet
  <2> QED BY <1>1, <1>4, <2>3, Sent
<1>5. CASE CaptchaExpires(t)
  BY <1>4, <1>5 DEF CaptchaExpires, Captcha
<1>6. ASSUME NEW ok \in BOOLEAN, RefreshCaptcha(t, ok) PROVE SessionInv'
  <2>1. PICK c \in Captcha: c = IF ok THEN "ready" ELSE "none"
    BY DEF Captcha
  <2> QED BY <1>4, <1>6, <2>1 DEF RefreshCaptcha
<1>7. ASSUME NEW u \in User, Submit(t, u) PROVE SessionInv'
  <2>1. PICK c \in Captcha: c = tab[t].captcha
    BY <1>1 DEF TabRow
  <2>2. PICK yes \in BOOLEAN: yes = TRUE
    OBVIOUS
  <2>3. tab' = [tab EXCEPT ![t] = [tab[t] EXCEPT !.captcha = c, !.busy = yes]]
    <3>1. tab' = [tab EXCEPT ![t].busy = yes]
      BY <1>7, <2>2, Zenon DEF Submit
    <3> QED BY <1>1, <2>1, <3>1 DEF TabRow
  <2>4. tab' \in [Tab -> TabRow] /\ \A x \in Tab: SameSession(tab'[x], tab[x])
    BY <1>1, <2>3, CaptchaSet
  <2>5. PICK k: k = Request(t, "login", c, u, 0) /\ net' = net \cup {k}
    BY <1>7, <2>1 DEF Submit
  <2>6. MessageOK(k, Len(token)) /\ ~IsBoot(k)
    BY <1>1, <2>5, RequestOK DEF IsBoot
  <2> QED BY <1>2, <1>7, <2>4, <2>5, <2>6 DEF Submit
<1> QED BY <1>3, <1>5, <1>6, <1>7

LEMMA NavigateSession ==
  ASSUME SessionInv, NEW t \in Tab, NEW to \in Page, Navigate(t, to)
  PROVE  SessionInv'
<1>1. /\ Len(token) \in Nat /\ tab \in [Tab -> TabRow] /\ tab[t] \in TabRow /\ flags \in Flag
      /\ storage \in Nat /\ storage =< Len(token) /\ tab[t].token =< Len(token)
  BY DEF SessionInv, Typed
<1>2. PICK s \in TabRow: s = Push(tab[t], to)
  BY <1>1, Pushed
<1>3. /\ tab' = [tab EXCEPT ![t] = s] /\ tab'[t] = s /\ UNCHANGED <<token, storage, flags, writer>>
      /\ net' = IF s.phase = "legacy" THEN Abandoned(t) ELSE net
      /\ tab[t].phase = "open"
  BY <1>1, <1>2 DEF Navigate, Open
<1>4. CASE s.phase = "legacy"
  <2>1. s.token = 0
    BY <1>1, <1>2, <1>3, <1>4, Pushed
  <2> QED BY <1>1, <1>3, <1>4, <2>1, TabLeft
<1>5. CASE s.phase # "legacy"
  <2>1. /\ s.phase = tab[t].phase /\ s.token = tab[t].token /\ s.user = tab[t].user
        /\ Shows(s) => IsAdmin(tab[t])
    BY <1>1, <1>2, <1>5, Pushed
  <2>2. StoredAt(t, s, writer', storage') /\ AdmittedAt(s, Asking(t)')
    BY <1>3, <2>1 DEF SessionInv, TabFacts, StoredAt, AdmittedAt, IsAdmin
  <2>3. \A k \in net: ~(IsBoot(k) /\ k.tab = t)
    BY <1>3 DEF SessionInv, Boots
  <2> QED BY <1>1, <1>3, <1>5, <2>1, <2>2, <2>3, TabMoved
<1> QED BY <1>4, <1>5

LEMMA SwitchUiSession ==
  ASSUME SessionInv, NEW t \in Tab, NEW v \in {"new", "legacy"}, SwitchUi(t, v)
  PROVE  SessionInv'
<1>1. flags' \in Flag /\ UNCHANGED <<token, storage, writer>>
  BY DEF SessionInv, Typed, SwitchUi, Flag
<1>2. token \in Seq(TokenRow) /\ tab \in [Tab -> TabRow]
  BY DEF SessionInv, Typed
<1>3. CASE v = "legacy"
  <2>1. PICK s \in TabRow: s = [Closed EXCEPT !.phase = "legacy"] /\ s.phase = "legacy" /\ s.token = 0
    BY LegacyRow
  <2>2. tab' = [tab EXCEPT ![t] = s] /\ net' = Abandoned(t)
    BY <1>3, <2>1 DEF SwitchUi
  <2> QED BY <1>1, <2>1, <2>2, TabLeft
<1>4. CASE v # "legacy"
  <2>1. UNCHANGED <<tab, net>>
    BY <1>4 DEF SwitchUi
  <2> QED BY <1>1, <1>2, <2>1, Sent DEF SameSession
<1> QED BY <1>3, <1>4

LEMMA NavDoneSession ==
  ASSUME SessionInv, NEW t \in Tab, NavDone(t)
  PROVE  SessionInv'
<1>1. /\ Len(token) \in Nat /\ tab \in [Tab -> TabRow] /\ tab[t] \in TabRow /\ flags \in Flag
      /\ storage \in Nat /\ storage =< Len(token) /\ tab[t].token =< Len(token)
      /\ tab[t].phase = "open" /\ tab[t].nav \in Page
  BY DEF SessionInv, Typed, NavDone, Open, TabRow
<1>2. PICK no \in BOOLEAN: no = FALSE
  OBVIOUS
<1>3. PICK s: s = [tab[t] EXCEPT !.page = tab[t].nav, !.nav = "none", !.busy = no, !.captcha = "none"]
  OBVIOUS
<1>4. tab' = [tab EXCEPT ![t] = s] /\ UNCHANGED <<token, storage, flags, writer>> /\ net' = net \cup Mounted(t, tab[t].nav)
  BY <1>2, <1>3, Zenon DEF NavDone
<1>5. /\ s \in TabRow /\ s.phase = "open" /\ s.token = tab[t].token /\ s.user = tab[t].user
      /\ s.page = tab[t].nav /\ s.nav = "none"
  BY <1>1, <1>3 DEF TabRow, Captcha
<1>6. \A k \in Mounted(t, tab[t].nav): MessageOK(k, Len(token)) /\ ~IsBoot(k)
  BY <1>1, MountedOK
<1>7. Asking(t) => Asking(t)'
  BY <1>4 DEF Asking
<1>8. StoredAt(t, s, writer', storage') /\ AdmittedAt(s, Asking(t)')
  BY <1>1, <1>4, <1>5, <1>7 DEF SessionInv, TabFacts, StoredAt, AdmittedAt, Shows, IsAdmin
<1>9. \A k \in net: ~(IsBoot(k) /\ k.tab = t)
  BY <1>1 DEF SessionInv, Boots
<1> QED BY <1>1, <1>4, <1>5, <1>6, <1>8, <1>9, TabMoved

LEMMA LoadSession ==
  ASSUME SessionInv, NEW t \in Tab, NEW at \in Page, NEW url \in Flag, Load(t, at, url)
  PROVE  SessionInv'
<1> DEFINE s0 == [Closed EXCEPT !.token = storage]
           dest == RouteGuard(s0, at)
<1>1. /\ token \in Seq(TokenRow) /\ Len(token) \in Nat /\ tab \in [Tab -> TabRow] /\ flags' \in Flag
      /\ storage \in Nat /\ storage =< Len(token) /\ UNCHANGED <<token, storage, flags, writer>>
      /\ \A k \in net: MessageOK(k, Len(token)) /\ k.tab \in Tab
  BY DEF SessionInv, Typed, Load, MessageOK, Message
<1>2. s0.token = storage /\ ~IsAdmin(s0)
  BY SessionAssumption DEF Closed, IsAdmin
<1>3. PICK d \in Page: d = dest /\ (d = "admin" => IsAdmin(s0))
  BY Guarded
<1>4. /\ tab' = [tab EXCEPT ![t] =
           IF LeavesFor(d, url) THEN [Closed EXCEPT !.phase = "legacy"]
           ELSE [s0 EXCEPT !.page = d, !.phase = IF storage = 0 THEN "open" ELSE "booting"]]
      /\ net' = Abandoned(t) \cup
           IF LeavesFor(d, url) THEN {}
           ELSE IF storage = 0 THEN Mounted(t, d) ELSE {Request(t, "whoami", "boot", NoUser, storage)}
  BY <1>3 DEF Load
<1>5. CASE LeavesFor(d, url)
  <2>1. PICK s \in TabRow: s = [Closed EXCEPT !.phase = "legacy"] /\ s.phase = "legacy" /\ s.token = 0
    BY LegacyRow
  <2> QED BY <1>1, <1>4, <1>5, <2>1, TabLeft
<1>6. CASE ~LeavesFor(d, url)
  <2>1. PICK p \in Phase: p = IF storage = 0 THEN "open" ELSE "booting"
    BY DEF Phase
  <2>2. PICK s: s = [s0 EXCEPT !.page = d, !.phase = p]
    OBVIOUS
  <2>3. s \in TabRow /\ s.phase = p /\ s.page = d /\ s.nav = "none" /\ s.token = storage
    BY <1>1, <2>2 DEF TabRow, Closed, Captcha
  <2>4. tab' = [tab EXCEPT ![t] = s]
    BY <1>4, <1>6, <2>1, <2>2
  <2>5. d # "admin"
    BY <1>2, <1>3
  <2>6. StoredAt(t, s, writer', storage') /\ AdmittedAt(s, Asking(t)')
    BY <1>1, <2>1, <2>3, <2>5 DEF StoredAt, AdmittedAt
  <2>7. \A k \in Abandoned(t): k \in net /\ k.tab # t
    BY DEF Abandoned
  <2>8. \A k \in net: k.kind = "whoami" /\ k.tab # t => k \in net'
    BY <1>4 DEF Abandoned
  <2> HIDE DEF s0, dest
  <2>9. CASE storage = 0
    <3>1. net' = Abandoned(t) \cup Mounted(t, d)
      BY <1>4, <1>6, <2>9
    <3>2. \A k \in Mounted(t, d): MessageOK(k, Len(token)) /\ ~IsBoot(k)
      BY <1>1, MountedOK
    <3>3. \A k \in net': \/ k \in net /\ (IsBoot(k) /\ k.tab = t => s.phase = "booting")
                         \/ MessageOK(k, Len(token)) /\ ~IsBoot(k)
      BY <2>7, <3>1, <3>2
    <3> QED BY <1>1, <2>3, <2>4, <2>6, <2>8, <3>3, TabMoved
  <2>10. CASE storage # 0
    <3>1. PICK b: b = Request(t, "whoami", "boot", NoUser, storage) /\ net' = Abandoned(t) \cup {b}
      BY <1>4, <1>6, <2>10
    <3>2. MessageOK(b, Len(token)) /\ b.tab = t
      BY <1>1, <3>1 DEF Request, MessageOK, Message
    <3>3. p = "booting"
      BY <2>1, <2>10
    <3>4. NetTyped'
      BY <1>1, <2>7, <3>1, <3>2 DEF NetTyped
    <3>5. Boots'
      <4>1. tab'[t] = s /\ \A x \in Tab \ {t}: tab'[x] = tab[x]
        BY <1>1, <2>4
      <4>2. \A k \in net': IsBoot(k) => tab'[k.tab].phase = "booting"
        BY <1>1, <2>3, <2>7, <3>1, <3>2, <3>3, <4>1 DEF SessionInv, Boots
      <4>3. \A k, l \in net': IsBoot(k) /\ IsBoot(l) /\ k.tab = l.tab => k = l
        BY <2>7, <3>1, <3>2 DEF SessionInv, Boots
      <4> QED BY <4>2, <4>3 DEF Boots
    <3>6. \A x \in Tab \ {t}: AskingKept(x)
      BY <2>8 DEF AskingKept, Asking
    <3>7. TabOK(s, Len(token')) /\ Len(token) =< Len(token') /\ token' \in Seq(TokenRow)
          /\ storage' \in Nat /\ storage' =< Len(token')
      BY <1>1, <2>3 DEF TabOK
    <3> QED BY <1>1, <2>4, <2>6, <3>4, <3>5, <3>6, <3>7, TabChanged
  <2> QED BY <2>9, <2>10
<1> QED BY <1>5, <1>6

-----------------------------------------------------------------------------
(* The answers *)

\* What every landing of an answer starts from.
LEMMA Landing ==
  ASSUME SessionInv, NEW m \in net
  PROVE  /\ token \in Seq(TokenRow) /\ Len(token) \in Nat /\ flags \in Flag
         /\ tab \in [Tab -> TabRow] /\ storage \in Nat /\ storage =< Len(token)
         /\ m \in Message /\ m.tok =< Len(token) /\ MessageOK(m, Len(token))
         /\ m.tab \in Tab /\ tab[m.tab] \in TabRow /\ tab[m.tab].token =< Len(token) /\ tab[m.tab].token \in Nat
         /\ StoredAt(m.tab, tab[m.tab], writer, storage) /\ AdmittedAt(tab[m.tab], Asking(m.tab))
         /\ \A k \in net \ {m}: IsBoot(k) /\ k.tab = m.tab => tab[m.tab].phase = "booting" /\ ~IsBoot(m)
         /\ IsBoot(m) => tab[m.tab].phase = "booting"
<1>1. m \in Message /\ m.tab \in Tab /\ MessageOK(m, Len(token)) /\ tab[m.tab] \in TabRow
  BY DEF SessionInv, Typed, MessageOK, Message
<1>2. tab[m.tab].token \in Nat
  BY <1>1 DEF TabRow
<1> QED BY <1>1, <1>2 DEF SessionInv, Typed, TabFacts, Boots, MessageOK

\* An answer ends the session of the tab: no token, no new page but /login or /.
LEMMA SessionEnded ==
  ASSUME SessionInv, NEW m \in net, m.kind # "whoami", UNCHANGED <<token, flags>>, net' = net \ {m},
         storage' = 0, writer' = m.tab, NEW s \in TabRow, tab' = [tab EXCEPT ![m.tab] = s],
         s.phase = tab[m.tab].phase, s.page = tab[m.tab].page, s.token = 0,
         s.nav = tab[m.tab].nav \/ s.nav \in {"none", "login", "home"}
  PROVE  SessionInv'
<1>1. PICK t \in Tab: t = m.tab
  BY Landing
<1>2. Len(token) \in Nat /\ flags' \in Flag /\ s.token =< Len(token) /\ storage' \in Nat /\ storage' =< Len(token)
  BY Landing
<1>3. StoredAt(t, s, writer', storage') /\ AdmittedAt(s, Asking(t)')
  BY <1>1, Landing DEF StoredAt, AdmittedAt
<1>4. \A k \in net': k \in net /\ (IsBoot(k) /\ k.tab = t => s.phase = "booting")
  BY <1>1, Landing
<1>5. \A k \in net: k.kind = "whoami" /\ k.tab # t => k \in net'
  OBVIOUS
<1> QED BY <1>1, <1>2, <1>3, <1>4, <1>5, TabMoved

LEMMA LandLogoutSession ==
  ASSUME SessionInv, NEW m \in net, LandLogout(m)
  PROVE  SessionInv'
<1>1. tab[m.tab] \in TabRow /\ tab \in [Tab -> TabRow] /\ m.tab \in Tab
  BY Landing
<1>2. PICK s \in TabRow: s = Push(Cleared(tab[m.tab]), "login")
  BY <1>1, Ended
<1>3. /\ s.phase = tab[m.tab].phase /\ s.page = tab[m.tab].page /\ s.token = 0
      /\ s.nav \in {"none", "login", "home"}
  BY <1>1, <1>2, Ended
<1>4. tab' = [tab EXCEPT ![m.tab] = s]
  BY <1>1, <1>2 DEF LandLogout
<1> QED BY <1>3, <1>4, SessionEnded DEF LandLogout, Answered

LEMMA LandPageSession ==
  ASSUME SessionInv, NEW m \in net, LandPage(m)
  PROVE  SessionInv'
<1>1. tab[m.tab] \in TabRow /\ tab \in [Tab -> TabRow] /\ m.tab \in Tab /\ token \in Seq(TokenRow) /\ flags \in Flag
  BY Landing
<1>2. CASE m.res = "401"
  <2>1. PICK s \in TabRow: s = Unauthorized(tab[m.tab])
    BY <1>1, Ended
  <2>2. /\ s.phase = tab[m.tab].phase /\ s.page = tab[m.tab].page /\ s.token = 0
        /\ s.nav = tab[m.tab].nav \/ s.nav \in {"none", "login", "home"}
    BY <1>1, <2>1, Ended
  <2>3. tab' = [tab EXCEPT ![m.tab] = s] /\ storage' = 0 /\ writer' = m.tab
    BY <1>1, <1>2, <2>1 DEF LandPage, Storage401
  <2> QED BY <2>2, <2>3, SessionEnded DEF LandPage, Answered
<1>3. CASE m.res # "401"
  <2>1. UNCHANGED <<token, storage, flags, writer, tab>> /\ net' = net \ {m} /\ m.kind = "page"
    BY <1>3 DEF LandPage, Answered, Storage401
  <2> QED BY <1>1, <2>1, Sent DEF SameSession
<1> QED BY <1>2, <1>3

\* The answer of a login: token in the store and in local storage, then whoami.
LEMMA LandLoginSession ==
  ASSUME SessionInv, NEW m \in net, LandLogin(m)
  PROVE  SessionInv'
<1>1. /\ token \in Seq(TokenRow) /\ Len(token) \in Nat /\ flags' \in Flag /\ UNCHANGED <<token, flags>>
      /\ m \in Message /\ m.tok =< Len(token) /\ m.tok \in Nat /\ tab \in [Tab -> TabRow]
      /\ m.kind = "login"
  BY Landing DEF LandLogin, Answered, Message
<1>2. PICK t \in Tab: t = m.tab
  BY Landing
<1>3. tab[t] \in TabRow /\ StoredAt(t, tab[t], writer, storage) /\ AdmittedAt(tab[t], Asking(t))
  BY <1>2, Landing
<1>4. CASE m.res = "ok"
  <2>1. PICK s: s = [tab[t] EXCEPT !.token = m.tok]
    OBVIOUS
  <2>2. s \in TabRow /\ s.phase = tab[t].phase /\ s.page = tab[t].page /\ s.nav = tab[t].nav /\ s.token = m.tok
    BY <1>1, <1>3, <2>1 DEF TabRow
  <2>3. PICK k: /\ k = Request(t, "whoami", "login", NoUser, m.tok) /\ net' = (net \ {m}) \cup {k}
                /\ tab' = [tab EXCEPT ![t] = s] /\ storage' = m.tok /\ writer' = t
    BY <1>1, <1>2, <1>4, <2>1 DEF LandLogin
  <2>4. MessageOK(k, Len(token)) /\ ~IsBoot(k) /\ k.tab = t /\ k.kind = "whoami"
    BY <1>1, <2>3 DEF Request, MessageOK, Message, IsBoot
  <2>5. Asking(t)'
    BY <2>3, <2>4 DEF Asking
  <2>6. StoredAt(t, s, writer', storage') /\ AdmittedAt(s, Asking(t)')
    BY <1>3, <2>2, <2>3, <2>5 DEF StoredAt, AdmittedAt
  <2>7. \A x \in net': \/ x \in net /\ (IsBoot(x) /\ x.tab = t => s.phase = "booting")
                       \/ MessageOK(x, Len(token)) /\ ~IsBoot(x)
    BY <1>2, <2>2, <2>3, <2>4, Landing
  <2>8. \A x \in net: x.kind = "whoami" /\ x.tab # t => x \in net'
    BY <1>1, <2>3
  <2>9. storage' \in Nat /\ storage' =< Len(token) /\ s.token =< Len(token)
    BY <1>1, <2>2, <2>3
  <2> QED BY <1>1, <2>2, <2>3, <2>6, <2>7, <2>8, <2>9, TabMoved
<1>5. CASE m.res # "ok"
  <2>1. PICK no \in BOOLEAN: no = FALSE
    OBVIOUS
  <2>2. PICK c \in Captcha: c = IF m.res = "refused" THEN "none" ELSE tab[t].captcha
    BY <1>3 DEF TabRow, Captcha
  <2>3. tab' = [tab EXCEPT ![t] = [tab[t] EXCEPT !.captcha = c, !.busy = no]]
    <3>1. tab' = [tab EXCEPT ![t].busy = no, ![t].captcha = IF m.res = "refused" THEN "none" ELSE @]
      BY <1>2, <1>5, <2>1, Zenon DEF LandLogin
    <3> QED BY <1>1, <2>2, <3>1 DEF TabRow
  <2>4. tab' \in [Tab -> TabRow] /\ \A x \in Tab: SameSession(tab'[x], tab[x])
    BY <1>1, <2>3, CaptchaSet
  <2>5. net' = net \ {m} /\ UNCHANGED <<storage, writer>>
    BY <1>5 DEF LandLogin
  <2> QED BY <1>1, <2>4, <2>5, Sent
<1> QED BY <1>4, <1>5

LEMMA ResultRow ==
  ASSUME NEW s \in TabRow, NEW m \in Message, token \in Seq(TokenRow), m.tok =< Len(token), m.res = "ok" => m.tok # 0
  PROVE  LET r == WhoamiResult(s, m) IN
           /\ r \in TabRow /\ r.phase = s.phase /\ r.page = s.page
           /\ r.token = IF m.res = "401" THEN 0 ELSE s.token
           /\ r.nav = s.nav \/ r.nav \in {"none", "login", "home"}
<1>1. CASE m.res = "ok"
  <2>1. m.tok \in 1 .. Len(token)
    BY <1>1 DEF Message
  <2>2. token[m.tok] \in TokenRow
    BY <2>1
  <2>3. PICK u \in User: u = token[m.tok].user
    BY <2>2 DEF TokenRow
  <2>4. WhoamiResult(s, m) = [s EXCEPT !.user = u]
    BY <1>1, <2>3 DEF WhoamiResult
  <2> QED BY <1>1, <2>4 DEF TabRow
<1>2. CASE m.res = "401"
  <2>1. WhoamiResult(s, m) = Unauthorized(s)
    BY <1>2 DEF WhoamiResult
  <2> QED BY <1>2, <2>1, Ended
<1>3. CASE m.res # "ok" /\ m.res # "401"
  <2>1. WhoamiResult(s, m) = [s EXCEPT !.user = NoUser]
    BY <1>3 DEF WhoamiResult
  <2> QED BY <1>3, <2>1 DEF TabRow
<1> QED BY <1>1, <1>2, <1>3

LEMMA LandWhoamiSession ==
  ASSUME SessionInv, NEW m \in net, LandWhoami(m)
  PROVE  SessionInv'
<1>1. /\ token \in Seq(TokenRow) /\ Len(token) \in Nat /\ flags' \in Flag /\ UNCHANGED <<token, flags>>
      /\ m \in Message /\ m.tok =< Len(token) /\ tab \in [Tab -> TabRow] /\ storage \in Nat /\ storage =< Len(token)
      /\ m.kind = "whoami" /\ (m.res = "ok" => m.tok # 0)
  BY Landing DEF LandWhoami, Answered, MessageOK
<1>2. PICK t \in Tab: t = m.tab
  BY Landing
<1>3. /\ tab[t] \in TabRow /\ StoredAt(t, tab[t], writer, storage) /\ AdmittedAt(tab[t], Asking(t))
      /\ tab[t].token =< Len(token)
      /\ \A k \in net \ {m}: IsBoot(k) /\ k.tab = t => tab[t].phase = "booting" /\ ~IsBoot(m)
      /\ IsBoot(m) => tab[t].phase = "booting"
  BY <1>2, Landing
<1>4. PICK r: r = WhoamiResult(tab[t], m)
  OBVIOUS
<1>5. /\ r \in TabRow /\ r.phase = tab[t].phase /\ r.page = tab[t].page
      /\ r.token = IF m.res = "401" THEN 0 ELSE tab[t].token
      /\ r.nav = tab[t].nav \/ r.nav \in {"none", "login", "home"}
  BY <1>1, <1>3, <1>4, ResultRow
<1>6. /\ storage' = IF m.res = "401" THEN 0 ELSE storage
      /\ writer' = IF m.res = "401" THEN t ELSE writer
  BY <1>2 DEF LandWhoami, Storage401
<1>7. /\ writer' = t \/ (writer' = writer /\ storage' = storage)
      /\ storage' \in Nat /\ storage' =< Len(token) /\ r.token =< Len(token)
  BY <1>1, <1>3, <1>5, <1>6
<1>8. ASSUME NEW s, s.token = r.token, s.phase \in {"booting", "open"} => tab[t].phase \in {"booting", "open"}
      PROVE  StoredAt(t, s, writer', storage')
  BY <1>3, <1>5, <1>6, <1>8 DEF StoredAt
<1>9. CASE m.ctx = "boot"
  <2>1. PICK s: s = [r EXCEPT !.phase = "open"]
    OBVIOUS
  <2>2. /\ s \in TabRow /\ s.phase = "open" /\ s.page = r.page /\ s.nav = r.nav /\ s.token = r.token
    BY <1>5, <2>1 DEF TabRow, Phase
  <2>3. tab' = [tab EXCEPT ![t] = s] /\ net' = (net \ {m}) \cup Mounted(t, r.page)
    BY <1>2, <1>4, <1>9, <2>1 DEF LandWhoami
  <2>4. IsBoot(m) /\ tab[t].phase = "booting"
    BY <1>1, <1>3, <1>9 DEF IsBoot
  <2>5. StoredAt(t, s, writer', storage') /\ AdmittedAt(s, Asking(t)')
    <3>1. StoredAt(t, s, writer', storage')
      BY <1>8, <2>2, <2>4
    <3>2. s.page # "admin" /\ s.nav # "admin"
      BY <1>3, <1>5, <2>2, <2>4 DEF AdmittedAt
    <3> QED BY <2>2, <3>1, <3>2 DEF AdmittedAt, Shows
  <2>6. \A k \in Mounted(t, r.page): MessageOK(k, Len(token)) /\ ~IsBoot(k)
    BY <1>1, MountedOK
  <2>7. \A k \in net': \/ k \in net /\ (IsBoot(k) /\ k.tab = t => s.phase = "booting")
                       \/ MessageOK(k, Len(token)) /\ ~IsBoot(k)
    BY <1>3, <2>3, <2>4, <2>6
  <2>8. \A k \in net: k.kind = "whoami" /\ k.tab # t => k \in net'
    BY <1>2, <2>3
  <2> QED BY <1>1, <1>7, <2>2, <2>3, <2>5, <2>7, <2>8, TabMoved
<1>10. CASE m.ctx # "boot"
  <2>1. "home" \in Page
    BY DEF Page
  <2>2. PICK p: p = Push(r, "home")
    OBVIOUS
  <2>3. /\ p \in TabRow /\ p.phase = r.phase /\ p.page = r.page /\ p.token = r.token /\ p.user = r.user
        /\ Shows(p) => IsAdmin(r)
        /\ p.nav \in {"none", "login", "home"}
    BY <1>5, <2>1, <2>2, Pushed
  <2>4. PICK no \in BOOLEAN: no = FALSE
    OBVIOUS
  <2>5. PICK s: s = [p EXCEPT !.busy = no]
    OBVIOUS
  <2>6. /\ s \in TabRow /\ s.phase = p.phase /\ s.page = p.page /\ s.nav = p.nav /\ s.token = p.token
        /\ s.user = p.user
    BY <2>3, <2>5 DEF TabRow
  <2>7. tab' = [tab EXCEPT ![t] = s] /\ net' = net \ {m}
    <3>1. tab' = [tab EXCEPT ![t] = [p EXCEPT !.busy = FALSE]] /\ net' = (net \ {m}) \cup {}
      BY <1>2, <1>4, <1>10, <2>2, Zenon DEF LandWhoami
    <3> QED BY <2>4, <2>5, <3>1, Zenon
  <2>8. StoredAt(t, s, writer', storage') /\ AdmittedAt(s, Asking(t)')
    <3>1. StoredAt(t, s, writer', storage')
      BY <1>5, <1>8, <2>3, <2>6
    <3>2. Shows(s) => IsAdmin(s)
      BY <2>3, <2>6 DEF Shows, IsAdmin
    <3>3. s.phase = "booting" => s.page # "admin" /\ s.nav # "admin"
      BY <1>3, <1>5, <2>3, <2>6 DEF AdmittedAt
    <3> QED BY <3>1, <3>2, <3>3 DEF AdmittedAt
  <2>9. \A k \in net': k \in net /\ (IsBoot(k) /\ k.tab = t => s.phase = "booting")
    BY <1>3, <1>5, <2>3, <2>6, <2>7
  <2>10. \A k \in net: k.kind = "whoami" /\ k.tab # t => k \in net'
    BY <1>2, <2>7
  <2>11. s.token =< Len(token)
    BY <1>7, <2>3, <2>6
  <2> QED BY <1>1, <1>7, <2>6, <2>7, <2>8, <2>9, <2>10, <2>11, TabMoved
<1> QED BY <1>9, <1>10

-----------------------------------------------------------------------------
(* The theorems *)

LEMMA SessionNext == SessionInv /\ [Next]_vars => SessionInv'
<1> SUFFICES ASSUME SessionInv, [Next]_vars PROVE SessionInv'
  OBVIOUS
<1>1. CASE UNCHANGED vars
  <2>1. UNCHANGED <<token, storage, flags, writer, tab, net>>
    BY <1>1 DEF vars
  <2>2. token' \in Seq(TokenRow) /\ tab' \in [Tab -> TabRow] /\ flags' \in Flag
    BY <2>1 DEF SessionInv, Typed
  <2> QED BY <2>1, <2>2, Sent DEF SameSession
<1>2. ASSUME NEW m \in net,
             \/ ServeLogin(m) \/ ServeWhoami(m) \/ ServeLogout(m) \/ ServePage(m) \/ FailRequest(m)
             \/ LandLogin(m) \/ LandWhoami(m) \/ LandLogout(m) \/ LandPage(m)
      PROVE  SessionInv'
  BY <1>2, ServeSession, LandLoginSession, LandWhoamiSession, LandLogoutSession, LandPageSession
<1>3. ASSUME NEW t \in Tab,
             \/ NavDone(t) \/ PageRequest(t) \/ DoLogout(t) \/ CaptchaExpires(t)
             \/ \E ok \in BOOLEAN: RefreshCaptcha(t, ok)
             \/ \E at \in Page, url \in Flag: Load(t, at, url)
             \/ \E to \in Page: Navigate(t, to)
             \/ \E u \in User: Submit(t, u)
             \/ \E v \in {"new", "legacy"}: SwitchUi(t, v)
      PROVE  SessionInv'
  BY <1>3, NavDoneSession, RequestsSession, LoadSession, NavigateSession, SwitchUiSession
<1>4. ASSUME NEW i \in DOMAIN token, EndToken(i) PROVE SessionInv'
  BY <1>4, EndTokenSession
<1>5. CASE OtherTab
  BY <1>5, OtherTabSession
<1> QED BY <1>1, <1>2, <1>3, <1>4, <1>5 DEF Next

LEMMA SessionAlways == Spec => []SessionInv
<1> QED BY InitSession, SessionNext, PTL DEF Spec

\* Every token a tab or local storage holds is one that was issued, whatever is in
\* flight and lands late (client.ts, session.ts).
THEOREM SessionTypes == Spec => []TypeOK
<1>1. SessionInv => TypeOK
  BY TypedTypes DEF SessionInv
<1> QED BY <1>1, SessionAlways, PTL

\* The tab that last wrote the token in local storage has the same one in its
\* store: no order of logins, logouts and answers 401 tears the two apart.
THEOREM StoreHasToken == Spec => []StoreMatchesStorage
<1>1. SessionInv => StoreMatchesStorage
  BY DEF SessionInv, TabFacts, StoredAt, StoreMatchesStorage, Open
<1> QED BY <1>1, SessionAlways, PTL

\* /admin is shown for a session only once whoami has named an administrator,
\* however navigation, boot, login and late answers interleave (router/index.ts).
THEOREM AdminPageGuarded == Spec => []AdminPageForAdmins
<1>1. SessionInv => AdminPageForAdmins
  BY DEF SessionInv, TabFacts, AdmittedAt, Shows, AdminPageForAdmins, Open
<1> QED BY <1>1, SessionAlways, PTL
=============================================================================
