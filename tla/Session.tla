------------------------------- MODULE Session -------------------------------
(***************************************************************************)
(* The sessions of one browser: tabs with a store each (session.ts), a     *)
(* token they share in local storage (client.ts), the router and its guard *)
(* (router/index.ts, flags.ts), the login form (LoginView.vue) and the     *)
(* layout (AppLayout.vue).  Requests are in flight in `net`, executed and  *)
(* answered in any order.  What ends a token at the back end is Accounts.  *)
(***************************************************************************)
EXTENDS Naturals, Sequences, FiniteSets

CONSTANTS User, Admins, Tab, NoUser, NoTab,
          Injected,             \* the flag the deployment injects for the module of /devices
          Unlocked,             \* whether local storage holds the debug key
          MaxTokens, MaxNet     \* bounds: tokens issued, requests a person starts while others are in flight

\* What no tab and no user is.
ASSUME SessionAssumption == NoTab \notin Tab /\ NoUser \notin Admins

Page == {"login", "home", "admin", "devices"}
Flag == {"unset", "new", "legacy"}

VARIABLES
  token,      \* the tokens issued, in order: their user and whether the back end accepts them
  storage,    \* the token in local storage (0: none)
  flags,      \* the module's flag in local storage
  writer,     \* history: the tab that last wrote the token in local storage
  tab,        \* tab[t]: what a tab shows and the copy of the session it keeps
  net         \* requests and answers in flight

browser == <<storage, flags, writer, tab>>
vars == <<token, storage, flags, writer, tab, net>>

Closed == [phase |-> "closed", page |-> "login", nav |-> "none", token |-> 0,
           user |-> NoUser, busy |-> FALSE, captcha |-> "none"]

\* A request: who sent it, what it asks, what runs when its answer lands, for
\* which user, and the token the interceptor put on it.
Request(t, kind, ctx, u, tok) ==
  [tab |-> t, kind |-> kind, ctx |-> ctx, user |-> u, tok |-> tok, res |-> "pending"]

TypeOK ==
  /\ \A i \in DOMAIN token: token[i].user \in User /\ token[i].ok \in BOOLEAN
  /\ storage \in {0} \cup DOMAIN token
  /\ flags \in Flag /\ writer \in Tab \cup {NoTab}
  /\ tab \in [Tab -> [phase: {"closed", "booting", "open", "legacy"}, page: Page, nav: Page \cup {"none"},
                      token: {0} \cup DOMAIN token, user: User \cup {NoUser}, busy: BOOLEAN,
                      captcha: {"none", "ready", "spent"}]]
  /\ \A m \in net: /\ m.tab \in Tab \cup {NoTab}
                   /\ m.kind \in {"login", "whoami", "logout", "page"}
                   /\ m.res \in {"pending", "ok", "401", "403", "refused", "failed"}

Init ==
  /\ token = <<>> /\ storage = 0 /\ flags = "unset" /\ writer = NoTab
  /\ tab = [t \in Tab |-> Closed] /\ net = {}

-----------------------------------------------------------------------------
(* The back end *)

Accepts(k) == k # 0 /\ token[k].ok

Answer(m, r) == net' = (net \ {m}) \cup {[m EXCEPT !.res = r, !.tok = IF r = "ok" THEN @ ELSE 0]}
Pending(m, kind) == m \in net /\ m.kind = kind /\ m.res = "pending"

\* Mutant: the answer names a token that has not been recorded.
ServeLoginUnrecorded(m) ==
  /\ Pending(m, "login") /\ m.ctx = "ready" /\ UNCHANGED <<token, browser>>
  /\ net' = (net \ {m}) \cup {[m EXCEPT !.res = "ok", !.tok = Len(token) + 1]}
\* A captcha is used up by the first attempt that names it; a token whose answer
\* is lost is known to nobody.
ServeLogin(m) ==
  /\ Pending(m, "login")
  /\ tab' = [tab EXCEPT ![m.tab].captcha = IF @ = "ready" THEN "spent" ELSE @]
  /\ \/ Answer(m, "refused") /\ UNCHANGED token       \* captcha, name or password
     \/ m.ctx = "ready" /\ Answer(m, "403") /\ UNCHANGED token
     \/ /\ m.ctx = "ready" /\ Len(token) < MaxTokens
        /\ token' = Append(token, [user |-> m.user, ok |-> TRUE])
        /\ net' = (net \ {m}) \cup {[m EXCEPT !.res = "ok", !.tok = Len(token) + 1]}
  /\ UNCHANGED <<storage, flags, writer>>

ServeWhoami(m) ==
  /\ Pending(m, "whoami") /\ Answer(m, IF Accepts(m.tok) THEN "ok" ELSE "401")
  /\ UNCHANGED <<token, browser>>

\* A logout black-lists its token.
ServeLogout(m) ==
  /\ Pending(m, "logout") /\ Answer(m, IF Accepts(m.tok) THEN "ok" ELSE "401")
  /\ token' = IF m.tok = 0 THEN token ELSE [token EXCEPT ![m.tok].ok = FALSE]
  /\ UNCHANGED browser

\* Any other request of a page: of its answers only 401 concerns the session.
ServePage(m) ==
  /\ Pending(m, "page")
  /\ IF Accepts(m.tok) THEN net' = net \ {m} ELSE Answer(m, "401")
  /\ UNCHANGED <<token, browser>>

\* The request or its answer is lost, or the answer is 5xx.
FailRequest(m) ==
  /\ m \in net /\ m.res = "pending"
  /\ IF m.kind = "page" THEN net' = net \ {m} ELSE Answer(m, "failed")
  /\ UNCHANGED <<token, browser>>

\* The user is disabled, deleted or gets another password, the token expires, or
\* a logout was executed whose answer nobody waits for.
EndToken(i) ==
  /\ i \in DOMAIN token /\ token[i].ok /\ token' = [token EXCEPT ![i].ok = FALSE]
  /\ UNCHANGED <<browser, net>>

\* Another tab logs in or out, or switches the interface: all that one tab sees
\* of the others is local storage.
OtherTab ==
  /\ \/ \E u \in User: Len(token) < MaxTokens /\ token' = Append(token, [user |-> u, ok |-> TRUE])
                        /\ storage' = Len(token) + 1
     \/ storage # 0 /\ storage' = 0 /\ UNCHANGED token
  /\ writer' = NoTab /\ UNCHANGED <<flags, tab, net>>

\* Captchas live for minutes in the memory of the process.
CaptchaExpires(t) ==
  /\ tab[t].captcha = "ready" /\ tab' = [tab EXCEPT ![t].captcha = "spent"]
  /\ UNCHANGED <<token, storage, flags, writer, net>>

-----------------------------------------------------------------------------
(* The router *)

\* Without the debug key neither the address nor local storage may override
\* what the deployment injects.
RouteFlag(url) ==
  CASE Unlocked /\ url # "unset" -> url
    [] Unlocked /\ url = "unset" /\ flags # "unset" -> flags
    [] OTHER -> Injected

IsAdmin(s) == s.user \in Admins

\* Mutant: an unknown user is let through.
RouteGuardUnknown(s, to) ==
  CASE to # "login" /\ s.token = 0 -> "login"
    [] to = "login" /\ s.token # 0 -> "home"
    [] to = "admin" /\ s.token # 0 /\ s.user # NoUser /\ ~IsAdmin(s) -> "home"
    [] OTHER -> to

RouteGuard(s, to) ==
  CASE to # "login" /\ s.token = 0 -> "login"
    [] to = "login" /\ s.token # 0 -> "home"
    [] to = "admin" /\ s.token # 0 /\ ~IsAdmin(s) -> "home"
    [] OTHER -> to

LeavesFor(dest, url) == dest = "devices" /\ RouteFlag(url) = "legacy"

\* router.push: the guard decides now, the page is shown once its code has been
\* fetched; a later push replaces one that has not been shown.
Push(s, to) ==
  LET dest == RouteGuard(s, to) IN
  IF LeavesFor(dest, "unset") THEN [Closed EXCEPT !.phase = "legacy"]
  ELSE [s EXCEPT !.nav = IF dest = s.page THEN "none" ELSE dest]

\* Mutant: the store keeps its token.
ClearedUser(s) == [s EXCEPT !.user = NoUser]
\* The interceptor and the handler main.ts registers, on an answer 401.
Cleared(s) == [s EXCEPT !.token = 0, !.user = NoUser]
Unauthorized(s) == IF s.page = "login" THEN Cleared(s) ELSE Push(Cleared(s), "login")

\* The requests of a document that is gone: nobody hears their answers.
Abandoned(t) == {m \in net: m.tab # t}

\* What a page asks for when it is mounted.
Mounted(t, page) == IF page = "login" THEN {} ELSE {Request(t, "page", "page", NoUser, storage)}

\* A document is loaded at an address.  The store takes its token from local
\* storage; installing the router starts the first navigation, and its guard
\* runs before whoami has been answered; without a token there is no whoami.
Load(t, at, url) ==
  LET s == [Closed EXCEPT !.token = storage]
      dest == RouteGuard(s, at)
  IN /\ Cardinality(net) < MaxNet /\ (url # "unset" => at = "devices")
     /\ tab' = [tab EXCEPT ![t] =
          IF LeavesFor(dest, url) THEN [Closed EXCEPT !.phase = "legacy"]
          ELSE [s EXCEPT !.page = dest, !.phase = IF storage = 0 THEN "open" ELSE "booting"]]
     /\ net' = Abandoned(t) \cup
          IF LeavesFor(dest, url) THEN {}
          ELSE IF storage = 0 THEN Mounted(t, dest) ELSE {Request(t, "whoami", "boot", NoUser, storage)}
     /\ UNCHANGED <<token, storage, flags, writer>>

Open(t) == tab[t].phase = "open"
InApp(t) == Open(t) /\ tab[t].page # "login"
Quiet == Cardinality(net) < MaxNet

\* A push settles: the page is shown and mounted.
NavDone(t) ==
  /\ Open(t) /\ tab[t].nav # "none"
  /\ tab' = [tab EXCEPT ![t] = [tab[t] EXCEPT !.page = tab[t].nav, !.nav = "none", !.busy = FALSE, !.captcha = "none"]]
  /\ net' = net \cup Mounted(t, tab[t].nav)
  /\ UNCHANGED <<token, storage, flags, writer>>

\* The menu, and the browser's history, which offers every page.
Navigate(t, to) ==
  /\ Open(t) /\ to # tab[t].page
  /\ tab' = [tab EXCEPT ![t] = Push(@, to)]
  /\ net' = IF tab'[t].phase = "legacy" THEN Abandoned(t) ELSE net
  /\ UNCHANGED <<token, storage, flags, writer>>

\* The selector of the interface version, offered with the debug key only.
SwitchUi(t, v) ==
  /\ InApp(t) /\ Unlocked
  /\ flags' = IF tab[t].page = "devices" THEN v ELSE flags
  /\ IF v = "legacy" THEN tab' = [tab EXCEPT ![t] = [Closed EXCEPT !.phase = "legacy"]] /\ net' = Abandoned(t)
     ELSE UNCHANGED <<tab, net>>
  /\ UNCHANGED <<token, storage, writer>>

-----------------------------------------------------------------------------
(* Pages, the login form and the store *)

PageRequest(t) ==
  /\ InApp(t) /\ Quiet /\ net' = net \cup {Request(t, "page", "page", NoUser, storage)}
  /\ UNCHANGED <<token, browser>>

DoLogout(t) ==
  /\ InApp(t) /\ Quiet /\ tab[t].user # NoUser
  /\ net' = net \cup {Request(t, "logout", "menu", NoUser, storage)}
  /\ UNCHANGED <<token, browser>>

\* The form asks for a captcha when it is mounted, after a refusal, and when the
\* picture or the retry button is clicked; request and answer are one step here.
RefreshCaptcha(t, ok) ==
  /\ Open(t) /\ tab[t].page = "login"
  /\ tab' = [tab EXCEPT ![t].captcha = IF ok THEN "ready" ELSE "none"]
  /\ UNCHANGED <<token, storage, flags, writer, net>>

Submit(t, u) ==
  /\ Open(t) /\ tab[t].page = "login" /\ Quiet /\ ~tab[t].busy /\ tab[t].captcha # "none"
  /\ tab' = [tab EXCEPT ![t].busy = TRUE]
  /\ net' = net \cup {Request(t, "login", tab[t].captcha, u, 0)}
  /\ UNCHANGED <<token, storage, flags, writer>>

Answered(m, kind) == m \in net /\ m.kind = kind /\ m.res # "pending"

\* Mutant: the form stays busy after a failure.
LandLoginBusy(m) ==
  LET t == m.tab IN
  /\ Answered(m, "login")
  /\ IF m.res = "ok"
     THEN /\ tab' = [tab EXCEPT ![t].token = m.tok]
          /\ storage' = m.tok /\ writer' = t
          /\ net' = (net \ {m}) \cup {Request(t, "whoami", "login", NoUser, m.tok)}
     ELSE /\ tab' = [tab EXCEPT ![t].captcha = IF m.res = "refused" THEN "none" ELSE @]
          /\ net' = net \ {m} /\ UNCHANGED <<storage, writer>>
  /\ UNCHANGED <<token, flags>>
\* The token goes to the store and to local storage, then whoami; a refusal
\* other than 403 empties the code and asks for another captcha.
LandLogin(m) ==
  LET t == m.tab IN
  /\ Answered(m, "login")
  /\ IF m.res = "ok"
     THEN /\ tab' = [tab EXCEPT ![t].token = m.tok]
          /\ storage' = m.tok /\ writer' = t
          /\ net' = (net \ {m}) \cup {Request(t, "whoami", "login", NoUser, m.tok)}
     ELSE /\ tab' = [tab EXCEPT ![t].busy = FALSE, ![t].captcha = IF m.res = "refused" THEN "none" ELSE @]
          /\ net' = net \ {m} /\ UNCHANGED <<storage, writer>>
  /\ UNCHANGED <<token, flags>>

\* An answer 401 empties the local storage as well.
Storage401(m) ==
  /\ storage' = IF m.res = "401" THEN 0 ELSE storage
  /\ writer' = IF m.res = "401" THEN m.tab ELSE writer

WhoamiResult(s, m) ==
  CASE m.res = "ok" -> [s EXCEPT !.user = token[m.tok].user]
    [] m.res = "401" -> Unauthorized(s)
    [] OTHER -> [s EXCEPT !.user = NoUser]

\* No failure of whoami escapes: then the application is mounted (boot), or the
\* login form goes to "/".
LandWhoami(m) ==
  LET t == m.tab
      s == WhoamiResult(tab[t], m)
  IN /\ Answered(m, "whoami") /\ Storage401(m)
     /\ tab' = [tab EXCEPT ![t] = IF m.ctx = "boot" THEN [s EXCEPT !.phase = "open"]
                                  ELSE [Push(s, "home") EXCEPT !.busy = FALSE]]
     /\ net' = (net \ {m}) \cup IF m.ctx = "boot" THEN Mounted(t, s.page) ELSE {}
     /\ UNCHANGED <<token, flags>>

\* Whatever the answer of logout, the tab ends its session and goes to /login.
LandLogout(m) ==
  /\ Answered(m, "logout")
  /\ tab' = [tab EXCEPT ![m.tab] = Push(Cleared(@), "login")]
  /\ storage' = 0 /\ writer' = m.tab /\ net' = net \ {m}
  /\ UNCHANGED <<token, flags>>

LandPage(m) ==
  /\ Answered(m, "page") /\ Storage401(m) /\ net' = net \ {m}
  /\ tab' = IF m.res = "401" THEN [tab EXCEPT ![m.tab] = Unauthorized(@)] ELSE tab
  /\ UNCHANGED <<token, flags>>

-----------------------------------------------------------------------------
Next ==
  \/ \E m \in net: \/ ServeLogin(m) \/ ServeWhoami(m) \/ ServeLogout(m) \/ ServePage(m) \/ FailRequest(m)
                   \/ LandLogin(m) \/ LandWhoami(m) \/ LandLogout(m) \/ LandPage(m)
  \/ \E t \in Tab: \/ NavDone(t) \/ PageRequest(t) \/ DoLogout(t) \/ CaptchaExpires(t)
                   \/ \E ok \in BOOLEAN: RefreshCaptcha(t, ok)
                   \/ \E at \in Page, url \in Flag: Load(t, at, url)
                   \/ \E to \in Page: Navigate(t, to)
                   \/ \E u \in User: Submit(t, u)
                   \/ \E v \in {"new", "legacy"}: SwitchUi(t, v)
  \/ \E i \in DOMAIN token: EndToken(i)
  \/ OtherTab

\* The back end answers, or the request fails, and the browser delivers it;
\* what a person or a fault may do is not assumed.
Fairness ==
  \A t \in Tab, k \in {"login", "whoami"}:
    /\ WF_vars(\E m \in net: m.tab = t /\ m.kind = k /\ (ServeLogin(m) \/ ServeWhoami(m) \/ FailRequest(m)))
    /\ WF_vars(\E m \in net: m.tab = t /\ m.kind = k /\ (LandLogin(m) \/ LandWhoami(m)))
Spec == Init /\ [][Next]_vars /\ Fairness

-----------------------------------------------------------------------------
\* The tab that last wrote the shared token keeps the same one in its store, so
\* that its guard and its requests agree on whether it is logged in.
StoreMatchesStorage == \A t \in Tab: writer = t /\ Open(t) => tab[t].token = storage

\* A tab with a session shows /admin, is not about to leave it and waits for no
\* whoami, only while its store holds whoami's answer for an administrator.
Asking(t) == \E m \in net: m.tab = t /\ m.kind = "whoami"
AdminPageForAdmins ==
  \A t \in Tab: Open(t) /\ tab[t].page = "admin" /\ tab[t].token # 0 /\ tab[t].nav = "none" /\ ~Asking(t)
                => IsAdmin(tab[t])

\* A submitted login form becomes usable again and a loaded document is
\* mounted, whichever requests fail.
Settles ==
  \A t \in Tab: /\ tab[t].busy ~> ~tab[t].busy
                /\ tab[t].phase = "booting" ~> tab[t].phase # "booting"
=============================================================================
