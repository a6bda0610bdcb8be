---------------------------- MODULE AccountsProofs ----------------------------
(***************************************************************************)
(* An administrator is left, ended sessions stay ended and guesses at a    *)
(* password are bounded, for any number of users, operators, logins and    *)
(* tokens, and whatever the threshold of failures is.                      *)
(***************************************************************************)
EXTENDS Accounts, FiniteSetTheorems, TLAPS

-----------------------------------------------------------------------------
(* The inductive invariant *)

\* The types the argument needs; unlike TypeOK without a bound on versions.
UserRow == [enabled: BOOLEAN, admin: BOOLEAN, live: BOOLEAN, sv: Nat, ver: Nat, failed: Nat, lock: {"no", "until", "over"}]
TxnRow == [step: {"idle", "asked", "locked", "counted"}, user: User \cup {NoUser}, change: Change, ver: Nat]
AttemptRow == [step: {"idle", "wrong", "counted", "over", "right", "touched"}, user: User \cup {NoUser},
               sv: Nat, doomed: BOOLEAN]
TokenRow == [user: User, sv: Nat, doomed: BOOLEAN]

Typed ==
  /\ account \in [User -> UserRow]
  /\ txn \in [Operator -> TxnRow] /\ \A o \in Operator: txn[o].step # "idle" => txn[o].user \in User
  /\ attempt \in [Login -> AttemptRow] /\ \A l \in Login: attempt[l].step # "idle" => attempt[l].user \in User
  /\ token \in Seq(TokenRow)

\* The advisory lock: one transaction at a time changes accounts.
OneChange == \A o, p \in Operator: InTxn(o) /\ InTxn(p) => o = p

Administers(row) == row.enabled /\ row.live /\ row.admin
Another(rows, u) == \E a \in User \ {u}: Administers(rows[a])
\* One that has counted and will take an administrator away still leaves another.
Counted ==
  \A o \in Operator:
    txn[o].step = "counted" /\ TakesAdminAway(account[txn[o].user], txn[o].change)
      => Another(account, txn[o].user)

\* A session version x is one that the row has had, and an older one if it is ended.
Older(x, doomed, row) == x <= row.sv /\ (doomed => x < row.sv)
Versions ==
  /\ \A i \in DOMAIN token: Older(token[i].sv, token[i].doomed, account[token[i].user])
  /\ \A l \in Login: attempt[l].step # "idle" => Older(attempt[l].sv, attempt[l].doomed, account[attempt[l].user])

Administered == Typed /\ OneChange /\ Counted /\ AdminRemains
Revocable == Typed /\ Versions

-----------------------------------------------------------------------------
(* The actions, by what they do to the rows *)

\* What the invariants look at in a row; only an administrator's change writes it.
RowsKept ==
  /\ account' \in [User -> UserRow]
  /\ \A u \in User: /\ account'[u].enabled = account[u].enabled /\ account'[u].admin = account[u].admin
                    /\ account'[u].live = account[u].live /\ account'[u].sv = account[u].sv

LEMMA InitTyped == Init => Typed
  BY AccountsAssumption
  DEF Init, Typed, UserRow, TxnRow, AttemptRow, TokenRow, NoTxn, NoAttempt, Change

\* Marking the requests of a user leaves everything else in them.
LEMMA DoomedTyped ==
  ASSUME NEW u
  PROVE  /\ \A r \in TokenRow: Doomed(r, u) \in TokenRow /\ Doomed(r, u).user = r.user /\ Doomed(r, u).sv = r.sv
                               /\ Doomed(r, u).doomed = (r.doomed \/ r.user = u)
         /\ \A r \in AttemptRow: Doomed(r, u) \in AttemptRow /\ Doomed(r, u).user = r.user /\ Doomed(r, u).sv = r.sv
                                 /\ Doomed(r, u).step = r.step /\ Doomed(r, u).doomed = (r.doomed \/ r.user = u)
  BY DEF Doomed, TokenRow, AttemptRow

\* The row an administrator's change writes.
LEMMA ChangedTyped ==
  ASSUME NEW row \in UserRow, NEW c \in Change
  PROVE  /\ Changed(row, c) \in UserRow
         /\ Changed(row, c).sv = IF BumpsSession(row, c) THEN row.sv + 1 ELSE row.sv
         /\ Changed(row, c).live = (c # "delete")
         /\ Changed(row, c).enabled = ((row.enabled \/ c = "enable") /\ c # "disable")
         /\ Changed(row, c).admin = ((row.admin \/ c = "promote") /\ c # "demote")
<1> DEFINE e == (row.enabled \/ c = "enable") /\ c # "disable"
           a == (row.admin \/ c = "promote") /\ c # "demote"
           l == c # "delete"
           v == IF BumpsSession(row, c) THEN row.sv + 1 ELSE row.sv
<1>1. e \in BOOLEAN /\ a \in BOOLEAN /\ l \in BOOLEAN
  BY DEF UserRow
<1>2. v \in Nat /\ row.ver + 1 \in Nat
  BY DEF UserRow
<1>3. Changed(row, c) = [row EXCEPT !.enabled = e, !.admin = a, !.live = l, !.sv = v, !.ver = @ + 1]
  BY DEF Changed
<1> HIDE DEF e, a, l, v
<1>4. /\ Changed(row, c) \in UserRow
      /\ Changed(row, c).sv = v /\ Changed(row, c).live = l
      /\ Changed(row, c).enabled = e /\ Changed(row, c).admin = a
  BY <1>1, <1>2, <1>3 DEF UserRow
<1> QED
  BY <1>4 DEF e, a, l, v

\* A request enters, or ends, or goes on to its next step.
LEMMA AskChangeTyped ==
  ASSUME Typed, NEW o \in Operator, NEW u \in User, NEW c \in Change, AskChange(o, u, c)
  PROVE  Typed' /\ RowsKept
<1>1. account[u].ver \in Nat
  BY DEF Typed, UserRow
<1>2. [step |-> "asked", user |-> u, change |-> c, ver |-> account[u].ver] \in TxnRow
  BY <1>1 DEF TxnRow
<1> QED
  BY <1>2 DEF AskChange, Typed, RowsKept

LEMMA LockUserTyped ==
  ASSUME Typed, NEW o \in Operator, LockUser(o)
  PROVE  Typed' /\ RowsKept
<1>1. NoTxn \in TxnRow /\ NoTxn.step = "idle"
  BY DEF NoTxn, TxnRow, Change
<1>2. [txn[o] EXCEPT !.step = "locked"] \in TxnRow /\ [txn[o] EXCEPT !.step = "locked"].user = txn[o].user
  BY DEF Typed, TxnRow
<1>3. txn[o].user \in User
  BY DEF LockUser, Typed
<1> QED
  BY <1>1, <1>2, <1>3 DEF LockUser, Typed, RowsKept

LEMMA CountAdminsTyped ==
  ASSUME Typed, NEW o \in Operator, CountAdmins(o)
  PROVE  Typed' /\ RowsKept
<1>1. NoTxn \in TxnRow /\ NoTxn.step = "idle"
  BY DEF NoTxn, TxnRow, Change
<1>2. [txn[o] EXCEPT !.step = "counted"] \in TxnRow /\ [txn[o] EXCEPT !.step = "counted"].user = txn[o].user
  BY DEF Typed, TxnRow
<1>3. txn[o].user \in User
  BY DEF CountAdmins, Typed
<1> QED
  BY <1>1, <1>2, <1>3 DEF CountAdmins, Typed, RowsKept

\* The login handlers write the counter and the lock of a row, and their own step.
LEMMA StepTyped ==
  ASSUME Typed, NEW l \in Login, attempt[l].step # "idle",
         NEW x \in {"wrong", "counted", "over", "right", "touched"}, Step(l, x)
  PROVE  attempt' \in [Login -> AttemptRow] /\ \A k \in Login: attempt'[k].step # "idle" => attempt'[k].user \in User
<1>1. [attempt[l] EXCEPT !.step = x] \in AttemptRow /\ [attempt[l] EXCEPT !.step = x].user = attempt[l].user
  BY DEF Typed, AttemptRow
<1> QED
  BY <1>1 DEF Typed, Step

LEMMA DoneTyped ==
  ASSUME Typed, NEW l \in Login, Done(l)
  PROVE  attempt' \in [Login -> AttemptRow] /\ \A k \in Login: attempt'[k].step # "idle" => attempt'[k].user \in User
<1>1. NoAttempt \in AttemptRow /\ NoAttempt.step = "idle"
  BY DEF NoAttempt, AttemptRow
<1> QED
  BY <1>1 DEF Typed, Done

LEMMA LoginReadTyped ==
  ASSUME Typed, NEW l \in Login, NEW u \in Subjects, NEW right \in BOOLEAN, LoginRead(l, u, right)
  PROVE  Typed' /\ RowsKept
<1> DEFINE a == [step |-> IF right THEN "right" ELSE "wrong", user |-> u, sv |-> account[u].sv, doomed |-> FALSE]
<1>1. u \in User /\ account[u].sv \in Nat
  BY AccountsAssumption DEF Typed, UserRow
<1>2. a \in AttemptRow /\ a.user = u
  BY <1>1 DEF AttemptRow
<1>3. attempt' = [attempt EXCEPT ![l] = a]
  BY DEF LoginRead
<1> HIDE DEF a
<1> QED
  BY <1>1, <1>2, <1>3 DEF LoginRead, Typed, RowsKept, accountVars

LEMMA CountFailureTyped ==
  ASSUME Typed, NEW l \in Login, CountFailure(l)
  PROVE  Typed' /\ RowsKept
<1> DEFINE u == attempt[l].user
           f == IF account[u].live /\ account[u].failed < Threshold + Cardinality(Login)
                THEN account[u].failed + 1 ELSE account[u].failed
<1>1. u \in User /\ account[u] \in UserRow
  BY DEF CountFailure, Typed
<1>2. f \in Nat
  BY <1>1 DEF UserRow
<1>3. account' = [account EXCEPT ![u] = [account[u] EXCEPT !.failed = f]]
  BY <1>1 DEF CountFailure, Typed
<1> HIDE DEF u, f
<1>4. RowsKept
  BY <1>1, <1>2, <1>3 DEF Typed, RowsKept, UserRow
<1> QED
  BY <1>4, StepTyped DEF CountFailure, Typed, RowsKept

LEMMA CheckFailuresTyped ==
  ASSUME Typed, NEW l \in Login, CheckFailures(l)
  PROVE  Typed' /\ RowsKept
  BY StepTyped, DoneTyped DEF CheckFailures, Typed, RowsKept, accountVars

LEMMA LockAccountTyped ==
  ASSUME Typed, NEW l \in Login, LockAccount(l)
  PROVE  Typed' /\ RowsKept
<1> DEFINE u == attempt[l].user
           k == IF account[u].live THEN "until" ELSE account[u].lock
<1>1. u \in User /\ account[u] \in UserRow
  BY DEF LockAccount, Typed
<1>2. k \in {"no", "until", "over"}
  BY <1>1 DEF UserRow
<1>3. account' = [account EXCEPT ![u] = [account[u] EXCEPT !.lock = k]]
  BY <1>1 DEF LockAccount, Typed
<1> HIDE DEF u, k
<1>4. RowsKept
  BY <1>1, <1>2, <1>3 DEF Typed, RowsKept, UserRow
<1> QED
  BY <1>4, DoneTyped DEF LockAccount, Typed, RowsKept

LEMMA UpdateLastLoginTyped ==
  ASSUME Typed, NEW l \in Login, UpdateLastLogin(l)
  PROVE  Typed' /\ RowsKept
<1> DEFINE u == attempt[l].user
           f == IF account[u].live THEN 0 ELSE account[u].failed
           k == IF account[u].live THEN "no" ELSE account[u].lock
<1>1. u \in User /\ account[u] \in UserRow
  BY DEF UpdateLastLogin, Typed
<1>2. f \in Nat /\ k \in {"no", "until", "over"}
  BY <1>1 DEF UserRow
<1>3. account' = [account EXCEPT ![u] = [account[u] EXCEPT !.failed = f, !.lock = k]]
  BY <1>1 DEF UpdateLastLogin, Typed, UserRow
<1> HIDE DEF u, f, k
<1>4. RowsKept
  BY <1>1, <1>2, <1>3 DEF Typed, RowsKept, UserRow
<1> QED
  BY <1>4, StepTyped DEF UpdateLastLogin, Typed, RowsKept

LEMMA FailsTyped ==
  ASSUME Typed, NEW l \in Login, RecordFails(l) \/ LoginFails(l)
  PROVE  Typed' /\ RowsKept
  BY DoneTyped DEF RecordFails, LoginFails, Typed, RowsKept, accountVars

LEMMA IssueTokenTyped ==
  ASSUME Typed, NEW l \in Login, IssueToken(l)
  PROVE  Typed' /\ RowsKept
<1> DEFINE a == attempt[l]
           t == [user |-> a.user, sv |-> a.sv, doomed |-> a.doomed]
<1>1. a \in AttemptRow /\ a.user \in User
  BY DEF IssueToken, Typed
<1>2. t \in TokenRow
  BY <1>1 DEF AttemptRow, TokenRow
<1>3. token' \in {token, Append(token, t)}
  BY DEF IssueToken
<1>4. token' \in Seq(TokenRow)
  BY <1>2, <1>3 DEF Typed
<1> QED
  BY <1>4, DoneTyped DEF IssueToken, Typed, RowsKept, accountVars

LEMMA LockExpiresTyped ==
  ASSUME Typed, NEW u \in User, LockExpires(u)
  PROVE  Typed' /\ RowsKept
<1>1. account[u] \in UserRow
  BY DEF Typed
<1>2. account' = [account EXCEPT ![u] = [account[u] EXCEPT !.lock = "over"]]
  BY DEF LockExpires, Typed
<1>3. RowsKept
  BY <1>1, <1>2 DEF Typed, RowsKept, UserRow
<1> QED
  BY <1>3 DEF LockExpires, Typed, RowsKept

LEMMA LogoutTyped ==
  ASSUME Typed, NEW i, Logout(i)
  PROVE  Typed' /\ RowsKept
  BY DEF Logout, Typed, RowsKept, accountVars

LEMMA RestartTyped ==
  ASSUME Typed, Restart
  PROVE  Typed' /\ RowsKept
<1>1. NoTxn \in TxnRow /\ NoTxn.step = "idle" /\ NoAttempt \in AttemptRow /\ NoAttempt.step = "idle"
  BY DEF NoTxn, TxnRow, Change, NoAttempt, AttemptRow
<1> QED
  BY <1>1 DEF Restart, Typed, RowsKept

LEMMA WriteUserTyped ==
  ASSUME Typed, NEW o \in Operator, WriteUser(o)
  PROVE  Typed'
<1> DEFINE u == txn[o].user
           c == txn[o].change
<1>1. txn[o] \in TxnRow /\ u \in User /\ c \in Change /\ account[u] \in UserRow
  BY DEF WriteUser, Typed, TxnRow
<1>2. account' \in [User -> UserRow]
  BY <1>1, ChangedTyped DEF WriteUser, Typed
<1>3. txn' \in [Operator -> TxnRow] /\ \A p \in Operator: txn'[p].step # "idle" => txn'[p].user \in User
  <2>1. NoTxn \in TxnRow /\ NoTxn.step = "idle"
    BY DEF NoTxn, TxnRow, Change
  <2> QED
    BY <2>1 DEF WriteUser, Typed
<1>4. attempt' \in [Login -> AttemptRow] /\ \A l \in Login: attempt'[l].step # "idle" => attempt'[l].user \in User
  <2>1. \/ attempt' = attempt
        \/ attempt' = [l \in Login |-> Doomed(attempt[l], u)]
    BY DEF WriteUser
  <2> QED
    BY <2>1, DoomedTyped DEF Typed
<1>5. token' \in Seq(TokenRow)
  <2>1. \/ token' = token
        \/ token' = [i \in DOMAIN token |-> Doomed(token[i], u)]
    BY DEF WriteUser
  <2>2. CASE token' = token
    BY <2>2 DEF Typed
  <2>3. CASE token' = [i \in DOMAIN token |-> Doomed(token[i], u)]
    <3>1. \A i \in 1..Len(token): token[i] \in TokenRow
      BY DEF Typed
    <3>2. token' = [i \in 1..Len(token) |-> Doomed(token[i], u)] /\ Len(token) \in Nat
      BY <2>3 DEF Typed
    <3> QED
      BY <3>1, <3>2, DoomedTyped
  <2> QED
    BY <2>1, <2>2, <2>3
<1> QED
  BY <1>2, <1>3, <1>4, <1>5 DEF Typed

\* Every step keeps the types, and one that is not an administrator's write keeps the rows.
LEMMA NextTyped ==
  ASSUME Typed, [Next]_vars
  PROVE  Typed' /\ (RowsKept \/ \E o \in Operator: WriteUser(o))
<1>1. CASE UNCHANGED vars
  BY <1>1 DEF vars, accountVars, Typed, RowsKept
<1>2. CASE Next
  BY <1>2, AskChangeTyped, LockUserTyped, CountAdminsTyped, WriteUserTyped, LoginReadTyped, CountFailureTyped,
     CheckFailuresTyped, LockAccountTyped, UpdateLastLoginTyped, IssueTokenTyped, LockExpiresTyped, LogoutTyped,
     RestartTyped, FailsTyped
     DEF Next
<1> QED
  BY <1>1, <1>2

-----------------------------------------------------------------------------
(* An administrator is left *)

\* While the rows are kept so are the count and what it is compared with.
LEMMA StandingKept ==
  ASSUME Typed, RowsKept
  PROVE  /\ AdminRemains => AdminRemains'
         /\ \A u \in User: Another(account, u) => Another(account', u)
         /\ \A u \in User, c \in Change: TakesAdminAway(account'[u], c) <=> TakesAdminAway(account[u], c)
  BY DEF RowsKept, AdminRemains, Another, Administers, TakesAdminAway

\* So a step after which transactions are where they were, or not begun, is harmless.
LEMMA TxnsKept ==
  ASSUME Administered, Typed', RowsKept,
         \A p \in Operator: txn'[p] = txn[p] \/ txn'[p].step \in {"idle", "asked"}
  PROVE  Administered'
<1>1. OneChange'
  BY DEF Administered, OneChange, InTxn
<1>2. Counted'
  <2> SUFFICES ASSUME NEW o \in Operator, txn'[o].step = "counted", TakesAdminAway(account'[txn'[o].user], txn'[o].change)
               PROVE  Another(account', txn'[o].user)
    BY DEF Counted
  <2>1. txn'[o] = txn[o] /\ txn[o].user \in User /\ txn[o].change \in Change
    BY DEF Administered, Typed, TxnRow
  <2>2. TakesAdminAway(account[txn[o].user], txn[o].change)
    BY <2>1, StandingKept DEF Administered
  <2>3. Another(account, txn[o].user)
    BY <2>1, <2>2 DEF Administered, Counted
  <2> QED
    BY <2>1, <2>3, StandingKept DEF Administered
<1> QED
  BY <1>1, <1>2, StandingKept DEF Administered

LEMMA LockUserAdministered ==
  ASSUME Administered, NEW o \in Operator, LockUser(o)
  PROVE  Administered'
<1>1. Typed' /\ RowsKept
  BY LockUserTyped DEF Administered
<1>2. \A p \in Operator: txn'[p].step \notin {"counted"} /\ (txn'[p].step = "locked" => p = o)
  BY DEF LockUser, LockAdminInvariant, InTxn, Administered, Typed, TxnRow, NoTxn
<1>3. OneChange' /\ Counted'
  BY <1>2 DEF OneChange, Counted, InTxn
<1> QED
  BY <1>1, <1>3, StandingKept DEF Administered

LEMMA CountAdminsAdministered ==
  ASSUME Administered, NEW o \in Operator, CountAdmins(o)
  PROVE  Administered'
<1> DEFINE u == txn[o].user
           c == txn[o].change
<1>1. Typed' /\ RowsKept /\ u \in User /\ c \in Change
  BY CountAdminsTyped DEF Administered, CountAdmins, Typed, TxnRow
<1>2. \A p \in Operator: p # o => txn'[p] = txn[p] /\ ~InTxn(p)
  BY DEF CountAdmins, Administered, OneChange, InTxn, Typed
<1>3. OneChange'
  BY <1>2 DEF OneChange, InTxn
<1>4. ASSUME txn'[o].step = "counted"
      PROVE  /\ txn'[o].user = u /\ txn'[o].change = c
             /\ (TakesAdminAway(account[u], c) => Another(account, u))
  BY <1>4 DEF CountAdmins, Administered, Typed, TxnRow, NoTxn, EnabledAdminsExcluding, Another, Administers
<1>5. Counted'
  <2> SUFFICES ASSUME NEW p \in Operator, txn'[p].step = "counted", TakesAdminAway(account'[txn'[p].user], txn'[p].change)
               PROVE  Another(account', txn'[p].user)
    BY DEF Counted
  <2>1. p = o
    BY <1>2 DEF InTxn
  <2> QED
    BY <1>1, <1>4, <2>1, StandingKept DEF Administered
<1> QED
  BY <1>1, <1>3, <1>5, StandingKept DEF Administered

\* A reset changes nothing that is counted; any other write is that of the one
\* transaction under the lock, and was counted for.
LEMMA WriteUserAdministered ==
  ASSUME Administered, NEW o \in Operator, WriteUser(o)
  PROVE  Administered'
<1> DEFINE u == txn[o].user
           c == txn[o].change
           row == account[u]
           hit == row.live /\ row.ver = txn[o].ver
<1>1. Typed' /\ u \in User /\ c \in Change /\ row \in UserRow
  BY WriteUserTyped DEF Administered, WriteUser, Typed, TxnRow
<1>2. /\ txn' = [txn EXCEPT ![o] = NoTxn]
      /\ account' = IF hit THEN [account EXCEPT ![u] = Changed(row, c)] ELSE account
      /\ txn[o].step = IF c = "reset" THEN "asked" ELSE "counted"
  BY DEF WriteUser
<1>3. \A p \in Operator: txn'[p] = txn[p] \/ txn'[p].step = "idle"
  BY <1>2 DEF Administered, Typed, NoTxn
<1>4. CASE c = "reset"
  <2>1. \A v \in User: /\ account'[v].enabled = account[v].enabled /\ account'[v].admin = account[v].admin
                       /\ account'[v].live = account[v].live
    <3>1. CASE ~hit
      BY <1>2, <3>1
    <3>2. CASE hit
      <4>1. account' = [account EXCEPT ![u] = Changed(row, c)] /\ row.live
        BY <1>2, <3>2
      <4>2. /\ Changed(row, c).live = (c # "delete")
            /\ Changed(row, c).enabled = ((row.enabled \/ c = "enable") /\ c # "disable")
            /\ Changed(row, c).admin = ((row.admin \/ c = "promote") /\ c # "demote")
        BY <1>1, ChangedTyped
      <4>3. /\ Changed(row, c).enabled = row.enabled /\ Changed(row, c).admin = row.admin
            /\ Changed(row, c).live = row.live
        BY <1>1, <1>4, <4>1, <4>2 DEF UserRow
      <4> QED
        BY <4>1, <4>3 DEF Administered, Typed
    <3> QED
      BY <3>1, <3>2
  <2>2. /\ AdminRemains => AdminRemains'
        /\ \A v \in User: Another(account, v) => Another(account', v)
        /\ \A v \in User, d \in Change: TakesAdminAway(account'[v], d) <=> TakesAdminAway(account[v], d)
    BY <2>1 DEF AdminRemains, Another, Administers, TakesAdminAway
  <2>3. OneChange'
    BY <1>3 DEF Administered, OneChange, InTxn
  <2>4. Counted'
    <3> SUFFICES ASSUME NEW p \in Operator, txn'[p].step = "counted", TakesAdminAway(account'[txn'[p].user], txn'[p].change)
                 PROVE  Another(account', txn'[p].user)
      BY DEF Counted
    <3>1. txn'[p] = txn[p] /\ txn[p].user \in User /\ txn[p].change \in Change
      BY <1>3 DEF Administered, Typed, TxnRow
    <3> QED
      BY <2>2, <3>1 DEF Administered, Counted
  <2> QED
    BY <1>1, <2>2, <2>3, <2>4 DEF Administered
<1>5. CASE c # "reset"
  <2>1. \A p \in Operator: ~InTxn(p)'
    <3>1. \A p \in Operator: p # o => txn'[p] = txn[p] /\ ~InTxn(p)
      BY <1>2, <1>5 DEF Administered, OneChange, InTxn, Typed
    <3>2. txn'[o].step = "idle"
      BY <1>2 DEF Administered, Typed, NoTxn
    <3> QED
      BY <3>1, <3>2 DEF InTxn
  <2>2. OneChange' /\ Counted'
    BY <2>1 DEF OneChange, Counted, InTxn
  <2>3. AdminRemains'
    <3>1. CASE ~hit
      BY <1>2, <3>1 DEF Administered, AdminRemains
    <3>2. CASE hit /\ TakesAdminAway(row, c)
      <4>1. PICK a \in User \ {u}: Administers(account[a])
        BY <1>2, <1>5, <3>2 DEF Administered, Counted, Another
      <4>2. a \in User /\ account'[a] = account[a] /\ account[a].enabled /\ account[a].live /\ account[a].admin
        BY <1>2, <4>1 DEF Administers, Administered, Typed
      <4> QED
        BY <4>2 DEF AdminRemains
    <3>3. CASE hit /\ ~TakesAdminAway(row, c)
      <4>1. PICK a \in User: account[a].enabled /\ account[a].live /\ account[a].admin
        BY DEF Administered, AdminRemains
      <4>2. CASE a # u
        BY <1>2, <4>1, <4>2 DEF AdminRemains, Administered, Typed
      <4>3. CASE a = u
        <5>1. c \notin Removals
          BY <3>3, <4>1, <4>3 DEF TakesAdminAway
        <5>2. Changed(row, c).enabled /\ Changed(row, c).live /\ Changed(row, c).admin
          BY <1>1, <4>1, <4>3, <5>1, ChangedTyped DEF Removals
        <5>3. account'[u] = Changed(row, c)
          BY <1>1, <1>2, <3>3 DEF Administered, Typed
        <5> QED
          BY <1>1, <5>2, <5>3 DEF AdminRemains
      <4> QED
        BY <4>2, <4>3
    <3> QED
      BY <3>1, <3>2, <3>3
  <2> QED
    BY <1>1, <2>2, <2>3 DEF Administered
<1> QED
  BY <1>4, <1>5

\* The steps that leave the transactions of the administrators alone, or end them.
LEMMA OthersAdministered ==
  ASSUME Administered, [Next]_vars,
         ~ \E o \in Operator: LockUser(o) \/ CountAdmins(o) \/ WriteUser(o)
  PROVE  Administered'
<1>1. Typed' /\ RowsKept
  BY NextTyped DEF Administered
<1>2. \/ txn' = txn \/ Restart
      \/ \E o \in Operator, u \in User, c \in Change: AskChange(o, u, c)
  BY DEF Next, vars, accountVars, LoginRead, CountFailure, CheckFailures, LockAccount, UpdateLastLogin, IssueToken,
     RecordFails, LoginFails, LockExpires, Logout
<1>3. ASSUME NEW p \in Operator PROVE txn'[p] = txn[p] \/ txn'[p].step \in {"idle", "asked"}
  BY <1>2 DEF Restart, NoTxn, AskChange, Administered, Typed
<1> QED
  BY <1>1, <1>3, TxnsKept

\* However the changes of administrators interleave, with each other and with
\* logins (service/admin.go, repository/store.go): an enabled administrator is left.
THEOREM AnAdminIsLeft == Spec => []AdminRemains
<1>1. Init => Administered
  <2> SUFFICES ASSUME Init PROVE OneChange /\ Counted /\ AdminRemains
    BY InitTyped DEF Administered
  <2>1. \A o \in Operator: txn[o].step = "idle"
    BY DEF Init, NoTxn
  <2> QED
    BY <2>1, AccountsAssumption DEF Init, OneChange, Counted, AdminRemains, InTxn
<1>2. Administered /\ [Next]_vars => Administered'
  BY LockUserAdministered, CountAdminsAdministered, WriteUserAdministered, OthersAdministered
<1>3. Administered => AdminRemains
  BY DEF Administered
<1> QED
  BY <1>1, <1>2, <1>3, PTL DEF Spec

-----------------------------------------------------------------------------
(* An ended session stays ended *)

\* While the rows are kept, so is what is known of a token or of a login.
LEMMA TokensKept ==
  ASSUME Revocable, Typed', RowsKept, token' = token,
         \A l \in Login: \/ attempt'[l].step = "idle"
                         \/ /\ attempt[l].step # "idle" /\ attempt'[l].user = attempt[l].user
                            /\ attempt'[l].sv = attempt[l].sv /\ attempt'[l].doomed = attempt[l].doomed
  PROVE  Revocable'
<1>1. ASSUME NEW i \in DOMAIN token PROVE Older(token[i].sv, token[i].doomed, account'[token[i].user])
  <2>1. token[i] \in TokenRow
    BY DEF Revocable, Typed
  <2> QED
    BY <2>1 DEF Revocable, Versions, Older, RowsKept, TokenRow
<1>2. ASSUME NEW l \in Login, attempt'[l].step # "idle"
      PROVE  Older(attempt'[l].sv, attempt'[l].doomed, account'[attempt'[l].user])
  BY <1>2 DEF Revocable, Typed, Versions, Older, RowsKept
<1> QED
  BY <1>1, <1>2 DEF Revocable, Versions

\* A login on its way keeps what it has read.
LEMMA LoginsKept ==
  ASSUME Revocable, NEW l \in Login, attempt[l].step # "idle",
         (\E x \in {"wrong", "counted", "over", "right", "touched"}: Step(l, x)) \/ Done(l)
  PROVE  \A k \in Login: \/ attempt'[k].step = "idle"
                         \/ /\ attempt[k].step # "idle" /\ attempt'[k].user = attempt[k].user
                            /\ attempt'[k].sv = attempt[k].sv /\ attempt'[k].doomed = attempt[k].doomed
<1>1. attempt \in [Login -> AttemptRow]
  BY DEF Revocable, Typed
<1>2. ASSUME NEW k \in Login, k # l
      PROVE  \/ attempt'[k].step = "idle"
             \/ /\ attempt[k].step # "idle" /\ attempt'[k].user = attempt[k].user
                /\ attempt'[k].sv = attempt[k].sv /\ attempt'[k].doomed = attempt[k].doomed
  <2>1. attempt'[k] = attempt[k]
    BY <1>1, <1>2 DEF Step, Done
  <2> QED
    BY <2>1
<1>3. CASE Done(l)
  <2>1. attempt'[l].step = "idle"
    BY <1>1, <1>3 DEF Done, NoAttempt
  <2> QED
    BY <1>2, <2>1
<1>4. ASSUME NEW x, Step(l, x)
      PROVE  attempt'[l].user = attempt[l].user /\ attempt'[l].sv = attempt[l].sv
             /\ attempt'[l].doomed = attempt[l].doomed
  BY <1>1, <1>4 DEF Step, AttemptRow
<1> QED
  BY <1>2, <1>3, <1>4

\* A login reads the present version.
LEMMA LoginReadRevocable ==
  ASSUME Revocable, NEW l \in Login, NEW u \in Subjects, NEW right \in BOOLEAN, LoginRead(l, u, right)
  PROVE  Revocable'
<1>1. Typed' /\ RowsKept /\ token' = token /\ account' = account /\ u \in User /\ account[u].sv \in Nat
  BY LoginReadTyped, AccountsAssumption DEF Revocable, LoginRead, accountVars, Typed, UserRow
<1>2. \A k \in Login: k # l => attempt'[k] = attempt[k]
  BY DEF LoginRead, Revocable, Typed
<1>3. attempt'[l].user = u /\ attempt'[l].sv = account[u].sv /\ attempt'[l].doomed = FALSE
  BY DEF LoginRead, Revocable, Typed
<1>4. ASSUME NEW k \in Login, attempt'[k].step # "idle"
      PROVE  Older(attempt'[k].sv, attempt'[k].doomed, account'[attempt'[k].user])
  BY <1>1, <1>2, <1>3, <1>4 DEF Revocable, Versions, Older
<1> QED
  BY <1>1, <1>4 DEF Revocable, Versions

\* The token that a login issues has the version, and the mark, of the login.
LEMMA IssueTokenRevocable ==
  ASSUME Revocable, NEW l \in Login, IssueToken(l)
  PROVE  Revocable'
<1> DEFINE a == attempt[l]
           t == [user |-> a.user, sv |-> a.sv, doomed |-> a.doomed]
<1>1. Typed' /\ account' = account /\ a.step # "idle" /\ Done(l) /\ token \in Seq(TokenRow)
  BY IssueTokenTyped DEF Revocable, IssueToken, accountVars, Typed
<1>2. ASSUME NEW k \in Login, attempt'[k].step # "idle"
      PROVE  Older(attempt'[k].sv, attempt'[k].doomed, account'[attempt'[k].user])
  <2>1. attempt'[k] = attempt[k]
    BY <1>1, <1>2 DEF Done, Revocable, Typed, NoAttempt
  <2> QED
    BY <1>1, <1>2, <2>1 DEF Revocable, Versions
<1>3. ASSUME NEW i \in DOMAIN token'
      PROVE  Older(token'[i].sv, token'[i].doomed, account'[token'[i].user])
  <2>1. token' \in {token, Append(token, t)}
    BY DEF IssueToken
  <2>2. CASE token' = token
    BY <1>1, <1>3, <2>2 DEF Revocable, Versions
  <2>3. CASE token' = Append(token, t)
    <3>1. \/ i \in DOMAIN token /\ token'[i] = token[i]
          \/ token'[i] = t
      BY <1>1, <1>3, <2>3
    <3>2. CASE i \in DOMAIN token /\ token'[i] = token[i]
      BY <1>1, <3>2 DEF Revocable, Versions
    <3>3. CASE token'[i] = t
      BY <1>1, <3>3 DEF Revocable, Versions
    <3> QED
      BY <3>1, <3>2, <3>3
  <2> QED
    BY <2>1, <2>2, <2>3
<1> QED
  BY <1>1, <1>2, <1>3 DEF Revocable, Versions

\* What ends the sessions of a user raises the version above that of all of them.
LEMMA WriteUserRevocable ==
  ASSUME Revocable, NEW o \in Operator, WriteUser(o)
  PROVE  Revocable'
<1> DEFINE u == txn[o].user
           c == txn[o].change
           row == account[u]
           hit == row.live /\ row.ver = txn[o].ver
<1>1. Typed /\ Typed' /\ u \in User /\ c \in Change /\ row \in UserRow /\ row.sv \in Nat
  BY WriteUserTyped DEF Revocable, WriteUser, Typed, TxnRow, UserRow
<1>2. /\ account' = IF hit THEN [account EXCEPT ![u] = Changed(row, c)] ELSE account
      /\ IF hit /\ Ends(row, c)
         THEN /\ token' = [i \in DOMAIN token |-> Doomed(token[i], u)]
              /\ attempt' = [l \in Login |-> Doomed(attempt[l], u)]
         ELSE token' = token /\ attempt' = attempt
  BY DEF WriteUser
<1>3. Changed(row, c).sv = IF Ends(row, c) THEN row.sv + 1 ELSE row.sv
  BY <1>1, ChangedTyped DEF BumpsSession, Ends
<1>4. \A v \in User: /\ account[v].sv \in Nat /\ account'[v].sv \in Nat /\ account[v].sv <= account'[v].sv
                     /\ hit /\ Ends(row, c) /\ v = u => account'[v].sv = account[v].sv + 1
  BY <1>1, <1>2, <1>3 DEF Typed, UserRow
<1> HIDE DEF hit, row, c, u
<1>5. CASE ~(hit /\ Ends(row, c))
  <2>1. token' = token /\ attempt' = attempt
    BY <1>2, <1>5
  <2>2. ASSUME NEW i \in DOMAIN token PROVE Older(token[i].sv, token[i].doomed, account'[token[i].user])
    <3>1. token[i] \in TokenRow
      BY <1>1 DEF Typed
    <3> QED
      BY <1>4, <3>1 DEF Revocable, Versions, Older, TokenRow
  <2>3. ASSUME NEW l \in Login, attempt[l].step # "idle"
        PROVE  Older(attempt[l].sv, attempt[l].doomed, account'[attempt[l].user])
    <3>1. attempt[l].user \in User /\ attempt[l].sv \in Nat
      BY <1>1, <2>3 DEF Typed, AttemptRow
    <3> QED
      BY <1>4, <2>3, <3>1 DEF Revocable, Versions, Older
  <2> QED
    BY <1>1, <2>1, <2>2, <2>3 DEF Revocable, Versions
<1>6. CASE hit /\ Ends(row, c)
  <2>1. ASSUME NEW i \in DOMAIN token' PROVE Older(token'[i].sv, token'[i].doomed, account'[token'[i].user])
    <3>1. i \in DOMAIN token /\ token'[i] = Doomed(token[i], u) /\ token[i] \in TokenRow
      BY <1>1, <1>2, <1>6, <2>1 DEF Typed
    <3>2. /\ token'[i].user = token[i].user /\ token'[i].sv = token[i].sv
          /\ token'[i].doomed = (token[i].doomed \/ token[i].user = u)
      BY <3>1, DoomedTyped
    <3>3. token[i].user \in User /\ token[i].sv \in Nat /\ Older(token[i].sv, token[i].doomed, account[token[i].user])
      BY <3>1 DEF Revocable, Versions, TokenRow
    <3>4. CASE token[i].user = u
      <4>1. account'[u].sv = account[u].sv + 1 /\ account[u].sv \in Nat /\ token[i].sv <= account[u].sv
        BY <1>4, <1>6, <3>3, <3>4 DEF Older
      <4>2. token'[i].user = u /\ token'[i].sv < account'[u].sv /\ token'[i].sv <= account'[u].sv
        BY <3>2, <3>3, <3>4, <4>1
      <4> QED
        BY <4>2 DEF Older
    <3>5. CASE token[i].user # u
      <4>1. token'[i].doomed => token[i].doomed
        BY <3>2, <3>5
      <4>2. account[token[i].user].sv <= account'[token[i].user].sv /\ account[token[i].user].sv \in Nat /\ account'[token[i].user].sv \in Nat
        BY <1>4, <3>3
      <4> QED
        BY <3>2, <3>3, <4>1, <4>2 DEF Older
    <3> QED
      BY <3>4, <3>5
  <2>2. ASSUME NEW l \in Login, attempt'[l].step # "idle"
        PROVE  Older(attempt'[l].sv, attempt'[l].doomed, account'[attempt'[l].user])
    <3>1. attempt'[l] = Doomed(attempt[l], u) /\ attempt[l] \in AttemptRow
      BY <1>1, <1>2, <1>6 DEF Typed
    <3>2. /\ attempt'[l].user = attempt[l].user /\ attempt'[l].sv = attempt[l].sv /\ attempt'[l].step = attempt[l].step
          /\ attempt'[l].doomed = (attempt[l].doomed \/ attempt[l].user = u)
      BY <3>1, DoomedTyped
    <3>3. attempt[l].user \in User /\ attempt[l].sv \in Nat /\ Older(attempt[l].sv, attempt[l].doomed, account[attempt[l].user])
      BY <1>1, <2>2, <3>1, <3>2 DEF Revocable, Versions, Typed, AttemptRow
    <3>4. CASE attempt[l].user = u
      <4>1. account'[u].sv = account[u].sv + 1 /\ account[u].sv \in Nat /\ attempt[l].sv <= account[u].sv
        BY <1>4, <1>6, <3>3, <3>4 DEF Older
      <4>2. attempt'[l].user = u /\ attempt'[l].sv < account'[u].sv /\ attempt'[l].sv <= account'[u].sv
        BY <3>2, <3>3, <3>4, <4>1
      <4> QED
        BY <4>2 DEF Older
    <3>5. CASE attempt[l].user # u
      <4>1. attempt'[l].doomed => attempt[l].doomed
        BY <3>2, <3>5
      <4>2. account[attempt[l].user].sv <= account'[attempt[l].user].sv /\ account[attempt[l].user].sv \in Nat /\ account'[attempt[l].user].sv \in Nat
        BY <1>4, <3>3
      <4> QED
        BY <3>2, <3>3, <4>1, <4>2 DEF Older
    <3> QED
      BY <3>4, <3>5
  <2> QED
    BY <1>1, <2>1, <2>2 DEF Revocable, Versions
<1> QED
  BY <1>5, <1>6

\* The steps that issue no token, start no login and write no row.
LEMMA OthersRevocable ==
  ASSUME Revocable, [Next]_vars,
         ~ \E o \in Operator: WriteUser(o),
         ~ \E l \in Login: IssueToken(l) \/ \E u \in Subjects, right \in BOOLEAN: LoginRead(l, u, right)
  PROVE  Revocable'
<1>1. Typed' /\ RowsKept
  BY NextTyped DEF Revocable
<1>2. CASE \E l \in Login: \/ CountFailure(l) \/ CheckFailures(l) \/ LockAccount(l) \/ UpdateLastLogin(l)
                          \/ RecordFails(l) \/ LoginFails(l)
  <2>1. PICK l \in Login: \/ CountFailure(l) \/ CheckFailures(l) \/ LockAccount(l) \/ UpdateLastLogin(l)
                          \/ RecordFails(l) \/ LoginFails(l)
    BY <1>2
  <2>2. /\ token' = token /\ attempt[l].step # "idle"
        /\ (\E x \in {"wrong", "counted", "over", "right", "touched"}: Step(l, x)) \/ Done(l)
    BY <2>1 DEF CountFailure, CheckFailures, LockAccount, UpdateLastLogin, RecordFails, LoginFails
  <2>3. \A k \in Login: \/ attempt'[k].step = "idle"
                        \/ /\ attempt[k].step # "idle" /\ attempt'[k].user = attempt[k].user
                           /\ attempt'[k].sv = attempt[k].sv /\ attempt'[k].doomed = attempt[k].doomed
    BY <2>2, LoginsKept
  <2> QED
    BY <1>1, <2>2, <2>3, TokensKept
<1>3. CASE token' = token /\ (attempt' = attempt \/ attempt' = [l \in Login |-> NoAttempt])
  <2>1. \A k \in Login: \/ attempt'[k].step = "idle"
                        \/ /\ attempt[k].step # "idle" /\ attempt'[k].user = attempt[k].user
                           /\ attempt'[k].sv = attempt[k].sv /\ attempt'[k].doomed = attempt[k].doomed
    BY <1>3 DEF NoAttempt
  <2> QED
    BY <1>1, <1>3, <2>1, TokensKept
<1>4. \/ \E l \in Login: \/ CountFailure(l) \/ CheckFailures(l) \/ LockAccount(l) \/ UpdateLastLogin(l)
                         \/ RecordFails(l) \/ LoginFails(l)
      \/ token' = token /\ (attempt' = attempt \/ attempt' = [l \in Login |-> NoAttempt])
  BY DEF Next, vars, AskChange, LockUser, CountAdmins, LockExpires, Logout, Restart
<1> QED
  BY <1>2, <1>3, <1>4

\* A token whose user has been disabled, deleted or given another password since
\* its login began (service/admin.go, service/auth.go) is never accepted again.
THEOREM EndedForGood == Spec => []RevokedForGood
<1>1. Init => Revocable
  <2> SUFFICES ASSUME Init PROVE Versions
    BY InitTyped DEF Revocable
  <2> QED
    BY DEF Init, Versions, NoAttempt
<1>2. Revocable /\ [Next]_vars => Revocable'
  BY LoginReadRevocable, IssueTokenRevocable, WriteUserRevocable, OthersRevocable
<1>3. Revocable => RevokedForGood
  <2> SUFFICES ASSUME Revocable, NEW i \in DOMAIN token, token[i].doomed PROVE ~Accepts(i)
    BY DEF RevokedForGood
  <2>1. token[i].user \in User /\ token[i].sv \in Nat /\ account[token[i].user].sv \in Nat
    <3>1. token[i] \in TokenRow /\ account \in [User -> UserRow]
      BY DEF Revocable, Typed
    <3> QED
      BY <3>1 DEF TokenRow, UserRow
  <2> QED
    BY <2>1 DEF Revocable, Versions, Older, Accepts
<1> QED
  BY <1>1, <1>2, <1>3, PTL DEF Spec

-----------------------------------------------------------------------------
(* The rows a login handler writes *)

\* An administrator's columns of a row, which no login writes.
SameAccount(a, b) == a.live = b.live /\ a.sv = b.sv /\ a.ver = b.ver
OthersSame(u) == \A v \in User \ {u}: account'[v] = account[v]

LEMMA CountFailureRow ==
  ASSUME Typed, NEW l \in Login, NEW u, u = attempt[l].user, CountFailure(l)
  PROVE  /\ u \in User /\ OthersSame(u) /\ SameAccount(account'[u], account[u]) /\ account'[u].lock = account[u].lock
         /\ account'[u].failed = IF account[u].live /\ account[u].failed < Threshold + Cardinality(Login)
                                 THEN account[u].failed + 1 ELSE account[u].failed
<1>1. u \in User /\ account[u] \in UserRow
  BY DEF CountFailure, Typed
<1>2. PICK f: f = IF account[u].live /\ account[u].failed < Threshold + Cardinality(Login)
                  THEN account[u].failed + 1 ELSE account[u].failed
  OBVIOUS
<1>3. account' = [account EXCEPT ![u] = [account[u] EXCEPT !.failed = f]]
  BY <1>1, <1>2 DEF CountFailure, Typed
<1> QED BY <1>1, <1>2, <1>3 DEF Typed, UserRow, SameAccount, OthersSame

LEMMA LockAccountRow ==
  ASSUME Typed, NEW l \in Login, NEW u, u = attempt[l].user, LockAccount(l)
  PROVE  /\ u \in User /\ OthersSame(u) /\ SameAccount(account'[u], account[u]) /\ account'[u].failed = account[u].failed
         /\ account[u].live => account'[u].lock = "until"
<1>1. u \in User /\ account[u] \in UserRow
  BY DEF LockAccount, Typed
<1>2. PICK k: k = IF account[u].live THEN "until" ELSE account[u].lock
  OBVIOUS
<1>3. account' = [account EXCEPT ![u] = [account[u] EXCEPT !.lock = k]]
  BY <1>1, <1>2 DEF LockAccount, Typed
<1> QED BY <1>1, <1>2, <1>3 DEF Typed, UserRow, SameAccount, OthersSame

LEMMA UpdateLastLoginRow ==
  ASSUME Typed, NEW l \in Login, NEW u, u = attempt[l].user, UpdateLastLogin(l)
  PROVE  /\ u \in User /\ OthersSame(u) /\ SameAccount(account'[u], account[u])
         /\ account'[u].failed = IF account[u].live THEN 0 ELSE account[u].failed
<1>1. u \in User /\ account[u] \in UserRow
  BY DEF UpdateLastLogin, Typed
<1>2. PICK f, k: f = (IF account[u].live THEN 0 ELSE account[u].failed) /\ k = IF account[u].live THEN "no" ELSE account[u].lock
  OBVIOUS
<1>3. account' = [account EXCEPT ![u] = [account[u] EXCEPT !.failed = f, !.lock = k]]
  BY <1>1, <1>2 DEF UpdateLastLogin, Typed, UserRow
<1> QED BY <1>1, <1>2, <1>3 DEF Typed, UserRow, SameAccount, OthersSame

LEMMA LockExpiresRow ==
  ASSUME Typed, NEW u \in User, LockExpires(u)
  PROVE  OthersSame(u) /\ SameAccount(account'[u], account[u]) /\ account'[u].failed = account[u].failed
<1>1. account[u] \in UserRow /\ account' = [account EXCEPT ![u] = [account[u] EXCEPT !.lock = "over"]]
  BY DEF LockExpires, Typed
<1> QED BY <1>1 DEF Typed, UserRow, SameAccount, OthersSame

\* An administrator's write: the version by one, the counter and the lock not at all.
LEMMA ChangedRow ==
  ASSUME NEW row \in UserRow, NEW c \in Change
  PROVE  Changed(row, c).ver = row.ver + 1 /\ Changed(row, c).failed = row.failed /\ Changed(row, c).lock = row.lock
<1> DEFINE e == (row.enabled \/ c = "enable") /\ c # "disable"
           a == (row.admin \/ c = "promote") /\ c # "demote"
           l == c # "delete"
           v == IF BumpsSession(row, c) THEN row.sv + 1 ELSE row.sv
<1>1. Changed(row, c) = [row EXCEPT !.enabled = e, !.admin = a, !.live = l, !.sv = v, !.ver = @ + 1]
  BY DEF Changed
<1> HIDE DEF e, a, l, v
<1> QED BY <1>1 DEF UserRow

LEMMA WriteUserRow ==
  ASSUME Typed, NEW o \in Operator, NEW u, u = txn[o].user, WriteUser(o)
  PROVE  /\ u \in User /\ OthersSame(u) /\ txn[o] # NoTxn
         /\ \/ account' = account
            \/ /\ account[u].live /\ account[u].ver = txn[o].ver
               /\ account'[u].failed = account[u].failed /\ account'[u].lock = account[u].lock
               /\ account'[u].ver = account[u].ver + 1
               /\ account'[u].sv \in {account[u].sv, account[u].sv + 1}
<1>1. u \in User /\ account[u] \in UserRow /\ txn[o] # NoTxn
  BY DEF WriteUser, Typed
<1>2. PICK c \in Change: c = txn[o].change
  BY DEF Typed, TxnRow
<1>3. \/ account' = account
      \/ account[u].live /\ account[u].ver = txn[o].ver /\ account' = [account EXCEPT ![u] = Changed(account[u], c)]
  BY <1>1, <1>2 DEF WriteUser, Typed
<1>4. CASE account' = account
  BY <1>1, <1>4 DEF OthersSame
<1>5. CASE account[u].live /\ account[u].ver = txn[o].ver /\ account' = [account EXCEPT ![u] = Changed(account[u], c)]
  <2>1. account'[u] = Changed(account[u], c) /\ OthersSame(u)
    BY <1>1, <1>5 DEF Typed, OthersSame
  <2> QED BY <1>1, <1>5, <2>1, ChangedTyped, ChangedRow
<1> QED BY <1>3, <1>4, <1>5

-----------------------------------------------------------------------------
(* Versions and counters stay within the bounds of the model *)

\* A version is raised by a change that was asked for when it was lower, so that
\* versions never get ahead of the changes asked for, nor do copies of them.
Limit == Threshold + Cardinality(Login)
Numbered == tries \in [User -> Nat] /\ faults \in [User -> Nat]
RowBounded(row, n) == row.sv <= row.ver /\ row.ver <= n /\ row.failed <= Limit
Bounded ==
  /\ changes \in 0..MaxChanges /\ revoked \subseteq DOMAIN token
  /\ \A u \in User: RowBounded(account[u], changes)
  /\ \A o \in Operator: txn[o] = NoTxn \/ txn[o].ver < changes
  /\ \A l \in Login: attempt[l].sv <= changes
  /\ \A i \in DOMAIN token: token[i].sv <= changes
CountersInv == Typed /\ Numbered /\ Bounded

LEMMA Reset ==
  ASSUME NEW f \in [User -> Nat], NEW u, NEW g, g = [f EXCEPT ![u] = 0]
  PROVE  g \in [User -> Nat]
OBVIOUS

LEMMA Raised ==
  ASSUME NEW f \in [User -> Nat], NEW u \in User, NEW g, g = [f EXCEPT ![u] = @ + 1]
  PROVE  g \in [User -> Nat]
OBVIOUS

LEMMA NumbersKept == Typed /\ Numbered /\ [Next]_vars => Numbered'
<1> SUFFICES ASSUME Typed, tries \in [User -> Nat], faults \in [User -> Nat], [Next]_vars
             PROVE  tries' \in [User -> Nat] /\ faults' \in [User -> Nat]
  BY DEF Numbered
<1>1. ASSUME NEW l \in Login, NEW u \in Subjects, NEW right \in BOOLEAN, LoginRead(l, u, right)
      PROVE  tries' \in [User -> Nat] /\ faults' \in [User -> Nat]
  <2>1. u \in User /\ faults' = faults /\ (tries' = tries \/ tries' = [tries EXCEPT ![u] = @ + 1])
    BY <1>1, AccountsAssumption DEF LoginRead
  <2> QED BY <2>1, Raised
<1>2. ASSUME NEW l \in Login, RecordFails(l) PROVE tries' \in [User -> Nat] /\ faults' \in [User -> Nat]
  <2>1. attempt[l].user \in User /\ tries' = tries /\ faults' = [faults EXCEPT ![attempt[l].user] = @ + 1]
    BY <1>2 DEF RecordFails, Typed
  <2> QED BY <2>1, Raised
<1>3. ASSUME NEW u, tries' = [tries EXCEPT ![u] = 0], faults' = [faults EXCEPT ![u] = 0]
      PROVE  tries' \in [User -> Nat] /\ faults' \in [User -> Nat]
  BY <1>3, Reset
<1>4. CASE Restart
  BY <1>4 DEF Restart
<1>5. CASE UNCHANGED guesses
  BY <1>5 DEF guesses
<1>6. \/ \E l \in Login, u \in Subjects, right \in BOOLEAN: LoginRead(l, u, right)
      \/ \E l \in Login: RecordFails(l)
      \/ \E u: tries' = [tries EXCEPT ![u] = 0] /\ faults' = [faults EXCEPT ![u] = 0]
      \/ Restart \/ UNCHANGED guesses
  <2>1. CASE UNCHANGED vars
    BY <2>1 DEF vars, guesses
  <2>2. CASE \E l \in Login: UpdateLastLogin(l)
    BY <2>2 DEF UpdateLastLogin
  <2>3. CASE \E u \in User: LockExpires(u)
    BY <2>3 DEF LockExpires
  <2>4. \/ \E l \in Login, u \in Subjects, right \in BOOLEAN: LoginRead(l, u, right)
        \/ \E l \in Login: RecordFails(l) \/ UpdateLastLogin(l)
        \/ \E u \in User: LockExpires(u)
        \/ Restart \/ UNCHANGED guesses \/ UNCHANGED vars
    BY Zenon DEF Next, AskChange, LockUser, CountAdmins, WriteUser, CountFailure, CheckFailures, LockAccount,
       IssueToken, LoginFails, Logout
  <2> QED BY <2>1, <2>2, <2>3, <2>4
<1> QED BY <1>1, <1>2, <1>3, <1>4, <1>5, <1>6

LEMMA LimitNat == Limit \in Nat /\ Cardinality(Login) \in Nat
BY AccountsAssumption, FS_CardinalityType DEF Limit

LEMMA BoundedTypes == CountersInv => TypeOK
<1> SUFFICES ASSUME CountersInv PROVE TypeOK
  OBVIOUS
<1>1. changes \in Nat /\ changes <= MaxChanges /\ MaxChanges \in Nat /\ Limit \in Nat
  BY LimitNat, AccountsAssumption DEF CountersInv, Bounded
<1>2. ASSUME NEW x \in Nat, x <= changes PROVE x \in 0..MaxChanges
  BY <1>1, <1>2
<1>3. account \in [User -> Row]
  <2>1. ASSUME NEW u \in User PROVE account[u] \in Row
    <3>1. account[u] \in UserRow /\ RowBounded(account[u], changes)
      BY DEF CountersInv, Bounded, Typed
    <3>2. account[u].sv \in 0..MaxChanges /\ account[u].ver \in 0..MaxChanges /\ account[u].failed \in 0..Limit
      BY <1>1, <3>1 DEF UserRow, RowBounded
    <3> QED BY <3>1, <3>2 DEF UserRow, Row, Limit
  <2> QED BY <2>1 DEF CountersInv, Typed
<1>4. txn \in [Operator -> [step: {"idle", "asked", "locked", "counted"}, user: User \cup {NoUser},
                            change: Change, ver: 0..MaxChanges]]
  <2>1. ASSUME NEW o \in Operator PROVE txn[o].ver \in 0..MaxChanges /\ txn[o] \in TxnRow
    BY <1>1 DEF CountersInv, Bounded, Typed, TxnRow, NoTxn
  <2> QED BY <2>1 DEF CountersInv, Typed, TxnRow
<1>5. attempt \in [Login -> [step: {"idle", "wrong", "counted", "over", "right", "touched"},
                             user: User \cup {NoUser}, sv: 0..MaxChanges, doomed: BOOLEAN]]
  <2>1. ASSUME NEW l \in Login PROVE attempt[l].sv \in 0..MaxChanges /\ attempt[l] \in AttemptRow
    BY <1>2 DEF CountersInv, Bounded, Typed, AttemptRow
  <2> QED BY <2>1 DEF CountersInv, Typed, AttemptRow
<1>6. token \in Seq([user: User, sv: 0..MaxChanges, doomed: BOOLEAN])
  <2>1. token \in [1..Len(token) -> TokenRow] /\ Len(token) \in Nat
    BY DEF CountersInv, Typed
  <2>2. PICK T: T = [user: User, sv: 0..MaxChanges, doomed: BOOLEAN]
    OBVIOUS
  <2>3. ASSUME NEW i \in 1..Len(token) PROVE token[i] \in T
    <3>1. token[i] \in TokenRow /\ token[i].sv <= changes
      BY <2>1 DEF CountersInv, Bounded
    <3> QED BY <1>2, <2>2, <3>1 DEF TokenRow
  <2>4. token \in [1..Len(token) -> T]
    BY <2>1, <2>3
  <2>5. token \in Seq(T)
    BY <2>1, <2>4
  <2> QED BY <2>2, <2>5
<1> QED BY <1>3, <1>4, <1>5, <1>6 DEF TypeOK, CountersInv, Bounded, Numbered

LEMMA InitBounded == Init => Bounded
BY AccountsAssumption, LimitNat DEF Init, Bounded, RowBounded, NoTxn, NoAttempt

\* What a login or a change has copied stays behind when neither rows nor copies grow.
LEMMA BoundedKept ==
  ASSUME CountersInv, changes' = changes, \A u \in User: RowBounded(account'[u], changes),
         \A o \in Operator: txn'[o] = NoTxn \/ (txn[o] # NoTxn /\ txn'[o].ver = txn[o].ver),
         \A l \in Login: attempt'[l].sv <= changes,
         \A i \in DOMAIN token': token'[i].sv <= changes,
         revoked' \subseteq DOMAIN token'
  PROVE  Bounded'
<1>1. \A o \in Operator: txn'[o] = NoTxn \/ txn'[o].ver < changes
  BY DEF CountersInv, Bounded
<1> QED BY <1>1 DEF CountersInv, Bounded

LEMMA StepKept ==
  ASSUME CountersInv, NEW l \in Login, Done(l) \/ \E x \in {"wrong", "counted", "over", "right", "touched"}: Step(l, x)
  PROVE  \A k \in Login: attempt'[k].sv <= changes
<1>1. attempt \in [Login -> AttemptRow] /\ changes \in Nat /\ \A k \in Login: attempt[k].sv <= changes
  BY AccountsAssumption DEF CountersInv, Typed, Bounded
<1>2. CASE Done(l)
  BY <1>1, <1>2 DEF Done, NoAttempt
<1>3. ASSUME NEW x, Step(l, x) PROVE \A k \in Login: attempt'[k].sv <= changes
  BY <1>1, <1>3 DEF Step, AttemptRow
<1> QED BY <1>2, <1>3

LoginStep(l) ==
  \/ CountFailure(l) \/ CheckFailures(l) \/ LockAccount(l) \/ RecordFails(l)
  \/ UpdateLastLogin(l) \/ IssueToken(l) \/ LoginFails(l)

LEMMA LoginsBounded ==
  ASSUME CountersInv, NEW l \in Login,
         LoginStep(l)
  PROVE  Bounded'
<1>1. /\ Typed /\ Bounded /\ changes \in Nat /\ Limit \in Nat /\ token \in Seq(TokenRow)
      /\ account \in [User -> UserRow] /\ \A u \in User: RowBounded(account[u], changes)
  BY LimitNat, AccountsAssumption DEF CountersInv, Typed, Bounded
<1>2. changes' = changes /\ txn' = txn /\ revoked' = revoked
  BY DEF LoginStep, CountFailure, CheckFailures, LockAccount, RecordFails, UpdateLastLogin, IssueToken, LoginFails,
     accountVars
<1>3. \A k \in Login: attempt'[k].sv <= changes
  BY StepKept DEF LoginStep, CountFailure, CheckFailures, LockAccount, RecordFails, UpdateLastLogin, IssueToken,
     LoginFails
<1>5. \A u \in User: RowBounded(account'[u], changes)
  <2>1. PICK u: u = attempt[l].user
    OBVIOUS
  <2>2. CASE CountFailure(l)
    <3>1. /\ u \in User /\ OthersSame(u) /\ SameAccount(account'[u], account[u])
          /\ account'[u].failed = IF account[u].live /\ account[u].failed < Threshold + Cardinality(Login)
                                  THEN account[u].failed + 1 ELSE account[u].failed
      BY <1>1, <2>1, <2>2, CountFailureRow
    <3>2. account[u].failed \in Nat /\ RowBounded(account[u], changes)
      BY <1>1, <3>1 DEF UserRow
    <3>3. RowBounded(account'[u], changes)
      BY <1>1, <3>1, <3>2 DEF RowBounded, SameAccount, Limit
    <3> QED BY <1>1, <3>1, <3>3 DEF OthersSame
  <2>3. CASE LockAccount(l)
    <3>1. /\ u \in User /\ OthersSame(u) /\ SameAccount(account'[u], account[u])
          /\ account'[u].failed = account[u].failed
      BY <1>1, <2>1, <2>3, LockAccountRow
    <3>2. RowBounded(account'[u], changes)
      BY <1>1, <3>1 DEF RowBounded, SameAccount
    <3> QED BY <1>1, <3>1, <3>2 DEF OthersSame
  <2>4. CASE UpdateLastLogin(l)
    <3>1. /\ u \in User /\ OthersSame(u) /\ SameAccount(account'[u], account[u])
          /\ account'[u].failed = IF account[u].live THEN 0 ELSE account[u].failed
      BY <1>1, <2>1, <2>4, UpdateLastLoginRow
    <3>2. RowBounded(account'[u], changes)
      BY <1>1, <3>1 DEF RowBounded, SameAccount
    <3> QED BY <1>1, <3>1, <3>2 DEF OthersSame
  <2>5. CASE CheckFailures(l) \/ RecordFails(l) \/ IssueToken(l) \/ LoginFails(l)
    BY <1>1, <2>5 DEF CheckFailures, RecordFails, IssueToken, LoginFails, accountVars
  <2> QED BY <2>2, <2>3, <2>4, <2>5 DEF LoginStep
<1>6. (\A i \in DOMAIN token': token'[i].sv <= changes) /\ DOMAIN token \subseteq DOMAIN token'
  <2>1. CASE token' = token
    BY <2>1 DEF CountersInv, Bounded
  <2>2. CASE IssueToken(l) /\ token' # token
    <3>1. PICK k: k = [user |-> attempt[l].user, sv |-> attempt[l].sv, doomed |-> attempt[l].doomed]
      OBVIOUS
    <3>2. token' = Append(token, k) /\ k.sv <= changes
      BY <2>2, <3>1 DEF IssueToken, CountersInv, Bounded
    <3>3. Len(token) \in Nat /\ DOMAIN token = 1..Len(token) /\ DOMAIN token' = 1..(Len(token) + 1)
      BY <1>1, <3>2
    <3>4. ASSUME NEW i \in DOMAIN token' PROVE token'[i].sv <= changes
      <4>1. (i \in DOMAIN token /\ token'[i] = token[i]) \/ token'[i] = k
        BY <1>1, <3>2, <3>3, <3>4
      <4> QED BY <1>1, <3>2, <4>1 DEF Bounded
    <3> QED BY <3>3, <3>4
  <2>3. token' = token \/ IssueToken(l)
    BY DEF LoginStep, CountFailure, CheckFailures, LockAccount, RecordFails, UpdateLastLogin, LoginFails
  <2> QED BY <2>1, <2>2, <2>3
<1>7. \A o \in Operator: txn'[o] = NoTxn \/ (txn[o] # NoTxn /\ txn'[o].ver = txn[o].ver)
  BY <1>2
<1>8. revoked' \subseteq DOMAIN token'
  BY <1>1, <1>2, <1>6 DEF Bounded
<1> QED BY <1>2, <1>3, <1>5, <1>6, <1>7, <1>8, BoundedKept

LEMMA WriteUserBounded ==
  ASSUME CountersInv, NEW o \in Operator, WriteUser(o)
  PROVE  Bounded'
<1>1. /\ Typed /\ Bounded /\ changes \in Nat /\ Limit \in Nat /\ changes' = changes /\ revoked' = revoked
      /\ account \in [User -> UserRow] /\ \A u \in User: RowBounded(account[u], changes)
      /\ txn' = [txn EXCEPT ![o] = NoTxn]
  BY LimitNat, AccountsAssumption DEF CountersInv, Typed, Bounded, WriteUser
<1>2. PICK u: u = txn[o].user
  OBVIOUS
<1>3. \A v \in User: RowBounded(account'[v], changes)
  <2>1. u \in User /\ account[u] \in UserRow /\ txn[o].ver \in Nat /\ txn[o].ver < changes
    BY <1>1, <1>2, WriteUserRow DEF Bounded, Typed, TxnRow
  <2>2. CASE account' = account
    BY <1>1, <2>2
  <2>3. CASE account' # account
    <3>1. RowBounded(account'[u], changes)
      BY <1>1, <1>2, <2>1, <2>3, WriteUserRow DEF RowBounded, UserRow
    <3> QED BY <1>1, <1>2, <3>1, WriteUserRow DEF OthersSame
  <2> QED BY <2>2, <2>3
<1>4. \A p \in Operator: txn'[p] = NoTxn \/ (txn[p] # NoTxn /\ txn'[p].ver = txn[p].ver)
  BY <1>1 DEF Typed
<1>5. \A l \in Login: attempt'[l].sv <= changes
  <2>1. attempt' = attempt \/ attempt' = [l \in Login |-> Doomed(attempt[l], u)]
    BY <1>2 DEF WriteUser
  <2> QED BY <1>1, <2>1, DoomedTyped DEF Bounded, Typed
<1>6. DOMAIN token' = DOMAIN token /\ \A i \in DOMAIN token': token'[i].sv <= changes
  <2>1. token' = token \/ token' = [i \in DOMAIN token |-> Doomed(token[i], u)]
    BY <1>2 DEF WriteUser
  <2>2. \A i \in DOMAIN token: token[i] \in TokenRow
    BY <1>1 DEF Typed
  <2> QED BY <1>1, <2>1, <2>2, DoomedTyped DEF Bounded
<1>7. revoked' \subseteq DOMAIN token'
  BY <1>1, <1>6 DEF Bounded
<1> QED BY <1>1, <1>3, <1>4, <1>5, <1>6, <1>7, BoundedKept

LEMMA OthersBounded ==
  ASSUME CountersInv, [Next]_vars,
         ~ \E o \in Operator: WriteUser(o),
         ~ \E l \in Login: LoginStep(l)
  PROVE  Bounded'
<1>1. /\ Typed /\ Bounded /\ changes \in Nat /\ Limit \in Nat
      /\ \A u \in User: RowBounded(account[u], changes) /\ account[u] \in UserRow
      /\ txn \in [Operator -> TxnRow] /\ attempt \in [Login -> AttemptRow]
  BY LimitNat, AccountsAssumption DEF CountersInv, Typed, Bounded
<1>2. CASE UNCHANGED vars
  BY <1>2 DEF vars, accountVars, CountersInv, Bounded
<1>3. ASSUME NEW o \in Operator, NEW u \in User, NEW c \in Change, AskChange(o, u, c) PROVE Bounded'
  <2>1. /\ changes' = changes + 1 /\ changes' \in 0..MaxChanges
        /\ txn' = [txn EXCEPT ![o] = [step |-> "asked", user |-> u, change |-> c, ver |-> account[u].ver]]
        /\ UNCHANGED <<account, attempt, token, revoked>>
    BY <1>1, <1>3, AccountsAssumption DEF AskChange
  <2>2. \A x \in Nat: x <= changes => x <= changes' /\ x < changes'
    BY <1>1, <2>1
  <2>3. \A v \in User: RowBounded(account[v], changes')
    BY <1>1, <2>2 DEF RowBounded, UserRow
  <2>4. \A p \in Operator: txn'[p] = NoTxn \/ txn'[p].ver < changes'
    <3>1. txn'[o].ver = account[u].ver /\ account[u].ver \in Nat /\ account[u].ver <= changes
      BY <1>1, <2>1 DEF RowBounded, UserRow
    <3>2. ASSUME NEW p \in Operator \ {o} PROVE txn'[p] = NoTxn \/ txn'[p].ver < changes'
      BY <1>1, <2>1 DEF Bounded, TxnRow
    <3> QED BY <2>2, <3>1, <3>2
  <2>5. \A l \in Login: attempt[l].sv <= changes'
    BY <1>1, <2>2 DEF Bounded, AttemptRow
  <2>6. \A i \in DOMAIN token: token[i].sv <= changes'
    <3>1. \A i \in DOMAIN token: token[i] \in TokenRow
      BY <1>1 DEF Typed
    <3> QED BY <1>1, <2>2, <3>1 DEF Bounded, TokenRow
  <2> QED BY <1>1, <2>1, <2>3, <2>4, <2>5, <2>6 DEF Bounded
<1>4. ASSUME NEW o \in Operator, LockUser(o) \/ CountAdmins(o) PROVE Bounded'
  <2>1. UNCHANGED <<account, changes, attempt, token, revoked>> /\ txn[o] # NoTxn
    BY <1>4 DEF LockUser, CountAdmins, NoTxn
  <2>2. \/ txn' = [txn EXCEPT ![o] = NoTxn]
        \/ \E s \in {"locked", "counted"}: txn' = [txn EXCEPT ![o] = [txn[o] EXCEPT !.step = s]]
    BY <1>1, <1>4 DEF LockUser, CountAdmins
  <2>3. \A p \in Operator: txn'[p] = NoTxn \/ (txn[p] # NoTxn /\ txn'[p].ver = txn[p].ver)
    BY <1>1, <2>1, <2>2 DEF TxnRow
  <2> QED BY <1>1, <2>1, <2>3, BoundedKept DEF Bounded
<1>5. ASSUME NEW l \in Login, NEW u \in Subjects, NEW right \in BOOLEAN, LoginRead(l, u, right) PROVE Bounded'
  <2>1. u \in User /\ UNCHANGED <<account, changes, txn, token, revoked>>
    BY <1>5, AccountsAssumption DEF LoginRead, accountVars
  <2>3. account[u].sv <= changes
    BY <1>1, <2>1 DEF RowBounded, UserRow
  <2>4. \A k \in Login: attempt'[k].sv <= changes
    <3>1. \A k \in Login: attempt'[k] = attempt[k] \/ attempt'[k].sv = account[u].sv
      BY <1>1, <1>5 DEF LoginRead
    <3> QED BY <1>1, <2>3, <3>1 DEF Bounded
  <2> QED BY <1>1, <2>1, <2>4, BoundedKept DEF Bounded
<1>6. ASSUME NEW u \in User, LockExpires(u) PROVE Bounded'
  <2>1. UNCHANGED <<changes, txn, attempt, token, revoked>>
    BY <1>1, <1>6 DEF LockExpires
  <2>2. \A v \in User: RowBounded(account'[v], changes)
    BY <1>1, <1>6, LockExpiresRow DEF RowBounded, OthersSame, SameAccount
  <2> QED BY <1>1, <2>1, <2>2, BoundedKept DEF Bounded
<1>7. ASSUME NEW i \in DOMAIN token, Logout(i) PROVE Bounded'
  BY <1>1, <1>7, BoundedKept DEF Logout, Bounded, accountVars
<1>8. CASE Restart
  <2>1. UNCHANGED <<account, changes, token>> /\ revoked' = {}
    BY <1>8 DEF Restart
  <2>2. (\A o \in Operator: txn'[o] = NoTxn) /\ \A l \in Login: attempt'[l].sv <= changes
    BY <1>1, <1>8 DEF Restart, NoAttempt
  <2> QED BY <1>1, <2>1, <2>2, BoundedKept DEF Bounded
<1> QED BY <1>2, <1>3, <1>4, <1>5, <1>6, <1>7, <1>8 DEF Next, LoginStep

\* No version of a row, and no copy of one in a request, a login or a token, gets
\* ahead of the changes that were asked for, and the failure counter has a limit.
THEOREM AccountsTypes == Spec => []TypeOK
<1>1. Init => CountersInv
  BY InitTyped, InitBounded DEF CountersInv, Numbered, Init
<1>2. CountersInv /\ [Next]_vars => CountersInv'
  BY NextTyped, NumbersKept, LoginsBounded, WriteUserBounded, OthersBounded DEF CountersInv
<1> QED BY <1>1, <1>2, BoundedTypes, PTL DEF Spec

-----------------------------------------------------------------------------
(* Guesses at a password *)

\* The attempts at u whose wrong password the counter does not know yet, and all
\* that have compared a wrong one and are not over.
Waiting(att, u) == {l \in Login: att[l].user = u /\ att[l].step = "wrong"}
Failing(att, u) == {l \in Login: att[l].user = u /\ att[l].step \in {"wrong", "counted", "over"}}

\* t guesses, w of them waiting, f by attempts that are not over, and x failed
\* statements.  The counter, which no expiry resets, has the others until it reaches
\* the threshold; while the account is not locked every attempt that is over has seen
\* it below, or failed.
GuessBound(row, t, x, w, f) ==
  /\ t < Threshold + Cardinality(Login) + x
  /\ row.live => row.failed >= Threshold \/ t <= row.failed + w + x
  /\ row.live /\ row.lock # "until" => t < Threshold + f + x

Guessed(u) == GuessBound(account[u], tries[u], faults[u], Cardinality(Waiting(attempt, u)), Cardinality(Failing(attempt, u)))
GuessInv == Typed /\ Numbered /\ \A u \in User: Guessed(u)

LEMMA Counts ==
  ASSUME NEW att, NEW u
  PROVE  /\ IsFiniteSet(Waiting(att, u)) /\ IsFiniteSet(Failing(att, u))
         /\ Cardinality(Waiting(att, u)) \in Nat /\ Cardinality(Failing(att, u)) \in Nat /\ Cardinality(Login) \in Nat
         /\ Cardinality(Waiting(att, u)) <= Cardinality(Failing(att, u))
         /\ Cardinality(Failing(att, u)) <= Cardinality(Login)
<1>1. Failing(att, u) \in SUBSET Login /\ Waiting(att, u) \in SUBSET Failing(att, u)
  BY DEF Failing, Waiting
<1>2. IsFiniteSet(Failing(att, u)) /\ Cardinality(Failing(att, u)) <= Cardinality(Login)
  BY <1>1, FS_Subset, AccountsAssumption
<1>3. IsFiniteSet(Waiting(att, u)) /\ Cardinality(Waiting(att, u)) <= Cardinality(Failing(att, u))
  BY <1>1, <1>2, FS_Subset
<1> QED BY <1>2, <1>3, FS_CardinalityType, AccountsAssumption

LEMMA GuessKept ==
  ASSUME GuessInv, NEW v \in User, tries'[v] = tries[v], faults'[v] = faults[v],
         account'[v].live => account[v].live /\ account'[v].failed = account[v].failed /\ account'[v].lock = account[v].lock,
         Waiting(attempt', v) = Waiting(attempt, v), Failing(attempt', v) = Failing(attempt, v)
  PROVE  Guessed(v)'
BY DEF GuessInv, Guessed, GuessBound

LEMMA GuessReset ==
  ASSUME Typed', NEW v \in User, tries'[v] = 0, faults'[v] = 0
  PROVE  Guessed(v)'
<1>1. account'[v].failed \in Nat
  BY DEF Typed, UserRow
<1>2. /\ Cardinality(Waiting(attempt', v)) \in Nat /\ Cardinality(Failing(attempt', v)) \in Nat
      /\ Cardinality(Login) \in Nat
  BY Counts
<1>3. PICK w \in Nat, f \in Nat: w = Cardinality(Waiting(attempt', v)) /\ f = Cardinality(Failing(attempt', v))
  BY <1>2
<1>4. GuessBound(account'[v], 0, 0, w, f)
  BY <1>1, <1>2, AccountsAssumption DEF GuessBound
<1> QED BY <1>3, <1>4 DEF Guessed

LEMMA CountFailureGuessed ==
  ASSUME GuessInv, NEW l \in Login, CountFailure(l)
  PROVE  \A v \in User: Guessed(v)'
<1>1. PICK u \in User: u = attempt[l].user
  BY CountFailureRow DEF GuessInv
<1>2. /\ OthersSame(u) /\ SameAccount(account'[u], account[u]) /\ account'[u].lock = account[u].lock
      /\ account'[u].failed = IF account[u].live /\ account[u].failed < Threshold + Cardinality(Login)
                              THEN account[u].failed + 1 ELSE account[u].failed
  BY <1>1, CountFailureRow DEF GuessInv
<1>3. /\ attempt[l].step = "wrong" /\ attempt'[l].step = "counted" /\ attempt'[l].user = u
      /\ \A k \in Login \ {l}: attempt'[k] = attempt[k]
      /\ UNCHANGED <<tries, faults>>
  BY <1>1 DEF CountFailure, Step, GuessInv, Typed, AttemptRow, guesses
<1>4. /\ \A v: v # u => Waiting(attempt', v) = Waiting(attempt, v) /\ Failing(attempt', v) = Failing(attempt, v)
      /\ Waiting(attempt', u) = Waiting(attempt, u) \ {l} /\ l \in Waiting(attempt, u)
      /\ Failing(attempt', u) = Failing(attempt, u)
  BY <1>1, <1>3 DEF Waiting, Failing
<1>5. \A v \in User \ {u}: Guessed(v)'
  BY <1>2, <1>3, <1>4, GuessKept DEF OthersSame
<1>6. Guessed(u)'
  <2>1. /\ Cardinality(Waiting(attempt', u)) = Cardinality(Waiting(attempt, u)) - 1
        /\ Cardinality(Waiting(attempt, u)) \in Nat /\ Cardinality(Login) \in Nat
    BY <1>4, Counts, FS_RemoveElement
  <2>2. account[u].failed \in Nat /\ tries[u] \in Nat /\ faults[u] \in Nat
    BY DEF GuessInv, Typed, UserRow, Numbered
  <2> QED BY <1>2, <1>3, <1>4, <2>1, <2>2, AccountsAssumption DEF GuessInv, Guessed, GuessBound, SameAccount
<1> QED BY <1>5, <1>6

LEMMA CheckFailuresGuessed ==
  ASSUME GuessInv, NEW l \in Login, CheckFailures(l)
  PROVE  \A v \in User: Guessed(v)'
<1>1. /\ UNCHANGED <<account, tries, faults>> /\ attempt[l].step = "counted" /\ attempt[l].user \in User
      /\ attempt \in [Login -> AttemptRow]
  BY DEF CheckFailures, guesses, accountVars, GuessInv, Typed
<1>2. PICK u \in User: u = attempt[l].user
  BY <1>1
<1>3. CASE Step(l, "over")
  <2>1. /\ attempt'[l].step = "over" /\ attempt'[l].user = u
        /\ \A k \in Login \ {l}: attempt'[k] = attempt[k]
    BY <1>1, <1>2, <1>3 DEF Step, AttemptRow
  <2>2. \A v: Waiting(attempt', v) = Waiting(attempt, v) /\ Failing(attempt', v) = Failing(attempt, v)
    BY <1>1, <1>2, <2>1 DEF Waiting, Failing
  <2> QED BY <1>1, <2>2, GuessKept
<1>4. CASE Done(l) /\ ~(account[u].live /\ account[u].failed >= Threshold)
  <2>1. attempt'[l].step = "idle" /\ \A k \in Login \ {l}: attempt'[k] = attempt[k]
    BY <1>1, <1>4 DEF Done, NoAttempt
  <2>2. /\ \A v: v # u => Waiting(attempt', v) = Waiting(attempt, v) /\ Failing(attempt', v) = Failing(attempt, v)
        /\ Waiting(attempt', u) = Waiting(attempt, u)
        /\ Failing(attempt', u) = Failing(attempt, u) \ {l} /\ l \in Failing(attempt, u)
    BY <1>1, <1>2, <2>1 DEF Waiting, Failing
  <2>3. \A v \in User \ {u}: Guessed(v)'
    BY <1>1, <2>2, GuessKept
  <2>4. Guessed(u)'
    <3>1. /\ Cardinality(Waiting(attempt', u)) \in Nat /\ Cardinality(Failing(attempt', u)) \in Nat
          /\ Cardinality(Waiting(attempt', u)) <= Cardinality(Failing(attempt', u))
          /\ Cardinality(Login) \in Nat
      BY Counts
    <3>2. account[u].failed \in Nat /\ tries[u] \in Nat /\ faults[u] \in Nat
      BY DEF GuessInv, Typed, UserRow, Numbered
    <3> QED BY <1>1, <1>4, <2>2, <3>1, <3>2, AccountsAssumption DEF GuessInv, Guessed, GuessBound
  <2> QED BY <2>3, <2>4
<1> QED BY <1>2, <1>3, <1>4 DEF CheckFailures

LEMMA LockAccountGuessed ==
  ASSUME GuessInv, NEW l \in Login, LockAccount(l)
  PROVE  \A v \in User: Guessed(v)'
<1>1. PICK u \in User: u = attempt[l].user
  BY LockAccountRow DEF GuessInv
<1>2. /\ OthersSame(u) /\ SameAccount(account'[u], account[u]) /\ account'[u].failed = account[u].failed
      /\ account[u].live => account'[u].lock = "until"
  BY <1>1, LockAccountRow DEF GuessInv
<1>3. /\ attempt[l].step = "over" /\ attempt'[l].step = "idle" /\ UNCHANGED <<tries, faults>>
      /\ \A k \in Login \ {l}: attempt'[k] = attempt[k]
  BY DEF LockAccount, Done, NoAttempt, GuessInv, Typed, guesses
<1>4. /\ \A v: v # u => Waiting(attempt', v) = Waiting(attempt, v) /\ Failing(attempt', v) = Failing(attempt, v)
      /\ Waiting(attempt', u) = Waiting(attempt, u)
  BY <1>1, <1>3 DEF Waiting, Failing
<1>5. \A v \in User \ {u}: Guessed(v)'
  BY <1>2, <1>3, <1>4, GuessKept DEF OthersSame
<1>6. Guessed(u)'
  BY <1>2, <1>3, <1>4 DEF GuessInv, Guessed, GuessBound, SameAccount
<1> QED BY <1>5, <1>6

LEMMA RecordFailsGuessed ==
  ASSUME GuessInv, NEW l \in Login, RecordFails(l)
  PROVE  \A v \in User: Guessed(v)'
<1>1. PICK u \in User: u = attempt[l].user
  BY DEF RecordFails, GuessInv, Typed
<1>2. /\ account' = account /\ tries' = tries /\ faults' = [faults EXCEPT ![u] = @ + 1]
      /\ attempt[l].step \in {"wrong", "counted", "over"} /\ attempt'[l].step = "idle"
      /\ \A k \in Login \ {l}: attempt'[k] = attempt[k]
  BY <1>1 DEF RecordFails, Done, NoAttempt, GuessInv, Typed, accountVars
<1>3. /\ \A v: v # u => Waiting(attempt', v) = Waiting(attempt, v) /\ Failing(attempt', v) = Failing(attempt, v)
      /\ Waiting(attempt', u) = Waiting(attempt, u) \ {l}
      /\ Failing(attempt', u) = Failing(attempt, u) \ {l} /\ l \in Failing(attempt, u)
  BY <1>1, <1>2 DEF Waiting, Failing
<1>4. faults \in [User -> Nat] /\ tries[u] \in Nat /\ account[u].failed \in Nat
  BY DEF GuessInv, Numbered, Typed, UserRow
<1>5. \A v \in User \ {u}: Guessed(v)'
  BY <1>2, <1>3, <1>4, GuessKept
<1>6. Guessed(u)'
  <2>1. /\ Cardinality(Failing(attempt', u)) = Cardinality(Failing(attempt, u)) - 1
        /\ Cardinality(Waiting(attempt', u)) >= Cardinality(Waiting(attempt, u)) - 1
        /\ Cardinality(Waiting(attempt, u)) \in Nat /\ Cardinality(Waiting(attempt', u)) \in Nat
        /\ Cardinality(Failing(attempt, u)) \in Nat /\ Cardinality(Login) \in Nat
    <3>1. IsFiniteSet(Waiting(attempt, u)) /\ IsFiniteSet(Failing(attempt, u))
      BY Counts
    <3>2. Cardinality(Failing(attempt', u)) = Cardinality(Failing(attempt, u)) - 1
      BY <1>3, <3>1, FS_RemoveElement
    <3>3. Cardinality(Waiting(attempt', u)) >= Cardinality(Waiting(attempt, u)) - 1
      <4>1. CASE l \in Waiting(attempt, u)
        <5>1. Cardinality(Waiting(attempt', u)) = Cardinality(Waiting(attempt, u)) - 1
          BY <1>3, <3>1, <4>1, FS_RemoveElement
        <5> QED BY <5>1, Counts
      <4>2. CASE l \notin Waiting(attempt, u)
        <5>1. Waiting(attempt', u) = Waiting(attempt, u)
          BY <1>3, <4>2
        <5> QED BY <5>1, Counts
      <4> QED BY <4>1, <4>2
    <3> QED BY <3>2, <3>3, Counts
  <2>2. faults'[u] = faults[u] + 1 /\ faults[u] \in Nat
    BY <1>2, <1>4
  <2> QED BY <1>2, <1>4, <2>1, <2>2, AccountsAssumption DEF GuessInv, Guessed, GuessBound
<1> QED BY <1>5, <1>6

LEMMA LoginReadGuessed ==
  ASSUME GuessInv, NEW l \in Login, NEW u \in Subjects, NEW right \in BOOLEAN, LoginRead(l, u, right)
  PROVE  \A v \in User: Guessed(v)'
<1>1. /\ u \in User /\ account' = account /\ attempt[l].step = "idle" /\ tries \in [User -> Nat] /\ faults' = faults
      /\ account[u].live /\ account[u].lock # "until"
  BY AccountsAssumption DEF LoginRead, accountVars, NoAttempt, GuessInv, Numbered
<1>2. /\ attempt'[l].user = u /\ attempt'[l].step = IF right THEN "right" ELSE "wrong"
      /\ \A k \in Login \ {l}: attempt'[k] = attempt[k]
  BY DEF LoginRead, GuessInv, Typed
<1>3. \A v: v # u => Waiting(attempt', v) = Waiting(attempt, v) /\ Failing(attempt', v) = Failing(attempt, v)
  BY <1>1, <1>2 DEF Waiting, Failing
<1>4. \A v \in User \ {u}: Guessed(v)'
  <2>1. \A v \in User \ {u}: tries'[v] = tries[v]
    BY <1>1 DEF LoginRead
  <2> QED BY <1>1, <1>3, <2>1, GuessKept
<1>5. CASE right
  <2>1. /\ Waiting(attempt', u) = Waiting(attempt, u) /\ Failing(attempt', u) = Failing(attempt, u)
        /\ tries'[u] = tries[u]
    BY <1>1, <1>2, <1>5 DEF Waiting, Failing, LoginRead
  <2>2. Guessed(u)'
    BY <1>1, <2>1, GuessKept
  <2> QED BY <1>4, <2>2
<1>6. CASE ~right
  <2>1. /\ Waiting(attempt', u) = Waiting(attempt, u) \cup {l} /\ l \notin Waiting(attempt, u)
        /\ Failing(attempt', u) = Failing(attempt, u) \cup {l} /\ l \notin Failing(attempt, u)
        /\ tries'[u] = tries[u] + 1
    BY <1>1, <1>2, <1>6 DEF Waiting, Failing, LoginRead
  <2>2. /\ Cardinality(Waiting(attempt', u)) = Cardinality(Waiting(attempt, u)) + 1
        /\ Cardinality(Failing(attempt', u)) = Cardinality(Failing(attempt, u)) + 1
    <3>1. IsFiniteSet(Waiting(attempt, u)) /\ IsFiniteSet(Failing(attempt, u))
      BY Counts
    <3> QED BY <2>1, <3>1, FS_AddElement
  <2>3. /\ Cardinality(Waiting(attempt, u)) \in Nat /\ Cardinality(Failing(attempt, u)) \in Nat
        /\ Cardinality(Login) \in Nat /\ Cardinality(Failing(attempt', u)) <= Cardinality(Login)
    BY Counts
  <2>4. account[u].failed \in Nat /\ tries[u] \in Nat /\ faults[u] \in Nat
    BY <1>1 DEF GuessInv, Typed, UserRow, Numbered
  <2>5. Guessed(u)
    BY <1>1 DEF GuessInv
  <2>6. Guessed(u)'
    BY <1>1, <2>1, <2>2, <2>3, <2>4, <2>5, AccountsAssumption DEF Guessed, GuessBound
  <2> QED BY <1>4, <2>6
<1> QED BY <1>5, <1>6

LEMMA WriteUserGuessed ==
  ASSUME GuessInv, NEW o \in Operator, WriteUser(o)
  PROVE  \A v \in User: Guessed(v)'
<1>1. PICK u \in User: u = txn[o].user
  BY WriteUserRow DEF GuessInv
<1>2. \A v \in User: account'[v].live
        => account[v].live /\ account'[v].failed = account[v].failed /\ account'[v].lock = account[v].lock
  BY <1>1, WriteUserRow DEF GuessInv, OthersSame
<1>3. \A v: Waiting(attempt', v) = Waiting(attempt, v) /\ Failing(attempt', v) = Failing(attempt, v)
  <2>1. attempt' = attempt \/ attempt' = [l \in Login |-> Doomed(attempt[l], u)]
    BY <1>1 DEF WriteUser
  <2>2. \A l \in Login: attempt'[l].user = attempt[l].user /\ attempt'[l].step = attempt[l].step
    BY <2>1, DoomedTyped DEF GuessInv, Typed
  <2> QED BY <2>2 DEF Waiting, Failing
<1>4. UNCHANGED <<tries, faults>>
  BY DEF WriteUser, guesses
<1> QED BY <1>2, <1>3, <1>4, GuessKept

\* The steps that begin the count anew, and those that no guess is seen in.
LEMMA OthersGuessed ==
  ASSUME GuessInv, [Next]_vars,
         ~ \E o \in Operator: WriteUser(o),
         ~ \E l \in Login: \/ CountFailure(l) \/ CheckFailures(l) \/ LockAccount(l) \/ RecordFails(l)
                           \/ \E u \in Subjects, right \in BOOLEAN: LoginRead(l, u, right)
  PROVE  \A v \in User: Guessed(v)'
<1>1. Typed /\ Typed' /\ tries \in [User -> Nat] /\ faults \in [User -> Nat] /\ attempt \in [Login -> AttemptRow]
  BY NextTyped DEF GuessInv, Typed, Numbered
<1>2. ASSUME UNCHANGED <<account, attempt, tries, faults>> PROVE \A v \in User: Guessed(v)'
  BY <1>2, GuessKept
<1>3. ASSUME NEW l \in Login, UpdateLastLogin(l) PROVE \A v \in User: Guessed(v)'
  <2>1. PICK u \in User: u = attempt[l].user
    BY <1>1, <1>3, UpdateLastLoginRow
  <2>2. OthersSame(u) /\ tries' = [tries EXCEPT ![u] = 0] /\ faults' = [faults EXCEPT ![u] = 0]
        /\ attempt' = [attempt EXCEPT ![l].step = "touched"]
        /\ attempt[l].step = "right"
    BY <1>1, <1>3, <2>1, UpdateLastLoginRow DEF UpdateLastLogin, Step
  <2>3. \A v: Waiting(attempt', v) = Waiting(attempt, v) /\ Failing(attempt', v) = Failing(attempt, v)
    <3>1. /\ attempt'[l].step = "touched" /\ \A k \in Login \ {l}: attempt'[k] = attempt[k]
      BY <1>1, <2>2 DEF AttemptRow
    <3> QED BY <2>2, <3>1 DEF Waiting, Failing
  <2>4. \A v \in User \ {u}: Guessed(v)'
    BY <1>1, <2>2, <2>3, GuessKept DEF OthersSame
  <2>5. Guessed(u)'
    BY <1>1, <2>2, GuessReset
  <2> QED BY <2>4, <2>5
<1>4. ASSUME NEW l \in Login, IssueToken(l) \/ LoginFails(l) PROVE \A v \in User: Guessed(v)'
  <2>1. /\ UNCHANGED <<account, tries, faults>> /\ attempt[l].step \in {"right", "touched"} /\ attempt'[l].step = "idle"
        /\ \A k \in Login \ {l}: attempt'[k] = attempt[k]
    BY <1>1, <1>4 DEF IssueToken, LoginFails, guesses, accountVars, Done, NoAttempt
  <2>2. \A v: Waiting(attempt', v) = Waiting(attempt, v) /\ Failing(attempt', v) = Failing(attempt, v)
    BY <2>1 DEF Waiting, Failing
  <2> QED BY <2>1, <2>2, GuessKept
<1>5. ASSUME NEW u \in User, LockExpires(u) PROVE \A v \in User: Guessed(v)'
  <2>1. OthersSame(u) /\ tries' = [tries EXCEPT ![u] = 0] /\ faults' = [faults EXCEPT ![u] = 0] /\ attempt' = attempt
    BY <1>1, <1>5, LockExpiresRow DEF LockExpires
  <2>2. \A v \in User \ {u}: Guessed(v)'
    BY <1>1, <2>1, GuessKept DEF OthersSame
  <2>3. Guessed(u)'
    BY <1>1, <2>1, GuessReset
  <2> QED BY <2>2, <2>3
<1>6. CASE Restart
  BY <1>1, <1>6, GuessReset DEF Restart
<1>7. \/ UNCHANGED <<account, attempt, tries, faults>> \/ Restart
      \/ \E l \in Login: UpdateLastLogin(l) \/ IssueToken(l) \/ LoginFails(l)
      \/ \E u \in User: LockExpires(u)
  BY DEF Next, vars, accountVars, guesses, AskChange, LockUser, CountAdmins, Logout
<1> QED BY <1>2, <1>3, <1>4, <1>5, <1>6, <1>7

LEMMA InitGuessed == Init => \A v \in User: Guessed(v)
<1> SUFFICES ASSUME Init, NEW v \in User PROVE Guessed(v)
  OBVIOUS
<1>1. tries[v] = 0 /\ faults[v] = 0 /\ account[v].failed = 0
  BY DEF Init
<1>2. PICK w \in Nat, f \in Nat: w = Cardinality(Waiting(attempt, v)) /\ f = Cardinality(Failing(attempt, v))
  BY Counts
<1>3. Cardinality(Login) \in Nat
  BY Counts
<1> QED BY <1>1, <1>2, <1>3, AccountsAssumption DEF Guessed, GuessBound

\* Counting a failure and locking the account are three statements, each committed by
\* itself, and Login goes on without whichever of them fails (repository/store.go,
\* RecordLoginFailure; service/auth.go): however logins interleave, no more wrong
\* passwords are compared than the threshold, the attempts under way and one for each
\* statement that failed.
THEOREM GuessesBounded == Spec => []LockoutBound
<1>1. Init => GuessInv
  BY InitTyped, InitGuessed DEF GuessInv, Numbered, Init
<1>2. GuessInv /\ [Next]_vars => GuessInv'
  BY NextTyped, NumbersKept, CountFailureGuessed, CheckFailuresGuessed, LockAccountGuessed, LoginReadGuessed,
     RecordFailsGuessed, WriteUserGuessed, OthersGuessed DEF GuessInv
<1>3. GuessInv => LockoutBound
  BY AccountsAssumption, LimitNat DEF GuessInv, Guessed, GuessBound, LockoutBound, Numbered
<1> QED BY <1>1, <1>2, <1>3, PTL DEF Spec
=============================================================================
