------------------------------- MODULE Accounts -------------------------------
(***************************************************************************)
(* Accounts and tokens: the user rows, the administrators who change them  *)
(* (service/admin.go), logins with their failure counter                   *)
(* (service/auth.go, repository/store.go), and the tokens the middleware   *)
(* accepts (middleware/middleware.go).                                     *)
(***************************************************************************)
EXTENDS Naturals, Sequences, FiniteSets

CONSTANTS User, Operator, Login, NoUser,
          Subjects,                \* the users who log in
          Threshold,               \* loginFailureThreshold
          MaxTokens, MaxChanges,   \* bounds: tokens issued, account changes asked for
          MaxFaults                \* bound: failing statements while a user's guesses are counted

\* The database starts with an administrator (EnsureAdmin); finitely many logins
\* are served at once, and the threshold is a positive number.
ASSUME AccountsAssumption ==
  /\ User # {} /\ Subjects \subseteq User
  /\ IsFiniteSet(Login) /\ Threshold \in Nat \ {0} /\ MaxChanges \in Nat

Change == {"disable", "enable", "demote", "promote", "delete", "reset"}
Removals == {"disable", "demote", "delete"}

VARIABLES
  account,   \* account[u]: the row of user u
  changes,   \* changes asked for so far
  txn,       \* txn[o]: the account transaction of operator o
  attempt,   \* attempt[l]: the login handler l
  tries,     \* history: wrong passwords compared since the last success, expiry or restart
  token,     \* the tokens issued, in order
  faults,    \* history: statements of RecordLoginFailure that failed meanwhile
  revoked    \* the revoker's black list, in memory

accountVars == <<account, changes, txn>>
guesses == <<tries, faults>>
vars == <<account, changes, txn, attempt, tries, faults, token, revoked>>

Row == [enabled: BOOLEAN, admin: BOOLEAN, live: BOOLEAN, sv: 0..MaxChanges, ver: 0..MaxChanges,
        failed: 0..(Threshold + Cardinality(Login)), lock: {"no", "until", "over"}]
NoTxn == [step |-> "idle", user |-> NoUser, change |-> "reset", ver |-> 0]
NoAttempt == [step |-> "idle", user |-> NoUser, sv |-> 0, doomed |-> FALSE]

TypeOK ==
  /\ account \in [User -> Row] /\ changes \in 0..MaxChanges
  /\ txn \in [Operator -> [step: {"idle", "asked", "locked", "counted"}, user: User \cup {NoUser},
                           change: Change, ver: 0..MaxChanges]]
  /\ attempt \in [Login -> [step: {"idle", "wrong", "counted", "over", "right", "touched"},
                            user: User \cup {NoUser}, sv: 0..MaxChanges, doomed: BOOLEAN]]
  /\ tries \in [User -> Nat] /\ faults \in [User -> Nat]
  /\ token \in Seq([user: User, sv: 0..MaxChanges, doomed: BOOLEAN])
  /\ revoked \subseteq DOMAIN token

Init ==
  /\ account = [u \in User |-> [enabled |-> TRUE, admin |-> TRUE, live |-> TRUE, sv |-> 0, ver |-> 0,
                                failed |-> 0, lock |-> "no"]]
  /\ changes = 0 /\ txn = [o \in Operator |-> NoTxn]
  /\ attempt = [l \in Login |-> NoAttempt] /\ tries = [u \in User |-> 0]
  /\ faults = [u \in User |-> 0] /\ token = <<>> /\ revoked = {}

-----------------------------------------------------------------------------
(* Account administration *)

\* A request, with the row version the administrator's list showed.
AskChange(o, u, c) ==
  /\ txn[o] = NoTxn /\ changes < MaxChanges /\ account[u].live
  /\ txn' = [txn EXCEPT ![o] = [step |-> "asked", user |-> u, change |-> c, ver |-> account[u].ver]]
  /\ changes' = changes + 1
  /\ UNCHANGED <<account, attempt, guesses, token, revoked>>

InTxn(o) == txn[o].step \in {"locked", "counted"}
LockAdminInvariant == \A o \in Operator: ~InTxn(o)

\* Mutant: without the advisory lock.
LockUserOnly(o) ==
  /\ txn[o].step = "asked" /\ txn[o].change # "reset"
  /\ \A p \in Operator: InTxn(p) => txn[p].user # txn[o].user
  /\ txn' = [txn EXCEPT ![o] = IF account[@.user].live THEN [@ EXCEPT !.step = "locked"] ELSE NoTxn]
  /\ UNCHANGED <<account, changes, attempt, guesses, token, revoked>>
\* UpdateUser and DeleteUser take the advisory lock first, then the row.
LockUser(o) ==
  /\ txn[o].step = "asked" /\ txn[o].change # "reset" /\ LockAdminInvariant
  /\ txn' = [txn EXCEPT ![o] = IF account[@.user].live THEN [@ EXCEPT !.step = "locked"] ELSE NoTxn]
  /\ UNCHANGED <<account, changes, attempt, guesses, token, revoked>>

EnabledAdminsExcluding(u) ==
  {a \in User \ {u}: account[a].enabled /\ account[a].live /\ account[a].admin}

\* A change that leaves an administrator's row disabled, demoted or deleted is
\* refused when no other enabled administrator is counted.
TakesAdminAway(row, c) == row.admin /\ (c \in Removals \/ (c # "enable" /\ ~row.enabled))

CountAdmins(o) ==
  LET r == txn[o] IN
  /\ r.step = "locked"
  /\ txn' = [txn EXCEPT ![o] =
       IF TakesAdminAway(account[r.user], r.change) /\ EnabledAdminsExcluding(r.user) = {}
       THEN NoTxn ELSE [@ EXCEPT !.step = "counted"]]
  /\ UNCHANGED <<account, changes, attempt, guesses, token, revoked>>

\* Mutant: disabling keeps the session version.
BumpsSessionNoDisable(row, c) == c \in {"delete", "reset"}
\* Disabling an enabled user, deleting it and resetting its password give the
\* row another session version.
BumpsSession(row, c) == c \in {"delete", "reset"} \/ (c = "disable" /\ row.enabled)

\* Mutant: the session version is raised twice.
ChangedTwice(row, c) ==
  [row EXCEPT !.enabled = (@ \/ c = "enable") /\ c # "disable",
              !.admin = (@ \/ c = "promote") /\ c # "demote",
              !.live = c # "delete",
              !.sv = IF BumpsSession(row, c) THEN @ + 2 ELSE @,
              !.ver = @ + 1]
Changed(row, c) ==
  [row EXCEPT !.enabled = (@ \/ c = "enable") /\ c # "disable",
              !.admin = (@ \/ c = "promote") /\ c # "demote",
              !.live = c # "delete",
              !.sv = IF BumpsSession(row, c) THEN @ + 1 ELSE @,
              !.ver = @ + 1]

Ends(row, c) == c \in {"delete", "reset"} \/ (c = "disable" /\ row.enabled)
Doomed(r, u) == IF r.user = u THEN [r EXCEPT !.doomed = TRUE] ELSE r

\* The write, conditional on the version, and its audit row; a reset locks the
\* row by its own UPDATE.  Tokens of the user, issued or about to be, are
\* marked as ended (history).
WriteUser(o) ==
  LET r == txn[o]
      row == account[r.user]
      hit == row.live /\ row.ver = r.ver
  IN /\ r # NoTxn /\ r.step = IF r.change = "reset" THEN "asked" ELSE "counted"
     /\ r.change = "reset" => \A p \in Operator: InTxn(p) => txn[p].user # r.user
     /\ txn' = [txn EXCEPT ![o] = NoTxn]
     /\ account' = IF hit THEN [account EXCEPT ![r.user] = Changed(@, r.change)] ELSE account
     /\ IF hit /\ Ends(row, r.change)
        THEN /\ token' = [i \in DOMAIN token |-> Doomed(token[i], r.user)]
             /\ attempt' = [l \in Login |-> Doomed(attempt[l], r.user)]
        ELSE UNCHANGED <<token, attempt>>
     /\ UNCHANGED <<changes, guesses, revoked>>

-----------------------------------------------------------------------------
(* Logins *)

Step(l, s) == attempt' = [attempt EXCEPT ![l].step = s]
Done(l) == attempt' = [attempt EXCEPT ![l] = NoAttempt]

\* The row is read once; a disabled or locked account ends the attempt, else
\* the password is compared.
LoginRead(l, u, right) ==
  /\ attempt[l] = NoAttempt
  /\ account[u].live /\ account[u].enabled /\ account[u].lock # "until"
  /\ attempt' = [attempt EXCEPT ![l] = [step |-> IF right THEN "right" ELSE "wrong", user |-> u,
                                        sv |-> account[u].sv, doomed |-> FALSE]]
  /\ tries' = [tries EXCEPT ![u] = IF right THEN @ ELSE @ + 1]
  /\ right => Len(token) + Cardinality({m \in Login: attempt[m].step \in {"right", "touched"}}) < MaxTokens
  /\ UNCHANGED <<accountVars, faults, token, revoked>>

\* RecordLoginFailure: three statements, each committed by itself.  The counter
\* stops at the bound of the model, beyond which it decides nothing new.
CountFailure(l) ==
  LET u == attempt[l].user IN
  /\ attempt[l].step = "wrong"
  /\ account' = [account EXCEPT ![u].failed = IF account[u].live /\ @ < Threshold + Cardinality(Login) THEN @ + 1 ELSE @]
  /\ Step(l, "counted") /\ UNCHANGED <<changes, txn, guesses, token, revoked>>

\* Mutant: one failure more than the threshold.
CheckFailuresLate(l) ==
  LET row == account[attempt[l].user] IN
  /\ attempt[l].step = "counted"
  /\ IF row.live /\ row.failed > Threshold THEN Step(l, "over") ELSE Done(l)
  /\ UNCHANGED <<accountVars, guesses, token, revoked>>
CheckFailures(l) ==
  LET row == account[attempt[l].user] IN
  /\ attempt[l].step = "counted"
  /\ IF row.live /\ row.failed >= Threshold THEN Step(l, "over") ELSE Done(l)
  /\ UNCHANGED <<accountVars, guesses, token, revoked>>

LockAccount(l) ==
  LET u == attempt[l].user IN
  /\ attempt[l].step = "over"
  /\ account' = [account EXCEPT ![u].lock = IF account[u].live THEN "until" ELSE @]
  /\ Done(l) /\ UNCHANGED <<changes, txn, guesses, token, revoked>>

\* Login discards the error of RecordLoginFailure, of which any statement may fail:
\* the rest of it is not done, so that the wrong password was not counted, or the
\* account is not locked although the counter has reached the threshold.
RecordFails(l) ==
  LET u == attempt[l].user IN
  /\ attempt[l].step \in {"wrong", "counted", "over"} /\ faults[u] < MaxFaults
  /\ faults' = [faults EXCEPT ![u] = @ + 1]
  /\ Done(l) /\ UNCHANGED <<accountVars, tries, token, revoked>>

\* A success clears the counter and the lock, reads the row again, and answers
\* with a token of the session version read first.
UpdateLastLogin(l) ==
  LET u == attempt[l].user IN
  /\ attempt[l].step = "right"
  /\ account' = [account EXCEPT ![u].failed = IF account[u].live THEN 0 ELSE @,
                                ![u].lock = IF account[u].live THEN "no" ELSE @]
  /\ tries' = [tries EXCEPT ![u] = 0] /\ faults' = [faults EXCEPT ![u] = 0]
  /\ Step(l, "touched") /\ UNCHANGED <<changes, txn, token, revoked>>

IssueToken(l) ==
  LET a == attempt[l] IN
  /\ a.step = "touched"
  /\ token' = IF account[a.user].live THEN Append(token, [user |-> a.user, sv |-> a.sv, doomed |-> a.doomed]) ELSE token
  /\ Done(l) /\ UNCHANGED <<accountVars, guesses, revoked>>

\* UpdateLastLogin, or the second read, fails: the login ends without a token.
LoginFails(l) ==
  /\ attempt[l].step \in {"right", "touched"}
  /\ Done(l) /\ UNCHANGED <<accountVars, guesses, token, revoked>>

LockExpires(u) ==
  /\ account[u].lock = "until"
  /\ account' = [account EXCEPT ![u].lock = "over"]
  /\ tries' = [tries EXCEPT ![u] = 0] /\ faults' = [faults EXCEPT ![u] = 0]
  /\ UNCHANGED <<changes, txn, attempt, token, revoked>>

-----------------------------------------------------------------------------
(* Tokens *)

\* The middleware lets a request through when its token is not black-listed and
\* its user is there, enabled, and of the same session version.
Accepts(i) ==
  /\ i \notin revoked
  /\ LET row == account[token[i].user] IN row.live /\ row.enabled /\ row.sv = token[i].sv

Logout(i) ==
  /\ i \in DOMAIN token /\ Accepts(i)
  /\ revoked' = revoked \cup {i}
  /\ UNCHANGED <<accountVars, attempt, guesses, token>>

\* The process ends: handlers and the black list are gone, transactions roll back.
Restart ==
  /\ revoked' = {} /\ txn' = [o \in Operator |-> NoTxn] /\ attempt' = [l \in Login |-> NoAttempt]
  /\ tries' = [u \in User |-> 0] /\ faults' = [u \in User |-> 0]
  /\ UNCHANGED <<account, changes, token>>

-----------------------------------------------------------------------------
Next ==
  \/ \E o \in Operator: \/ \E u \in User, c \in Change: AskChange(o, u, c)
                        \/ LockUser(o) \/ CountAdmins(o) \/ WriteUser(o)
  \/ \E l \in Login: \/ \E u \in Subjects, right \in BOOLEAN: LoginRead(l, u, right)
                     \/ CountFailure(l) \/ CheckFailures(l) \/ LockAccount(l)
                     \/ RecordFails(l) \/ UpdateLastLogin(l) \/ IssueToken(l) \/ LoginFails(l)
  \/ \E u \in User: LockExpires(u)
  \/ \E i \in DOMAIN token: Logout(i)
  \/ Restart
Spec == Init /\ [][Next]_vars

\* However two administrators' changes interleave, an enabled administrator is
\* left: the count and the write are one step against each other.
AdminRemains == \E u \in User: account[u].enabled /\ account[u].live /\ account[u].admin

\* A token issued, or being issued, when its user was disabled, deleted or had
\* its password reset is never accepted again, not even once re-enabled.
RevokedForGood == \A i \in DOMAIN token: token[i].doomed => ~Accepts(i)

\* Between two successes, expiries or restarts no more wrong passwords are
\* compared than the threshold, the attempts that were already under way, and one
\* for each statement of RecordLoginFailure that failed in that time.
LockoutBound == \A u \in User: tries[u] <= Threshold + Cardinality(Login) - 1 + faults[u]
=============================================================================
