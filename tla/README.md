# dcim-lite: specification, model checking and proofs

dcim-lite is a data-centre inventory: a Go HTTP server (gin, gorm) over PostgreSQL and a
Vue console (`frontend/app`). Handlers run concurrently, one goroutine per request; what
they share is in PostgreSQL, except for a few structures in memory (captchas, import
drafts, revoked tokens, rate windows). The console keeps copies of rows, with the version
they had, in pages and dialogs, and sends changes back with that version. This directory
models both sides where the order of events decides whether the result is right: what the
handlers do to the same rows at once, and what the console makes of answers that come late,
out of order or not at all.

## 1. The system

| component | state | operations | source |
|---|---|---|---|
| Device and rack placement | `devices`, `rack_device_positions` with `rack_u_occupancies`, `device_position_history`, `racks` | create, edit, delete a device; ASSIGN, MOVE, DECOMMISSION; create, edit, delete a rack | `internal/service/device.go`, `service/resource.go`, `repository/device.go`, `repository/store.go` |
| Power distribution | `pdus`, `pdu_sockets`, `pdu_connections` | create, delete, force-archive a PDU; create, edit, delete a socket; connect, disconnect | `service/template_pdu.go`, `repository/template_pdu.go` |
| Approvals | `operation_policies`, `approval_records` | set the policy, request, approve, reject | `service/approval.go`, `handler/device.go` (`positionChange`) |
| User administration | `users`, `user_roles` | disable, demote, delete, reset; the last administrator is protected | `service/admin.go`, `repository/store.go` |
| Authentication | failure counter, lock, session version; revoked tokens and captchas in memory | login, logout, middleware | `service/auth.go`, `service/captcha.go`, `middleware/middleware.go` |
| Rack diagram import | drafts in memory | validate, commit in one transaction | `service/rack_import.go` |
| Resource hierarchy | `data_centers`, `rooms`, redundant `room_id` and `data_center_id` | create, edit, delete, copy and move subtrees | `service/resource.go`, `service/resource_copy_move.go` |
| Browser session | token in local storage and in each tab's store, flags, route | boot, guard, login, logout, interceptors, switch of interface | `frontend/app/src`: `main.ts`, `api/client.ts`, `features/auth`, `app` |
| Console pages | rows shown, filters, page of the list, selection, dialogs with forms | load, filter, open, save, delete, copy, move, connect | `DeviceManager.vue`, `CabinetManager.vue`, `CabinetTemplate.vue`, `ResourceHierarchy.vue`, `PduManager.vue` |
| Room screen | tree, layouts kept per rack, selection, drawer, editor | refresh, placements, racks, exchange of slots, export | `RoomScreenView.vue`, `ScreenDeviceDrawer.vue`, `ScreenDeviceEditDialog.vue`, `screenShared.ts` |
| Import dialogs | library, rows with their checks, loop; diagram, decisions, draft | read a file, submit row by row; export, validate, commit | `deviceImport.ts`, `DeviceImportDialog.vue`, `RackImportDialog.vue`, `rackDiagram.ts`, `RackDiagramImportDialog.vue` |
| The rest | templates, device types, LDAP settings, rate limit, audit, metrics, telemetry, start-up, routing, displays | catalogues, I/O and plumbing | see `PROJECT.json` and section 6 |

How they interact. A placement locks the device row and then the rack row
(`SELECT ... FOR UPDATE`); an approval first updates its own row, then runs the placement
in the same transaction; Connect locks device, PDU and socket; the deletions lock the row
they delete and count what refers to it. Edits of devices and racks take no lock and are
conditional on a version column, which every placement increments as well. Changes of
accounts serialise on an advisory lock; logins read the same rows without it. The console
calls one handler per button, and never waits for one call before it lets a person start
the next. Tabs of one browser share only local storage.

What makes each component correct: mounted devices do not overlap and exist, in a rack that
exists; position and device row agree; the history accounts for every change of place; a
live connection leads from a device to a PDU in the same rack; a socket's status is true; a
redundancy role is connected once; archival closes what was confirmed and nothing else; an
approval executes what was requested, from the situation it was requested in, once;
transactions neither deadlock nor stay open; an administrator is left; an ended session
stays ended; guesses are bounded; the store and the shared token agree; a page shows the
truth when its calls have come back, and overwrites nobody's change unseen; an import does
once what it shows, and touches nothing else. `PROJECT.json` lists the hazards at their
lines, with the properties about each.

## 2. Modules

The inventory (back end):

| module | what it is |
|---|---|
| `Inventory` | constants, tables, row locks, requests, transactions (`TakeRow`, `EndTx`, `Rollback`, `Crash`), the queries of the repositories |
| `Placement`, `Power`, `Approvals` | devices and racks; PDUs, sockets, connections; policy and approval records |
| `Dcim` | all of it together: `Spec`, `FairSpec`, lock order, the refinement mapping |
| `Ledger` | the abstract specification: an account in which each operation happens at once |
| `Invariant` | the inductive invariant of `Dcim`, in layers |
| `SafetyProofs`, `StepProofs`, `ConsistencyProofs` | the proof that `Inductive` is an invariant, layer by layer, the properties it contains, and what the commits do: approvals, retirements, the refinement of `Ledger` |
| `LookupErrors` | `Placement` when one query may fail |
| `MCPlacement`, `MCPower`, `MCApprovals`, `MCDcim` | symmetry, and next-state relations that leave whole components out |

Accounts and sessions:

| module | what it is |
|---|---|
| `Accounts`, `AccountsProofs` | user rows, their administration, logins, tokens, the middleware's test; the proofs |
| `Session`, `SessionProofs` | one browser: tabs, shared storage, router, login form; the back end executes and answers; the proofs |
| `MCAccounts`, `MCSession` | their instances |

The console:

| module | what it is |
|---|---|
| `Wire` | what all pages share: a table of versioned rows, calls in flight, other users; the handlers' common shape (`Begin`, `Load`, `Write`, `After`) |
| `DevicesPage`, `RacksPage`, `TemplatesPage`, `HierarchyPage`, `PduPage`, `ScreenPage` | one page each, over `Wire` |
| `Console`, `MCConsole` | the pages together with their starts (`Start`, `Spec`); the tables TLC starts from (`MCSpec`, whose starts are instances of `Start`) |
| `ConsoleProofs`, `ShownProofs` | the proofs about the pages: what their calls, forms and selections are, and what they show |
| `RackSlots`, `MCRackSlots` | the arithmetic by which the screen gives racks their slots |
| `Sheets` | what the import dialogs share: calls in flight, the loop over valid rows |
| `DeviceImport`, `RackImport`, `DiagramImport` | one dialog each, with the handlers it calls |
| `Imports`, `MCImports` | the dialogs together with their starts (`Start`, `Spec`); the files and tables TLC starts from (`MCSpec`, whose starts are instances of `Start`) |
| `ImportsProofs` | the proofs about the dialogs |

### The inventory: state and actions

A table is a function from row ids to rows; `st` is `none`, `live` or `deleted` (all
deletion is soft, uuids are never reused). A position row and its occupancy row are always
written together and are one entry `pos[d]`. `lock[x] = p` says that the open transaction
of process `p` holds row `x`. `req[p]` is the request `p` is executing: its arguments, what
it has read, and in `at` the statement it runs next. The steps are as fine as the database
lets other transactions notice, under Read Committed:

* each `SELECT ... FOR UPDATE`, with the checks made on what it and the reads after it
  return up to the next lock, is one step. The reads that follow a lock are of data that
  the locks held so far protect, or are repeated by the checks the model makes later;
* the writes of a transaction up to COMMIT are one step, since nobody sees them earlier;
* reads that take no lock and are used in a later statement are steps of their own
  (`UpdateDeviceRead`/`UpdateDevicePosition`/`UpdateDeviceWrite`,
  `DeleteDeviceCheck`/`DeleteDeviceWrite`, `RequestApproval`/`SubmitPosition`/`SubmitInsert`,
  `RequestPlace` before its transaction, `RequestDisconnect`). The unlocked `GetSocket`
  that only finds a socket's PDU is joined with the lock after it: that column never changes;
* a request refused before it holds anything, and a conditional UPDATE that matches no
  row, change nothing and are no steps. Where a refusal ends a transaction that holds locks,
  it is a step (the second disjunct of `PlaceDevice`, `PlaceRack`, `ChangeSocketRow`,
  `ConnectPdu`, ..., and `DisconnectConflict`);
* `Crash(p)` ends a request between any two statements: a failed statement, a cancelled
  context, a killed server. PostgreSQL rolls its transaction back;
* where the code goes on after a failed query, the action has that outcome too: a request
  for approval is filed without a source when the lookup of the position fails
  (`SubmitPosition`, `service/approval.go:89`). `was` keeps, as history, where the device
  was at the version that the request records. The same pattern in `UpdateDevice` breaks
  a property, and is therefore in a module of its own (`LookupErrors`).

`FOR UPDATE` waits for a row that another transaction holds; so does an UPDATE, and an
INSERT for the rows its foreign keys name (`SubmitInsert`).

What is abstracted, and why that is sound for the properties stated:

* The version a client sends is the one the handler then reads: an older one is refused,
  because versions only grow (what the console sends is the subject of `Wire`). Device
  versions are kept since correctness rests on them. Versions of racks, PDUs, sockets,
  connections and approvals only cause refusals and are left out, and with them
  `PDUService.Update`, which changes descriptive fields.
* The exclusion constraint on `rack_u_occupancies` and the unique indexes on positions and
  connections are **not** in the model. The services treat them as a last line of defence;
  the runs show that the row locks and the checks suffice without them.
* `PARTIAL`, `FULL` and `MAINTENANCE` racks are treated by the code as `AVAILABLE` ones.
* A device may be created in any lifecycle state and with any height its type gives (the
  catalogue does not bound it); `UpdateRack` may shrink or disable a rack in use.
* Names, codes, orientation, audit texts and error codes are left out.

### Accounts and sessions

`Accounts`: `txn[o]` is the transaction of one administrator's request (`asked`, `locked`
after the advisory lock and the row, `counted` after the count), `attempt[l]` one login
handler between its statements. A reset of a password takes no advisory lock, only its
row. `RecordLoginFailure` is three statements that each commit (`CountFailure`,
`CheckFailures`, `LockAccount`), and a login that succeeds writes `UpdateLastLogin` and then
issues the token for the row it read at the start. Any of these statements may fail.
`Login` discards the error of `RecordLoginFailure` (`service/auth.go:63`), so a wrong
password may not be counted, or the account not locked (`RecordFails`); after a right one
the login ends without a token (`LoginFails`). `doomed`, `tries` and `faults` are history:
a token, or a login on its way to one, whose user has been disabled, deleted or given
another password since; and, since the counter was cleared, the wrong passwords compared
and the calls of `RecordLoginFailure` that failed.
`Restart` empties the list of revoked tokens and ends what is running.

`Session`: every tab has a document with a store (`token`, `user`) and a page; `storage`
and `flags` are local storage, which `OtherTab` may write at any moment. A request carries
the token the interceptor found, is executed, refused or lost, and its answer runs the code
that awaited it, in any order. `Load` (typing an address, reload) aborts the document's
requests. `EndToken` stands for everything in `Accounts` that ends a token.

### The console

The content of a row is its version, and a form is the row and the version its fields were
read from: that is what lost updates, stale lists and mixed-up dialogs are about. `srv[r].up`
is the row that `r` belongs to (the room of a rack, the PDU of a socket, the rack a device
is mounted in), or the group a list is filtered by. A call in `net` holds `op`, the row and
version it names, and in `ctx` the continuation that awaits it; serving it and landing its
answer are separate actions, so answers overtake each other. A served call may still be
answered by a failure (the answer is lost). `Foreign` is another user's write.

A page's action is a button, a watcher or a continuation. Buttons are guarded by what the
template disables, and by an open dialog where the dialog covers them. Where a handler
awaits a save and then a load, the continuation of the save starts the load (`After`).
`ok` and, on the screen, `fresh` are history: they say that nothing has happened that lets
the page be out of date, and the code then does show the truth. They are cleared by another
user's write, a load begun while another is under way, and a failed call; they are set again
by the next load. Other history fields of a call: `did` (the back end executed it), `again`
(it repeats a creation that was executed), `mixed` (the form may hold something else than
what this opening of the dialog has read of the row: it is saved before its read is answered,
or while the answer to an earlier opening may still come; on the screen, the editor holds
another device). Whether a write is accepted does not depend on `mixed`.

`Sheets` keeps the table of a dialog (`rows`) and the rows a loop works on (`batch`).
Another file may be read while a loop runs: the loop goes on with its own rows, and `same`
says whether those on show took their place in this way. `done` is what the dialog makes of
its counters, which a new file clears and the running loop raises again: the dialog of the
devices counts failed rows as well, that of the racks only imported ones. An
identifier of a device or rack is a number, equal for texts that are equal after trimming
and upper-casing; other cells are blank, good or bad. A diagram is a set of blocks at
units, with the id the hidden sheet would give.

## 3. What is checked

| run | instance | distinct states | shows |
|---|---|---|---|
| `placement` | 2 requests, 2 devices, 2 racks of 2 U, heights 0..2 | 1.95 M | `TypeOK`, `FootprintsDisjoint`, `NoGhostPosition`, `PositionMatchesDevice`, `HistoryChain`, `ImplementsLedger` |
| `power` | 2 requests, 1 device, 2 racks, 1 PDU, 2 sockets, 2 connections, 2 roles; racks that are disabled | 609 k | `SamePlacePower`, `SocketStatusTruth`, `RoleOnce`, `NoWaitCycle`, `RetiresOnlyConfirmed`, `ImplementsLedger` |
| `approvals` | 2 requests, 2 approval records, 1 device, 1 rack, heights 1 and 2 | 3.47 M | `ApprovalExecutesRequest`, `DecisionFinal` |
| `liveness` | 2 requests, one row of each kind, everything running | 72 k | `EveryTransactionEnds`, `Inductive` |
| `accounts` | 2 administrators, 2 operators, 2 logins, threshold 2, 1 token, 2 changes, 2 failures to record a login | 2.43 M | `TypeOK`, `AdminRemains`, `RevokedForGood`, `LockoutBound` |
| `session` | 1 administrator, 1 user, 1 tab and the storage of others, 2 tokens | 606 k | `TypeOK`, `StoreMatchesStorage`, `AdminPageForAdmins`, `Settles` |
| `console` | 4 rows, a dozen kinds of start table (`MCConsole`), pages of 1, 3 calls, 2 in flight, versions to 3 | 2.44 M | `WireOK`, `Shown`, `SelectionExists`, `NoLostUpdate`, `RetriesCreateNothing` |
| `imports` | 4 devices, 5 racks, pages of 1, files of one and two lines, diagrams of 3 U | 1.82 M | `ImportsTypeOK`, `ReportedRowsExist`, `SerialsStayUnique`, `UpdatesNamed`, `CommittedOnce`, `ImportKeepsRest` |
| `lookup_errors` | 1 device, 1 rack | | `MountedHeightKept` is violated |
| `early_save` | the devices of `console` with one row and 4 calls, of which a save is the last | | `NoStaleSave` is violated |
| `import_reports` | as `imports` | | `ReceiptsTrue` is violated |
| `screen_swap` | 4 racks, 2 per row, cards of 530 and 332 px | | `SwapsExchange` is violated |

### Bounds, and why they are enough

*Inventory.* Every race in the hazards is between two transactions; with two of them every
pair of operations meets in every interleaving, and the longest chain of locks (approval,
device, rack; device, PDU, socket) is covered. A third could add only a longer wait cycle,
which the common lock order excludes for any number. Two devices are the fewest that can
overlap, two racks the fewest between which a device can move away from its PDU, two
sockets and two connections the fewest with which a socket is reconnected while a late
disconnection is under way or one role is connected twice. Two units and heights up to two
give free, touching, overlapping and protruding footprints; height 0 is a device that
cannot be mounted. `MaxVersion` stops new transactions on a device row whose version has
reached it (3: transactions start on versions 1 and 2, so two complete ones follow each
other, each with a concurrent one).

*Accounts.* Two administrators are the fewest that can remove each other, and two changes
the fewest with which an account is disabled and enabled again around one token. Two logins
give the parallel guesses that pass the threshold while the counter is read.
`MaxFaults` bounds the failures of `RecordLoginFailure` per user between two clearings of
the counter; two of them are a guess that is not counted and an account that is not locked.

*Session.* Two tokens are the fewest of which an old one's 401 can end a new one. One tab
with its own store and a storage that changes under it is what every tab of several sees.
`MaxNet` bounds what a person starts while something is in flight; login, whoami and
logout chain by themselves.

*Console.* One row with its version, and one that may be created, for a list; a room, a
rack and a device, or two data centres with a room, for a tree. Pages of one row make
every deletion of the last row of a page happen. Three calls are an edit, an overtaking
load and one more; the tables with a fourth row have one call fewer.

*Imports.* Two lines that may name the same, another or no device by each of three
identifiers, against a library of two devices read in pages of one; a foreign write between
the pages in `Mixed`; one line, read and submitted again after a lost page of the library
and around another user's write, in `Retried`. For racks, files whose codes are blank, new, taken, or given twice.
For a diagram two devices in three units, all edits of it, two validations.

Ids are used up, versions and calls end, and people may stop, so the systems may stop and
`CHECK_DEADLOCK FALSE` is set; blocked transactions are the subject of `NoWaitCycle` and
`EveryTransactionEnds`, a console that hangs is that of `Settles`. Symmetry is used over
model values that no property and no action distinguishes, never in a run with a liveness
property.

### The properties that need a word

`ImplementsLedger`: `Ledger` says what the inventory promises its users: placing, taking
off, feeding, installing each happen at one moment, and everything that must hold is stated
of that moment. Each commit of the handlers, which work in several steps on what they read
at different moments, is shown to be such an operation. Two runs check it: with two
devices that compete for units, and with power.

`ApprovalExecutesRequest`: what is approved is executed from where the device was at the
version the request records (`was`). The source that the request shows to who decides is
that place, or empty when its lookup failed.

`LockoutBound`: a call of `RecordLoginFailure` that fails may leave one wrong password
uncounted or one more attempt unlocked, so each one that failed since the counter was
cleared (`faults`) allows one guess more than the threshold and the parallel logins do.

`RevokedForGood` is about session versions, which survive a restart. A logout revokes its
token in memory only, and after a restart the token is accepted again; nothing in the
repository promises otherwise.

`AdminPageForAdmins` holds because the guard runs again whenever the page changes. It
is stated of tabs that wait for no whoami (`Asking`): between a login and the answer to its
whoami the store has a token and no user. The
router starts before whoami is answered, so an administrator who opens `/admin` directly
is sent home although `app/router/index.ts:61-62` takes the user to be known by then.

`NoLostUpdate`: no update is accepted that carries a form read from another version of the
row, when that form was filled by the read of its own dialog. Updates of templates, PDUs
and sockets (`Overwrite`) are excluded: their handlers take the version they have just read,
not the one the client sent, so the later editor wins (`docs/CODE-REVIEW-GUIDE.md:63` asks
for the version on every PUT). Also excluded are the forms that are `mixed`. The dialog of
the devices sends the version of the list's row, and can be saved before its read is
answered, or be filled by the late answer to an earlier opening. The back end takes such a
save when that version is the current one, and then a change is lost: this is the finding
`early_save`, whose property `NoStaleSave` excludes nothing. The editor of the screen sends
the version that came with its form, which is that of another device when its read has not
been answered yet.

`Shown` says what the code achieves, with the excuses above: loads are not numbered, so of
two that overlap the older may land last.

`ReportedRowsExist` is about rows that were not chosen while a submission of others ran
(`same`). For the others the tables do report what was not executed: this is the finding
`import_reports`, whose property `ReceiptsTrue` is about all rows of the import of devices.

`SerialsStayUnique` holds when nothing disturbs the import (`fair`): there is no unique
index on serial numbers, so the dialog's checks are all there is. Disturbed is an import
during which another user has written, one whose rows are submitted while another loop
runs or a library is being read or although they were executed before, and one whose last
library lost a page: the table then still shows rows that were checked against an earlier
library, and they can be submitted.

`ImportKeepsRest` and `CommittedOnce` include the lost answer of a commit, a second
validation, the expiry of drafts and the window between the comparison of fingerprints and
the transaction.

### Fairness

`FairSpec` (run `liveness`): strong fairness of the next statement of every process. A
goroutine that is serving a request goes on running, and PostgreSQL queues the waiters of
a row lock, so a lock that becomes free again and again is not handed past its waiter for
ever. No fairness is assumed of clients and crashes.

`Session!Fairness`: weak fairness, per tab, of login and whoami requests being answered or
failing, and of the browser delivering the result: handlers end, and the server closes
connections that take longer than its limits (`cmd/server/main.go:70-73`). The console's own
limit of 20 seconds is not relied upon, since `api/client.ts:63` adds it only to a request
without a signal and a `Request` always has one. Nothing is assumed of people, of other
requests, or of tokens ending. The excuse that a document may be loaded
again is in `Settles` itself: a form that is gone is not busy.

### Mutants

Each property has a mutant in `PROJECT.json`: a version of one definition with the
mistake a change of the code could make (a forgotten `FOR UPDATE`, a version that is not
incremented, an unconditional update, a swapped lock order, a save that does not load
again ...), under which TLC finds the property violated.

## 4. What is proved

The theorems hold for every value of the constants: any number of processes, devices,
racks, rows and calls, no bound on versions or units. The lists below give each theorem
with the property it states; `PROJECT.json` says what each one establishes.

### The inventory

| theorem | property | module |
|---|---|---|
| `TypeCorrect`, `ShapeInvariant` | `TypeOK`, `Shape` | `SafetyProofs` |
| `NoOverlap` | `FootprintsDisjoint` | `SafetyProofs` |
| `RoleConnectedOnce` | `RoleOnce` | `SafetyProofs` |
| `HistoryUnbroken` | `HistoryChain` | `SafetyProofs` |
| `DecidedForGood` | `DecisionFinal` | `SafetyProofs` |
| `InductiveInvariant` | `Inductive` | `ConsistencyProofs` |
| `PositionsExist` | `NoGhostPosition` | `ConsistencyProofs` |
| `PositionsMatch` | `PositionMatchesDevice` | `ConsistencyProofs` |
| `PowerInPlace` | `SamePlacePower` | `ConsistencyProofs` |
| `SocketStatusTrue` | `SocketStatusTruth` | `ConsistencyProofs` |
| `NoDeadlock` | `NoWaitCycle` | `ConsistencyProofs` |
| `ApprovalsExecuteRequests` | `ApprovalExecutesRequest` | `ConsistencyProofs` |
| `PdusRetiredAsConfirmed` | `RetiresOnlyConfirmed` | `ConsistencyProofs` |
| `LedgerImplemented` | `ImplementsLedger` | `ConsistencyProofs` |

They rest on the three assumptions of `Inventory`: `None` is no row, the kinds of rows are
disjoint, and the inputs are integers and known states.

*Why a strengthening is needed.* None of these properties is inductive. Whether the write
of a commit keeps the tables in agreement depends on what its request has read, some
statements and other people's steps ago. `Inductive` (module `Invariant`, checked in the
run `liveness`) says what a request knows at each of its stages:

1. `Shape`: the types, the arguments a request has at its stage (`ArgumentsOK`), and that
   rows refer to rows that were inserted (`ForeignKeys`, `Found`);
2. `Locks`: at each stage a transaction holds exactly the rows its statements have locked.
   `Fresh`: the ids of rows about to be inserted are its own;
3. `Facts`: what the checks have established. Some of it is true because a lock is held:
   under the device row, that it lives, its height, its feeds (`DeviceFacts`); under the
   rack row, that the units are free (`RackFacts`); under the PDU row, which sockets and
   connections are below it (`PduFacts`); under the approval's row, that it is pending and
   still about the row as it was (`TicketFacts`). Some was read without a lock and is true
   as long as the version is the one that was read (`VersionFacts`);
4. `Consistent`: the tables agree, with what the properties need beside themselves: an
   empty position is one value, sockets and PDUs rest on what exists (`Containment`), and
   the height and the place (`was`) in a pending approval are those of its device while that
   has the recorded version, and the source is that place or empty.

*The argument.* `SafetyProofs` proves `Shape` with one lemma per action, and one each for the
helpers `EndTx`, `Rollback` and `TakeRow`. Then comes a frame (`NextFrame`): every step
is a single statement or the step of one process, which leaves the other requests and
their row locks alone, comes to a critical stage only by the action that makes the check,
and writes positions, connections and approvals only by the commits. With it the exclusion
of overlaps, roles and second decisions follows from a few guards. `StepProofs` then says
what a step of another process cannot do to what a request relies on: a version grows with
every write of its row and of the device's place (`Grows`), and below a row that a
request has locked nothing changes (`Spares`: below a device its position and connections,
below a rack its positions and PDUs, below a PDU its sockets and their connections). From
these two relations all of `Facts` is kept (`Locks`, `Fresh` and `Facts` together), with
one lemma per action for the request that moves. `ConsistencyProofs` shows for each commit
that its `Facts` keep `Consistent`. `NoDeadlock` follows from `Locks` alone: each kind of
transaction takes its rows along one order of kinds. In a set of transactions that all wait
for each other nobody waits for a socket, since who holds one waits for nothing; so nobody
waits for a rack or a PDU, and then nobody for a device.

*The refinement.* Under the mapping of `Dcim`, `LedgerImplemented` shows that `Init` maps
to the ledger's initial states and that every step maps to one operation of the ledger
or to a stutter. A commit is the moment at which its operation happens, and `Facts` are
what the ledger's guards ask of that moment. All other statements, the rollbacks and
the crashes stutter.

### Accounts

For any number of users, operators, logins, tokens and changes, and every threshold,
`AccountsProofs` proves `AnAdminIsLeft` (`AdminRemains`), `EndedForGood` (`RevokedForGood`),
`GuessesBounded` (`LockoutBound`) and `AccountsTypes` (`TypeOK`), under
`AccountsAssumption`.

* `AdminRemains` needs `OneChange` (the advisory lock admits one transaction) and `Counted`
  (a transaction that is about to remove an administrator still has another one to leave:
  only a transaction under the lock could take that one away, and resets change none of it).
* `RevokedForGood` needs `Versions`: a token, or a login on its way to one, has a session
  version that its user's row has had, and a smaller one than the row's once it is ended.
* `TypeOK` bounds versions by the changes asked for (`Bounded`): a change names the version
  of its row when it was asked for, the write is conditional on it, and so raises it at most
  to the number of changes.
* `LockoutBound` needs to relate the wrong passwords, the counter and the logins that stand
  between the three statements of `RecordLoginFailure` (`GuessBound`): below the threshold
  the counter has every guess that is neither waiting to be counted nor among the failures,
  and while the account is not locked every attempt that is over has seen it below or has
  failed. The counter survives the expiry of a lock, so after one the next wrong password
  locks the account again, if that does not fail.

### The browser's session

For any number of tabs, users, tokens and requests in flight, `SessionProofs` proves
`SessionTypes` (`TypeOK`), `StoreHasToken` (`StoreMatchesStorage`) and `AdminPageGuarded`
(`AdminPageForAdmins`), under `SessionAssumption`. The invariant is `Typed` (no token
is held before it is issued), `Boots` (one whoami is in flight for a document that boots,
and nothing else of it is mounted, so its answer cannot meet a later session) and
`TabFacts`: what the writer of the shared token has in its store, and that a tab which
shows or is about to show the page for administrators has an administrator's answer or
waits for one. That last clause (`Asking`) had to be added to the property: while a login's
whoami is in flight the store holds a token and no user, and a tab that stays on `/admin`
through a late 401 of an earlier session shows the page meanwhile.

### The import dialogs

For files and tables of any size and any number of other users' writes, `ImportsProofs`
proves `ImportsTypes` (`ImportsTypeOK`), `ReportsAreTrue` (`ReportedRowsExist`),
`DraftsRunOnce` (`CommittedOnce`), `DiagramsDisturbOnlyWhatIsDecided` (`ImportKeepsRest`),
`UpdatesHitNamedDevices` (`UpdatesNamed`) and `SerialsUnique` (`SerialsStayUnique`), under
`ImportsAssumption` (ids are positive, and the devices finitely many), as theorems of
`Imports!Spec`; the starts of `MCImports` are instances of `Imports!Start`. The invariant
`ImportsInv` has a part for each dialog:

* a draft has one token, which has not been executed. The draft is in the store or with one
  commit in flight, never both, because the handler takes it out before it executes it
  and puts it back only when it has not;
* of a row in the batch that counts as valid, the call has been executed or is still to be
  made: the loop marks a row only by the answer to its own call. The rows on show are those
  of the batch, or nothing of them has been counted, or they were chosen while a loop ran
  (`LoopOK`);
* a version of a device identifies its content. The copy in a page of the library, in a row
  or in a call is what the row in the table was at that version, so an update that is
  accepted with that version changes a device that still has the identifier the row names;
* every decision to take a device off is about one of the devices the person chose.

`SerialsUnique` has an invariant of its own beside that one. While a library is read and
nobody disturbs it, the pages that have arrived and those that are awaited are the pages of
one table, and every device is on one of them: its page is the number of devices before it
divided by the page size, and that number is less than the number of devices
(`FiniteSetTheorems`). So when the last page lands, the library is the table. Rows that
were checked against it, and against each other, are apart: the serial number that one of
them gives is that of no other device (`Fits`), and two of them have neither a serial
number nor a device in common (`Apart`). Writing one of them gives its device a number that
the others do not have, so it leaves the rest apart and the table `Unique` (codes and asset
numbers are kept apart by the back end); a row that is refused, or whose answer is lost,
takes nothing away from this.

### The console

For tables of any size, any number of calls in flight, any other users' writes, and every
page, `ConsoleProofs` proves `CallsTyped` (`WireOK`), `RetriesAreSafe`
(`RetriesCreateNothing`), `UpdatesAreSeen` (`NoLostUpdate`) and `SelectionsShown`
(`SelectionExists`), and `ShownProofs` proves `PagesShowTruth` (`Shown`), under
`WireAssumption` (finitely many rows, at least one group, and no row is a group or `All`), as
theorems of `Console!Spec`. All but the last follow from one inductive invariant,
`ConsoleInvariant` (`ConsoleInv`), and the step that preserves it:

* `Calls`: every row in an answer, and every form of a call, is about a version its row has
  or has had. Every write only makes versions grow (`Newer`), so this is never lost again.
  An update whose form is not `mixed` has the form of the row it names, with the version of
  that form or an older one, and the form's is at most the row's: if the back end accepts
  it, all three are the same, so the form has exactly the content it replaces. This is
  `NoLostUpdate`. A call that is answered with a conflict was not executed, so repeating it
  creates nothing;
* `PageInv`: what the page that is open shows, has selected, and has in its dialog and form.
  A form for editing has the row and the version of its dialog (`Filled`). The dialog of
  the devices is filled by an answer that may come after the person has saved, or for an
  earlier opening: `OwnForm` says what is known of a form that this opening has filled, and
  every save of another one is `mixed`.
  The screen needs the most: what a row is (room, rack or device) never changes, the layouts
  a refresh asks for share one purpose (`Batched`), an exchange has at most two updates in
  flight (`DragOK`), and a selection that has left the tree is covered by layouts in flight
  (`SelOK`).

Each handler of a page takes some calls off, makes sound calls or sets fields; lemmas about
`Begin`, `Load`, `Write` and `After` reduce it to what it does to the page's own fields, and
each page has one lemma per handler.

*What the pages show.* `Shown` speaks only of a page at rest. What is inductive is
`ConsoleInv` together with `ShownInv`, which says of a page that nothing excuses what its
lists are while calls are under way:

* `Homed`: what a live row belongs to is live. The starts have it (`Start`), a creation is
  refused below a row that has gone, and a deletion while others belong to the row. The
  screen draws a rack only below its room, so without it a live rack could be missing;
* a page with one list (`ListShown`: the devices, the types, the racks, the templates, the
  hierarchy) has one load under way at most, for the filter and the page that are chosen.
  Either a write that was executed has not landed yet, and its continuation will load
  (`Owed`), or every answer on its way has the slice of the table as it is now, and so have
  the rows once no load is under way. It does not matter how a list is cut into pages, only
  that the answer and the property cut the same table in the same way (`Slice`);
* the PDUs load in two stages (`StagesShow`): the sockets are asked for with the rack the
  first stage was for, and a write owes both stages. The tab with the U positions asks for
  one layout at a time, that of the rack that is selected (`LayoutShown`);
* the screen (`ScreenShown`) has a tree and, for every rack it draws, that rack's devices.
  The tree is true unless a write of racks is still to be followed by a load (`TreeOwed`). Of an
  exchange both updates must land before the load is made, so half of one is owed too. Every
  drawn rack has its devices or a layout under way (`Covers`). A saved device is put in
  place by its own `get`, so devices agree with the table up to the versions that are still
  to be put in place (`DevicesTrue`, `Agrees`, `Updated`). The editor has one save under
  way, with what follows it (`Savers`), so there is never a second such version to confuse
  with the first.

Again each handler has a lemma, by kind: it starts a load, sends a write, takes an answer
that owes nothing, or takes a load's answer. Serving a call (`Told`) and another user's write
(`Foreign`, which ends `ok` and `fresh`) have one for all pages.

### Only model-checked

Liveness (`EveryTransactionEnds`, `Settles`) and everything with `ENABLED` are out of the
provers' reach and stay so. Every other property that a run finds to hold is stated by a
theorem. Those of the four runs with a counterexample do not hold.

## 5. Findings

`lookup_errors`: `UpdateDevice` guards the height of a mounted device with
`if pos, err := GetActivePosition(id); err == nil && pos != nil && ...`
(`internal/service/device.go:348`), so a query that fails counts as "not mounted" and the
height is changed, against the comment on the line above. `DeleteDevice` treats the same
error as a failure. `LookupErrors` is `Placement` with that one extra outcome.

`early_save`: `openDeviceEdit` (`DeviceManager.vue:168-180`) opens the dialog with the version
of the list's row and the form of the opening before, asks for the row, and lets the
person save at once (line 759; line 745 ends the loading state as soon as the dialog is
open). The trace: a device is opened and read, the dialog is closed, another user changes
the device, the list is loaded again; the dialog is opened again and saved before its read
is answered. The back end gets the new version with the old content and accepts it.
`docs/frontend/ALE-BEHAVIOR-MAP.md:40` says that what is out of date is refused.

`import_reports`: while the loop of `DeviceImportDialog.vue:154-171` runs, another file may
be read, which replaces the rows and sets the counters to 0 (lines 120-122). The next row
of the loop raises one of them, also by failing, and with it `done` (line 41): all valid
rows of the new file are shown, and exported, as submitted (line 44), though nothing of
them was executed. Lines 5-6 say that rows which fail record the reason. In the trace the
same file is read again while its row is submitted; the row fails, and is shown as
submitted. The dialog of the
racks does the same with rows that were imported (`RackImportDialog.vue:366`, 400).

`screen_swap`: `swapRacks` saves the coordinates of two slots, but a rack's slot is its rank
among the racks, those with coordinates first. In a room whose racks have none yet the two
dragged racks come first and a third one moves, while the page reports an exchange
(`RoomScreenView.vue:419`).

Two more disagreements are in the modules as the code has them, without a run: they are
seen by reading one definition. `RackImportDialog.vue:362` submits every row through
`submitWithAutoCode`, which calls its generator whatever its first argument says, so that a
code that the row gives, and that the dialog has checked to be unique, is replaced by a
made-up one (`RackImport!GenCode`); line 7 and the dialog's own text at line 426 say that
only blank codes are made up. The export of a diagram writes device ids into the hidden
sheet as `deviceId` (`rackDiagram.ts:330`), and the parser looks for `sourceDeviceId` (line
551): a renamed device is sent as an update without an id, which the commit refuses together
with the rest of the file (`DiagramImport!SourceKnown`, `rack_import.go:599`), while the
dialog says at `RackDiagramImportDialog.vue:205` that devices may be renamed in the file.

## 6. Not modelled

* Rate limiting: a sliding window per address under one mutex, a sequential counter.
* LDAP settings and binds: configuration and network I/O.
* Audit, metrics, telemetry: records about requests on which nothing depends.
* Start-up and migrations: replicas take an advisory lock before anything else, in one
  transaction; no interleaving is left.
* Dashboard, user list, rack details: displays with one load and no state of their own.
  The panel of PDUs inside the rack details is `PduPage`.
* The previous frontends, scripts and tests, routing, configuration.
* The transactions of the hierarchy: moves and copies write the redundant `room_id` and
  `data_center_id` without row locks, and deletions count children without a lock
  (see the hazards). The repository says nowhere what must hold of these columns in
  between; the pages see the hierarchy through `Wire`, with its refusals.
* The commit of a diagram import against other transactions: `DiagramImport` has it as one
  step, after the window in which its fingerprint is compared. Its own statements take no
  row locks and rely on the exclusion constraint, which the inventory modules leave out.
  Diagrams of several racks are left out of the dialog. Also left out is a COMMIT whose
  answer the server itself never gets: it gives the draft back as after a rollback
  (`rack_import.go:561-565`), and the draft would be executed again if the devices stood
  where they stood before, since only their positions are compared. The lookups of the
  validation, which take a failed query for a device that is not there
  (`rack_import.go:351`, 361, 377), do not fail in the model: what they misclassify is
  shown to the person before the commit.
* Inside the modelled components: descriptive fields, validation of single fields,
  workbooks as files, the creation of the policy row, history of racks, audit rows (written
  in the same transactions), creation of users.

## 7. Plan

1. Done: the inventory with its ledger and proofs, accounts and sessions, the console's
   pages, the room screen, the import dialogs.
2. Done: the inductive invariant of the inventory in full, the refinement of `Ledger`, and
   the safety properties of accounts, sessions, imports and console, for every instance.
3. Next, should the code change there: the transactions of the hierarchy (section 6) once
   the repository says what must hold of `room_id` and `data_center_id`, and the commit of
   a diagram import against the other transactions of the inventory.
