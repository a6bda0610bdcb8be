-------------------------------- MODULE Ledger --------------------------------
(***************************************************************************)
(* What the inventory promises its users: an account of where every device *)
(* is, where it has been and what feeds it, in which every operation takes *)
(* effect at once.  No requests, locks, versions or snapshots: each action *)
(* states, of the one moment it happens at, all that must hold then.       *)
(***************************************************************************)
EXTENDS Integers, Sequences

CONSTANTS Device, Rack, Outlet, Role, Nowhere

VARIABLES
  where,    \* device -> the units it occupies, or Nowhere
  journal,  \* device -> its history
  shelf,    \* rack -> whether it is standing and open to devices, and its units
  outlet,   \* outlet -> the rack it is installed in, or Nowhere.rack
  feed      \* the power connections <<outlet, device, role>>

lvars == <<where, journal, shelf, outlet, feed>>

Fed(d) == \E f \in feed : f[2] = d

Overlap(a, b) == a.rack = b.rack /\ a.startU =< b.endU /\ b.startU =< a.endU

LInit ==
  /\ where = [d \in Device |-> Nowhere]
  /\ journal = [d \in Device |-> << >>]
  /\ shelf = [r \in Rack |-> [standing |-> FALSE, open |-> FALSE, uHeight |-> 0]]
  /\ outlet = [o \in Outlet |-> Nowhere.rack]
  /\ feed = {}

Log(d, op, w) ==
  /\ where' = [where EXCEPT ![d] = w]
  /\ journal' = [journal EXCEPT ![d] = Append(@, [op |-> op, from |-> where[d], to |-> w])]

\* The device goes to a free place inside a standing, open rack, and unfed; if it is
\* ASSIGNed it was nowhere before.
Put(d, op, w) ==
  /\ w.rack \in Rack /\ shelf[w.rack].standing /\ shelf[w.rack].open
  /\ 1 =< w.startU /\ w.startU =< w.endU /\ w.endU =< shelf[w.rack].uHeight
  /\ \A e \in Device \ {d} : ~Overlap(where[e], w)
  /\ op = "ASSIGN" => where[d] = Nowhere
  /\ ~Fed(d)
  /\ Log(d, op, w)
  /\ UNCHANGED <<shelf, outlet, feed>>

TakeOff(d) ==
  /\ ~Fed(d)
  /\ Log(d, "DECOMMISSION", Nowhere)
  /\ UNCHANGED <<shelf, outlet, feed>>

Feed(o, d, role) ==
  /\ where[d] # Nowhere /\ outlet[o] = where[d].rack
  /\ \A f \in feed : f[1] # o /\ ~(f[2] = d /\ f[3] = role)
  /\ feed' = feed \cup {<<o, d, role>>}
  /\ UNCHANGED <<where, journal, shelf, outlet>>

Unfeed(f) ==
  /\ feed' = feed \ {f}
  /\ UNCHANGED <<where, journal, shelf, outlet>>

\* A rack is built or changed in any way; it is retired when nothing is in it.
ChangeShelf(r) ==
  /\ shelf'[r].standing
  /\ shelf' = [shelf EXCEPT ![r] = shelf'[r]]
  /\ UNCHANGED <<where, journal, outlet, feed>>

RetireShelf(r) ==
  /\ \A d \in Device : where[d].rack # r
  /\ \A o \in Outlet : outlet[o] # r
  /\ shelf' = [shelf EXCEPT ![r].standing = FALSE]
  /\ UNCHANGED <<where, journal, outlet, feed>>

\* An outlet is installed in a standing rack.
Install(o, r) ==
  /\ outlet[o] = Nowhere.rack /\ shelf[r].standing
  /\ outlet' = [outlet EXCEPT ![o] = r]
  /\ UNCHANGED <<where, journal, shelf, feed>>

\* Outlets go with everything they feed, and nothing else loses its feed.
Uninstall(O) ==
  /\ outlet' = [o \in Outlet |-> IF o \in O THEN Nowhere.rack ELSE outlet[o]]
  /\ feed' = {f \in feed : f[1] \notin O}
  /\ UNCHANGED <<where, journal, shelf>>

\* The place a device is put at is whatever place it is at afterwards.
LNext ==
  \/ \E d \in Device : TakeOff(d)
  \/ \E d \in Device, op \in {"ASSIGN", "MOVE"} : Put(d, op, where'[d])
  \/ \E o \in Outlet, d \in Device, role \in Role : Feed(o, d, role)
  \/ \E f \in feed : Unfeed(f)
  \/ \E r \in Rack : RetireShelf(r) \/ ChangeShelf(r)
  \/ \E o \in Outlet, r \in Rack : Install(o, r)
  \/ \E O \in SUBSET Outlet : Uninstall(O)

LSpec == LInit /\ [][LNext]_lvars
=============================================================================
