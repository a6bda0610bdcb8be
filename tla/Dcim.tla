-------------------------------- MODULE Dcim --------------------------------
(***************************************************************************)
(* The inventory core: placement, power and approvals running concurrently *)
(* on the tables they share.                                               *)
(***************************************************************************)
EXTENDS Approvals, Power

Call == PlacementCall \/ PowerCall \/ ApprovalCall

\* The next statement of p's request.
Step(p) == PlacementStep(p) \/ PowerStep(p) \/ ApprovalStep(p)

Next == Call \/ \E p \in Proc : Step(p) \/ Crash(p)

Spec == Init /\ [][Next]_vars

\* Every handler goroutine runs on, and a lock request that PostgreSQL can grant again
\* and again is granted: a lock is not handed past its waiter for ever.
FairSpec == Spec /\ \A p \in Proc : SF_vars(Step(p))

-----------------------------------------------------------------------------
(* Properties *)

\* The row whose lock p's next statement needs; None where it needs none.
Wants(p) ==
  LET q == req[p] IN
    CASE q.at \in {"place.device", "update.write", "delete.write"} -> q.dev
      [] q.at = "place.rack" -> q.rack
      [] q.at \in {"connect.pdu", "disconnect.pdu"} -> sock[q.sock].pdu
      [] q.at \in {"socket.row", "connect.socket", "disconnect.socket"} -> q.sock
      [] OTHER -> None

\* p waits for a lock that q holds.
WaitsFor(p, q) == p # q /\ Wants(p) # None /\ lock[Wants(p)] = q

\* No set of transactions wait for one another, each for a member of the set: the
\* order approval, device, rack or PDU, socket in which all of them lock is a deadlock
\* avoidance scheme that PostgreSQL's deadlock detector never has to break.
NoWaitCycle ==
  \A S \in (SUBSET Proc) \ {{}} : \E p \in S : \A q \in S : ~WaitsFor(p, q)

\* A transaction that has begun ends: it commits or rolls back.
EveryTransactionEnds == \A p \in Proc : req[p].at # "idle" ~> req[p].at = "idle"
-----------------------------------------------------------------------------
(* Refinement: the tables, seen as the ledger of module Ledger *)

Standing(r) ==
  [standing |-> LiveRack(r),
   open |-> rack[r].status \notin {"DISABLED", "PLANNING"} /\ rack[r].st # "none",
   uHeight |-> rack[r].uHeight]

L == INSTANCE Ledger WITH
       Outlet <- Socket, Nowhere <- NoPlace,
       where <- pos, journal <- hist,
       shelf <- [r \in Rack |-> Standing(r)],
       outlet <- [s \in Socket |-> IF LiveSocket(s) THEN pdu[sock[s].pdu].rack ELSE None],
       feed <- {<<conn[c].sock, conn[c].dev, conn[c].role>> : c \in LiveConns}

\* The concurrent handlers implement the ledger: though each works in several steps on
\* what it read at different moments, every commit is an operation of the ledger that
\* is correct at the moment it takes effect, and no other step changes the account.
ImplementsLedger == L!LSpec
=============================================================================
