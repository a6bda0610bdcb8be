------------------------------ MODULE MCConsole ------------------------------
(* The rows each page starts with: few, and one that may be created. *)
EXTENDS Console, Sequences

One(r) == [live |-> TRUE, ver |-> 1, up |-> r]
Gone == [live |-> FALSE, ver |-> MaxVer, up |-> All]
Table(rows) == srv = [r \in Row |-> IF r <= Len(rows) THEN rows[r] ELSE Gone]

Init ==
  \E g \in Group:
    \/ left = MaxCalls + 1 /\ Table(<<One(g), Slot(g)>>) /\ Devices!Mounted
    \/ left = MaxCalls /\ Table(<<One(g), Slot(g)>>) /\ Templates!Mounted
    \/ left = MaxCalls /\ Table(<<One(All), One(1), Slot(1)>>) /\ RackList!Mounted
    \/ left = MaxCalls /\ Table(<<One(g), One(1), Slot(2)>>) /\ Power!Mounted
    \/ /\ left = MaxCalls - 1 /\ Tree!Mounted
       /\ \E x \in {One(3), Slot(1), Slot(3), Slot(All)}: Table(<<One(All), One(All), One(1), x>>)
    \/ left = MaxCalls /\ Table(<<One(All), One(1), One(2)>>) /\ Screen!OnMounted
    \/ /\ left = MaxCalls - 1 /\ Screen!OnMounted
       /\ \/ Table(<<One(All), One(1), One(1), One(2)>>)
          \/ Table(<<One(All), One(1), Slot(1), One(g)>>)
          \/ Table(<<One(All), One(All), One(1), One(3)>>)
MCSpec == Init /\ [][Next]_wire

\* The ledger of devices, and a person whose last call, and only that one, is a
\* save, sent with no answer on its way when the dialog opened and none since.
EarlySave == \A m \in net' \ net: m.op = "put" => left' = 0 /\ ui.own = "no"
LedgerSpec == (Init /\ ui.page = "devices") /\ [][Next /\ EarlySave]_wire
=============================================================================
