------------------------------ MODULE RackSlots ------------------------------
(***************************************************************************)
(* Where RoomScreenView.vue draws the racks of a room, and what dragging    *)
(* the title of one onto another does.  A rack has a slot, not a place: its *)
(* coordinates, if it has any, only say which racks come before it.         *)
(***************************************************************************)
EXTENDS Naturals, FiniteSets

CONSTANTS Rack,          \* the racks of the room, numbered in the order of the tree
          CardHeight,    \* of a rack, in pixels
          PerRow         \* racksPerRow

VARIABLES present,       \* the racks that exist
          at             \* their coordinates

vars == <<present, at>>

None == [x |-> 0, y |-> 0, persisted |-> FALSE]

\* Racks with coordinates come first, row by row and from left to right; the
\* others follow in the order of the tree, which also settles ties.
Before(r, q) ==
  \/ at[r].persisted /\ ~at[q].persisted
  \/ /\ at[r].persisted = at[q].persisted
     /\ \/ at[r].y < at[q].y
        \/ at[r].y = at[q].y /\ at[r].x < at[q].x
        \/ at[r].y = at[q].y /\ at[r].x = at[q].x /\ r < q
Rank(r) == Cardinality({q \in present: Before(q, r)})
SlotOf(r) == [row |-> Rank(r) \div PerRow, column |-> Rank(r) % PerRow]

RowMaxHeight(row) ==
  LET heights == {CardHeight[r]: r \in {q \in present: SlotOf(q).row = row}}
  IN CHOOSE h \in heights: \A k \in heights: k <= h
RowTop[row \in Nat] == IF row = 0 THEN 72 ELSE RowTop[row - 1] + RowMaxHeight(row - 1) + 32
Coordinates(slot) == [x |-> 38 + 246 * slot.column, y |-> RowTop[slot.row], persisted |-> TRUE]

-----------------------------------------------------------------------------
\* Both racks are saved, each with the coordinates of the slot of the other.
SwapRacks(a, b) ==
  /\ {a, b} \subseteq present /\ a # b
  /\ at' = [at EXCEPT ![a] = Coordinates(SlotOf(b)), ![b] = Coordinates(SlotOf(a))]
  /\ UNCHANGED present

\* A rack created in the console has no coordinates.
CreateRack(r) == r \notin present /\ present' = present \cup {r} /\ at' = [at EXCEPT ![r] = None]
RemoveRack(r) == r \in present /\ present' = present \ {r} /\ UNCHANGED at

Init == present \in SUBSET Rack /\ at = [r \in Rack |-> None]
Next == \/ \E a, b \in Rack: SwapRacks(a, b)
        \/ \E r \in Rack: CreateRack(r) \/ RemoveRack(r)
Spec == Init /\ [][Next]_vars

-----------------------------------------------------------------------------
\* What the page reports after a drag ("a and b have exchanged their places"):
\* each of the two has the slot of the other, and no other rack has moved.
Exchanges(a, b) ==
  SwapRacks(a, b) => /\ SlotOf(a)' = SlotOf(b) /\ SlotOf(b)' = SlotOf(a)
                     /\ \A r \in present \ {a, b}: SlotOf(r)' = SlotOf(r)
SwapsExchange == [][\A a, b \in Rack: Exchanges(a, b)]_vars
=============================================================================
