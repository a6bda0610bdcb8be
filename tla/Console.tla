------------------------------- MODULE Console -------------------------------
(***************************************************************************)
(* The pages of the console, one of which is open.  Leaving a page drops    *)
(* its state, and late answers find nobody, so each is checked by itself,   *)
(* against the same back end and the same other users.                      *)
(***************************************************************************)
EXTENDS Wire

CONSTANTS Builtin, Hideable

Devices == INSTANCE DevicesPage
RackList == INSTANCE RacksPage
Templates == INSTANCE TemplatesPage
Tree == INSTANCE HierarchyPage
Power == INSTANCE PduPage
Screen == INSTANCE ScreenPage

OpenPage ==
  CASE ui.page \in {"devices", "types", "ulayout"} -> "devices"
    [] OTHER -> ui.page

Next ==
  \/ WireNext
  \/ OpenPage = "devices" /\ Devices!PageNext
  \/ OpenPage = "racks" /\ RackList!PageNext
  \/ OpenPage = "templates" /\ Templates!PageNext
  \/ OpenPage = "hierarchy" /\ Tree!PageNext
  \/ OpenPage = "pdus" /\ Power!PageNext
  \/ OpenPage = "screen" /\ Screen!PageNext

\* What a live row belongs to is live: nothing is created below a row that has gone,
\* and no row is deleted that others belong to.
Homed(S) == \A r \in Row: S[r].live /\ S[r].up \in Row => S[S[r].up].live

\* One of the pages is open, on any such table.
Start == /\ srv \in Rows /\ Homed(srv) /\ left \in Nat
         /\ \/ Devices!Mounted \/ RackList!Mounted \/ Templates!Mounted
            \/ Tree!Mounted \/ Power!Mounted \/ Screen!OnMounted
Spec == Start /\ [][Next]_wire

-----------------------------------------------------------------------------
\* A page whose calls have all been answered, with nothing that excuses it
\* (another user's write, a load that overlapped another, a failure), shows what
\* the back end holds: every write of the page is followed by a load, and the
\* filter, the page of the list and the selection are those of that load.
Shown ==
  ui.ok /\ net = {} =>
    CASE OpenPage = "devices" -> Devices!ShowsTruth
      [] OpenPage = "racks" -> RackList!ShowsTruth
      [] OpenPage = "templates" -> Templates!ShowsTruth
      [] OpenPage = "hierarchy" -> Tree!ShowsTruth
      [] OpenPage = "pdus" -> Power!ShowsTruth
      [] OpenPage = "screen" -> Screen!ShowsTruth
\* What a page has selected is in the tree it shows, whatever load, deletion or
\* move came in between.
SelectionExists ==
  /\ OpenPage = "racks" => RackList!SelectionExists
  /\ OpenPage = "hierarchy" => Tree!SelectionExists
  /\ OpenPage = "screen" => Screen!SelectionExists
=============================================================================
