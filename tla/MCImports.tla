------------------------------ MODULE MCImports ------------------------------
(* The files a person has at hand, and what the back end holds at first.     *)
EXTENDS Imports

Line(c, s, a) == [code |-> c, sn |-> s, asset |-> a, type |-> "good", name |-> "good", other |-> "blank"]
DeviceLines ==
  {Line(0,0,0), Line(1,0,0), Line(1,3,0), Line(1,2,0), Line(2,1,0), Line(3,3,0), Line(3,1,0), Line(0,1,0), Line(0,3,0),
   Line(0,0,1), Line(0,1,1), Line(0,2,1), Line(0,3,1), Line(0,3,3), Line(2,0,3)}
  \cup {[Line(0,2,0) EXCEPT !.type = "blank"], [Line(0,4,0) EXCEPT !.type = "blank"], [Line(2,4,0) EXCEPT !.other = "bad"]}
DeviceFiles == {<<r>>: r \in DeviceLines} \cup (DeviceLines \X DeviceLines)
Mixed == {<<Line(0,3,0), Line(0,0,1)>>, <<Line(1,3,0), Line(0,3,1)>>, <<Line(0,0,0), Line(2,3,0)>>}
Retried == {<<Line(0,3,0)>>}

At(room, c) == [room |-> room, code |-> c, name |-> "good", cells |-> "blank"]
RackFiles == {<<At(1,0)>>, <<At(1,2), At(2,0)>>, <<At(1,1), At(2,2), At(1,2)>>, <<At(1,0), At(0,0), At(1,0)>>,
              <<At(1,2), [At(2,0) EXCEPT !.name = "blank"], At(2,3)>>}

Bounds(f, t, files) == [foreign |-> f, turns |-> t, files |-> files]
DeviceRow(live, c, s, a) == [live |-> live, ver |-> IF live THEN 1 ELSE 0, code |-> c, sn |-> s, asset |-> a]

Init ==
  \/ /\ db = [d \in Device |-> CASE d = 1 -> DeviceRow(TRUE, 1, 1, 1) [] d = 2 -> DeviceRow(TRUE, 2, 2, 0)
                                         [] OTHER -> DeviceRow(FALSE, 0, 0, 0)]
     /\ \/ \E f \in DeviceFiles: bound = Bounds(0, 2, {f})
        \/ \E b \in {<<1, 2>>, <<0, 3>>}: bound = Bounds(b[1], b[2], Mixed)
        \/ bound = Bounds(1, 3, Retried)
     /\ Devices!Start
  \/ /\ db = [r \in Rack |-> [live |-> r = 1, room |-> 1, code |-> 1]]
     /\ bound = Bounds(1, 3, RackFiles)
     /\ Racks!Start
  \/ /\ db = [at |-> [d \in Device |-> IF d \in 1..2 THEN [lo |-> d, hi |-> d] ELSE Diagram!Off],
              name |-> [d \in Device |-> IF d \in 1..2 THEN d ELSE 0],
              drafts |-> {}, next |-> 1, runs |-> [t \in Token |-> 0]]
     /\ bound = Bounds(1, 5, {})
     /\ Diagram!Start
MCSpec == Init /\ [][Next]_sheets
=============================================================================
