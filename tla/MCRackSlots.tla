---------------------------- MODULE MCRackSlots ----------------------------
EXTENDS RackSlots
\* Cards of 20 and of 42 units.
Heights == [r \in Rack |-> IF r = 1 THEN 530 ELSE 332]
=============================================================================
