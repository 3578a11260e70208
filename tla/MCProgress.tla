----------------------------- MODULE MCProgress -----------------------------
(* Two partitions with a message each, no shutdown and no lost session: what *)
(* the processed revision of a healthy participant does.                     *)
EXTENDS Workers, TLC

CONSTANTS m1, m2, p1, p2

NoBacklog == {[queue |-> {}, old |-> {}]}

OwnPart == (m1 :> p1) @@ (m2 :> p2)
=============================================================================
