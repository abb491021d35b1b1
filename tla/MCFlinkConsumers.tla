--------------------------- MODULE MCFlinkConsumers ---------------------------
(* Instances of FlinkConsumers for TLC: the severe event e1 is in both topics, *)
(* e2 has no eventId, the database always refuses e3, and the schema refuses   *)
(* e4.                                                                         *)
EXTENDS FlinkConsumers

CONSTANTS e1, e2, e3, e4

MCEvents == {e1, e2, e3, e4}
MCTopic == [k \in Consumers |-> IF k = "enriched" THEN <<e1, e2>> ELSE <<e3, e1, e4>>]
MCWithId == {e1, e3, e4}
MCSevere == {e1}
MCSheddable == {e1}
MCPoison == {e3}
MCInvalid == {e4}
=============================================================================
