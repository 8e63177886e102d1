------------------------ MODULE MCConnectorDelivery ------------------------
(* Small instances of ConnectorDelivery: two processes, the first delivery  *)
(* in one and the others in the other, or all in one.                       *)
EXTENDS ConnectorDelivery, TLC

CONSTANTS d1, d2, d3, w1, w2, m1, m2

TwoHosts == [r \in Deliveries |-> IF r = d1 THEN w1 ELSE w2]
OneMessage == [r \in Deliveries |-> m1]
LastConflicts == [r \in Deliveries |-> IF r = d3 THEN m2 ELSE m1]
\* In one process the lease's owner alone tells no two deliveries apart.
OneHost == [r \in Deliveries |-> w1]
AnyOrder == Permutations({d1, d2, d3})
=============================================================================
