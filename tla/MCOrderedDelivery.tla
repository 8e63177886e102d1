------------------------- MODULE MCOrderedDelivery -------------------------
(* Small instances of OrderedDelivery: three deliveries on one ordering key. *)
EXTENDS OrderedDelivery

CONSTANTS d1, d2, d3, m1, m2

\* The first message is delivered twice, then its successor.
Redelivered == [r \in Deliveries |-> IF r = d3 THEN m2 ELSE m1]
Successive == [m \in Messages |-> IF m = m1 THEN 1 ELSE 2]
=============================================================================
