--------------------------- MODULE MCActionExecution ---------------------------
(* A small instance of ActionExecution: calls of every kind on one action. *)
EXTENDS ActionExecution

CONSTANTS e1, e2, v1, r1, worker

Kinds == [c \in Calls |->
  CASE c \in {e1, e2} -> "execute" [] c = v1 -> "verify"
    [] c = r1 -> "reconcile" [] OTHER -> "dispatch"]
=============================================================================
