--------------------------- MODULE MCAskExecution ---------------------------
(* A small instance of AskExecution: a retry and a cancel, in two requests. *)
EXTENDS AskExecution

CONSTANTS h1, h2, retry, cancel, q1, q2

Kinds == [c \in Commands |-> IF c = retry THEN "retry" ELSE "cancel"]
\* Both processes serve a request and run the worker.
Served == [q \in Requests |-> IF q = q1 THEN h1 ELSE h2]
=============================================================================
