-------------------------- MODULE SemanticOutcome --------------------------
(***************************************************************************)
(* What the connector runtime promises for one semantic key, whoever       *)
(* delivers it and however often: the side effect happens at most once,    *)
(* only while the record says that somebody is on it or that nobody        *)
(* knows, and the recorded outcome tells whether it happened.  Stated from *)
(* ADR-155 sections 1 and 4 (docs/architecture/adr); the record is         *)
(* connector.dedup_records.                                                *)
(***************************************************************************)
EXTENDS Naturals

VARIABLES
  state,  \* the authoritative semantic outcome
  count   \* how often the side effect happened

vars == <<state, count>>

Init == state = "ABSENT" /\ count = 0

\* A first request, or a new one after a proven failure, owns the key.
Open ==
  /\ state \in {"ABSENT", "FAILED"}
  /\ state' = "IN_PROGRESS" /\ UNCHANGED count

\* The effect, in time or late.
Act ==
  /\ state \in {"IN_PROGRESS", "OUTCOME_UNKNOWN"} /\ count = 0
  /\ count' = 1 /\ UNCHANGED state

\* A success is recorded after the effect, a failure only without one;
\* nobody but the owner or the reconciliation of an unknown outcome does it.
Settle ==
  /\ state \in {"IN_PROGRESS", "OUTCOME_UNKNOWN"}
  /\ \/ count = 1 /\ state' = "COMPLETED"
     \/ count = 0 /\ state' = "FAILED"
  /\ UNCHANGED count

LoseTrack ==
  /\ state = "IN_PROGRESS"
  /\ state' = "OUTCOME_UNKNOWN" /\ UNCHANGED count

Next == Open \/ Act \/ Settle \/ LoseTrack

Spec == Init /\ [][Next]_vars
=============================================================================
