--------------------------- MODULE ActionExecution ---------------------------
(***************************************************************************)
(* One external action from its approval to the review of its outcome: the *)
(* commands of modules/action-execution (approve, execute, verify,         *)
(* reconcile), the rows and the feedback outbox of                         *)
(* adapters/postgres-stage11, the provider behind ActionConnectorPort and  *)
(* the consumer modules/action-feedback-review.                            *)
(*                                                                         *)
(* Every transaction locks the row of the action, so it is one step.  A    *)
(* lost COMMIT leaves it applied or not; the caller then reads back        *)
(* whether what it wrote is there.  Commands run concurrently, in several  *)
(* processes; a user may approve and reconcile at any time.                *)
(***************************************************************************)
EXTENDS Integers, FiniteSets

CONSTANTS
  Calls,      \* command deliveries; "dispatch" is the outbox worker's
  Kind,       \* "execute", "verify", "reconcile" or "dispatch"
  MaxThrows,  \* bound: claims of a row whose publication fails
  MaxUpsets,  \* bound: connections that fail, slow claims and crashes
  None

ASSUME KindAssumption == Kind \in [Calls -> {"execute", "verify", "reconcile", "dispatch"}]
ASSUME BoundsAssumption == MaxThrows \in Nat /\ MaxUpsets \in Nat
ASSUME NoneAssumption == None \notin Calls

VARIABLES
  record,   \* the row of action.executions: its last audit event
  audit,    \* action.audit_events written by calls
  expired,  \* whether the approval has expired
  effect,   \* what the provider has done: "no", "pending" (still on its way), "yes"
  asked,    \* the calls that reached connector.execute
  outbox,   \* action.action_feedback_outbox, by semantic key
  handed,   \* semantic keys whose event the runtime has accepted: it is a work
            \* item of the review, or a dead letter of the required consumer
  calls,
  upsets

vars == <<record, audit, expired, effect, asked, outbox, handed, calls, upsets>>

Flags == {"no", "yes"}
Keys == {"VERIFIED", "OUTCOME_UNKNOWN", "FAILED"}

\* The audit categories a call writes.  Each but the first two is also the status
\* of the record it writes.
Categories == {"EXECUTION_CLAIMED", "PREFLIGHT_PASSED", "PREFLIGHT_FAILED", "EXECUTED",
               "FAILED", "OUTCOME_UNKNOWN", "VERIFIED", "VERIFICATION_FAILED"}
StatusOf(event) ==
  IF event \in {"EXECUTION_CLAIMED", "PREFLIGHT_PASSED"} THEN "EXECUTING" ELSE event

\* actionFeedbackStatusForExecution, the variable part of the semantic key.
FeedbackOf(event) ==
  CASE event \in {"VERIFIED", "OUTCOME_UNKNOWN"} -> event
    [] event \in {"FAILED", "VERIFICATION_FAILED"} -> "FAILED"
    [] OTHER -> "none"

\* The writer and what it wrote stand for updatedAt, occurredAt and the rest of
\* the record: no call writes a category twice, and two calls do not read the
\* same millisecond.
Event == [by : Calls \cup {None}, event : Categories \cup {"PREVIEW_READY", "APPROVED"}]
Nothing == [by |-> None, event |-> "PREVIEW_READY"]

Row == [state : {"absent", "pending", "processing", "published"}, attempts : Nat,
        claim : {"none", "fresh", "stale"},  \* claimed_at, against five minutes
        from : Event]
NoRow == [state |-> "absent", attempts |-> 0, claim |-> "none", from |-> Nothing]

\* saw: the record the call has read or written last.  next: what it is to write.
\* batch: the attempts it claimed each row with, 0 for none.
Call == [pc : {"idle", "preflight", "execute", "verify", "write", "readback",
               "claim", "publish", "mark", "release", "done"},
         saw : Event, next : Categories \cup {"none"},
         batch : [Keys -> Nat], key : Keys \cup {"none"}]
NoBatch == [k \in Keys |-> 0]
Idle == [pc |-> "idle", saw |-> Nothing, next |-> "none", batch |-> NoBatch, key |-> "none"]

Init ==
  /\ record = Nothing /\ audit = {} /\ expired = "no"
  /\ effect = "no" /\ asked = {}
  /\ outbox = [k \in Keys |-> NoRow] /\ handed = {}
  /\ calls = [c \in Calls |-> Idle]
  /\ upsets = 0

tables == <<record, audit, outbox>>
provider == <<effect, asked>>

-----------------------------------------------------------------------------

Fault == upsets < MaxUpsets /\ upsets' = upsets + 1
NoFault == UNCHANGED upsets

At(c, pc) == calls[c].pc = pc
Go(c, pc) == calls' = [calls EXCEPT ![c].pc = pc]

\* The call returns or throws, and its locals with it.  The worker ticks again.
Finish(c) ==
  calls' = [calls EXCEPT ![c] =
              IF Kind[c] = "dispatch" THEN Idle ELSE [Idle EXCEPT !.pc = "done"]]

\* ApproveActionPreview.
Approve ==
  /\ record.event = "PREVIEW_READY" /\ expired = "no"
  /\ record' = [record EXCEPT !.event = "APPROVED"]
  /\ UNCHANGED <<audit, expired, provider, outbox, handed, calls, upsets>>

\* Nobody looks at it once the action is claimed.
Expire ==
  /\ record.event \in {"PREVIEW_READY", "APPROVED"}
  /\ expired = "no" /\ expired' = "yes"
  /\ UNCHANGED <<tables, provider, handed, calls, upsets>>

-----------------------------------------------------------------------------
(* The transactions of PostgresActionExecutionRepository.                   *)

\* What the call is about to write.
Written(c) == [by |-> c, event |-> calls[c].next]

\* Mutant: another event of the same feedback status takes the row it finds.
OutboxAgrees_Ignored(c) == TRUE

\* expectedStatus, and expectedUpdatedAt of a reconciliation.
SameStatus(c) ==
  /\ StatusOf(record.event) = StatusOf(calls[c].saw.event)
  /\ Kind[c] = "reconcile" => record = calls[c].saw

\* insertFeedbackOutbox refuses a semantic key that is bound to another event.
OutboxAgrees(c) ==
  LET k == FeedbackOf(calls[c].next) IN
  k # "none" => outbox[k].state = "absent" \/ outbox[k].from = Written(c)

Permitted(c) == SameStatus(c) /\ OutboxAgrees(c)

InsertFeedbackOutbox(c) ==
  LET k == FeedbackOf(calls[c].next) IN
  outbox' = IF k = "none" \/ outbox[k].state # "absent" THEN outbox
            ELSE [outbox EXCEPT ![k] = [NoRow EXCEPT !.state = "pending", !.from = Written(c)]]

\* The update of the record, its audit event and its feedback intent.
Apply(c) ==
  /\ record' = Written(c) /\ audit' = audit \cup {Written(c)}
  /\ InsertFeedbackOutbox(c)

\* Where the handler goes on with what it has written.
After(event) ==
  CASE event = "EXECUTION_CLAIMED" -> "preflight"
    [] event = "PREFLIGHT_PASSED" -> "execute"
    [] event = "EXECUTED" -> "verify"
    [] OTHER -> "claim"

Proceed(c) ==
  IF calls[c].next = "PREFLIGHT_FAILED" THEN Finish(c)
  ELSE calls' = [calls EXCEPT ![c].pc = After(calls[c].next), ![c].saw = Written(c),
                               ![c].next = "none",
                               ![c].key = FeedbackOf(calls[c].next)]

\* transition.
Transition(c) ==
  /\ At(c, "write")
  /\ \/ NoFault /\ Permitted(c) /\ Apply(c) /\ Proceed(c)
     \/ NoFault /\ ~Permitted(c) /\ UNCHANGED tables /\ Finish(c)
     \/ Fault /\ UNCHANGED tables /\ Finish(c)
     \/ Fault /\ Permitted(c) /\ (Apply(c) \/ UNCHANGED tables) /\ Go(c, "readback")
  /\ UNCHANGED <<expired, provider, handed>>

\* Mutant: a record that is being executed is taken for the own claim.
IsWritten_Status(c) == StatusOf(record.event) = StatusOf(calls[c].next)

\* reconcileClaim and reconcileTransition: the record, its audit event and its
\* intent are there as they were written.
IsWritten(c) == record = Written(c)

Readback(c) ==
  /\ At(c, "readback")
  /\ \/ NoFault /\ IsWritten(c) /\ Proceed(c)
     \/ NoFault /\ ~IsWritten(c) /\ Finish(c)
     \/ Fault /\ Finish(c)
  /\ UNCHANGED <<tables, expired, provider, handed>>

-----------------------------------------------------------------------------
(* ExecuteApprovedAction.                                                   *)

\* Mutant: an execution that was interrupted is claimed again.
Approved_Again == record.event \in {"APPROVED", "EXECUTION_CLAIMED"}
Approved == record.event = "APPROVED"
Claimable == Approved /\ expired = "no"

\* claimForExecution.  A command that may not claim returns or throws at once.
ClaimForExecution(c) ==
  LET claim == [by |-> c, event |-> "EXECUTION_CLAIMED"]
      claimed == record' = claim /\ audit' = audit \cup {claim} /\ UNCHANGED outbox
      call == [Idle EXCEPT !.next = "EXECUTION_CLAIMED"]
  IN
  /\ Kind[c] = "execute" /\ At(c, "idle")
  /\ \/ /\ NoFault /\ Claimable /\ claimed
        /\ calls' = [calls EXCEPT ![c] = [Idle EXCEPT !.pc = "preflight", !.saw = claim]]
     \/ Fault /\ UNCHANGED tables /\ Finish(c)
     \/ /\ Fault /\ Claimable /\ (claimed \/ UNCHANGED tables)
        /\ calls' = [calls EXCEPT ![c] = [call EXCEPT !.pc = "readback"]]
  /\ UNCHANGED <<expired, provider, handed>>

\* Mutant: the status of the record is written as the category.
Write_Status(c, event) == calls' = [calls EXCEPT ![c].pc = "write", ![c].next = StatusOf(event)]
Write(c, event) == calls' = [calls EXCEPT ![c].pc = "write", ![c].next = event]

\* The candidate is compared with the snapshot and the provider asked whether it
\* can do it; an error of the provider leaves the record as it is.
Preflight(c) ==
  /\ At(c, "preflight")
  /\ Write(c, "PREFLIGHT_PASSED") \/ Write(c, "PREFLIGHT_FAILED") \/ Finish(c)
  /\ UNCHANGED <<tables, expired, provider, handed, upsets>>

\* connector.execute: the provider does it or rejects it, or its answer is lost,
\* whatever it does.  One that has already applied the action says so.
Execute(c) ==
  /\ At(c, "execute") /\ asked' = asked \cup {c}
  /\ \/ effect' = "yes" /\ Write(c, "EXECUTED")
     \/ effect = "no" /\ UNCHANGED effect /\ Write(c, "FAILED")
     \/ effect' \in {effect, "yes"} /\ Write(c, "OUTCOME_UNKNOWN")
     \/ effect = "no" /\ effect' = "pending" /\ Write(c, "OUTCOME_UNKNOWN")
  /\ UNCHANGED <<tables, expired, handed, upsets>>

\* A request whose answer was lost takes effect.
LateEffect ==
  /\ effect = "pending" /\ effect' = "yes"
  /\ UNCHANGED <<tables, expired, asked, handed, calls, upsets>>

-----------------------------------------------------------------------------
(* VerifyActionOutcome and ReconcileExecutingAction.                        *)

Verifiable == {"EXECUTED", "OUTCOME_UNKNOWN", "VERIFICATION_FAILED"}
StartVerify(c) ==
  /\ Kind[c] = "verify" /\ At(c, "idle") /\ StatusOf(record.event) \in Verifiable
  /\ calls' = [calls EXCEPT ![c].pc = "verify", ![c].saw = record]
  /\ UNCHANGED <<tables, expired, provider, handed, upsets>>

\* connector.verify, of a verify command or of the execution itself.  What is
\* applied may also not match what was to be.
Verify(c) ==
  /\ At(c, "verify")
  /\ \/ effect = "yes" /\ Write(c, "VERIFIED")
     \/ Write(c, "VERIFICATION_FAILED")
     \/ Finish(c)
  /\ UNCHANGED <<tables, expired, provider, handed, upsets>>

\* The user has read a record that is being executed, and asks to give it up.
StartReconcile(c) ==
  /\ Kind[c] = "reconcile" /\ At(c, "idle") /\ StatusOf(record.event) = "EXECUTING"
  /\ calls' = [calls EXCEPT ![c].pc = "write", ![c].saw = record,
                            ![c].next = "OUTCOME_UNKNOWN"]
  /\ UNCHANGED <<tables, expired, provider, handed, upsets>>

-----------------------------------------------------------------------------
(* dispatchActionFeedbackOutbox: the worker's, and that of publishFeedback.  *)

\* Mutant: a claimed row is never taken over.
Available_Pending(k) == outbox[k].state = "pending"
Available(k) ==
  outbox[k].state = "pending" \/ (outbox[k].state = "processing" /\ outbox[k].claim = "stale")
\* publishFeedback asks for the row of its own event.
Wanted(c) == {k \in Keys : Available(k) /\ (Kind[c] = "dispatch" \/ k = calls[c].key)}
Dispatches(c) == At(c, "claim") \/ (Kind[c] = "dispatch" /\ At(c, "idle") /\ Wanted(c) # {})

\* claimFeedbackOutbox, one statement.
ClaimFeedbackOutbox(c) ==
  LET rows == Wanted(c)
      claimed == outbox' = [k \in Keys |->
        IF k \notin rows THEN outbox[k]
        ELSE [outbox[k] EXCEPT !.state = "processing", !.claim = "fresh", !.attempts = @ + 1]]
      batch == [k \in Keys |-> IF k \in rows THEN outbox[k].attempts + 1 ELSE 0]
  IN
  /\ Dispatches(c)
  /\ \/ /\ NoFault /\ rows # {} /\ claimed
        /\ calls' = [calls EXCEPT ![c].pc = "publish", ![c].batch = batch]
     \/ NoFault /\ rows = {} /\ UNCHANGED outbox /\ Finish(c)
     \/ Fault /\ (claimed \/ UNCHANGED outbox) /\ Finish(c)
  /\ UNCHANGED <<record, audit, expired, provider, handed>>

\* A call this slow has been cancelled by the runtime.
Late(c, k) == outbox[k].claim # "fresh" \/ outbox[k].attempts # calls[c].batch[k]

\* publishWithOutcome hands the event to the runtime: the consumer's upsert keeps
\* one work item for a semantic key, or its failure is a dead letter.  It throws
\* when the call is cancelled, or the runtime does not get that far, whatever the
\* consumer has done.
Publish(c, k) ==
  /\ At(c, "publish") /\ calls[c].batch[k] # 0
  /\ \/ /\ NoFault /\ calls' = [calls EXCEPT ![c].pc = "mark", ![c].key = k]
        /\ handed' = handed \cup {k}
     \/ /\ NoFault /\ (calls[c].batch[k] <= MaxThrows \/ Late(c, k)) /\ UNCHANGED handed
        /\ calls' = [calls EXCEPT ![c].pc = "release", ![c].key = k]
  /\ UNCHANGED <<tables, expired, provider>>

\* The next row of the batch, if any.
GoOn(c) ==
  LET batch == [calls[c].batch EXCEPT ![calls[c].key] = 0] IN
  IF batch = NoBatch THEN Finish(c)
  ELSE calls' = [calls EXCEPT ![c].pc = "publish", ![c].batch = batch]

\* Mutant: the row is found by its id alone.
Current_Unfenced(c) == TRUE

\* The row is still the one this call has claimed.
Current(c) ==
  LET k == calls[c].key IN
  outbox[k].state = "processing" /\ outbox[k].attempts = calls[c].batch[k]

SetRow(c, state) ==
  outbox' = IF Current(c) THEN [outbox EXCEPT ![calls[c].key].state = state,
                                              ![calls[c].key].claim = "none"]
            ELSE outbox

\* markFeedbackOutboxPublished.  Its errors are kept for later.
Mark(c) ==
  /\ At(c, "mark") /\ GoOn(c)
  /\ \/ (NoFault \/ Fault) /\ SetRow(c, "published")
     \/ Fault /\ UNCHANGED outbox
  /\ UNCHANGED <<record, audit, expired, provider, handed>>

\* releaseFeedbackOutbox, of an event that was not handed over.  Its own error
\* leaves the loop, and the rest of the batch claimed.
Release(c) ==
  /\ At(c, "release")
  /\ \/ NoFault /\ SetRow(c, "pending") /\ GoOn(c)
     \/ Fault /\ (SetRow(c, "pending") \/ UNCHANGED outbox) /\ Finish(c)
  /\ UNCHANGED <<record, audit, expired, provider, handed>>

\* The claim of k has a call that still works on it.
Held(k) ==
  \E c \in Calls : calls[c].batch[k] # 0 /\ calls[c].batch[k] = outbox[k].attempts

\* Five minutes have passed since the claim.  A call that still holds it is slow,
\* or claimed it with the time at which a long verification began.
ClaimExpires(k) ==
  /\ outbox[k].state = "processing" /\ outbox[k].claim = "fresh"
  /\ \/ NoFault /\ ~Held(k)
     \/ Fault /\ Held(k)
  /\ outbox' = [outbox EXCEPT ![k].claim = "stale"]
  /\ UNCHANGED <<record, audit, expired, provider, handed, calls>>

-----------------------------------------------------------------------------

\* The process of a call dies.
Crash(c) ==
  /\ Fault /\ ~At(c, "idle") /\ ~At(c, "done") /\ Finish(c)
  /\ UNCHANGED <<tables, expired, provider, handed>>

Handler(c) ==
  \/ ClaimForExecution(c) \/ Preflight(c) \/ Execute(c)
  \/ StartVerify(c) \/ Verify(c) \/ StartReconcile(c)
  \/ Transition(c) \/ Readback(c)

Dispatch(c) ==
  \/ ClaimFeedbackOutbox(c) \/ Mark(c) \/ Release(c)
  \/ \E k \in Keys : Publish(c, k)

Next ==
  \/ Approve \/ Expire \/ LateEffect
  \/ \E c \in Calls : Handler(c) \/ Dispatch(c) \/ Crash(c)
  \/ \E k \in Keys : ClaimExpires(k)

Spec == Init /\ [][Next]_vars

\* The worker ticks every 30 seconds, and the calls that publish return, whichever
\* is first.  Time passes.
Fairness ==
  /\ WF_vars(\E c \in Calls : Dispatch(c))
  /\ WF_vars(\E k \in Keys : ~Held(k) /\ ClaimExpires(k))

FairSpec == Spec /\ Fairness

-----------------------------------------------------------------------------
(* Properties                                                               *)

\* Every variable has the shape of its table or of the handlers' locals.
TypeOK ==
  /\ record \in Event /\ audit \subseteq Event /\ expired \in Flags
  /\ effect \in {"no", "pending", "yes"} /\ asked \subseteq Calls
  /\ outbox \in [Keys -> Row] /\ handed \subseteq Keys
  /\ calls \in [Calls -> Call] /\ upsets \in 0..MaxUpsets

\* The provider is asked at most once to execute an action, however many execute
\* commands arrive and whatever acknowledgement of theirs is lost.
AskedOnce == \A c, d \in asked : c = d

\* A recorded outcome is true: nothing was applied behind a failure, a rejection
\* of the preflight or a record that is not claimed, and what is executed or
\* verified was applied, whoever else gave the execution up meanwhile.
OutcomeIsTrue ==
  /\ record.event \in {"PREVIEW_READY", "APPROVED", "PREFLIGHT_FAILED", "FAILED"} => effect = "no"
  /\ record.event \in {"EXECUTED", "VERIFIED"} => effect = "yes"

\* What is written last is no longer changed: a verified, failed or rejected
\* action stays so.
EndIsFinal ==
  [][record.event \in {"VERIFIED", "FAILED", "PREFLIGHT_FAILED"} => UNCHANGED record]_vars

\* Every outcome in the audit that asks for a review has an outbox row of its own,
\* with the time and the payload of that outcome.
OutcomesHaveFeedback ==
  \A e \in audit :
    LET k == FeedbackOf(e.event) IN k # "none" => outbox[k].state # "absent" /\ outbox[k].from = e

\* A row is marked published only after its event was handed to the consumer,
\* or to the dead letters that keep it for a replay.
PublishedIsHandedOver == \A k \in Keys : outbox[k].state = "published" => k \in handed

\* A published row is never taken back, by a late call that had claimed it before.
PublishedIsFinal ==
  [][\A k \in Keys : outbox[k].state = "published" => outbox'[k] = outbox[k]]_vars

\* Every outcome is published in the end, whatever call, process or
\* acknowledgement is lost on the way: the outbox is drained again.
Drained == \A k \in Keys : outbox[k].state \in {"absent", "published"}
FeedbackIsPublished == ~Drained ~> Drained
=============================================================================
