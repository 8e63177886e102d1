----------------------- MODULE ConnectorOutcomeProofs -----------------------
(* ConnectorDelivery implements SemanticOutcome, step by step, for any      *)
(* number of deliveries, processes, attempts, failing connections and       *)
(* crashes, as long as a run stays clear of its two known gaps: a FAILED    *)
(* record reopened twice, and a failure recorded although the handler acted *)
(* or may still act.  Deliveries in pairs over sound connections stay clear *)
(* of both.                                                                 *)
EXTENDS ConnectorDeliveryProofs, FiniteSetTheorems

-----------------------------------------------------------------------------
(* The invariant                                                            *)

\* The two gaps.  begin's UPDATE does not look at the state it read before,
\* and a lost connection under an attempt's last statements is reported as an
\* ordinary failure.
ReopenOnlyFailed == \A r \in Deliveries : At(r, "reopen") => dedup.state = "FAILED"
FailureIsKnown ==
  \A r \in Deliveries : At(r, "fail") => Invocation(r) \notin effects \cup orphans

\* A delivery that holds the key, and the invocations that acted or may still.
Active(r) == calls[r].pc \in RunPcs
Happened == effects \cup orphans

\* Before the handler, and after it failed.
QuietPcs == {"lookup", "enqueue", "findJob", "claim", "attempt", "dispatch"}
FailurePcs == {"attemptFail", "retry", "terminal"}

\* One delivery at a time holds the key, and what happened is its doing; a
\* record that invites a new attempt has nothing behind it.
RecordInv ==
  /\ \A r, s \in Deliveries : Active(r) /\ Active(s) => r = s
  /\ \A a, b \in Happened : a = b
  /\ effects \cap orphans = {}
  /\ dedup.state \in {"ABSENT", "FAILED"} =>
       Happened = {} /\ \A r \in Deliveries : ~Active(r)

\* Where the delivery stands tells what happened.
StageInv(r) ==
  /\ Active(r) => Happened \subseteq {Invocation(r)}
  /\ calls[r].pc \in QuietPcs => Happened = {}
  /\ At(r, "handler") => orphans = {}
  /\ calls[r].pc \in FailurePcs /\ calls[r].err # "unknown" => Happened = {}
  /\ At(r, "retry") => calls[r].err = "retryable"
  /\ calls[r].pc \in SuccessPcs => orphans = {} /\ effects # {}

OutcomeInv == RecordInv /\ \A r \in Deliveries : StageInv(r)

LEMMA OutcomeInit == Init => OutcomeInv
BY SMT DEF Init, OutcomeInv, RecordInv, StageInv, Active, Happened, RunPcs, QuietPcs,
  FailurePcs, SuccessPcs, At, NoCall

LEMMA StagePcs ==
  /\ QuietPcs \subseteq RunPcs /\ FailurePcs \subseteq RunPcs /\ SuccessPcs \subseteq RunPcs
  /\ "handler" \in RunPcs /\ "retry" \in FailurePcs
BY DEF QuietPcs, FailurePcs, SuccessPcs, RunPcs

-----------------------------------------------------------------------------
(* One step of a delivery                                                   *)

\* What the moves do to the error of a call and to its claim.
LEMMA ErrorUpdates ==
  ASSUME CallsOK, NEW r \in Deliveries
  PROVE  /\ \A p : Goto(r, p) => calls'[r].err = calls[r].err
         /\ \A e : GiveUp(r, e) => calls'[r].err = e
         /\ NextRound(r) => calls'[r].lease = calls[r].lease
         /\ \A j : UseJob(r, j) => calls'[r].lease = calls[r].lease
         /\ \A j, n : Plan(r, j, n) => calls'[r].lease = calls[r].lease
<1> USE DEF CallsOK, Call
<1>1. \A p : Goto(r, p) => calls'[r].err = calls[r].err
  BY SMT DEF Goto
<1>2. \A e : GiveUp(r, e) => calls'[r].err = e
  BY SMT DEF GiveUp
<1>3. NextRound(r) => calls'[r].lease = calls[r].lease
  BY SMT DEF NextRound
<1>4. \A j : UseJob(r, j) => calls'[r].lease = calls[r].lease
  BY SMT DEF UseJob
<1>5. \A j, n : Plan(r, j, n) => calls'[r].lease = calls[r].lease
  BY SMT DEF Plan
<1> QED
  BY <1>1, <1>2, <1>3, <1>4, <1>5, Zenon

\* The record becomes this delivery's.
Opens(r) ==
  \/ At(r, "idle") /\ dedup.state = "ABSENT" /\ InsertRecord(r)
  \/ At(r, "reopen") /\ ReopenRecord(r)

\* What a step may do to the delivery's own locals.
Ordinary(r) ==
  /\ calls'[r].pc \in RunPcs =>
       \/ calls[r].pc \in RunPcs
       \/ Opens(r) /\ calls'[r].pc = "lookup"
  /\ calls'[r].pc \in QuietPcs => calls[r].pc \in QuietPcs \/ Opens(r) \/ At(r, "retry")
  /\ calls'[r].pc = "handler" => At(r, "dispatch") \/ At(r, "handler")
  /\ calls'[r].pc \in FailurePcs \ {"attemptFail"} =>
       At(r, "attemptFail") /\ calls'[r].err = calls[r].err
  /\ calls'[r].pc = "retry" => calls[r].err = "retryable"
  /\ calls'[r].pc \in SuccessPcs =>
       calls[r].pc \in SuccessPcs \/ (At(r, "handler") /\ Invocation(r) \in effects)
  /\ calls'[r].lease = calls[r].lease \/ At(r, "claim") \/ calls'[r].pc = "done"
  /\ calls'[r].pc = "attemptFail" => At(r, "dispatch") \/ At(r, "handler")
  /\ calls'[r].pc = "attemptFail" => \E e \in Errors : GiveUp(r, e)

LEMMA OrdinaryMoves ==
  ASSUME CallsOK, HandlerErrorsAssumption, NEW r \in Deliveries, Deliver(r)
  PROVE  Ordinary(r)
<1> USE DEF At, MovedTo, SameClaim, QuietPcs, FailurePcs, SuccessPcs, RunPcs
<1>1. CASE \E p \in Pcs :
             /\ Goto(r, p) /\ Edge(calls[r].pc, p)
             /\ p = "attemptOk" => Invocation(r) \in effects
             /\ p = "retry" => CanRetry(r)
  <2>1. PICK p \in Pcs :
          /\ MovedTo(r, p) /\ Edge(calls[r].pc, p) /\ Goto(r, p)
          /\ p = "attemptOk" => Invocation(r) \in effects
          /\ p = "retry" => CanRetry(r)
    BY <1>1, Updates, Zenon
  <2>3. calls'[r].err = calls[r].err
    BY <2>1, ErrorUpdates
  <2>2. p # "attemptFail" /\ p # "lookup"
    BY <2>1, SMT DEF Edge
  <2> QED
    BY <2>1, <2>2, <2>3, SMT DEF Edge, CanRetry, Ordinary
<1>2. CASE \E e \in Errors : calls[r].pc \in RunPcs /\ Throw(r, e)
  <2>1. PICK p \in {"mark", "fail"} : calls[r].pc \in RunPcs /\ MovedTo(r, p)
    BY <1>2, Updates, Zenon
  <2> QED
    BY <2>1, SMT DEF Ordinary
<1>3. CASE \E o \in Outcomes : Return(r, o)
  <2>1. calls'[r].pc = "done"
    BY <1>3, Updates, Zenon
  <2> QED
    BY <2>1, SMT DEF Ordinary
<1>4. CASE Opens(r) /\ \E n : Own(r, n)
  <2>1. MovedTo(r, "lookup")
    BY <1>4, Updates, Zenon
  <2> QED
    BY <1>4, <2>1, SMT DEF Ordinary
<1>5. CASE \/ At(r, "lookup") /\ UseJob(r, dedup.job)
           \/ At(r, "findJob") /\ Plan(r, dedup.job, jobs[dedup.job].count)
           \/ At(r, "retry") /\ NextRound(r)
  <2>1. /\ At(r, "lookup") \/ At(r, "findJob") \/ At(r, "retry")
        /\ calls'[r].pc \in {"enqueue", "claim"}
        /\ calls'[r].lease = calls[r].lease
    BY <1>5, Updates, ErrorUpdates, Zenon
  <2> QED
    BY <2>1, SMT DEF Ordinary
<1>6. CASE At(r, "claim") /\ Hold(r, MyJob(r).fence + 1)
  <2>1. calls'[r].pc = "attempt"
    BY <1>6, Updates, Zenon
  <2> QED
    BY <1>6, <2>1, SMT DEF Ordinary
<1>7. CASE (At(r, "dispatch") \/ At(r, "handler")) /\ \E e \in Errors : GiveUp(r, e)
  <2>1. MovedTo(r, "attemptFail")
    BY <1>7, Updates, Zenon
  <2> QED
    BY <1>7, <2>1, SMT DEF Ordinary
<1>8. CASE At(r, "handler") /\ UNCHANGED calls
  BY <1>8, SMT DEF Ordinary
<1> HIDE DEF At, MovedTo, SameClaim, QuietPcs, FailurePcs, SuccessPcs, RunPcs
<1> QED
  BY LocalsChange, <1>1, <1>2, <1>3, <1>4, <1>5, <1>6, <1>7, <1>8, Zenon DEF Opens

\* The handler acts; the delivery gives up waiting for it; it throws before
\* it acted; or the step has to do with neither.
GivesUpWaiting(r) ==
  /\ At(r, "dispatch") \/ At(r, "handler")
  /\ GiveUp(r, "unknown") /\ UNCHANGED <<dedup, effects>>
  /\ \/ orphans' = orphans
     \/ At(r, "handler") /\ Invocation(r) \notin effects
        /\ orphans' = orphans \cup {Invocation(r)}
HandlerThrows(r) ==
  /\ At(r, "handler") /\ Invocation(r) \notin effects
  /\ \E e \in Errors : GiveUp(r, e)
  /\ UNCHANGED <<dedup, effects, orphans>>

LEMMA HandlerMoves ==
  ASSUME CallsOK, HandlerErrorsAssumption, NEW r \in Deliveries, Deliver(r)
  PROVE  \/ HandlerActs(r) \/ GivesUpWaiting(r) \/ HandlerThrows(r)
         \/ UNCHANGED <<effects, orphans>> /\ calls'[r].pc # "attemptFail"
<1>1. CASE HandlerActs(r)
  BY <1>1
<1>2. CASE LoseLease(r) \/ HandlerTimesOut(r)
  <2>1. /\ calls[r].pc \in {"dispatch", "handler"}
        /\ Abandon(r) /\ UNCHANGED <<dedup, effects>>
    BY <1>2, SMT DEF LoseLease, HandlerTimesOut, At
  <2> QED
    BY <2>1, Zenon DEF Abandon, GivesUpWaiting, GiveUp, At
<1>3. CASE HandlerFails(r)
  <2>1. \A e \in HandlerErrors \cup {"unknown"} : e \in Errors
    BY SMT DEF HandlerErrorsAssumption, Errors
  <2>2. \E e \in Errors : GiveUp(r, e)
    BY <1>3, <2>1, Zenon DEF HandlerFails, GiveUp
  <2> QED
    BY <1>3, <2>2, Zenon DEF HandlerFails, HandlerThrows
<1>4. CASE HandlerReturns(r)
  <2>1. \E p \in {"attemptOk", "postUnknown"} : Goto(r, p)
    BY <1>4, Zenon DEF HandlerReturns
  <2>2. calls'[r].pc \in {"attemptOk", "postUnknown"}
    BY <2>1, Updates, Zenon DEF MovedTo
  <2>3. UNCHANGED <<effects, orphans>>
    BY <1>4, Zenon DEF HandlerReturns
  <2> QED
    BY <2>2, <2>3, SMT
<1>5. CASE StartHandler(r)
  <2>1. calls'[r].pc = "handler"
    BY <1>5, Updates, Zenon DEF StartHandler, MovedTo
  <2>2. UNCHANGED <<effects, orphans>>
    BY <1>5 DEF StartHandler
  <2> QED
    BY <2>1, <2>2, SMT
<1>6. CASE ~ (HandlerActs(r) \/ LoseLease(r) \/ HandlerTimesOut(r) \/ HandlerFails(r)
              \/ HandlerReturns(r) \/ StartHandler(r))
  <2> USE <1>6 DEF Deliver, Begin, BeginRead, BeginReopen, Poll, LookupJob, EnqueueJob,
        FindJob, Claim, StartAttempt, AttemptSucceeded, CompleteJob, ReadBackJob,
        PostOperationUnknown, AttemptFailed, ScheduleRetry, TerminateJob, CompleteRecord,
        MarkOutcomeUnknown, FailRecord
  <2>1. UNCHANGED <<effects, orphans>>
    BY Zenon
  <2>2. \E p \in {"idle", "read", "reopen", "poll", "lookup", "enqueue", "findJob", "claim",
                  "attempt", "attemptOk", "complete", "readBack", "postUnknown",
                  "attemptFail", "retry", "terminal", "dedupComplete", "mark", "fail"} :
          At(r, p)
    BY Zenon
  <2>3. ~At(r, "dispatch") /\ ~At(r, "handler")
    BY <2>2, SMT DEF At
  <2>4. calls'[r].pc # "attemptFail"
    BY <2>3, OrdinaryMoves, Zenon DEF Ordinary
  <2> QED
    BY <2>1, <2>4
<1> QED
  BY <1>1, <1>2, <1>3, <1>4, <1>5, <1>6, Zenon

\* A delivery that records a failure is at its end.
LEMMA FailEnds ==
  ASSUME CallsOK, NEW r \in Deliveries, Deliver(r), At(r, "fail")
  PROVE  calls'[r].pc = "done" /\ UNCHANGED <<effects, orphans>>
<1>1. CASE FailRecord(r)
  BY <1>1, Updates, Zenon DEF FailRecord
<1>2. CASE LoseLease(r)
  BY <1>2, SMT DEF LoseLease, At
<1>3. CASE ~FailRecord(r) /\ ~LoseLease(r)
  <2>1. \E p \in {"idle", "read", "reopen", "poll", "lookup", "enqueue", "findJob", "claim",
                  "attempt", "dispatch", "handler", "attemptOk", "complete", "readBack",
                  "postUnknown", "attemptFail", "retry", "terminal", "dedupComplete",
                  "mark"} : At(r, p)
    BY <1>3, Zenon DEF Deliver, Begin, BeginRead, BeginReopen, Poll, LookupJob, EnqueueJob,
      FindJob, Claim, StartAttempt, StartHandler, HandlerActs, HandlerReturns,
      HandlerFails, HandlerTimesOut, AttemptSucceeded, CompleteJob, ReadBackJob,
      PostOperationUnknown, AttemptFailed, ScheduleRetry, TerminateJob, CompleteRecord,
      MarkOutcomeUnknown
  <2> QED
    BY <2>1, SMT DEF At
<1> QED
  BY <1>1, <1>2, <1>3

LEMMA OpensRecord ==
  ASSUME TypeInv, NEW r \in Deliveries, Opens(r)
  PROVE  dedup'.state = "IN_PROGRESS"
<1>1. dedup \in DedupRow
  BY DEF TypeInv, TypeOK
<1>2. InsertRecord(r) => dedup'.state = "IN_PROGRESS"
  BY SMT DEF InsertRecord
<1>3. ReopenRecord(r) => dedup'.state = "IN_PROGRESS"
  BY <1>1, SMT DEF ReopenRecord, DedupRow
<1> QED
  BY <1>2, <1>3 DEF Opens

\* The record's state in one step of a delivery.
LEMMA StateMoves ==
  ASSUME TypeInv, NEW r \in Deliveries, Deliver(r)
  PROVE  \/ UNCHANGED dedup
         \/ Opens(r) /\ dedup'.state = "IN_PROGRESS"
         \/ At(r, "dedupComplete") /\ OwnsRecord(r) /\ dedup'.state = "COMPLETED"
         \/ At(r, "mark") /\ OwnsRecord(r) /\ dedup'.state = "OUTCOME_UNKNOWN"
         \/ At(r, "fail") /\ OwnsRecord(r) /\ dedup'.state = "FAILED"
<1>1. dedup \in DedupRow
  BY DEF TypeInv, TypeOK
<1>2. \A st : SetState(st) => dedup'.state = st
  BY <1>1, SMT DEF SetState, DedupRow
<1> QED
  BY DedupChange, OpensRecord, <1>2, Zenon DEF Opens

\* A delivery that does not hold the key: it opens the record, or it changes
\* nothing that matters.
LEMMA OpeningStep ==
  ASSUME TypeInv, OutcomeInv, ReopenOnlyFailed, HandlerErrorsAssumption,
         NEW r \in Deliveries, Deliver(r), ~Active(r)
  PROVE  OutcomeInv'
<1> CallsOK
  BY DEF TypeInv, TypeOK, CallsOK
<1>1. UNCHANGED <<effects, orphans>>
  <2>1. ~At(r, "handler") /\ ~At(r, "dispatch")
    BY SMT DEF Active, RunPcs, At
  <2> QED
    BY <2>1, HandlerMoves, Zenon DEF HandlerActs, GivesUpWaiting, HandlerThrows
<1>2. \A s \in Deliveries : s # r => calls'[s] = calls[s]
  BY OthersKeep
<1>3. \A s \in Deliveries : s # r /\ StageInv(s) => StageInv(s)'
  BY <1>1, <1>2, SMT DEF StageInv, Active, Happened, At, Invocation
<1>4. CASE Opens(r)
  <2>1. dedup.state \in {"ABSENT", "FAILED"}
    BY <1>4, SMT DEF Opens, ReopenOnlyFailed
  <2>2. Happened = {} /\ \A s \in Deliveries : ~Active(s)
    BY <2>1 DEF OutcomeInv, RecordInv
  <2>3. dedup'.state = "IN_PROGRESS"
    BY <1>4, OpensRecord
  <2>4. calls'[r].pc \in RunPcs => calls'[r].pc = "lookup"
    BY OrdinaryMoves DEF Ordinary, Active
  <2>5. StageInv(r)'
    BY <1>1, <2>2, <2>4, StagePcs, SMT
    DEF StageInv, Active, Happened, At, SuccessPcs, FailurePcs
  <2>6. RecordInv'
    BY <1>1, <1>2, <2>2, <2>3, SMT DEF RecordInv, Active, Happened
  <2> QED
    BY <1>3, <2>5, <2>6 DEF OutcomeInv
<1>5. CASE ~Opens(r)
  <2>1. calls'[r].pc \notin RunPcs
    BY <1>5, OrdinaryMoves DEF Ordinary, Active
  <2>2. UNCHANGED dedup
    <3>1. ~At(r, "dedupComplete") /\ ~At(r, "mark") /\ ~At(r, "fail")
      BY SMT DEF Active, RunPcs, At
    <3> QED
      BY <1>5, <3>1, StateMoves
  <2>3. StageInv(r)'
    BY <2>1, StagePcs, SMT DEF StageInv, Active, At
  <2>4. RecordInv'
    BY <1>1, <1>2, <2>1, <2>2, SMT DEF OutcomeInv, RecordInv, Active, Happened
  <2> QED
    BY <1>3, <2>3, <2>4 DEF OutcomeInv
<1> QED
  BY <1>4, <1>5

\* The delivery that holds the key: what its invocation does stays its doing,
\* and a failure is recorded only when nothing happened.
LEMMA HoldingStep ==
  ASSUME TypeInv, OutcomeInv, FailureIsKnown, HandlerErrorsAssumption,
         NEW r \in Deliveries, Deliver(r), Active(r)
  PROVE  OutcomeInv'
<1> CallsOK
  BY DEF TypeInv, TypeOK, CallsOK
<1> USE StagePcs
<1>1. \A s \in Deliveries : s # r => ~Active(s) /\ ~Active(s)'
  BY OthersKeep, SMT DEF OutcomeInv, RecordInv, Active
<1>2. \A s \in Deliveries : s # r => StageInv(s)'
  BY <1>1, SMT DEF StageInv, Active, At
<1>3. StageInv(r) /\ RecordInv /\ dedup.state \notin {"ABSENT", "FAILED"}
  BY SMT DEF OutcomeInv, RecordInv
<1>4. ~Opens(r)
  BY SMT DEF Active, RunPcs, Opens, At
<1>5. Ordinary(r)
  BY OrdinaryMoves
<1>6. dedup'.state \in {"ABSENT", "FAILED"} =>
        /\ At(r, "fail") /\ ~Active(r)' /\ Happened' = {}
  <2>1. CASE UNCHANGED dedup
    BY <1>3, <2>1
  <2>2. CASE At(r, "fail")
    <3>1. Happened = {}
      BY <1>3, <2>2 DEF StageInv, FailureIsKnown, Happened
    <3>2. calls'[r].pc = "done" /\ Happened' = {}
      BY <2>2, <3>1, FailEnds DEF Happened
    <3> QED
      BY <2>2, <3>2, SMT DEF Active, RunPcs
  <2> QED
    BY <1>4, <2>1, <2>2, StateMoves, SMT
<1>7. CASE HandlerActs(r)
  <2>1. /\ At(r, "handler") /\ Invocation(r) \notin effects
        /\ effects' = effects \cup {Invocation(r)} /\ UNCHANGED <<dedup, calls, orphans>>
    BY <1>7, Zenon DEF HandlerActs
  <2>2. effects = {} /\ orphans = {}
    BY <1>3, <2>1, SMT DEF StageInv, Happened
  <2>3. StageInv(r)'
    BY <2>1, <2>2, SMT
    DEF StageInv, At, Invocation, Happened, Active, QuietPcs, FailurePcs, SuccessPcs
  <2>4. RecordInv'
    BY <1>1, <1>3, <2>1, <2>2, SMT DEF RecordInv, Happened
  <2> QED
    BY <1>2, <2>3, <2>4, Zenon DEF OutcomeInv
<1>8. CASE GivesUpWaiting(r)
  <2>1. /\ calls'[r].pc = "attemptFail" /\ calls'[r].err = "unknown"
        /\ calls'[r].lease = calls[r].lease
    BY <1>8, Updates, ErrorUpdates, Zenon DEF GivesUpWaiting, MovedTo, SameClaim
  <2>2. UNCHANGED <<dedup, effects>>
    BY <1>8 DEF GivesUpWaiting
  <2>3. Invocation(r)' = Invocation(r)
    BY <2>1 DEF Invocation
  <2>4. \/ orphans' = orphans
        \/ /\ Invocation(r) \notin effects /\ orphans = {} /\ effects = {}
           /\ orphans' = {Invocation(r)}
    BY <1>3, <1>8, SMT DEF GivesUpWaiting, StageInv, Happened
  <2>5. StageInv(r)'
    BY <1>3, <2>1, <2>2, <2>3, <2>4, SMT
    DEF StageInv, At, Happened, Active, QuietPcs, FailurePcs, SuccessPcs
  <2>6. RecordInv'
    BY <1>1, <1>3, <2>2, <2>4, SMT DEF RecordInv, Happened
  <2> QED
    BY <1>2, <2>5, <2>6, Zenon DEF OutcomeInv
<1>9. CASE HandlerThrows(r)
  <2>1. /\ calls'[r].pc = "attemptFail" /\ UNCHANGED <<dedup, effects, orphans>>
    BY <1>9, Updates, Zenon DEF HandlerThrows, MovedTo
  <2>2. Happened = {}
    BY <1>3, <1>9, SMT DEF HandlerThrows, StageInv, Happened
  <2>3. Happened' = {}
    BY <2>1, <2>2 DEF Happened
  <2>4. StageInv(r)'
    BY <2>1, <2>3, SMT DEF StageInv, At, QuietPcs, FailurePcs, SuccessPcs, Happened
  <2>5. RecordInv'
    BY <1>1, <1>3, <2>1, <2>3, SMT DEF RecordInv, Happened
  <2> QED
    BY <1>2, <2>4, <2>5, Zenon DEF OutcomeInv
<1>10. CASE UNCHANGED <<effects, orphans>> /\ calls'[r].pc # "attemptFail"
  <2>1. Happened' = Happened
    BY <1>10 DEF Happened
  <2>2. RecordInv'
    BY <1>1, <1>3, <1>6, <1>10, <2>1, SMT DEF RecordInv, Active
  <2>3. Active(r)' => Happened' \subseteq {Invocation(r)'}
    <3>1. CASE calls'[r].lease = calls[r].lease
      BY <1>3, <2>1, <3>1 DEF StageInv, Invocation
    <3>2. CASE At(r, "claim")
      BY <1>3, <2>1, <3>2, SMT DEF StageInv, At, QuietPcs
    <3>3. CASE calls'[r].pc = "done"
      BY <3>3, SMT DEF Active, RunPcs
    <3> QED
      BY <1>5, <3>1, <3>2, <3>3 DEF Ordinary
  <2>4. calls'[r].pc \in QuietPcs => Happened' = {}
    BY <1>3, <1>4, <1>5, <2>1, SMT DEF Ordinary, StageInv, At
  <2>5. At(r, "handler")' => orphans' = {}
    BY <1>3, <1>5, <1>10, SMT DEF Ordinary, StageInv, At, QuietPcs, Happened
  <2>6. /\ calls'[r].pc \in FailurePcs /\ calls'[r].err # "unknown" => Happened' = {}
        /\ At(r, "retry")' => calls'[r].err = "retryable"
    BY <1>3, <1>5, <1>10, <2>1, SMT DEF Ordinary, StageInv, At, FailurePcs
  <2>7. calls'[r].pc \in SuccessPcs => orphans' = {} /\ effects' # {}
    BY <1>3, <1>5, <1>10, SMT DEF Ordinary, StageInv, At
  <2>8. StageInv(r)'
    BY <2>3, <2>4, <2>5, <2>6, <2>7, Zenon DEF StageInv
  <2> QED
    BY <1>2, <2>2, <2>8, Zenon DEF OutcomeInv
<1> QED
  BY HandlerMoves, <1>7, <1>8, <1>9, <1>10, Zenon

-----------------------------------------------------------------------------
(* Time, crashes, recovery and the operator                                 *)

\* A late effect was possible before it happened; crashes and ends only rule
\* effects out.
LEMMA EnvironmentEffects ==
  ASSUME Environment
  PROVE  /\ effects \subseteq effects' /\ orphans' \subseteq orphans
         /\ Happened' \subseteq Happened
         /\ \/ effects' = effects
            \/ \E o \in orphans : effects' = effects \cup {o} /\ orphans' = orphans \ {o}
<1> USE DEF Happened
<1>1. CASE OrphanActs
  BY <1>1, Zenon DEF OrphanActs
<1>2. CASE OrphanEnds \/ \E w \in Workers : Crash(w)
  BY <1>2, Zenon DEF OrphanEnds, Crash
<1>3. CASE UNCHANGED <<effects, orphans>>
  BY <1>3, Zenon
<1> QED
  BY <1>1, <1>2, <1>3, Zenon DEF Environment, LeaseExpires, RetryDue, RecoverExpiredLeases,
  Reconcile

LEMMA EnvironmentState ==
  ASSUME TypeInv, Environment
  PROVE  \/ UNCHANGED dedup
         \/ /\ dedup.state = "IN_PROGRESS" /\ dedup'.state = "OUTCOME_UNKNOWN"
            /\ UNCHANGED effects
         \/ /\ dedup.state = "OUTCOME_UNKNOWN" /\ UNCHANGED <<calls, effects, orphans>>
            /\ \/ effects # {} /\ dedup'.state = "COMPLETED"
               \/ effects = {} /\ NothingRuns /\ dedup'.state = "FAILED"
<1>1. dedup \in DedupRow
  BY DEF TypeInv, TypeOK
<1>2. CASE RecoverExpiredLeases
  <2>1. \/ dedup' = dedup
        \/ dedup.state = "IN_PROGRESS" /\ dedup' = [dedup EXCEPT !.state = "OUTCOME_UNKNOWN"]
    BY <1>2, Zenon DEF RecoverExpiredLeases
  <2>2. UNCHANGED effects
    BY <1>2, Zenon DEF RecoverExpiredLeases
  <2> QED
    BY <1>1, <2>1, <2>2, SMT DEF DedupRow
<1>3. CASE Reconcile
  <2>1. \A st : SetState(st) => dedup'.state = st
    BY <1>1, SMT DEF SetState, DedupRow
  <2> QED
    BY <1>3, <2>1, Zenon DEF Reconcile
<1> QED
  BY <1>2, <1>3, Zenon DEF Environment, LeaseExpires, RetryDue, Crash, OrphanActs, OrphanEnds

LEMMA OutcomeEnvironment ==
  ASSUME TypeInv, OutcomeInv, Environment
  PROVE  OutcomeInv'
<1>1. \A r \in Deliveries : calls'[r] = calls[r] \/ calls'[r].pc = "crashed"
  <2> SUFFICES ASSUME NEW r \in Deliveries, calls'[r] # calls[r]
               PROVE  calls'[r].pc = "crashed"
    OBVIOUS
  <2>1. calls'[r] = [calls[r] EXCEPT !.pc = "crashed"] /\ calls[r] \in Call
    BY EnvironmentCalls, Zenon DEF TypeInv, TypeOK
  <2> QED
    BY <2>1, SMT DEF Call
<1>2. \A r \in Deliveries : Active(r)' => Active(r) /\ calls'[r] = calls[r]
  BY <1>1, SMT DEF Active, RunPcs
<1>3. /\ effects \subseteq effects' /\ orphans' \subseteq orphans
      /\ Happened' \subseteq Happened
  BY EnvironmentEffects
<1>4. \A r \in Deliveries : StageInv(r)'
  <2> SUFFICES ASSUME NEW r \in Deliveries
               PROVE  StageInv(r)'
    OBVIOUS
  <2>1. StageInv(r)
    BY DEF OutcomeInv
  <2>2. CASE calls'[r] = calls[r]
    BY <1>3, <2>1, <2>2, SMT DEF StageInv, Active, At, Invocation
  <2>3. CASE calls'[r].pc = "crashed"
    BY <2>3, SMT DEF StageInv, Active, At, RunPcs, QuietPcs, FailurePcs, SuccessPcs
  <2> QED
    BY <1>1, <2>2, <2>3
<1>5. effects' \cap orphans' = {}
  <2>1. effects \cap orphans = {} /\ \A a, b \in Happened : a = b
    BY DEF OutcomeInv, RecordInv
  <2>2. CASE effects' = effects
    BY <1>3, <2>1, <2>2
  <2>3. CASE \E o \in orphans : effects' = effects \cup {o} /\ orphans' = orphans \ {o}
    BY <2>1, <2>3
  <2> QED
    BY <2>2, <2>3, EnvironmentEffects, Zenon
<1>6. dedup'.state \in {"ABSENT", "FAILED"} =>
        Happened' = {} /\ \A r \in Deliveries : ~Active(r)'
  <2>1. CASE UNCHANGED dedup
    BY <1>2, <1>3, <2>1, SMT DEF OutcomeInv, RecordInv
  <2>2. CASE effects = {} /\ NothingRuns /\ UNCHANGED <<calls, effects, orphans>>
    BY <2>2, SMT DEF NothingRuns, Happened, Active
  <2> QED
    BY <2>1, <2>2, EnvironmentState, SMT
<1>7. RecordInv'
  BY <1>2, <1>3, <1>5, <1>6, SMT DEF OutcomeInv, RecordInv
<1> QED
  BY <1>4, <1>7 DEF OutcomeInv

-----------------------------------------------------------------------------
(* Each step is one of SemanticOutcome's, or none                           *)

LEMMA CountIs ==
  ASSUME NEW S, \A a, b \in S : a = b
  PROVE  Cardinality(S) = IF S = {} THEN 0 ELSE 1
<1>1. CASE S = {}
  BY <1>1, FS_EmptySet
<1>2. CASE S # {}
  <2>1. PICK x \in S : TRUE
    BY <1>2
  <2>2. S = {x}
    BY <2>1
  <2> QED
    BY <1>2, <2>2, FS_Singleton
<1> QED
  BY <1>1, <1>2

\* The count is 0 or 1, and tells whether the effect happened.
LEMMA CountTells ==
  ASSUME OutcomeInv
  PROVE  Cardinality(effects) = IF effects = {} THEN 0 ELSE 1
BY CountIs DEF OutcomeInv, RecordInv, Happened

\* Where the abstract record stands when the effect becomes possible.
LEMMA ActAllowed ==
  ASSUME TypeInv, OutcomeInv, AnsweredOnlyAfterEffect, effects = {},
         Happened # {} \/ \E r \in Deliveries : Active(r)
  PROVE  dedup.state \in {"IN_PROGRESS", "OUTCOME_UNKNOWN"}
<1>1. dedup.state \in DedupStates
  BY SMT DEF TypeInv, TypeOK, DedupRow
<1>2. dedup.state \notin {"ABSENT", "FAILED"}
  BY SMT DEF OutcomeInv, RecordInv
<1>3. dedup.state # "COMPLETED"
  BY DEF AnsweredOnlyAfterEffect
<1> QED
  BY <1>1, <1>2, <1>3, SMT DEF DedupStates

LEMMA DeliverImplements ==
  ASSUME TypeInv, OutcomeInv, AnsweredOnlyAfterEffect, ReopenOnlyFailed, FailureIsKnown,
         HandlerErrorsAssumption, NEW r \in Deliveries, Deliver(r)
  PROVE  [Outcome!Next]_Outcome!vars
<1> CallsOK
  BY DEF TypeInv, TypeOK, CallsOK
<1> USE DEF Outcome!vars, Outcome!Next
<1>1. CASE HandlerActs(r)
  <2>1. /\ At(r, "handler") /\ Invocation(r) \notin effects
        /\ effects' = effects \cup {Invocation(r)} /\ UNCHANGED dedup
    BY <1>1, Zenon DEF HandlerActs
  <2>2. Active(r)
    BY <2>1, StagePcs, SMT DEF At, Active
  <2>3. effects = {} /\ effects' = {Invocation(r)}
    BY <2>1, <2>2, SMT DEF OutcomeInv, StageInv, Happened
  <2>4. dedup.state \in {"IN_PROGRESS", "OUTCOME_UNKNOWN"}
    BY <2>2, <2>3, ActAllowed
  <2>5. Cardinality(effects) = 0 /\ Cardinality(effects') = 1
    BY <2>3, FS_EmptySet, FS_Singleton
  <2> QED
    BY <2>1, <2>4, <2>5 DEF Outcome!Act
<1>2. CASE ~HandlerActs(r)
  <2>1. effects' = effects
    BY <1>2, HandlerMoves, Zenon DEF GivesUpWaiting, HandlerThrows
  <2>2. Cardinality(effects') = Cardinality(effects)
    BY <2>1
  <2>3. CASE UNCHANGED dedup
    BY <2>2, <2>3
  <2>4. CASE Opens(r) /\ dedup'.state = "IN_PROGRESS"
    <3>1. dedup.state \in {"ABSENT", "FAILED"}
      BY <2>4, SMT DEF Opens, ReopenOnlyFailed
    <3> QED
      BY <2>2, <2>4, <3>1 DEF Outcome!Open
  <2>5. CASE At(r, "dedupComplete") /\ OwnsRecord(r) /\ dedup'.state = "COMPLETED"
    <3>1. effects # {}
      BY <2>5, SMT DEF OutcomeInv, StageInv, SuccessPcs, At
    <3>2. Cardinality(effects) = 1
      BY <3>1, CountTells
    <3> QED
      BY <2>2, <2>5, <3>2 DEF Outcome!Settle, OwnsRecord
  <2>6. CASE At(r, "mark") /\ OwnsRecord(r) /\ dedup'.state = "OUTCOME_UNKNOWN"
    BY <2>2, <2>6 DEF Outcome!LoseTrack, OwnsRecord
  <2>7. CASE At(r, "fail") /\ OwnsRecord(r) /\ dedup'.state = "FAILED"
    <3>1. Active(r)
      BY <2>7, SMT DEF At, Active, RunPcs
    <3>2. effects = {}
      BY <2>7, <3>1, SMT DEF OutcomeInv, StageInv, FailureIsKnown, Happened
    <3>3. Cardinality(effects) = 0
      BY <3>2, FS_EmptySet
    <3> QED
      BY <2>2, <2>7, <3>3 DEF Outcome!Settle, OwnsRecord
  <2> QED
    BY StateMoves, <2>3, <2>4, <2>5, <2>6, <2>7, Zenon
<1> QED
  BY <1>1, <1>2

LEMMA EnvironmentImplements ==
  ASSUME TypeInv, OutcomeInv, AnsweredOnlyAfterEffect, Environment
  PROVE  [Outcome!Next]_Outcome!vars
<1> USE DEF Outcome!vars, Outcome!Next
<1>1. CASE UNCHANGED dedup /\ effects' = effects
  BY <1>1
<1>2. CASE UNCHANGED dedup
           /\ \E o \in orphans : effects' = effects \cup {o} /\ orphans' = orphans \ {o}
  <2>1. PICK o \in orphans : effects' = effects \cup {o}
    BY <1>2
  <2>2. o \in Happened /\ effects = {}
    BY <2>1, SMT DEF OutcomeInv, RecordInv, Happened
  <2>3. dedup.state \in {"IN_PROGRESS", "OUTCOME_UNKNOWN"}
    BY <2>2, ActAllowed
  <2>4. effects' = {o}
    BY <2>1, <2>2
  <2>5. Cardinality(effects) = 0 /\ Cardinality(effects') = 1
    BY <2>2, <2>4, FS_EmptySet, FS_Singleton
  <2> QED
    BY <1>2, <2>3, <2>5 DEF Outcome!Act
<1>3. CASE /\ dedup.state = "IN_PROGRESS" /\ dedup'.state = "OUTCOME_UNKNOWN"
           /\ UNCHANGED effects
  BY <1>3 DEF Outcome!LoseTrack
<1>4. CASE /\ dedup.state = "OUTCOME_UNKNOWN" /\ UNCHANGED effects
           /\ \/ effects # {} /\ dedup'.state = "COMPLETED"
              \/ effects = {} /\ dedup'.state = "FAILED"
  BY <1>4, CountTells DEF Outcome!Settle
<1> QED
  BY EnvironmentEffects, EnvironmentState, <1>1, <1>2, <1>3, <1>4, Zenon

LEMMA StepImplements ==
  ASSUME TypeInv, OutcomeInv, AnsweredOnlyAfterEffect, ReopenOnlyFailed, FailureIsKnown,
         [Next]_vars
  PROVE  OutcomeInv' /\ [Outcome!Next]_Outcome!vars
<1>1. CASE \E r \in Deliveries : Deliver(r)
  BY <1>1, OpeningStep, HoldingStep, DeliverImplements, HandlerErrorsAssumption
<1>2. CASE Environment
  BY <1>2, OutcomeEnvironment, EnvironmentImplements
<1>3. CASE UNCHANGED vars
  <2>1. OutcomeInv'
    BY <1>3, SMT DEF vars, OutcomeInv, RecordInv, StageInv, Active, Happened, At, Invocation
  <2>2. UNCHANGED Outcome!vars
    BY <1>3 DEF vars, Outcome!vars
  <2> QED
    BY <2>1, <2>2
<1> QED
  BY <1>1, <1>2, <1>3, Zenon DEF Next, Environment

LEMMA InitImplements == Init => Outcome!Init
BY FS_EmptySet DEF Init, Outcome!Init

\* The runtime keeps its promise in every behaviour that stays clear of the two
\* gaps, whatever else fails: the effect happens at most once, only under an
\* open or unknown record, and the recorded outcome tells whether it happened.
THEOREM ImplementsOutcome ==
  Spec /\ []ReopenOnlyFailed /\ []FailureIsKnown => DeliversAtMostOnce
<1>1. Init => OutcomeInv /\ Outcome!Init
  BY OutcomeInit, InitImplements
<1>2. TypeInv /\ OutcomeInv /\ AnsweredOnlyAfterEffect /\ ReopenOnlyFailed
        /\ FailureIsKnown /\ [Next]_vars
      => OutcomeInv' /\ [Outcome!Next]_Outcome!vars
  BY StepImplements
<1> QED
  BY <1>1, <1>2, RunInvariant, AnswersAreTrue, PTL DEF Spec, DeliversAtMostOnce, Outcome!Spec

-----------------------------------------------------------------------------
(* Deliveries in pairs over sound connections                               *)

\* A message is delivered at most twice: no third delivery shares the
\* fingerprint of two others.
InPairs ==
  \A r, s, t \in Deliveries :
    r # s /\ s # t /\ r # t => ~(Fingerprint[r] = Fingerprint[s] /\ Fingerprint[s] = Fingerprint[t])

\* The record's delivery is past begin, so of a pair only the other one can
\* be there; and while no connection fails, only what comes before the handler
\* or a failed handler is reported as a failure.
PairInv ==
  /\ dedup.state # "ABSENT" =>
       calls[dedup.job].pc \notin BeginPcs /\ Fingerprint[dedup.job] = dedup.print
  /\ \A r \in Deliveries : At(r, "reopen") =>
       dedup.state = "FAILED" /\ dedup.print = Fingerprint[r]
  /\ \A r \in Deliveries : At(r, "fail") => Happened = {}

LEMMA PairInit == Init => PairInv
BY SMT DEF Init, PairInv, At, NoCall

\* The two gaps are closed.
LEMMA PairCloses ==
  ASSUME PairInv
  PROVE  ReopenOnlyFailed /\ FailureIsKnown
BY SMT DEF PairInv, ReopenOnlyFailed, FailureIsKnown, Happened

LEMMA BeginMoves ==
  ASSUME CallsOK, HandlerErrorsAssumption, NEW r \in Deliveries, Deliver(r)
  PROVE  /\ calls'[r].pc \in BeginPcs => calls[r].pc \in {"idle", "read"} /\ UNCHANGED dedup
         /\ calls'[r].pc = "reopen" => dedup.state = "FAILED" /\ dedup.print = Fingerprint[r]
<1> USE DEF At, MovedTo, BeginPcs
<1>1. CASE \E p \in Pcs :
             /\ Goto(r, p) /\ Edge(calls[r].pc, p)
             /\ p = "read" => dedup.state # "ABSENT" /\ UNCHANGED dedup
             /\ p = "reopen" => dedup.state = "FAILED" /\ dedup.print = Fingerprint[r]
  <2>1. PICK p \in Pcs :
          /\ MovedTo(r, p) /\ Edge(calls[r].pc, p)
          /\ p = "read" => dedup.state # "ABSENT" /\ UNCHANGED dedup
          /\ p = "reopen" => dedup.state = "FAILED" /\ dedup.print = Fingerprint[r]
    BY <1>1, Updates, Zenon
  <2>2. calls[r].pc = "read" => UNCHANGED dedup
    BY DedupChange, SMT
  <2> QED
    BY <2>1, <2>2, SMT DEF Edge
<1>2. CASE \E e \in Errors : Throw(r, e)
  <2>1. PICK p \in {"mark", "fail"} : MovedTo(r, p)
    BY <1>2, Updates, Zenon
  <2> QED
    BY <2>1, SMT
<1>3. CASE \/ \E o \in Outcomes : Return(r, o)
           \/ \E n : Own(r, n)
           \/ UseJob(r, dedup.job)
           \/ Plan(r, dedup.job, jobs[dedup.job].count)
           \/ Hold(r, MyJob(r).fence + 1)
           \/ \E e \in Errors : GiveUp(r, e)
           \/ NextRound(r)
  <2>1. calls'[r].pc \in {"done", "lookup", "enqueue", "claim", "attempt", "attemptFail"}
    BY <1>3, Updates, Zenon
  <2> QED
    BY <2>1, SMT
<1>4. CASE At(r, "handler") /\ UNCHANGED calls
  BY <1>4, SMT
<1> HIDE DEF At, MovedTo, BeginPcs
<1> QED
  BY LocalsChange, <1>1, <1>2, <1>3, <1>4, Zenon

\* Without failing connections an error that is no unknown outcome comes from
\* before the handler or from a handler that threw.
LEMMA FailMoves ==
  ASSUME CallsOK, HandlerErrorsAssumption, ~Fault, NEW r \in Deliveries, Deliver(r),
         calls'[r].pc = "fail"
  PROVE  /\ UNCHANGED <<effects, orphans>>
         /\ \/ calls[r].pc \in QuietPcs
            \/ At(r, "terminal") /\ calls[r].err # "unknown"
<1>1. Throw(r, "unknown") => calls'[r].pc = "mark"
  BY SMT DEF Throw, CallsOK, Call
<1>2. ~ \E e : GiveUp(r, e)
  BY Updates, Zenon DEF MovedTo
<1>3. UNCHANGED <<effects, orphans>>
  <2>1. ~HandlerActs(r)
    BY SMT DEF HandlerActs, At
  <2> QED
    BY <1>2, <2>1, HandlerMoves, Zenon DEF GivesUpWaiting, HandlerThrows
<1>4. CASE LookupJob(r) \/ EnqueueJob(r) \/ FindJob(r) \/ Claim(r) \/ StartAttempt(r)
           \/ StartHandler(r)
  <2>1. PICK p \in QuietPcs : At(r, p)
    BY <1>4, Zenon DEF LookupJob, EnqueueJob, FindJob, Claim, StartAttempt, StartHandler,
      QuietPcs
  <2> QED
    BY <1>3, <2>1 DEF At
<1>5. CASE TerminateJob(r)
  <2>1. At(r, "terminal") /\ (Throw(r, calls[r].err) \/ Throw(r, "unknown"))
    BY <1>5, Zenon DEF TerminateJob
  <2> QED
    BY <1>1, <1>3, <2>1, SMT
<1>6. CASE PostOperationUnknown(r) \/ AttemptFailed(r) \/ ScheduleRetry(r) \/ CompleteRecord(r)
  <2>1. \/ Throw(r, "unknown") \/ NextRound(r) \/ Return(r, "processed")
        \/ \E p \in {"retry", "terminal"} : Goto(r, p)
    BY <1>6, Zenon DEF PostOperationUnknown, AttemptFailed, ScheduleRetry, CompleteRecord,
      NextRound
  <2>2. calls'[r].pc \in {"mark", "claim", "done", "retry", "terminal"}
    BY <1>1, <2>1, Updates, Zenon DEF MovedTo
  <2> QED
    BY <2>2, SMT
<1>7. CASE Begin(r) \/ BeginRead(r) \/ BeginReopen(r) \/ Poll(r) \/ MarkOutcomeUnknown(r)
           \/ FailRecord(r)
  <2>1. \/ \E p \in {"read", "reopen", "poll"} : Goto(r, p)
        \/ \E n : Own(r, n)
        \/ \E o : Return(r, o)
    BY <1>7, SMT DEF Begin, BeginRead, BeginReopen, Poll, MarkOutcomeUnknown, FailRecord, Own
  <2>2. calls'[r].pc \in {"read", "reopen", "poll", "lookup", "done"}
    BY <2>1, Updates, Zenon DEF MovedTo
  <2> QED
    BY <2>2, SMT
<1>8. CASE AttemptSucceeded(r) \/ CompleteJob(r) \/ ReadBackJob(r) \/ HandlerReturns(r)
  <2>1. \E p \in {"complete", "postUnknown", "readBack", "dedupComplete", "attemptOk"} :
          Goto(r, p)
    BY <1>8, Zenon DEF AttemptSucceeded, CompleteJob, ReadBackJob, HandlerReturns
  <2>2. calls'[r].pc \in {"complete", "postUnknown", "readBack", "dedupComplete", "attemptOk"}
    BY <2>1, Updates, Zenon DEF MovedTo
  <2> QED
    BY <2>2, SMT
<1>9. CASE HandlerActs(r)
  BY <1>9, SMT DEF HandlerActs, At
<1>10. CASE HandlerFails(r) \/ HandlerTimesOut(r) \/ LoseLease(r)
  BY <1>2, <1>10, Zenon DEF HandlerFails, HandlerTimesOut, LoseLease, Abandon, GiveUp
<1> QED
  BY <1>4, <1>5, <1>6, <1>7, <1>8, <1>9, <1>10, Zenon DEF Deliver

LEMMA PairStep ==
  ASSUME TypeInv, OutcomeInv, PairInv, InPairs, ~Fault, HandlerErrorsAssumption,
         NEW r \in Deliveries, Deliver(r)
  PROVE  PairInv'
<1> CallsOK /\ dedup \in DedupRow
  BY DEF TypeInv, TypeOK, CallsOK
<1>1. \A s \in Deliveries : s # r => calls'[s] = calls[s]
  BY OthersKeep
<1>2. dedup.state # "ABSENT" => dedup.job \in Deliveries
  BY DEF TypeInv, RowsPresent
<1>3. ASSUME dedup'.state # "ABSENT"
      PROVE  calls'[dedup'.job].pc \notin BeginPcs /\ Fingerprint[dedup'.job] = dedup'.print
  <2>1. CASE At(r, "idle") /\ dedup.state = "ABSENT" /\ InsertRecord(r)
    <3>1. dedup' = [state |-> "IN_PROGRESS", job |-> r, fence |-> 1, print |-> Fingerprint[r]]
      BY <2>1 DEF InsertRecord
    <3>2. dedup'.job = r /\ dedup'.print = Fingerprint[r] /\ dedup' # dedup
      BY <2>1, <3>1, SMT
    <3> QED
      BY <3>2, BeginMoves
  <2>2. CASE At(r, "reopen") /\ ReopenRecord(r)
    <3>1. dedup'.job = r /\ dedup'.print = dedup.print
      BY <2>2, SMT DEF ReopenRecord, DedupRow
    <3>2. calls'[r].pc \notin BeginPcs
      BY <2>2, BeginMoves, SMT DEF At
    <3> QED
      BY <2>2, <3>1, <3>2 DEF PairInv
  <2>3. CASE \/ UNCHANGED dedup
             \/ dedup.state = "IN_PROGRESS" /\ \E st \in DedupStates : SetState(st)
    <3>1. dedup.state # "ABSENT" /\ dedup'.job = dedup.job /\ dedup'.print = dedup.print
      BY <1>3, <2>3, SMT DEF SetState, DedupRow
    <3>2. calls[dedup.job].pc \notin BeginPcs /\ Fingerprint[dedup.job] = dedup.print
      BY <3>1 DEF PairInv
    <3>3. calls'[dedup.job].pc \notin BeginPcs
      <4>1. CASE dedup.job = r
        BY <3>2, <4>1, BeginMoves, SMT DEF BeginPcs
      <4>2. CASE dedup.job # r
        BY <1>1, <1>2, <3>1, <3>2, <4>2
      <4> QED
        BY <4>1, <4>2
    <3> QED
      BY <3>1, <3>2, <3>3
  <2>4. {"COMPLETED", "OUTCOME_UNKNOWN", "FAILED"} \subseteq DedupStates
    BY DEF DedupStates
  <2> QED
    BY DedupChange, <2>1, <2>2, <2>3, <2>4, Zenon DEF OwnsRecord
<1>4. ASSUME NEW s \in Deliveries, At(s, "reopen")'
      PROVE  dedup'.state = "FAILED" /\ dedup'.print = Fingerprint[s]
  <2>1. CASE s = r
    BY <1>4, <2>1, BeginMoves, SMT DEF At, BeginPcs
  <2>2. CASE s # r
    <3>1. At(s, "reopen") /\ dedup.state = "FAILED" /\ dedup.print = Fingerprint[s]
      BY <1>1, <1>4, <2>2, SMT DEF At, PairInv
    <3>2. ~Opens(r)
      <4>1. SUFFICES ASSUME At(r, "reopen")
                     PROVE  FALSE
        BY <3>1, SMT DEF Opens
      <4>2. /\ dedup.job \in Deliveries /\ calls[dedup.job].pc \notin BeginPcs
            /\ Fingerprint[dedup.job] = dedup.print /\ dedup.print = Fingerprint[r]
        BY <1>2, <3>1, <4>1, SMT DEF PairInv
      <4>3. dedup.job # r /\ dedup.job # s
        BY <3>1, <4>1, <4>2, SMT DEF At, BeginPcs
      <4> QED
        BY <2>2, <3>1, <4>2, <4>3 DEF InPairs
    <3>3. UNCHANGED dedup
      BY <3>1, <3>2, StateMoves, SMT DEF OwnsRecord
    <3> QED
      BY <3>1, <3>3
  <2> QED
    BY <2>1, <2>2
<1>5. ASSUME NEW s \in Deliveries, At(s, "fail")'
      PROVE  Happened' = {}
  <2>1. CASE s = r
    <3>1. /\ UNCHANGED <<effects, orphans>>
          /\ \/ calls[r].pc \in QuietPcs
             \/ At(r, "terminal") /\ calls[r].err # "unknown"
      BY <1>5, <2>1, FailMoves DEF At
    <3>2. Happened = {}
      BY <3>1, SMT DEF OutcomeInv, StageInv, FailurePcs, At
    <3> QED
      BY <3>1, <3>2 DEF Happened
  <2>2. CASE s # r
    <3>1. At(s, "fail") /\ Active(s) /\ Happened = {}
      BY <1>1, <1>5, <2>2, SMT DEF At, Active, RunPcs, PairInv
    <3>2. ~Active(r)
      BY <2>2, <3>1 DEF OutcomeInv, RecordInv
    <3>3. ~At(r, "handler") /\ ~At(r, "dispatch")
      BY <3>2, SMT DEF Active, RunPcs, At
    <3>4. UNCHANGED <<effects, orphans>>
      BY <3>3, HandlerMoves, Zenon DEF HandlerActs, GivesUpWaiting, HandlerThrows
    <3> QED
      BY <3>1, <3>4 DEF Happened
  <2> QED
    BY <2>1, <2>2
<1> QED
  BY <1>3, <1>4, <1>5 DEF PairInv

LEMMA PairEnvironment ==
  ASSUME TypeInv, PairInv, Environment
  PROVE  PairInv'
<1>1. \A r \in Deliveries : calls'[r] = calls[r] \/ calls'[r].pc = "crashed"
  <2> SUFFICES ASSUME NEW r \in Deliveries, calls'[r] # calls[r]
               PROVE  calls'[r].pc = "crashed"
    OBVIOUS
  <2>1. calls'[r] = [calls[r] EXCEPT !.pc = "crashed"] /\ calls[r] \in Call
    BY EnvironmentCalls, Zenon DEF TypeInv, TypeOK
  <2> QED
    BY <2>1, SMT DEF Call
<1>2. /\ dedup'.job = dedup.job /\ dedup'.print = dedup.print
      /\ dedup.state \in {"ABSENT", "FAILED"} => dedup' = dedup
  <2>1. \/ dedup' = dedup
        \/ /\ dedup.state \in {"IN_PROGRESS", "OUTCOME_UNKNOWN"}
           /\ \E st \in DedupStates : dedup' = [dedup EXCEPT !.state = st]
    <3>1. {"COMPLETED", "OUTCOME_UNKNOWN", "FAILED"} \subseteq DedupStates
      BY DEF DedupStates
    <3> QED
      BY <3>1, Zenon DEF Environment, LeaseExpires, RetryDue, Crash, OrphanActs, OrphanEnds,
         RecoverExpiredLeases, Reconcile, SetState
  <2> QED
    BY <2>1, SMT DEF TypeInv, TypeOK, DedupRow
<1>3. dedup'.state # "ABSENT" => dedup.state # "ABSENT" /\ dedup.job \in Deliveries
  BY <1>2 DEF TypeInv, RowsPresent
<1>4. Happened' \subseteq Happened
  BY EnvironmentEffects
<1>5. "crashed" \notin BeginPcs
  BY DEF BeginPcs
<1> QED
  BY <1>1, <1>2, <1>3, <1>4, <1>5, SMT DEF PairInv, At

\* Under sound connections two deliveries of a message keep the promise in
\* every behaviour, with any crashes, expired leases, timeouts and retries, and
\* whatever other messages claim the same key.
THEOREM PairsDeliverAtMostOnce ==
  ASSUME InPairs, MaxFaults = 0
  PROVE  Spec => DeliversAtMostOnce
<1>1. Init => OutcomeInv /\ PairInv /\ Outcome!Init
  BY OutcomeInit, PairInit, InitImplements
<1>2. TypeInv /\ OutcomeInv /\ PairInv /\ AnsweredOnlyAfterEffect /\ [Next]_vars
      => OutcomeInv' /\ PairInv' /\ [Outcome!Next]_Outcome!vars
  <2> SUFFICES ASSUME TypeInv, OutcomeInv, PairInv, AnsweredOnlyAfterEffect, [Next]_vars
               PROVE  OutcomeInv' /\ PairInv' /\ [Outcome!Next]_Outcome!vars
    OBVIOUS
  <2>1. OutcomeInv' /\ [Outcome!Next]_Outcome!vars
    BY PairCloses, StepImplements
  <2>2. ~Fault
    BY SMT DEF TypeInv, TypeOK, Fault
  <2>3. PairInv'
    <3>1. CASE \E r \in Deliveries : Deliver(r)
      BY <2>2, <3>1, PairStep, HandlerErrorsAssumption
    <3>2. CASE Environment
      BY <3>2, PairEnvironment
    <3>3. CASE UNCHANGED vars
      BY <3>3, SMT DEF vars, PairInv, At, Happened
    <3> QED
      BY <3>1, <3>2, <3>3, Zenon DEF Next, Environment
  <2> QED
    BY <2>1, <2>3
<1> QED
  BY <1>1, <1>2, RunInvariant, AnswersAreTrue, PTL DEF Spec, DeliversAtMostOnce, Outcome!Spec

\* A second effect of one message needs one of the two gaps: nothing else in
\* the runtime, no timeout, lost answer, crash or late handler, repeats it.
THEOREM OnlyTheGapsRepeat ==
  Spec /\ []ReopenOnlyFailed /\ []FailureIsKnown => []AtMostOneEffect
<1>1. TypeInv /\ OutcomeInv /\ AnsweredOnlyAfterEffect /\ ReopenOnlyFailed
        /\ FailureIsKnown /\ [Next]_vars
      => OutcomeInv'
  BY StepImplements
<1>2. OutcomeInv => AtMostOneEffect
  BY CountTells, SMT DEF AtMostOneEffect
<1> QED
  BY <1>1, <1>2, OutcomeInit, RunInvariant, AnswersAreTrue, PTL DEF Spec
=============================================================================
