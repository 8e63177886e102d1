---------------------- MODULE ConnectorDeliveryProofs ----------------------
(* Theorems about ConnectorDelivery, for any number of deliveries,          *)
(* processes, attempts, failing connections and crashes.                    *)
EXTENDS ConnectorDelivery, TLAPS

-----------------------------------------------------------------------------
(* Part 1: type correctness                                                 *)

CallsOK == calls \in [Deliveries -> Call]
JobsOK == jobs \in [Deliveries -> JobRow]

\* A delivery under way has a record to work on, and a delivery under way in
\* run() knows its job.
RowsPresent ==
  /\ dedup.state # "ABSENT" => dedup.job \in Deliveries
  /\ \A r \in Deliveries :
       /\ calls[r].pc \notin {"idle", "done", "crashed"} => dedup.state # "ABSENT"
       /\ calls[r].pc \in ClaimedPcs \cup {"enqueue", "findJob", "claim", "dedupComplete"}
            => calls[r].job \in Deliveries

TypeInv == TypeOK /\ RowsPresent

LEMMA TypeInit == ASSUME BoundsAssumption PROVE Init => TypeInv
BY SMT DEF Init, TypeInv, TypeOK, RowsPresent, ClaimedPcs, DedupRow, DedupStates, JobRow,
  JobStates, Call, NoCall, NoJob, Pcs, BeginPcs, RunPcs, Errors, Outcomes, Attempt,
  BoundsAssumption

\* The updates of a call's locals, besides Goto, Throw and Return.
Own(r, n) == calls' = [calls EXCEPT ![r].pc = "lookup", ![r].fence = n]
UseJob(r, j) == calls' = [calls EXCEPT ![r].pc = "enqueue", ![r].job = j]
Plan(r, j, n) == calls' = [calls EXCEPT ![r].pc = "claim", ![r].job = j, ![r].prior = n]
Hold(r, n) == calls' = [calls EXCEPT ![r].pc = "attempt", ![r].lease = n]
GiveUp(r, e) == calls' = [calls EXCEPT ![r].pc = "attemptFail", ![r].err = e]
NextRound(r) ==
  calls' = [calls EXCEPT ![r].pc = "claim", ![r].index = @ + 1, ![r].err = "none"]

\* The program counters and outcomes the actions name.
LEMMA Literals ==
  /\ BeginPcs \subseteq Pcs /\ RunPcs \subseteq Pcs /\ ClaimedPcs \subseteq Pcs
  /\ {"done", "crashed"} \subseteq Pcs
  /\ {"lookup", "enqueue", "findJob", "claim", "attempt", "dispatch", "handler",
      "attemptOk", "complete", "readBack", "postUnknown", "attemptFail", "retry",
      "terminal", "dedupComplete", "mark", "fail", "read", "reopen", "poll"} \subseteq Pcs
  /\ {"processed", "duplicate", "conflict", "retryable", "terminal", "unknown"}
       \subseteq Outcomes
  /\ Errors \subseteq Outcomes
BY DEF BeginPcs, RunPcs, Pcs, ClaimedPcs, Outcomes, Errors

\* Each of them leaves a call a call,
LEMMA UpdatesType ==
  ASSUME CallsOK, NEW r \in Deliveries
  PROVE  /\ \A p \in Pcs : Goto(r, p) => CallsOK'
         /\ \A e \in Errors : Throw(r, e) => CallsOK'
         /\ \A o \in Outcomes : Return(r, o) => CallsOK'
         /\ \A n \in Nat : Own(r, n) => CallsOK'
         /\ \A j \in Deliveries : UseJob(r, j) => CallsOK'
         /\ \A j \in Deliveries, n \in Nat : Plan(r, j, n) => CallsOK'
         /\ \A n \in Nat : Hold(r, n) => CallsOK'
         /\ \A e \in Errors : GiveUp(r, e) => CallsOK'
         /\ NextRound(r) => CallsOK'
<1>0. /\ "done" \in Pcs /\ "lookup" \in Pcs /\ "enqueue" \in Pcs /\ "claim" \in Pcs
      /\ "attempt" \in Pcs /\ "attemptFail" \in Pcs
  BY Literals
<1> USE DEF CallsOK, Call
<1>1. ASSUME NEW p \in Pcs, calls' = [calls EXCEPT ![r].pc = p]
      PROVE  CallsOK'
  BY <1>1, Zenon
<1>2. ASSUME NEW p \in Pcs, NEW e \in Errors,
             calls' = [calls EXCEPT ![r].pc = p, ![r].err = e]
      PROVE  CallsOK'
  BY <1>2, Zenon
<1>3. ASSUME NEW p \in Pcs, NEW o \in Outcomes,
             calls' = [calls EXCEPT ![r].pc = p, ![r].out = o]
      PROVE  CallsOK'
  BY <1>3, Zenon
<1>4. ASSUME NEW p \in Pcs, NEW n \in Nat,
             calls' = [calls EXCEPT ![r].pc = p, ![r].fence = n]
      PROVE  CallsOK'
  BY <1>4, Zenon
<1>5. ASSUME NEW p \in Pcs, NEW j \in Deliveries,
             calls' = [calls EXCEPT ![r].pc = p, ![r].job = j]
      PROVE  CallsOK'
  BY <1>5, Zenon
<1>6. ASSUME NEW p \in Pcs, NEW j \in Deliveries, NEW n \in Nat,
             calls' = [calls EXCEPT ![r].pc = p, ![r].job = j, ![r].prior = n]
      PROVE  CallsOK'
  BY <1>6, Zenon
<1>7. ASSUME NEW p \in Pcs, NEW n \in Nat,
             calls' = [calls EXCEPT ![r].pc = p, ![r].lease = n]
      PROVE  CallsOK'
  BY <1>7, Zenon
<1>8. ASSUME NEW p \in Pcs, NEW e \in Errors,
             calls' = [calls EXCEPT ![r].pc = p, ![r].index = @ + 1, ![r].err = e]
      PROVE  CallsOK'
  <2>1. calls[r].index + 1 \in Nat
    BY SMT
  <2> QED
    BY <1>8, <2>1, Zenon
<1> HIDE DEF CallsOK, Call
<1>9. \A e \in Errors : (IF e = "unknown" THEN "mark" ELSE "fail") \in Pcs
  BY Literals
<1>10. "none" \in Errors
  BY DEF Errors
<1> QED
  BY <1>0, <1>1, <1>2, <1>3, <1>4, <1>5, <1>6, <1>7, <1>8, <1>9, <1>10, Zenon
  DEF Goto, Throw, Return, Own, UseJob, Plan, Hold, GiveUp, NextRound

\* ... and changes the fields it names.
SameClaim(r) ==
  /\ calls'[r].job = calls[r].job /\ calls'[r].lease = calls[r].lease
  /\ calls'[r].prior = calls[r].prior /\ calls'[r].index = calls[r].index
MovedTo(r, p) == calls'[r].pc = p /\ SameClaim(r) /\ calls'[r].out = calls[r].out

LEMMA Updates ==
  ASSUME CallsOK, NEW r \in Deliveries
  PROVE  /\ \A p : Goto(r, p) => MovedTo(r, p)
         /\ \A e : Throw(r, e) => \E p \in {"mark", "fail"} : MovedTo(r, p)
         /\ \A o : Return(r, o) => calls'[r].pc = "done" /\ calls'[r].out = o
         /\ \A n : Own(r, n) => MovedTo(r, "lookup")
         /\ \A j : UseJob(r, j) =>
              /\ calls'[r].pc = "enqueue" /\ calls'[r].job = j
              /\ calls'[r].index = calls[r].index /\ calls'[r].out = calls[r].out
         /\ \A j, n : Plan(r, j, n) =>
              /\ calls'[r].pc = "claim" /\ calls'[r].job = j /\ calls'[r].prior = n
              /\ calls'[r].index = calls[r].index /\ calls'[r].out = calls[r].out
         /\ \A n : Hold(r, n) =>
              /\ calls'[r].pc = "attempt" /\ calls'[r].lease = n
              /\ calls'[r].job = calls[r].job /\ calls'[r].prior = calls[r].prior
              /\ calls'[r].index = calls[r].index /\ calls'[r].out = calls[r].out
         /\ \A e : GiveUp(r, e) => MovedTo(r, "attemptFail")
         /\ NextRound(r) =>
              /\ calls'[r].pc = "claim" /\ calls'[r].index = calls[r].index + 1
              /\ calls'[r].job = calls[r].job /\ calls'[r].prior = calls[r].prior
              /\ calls'[r].out = calls[r].out
<1> USE DEF CallsOK, Call, MovedTo, SameClaim
<1>1. \A p : Goto(r, p) => MovedTo(r, p)
  BY SMT DEF Goto
<1>2. \A e : Throw(r, e) => \E p \in {"mark", "fail"} : MovedTo(r, p)
  BY SMT DEF Throw
<1>3. \A o : Return(r, o) => calls'[r].pc = "done" /\ calls'[r].out = o
  BY SMT DEF Return
<1>4. \A n : Own(r, n) => MovedTo(r, "lookup")
  BY SMT DEF Own
<1>5. \A j : UseJob(r, j) =>
        /\ calls'[r].pc = "enqueue" /\ calls'[r].job = j
        /\ calls'[r].index = calls[r].index /\ calls'[r].out = calls[r].out
  BY SMT DEF UseJob
<1>6. \A j, n : Plan(r, j, n) =>
        /\ calls'[r].pc = "claim" /\ calls'[r].job = j /\ calls'[r].prior = n
        /\ calls'[r].index = calls[r].index /\ calls'[r].out = calls[r].out
  BY SMT DEF Plan
<1>7. \A n : Hold(r, n) =>
        /\ calls'[r].pc = "attempt" /\ calls'[r].lease = n
        /\ calls'[r].job = calls[r].job /\ calls'[r].prior = calls[r].prior
        /\ calls'[r].index = calls[r].index /\ calls'[r].out = calls[r].out
  BY SMT DEF Hold
<1>8. \A e : GiveUp(r, e) => MovedTo(r, "attemptFail")
  BY SMT DEF GiveUp
<1>9. NextRound(r) =>
        /\ calls'[r].pc = "claim" /\ calls'[r].index = calls[r].index + 1
        /\ calls'[r].job = calls[r].job /\ calls'[r].prior = calls[r].prior
        /\ calls'[r].out = calls[r].out
  BY SMT DEF NextRound
<1> QED
  BY <1>1, <1>2, <1>3, <1>4, <1>5, <1>6, <1>7, <1>8, <1>9, Zenon

\* They change no other call.
LEMMA UpdatesKeep ==
  ASSUME CallsOK, NEW r \in Deliveries, NEW s \in Deliveries, s # r
  PROVE  /\ \A p : Goto(r, p) => calls'[s] = calls[s]
         /\ \A e : Throw(r, e) => calls'[s] = calls[s]
         /\ \A o : Return(r, o) => calls'[s] = calls[s]
         /\ \A n : Own(r, n) => calls'[s] = calls[s]
         /\ \A j : UseJob(r, j) => calls'[s] = calls[s]
         /\ \A j, n : Plan(r, j, n) => calls'[s] = calls[s]
         /\ \A n : Hold(r, n) => calls'[s] = calls[s]
         /\ \A e : GiveUp(r, e) => calls'[s] = calls[s]
         /\ NextRound(r) => calls'[s] = calls[s]
<1> USE DEF CallsOK
<1>1. \A p : Goto(r, p) => calls'[s] = calls[s]
  BY SMT DEF Goto
<1>2. \A e : Throw(r, e) => calls'[s] = calls[s]
  BY SMT DEF Throw
<1>3. \A o : Return(r, o) => calls'[s] = calls[s]
  BY SMT DEF Return
<1>4. \A n : Own(r, n) => calls'[s] = calls[s]
  BY SMT DEF Own
<1>5. \A j : UseJob(r, j) => calls'[s] = calls[s]
  BY SMT DEF UseJob
<1>6. \A j, n : Plan(r, j, n) => calls'[s] = calls[s]
  BY SMT DEF Plan
<1>7. \A n : Hold(r, n) => calls'[s] = calls[s]
  BY SMT DEF Hold
<1>8. \A e : GiveUp(r, e) => calls'[s] = calls[s]
  BY SMT DEF GiveUp
<1>9. NextRound(r) => calls'[s] = calls[s]
  BY SMT DEF NextRound
<1> QED
  BY <1>1, <1>2, <1>3, <1>4, <1>5, <1>6, <1>7, <1>8, <1>9, Zenon

\* The two ways a delivery changes its job's row.
LEMMA TakeLeaseType ==
  ASSUME HostAssumption, JobsOK, NEW r \in Deliveries, calls[r].job \in Deliveries,
         TakeLease(r)
  PROVE  JobsOK'
<1> DEFINE j == calls[r].job
<1> DEFINE row == [status |-> "running", fence |-> jobs[j].fence + 1, owner |-> Host[r],
                   lease |-> "live", count |-> jobs[j].count, next |-> "due"]
<1>1. Host[r] \in Workers
  BY DEF HostAssumption
<1>2. "running" \in JobStates
  BY DEF JobStates
<1>3. row \in JobRow
  BY <1>1, <1>2, SMT DEF JobsOK, JobRow
<1>4. jobs' = [jobs EXCEPT ![j] = row]
  BY DEF TakeLease
<1> HIDE DEF j, row
<1> QED
  BY <1>3, <1>4 DEF JobsOK

LEMMA EndJobType ==
  ASSUME JobsOK, NEW r \in Deliveries, calls[r].job \in Deliveries,
         NEW st \in JobStates, EndJob(r, st)
  PROVE  JobsOK'
BY SMT DEF JobsOK, JobRow, EndJob

-----------------------------------------------------------------------------
(* What one step of a delivery may do to each variable.                     *)

USE DEF Deliver, Begin, BeginRead, BeginReopen, Poll, LookupJob, EnqueueJob, FindJob,
  Claim, StartAttempt, StartHandler, HandlerActs, HandlerReturns, HandlerFails,
  HandlerTimesOut, LoseLease, AttemptSucceeded, CompleteJob, ReadBackJob,
  PostOperationUnknown, AttemptFailed, ScheduleRetry, TerminateJob, CompleteRecord,
  MarkOutcomeUnknown, FailRecord

\* The record.
LEMMA DedupChange ==
  ASSUME NEW r \in Deliveries, Deliver(r)
  PROVE  \/ UNCHANGED dedup
         \/ At(r, "idle") /\ dedup.state = "ABSENT" /\ InsertRecord(r)
         \/ At(r, "reopen") /\ ReopenRecord(r)
         \/ At(r, "dedupComplete") /\ OwnsRecord(r) /\ SetState("COMPLETED")
         \/ At(r, "mark") /\ OwnsRecord(r) /\ SetState("OUTCOME_UNKNOWN")
         \/ At(r, "fail") /\ OwnsRecord(r) /\ SetState("FAILED")
BY Zenon

\* The attempts of its job.
LEMMA AttemptsChange ==
  ASSUME NEW r \in Deliveries, Deliver(r)
  PROVE  \/ UNCHANGED attempts
         \/ At(r, "attempt") /\ FreshAttempt(r) /\ InsertAttempt(r)
         \/ At(r, "attemptOk") /\ AttemptOpen(r) /\ CloseAttempt(r, "succeeded")
         \/ At(r, "attemptFail") /\ AttemptOpen(r) /\ CloseAttempt(r, "failed")
BY Zenon

\* The row of its job.
LEMMA JobsChange ==
  ASSUME NEW r \in Deliveries, Deliver(r)
  PROVE  \/ UNCHANGED jobs
         \/ At(r, "enqueue") /\ InsertJob(calls[r].job)
         \/ At(r, "claim") /\ Claimable(calls[r].job) /\ TakeLease(r)
         \/ At(r, "complete") /\ HoldsLease(r) /\ EndJob(r, "succeeded")
         \/ At(r, "postUnknown") /\ HoldsLease(r) /\ EndJob(r, "outcome-unknown")
         \/ At(r, "retry") /\ HoldsLease(r) /\ EndJob(r, "retryable")
         \/ At(r, "terminal") /\ HoldsLease(r) /\ EndJob(r, TerminalStatus(r))
BY Zenon

\* The effects, and the invocations it abandons.
LEMMA EffectsChange ==
  ASSUME NEW r \in Deliveries, Deliver(r)
  PROVE  /\ \/ effects' = effects
            \/ At(r, "handler") /\ effects' = effects \cup {Invocation(r)}
         /\ orphans' = orphans \/ orphans' = orphans \cup {Invocation(r)}
<1>1. effects' = effects \/ (At(r, "handler") /\ effects' = effects \cup {Invocation(r)})
  BY Zenon
<1>2. orphans' = orphans \/ Abandon(r)
  BY Zenon
<1> QED
  BY <1>1, <1>2 DEF Abandon

\* The counters.
LEMMA CountersChange ==
  ASSUME NEW r \in Deliveries, Deliver(r)
  PROVE  /\ faults' = faults \/ (faults < MaxFaults /\ faults' = faults + 1)
         /\ crashes' = crashes
<1>1. NoFault \/ Fault
  BY Zenon DEF RenewalFails, NoFault
<1>2. crashes' = crashes
  BY Zenon
<1> QED
  BY <1>1, <1>2 DEF Fault, NoFault

\* Its own locals: the moves that change the program counter only, and all
\* moves, with what the later proofs need of each.
Edge(a, b) ==
  \/ a = "idle" /\ b = "read"
  \/ a = "read" /\ b \in {"reopen", "poll"}
  \/ a = "enqueue" /\ b = "findJob"
  \/ a = "attempt" /\ b = "dispatch"
  \/ a = "dispatch" /\ b = "handler"
  \/ a = "handler" /\ b \in {"attemptOk", "postUnknown"}
  \/ a = "attemptOk" /\ b \in {"complete", "postUnknown"}
  \/ a = "complete" /\ b \in {"readBack", "postUnknown"}
  \/ a = "readBack" /\ b \in {"dedupComplete", "postUnknown"}
  \/ a = "attemptFail" /\ b \in {"retry", "terminal"}

LEMMA Running ==
  ASSUME NEW r \in Deliveries, Deliver(r)
  PROVE  \E p \in BeginPcs \cup RunPcs : At(r, p)
<1> USE DEF BeginPcs, RunPcs
<1>1. CASE LoseLease(r)
  BY <1>1, Zenon DEF At
<1>2. CASE ~LoseLease(r)
  BY <1>2, Zenon
<1> QED
  BY <1>1, <1>2

LEMMA LocalsChange ==
  ASSUME CallsOK, HandlerErrorsAssumption, NEW r \in Deliveries, Deliver(r)
  PROVE  \/ At(r, "handler") /\ UNCHANGED calls
         \/ \E p \in Pcs :
              /\ Goto(r, p) /\ Edge(calls[r].pc, p)
              /\ p = "read" => dedup.state # "ABSENT" /\ UNCHANGED dedup
              /\ p = "reopen" => dedup.state = "FAILED" /\ dedup.print = Fingerprint[r]
              /\ p = "dispatch" => FreshAttempt(r) /\ InsertAttempt(r)
              /\ p = "attemptOk" => Invocation(r) \in effects
              /\ p = "retry" => CanRetry(r) /\ AttemptOpen(r) /\ CloseAttempt(r, "failed")
              /\ p = "complete" => AttemptOpen(r) /\ CloseAttempt(r, "succeeded")
         \/ \E e \in Errors : ~At(r, "idle") /\ calls[r].pc \in RunPcs /\ Throw(r, e)
         \/ \E o \in Outcomes :
              /\ Return(r, o)
              /\ o = "processed" => At(r, "dedupComplete")
              /\ o = "duplicate" => dedup.state = "COMPLETED"
         \/ \/ At(r, "idle") /\ dedup.state = "ABSENT" /\ InsertRecord(r) /\ Own(r, 1)
            \/ At(r, "reopen") /\ ReopenRecord(r) /\ Own(r, dedup.fence + 1)
         \/ At(r, "lookup") /\ UseJob(r, dedup.job)
         \/ /\ At(r, "findJob") /\ jobs[dedup.job].status # "absent"
            /\ ~(jobs[dedup.job].count >= MaxAttempts)
            /\ Plan(r, dedup.job, jobs[dedup.job].count)
         \/ /\ At(r, "claim") /\ Claimable(calls[r].job) /\ TakeLease(r)
            /\ Hold(r, MyJob(r).fence + 1)
         \/ /\ At(r, "dispatch") \/ At(r, "handler")
            /\ \E e \in Errors : GiveUp(r, e)
         \/ At(r, "retry") /\ HoldsLease(r) /\ EndJob(r, "retryable") /\ NextRound(r)
<1> USE Literals DEF Errors, Outcomes, RunPcs, Edge, At, Own, UseJob, Plan, Hold, GiveUp, NextRound
<1>0. calls[r].err \in Errors
  BY SMT DEF CallsOK, Call
<1>1. CASE Begin(r) \/ BeginReopen(r) \/ Poll(r)
  BY <1>1, Zenon DEF At
<1>2. CASE BeginRead(r)
  BY <1>2, SMT DEF At
<1>3. CASE LookupJob(r) \/ EnqueueJob(r) \/ FindJob(r) \/ Claim(r)
  BY <1>3, Zenon DEF At
<1>4. CASE StartAttempt(r) \/ StartHandler(r) \/ HandlerActs(r) \/ HandlerReturns(r)
  BY <1>4, Zenon DEF At
<1>5. CASE HandlerFails(r)
  <2>1. \E e \in HandlerErrors \cup {"unknown"} :
          GiveUp(r, e)
    BY <1>5, Zenon
  <2> QED
    BY <1>5, <2>1, Zenon DEF HandlerErrorsAssumption
<1>6. CASE HandlerTimesOut(r) \/ LoseLease(r)
  BY <1>6, Zenon DEF Abandon, At
<1>7. CASE AttemptSucceeded(r) \/ CompleteJob(r) \/ ReadBackJob(r) \/ PostOperationUnknown(r)
  BY <1>7, Zenon DEF At
<1>8. CASE AttemptFailed(r)
  BY <1>8, SMT DEF At
<1>9. CASE ScheduleRetry(r) \/ TerminateJob(r)
  BY <1>0, <1>9, Zenon DEF At
<1>10. CASE CompleteRecord(r) \/ MarkOutcomeUnknown(r)
  BY <1>10, Zenon DEF At
<1>11. CASE FailRecord(r)
  BY <1>0, <1>11, Zenon DEF At
<1> QED
  BY <1>1, <1>2, <1>3, <1>4, <1>5, <1>6, <1>7, <1>8, <1>9, <1>10, <1>11, Zenon

HIDE DEF Deliver, Begin, BeginRead, BeginReopen, Poll, LookupJob, EnqueueJob, FindJob,
  Claim, StartAttempt, StartHandler, HandlerActs, HandlerReturns, HandlerFails,
  HandlerTimesOut, LoseLease, AttemptSucceeded, CompleteJob, ReadBackJob,
  PostOperationUnknown, AttemptFailed, ScheduleRetry, TerminateJob, CompleteRecord,
  MarkOutcomeUnknown, FailRecord

LEMMA CallsStep ==
  ASSUME TypeInv, HandlerErrorsAssumption, NEW r \in Deliveries, Deliver(r)
  PROVE  CallsOK'
<1> CallsOK /\ JobsOK /\ dedup \in DedupRow
  BY DEF TypeInv, TypeOK, CallsOK, JobsOK
<1>1. dedup.fence + 1 \in Nat /\ 1 \in Nat
  BY SMT DEF DedupRow
<1>2. At(r, "lookup") \/ At(r, "findJob") =>
        dedup.job \in Deliveries /\ jobs[dedup.job].count \in Nat
  BY SMT DEF At, TypeInv, RowsPresent, JobsOK, JobRow
<1>3. At(r, "claim") => MyJob(r).fence + 1 \in Nat
  BY SMT DEF At, TypeInv, RowsPresent, JobsOK, JobRow, MyJob
<1>4. UNCHANGED calls => CallsOK'
  BY DEF CallsOK
<1> QED
  BY LocalsChange, UpdatesType, <1>1, <1>2, <1>3, <1>4, Zenon

\* It leaves the other deliveries' locals alone.
LEMMA OthersKeep ==
  ASSUME CallsOK, HandlerErrorsAssumption, NEW r \in Deliveries, Deliver(r),
         NEW s \in Deliveries, s # r
  PROVE  calls'[s] = calls[s]
BY LocalsChange, UpdatesKeep, Zenon

JobPcs == ClaimedPcs \cup {"enqueue", "findJob", "claim", "dedupComplete"}

\* Where a delivery that has a job got it from, and how it got a claim: by
\* Claim, or it has kept the one it had.
LEMMA OwnJob ==
  ASSUME CallsOK, HandlerErrorsAssumption, NEW r \in Deliveries, Deliver(r)
  PROVE  /\ calls'[r].pc \in JobPcs =>
              \/ calls[r].pc \in JobPcs /\ calls'[r].job = calls[r].job
              \/ calls[r].pc \in {"lookup", "findJob"} /\ calls'[r].job = dedup.job
         /\ Claimed(r)' =>
              \/ /\ Claimed(r) /\ SameClaim(r)
                 /\ calls[r].pc \notin {"postUnknown", "retry", "terminal"}
              \/ /\ At(r, "claim") /\ Claimable(calls[r].job) /\ TakeLease(r)
                 /\ calls'[r].pc = "attempt" /\ calls'[r].lease = MyJob(r).fence + 1
                 /\ calls'[r].job = calls[r].job
                 /\ calls'[r].prior = calls[r].prior /\ calls'[r].index = calls[r].index
         /\ calls[r].pc \notin {"done", "crashed"}
         /\ calls'[r].pc \notin {"idle", "done"} /\ At(r, "idle") => dedup'.state # "ABSENT"
<1> USE DEF At, MovedTo, SameClaim, JobPcs, Claimed, ClaimedPcs
<1>0. calls[r].pc \notin {"done", "crashed"}
  BY Running, SMT DEF BeginPcs, RunPcs
<1>1. CASE At(r, "handler") /\ UNCHANGED calls
  BY <1>0, <1>1, SMT
<1>2. CASE \E p \in Pcs : /\ Goto(r, p) /\ Edge(calls[r].pc, p)
                          /\ p = "read" => dedup.state # "ABSENT" /\ UNCHANGED dedup
  <2>1. PICK p \in Pcs : /\ MovedTo(r, p) /\ Edge(calls[r].pc, p)
                         /\ p = "read" => dedup.state # "ABSENT" /\ UNCHANGED dedup
    BY <1>2, Updates, Zenon
  <2> QED
    BY <1>0, <2>1, SMT DEF Edge
<1>3. CASE \E e \in Errors : ~At(r, "idle") /\ Throw(r, e)
  <2>1. PICK p \in {"mark", "fail"} : ~At(r, "idle") /\ MovedTo(r, p)
    BY <1>3, Updates, Zenon
  <2> QED
    BY <1>0, <2>1, SMT
<1>4. CASE \E o \in Outcomes : Return(r, o)
  <2>1. calls'[r].pc = "done"
    BY <1>4, Updates, Zenon
  <2> QED
    BY <1>0, <2>1, SMT
<1>5. CASE \/ At(r, "idle") /\ InsertRecord(r) /\ Own(r, 1)
           \/ At(r, "reopen") /\ ReopenRecord(r) /\ Own(r, dedup.fence + 1)
  <2>1. MovedTo(r, "lookup") /\ (At(r, "idle") => InsertRecord(r))
    BY <1>5, Updates, Zenon
  <2> QED
    BY <1>0, <2>1, SMT DEF InsertRecord
<1>6. CASE At(r, "lookup") /\ UseJob(r, dedup.job)
  <2>1. calls'[r].pc = "enqueue" /\ calls'[r].job = dedup.job
    BY <1>6, Updates, Zenon
  <2> QED
    BY <1>0, <1>6, <2>1, SMT
<1>7. CASE At(r, "findJob") /\ Plan(r, dedup.job, jobs[dedup.job].count)
  <2>1. calls'[r].pc = "claim" /\ calls'[r].job = dedup.job
    BY <1>7, Updates, Zenon
  <2> QED
    BY <1>0, <1>7, <2>1, SMT
<1>8. CASE /\ At(r, "claim") /\ Claimable(calls[r].job) /\ TakeLease(r)
           /\ Hold(r, MyJob(r).fence + 1)
  <2>1. /\ calls'[r].pc = "attempt" /\ calls'[r].lease = MyJob(r).fence + 1
        /\ calls'[r].job = calls[r].job
        /\ calls'[r].prior = calls[r].prior /\ calls'[r].index = calls[r].index
    BY <1>8, Updates, Zenon
  <2> QED
    BY <1>0, <1>8, <2>1, SMT
<1>9. CASE (At(r, "dispatch") \/ At(r, "handler")) /\ \E e \in Errors : GiveUp(r, e)
  <2>1. MovedTo(r, "attemptFail")
    BY <1>9, Updates, Zenon
  <2> QED
    BY <1>0, <1>9, <2>1, SMT
<1>10. CASE At(r, "retry") /\ NextRound(r)
  <2>1. calls'[r].pc = "claim" /\ calls'[r].job = calls[r].job
    BY <1>10, Updates, Zenon
  <2> QED
    BY <1>0, <1>10, <2>1, SMT
<1> HIDE DEF At, MovedTo, SameClaim, JobPcs, Claimed, ClaimedPcs
<1> QED
  BY LocalsChange, <1>1, <1>2, <1>3, <1>4, <1>5, <1>6, <1>7, <1>8, <1>9, <1>10, Zenon

-----------------------------------------------------------------------------
(* Type correctness                                                         *)

LEMMA DedupType ==
  ASSUME TypeInv, FingerprintAssumption, NEW r \in Deliveries, Deliver(r)
  PROVE  /\ dedup' \in DedupRow
         /\ dedup'.state # "ABSENT" => dedup'.job \in Deliveries
         /\ dedup.state # "ABSENT" => dedup'.state # "ABSENT"
<1>0. /\ dedup \in DedupRow /\ Fingerprint[r] \in Fingerprints
      /\ dedup.state # "ABSENT" => dedup.job \in Deliveries
  BY SMT DEF TypeInv, TypeOK, RowsPresent, FingerprintAssumption
<1> USE <1>0 DEF DedupRow, DedupStates
<1>1. CASE UNCHANGED dedup
  BY <1>1, SMT
<1>2. CASE InsertRecord(r)
  BY <1>2, SMT DEF InsertRecord
<1>3. CASE ReopenRecord(r)
  <2>1. dedup.fence + 1 \in Nat /\ "IN_PROGRESS" \in DedupStates /\ r \in Deliveries \cup {None}
    BY SMT
  <2>2. dedup' \in DedupRow
    BY <1>3, <2>1, Zenon DEF ReopenRecord
  <2>3. dedup'.state = "IN_PROGRESS" /\ dedup'.job = r
    BY <1>3, SMT DEF ReopenRecord
  <2> QED
    BY <2>2, <2>3, SMT
<1>4. CASE OwnsRecord(r) /\ \E st \in DedupStates \ {"ABSENT"} : SetState(st)
  <2>1. PICK st \in DedupStates \ {"ABSENT"} : dedup' = [dedup EXCEPT !.state = st]
    BY <1>4, Zenon DEF SetState
  <2> QED
    BY <1>4, <2>1, SMT DEF OwnsRecord
<1> QED
  BY DedupChange, <1>1, <1>2, <1>3, <1>4, Zenon

LEMMA JobsType ==
  ASSUME TypeInv, HostAssumption, NEW r \in Deliveries, Deliver(r)
  PROVE  JobsOK'
<1> JobsOK /\ CallsOK
  BY DEF TypeInv, TypeOK, JobsOK, CallsOK
<1>0. ASSUME At(r, "enqueue") \/ At(r, "claim") \/ At(r, "complete") \/ At(r, "postUnknown")
             \/ At(r, "retry") \/ At(r, "terminal")
      PROVE  calls[r].job \in Deliveries
  BY <1>0, SMT DEF At, TypeInv, RowsPresent, ClaimedPcs
<1>1. CASE UNCHANGED jobs
  BY <1>1 DEF JobsOK
<1>2. CASE At(r, "enqueue") /\ InsertJob(calls[r].job)
  <2>1. [NoJob EXCEPT !.status = "queued", !.fence = 1] \in JobRow
    <3>1. NoJob \in JobRow
      BY SMT DEF NoJob, JobRow, JobStates
    <3>2. "queued" \in JobStates /\ 1 \in Nat
      BY DEF JobStates
    <3> QED
      BY <3>1, <3>2, Zenon DEF JobRow
  <2> QED
    BY <1>0, <1>2, <2>1, Zenon DEF InsertJob, JobsOK
<1>3. CASE At(r, "claim") /\ TakeLease(r)
  BY <1>0, <1>3, TakeLeaseType, Zenon
<1>4. /\ "succeeded" \in JobStates /\ "outcome-unknown" \in JobStates
      /\ "retryable" \in JobStates /\ TerminalStatus(r) \in JobStates
  BY SMT DEF JobStates, TerminalStatus
<1>5. CASE /\ At(r, "complete") \/ At(r, "postUnknown") \/ At(r, "retry") \/ At(r, "terminal")
           /\ \E st \in JobStates : EndJob(r, st)
  BY <1>0, <1>5, EndJobType, Zenon
<1> QED
  BY JobsChange, <1>1, <1>2, <1>3, <1>4, <1>5, Zenon

LEMMA AttemptsType ==
  ASSUME TypeInv, NEW r \in Deliveries, Deliver(r)
  PROVE  attempts' \in [Deliveries -> SUBSET Attempt]
<1>1. /\ attempts \in [Deliveries -> SUBSET Attempt]
      /\ calls[r].lease \in Nat /\ AttemptNo(r) \in Nat
  BY SMT DEF TypeInv, TypeOK, Call, AttemptNo
<1>2. \A st \in AttemptStates :
        [no |-> AttemptNo(r), fence |-> calls[r].lease, status |-> st] \in Attempt
  BY <1>1, SMT DEF Attempt
<1>3. CASE InsertAttempt(r)
  <2>1. [no |-> AttemptNo(r), fence |-> calls[r].lease, status |-> "running"] \in Attempt
    BY <1>2 DEF AttemptStates
  <2> QED
    BY <1>1, <1>3, <2>1, Zenon DEF InsertAttempt
<1>4. CASE CloseAttempt(r, "succeeded") \/ CloseAttempt(r, "failed")
  <2>1. \A st \in AttemptStates : [MyAttempt(r) EXCEPT !.status = st] \in Attempt
    BY <1>2, SMT DEF MyAttempt
  <2>2. PICK st \in {"succeeded", "failed"} : CloseAttempt(r, st)
    BY <1>4
  <2>3. [MyAttempt(r) EXCEPT !.status = st] \in Attempt
    BY <2>1 DEF AttemptStates
  <2> QED
    BY <1>1, <2>2, <2>3, Zenon DEF CloseAttempt
<1> QED
  BY AttemptsChange, <1>1, <1>3, <1>4, Zenon

LEMMA RowsStep ==
  ASSUME TypeInv, HandlerErrorsAssumption, FingerprintAssumption,
         NEW r \in Deliveries, Deliver(r)
  PROVE  RowsPresent'
<1> CallsOK
  BY DEF TypeInv, TypeOK, CallsOK
<1>1. \A s \in Deliveries : s # r => calls'[s] = calls[s]
  BY OthersKeep
<1>2. dedup.state # "ABSENT" => dedup'.state # "ABSENT" /\ dedup.job \in Deliveries
  BY DedupType, SMT DEF TypeInv, RowsPresent
<1>3. calls'[r].pc \notin {"idle", "done", "crashed"} => dedup'.state # "ABSENT"
  BY OwnJob, <1>2, SMT DEF TypeInv, RowsPresent, At
<1>4. calls'[r].pc \in JobPcs => calls'[r].job \in Deliveries
  BY OwnJob, <1>2, SMT DEF TypeInv, RowsPresent, JobPcs
<1>5. dedup'.state # "ABSENT" => dedup'.job \in Deliveries
  BY DedupType
<1> QED
  BY <1>1, <1>2, <1>3, <1>4, <1>5, SMT DEF TypeInv, RowsPresent, JobPcs

LEMMA DeliverType ==
  ASSUME TypeInv, HostAssumption, FingerprintAssumption, HandlerErrorsAssumption,
         BoundsAssumption, NEW r \in Deliveries, Deliver(r)
  PROVE  TypeInv'
<1>1. effects' \subseteq Deliveries \X Nat /\ orphans' \subseteq Deliveries \X Nat
  <2>1. Invocation(r) \in Deliveries \X Nat
    BY SMT DEF Invocation, TypeInv, TypeOK, Call
  <2> QED
    BY <2>1, EffectsChange, SMT DEF TypeInv, TypeOK
<1>2. faults' \in 0..MaxFaults /\ crashes' \in 0..MaxCrashes
  BY CountersChange, SMT DEF TypeInv, TypeOK, BoundsAssumption
<1> QED
  BY <1>1, <1>2, DedupType, JobsType, AttemptsType, CallsStep, RowsStep
  DEF TypeInv, TypeOK, JobsOK, CallsOK

LEMMA EnvironmentType ==
  ASSUME TypeInv, BoundsAssumption,
         \/ \E j \in Deliveries : LeaseExpires(j) \/ RetryDue(j)
         \/ \E w \in Workers : Crash(w)
         \/ OrphanActs \/ OrphanEnds \/ RecoverExpiredLeases \/ Reconcile
  PROVE  TypeInv'
<1> USE DEF TypeInv, TypeOK, RowsPresent
<1>1. CASE \E j \in Deliveries : LeaseExpires(j)
  <2>1. PICK j \in Deliveries : LeaseExpires(j)
    BY <1>1
  <2>2. jobs' \in [Deliveries -> JobRow]
    BY <2>1, SMT DEF LeaseExpires, JobRow
  <2> QED
    BY <2>1, <2>2, Zenon DEF LeaseExpires
<1>2. CASE \E j \in Deliveries : RetryDue(j)
  <2>1. PICK j \in Deliveries : RetryDue(j)
    BY <1>2
  <2>2. jobs' \in [Deliveries -> JobRow]
    BY <2>1, SMT DEF RetryDue, JobRow
  <2> QED
    BY <2>1, <2>2, Zenon DEF RetryDue
<1>3. CASE \E w \in Workers : Crash(w)
  <2>1. PICK w \in Workers : Crash(w)
    BY <1>3
  <2>2. calls' \in [Deliveries -> Call]
    <3>1. "crashed" \in Pcs
      BY Literals
    <3>2. \A c \in Call : [c EXCEPT !.pc = "crashed"] \in Call
      BY <3>1, Zenon DEF Call
    <3>3. \A r \in Deliveries : calls[r] \in Call
      OBVIOUS
    <3>4. calls' = [r \in Deliveries |->
                     IF Host[r] = w /\ calls[r].pc \notin {"idle", "done"}
                     THEN [calls[r] EXCEPT !.pc = "crashed"] ELSE calls[r]]
      BY <2>1 DEF Crash
    <3> QED
      BY <3>2, <3>3, <3>4, Zenon
  <2>3. orphans' \subseteq Deliveries \X Nat /\ crashes' \in 0..MaxCrashes
    BY <2>1, SMT DEF Crash, BoundsAssumption
  <2>4. \A r \in Deliveries : calls'[r].pc = "crashed" \/ calls'[r] = calls[r]
    BY <2>1, SMT DEF Crash, Call
  <2> QED
    BY <2>1, <2>2, <2>3, <2>4, SMT DEF Crash, ClaimedPcs
<1>4. CASE OrphanActs \/ OrphanEnds
  BY <1>4, SMT DEF OrphanActs, OrphanEnds
<1>5. CASE RecoverExpiredLeases
  <2>1. jobs' \in [Deliveries -> JobRow]
    <3>1. "outcome-unknown" \in JobStates /\ None \in Workers \cup {None}
          /\ "none" \in {"none", "live", "expired"}
      BY DEF JobStates
    <3>2. \A row \in JobRow :
            [row EXCEPT !.status = "outcome-unknown", !.owner = None, !.lease = "none"]
              \in JobRow
      BY <3>1, Zenon DEF JobRow
    <3>3. \A j \in Deliveries : jobs[j] \in JobRow
      OBVIOUS
    <3> QED
      BY <1>5, <3>2, <3>3, Zenon DEF RecoverExpiredLeases
  <2>2. attempts' \in [Deliveries -> SUBSET Attempt]
    <3> DEFINE Closed(j) == {IF a.fence = jobs[j].fence /\ a.status = "running"
                             THEN [a EXCEPT !.status = "failed"] ELSE a : a \in attempts[j]}
    <3>1. \A a \in Attempt : [a EXCEPT !.status = "failed"] \in Attempt
      BY SMT DEF Attempt, AttemptStates
    <3>2. \A j \in Deliveries : Closed(j) \subseteq Attempt
      BY <3>1, SMT
    <3>3. attempts' = [j \in Deliveries |-> IF Expired(j) THEN Closed(j) ELSE attempts[j]]
      BY <1>5, Zenon DEF RecoverExpiredLeases
    <3> HIDE DEF Closed
    <3> QED
      BY <3>2, <3>3, SMT
  <2>3. dedup' \in DedupRow /\ dedup'.job = dedup.job
        /\ (dedup.state = "ABSENT" <=> dedup'.state = "ABSENT")
    <3>1. dedup' = dedup \/ (/\ dedup' = [dedup EXCEPT !.state = "OUTCOME_UNKNOWN"]
                             /\ dedup.state = "IN_PROGRESS")
      BY <1>5, Zenon DEF RecoverExpiredLeases
    <3> QED
      BY <3>1, SMT DEF DedupRow, DedupStates
  <2>4. UNCHANGED <<calls, effects, orphans, faults, crashes>>
    BY <1>5, Zenon DEF RecoverExpiredLeases
  <2> QED
    BY <2>1, <2>2, <2>3, <2>4, SMT
<1>6. CASE Reconcile
  <2>1. dedup' \in DedupRow /\ dedup'.job = dedup.job
        /\ dedup.state # "ABSENT" /\ dedup'.state # "ABSENT"
    BY <1>6, SMT DEF Reconcile, SetState, DedupRow, DedupStates
  <2> QED
    BY <1>6, <2>1, Zenon DEF Reconcile
<1> QED
  BY <1>1, <1>2, <1>3, <1>4, <1>5, <1>6

LEMMA StutterType ==
  ASSUME TypeInv, UNCHANGED vars
  PROVE  TypeInv'
BY SMT DEF vars, TypeInv, TypeOK, RowsPresent

\* Every table and every local keeps its type: states, jobs and error codes
\* never mix, whatever is thrown in place of what.
THEOREM TypeCorrect == Spec => []TypeOK
<1>1. Init => TypeInv
  BY TypeInit, BoundsAssumption
<1>2. TypeInv /\ [Next]_vars => TypeInv'
  BY DeliverType, EnvironmentType, StutterType, HostAssumption, FingerprintAssumption,
     HandlerErrorsAssumption, BoundsAssumption, Zenon DEF Next
<1>3. TypeInv => TypeOK
  BY DEF TypeInv
<1> QED
  BY <1>1, <1>2, <1>3, PTL DEF Spec

-----------------------------------------------------------------------------
(* One runner per job, and the outcome of a job                             *)

\* A delivery that claimed its job still has the job's fence, and the job is
\* out of anybody else's reach; only a job waiting for a retry is not due yet.
RunInv ==
  /\ OneRunnerPerJob
  /\ \A r \in Deliveries : Claimed(r) =>
       /\ jobs[calls[r].job].fence = calls[r].lease
       /\ jobs[calls[r].job].status \notin {"absent", "queued", "retryable"}
  /\ \A j \in Deliveries : jobs[j].next = "due" \/ jobs[j].status = "retryable"

\* What the updates of a job's row leave in the row.
LEMMA JobUpdates ==
  ASSUME JobsOK, NEW r \in Deliveries, calls[r].job \in Deliveries
  PROVE  LET j == calls[r].job IN
         /\ TakeLease(r) =>
              /\ \A k \in Deliveries : k # j => jobs'[k] = jobs[k]
              /\ jobs'[j].status = "running" /\ jobs'[j].fence = jobs[j].fence + 1
              /\ jobs'[j].count = jobs[j].count /\ jobs'[j].next = "due"
         /\ \A st : EndJob(r, st) =>
              /\ \A k \in Deliveries : k # j => jobs'[k] = jobs[k]
              /\ jobs'[j].status = st /\ jobs'[j].fence = jobs[j].fence
              /\ jobs'[j].count = jobs[j].count + 1
              /\ jobs'[j].next = "due" \/ st = "retryable"
         /\ InsertJob(j) =>
              /\ \A k \in Deliveries : k # j => jobs'[k] = jobs[k]
              /\ jobs[j].status # "absent" => jobs'[j] = jobs[j]
              /\ jobs[j].status = "absent" =>
                   jobs'[j].status = "queued" /\ jobs'[j].count = 0 /\ jobs'[j].next = "due"
<1> DEFINE j == calls[r].job
<1>1. TakeLease(r) =>
        /\ \A k \in Deliveries : k # j => jobs'[k] = jobs[k]
        /\ jobs'[j].status = "running" /\ jobs'[j].fence = jobs[j].fence + 1
        /\ jobs'[j].count = jobs[j].count /\ jobs'[j].next = "due"
  BY SMT DEF TakeLease, JobsOK
<1>2. \A st : EndJob(r, st) =>
        /\ \A k \in Deliveries : k # j => jobs'[k] = jobs[k]
        /\ jobs'[j].status = st /\ jobs'[j].fence = jobs[j].fence
        /\ jobs'[j].count = jobs[j].count + 1
        /\ jobs'[j].next = "due" \/ st = "retryable"
  <2> SUFFICES ASSUME NEW st, EndJob(r, st)
               PROVE  /\ \A k \in Deliveries : k # j => jobs'[k] = jobs[k]
                      /\ jobs'[j].status = st /\ jobs'[j].fence = jobs[j].fence
                      /\ jobs'[j].count = jobs[j].count + 1
                      /\ st # "retryable" => jobs'[j].next = "due"
    BY Zenon
  <2>1. /\ \A k \in Deliveries : k # j => jobs'[k] = jobs[k]
        /\ jobs'[j].status = st /\ jobs'[j].fence = jobs[j].fence
        /\ jobs'[j].count = jobs[j].count + 1
    BY SMT DEF EndJob, JobsOK
  <2>2. st # "retryable" => jobs'[j].next = "due"
    BY Zenon DEF EndJob, JobsOK
  <2> QED
    BY <2>1, <2>2
<1>3. InsertJob(j) =>
        /\ \A k \in Deliveries : k # j => jobs'[k] = jobs[k]
        /\ jobs[j].status # "absent" => jobs'[j] = jobs[j]
        /\ jobs[j].status = "absent" =>
             jobs'[j].status = "queued" /\ jobs'[j].count = 0 /\ jobs'[j].next = "due"
  BY SMT DEF InsertJob, NoJob, JobsOK
<1> QED
  BY <1>1, <1>2, <1>3

LEMMA RunInit == Init => RunInv
BY SMT DEF Init, RunInv, OneRunnerPerJob, Claimed, ClaimedPcs, NoCall, NoJob

\* The row of a job changes in one step of a delivery: it appears, its
\* delivery claims it, or the delivery that holds it ends it.
LEMMA JobStep ==
  ASSUME TypeInv, NEW r \in Deliveries, Deliver(r), NEW j \in Deliveries, jobs'[j] # jobs[j]
  PROVE  /\ j = calls[r].job
         /\ \/ /\ At(r, "enqueue") /\ jobs[j].status = "absent"
               /\ jobs'[j].status = "queued" /\ jobs'[j].count = 0 /\ jobs'[j].next = "due"
            \/ /\ At(r, "claim") /\ jobs[j].status \in {"queued", "retryable"}
               /\ jobs'[j].status = "running" /\ jobs'[j].fence = jobs[j].fence + 1
               /\ jobs'[j].count = jobs[j].count /\ jobs'[j].next = "due"
            \/ /\ At(r, "complete") \/ At(r, "postUnknown") \/ At(r, "retry") \/ At(r, "terminal")
               /\ HoldsLease(r) /\ jobs'[j].fence = jobs[j].fence
               /\ jobs'[j].count = jobs[j].count + 1
               /\ jobs'[j].status \in {"succeeded", "failed", "outcome-unknown", "retryable"}
               /\ jobs'[j].next = "due" \/ jobs'[j].status = "retryable"
               /\ At(r, "complete") => jobs'[j].status = "succeeded"
               /\ jobs'[j].status = "retryable" => At(r, "retry")
               /\ jobs'[j].status = "succeeded" => At(r, "complete")
<1> JobsOK
  BY DEF TypeInv, TypeOK, JobsOK
<1>0. ASSUME At(r, "enqueue") \/ At(r, "claim") \/ At(r, "complete") \/ At(r, "postUnknown")
             \/ At(r, "retry") \/ At(r, "terminal")
      PROVE  calls[r].job \in Deliveries
  BY <1>0, SMT DEF At, TypeInv, RowsPresent, ClaimedPcs
<1>1. CASE At(r, "enqueue") /\ InsertJob(calls[r].job)
  BY <1>0, <1>1, JobUpdates, SMT DEF At
<1>2. CASE At(r, "claim") /\ Claimable(calls[r].job) /\ TakeLease(r)
  BY <1>0, <1>2, JobUpdates, SMT DEF At, Claimable
<1>3. TerminalStatus(r) \in {"failed", "outcome-unknown"}
  BY DEF TerminalStatus
<1>5. CASE At(r, "complete") /\ HoldsLease(r) /\ EndJob(r, "succeeded")
  <2>1. /\ j = calls[r].job /\ jobs'[j].status = "succeeded" /\ jobs'[j].fence = jobs[j].fence
        /\ jobs'[j].count = jobs[j].count + 1 /\ (jobs'[j].next = "due" \/ jobs'[j].status = "retryable")
    BY <1>0, <1>5, JobUpdates, SMT
  <2> QED
    BY <1>5, <2>1, SMT DEF At
<1>6. CASE At(r, "postUnknown") /\ HoldsLease(r) /\ EndJob(r, "outcome-unknown")
  <2>1. /\ j = calls[r].job /\ jobs'[j].status = "outcome-unknown" /\ jobs'[j].fence = jobs[j].fence
        /\ jobs'[j].count = jobs[j].count + 1 /\ (jobs'[j].next = "due" \/ jobs'[j].status = "retryable")
    BY <1>0, <1>6, JobUpdates, SMT
  <2> QED
    BY <1>6, <2>1, SMT DEF At
<1>7. CASE At(r, "retry") /\ HoldsLease(r) /\ EndJob(r, "retryable")
  <2>1. /\ j = calls[r].job /\ jobs'[j].status = "retryable" /\ jobs'[j].fence = jobs[j].fence
        /\ jobs'[j].count = jobs[j].count + 1
    BY <1>0, <1>7, JobUpdates, SMT
  <2> QED
    BY <1>7, <2>1, SMT DEF At
<1>8. CASE At(r, "terminal") /\ HoldsLease(r) /\ EndJob(r, TerminalStatus(r))
  <2>1. PICK st \in {"failed", "outcome-unknown"} : EndJob(r, st)
    BY <1>3, <1>8
  <2>2. /\ j = calls[r].job /\ jobs'[j].status = st /\ jobs'[j].fence = jobs[j].fence
        /\ jobs'[j].count = jobs[j].count + 1 /\ (jobs'[j].next = "due" \/ st = "retryable")
    BY <1>0, <1>8, <2>1, JobUpdates, Zenon
  <2> QED
    BY <1>8, <2>2, SMT DEF At
<1> QED
  BY JobsChange, <1>1, <1>2, <1>5, <1>6, <1>7, <1>8, Zenon

LEMMA RunStep ==
  ASSUME TypeInv, RunInv, HandlerErrorsAssumption, NEW r \in Deliveries, Deliver(r)
  PROVE  RunInv'
<1> CallsOK
  BY DEF TypeInv, TypeOK, CallsOK
<1>1. \A s \in Deliveries : s # r => calls'[s] = calls[s]
  BY OthersKeep
<1>2. \A s \in Deliveries : Claimed(s) => calls[s].job \in Deliveries
  BY SMT DEF TypeInv, RowsPresent, Claimed
<1>3. OneRunnerPerJob'
  <2> SUFFICES ASSUME NEW a \in Deliveries, NEW b \in Deliveries, a # b,
                      Claimed(a)', Claimed(b)'
               PROVE  calls'[a].job # calls'[b].job
    BY DEF OneRunnerPerJob
  <2>1. \A s \in Deliveries : s # r /\ Claimed(s)' => Claimed(s)
    BY <1>1, SMT DEF Claimed
  <2>2. ASSUME NEW s \in Deliveries, s # r, Claimed(s)', Claimed(r)'
        PROVE  calls'[s].job # calls'[r].job
    BY <1>1, <2>1, <2>2, OwnJob, SMT DEF RunInv, OneRunnerPerJob, SameClaim, Claimable
  <2> QED
    BY <1>1, <2>1, <2>2, SMT DEF RunInv, OneRunnerPerJob
<1>4. ASSUME NEW s \in Deliveries, Claimed(s)'
      PROVE  /\ jobs'[calls'[s].job].fence = calls'[s].lease
             /\ jobs'[calls'[s].job].status \notin {"absent", "queued", "retryable"}
  <2>1. CASE s # r
    <3>1. Claimed(s) /\ calls'[s] = calls[s]
      BY <1>1, <1>4, <2>1, SMT DEF Claimed
    <3>2. jobs'[calls[s].job] = jobs[calls[s].job]
      BY <1>2, <2>1, <3>1, JobStep, SMT
      DEF RunInv, OneRunnerPerJob, Claimed, ClaimedPcs, At
    <3> QED
      BY <3>1, <3>2 DEF RunInv
  <2>2. CASE s = r
    <3>1. CASE /\ Claimed(r) /\ SameClaim(r)
               /\ calls[r].pc \notin {"postUnknown", "retry", "terminal"}
      BY <1>2, <2>2, <3>1, JobStep, SMT DEF RunInv, SameClaim, Claimed, ClaimedPcs, At
    <3>2. CASE /\ At(r, "claim") /\ Claimable(calls[r].job) /\ TakeLease(r)
               /\ calls'[r].lease = MyJob(r).fence + 1
               /\ calls'[r].job = calls[r].job
      <4>1. calls[r].job \in Deliveries /\ JobsOK
        BY <3>2, SMT DEF TypeInv, TypeOK, JobsOK, RowsPresent, At
      <4> QED
        BY <2>2, <3>2, <4>1, JobUpdates, SMT DEF MyJob
    <3> QED
      BY <1>4, <2>2, <3>1, <3>2, OwnJob, Zenon
  <2> QED
    BY <2>1, <2>2
<1>5. \A j \in Deliveries : jobs'[j].next = "due" \/ jobs'[j].status = "retryable"
  BY JobStep, SMT DEF RunInv
<1> QED
  BY <1>3, <1>4, <1>5 DEF RunInv

\* What time, crashes, recovery and the operator do to a delivery and a job.
Environment ==
  \/ \E j \in Deliveries : LeaseExpires(j) \/ RetryDue(j)
  \/ \E w \in Workers : Crash(w)
  \/ OrphanActs \/ OrphanEnds \/ RecoverExpiredLeases \/ Reconcile

LEMMA EnvironmentCalls ==
  ASSUME TypeInv, Environment, NEW r \in Deliveries
  PROVE  \/ calls'[r] = calls[r]
         \/ /\ calls[r].pc \notin {"idle", "done"}
            /\ calls'[r] = [calls[r] EXCEPT !.pc = "crashed"]
<1>1. CASE \E w \in Workers : Crash(w)
  BY <1>1, SMT DEF Crash
<1>2. CASE UNCHANGED calls
  BY <1>2
<1> QED
  BY <1>1, <1>2, Zenon DEF Environment, LeaseExpires, RetryDue, OrphanActs, OrphanEnds,
  RecoverExpiredLeases, Reconcile

LEMMA EnvironmentJobs ==
  ASSUME TypeInv, Environment, NEW j \in Deliveries, jobs'[j] # jobs[j]
  PROVE  /\ jobs'[j].fence = jobs[j].fence /\ jobs'[j].count = jobs[j].count
         /\ \/ /\ jobs[j].status = "running"
               /\ jobs'[j].status \in {"running", "outcome-unknown"}
               /\ jobs'[j].next = jobs[j].next
            \/ /\ jobs[j].next = "later" /\ jobs'[j].next = "due"
               /\ jobs'[j].status = jobs[j].status
<1>0. jobs \in [Deliveries -> JobRow]
  BY DEF TypeInv, TypeOK
<1>1. CASE \E k \in Deliveries : LeaseExpires(k)
  BY <1>0, <1>1, SMT DEF LeaseExpires, JobRow
<1>2. CASE \E k \in Deliveries : RetryDue(k)
  BY <1>0, <1>2, SMT DEF RetryDue, JobRow
<1>3. CASE RecoverExpiredLeases
  <2>1. /\ Expired(j)
        /\ jobs'[j] = [jobs[j] EXCEPT !.status = "outcome-unknown", !.owner = None,
                                      !.lease = "none"]
    BY <1>3, Zenon DEF RecoverExpiredLeases
  <2> QED
    BY <1>0, <2>1, SMT DEF Expired, JobRow
<1>4. CASE UNCHANGED jobs
  BY <1>4
<1> QED
  BY <1>1, <1>2, <1>3, <1>4, Zenon DEF Environment, Crash, OrphanActs, OrphanEnds, Reconcile

LEMMA RunEnvironment ==
  ASSUME TypeInv, RunInv, Environment
  PROVE  RunInv'
<1>1. \A r \in Deliveries : Claimed(r)' => Claimed(r) /\ calls'[r] = calls[r]
  <2> SUFFICES ASSUME NEW r \in Deliveries, Claimed(r)'
               PROVE  Claimed(r) /\ calls'[r] = calls[r]
    OBVIOUS
  <2>1. CASE calls'[r] = calls[r]
    BY <2>1, SMT DEF Claimed
  <2>2. CASE calls'[r] = [calls[r] EXCEPT !.pc = "crashed"]
    <3>1. calls[r] \in Call
      BY DEF TypeInv, TypeOK
    <3>2. calls'[r].pc = "crashed"
      BY <2>2, <3>1, SMT DEF Call
    <3> QED
      BY <3>2, SMT DEF Claimed, ClaimedPcs
  <2> QED
    BY <2>1, <2>2, EnvironmentCalls
<1>2. \A r \in Deliveries : Claimed(r) => calls[r].job \in Deliveries
  BY SMT DEF TypeInv, RowsPresent, Claimed
<1> QED
  BY <1>1, <1>2, EnvironmentJobs, SMT DEF RunInv, OneRunnerPerJob

LEMMA RunInvariant == Spec => [](TypeInv /\ RunInv)
<1>1. Init => TypeInv /\ RunInv
  BY TypeInit, RunInit, BoundsAssumption
<1>2. ASSUME TypeInv, RunInv, [Next]_vars
      PROVE  TypeInv' /\ RunInv'
  <2>1. CASE \E r \in Deliveries : Deliver(r)
    BY <1>2, <2>1, DeliverType, RunStep, HostAssumption, FingerprintAssumption,
       HandlerErrorsAssumption, BoundsAssumption
  <2>2. CASE Environment
    BY <1>2, <2>2, EnvironmentType, RunEnvironment, BoundsAssumption DEF Environment
  <2>3. CASE UNCHANGED vars
    BY <1>2, <2>3, StutterType, SMT DEF vars, RunInv, OneRunnerPerJob, Claimed
  <2> QED
    BY <1>2, <2>1, <2>2, <2>3, Zenon DEF Next, Environment
<1> QED
  BY <1>1, <1>2, PTL DEF Spec

\* A job never has two runners: a claim takes the row out of the claimable
\* states, and nothing but its holder, whose fence the row keeps, or recovery,
\* which leaves it unclaimable, moves it on.
THEOREM JobHasOneRunner == Spec => []OneRunnerPerJob
BY RunInvariant, PTL DEF RunInv

\* A succeeded, failed or unknown job is never written again: completions,
\* retries and terminals are fenced by the lease of a running job, and claims
\* and recovery ask for a state that is not final.
THEOREM JobOutcomeIsFinal == Spec => JobOutcomeFinal
<1> DEFINE Kept == \A j \in Deliveries :
      jobs[j].status \in {"succeeded", "failed", "outcome-unknown"} => jobs'[j] = jobs[j]
<1>1. ASSUME TypeInv, RunInv, [Next]_vars
      PROVE  [Kept]_vars
  <2>1. CASE \E r \in Deliveries : Deliver(r)
    BY <1>1, <2>1, JobStep, SMT DEF HoldsLease, MyJob
  <2>2. CASE Environment
    BY <1>1, <2>2, EnvironmentJobs, SMT DEF RunInv
  <2> QED
    BY <1>1, <2>1, <2>2, Zenon DEF Next, Environment
<1> QED
  BY <1>1, RunInvariant, PTL DEF Spec, JobOutcomeFinal

-----------------------------------------------------------------------------
(* No success without the effect                                            *)

\* From the handler's return to the completed record.
SuccessPcs == {"attemptOk", "complete", "readBack", "dedupComplete"}

EffectInv ==
  /\ AnsweredOnlyAfterEffect
  /\ \A r \in Deliveries : calls[r].pc \in SuccessPcs => effects # {}

\* How a delivery comes to report a success.
LEMMA OwnOutcome ==
  ASSUME CallsOK, HandlerErrorsAssumption, NEW r \in Deliveries, Deliver(r)
  PROVE  /\ calls'[r].pc \in SuccessPcs =>
              calls[r].pc \in SuccessPcs \/ Invocation(r) \in effects
         /\ \/ calls'[r].out = calls[r].out
            \/ calls'[r].out = "processed" => At(r, "dedupComplete")
         /\ \/ calls'[r].out = calls[r].out
            \/ calls'[r].out = "duplicate" => dedup.state = "COMPLETED"
<1>1. CASE UNCHANGED calls
  BY <1>1, SMT
<1>2. CASE \E p \in Pcs : /\ Goto(r, p) /\ Edge(calls[r].pc, p)
                          /\ p = "attemptOk" => Invocation(r) \in effects
  <2>1. PICK p \in Pcs : /\ MovedTo(r, p) /\ Edge(calls[r].pc, p)
                         /\ p = "attemptOk" => Invocation(r) \in effects
    BY <1>2, Updates, Zenon
  <2> QED
    BY <2>1, SMT DEF Edge, MovedTo, SuccessPcs
<1>3. CASE \E e \in Errors : Throw(r, e)
  <2>1. PICK p \in {"mark", "fail"} : MovedTo(r, p)
    BY <1>3, Updates, Zenon
  <2> QED
    BY <2>1, SMT DEF MovedTo, SuccessPcs
<1>4. CASE \E o \in Outcomes : /\ Return(r, o)
                               /\ o = "processed" => At(r, "dedupComplete")
                               /\ o = "duplicate" => dedup.state = "COMPLETED"
  <2>1. PICK o \in Outcomes : /\ calls'[r].pc = "done" /\ calls'[r].out = o
                              /\ o = "processed" => At(r, "dedupComplete")
                              /\ o = "duplicate" => dedup.state = "COMPLETED"
    BY <1>4, Updates, Zenon
  <2> QED
    BY <2>1, SMT DEF SuccessPcs
<1>5. CASE \/ \E n : Own(r, n)
           \/ \E e \in Errors : GiveUp(r, e)
  <2>1. PICK p \in {"lookup", "attemptFail"} : MovedTo(r, p)
    BY <1>5, Updates, Zenon
  <2> QED
    BY <2>1, SMT DEF MovedTo, SuccessPcs
<1>6. CASE \/ UseJob(r, dedup.job)
           \/ Plan(r, dedup.job, jobs[dedup.job].count)
           \/ Hold(r, MyJob(r).fence + 1)
           \/ NextRound(r)
  <2>1. calls'[r].out = calls[r].out /\ calls'[r].pc \in {"enqueue", "claim", "attempt"}
    BY <1>6, Updates, Zenon
  <2> QED
    BY <2>1, SMT DEF SuccessPcs
<1> QED
  BY LocalsChange, <1>1, <1>2, <1>3, <1>4, <1>5, <1>6, Zenon

LEMMA EffectStep ==
  ASSUME TypeInv, EffectInv, HandlerErrorsAssumption, NEW r \in Deliveries, Deliver(r)
  PROVE  EffectInv'
<1> CallsOK
  BY DEF TypeInv, TypeOK, CallsOK
<1>1. effects # {} => effects' # {}
  BY EffectsChange, SMT
<1>2. At(r, "dedupComplete") => effects # {}
  BY SMT DEF EffectInv, SuccessPcs, At
<1>3. dedup'.state = "COMPLETED" => effects # {}
  <2>1. CASE UNCHANGED dedup
    BY <2>1, SMT DEF EffectInv, AnsweredOnlyAfterEffect
  <2>2. CASE At(r, "dedupComplete")
    BY <1>2, <2>2
  <2>3. CASE InsertRecord(r) \/ ReopenRecord(r) \/ SetState("OUTCOME_UNKNOWN") \/ SetState("FAILED")
    <3>1. dedup \in DedupRow
      BY DEF TypeInv, TypeOK
    <3>2. CASE InsertRecord(r)
      BY <3>2, SMT DEF InsertRecord
    <3>3. CASE ReopenRecord(r)
      BY <3>1, <3>3, SMT DEF ReopenRecord, DedupRow
    <3>4. CASE SetState("OUTCOME_UNKNOWN") \/ SetState("FAILED")
      BY <3>1, <3>4, SMT DEF SetState, DedupRow
    <3> QED
      BY <2>3, <3>2, <3>3, <3>4
  <2> QED
    BY DedupChange, <2>1, <2>2, <2>3, Zenon
<1>4. \A s \in Deliveries :
        calls'[s].pc \in SuccessPcs \/ calls'[s].out \in {"processed", "duplicate"}
          => effects # {}
  BY OthersKeep, OwnOutcome, <1>2, SMT DEF EffectInv, AnsweredOnlyAfterEffect
<1> QED
  BY <1>1, <1>3, <1>4, SMT DEF EffectInv, AnsweredOnlyAfterEffect

LEMMA EffectEnvironment ==
  ASSUME TypeInv, EffectInv, Environment
  PROVE  EffectInv'
<1>1. effects \subseteq effects'
  BY Zenon DEF Environment, LeaseExpires, RetryDue, Crash, OrphanActs, OrphanEnds,
     RecoverExpiredLeases, Reconcile
<1>2. dedup'.state = "COMPLETED" => effects # {}
  <2>1. CASE UNCHANGED dedup
    BY <2>1, SMT DEF EffectInv, AnsweredOnlyAfterEffect
  <2>2. CASE RecoverExpiredLeases
    <3>1. dedup' = dedup \/ dedup' = [dedup EXCEPT !.state = "OUTCOME_UNKNOWN"]
      BY <2>2, Zenon DEF RecoverExpiredLeases
    <3>2. dedup \in DedupRow
      BY DEF TypeInv, TypeOK
    <3> QED
      BY <3>1, <3>2, SMT DEF EffectInv, AnsweredOnlyAfterEffect, DedupRow
  <2>3. CASE Reconcile
    BY <2>3, SMT DEF Reconcile, SetState, TypeInv, TypeOK, DedupRow
  <2> QED
    BY <2>1, <2>2, <2>3, Zenon DEF Environment, LeaseExpires, RetryDue, Crash, OrphanActs,
       OrphanEnds
<1>3. \A r \in Deliveries : /\ calls'[r].pc \in SuccessPcs => calls[r].pc \in SuccessPcs
                            /\ calls'[r].out = calls[r].out
  <2> SUFFICES ASSUME NEW r \in Deliveries
               PROVE  /\ calls'[r].pc \in SuccessPcs => calls[r].pc \in SuccessPcs
                      /\ calls'[r].out = calls[r].out
    OBVIOUS
  <2>1. calls[r] \in Call
    BY DEF TypeInv, TypeOK
  <2>2. CASE calls'[r] = [calls[r] EXCEPT !.pc = "crashed"]
    BY <2>1, <2>2, SMT DEF Call, SuccessPcs
  <2> QED
    BY <2>2, EnvironmentCalls
<1> QED
  BY <1>1, <1>2, <1>3, SMT DEF EffectInv, AnsweredOnlyAfterEffect

\* No caller, duplicate or record says processed before the handler acted,
\* with any number of deliveries, lost connections and crashes.
THEOREM AnswersAreTrue == Spec => []AnsweredOnlyAfterEffect
<1>1. Init => EffectInv
  BY SMT DEF Init, EffectInv, AnsweredOnlyAfterEffect, SuccessPcs, NoCall
<1>2. ASSUME TypeInv, EffectInv, [Next]_vars
      PROVE  EffectInv'
  <2>1. CASE \E r \in Deliveries : Deliver(r)
    BY <1>2, <2>1, EffectStep, HandlerErrorsAssumption
  <2>2. CASE Environment
    BY <1>2, <2>2, EffectEnvironment
  <2>3. CASE UNCHANGED vars
    BY <1>2, <2>3, SMT DEF vars, EffectInv, AnsweredOnlyAfterEffect
  <2> QED
    BY <1>2, <2>1, <2>2, <2>3, Zenon DEF Next, Environment
<1>3. EffectInv => AnsweredOnlyAfterEffect
  BY DEF EffectInv
<1> QED
  BY <1>1, <1>2, <1>3, RunInvariant, PTL DEF Spec
-----------------------------------------------------------------------------
(* The attempts of a job                                                    *)

JobOf(r) == calls[r].job

\* A delivery without a plan yet, one whose attempt is in the table, and one
\* whose attempt has not ended its job.
EarlyPcs == {"idle", "read", "reopen", "poll", "lookup", "enqueue", "findJob"}
StartedPcs == ClaimedPcs \ {"attempt"}
OngoingPcs == {"attempt", "dispatch", "handler", "attemptOk", "complete", "attemptFail",
               "retry", "terminal"}

\* Where a delivery's plan, its attempt and the end of that attempt come from.
LEMMA OwnAttempt ==
  ASSUME CallsOK, HandlerErrorsAssumption, NEW r \in Deliveries, Deliver(r)
  PROVE  /\ calls'[r].pc \in EarlyPcs =>
              calls[r].pc \in EarlyPcs /\ calls'[r].index = calls[r].index
         /\ calls'[r].pc = "claim" =>
              \/ /\ At(r, "findJob") /\ jobs[dedup.job].status # "absent"
                 /\ ~(jobs[dedup.job].count >= MaxAttempts)
                 /\ calls'[r].job = dedup.job /\ calls'[r].prior = jobs[dedup.job].count
                 /\ calls'[r].index = calls[r].index
              \/ /\ At(r, "retry") /\ HoldsLease(r) /\ EndJob(r, "retryable")
                 /\ calls'[r].job = calls[r].job /\ calls'[r].prior = calls[r].prior
                 /\ calls'[r].index = calls[r].index + 1
         /\ calls'[r].pc \in StartedPcs =>
              /\ SameClaim(r)
              /\ \/ calls[r].pc \in StartedPcs \ {"postUnknown", "retry", "terminal"}
                 \/ At(r, "attempt") /\ FreshAttempt(r) /\ InsertAttempt(r)
         /\ calls'[r].pc = "attempt" => At(r, "claim")
         /\ calls'[r].pc = "retry" =>
              /\ At(r, "attemptFail") /\ CanRetry(r)
              /\ AttemptOpen(r) /\ CloseAttempt(r, "failed")
         /\ calls'[r].pc \in {"complete", "readBack"} =>
              \/ At(r, "complete")
              \/ At(r, "attemptOk") /\ AttemptOpen(r) /\ CloseAttempt(r, "succeeded")
         /\ calls'[r].pc \in OngoingPcs =>
              calls[r].pc \in (OngoingPcs \ {"complete", "retry", "terminal"}) \cup {"claim"}
<1> USE DEF At, MovedTo, SameClaim, EarlyPcs, StartedPcs, OngoingPcs, ClaimedPcs
<1>1. CASE At(r, "handler") /\ UNCHANGED calls
  BY <1>1, SMT
<1>2. CASE \E p \in Pcs :
             /\ Goto(r, p) /\ Edge(calls[r].pc, p)
             /\ p = "dispatch" => FreshAttempt(r) /\ InsertAttempt(r)
             /\ p = "retry" => CanRetry(r) /\ AttemptOpen(r) /\ CloseAttempt(r, "failed")
             /\ p = "complete" => AttemptOpen(r) /\ CloseAttempt(r, "succeeded")
  <2>1. PICK p \in Pcs :
          /\ MovedTo(r, p) /\ Edge(calls[r].pc, p)
          /\ p = "dispatch" => FreshAttempt(r) /\ InsertAttempt(r)
          /\ p = "retry" => CanRetry(r) /\ AttemptOpen(r) /\ CloseAttempt(r, "failed")
          /\ p = "complete" => AttemptOpen(r) /\ CloseAttempt(r, "succeeded")
    BY <1>2, Updates, Zenon
  <2> QED
    BY <2>1, SMT DEF Edge
<1>3. CASE \E e \in Errors : Throw(r, e)
  <2>1. PICK p \in {"mark", "fail"} : MovedTo(r, p)
    BY <1>3, Updates, Zenon
  <2> QED
    BY <2>1, SMT
<1>4. CASE \E o \in Outcomes : Return(r, o)
  <2>1. calls'[r].pc = "done"
    BY <1>4, Updates, Zenon
  <2> QED
    BY <2>1, SMT
<1>5. CASE /\ At(r, "idle") \/ At(r, "reopen")
           /\ \E n : Own(r, n)
  <2>1. MovedTo(r, "lookup")
    BY <1>5, Updates, Zenon
  <2> QED
    BY <1>5, <2>1, SMT
<1>6. CASE At(r, "lookup") /\ UseJob(r, dedup.job)
  <2>1. calls'[r].pc = "enqueue" /\ calls'[r].index = calls[r].index
    BY <1>6, Updates, Zenon
  <2> QED
    BY <1>6, <2>1, SMT
<1>7. CASE /\ At(r, "findJob") /\ jobs[dedup.job].status # "absent"
           /\ ~(jobs[dedup.job].count >= MaxAttempts)
           /\ Plan(r, dedup.job, jobs[dedup.job].count)
  <2>1. /\ calls'[r].pc = "claim" /\ calls'[r].job = dedup.job
        /\ calls'[r].prior = jobs[dedup.job].count /\ calls'[r].index = calls[r].index
    <3>1. Plan(r, dedup.job, jobs[dedup.job].count)
      BY <1>7
    <3> QED
      BY <3>1, Updates
  <2>2. /\ calls'[r].pc \notin EarlyPcs /\ calls'[r].pc \notin StartedPcs
        /\ calls'[r].pc \notin OngoingPcs
        /\ calls'[r].pc # "attempt" /\ calls'[r].pc # "retry"
        /\ calls'[r].pc \notin {"complete", "readBack"}
    BY <2>1, SMT
  <2> HIDE DEF EarlyPcs, StartedPcs, OngoingPcs
  <2> QED
    BY <1>7, <2>1, <2>2, Zenon
<1>8. CASE At(r, "claim") /\ Hold(r, MyJob(r).fence + 1)
  <2>1. calls'[r].pc = "attempt"
    BY <1>8, Updates, Zenon
  <2> QED
    BY <1>8, <2>1, SMT
<1>9. CASE (At(r, "dispatch") \/ At(r, "handler")) /\ \E e \in Errors : GiveUp(r, e)
  <2>1. MovedTo(r, "attemptFail")
    BY <1>9, Updates, Zenon
  <2> QED
    BY <1>9, <2>1, SMT
<1>10. CASE At(r, "retry") /\ HoldsLease(r) /\ EndJob(r, "retryable") /\ NextRound(r)
  <2>1. /\ calls'[r].pc = "claim" /\ calls'[r].job = calls[r].job
        /\ calls'[r].prior = calls[r].prior /\ calls'[r].index = calls[r].index + 1
    BY <1>10, Updates, Zenon
  <2> QED
    BY <1>10, <2>1, SMT
<1> HIDE DEF At, MovedTo, SameClaim, EarlyPcs, StartedPcs, OngoingPcs, ClaimedPcs
<1> QED
  BY LocalsChange, <1>1, <1>2, <1>3, <1>4, <1>5, <1>6, <1>7, <1>8, <1>9, <1>10, Zenon

\* A number that was used stays used, with the fence it was used under.
Keeps(j) ==
  \A a \in attempts[j] : \E b \in attempts'[j] : b.no = a.no /\ b.fence = a.fence

\* The attempts of a job change in one step of a delivery: it adds a number
\* nobody used, or closes the attempt it runs.
MyEnd(r, st) == [no |-> AttemptNo(r), fence |-> calls[r].lease, status |-> st]

LEMMA AttemptStep ==
  ASSUME TypeInv, NEW r \in Deliveries, Deliver(r), NEW j \in Deliveries,
         attempts'[j] # attempts[j]
  PROVE  /\ j = JobOf(r)
         /\ \/ /\ At(r, "attempt") /\ FreshAttempt(r)
               /\ attempts'[j] = attempts[j] \cup {MyAttempt(r)}
            \/ /\ At(r, "attemptOk") /\ AttemptOpen(r)
               /\ attempts'[j] = (attempts[j] \ {MyAttempt(r)}) \cup {MyEnd(r, "succeeded")}
            \/ /\ At(r, "attemptFail") /\ AttemptOpen(r)
               /\ attempts'[j] = (attempts[j] \ {MyAttempt(r)}) \cup {MyEnd(r, "failed")}
<1>1. attempts \in [Deliveries -> SUBSET Attempt]
  BY DEF TypeInv, TypeOK
<1>2. CASE At(r, "attempt") /\ FreshAttempt(r) /\ InsertAttempt(r)
  BY <1>1, <1>2, Zenon DEF InsertAttempt, MyAttempt, JobOf
<1>3. \A st : [MyAttempt(r) EXCEPT !.status = st] = MyEnd(r, st)
  BY SMT DEF MyAttempt, MyEnd
<1>4. CASE At(r, "attemptOk") /\ AttemptOpen(r) /\ CloseAttempt(r, "succeeded")
  BY <1>1, <1>3, <1>4, Zenon DEF CloseAttempt, JobOf
<1>5. CASE At(r, "attemptFail") /\ AttemptOpen(r) /\ CloseAttempt(r, "failed")
  BY <1>1, <1>3, <1>5, Zenon DEF CloseAttempt, JobOf
<1> QED
  BY AttemptsChange, <1>2, <1>4, <1>5, Zenon

LEMMA NumbersStay ==
  ASSUME TypeInv, NEW r \in Deliveries, Deliver(r), NEW j \in Deliveries
  PROVE  Keeps(j)
<1>1. CASE attempts'[j] = attempts[j]
  BY <1>1 DEF Keeps
<1>2. CASE attempts'[j] = attempts[j] \cup {MyAttempt(r)}
  BY <1>2 DEF Keeps
<1>3. ASSUME NEW st,
             attempts'[j] = (attempts[j] \ {MyAttempt(r)}) \cup {MyEnd(r, st)}
      PROVE  Keeps(j)
  <2>1. MyEnd(r, st).no = MyAttempt(r).no /\ MyEnd(r, st).fence = MyAttempt(r).fence
    BY DEF MyEnd, MyAttempt
  <2> QED
    BY <1>3, <2>1 DEF Keeps
<1> QED
  BY AttemptStep, <1>1, <1>2, <1>3, Zenon

LEMMA NewAttempts ==
  ASSUME TypeInv, NEW r \in Deliveries, Deliver(r), NEW j \in Deliveries
  PROVE  \A a \in attempts'[j] : a \in attempts[j] \/ \E st : a = MyEnd(r, st)
<1>1. MyAttempt(r) = MyEnd(r, "running")
  BY DEF MyAttempt, MyEnd
<1>2. CASE attempts'[j] = attempts[j] \cup {MyAttempt(r)}
  BY <1>1, <1>2
<1>3. ASSUME NEW st, attempts'[j] = (attempts[j] \ {MyAttempt(r)}) \cup {MyEnd(r, st)}
      PROVE  \A a \in attempts'[j] : a \in attempts[j] \/ a = MyEnd(r, st)
  BY <1>3
<1> QED
  BY AttemptStep, <1>2, <1>3, Zenon

\* Another delivery's step leaves the job of a claimed delivery to it.
LEMMA OthersJob ==
  ASSUME TypeInv, RunInv, HandlerErrorsAssumption, NEW r \in Deliveries, Deliver(r),
         NEW s \in Deliveries, s # r, Claimed(s)
  PROVE  /\ JobOf(s) \in Deliveries
         /\ jobs'[JobOf(s)] = jobs[JobOf(s)] /\ attempts'[JobOf(s)] = attempts[JobOf(s)]
<1>1. JobOf(s) \in Deliveries
  BY SMT DEF TypeInv, RowsPresent, Claimed, JobOf
<1>2. Claimed(r) => JobOf(r) # JobOf(s)
  BY DEF RunInv, OneRunnerPerJob, JobOf
<1>3. jobs'[JobOf(s)] = jobs[JobOf(s)]
  BY <1>1, <1>2, JobStep, SMT DEF RunInv, Claimed, ClaimedPcs, At, JobOf
<1>4. attempts'[JobOf(s)] = attempts[JobOf(s)]
  BY <1>1, <1>2, AttemptStep, SMT DEF Claimed, ClaimedPcs, At
<1> QED
  BY <1>1, <1>3, <1>4

-----------------------------------------------------------------------------
(* The retry budget                                                         *)

\* The number a delivery is to use is at most the next one and within the
\* policy: the count it planned with only grows.  Once it is in the table, the
\* job counts it when it ends, so every counted number is in the table; a
\* number that is not there yet is therefore the next one.
Planned(r) ==
  calls[r].pc \in ClaimedPcs \cup {"claim"} =>
    /\ jobs[JobOf(r)].status # "absent"
    /\ AttemptNo(r) \in 1..MaxAttempts
    /\ AttemptNo(r) <= jobs[JobOf(r)].count + 1
Numbered(r) ==
  calls[r].pc \in StartedPcs =>
    /\ \E a \in attempts[JobOf(r)] : a.no = AttemptNo(r)
    /\ jobs[JobOf(r)].status = "running" => AttemptNo(r) = jobs[JobOf(r)].count + 1
MayRetry(r) == calls[r].pc = "retry" => AttemptNo(r) < MaxAttempts
CountedNumbers(j) ==
  /\ jobs[j].count <= MaxAttempts
  /\ \A n \in 1..jobs[j].count : \E a \in attempts[j] : a.no = n
  /\ jobs[j].status = "absent" => jobs[j].count = 0 /\ attempts[j] = {}

BudgetInv ==
  /\ RetryBudget
  /\ \A r \in Deliveries :
       /\ calls[r].pc \in EarlyPcs => calls[r].index = 0
       /\ Planned(r) /\ Numbered(r) /\ MayRetry(r)
  /\ \A j \in Deliveries : CountedNumbers(j)

LEMMA BudgetInit == Init => BudgetInv
BY MaxAttemptsAssumption, SMT
DEF Init, BudgetInv, RetryBudget, Planned, Numbered, MayRetry, CountedNumbers, EarlyPcs,
  StartedPcs, ClaimedPcs, NoCall, NoJob, JobOf

\* The numbers a step meets: of the deliveries and the jobs.
LEMMA Numbers ==
  ASSUME TypeInv
  PROVE  /\ \A r \in Deliveries : /\ calls[r].prior \in Nat /\ calls[r].index \in Nat
                                 /\ calls[r].lease \in Nat /\ AttemptNo(r) \in Nat
         /\ \A j \in Deliveries : jobs[j].count \in Nat /\ jobs[j].fence \in Nat
         /\ \A j \in Deliveries : \A a \in attempts[j] : a.no \in Nat /\ a.fence \in Nat
<1>1. \A r \in Deliveries : calls[r].prior \in Nat /\ calls[r].index \in Nat /\ calls[r].lease \in Nat
  BY SMT DEF TypeInv, TypeOK, Call
<1>2. \A j \in Deliveries : jobs[j].count \in Nat /\ jobs[j].fence \in Nat
  BY SMT DEF TypeInv, TypeOK, JobRow
<1>3. \A j \in Deliveries : \A a \in attempts[j] : a.no \in Nat /\ a.fence \in Nat
  BY SMT DEF TypeInv, TypeOK, Attempt
<1> QED
  BY <1>1, <1>2, <1>3, SMT DEF AttemptNo

\* A job's count does not fall, and a job does not disappear.
LEMMA CountGrows ==
  ASSUME TypeInv, BudgetInv, NEW r \in Deliveries, Deliver(r), NEW j \in Deliveries
  PROVE  /\ jobs'[j].count \in Nat /\ jobs'[j].count >= jobs[j].count
         /\ jobs[j].status # "absent" => jobs'[j].status # "absent"
<1>1. jobs[j].count \in Nat /\ (jobs[j].status = "absent" => jobs[j].count = 0)
  BY Numbers DEF BudgetInv, CountedNumbers
<1>2. CASE jobs'[j] = jobs[j]
  BY <1>1, <1>2, SMT
<1>3. CASE jobs'[j] # jobs[j]
  BY <1>1, <1>3, JobStep, SMT
<1> QED
  BY <1>2, <1>3

\* The plan of a delivery that did not move.
LEMMA OthersPlan ==
  ASSUME TypeInv, RunInv, BudgetInv, HandlerErrorsAssumption, NEW r \in Deliveries, Deliver(r),
         NEW s \in Deliveries, s # r
  PROVE  /\ calls'[s].pc \in EarlyPcs => calls'[s].index = 0
         /\ Planned(s)' /\ Numbered(s)' /\ MayRetry(s)'
<1>0. calls'[s] = calls[s]
  BY OthersKeep DEF TypeInv, TypeOK, CallsOK
<1>1. AttemptNo(s)' = AttemptNo(s) /\ JobOf(s)' = JobOf(s)
  BY <1>0 DEF AttemptNo, JobOf
<1>2. calls[s].pc \in EarlyPcs => calls[s].index = 0
  BY DEF BudgetInv
<1>3. Planned(s)'
  <2> SUFFICES ASSUME calls[s].pc \in ClaimedPcs \cup {"claim"}
               PROVE  /\ jobs'[JobOf(s)].status # "absent"
                      /\ AttemptNo(s) \in 1..MaxAttempts
                      /\ AttemptNo(s) <= jobs'[JobOf(s)].count + 1
    BY <1>0, <1>1 DEF Planned
  <2>1. JobOf(s) \in Deliveries
    BY SMT DEF TypeInv, RowsPresent, JobOf
  <2>2. /\ jobs[JobOf(s)].status # "absent" /\ AttemptNo(s) \in 1..MaxAttempts
        /\ AttemptNo(s) <= jobs[JobOf(s)].count + 1
    BY DEF BudgetInv, Planned
  <2> QED
    BY <2>1, <2>2, Numbers, CountGrows, MaxAttemptsAssumption, SMT
<1>4. Numbered(s)'
  <2> SUFFICES ASSUME calls[s].pc \in StartedPcs
               PROVE  /\ \E a \in attempts'[JobOf(s)] : a.no = AttemptNo(s)
                      /\ jobs'[JobOf(s)].status = "running" =>
                           AttemptNo(s) = jobs'[JobOf(s)].count + 1
    BY <1>0, <1>1 DEF Numbered
  <2>1. Claimed(s)
    BY DEF Claimed, StartedPcs
  <2> QED
    BY <2>1, OthersJob DEF BudgetInv, Numbered
<1>5. MayRetry(s)'
  BY <1>0, <1>1 DEF BudgetInv, MayRetry
<1> QED
  BY <1>0, <1>2, <1>3, <1>4, <1>5

\* The plan of the delivery that moves.
LEMMA OwnPlan ==
  ASSUME TypeInv, RunInv, BudgetInv, HandlerErrorsAssumption, NEW r \in Deliveries, Deliver(r)
  PROVE  /\ calls'[r].pc \in EarlyPcs => calls'[r].index = 0
         /\ Planned(r)' /\ Numbered(r)' /\ MayRetry(r)'
<1> CallsOK
  BY DEF TypeInv, TypeOK, CallsOK
<1>1. calls'[r].pc \in EarlyPcs => calls'[r].index = 0
  BY OwnAttempt DEF BudgetInv
<1>2. SameClaim(r) => AttemptNo(r)' = AttemptNo(r) /\ JobOf(r)' = JobOf(r)
  BY DEF SameClaim, AttemptNo, JobOf
<1>3. calls[r].pc \in ClaimedPcs \cup {"claim"} =>
        /\ JobOf(r) \in Deliveries /\ jobs[JobOf(r)].status # "absent"
        /\ AttemptNo(r) \in 1..MaxAttempts /\ AttemptNo(r) <= jobs[JobOf(r)].count + 1
  BY SMT DEF BudgetInv, Planned, TypeInv, RowsPresent, JobOf
\* Where the count stands after the step.
<1>4. calls[r].pc \in ClaimedPcs \cup {"claim"} =>
        /\ jobs'[JobOf(r)].status # "absent"
        /\ AttemptNo(r) <= jobs'[JobOf(r)].count + 1
  BY <1>3, Numbers, CountGrows, MaxAttemptsAssumption, SMT
<1>5. Planned(r)'
  <2>1. CASE calls'[r].pc = "claim" /\ At(r, "findJob")
    <3>1. /\ dedup.job \in Deliveries /\ JobOf(r)' = dedup.job
          /\ jobs[dedup.job].status # "absent" /\ jobs[dedup.job].count < MaxAttempts
      BY <2>1, OwnAttempt, Numbers, MaxAttemptsAssumption, SMT
      DEF TypeInv, RowsPresent, At, JobOf
    <3>2. calls[r].index = 0
      BY <2>1, SMT DEF BudgetInv, EarlyPcs, At
    <3>3. AttemptNo(r)' = jobs[dedup.job].count + 1
      BY <2>1, <3>1, <3>2, OwnAttempt, Numbers, SMT DEF AttemptNo, At
    <3>4. /\ jobs'[dedup.job].status # "absent" /\ jobs'[dedup.job].count \in Nat
          /\ jobs'[dedup.job].count >= jobs[dedup.job].count
      BY <3>1, CountGrows
    <3> QED
      BY <3>1, <3>3, <3>4, Numbers, MaxAttemptsAssumption, SMT DEF Planned
  <2>2. CASE calls'[r].pc = "claim" /\ At(r, "retry")
    <3>1. /\ HoldsLease(r) /\ EndJob(r, "retryable") /\ JobOf(r)' = JobOf(r)
          /\ AttemptNo(r)' = AttemptNo(r) + 1
      BY <2>2, OwnAttempt, Numbers, SMT DEF At, AttemptNo, JobOf
    <3>2. JobOf(r) \in Deliveries /\ AttemptNo(r) < MaxAttempts
      BY <1>3, <2>2, SMT DEF BudgetInv, MayRetry, At, ClaimedPcs
    <3>3. jobs'[JobOf(r)].count = jobs[JobOf(r)].count + 1 /\ jobs'[JobOf(r)].status # "absent"
      BY <3>1, <3>2, JobUpdates, SMT DEF JobOf, TypeInv, TypeOK, JobsOK
    <3> QED
      BY <1>3, <2>2, <3>1, <3>2, <3>3, Numbers, MaxAttemptsAssumption, SMT
      DEF Planned, At, ClaimedPcs
  <2>3. CASE Claimed(r)'
    <3>1. /\ calls[r].pc \in ClaimedPcs \cup {"claim"}
          /\ AttemptNo(r)' = AttemptNo(r) /\ JobOf(r)' = JobOf(r)
      BY <1>2, <2>3, OwnJob, SMT DEF Claimed, At, AttemptNo, JobOf
    <3> QED
      BY <1>3, <1>4, <3>1 DEF Planned
  <2> QED
    BY <2>1, <2>2, <2>3, OwnAttempt, SMT DEF Planned, Claimed
<1>6. Numbered(r)'
  <2> SUFFICES ASSUME calls'[r].pc \in StartedPcs
               PROVE  /\ \E a \in attempts'[JobOf(r)] : a.no = AttemptNo(r)
                      /\ jobs'[JobOf(r)].status = "running" =>
                           AttemptNo(r) = jobs'[JobOf(r)].count + 1
    BY <1>2, OwnAttempt DEF Numbered
  <2>1. calls[r].pc \in ClaimedPcs /\ JobOf(r) \in Deliveries
    BY <1>3, OwnAttempt, SMT DEF StartedPcs, ClaimedPcs, At
  <2>2. jobs'[JobOf(r)].status = "running" => jobs'[JobOf(r)] = jobs[JobOf(r)]
    BY <2>1, JobStep, SMT DEF At, ClaimedPcs
  <2>3. CASE calls[r].pc \in StartedPcs
    <3>1. /\ \E a \in attempts[JobOf(r)] : a.no = AttemptNo(r)
          /\ jobs[JobOf(r)].status = "running" => AttemptNo(r) = jobs[JobOf(r)].count + 1
      BY <2>3 DEF BudgetInv, Numbered
    <3>2. \E a \in attempts'[JobOf(r)] : a.no = AttemptNo(r)
      BY <2>1, <3>1, NumbersStay DEF Keeps
    <3> QED
      BY <2>2, <3>1, <3>2
  <2>4. CASE At(r, "attempt") /\ FreshAttempt(r) /\ InsertAttempt(r)
    <3>1. attempts'[JobOf(r)] = attempts[JobOf(r)] \cup {MyAttempt(r)}
      BY <2>1, <2>4, Zenon DEF InsertAttempt, MyAttempt, JobOf, TypeInv, TypeOK
    <3>2. MyAttempt(r).no = AttemptNo(r)
      BY DEF MyAttempt
    \* Every number up to the count is taken, so a free one is past it.
    <3>3. AttemptNo(r) \notin 1..jobs[JobOf(r)].count
      BY <2>1, <2>4 DEF BudgetInv, CountedNumbers, FreshAttempt, JobOf
    <3>4. AttemptNo(r) = jobs[JobOf(r)].count + 1
      BY <1>3, <2>1, <3>3, Numbers, MaxAttemptsAssumption, SMT
    <3> QED
      BY <2>2, <3>1, <3>2, <3>4
  <2> QED
    BY <2>3, <2>4, OwnAttempt, SMT DEF StartedPcs
<1>7. MayRetry(r)'
  <2> SUFFICES ASSUME calls'[r].pc = "retry" PROVE AttemptNo(r)' < MaxAttempts
    BY DEF MayRetry
  <2>1. CanRetry(r) /\ SameClaim(r)
    BY OwnAttempt, SMT DEF StartedPcs, ClaimedPcs
  <2> QED
    BY <1>2, <2>1 DEF CanRetry
<1> QED
  BY <1>1, <1>5, <1>6, <1>7

\* A job that ends counts a number of the policy that is in the table.
LEMMA JobNumbers ==
  ASSUME TypeInv, RunInv, BudgetInv, HandlerErrorsAssumption, NEW r \in Deliveries, Deliver(r),
         NEW j \in Deliveries
  PROVE  CountedNumbers(j)'
<1>1. /\ jobs[j].count \in Nat /\ jobs[j].count <= MaxAttempts
      /\ \A n \in 1..jobs[j].count : \E a \in attempts[j] : a.no = n
      /\ jobs[j].status = "absent" => jobs[j].count = 0 /\ attempts[j] = {}
  BY Numbers DEF BudgetInv, CountedNumbers
<1>2. \A n \in 1..jobs[j].count : \E a \in attempts'[j] : a.no = n
  BY <1>1, NumbersStay DEF Keeps
<1>3. CASE jobs'[j].count = jobs[j].count
  <2>1. ASSUME jobs'[j].status = "absent" PROVE attempts'[j] = {}
    <3>1. jobs[j].status = "absent"
      BY <2>1, CountGrows
    <3>2. calls[r].pc \in ClaimedPcs => JobOf(r) # j
      BY <3>1, SMT DEF BudgetInv, Planned
    <3>3. attempts'[j] = attempts[j]
      BY <3>2, AttemptStep, SMT DEF At, ClaimedPcs
    <3> QED
      BY <1>1, <3>1, <3>3
  <2>2. jobs'[j].status = "absent" => jobs[j].status = "absent"
    BY CountGrows
  <2> QED
    BY <1>1, <1>2, <1>3, <2>1, <2>2 DEF CountedNumbers
<1>4. CASE jobs'[j].count # jobs[j].count
  <2>1. /\ j = JobOf(r) /\ HoldsLease(r)
        /\ jobs'[j].count = jobs[j].count + 1
        /\ At(r, "complete") \/ At(r, "postUnknown") \/ At(r, "retry") \/ At(r, "terminal")
        /\ jobs'[j].status # "absent"
    BY <1>1, <1>4, JobStep, SMT DEF JobOf
  <2>2. calls[r].pc \in StartedPcs /\ jobs[j].status = "running"
    BY <2>1, SMT DEF At, StartedPcs, ClaimedPcs, HoldsLease, MyJob, JobOf
  <2>3. AttemptNo(r) = jobs[j].count + 1 /\ \E a \in attempts[j] : a.no = AttemptNo(r)
    BY <2>1, <2>2 DEF BudgetInv, Numbered
  <2>4. AttemptNo(r) \in 1..MaxAttempts
    BY <2>2 DEF BudgetInv, Planned, StartedPcs
  <2>5. \E a \in attempts'[j] : a.no = AttemptNo(r)
    BY <2>3, NumbersStay DEF Keeps
  <2>6. \A n \in 1..jobs'[j].count : \E a \in attempts'[j] : a.no = n
    <3> SUFFICES ASSUME NEW n \in 1..(jobs[j].count + 1)
                 PROVE  \E a \in attempts'[j] : a.no = n
      BY <2>1
    <3>1. CASE n \in 1..jobs[j].count
      BY <1>2, <3>1
    <3>2. CASE n = jobs[j].count + 1
      BY <2>3, <2>5, <3>2
    <3> QED
      BY <1>1, <3>1, <3>2, SMT
  <2> QED
    BY <1>1, <2>1, <2>3, <2>4, <2>6, MaxAttemptsAssumption, SMT DEF CountedNumbers
<1> QED
  BY <1>3, <1>4

LEMMA BudgetStep ==
  ASSUME TypeInv, RunInv, BudgetInv, HandlerErrorsAssumption, NEW r \in Deliveries, Deliver(r)
  PROVE  BudgetInv'
<1>1. ASSUME NEW j \in Deliveries
      PROVE  \A a, b \in attempts'[j] : a.no \in 1..MaxAttempts /\ (a.no = b.no => a = b)
  <2>0. \A a, b \in attempts[j] : a.no \in 1..MaxAttempts /\ (a.no = b.no => a = b)
    BY DEF BudgetInv, RetryBudget
  <2>1. CASE attempts'[j] = attempts[j]
    BY <2>0, <2>1
  <2>2. CASE /\ j = JobOf(r) /\ At(r, "attempt") /\ FreshAttempt(r)
             /\ attempts'[j] = attempts[j] \cup {MyAttempt(r)}
    <3>1. MyAttempt(r).no = AttemptNo(r) /\ AttemptNo(r) \in 1..MaxAttempts
      BY <2>2, SMT DEF MyAttempt, BudgetInv, Planned, At, ClaimedPcs
    <3>2. \A a \in attempts[j] : a.no # AttemptNo(r)
      BY <2>2 DEF FreshAttempt, JobOf
    <3> QED
      BY <2>0, <2>2, <3>1, <3>2, Zenon
  <2>3. ASSUME NEW st, j = JobOf(r), AttemptOpen(r),
               attempts'[j] = (attempts[j] \ {MyAttempt(r)}) \cup {MyEnd(r, st)}
        PROVE  \A a, b \in attempts'[j] : a.no \in 1..MaxAttempts /\ (a.no = b.no => a = b)
    <3>1. MyAttempt(r) \in attempts[j] /\ MyAttempt(r).no = MyEnd(r, st).no
      BY <2>3 DEF AttemptOpen, JobOf, MyAttempt, MyEnd
    <3> QED
      BY <2>0, <2>3, <3>1, Zenon
  <2> QED
    BY <2>1, <2>2, <2>3, AttemptStep, Zenon
<1>2. \A j \in Deliveries : CountedNumbers(j)'
  BY JobNumbers
<1>3. RetryBudget'
  BY <1>1, <1>2 DEF RetryBudget, CountedNumbers
<1> QED
  BY <1>2, <1>3, OthersPlan, OwnPlan DEF BudgetInv

\* Recovery closes attempts of expired jobs and keeps everything else of them.
LEMMA EnvironmentAttempts ==
  ASSUME TypeInv, Environment, NEW j \in Deliveries, attempts'[j] # attempts[j]
  PROVE  /\ Expired(j)
         /\ attempts'[j] = {IF a.fence = jobs[j].fence /\ a.status = "running"
                            THEN [no |-> a.no, fence |-> a.fence, status |-> "failed"]
                            ELSE a : a \in attempts[j]}
<1>1. RecoverExpiredLeases
  BY Zenon DEF Environment, LeaseExpires, RetryDue, Crash, OrphanActs, OrphanEnds, Reconcile
<1>2. /\ Expired(j)
      /\ attempts'[j] = {IF a.fence = jobs[j].fence /\ a.status = "running"
                         THEN [a EXCEPT !.status = "failed"] ELSE a : a \in attempts[j]}
  BY <1>1, Zenon DEF RecoverExpiredLeases
<1>3. \A a \in attempts[j] :
        [a EXCEPT !.status = "failed"] = [no |-> a.no, fence |-> a.fence, status |-> "failed"]
  BY SMT DEF TypeInv, TypeOK, Attempt
<1> QED
  BY <1>2, <1>3, Zenon

\* Recovery keeps the numbers and the fences, and fails only what it closes.
LEMMA RecoveredAttempts ==
  ASSUME TypeInv, Environment, NEW j \in Deliveries
  PROVE  /\ Keeps(j)
         /\ \A b \in attempts'[j] :
              b \in attempts[j]
              \/ /\ b.status = "failed" /\ Expired(j)
                 /\ \E a \in attempts[j] : a.no = b.no /\ a.fence = b.fence /\ a.status = "running"
         /\ \A a \in attempts[j] : a.status # "running" => a \in attempts'[j]
         /\ (\A a, b \in attempts[j] : a.no = b.no => a = b) =>
              \A a, b \in attempts'[j] : a.no = b.no => a = b
<1>1. CASE attempts'[j] = attempts[j]
  BY <1>1 DEF Keeps
<1>2. CASE attempts'[j] # attempts[j]
  <2> DEFINE Closes(a) == a.fence = jobs[j].fence /\ a.status = "running"
             Failed(a) == [no |-> a.no, fence |-> a.fence, status |-> "failed"]
             After(a) == IF Closes(a) THEN Failed(a) ELSE a
  <2>1. Expired(j) /\ attempts'[j] = {After(a) : a \in attempts[j]}
    BY <1>2, EnvironmentAttempts
  <2>2. \A a \in attempts[j] : /\ Failed(a).no = a.no /\ Failed(a).fence = a.fence
                               /\ Failed(a).status = "failed"
    OBVIOUS
  <2>3. \A a \in attempts[j] : After(a).no = a.no /\ After(a).fence = a.fence
    BY <2>2
  <2>4. \A a \in attempts[j] :
          After(a) = a \/ (After(a).status = "failed" /\ a.status = "running")
    BY <2>2
  <2>5. \A a \in attempts[j] : a.status # "running" => After(a) = a
    OBVIOUS
  <2> HIDE DEF After
  <2>6. Keeps(j)
    BY <2>1, <2>3 DEF Keeps
  <2>7. \A a \in attempts[j] : a.status # "running" => a \in attempts'[j]
    BY <2>1, <2>5
  <2>8. ASSUME NEW b \in attempts'[j]
        PROVE  b \in attempts[j]
               \/ /\ b.status = "failed" /\ Expired(j)
                  /\ \E a \in attempts[j] : a.no = b.no /\ a.fence = b.fence /\ a.status = "running"
    BY <2>1, <2>3, <2>4
  <2>9. ASSUME \A a, b \in attempts[j] : a.no = b.no => a = b,
               NEW c \in attempts'[j], NEW d \in attempts'[j], c.no = d.no
        PROVE  c = d
    <3>1. PICK a \in attempts[j], b \in attempts[j] : c = After(a) /\ d = After(b)
      BY <2>1
    <3>2. a = b
      BY <2>3, <2>9, <3>1
    <3> QED
      BY <3>1, <3>2
  <2> QED
    BY <2>6, <2>7, <2>8, <2>9
<1> QED
  BY <1>1, <1>2

LEMMA BudgetEnvironment ==
  ASSUME TypeInv, RunInv, BudgetInv, Environment
  PROVE  BudgetInv'
<1>1. ASSUME NEW r \in Deliveries, calls'[r] # calls[r]
      PROVE  calls'[r].pc = "crashed"
  <2>1. calls[r] \in Call /\ calls'[r] = [calls[r] EXCEPT !.pc = "crashed"]
    BY <1>1, EnvironmentCalls DEF TypeInv, TypeOK
  <2> QED
    BY <2>1, SMT DEF Call
<1>2. ASSUME NEW j \in Deliveries
      PROVE  /\ jobs'[j].count = jobs[j].count
             /\ jobs'[j].status = "absent" <=> jobs[j].status = "absent"
             /\ jobs'[j].status = "running" => jobs[j].status = "running"
  BY EnvironmentJobs, SMT
<1>3. ASSUME NEW j \in Deliveries
      PROVE  CountedNumbers(j)'
  <2>1. jobs[j].status = "absent" => attempts'[j] = attempts[j]
    BY EnvironmentAttempts DEF Expired
  <2> QED
    BY <1>2, <2>1, RecoveredAttempts DEF BudgetInv, CountedNumbers, Keeps
<1>4. RetryBudget'
  <2>1. ASSUME NEW j \in Deliveries
        PROVE  \A a, b \in attempts'[j] : a.no \in 1..MaxAttempts /\ (a.no = b.no => a = b)
    <3>1. \A a, b \in attempts[j] : a.no \in 1..MaxAttempts /\ (a.no = b.no => a = b)
      BY DEF BudgetInv, RetryBudget
    <3>2. \A b \in attempts'[j] : \E a \in attempts[j] : a.no = b.no
      BY RecoveredAttempts
    <3> QED
      BY <3>1, <3>2, RecoveredAttempts
  <2> QED
    BY <1>3, <2>1 DEF RetryBudget, CountedNumbers
<1>5. ASSUME NEW r \in Deliveries
      PROVE  /\ calls'[r].pc \in EarlyPcs => calls'[r].index = 0
             /\ Planned(r)' /\ Numbered(r)' /\ MayRetry(r)'
  <2>1. CASE calls'[r] # calls[r]
    BY <1>1, <2>1, SMT DEF Planned, Numbered, MayRetry, EarlyPcs, StartedPcs, ClaimedPcs
  <2>2. CASE calls'[r] = calls[r]
    <3>1. AttemptNo(r)' = AttemptNo(r) /\ JobOf(r)' = JobOf(r)
      BY <2>2 DEF AttemptNo, JobOf
    <3>2. calls[r].pc \in ClaimedPcs \cup {"claim"} => JobOf(r) \in Deliveries
      BY SMT DEF TypeInv, RowsPresent, JobOf
    <3>3. Planned(r)'
      BY <1>2, <2>2, <3>1, <3>2 DEF BudgetInv, Planned
    <3>4. Numbered(r)'
      BY <1>2, <2>2, <3>1, <3>2, RecoveredAttempts DEF BudgetInv, Numbered, Keeps, StartedPcs
    <3> QED
      BY <2>2, <3>1, <3>3, <3>4 DEF BudgetInv, MayRetry
  <2> QED
    BY <2>1, <2>2
<1> QED
  BY <1>3, <1>4, <1>5 DEF BudgetInv

LEMMA BudgetInvariant == Spec => []BudgetInv
<1>1. ASSUME TypeInv, RunInv, BudgetInv, [Next]_vars
      PROVE  BudgetInv'
  <2>1. CASE \E r \in Deliveries : Deliver(r)
    BY <1>1, <2>1, BudgetStep, HandlerErrorsAssumption
  <2>2. CASE Environment
    BY <1>1, <2>2, BudgetEnvironment
  <2>3. CASE UNCHANGED vars
    BY <1>1, <2>3 DEF vars, BudgetInv, RetryBudget, Planned, Numbered, MayRetry,
       CountedNumbers, AttemptNo, JobOf
  <2> QED
    BY <1>1, <2>1, <2>2, <2>3, Zenon DEF Next, Environment
<1> QED
  BY <1>1, BudgetInit, RunInvariant, PTL DEF Spec

\* Over all deliveries that run a job, its attempts have numbers of their own
\* within the policy, and it is counted no oftener than the policy allows.
THEOREM BudgetIsKept == Spec => []RetryBudget
<1>1. BudgetInv => RetryBudget
  BY DEF BudgetInv
<1> QED
  BY <1>1, BudgetInvariant, PTL

-----------------------------------------------------------------------------
(* The evidence of the attempts                                             *)

\* Only the attempt under the job's own fence may be open or have succeeded;
\* it has succeeded when the job has, and it is closed before anybody else may
\* claim the job.
JobEvidence(j) ==
  /\ \A a \in attempts[j] :
       a.fence <= jobs[j].fence /\ (a.fence < jobs[j].fence => a.status = "failed")
  /\ jobs[j].status = "succeeded" =>
       /\ \E a \in attempts[j] : a.fence = jobs[j].fence
       /\ \A a \in attempts[j] : a.fence = jobs[j].fence => a.status = "succeeded"
  /\ jobs[j].status \in {"queued", "retryable"} => \A a \in attempts[j] : a.status = "failed"
\* The attempt under a runner's lease is the runner's own, and is where the
\* runner's program counter says.
RunnerEvidence(r) ==
  /\ Claimed(r) => \A a \in attempts[JobOf(r)] : a.fence = calls[r].lease =>
       /\ calls[r].pc # "attempt" /\ a.no = AttemptNo(r)
       /\ calls[r].pc = "retry" => a.status = "failed"
  /\ calls[r].pc \in {"complete", "readBack"} =>
       \E a \in attempts[JobOf(r)] : a.fence = calls[r].lease /\ a.status = "succeeded"
  /\ calls[r].pc \in OngoingPcs => jobs[JobOf(r)].status # "succeeded"

EvidenceInv ==
  (\A j \in Deliveries : JobEvidence(j)) /\ (\A r \in Deliveries : RunnerEvidence(r))

LEMMA EvidenceInit == Init => EvidenceInv
BY SMT DEF Init, EvidenceInv, JobEvidence, RunnerEvidence, Claimed, ClaimedPcs, OngoingPcs,
  NoCall, NoJob

\* What a claimed delivery knows of its job and of the attempt under its lease.
LEMMA RunnersAttempt ==
  ASSUME TypeInv, RunInv, BudgetInv, EvidenceInv, NEW r \in Deliveries, Claimed(r)
  PROVE  /\ JobOf(r) \in Deliveries
         /\ jobs[JobOf(r)].fence = calls[r].lease
         /\ jobs[JobOf(r)].status \notin {"absent", "queued", "retryable"}
         /\ \A a, b \in attempts[JobOf(r)] :
              a.fence = calls[r].lease /\ b.fence = calls[r].lease => a = b
<1>1. JobOf(r) \in Deliveries
  BY SMT DEF TypeInv, RowsPresent, Claimed, JobOf
<1>2. \A a \in attempts[JobOf(r)] : a.fence = calls[r].lease => a.no = AttemptNo(r)
  BY DEF EvidenceInv, RunnerEvidence
<1>3. \A a, b \in attempts[JobOf(r)] : a.no = b.no => a = b
  BY <1>1 DEF BudgetInv, RetryBudget
<1>4. /\ jobs[JobOf(r)].fence = calls[r].lease
      /\ jobs[JobOf(r)].status \notin {"absent", "queued", "retryable"}
  BY DEF RunInv, JobOf
<1> QED
  BY <1>1, <1>2, <1>3, <1>4

LEMMA JobEvidenceStep ==
  ASSUME TypeInv, RunInv, BudgetInv, EvidenceInv, HandlerErrorsAssumption,
         NEW r \in Deliveries, Deliver(r), NEW j \in Deliveries
  PROVE  JobEvidence(j)'
<1>0. JobEvidence(j) /\ RunnerEvidence(r)
  BY DEF EvidenceInv
\* The attempts change under the lease of their runner, whose job goes on.
<1>1. CASE attempts'[j] # attempts[j]
  <2>1. j = JobOf(r) /\ Claimed(r)
    BY <1>1, AttemptStep, SMT DEF At, Claimed, ClaimedPcs
  <2>2. jobs'[j] = jobs[j]
    BY <1>1, <2>1, AttemptStep, JobStep, SMT DEF At
  <2>3. jobs[j].status \notin {"succeeded", "queued", "retryable"}
    BY <1>0, <1>1, <2>1, AttemptStep, RunnersAttempt, SMT
    DEF RunnerEvidence, OngoingPcs, At
  <2>4. \A a \in attempts'[j] : a \in attempts[j] \/ \E st : a = MyEnd(r, st)
    BY <1>1, NewAttempts
  <2>5. \A st : MyEnd(r, st).fence = jobs[j].fence
    BY <2>1, RunnersAttempt DEF MyEnd
  <2>6. jobs[j].fence \in Nat
    BY Numbers
  <2>7. \A a \in attempts'[j] :
          a.fence <= jobs[j].fence /\ (a.fence < jobs[j].fence => a.status = "failed")
    BY <1>0, <2>4, <2>5, <2>6, SMT DEF JobEvidence
  <2> QED
    BY <2>2, <2>3, <2>7 DEF JobEvidence
<1>2. CASE attempts'[j] = attempts[j] /\ jobs'[j] # jobs[j]
  <2>1. CASE jobs[j].status = "absent" /\ jobs'[j].status = "queued"
    <3>1. attempts'[j] = {}
      BY <1>2, <2>1 DEF BudgetInv, CountedNumbers
    <3> QED
      BY <2>1, <3>1 DEF JobEvidence
  <2>2. CASE /\ jobs[j].status \in {"queued", "retryable"}
             /\ jobs'[j].status = "running" /\ jobs'[j].fence = jobs[j].fence + 1
    BY <1>0, <1>2, <2>2, Numbers, SMT DEF JobEvidence
  <2>3. CASE /\ At(r, "complete") \/ At(r, "postUnknown") \/ At(r, "retry") \/ At(r, "terminal")
             /\ j = JobOf(r) /\ HoldsLease(r) /\ jobs'[j].fence = jobs[j].fence
             /\ jobs'[j].status \in {"succeeded", "failed", "outcome-unknown", "retryable"}
    <3>1. Claimed(r)
      BY <2>3, SMT DEF At, Claimed, ClaimedPcs
    <3>2. jobs'[j].status = "succeeded" => At(r, "complete")
      BY <1>2, <2>3, JobStep, SMT
    <3>3. jobs'[j].status = "retryable" => At(r, "retry")
      BY <1>2, <2>3, JobStep, SMT
    <3>4. jobs'[j].status = "succeeded" =>
            /\ \E a \in attempts[j] : a.fence = jobs[j].fence
            /\ \A a \in attempts[j] : a.fence = jobs[j].fence => a.status = "succeeded"
      BY <1>0, <2>3, <3>1, <3>2, RunnersAttempt DEF RunnerEvidence, At
    <3>5. jobs'[j].status = "retryable" => \A a \in attempts[j] : a.status = "failed"
      BY <1>0, <2>3, <3>1, <3>3, RunnersAttempt, Numbers, SMT
      DEF RunnerEvidence, JobEvidence, At
    <3> QED
      BY <1>0, <1>2, <2>3, <3>4, <3>5, SMT DEF JobEvidence
  <2> QED
    BY <1>2, <2>1, <2>2, <2>3, JobStep, Zenon DEF JobOf
<1>3. CASE attempts'[j] = attempts[j] /\ jobs'[j] = jobs[j]
  BY <1>0, <1>3 DEF JobEvidence
<1> QED
  BY <1>1, <1>2, <1>3

LEMMA OthersEvidence ==
  ASSUME TypeInv, RunInv, EvidenceInv, HandlerErrorsAssumption,
         NEW r \in Deliveries, Deliver(r), NEW s \in Deliveries, s # r
  PROVE  RunnerEvidence(s)'
<1>1. calls'[s] = calls[s]
  BY OthersKeep DEF TypeInv, TypeOK, CallsOK
<1>2. AttemptNo(s)' = AttemptNo(s) /\ JobOf(s)' = JobOf(s) /\ (Claimed(s)' <=> Claimed(s))
  BY <1>1 DEF AttemptNo, JobOf, Claimed
<1>3. RunnerEvidence(s)
  BY DEF EvidenceInv
<1>4. CASE Claimed(s)
  BY <1>1, <1>2, <1>3, <1>4, OthersJob DEF RunnerEvidence
<1>5. CASE ~Claimed(s)
  BY <1>1, <1>2, <1>5, SMT DEF RunnerEvidence, Claimed, ClaimedPcs, OngoingPcs
<1> QED
  BY <1>4, <1>5

\* The attempts of the delivery that moves: of its job, under its lease.
LEMMA OwnEvidence ==
  ASSUME TypeInv, RunInv, BudgetInv, EvidenceInv, HandlerErrorsAssumption,
         NEW r \in Deliveries, Deliver(r)
  PROVE  RunnerEvidence(r)'
<1> CallsOK
  BY DEF TypeInv, TypeOK, CallsOK
<1>0. RunnerEvidence(r)
  BY DEF EvidenceInv
<1>1. SameClaim(r) => /\ AttemptNo(r)' = AttemptNo(r) /\ JobOf(r)' = JobOf(r)
                      /\ calls'[r].lease = calls[r].lease
  BY DEF SameClaim, AttemptNo, JobOf
\* A claim takes a fence no attempt was made under.
<1>2. ASSUME At(r, "claim"), Claimed(r)'
      PROVE  RunnerEvidence(r)'
  <2>1. /\ Claimable(JobOf(r)) /\ TakeLease(r) /\ calls'[r].pc = "attempt"
        /\ calls'[r].lease = jobs[JobOf(r)].fence + 1 /\ JobOf(r)' = JobOf(r)
    BY <1>2, OwnJob, SMT DEF At, Claimed, ClaimedPcs, JobOf, MyJob
  <2>2. JobOf(r) \in Deliveries
    BY <1>2, SMT DEF TypeInv, RowsPresent, At, JobOf
  <2>3. attempts'[JobOf(r)] = attempts[JobOf(r)]
    BY <1>2, <2>2, AttemptStep, SMT DEF At
  <2>4. \A a \in attempts[JobOf(r)] : a.fence <= jobs[JobOf(r)].fence /\ a.fence \in Nat
    BY <2>2, Numbers DEF EvidenceInv, JobEvidence
  <2>5. \A a \in attempts'[JobOf(r)'] : a.fence # calls'[r].lease
    BY <2>1, <2>2, <2>3, <2>4, Numbers, SMT
  <2>6. jobs'[JobOf(r)'].status = "running"
    BY <2>1, <2>2, JobUpdates, SMT DEF JobOf, TypeInv, TypeOK, JobsOK
  <2> QED
    BY <2>1, <2>5, <2>6 DEF RunnerEvidence
<1>3. ASSUME Claimed(r), Claimed(r)', SameClaim(r)
      PROVE  RunnerEvidence(r)'
  <2>0. /\ JobOf(r) \in Deliveries
        /\ \A a, b \in attempts[JobOf(r)] :
             a.fence = calls[r].lease /\ b.fence = calls[r].lease => a = b
    BY <1>3, RunnersAttempt
  <2>1. \A a \in attempts[JobOf(r)] : a.fence = calls[r].lease =>
          ~At(r, "attempt") /\ a.no = AttemptNo(r)
    BY <1>0, <1>3 DEF RunnerEvidence, At
  <2>2. calls'[r].pc # "attempt"
    BY <1>3, OwnAttempt, SMT DEF At, Claimed, ClaimedPcs
  <2>3. \A st : /\ MyEnd(r, st).no = AttemptNo(r) /\ MyEnd(r, st).fence = calls[r].lease
                /\ MyEnd(r, st).status = st
    BY DEF MyEnd
  <2>4. MyAttempt(r) = MyEnd(r, "running")
    BY DEF MyAttempt, MyEnd
  <2>5. \A a \in attempts'[JobOf(r)] : a.fence = calls[r].lease => a.no = AttemptNo(r)
    BY <2>0, <2>1, <2>3, NewAttempts
  <2>6. ASSUME calls'[r].pc = "retry", NEW a \in attempts'[JobOf(r)], a.fence = calls[r].lease
        PROVE  a.status = "failed"
    <3>1. At(r, "attemptFail") /\ AttemptOpen(r) /\ CloseAttempt(r, "failed")
      BY <2>6, OwnAttempt
    <3>2. /\ MyAttempt(r) \in attempts[JobOf(r)]
          /\ attempts'[JobOf(r)] = (attempts[JobOf(r)] \ {MyAttempt(r)}) \cup {MyEnd(r, "failed")}
      <4>1. [MyAttempt(r) EXCEPT !.status = "failed"] = MyEnd(r, "failed")
        BY DEF MyAttempt, MyEnd
      <4> QED
        BY <2>0, <3>1, <4>1, Zenon DEF AttemptOpen, CloseAttempt, JobOf, TypeInv, TypeOK
    <3> QED
      BY <2>0, <2>3, <2>4, <2>6, <3>2, Zenon
  <2>7. ASSUME calls'[r].pc \in {"complete", "readBack"}
        PROVE  \E a \in attempts'[JobOf(r)] : a.fence = calls[r].lease /\ a.status = "succeeded"
    <3>1. CASE At(r, "complete")
      <4>1. attempts'[JobOf(r)] = attempts[JobOf(r)]
        BY <2>0, <3>1, AttemptStep, SMT DEF At
      <4> QED
        BY <1>0, <3>1, <4>1 DEF RunnerEvidence, At
    <3>2. CASE At(r, "attemptOk") /\ AttemptOpen(r) /\ CloseAttempt(r, "succeeded")
      <4>1. [MyAttempt(r) EXCEPT !.status = "succeeded"] = MyEnd(r, "succeeded")
        BY DEF MyAttempt, MyEnd
      <4>2. MyEnd(r, "succeeded") \in attempts'[JobOf(r)]
        BY <2>0, <3>2, <4>1, Zenon DEF CloseAttempt, JobOf, TypeInv, TypeOK
      <4> QED
        BY <2>3, <4>2
    <3> QED
      BY <2>7, <3>1, <3>2, OwnAttempt
  <2>8. ASSUME calls'[r].pc \in OngoingPcs
        PROVE  jobs'[JobOf(r)].status # "succeeded"
    <3>1. calls[r].pc \in OngoingPcs \ {"complete", "retry", "terminal"}
      BY <1>3, <2>8, OwnAttempt, SMT DEF Claimed, ClaimedPcs
    <3>2. jobs'[JobOf(r)] = jobs[JobOf(r)]
      BY <2>0, <3>1, JobStep, SMT DEF At, OngoingPcs
    <3> QED
      BY <1>0, <3>1, <3>2 DEF RunnerEvidence
  <2> QED
    BY <1>1, <1>3, <2>2, <2>5, <2>6, <2>7, <2>8 DEF RunnerEvidence
<1>4. CASE ~Claimed(r)'
  BY <1>4, SMT DEF RunnerEvidence, Claimed, ClaimedPcs, OngoingPcs
<1> QED
  BY <1>2, <1>3, <1>4, OwnJob

LEMMA EvidenceEnvironment ==
  ASSUME TypeInv, EvidenceInv, Environment
  PROVE  EvidenceInv'
<1>1. ASSUME NEW j \in Deliveries
      PROVE  /\ jobs'[j].fence = jobs[j].fence
             /\ jobs'[j].status \in {"succeeded", "queued", "retryable"} =>
                  jobs[j].status = jobs'[j].status /\ attempts'[j] = attempts[j]
  <2>1. jobs'[j].status \in {"succeeded", "queued", "retryable"} =>
          jobs[j].status = jobs'[j].status
    BY EnvironmentJobs, SMT
  <2>2. jobs[j].status # "running" => attempts'[j] = attempts[j]
    BY EnvironmentAttempts DEF Expired
  <2> QED
    BY <2>1, <2>2, EnvironmentJobs, SMT
<1>2. ASSUME NEW j \in Deliveries
      PROVE  JobEvidence(j)'
  <2>1. \A a \in attempts[j] :
          a.fence <= jobs[j].fence /\ (a.fence < jobs[j].fence => a.status = "failed")
    BY DEF EvidenceInv, JobEvidence
  <2>2. \A b \in attempts'[j] :
          b.fence <= jobs[j].fence /\ (b.fence < jobs[j].fence => b.status = "failed")
    BY <2>1, RecoveredAttempts
  <2> QED
    BY <1>1, <2>2 DEF EvidenceInv, JobEvidence
<1>3. ASSUME NEW r \in Deliveries
      PROVE  RunnerEvidence(r)'
  <2>1. CASE calls'[r] # calls[r]
    <3>1. calls[r] \in Call /\ calls'[r] = [calls[r] EXCEPT !.pc = "crashed"]
      BY <2>1, EnvironmentCalls DEF TypeInv, TypeOK
    <3>2. calls'[r].pc = "crashed"
      BY <3>1, SMT DEF Call
    <3> QED
      BY <3>2, SMT DEF RunnerEvidence, Claimed, ClaimedPcs, OngoingPcs
  <2>2. CASE calls'[r] = calls[r] /\ Claimed(r)
    <3>1. AttemptNo(r)' = AttemptNo(r) /\ JobOf(r)' = JobOf(r) /\ Claimed(r)'
      BY <2>2 DEF AttemptNo, JobOf, Claimed
    <3>2. JobOf(r) \in Deliveries
      BY <2>2, SMT DEF TypeInv, RowsPresent, Claimed, JobOf
    <3>3. RunnerEvidence(r)
      BY DEF EvidenceInv
    <3>4. \A b \in attempts'[JobOf(r)] : b.fence = calls[r].lease =>
            /\ calls[r].pc # "attempt" /\ b.no = AttemptNo(r)
            /\ calls[r].pc = "retry" => b.status = "failed"
      BY <2>2, <3>2, <3>3, RecoveredAttempts DEF RunnerEvidence
    <3>5. calls[r].pc \in {"complete", "readBack"} =>
            \E a \in attempts'[JobOf(r)] : a.fence = calls[r].lease /\ a.status = "succeeded"
      <4> SUFFICES ASSUME calls[r].pc \in {"complete", "readBack"}
                   PROVE  \E a \in attempts'[JobOf(r)] :
                            a.fence = calls[r].lease /\ a.status = "succeeded"
        OBVIOUS
      <4>1. PICK a \in attempts[JobOf(r)] : a.fence = calls[r].lease /\ a.status = "succeeded"
        BY <3>3 DEF RunnerEvidence
      <4>2. a.status # "running"
        BY <4>1
      <4>3. a \in attempts'[JobOf(r)]
        BY <3>2, <4>2, RecoveredAttempts
      <4> QED
        BY <4>1, <4>3
    <3>6. calls[r].pc \in OngoingPcs => jobs'[JobOf(r)].status # "succeeded"
      BY <1>1, <3>2, <3>3 DEF RunnerEvidence
    <3> QED
      BY <2>2, <3>1, <3>4, <3>5, <3>6 DEF RunnerEvidence
  <2>3. CASE calls'[r] = calls[r] /\ ~Claimed(r)
    BY <2>3, SMT DEF RunnerEvidence, Claimed, ClaimedPcs, OngoingPcs
  <2> QED
    BY <2>1, <2>2, <2>3
<1> QED
  BY <1>2, <1>3 DEF EvidenceInv

LEMMA EvidenceInvariant == Spec => []EvidenceInv
<1>1. ASSUME TypeInv, RunInv, BudgetInv, EvidenceInv, [Next]_vars
      PROVE  EvidenceInv'
  <2>1. CASE \E r \in Deliveries : Deliver(r)
    BY <1>1, <2>1, JobEvidenceStep, OwnEvidence, OthersEvidence, HandlerErrorsAssumption
    DEF EvidenceInv
  <2>2. CASE Environment
    BY <1>1, <2>2, EvidenceEnvironment
  <2>3. CASE UNCHANGED vars
    BY <1>1, <2>3 DEF vars, EvidenceInv, JobEvidence, RunnerEvidence, AttemptNo, JobOf, Claimed
  <2> QED
    BY <1>1, <2>1, <2>2, <2>3, Zenon DEF Next, Environment
<1> QED
  BY <1>1, EvidenceInit, RunInvariant, BudgetInvariant, PTL DEF Spec

\* job_attempts tells the same story as the job: a succeeded job has exactly
\* the succeeded attempt of its last fence, and no attempt is open when
\* somebody may claim.
THEOREM EvidenceAgrees == Spec => []AttemptEvidence
<1>1. ASSUME TypeInv, EvidenceInv
      PROVE  AttemptEvidence
  <2> SUFFICES ASSUME NEW j \in Deliveries, jobs[j].status = "succeeded"
               PROVE  /\ {a \in attempts[j] : a.status = "succeeded"} =
                           {a \in attempts[j] : a.fence = jobs[j].fence}
                      /\ \E a \in attempts[j] : a.status = "succeeded"
    BY <1>1 DEF AttemptEvidence, EvidenceInv, JobEvidence
  <2>1. /\ \A a \in attempts[j] :
             a.fence <= jobs[j].fence /\ (a.fence < jobs[j].fence => a.status = "failed")
        /\ \E a \in attempts[j] : a.fence = jobs[j].fence
        /\ \A a \in attempts[j] : a.fence = jobs[j].fence => a.status = "succeeded"
    BY <1>1 DEF EvidenceInv, JobEvidence
  <2>2. \A a \in attempts[j] : a.status = "succeeded" => a.fence = jobs[j].fence
    BY <1>1, <2>1, Numbers, SMT
  <2> QED
    BY <2>1, <2>2
<1> QED
  BY <1>1, RunInvariant, EvidenceInvariant, PTL
=============================================================================
