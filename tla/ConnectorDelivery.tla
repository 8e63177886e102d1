------------------------- MODULE ConnectorDelivery -------------------------
(***************************************************************************)
(* Durable delivery of one semantic key: executeDeduplicatedDurable of     *)
(* packages/connector-runtime/src/runtime.ts over PostgresDedupStore,      *)
(* PostgresJobRuntime and the lease recovery timer of                      *)
(* adapters/connector-runtime-postgres/src/index.ts.                       *)
(*                                                                         *)
(* A delivery is one call of executeDeduplicatedDurable.  All deliveries   *)
(* here carry the same project, scope, consumer, type and semantic key, so *)
(* they meet on one row of connector.dedup_records; rows of other keys     *)
(* share nothing with it.  The messages carry no ordering key (the         *)
(* ordering calls return at once for them); OrderedDelivery has the ones   *)
(* that do.  Each SQL statement that the code commits on its own is one    *)
(* step, so every interleaving of two connections is a behaviour.          *)
(***************************************************************************)
EXTENDS Integers, FiniteSets

CONSTANTS
  Deliveries,    \* calls of executeDeduplicatedDurable; also names their jobs,
                 \* one randomUUID() job id per call
  Workers,       \* processes; each has one PostgresJobRuntime.workerId
  Host,          \* the process a delivery runs in
  Fingerprints,  \* message fingerprints
  Fingerprint,   \* the fingerprint a delivery carries
  MaxAttempts,   \* PostgresJobRuntime.maxAttempts
  HandlerErrors, \* error kinds the handler may throw
  MaxFaults,     \* bound: SQL statements whose connection fails
  MaxCrashes,    \* bound: process crashes
  None

ASSUME HostAssumption == Host \in [Deliveries -> Workers]
ASSUME FingerprintAssumption == Fingerprint \in [Deliveries -> Fingerprints]
ASSUME MaxAttemptsAssumption == MaxAttempts \in Nat \ {0}
ASSUME HandlerErrorsAssumption == HandlerErrors \subseteq {"retryable", "terminal"}
ASSUME BoundsAssumption == MaxFaults \in Nat /\ MaxCrashes \in Nat
ASSUME NoneAssumption ==
  None \notin Deliveries /\ None \notin Workers /\ None \notin Fingerprints

VARIABLES
  dedup,     \* the row of connector.dedup_records
  jobs,      \* connector.jobs
  attempts,  \* connector.job_attempts
  calls,     \* local variables of the running deliveries
  effects,   \* invocations <<delivery, lease>> whose side effect happened
  orphans,   \* invocations still running after the caller gave them up
  faults, crashes

vars == <<dedup, jobs, attempts, calls, effects, orphans, faults, crashes>>

DedupStates == {"ABSENT", "IN_PROGRESS", "OUTCOME_UNKNOWN", "COMPLETED", "FAILED"}
JobStates == {"absent", "queued", "running", "retryable", "succeeded", "failed",
              "outcome-unknown"}
AttemptStates == {"running", "succeeded", "failed"}
Errors == {"none", "retryable", "terminal", "unknown"}
Outcomes == {"none", "processed", "duplicate", "conflict", "retryable", "terminal",
             "unknown"}

\* Where a delivery stands: the statement it executes next.
BeginPcs == {"idle", "read", "reopen", "poll"}
RunPcs == {"lookup", "enqueue", "findJob", "claim", "attempt", "dispatch", "handler",
           "attemptOk", "complete", "readBack", "postUnknown", "attemptFail", "retry",
           "terminal", "dedupComplete", "mark", "fail"}
Pcs == BeginPcs \cup RunPcs \cup {"done", "crashed"}

DedupRow == [state : DedupStates, job : Deliveries \cup {None}, fence : Nat,
             print : Fingerprints \cup {None}]
\* lease: none, live (lease_expires_at in the future) or expired; next: later
\* while next_attempt_at lies ahead on the database's clock.
JobRow == [status : JobStates, fence : Nat, owner : Workers \cup {None},
           lease : {"none", "live", "expired"}, count : Nat, next : {"due", "later"}]
Attempt == [no : Nat, fence : Nat, status : AttemptStates]
Call == [pc : Pcs,
         fence : Nat,                     \* began.record.fenceToken
         job : Deliveries \cup {None},    \* jobId inside run
         prior : Nat, index : Nat,        \* priorAttempts and the loop index
         lease : Nat,                     \* fencingToken of the claim
         err : Errors, out : Outcomes]

NoCall == [pc |-> "idle", fence |-> 0, job |-> None, prior |-> 0, index |-> 0,
           lease |-> 0, err |-> "none", out |-> "none"]
NoJob == [status |-> "absent", fence |-> 0, owner |-> None, lease |-> "none",
          count |-> 0, next |-> "due"]

Init ==
  /\ dedup = [state |-> "ABSENT", job |-> None, fence |-> 0, print |-> None]
  /\ jobs = [j \in Deliveries |-> NoJob]
  /\ attempts = [j \in Deliveries |-> {}]
  /\ calls = [r \in Deliveries |-> NoCall]
  /\ effects = {} /\ orphans = {}
  /\ faults = 0 /\ crashes = 0

-----------------------------------------------------------------------------
(* Steps every statement shares.                                           *)

At(r, pc) == calls[r].pc = pc
Goto(r, pc) == calls' = [calls EXCEPT ![r].pc = pc]
\* Throw inside executeDeduplicatedDurable's try: OUTCOME_UNKNOWN is marked,
\* every other error fails the record.
Throw(r, err) ==
  calls' = [calls EXCEPT ![r].pc = IF err = "unknown" THEN "mark" ELSE "fail",
                         ![r].err = err]
Return(r, out) == calls' = [calls EXCEPT ![r].pc = "done", ![r].out = out]

\* The connection fails under a statement; the caller adds whether the row
\* change was committed before the acknowledgement was lost.
Fault == faults < MaxFaults /\ faults' = faults + 1
NoFault == UNCHANGED faults

MyJob(r) == jobs[calls[r].job]
\* Mutant: the fence alone, without the owner, the status and the expiry.
HoldsLease_FenceOnly(r) == MyJob(r).fence = calls[r].lease

\* The WHERE condition of renew, complete, retry and terminal.
HoldsLease(r) ==
  /\ MyJob(r).status = "running" /\ MyJob(r).owner = Host[r]
  /\ MyJob(r).fence = calls[r].lease /\ MyJob(r).lease = "live"
\* The WHERE condition of dedup.complete, fail and markOutcomeUnknown.
OwnsRecord(r) ==
  dedup.state = "IN_PROGRESS" /\ dedup.fence = calls[r].fence /\ dedup.job = r

Invocation(r) == <<r, calls[r].lease>>

-----------------------------------------------------------------------------
(* dedup.begin: INSERT .. ON CONFLICT DO NOTHING, then SELECT, then, for a  *)
(* FAILED record, an UPDATE of its own.  Each is committed on its own, so   *)
(* the row lock of SELECT .. FOR UPDATE is gone before the UPDATE runs.     *)

InsertRecord(r) ==
  dedup' = [state |-> "IN_PROGRESS", job |-> r, fence |-> 1, print |-> Fingerprint[r]]

Begin(r) ==
  /\ At(r, "idle")
  /\ \/ /\ dedup.state = "ABSENT" /\ InsertRecord(r)
        /\ calls' = [calls EXCEPT ![r].pc = "lookup", ![r].fence = 1]
        /\ NoFault
     \/ /\ dedup.state # "ABSENT" /\ UNCHANGED dedup
        /\ Goto(r, "read")
        /\ NoFault
     \/ /\ Fault
        /\ UNCHANGED dedup \/ (dedup.state = "ABSENT" /\ InsertRecord(r))
        /\ Return(r, "terminal")
  /\ UNCHANGED <<jobs, attempts, effects, orphans, crashes>>

BeginRead(r) ==
  /\ At(r, "read")
  /\ \/ /\ NoFault
        /\ IF dedup.print # Fingerprint[r] THEN Return(r, "conflict")
           ELSE CASE dedup.state = "FAILED" -> Goto(r, "reopen")
                  [] dedup.state = "COMPLETED" -> Return(r, "duplicate")
                  [] dedup.state = "OUTCOME_UNKNOWN" -> Return(r, "unknown")
                  [] OTHER -> Goto(r, "poll")
     \/ Fault /\ Return(r, "terminal")
  /\ UNCHANGED <<dedup, jobs, attempts, effects, orphans, crashes>>

\* The UPDATE names the identity only: neither the state nor the fence read.
ReopenRecord(r) ==
  dedup' = [dedup EXCEPT !.state = "IN_PROGRESS", !.job = r, !.fence = @ + 1]

\* Mutant: the owner keeps the fence it read instead of the one RETURNING gives.
BeginReopen_StaleFence(r) ==
  /\ At(r, "reopen") /\ ReopenRecord(r)
  /\ calls' = [calls EXCEPT ![r].pc = "lookup", ![r].fence = dedup.fence]
  /\ UNCHANGED <<jobs, attempts, effects, orphans, faults, crashes>>

BeginReopen(r) ==
  /\ At(r, "reopen")
  /\ \/ /\ NoFault /\ ReopenRecord(r)
        /\ calls' = [calls EXCEPT ![r].pc = "lookup", ![r].fence = dedup.fence + 1]
     \/ /\ Fault /\ (UNCHANGED dedup \/ ReopenRecord(r))
        /\ Return(r, "terminal")
  /\ UNCHANGED <<jobs, attempts, effects, orphans, crashes>>

\* Mutants: every state but IN_PROGRESS counts as completed; no last round.
Poll_AnyEnd(r) ==
  /\ At(r, "poll")
  /\ Return(r, IF dedup.state = "IN_PROGRESS" THEN "retryable" ELSE "duplicate")
  /\ UNCHANGED <<dedup, jobs, attempts, effects, orphans, faults, crashes>>
Poll_NoLastRound(r) ==
  /\ At(r, "poll")
  /\ \/ dedup.state = "COMPLETED" /\ Return(r, "duplicate")
     \/ dedup.state = "OUTCOME_UNKNOWN" /\ Return(r, "unknown")
  /\ UNCHANGED <<dedup, jobs, attempts, effects, orphans, faults, crashes>>

\* One round of waiting for the owner of an IN_PROGRESS record: it looks for
\* COMPLETED and OUTCOME_UNKNOWN only, and gives up after the last round.
Poll(r) ==
  /\ At(r, "poll")
  /\ \/ dedup.state = "COMPLETED" /\ NoFault /\ Return(r, "duplicate")
     \/ dedup.state = "OUTCOME_UNKNOWN" /\ NoFault /\ Return(r, "unknown")
     \/ dedup.state \notin {"COMPLETED", "OUTCOME_UNKNOWN"} /\ NoFault
        /\ Return(r, "retryable")
     \/ Fault /\ Return(r, "terminal")
  /\ UNCHANGED <<dedup, jobs, attempts, effects, orphans, crashes>>

-----------------------------------------------------------------------------
(* PostgresJobRuntime.run                                                   *)

\* SELECT job_id of the record: the current one, which another delivery may
\* have rotated since this delivery acquired the record.
LookupJob(r) ==
  /\ At(r, "lookup")
  /\ \/ NoFault /\ calls' = [calls EXCEPT ![r].pc = "enqueue", ![r].job = dedup.job]
     \/ Fault /\ Throw(r, "terminal")
  /\ UNCHANGED <<dedup, jobs, attempts, effects, orphans, crashes>>

InsertJob(j) ==
  jobs' = IF jobs[j].status = "absent"
          THEN [jobs EXCEPT ![j] = [NoJob EXCEPT !.status = "queued", !.fence = 1]]
          ELSE jobs

EnqueueJob(r) ==
  /\ At(r, "enqueue")
  /\ \/ NoFault /\ InsertJob(calls[r].job) /\ Goto(r, "findJob")
     \/ Fault /\ (UNCHANGED jobs \/ InsertJob(calls[r].job)) /\ Throw(r, "terminal")
  /\ UNCHANGED <<dedup, attempts, effects, orphans, crashes>>

\* findJobRow joins the record with the job it now names.
FindJob(r) ==
  /\ At(r, "findJob")
  /\ \/ /\ NoFault
        /\ LET row == jobs[dedup.job] IN
           IF row.status = "absent" THEN Throw(r, "unknown")
           ELSE IF row.count >= MaxAttempts THEN Throw(r, "terminal")
           ELSE calls' = [calls EXCEPT ![r].pc = "claim", ![r].job = dedup.job,
                                       ![r].prior = row.count]
     \/ Fault /\ Throw(r, "terminal")
  /\ UNCHANGED <<dedup, jobs, attempts, effects, orphans, crashes>>

\* Mutant: a job whose lease expired may be claimed again.
Claimable_Expired(j) ==
  jobs[j].status \in {"queued", "retryable", "running"} /\ jobs[j].lease # "live"

\* next_attempt_at is computed on the worker's clock and compared with the
\* database's, so the claim may come before the row is due.
Claimable(j) == jobs[j].status \in {"queued", "retryable"} /\ jobs[j].next = "due"
                /\ jobs[j].lease # "live"
TakeLease(r) ==
  jobs' = [jobs EXCEPT ![calls[r].job] =
    [status |-> "running", fence |-> @.fence + 1, owner |-> Host[r],
     lease |-> "live", count |-> @.count, next |-> "due"]]

Claim(r) ==
  /\ At(r, "claim")
  /\ \/ /\ NoFault /\ Claimable(calls[r].job) /\ TakeLease(r)
        /\ calls' = [calls EXCEPT ![r].pc = "attempt", ![r].lease = MyJob(r).fence + 1]
     \/ /\ NoFault /\ ~Claimable(calls[r].job) /\ UNCHANGED jobs
        /\ Throw(r, "retryable")
     \/ /\ Fault /\ (UNCHANGED jobs \/ (Claimable(calls[r].job) /\ TakeLease(r)))
        /\ Throw(r, "terminal")
  /\ UNCHANGED <<dedup, attempts, effects, orphans, crashes>>

AttemptNo(r) == calls[r].prior + calls[r].index + 1

\* UNIQUE (job_id, attempt_number) refuses a number already used.
FreshAttempt(r) == \A a \in attempts[calls[r].job] : a.no # AttemptNo(r)
InsertAttempt(r) ==
  attempts' = [attempts EXCEPT ![calls[r].job] =
    @ \cup {[no |-> AttemptNo(r), fence |-> calls[r].lease, status |-> "running"]}]

StartAttempt(r) ==
  /\ At(r, "attempt")
  /\ \/ NoFault /\ FreshAttempt(r) /\ InsertAttempt(r) /\ Goto(r, "dispatch")
     \/ NoFault /\ ~FreshAttempt(r) /\ UNCHANGED attempts /\ Throw(r, "terminal")
     \/ Fault /\ (UNCHANGED attempts \/ (FreshAttempt(r) /\ InsertAttempt(r)))
        /\ Throw(r, "terminal")
  /\ UNCHANGED <<dedup, jobs, effects, orphans, crashes>>

-----------------------------------------------------------------------------
(* The handler, the heartbeat that guards it and the timeout it races.      *)

\* transport.execute queues the handler behind other deliveries.
StartHandler(r) ==
  /\ At(r, "dispatch") /\ Goto(r, "handler")
  /\ UNCHANGED <<dedup, jobs, attempts, effects, orphans, faults, crashes>>

\* The side effect happens some time before the handler returns.
HandlerActs(r) ==
  /\ At(r, "handler") /\ Invocation(r) \notin effects
  /\ effects' = effects \cup {Invocation(r)}
  /\ UNCHANGED <<dedup, jobs, attempts, calls, orphans, faults, crashes>>

\* A renewal that changes no row, or fails, is a lost lease.
RenewalFails(r) == (~HoldsLease(r) /\ NoFault) \/ Fault

\* Mutant: a timeout is an ordinary failure the policy may retry.
Abandon_Retryable(r) ==
  /\ calls' = [calls EXCEPT ![r].pc = "attemptFail", ![r].err = "retryable"]
  /\ orphans' = IF At(r, "handler") /\ Invocation(r) \notin effects
                THEN orphans \cup {Invocation(r)} ELSE orphans

\* The caller stops waiting; a handler that runs keeps running.
Abandon(r) ==
  /\ calls' = [calls EXCEPT ![r].pc = "attemptFail", ![r].err = "unknown"]
  /\ orphans' = IF At(r, "handler") /\ Invocation(r) \notin effects
                THEN orphans \cup {Invocation(r)} ELSE orphans

LoseLease(r) ==
  /\ calls[r].pc \in {"dispatch", "handler"} /\ RenewalFails(r) /\ Abandon(r)
  /\ UNCHANGED <<dedup, jobs, attempts, effects, crashes>>

HandlerTimesOut(r) ==
  /\ At(r, "handler") /\ Abandon(r)
  /\ UNCHANGED <<dedup, jobs, attempts, effects, faults, crashes>>

\* A renewal still in flight when the handler settles is awaited, and its
\* failure replaces what the handler returned or threw.
HandlerReturns(r) ==
  /\ At(r, "handler") /\ Invocation(r) \in effects
  /\ \/ NoFault /\ Goto(r, "attemptOk")
     \/ RenewalFails(r) /\ Goto(r, "postUnknown")
  /\ UNCHANGED <<dedup, jobs, attempts, effects, orphans, crashes>>

HandlerFails(r) ==
  /\ At(r, "handler") /\ Invocation(r) \notin effects
  /\ HandlerErrors # {}
  /\ \E err \in HandlerErrors \cup {"unknown"} :
       /\ IF err = "unknown" THEN RenewalFails(r) ELSE NoFault
       /\ calls' = [calls EXCEPT ![r].pc = "attemptFail", ![r].err = err]
  /\ UNCHANGED <<dedup, jobs, attempts, effects, orphans, crashes>>

OrphanActs ==
  \E o \in orphans :
    /\ orphans' = orphans \ {o}
    /\ effects' = effects \cup {o}
    /\ UNCHANGED <<dedup, jobs, attempts, calls, faults, crashes>>

OrphanEnds ==
  \E o \in orphans :
    /\ orphans' = orphans \ {o}
    /\ UNCHANGED <<dedup, jobs, attempts, calls, effects, faults, crashes>>

-----------------------------------------------------------------------------
(* The end of an attempt, inside PostgresJobRuntime.run                     *)

MyAttempt(r) ==
  [no |-> AttemptNo(r), fence |-> calls[r].lease, status |-> "running"]
AttemptOpen(r) == MyAttempt(r) \in attempts[calls[r].job] /\ HoldsLease(r)
\* Mutant: the attempt is not closed.
CloseAttempt_Missing(r, status) == UNCHANGED attempts

CloseAttempt(r, status) ==
  attempts' = [attempts EXCEPT ![calls[r].job] =
    (@ \ {MyAttempt(r)}) \cup {[MyAttempt(r) EXCEPT !.status = status]}]
\* complete, retry and terminal all count the attempt and drop the lease; only
\* retry sets next_attempt_at.
EndJob(r, status) ==
  jobs' = [jobs EXCEPT ![calls[r].job] =
    [status |-> status, fence |-> @.fence, owner |-> None, lease |-> "none",
     count |-> @.count + 1,
     next |-> IF status = "retryable" THEN "later" ELSE "due"]]

AttemptSucceeded(r) ==
  /\ At(r, "attemptOk")
  /\ \/ NoFault /\ AttemptOpen(r) /\ CloseAttempt(r, "succeeded") /\ Goto(r, "complete")
     \/ NoFault /\ ~AttemptOpen(r) /\ UNCHANGED attempts /\ Goto(r, "postUnknown")
     \/ Fault /\ (UNCHANGED attempts \/ (AttemptOpen(r) /\ CloseAttempt(r, "succeeded")))
        /\ Goto(r, "postUnknown")
  /\ UNCHANGED <<dedup, jobs, effects, orphans, crashes>>

\* readCompletedJob decides when the UPDATE changed no row or lost its answer.
CompleteJob(r) ==
  /\ At(r, "complete")
  /\ \/ NoFault /\ HoldsLease(r) /\ EndJob(r, "succeeded") /\ Goto(r, "readBack")
     \/ NoFault /\ ~HoldsLease(r) /\ UNCHANGED jobs
        /\ Goto(r, IF MyJob(r).status = "succeeded" /\ MyJob(r).fence = calls[r].lease
                   THEN "readBack" ELSE "postUnknown")
     \/ Fault /\ HoldsLease(r) /\ EndJob(r, "succeeded")
        /\ (Goto(r, "readBack") \/ Goto(r, "postUnknown"))
     \/ Fault /\ UNCHANGED jobs /\ Goto(r, "postUnknown")
  /\ UNCHANGED <<dedup, attempts, effects, orphans, crashes>>

\* find(identity) after completion.
ReadBackJob(r) ==
  /\ At(r, "readBack")
  /\ \/ NoFault /\ jobs[dedup.job].status # "absent" /\ Goto(r, "dedupComplete")
     \/ NoFault /\ jobs[dedup.job].status = "absent" /\ Goto(r, "postUnknown")
     \/ Fault /\ Goto(r, "postUnknown")
  /\ UNCHANGED <<dedup, jobs, attempts, effects, orphans, crashes>>

\* The operation succeeded but its completion is ambiguous: terminal() is
\* tried once and whatever it answers is ignored.
PostOperationUnknown(r) ==
  /\ At(r, "postUnknown") /\ Throw(r, "unknown")
  /\ \/ NoFault /\ HoldsLease(r) /\ EndJob(r, "outcome-unknown")
     \/ NoFault /\ ~HoldsLease(r) /\ UNCHANGED jobs
     \/ Fault /\ (UNCHANGED jobs \/ (HoldsLease(r) /\ EndJob(r, "outcome-unknown")))
  /\ UNCHANGED <<dedup, attempts, effects, orphans, crashes>>

\* Mutant: one attempt too many.
CanRetry_OffByOne(r) == calls[r].err = "retryable" /\ AttemptNo(r) <= MaxAttempts

CanRetry(r) == calls[r].err = "retryable" /\ AttemptNo(r) < MaxAttempts

\* A driver error of this statement is thrown as it is, in place of the error
\* the handler ended with; so it is in retry() and terminal() below.
AttemptFailed(r) ==
  /\ At(r, "attemptFail")
  /\ \/ NoFault /\ AttemptOpen(r) /\ CloseAttempt(r, "failed")
        /\ Goto(r, IF CanRetry(r) THEN "retry" ELSE "terminal")
     \/ NoFault /\ ~AttemptOpen(r) /\ UNCHANGED attempts /\ Throw(r, "unknown")
     \/ Fault /\ (UNCHANGED attempts \/ (AttemptOpen(r) /\ CloseAttempt(r, "failed")))
        /\ Throw(r, "terminal")
  /\ UNCHANGED <<dedup, jobs, effects, orphans, crashes>>

ScheduleRetry(r) ==
  /\ At(r, "retry")
  /\ \/ NoFault /\ HoldsLease(r) /\ EndJob(r, "retryable")
        /\ calls' = [calls EXCEPT ![r].pc = "claim", ![r].index = @ + 1, ![r].err = "none"]
     \/ NoFault /\ ~HoldsLease(r) /\ UNCHANGED jobs /\ Throw(r, "unknown")
     \/ Fault /\ (UNCHANGED jobs \/ (HoldsLease(r) /\ EndJob(r, "retryable")))
        /\ Throw(r, "terminal")
  /\ UNCHANGED <<dedup, attempts, effects, orphans, crashes>>

\* Mutant: the error's code is stored as the job's status.
TerminalStatus_Code(r) == calls[r].err

TerminalStatus(r) == IF calls[r].err = "unknown" THEN "outcome-unknown" ELSE "failed"

TerminateJob(r) ==
  /\ At(r, "terminal")
  /\ \/ NoFault /\ HoldsLease(r) /\ EndJob(r, TerminalStatus(r))
        /\ Throw(r, calls[r].err)
     \/ NoFault /\ ~HoldsLease(r) /\ UNCHANGED jobs /\ Throw(r, "unknown")
     \/ Fault /\ (UNCHANGED jobs \/ (HoldsLease(r) /\ EndJob(r, TerminalStatus(r))))
        /\ Throw(r, "terminal")
  /\ UNCHANGED <<dedup, attempts, effects, orphans, crashes>>

-----------------------------------------------------------------------------
(* The end of the delivery: complete, markOutcomeUnknown or fail            *)

SetState(state) == dedup' = [dedup EXCEPT !.state = state]
\* readCompletionState finds this delivery's own completion.
Completed(r) ==
  dedup.state = "COMPLETED" /\ dedup.job = r /\ dedup.fence = calls[r].fence

CompleteRecord(r) ==
  /\ At(r, "dedupComplete")
  /\ \/ NoFault /\ OwnsRecord(r) /\ SetState("COMPLETED") /\ Return(r, "processed")
     \/ NoFault /\ ~OwnsRecord(r) /\ UNCHANGED dedup
        /\ IF Completed(r) THEN Return(r, "processed") ELSE Throw(r, "unknown")
     \/ Fault /\ OwnsRecord(r) /\ SetState("COMPLETED")
        /\ (Return(r, "processed") \/ Throw(r, "unknown"))
     \/ Fault /\ UNCHANGED dedup
        /\ ((Completed(r) /\ Return(r, "processed")) \/ Throw(r, "unknown"))
  /\ UNCHANGED <<jobs, attempts, effects, orphans, crashes>>

MarkOutcomeUnknown(r) ==
  /\ At(r, "mark") /\ Return(r, "unknown")
  /\ \/ NoFault /\ OwnsRecord(r) /\ SetState("OUTCOME_UNKNOWN")
     \/ NoFault /\ ~OwnsRecord(r) /\ UNCHANGED dedup
     \/ Fault /\ (UNCHANGED dedup \/ (OwnsRecord(r) /\ SetState("OUTCOME_UNKNOWN")))
  /\ UNCHANGED <<jobs, attempts, effects, orphans, crashes>>

FailRecord(r) ==
  /\ At(r, "fail") /\ Return(r, calls[r].err)
  /\ \/ NoFault /\ OwnsRecord(r) /\ SetState("FAILED")
     \/ NoFault /\ ~OwnsRecord(r) /\ UNCHANGED dedup
     \/ Fault /\ (UNCHANGED dedup \/ (OwnsRecord(r) /\ SetState("FAILED")))
  /\ UNCHANGED <<jobs, attempts, effects, orphans, crashes>>

-----------------------------------------------------------------------------
(* Time, crashes, recovery and the operator                                 *)

LeaseExpires(j) ==
  /\ jobs[j].status = "running" /\ jobs[j].lease = "live"
  /\ jobs' = [jobs EXCEPT ![j].lease = "expired"]
  /\ UNCHANGED <<dedup, attempts, calls, effects, orphans, faults, crashes>>

RetryDue(j) ==
  /\ jobs[j].next = "later"
  /\ jobs' = [jobs EXCEPT ![j].next = "due"]
  /\ UNCHANGED <<dedup, attempts, calls, effects, orphans, faults, crashes>>

\* The deliveries and abandoned handlers of a process die together.  A
\* delivery that starts in it later runs in the restarted process.
Crash(w) ==
  /\ crashes < MaxCrashes /\ crashes' = crashes + 1
  /\ \E r \in Deliveries : Host[r] = w /\ calls[r].pc \notin {"idle", "done", "crashed"}
  /\ calls' = [r \in Deliveries |->
       IF Host[r] = w /\ calls[r].pc \notin {"idle", "done"}
       THEN [calls[r] EXCEPT !.pc = "crashed"] ELSE calls[r]]
  /\ orphans' = {o \in orphans : Host[o[1]] # w}
  /\ UNCHANGED <<dedup, jobs, attempts, effects, faults>>

Expired(j) == jobs[j].status = "running" /\ jobs[j].lease = "expired"

\* recoverExpiredLeases, one transaction of the timer.  It finds the record by
\* dedup_record_id, which every job of this key shares.
RecoverExpiredLeases ==
  /\ \E j \in Deliveries : Expired(j)
  /\ jobs' = [j \in Deliveries |->
       IF Expired(j)
       THEN [jobs[j] EXCEPT !.status = "outcome-unknown", !.owner = None, !.lease = "none"]
       ELSE jobs[j]]
  /\ attempts' = [j \in Deliveries |->
       IF Expired(j)
       THEN {IF a.fence = jobs[j].fence /\ a.status = "running"
             THEN [a EXCEPT !.status = "failed"] ELSE a : a \in attempts[j]}
       ELSE attempts[j]]
  /\ dedup' = IF dedup.state = "IN_PROGRESS"
              THEN [dedup EXCEPT !.state = "OUTCOME_UNKNOWN"] ELSE dedup
  /\ UNCHANGED <<calls, effects, orphans, faults, crashes>>

\* The operator knows what happened: a result only when the effect happened, a
\* failure only when it did not and nothing that runs can still cause it.
NothingRuns == orphans = {} /\ \A r \in Deliveries : calls[r].pc \notin RunPcs
Reconcile ==
  /\ dedup.state = "OUTCOME_UNKNOWN"
  /\ \/ effects # {} /\ SetState("COMPLETED")
     \/ effects = {} /\ NothingRuns /\ SetState("FAILED")
  /\ UNCHANGED <<jobs, attempts, calls, effects, orphans, faults, crashes>>

-----------------------------------------------------------------------------

Deliver(r) ==
  \/ Begin(r) \/ BeginRead(r) \/ BeginReopen(r) \/ Poll(r)
  \/ LookupJob(r) \/ EnqueueJob(r) \/ FindJob(r) \/ Claim(r) \/ StartAttempt(r)
  \/ StartHandler(r) \/ HandlerActs(r) \/ HandlerReturns(r) \/ HandlerFails(r)
  \/ HandlerTimesOut(r) \/ LoseLease(r)
  \/ AttemptSucceeded(r) \/ CompleteJob(r) \/ ReadBackJob(r) \/ PostOperationUnknown(r)
  \/ AttemptFailed(r) \/ ScheduleRetry(r) \/ TerminateJob(r)
  \/ CompleteRecord(r) \/ MarkOutcomeUnknown(r) \/ FailRecord(r)

Next ==
  \/ \E r \in Deliveries : Deliver(r)
  \/ \E j \in Deliveries : LeaseExpires(j) \/ RetryDue(j)
  \/ \E w \in Workers : Crash(w)
  \/ OrphanActs \/ OrphanEnds \/ RecoverExpiredLeases \/ Reconcile

Spec == Init /\ [][Next]_vars

\* A delivery that started goes on until it returns or its process dies; time
\* passes; the 5-second recovery timer runs in every process.
Fairness ==
  /\ \A r \in Deliveries : WF_vars(calls[r].pc # "idle" /\ Deliver(r))
  /\ \A j \in Deliveries : WF_vars(LeaseExpires(j)) /\ WF_vars(RetryDue(j))
  /\ WF_vars(RecoverExpiredLeases)

FairSpec == Spec /\ Fairness

-----------------------------------------------------------------------------
(* Properties                                                               *)

\* Every variable has the shape of its table or of the call's locals.
TypeOK ==
  /\ dedup \in DedupRow
  /\ jobs \in [Deliveries -> JobRow]
  /\ attempts \in [Deliveries -> SUBSET Attempt]
  /\ calls \in [Deliveries -> Call]
  /\ effects \subseteq Deliveries \X Nat
  /\ orphans \subseteq Deliveries \X Nat
  /\ faults \in 0..MaxFaults /\ crashes \in 0..MaxCrashes

\* A delivery from its claim until it gives the job back or ends it.
ClaimedPcs == {"attempt", "dispatch", "handler", "attemptOk", "complete", "readBack",
               "postUnknown", "attemptFail", "retry", "terminal"}
Claimed(r) == calls[r].pc \in ClaimedPcs

\* A job has one runner at a time, also when two deliveries share the job
\* because the record was rotated under one of them: the lease, its expiry and
\* recovery never let a second delivery in while the first may still act.
OneRunnerPerJob ==
  \A r, s \in Deliveries :
    r # s /\ Claimed(r) /\ Claimed(s) => calls[r].job # calls[s].job

\* The retry policy bounds the attempts of a job over all deliveries that run
\* it: numbers are not reused and do not pass maxAttempts.
RetryBudget ==
  \A j \in Deliveries :
    /\ jobs[j].count <= MaxAttempts
    /\ \A a, b \in attempts[j] :
         a.no \in 1..MaxAttempts /\ (a.no = b.no => a = b)

\* The evidence in job_attempts agrees with the job: a succeeded job has one
\* succeeded attempt, made under the fence the job ended with, and a job
\* somebody may claim has no attempt left running.
AttemptEvidence ==
  \A j \in Deliveries :
    /\ jobs[j].status = "succeeded" =>
         {a \in attempts[j] : a.status = "succeeded"} =
         {a \in attempts[j] : a.fence = jobs[j].fence}
    /\ jobs[j].status = "succeeded" => \E a \in attempts[j] : a.status = "succeeded"
    /\ jobs[j].status \in {"queued", "retryable"} =>
         \A a \in attempts[j] : a.status = "failed"

\* Nobody is told success, by the owner's answer, by a duplicate's or by the
\* record, unless the handler's side effect happened.
AnsweredOnlyAfterEffect ==
  dedup.state = "COMPLETED" \/ (\E r \in Deliveries : calls[r].out \in {"processed", "duplicate"})
    => effects # {}

\* A terminal job stays what it is: no late completion, retry, claim or
\* recovery moves it (ADR-155: terminal and unknown do not auto-retry).
JobOutcomeFinal ==
  [][\A j \in Deliveries : jobs[j].status \in {"succeeded", "failed", "outcome-unknown"}
       => jobs'[j] = jobs[j]]_vars

\* The side effect of one semantic key happens at most once.
AtMostOneEffect == Cardinality(effects) <= 1

\* All of what the runtime promises for one key.
Outcome == INSTANCE SemanticOutcome WITH state <- dedup.state, count <- Cardinality(effects)
DeliversAtMostOnce == Outcome!Spec

\* A delivery in progress does not stay so: its owner or recovery settles it,
\* as long as no process has crashed.
Settles ==
  dedup.state = "IN_PROGRESS" /\ crashes = 0 ~> dedup.state # "IN_PROGRESS" \/ crashes > 0

\* A call returns: neither the loops nor the waiting of a duplicate hold it.
Returns == \A r \in Deliveries : calls[r].pc # "idle" ~> calls[r].pc \in {"done", "crashed"}

\* A delivery whose job succeeded ends up answerable as a duplicate, or as an
\* unknown outcome the operator can reconcile, also after a crash.
SucceededIsAnswerable ==
  \A j \in Deliveries :
    jobs[j].status = "succeeded" ~> dedup.state \in {"COMPLETED", "OUTCOME_UNKNOWN"}
=============================================================================
