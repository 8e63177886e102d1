-------------------------- MODULE OrderedDelivery --------------------------
(***************************************************************************)
(* Durable delivery of messages that carry an ordering key and a sequence: *)
(* the ordering part of executeDeduplicatedDurable in                      *)
(* packages/connector-runtime/src/runtime.ts over PostgresOrderingStore    *)
(* and the recovery timer of adapters/connector-runtime-postgres.          *)
(*                                                                         *)
(* All deliveries belong to one ordering key, one row of                   *)
(* connector.ordering_checkpoints; each message has its own dedup record.  *)
(* ConnectorDelivery has the dedup and job statements one by one; here a   *)
(* delivery acquires its record and job in one step, and ends them in one. *)
(***************************************************************************)
EXTENDS Integers, FiniteSets

CONSTANTS
  Deliveries,    \* calls of executeDeduplicatedDurable; also names their jobs
  Messages,
  Message,       \* the message a delivery carries
  Sequence,      \* the sequence of a message under the ordering key
  MaxAttempts,   \* PostgresJobRuntime.maxAttempts
  HandlerErrors, \* error kinds the handler may throw
  MaxFaults,     \* bound: statements or transactions whose connection fails
  MaxCrashes,    \* bound: crashes
  MaxSkews,      \* bound: workers whose clock runs ahead of the database's
  None

ASSUME MessageAssumption == Message \in [Deliveries -> Messages]
ASSUME SequenceAssumption == Sequence \in [Messages -> Nat \ {0}]
ASSUME MaxAttemptsAssumption == MaxAttempts \in Nat \ {0}
ASSUME HandlerErrorsAssumption == HandlerErrors \subseteq {"retryable", "terminal"}
ASSUME BoundsAssumption == MaxFaults \in Nat /\ MaxCrashes \in Nat /\ MaxSkews \in Nat
ASSUME NoneAssumption == None \notin Deliveries

VARIABLES
  checkpoint,  \* the row of connector.ordering_checkpoints
  records,     \* the dedup record of each message
  leases,      \* the lease of each delivery's job
  calls,       \* local variables of the running deliveries
  effects,     \* invocations <<delivery, fence>> whose side effect happened
  orphans,     \* invocations still running after the caller gave them up
  faults, crashes, skews

vars == <<checkpoint, records, leases, calls, effects, orphans, faults, crashes, skews>>
bounds == <<faults, crashes, skews>>
upsets == <<crashes, skews>>

Leases == {"none", "live", "expired"}
RecordStates == {"ABSENT", "IN_PROGRESS", "OUTCOME_UNKNOWN", "COMPLETED", "FAILED"}
Pcs == {"idle", "acquire", "handler", "commit", "release", "jobEnd", "complete",
        "outerRelease", "settle", "done", "crashed"}

\* claim 0: claim_sequence IS NULL, and with it job, token and expiry.
Checkpoint == [last : Nat, fence : Nat, claim : Nat, job : Deliveries \cup {None},
               token : Nat, lease : Leases]
Record == [state : RecordStates, owner : Deliveries \cup {None}]
Flags == {"no", "yes"}
Errors == {"none", "retryable", "terminal", "unknown"}
Call == [pc : Pcs, attempt : Nat,
         fence : Nat,        \* acquiredFence.fencingToken
         held : Flags,       \* orderingFence is set
         succeeded : Flags,  \* handlerSucceeded
         err : Errors, out : Errors \cup {"processed"}]

NoCall == [pc |-> "idle", attempt |-> 0, fence |-> 0, held |-> "no", succeeded |-> "no",
           err |-> "none", out |-> "none"]

Init ==
  /\ checkpoint = [last |-> 0, fence |-> 1, claim |-> 0, job |-> None, token |-> 0,
                   lease |-> "none"]
  /\ records = [m \in Messages |-> [state |-> "ABSENT", owner |-> None]]
  /\ leases = [r \in Deliveries |-> "none"]
  /\ calls = [r \in Deliveries |-> NoCall]
  /\ effects = {} /\ orphans = {}
  /\ faults = 0 /\ crashes = 0 /\ skews = 0

-----------------------------------------------------------------------------

At(r, pc) == calls[r].pc = pc
SequenceOf(r) == Sequence[Message[r]]
Invocation(r) == <<r, calls[r].fence>>
OwnsRecord(r) == records[Message[r]] = [state |-> "IN_PROGRESS", owner |-> r]
Settled(r, state) == [records EXCEPT ![Message[r]].state = state]

Fault == faults < MaxFaults /\ faults' = faults + 1
NoFault == UNCHANGED faults

\* The call returns or dies, and its locals with it.
Gone(r, pc, out) == calls' = [calls EXCEPT ![r] = [NoCall EXCEPT !.pc = pc, !.out = out]]

\* The callback throws err into PostgresJobRuntime.run.
CallbackThrows(r, err) ==
  calls' = [calls EXCEPT ![r].pc = "jobEnd", ![r].err = err]
\* run throws err into the catch of executeDeduplicatedDurable: a handler that
\* succeeded makes it unknown, and an unknown outcome keeps the claim.
RunThrows(r, thrown) ==
  LET err == IF calls[r].succeeded = "yes" THEN "unknown" ELSE thrown IN
  calls' = [calls EXCEPT
    ![r].pc = IF err # "unknown" /\ calls[r].held = "yes" THEN "outerRelease" ELSE "settle",
    ![r].err = err]

\* dedup.begin acquires the record and run claims the job.  A record in any
\* other state answers the delivery, which then never reaches the checkpoint.
Begin(r) ==
  /\ At(r, "idle") /\ records[Message[r]].state \in {"ABSENT", "FAILED"}
  /\ records' = [records EXCEPT ![Message[r]] = [state |-> "IN_PROGRESS", owner |-> r]]
  /\ leases' = [leases EXCEPT ![r] = "live"]
  /\ calls' = [calls EXCEPT ![r].pc = "acquire", ![r].attempt = 1]
  /\ UNCHANGED <<checkpoint, effects, orphans, bounds>>

-----------------------------------------------------------------------------
(* PostgresOrderingStore.  acquireNext and commit are transactions: a       *)
(* failure before COMMIT is rolled back and thrown as it is, a lost COMMIT  *)
(* or ROLLBACK is OUTCOME_UNKNOWN.                                          *)

\* Mutant: only sequences of the past are refused.
InSequence_NotPast(r) == SequenceOf(r) > checkpoint.last

InSequence(r) == SequenceOf(r) = checkpoint.last + 1
LiveClaim == checkpoint.claim # 0 /\ checkpoint.lease = "live"
TakeClaim(r) ==
  checkpoint' = [checkpoint EXCEPT
    !.claim = SequenceOf(r), !.job = r, !.token = checkpoint.fence + 1, !.lease = "live",
    !.fence = checkpoint.fence + 1]

\* Mutant: the next delivery takes the claim, whoever holds it.
ClaimFree_Live == UNCHANGED skews

\* The expiry is compared with the worker's clock, not the database's: a clock
\* that runs ahead sees a live claim as expired.
ClaimFree ==
  \/ ~LiveClaim /\ UNCHANGED skews
  \/ LiveClaim /\ skews < MaxSkews /\ skews' = skews + 1

Acquire(r) ==
  /\ At(r, "acquire")
  /\ \/ /\ NoFault /\ InSequence(r) /\ ClaimFree /\ TakeClaim(r)
        /\ calls' = [calls EXCEPT ![r].pc = "handler", ![r].held = "yes",
                                  ![r].fence = checkpoint.fence + 1]
     \/ /\ NoFault /\ InSequence(r) /\ LiveClaim /\ CallbackThrows(r, "retryable")
        /\ UNCHANGED <<checkpoint, skews>>
     \/ /\ NoFault /\ ~InSequence(r) /\ CallbackThrows(r, "terminal")
        /\ UNCHANGED <<checkpoint, skews>>
     \/ /\ Fault /\ CallbackThrows(r, "unknown")
        /\ InSequence(r) /\ ClaimFree /\ TakeClaim(r)
     \/ /\ Fault /\ (CallbackThrows(r, "unknown") \/ CallbackThrows(r, "terminal"))
        /\ UNCHANGED <<checkpoint, skews>>
  /\ UNCHANGED <<records, leases, effects, orphans, crashes>>

\* The WHERE condition of commit and release, which looks at no expiry, and of
\* renew, which does.
HoldsClaim(r) == checkpoint.claim = SequenceOf(r) /\ checkpoint.token = calls[r].fence
Renewable(r) == HoldsClaim(r) /\ checkpoint.job = r /\ checkpoint.lease = "live"

Freed == [checkpoint EXCEPT !.claim = 0, !.job = None, !.token = 0, !.lease = "none"]
\* Mutant: the sequence of a failed handler is passed over.
FreeClaim_Skips(r) ==
  checkpoint' = IF HoldsClaim(r) THEN [Freed EXCEPT !.last = checkpoint.claim] ELSE checkpoint

FreeClaim(r) == checkpoint' = IF HoldsClaim(r) THEN Freed ELSE checkpoint

\* Whatever commit throws is OUTCOME_UNKNOWN: the handler already succeeded.
Commit(r) ==
  /\ At(r, "commit")
  /\ \/ /\ NoFault /\ HoldsClaim(r)
        /\ checkpoint' = [Freed EXCEPT !.last = checkpoint.claim]
        /\ calls' = [calls EXCEPT ![r].pc = "complete", ![r].held = "no"]
     \/ NoFault /\ ~HoldsClaim(r) /\ UNCHANGED checkpoint /\ CallbackThrows(r, "unknown")
     \/ /\ Fault /\ CallbackThrows(r, "unknown")
        /\ \/ UNCHANGED checkpoint
           \/ HoldsClaim(r) /\ checkpoint' = [Freed EXCEPT !.last = checkpoint.claim]
  /\ UNCHANGED <<records, leases, effects, orphans, upsets>>

\* A driver error of release replaces the handler's and leaves orderingFence
\* set, so that the catch around run tries to release once more.
Release(r) ==
  /\ At(r, "release")
  /\ \/ NoFault /\ FreeClaim(r)
        /\ calls' = [calls EXCEPT ![r].pc = "jobEnd", ![r].held = "no"]
     \/ Fault /\ (UNCHANGED checkpoint \/ FreeClaim(r)) /\ CallbackThrows(r, "terminal")
  /\ UNCHANGED <<records, leases, effects, orphans, upsets>>

\* A driver error here leaves the catch block: the record is not failed.
OuterRelease(r) ==
  /\ At(r, "outerRelease")
  /\ \/ NoFault /\ FreeClaim(r)
        /\ calls' = [calls EXCEPT ![r].pc = "settle", ![r].held = "no"]
     \/ Fault /\ (UNCHANGED checkpoint \/ FreeClaim(r))
        /\ Gone(r, "done", "terminal")
  /\ UNCHANGED <<records, leases, effects, orphans, upsets>>

-----------------------------------------------------------------------------
(* The handler between acquisition and commit                               *)

HandlerActs(r) ==
  /\ At(r, "handler") /\ Invocation(r) \notin effects
  /\ effects' = effects \cup {Invocation(r)}
  /\ UNCHANGED <<checkpoint, records, leases, calls, orphans, bounds>>

\* A renewal of the claim or of the job changes no row, or fails.
RenewalFails(r) == ((~Renewable(r) \/ leases[r] # "live") /\ NoFault) \/ Fault

Orphaned(r) == IF Invocation(r) \in effects THEN orphans ELSE orphans \cup {Invocation(r)}

\* Mutant: a timeout releases the claim for the next attempt.
HandlerTimesOut_Releases(r) ==
  /\ At(r, "handler")
  /\ orphans' = Orphaned(r)
  /\ calls' = [calls EXCEPT ![r].pc = "release", ![r].err = "retryable"]
  /\ UNCHANGED <<checkpoint, records, leases, effects, bounds>>

\* The caller stops waiting; a handler that runs keeps running.
HandlerTimesOut(r) ==
  /\ At(r, "handler")
  /\ orphans' = Orphaned(r) /\ CallbackThrows(r, "unknown")
  /\ UNCHANGED <<checkpoint, records, leases, effects, bounds>>

LoseLease(r) ==
  /\ At(r, "handler") /\ RenewalFails(r)
  /\ orphans' = Orphaned(r) /\ CallbackThrows(r, "unknown")
  /\ UNCHANGED <<checkpoint, records, leases, effects, upsets>>

\* A renewal of the claim still in flight is awaited by stop().
HandlerReturns(r) ==
  /\ At(r, "handler") /\ Invocation(r) \in effects
  /\ \/ NoFault /\ calls' = [calls EXCEPT ![r].pc = "commit", ![r].succeeded = "yes"]
     \/ RenewalFails(r) /\ CallbackThrows(r, "unknown")
  /\ UNCHANGED <<checkpoint, records, leases, effects, orphans, upsets>>

HandlerFails(r) ==
  /\ At(r, "handler") /\ Invocation(r) \notin effects /\ HandlerErrors # {}
  /\ \/ /\ NoFault
        /\ \E err \in HandlerErrors :
             calls' = [calls EXCEPT ![r].pc = "release", ![r].err = err]
     \/ RenewalFails(r) /\ CallbackThrows(r, "unknown")
  /\ UNCHANGED <<checkpoint, records, leases, effects, orphans, upsets>>

OrphanActs ==
  \E o \in orphans :
    /\ orphans' = orphans \ {o} /\ effects' = effects \cup {o}
    /\ UNCHANGED <<checkpoint, records, leases, calls, bounds>>

OrphanEnds ==
  \E o \in orphans :
    /\ orphans' = orphans \ {o}
    /\ UNCHANGED <<checkpoint, records, leases, calls, effects, bounds>>

-----------------------------------------------------------------------------
(* The end of the job and of the record                                     *)

CanRetry(r) == calls[r].err = "retryable" /\ calls[r].attempt < MaxAttempts
DropLease(r) == leases' = [leases EXCEPT ![r] = "none"]

\* The job ends or goes round again; without its lease the outcome is unknown,
\* and a driver error replaces it.
EndJob(r) ==
  /\ At(r, "jobEnd")
  /\ \/ NoFault /\ leases[r] = "live" /\ CanRetry(r) /\ UNCHANGED leases
        /\ calls' = [calls EXCEPT ![r].pc = "acquire", ![r].attempt = @ + 1, ![r].err = "none"]
     \/ NoFault /\ leases[r] = "live" /\ ~CanRetry(r) /\ DropLease(r)
        /\ RunThrows(r, calls[r].err)
     \/ NoFault /\ leases[r] # "live" /\ UNCHANGED leases /\ RunThrows(r, "unknown")
     \/ Fault /\ (UNCHANGED leases \/ (leases[r] = "live" /\ DropLease(r)))
        /\ RunThrows(r, "terminal")
  /\ UNCHANGED <<checkpoint, records, effects, orphans, upsets>>

\* The job succeeds and dedup.complete records the result.
Complete(r) ==
  /\ At(r, "complete")
  /\ \/ /\ NoFault /\ leases[r] = "live" /\ OwnsRecord(r)
        /\ DropLease(r) /\ records' = Settled(r, "COMPLETED")
        /\ Gone(r, "done", "processed")
     \/ NoFault /\ ~(leases[r] = "live" /\ OwnsRecord(r)) /\ UNCHANGED <<leases, records>>
        /\ RunThrows(r, "unknown")
     \/ /\ Fault /\ RunThrows(r, "unknown")
        /\ \/ UNCHANGED <<leases, records>>
           \/ leases[r] = "live" /\ DropLease(r) /\ UNCHANGED records
           \/ leases[r] = "live" /\ OwnsRecord(r) /\ DropLease(r)
              /\ records' = Settled(r, "COMPLETED")
  /\ UNCHANGED <<checkpoint, effects, orphans, upsets>>

\* Mutant: the error's code is stored as the record's state.
EndState_Code(r) == calls[r].err

EndState(r) == IF calls[r].err = "unknown" THEN "OUTCOME_UNKNOWN" ELSE "FAILED"

\* dedup.markOutcomeUnknown or dedup.fail
Settle(r) ==
  /\ At(r, "settle")
  /\ \/ NoFault /\ records' = IF OwnsRecord(r) THEN Settled(r, EndState(r)) ELSE records
     \/ Fault /\ (UNCHANGED records \/ (OwnsRecord(r) /\ records' = Settled(r, EndState(r))))
  /\ Gone(r, "done", calls[r].err)
  /\ UNCHANGED <<checkpoint, leases, effects, orphans, upsets>>

-----------------------------------------------------------------------------
(* Time, crashes, recovery and the operator                                 *)

JobLeaseExpires(r) ==
  /\ leases[r] = "live" /\ leases' = [leases EXCEPT ![r] = "expired"]
  /\ UNCHANGED <<checkpoint, records, calls, effects, orphans, bounds>>

ClaimExpires ==
  /\ checkpoint.lease = "live" /\ checkpoint' = [checkpoint EXCEPT !.lease = "expired"]
  /\ UNCHANGED <<records, leases, calls, effects, orphans, bounds>>

Crash(r) ==
  /\ crashes < MaxCrashes /\ crashes' = crashes + 1
  /\ calls[r].pc \notin {"idle", "crashed"}
  /\ calls[r].pc # "done" \/ \E o \in orphans : o[1] = r
  /\ Gone(r, "crashed", "none")
  /\ orphans' = {o \in orphans : o[1] # r}
  /\ UNCHANGED <<checkpoint, records, leases, effects, faults, skews>>

\* Mutant: the claims of the ordering table are left to their owners.
Recovered_JobsOnly == checkpoint

Recovered == [Freed EXCEPT !.fence = checkpoint.fence + 1]

\* recoverExpiredLeases: expired jobs, their records and expired claims, in one
\* transaction.
Recover ==
  LET expired == {r \in Deliveries : leases[r] = "expired"} IN
  /\ expired # {} \/ checkpoint.lease = "expired"
  /\ leases' = [r \in Deliveries |-> IF r \in expired THEN "none" ELSE leases[r]]
  /\ records' = [m \in Messages |->
       IF records[m].state = "IN_PROGRESS" /\ \E r \in expired : Message[r] = m
       THEN [records[m] EXCEPT !.state = "OUTCOME_UNKNOWN"] ELSE records[m]]
  /\ checkpoint' = IF checkpoint.lease = "expired" THEN Recovered ELSE checkpoint
  /\ UNCHANGED <<calls, effects, orphans, bounds>>

\* The operator knows what happened, as in ConnectorDelivery.  The result is
\* recorded; the checkpoint is not touched.
Reconcile(m) ==
  LET acted == \E e \in effects : Message[e[1]] = m
      running == (\E o \in orphans : Message[o[1]] = m)
                 \/ \E r \in Deliveries : Message[r] = m /\ calls[r].pc \notin {"idle", "done", "crashed"}
  IN
  /\ records[m].state = "OUTCOME_UNKNOWN" /\ (acted \/ ~running)
  /\ records' = [records EXCEPT ![m].state = IF acted THEN "COMPLETED" ELSE "FAILED"]
  /\ UNCHANGED <<checkpoint, leases, calls, effects, orphans, bounds>>

-----------------------------------------------------------------------------

Deliver(r) ==
  \/ Begin(r) \/ Acquire(r)
  \/ HandlerActs(r) \/ HandlerTimesOut(r) \/ LoseLease(r)
  \/ HandlerReturns(r) \/ HandlerFails(r)
  \/ Commit(r) \/ Release(r) \/ EndJob(r) \/ Complete(r) \/ OuterRelease(r) \/ Settle(r)

Next ==
  \/ \E r \in Deliveries : Deliver(r) \/ JobLeaseExpires(r) \/ Crash(r)
  \/ \E m \in Messages : Reconcile(m)
  \/ OrphanActs \/ OrphanEnds \/ ClaimExpires \/ Recover

Spec == Init /\ [][Next]_vars

\* A started delivery goes on, time passes, the 5-second timer runs.
Fairness ==
  /\ \A r \in Deliveries : WF_vars(calls[r].pc # "idle" /\ Deliver(r))
  /\ \A r \in Deliveries : WF_vars(JobLeaseExpires(r))
  /\ WF_vars(ClaimExpires) /\ WF_vars(Recover)

FairSpec == Spec /\ Fairness

-----------------------------------------------------------------------------
(* Properties                                                               *)

\* Every variable has the shape of its table or of the call's locals.
TypeOK ==
  /\ checkpoint \in Checkpoint
  /\ records \in [Messages -> Record]
  /\ leases \in [Deliveries -> Leases]
  /\ calls \in [Deliveries -> Call]
  /\ effects \subseteq Deliveries \X Nat /\ orphans \subseteq Deliveries \X Nat
  /\ faults \in 0..MaxFaults /\ crashes \in 0..MaxCrashes /\ skews \in 0..MaxSkews

ActedOn(n, done) == \E e \in done : SequenceOf(e[1]) = n

\* Only a successful handler advances the checkpoint (ADR-155): every sequence
\* up to last_sequence had its side effect.
CheckpointTruthful ==
  \A n \in 1..checkpoint.last : ActedOn(n, effects)

\* No gap: the side effect of a sequence comes after those of all smaller ones,
\* whatever deliveries fail, hang, lose their claim or run on as orphans.
EffectsInOrder ==
  [][\A e \in effects' \ effects :
       \A n \in 1..(SequenceOf(e[1]) - 1) : ActedOn(n, effects)]_vars

\* No way back: when a sequence takes effect, no larger one has, as long as each
\* message has a sequence of its own and no statement has failed.
NoLateEffect ==
  [][faults' = 0 => \A e \in effects' \ effects :
       \A f \in effects : SequenceOf(f[1]) <= SequenceOf(e[1])]_vars

\* A claim that has not expired is ended by the delivery that holds it, in the
\* step that delivery takes, and by nobody else; a worker whose clock runs
\* ahead is the exception the model names.
FencedOut ==
  [][LiveClaim /\ checkpoint'.token # checkpoint.token /\ skews' = skews
       => /\ calls[checkpoint.job].fence = checkpoint.token
          /\ calls'[checkpoint.job].pc # calls[checkpoint.job].pc]_vars

\* A claim on the stream does not outlive its delivery: a crash, a timeout or a
\* failed release leaves it to expiry and recovery.
ClaimEnds ==
  \A r \in Deliveries : checkpoint.job = r ~> checkpoint.job # r
=============================================================================
