----------------------- MODULE OrderedDeliveryProofs -----------------------
(* Theorems about OrderedDelivery, for any number of deliveries, messages   *)
(* and sequences, attempts, failing connections, crashes and skewed clocks. *)
EXTENDS OrderedDelivery, TLAPS

-----------------------------------------------------------------------------
(* Part 1: what a step does to the row and to the locals                    *)

RowsOK ==
  /\ checkpoint \in Checkpoint /\ calls \in [Deliveries -> Call]
  /\ effects \subseteq Deliveries \X Nat /\ orphans \subseteq Deliveries \X Nat
  /\ skews \in Nat

Outs == Errors \cup {"processed"}

\* The literals the actions use.
LEMMA Literals ==
  /\ {"idle", "acquire", "handler", "commit", "release", "jobEnd", "complete",
      "outerRelease", "settle", "done", "crashed"} \subseteq Pcs
  /\ {"none", "retryable", "terminal", "unknown"} \subseteq Errors
  /\ {"none", "processed", "retryable", "terminal", "unknown"} \subseteq Outs
  /\ Errors \subseteq Outs /\ "no" \in Flags /\ "yes" \in Flags
BY DEF Pcs, Errors, Outs, Flags

\* Assigning some of a call's fields leaves it a call.
LEMMA CallTypes ==
  ASSUME calls \in [Deliveries -> Call], NEW r \in Deliveries, NEW pc \in Pcs,
         NEW err \in Errors, NEW flag \in Flags, NEW n \in Nat
  PROVE  /\ [calls EXCEPT ![r].pc = pc, ![r].err = err] \in [Deliveries -> Call]
         /\ [calls EXCEPT ![r].pc = pc, ![r].held = flag] \in [Deliveries -> Call]
         /\ [calls EXCEPT ![r].pc = pc, ![r].succeeded = flag] \in [Deliveries -> Call]
         /\ [calls EXCEPT ![r].pc = pc, ![r].attempt = n] \in [Deliveries -> Call]
         /\ [calls EXCEPT ![r].pc = pc, ![r].held = flag, ![r].fence = n]
              \in [Deliveries -> Call]
         /\ [calls EXCEPT ![r].pc = pc, ![r].attempt = n, ![r].err = err]
              \in [Deliveries -> Call]
<1> USE DEF Call
<1>1. [calls EXCEPT ![r].pc = pc, ![r].err = err] \in [Deliveries -> Call]
  BY Zenon
<1>2. [calls EXCEPT ![r].pc = pc, ![r].held = flag] \in [Deliveries -> Call]
  BY Zenon
<1>3. [calls EXCEPT ![r].pc = pc, ![r].succeeded = flag] \in [Deliveries -> Call]
  BY Zenon
<1>4. [calls EXCEPT ![r].pc = pc, ![r].attempt = n] \in [Deliveries -> Call]
  BY Zenon
<1>5. [calls EXCEPT ![r].pc = pc, ![r].held = flag, ![r].fence = n] \in [Deliveries -> Call]
  BY Zenon
<1>6. [calls EXCEPT ![r].pc = pc, ![r].attempt = n, ![r].err = err] \in [Deliveries -> Call]
  BY Zenon
<1> QED
  BY <1>1, <1>2, <1>3, <1>4, <1>5, <1>6

\* Moving a call with an error keeps its fence; a call that is gone has none.
LEMMA CallUpdates ==
  ASSUME calls \in [Deliveries -> Call], NEW r \in Deliveries
  PROVE  /\ \A err \in Errors : CallbackThrows(r, err) =>
              /\ calls' \in [Deliveries -> Call]
              /\ calls'[r].pc = "jobEnd" /\ calls'[r].fence = calls[r].fence
         /\ \A err \in Errors : RunThrows(r, err) =>
              /\ calls' \in [Deliveries -> Call]
              /\ calls'[r].pc \in {"outerRelease", "settle"} /\ calls'[r].fence = calls[r].fence
         /\ \A pc \in {"done", "crashed"}, out \in Outs : Gone(r, pc, out) =>
              /\ calls' \in [Deliveries -> Call]
              /\ calls'[r].pc = pc /\ calls'[r].fence = 0
<1>1. ASSUME NEW err \in Errors, CallbackThrows(r, err)
      PROVE  /\ calls' \in [Deliveries -> Call]
             /\ calls'[r].pc = "jobEnd" /\ calls'[r].fence = calls[r].fence
  <2>1. calls' = [calls EXCEPT ![r].pc = "jobEnd", ![r].err = err]
    BY <1>1 DEF CallbackThrows
  <2>2. calls' \in [Deliveries -> Call]
    BY <2>1, CallTypes, Literals, 0 \in Nat, Zenon
  <2>3. calls'[r].pc = "jobEnd" /\ calls'[r].fence = calls[r].fence
    BY <2>1, SMT DEF Call
  <2> QED
    BY <2>2, <2>3
<1>2. ASSUME NEW thrown \in Errors, RunThrows(r, thrown)
      PROVE  /\ calls' \in [Deliveries -> Call]
             /\ calls'[r].pc \in {"outerRelease", "settle"} /\ calls'[r].fence = calls[r].fence
  <2> DEFINE err == IF calls[r].succeeded = "yes" THEN "unknown" ELSE thrown
             pc == IF err # "unknown" /\ calls[r].held = "yes" THEN "outerRelease" ELSE "settle"
  <2>1. calls' = [calls EXCEPT ![r].pc = pc, ![r].err = err]
    BY <1>2 DEF RunThrows
  <2>2. err \in Errors /\ pc \in Pcs /\ pc \in {"outerRelease", "settle"}
    BY Literals
  <2> HIDE DEF err, pc
  <2>3. calls' \in [Deliveries -> Call]
    BY <2>1, <2>2, CallTypes, Literals, 0 \in Nat, Zenon
  <2>4. calls'[r].pc = pc /\ calls'[r].fence = calls[r].fence
    BY <2>1, SMT DEF Call
  <2> QED
    BY <2>2, <2>3, <2>4
<1>3. ASSUME NEW pc \in {"done", "crashed"}, NEW out \in Outs, Gone(r, pc, out)
      PROVE  calls' \in [Deliveries -> Call] /\ calls'[r].pc = pc /\ calls'[r].fence = 0
  <2>1. [NoCall EXCEPT !.pc = pc, !.out = out] \in Call
    <3>1. NoCall \in Call
      BY Literals, 0 \in Nat, SMT DEF NoCall, Call, Pcs, Errors, Flags
    <3>2. pc \in Pcs
      BY Literals
    <3> QED
      BY <3>1, <3>2, Literals, 0 \in Nat, Zenon DEF Call, Outs
  <2>2. /\ [NoCall EXCEPT !.pc = pc, !.out = out].pc = pc
        /\ [NoCall EXCEPT !.pc = pc, !.out = out].fence = 0
    BY SMT DEF NoCall
  <2>3. calls' = [calls EXCEPT ![r] = [NoCall EXCEPT !.pc = pc, !.out = out]]
    BY <1>3 DEF Gone
  <2>4. calls' \in [Deliveries -> Call] /\ calls'[r] = [NoCall EXCEPT !.pc = pc, !.out = out]
    BY <2>1, <2>3, Zenon
  <2> QED
    BY <2>2, <2>4
<1> QED
  BY <1>1, <1>2, <1>3, Zenon

\* What a step of delivery r does to its own locals.
Kept(r) == calls'[r].fence = calls[r].fence /\ calls'[r].pc \notin {"handler", "commit"}
Dropped(r) == calls'[r].fence = 0 /\ calls'[r].pc \notin {"handler", "commit"}
Entered(r) ==
  /\ At(r, "acquire") /\ InSequence(r) /\ TakeClaim(r)
  /\ calls'[r].fence = checkpoint.fence + 1 /\ calls'[r].pc = "handler"
Returned(r) ==
  /\ At(r, "handler") /\ Invocation(r) \in effects
  /\ calls'[r].fence = calls[r].fence /\ calls'[r].pc = "commit"
OwnStep(r) == Kept(r) \/ Dropped(r) \/ Entered(r) \/ Returned(r)

\* A step of r leaves the locals of the others alone.
Alone(r) == \A s \in Deliveries : s # r => calls'[s] = calls[s]

LEMMA DeliverCalls ==
  ASSUME RowsOK, NEW r \in Deliveries, Deliver(r), HandlerErrorsAssumption
  PROVE  calls' \in [Deliveries -> Call] /\ Alone(r) /\ (calls' = calls \/ OwnStep(r))
<1>a. calls \in [Deliveries -> Call] /\ checkpoint \in Checkpoint
  BY DEF RowsOK
<1>0. /\ {"none", "retryable", "terminal", "unknown"} \subseteq Errors
      /\ {"none", "processed", "retryable", "terminal", "unknown"} \subseteq Outs
      /\ calls[r].err \in Errors /\ calls[r].err \in Outs
  BY <1>a, <1>a, Literals, SMT DEF Call
<1>1. ASSUME NEW err \in Errors, CallbackThrows(r, err)
      PROVE  calls' \in [Deliveries -> Call] /\ Alone(r) /\ Kept(r)
  <2>1. Alone(r)
    BY <1>1, <1>a, Zenon DEF CallbackThrows, Alone
  <2> QED
    BY <1>a, <1>1, <2>1, CallUpdates, Zenon DEF Kept
<1>2. ASSUME NEW err \in Errors, RunThrows(r, err)
      PROVE  calls' \in [Deliveries -> Call] /\ Alone(r) /\ Kept(r)
  <2>1. Alone(r)
    BY <1>2, <1>a, Zenon DEF RunThrows, Alone
  <2> QED
    BY <1>a, <1>2, <2>1, CallUpdates, SMT DEF Kept
<1>3. ASSUME NEW out \in Outs, Gone(r, "done", out)
      PROVE  calls' \in [Deliveries -> Call] /\ Alone(r) /\ Dropped(r)
  <2>1. Alone(r)
    BY <1>3, <1>a, Zenon DEF Gone, Alone
  <2> QED
    BY <1>a, <1>3, <2>1, CallUpdates, SMT DEF Dropped
<1>4. ASSUME Begin(r)
      PROVE  calls' \in [Deliveries -> Call] /\ Alone(r) /\ Kept(r)
  <2>1. calls' = [calls EXCEPT ![r].pc = "acquire", ![r].attempt = 1]
    BY <1>4 DEF Begin
  <2>2. calls' \in [Deliveries -> Call]
    BY <1>a, <2>1, CallTypes, Literals, 0 \in Nat, 1 \in Nat, Zenon
  <2>3. Alone(r) /\ Kept(r)
    BY <1>a, <2>1, SMT DEF Alone, Kept, Call
  <2> QED
    BY <2>2, <2>3
<1>5. ASSUME Acquire(r)
      PROVE  calls' \in [Deliveries -> Call] /\ Alone(r) /\ (Kept(r) \/ Entered(r))
  <2>1. CASE /\ At(r, "acquire") /\ InSequence(r) /\ TakeClaim(r)
             /\ calls' = [calls EXCEPT ![r].pc = "handler", ![r].held = "yes",
                                       ![r].fence = checkpoint.fence + 1]
    <3>1. checkpoint.fence + 1 \in Nat
      BY <1>a, SMT DEF Checkpoint
    <3>2. calls' \in [Deliveries -> Call]
      BY <1>a, <2>1, <3>1, CallTypes, Literals, 0 \in Nat, 1 \in Nat, Zenon
    <3>3. Alone(r) /\ Entered(r)
      BY <1>a, <2>1, SMT DEF Alone, Entered, Call
    <3> QED
      BY <3>2, <3>3
  <2>2. CASE \E err \in Errors : CallbackThrows(r, err)
    BY <1>1, <2>2
  <2> QED
    BY <1>0, <1>5, <2>1, <2>2, Zenon DEF Acquire
<1>6. ASSUME NEW pc \in {"jobEnd", "complete", "settle"},
             calls' = [calls EXCEPT ![r].pc = pc, ![r].held = "no"]
      PROVE  calls' \in [Deliveries -> Call] /\ Alone(r) /\ Kept(r)
  <2>1. pc \in Pcs
    BY DEF Pcs
  <2>2. calls' \in [Deliveries -> Call]
    BY <1>a, <1>6, <2>1, CallTypes, Literals, 0 \in Nat, Zenon
  <2>3. Alone(r) /\ Kept(r)
    BY <1>a, <1>6, SMT DEF Alone, Kept, Call
  <2> QED
    BY <2>2, <2>3
<1>7. ASSUME HandlerReturns(r)
      PROVE  calls' \in [Deliveries -> Call] /\ Alone(r) /\ (Kept(r) \/ Returned(r))
  <2>1. CASE calls' = [calls EXCEPT ![r].pc = "commit", ![r].succeeded = "yes"]
    <3>1. calls' \in [Deliveries -> Call]
      BY <1>a, <2>1, CallTypes, Literals, 0 \in Nat, 1 \in Nat, Zenon
    <3>2. Alone(r)
      BY <2>1, <1>a, Zenon DEF Alone
    <3>3. calls'[r].fence = calls[r].fence /\ calls'[r].pc = "commit"
      BY <1>a, <2>1, SMT DEF Call
    <3> QED
      BY <1>7, <3>1, <3>2, <3>3, Zenon DEF HandlerReturns, Returned
  <2> QED
    BY <1>0, <1>1, <1>7, <2>1, Zenon DEF HandlerReturns
<1>8. ASSUME HandlerFails(r)
      PROVE  calls' \in [Deliveries -> Call] /\ Alone(r) /\ Kept(r)
  <2>1. ASSUME NEW err \in HandlerErrors,
               calls' = [calls EXCEPT ![r].pc = "release", ![r].err = err]
        PROVE  calls' \in [Deliveries -> Call] /\ Alone(r) /\ Kept(r)
    <3>1. err \in Errors
      BY HandlerErrorsAssumption, Literals DEF HandlerErrorsAssumption
    <3>2. calls' \in [Deliveries -> Call]
      BY <1>a, <2>1, <3>1, CallTypes, Literals, 0 \in Nat, 1 \in Nat, Zenon
    <3>3. Alone(r) /\ Kept(r)
      BY <1>a, <2>1, SMT DEF Alone, Kept, Call
    <3> QED
      BY <3>2, <3>3
  <2> QED
    BY <1>0, <1>1, <1>8, <2>1, Zenon DEF HandlerFails
<1>9. ASSUME EndJob(r)
      PROVE  calls' \in [Deliveries -> Call] /\ Alone(r) /\ Kept(r)
  <2>1. CASE calls' = [calls EXCEPT ![r].pc = "acquire", ![r].attempt = @ + 1, ![r].err = "none"]
    <3>1. calls[r].attempt + 1 \in Nat
      BY <1>a, SMT DEF Call
    <3>2. calls' \in [Deliveries -> Call]
      BY <1>a, <2>1, <3>1, CallTypes, Literals, 0 \in Nat, 1 \in Nat, Zenon
    <3>3. Alone(r) /\ Kept(r)
      BY <1>a, <2>1, SMT DEF Alone, Kept, Call
    <3> QED
      BY <3>2, <3>3
  <2> QED
    BY <1>0, <1>2, <1>9, <2>1, Zenon DEF EndJob
<1>10. CASE HandlerActs(r)
  BY <1>10, <1>a, Zenon DEF HandlerActs, Alone
<1>11. CASE HandlerTimesOut(r) \/ LoseLease(r)
  BY <1>0, <1>1, <1>11, Zenon DEF HandlerTimesOut, LoseLease, OwnStep
<1>12. CASE Commit(r) \/ Release(r)
  BY <1>0, <1>1, <1>6, <1>12, Zenon DEF Commit, Release, OwnStep
<1>13. CASE OuterRelease(r)
  BY <1>0, <1>3, <1>6, <1>13, Zenon DEF OuterRelease, OwnStep
<1>14. CASE Complete(r)
  BY <1>0, <1>2, <1>3, <1>14, Zenon DEF Complete, OwnStep
<1>15. CASE Settle(r)
  BY <1>0, <1>3, <1>15, Zenon DEF Settle, OwnStep
<1> QED
  BY <1>4, <1>5, <1>7, <1>8, <1>9, <1>10, <1>11, <1>12, <1>13, <1>14, <1>15, Zenon
  DEF Deliver, OwnStep

-----------------------------------------------------------------------------
(* Part 2: the steps, sorted by what they do to the row                     *)

Environment ==
  \/ \E r \in Deliveries : JobLeaseExpires(r) \/ Crash(r)
  \/ \E m \in Messages : Reconcile(m)
  \/ OrphanActs \/ OrphanEnds \/ ClaimExpires \/ Recover

Acquires(r) == At(r, "acquire") /\ InSequence(r) /\ TakeClaim(r) /\ ClaimFree
Releases(r) ==
  /\ calls[r].pc \in {"release", "outerRelease"} /\ HoldsClaim(r) /\ checkpoint' = Freed
  /\ calls'[r].pc \in {"jobEnd", "settle", "done"}
Commits(r) ==
  /\ At(r, "commit") /\ HoldsClaim(r)
  /\ checkpoint' = [Freed EXCEPT !.last = checkpoint.claim]
  /\ calls'[r].pc \in {"jobEnd", "complete"}

\* A delivery takes, frees or commits the claim, or leaves the row alone.
LEMMA DeliverRow ==
  ASSUME calls \in [Deliveries -> Call], NEW r \in Deliveries, Deliver(r)
  PROVE  UNCHANGED checkpoint \/ Acquires(r) \/ Releases(r) \/ Commits(r)
<1>0. /\ {"unknown", "terminal"} \subseteq Errors /\ "terminal" \in Outs
  BY Literals
<1>1. CASE Acquire(r)
  BY <1>1, Zenon DEF Acquire, Acquires
<1>2. CASE Commit(r)
  <2>1. CASE calls' = [calls EXCEPT ![r].pc = "complete", ![r].held = "no"]
    <3>1. calls'[r].pc = "complete"
      BY <2>1, SMT DEF Call
    <3> QED
      BY <1>2, <3>1, Zenon DEF Commit, Commits
  <2>2. CASE CallbackThrows(r, "unknown")
    <3>1. calls'[r].pc = "jobEnd"
      BY <1>0, <2>2, CallUpdates, Zenon
    <3> QED
      BY <1>2, <3>1, Zenon DEF Commit, Commits
  <2> QED
    BY <1>2, <2>1, <2>2, Zenon DEF Commit
<1>3. CASE Release(r)
  <2>1. CASE calls' = [calls EXCEPT ![r].pc = "jobEnd", ![r].held = "no"]
    <3>1. calls'[r].pc = "jobEnd"
      BY <2>1, SMT DEF Call
    <3> QED
      BY <1>3, <3>1, Zenon DEF Release, Releases, FreeClaim, At
  <2>2. CASE CallbackThrows(r, "terminal")
    <3>1. calls'[r].pc = "jobEnd"
      BY <1>0, <2>2, CallUpdates, Zenon
    <3> QED
      BY <1>3, <3>1, Zenon DEF Release, Releases, FreeClaim, At
  <2> QED
    BY <1>3, <2>1, <2>2, Zenon DEF Release
<1>4. CASE OuterRelease(r)
  <2>1. CASE calls' = [calls EXCEPT ![r].pc = "settle", ![r].held = "no"]
    <3>1. calls'[r].pc = "settle"
      BY <2>1, SMT DEF Call
    <3> QED
      BY <1>4, <3>1, Zenon DEF OuterRelease, Releases, FreeClaim, At
  <2>2. CASE Gone(r, "done", "terminal")
    <3>1. calls'[r].pc = "done"
      BY <1>0, <2>2, CallUpdates, Zenon
    <3> QED
      BY <1>4, <3>1, Zenon DEF OuterRelease, Releases, FreeClaim, At
  <2> QED
    BY <1>4, <2>1, <2>2, Zenon DEF OuterRelease
<1> QED
  BY <1>1, <1>2, <1>3, <1>4, Zenon DEF Deliver, Begin, HandlerActs, HandlerTimesOut, LoseLease,
     HandlerReturns, HandlerFails, EndJob, Complete, Settle

\* Time and recovery touch the row in their own way; nothing else does.
LEMMA EnvironmentRow ==
  ASSUME Environment
  PROVE  \/ UNCHANGED checkpoint
         \/ checkpoint.lease = "live" /\ checkpoint' = [checkpoint EXCEPT !.lease = "expired"]
         \/ checkpoint.lease = "expired" /\ checkpoint' = Recovered
BY Zenon DEF Environment, JobLeaseExpires, Crash, Reconcile, OrphanActs, OrphanEnds,
   ClaimExpires, Recover

\* Outside the deliveries only a crash touches a call, and ends it.
LEMMA EnvironmentCalls ==
  ASSUME calls \in [Deliveries -> Call], Environment
  PROVE  /\ calls' \in [Deliveries -> Call]
         /\ \A s \in Deliveries : calls'[s] = calls[s] \/ Dropped(s)
<1>1. ASSUME NEW r \in Deliveries, Crash(r)
      PROVE  /\ calls' \in [Deliveries -> Call]
             /\ \A s \in Deliveries : calls'[s] = calls[s] \/ Dropped(s)
  <2>1. Gone(r, "crashed", "none") /\ "none" \in Outs
    BY <1>1, Literals DEF Crash
  <2>2. calls' \in [Deliveries -> Call] /\ calls'[r].pc = "crashed" /\ calls'[r].fence = 0
    BY <2>1, CallUpdates, Zenon
  <2>3. \A s \in Deliveries : s # r => calls'[s] = calls[s]
    BY <2>1, Zenon DEF Gone
  <2> QED
    BY <2>2, <2>3, SMT DEF Dropped
<1>2. CASE UNCHANGED calls
  BY <1>2
<1> QED
  BY <1>1, <1>2, Zenon DEF Environment, JobLeaseExpires, Reconcile, OrphanActs, OrphanEnds,
     ClaimExpires, Recover

\* The row keeps its type.
LEMMA RowType ==
  ASSUME checkpoint \in Checkpoint
  PROVE  /\ Freed \in Checkpoint /\ Recovered \in Checkpoint
         /\ [Freed EXCEPT !.last = checkpoint.claim] \in Checkpoint
         /\ [checkpoint EXCEPT !.lease = "expired"] \in Checkpoint
<1>1. checkpoint.fence + 1 \in Nat /\ checkpoint.claim \in Nat
  BY SMT DEF Checkpoint
<1>2. Freed \in Checkpoint
  BY 0 \in Nat, Zenon DEF Checkpoint, Freed, Leases
<1>3. \A c \in Checkpoint, n \in Nat :
        [c EXCEPT !.last = n] \in Checkpoint /\ [c EXCEPT !.fence = n] \in Checkpoint
  <2> SUFFICES ASSUME NEW c \in Checkpoint, NEW n \in Nat
               PROVE  [c EXCEPT !.last = n] \in Checkpoint /\ [c EXCEPT !.fence = n] \in Checkpoint
    OBVIOUS
  <2> QED
    BY Zenon DEF Checkpoint
<1>4. [checkpoint EXCEPT !.lease = "expired"] \in Checkpoint
  BY Zenon DEF Checkpoint, Leases
<1>5. Recovered \in Checkpoint
  BY <1>1, <1>2, <1>3, Zenon DEF Recovered
<1>6. [Freed EXCEPT !.last = checkpoint.claim] \in Checkpoint
  BY <1>1, <1>2, <1>3, Zenon
<1> QED
  BY <1>2, <1>4, <1>5, <1>6

LEMMA AcquiredType ==
  ASSUME checkpoint \in Checkpoint, NEW r \in Deliveries, SequenceOf(r) \in Nat, TakeClaim(r)
  PROVE  checkpoint' \in Checkpoint
<1>1. ASSUME NEW n \in Nat, NEW f \in Nat
      PROVE  [checkpoint EXCEPT !.claim = n, !.job = r, !.token = f, !.lease = "live", !.fence = f]
               \in Checkpoint
  BY Zenon DEF Checkpoint, Leases
<1>2. checkpoint.fence + 1 \in Nat
  BY SMT DEF Checkpoint
<1> QED
  BY <1>1, <1>2, Zenon DEF TakeClaim

LEMMA SequenceType == ASSUME NEW r \in Deliveries PROVE SequenceOf(r) \in Nat \ {0}
BY MessageAssumption, SequenceAssumption, Zenon
DEF MessageAssumption, SequenceAssumption, SequenceOf

\* Side effects come from a handler that runs, or from an orphan.
LEMMA EffectsStep ==
  ASSUME Next
  PROVE  /\ \/ UNCHANGED effects
            \/ \E r \in Deliveries : At(r, "handler") /\ effects' = effects \cup {Invocation(r)}
            \/ \E o \in orphans : effects' = effects \cup {o}
         /\ \A o \in orphans' :
              o \in orphans \/ \E r \in Deliveries : At(r, "handler") /\ o = Invocation(r)
<1> USE DEF Orphaned
<1>1. ASSUME NEW r \in Deliveries, Deliver(r)
      PROVE  /\ \/ UNCHANGED effects
                \/ At(r, "handler") /\ effects' = effects \cup {Invocation(r)}
             /\ \A o \in orphans' : o \in orphans \/ (At(r, "handler") /\ o = Invocation(r))
  <2>1. CASE HandlerTimesOut(r) \/ LoseLease(r)
    BY <2>1, Zenon DEF HandlerTimesOut, LoseLease
  <2>2. CASE HandlerActs(r)
    BY <2>2, Zenon DEF HandlerActs
  <2> QED
    BY <1>1, <2>1, <2>2, Zenon DEF Deliver, Begin, Acquire, Commit, Release, OuterRelease,
       HandlerReturns, HandlerFails, EndJob, Complete, Settle
<1>2. CASE Environment
  BY <1>2, Zenon DEF Environment, JobLeaseExpires, Crash, Reconcile, OrphanActs, OrphanEnds,
     ClaimExpires, Recover
<1> QED
  BY <1>1, <1>2, Zenon DEF Next, Environment

LEMMA SkewsStep == ASSUME Next PROVE skews' = skews \/ skews' = skews + 1
BY Zenon DEF Next, Deliver, Begin, Acquire, ClaimFree, Commit, Release, OuterRelease,
   HandlerActs, HandlerTimesOut, LoseLease, HandlerReturns, HandlerFails, EndJob, Complete,
   Settle, JobLeaseExpires, Crash, Reconcile, OrphanActs, OrphanEnds, ClaimExpires, Recover,
   bounds, upsets

\* The row and the locals keep their types.
LEMMA RowsInvariant == Spec => []RowsOK
<1>1. Init => RowsOK
  <2>1. ASSUME Init PROVE checkpoint \in Checkpoint
    BY <2>1, SMT DEF Init, Checkpoint, Leases
  <2>2. ASSUME Init PROVE calls \in [Deliveries -> Call]
    <3>1. NoCall \in Call
      BY Literals, 0 \in Nat, SMT DEF NoCall, Call, Pcs, Errors, Flags
    <3> QED
      BY <2>2, <3>1, Zenon DEF Init
  <2> QED
    BY <2>1, <2>2, SMT DEF Init, RowsOK
<1>2. ASSUME RowsOK, [Next]_vars
      PROVE  RowsOK'
  <2> SUFFICES ASSUME Next PROVE RowsOK'
    BY <1>2, Zenon DEF vars, bounds, RowsOK
  <2>1. /\ checkpoint \in Checkpoint /\ calls \in [Deliveries -> Call]
        /\ effects \subseteq Deliveries \X Nat /\ orphans \subseteq Deliveries \X Nat
    BY <1>2 DEF RowsOK
  <2>2. skews' \in Nat
    BY <1>2, SkewsStep, SMT DEF RowsOK
  <2>3. \A r \in Deliveries : Invocation(r) \in Deliveries \X Nat
    BY <2>1, SMT DEF Invocation, Call
  <2>4. effects' \subseteq Deliveries \X Nat /\ orphans' \subseteq Deliveries \X Nat
    BY <2>1, <2>3, EffectsStep, Zenon
  <2>5. ASSUME NEW r \in Deliveries, Deliver(r)
        PROVE  checkpoint' \in Checkpoint /\ calls' \in [Deliveries -> Call]
    <3>1. SequenceOf(r) \in Nat
      BY SequenceType
    <3>2. checkpoint' \in Checkpoint
      BY <2>1, <2>5, <3>1, DeliverRow, RowType, AcquiredType, Zenon
         DEF Acquires, Releases, Commits
    <3> QED
      BY <1>2, <2>5, <3>2, DeliverCalls, HandlerErrorsAssumption
  <2>6. ASSUME Environment
        PROVE  checkpoint' \in Checkpoint /\ calls' \in [Deliveries -> Call]
    <3>1. checkpoint' \in Checkpoint
      BY <2>1, <2>6, EnvironmentRow, RowType, Zenon
    <3> QED
      BY <2>1, <2>6, <3>1, EnvironmentCalls
  <2> QED
    BY <2>2, <2>4, <2>5, <2>6, Zenon DEF Next, Environment, RowsOK
<1> QED
  BY <1>1, <1>2, PTL DEF Spec

-----------------------------------------------------------------------------
(* Part 3: the order of the side effects                                    *)

\* A claim is for the next sequence; the checkpoint covers sequences that took
\* effect; who runs or commits, also as an orphan, was admitted at last + 1 or
\* before.
OrderInv ==
  /\ checkpoint.claim # 0 => checkpoint.claim = checkpoint.last + 1
  /\ CheckpointTruthful
  /\ \A r \in Deliveries :
       /\ At(r, "handler") => SequenceOf(r) <= checkpoint.last + 1
       /\ At(r, "commit") => Invocation(r) \in effects
  /\ \A o \in orphans : SequenceOf(o[1]) <= checkpoint.last + 1

\* The checkpoint moves to the next sequence, after its effect, or not at all.
Advances ==
  /\ checkpoint.claim = checkpoint.last + 1 /\ checkpoint'.last = checkpoint.claim
  /\ checkpoint'.claim = 0 /\ ActedOn(checkpoint.claim, effects)
Stays ==
  /\ checkpoint'.last = checkpoint.last
  /\ checkpoint'.claim # 0 => checkpoint'.claim = checkpoint.last + 1

LEMMA OrderRow ==
  ASSUME RowsOK, OrderInv, Next
  PROVE  Advances \/ Stays
<1>1. checkpoint \in Checkpoint /\ calls \in [Deliveries -> Call]
  BY DEF RowsOK
<1>2. ASSUME NEW r \in Deliveries, Deliver(r)
      PROVE  Advances \/ Stays
  <2>1. CASE UNCHANGED checkpoint
    BY <2>1, SMT DEF OrderInv, Stays
  <2>2. CASE Acquires(r)
    BY <1>1, <2>2, SMT DEF Acquires, InSequence, TakeClaim, Stays, Checkpoint
  <2>3. CASE Releases(r)
    BY <1>1, <2>3, SMT DEF Releases, Freed, Stays, Checkpoint
  <2>4. CASE Commits(r)
    <3>1. ActedOn(checkpoint.claim, effects)
      <4>1. Invocation(r) \in effects /\ SequenceOf(r) = checkpoint.claim
        BY <2>4, Zenon DEF Commits, HoldsClaim, OrderInv
      <4>2. Invocation(r)[1] = r
        BY SMT DEF Invocation
      <4> QED
        BY <4>1, <4>2, Zenon DEF ActedOn
    <3>2. checkpoint.claim # 0
      BY <2>4, SequenceType, SMT DEF Commits, HoldsClaim
    <3>3. checkpoint'.last = checkpoint.claim /\ checkpoint'.claim = 0
      BY <1>1, <2>4, SMT DEF Commits, Freed, Checkpoint
    <3> QED
      BY <3>1, <3>2, <3>3 DEF Advances, OrderInv
  <2> QED
    BY <1>1, <1>2, <2>1, <2>2, <2>3, <2>4, DeliverRow
<1>3. CASE Environment
  <2>1. CASE UNCHANGED checkpoint \/ checkpoint' = [checkpoint EXCEPT !.lease = "expired"]
    BY <1>1, <2>1, SMT DEF OrderInv, Stays, Checkpoint
  <2>2. CASE checkpoint' = Recovered
    <3>1. Freed \in Checkpoint /\ Freed.last = checkpoint.last /\ Freed.claim = 0
      BY <1>1, RowType, SMT DEF Freed, Checkpoint
    <3>2. checkpoint'.last = Freed.last /\ checkpoint'.claim = Freed.claim
      BY <2>2, <3>1, SMT DEF Recovered, Checkpoint
    <3> QED
      BY <3>1, <3>2, SMT DEF Stays
  <2> QED
    BY <1>3, <2>1, <2>2, EnvironmentRow
<1> QED
  BY <1>2, <1>3, Zenon DEF Next, Environment

LEMMA OrderStep ==
  ASSUME RowsOK, OrderInv, Next
  PROVE  OrderInv'
<1>1. checkpoint \in Checkpoint /\ calls \in [Deliveries -> Call]
      /\ effects \subseteq Deliveries \X Nat /\ orphans \subseteq Deliveries \X Nat
  BY DEF RowsOK
<1>2. checkpoint.last \in Nat /\ (checkpoint'.last = checkpoint.last
                                 \/ checkpoint'.last = checkpoint.last + 1)
  BY <1>1, OrderRow, SMT DEF Advances, Stays, Checkpoint
<1>3. effects \subseteq effects'
  BY EffectsStep, Zenon
<1>4. (checkpoint.claim # 0 => checkpoint.claim = checkpoint.last + 1)'
  BY OrderRow, SMT DEF Advances, Stays
<1>5. CheckpointTruthful'
  <2> SUFFICES ASSUME NEW n \in 1..checkpoint'.last
               PROVE  ActedOn(n, effects')
    BY DEF CheckpointTruthful
  <2>1. ActedOn(n, effects)
    <3>1. CASE n \in 1..checkpoint.last
      BY <3>1 DEF OrderInv, CheckpointTruthful
    <3>2. CASE n \notin 1..checkpoint.last
      BY <1>2, <3>2, OrderRow, SMT DEF Advances, Stays
    <3> QED
      BY <3>1, <3>2
  <2> QED
    BY <1>3, <2>1, Zenon DEF ActedOn
<1>6. \A r \in Deliveries :
        /\ At(r, "handler")' => SequenceOf(r) <= checkpoint'.last + 1
        /\ At(r, "commit")' => Invocation(r)' \in effects'
  <2> SUFFICES ASSUME NEW r \in Deliveries
               PROVE  /\ At(r, "handler")' => SequenceOf(r) <= checkpoint'.last + 1
                      /\ At(r, "commit")' => Invocation(r)' \in effects'
    OBVIOUS
  <2>0. SequenceOf(r) \in Nat
    BY SequenceType
  <2>1. CASE calls'[r] = calls[r]
    <3>1. Invocation(r)' = Invocation(r)
      BY <2>1 DEF Invocation
    <3>2. At(r, "handler") => SequenceOf(r) <= checkpoint'.last + 1
      BY <1>2, <2>0, SMT DEF OrderInv
    <3>3. At(r, "commit") => Invocation(r) \in effects'
      BY <1>3, Zenon DEF OrderInv
    <3> QED
      BY <2>1, <3>1, <3>2, <3>3 DEF At
  <2>2. CASE Dropped(r) \/ Kept(r)
    BY <2>2, SMT DEF Dropped, Kept, At
  <2>3. CASE Entered(r)
    BY <1>2, <2>0, <2>3, SMT DEF Entered, InSequence, At
  <2>4. CASE Returned(r)
    <3>1. Invocation(r)' = Invocation(r)
      BY <2>4 DEF Returned, Invocation
    <3> QED
      BY <1>3, <2>4, <3>1, SMT DEF Returned, At
  <2>5. ASSUME NEW s \in Deliveries, Deliver(s)
        PROVE  calls'[r] = calls[r] \/ OwnStep(r)
    BY <2>5, DeliverCalls, HandlerErrorsAssumption, Zenon DEF Alone
  <2>6. CASE Environment
    BY <1>1, <2>1, <2>2, <2>6, EnvironmentCalls
  <2> QED
    BY <2>1, <2>2, <2>3, <2>4, <2>5, <2>6, Zenon DEF Next, Environment, OwnStep
<1>7. \A o \in orphans' : SequenceOf(o[1]) <= checkpoint'.last + 1
  <2> SUFFICES ASSUME NEW o \in orphans'
               PROVE  SequenceOf(o[1]) <= checkpoint'.last + 1
    OBVIOUS
  <2>1. CASE o \in orphans
    <3>1. o[1] \in Deliveries
      BY <1>1, <2>1, SMT
    <3> QED
      BY <1>2, <2>1, <3>1, SequenceType, SMT DEF OrderInv
  <2>2. ASSUME NEW r \in Deliveries, At(r, "handler"), o = Invocation(r)
        PROVE  SequenceOf(o[1]) <= checkpoint'.last + 1
    <3>1. o[1] = r
      BY <2>2, SMT DEF Invocation
    <3> QED
      BY <1>2, <2>2, <3>1, SequenceType, SMT DEF OrderInv
  <2> QED
    BY <2>1, <2>2, EffectsStep, Zenon
<1> QED
  BY <1>4, <1>5, <1>6, <1>7, Zenon DEF OrderInv

LEMMA OrderInvariant == Spec => [](RowsOK /\ OrderInv)
<1>1. Init => OrderInv
  BY SMT DEF Init, OrderInv, CheckpointTruthful, At, NoCall
<1>2. ASSUME RowsOK, OrderInv, [Next]_vars
      PROVE  OrderInv'
  <2>1. CASE UNCHANGED vars
    BY <1>2, <2>1, Zenon DEF vars, OrderInv, CheckpointTruthful, ActedOn, At, Invocation
  <2> QED
    BY <1>2, <2>1, OrderStep
<1> QED
  BY <1>1, <1>2, RowsInvariant, PTL DEF Spec

\* Every sequence the checkpoint covers had its side effect, whatever failed.
THEOREM CheckpointIsTruthful == Spec => []CheckpointTruthful
<1>1. OrderInv => CheckpointTruthful
  BY DEF OrderInv
<1> QED
  BY <1>1, OrderInvariant, PTL

\* A new side effect finds those of all smaller sequences.
LEMMA NewEffect ==
  ASSUME RowsOK, OrderInv, Next, NEW e \in effects', e \notin effects,
         NEW n \in 1..(SequenceOf(e[1]) - 1)
  PROVE  ActedOn(n, effects)
<1>1. /\ e[1] \in Deliveries
      /\ SequenceOf(e[1]) <= checkpoint.last + 1
  <2>1. CASE e \in orphans
    BY <2>1, SMT DEF RowsOK, OrderInv
  <2>2. ASSUME NEW r \in Deliveries, At(r, "handler"), e = Invocation(r)
        PROVE  e[1] \in Deliveries /\ SequenceOf(e[1]) <= checkpoint.last + 1
    <3>1. e[1] = r
      BY <2>2, SMT DEF Invocation
    <3> QED
      BY <2>2, <3>1 DEF OrderInv
  <2> QED
    BY <2>1, <2>2, EffectsStep, Zenon
<1>2. checkpoint.last \in Nat
  BY SMT DEF RowsOK, Checkpoint
<1>3. n \in 1..checkpoint.last
  BY <1>1, <1>2, SequenceType, SMT
<1> QED
  BY <1>3 DEF OrderInv, CheckpointTruthful

\* No side effect comes before that of a smaller sequence, with any number of
\* deliveries, duplicates of a sequence, lost claims, orphans and crashes.
THEOREM EffectsAreInOrder == Spec => EffectsInOrder
<1>1. ASSUME RowsOK, OrderInv, [Next]_vars
      PROVE  [\A e \in effects' \ effects :
                \A n \in 1..(SequenceOf(e[1]) - 1) : ActedOn(n, effects)]_vars
  BY <1>1, NewEffect
<1> QED
  BY <1>1, OrderInvariant, PTL DEF Spec, EffectsInOrder

-----------------------------------------------------------------------------
(* Part 4: the fence                                                        *)

\* The token of a claim is known to the delivery that took it, and to no other.
FenceInv ==
  /\ checkpoint.token <= checkpoint.fence /\ checkpoint.fence >= 1
  /\ checkpoint.claim # 0 => checkpoint.token >= 1
  /\ \A r \in Deliveries :
       /\ calls[r].fence <= checkpoint.fence
       /\ checkpoint.claim # 0 /\ calls[r].fence = checkpoint.token => r = checkpoint.job

\* A row without a claim that a step leaves behind, or the same claim.
Frees ==
  /\ checkpoint'.claim = 0 /\ checkpoint'.token = 0
  /\ checkpoint'.fence \in {checkpoint.fence, checkpoint.fence + 1}
SameClaim ==
  /\ checkpoint'.claim = checkpoint.claim /\ checkpoint'.token = checkpoint.token
  /\ checkpoint'.fence = checkpoint.fence /\ checkpoint'.job = checkpoint.job

LEMMA FreedFields ==
  ASSUME checkpoint \in Checkpoint
  PROVE  /\ checkpoint' = Freed => Frees
         /\ checkpoint' = [Freed EXCEPT !.last = checkpoint.claim] => Frees
         /\ checkpoint' = Recovered => Frees
<1>1. /\ Freed \in Checkpoint /\ Freed.claim = 0 /\ Freed.token = 0
      /\ Freed.fence = checkpoint.fence
  BY RowType, SMT DEF Freed, Checkpoint
<1>2. ASSUME checkpoint' = Recovered PROVE Frees
  BY <1>1, <1>2, SMT DEF Recovered, Frees, Checkpoint
<1>3. ASSUME checkpoint' = [Freed EXCEPT !.last = checkpoint.claim] PROVE Frees
  BY <1>1, <1>3, SMT DEF Frees, Checkpoint
<1>4. ASSUME checkpoint' = Freed PROVE Frees
  BY <1>1, <1>4, SMT DEF Frees, Checkpoint
<1> QED
  BY <1>2, <1>3, <1>4

LEMMA FenceStep ==
  ASSUME RowsOK, FenceInv, Next
  PROVE  FenceInv'
<1>1. checkpoint \in Checkpoint /\ calls \in [Deliveries -> Call]
  BY DEF RowsOK
<1>2. /\ checkpoint.fence \in Nat /\ checkpoint.token \in Nat
      /\ \A r \in Deliveries : calls[r].fence \in Nat
  BY <1>1, SMT DEF Checkpoint, Call
<1>3. ASSUME \A s \in Deliveries : calls'[s].fence \in {0, calls[s].fence}, SameClaim \/ Frees
      PROVE  FenceInv'
  BY <1>2, <1>3, SMT DEF FenceInv, SameClaim, Frees
<1>4. ASSUME NEW r \in Deliveries, Deliver(r)
      PROVE  FenceInv'
  <2>1. Alone(r) /\ (calls' = calls \/ OwnStep(r))
    BY <1>4, DeliverCalls, HandlerErrorsAssumption
  <2>2. CASE Acquires(r)
    <3>1. /\ checkpoint'.fence = checkpoint.fence + 1 /\ checkpoint'.token = checkpoint.fence + 1
          /\ checkpoint'.job = r
      BY <1>1, <2>2, SMT DEF Acquires, TakeClaim, Checkpoint
    <3>2. calls'[r].fence \in {0, calls[r].fence, checkpoint.fence + 1}
      BY <2>1, SMT DEF OwnStep, Kept, Dropped, Entered, Returned
    <3>3. \A s \in Deliveries : s # r => calls'[s].fence = calls[s].fence
      BY <2>1 DEF Alone
    <3> QED
      BY <1>2, <3>1, <3>2, <3>3, SMT DEF FenceInv
  <2>3. CASE UNCHANGED checkpoint \/ Releases(r) \/ Commits(r)
    <3>1. SameClaim \/ Frees
      BY <1>1, <2>3, FreedFields, Zenon DEF Releases, Commits, SameClaim
    <3>2. ~Entered(r)
      <4>1. SUFFICES ASSUME Entered(r) PROVE FALSE
        OBVIOUS
      <4>2. checkpoint'.fence = checkpoint.fence + 1
        BY <1>1, <4>1, SMT DEF Entered, TakeClaim, Checkpoint
      <4>3. UNCHANGED checkpoint
        BY <2>3, <4>1, SMT DEF Entered, Releases, Commits
      <4> QED
        BY <1>2, <4>2, <4>3, SMT
    <3>3. \A s \in Deliveries : calls'[s].fence \in {0, calls[s].fence}
      BY <2>1, <3>2, SMT DEF Alone, OwnStep, Kept, Dropped, Returned
    <3> QED
      BY <1>3, <3>1, <3>3
  <2> QED
    BY <1>1, <1>4, <2>2, <2>3, DeliverRow
<1>5. CASE Environment
  <2>1. \A s \in Deliveries : calls'[s].fence \in {0, calls[s].fence}
    BY <1>1, <1>5, EnvironmentCalls, SMT DEF Dropped
  <2>2. SameClaim \/ Frees
    <3>1. CASE UNCHANGED checkpoint \/ checkpoint' = [checkpoint EXCEPT !.lease = "expired"]
      BY <1>1, <3>1, SMT DEF SameClaim, Checkpoint
    <3>2. CASE checkpoint' = Recovered
      BY <1>1, <3>2, FreedFields
    <3> QED
      BY <1>5, <3>1, <3>2, EnvironmentRow
  <2> QED
    BY <1>3, <2>1, <2>2
<1> QED
  BY <1>4, <1>5, Zenon DEF Next, Environment

LEMMA FenceInvariant == Spec => [](RowsOK /\ FenceInv)
<1>1. Init => FenceInv
  BY SMT DEF Init, FenceInv, NoCall
<1>2. ASSUME RowsOK, FenceInv, [Next]_vars
      PROVE  FenceInv'
  <2>1. CASE UNCHANGED vars
    BY <1>2, <2>1, Zenon DEF vars, FenceInv
  <2> QED
    BY <1>2, <2>1, FenceStep
<1> QED
  BY <1>1, <1>2, RowsInvariant, PTL DEF Spec

\* No delivery and no recovery ends a claim that has not expired, unless it is
\* the holder or its clock runs ahead.
THEOREM ClaimIsFenced == Spec => FencedOut
<1>1. ASSUME RowsOK, FenceInv, [Next]_vars
      PROVE  [LiveClaim /\ checkpoint'.token # checkpoint.token /\ skews' = skews
                => /\ calls[checkpoint.job].fence = checkpoint.token
                   /\ calls'[checkpoint.job].pc # calls[checkpoint.job].pc]_vars
  <2> SUFFICES ASSUME Next, LiveClaim, checkpoint'.token # checkpoint.token, skews' = skews
               PROVE  /\ calls[checkpoint.job].fence = checkpoint.token
                      /\ calls'[checkpoint.job].pc # calls[checkpoint.job].pc
    BY <1>1
  <2>1. checkpoint \in Checkpoint /\ calls \in [Deliveries -> Call] /\ skews \in Nat
    BY <1>1 DEF RowsOK
  <2>2. ASSUME NEW r \in Deliveries, Deliver(r)
        PROVE  /\ calls[checkpoint.job].fence = checkpoint.token
               /\ calls'[checkpoint.job].pc # calls[checkpoint.job].pc
    <3>1. ~Acquires(r)
      BY <2>1, SMT DEF Acquires, ClaimFree
    <3>2. CASE Releases(r) \/ Commits(r)
      <4>1. HoldsClaim(r) /\ calls'[r].pc # calls[r].pc
        BY <3>2, SMT DEF Releases, Commits, At
      <4>2. checkpoint.claim # 0
        BY <4>1, SequenceType, SMT DEF HoldsClaim
      <4>3. r = checkpoint.job
        BY <1>1, <4>1, <4>2 DEF FenceInv, HoldsClaim
      <4> QED
        BY <4>1, <4>3 DEF HoldsClaim
    <3> QED
      BY <2>1, <2>2, <3>1, <3>2, DeliverRow
  <2>3. CASE Environment
    <3>1. checkpoint'.token = checkpoint.token \/ checkpoint.lease = "expired"
      BY <2>1, <2>3, EnvironmentRow, SMT DEF Checkpoint
    <3> QED
      BY <3>1, SMT DEF LiveClaim
  <2> QED
    BY <2>2, <2>3, Zenon DEF Next, Environment
<1> QED
  BY <1>1, FenceInvariant, PTL DEF Spec, FencedOut
-----------------------------------------------------------------------------
(* Part 5: the other variables                                              *)

TablesOK == records \in [Messages -> Record] /\ leases \in [Deliveries -> Leases]
Bounded == faults \in 0..MaxFaults /\ crashes \in 0..MaxCrashes /\ skews \in 0..MaxSkews

LEMMA MessageType == ASSUME NEW r \in Deliveries PROVE Message[r] \in Messages
BY MessageAssumption DEF MessageAssumption

\* A job's lease goes to one of the states of a lease, a record to one of its own.
LEMMA TableTypes ==
  ASSUME TablesOK
  PROVE  /\ \A r \in Deliveries, l \in Leases : [leases EXCEPT ![r] = l] \in [Deliveries -> Leases]
         /\ \A m \in Messages, s \in RecordStates :
              [records EXCEPT ![m].state = s] \in [Messages -> Record]
         /\ \A m \in Messages, r \in Deliveries :
              [records EXCEPT ![m] = [state |-> "IN_PROGRESS", owner |-> r]] \in [Messages -> Record]
         /\ \A m \in Messages : [records[m] EXCEPT !.state = "OUTCOME_UNKNOWN"] \in Record
<1>1. /\ \A r \in Deliveries, l \in Leases : [leases EXCEPT ![r] = l] \in [Deliveries -> Leases]
      /\ \A m \in Messages, s \in RecordStates :
           [records EXCEPT ![m].state = s] \in [Messages -> Record]
  BY Zenon DEF TablesOK, Record
<1>2. \A r \in Deliveries : [state |-> "IN_PROGRESS", owner |-> r] \in Record
  BY SMT DEF Record, RecordStates
<1>3. \A m \in Messages, r \in Deliveries :
        [records EXCEPT ![m] = [state |-> "IN_PROGRESS", owner |-> r]] \in [Messages -> Record]
  BY <1>2, Zenon DEF TablesOK
<1>4. \A m \in Messages : [records[m] EXCEPT !.state = "OUTCOME_UNKNOWN"] \in Record
  BY SMT DEF TablesOK, Record, RecordStates
<1> QED
  BY <1>1, <1>3, <1>4

LEMMA DeliverTables ==
  ASSUME TablesOK, NEW r \in Deliveries, Deliver(r)
  PROVE  TablesOK'
<1>0. /\ Message[r] \in Messages
      /\ {"none", "live", "expired"} \subseteq Leases
      /\ {"COMPLETED", "FAILED", "OUTCOME_UNKNOWN"} \subseteq RecordStates
  BY MessageType DEF Leases, RecordStates
<1>1. leases' = leases \/ DropLease(r) \/ leases' = [leases EXCEPT ![r] = "live"]
  BY Zenon DEF Deliver, Begin, Acquire, Commit, Release, OuterRelease, HandlerActs,
     HandlerTimesOut, LoseLease, HandlerReturns, HandlerFails, EndJob, Complete, Settle
<1>2. leases' \in [Deliveries -> Leases]
  BY <1>0, <1>1, TableTypes, Zenon DEF DropLease, TablesOK
<1>3. EndState(r) \in RecordStates
  BY <1>0 DEF EndState
<1>4. \/ records' = records
      \/ records' = [records EXCEPT ![Message[r]] = [state |-> "IN_PROGRESS", owner |-> r]]
      \/ records' = Settled(r, "COMPLETED")
      \/ records' = Settled(r, EndState(r))
  BY Zenon DEF Deliver, Begin, Acquire, Commit, Release, OuterRelease, HandlerActs,
     HandlerTimesOut, LoseLease, HandlerReturns, HandlerFails, EndJob, Complete, Settle
<1>5. records' \in [Messages -> Record]
  <2>1. ASSUME NEW s \in RecordStates PROVE Settled(r, s) \in [Messages -> Record]
    BY <1>0, TableTypes, Zenon DEF Settled
  <2>2. [records EXCEPT ![Message[r]] = [state |-> "IN_PROGRESS", owner |-> r]]
          \in [Messages -> Record]
    BY <1>0, TableTypes, Zenon
  <2>3. records \in [Messages -> Record]
    BY DEF TablesOK
  <2> QED
    BY <1>0, <1>3, <1>4, <2>1, <2>2, <2>3, SMT
<1> QED
  BY <1>2, <1>5 DEF TablesOK

LEMMA EnvironmentTables ==
  ASSUME TablesOK, Environment
  PROVE  TablesOK'
<1>1. ASSUME NEW r \in Deliveries, JobLeaseExpires(r)
      PROVE  TablesOK'
  BY <1>1, TableTypes, "expired" \in Leases, Zenon DEF JobLeaseExpires, TablesOK, Leases
<1>2. ASSUME NEW m \in Messages, Reconcile(m)
      PROVE  TablesOK'
  <2>1. {"COMPLETED", "FAILED"} \subseteq RecordStates
    BY DEF RecordStates
  <2>2. records' = [records EXCEPT ![m].state = "COMPLETED"]
        \/ records' = [records EXCEPT ![m].state = "FAILED"]
    BY <1>2, Zenon DEF Reconcile
  <2> QED
    BY <1>2, <2>1, <2>2, TableTypes, Zenon DEF Reconcile, TablesOK
<1>3. CASE Recover
  <2>1. leases' \in [Deliveries -> Leases]
    <3>1. \A r \in Deliveries : leases[r] \in Leases /\ "none" \in Leases
      BY Zenon DEF TablesOK, Leases
    <3> QED
      BY <1>3, <3>1, Zenon DEF Recover
  <2>2. records' \in [Messages -> Record]
    <3>1. \A m \in Messages : records[m] \in Record
                             /\ [records[m] EXCEPT !.state = "OUTCOME_UNKNOWN"] \in Record
      BY TableTypes, Zenon DEF TablesOK
    <3> QED
      BY <1>3, <3>1, Zenon DEF Recover
  <2> QED
    BY <2>1, <2>2 DEF TablesOK
<1>4. CASE UNCHANGED <<records, leases>>
  BY <1>4 DEF TablesOK
<1> QED
  BY <1>1, <1>2, <1>3, <1>4, Zenon DEF Environment, Crash, OrphanActs, OrphanEnds, ClaimExpires

\* Each counter stays, or grows by one below its bound.
LEMMA CountersStep ==
  ASSUME Next
  PROVE  /\ faults' = faults \/ (faults < MaxFaults /\ faults' = faults + 1)
         /\ crashes' = crashes \/ (crashes < MaxCrashes /\ crashes' = crashes + 1)
         /\ skews' = skews \/ (skews < MaxSkews /\ skews' = skews + 1)
<1>1. ASSUME NEW r \in Deliveries, Deliver(r)
      PROVE  /\ faults' = faults \/ (faults < MaxFaults /\ faults' = faults + 1)
             /\ crashes' = crashes
             /\ skews' = skews \/ (skews < MaxSkews /\ skews' = skews + 1)
  BY <1>1, Zenon DEF Deliver, Begin, Acquire, ClaimFree, Commit, Release, OuterRelease,
     HandlerActs, HandlerTimesOut, LoseLease, HandlerReturns, HandlerFails, EndJob, Complete,
     Settle, RenewalFails, Fault, NoFault, bounds, upsets
<1>2. ASSUME Environment
      PROVE  /\ faults' = faults /\ skews' = skews
             /\ crashes' = crashes \/ (crashes < MaxCrashes /\ crashes' = crashes + 1)
  BY <1>2, Zenon DEF Environment, JobLeaseExpires, Crash, Reconcile, OrphanActs, OrphanEnds,
     ClaimExpires, Recover, bounds
<1> QED
  BY <1>1, <1>2, Zenon DEF Next, Environment

\* Rows, leases, locals, side effects and bounds keep their types.
THEOREM OrderedTypes == Spec => []TypeOK
<1>1. Init => TablesOK /\ Bounded
  BY BoundsAssumption, SMT
  DEF Init, TablesOK, Bounded, BoundsAssumption, Record, RecordStates, Leases
<1>2. ASSUME TablesOK, Bounded, [Next]_vars
      PROVE  TablesOK' /\ Bounded'
  <2>1. CASE UNCHANGED vars
    BY <1>2, <2>1 DEF vars, TablesOK, Bounded
  <2>2. CASE Next
    <3>1. TablesOK'
      BY <1>2, <2>2, DeliverTables, EnvironmentTables, Zenon DEF Next, Environment
    <3>2. Bounded'
      BY <1>2, <2>2, CountersStep, BoundsAssumption, SMT DEF Bounded, BoundsAssumption
    <3> QED
      BY <3>1, <3>2
  <2> QED
    BY <1>2, <2>1, <2>2
<1>3. RowsOK /\ TablesOK /\ Bounded => TypeOK
  BY DEF RowsOK, TablesOK, Bounded, TypeOK
<1> QED
  BY <1>1, <1>2, <1>3, RowsInvariant, PTL DEF Spec
-----------------------------------------------------------------------------
(* Part 6: each message takes effect once, and never late                   *)

\* A delivery under way, and the invocations of a message that acted or may.
Running(r) == calls[r].pc \notin {"idle", "done", "crashed"}
Traces(m) == {e \in effects \cup orphans : Message[e[1]] = m}
EndPcs == {"jobEnd", "outerRelease", "settle"}

\* Where a delivery stands tells what its message has done.
StandsAt(r) ==
  /\ Running(r) => Traces(Message[r]) \subseteq {Invocation(r)}
  /\ calls[r].pc \in {"acquire", "release"} => Traces(Message[r]) = {}
  /\ At(r, "handler") => Invocation(r) \notin orphans
  /\ calls[r].pc \in EndPcs /\ calls[r].err # "unknown" => Traces(Message[r]) = {}

\* A message has one delivery and one invocation, and none while its record
\* invites a new attempt.
MessageOnce(m) ==
  /\ \A r, s \in Deliveries :
       Message[r] = m /\ Message[s] = m /\ Running(r) /\ Running(s) => r = s
  /\ \A a, b \in Traces(m) : a = b
  /\ \A a \in Traces(m) : a \notin effects \/ a \notin orphans
  /\ records[m].state \in {"ABSENT", "FAILED"} =>
       Traces(m) = {} /\ \A r \in Deliveries : Message[r] = m => ~Running(r)
  /\ \A r \in Deliveries : Message[r] = m => StandsAt(r)

OnceInv == \A m \in Messages : MessageOnce(m)

LEMMA OnceInit == Init => OnceInv
BY SMT DEF Init, OnceInv, MessageOnce, StandsAt, Running, Traces, EndPcs, At, NoCall

\* What throwing does to the error.
LEMMA ErrorUpdates ==
  ASSUME calls \in [Deliveries -> Call], NEW r \in Deliveries
  PROVE  /\ \A err : CallbackThrows(r, err) => calls'[r].err = err
         /\ \A err : RunThrows(r, err) => calls'[r].err \in {"unknown", err}
<1>1. \A err : CallbackThrows(r, err) => calls'[r].err = err
  BY SMT DEF CallbackThrows, Call
<1>2. ASSUME NEW thrown, RunThrows(r, thrown)
      PROVE  calls'[r].err \in {"unknown", thrown}
  <2> DEFINE err == IF calls[r].succeeded = "yes" THEN "unknown" ELSE thrown
             pc == IF err # "unknown" /\ calls[r].held = "yes" THEN "outerRelease" ELSE "settle"
  <2>1. calls' = [calls EXCEPT ![r].pc = pc, ![r].err = err]
    BY <1>2 DEF RunThrows
  <2>2. err \in {"unknown", thrown}
    OBVIOUS
  <2> HIDE DEF err, pc
  <2>3. calls'[r].err = err
    BY <2>1, SMT DEF Call
  <2> QED
    BY <2>2, <2>3
<1> QED
  BY <1>1, <1>2

\* A step of a delivery that has to do with no invocation.
Path(r) ==
  /\ UNCHANGED <<effects, orphans>>
  /\ Running(r) \/ Begin(r)
  /\ calls'[r].pc = "acquire" =>
       Begin(r) \/ (At(r, "jobEnd") /\ calls[r].err = "retryable")
  /\ calls'[r].pc = "release" => At(r, "handler") /\ Invocation(r) \notin effects
  /\ calls'[r].pc = "handler" => At(r, "acquire")
  /\ calls'[r].pc \in EndPcs /\ calls'[r].err # "unknown" =>
       \/ calls[r].pc \in {"acquire", "release"}
       \/ calls[r].pc \in EndPcs /\ calls[r].err # "unknown"
  /\ calls'[r].fence = calls[r].fence \/ At(r, "acquire") \/ ~Running(r)'

\* The caller stops waiting for the handler.
GivesUp(r) ==
  /\ At(r, "handler") /\ orphans' = Orphaned(r) /\ UNCHANGED effects
  /\ calls'[r].pc = "jobEnd" /\ calls'[r].err = "unknown"
  /\ calls'[r].fence = calls[r].fence

LEMMA DeliverPath ==
  ASSUME RowsOK, ~Fault, NEW r \in Deliveries, Deliver(r)
  PROVE  HandlerActs(r) \/ GivesUp(r) \/ Path(r)
<1>0. /\ calls \in [Deliveries -> Call] /\ calls[r].err \in Errors
      /\ {"none", "retryable", "terminal", "unknown"} \subseteq Errors
      /\ {"none", "processed", "retryable", "terminal", "unknown"} \subseteq Outs
      /\ calls[r].err \in Outs
  BY Literals, SMT DEF RowsOK, Call
<1> USE DEF Running, EndPcs, At
<1>1. \A err \in Errors : CallbackThrows(r, err) =>
        /\ calls'[r].pc = "jobEnd" /\ calls'[r].fence = calls[r].fence /\ calls'[r].err = err
  BY <1>0, CallUpdates, ErrorUpdates, Zenon
<1>2. \A err \in Errors : RunThrows(r, err) =>
        /\ calls'[r].pc \in {"outerRelease", "settle"} /\ calls'[r].fence = calls[r].fence
        /\ calls'[r].err \in {"unknown", err}
  BY <1>0, CallUpdates, ErrorUpdates, Zenon
<1>3. CASE Begin(r)
  <2>1. calls'[r].pc = "acquire" /\ calls'[r].fence = calls[r].fence
    BY <1>0, <1>3, SMT DEF Begin, Call
  <2> QED
    BY <1>3, <2>1, SMT DEF Begin, Path
<1>4. CASE Acquire(r)
  <2>1. /\ calls[r].pc = "acquire" /\ UNCHANGED <<effects, orphans>>
        /\ \/ calls' = [calls EXCEPT ![r].pc = "handler", ![r].held = "yes",
                                     ![r].fence = checkpoint.fence + 1]
           \/ \E err \in Errors : CallbackThrows(r, err)
    BY <1>0, <1>4, Zenon DEF Acquire
  <2>2. calls'[r].pc \in {"handler", "jobEnd"}
    BY <1>0, <1>1, <2>1, SMT DEF Call
  <2> QED
    BY <2>1, <2>2, SMT DEF Path
<1>5. CASE HandlerTimesOut(r) \/ LoseLease(r)
  BY <1>0, <1>1, <1>5, Zenon DEF HandlerTimesOut, LoseLease, GivesUp
<1>6. CASE HandlerReturns(r)
  <2>1. /\ calls[r].pc = "handler" /\ UNCHANGED <<effects, orphans>>
        /\ \/ calls' = [calls EXCEPT ![r].pc = "commit", ![r].succeeded = "yes"]
           \/ CallbackThrows(r, "unknown")
    BY <1>6, Zenon DEF HandlerReturns
  <2>2. /\ calls'[r].fence = calls[r].fence
        /\ calls'[r].pc = "commit" \/ (calls'[r].pc = "jobEnd" /\ calls'[r].err = "unknown")
    BY <1>0, <1>1, <2>1, SMT DEF Call
  <2> QED
    BY <2>1, <2>2, SMT DEF Path
<1>7. CASE HandlerFails(r)
  <2>1. /\ calls[r].pc = "handler" /\ Invocation(r) \notin effects
        /\ UNCHANGED <<effects, orphans>>
        /\ \/ \E err : calls' = [calls EXCEPT ![r].pc = "release", ![r].err = err]
           \/ CallbackThrows(r, "unknown")
    BY <1>7, Zenon DEF HandlerFails
  <2>2. /\ calls'[r].fence = calls[r].fence
        /\ calls'[r].pc = "release" \/ (calls'[r].pc = "jobEnd" /\ calls'[r].err = "unknown")
    BY <1>0, <1>1, <2>1, SMT DEF Call
  <2> QED
    BY <2>1, <2>2, SMT DEF Path
<1>8. CASE Commit(r)
  <2>1. /\ calls[r].pc = "commit" /\ UNCHANGED <<effects, orphans>>
        /\ \/ calls' = [calls EXCEPT ![r].pc = "complete", ![r].held = "no"]
           \/ CallbackThrows(r, "unknown")
    BY <1>8, Zenon DEF Commit
  <2>2. /\ calls'[r].fence = calls[r].fence
        /\ calls'[r].pc = "complete" \/ (calls'[r].pc = "jobEnd" /\ calls'[r].err = "unknown")
    BY <1>0, <1>1, <2>1, SMT DEF Call
  <2> QED
    BY <2>1, <2>2, SMT DEF Path
<1>9. CASE Release(r)
  <2>1. /\ calls[r].pc = "release" /\ UNCHANGED <<effects, orphans>>
        /\ calls' = [calls EXCEPT ![r].pc = "jobEnd", ![r].held = "no"]
    BY <1>9, Zenon DEF Release
  <2>2. calls'[r].fence = calls[r].fence /\ calls'[r].pc = "jobEnd"
    BY <1>0, <2>1, SMT DEF Call
  <2> QED
    BY <2>1, <2>2, SMT DEF Path
<1>10. CASE OuterRelease(r)
  <2>1. /\ calls[r].pc = "outerRelease" /\ UNCHANGED <<effects, orphans>>
        /\ calls' = [calls EXCEPT ![r].pc = "settle", ![r].held = "no"]
    BY <1>10, Zenon DEF OuterRelease
  <2>2. /\ calls'[r].fence = calls[r].fence /\ calls'[r].pc = "settle"
        /\ calls'[r].err = calls[r].err
    BY <1>0, <2>1, SMT DEF Call
  <2> QED
    BY <2>1, <2>2, SMT DEF Path
<1>11. CASE EndJob(r)
  <2>1. /\ calls[r].pc = "jobEnd" /\ UNCHANGED <<effects, orphans>>
        /\ \/ /\ calls[r].err = "retryable"
              /\ calls' = [calls EXCEPT ![r].pc = "acquire", ![r].attempt = @ + 1,
                                        ![r].err = "none"]
           \/ RunThrows(r, calls[r].err)
           \/ RunThrows(r, "unknown")
    BY <1>11, Zenon DEF EndJob, CanRetry
  <2>2. CASE /\ calls[r].err = "retryable"
             /\ calls' = [calls EXCEPT ![r].pc = "acquire", ![r].attempt = @ + 1,
                                       ![r].err = "none"]
    <3>1. calls'[r].pc = "acquire" /\ calls'[r].fence = calls[r].fence
      BY <1>0, <2>2, SMT DEF Call
    <3> QED
      BY <2>1, <2>2, <3>1, SMT DEF Path
  <2>3. CASE RunThrows(r, calls[r].err) \/ RunThrows(r, "unknown")
    <3>1. /\ calls'[r].pc \in {"outerRelease", "settle"} /\ calls'[r].fence = calls[r].fence
          /\ calls'[r].err \in {"unknown", calls[r].err}
      BY <1>0, <1>2, <2>3, Zenon
    <3> QED
      BY <2>1, <3>1, SMT DEF Path
  <2> QED
    BY <2>1, <2>2, <2>3
<1>12. CASE Complete(r)
  <2>1. /\ calls[r].pc = "complete" /\ UNCHANGED <<effects, orphans>>
        /\ Gone(r, "done", "processed") \/ RunThrows(r, "unknown")
    BY <1>12, Zenon DEF Complete
  <2>2. \/ calls'[r].pc = "done"
        \/ /\ calls'[r].pc \in {"outerRelease", "settle"} /\ calls'[r].fence = calls[r].fence
           /\ calls'[r].err = "unknown"
    BY <1>0, <1>2, <2>1, CallUpdates, Zenon
  <2> QED
    BY <2>1, <2>2, SMT DEF Path
<1>13. CASE Settle(r)
  <2>1. /\ calls[r].pc = "settle" /\ UNCHANGED <<effects, orphans>>
        /\ Gone(r, "done", calls[r].err)
    BY <1>13, Zenon DEF Settle
  <2>2. calls'[r].pc = "done"
    BY <1>0, <2>1, CallUpdates, Zenon
  <2> QED
    BY <2>1, <2>2, SMT DEF Path
<1>14. CASE HandlerActs(r)
  BY <1>14
<1> QED
  BY <1>3, <1>4, <1>5, <1>6, <1>7, <1>8, <1>9, <1>10, <1>11, <1>12, <1>13, <1>14, Zenon
  DEF Deliver

\* A delivery writes the record of its own message, and invites a new attempt
\* only when it has ended and its error is no unknown outcome.
LEMMA DeliverRecords ==
  ASSUME RowsOK, TablesOK, NEW r \in Deliveries, Deliver(r)
  PROVE  /\ \A m \in Messages : m # Message[r] => records'[m] = records[m]
         /\ \/ UNCHANGED records
            \/ records'[Message[r]].state \in {"IN_PROGRESS", "COMPLETED", "OUTCOME_UNKNOWN"}
            \/ /\ At(r, "settle") /\ calls[r].err # "unknown"
               /\ calls'[r].pc = "done"
<1>1. /\ Message[r] \in Messages /\ records \in [Messages -> Record]
      /\ calls \in [Deliveries -> Call] /\ calls[r].err \in Outs
  BY MessageType, Literals, SMT DEF RowsOK, TablesOK, Call
<1>2. \A st :
        /\ \A m \in Messages : m # Message[r] => Settled(r, st)[m] = records[m]
        /\ Settled(r, st)[Message[r]].state = st
  BY <1>1, SMT DEF Settled, Record
<1>3. CASE Begin(r)
  <2>1. records' = [records EXCEPT ![Message[r]] = [state |-> "IN_PROGRESS", owner |-> r]]
    BY <1>3 DEF Begin
  <2> QED
    BY <1>1, <2>1, SMT
<1>4. CASE Complete(r)
  <2>1. UNCHANGED records \/ records' = Settled(r, "COMPLETED")
    BY <1>4, Zenon DEF Complete
  <2> QED
    BY <1>1, <1>2, <2>1, SMT
<1>5. CASE Settle(r)
  <2>1. /\ At(r, "settle") /\ (UNCHANGED records \/ records' = Settled(r, EndState(r)))
        /\ Gone(r, "done", calls[r].err)
    BY <1>5, Zenon DEF Settle
  <2>2. calls'[r].pc = "done"
    BY <1>1, <2>1, CallUpdates, Zenon
  <2>3. calls[r].err = "unknown" => EndState(r) = "OUTCOME_UNKNOWN"
    BY DEF EndState
  <2>4. UNCHANGED records \/ /\ \A m \in Messages : m # Message[r] => records'[m] = records[m]
                             /\ records'[Message[r]].state = EndState(r)
    BY <1>1, <1>2, <2>1, Zenon
  <2> QED
    BY <2>1, <2>2, <2>3, <2>4, SMT
<1>6. CASE UNCHANGED records
  BY <1>6
<1> QED
  BY <1>3, <1>4, <1>5, <1>6, Zenon DEF Deliver, Acquire, Commit, Release, OuterRelease,
     HandlerActs, HandlerTimesOut, LoseLease, HandlerReturns, HandlerFails, EndJob

LEMMA InvocationOf ==
  ASSUME NEW r \in Deliveries
  PROVE  Invocation(r)[1] = r
BY SMT DEF Invocation

\* What a step does to the traces of a message.
LEMMA DeliverTraces ==
  ASSUME RowsOK, ~Fault, NEW r \in Deliveries, Deliver(r), NEW m \in Messages
  PROVE  /\ m # Message[r] =>
              /\ Traces(m)' = Traces(m)
              /\ \A a \in Traces(m) : (a \in effects' <=> a \in effects)
                                     /\ (a \in orphans' <=> a \in orphans)
         /\ Path(r) => Traces(m)' = Traces(m)
         /\ Traces(Message[r])' \subseteq Traces(Message[r]) \cup {Invocation(r)}
<1>1. \/ UNCHANGED <<effects, orphans>>
      \/ effects' = effects \cup {Invocation(r)} /\ UNCHANGED orphans
      \/ orphans' = orphans \cup {Invocation(r)} /\ UNCHANGED effects
  BY DeliverPath, Zenon DEF HandlerActs, GivesUp, Path, Orphaned
<1>2. m # Message[r] => \A e : e = Invocation(r) => Message[e[1]] # m
  BY InvocationOf
<1>3. Path(r) => Traces(m)' = Traces(m)
  BY DEF Path, Traces
<1>4. m # Message[r] =>
        /\ Traces(m)' = Traces(m)
        /\ \A a \in Traces(m) : (a \in effects' <=> a \in effects)
                               /\ (a \in orphans' <=> a \in orphans)
  BY <1>1, <1>2 DEF Traces
<1>5. Traces(Message[r])' \subseteq Traces(Message[r]) \cup {Invocation(r)}
  BY <1>1 DEF Traces
<1> QED
  BY <1>3, <1>4, <1>5

\* The messages of the other deliveries are left alone.
LEMMA OnceElsewhere ==
  ASSUME RowsOK, TablesOK, ~Fault, HandlerErrorsAssumption, NEW r \in Deliveries, Deliver(r),
         NEW m \in Messages, m # Message[r], MessageOnce(m)
  PROVE  MessageOnce(m)'
<1>1. /\ records'[m] = records[m] /\ Traces(m)' = Traces(m)
      /\ \A a \in Traces(m) : (a \in effects' <=> a \in effects)
                             /\ (a \in orphans' <=> a \in orphans)
  BY DeliverRecords, DeliverTraces
<1>2. \A s \in Deliveries : Message[s] = m => calls'[s] = calls[s]
  BY DeliverCalls DEF Alone
<1>3. ASSUME NEW s \in Deliveries, Message[s] = m
      PROVE  StandsAt(s)'
  <2>1. StandsAt(s) /\ calls'[s] = calls[s]
    BY <1>2, <1>3 DEF MessageOnce
  <2>2. At(s, "handler") => Invocation(s) \notin orphans'
    <3>1. ASSUME Invocation(s) \in orphans'
          PROVE  Invocation(s) \in orphans
      <4>1. Invocation(s) \in Traces(m)'
        BY <1>3, <3>1, InvocationOf DEF Traces
      <4> QED
        BY <1>1, <3>1, <4>1
    <3> QED
      BY <2>1, <3>1 DEF StandsAt
  <2> QED
    BY <1>1, <1>3, <2>1, <2>2, SMT DEF StandsAt, Running, At, Invocation
<1> QED
  BY <1>1, <1>2, <1>3, SMT DEF MessageOnce, Running

\* A delivery begins on a message nothing has been done for.
LEMMA OnceBegin ==
  ASSUME RowsOK, TablesOK, ~Fault, HandlerErrorsAssumption, NEW r \in Deliveries, Begin(r),
         MessageOnce(Message[r])
  PROVE  MessageOnce(Message[r])'
<1> DEFINE m == Message[r]
<1>0. /\ m \in Messages /\ records \in [Messages -> Record]
      /\ calls \in [Deliveries -> Call] /\ Deliver(r)
  BY MessageType DEF RowsOK, TablesOK, Deliver
<1>1. Traces(m) = {} /\ \A s \in Deliveries : Message[s] = m => ~Running(s)
  BY DEF Begin, MessageOnce
<1>2. Traces(m)' = {}
  BY <1>1 DEF Begin, Traces
<1>3. calls'[r].pc = "acquire" /\ \A s \in Deliveries : s # r => calls'[s] = calls[s]
  BY <1>0, SMT DEF Begin, Call
<1>4. records'[m].state = "IN_PROGRESS"
  BY <1>0, SMT DEF Begin, Record
<1>5. \A s \in Deliveries : Message[s] = m /\ Running(s)' => s = r
  BY <1>1, <1>3 DEF Running
<1>6. ASSUME NEW s \in Deliveries, Message[s] = m
      PROVE  StandsAt(s)'
  <2>1. At(s, "handler")' => FALSE
    BY <1>1, <1>3, <1>6, SMT DEF At, Running
  <2> QED
    BY <1>2, <1>6, <2>1 DEF StandsAt
<1> QED
  BY <1>2, <1>4, <1>5, <1>6, SMT DEF MessageOnce

\* A delivery under way keeps to its one invocation.
LEMMA OnceHere ==
  ASSUME RowsOK, TablesOK, ~Fault, HandlerErrorsAssumption, NEW r \in Deliveries, Deliver(r),
         ~Begin(r), MessageOnce(Message[r])
  PROVE  MessageOnce(Message[r])'
<1> DEFINE m == Message[r]
<1>0. m \in Messages
  BY MessageType
<1>1. Running(r)
  BY DeliverPath, SMT DEF HandlerActs, GivesUp, Path, At, Running
<1>2. \A s \in Deliveries : Message[s] = m /\ s # r => ~Running(s)
  BY <1>1 DEF MessageOnce
<1>3. \A s \in Deliveries : Message[s] = m /\ s # r => ~Running(s)'
  BY <1>2, DeliverCalls DEF Alone, Running
<1>4. ASSUME NEW s \in Deliveries, Message[s] = m, s # r
      PROVE  StandsAt(s)'
  BY <1>3, <1>4, SMT DEF StandsAt, Running, At, EndPcs
<1>5. /\ StandsAt(r) /\ Traces(m) \subseteq {Invocation(r)}
      /\ records[m].state \notin {"ABSENT", "FAILED"}
  BY <1>1 DEF MessageOnce, StandsAt
<1>6. records'[m].state \in {"ABSENT", "FAILED"} => Traces(m) = {} /\ calls'[r].pc = "done"
  <2>1. CASE UNCHANGED records
    BY <1>5, <2>1
  <2>2. CASE At(r, "settle") /\ calls[r].err # "unknown" /\ calls'[r].pc = "done"
    BY <1>5, <2>2, SMT DEF StandsAt, EndPcs, At
  <2> QED
    BY <2>1, <2>2, DeliverRecords, SMT
<1>7. ASSUME \A a, b \in Traces(m)' : a = b, StandsAt(r)',
             \A a \in Traces(m)' : a \notin effects' \/ a \notin orphans',
             calls'[r].pc = "done" => Traces(m)' = Traces(m)
      PROVE  MessageOnce(m)'
  <2>1. records'[m].state \in {"ABSENT", "FAILED"} =>
          Traces(m)' = {} /\ \A s \in Deliveries : Message[s] = m => ~Running(s)'
    BY <1>3, <1>6, <1>7, SMT DEF Running
  <2> QED
    BY <1>3, <1>4, <1>7, <2>1, Zenon DEF MessageOnce
<1>8. CASE HandlerActs(r)
  <2>1. /\ At(r, "handler") /\ UNCHANGED <<calls, orphans>>
        /\ effects' = effects \cup {Invocation(r)}
    BY <1>8, Zenon DEF HandlerActs
  <2>2. Invocation(r)' = Invocation(r) /\ Invocation(r) \notin orphans
    BY <1>5, <2>1 DEF Invocation, StandsAt
  <2>3. Traces(m)' \subseteq {Invocation(r)}
    BY <1>5, <2>1 DEF Traces
  <2>4. StandsAt(r)'
    BY <2>1, <2>2, <2>3, SMT DEF StandsAt, At, EndPcs
  <2>5. calls'[r].pc # "done"
    BY <2>1, SMT DEF At
  <2> QED
    BY <1>7, <2>1, <2>2, <2>3, <2>4, <2>5
<1>9. CASE GivesUp(r)
  <2>1. /\ At(r, "handler") /\ orphans' = Orphaned(r) /\ UNCHANGED effects
        /\ calls'[r].pc = "jobEnd" /\ calls'[r].err = "unknown"
    BY <1>9 DEF GivesUp
  <2>2. Invocation(r)' = Invocation(r) /\ Invocation(r) \notin orphans
    BY <1>5, <1>9 DEF GivesUp, Invocation, StandsAt
  <2>3. Traces(m)' \subseteq {Invocation(r)}
    BY <1>5, <2>1 DEF Traces, Orphaned
  <2>4. StandsAt(r)'
    BY <2>1, <2>2, <2>3, SMT DEF StandsAt, At, EndPcs
  <2>5. \A a \in Traces(m)' : a \notin effects' \/ a \notin orphans'
    BY <2>1, <2>2, <2>3 DEF Orphaned
  <2> QED
    BY <1>7, <2>1, <2>2, <2>3, <2>4, <2>5, SMT
<1>10. CASE Path(r)
  <2>1. Traces(m)' = Traces(m) /\ UNCHANGED <<effects, orphans>>
    BY <1>0, <1>10, DeliverTraces DEF Path
  <2>2. Running(r)' => Traces(m) \subseteq {Invocation(r)'}
    <3>1. CASE calls'[r].fence = calls[r].fence
      BY <1>5, <3>1 DEF Invocation
    <3>2. CASE At(r, "acquire")
      BY <1>5, <3>2, SMT DEF StandsAt, At
    <3> QED
      BY <1>10, <3>1, <3>2 DEF Path
  <2>3. calls'[r].pc \in {"acquire", "release"} => Traces(m) = {}
    <3>1. CASE calls'[r].pc = "acquire"
      BY <1>5, <1>10, <3>1, SMT DEF Path, StandsAt, At, EndPcs
    <3>2. CASE calls'[r].pc = "release"
      <4>1. Invocation(r) \notin effects /\ Invocation(r) \notin orphans
        BY <1>5, <1>10, <3>2 DEF Path, StandsAt
      <4> QED
        BY <1>5, <4>1 DEF Traces
    <3> QED
      BY <3>1, <3>2
  <2>4. At(r, "handler")' => Invocation(r)' \notin orphans'
    <3> SUFFICES ASSUME At(r, "handler")', Invocation(r)' \in orphans
                 PROVE  FALSE
      BY <2>1
    <3>1. Traces(m) = {}
      BY <1>5, <1>10, SMT DEF Path, StandsAt, At
    <3>2. Invocation(r)'[1] = r
      BY SMT DEF Invocation
    <3> QED
      BY <3>1, <3>2 DEF Traces
  <2>5. calls'[r].pc \in EndPcs /\ calls'[r].err # "unknown" => Traces(m) = {}
    BY <1>5, <1>10, SMT DEF Path, StandsAt
  <2>6. StandsAt(r)'
    BY <2>1, <2>2, <2>3, <2>4, <2>5, Zenon DEF StandsAt
  <2>7. \A a, b \in Traces(m)' : a = b
    BY <1>5, <2>1
  <2>8. \A a \in Traces(m)' : a \notin effects' \/ a \notin orphans'
    BY <2>1 DEF MessageOnce
  <2> QED
    BY <1>7, <2>1, <2>6, <2>7, <2>8
<1> QED
  BY DeliverPath, <1>8, <1>9, <1>10, Zenon

\* Time, crashes, recovery and the operator start nothing for a message.
LEMMA OnceEnvironment ==
  ASSUME RowsOK, TablesOK, Environment, NEW m \in Messages, MessageOnce(m)
  PROVE  MessageOnce(m)'
<1>0. calls \in [Deliveries -> Call] /\ records \in [Messages -> Record]
  BY DEF RowsOK, TablesOK
<1>1. \A s \in Deliveries : calls'[s] = calls[s] \/ calls'[s].pc = "crashed"
  <2>1. ASSUME NEW r \in Deliveries, Crash(r)
        PROVE  \A s \in Deliveries : calls'[s] = calls[s] \/ calls'[s].pc = "crashed"
    <3>1. Gone(r, "crashed", "none") /\ "none" \in Outs
      BY <2>1, Literals DEF Crash
    <3>2. calls'[r].pc = "crashed"
      BY <1>0, <3>1, CallUpdates, Zenon
    <3>3. \A s \in Deliveries : s # r => calls'[s] = calls[s]
      BY <1>0, <3>1, Zenon DEF Gone
    <3> QED
      BY <3>2, <3>3
  <2>2. CASE UNCHANGED calls
    BY <2>2
  <2> QED
    BY <2>1, <2>2, Zenon DEF Environment, JobLeaseExpires, Reconcile, OrphanActs, OrphanEnds,
       ClaimExpires, Recover
<1>2. /\ orphans' \subseteq orphans /\ effects' \cup orphans' \subseteq effects \cup orphans
      /\ \/ effects' = effects
         \/ \E o \in orphans : effects' = effects \cup {o} /\ orphans' = orphans \ {o}
  <2>1. CASE OrphanActs
    BY <2>1, Zenon DEF OrphanActs
  <2>2. CASE OrphanEnds \/ \E r \in Deliveries : Crash(r)
    BY <2>2, Zenon DEF OrphanEnds, Crash
  <2>3. CASE UNCHANGED <<effects, orphans>>
    BY <2>3, Zenon
  <2> QED
    BY <2>1, <2>2, <2>3, Zenon DEF Environment, JobLeaseExpires, Reconcile, ClaimExpires, Recover
<1>3. Traces(m)' \subseteq Traces(m)
  BY <1>2 DEF Traces
<1>4. \A a \in Traces(m)' : a \notin effects' \/ a \notin orphans'
  BY <1>2, <1>3 DEF MessageOnce
<1>5. \A s \in Deliveries : Running(s)' => Running(s) /\ calls'[s] = calls[s]
  BY <1>1, SMT DEF Running
<1>6. ASSUME NEW s \in Deliveries, Message[s] = m
      PROVE  StandsAt(s)'
  <2>1. StandsAt(s)
    BY <1>6 DEF MessageOnce
  <2>2. CASE calls'[s] = calls[s]
    BY <1>2, <1>3, <1>6, <2>1, <2>2, SMT DEF StandsAt, Running, At, Invocation
  <2>3. CASE calls'[s].pc = "crashed"
    BY <2>3, SMT DEF StandsAt, Running, At, EndPcs
  <2> QED
    BY <1>1, <2>2, <2>3
<1>7. records'[m].state \in {"ABSENT", "FAILED"} =>
        Traces(m)' = {} /\ \A s \in Deliveries : Message[s] = m => ~Running(s)'
  <2>1. CASE records'[m] = records[m]
    BY <1>3, <1>5, <2>1, SMT DEF MessageOnce
  <2>2. CASE records'[m].state = "OUTCOME_UNKNOWN"
    BY <2>2, SMT
  <2>3. ASSUME Reconcile(m)
        PROVE  records'[m].state \in {"ABSENT", "FAILED"} =>
                 Traces(m)' = {} /\ \A s \in Deliveries : Message[s] = m => ~Running(s)'
    <3> DEFINE acted == \E e \in effects : Message[e[1]] = m
               running == (\E o \in orphans : Message[o[1]] = m)
                          \/ \E r \in Deliveries : Message[r] = m
                               /\ calls[r].pc \notin {"idle", "done", "crashed"}
    <3>1. /\ acted \/ ~running
          /\ records' = [records EXCEPT ![m].state = IF acted THEN "COMPLETED" ELSE "FAILED"]
          /\ UNCHANGED <<calls, effects, orphans>>
      BY <2>3, Zenon DEF Reconcile
    <3>2. acted => records'[m].state = "COMPLETED"
      BY <1>0, <3>1, SMT DEF Record
    <3>3. ~acted /\ ~running =>
            Traces(m)' = {} /\ \A s \in Deliveries : Message[s] = m => ~Running(s)'
      BY <3>1, Zenon DEF Traces, Running
    <3> HIDE DEF acted, running
    <3> QED
      BY <3>1, <3>2, <3>3, SMT
  <2>4. \/ records'[m] = records[m] \/ records'[m].state = "OUTCOME_UNKNOWN" \/ Reconcile(m)
    <3>1. CASE Recover
      BY <1>0, <3>1, SMT DEF Recover, Record
    <3>2. ASSUME NEW k \in Messages, Reconcile(k), k # m
          PROVE  records'[m] = records[m]
      BY <1>0, <3>2, Zenon DEF Reconcile
    <3>3. CASE UNCHANGED records
      BY <3>3
    <3> QED
      BY <3>1, <3>2, <3>3, Zenon DEF Environment, JobLeaseExpires, Crash, OrphanActs, OrphanEnds,
         ClaimExpires
  <2> QED
    BY <2>1, <2>2, <2>3, <2>4
<1> QED
  BY <1>3, <1>4, <1>5, <1>6, <1>7, Zenon DEF MessageOnce

LEMMA OnceStep ==
  ASSUME RowsOK, TablesOK, ~Fault, OnceInv, Next
  PROVE  OnceInv'
<1>1. ASSUME NEW r \in Deliveries, Deliver(r)
      PROVE  OnceInv'
  <2>1. ASSUME NEW m \in Messages
        PROVE  MessageOnce(m)'
    BY <1>1, OnceElsewhere, OnceBegin, OnceHere, HandlerErrorsAssumption, Zenon DEF OnceInv
  <2> QED
    BY <2>1 DEF OnceInv
<1>2. CASE Environment
  BY <1>2, OnceEnvironment DEF OnceInv
<1> QED
  BY <1>1, <1>2, Zenon DEF Next, Environment

\* The invariant while no statement has failed; and every effect rests on
\* those of the smaller sequences.
StreamInv ==
  /\ TablesOK /\ Bounded /\ (faults = 0 => OnceInv)
  /\ \A f \in effects : \A n \in 1..(SequenceOf(f[1]) - 1) : ActedOn(n, effects)

LEMMA NoFaultYet ==
  ASSUME Bounded, Next, faults' = 0
  PROVE  faults = 0 /\ ~Fault
BY CountersStep, BoundsAssumption, SMT DEF Bounded, Fault, BoundsAssumption

LEMMA StreamInvariant == Spec => []StreamInv
<1>1. Init => StreamInv
  BY OnceInit, BoundsAssumption, SMT
  DEF Init, StreamInv, TablesOK, Bounded, BoundsAssumption, Record, RecordStates, Leases
<1>2. ASSUME RowsOK, OrderInv, StreamInv, [Next]_vars
      PROVE  StreamInv'
  <2>1. CASE UNCHANGED vars
    BY <1>2, <2>1, SMT DEF vars, bounds, StreamInv, TablesOK, Bounded, OnceInv, MessageOnce, StandsAt,
      Running, Traces, At, Invocation, ActedOn
  <2>2. CASE Next
    <3>1. TablesOK'
      BY <1>2, <2>2, DeliverTables, EnvironmentTables, Zenon DEF Next, Environment, StreamInv
    <3>2. Bounded'
      BY <1>2, <2>2, CountersStep, BoundsAssumption, SMT
      DEF Bounded, BoundsAssumption, StreamInv
    <3>3. faults' = 0 => OnceInv'
      BY <1>2, <2>2, NoFaultYet, OnceStep, Zenon DEF StreamInv
    <3>4. effects \subseteq effects'
      BY <2>2, EffectsStep, Zenon
    <3>5. ASSUME NEW f \in effects', NEW n \in 1..(SequenceOf(f[1]) - 1)
          PROVE  ActedOn(n, effects')
      <4>1. ActedOn(n, effects)
        BY <1>2, <2>2, <3>5, NewEffect DEF StreamInv
      <4> QED
        BY <3>4, <4>1, Zenon DEF ActedOn
    <3> QED
      BY <3>1, <3>2, <3>3, <3>5 DEF StreamInv
  <2> QED
    BY <1>2, <2>1, <2>2
<1> QED
  BY <1>1, <1>2, OrderInvariant, PTL DEF Spec

\* While no statement fails, a sequence never takes effect after a larger one:
\* each message takes effect once, and a larger one not before that.
THEOREM NoEffectIsLate ==
  ASSUME \A m, n \in Messages : Sequence[m] = Sequence[n] => m = n
  PROVE  Spec => NoLateEffect
<1>1. ASSUME RowsOK, OrderInv, StreamInv, [Next]_vars
      PROVE  [faults' = 0 => \A e \in effects' \ effects :
                \A f \in effects : SequenceOf(f[1]) <= SequenceOf(e[1])]_vars
  <2> SUFFICES ASSUME Next, faults' = 0, NEW e \in effects', e \notin effects,
                      NEW f \in effects
               PROVE  SequenceOf(f[1]) <= SequenceOf(e[1])
    BY <1>1
  <2>1. OnceInv'
    BY <1>1, NoFaultYet, OnceStep, Zenon DEF StreamInv
  <2>2. effects \subseteq effects'
    BY EffectsStep, Zenon
  <2>3. e[1] \in Deliveries /\ f[1] \in Deliveries
    <3>1. \A a \in effects \cup orphans : a[1] \in Deliveries
      BY <1>1, SMT DEF RowsOK
    <3>2. f[1] \in Deliveries
      BY <3>1
    <3>3. CASE e \in orphans
      BY <3>1, <3>2, <3>3
    <3>4. ASSUME NEW r \in Deliveries, e = Invocation(r)
          PROVE  e[1] \in Deliveries
      BY <3>4, InvocationOf
    <3> QED
      BY <3>2, <3>3, <3>4, EffectsStep, Zenon
  <2>4. SequenceOf(e[1]) \in Nat \ {0} /\ SequenceOf(f[1]) \in Nat \ {0}
    BY <2>3, SequenceType
  <2> SUFFICES ASSUME SequenceOf(e[1]) < SequenceOf(f[1])
               PROVE  FALSE
    BY <2>4, SMT
  <2>5. SequenceOf(e[1]) \in 1..(SequenceOf(f[1]) - 1)
    BY <2>4, SMT
  <2>6. PICK g \in effects : SequenceOf(g[1]) = SequenceOf(e[1])
    BY <1>1, <2>5 DEF StreamInv, ActedOn
  <2>7. g[1] \in Deliveries
    BY <1>1, SMT DEF RowsOK
  <2>8. Message[g[1]] = Message[e[1]] /\ Message[e[1]] \in Messages
    BY <2>3, <2>6, <2>7, MessageType DEF SequenceOf
  <2>9. g \in Traces(Message[e[1]])' /\ e \in Traces(Message[e[1]])'
    BY <2>2, <2>8 DEF Traces
  <2>10. g = e
    BY <2>1, <2>8, <2>9 DEF OnceInv, MessageOnce
  <2> QED
    BY <2>10
<1> QED
  BY <1>1, OrderInvariant, StreamInvariant, PTL DEF Spec, NoLateEffect
=============================================================================
