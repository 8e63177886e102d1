------------------------- MODULE RelationExecution -------------------------
(***************************************************************************)
(* Paid provider calls of VP relation jobs: PostgresVPRelationJobs         *)
(* (adapters/vp-knowledge-postgres/src/relation-jobs.ts) in the workload's *)
(* database, PostgresGlobalRelationBudget in the authority's database, and *)
(* the execution boundary between them (both in                            *)
(* adapters/vp-global-provider-budget-postgres).  No transaction spans the *)
(* two databases and the provider.                                         *)
(*                                                                         *)
(* A worker is one dispatchOnce at a time.  The lease token it draws is    *)
(* also its semantic attempt, and with it names the claim it reserves.     *)
(***************************************************************************)
EXTENDS Integers, FiniteSets

CONSTANTS
  Workers,
  Jobs,
  Keys,         \* execution keys: revisions of the provider configuration
  Tokens,       \* lease tokens
  DailyLimit,
  MaxAttempts,  \* relation_jobs.max_attempts
  Days,         \* bound: budget days 1..Days
  MaxFaults,    \* bound: statements, transactions or resolutions that fail
  MaxCrashes,   \* bound: crashes
  MaxRestores,  \* bound: restores of the workload database from a backup
  MaxSlow,      \* bound: leases that expire while their worker goes on
  None

ASSUME NoneAssumption == None \notin Jobs \cup Keys \cup Tokens
ASSUME LimitAssumption == DailyLimit \in Nat \ {0} /\ MaxAttempts \in Nat \ {0}
ASSUME TokensAssumption == IsFiniteSet(Tokens)
ASSUME BoundsAssumption ==
  /\ Days \in Nat \ {0}
  /\ MaxFaults \in Nat /\ MaxCrashes \in Nat /\ MaxRestores \in Nat /\ MaxSlow \in Nat

VARIABLES
  jobs,      \* vp.relation_jobs
  receipts,  \* vp.relation_provider_calls, by job and execution key
  claims,    \* vp_global_budget.claims, by semantic attempt
  usage,     \* vp_global_budget.daily_usage.claimed_count
  workers,   \* locals of the running dispatches
  paid,      \* provider calls that left the process: <<job, key, claim>>
  today, faults, crashes, restores, slow

vars == <<jobs, receipts, claims, usage, workers, paid, today, faults, crashes, restores, slow>>
local == <<jobs, receipts>>
authority == <<claims, usage>>
upsets == <<today, crashes, restores, slow>>

JobStates == {"PENDING", "RUNNING", "RETRYABLE", "OUTCOME_UNKNOWN", "COMPLETED", "SUPERSEDED"}
ReceiptStates == {"ABSENT", "RUNNING", "OUTCOME_UNKNOWN", "OUTPUT_STORED"}
ClaimStates == {"NONE", "RESERVED", "PROVIDER_SUCCEEDED", "PROVIDER_FAILED", "RELEASED"}
Pcs == {"idle", "select", "read", "look", "prior", "releasePrior", "reserve", "authorize",
        "activate", "call", "answered", "failed", "store", "finish", "retry", "check",
        "giveBack", "mark", "giveBackAgain", "pause"}
Flags == {"no", "yes"}

\* FAILED is missing: an attempt is counted with its receipt only, and a job
\* with a receipt is neither retried nor failed.
Job == [status : JobStates, token : Tokens \cup {None}, lease : {"none", "live", "expired"}]
Receipt == [state : ReceiptStates, claim : Tokens \cup {None}]
Claim == [state : ClaimStates, job : Jobs \cup {None}, day : 0..Days,
          armed : Flags]      \* execution_authorized_at IS NOT NULL
Worker == [pc : Pcs, job : Jobs \cup {None}, token : Tokens \cup {None},
           key : Keys \cup {None}, prior : Tokens \cup {None},
           held : Flags,      \* context.claim is set
           activated : Flags]

NoJob == [status |-> "PENDING", token |-> None, lease |-> "none"]
NoReceipt == [state |-> "ABSENT", claim |-> None]
NoClaim == [state |-> "NONE", job |-> None, day |-> 0, armed |-> "no"]
NoWork == [pc |-> "idle", job |-> None, token |-> None, key |-> None, prior |-> None,
           held |-> "no", activated |-> "no"]

Init ==
  /\ jobs = [j \in Jobs |-> NoJob]
  /\ receipts = [j \in Jobs |-> [k \in Keys |-> NoReceipt]]
  /\ claims = [t \in Tokens |-> NoClaim]
  /\ usage = [d \in 1..Days |-> 0]
  /\ workers = [w \in Workers |-> NoWork]
  /\ paid = {}
  /\ today = 1 /\ faults = 0 /\ crashes = 0 /\ restores = 0 /\ slow = 0

-----------------------------------------------------------------------------

At(w, pc) == workers[w].pc = pc
JobOf(w) == workers[w].job
TokenOf(w) == workers[w].token
KeyOf(w) == workers[w].key
ReceiptOf(w) == receipts[JobOf(w)][KeyOf(w)]

Fault == faults < MaxFaults /\ faults' = faults + 1
NoFault == UNCHANGED faults

Goto(w, pc) == workers' = [workers EXCEPT ![w].pc = pc]
Leave(w) == workers' = [workers EXCEPT ![w] = NoWork]

\* WHERE job_id = .. AND lease_token = .. AND status = 'RUNNING'
Owns(w) == jobs[JobOf(w)].status = "RUNNING" /\ jobs[JobOf(w)].token = TokenOf(w)
LeaseLive(w) == Owns(w) /\ jobs[JobOf(w)].lease = "live"

HasReceipt(j) == \E k \in Keys : receipts[j][k].state # "ABSENT"
Outputs(j) == {k \in Keys : receipts[j][k].state = "OUTPUT_STORED"}
HasOutput(j) == Outputs(j) # {}
\* relation_jobs.attempt_count, which grows in the receipt's transaction only.
AttemptCount(j) == Cardinality({k \in Keys : receipts[j][k].state # "ABSENT"})
\* hasActivatedAttempt
Activated(j, t) == \E k \in Keys : receipts[j][k].claim = t

\* A random token: nothing refers to it.
Fresh(t) ==
  /\ claims[t].state \in {"NONE", "RELEASED"}
  /\ \A j \in Jobs : jobs[j].token # t /\ ~Activated(j, t)
  /\ \A w \in Workers : workers[w].token # t /\ workers[w].prior # t
  /\ \A p \in paid : p[3] # t

-----------------------------------------------------------------------------
(* Taking a job: recoverExpiredExecutions and claimNext are transactions of *)
(* their own; the lease may expire between the two.                         *)

Expired(j) == jobs[j].status = "RUNNING" /\ jobs[j].lease = "expired"

Unsettled(j, k) == receipts[j][k].state \in {"RUNNING", "OUTCOME_UNKNOWN"}

Released(j, status) == [jobs EXCEPT ![j] = [NoJob EXCEPT !.status = status]]

\* A recovery that fails ends the dispatch where it began.
RecoverExpired(w) ==
  /\ At(w, "idle") /\ NoFault
  /\ receipts' = [j \in Jobs |-> [k \in Keys |->
       IF Expired(j) /\ receipts[j][k].state = "RUNNING"
       THEN [receipts[j][k] EXCEPT !.state = "OUTCOME_UNKNOWN"] ELSE receipts[j][k]]]
  /\ jobs' = [j \in Jobs |->
       IF Expired(j) /\ \E k \in Keys : Unsettled(j, k)
       THEN [NoJob EXCEPT !.status = "OUTCOME_UNKNOWN"] ELSE jobs[j]]
  /\ Goto(w, "select")
  /\ UNCHANGED <<authority, paid, upsets>>

Claimable(j) ==
  /\ jobs[j].status \in {"PENDING", "RETRYABLE"} \/ Expired(j)
  /\ AttemptCount(j) < MaxAttempts \/ HasOutput(j)

ClaimNext(w) ==
  /\ At(w, "select")
  /\ \/ \E j \in {i \in Jobs : Claimable(i)}, t \in {s \in Tokens : Fresh(s)} :
          /\ jobs' = [jobs EXCEPT ![j] = [status |-> "RUNNING", token |-> t, lease |-> "live"]]
          /\ claims' = [claims EXCEPT ![t] = NoClaim]
          /\ \/ NoFault /\ workers' = [workers EXCEPT ![w] =
                  [NoWork EXCEPT !.pc = "read", !.job = j, !.token = t]]
             \/ Fault /\ Leave(w)
     \/ /\ NoFault /\ ~\E j \in Jobs : Claimable(j)
        /\ Leave(w) /\ UNCHANGED <<jobs, claims>>
  /\ UNCHANGED <<receipts, usage, paid, upsets>>

\* readStoredByJob: the output of any key, under a lease that has not expired.
\* It throws when there are two.
ReadStored(w) ==
  LET found == IF LeaseLive(w) THEN Outputs(JobOf(w)) ELSE {} IN
  /\ At(w, "read")
  /\ \/ NoFault /\ found = {} /\ Goto(w, "look")
     \/ NoFault /\ Cardinality(found) = 1 /\ Goto(w, "finish")
     \/ NoFault /\ Cardinality(found) > 1 /\ Goto(w, "retry")
     \/ Fault /\ Goto(w, "retry")
  /\ UNCHANGED <<local, authority, paid, upsets>>

\* The resolver pins the configuration of this attempt; readExecution then
\* looks for its key.
ReadExecution(w) ==
  /\ At(w, "look")
  /\ \/ \E k \in Keys :
          LET row == receipts[JobOf(w)][k] IN
          NoFault /\ workers' = [workers EXCEPT ![w] =
            IF row.state \in {"RUNNING", "OUTCOME_UNKNOWN"} THEN NoWork
            ELSE [workers[w] EXCEPT !.key = k,
                    !.pc = IF row.state = "ABSENT" THEN "prior" ELSE "finish"]]
     \/ Fault /\ Goto(w, "retry")
  /\ UNCHANGED <<local, authority, paid, upsets>>

\* retry() after a failure before execution: a job with a receipt is left alone.
Retry(w) ==
  /\ At(w, "retry") /\ Leave(w)
  /\ \/ NoFault /\ jobs' = IF Owns(w) /\ ~HasReceipt(JobOf(w))
                           THEN Released(JobOf(w), "RETRYABLE") ELSE jobs
     \/ Fault /\ UNCHANGED jobs
  /\ UNCHANGED <<receipts, authority, paid, upsets>>

-----------------------------------------------------------------------------
(* The authority                                                            *)

Reserved(j) == {t \in Tokens : claims[t].state = "RESERVED" /\ claims[t].job = j}

\* What generateStructured throws goes through its catch block, which looks
\* after the claim if there is one, and then through the adapter's.
Fail(w) == Goto(w, IF workers[w].held = "yes" THEN "check" ELSE "mark")

\* Mutant: any reservation of an earlier attempt needs reconciliation.
ReadPrior_Refuses(w) ==
  /\ At(w, "prior")
  /\ \/ NoFault /\ Reserved(JobOf(w)) = {} /\ Goto(w, "reserve")
     \/ NoFault /\ Reserved(JobOf(w)) # {} /\ Fail(w)
     \/ Fault /\ Fail(w)
  /\ UNCHANGED <<local, authority, paid, upsets>>

\* reservedForJob
ReadPrior(w) ==
  /\ At(w, "prior")
  /\ \/ NoFault /\ Reserved(JobOf(w)) = {} /\ Goto(w, "reserve")
     \/ NoFault /\ \E t \in Reserved(JobOf(w)) :
          IF claims[t].armed = "yes" THEN Fail(w)
          ELSE workers' = [workers EXCEPT ![w].pc = "releasePrior", ![w].prior = t]
     \/ Fault /\ Fail(w)
  /\ UNCHANGED <<local, authority, paid, upsets>>

\* Mutant: the authorization is not looked at.
Refundable_Armed(t) == claims[t].state = "RESERVED"

Refundable(t) == claims[t].state = "RESERVED" /\ claims[t].armed = "no"

\* Mutants: refunds without looking, or the current day.
ReleaseUnused_Blind(t) ==
  /\ claims' = [claims EXCEPT ![t].state = "RELEASED"]
  /\ usage' = [usage EXCEPT ![claims[t].day] = @ - 1]
ReleaseUnused_Today(t) ==
  IF Refundable(t)
  THEN /\ claims' = [claims EXCEPT ![t].state = "RELEASED"]
       /\ usage' = [usage EXCEPT ![today] = IF @ > 0 THEN @ - 1 ELSE @]
  ELSE UNCHANGED authority

\* releaseUnused, one transaction: it refunds the day the claim was counted on.
ReleaseUnused(t) ==
  IF Refundable(t)
  THEN /\ claims' = [claims EXCEPT ![t].state = "RELEASED"]
       /\ usage' = [usage EXCEPT ![claims[t].day] = IF @ > 0 THEN @ - 1 ELSE @]
  ELSE UNCHANGED authority

\* A receipt for the prior claim means reconciliation; so does a claim that was
\* armed meanwhile.
ReleasePrior(w) ==
  LET t == workers[w].prior IN
  /\ At(w, "releasePrior")
  /\ \/ NoFault /\ (Activated(JobOf(w), t) \/ claims[t].armed = "yes")
        /\ Fail(w) /\ UNCHANGED authority
     \/ NoFault /\ ~Activated(JobOf(w), t) /\ claims[t].armed = "no"
        /\ ReleaseUnused(t) /\ Goto(w, "reserve")
     \/ Fault /\ (UNCHANGED authority \/ ReleaseUnused(t)) /\ Fail(w)
  /\ UNCHANGED <<local, paid, upsets>>

CanReserve(w) == Reserved(JobOf(w)) = {} /\ usage[today] < DailyLimit
CountClaim(w) ==
  /\ claims' = [claims EXCEPT ![TokenOf(w)] =
       [state |-> "RESERVED", job |-> JobOf(w), day |-> today, armed |-> "no"]]
  /\ usage' = [usage EXCEPT ![today] = @ + 1]

\* reserveAttempt serializes on the job and counts before it inserts.  No other
\* transaction of this attempt can have reserved: the token is fresh.
ReserveAttempt(w) ==
  /\ At(w, "reserve")
  /\ \/ /\ NoFault /\ CanReserve(w) /\ CountClaim(w)
        /\ workers' = [workers EXCEPT ![w].pc = "authorize", ![w].held = "yes"]
     \/ NoFault /\ ~CanReserve(w) /\ Fail(w) /\ UNCHANGED authority
     \/ Fault /\ Fail(w) /\ (UNCHANGED authority \/ (CanReserve(w) /\ CountClaim(w)))
  /\ UNCHANGED <<local, paid, upsets>>

Arm(w) == claims' = [claims EXCEPT ![TokenOf(w)].armed = "yes"]

\* authorizeExecution: the one-use fence.
AuthorizeExecution(w) ==
  /\ At(w, "authorize")
  /\ \/ NoFault /\ Refundable(TokenOf(w)) /\ Arm(w) /\ Goto(w, "activate")
     \/ NoFault /\ ~Refundable(TokenOf(w)) /\ UNCHANGED claims /\ Fail(w)
     \/ Fault /\ Fail(w) /\ (UNCHANGED claims \/ (Refundable(TokenOf(w)) /\ Arm(w)))
  /\ UNCHANGED <<local, usage, paid, upsets>>

-----------------------------------------------------------------------------
(* Activation, the paid call and its answer                                 *)

CanActivate(w) ==
  LeaseLive(w) /\ ReceiptOf(w).state = "ABSENT" /\ AttemptCount(JobOf(w)) < MaxAttempts

\* Mutant: the receipt is left to storeOutput.
WriteReceipt_Later(w) == UNCHANGED receipts

WriteReceipt(w) ==
  receipts' = [receipts EXCEPT ![JobOf(w)][KeyOf(w)] =
    [state |-> "RUNNING", claim |-> TokenOf(w)]]

\* claim() of the job store, with the global claim.  Only the transaction whose
\* COMMIT is acknowledged may call; the readback after a lost one may not.
Activate(w) ==
  /\ At(w, "activate")
  /\ \/ NoFault /\ CanActivate(w) /\ WriteReceipt(w)
        /\ workers' = [workers EXCEPT ![w].pc = "call", ![w].activated = "yes"]
     \/ NoFault /\ ~CanActivate(w) /\ UNCHANGED receipts /\ Fail(w)
     \/ Fault /\ Fail(w) /\ (UNCHANGED receipts \/ (CanActivate(w) /\ WriteReceipt(w)))
  /\ UNCHANGED <<jobs, authority, paid, upsets>>

\* The provider answers or fails; either may have been billed.
CallProvider(w) ==
  /\ At(w, "call") /\ NoFault
  /\ paid' = paid \cup {<<JobOf(w), KeyOf(w), TokenOf(w)>>}
  /\ Goto(w, "answered") \/ Goto(w, "failed")
  /\ UNCHANGED <<local, authority, upsets>>

SettleAs(w, state) ==
  claims' = IF claims[TokenOf(w)].state = "RESERVED" /\ claims[TokenOf(w)].armed = "yes"
            THEN [claims EXCEPT ![TokenOf(w)].state = state] ELSE claims

\* settle(): its failure is swallowed.  An answer may be malformed.
SettleAnswered(w) ==
  /\ At(w, "answered") /\ (Goto(w, "store") \/ Goto(w, "mark"))
  /\ \/ NoFault /\ SettleAs(w, "PROVIDER_SUCCEEDED")
     \/ Fault /\ UNCHANGED claims
  /\ UNCHANGED <<local, usage, paid, upsets>>

SettleFailed(w) ==
  /\ At(w, "failed") /\ Goto(w, "mark")
  /\ \/ NoFault /\ SettleAs(w, "PROVIDER_FAILED")
     \/ Fault /\ UNCHANGED claims
  /\ UNCHANGED <<local, usage, paid, upsets>>

Storable(w) == Unsettled(JobOf(w), KeyOf(w))

\* Mutant: the job is left with its unknown outcome.
Save_KeepsJob(w) ==
  /\ receipts' = IF Storable(w)
       THEN [receipts EXCEPT ![JobOf(w)][KeyOf(w)].state = "OUTPUT_STORED"] ELSE receipts
  /\ UNCHANGED jobs

\* The output is accepted without a lease, and gives an unknown job back.
Save(w) ==
  IF Storable(w)
  THEN /\ receipts' = [receipts EXCEPT ![JobOf(w)][KeyOf(w)].state = "OUTPUT_STORED"]
       /\ jobs' = IF jobs[JobOf(w)].status = "OUTCOME_UNKNOWN"
                  THEN Released(JobOf(w), "PENDING") ELSE jobs
  ELSE UNCHANGED local

StoreOutput(w) ==
  /\ At(w, "store")
  /\ \/ NoFault /\ Save(w) /\ Goto(w, "finish")
     \/ Fault /\ Save(w) /\ (Goto(w, "finish") \/ Goto(w, "mark"))
     \/ Fault /\ UNCHANGED local /\ Goto(w, "mark")
  /\ UNCHANGED <<authority, paid, upsets>>

\* completeDecision needs a live lease, completeUnresolved only its token.  After
\* a lost transaction the code reads back and tries once more.
Finish(w) ==
  /\ At(w, "finish")
  /\ \/ NoFault /\ Owns(w) /\ jobs' = Released(JobOf(w), "COMPLETED") /\ Leave(w)
     \/ NoFault /\ ~LeaseLive(w) /\ UNCHANGED jobs /\ Leave(w)
     \/ Fault /\ Owns(w) /\ jobs' = Released(JobOf(w), "COMPLETED") /\ Leave(w)
     \/ Fault /\ UNCHANGED jobs /\ (Leave(w) \/ UNCHANGED workers)
  /\ UNCHANGED <<receipts, authority, paid, upsets>>

-----------------------------------------------------------------------------
(* The way out of a failed execution                                        *)

\* hasActivatedAttempt: a failed read counts as activated.
CheckActivated(w) ==
  /\ At(w, "check")
  /\ \/ NoFault /\ ~Activated(JobOf(w), TokenOf(w)) /\ Goto(w, "giveBack")
     \/ NoFault /\ Activated(JobOf(w), TokenOf(w))
        /\ workers' = [workers EXCEPT ![w].pc = "mark", ![w].activated = "yes"]
     \/ Fault /\ workers' = [workers EXCEPT ![w].pc = "mark", ![w].activated = "yes"]
  /\ UNCHANGED <<local, authority, paid, upsets>>

\* The boundary releases in its catch block, the dispatcher once more in its
\* finally block; both swallow a failure.
GiveBack(w) ==
  /\ \/ At(w, "giveBack") /\ Goto(w, "mark")
     \/ At(w, "giveBackAgain") /\ Goto(w, "pause")
  /\ \/ NoFault /\ ReleaseUnused(TokenOf(w))
     \/ Fault /\ (UNCHANGED authority \/ ReleaseUnused(TokenOf(w)))
  /\ UNCHANGED <<local, paid, upsets>>

\* markOutcomeUnknown: any running receipt of the key, any lease of the job.
MarkUnknown(w) ==
  LET unknown == [receipts EXCEPT ![JobOf(w)][KeyOf(w)].state =
                    IF @ = "RUNNING" THEN "OUTCOME_UNKNOWN" ELSE @]
  IN
  /\ At(w, "mark")
  /\ IF workers[w].activated = "yes" THEN Leave(w)
     ELSE Goto(w, IF workers[w].held = "yes" THEN "giveBackAgain" ELSE "pause")
  /\ \/ /\ NoFault /\ receipts' = unknown
        /\ jobs' = IF /\ jobs[JobOf(w)].status = "RUNNING"
                      /\ unknown[JobOf(w)][KeyOf(w)].state = "OUTCOME_UNKNOWN"
                   THEN Released(JobOf(w), "OUTCOME_UNKNOWN") ELSE jobs
     \/ Fault /\ UNCHANGED local
  /\ UNCHANGED <<authority, paid, upsets>>

\* pauseUnstarted
Pause(w) ==
  /\ At(w, "pause") /\ Leave(w)
  /\ \/ NoFault /\ jobs' = IF Owns(w) /\ ~HasReceipt(JobOf(w))
                           THEN Released(JobOf(w), "RETRYABLE") ELSE jobs
     \/ Fault /\ UNCHANGED jobs
  /\ UNCHANGED <<receipts, authority, paid, upsets>>

-----------------------------------------------------------------------------
(* Time, crashes, backups, and assertions that are retired                  *)

LeaseExpires(j) ==
  /\ jobs[j].lease = "live" /\ jobs' = [jobs EXCEPT ![j].lease = "expired"]
  /\ IF \E w \in Workers : TokenOf(w) = jobs[j].token
     THEN slow < MaxSlow /\ slow' = slow + 1 ELSE UNCHANGED slow
  /\ UNCHANGED <<receipts, authority, workers, paid, today, faults, crashes, restores>>

NextDay ==
  /\ today < Days /\ today' = today + 1
  /\ UNCHANGED <<local, authority, workers, paid, faults, crashes, restores, slow>>

Crash(w) ==
  /\ crashes < MaxCrashes /\ crashes' = crashes + 1
  /\ ~At(w, "idle") /\ Leave(w)
  /\ UNCHANGED <<local, authority, paid, today, faults, restores, slow>>

\* The workload's database is restored, with its processes stopped, from a
\* backup made before the job ran; the authority's is not.
Restore(j) ==
  /\ restores < MaxRestores /\ restores' = restores + 1
  /\ \A w \in Workers : At(w, "idle")
  /\ jobs' = [jobs EXCEPT ![j] = NoJob]
  /\ receipts' = [receipts EXCEPT ![j] = [k \in Keys |-> NoReceipt]]
  /\ UNCHANGED <<authority, workers, paid, today, faults, crashes, slow>>

\* enqueueCurrentPairs retires the jobs of assertions that are not current.
Supersede(j) ==
  /\ jobs[j].status \in {"PENDING", "RUNNING", "RETRYABLE"}
  /\ jobs' = Released(j, "SUPERSEDED")
  /\ UNCHANGED <<receipts, authority, workers, paid, faults, upsets>>

Dispatch(w) ==
  \/ RecoverExpired(w) \/ ClaimNext(w) \/ ReadStored(w) \/ ReadExecution(w) \/ Retry(w)
  \/ ReadPrior(w) \/ ReleasePrior(w) \/ ReserveAttempt(w) \/ AuthorizeExecution(w)
  \/ Activate(w) \/ CallProvider(w) \/ SettleAnswered(w) \/ SettleFailed(w)
  \/ StoreOutput(w) \/ Finish(w)
  \/ CheckActivated(w) \/ GiveBack(w) \/ MarkUnknown(w) \/ Pause(w)

Next ==
  \/ \E w \in Workers : Dispatch(w) \/ Crash(w)
  \/ \E j \in Jobs : LeaseExpires(j) \/ Restore(j) \/ Supersede(j)
  \/ NextDay

Spec == Init /\ [][Next]_vars

\* The dispatcher's timer runs in every process, and leases expire.
Fairness ==
  /\ \A w \in Workers : WF_vars(Dispatch(w))
  /\ \A j \in Jobs : WF_vars(LeaseExpires(j))

FairSpec == Spec /\ Fairness

-----------------------------------------------------------------------------
(* Properties                                                               *)

\* Every variable has the shape of its table or of the dispatch's locals.
TypeOK ==
  /\ jobs \in [Jobs -> Job]
  /\ receipts \in [Jobs -> [Keys -> Receipt]]
  /\ claims \in [Tokens -> Claim]
  /\ usage \in [1..Days -> Nat]
  /\ workers \in [Workers -> Worker]
  /\ paid \subseteq Jobs \X Keys \X Tokens
  /\ today \in 1..Days /\ faults \in 0..MaxFaults /\ crashes \in 0..MaxCrashes
  /\ restores \in 0..MaxRestores /\ slow \in 0..MaxSlow

Counted(t) == claims[t].state \in {"RESERVED", "PROVIDER_SUCCEEDED", "PROVIDER_FAILED"}

\* The counter of a day is the number of its claims that were not given back,
\* and within the limit, through lost answers, double releases and midnight.
UsageIsExact ==
  \A d \in 1..Days :
    /\ usage[d] = Cardinality({t \in Tokens : Counted(t) /\ claims[t].day = d})
    /\ usage[d] <= DailyLimit

\* A call that may have been billed is never refunded or counted for two: each
\* has a claim of its own that was armed before and stays counted, also when
\* the workload's database forgets about it.
PaidCallsAreCounted ==
  /\ \A p \in paid : claims[p[3]].armed = "yes" /\ Counted(p[3])
  /\ \A p, q \in paid : p[3] = q[3] => p = q

\* A job pays once for one configuration of the provider, unless the database
\* that knew of it was restored.
OnePaidCallPerExecution ==
  restores = 0 => \A p, q \in paid : p[1] = q[1] /\ p[2] = q[2] => p = q

\* A call whose outcome is not known is not sent again.
NeverSentAgain ==
  [][restores = 0 => \A p \in paid' \ paid : ~\E q \in paid : q[1] = p[1]]_vars

\* Paid output is used: the job it belongs to is decided, unless its assertions
\* were retired, the database was restored, or the job was paid for twice.
StoredIsDecided ==
  \A j \in Jobs :
    HasOutput(j) ~> \/ jobs[j].status \in {"COMPLETED", "SUPERSEDED"}
                    \/ restores > 0 \/ AttemptCount(j) > 1

\* A reservation that was never armed does not stay counted, unless its job is
\* retired, or another attempt of it got as far as the provider.
UnusedIsReturned ==
  \A t \in Tokens :
    Refundable(t) ~> \/ ~Refundable(t)
                     \/ jobs[claims[t].job].status = "SUPERSEDED" \/ HasReceipt(claims[t].job)
=============================================================================
