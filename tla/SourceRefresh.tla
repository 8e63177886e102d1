--------------------------- MODULE SourceRefresh ---------------------------
(***************************************************************************)
(* The refresh of one URL source: the journal of refresh jobs              *)
(* (adapters/source-refresh-postgres), SourceRefreshCoordinator.drainOnce  *)
(* (modules/frontend-sources-write/src/source-refresh.ts), the ports its   *)
(* runtime binds (assemblies/shotgun-app/src/source-refresh-runtime.ts),   *)
(* and the intake the refresh submits                                      *)
(* (adapters/frontend-sources-write-postgres/src/product-service.ts).      *)
(*                                                                         *)
(* A job belongs to one provenance receipt and is numbered by it.  A       *)
(* worker drains one job at a time, so the worker stands for the lease     *)
(* token of its claim.  Every database call is a step of its own; a write  *)
(* that the reset fence of the project refuses is a statement that fails,  *)
(* and a clock that has not reached next_attempt_at a claim that finds     *)
(* nothing.                                                                *)
(***************************************************************************)
EXTENDS Integers

CONSTANTS
  Workers,      \* processes that run the refresh worker
  MaxJobs,      \* bound: receipts that get a job
  MaxEdits,     \* bound: versions and receipts that users add to the source
  MaxUpsets,    \* bound: statements that fail, crashes, leases that end under a worker
  None

ASSUME BoundsAssumption == MaxJobs \in Nat \ {0} /\ MaxEdits \in Nat /\ MaxUpsets \in Nat
ASSUME NoneAssumption == None \notin Workers

VARIABLES
  source,       \* the newest version of the source and its receipts
  jobs,         \* url_refresh_jobs, by provenance receipt
  submissions,  \* the intake submission of each job
  ledger,       \* its command in command_ledger
  calls,        \* the drainOnce call of each worker
  fetched,      \* history: how the last acquisition for a job ended
  upsets

vars == <<source, jobs, submissions, ledger, calls, fetched, upsets>>

MaxAttempts == 3
Receipts == 1..MaxJobs
Open == {"READY", "STAGED", "SUBMITTING"}
Phases == Open \cup {"absent", "ACQUIRING", "SUCCEEDED", "FAILED", "OUTCOME_UNKNOWN"}
\* The safe failure codes that something depends on; the others are "none".
Codes == {"none", "denied", "fetch", "rejected", "changed", "intake"}
Pcs == {"idle", "authorize", "acquire", "fetch", "stage", "again", "prepare",
        "submitting", "submit", "insert", "process", "readback", "record", "settle"}

\* owner: the worker whose claim set lease_token; base: the pinned version.
Job == [phase : Phases, lease : {"none", "live", "expired"}, owner : Workers \cup {None},
        attempts : Nat, staged : {"no", "yes"}, code : Codes, base : Nat]
\* phase: of the worker's copy of the job; to, code: the outcome it will record.
Call == [pc : Pcs, job : Receipts, phase : Phases, to : Phases, code : Codes]

NewJob(v) == [phase |-> "READY", lease |-> "none", owner |-> None,
              attempts |-> 0, staged |-> "no", code |-> "none", base |-> v]
Idle == [pc |-> "idle", job |-> 1, phase |-> "absent", to |-> "absent", code |-> "none"]

\* The source was taken in from its URL; nothing is due yet.
Init ==
  /\ source = [version |-> 1, receipts |-> 1, traced |-> "yes", edits |-> 0]
  /\ jobs = [r \in Receipts |-> [NewJob(1) EXCEPT !.phase = "absent"]]
  /\ submissions = [r \in Receipts |-> "none"]
  /\ ledger = [r \in Receipts |-> "none"]
  /\ calls = [w \in Workers |-> Idle]
  /\ fetched = [r \in Receipts |-> "none"]
  /\ upsets = 0

At(w, pc) == calls[w].pc = pc
JobOf(w) == calls[w].job
Fault == upsets < MaxUpsets /\ upsets' = upsets + 1
NoFault == UNCHANGED upsets
Goes(w, pc) == calls' = [calls EXCEPT ![w].pc = pc]
\* The call throws: the lease stays until it expires.
Leaves(w) == calls' = [calls EXCEPT ![w] = Idle]
Decides(w, to, code) ==
  calls' = [calls EXCEPT ![w].pc = "settle", ![w].to = to, ![w].code = code]

-----------------------------------------------------------------------------
(* claimNext                                                                *)

\* Mutant: an expired acquisition is made again.
Recovered_Refetches(job) ==
  IF job.lease # "expired" THEN job
  ELSE [job EXCEPT !.phase = IF @ = "ACQUIRING" THEN "READY" ELSE @,
                   !.lease = "none", !.owner = None]

\* An expired acquisition is held; the other phases are free to be resumed.
Recovered(job) ==
  IF job.lease # "expired" THEN job
  ELSE [job EXCEPT !.phase = IF @ = "ACQUIRING" THEN "OUTCOME_UNKNOWN" ELSE @,
                   !.lease = "none", !.owner = None]

\* The newest receipt of the newest version gets a job when it is too old,
\* unless it had one or the source has a job that is not over.
Candidates(js) ==
  {r \in Receipts :
     /\ source.traced = "yes" /\ r = source.receipts /\ js[r].phase = "absent"
     /\ \A q \in Receipts : js[q].phase \notin Open \cup {"ACQUIRING", "OUTCOME_UNKNOWN"}}

Journals ==
  LET swept == [r \in Receipts |-> Recovered(jobs[r])] IN
  {swept} \cup {[swept EXCEPT ![r] = NewJob(source.version)] : r \in Candidates(swept)}

\* Mutant: a submission that was started is left to its worker.
Claimable_Unstarted(job) ==
  /\ job.lease = "none"
  /\ \/ job.phase \in {"READY", "STAGED"}
     \/ job.phase = "FAILED" /\ job.code = "denied"
     \/ job.phase = "FAILED" /\ job.code = "fetch" /\ job.attempts < MaxAttempts

Claimable(job) ==
  /\ job.lease = "none"
  /\ \/ job.phase \in Open
     \/ job.phase = "FAILED" /\ job.code = "denied"
     \/ job.phase = "FAILED" /\ job.code = "fetch" /\ job.attempts < MaxAttempts

\* Mutant: a phase the table does not know.
Resumed_Retry(job) == IF job.phase # "FAILED" THEN job.phase ELSE "RETRY"

\* The phase a failed job is resumed in.
Resumed(job) ==
  IF job.phase # "FAILED" THEN job.phase ELSE IF job.staged = "yes" THEN "STAGED" ELSE "READY"

ClaimJob(w, r) ==
  /\ At(w, "idle")
  /\ \E js \in Journals :
       /\ Claimable(js[r])
       /\ LET job == [js[r] EXCEPT !.phase = Resumed(js[r]), !.lease = "live"] IN
          \/ NoFault /\ jobs' = [js EXCEPT ![r] = [job EXCEPT !.owner = w]]
             /\ calls' = [calls EXCEPT ![w] =
                  [Idle EXCEPT !.pc = "authorize", !.job = r, !.phase = job.phase]]
          \* the acknowledgement of the commit is lost
          \/ Fault /\ jobs' = [js EXCEPT ![r] = job] /\ UNCHANGED calls
  /\ UNCHANGED <<source, submissions, ledger, fetched>>

\* Nothing is due.
ClaimNothing(w) ==
  /\ At(w, "idle") /\ jobs' \in Journals
  /\ UNCHANGED <<source, submissions, ledger, calls, fetched, upsets>>

-----------------------------------------------------------------------------
(* drainOnce                                                                *)

\* authorize: every policy may deny, or fail; it denies a source that moved on.
\* What is submitted already is only read back.
Authorize(w) ==
  /\ At(w, "authorize") \/ At(w, "again")
  /\ \/ /\ calls[w].phase = "SUBMITTING" \/ source.version = jobs[JobOf(w)].base
        /\ Goes(w, IF At(w, "again") THEN "prepare"
                   ELSE CASE calls[w].phase = "READY" -> "acquire"
                          [] calls[w].phase = "STAGED" -> "again"
                          [] OTHER -> "readback")
     \/ Decides(w, "FAILED", "denied")
  /\ UNCHANGED <<source, jobs, submissions, ledger, fetched, upsets>>

\* transition: only the live lease of the claim, in the phase the worker knows.
Holds(w) ==
  LET job == jobs[JobOf(w)] IN
  job.owner = w /\ job.lease = "live" /\ job.phase = calls[w].phase

Write(w, job) == jobs' = [jobs EXCEPT ![JobOf(w)] = job]

\* A checkpoint of the journal: the worker goes on under its lease.
Checkpoint(w, from, to, next) ==
  LET job == jobs[JobOf(w)] IN
  /\ At(w, from)
  /\ \/ /\ Holds(w)
        /\ Write(w, [job EXCEPT !.phase = to, !.code = "none",
                       !.staged = IF to = "STAGED" THEN "yes" ELSE @,
                       !.attempts = IF to = "ACQUIRING" THEN @ + 1 ELSE @])
        /\ \/ NoFault /\ calls' = [calls EXCEPT ![w].pc = next, ![w].phase = to]
           \/ Fault /\ Leaves(w)
     \/ /\ (NoFault /\ ~Holds(w)) \/ Fault
        /\ Leaves(w) /\ UNCHANGED jobs
  /\ UNCHANGED <<source, submissions, ledger, fetched>>

\* The last transition of a call records its outcome and releases the lease.
Settle(w) ==
  LET job == jobs[JobOf(w)] IN
  /\ At(w, "settle") /\ Leaves(w)
  /\ \/ /\ NoFault \/ Fault
        /\ Holds(w)
        /\ Write(w, [job EXCEPT !.phase = calls[w].to, !.code = calls[w].code,
                       !.lease = "none", !.owner = None])
     \/ /\ (NoFault /\ ~Holds(w)) \/ Fault
        /\ UNCHANGED jobs
  /\ UNCHANGED <<source, submissions, ledger, fetched>>

\* stageUrl: the one step that goes to the network.
Fetch(w) ==
  /\ At(w, "fetch")
  /\ \E end \in {"ok", "failed", "rejected", "unknown"} :
       /\ fetched' = [fetched EXCEPT ![JobOf(w)] = end]
       /\ CASE end = "ok" -> Goes(w, "stage")
            [] end = "failed" -> Decides(w, "FAILED", "fetch")
            [] end = "rejected" -> Decides(w, "FAILED", "rejected")
            [] end = "unknown" -> Decides(w, "OUTCOME_UNKNOWN", "none")
  /\ UNCHANGED <<source, jobs, submissions, ledger, upsets>>

\* prepareSubmission accepts the command, or finds it accepted.  One that is
\* completed is refused.
Prepare(w) ==
  LET r == JobOf(w) IN
  /\ At(w, "prepare")
  /\ \/ /\ ledger[r] # "COMPLETED" /\ ledger' = [ledger EXCEPT ![r] = "ACCEPTED"]
        /\ (NoFault /\ Goes(w, "submitting")) \/ (Fault /\ Leaves(w))
     \/ /\ (NoFault /\ ledger[r] = "COMPLETED") \/ Fault
        /\ Leaves(w) /\ UNCHANGED ledger
  /\ UNCHANGED <<source, jobs, submissions, fetched>>

-----------------------------------------------------------------------------
(* product.submit                                                           *)

\* Whatever else is thrown by submit: the submission must be read back.
Unsure(w) == Decides(w, "SUBMITTING", "none")

\* submit looks for the submission before it makes one.
Submit(w) ==
  /\ At(w, "submit")
  /\ \/ NoFault /\ Goes(w, IF submissions[JobOf(w)] = "none" THEN "insert" ELSE "process")
     \/ Fault /\ Unsure(w)
  /\ UNCHANGED <<source, jobs, submissions, ledger, fetched>>

\* The command is not executable, or another call made the intake meanwhile.
Refused(r) == ledger[r] # "ACCEPTED" \/ submissions[r] # "none"

\* Mutant: the version is compared first.
Overtaken_First(r) == source.version # jobs[r].base

\* The source has another version than the one the job expects.
Overtaken(r) == ~Refused(r) /\ source.version # jobs[r].base

\* The intake is made in one transaction, with a receipt of its own and, if the
\* bytes changed, a version of the source.
Insert(w) ==
  LET r == JobOf(w)
      thrown == UNCHANGED <<source, submissions>> IN
  /\ At(w, "insert")
  /\ \/ NoFault /\ Refused(r) /\ Unsure(w) /\ thrown
     \/ NoFault /\ Overtaken(r) /\ Decides(w, "FAILED", "changed") /\ thrown
     \/ Fault /\ Unsure(w) /\ thrown
     \/ /\ ~Refused(r) /\ ~Overtaken(r)
        /\ submissions' = [submissions EXCEPT ![r] = "RUNNING"]
        /\ \E v \in {source.version, source.version + 1} :
             source' = [source EXCEPT !.version = v, !.receipts = @ + 1, !.traced = "yes"]
        /\ (NoFault /\ Goes(w, "process")) \/ (Fault /\ Unsure(w))
  /\ UNCHANGED <<jobs, ledger, fetched>>

Unprocessed == {"RUNNING", "INDETERMINATE"}

\* Mutant: a submission that is not over counts as done.
Reads_Running(w, state) ==
  calls' = [calls EXCEPT ![w].pc = "record",
    ![w].to = IF state = "CANCELLED" THEN "FAILED" ELSE "SUCCEEDED",
    ![w].code = IF state = "CANCELLED" THEN "intake" ELSE "none"]

\* The outcome that finalize records for a submission.
Reads(w, state) ==
  calls' = [calls EXCEPT ![w].pc = "record",
    ![w].to = CASE state = "SUCCEEDED" -> "SUCCEEDED"
                [] state = "CANCELLED" -> "FAILED"
                [] OTHER -> "SUBMITTING",
    ![w].code = IF state = "CANCELLED" THEN "intake" ELSE "none"]

\* runStage3AndFinalize: the pipeline completes, is another worker's, or fails.
Process(w) ==
  LET r == JobOf(w)
      state == submissions[r]
      Ends(s) == submissions' = [submissions EXCEPT ![r] = s] IN
  /\ At(w, "process")
  /\ \/ NoFault /\ Reads(w, state) /\ UNCHANGED submissions
     \/ NoFault /\ state \in Unprocessed /\ Ends("SUCCEEDED") /\ Reads(w, "SUCCEEDED")
     \/ NoFault /\ state \in Unprocessed /\ Ends("INDETERMINATE") /\ Unsure(w)
     \/ Fault /\ Unsure(w) /\ UNCHANGED submissions
  /\ UNCHANGED <<source, jobs, ledger, fetched>>

-----------------------------------------------------------------------------
(* The readback and finalize                                                *)

\* getSubmission of a job that was left SUBMITTING.
Readback(w) ==
  LET state == submissions[JobOf(w)] IN
  /\ At(w, "readback")
  /\ \/ NoFault /\ state = "none" /\ Decides(w, "OUTCOME_UNKNOWN", "none")
     \/ NoFault /\ state # "none" /\ Reads(w, state)
     \/ Fault /\ Leaves(w)
  /\ UNCHANGED <<source, jobs, submissions, ledger, fetched>>

\* recordSubmission completes the command, or finds it completed.
Record(w) ==
  LET r == JobOf(w) IN
  /\ At(w, "record")
  /\ \/ /\ ledger[r] # "none" /\ ledger' = [ledger EXCEPT ![r] = "COMPLETED"]
        /\ (NoFault /\ Goes(w, "settle")) \/ (Fault /\ Unsure(w))
     \/ /\ (NoFault /\ ledger[r] = "none") \/ Fault
        /\ Unsure(w) /\ UNCHANGED ledger
  /\ UNCHANGED <<source, jobs, submissions, fetched>>

Drain(w) ==
  \/ Authorize(w) \/ Settle(w) \/ Fetch(w) \/ Prepare(w)
  \/ Checkpoint(w, "acquire", "ACQUIRING", "fetch")
  \/ Checkpoint(w, "stage", "STAGED", "again")
  \/ Checkpoint(w, "submitting", "SUBMITTING", "submit")
  \/ Submit(w) \/ Insert(w) \/ Process(w) \/ Readback(w) \/ Record(w)

-----------------------------------------------------------------------------
(* Time, crashes and everybody else                                         *)

\* Somebody works under the lease of the job.
Worked(r) ==
  \E w \in Workers : ~At(w, "idle") /\ JobOf(w) = r /\ jobs[r].owner = w

Expire(r) ==
  /\ jobs[r].lease = "live"
  /\ IF Worked(r) THEN Fault ELSE NoFault
  /\ jobs' = [jobs EXCEPT ![r].lease = "expired"]
  /\ UNCHANGED <<source, submissions, ledger, calls, fetched>>

Crash(w) ==
  /\ Fault /\ ~At(w, "idle") /\ Leaves(w)
  /\ UNCHANGED <<source, jobs, submissions, ledger, fetched>>

\* The recovery of Stage 3 completes a submission; a user cancels one that
\* Stage 3 left indeterminate, or retries it.
Intake(r) ==
  LET Becomes(s) == submissions' = [submissions EXCEPT ![r] = s] IN
  /\ \/ submissions[r] \in Unprocessed /\ Becomes("SUCCEEDED")
     \/ submissions[r] = "INDETERMINATE" /\ Becomes("CANCELLED")
     \/ submissions[r] \in {"INDETERMINATE", "CANCELLED"} /\ Becomes("RUNNING")
  /\ UNCHANGED <<source, jobs, ledger, calls, fetched, upsets>>

\* A user adds to the source: the URL once more, with the same bytes or others,
\* or a version that came from no URL.
Edit ==
  /\ source.edits < MaxEdits
  /\ \/ \E v \in {source.version, source.version + 1} :
          source' = [version |-> v, receipts |-> source.receipts + 1, traced |-> "yes",
                     edits |-> source.edits + 1]
     \/ source' = [source EXCEPT !.version = @ + 1, !.traced = "no", !.edits = @ + 1]
  /\ UNCHANGED <<jobs, submissions, ledger, calls, fetched, upsets>>

Next ==
  \/ \E w \in Workers :
       \/ \E r \in Receipts : ClaimJob(w, r)
       \/ ClaimNothing(w) \/ Drain(w) \/ Crash(w)
  \/ \E r \in Receipts : Expire(r) \/ Intake(r)
  \/ Edit

Spec == Init /\ [][Next]_vars

\* A drain goes on, its calls have timeouts.  A lease that nobody works under
\* expires.  The worker's interval claims again, in the order of next_attempt_at.
Fairness ==
  /\ \A w \in Workers : WF_vars(Drain(w)) /\ WF_vars(ClaimNothing(w))
  /\ \A r \in Receipts :
       /\ WF_vars(~Worked(r) /\ Expire(r))
       /\ SF_vars(\E w \in Workers : ClaimJob(w, r))

FairSpec == Spec /\ Fairness

-----------------------------------------------------------------------------
(* Properties                                                               *)

\* Every variable has the shape of its table or of drainOnce's locals.
TypeOK ==
  /\ source \in [version : Nat, receipts : Nat, traced : {"no", "yes"}, edits : Nat]
  /\ jobs \in [Receipts -> Job]
  /\ submissions \in [Receipts -> {"none", "SUCCEEDED", "CANCELLED"} \cup Unprocessed]
  /\ ledger \in [Receipts -> {"none", "ACCEPTED", "COMPLETED"}]
  /\ calls \in [Workers -> Call]
  /\ fetched \in [Receipts -> {"none", "ok", "failed", "rejected", "unknown"}]
  /\ upsets \in Nat

\* An acquisition that succeeded, was rejected or is uncertain is never made
\* again, whoever takes the job over, and a failed one three times at most, so
\* that the CHECK of the attempts column never refuses a claimed job.
NeverRefetched ==
  \A w \in Workers : At(w, "fetch") =>
    fetched[JobOf(w)] \in {"none", "failed"} /\ jobs[JobOf(w)].attempts <= MaxAttempts

\* A refresh reported as failed in acquisition or as overtaken by another version
\* left no intake behind, and no slow worker makes one later.
FailedIsClean ==
  \A r \in Receipts :
    jobs[r].phase = "FAILED" /\ jobs[r].code \in {"fetch", "rejected", "changed"}
      => submissions[r] = "none"

\* A refresh reported as succeeded has an intake whose Stage 3 completed, and its
\* command is completed.
SucceededIsCommitted ==
  \A r \in Receipts : jobs[r].phase = "SUCCEEDED"
    => submissions[r] = "SUCCEEDED" /\ ledger[r] = "COMPLETED"

\* A job does not keep a reset of the project's knowledge waiting for work that
\* nobody does any more: an acquisition ends, and so does a submission that needs
\* no more of Stage 3.  Only an uncertain outcome refuses the reset for good.
Held(r) ==
  \/ jobs[r].phase = "ACQUIRING"
  \/ jobs[r].phase = "SUBMITTING" /\ submissions[r] \notin Unprocessed
HeldEnds == \A r \in Receipts : Held(r) ~> ~Held(r)
=============================================================================
