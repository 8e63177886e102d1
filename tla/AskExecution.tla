---------------------------- MODULE AskExecution ----------------------------
(***************************************************************************)
(* One AnswerRun of the Ask workspace from its claim to its answer: the    *)
(* worker and the execution of AskAnswerExecutionService                   *)
(* (modules/frontend-ask-execution), the rows it keeps in frontend_ask     *)
(* (adapters/frontend-ask-execution-postgres), and the cancel and retry    *)
(* commands that reach it through the command ledger (runAnswerCommand of  *)
(* frontend-product-routes.ts, adapters/frontend-command-gateway-postgres).*)
(*                                                                         *)
(* Every mutation of the run holds the lock of its row, so a transaction   *)
(* is one step.  Between two of them other processes, the user, the lease  *)
(* and a crash may act.  Other runs share nothing with this one but the    *)
(* worker's capacity.                                                      *)
(***************************************************************************)
EXTENDS Integers, FiniteSets

CONSTANTS
  Hosts,         \* processes that run the worker and serve requests
  Commands,      \* commands on the run, each with its clientRequestId
  Kind,          \* what a command asks for: "retry" or "cancel"
  Requests,      \* HTTP requests; two may carry the same command
  HostOf,        \* the process that serves a request
  MaxAutomatic,  \* MAX_AUTOMATIC_STALE_VP_ATTEMPTS
  MaxAttempts,   \* bound: attempts of the run
  MaxUpsets,     \* bound: connections that fail in a statement, and crashes
  None

ASSUME KindAssumption == Kind \in [Commands -> {"retry", "cancel"}]
ASSUME HostOfAssumption == HostOf \in [Requests -> Hosts]
ASSUME AttemptsAssumption == MaxAutomatic \in Nat \ {0} /\ MaxAttempts \in Nat \ {0}
ASSUME BoundsAssumption == MaxUpsets \in Nat
ASSUME NoneAssumption == None \notin Hosts /\ None \notin Commands

VARIABLES
  run,         \* the row of answer_runs
  attempts,    \* answer_run_attempts, by attempt_number
  statements,  \* attempts whose answer is stored
  ledger,      \* command_ledger
  executions,  \* the executeClaimed call of each attempt
  active,      \* per process: the attempt in AskAnswerExecutionService.active
  requests,    \* the runAnswerCommand calls
  upsets

vars == <<run, attempts, statements, ledger, executions, active, requests, upsets>>
rows == <<run, attempts, statements>>

Numbers == 1..MaxAttempts
\* PARTIAL stands for STREAMING too, which one transaction passes through.
Live == {"RUNNING", "PARTIAL"}
Active == Live \cup {"CANCEL_REQUESTED"}
Ends == {"FAILED", "CANCELLED", "OUTCOME_UNKNOWN"}
RunStates == {"QUEUED", "SUCCEEDED"} \cup Active \cup Ends
AttemptStates == {"absent", "RUNNING", "SUCCEEDED"} \cup Ends
LedgerStates == {"absent", "ACCEPTED", "COMPLETED", "REJECTED", "OUTCOME_UNKNOWN"}
Flags == {"no", "yes"}

Run == [state : RunStates, attempt : 0..MaxAttempts]
\* by: the retry command that started the attempt, None for the worker.
Attempt == [state : AttemptStates, lease : {"none", "live", "expired"},
            by : Commands \cup {None}]
\* attempt: the produced attempt of a retry, the one a cancel asks to stop.
Entry == [state : LedgerStates, attempt : 0..MaxAttempts]
Pcs == {"none", "audit", "provider", "check", "complete", "caught", "fail", "ended"}
Verdicts == Ends \cup {"none", "STALE_VERSION"}
Execution == [pc : Pcs, host : Hosts \cup {None},
              aborted : Flags,    \* controller.signal.aborted
              leaseLost : Flags,
              verdict : Verdicts]
Request == [pc : {"idle", "execute", "afterCommit", "reject", "unknown", "done"},
            command : Commands \cup {None}]

NoExecution == [pc |-> "none", host |-> None, aborted |-> "no", leaseLost |-> "no",
                verdict |-> "none"]

Init ==
  /\ run = [state |-> "QUEUED", attempt |-> 0]
  /\ attempts = [n \in Numbers |-> [state |-> "absent", lease |-> "none", by |-> None]]
  /\ statements = {}
  /\ ledger = [c \in Commands |-> [state |-> "absent", attempt |-> 0]]
  /\ executions = [n \in Numbers |-> NoExecution]
  /\ active = [h \in Hosts |-> 0]
  /\ requests = [q \in Requests |-> [pc |-> "idle", command |-> None]]
  /\ upsets = 0

-----------------------------------------------------------------------------

Fault == upsets < MaxUpsets /\ upsets' = upsets + 1
NoFault == UNCHANGED upsets

At(n, pc) == executions[n].pc = pc
Executing(n) == ~At(n, "none") /\ ~At(n, "ended")
Go(n, pc) == executions' = [executions EXCEPT ![n].pc = pc]
Throw(n, verdict) == executions' = [executions EXCEPT ![n].pc = "caught", ![n].verdict = verdict]

\* The call returns, and its locals with it.
End(n) == executions' = [executions EXCEPT ![n] = [NoExecution EXCEPT !.pc = "ended"]]

\* The finally block takes the controller out of active unless a newer attempt
\* has put its own there.
Leave(n) ==
  LET h == executions[n].host IN
  active' = IF active[h] = n THEN [active EXCEPT ![h] = 0] ELSE active

\* claimLocked: one more attempt, with a lease of 30 seconds.
StartAttempt(command) ==
  LET n == run.attempt + 1 IN
  /\ n \in Numbers
  /\ attempts' = [attempts EXCEPT ![n] = [state |-> "RUNNING", lease |-> "live", by |-> command]]
  /\ run' = [state |-> "RUNNING", attempt |-> n]
  /\ UNCHANGED statements

\* runClaimed: executeClaimed registers its controller, over that of an older
\* attempt of the run.
Execute(n, h) ==
  /\ executions' = [executions EXCEPT ![n] = [NoExecution EXCEPT !.pc = "audit", !.host = h]]
  /\ active' = [active EXCEPT ![h] = n]

CloseAttempt(n, state, runState) ==
  /\ attempts' = [attempts EXCEPT ![n].state = state, ![n].lease = "none"]
  /\ run' = [run EXCEPT !.state = runState]

-----------------------------------------------------------------------------
(* The worker.                                                              *)

\* A tick claims the queued run.  It may then not execute it: the capacity was
\* read before the claim, and retries may have filled it since; or the claim's
\* acknowledgement is lost.
Tick(h) ==
  /\ run.state = "QUEUED" /\ StartAttempt(None)
  /\ \/ NoFault /\ Execute(run.attempt + 1, h)
     \/ (NoFault \/ Fault) /\ UNCHANGED <<executions, active>>
  /\ UNCHANGED <<ledger, requests>>

\* failQueuedContextWithClient: the persisted context of the run is invalid.
Quarantine ==
  /\ run.state = "QUEUED" /\ run' = [run EXCEPT !.state = "FAILED"]
  /\ UNCHANGED <<attempts, statements, ledger, executions, active, requests, upsets>>

LeaseExpires(n) ==
  /\ attempts[n].state = "RUNNING" /\ attempts[n].lease = "live"
  /\ attempts' = [attempts EXCEPT ![n].lease = "expired"]
  /\ UNCHANGED <<run, statements, ledger, executions, active, requests, upsets>>

\* Mutant: an interrupted attempt is reported as failed.
RecoveredState_Failed == IF run.state = "CANCEL_REQUESTED" THEN "CANCELLED" ELSE "FAILED"
\* Mutant: recovery looks at the running states only.
Recoverable_Uncancelled(n) ==
  attempts[n].state = "RUNNING" /\ attempts[n].lease = "expired" /\ run.state \in Live

RecoveredState == IF run.state = "CANCEL_REQUESTED" THEN "CANCELLED" ELSE "OUTCOME_UNKNOWN"
Recoverable(n) ==
  attempts[n].state = "RUNNING" /\ attempts[n].lease = "expired" /\ run.state \in Active

\* recoverInterrupted, which every tick runs first.
Recover(n) ==
  /\ Recoverable(n) /\ run.attempt = n
  /\ CloseAttempt(n, RecoveredState, RecoveredState)
  /\ UNCHANGED <<statements, ledger, executions, active, requests, upsets>>

-----------------------------------------------------------------------------
(* executeClaimed.                                                          *)

\* The rows setAttemptAudit and the heartbeat update.
OwnsRow(n) == attempts[n].state = "RUNNING" /\ attempts[n].lease = "live"
\* Mutant: the state of the run alone is looked at, as if one attempt had it.
OwnsLiveAttempt_Run(n, states) == run.state \in states

\* ownsLiveAttempt.  The owner column adds nothing: only the process that
\* claimed the attempt knows it.
OwnsLiveAttempt(n, states) == run.state \in states /\ OwnsRow(n)

\* The provider and its policy are resolved and recorded.  A context without a
\* supported answer is completed without asking the provider.
Audit(n) ==
  /\ At(n, "audit")
  /\ \/ NoFault /\ Throw(n, "FAILED")
     \/ NoFault /\ OwnsRow(n) /\ (Go(n, "provider") \/ Go(n, "complete"))
     \/ Fault /\ Throw(n, "FAILED")
  /\ UNCHANGED <<rows, ledger, active, requests>>

\* onPartial, which an aborted execution does not pass on.
Partial(n) ==
  /\ At(n, "provider") /\ executions[n].aborted = "no"
  /\ OwnsLiveAttempt(n, Live) /\ run' = [run EXCEPT !.state = "PARTIAL"]
  /\ UNCHANGED <<attempts, statements, ledger, executions, active, requests, upsets>>

\* The provider answers, or throws what its adapter or onPartial threw.
ProviderEnds(n) ==
  /\ At(n, "provider")
  /\ \/ Go(n, "check")
     \/ \E verdict \in {"FAILED", "OUTCOME_UNKNOWN"} : Throw(n, verdict)
  /\ UNCHANGED <<rows, ledger, active, requests, upsets>>

\* heartbeatAttempt, every five seconds, on the run and the attempt.  Nothing
\* reads the flags once the failure is being recorded.
Heartbeat(n) ==
  LET lost == ~OwnsRow(n) \/ run.state \in Ends \cup {"SUCCEEDED"} IN
  /\ Executing(n) /\ ~At(n, "fail")
  /\ \/ /\ NoFault /\ run.state = "CANCEL_REQUESTED"
        /\ executions' = [executions EXCEPT ![n].aborted = "yes"]
     \/ /\ \/ Fault
           \/ NoFault /\ run.state # "CANCEL_REQUESTED" /\ lost
        /\ executions' = [executions EXCEPT ![n].aborted = "yes", ![n].leaseLost = "yes"]
  /\ UNCHANGED <<rows, ledger, active, requests>>

\* cancellationStatus: the signal, else the state of the run.
CancelRequested(n) ==
  executions[n].aborted = "yes" \/ run.state \in {"CANCEL_REQUESTED", "CANCELLED"}

\* fail is returned, not awaited: the finally block runs before it.
FailWith(n, verdict) ==
  /\ executions' = [executions EXCEPT ![n].pc = "fail", ![n].verdict = verdict]
  /\ Leave(n)

\* After the provider answered, and in the catch block: the outcome of an
\* execution that lost its lease, or that cannot tell whether it was cancelled,
\* is unknown.  Otherwise the citations are validated, or the error recorded.
Check(n) ==
  /\ At(n, "check") \/ At(n, "caught")
  /\ \/ NoFault /\ executions[n].leaseLost = "yes" /\ FailWith(n, "OUTCOME_UNKNOWN")
     \/ Fault /\ executions[n].aborted = "no" /\ FailWith(n, "OUTCOME_UNKNOWN")
     \/ /\ NoFault /\ executions[n].leaseLost = "no" /\ CancelRequested(n)
        /\ FailWith(n, "CANCELLED")
     \/ /\ NoFault /\ executions[n].leaseLost = "no" /\ ~CancelRequested(n)
        /\ \/ At(n, "check") /\ (Go(n, "complete") \/ Throw(n, "FAILED"))
           \/ At(n, "caught") /\ Go(n, "fail")
        /\ UNCHANGED active
  /\ UNCHANGED <<rows, ledger, requests>>

\* Mutant: as fail does for a cancelled execution.
StoreAnswer_Cancelled(n) ==
  /\ OwnsLiveAttempt(n, Active)
  /\ CloseAttempt(n, "SUCCEEDED", "SUCCEEDED") /\ statements' = statements \cup {n}

\* complete: the answer is stored with the end of the attempt and of the run.
StoreAnswer(n) ==
  /\ OwnsLiveAttempt(n, Live)
  /\ CloseAttempt(n, "SUCCEEDED", "SUCCEEDED") /\ statements' = statements \cup {n}

\* It refuses in silence an attempt that is no longer the worker's, and throws
\* STALE_VERSION when the knowledge the context was read from has moved, another
\* error when the answer refers to an image that is not in the context.
Complete(n) ==
  /\ At(n, "complete")
  /\ \/ NoFault /\ StoreAnswer(n) /\ End(n) /\ Leave(n)
     \/ /\ NoFault /\ ~OwnsLiveAttempt(n, Live)
        /\ UNCHANGED rows /\ End(n) /\ Leave(n)
     \/ /\ NoFault /\ OwnsLiveAttempt(n, Live)
        /\ \E verdict \in {"STALE_VERSION", "FAILED"} : Throw(n, verdict)
        /\ UNCHANGED <<rows, active>>
     \/ /\ Fault /\ \E verdict \in {"FAILED", "OUTCOME_UNKNOWN"} : Throw(n, verdict)
        /\ StoreAnswer(n) \/ UNCHANGED rows
        /\ UNCHANGED active
  /\ UNCHANGED <<ledger, requests>>

\* Mutant: an unknown outcome is run again too.
CanRequeue_Unknown(n) ==
  executions[n].verdict \in {"STALE_VERSION", "OUTCOME_UNKNOWN"} /\ n < MaxAutomatic

\* canRequeueStaleAskPublication.
CanRequeue(n) == executions[n].verdict = "STALE_VERSION" /\ n < MaxAutomatic

\* Mutant: the failure's code becomes the state.
FailState_Code(n) == executions[n].verdict

FailState(n) ==
  IF executions[n].verdict = "STALE_VERSION" THEN "FAILED" ELSE executions[n].verdict
\* fail: only a cancelled execution may end a run whose cancellation was
\* requested.  A stale one is queued again in the same transaction.
MayFail(n) == OwnsLiveAttempt(n, IF FailState(n) = "CANCELLED" THEN Active ELSE Live)
RecordFailure(n) ==
  /\ MayFail(n)
  /\ CloseAttempt(n, FailState(n), IF CanRequeue(n) THEN "QUEUED" ELSE FailState(n))
  /\ UNCHANGED statements

Fail(n) ==
  /\ At(n, "fail") /\ End(n) /\ Leave(n)
  /\ \/ (NoFault \/ Fault) /\ RecordFailure(n)
     \/ NoFault /\ ~MayFail(n) /\ UNCHANGED rows
     \/ Fault /\ UNCHANGED rows
  /\ UNCHANGED <<ledger, requests>>

-----------------------------------------------------------------------------
(* The cancel and retry commands: runAnswerCommand.                         *)

Waits(q, pc) == requests[q].pc = pc
Answered == [pc |-> "done", command |-> None]
Answer(q) == requests' = [requests EXCEPT ![q] = Answered]
Step(q, pc) == requests' = [requests EXCEPT ![q].pc = pc]
CommandOf(q) == requests[q].command
EntryOf(q) == ledger[CommandOf(q)]
SetEntry(q, state) == ledger' = [ledger EXCEPT ![CommandOf(q)].state = state]
CompleteEntry(q, n) ==
  ledger' = [ledger EXCEPT ![CommandOf(q)] = [state |-> "COMPLETED", attempt |-> n]]

\* accept inserts the command or replays its row.  A replay of a command that is
\* still ACCEPTED goes on with it; so does a readback after a lost COMMIT.
\* Without a row to read, or against a concurrent insert, the request ends.
Accept(q, c) ==
  LET admitted == requests' = [requests EXCEPT ![q] = [pc |-> "execute", command |-> c]] IN
  /\ Waits(q, "idle")
  /\ \/ /\ NoFault \/ Fault
        /\ ledger[c].state = "absent" /\ ledger' = [ledger EXCEPT ![c].state = "ACCEPTED"]
        /\ admitted
     \/ NoFault /\ ledger[c].state = "ACCEPTED" /\ UNCHANGED ledger /\ (admitted \/ Answer(q))
     \/ NoFault /\ ledger[c].state \notin {"absent", "ACCEPTED"} /\ UNCHANGED ledger /\ Answer(q)
     \/ Fault /\ UNCHANGED ledger /\ Answer(q)
  /\ UNCHANGED <<rows, executions, active>>

\* retryAndClaimWithClient.
Retry(q) ==
  /\ run.state \in Ends /\ StartAttempt(CommandOf(q))
  /\ CompleteEntry(q, run.attempt + 1)

\* Mutant: the run is marked cancelled while its attempt runs on.
RequestCancel_AtOnce(q) ==
  /\ run.state \in Active \cup {"QUEUED"} /\ run' = [run EXCEPT !.state = "CANCELLED"]
  /\ CompleteEntry(q, IF run.state = "QUEUED" THEN 0 ELSE run.attempt)
  /\ UNCHANGED <<attempts, statements>>

\* requestCancelWithClient: a queued run is cancelled at once, an active one
\* is asked to stop.
RequestCancel(q) ==
  /\ \/ /\ run.state = "QUEUED" /\ run' = [run EXCEPT !.state = "CANCELLED"]
        /\ CompleteEntry(q, 0)
     \/ /\ run.state \in Active /\ run' = [run EXCEPT !.state = "CANCEL_REQUESTED"]
        /\ CompleteEntry(q, run.attempt)
  /\ UNCHANGED <<attempts, statements>>

Act(q) == IF Kind[CommandOf(q)] = "retry" THEN Retry(q) ELSE RequestCancel(q)

\* Mutant: the accepted row is not locked and read again.
Executable_Unlocked(q) == EntryOf(q).state \in {"ACCEPTED", "COMPLETED"}

\* lockAcceptedForExecution.
Executable(q) == EntryOf(q).state = "ACCEPTED"

\* withCommandTransaction: the command's row is locked, the action applied and
\* the command completed in one transaction.  The action may refuse: the state
\* of the run, the policy or a stale context.  What was done after COMMIT is
\* left out when its acknowledgement is lost.
Apply(q) ==
  /\ Waits(q, "execute")
  /\ \/ NoFault /\ Executable(q) /\ Act(q) /\ Step(q, "afterCommit")
     \/ Fault /\ Executable(q) /\ Act(q) /\ Step(q, "unknown")
     \/ /\ UNCHANGED <<rows, ledger>>
        /\ \/ NoFault /\ EntryOf(q).state = "COMPLETED" /\ Answer(q)
           \/ NoFault /\ EntryOf(q).state # "COMPLETED" /\ Step(q, "reject")
           \/ Fault /\ (Step(q, "reject") \/ Step(q, "unknown"))
  /\ UNCHANGED <<executions, active>>

\* The callbacks of afterCommit.  A retry is executed by its process; a cancel
\* aborts the controller the process now has for the run.
AfterCommit(q) ==
  LET h == HostOf[q] IN
  /\ Waits(q, "afterCommit") /\ Answer(q)
  /\ \/ Kind[CommandOf(q)] = "retry" /\ Execute(EntryOf(q).attempt, h)
     \/ /\ Kind[CommandOf(q)] = "cancel" /\ UNCHANGED active
        /\ executions' = IF active[h] = 0 THEN executions
                          ELSE [executions EXCEPT ![active[h]].aborted = "yes"]
  /\ UNCHANGED <<rows, ledger, upsets>>

\* reject and markOutcomeUnknown change an ACCEPTED row only.
Settle(q, pc, state) ==
  /\ Waits(q, pc) /\ Answer(q)
  /\ \/ (NoFault \/ Fault) /\ EntryOf(q).state = "ACCEPTED" /\ SetEntry(q, state)
     \/ NoFault /\ EntryOf(q).state # "ACCEPTED" /\ UNCHANGED ledger
     \/ Fault /\ UNCHANGED ledger
  /\ UNCHANGED <<rows, executions, active>>

-----------------------------------------------------------------------------

\* A process dies with its calls.  Its successor has another worker id and
\* knows nothing of them.
Crash(h) ==
  /\ Fault
  /\ executions' = [n \in Numbers |->
       IF executions[n].host = h THEN [NoExecution EXCEPT !.pc = "ended"] ELSE executions[n]]
  /\ active' = [active EXCEPT ![h] = 0]
  /\ requests' = [q \in Requests |->
       IF HostOf[q] = h /\ ~Waits(q, "idle") THEN Answered ELSE requests[q]]
  /\ UNCHANGED <<rows, ledger>>

Proceed(n) == Audit(n) \/ ProviderEnds(n) \/ Check(n) \/ Complete(n) \/ Fail(n)

Command(q) ==
  \/ \E c \in Commands : Accept(q, c)
  \/ Apply(q) \/ AfterCommit(q)
  \/ Settle(q, "reject", "REJECTED") \/ Settle(q, "unknown", "OUTCOME_UNKNOWN")

Next ==
  \/ Quarantine
  \/ \E h \in Hosts : Tick(h) \/ Crash(h)
  \/ \E n \in Numbers :
       Proceed(n) \/ Partial(n) \/ Heartbeat(n) \/ LeaseExpires(n) \/ Recover(n)
  \/ \E q \in Requests : Command(q)

Spec == Init /\ [][Next]_vars

\* The heartbeat of an execution renews the lease until the execution leaves,
\* loses it or is asked to stop.
Renewed(n) ==
  /\ Executing(n) /\ ~At(n, "fail")
  /\ executions[n].leaseLost = "no" /\ run.state # "CANCEL_REQUESTED"

\* An execution goes on: the provider's calls have a timeout.  A lease that
\* nobody renews expires, and the ticks of some worker go on.
Fairness ==
  \A n \in Numbers :
    /\ WF_vars(Proceed(n)) /\ WF_vars(Recover(n))
    /\ WF_vars(~Renewed(n) /\ LeaseExpires(n))

FairSpec == Spec /\ Fairness

-----------------------------------------------------------------------------
(* Properties                                                               *)

\* Every variable has the shape of its table or of the service's maps.
TypeOK ==
  /\ run \in Run
  /\ attempts \in [Numbers -> Attempt]
  /\ statements \subseteq Numbers
  /\ ledger \in [Commands -> Entry]
  /\ executions \in [Numbers -> Execution]
  /\ active \in [Hosts -> 0..MaxAttempts]
  /\ requests \in [Requests -> Request]
  /\ upsets \in 0..MaxUpsets

\* The run is active exactly while its newest attempt runs, and no other attempt
\* does: whoever ends one, ends both.
OneLiveAttempt ==
  \A n \in Numbers :
    attempts[n].state = "RUNNING" <=> n = run.attempt /\ run.state \in Active

\* A run has one answer, that of its last attempt, if it succeeded, and none
\* otherwise, whatever an earlier attempt's worker still does.
AnswerIsTheRuns ==
  statements = IF run.state = "SUCCEEDED" THEN {run.attempt} ELSE {}

\* What was answered stays: no retry, cancel, failure or recovery follows.
AnswerIsFinal == [][statements # {} => UNCHANGED rows]_vars

\* A completed cancel is kept: the attempt it was to stop is still being stopped
\* or ended as cancelled, and never answers.
CancelIsKept ==
  \A c \in Commands :
    LET n == ledger[c].attempt IN
    Kind[c] = "cancel" /\ n # 0 =>
      \/ attempts[n].state = "RUNNING" /\ run.state = "CANCEL_REQUESTED"
      \/ attempts[n].state = "CANCELLED"

\* However often a retry is sent, whatever acknowledgement is lost: it starts
\* one attempt if its command is completed, and none otherwise (ADR-123).
CommandActsOnce ==
  \A c \in Commands :
    {n \in Numbers : attempts[n].by = c}
      = IF Kind[c] = "retry" /\ ledger[c].state = "COMPLETED" THEN {ledger[c].attempt} ELSE {}

\* A failed attempt has left the provider: the retry that may follow is the only
\* call that is made.
FailedIsOver ==
  \A n \in Numbers :
    attempts[n].state = "FAILED" => ~At(n, "provider") /\ ~At(n, "audit")

\* The worker runs a run again by itself only after a known failure, and a
\* bounded number of times; an unknown outcome waits for the user.
AutomaticRerunsAreKnown ==
  [][ledger' = ledger /\ run'.attempt > run.attempt =>
       \/ run.attempt = 0
       \/ attempts[run.attempt].state = "FAILED" /\ run.attempt < MaxAutomatic]_vars

\* No run stays active: the execution of its attempt ends it, or the lease
\* expires and recovery does, after a crash, a lost claim or a cancellation that
\* overtook the failure of the execution.
RunSettles == run.state \in Active ~> run.state \notin Active
=============================================================================
