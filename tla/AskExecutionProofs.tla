------------------------- MODULE AskExecutionProofs -------------------------
(* Theorems about AskExecution, for any number of processes, commands,      *)
(* requests and attempts, and any number of failures and crashes.           *)
EXTENDS AskExecution, TLAPS

-----------------------------------------------------------------------------
(* Part 1: what a step does to the rows of the run and to the ledger        *)

LEMMA Literals ==
  /\ Live = {"RUNNING", "PARTIAL"}
  /\ Active = {"RUNNING", "PARTIAL", "CANCEL_REQUESTED"}
  /\ Ends = {"FAILED", "CANCELLED", "OUTCOME_UNKNOWN"}
  /\ RunStates = {"QUEUED", "SUCCEEDED", "RUNNING", "PARTIAL", "CANCEL_REQUESTED",
                  "FAILED", "CANCELLED", "OUTCOME_UNKNOWN"}
  /\ AttemptStates = {"absent", "RUNNING", "SUCCEEDED", "FAILED", "CANCELLED",
                      "OUTCOME_UNKNOWN"}
  /\ Verdicts = {"none", "STALE_VERSION", "FAILED", "CANCELLED", "OUTCOME_UNKNOWN"}
BY DEF Live, Active, Ends, RunStates, AttemptStates, Verdicts

\* An execution that throws knows why, and a request under way its command.
VerdictKnown == \A n \in Numbers : At(n, "caught") \/ At(n, "fail") => executions[n].verdict # "none"
CommandKnown == \A q \in Requests : requests[q].pc \notin {"idle", "done"} => CommandOf(q) \in Commands

\* The new attempt is claimed by a tick, or by a retry that completes its command.
Starts ==
  \/ run.state = "QUEUED" /\ StartAttempt(None) /\ UNCHANGED ledger
  \/ \E q \in Requests :
       /\ CommandOf(q) \in Commands /\ Kind[CommandOf(q)] = "retry" /\ Executable(q)
       /\ Waits(q, "execute") /\ Retry(q)

\* The state of the run moves without an attempt.
Touches ==
  /\ UNCHANGED <<attempts, statements>>
  /\ \/ run.state = "QUEUED" /\ run' = [run EXCEPT !.state = "FAILED"] /\ UNCHANGED ledger
     \/ run.state \in Live /\ run' = [run EXCEPT !.state = "PARTIAL"] /\ UNCHANGED ledger
     \/ \E q \in Requests :
          /\ CommandOf(q) \in Commands /\ Kind[CommandOf(q)] = "cancel" /\ Executable(q)
          /\ RequestCancel(q)

\* The running attempt ends, and the run with it.
Closes(n) ==
  /\ attempts[n].state = "RUNNING" /\ run.state \in Active /\ UNCHANGED ledger
  /\ \/ /\ run.state \in Live /\ CloseAttempt(n, "SUCCEEDED", "SUCCEEDED")
        /\ statements' = statements \cup {n}
     \/ /\ UNCHANGED statements
        /\ \E s \in Ends :
             /\ run.state = "CANCEL_REQUESTED" => s = "CANCELLED"
             /\ s = "FAILED" => Fail(n)
             /\ \/ CloseAttempt(n, s, s)
                \/ s = "FAILED" /\ n < MaxAutomatic /\ CloseAttempt(n, s, "QUEUED")

\* The rows stay as they are, but for a lease that expires; an open command may
\* be settled.
Stays ==
  /\ UNCHANGED <<run, statements>>
  /\ \/ UNCHANGED attempts
     \/ \E n \in Numbers : attempts' = [attempts EXCEPT ![n].lease = "expired"]
                           /\ attempts[n].state = "RUNNING"
  /\ \/ UNCHANGED ledger
     \/ \E c \in Commands, s \in {"ACCEPTED", "REJECTED", "OUTCOME_UNKNOWN"} :
          /\ ledger[c].state \in {"absent", "ACCEPTED"}
          /\ ledger' = [ledger EXCEPT ![c].state = s]

RowsMove == Starts \/ Touches \/ Stays \/ \E n \in Numbers : Closes(n)

\* An execution writes its answer or its failure, or nothing.
LEMMA FailCloses ==
  ASSUME TypeOK, VerdictKnown, NEW n \in Numbers, Fail(n)
  PROVE  Stays \/ Closes(n)
<1>1. CASE RecordFailure(n)
  <2>1. executions[n].verdict \in Verdicts /\ executions[n].verdict # "none"
    BY DEF Fail, VerdictKnown, TypeOK, Execution
  <2>2. FailState(n) \in Ends
    BY <2>1, Literals DEF FailState
  <2>3. attempts[n].state = "RUNNING" /\ run.state \in Active
    BY <1>1, Literals DEF RecordFailure, MayFail, OwnsLiveAttempt, OwnsRow
  <2>4. run.state = "CANCEL_REQUESTED" => FailState(n) = "CANCELLED"
    BY <1>1, Literals DEF RecordFailure, MayFail, OwnsLiveAttempt
  <2>5. CanRequeue(n) => FailState(n) = "FAILED" /\ n < MaxAutomatic
    BY DEF CanRequeue, FailState
  <2>6. UNCHANGED <<ledger, statements>>
    BY <1>1 DEF Fail, RecordFailure
  <2>7. \/ CloseAttempt(n, FailState(n), FailState(n))
        \/ /\ FailState(n) = "FAILED" /\ n < MaxAutomatic
           /\ CloseAttempt(n, FailState(n), "QUEUED")
    BY <1>1, <2>5 DEF RecordFailure
  <2> QED
    BY <2>2, <2>3, <2>4, <2>6, <2>7 DEF Closes
<1>2. CASE ~RecordFailure(n)
  BY <1>2 DEF Fail, Stays, rows
<1> QED
  BY <1>1, <1>2

LEMMA RecoverCloses ==
  ASSUME TypeOK, NEW n \in Numbers, Recover(n)
  PROVE  Closes(n)
<1>1. RecoveredState \in Ends /\ RecoveredState # "FAILED"
  BY Literals DEF RecoveredState
<1>2. run.state = "CANCEL_REQUESTED" => RecoveredState = "CANCELLED"
  BY DEF RecoveredState
<1> QED
  BY <1>1, <1>2 DEF Recover, Recoverable, Closes

LEMMA CompleteCloses ==
  ASSUME NEW n \in Numbers, Complete(n)
  PROVE  Stays \/ Closes(n)
<1>1. CASE StoreAnswer(n)
  BY <1>1, Literals DEF Complete, StoreAnswer, OwnsLiveAttempt, OwnsRow, Closes
<1>2. CASE ~StoreAnswer(n)
  BY <1>2 DEF Complete, Stays, rows
<1> QED
  BY <1>1, <1>2

LEMMA CommandMoves ==
  ASSUME TypeOK, CommandKnown, NEW q \in Requests, Command(q)
  PROVE  Starts \/ Touches \/ Stays
<1>1. ASSUME NEW c \in Commands, Accept(q, c) PROVE Stays
  BY <1>1 DEF Accept, Stays, rows
<1>2. CASE Apply(q)
  <2>1. CommandOf(q) \in Commands
    BY <1>2 DEF Apply, Waits, CommandKnown
  <2>2. Kind[CommandOf(q)] \in {"retry", "cancel"}
    BY <2>1, KindAssumption
  <2>3. CASE Executable(q) /\ Act(q)
    BY <1>2, <2>1, <2>2, <2>3 DEF Apply, Act, Starts, Touches, RequestCancel
  <2>4. CASE UNCHANGED <<rows, ledger>>
    BY <2>4 DEF Stays, rows
  <2> QED
    BY <1>2, <2>3, <2>4 DEF Apply
<1>3. CASE AfterCommit(q)
  BY <1>3 DEF AfterCommit, Stays, rows
<1>4. CASE Settle(q, "reject", "REJECTED") \/ Settle(q, "unknown", "OUTCOME_UNKNOWN")
  <2>1. CommandOf(q) \in Commands
    BY <1>4 DEF Settle, Waits, CommandKnown
  <2> QED
    BY <1>4, <2>1 DEF Settle, SetEntry, EntryOf, Stays, rows
<1> QED
  BY <1>1, <1>2, <1>3, <1>4 DEF Command

LEMMA NextMovesRows ==
  ASSUME TypeOK, VerdictKnown, CommandKnown, [Next]_vars
  PROVE  RowsMove
<1>1. CASE Quarantine
  BY <1>1 DEF Quarantine, Touches, RowsMove
<1>2. ASSUME NEW h \in Hosts, Tick(h) \/ Crash(h) PROVE RowsMove
  BY <1>2 DEF Tick, Crash, Starts, Stays, RowsMove, rows
<1>3. ASSUME NEW n \in Numbers, Audit(n) \/ ProviderEnds(n) \/ Check(n) \/ Heartbeat(n)
      PROVE  RowsMove
  BY <1>3 DEF Audit, ProviderEnds, Check, Heartbeat, Stays, RowsMove, rows
<1>4. ASSUME NEW n \in Numbers, Partial(n) PROVE RowsMove
  BY <1>4 DEF Partial, OwnsLiveAttempt, Touches, RowsMove
<1>5. ASSUME NEW n \in Numbers, LeaseExpires(n) PROVE RowsMove
  BY <1>5 DEF LeaseExpires, Stays, RowsMove
<1>6. ASSUME NEW n \in Numbers, Complete(n) \/ Fail(n) \/ Recover(n) PROVE RowsMove
  BY <1>6, CompleteCloses, FailCloses, RecoverCloses DEF RowsMove
<1>7. ASSUME NEW q \in Requests, Command(q) PROVE RowsMove
  BY <1>7, CommandMoves DEF RowsMove
<1>8. CASE UNCHANGED vars
  BY <1>8 DEF vars, Stays, RowsMove
<1> QED
  BY <1>1, <1>2, <1>3, <1>4, <1>5, <1>6, <1>7, <1>8 DEF Next, Proceed

-----------------------------------------------------------------------------
(* Part 2: the type invariant                                               *)

TypedRows == /\ run \in Run /\ attempts \in [Numbers -> Attempt]
             /\ statements \subseteq Numbers /\ ledger \in [Commands -> Entry]

LEMMA StartTypes ==
  ASSUME TypedRows, NEW command \in Commands \cup {None}, StartAttempt(command)
  PROVE  /\ run' \in Run /\ attempts' \in [Numbers -> Attempt] /\ statements' \subseteq Numbers
         /\ run.attempt + 1 \in Numbers
<1> DEFINE n == run.attempt + 1
           row == [state |-> "RUNNING", lease |-> "live", by |-> command]
<1>1. n \in Numbers /\ run' = [state |-> "RUNNING", attempt |-> n]
      /\ attempts' = [attempts EXCEPT ![n] = row] /\ statements' = statements
  BY DEF StartAttempt
<1>2. row \in Attempt
  BY Literals DEF Attempt
<1>3. attempts' \in [Numbers -> Attempt]
  <2> HIDE DEF row, n
  <2> QED
    BY <1>1, <1>2, Zenon DEF TypedRows
<1>4. n \in 0..MaxAttempts
  BY <1>1 DEF Numbers
<1>5. run' \in Run
  BY <1>1, <1>4, Literals DEF Run
<1> QED
  BY <1>1, <1>3, <1>5 DEF TypedRows

LEMMA RunStateTypes ==
  ASSUME run \in Run, NEW s \in RunStates, run' = [run EXCEPT !.state = s]
  PROVE  run' \in Run /\ run'.state = s /\ run'.attempt = run.attempt
BY DEF Run

LEMMA EntryTypes ==
  ASSUME TypedRows, NEW c \in Commands, NEW n \in 0..MaxAttempts,
         ledger' = [ledger EXCEPT ![c] = [state |-> "COMPLETED", attempt |-> n]]
  PROVE  ledger' \in [Commands -> Entry]
<1>1. [state |-> "COMPLETED", attempt |-> n] \in Entry
  BY DEF Entry, LedgerStates
<1> QED
  BY <1>1, Zenon DEF TypedRows

LEMMA CloseTypes ==
  ASSUME TypedRows, NEW n \in Numbers, NEW s \in AttemptStates, NEW t \in RunStates,
         CloseAttempt(n, s, t)
  PROVE  run' \in Run /\ attempts' \in [Numbers -> Attempt]
<1>1. attempts' = [attempts EXCEPT ![n].state = s, ![n].lease = "none"]
  BY DEF CloseAttempt
<1>2. "none" \in {"none", "live", "expired"}
  OBVIOUS
<1>3. attempts' \in [Numbers -> Attempt]
  BY <1>1, <1>2, Zenon DEF TypedRows, Attempt
<1> QED
  BY <1>3, RunStateTypes DEF CloseAttempt, TypedRows

LEMMA RowsMoveTypes ==
  ASSUME TypedRows, RowsMove
  PROVE  TypedRows'
<1>1. CASE Starts
  <2>1. CASE run.state = "QUEUED" /\ StartAttempt(None) /\ UNCHANGED ledger
    BY <2>1, StartTypes DEF TypedRows
  <2>2. ASSUME NEW q \in Requests, CommandOf(q) \in Commands, Retry(q) PROVE TypedRows'
    <3>1. /\ StartAttempt(CommandOf(q))
          /\ ledger' = [ledger EXCEPT ![CommandOf(q)] =
                          [state |-> "COMPLETED", attempt |-> run.attempt + 1]]
      BY <2>2 DEF Retry, CompleteEntry
    <3>2. /\ run' \in Run /\ attempts' \in [Numbers -> Attempt] /\ statements' \subseteq Numbers
          /\ run.attempt + 1 \in Numbers
      BY <2>2, <3>1, StartTypes
    <3>3. run.attempt + 1 \in 0..MaxAttempts
      BY <3>2 DEF Numbers
    <3>4. ledger' \in [Commands -> Entry]
      BY <2>2, <3>1, <3>3, EntryTypes
    <3> QED
      BY <3>2, <3>4 DEF TypedRows
  <2> QED
    BY <1>1, <2>1, <2>2 DEF Starts
<1>2. CASE Touches
  <2>1. ASSUME NEW s \in {"FAILED", "PARTIAL"}, run' = [run EXCEPT !.state = s],
               UNCHANGED <<attempts, statements, ledger>>
        PROVE  TypedRows'
    BY <2>1, RunStateTypes, Literals DEF TypedRows
  <2>2. ASSUME NEW q \in Requests, CommandOf(q) \in Commands, RequestCancel(q) PROVE TypedRows'
    <3>1. run.attempt \in 0..MaxAttempts /\ 0 \in 0..MaxAttempts
      BY AttemptsAssumption DEF TypedRows, Run
    <3>2. ledger' \in [Commands -> Entry]
      BY <2>2, <3>1, EntryTypes DEF RequestCancel, CompleteEntry
    <3>3. run' \in Run
      BY <2>2, RunStateTypes, Literals DEF RequestCancel, TypedRows
    <3> QED
      BY <2>2, <3>2, <3>3 DEF RequestCancel, TypedRows
  <2> QED
    BY <1>2, <2>1, <2>2 DEF Touches
<1>3. CASE Stays
  <2>2. ASSUME NEW n \in Numbers, attempts' = [attempts EXCEPT ![n].lease = "expired"]
        PROVE  attempts' \in [Numbers -> Attempt]
    BY <2>2, Zenon DEF TypedRows, Attempt
  <2>3. attempts' \in [Numbers -> Attempt]
    BY <1>3, <2>2 DEF Stays, TypedRows
  <2>4. ASSUME NEW c \in Commands, NEW s \in {"ACCEPTED", "REJECTED", "OUTCOME_UNKNOWN"},
               ledger' = [ledger EXCEPT ![c].state = s]
        PROVE  ledger' \in [Commands -> Entry]
    <3>1. s \in LedgerStates
      BY DEF LedgerStates
    <3> QED
      BY <2>4, <3>1, Zenon DEF TypedRows, Entry
  <2>5. ledger' \in [Commands -> Entry]
    BY <1>3, <2>4 DEF Stays, TypedRows
  <2> QED
    BY <1>3, <2>3, <2>5 DEF Stays, TypedRows
<1>4. ASSUME NEW n \in Numbers, Closes(n) PROVE TypedRows'
  <2>1. CASE CloseAttempt(n, "SUCCEEDED", "SUCCEEDED") /\ statements' = statements \cup {n}
    <3>1. run' \in Run /\ attempts' \in [Numbers -> Attempt]
      BY <2>1, CloseTypes, Literals
    <3> QED
      BY <1>4, <2>1, <3>1 DEF Closes, TypedRows
  <2>2. ASSUME NEW s \in Ends, NEW t \in {s, "QUEUED"}, CloseAttempt(n, s, t),
               UNCHANGED statements
        PROVE  TypedRows'
    <3>1. s \in AttemptStates /\ t \in RunStates
      BY Literals
    <3>2. run' \in Run /\ attempts' \in [Numbers -> Attempt]
      BY <2>2, <3>1, CloseTypes
    <3> QED
      BY <1>4, <2>2, <3>2 DEF Closes, TypedRows
  <2> QED
    BY <1>4, <2>1, <2>2 DEF Closes
<1> QED
  BY <1>1, <1>2, <1>3, <1>4 DEF RowsMove

\* The calls of the service and of the routes.
TypedCalls == /\ executions \in [Numbers -> Execution] /\ active \in [Hosts -> 0..MaxAttempts]
              /\ requests \in [Requests -> Request] /\ upsets \in 0..MaxUpsets
KnownCalls == VerdictKnown /\ CommandKnown

LEMMA GoTypes ==
  ASSUME executions \in [Numbers -> Execution], VerdictKnown,
         NEW n \in Numbers, NEW pc \in Pcs, Go(n, pc),
         pc \in {"caught", "fail"} => At(n, "caught") \/ At(n, "fail")
  PROVE  executions' \in [Numbers -> Execution] /\ VerdictKnown'
<1>1. executions' = [executions EXCEPT ![n].pc = pc]
  BY DEF Go
<1>2. executions' \in [Numbers -> Execution]
  BY <1>1, Zenon DEF Execution
<1>3. \A m \in Numbers : executions'[m].verdict = executions[m].verdict
                         /\ executions'[m].pc = IF m = n THEN pc ELSE executions[m].pc
  BY <1>1 DEF Execution
<1> QED
  BY <1>2, <1>3 DEF VerdictKnown, At

LEMMA ThrowTypes ==
  ASSUME executions \in [Numbers -> Execution], VerdictKnown,
         NEW n \in Numbers, NEW pc \in Pcs, NEW verdict \in Verdicts \ {"none"},
         executions' = [executions EXCEPT ![n].pc = pc, ![n].verdict = verdict]
  PROVE  executions' \in [Numbers -> Execution] /\ VerdictKnown'
<1>1. executions' \in [Numbers -> Execution]
  BY Zenon DEF Execution
<1>2. \A m \in Numbers : m # n => executions'[m] = executions[m]
  OBVIOUS
<1>3. executions'[n].verdict = verdict
  BY DEF Execution
<1> QED
  BY <1>1, <1>2, <1>3 DEF VerdictKnown, At

LEMMA NoExecutionType ==
  /\ NoExecution \in Execution
  /\ \A h \in Hosts : [NoExecution EXCEPT !.pc = "audit", !.host = h] \in Execution
  /\ \A h \in Hosts : [NoExecution EXCEPT !.pc = "audit", !.host = h].pc = "audit"
  /\ [NoExecution EXCEPT !.pc = "ended"] \in Execution
  /\ [NoExecution EXCEPT !.pc = "ended"].pc = "ended"
<1>1. NoExecution \in Execution
  BY DEF NoExecution, Execution, Pcs, Flags, Verdicts
<1>2. "audit" \in Pcs /\ "ended" \in Pcs
  BY DEF Pcs
<1> QED
  BY <1>1, <1>2 DEF Execution

LEMMA SetTypes ==
  ASSUME executions \in [Numbers -> Execution], VerdictKnown,
         NEW n \in Numbers, NEW e \in Execution, e.pc \notin {"caught", "fail"},
         executions' = [executions EXCEPT ![n] = e]
  PROVE  executions' \in [Numbers -> Execution] /\ VerdictKnown'
<1>1. executions' \in [Numbers -> Execution]
  BY Zenon
<1>2. \A m \in Numbers : m # n => executions'[m] = executions[m]
  OBVIOUS
<1>3. executions'[n].pc \notin {"caught", "fail"}
  OBVIOUS
<1> QED
  BY <1>1, <1>2, <1>3 DEF VerdictKnown, At

LEMMA EndTypes ==
  ASSUME executions \in [Numbers -> Execution], VerdictKnown, NEW n \in Numbers, End(n)
  PROVE  executions' \in [Numbers -> Execution] /\ VerdictKnown'
<1> DEFINE e == [NoExecution EXCEPT !.pc = "ended"]
<1>1. e \in Execution /\ e.pc \notin {"caught", "fail"}
  BY NoExecutionType
<1>2. executions' = [executions EXCEPT ![n] = e]
  BY DEF End
<1> HIDE DEF e
<1> QED
  BY <1>1, <1>2, SetTypes

LEMMA ExecuteTypes ==
  ASSUME TypedCalls, VerdictKnown, NEW n \in Numbers, NEW h \in Hosts, Execute(n, h)
  PROVE  /\ executions' \in [Numbers -> Execution] /\ VerdictKnown'
         /\ active' \in [Hosts -> 0..MaxAttempts]
<1> DEFINE e == [NoExecution EXCEPT !.pc = "audit", !.host = h]
<1>1. e \in Execution /\ e.pc \notin {"caught", "fail"}
  BY NoExecutionType
<1>2. executions' = [executions EXCEPT ![n] = e] /\ active' = [active EXCEPT ![h] = n]
  BY DEF Execute
<1>3. n \in 0..MaxAttempts
  BY DEF Numbers
<1> HIDE DEF e
<1>4. executions' \in [Numbers -> Execution] /\ VerdictKnown'
  BY <1>1, <1>2, SetTypes DEF TypedCalls
<1> QED
  BY <1>2, <1>3, <1>4 DEF TypedCalls

LEMMA LeaveTypes ==
  ASSUME TypedCalls, NEW n \in Numbers, Leave(n)
  PROVE  active' \in [Hosts -> 0..MaxAttempts]
<1>1. 0 \in 0..MaxAttempts
  BY AttemptsAssumption
<1> QED
  BY <1>1 DEF TypedCalls, Leave

LEMMA UpsetTypes ==
  ASSUME upsets \in 0..MaxUpsets, Fault \/ NoFault
  PROVE  upsets' \in 0..MaxUpsets
BY BoundsAssumption DEF Fault, NoFault

LEMMA ProceedTypes ==
  ASSUME TypedCalls, KnownCalls, NEW n \in Numbers,
         Proceed(n) \/ Partial(n) \/ Heartbeat(n) \/ LeaseExpires(n) \/ Recover(n)
  PROVE  TypedCalls' /\ KnownCalls'
<1>1. executions \in [Numbers -> Execution] /\ VerdictKnown
  BY DEF TypedCalls, KnownCalls
<1>2. UNCHANGED requests
  BY DEF Proceed, Audit, ProviderEnds, Check, Complete, Fail, Partial, Heartbeat,
     LeaseExpires, Recover
<1>3. requests' \in [Requests -> Request] /\ CommandKnown'
  BY <1>2 DEF TypedCalls, KnownCalls, CommandKnown, CommandOf
<1>4. upsets' \in 0..MaxUpsets
  <2>1. Fault \/ NoFault
    BY DEF Proceed, Audit, ProviderEnds, Check, Complete, Fail, Partial, Heartbeat,
       LeaseExpires, Recover, NoFault
  <2> QED
    BY <2>1, UpsetTypes DEF TypedCalls
<1>5. active' \in [Hosts -> 0..MaxAttempts]
  <2>1. UNCHANGED active \/ Leave(n)
    BY DEF Proceed, Audit, ProviderEnds, Check, FailWith, Complete, Fail, Partial, Heartbeat,
       LeaseExpires, Recover
  <2> QED
    BY <2>1, LeaveTypes DEF TypedCalls
<1> DEFINE Goal == executions' \in [Numbers -> Execution] /\ VerdictKnown'
<1>6. ASSUME Audit(n) \/ ProviderEnds(n) PROVE Goal
  <2>1. \/ \E pc \in {"provider", "complete", "check"} : Go(n, pc)
        \/ \E verdict \in {"FAILED", "OUTCOME_UNKNOWN"} : Throw(n, verdict)
    BY <1>6 DEF Audit, ProviderEnds
  <2>2. \A pc \in {"provider", "complete", "check"} : pc \in Pcs /\ pc \notin {"caught", "fail"}
    BY DEF Pcs
  <2>3. "caught" \in Pcs /\ {"FAILED", "OUTCOME_UNKNOWN"} \subseteq Verdicts \ {"none"}
    BY Literals DEF Pcs
  <2> QED
    BY <1>1, <2>1, <2>2, <2>3, GoTypes, ThrowTypes DEF Throw
<1>7. ASSUME Check(n) PROVE Goal
  <2>1. \/ \E verdict \in {"OUTCOME_UNKNOWN", "CANCELLED"} : FailWith(n, verdict)
        \/ Go(n, "complete") \/ Throw(n, "FAILED")
        \/ At(n, "caught") /\ Go(n, "fail")
    BY <1>7 DEF Check
  <2>2. /\ {"caught", "fail", "complete"} \subseteq Pcs
        /\ {"OUTCOME_UNKNOWN", "CANCELLED", "FAILED"} \subseteq Verdicts \ {"none"}
    BY Literals DEF Pcs
  <2>3. ASSUME NEW verdict \in {"OUTCOME_UNKNOWN", "CANCELLED"}, FailWith(n, verdict)
        PROVE  Goal
    BY <1>1, <2>2, <2>3, ThrowTypes DEF FailWith
  <2>4. CASE Go(n, "complete")
    BY <1>1, <2>2, <2>4, GoTypes
  <2>6. CASE At(n, "caught") /\ Go(n, "fail")
    BY <1>1, <2>2, <2>6, GoTypes
  <2>5. CASE Throw(n, "FAILED")
    BY <1>1, <2>2, <2>5, ThrowTypes DEF Throw
  <2> QED
    BY <2>1, <2>3, <2>4, <2>5, <2>6, Zenon
<1>8. ASSUME Complete(n) PROVE Goal
  <2>1. End(n) \/ \E verdict \in {"STALE_VERSION", "FAILED", "OUTCOME_UNKNOWN"} : Throw(n, verdict)
    BY <1>8 DEF Complete
  <2>2. /\ "caught" \in Pcs
        /\ {"STALE_VERSION", "FAILED", "OUTCOME_UNKNOWN"} \subseteq Verdicts \ {"none"}
    BY Literals DEF Pcs
  <2> QED
    BY <1>1, <2>1, <2>2, ThrowTypes, EndTypes DEF Throw
<1>9. ASSUME Fail(n) PROVE Goal
  BY <1>1, <1>9, EndTypes DEF Fail
<1>10. ASSUME Heartbeat(n) PROVE Goal
  <2>1. \/ executions' = [executions EXCEPT ![n].aborted = "yes"]
        \/ executions' = [executions EXCEPT ![n].aborted = "yes", ![n].leaseLost = "yes"]
    BY <1>10 DEF Heartbeat
  <2>2. "yes" \in Flags
    BY DEF Flags
  <2>3. executions' \in [Numbers -> Execution]
    <3>1. CASE executions' = [executions EXCEPT ![n].aborted = "yes"]
      BY <1>1, <2>2, <3>1, Zenon DEF Execution
    <3>2. CASE executions' = [executions EXCEPT ![n].aborted = "yes", ![n].leaseLost = "yes"]
      BY <1>1, <2>2, <3>2, Zenon DEF Execution
    <3> QED
      BY <2>1, <3>1, <3>2
  <2>4. \A m \in Numbers : executions'[m].pc = executions[m].pc
                           /\ executions'[m].verdict = executions[m].verdict
    BY <1>1, <2>1 DEF Execution
  <2> QED
    BY <1>1, <2>3, <2>4 DEF VerdictKnown, At
<1>11. ASSUME Partial(n) \/ LeaseExpires(n) \/ Recover(n) PROVE Goal
  BY <1>1, <1>11 DEF Partial, LeaseExpires, Recover, VerdictKnown, At
<1>12. Goal
  BY <1>6, <1>7, <1>8, <1>9, <1>10, <1>11 DEF Proceed
<1> QED
  BY <1>3, <1>4, <1>5, <1>12 DEF TypedCalls, KnownCalls

\* A new attempt is in Numbers once its command is completed.
Produced == \A c \in Commands :
  Kind[c] = "retry" /\ ledger[c].state = "COMPLETED" => ledger[c].attempt \in Numbers
Delivered == \A q \in Requests : Waits(q, "afterCommit") => EntryOf(q).state = "COMPLETED"

LEMMA RequestTypes ==
  ASSUME requests \in [Requests -> Request], NEW q \in Requests, CommandKnown,
         NEW r \in Request, r.pc \notin {"idle", "done"} => r.command \in Commands,
         requests' = [requests EXCEPT ![q] = r]
  PROVE  requests' \in [Requests -> Request] /\ CommandKnown'
<1>1. requests' \in [Requests -> Request]
  BY Zenon
<1>2. requests'[q] = r /\ \A p \in Requests : p # q => requests'[p] = requests[p]
  OBVIOUS
<1> QED
  BY <1>1, <1>2 DEF CommandKnown, CommandOf

LEMMA CommandTypes ==
  ASSUME TypedCalls, KnownCalls, TypedRows, Produced, Delivered,
         NEW q \in Requests, Command(q)
  PROVE  TypedCalls' /\ KnownCalls'
<1>1. /\ executions \in [Numbers -> Execution] /\ VerdictKnown
      /\ requests \in [Requests -> Request] /\ CommandKnown
  BY DEF TypedCalls, KnownCalls
<1>2. upsets' \in 0..MaxUpsets
  <2>1. Fault \/ NoFault
    BY DEF Command, Accept, Apply, AfterCommit, Settle, NoFault
  <2> QED
    BY <2>1, UpsetTypes DEF TypedCalls
<1>3. Answered \in Request /\ Answered.pc \in {"idle", "done"}
  BY DEF Answered, Request
<1>4. \A c \in Commands : [pc |-> "execute", command |-> c] \in Request
  BY DEF Request
<1>5. ASSUME NEW pc \in {"afterCommit", "unknown", "reject"}, Waits(q, "execute"), Step(q, pc)
      PROVE  requests' \in [Requests -> Request] /\ CommandKnown'
  <2>1. [requests[q] EXCEPT !.pc = pc] \in Request
        /\ [requests[q] EXCEPT !.pc = pc].command = CommandOf(q)
    BY <1>1 DEF Request, CommandOf
  <2>2. CommandOf(q) \in Commands
    BY <1>1, <1>5 DEF CommandKnown, Waits
  <2>3. requests' = [requests EXCEPT ![q] = [requests[q] EXCEPT !.pc = pc]]
    BY <1>5 DEF Step
  <2> DEFINE r == [requests[q] EXCEPT !.pc = pc]
  <2> HIDE DEF r
  <2> QED
    BY <1>1, <2>1, <2>2, <2>3, RequestTypes DEF r
<1>6. ASSUME Answer(q) PROVE requests' \in [Requests -> Request] /\ CommandKnown'
  BY <1>1, <1>3, <1>6, RequestTypes DEF Answer
<1>7. requests' \in [Requests -> Request] /\ CommandKnown'
  <2>1. ASSUME NEW c \in Commands, Accept(q, c)
        PROVE  requests' \in [Requests -> Request] /\ CommandKnown'
    <3>1. CASE Answer(q)
      BY <1>6, <3>1
    <3>2. CASE requests' = [requests EXCEPT ![q] = [pc |-> "execute", command |-> c]]
      BY <1>1, <1>4, <3>2, RequestTypes
    <3> QED
      BY <2>1, <3>1, <3>2 DEF Accept
  <2>2. CASE Apply(q)
    BY <1>5, <1>6, <2>2 DEF Apply
  <2>3. CASE \/ AfterCommit(q)
             \/ Settle(q, "reject", "REJECTED") \/ Settle(q, "unknown", "OUTCOME_UNKNOWN")
    BY <1>6, <2>3 DEF AfterCommit, Settle
  <2> QED
    BY <2>1, <2>2, <2>3 DEF Command
<1>8. /\ executions' \in [Numbers -> Execution] /\ VerdictKnown'
      /\ active' \in [Hosts -> 0..MaxAttempts]
  <2>1. CASE UNCHANGED <<executions, active>>
    BY <1>1, <2>1 DEF TypedCalls, VerdictKnown, At
  <2>2. CASE AfterCommit(q)
    <3>1. CommandOf(q) \in Commands /\ EntryOf(q).state = "COMPLETED" /\ HostOf[q] \in Hosts
      BY <1>1, <2>2, HostOfAssumption DEF AfterCommit, Waits, CommandKnown, Delivered
    <3>2. CASE Kind[CommandOf(q)] = "retry" /\ Execute(EntryOf(q).attempt, HostOf[q])
      <4>1. EntryOf(q).attempt \in Numbers
        BY <3>1, <3>2 DEF Produced, EntryOf
      <4> QED
        BY <1>1, <3>1, <3>2, <4>1, ExecuteTypes
    <3>3. CASE UNCHANGED active /\ executions' = [executions EXCEPT ![active[HostOf[q]]].aborted = "yes"]
               /\ active[HostOf[q]] # 0
      <4>1. active[HostOf[q]] \in Numbers
        BY <3>1, <3>3 DEF TypedCalls, Numbers
      <4>2. "yes" \in Flags
        BY DEF Flags
      <4> DEFINE n == active[HostOf[q]]
      <4> HIDE DEF n
      <4>3. executions' = [executions EXCEPT ![n].aborted = "yes"] /\ n \in Numbers
        BY <3>3, <4>1 DEF n
      <4>4. executions' \in [Numbers -> Execution]
        BY <1>1, <4>2, <4>3, Zenon DEF Execution
      <4>5. \A m \in Numbers : executions'[m].pc = executions[m].pc
                               /\ executions'[m].verdict = executions[m].verdict
        BY <1>1, <4>3 DEF Execution
      <4> QED
        BY <1>1, <3>3, <4>4, <4>5 DEF VerdictKnown, At, TypedCalls
    <3>4. CASE UNCHANGED <<executions, active>>
      BY <2>1, <3>4
    <3> QED
      BY <2>2, <3>2, <3>3, <3>4 DEF AfterCommit
  <2> QED
    BY <2>1, <2>2 DEF Command, Accept, Apply, Settle
<1> QED
  BY <1>2, <1>7, <1>8 DEF TypedCalls, KnownCalls

LEMMA TickTypes ==
  ASSUME TypedCalls, KnownCalls, TypedRows, NEW h \in Hosts, Tick(h)
  PROVE  TypedCalls' /\ KnownCalls'
<1>1. run.attempt + 1 \in Numbers
  BY DEF Tick, StartAttempt
<1>2. /\ requests' \in [Requests -> Request] /\ CommandKnown'
  BY DEF Tick, TypedCalls, KnownCalls, CommandKnown, CommandOf
<1>3. upsets' \in 0..MaxUpsets
  BY UpsetTypes DEF Tick, TypedCalls
<1>4. CASE Execute(run.attempt + 1, h)
  BY <1>1, <1>2, <1>3, <1>4, ExecuteTypes DEF TypedCalls, KnownCalls
<1>5. CASE UNCHANGED <<executions, active>>
  BY <1>2, <1>3, <1>5 DEF TypedCalls, KnownCalls, VerdictKnown, At
<1> QED
  BY <1>4, <1>5 DEF Tick

LEMMA CrashTypes ==
  ASSUME TypedCalls, KnownCalls, NEW h \in Hosts, Crash(h)
  PROVE  TypedCalls' /\ KnownCalls'
<1>1. upsets' \in 0..MaxUpsets
  BY UpsetTypes DEF Crash, TypedCalls
<1>2. active' \in [Hosts -> 0..MaxAttempts]
  <2>1. 0 \in 0..MaxAttempts
    BY AttemptsAssumption
  <2> QED
    BY <2>1 DEF Crash, TypedCalls
<1>3. executions' \in [Numbers -> Execution] /\ VerdictKnown'
  <2>1. [NoExecution EXCEPT !.pc = "ended"] \in Execution
        /\ [NoExecution EXCEPT !.pc = "ended"].pc = "ended"
    BY NoExecutionType
  <2> DEFINE e == [NoExecution EXCEPT !.pc = "ended"]
  <2>2. executions' = [n \in Numbers |-> IF executions[n].host = h THEN e ELSE executions[n]]
    BY DEF Crash
  <2> HIDE DEF e
  <2>3. e \in Execution /\ e.pc = "ended"
    BY <2>1 DEF e
  <2> QED
    BY <2>2, <2>3 DEF TypedCalls, KnownCalls, VerdictKnown, At
<1>4. requests' \in [Requests -> Request] /\ CommandKnown'
  <2>1. Answered \in Request /\ Answered.pc = "done"
    BY DEF Answered, Request
  <2>2. requests' = [q \in Requests |->
           IF HostOf[q] = h /\ ~Waits(q, "idle") THEN Answered ELSE requests[q]]
    BY DEF Crash
  <2> QED
    BY <2>1, <2>2 DEF TypedCalls, KnownCalls, CommandKnown, CommandOf
<1> QED
  BY <1>1, <1>2, <1>3, <1>4 DEF TypedCalls, KnownCalls

\* The entry of a command under way is not completed twice.
LEMMA ProducedKept ==
  ASSUME TypedRows, Produced, RowsMove
  PROVE  Produced'
<1>1. CASE UNCHANGED ledger
  BY <1>1 DEF Produced
<1>2. ASSUME NEW c \in Commands, NEW n \in 0..MaxAttempts, Kind[c] = "retry" => n \in Numbers,
             ledger' = [ledger EXCEPT ![c] = [state |-> "COMPLETED", attempt |-> n]]
      PROVE  Produced'
  <2>1. ledger'[c].attempt = n /\ \A d \in Commands : d # c => ledger'[d] = ledger[d]
    BY <1>2 DEF TypedRows
  <2> QED
    BY <1>2, <2>1 DEF Produced
<1>3. CASE Starts
  <2>1. ASSUME NEW q \in Requests, CommandOf(q) \in Commands, Retry(q) PROVE Produced'
    <3>1. run.attempt + 1 \in Numbers /\ run.attempt + 1 \in 0..MaxAttempts
      BY <2>1 DEF Retry, StartAttempt, Numbers
    <3> QED
      BY <1>2, <2>1, <3>1 DEF Retry, CompleteEntry
  <2> QED
    BY <1>1, <1>3, <2>1 DEF Starts
<1>4. CASE Touches
  <2>1. ASSUME NEW q \in Requests, CommandOf(q) \in Commands, Kind[CommandOf(q)] = "cancel",
               RequestCancel(q)
        PROVE  Produced'
    <3>1. run.attempt \in 0..MaxAttempts /\ 0 \in 0..MaxAttempts
      BY AttemptsAssumption DEF TypedRows, Run
    <3> QED
      BY <1>2, <2>1, <3>1 DEF RequestCancel, CompleteEntry
  <2> QED
    BY <1>1, <1>4, <2>1 DEF Touches
<1>5. CASE Stays
  <2>1. ASSUME NEW c \in Commands, NEW s \in {"ACCEPTED", "REJECTED", "OUTCOME_UNKNOWN"},
               ledger' = [ledger EXCEPT ![c].state = s]
        PROVE  Produced'
    <3>1. /\ ledger'[c].state = s
          /\ \A d \in Commands : d # c => ledger'[d] = ledger[d]
      BY <2>1 DEF TypedRows, Entry
    <3> QED
      BY <2>1, <3>1 DEF Produced
  <2> QED
    BY <1>1, <1>5, <2>1 DEF Stays
<1>6. CASE \E n \in Numbers : Closes(n)
  BY <1>1, <1>6 DEF Closes
<1> QED
  BY <1>3, <1>4, <1>5, <1>6 DEF RowsMove

\* A completed command is never opened again.
LEMMA CompletedStays ==
  ASSUME TypedRows, RowsMove, NEW c \in Commands, ledger[c].state = "COMPLETED"
  PROVE  ledger'[c] = ledger[c]
<1>1. ASSUME NEW q \in Requests, Executable(q), CommandOf(q) \in Commands,
             NEW n, CompleteEntry(q, n)
      PROVE  ledger'[c] = ledger[c]
  BY <1>1 DEF CompleteEntry, Executable, EntryOf, TypedRows
<1>2. ASSUME NEW d \in Commands, NEW s, ledger[d].state \in {"absent", "ACCEPTED"},
             ledger' = [ledger EXCEPT ![d].state = s]
      PROVE  ledger'[c] = ledger[c]
  BY <1>2 DEF TypedRows
<1>3. CASE UNCHANGED ledger
  BY <1>3
<1>4. CASE Starts
  BY <1>1, <1>3, <1>4 DEF Starts, Retry
<1>5. CASE Touches
  BY <1>1, <1>3, <1>5 DEF Touches, RequestCancel
<1>6. CASE Stays
  BY <1>2, <1>3, <1>6 DEF Stays
<1>7. CASE \E n \in Numbers : Closes(n)
  BY <1>3, <1>7 DEF Closes
<1> QED
  BY <1>4, <1>5, <1>6, <1>7 DEF RowsMove

\* What the next step does to the requests.
LEMMA RequestsMove ==
  ASSUME TypedCalls, [Next]_vars, NEW q \in Requests
  PROVE  \/ requests'[q] = requests[q]
         \/ requests'[q].pc # "afterCommit"
         \/ Waits(q, "execute") /\ Executable(q) /\ Act(q) /\ Step(q, "afterCommit")
<1>1. ASSUME NEW p \in Requests, NEW r, requests' = [requests EXCEPT ![p] = r], q # p
      PROVE  requests'[q] = requests[q]
  BY <1>1 DEF TypedCalls
<1>2. Answered.pc = "done"
  BY DEF Answered
<1>3. ASSUME NEW p \in Requests, Command(p), q # p PROVE requests'[q] = requests[q]
  BY <1>1, <1>3 DEF Command, Accept, Apply, AfterCommit, Settle, Answer, Step
<1>4. CASE Command(q)
  <2>1. ASSUME NEW r, requests' = [requests EXCEPT ![q] = r] PROVE requests'[q] = r
    BY <2>1 DEF TypedCalls
  <2>2. ASSUME NEW pc, Step(q, pc) PROVE requests'[q].pc = pc
    BY <2>2 DEF TypedCalls, Step, Request
  <2>3. CASE \E c \in Commands : Accept(q, c)
    <3>1. \A c : [pc |-> "execute", command |-> c].pc = "execute"
      OBVIOUS
    <3> QED
      BY <1>2, <2>1, <2>3, <3>1 DEF Accept, Answer
  <2>4. CASE Apply(q)
    BY <1>2, <2>1, <2>2, <2>4 DEF Apply, Answer
  <2>5. CASE \/ AfterCommit(q)
             \/ Settle(q, "reject", "REJECTED") \/ Settle(q, "unknown", "OUTCOME_UNKNOWN")
    BY <1>2, <2>1, <2>5 DEF AfterCommit, Settle, Answer
  <2> QED
    BY <1>4, <2>3, <2>4, <2>5 DEF Command
<1>5. ASSUME NEW h \in Hosts, Crash(h) PROVE requests'[q] = requests[q] \/ requests'[q] = Answered
  BY <1>5 DEF Crash
<1>6. CASE \E h \in Hosts : Tick(h)
  BY <1>6 DEF Tick
<1>7. CASE \E n \in Numbers :
             Proceed(n) \/ Partial(n) \/ Heartbeat(n) \/ LeaseExpires(n) \/ Recover(n)
  BY <1>7 DEF Proceed, Audit, ProviderEnds, Check, Complete, Fail, Partial, Heartbeat,
     LeaseExpires, Recover
<1>8. CASE Quarantine \/ UNCHANGED vars
  BY <1>8 DEF Quarantine, vars
<1> QED
  BY <1>2, <1>3, <1>4, <1>5, <1>6, <1>7, <1>8 DEF Next

TypeInv == TypedRows /\ TypedCalls /\ KnownCalls /\ Produced /\ Delivered

LEMMA InitTypes == Init => TypeInv
<1> SUFFICES ASSUME Init PROVE TypeInv
  OBVIOUS
<1>1. 0 \in 0..MaxAttempts /\ 0 \in 0..MaxUpsets
  BY AttemptsAssumption, BoundsAssumption
<1>2. TypedRows
  BY <1>1, Literals DEF Init, TypedRows, Run, Attempt, Entry, LedgerStates
<1>3. NoExecution.pc = "none"
  BY DEF NoExecution
<1>4. TypedCalls
  BY <1>1, NoExecutionType DEF Init, TypedCalls, Request
<1>5. KnownCalls
  BY <1>3 DEF Init, KnownCalls, VerdictKnown, CommandKnown, At
<1>6. Produced /\ Delivered
  BY DEF Init, Produced, Delivered, Waits
<1> QED
  BY <1>2, <1>4, <1>5, <1>6 DEF TypeInv

LEMMA TypesGiveTypeOK == TypeInv <=> TypeOK /\ KnownCalls /\ Produced /\ Delivered
BY DEF TypeInv, TypedRows, TypedCalls, TypeOK

LEMMA NextTypes == TypeInv /\ [Next]_vars => TypeInv' /\ RowsMove
<1> SUFFICES ASSUME TypeInv, [Next]_vars PROVE TypeInv' /\ RowsMove
  OBVIOUS
<1>1. RowsMove
  BY NextMovesRows, TypesGiveTypeOK DEF KnownCalls
<1>2. TypedRows'
  BY <1>1, RowsMoveTypes DEF TypeInv
<1>3. Produced'
  BY <1>1, ProducedKept DEF TypeInv
<1>4. TypedCalls' /\ KnownCalls'
  <2>1. CASE UNCHANGED <<executions, active, requests, upsets>>
    BY <2>1 DEF TypeInv, TypedCalls, KnownCalls, VerdictKnown, CommandKnown, At, CommandOf
  <2>2. CASE Quarantine \/ UNCHANGED vars
    BY <2>1, <2>2 DEF Quarantine, vars
  <2> QED
    BY <2>2, TickTypes, CrashTypes, ProceedTypes, CommandTypes DEF Next, TypeInv
<1>5. Delivered'
  <2>1. ASSUME NEW q \in Requests, requests'[q].pc = "afterCommit"
        PROVE  ledger'[requests'[q].command].state = "COMPLETED"
    <3>1. CASE requests'[q] = requests[q]
      <4>1. CommandOf(q) \in Commands /\ EntryOf(q).state = "COMPLETED"
        BY <2>1, <3>1 DEF TypeInv, KnownCalls, CommandKnown, Delivered, Waits
      <4> QED
        BY <1>1, <3>1, <4>1, CompletedStays DEF TypeInv, EntryOf, CommandOf
    <3>2. CASE Waits(q, "execute") /\ Executable(q) /\ Act(q) /\ Step(q, "afterCommit")
      <4>1. CommandOf(q) \in Commands
        BY <3>2 DEF TypeInv, KnownCalls, CommandKnown, Waits
      <4>2. requests'[q].command = CommandOf(q)
        BY <3>2 DEF TypeInv, TypedCalls, Step, CommandOf, Request
      <4>3. \E n \in Int : CompleteEntry(q, n)
        BY <3>2 DEF Act, Retry, RequestCancel, TypeInv, TypedRows, Run
      <4>4. ledger'[CommandOf(q)].state = "COMPLETED"
        BY <4>1, <4>3 DEF CompleteEntry, TypeInv, TypedRows
      <4> QED
        BY <4>2, <4>4
    <3> QED
      BY <2>1, <3>1, <3>2, RequestsMove DEF TypeInv
  <2> QED
    BY <2>1 DEF Delivered, Waits, EntryOf, CommandOf
<1> QED
  BY <1>1, <1>2, <1>3, <1>4, <1>5 DEF TypeInv

\* The rows and the calls have their shapes in every behaviour: an execution that
\* throws knows its verdict, a retry that is executed its attempt.
THEOREM TypesHold == Spec => []TypeOK
<1>1. Spec => []TypeInv
  BY InitTypes, NextTypes, PTL DEF Spec
<1>2. TypeInv => TypeOK
  BY TypesGiveTypeOK
<1> QED
  BY <1>1, <1>2, PTL

-----------------------------------------------------------------------------
(* Part 3: the run and its attempts                                         *)

\* No attempt after the newest one exists yet.
FutureAbsent ==
  \A n \in Numbers : n > run.attempt => attempts[n].state = "absent" /\ attempts[n].by = None
\* Why a run is queued: it is new, or its last attempt failed and may be repeated.
QueuedIsKnown ==
  run.state = "QUEUED" =>
    run.attempt = 0 \/ (attempts[run.attempt].state = "FAILED" /\ run.attempt < MaxAutomatic)

RowInv == OneLiveAttempt /\ AnswerIsTheRuns /\ FutureAbsent /\ QueuedIsKnown

LEMMA StartRows ==
  ASSUME TypedRows, NEW command \in Commands \cup {None}, StartAttempt(command)
  PROVE  /\ run'.state = "RUNNING" /\ run'.attempt = run.attempt + 1
         /\ run.attempt \in Nat /\ run.attempt + 1 \in Numbers /\ statements' = statements
         /\ attempts'[run.attempt + 1].state = "RUNNING"
         /\ attempts'[run.attempt + 1].by = command
         /\ \A m \in Numbers : m # run.attempt + 1 => attempts'[m] = attempts[m]
BY DEF StartAttempt, TypedRows, Run

LEMMA CloseRows ==
  ASSUME TypedRows, NEW n \in Numbers, NEW s, NEW t, CloseAttempt(n, s, t)
  PROVE  /\ run'.state = t /\ run'.attempt = run.attempt
         /\ attempts'[n].state = s /\ attempts'[n].by = attempts[n].by
         /\ \A m \in Numbers : m # n => attempts'[m] = attempts[m]
BY DEF CloseAttempt, TypedRows, Run, Attempt

LEMMA LeaseRows ==
  ASSUME TypedRows, NEW n \in Numbers, attempts' = [attempts EXCEPT ![n].lease = "expired"]
  PROVE  \A m \in Numbers : /\ attempts'[m].state = attempts[m].state
                            /\ attempts'[m].by = attempts[m].by
BY DEF TypedRows, Attempt

\* An attempt is started on a run that has none running and no answer.
LEMMA StartKeepsRows ==
  ASSUME TypedRows, RowInv, NEW command \in Commands \cup {None}, StartAttempt(command),
         run.state \in Ends \cup {"QUEUED"}
  PROVE  RowInv'
<1>1. \A m \in Numbers : attempts[m].state # "RUNNING"
  BY Literals DEF RowInv, OneLiveAttempt
<1>2. statements = {}
  BY Literals DEF RowInv, AnswerIsTheRuns
<1>3. OneLiveAttempt'
  BY <1>1, StartRows, Literals DEF OneLiveAttempt
<1>4. AnswerIsTheRuns'
  BY <1>2, StartRows DEF AnswerIsTheRuns
<1>5. FutureAbsent'
  <2>1. \A m \in Numbers : m > run.attempt + 1 => m # run.attempt + 1 /\ m > run.attempt
    BY StartRows DEF Numbers
  <2> QED
    BY <2>1, StartRows DEF RowInv, FutureAbsent
<1>6. QueuedIsKnown'
  BY StartRows DEF QueuedIsKnown
<1> QED
  BY <1>3, <1>4, <1>5, <1>6 DEF RowInv

\* The attempt that ends is the newest one, and the run had no answer.
LEMMA CloseKeepsRows ==
  ASSUME TypedRows, RowInv, NEW n \in Numbers, Closes(n)
  PROVE  RowInv'
<1>1. n = run.attempt /\ statements = {}
  BY Literals DEF Closes, RowInv, OneLiveAttempt, AnswerIsTheRuns
<1>2. \A m \in Numbers : m # n => attempts[m].state # "RUNNING"
  BY <1>1 DEF RowInv, OneLiveAttempt
<1>3. CASE CloseAttempt(n, "SUCCEEDED", "SUCCEEDED") /\ statements' = statements \cup {n}
  <2>1. OneLiveAttempt'
    BY <1>1, <1>2, <1>3, CloseRows, Literals DEF OneLiveAttempt
  <2>2. AnswerIsTheRuns'
    BY <1>1, <1>3, CloseRows DEF AnswerIsTheRuns
  <2>3. FutureAbsent'
    BY <1>1, <1>3, CloseRows DEF RowInv, FutureAbsent, Numbers
  <2>4. QueuedIsKnown'
    BY <1>3, CloseRows DEF QueuedIsKnown
  <2> QED
    BY <2>1, <2>2, <2>3, <2>4 DEF RowInv
<1>4. ASSUME NEW s \in Ends, NEW t \in {s, "QUEUED"}, CloseAttempt(n, s, t),
             t = "QUEUED" => s = "FAILED" /\ n < MaxAutomatic, UNCHANGED statements
      PROVE  RowInv'
  <2>1. OneLiveAttempt'
    BY <1>1, <1>2, <1>4, CloseRows, Literals DEF OneLiveAttempt
  <2>2. AnswerIsTheRuns'
    BY <1>1, <1>4, CloseRows, Literals DEF AnswerIsTheRuns
  <2>3. FutureAbsent'
    BY <1>1, <1>4, CloseRows DEF RowInv, FutureAbsent, Numbers
  <2>4. QueuedIsKnown'
    BY <1>1, <1>4, CloseRows, Literals DEF QueuedIsKnown
  <2> QED
    BY <2>1, <2>2, <2>3, <2>4 DEF RowInv
<1> QED
  BY <1>3, <1>4, Literals DEF Closes

\* The newest attempt of an active run is one of the attempts.
LEMMA RowsKept ==
  ASSUME TypedRows, RowInv, RowsMove
  PROVE  RowInv'
<1>1. CASE Starts
  <2>1. None \in Commands \cup {None}
    OBVIOUS
  <2> QED
    BY <1>1, <2>1, StartKeepsRows DEF Starts, Retry
<1>2. CASE Touches
  <2>1. ASSUME NEW s \in RunStates, run' = [run EXCEPT !.state = s],
               UNCHANGED <<attempts, statements>>, s # "SUCCEEDED", s # "QUEUED",
               \/ run.state = "QUEUED" /\ s \notin Active
               \/ run.state \in Active /\ s \in Active
        PROVE  RowInv'
    <3>1. run'.state = s /\ run'.attempt = run.attempt
      BY <2>1, RunStateTypes DEF TypedRows
    <3>2. OneLiveAttempt'
      BY <2>1, <3>1, Literals DEF RowInv, OneLiveAttempt
    <3>3. AnswerIsTheRuns'
      BY <2>1, <3>1, Literals DEF RowInv, AnswerIsTheRuns
    <3>4. FutureAbsent'
      BY <2>1, <3>1 DEF RowInv, FutureAbsent
    <3>5. QueuedIsKnown'
      BY <2>1, <3>1 DEF QueuedIsKnown
    <3> QED
      BY <3>2, <3>3, <3>4, <3>5 DEF RowInv
  <2> QED
    BY <1>2, <2>1, Literals DEF Touches, RequestCancel
<1>3. CASE Stays
  <2>1. \A m \in Numbers : attempts'[m].state = attempts[m].state /\ attempts'[m].by = attempts[m].by
    BY <1>3, LeaseRows DEF Stays
  <2>2. run' = run /\ statements' = statements
    BY <1>3 DEF Stays
  <2>3. run.attempt # 0 => run.attempt \in Numbers
    BY DEF TypedRows, Run, Numbers
  <2> QED
    BY <2>1, <2>2, <2>3 DEF RowInv, OneLiveAttempt, AnswerIsTheRuns, FutureAbsent, QueuedIsKnown
<1> QED
  BY <1>1, <1>2, <1>3, CloseKeepsRows DEF RowsMove

LEMMA InitRows == Init => RowInv
<1> SUFFICES ASSUME Init PROVE RowInv
  OBVIOUS
<1> QED
  BY Literals DEF Init, RowInv, OneLiveAttempt, AnswerIsTheRuns, FutureAbsent, QueuedIsKnown

LEMMA RowsHold == Spec => [](TypeInv /\ RowInv)
<1>1. TypeInv /\ RowInv /\ [Next]_vars => TypeInv' /\ RowInv'
  BY NextTypes, RowsKept DEF TypeInv
<1> QED
  BY <1>1, InitTypes, InitRows, PTL DEF Spec

\* An attempt runs exactly while the run is active with it, for any number of
\* workers, requests and attempts.
THEOREM OneLiveAttemptHolds == Spec => []OneLiveAttempt
<1>1. RowInv => OneLiveAttempt
  BY DEF RowInv
<1> QED
  BY <1>1, RowsHold, PTL

\* The stored answer is the one of the run's last attempt.
THEOREM AnswerIsTheRunsHolds == Spec => []AnswerIsTheRuns
<1>1. RowInv => AnswerIsTheRuns
  BY DEF RowInv
<1> QED
  BY <1>1, RowsHold, PTL

\* Nothing that any worker or command does changes an answered run.
THEOREM AnswerIsFinalHolds == Spec => AnswerIsFinal
<1>1. TypeInv /\ RowInv /\ [Next]_vars => [statements # {} => UNCHANGED rows]_vars
  <2> SUFFICES ASSUME TypedRows, RowInv, RowsMove, statements # {}
               PROVE  UNCHANGED rows
    BY NextTypes DEF TypeInv
  <2>1. run.state = "SUCCEEDED" /\ run.state \notin Active \cup Live \cup Ends \cup {"QUEUED"}
    BY Literals DEF RowInv, AnswerIsTheRuns
  <2>2. \A n \in Numbers : attempts[n].state # "RUNNING"
    BY <2>1 DEF RowInv, OneLiveAttempt
  <2>3. ~Starts /\ ~Touches
    BY <2>1 DEF Starts, Touches, Retry, RequestCancel
  <2> QED
    BY <2>1, <2>2, <2>3 DEF RowsMove, Stays, Closes, rows
<1> QED
  BY <1>1, RowsHold, PTL DEF Spec, AnswerIsFinal

\* A worker starts another attempt by itself only after a failure it knows, and
\* fewer than MaxAutomatic times.
THEOREM AutomaticRerunsAreKnownHold == Spec => AutomaticRerunsAreKnown
<1> DEFINE Known == ledger' = ledger /\ run'.attempt > run.attempt =>
                      \/ run.attempt = 0
                      \/ attempts[run.attempt].state = "FAILED" /\ run.attempt < MaxAutomatic
<1>1. TypeInv /\ RowInv /\ [Next]_vars => [Known]_vars
  <2> SUFFICES ASSUME TypedRows, RowInv, RowsMove, ledger' = ledger, run'.attempt > run.attempt
               PROVE  run.state = "QUEUED"
    BY NextTypes DEF TypeInv, RowInv, QueuedIsKnown
  <2>1. run.attempt \in Int
    BY DEF TypedRows, Run
  <2>2. ASSUME NEW q \in Requests, CommandOf(q) \in Commands, Executable(q), Retry(q) PROVE FALSE
    <3>1. ledger'[CommandOf(q)].state = "COMPLETED"
      BY <2>2 DEF Retry, CompleteEntry, TypedRows
    <3> QED
      BY <2>2, <3>1 DEF Executable, EntryOf
  <2>3. CASE Touches
    <3>1. run'.attempt = run.attempt
      BY <2>3 DEF Touches, RequestCancel, TypedRows, Run
    <3> QED
      BY <2>1, <3>1
  <2>4. ASSUME NEW n \in Numbers, Closes(n) PROVE FALSE
    <3>1. run'.attempt = run.attempt
      BY <2>4, CloseRows DEF Closes
    <3> QED
      BY <2>1, <3>1
  <2>5. ~Stays
    BY <2>1 DEF Stays
  <2> QED
    BY <2>2, <2>3, <2>4, <2>5 DEF RowsMove, Starts
<1> QED
  BY <1>1, RowsHold, PTL DEF Spec, AutomaticRerunsAreKnown

-----------------------------------------------------------------------------
(* Part 4: commands and the attempts they made or were to stop              *)

CommandInv == CancelIsKept /\ CommandActsOnce

\* A step completes one open command with its attempt, or leaves the attempt and
\* the completion of every command alone.
LEMMA EntriesMove ==
  ASSUME TypedRows, RowsMove, NEW c \in Commands
  PROVE  \/ /\ ledger'[c].attempt = ledger[c].attempt
            /\ ledger'[c].state = "COMPLETED" <=> ledger[c].state = "COMPLETED"
         \/ /\ ledger[c].state = "ACCEPTED" /\ ledger'[c].state = "COMPLETED"
            /\ \/ /\ Kind[c] = "retry" /\ StartAttempt(c) /\ run.state \in Ends
                  /\ ledger'[c].attempt = run.attempt + 1
               \/ /\ Kind[c] = "cancel" /\ Touches
                  /\ \/ ledger'[c].attempt = 0
                     \/ /\ ledger'[c].attempt = run.attempt /\ run.state \in Active
                        /\ run' = [run EXCEPT !.state = "CANCEL_REQUESTED"]
<1>1. ASSUME NEW q \in Requests, NEW n, CommandOf(q) \in Commands, Executable(q),
             CompleteEntry(q, n)
      PROVE  IF CommandOf(q) = c
             THEN ledger'[c] = [state |-> "COMPLETED", attempt |-> n] /\ ledger[c].state = "ACCEPTED"
             ELSE ledger'[c] = ledger[c]
  BY <1>1 DEF CompleteEntry, Executable, EntryOf, TypedRows
<1>2. CASE UNCHANGED ledger
  BY <1>2
<1>3. CASE Starts
  <2>1. ASSUME NEW q \in Requests, CommandOf(q) \in Commands, Kind[CommandOf(q)] = "retry",
               Executable(q), Retry(q), CommandOf(q) = c
        PROVE  /\ ledger[c].state = "ACCEPTED" /\ ledger'[c].state = "COMPLETED"
               /\ Kind[c] = "retry" /\ StartAttempt(c) /\ run.state \in Ends
               /\ ledger'[c].attempt = run.attempt + 1
    <3>1. CompleteEntry(q, run.attempt + 1)
      BY <2>1 DEF Retry
    <3>2. ledger'[c] = [state |-> "COMPLETED", attempt |-> run.attempt + 1]
          /\ ledger[c].state = "ACCEPTED"
      BY <1>1, <2>1, <3>1
    <3>3. StartAttempt(c) /\ run.state \in Ends
      BY <2>1 DEF Retry
    <3> QED
      BY <2>1, <3>2, <3>3
  <2> QED
    BY <1>1, <1>2, <1>3, <2>1 DEF Starts, Retry
<1>4. CASE Touches
  <2>1. ASSUME NEW q \in Requests, CommandOf(q) \in Commands, Kind[CommandOf(q)] = "cancel",
               Executable(q), RequestCancel(q), CommandOf(q) = c
        PROVE  /\ ledger[c].state = "ACCEPTED" /\ ledger'[c].state = "COMPLETED"
               /\ Kind[c] = "cancel"
               /\ \/ ledger'[c].attempt = 0
                  \/ /\ ledger'[c].attempt = run.attempt /\ run.state \in Active
                     /\ run' = [run EXCEPT !.state = "CANCEL_REQUESTED"]
    <3>1. ASSUME NEW n, CompleteEntry(q, n)
          PROVE  /\ ledger'[c].state = "COMPLETED" /\ ledger'[c].attempt = n
                 /\ ledger[c].state = "ACCEPTED"
      <4>1. ledger'[c] = [state |-> "COMPLETED", attempt |-> n] /\ ledger[c].state = "ACCEPTED"
        BY <1>1, <2>1, <3>1
      <4> QED
        BY <4>1
    <3>2. CASE CompleteEntry(q, 0)
      BY <2>1, <3>1, <3>2
    <3>3. CASE /\ CompleteEntry(q, run.attempt) /\ run.state \in Active
               /\ run' = [run EXCEPT !.state = "CANCEL_REQUESTED"]
      BY <2>1, <3>1, <3>3
    <3> QED
      BY <2>1, <3>2, <3>3 DEF RequestCancel
  <2>2. ASSUME NEW q \in Requests, CommandOf(q) \in Commands, Executable(q),
               RequestCancel(q), CommandOf(q) # c
        PROVE  ledger'[c] = ledger[c]
    BY <1>1, <2>2 DEF RequestCancel
  <2> QED
    BY <1>2, <1>4, <2>1, <2>2 DEF Touches
<1>5. CASE Stays
  <2>1. ASSUME NEW d \in Commands, NEW s \in {"ACCEPTED", "REJECTED", "OUTCOME_UNKNOWN"},
               ledger[d].state \in {"absent", "ACCEPTED"},
               ledger' = [ledger EXCEPT ![d].state = s]
        PROVE  /\ ledger'[c].attempt = ledger[c].attempt
               /\ ledger'[c].state = "COMPLETED" <=> ledger[c].state = "COMPLETED"
    BY <2>1 DEF TypedRows, Entry
  <2> QED
    BY <1>2, <1>5, <2>1 DEF Stays
<1>6. CASE \E n \in Numbers : Closes(n)
  BY <1>2, <1>6 DEF Closes
<1> QED
  BY <1>3, <1>4, <1>5, <1>6 DEF RowsMove

\* Who started each attempt.
LEMMA ByMoves ==
  ASSUME TypedRows, RowsMove, NEW n \in Numbers
  PROVE  \/ attempts'[n].by = attempts[n].by
         \/ n = run.attempt + 1 /\ StartAttempt(attempts'[n].by)
<1>1. ASSUME NEW command \in Commands \cup {None}, StartAttempt(command)
      PROVE  \/ attempts'[n].by = attempts[n].by
             \/ n = run.attempt + 1 /\ StartAttempt(attempts'[n].by)
  <2>1. CASE n = run.attempt + 1
    BY <1>1, <2>1, StartRows
  <2>2. CASE n # run.attempt + 1
    BY <1>1, <2>2, StartRows
  <2> QED
    BY <2>1, <2>2
<1>2. CASE Starts
  BY <1>1, <1>2 DEF Starts, Retry
<1>3. CASE Touches
  BY <1>3 DEF Touches
<1>4. CASE Stays
  BY <1>4, LeaseRows DEF Stays
<1>5. ASSUME NEW m \in Numbers, Closes(m) PROVE attempts'[n].by = attempts[n].by
  <2>1. \E s, t : CloseAttempt(m, s, t)
    BY <1>5 DEF Closes
  <2> QED
    BY <2>1, CloseRows
<1> QED
  BY <1>2, <1>3, <1>4, <1>5 DEF RowsMove

\* A retry starts the attempt its command is completed with, and no other step
\* starts one for it.
LEMMA ActsOnceKept ==
  ASSUME TypedRows, RowInv, RowsMove, CommandActsOnce
  PROVE  CommandActsOnce'
<1> SUFFICES ASSUME NEW c \in Commands
             PROVE  {n \in Numbers : attempts'[n].by = c}
                      = IF Kind[c] = "retry" /\ ledger'[c].state = "COMPLETED"
                        THEN {ledger'[c].attempt} ELSE {}
  BY DEF CommandActsOnce
<1>1. {n \in Numbers : attempts[n].by = c}
        = IF Kind[c] = "retry" /\ ledger[c].state = "COMPLETED" THEN {ledger[c].attempt} ELSE {}
  BY DEF CommandActsOnce
<1>2. CASE Kind[c] = "retry" /\ StartAttempt(c) /\ ledger[c].state = "ACCEPTED"
           /\ ledger'[c].state = "COMPLETED" /\ ledger'[c].attempt = run.attempt + 1
  <2>1. \A n \in Numbers : attempts'[n].by = c <=> n = run.attempt + 1
    BY <1>1, <1>2, StartRows
  <2> QED
    BY <1>2, <2>1, StartRows
<1>3. CASE \/ /\ ledger'[c].attempt = ledger[c].attempt
              /\ ledger'[c].state = "COMPLETED" <=> ledger[c].state = "COMPLETED"
           \/ Kind[c] = "cancel"
  <2>1. ASSUME NEW n \in Numbers PROVE attempts'[n].by = c <=> attempts[n].by = c
    <3>1. CASE attempts'[n].by = attempts[n].by
      BY <3>1
    <3>2. CASE n = run.attempt + 1 /\ StartAttempt(attempts'[n].by)
      <4>1. attempts[n].by = None
        BY <3>2 DEF RowInv, FutureAbsent, TypedRows, Run
      <4>2. attempts'[n].by # c
        <5>1. ~Touches /\ ~Stays /\ \A m \in Numbers : ~Closes(m)
          <6>1. run'.attempt = run.attempt + 1 /\ run.attempt \in Nat
            BY <3>2 DEF StartAttempt, TypedRows, Run
          <6>2. run' # run /\ run'.attempt # run.attempt
            BY <6>1
          <6>3. ASSUME NEW m \in Numbers, Closes(m) PROVE FALSE
            BY <6>2, <6>3, CloseRows DEF Closes
          <6>4. ASSUME Touches PROVE FALSE
            BY <6>2, <6>4 DEF Touches, RequestCancel, TypedRows, Run
          <6> QED
            BY <6>2, <6>3, <6>4 DEF Stays
        <5>2. CASE run.state = "QUEUED" /\ StartAttempt(None)
          BY <3>2, <5>2, StartRows, NoneAssumption
        <5>3. ASSUME NEW q \in Requests, CommandOf(q) \in Commands, Executable(q), Retry(q),
                     Kind[CommandOf(q)] = "retry"
              PROVE  attempts'[n].by # c
          <6>1. attempts'[n].by = CommandOf(q)
            BY <3>2, <5>3, StartRows DEF Retry
          <6>2. ledger'[CommandOf(q)].state = "COMPLETED" /\ ledger[CommandOf(q)].state # "COMPLETED"
            BY <5>3 DEF Retry, CompleteEntry, TypedRows, Executable, EntryOf
          <6> QED
            BY <1>3, <5>3, <6>1, <6>2
        <5> QED
          BY <5>1, <5>2, <5>3 DEF RowsMove, Starts
      <4> QED
        BY <4>1, <4>2, NoneAssumption
    <3> QED
      BY <3>1, <3>2, ByMoves
  <2> QED
    BY <1>1, <1>3, <2>1
<1> QED
  BY <1>2, <1>3, EntriesMove

\* What was asked to stop is still being stopped, or is cancelled: only the
\* cancellation ends it.
LEMMA CancelKept ==
  ASSUME TypedRows, RowInv, RowsMove, CancelIsKept
  PROVE  CancelIsKept'
<1> SUFFICES ASSUME NEW c \in Commands, Kind[c] = "cancel", ledger'[c].attempt # 0
             PROVE  LET n == ledger'[c].attempt IN
                    \/ attempts'[n].state = "RUNNING" /\ run'.state = "CANCEL_REQUESTED"
                    \/ attempts'[n].state = "CANCELLED"
  BY DEF CancelIsKept
<1> DEFINE n == ledger'[c].attempt
<1>1. CASE Touches /\ ledger'[c].attempt = run.attempt /\ run.state \in Active
           /\ run' = [run EXCEPT !.state = "CANCEL_REQUESTED"]
  <2>1. run'.state = "CANCEL_REQUESTED" /\ attempts' = attempts
    BY <1>1 DEF Touches, TypedRows, Run
  <2>2. n \in Numbers
    BY <1>1 DEF TypedRows, Run, Numbers
  <2>3. attempts[n].state = "RUNNING"
    BY <1>1, <2>2 DEF RowInv, OneLiveAttempt
  <2> QED
    BY <2>1, <2>3
<1>2. CASE ledger'[c].attempt = ledger[c].attempt
  <2>1. n \in Numbers /\ n = ledger[c].attempt
    BY <1>2 DEF TypedRows, Entry, Numbers
  <2>2. \/ attempts[n].state = "RUNNING" /\ run.state = "CANCEL_REQUESTED" /\ n = run.attempt
        \/ attempts[n].state = "CANCELLED"
    BY <1>2, <2>1 DEF CancelIsKept, RowInv, OneLiveAttempt
  <2> HIDE DEF n
  <2>3. CASE Starts
    <3>1. run.state # "CANCEL_REQUESTED"
      BY <2>3, Literals DEF Starts, Retry
    <3>2. attempts[n].state = "CANCELLED" /\ n # run.attempt + 1
      <4>1. run.attempt + 1 > run.attempt
        BY DEF TypedRows, Run
      <4>2. "CANCELLED" # "absent"
        OBVIOUS
      <4> QED
        BY <2>1, <2>2, <3>1, <4>1, <4>2 DEF RowInv, FutureAbsent
    <3>3. ASSUME NEW command \in Commands \cup {None}, StartAttempt(command)
          PROVE  attempts'[n] = attempts[n]
      BY <2>1, <3>2, <3>3, StartRows
    <3>4. attempts'[n] = attempts[n]
      BY <2>3, <3>3 DEF Starts, Retry
    <3> QED
      BY <3>2, <3>4 DEF n
  <2>4. CASE Touches
    <3>1. run.state = "CANCEL_REQUESTED" => run'.state = "CANCEL_REQUESTED"
      BY <2>4, Literals DEF Touches, RequestCancel, TypedRows, Run
    <3> QED
      BY <2>2, <2>4, <3>1 DEF Touches, n
  <2>5. CASE Stays
    <3>1. attempts'[n].state = attempts[n].state /\ run' = run
      BY <2>1, <2>5, LeaseRows DEF Stays
    <3> QED
      BY <2>2, <3>1 DEF n
  <2>6. ASSUME NEW m \in Numbers, Closes(m)
        PROVE  attempts'[n].state = "CANCELLED"
    <3>1. attempts[m].state = "RUNNING" /\ m = run.attempt
      BY <2>6 DEF Closes, RowInv, OneLiveAttempt
    <3>2. CASE attempts[n].state = "CANCELLED"
      <4>1. m # n
        BY <3>1, <3>2
      <4>2. \E s, t : CloseAttempt(m, s, t)
        BY <2>6 DEF Closes
      <4> QED
        BY <2>1, <3>2, <4>1, <4>2, CloseRows
    <3>3. CASE run.state = "CANCEL_REQUESTED" /\ n = run.attempt
      <4>1. \E s, t : s = "CANCELLED" /\ CloseAttempt(m, s, t)
        BY <2>6, <3>3, Literals DEF Closes
      <4> QED
        BY <3>1, <3>3, <4>1, CloseRows
    <3> QED
      BY <2>2, <3>2, <3>3
  <2> QED
    BY <2>3, <2>4, <2>5, <2>6 DEF RowsMove, n
<1>3. CASE ledger'[c].attempt = 0
  BY <1>3
<1> QED
  BY <1>1, <1>2, <1>3, EntriesMove

LEMMA CommandsHold == Spec => [](TypeInv /\ RowInv /\ CommandInv)
<1>1. Init => CommandInv
  BY NoneAssumption DEF Init, CommandInv, CancelIsKept, CommandActsOnce
<1>2. TypeInv /\ RowInv /\ CommandInv /\ [Next]_vars => CommandInv'
  <2> SUFFICES ASSUME TypeInv, RowInv, CommandInv, [Next]_vars PROVE CommandInv'
    OBVIOUS
  <2>1. TypedRows /\ RowsMove
    BY NextTypes DEF TypeInv
  <2> QED
    BY <2>1, ActsOnceKept, CancelKept DEF CommandInv
<1> QED
  BY <1>1, <1>2, RowsHold, PTL DEF Spec

\* Whatever happens after a cancel was accepted, its attempt never answers.
THEOREM CancelIsKeptHolds == Spec => []CancelIsKept
<1>1. CommandInv => CancelIsKept
  BY DEF CommandInv
<1> QED
  BY <1>1, CommandsHold, PTL

\* A retry command is completed with the one attempt it started, however many
\* requests carry it and whichever acknowledgements are lost.
THEOREM CommandActsOnceHolds == Spec => []CommandActsOnce
<1>1. CommandInv => CommandActsOnce
  BY DEF CommandInv
<1> QED
  BY <1>1, CommandsHold, PTL

-----------------------------------------------------------------------------
(* Part 5: executions and the attempts they execute                         *)

\* No execution outlives its attempt's failure, nor starts for it later.
NotStarted == \A n \in Numbers : n > run.attempt => At(n, "none")
FailedEnded == \A n \in Numbers : attempts[n].state = "FAILED" => At(n, "ended")
\* The attempt a delivered retry has produced is not executed yet, and no other
\* request delivers the same command.
Undelivered ==
  \A q \in Requests : Waits(q, "afterCommit") =>
    /\ Kind[CommandOf(q)] = "retry" => At(EntryOf(q).attempt, "none")
    /\ \A p \in Requests : p # q /\ Waits(p, "afterCommit") => CommandOf(p) # CommandOf(q)
NoneHasNoHost == \A n \in Numbers : At(n, "none") => executions[n].host = None

ExecutionInv == NotStarted /\ FailedEnded /\ Undelivered /\ NoneHasNoHost

\* A new execution is that of the attempt a tick has claimed, or of a retry that
\* is delivered; one that has ended stays so.
Executes(n) ==
  \/ n = run.attempt + 1 /\ run'.attempt = n /\ StartAttempt(None)
  \/ \E q \in Requests :
       /\ Waits(q, "afterCommit") /\ Kind[CommandOf(q)] = "retry" /\ n = EntryOf(q).attempt
       /\ requests'[q].pc = "done"
ExecutionMoves(n) ==
  \/ executions'[n].pc = executions[n].pc /\ executions'[n].host = executions[n].host
  \/ ~At(n, "none") /\ executions'[n].pc # "none" /\ (At(n, "ended") => executions'[n].pc = "ended")
  \/ executions'[n].pc = "audit" /\ Executes(n)

LEMMA ExecutionsMove ==
  ASSUME TypeInv, NoneHasNoHost, [Next]_vars, NEW n \in Numbers
  PROVE  ExecutionMoves(n)
<1>1. executions \in [Numbers -> Execution] /\ active \in [Hosts -> 0..MaxAttempts]
      /\ requests \in [Requests -> Request]
  BY DEF TypeInv, TypedCalls
<1>2. /\ [NoExecution EXCEPT !.pc = "ended"].pc = "ended"
      /\ \A h \in Hosts : [NoExecution EXCEPT !.pc = "audit", !.host = h].pc = "audit"
  BY NoExecutionType
<1>3. CASE UNCHANGED executions
  BY <1>3 DEF ExecutionMoves
<1>4. ASSUME NEW m \in Numbers, m # n, NEW e, executions' = [executions EXCEPT ![m] = e]
      PROVE  ExecutionMoves(n)
  BY <1>1, <1>4 DEF ExecutionMoves
<1>6. ASSUME NEW m \in Numbers, NEW h \in Hosts, Execute(m, h), Executes(m)
      PROVE  ExecutionMoves(n)
  <2> DEFINE e == [NoExecution EXCEPT !.pc = "audit", !.host = h]
  <2>1. executions' = [executions EXCEPT ![m] = e] /\ e.pc = "audit"
    BY <1>2, <1>6 DEF Execute
  <2> HIDE DEF e
  <2>2. m # n => executions'[n] = executions[n]
    BY <1>1, <2>1
  <2>3. m = n => executions'[n].pc = "audit"
    BY <1>1, <2>1
  <2> QED
    BY <1>6, <2>2, <2>3 DEF ExecutionMoves
<1>7. ASSUME NEW h \in Hosts, Tick(h) PROVE ExecutionMoves(n)
  <2>1. run.attempt + 1 \in Numbers /\ StartAttempt(None)
    BY <1>7 DEF Tick, StartAttempt
  <2>2. Executes(run.attempt + 1)
    BY <2>1, StartRows DEF Executes, TypeInv
  <2> QED
    BY <1>3, <1>6, <1>7, <2>1, <2>2 DEF Tick
<1>8. ASSUME NEW h \in Hosts, Crash(h) PROVE ExecutionMoves(n)
  <2> DEFINE e == [NoExecution EXCEPT !.pc = "ended"]
  <2>1. executions'[n] = IF executions[n].host = h THEN e ELSE executions[n]
    BY <1>8 DEF Crash
  <2>2. e.pc = "ended"
    BY <1>2
  <2> HIDE DEF e
  <2>3. executions[n].host = h => ~At(n, "none")
    BY NoneAssumption DEF NoneHasNoHost
  <2> QED
    BY <2>1, <2>2, <2>3 DEF ExecutionMoves
<1>9. ASSUME NEW m \in Numbers,
             Proceed(m) \/ Partial(m) \/ Heartbeat(m) \/ LeaseExpires(m) \/ Recover(m)
      PROVE  ExecutionMoves(n)
  <2>1. CASE Partial(m) \/ LeaseExpires(m) \/ Recover(m)
    BY <1>3, <2>1 DEF Partial, LeaseExpires, Recover
  <2>2. ASSUME ~At(m, "none") /\ ~At(m, "ended"),
               NEW pc \in Pcs \ {"none"}, NEW verdict,
               \/ Go(m, pc)
               \/ executions' = [executions EXCEPT ![m].pc = pc, ![m].verdict = verdict]
        PROVE  ExecutionMoves(n)
    <3>1. n # m => executions'[n] = executions[n]
      BY <1>1, <2>2 DEF Go
    <3>2. executions'[m].pc = pc
      BY <1>1, <2>2 DEF Go, Execution
    <3> QED
      BY <2>2, <3>1, <3>2 DEF ExecutionMoves
  <2>3. ASSUME ~At(m, "none"), End(m) PROVE ExecutionMoves(n)
    <3> DEFINE e == [NoExecution EXCEPT !.pc = "ended"]
    <3>1. executions' = [executions EXCEPT ![m] = e] /\ e.pc = "ended"
      BY <1>2, <2>3 DEF End
    <3> HIDE DEF e
    <3>2. (n # m => executions'[n] = executions[n]) /\ executions'[m].pc = "ended"
      BY <1>1, <3>1
    <3> QED
      BY <2>3, <3>2 DEF ExecutionMoves
  <2>4. {"provider", "complete", "check", "caught", "fail"} \subseteq Pcs \ {"none"}
    BY DEF Pcs
  <2>5. CASE Audit(m) \/ ProviderEnds(m) \/ Check(m)
    <3>1. ~At(m, "none") /\ ~At(m, "ended")
      BY <2>5 DEF Audit, ProviderEnds, Check, At
    <3>2. \/ \E pc \in {"provider", "complete", "check", "fail"} : Go(m, pc)
          \/ \E verdict : Throw(m, verdict) \/ FailWith(m, verdict)
      BY <2>5 DEF Audit, ProviderEnds, Check
    <3> QED
      BY <2>2, <2>4, <3>1, <3>2 DEF Throw, FailWith
  <2>6. CASE Complete(m) \/ Fail(m)
    <3>1. ~At(m, "none") /\ ~At(m, "ended")
      BY <2>6 DEF Complete, Fail, At
    <3>2. End(m) \/ \E verdict : Throw(m, verdict)
      BY <2>6 DEF Complete, Fail
    <3> QED
      BY <2>2, <2>3, <2>4, <3>1, <3>2 DEF Throw
  <2>7. CASE Heartbeat(m)
    <3>1. \/ executions' = [executions EXCEPT ![m].aborted = "yes"]
          \/ executions' = [executions EXCEPT ![m].aborted = "yes", ![m].leaseLost = "yes"]
      BY <2>7 DEF Heartbeat
    <3>2. executions'[n].pc = executions[n].pc /\ executions'[n].host = executions[n].host
      BY <1>1, <3>1 DEF Execution
    <3> QED
      BY <3>2 DEF ExecutionMoves
  <2> QED
    BY <1>9, <2>1, <2>5, <2>6, <2>7 DEF Proceed
<1>10. ASSUME NEW q \in Requests, Command(q) PROVE ExecutionMoves(n)
  <2>1. CASE AfterCommit(q)
    <3>1. CommandOf(q) \in Commands /\ EntryOf(q).state = "COMPLETED" /\ HostOf[q] \in Hosts
          /\ requests'[q].pc = "done"
      BY <1>1, <2>1, HostOfAssumption
         DEF AfterCommit, Answer, Answered, Waits, TypeInv, KnownCalls, CommandKnown, Delivered
    <3>2. CASE Kind[CommandOf(q)] = "retry" /\ Execute(EntryOf(q).attempt, HostOf[q])
      <4>1. EntryOf(q).attempt \in Numbers
        BY <3>1, <3>2 DEF TypeInv, Produced, EntryOf
      <4>2. Executes(EntryOf(q).attempt)
        BY <2>1, <3>1, <3>2 DEF Executes, AfterCommit
      <4> QED
        BY <1>6, <3>1, <3>2, <4>1, <4>2
    <3>3. CASE executions' = [executions EXCEPT ![active[HostOf[q]]].aborted = "yes"]
      <4>1. executions'[n].pc = executions[n].pc /\ executions'[n].host = executions[n].host
        BY <1>1, <3>3 DEF Execution
      <4> QED
        BY <4>1 DEF ExecutionMoves
    <3> QED
      BY <1>3, <2>1, <3>2, <3>3 DEF AfterCommit
  <2>2. CASE UNCHANGED executions
    BY <1>3, <2>2
  <2> QED
    BY <1>10, <2>1, <2>2 DEF Command, Accept, Apply, Settle
<1>11. CASE Quarantine \/ UNCHANGED vars
  BY <1>3, <1>11 DEF Quarantine, vars
<1> QED
  BY <1>7, <1>8, <1>9, <1>10, <1>11 DEF Next

\* An attempt fails only as its execution records it and ends.
LEMMA FailureEnds ==
  ASSUME TypedRows, executions \in [Numbers -> Execution], RowsMove,
         NEW n \in Numbers, attempts'[n].state = "FAILED"
  PROVE  attempts[n].state = "FAILED" \/ executions'[n].pc = "ended"
<1>1. CASE Starts
  <2>1. ASSUME NEW command \in Commands \cup {None}, StartAttempt(command)
        PROVE  attempts[n].state = "FAILED"
    <3>1. n # run.attempt + 1
      BY <2>1, StartRows
    <3> QED
      BY <2>1, <3>1, StartRows
  <2> QED
    BY <1>1, <2>1 DEF Starts, Retry
<1>2. CASE Touches
  BY <1>2 DEF Touches
<1>3. CASE Stays
  BY <1>3, LeaseRows DEF Stays
<1>4. ASSUME NEW m \in Numbers, Closes(m)
      PROVE  attempts[n].state = "FAILED" \/ executions'[n].pc = "ended"
  <2>1. CASE m # n
    BY <1>4, <2>1, CloseRows DEF Closes
  <2>2. CASE m = n
    <3>1. Fail(n)
      BY <1>4, <2>2, CloseRows DEF Closes
    <3> DEFINE e == [NoExecution EXCEPT !.pc = "ended"]
    <3>2. executions' = [executions EXCEPT ![n] = e] /\ e.pc = "ended"
      BY <3>1, NoExecutionType DEF Fail, End
    <3> HIDE DEF e
    <3> QED
      BY <3>2
  <2> QED
    BY <2>1, <2>2
<1> QED
  BY <1>1, <1>2, <1>3, <1>4 DEF RowsMove

\* The attempt of a command that is being delivered is known, and its alone.
LEMMA DeliveredAttempt ==
  ASSUME TypeInv, RowInv, CommandInv, NEW q \in Requests, Waits(q, "afterCommit"),
         Kind[CommandOf(q)] = "retry"
  PROVE  /\ CommandOf(q) \in Commands /\ EntryOf(q).attempt \in Numbers
         /\ attempts[EntryOf(q).attempt].by = CommandOf(q)
         /\ EntryOf(q).attempt <= run.attempt
<1>1. CommandOf(q) \in Commands /\ EntryOf(q).state = "COMPLETED"
  BY DEF TypeInv, KnownCalls, CommandKnown, Delivered, Waits
<1>2. EntryOf(q).attempt \in Numbers
  BY <1>1 DEF TypeInv, Produced, EntryOf
<1>3. attempts[EntryOf(q).attempt].by = CommandOf(q)
  BY <1>1, <1>2 DEF CommandInv, CommandActsOnce, EntryOf
<1>4. ~(EntryOf(q).attempt > run.attempt)
  BY <1>1, <1>2, <1>3, NoneAssumption DEF RowInv, FutureAbsent
<1> QED
  BY <1>1, <1>2, <1>3, <1>4 DEF Numbers, TypeInv, TypedRows, Run

LEMMA AttemptGrows ==
  ASSUME TypedRows, RowsMove
  PROVE  run'.attempt >= run.attempt
<1>1. run.attempt \in Int
  BY DEF TypedRows, Run
<1>2. CASE Starts
  <2>1. \E command : StartAttempt(command)
    BY <1>2 DEF Starts, Retry
  <2>2. run'.attempt = run.attempt + 1
    BY <2>1 DEF StartAttempt
  <2> QED
    BY <1>1, <2>2
<1>3. CASE Touches \/ Stays \/ \E n \in Numbers : Closes(n)
  <2>1. run'.attempt = run.attempt
    BY <1>3 DEF Touches, Stays, Closes, CloseAttempt, RequestCancel, TypedRows, Run
  <2> QED
    BY <1>1, <2>1
<1> QED
  BY <1>2, <1>3 DEF RowsMove

\* Which of the requests that will be delivered were already to be delivered.
LEMMA DeliveryMoves ==
  ASSUME TypeInv, [Next]_vars, NEW q \in Requests, requests'[q].pc = "afterCommit"
  PROVE  /\ CommandOf(q) \in Commands /\ requests'[q].command = CommandOf(q)
         /\ \/ Waits(q, "afterCommit") /\ ledger'[CommandOf(q)] = ledger[CommandOf(q)]
               /\ EntryOf(q).state = "COMPLETED"
            \/ EntryOf(q).state = "ACCEPTED" /\ Act(q) /\ Step(q, "afterCommit")
               /\ Waits(q, "execute")
<1>1. TypedRows /\ RowsMove
  BY NextTypes DEF TypeInv
<1>2. CASE requests'[q] = requests[q]
  <2>1. CommandOf(q) \in Commands /\ EntryOf(q).state = "COMPLETED"
    BY <1>2 DEF TypeInv, KnownCalls, CommandKnown, Delivered, Waits
  <2> QED
    BY <1>1, <1>2, <2>1, CompletedStays DEF EntryOf, CommandOf, Waits
<1>3. CASE Waits(q, "execute") /\ Executable(q) /\ Act(q) /\ Step(q, "afterCommit")
  <2>1. CommandOf(q) \in Commands
    BY <1>3 DEF TypeInv, KnownCalls, CommandKnown, Waits
  <2>2. requests'[q].command = CommandOf(q)
    BY <1>3 DEF TypeInv, TypedCalls, Step, CommandOf, Request
  <2> QED
    BY <1>3, <2>1, <2>2 DEF Executable
<1> QED
  BY <1>2, <1>3, RequestsMove DEF TypeInv

LEMMA ExecutionsKept ==
  ASSUME TypeInv, RowInv, CommandInv, ExecutionInv, [Next]_vars
  PROVE  ExecutionInv'
<1>1. TypedRows /\ RowsMove /\ run'.attempt >= run.attempt /\ run.attempt \in Int
      /\ run'.attempt \in Int
  BY NextTypes, AttemptGrows DEF TypeInv, TypedRows, Run
<1>2. \A n \in Numbers : ExecutionMoves(n)
  BY ExecutionsMove DEF ExecutionInv
<1>3. ASSUME NEW n \in Numbers, n > run.attempt, executions'[n].pc # "none"
      PROVE  n = run.attempt + 1 /\ run'.attempt = n /\ StartAttempt(None)
  <2>1. At(n, "none")
    BY <1>3 DEF ExecutionInv, NotStarted
  <2>2. executions'[n].pc = "audit" /\ Executes(n)
    BY <1>2, <1>3, <2>1 DEF ExecutionMoves, At
  <2>3. ASSUME NEW q \in Requests, Waits(q, "afterCommit"), Kind[CommandOf(q)] = "retry",
               n = EntryOf(q).attempt
        PROVE  FALSE
    <3>1. n <= run.attempt
      BY <2>3, DeliveredAttempt
    <3> QED
      BY <1>1, <1>3, <3>1 DEF Numbers
  <2> QED
    BY <2>2, <2>3 DEF Executes
<1>4. NotStarted'
  <2> SUFFICES ASSUME NEW n \in Numbers, n > run'.attempt, executions'[n].pc # "none"
               PROVE  FALSE
    BY DEF NotStarted, At
  <2>1. n > run.attempt /\ run'.attempt # n
    BY <1>1 DEF Numbers
  <2> QED
    BY <1>3, <2>1
<1>5. FailedEnded'
  <2> SUFFICES ASSUME NEW n \in Numbers, attempts'[n].state = "FAILED", executions'[n].pc # "ended"
               PROVE  FALSE
    BY DEF FailedEnded, At
  <2>1. attempts[n].state = "FAILED"
    BY <1>1, FailureEnds DEF TypeInv, TypedCalls
  <2>2. At(n, "ended")
    BY <2>1 DEF ExecutionInv, FailedEnded
  <2>3. Executes(n)
    BY <1>2, <2>2 DEF ExecutionMoves, At
  <2>4. n # run.attempt + 1
    <3>1. n = run.attempt + 1 => n > run.attempt
      BY <1>1
    <3> QED
      BY <2>1, <3>1 DEF RowInv, FutureAbsent
  <2> QED
    BY <2>2, <2>3, <2>4 DEF Executes, ExecutionInv, Undelivered, At
<1>6. NoneHasNoHost'
  <2> SUFFICES ASSUME NEW n \in Numbers, executions'[n].pc = "none"
               PROVE  executions'[n].host = None
    BY DEF NoneHasNoHost, At
  <2>1. executions'[n].pc = executions[n].pc /\ executions'[n].host = executions[n].host
    BY <1>2 DEF ExecutionMoves
  <2> QED
    BY <2>1 DEF ExecutionInv, NoneHasNoHost, At
<1>7. Undelivered'
  <2> SUFFICES ASSUME NEW q \in Requests, requests'[q].pc = "afterCommit"
               PROVE  /\ Kind[requests'[q].command] = "retry" =>
                           executions'[ledger'[requests'[q].command].attempt].pc = "none"
                      /\ \A p \in Requests : p # q /\ requests'[p].pc = "afterCommit" =>
                           requests'[p].command # requests'[q].command
    BY DEF Undelivered, Waits, CommandOf, EntryOf, At
  <2> DEFINE c == CommandOf(q)
  <2>1. c \in Commands /\ requests'[q].command = c
    BY DeliveryMoves
  <2>2. ASSUME NEW p \in Requests, p # q, requests'[p].pc = "afterCommit"
        PROVE  CommandOf(p) # c /\ requests'[p].command = CommandOf(p)
    <3>1. requests'[p].command = CommandOf(p)
      BY <2>2, DeliveryMoves
    <3>2. CASE Waits(q, "afterCommit") /\ Waits(p, "afterCommit")
      BY <2>2, <3>1, <3>2 DEF ExecutionInv, Undelivered
    <3>3. CASE Step(q, "afterCommit") /\ Waits(p, "execute")
      <4>1. requests'[p] = requests[p]
        BY <2>2, <3>3 DEF Step, TypeInv, TypedCalls
      <4> QED
        BY <2>2, <3>3, <4>1 DEF Waits
    <3>4. CASE EntryOf(q).state # EntryOf(p).state
      BY <3>1, <3>4 DEF EntryOf
    <3> QED
      BY <2>2, <3>2, <3>3, <3>4, DeliveryMoves
  <2>3. ASSUME Kind[c] = "retry"
        PROVE  executions'[ledger'[c].attempt].pc = "none"
    <3>1. CASE Waits(q, "afterCommit") /\ ledger'[c] = ledger[c]
      <4> DEFINE a == EntryOf(q).attempt
      <4>1. a \in Numbers /\ attempts[a].by = c /\ a <= run.attempt /\ At(a, "none")
        BY <2>3, <3>1, DeliveredAttempt DEF ExecutionInv, Undelivered
      <4>2. ~Executes(a)
        <5>1. ASSUME NEW p \in Requests, Waits(p, "afterCommit"), Kind[CommandOf(p)] = "retry",
                     a = EntryOf(p).attempt, requests'[p].pc = "done"
              PROVE  FALSE
          <6>1. p # q
            BY <5>1
          <6>2. attempts[a].by = CommandOf(p)
            BY <5>1, DeliveredAttempt
          <6> QED
            BY <3>1, <4>1, <5>1, <6>1, <6>2 DEF ExecutionInv, Undelivered
        <5>2. a # run.attempt + 1
          BY <1>1, <4>1 DEF Numbers
        <5> QED
          BY <5>1, <5>2 DEF Executes
      <4>3. executions'[a].pc = "none"
        BY <1>2, <4>1, <4>2 DEF ExecutionMoves, At
      <4> QED
        BY <3>1, <4>3 DEF EntryOf
    <3>2. CASE EntryOf(q).state = "ACCEPTED" /\ Act(q) /\ Step(q, "afterCommit")
      <4>1. Retry(q)
        BY <2>3, <3>2 DEF Act
      <4>2. StartAttempt(c) /\ ledger'[c].attempt = run.attempt + 1
        BY <2>1, <4>1 DEF Retry, CompleteEntry, TypeInv, TypedRows
      <4>3. run.attempt + 1 \in Numbers /\ run.attempt + 1 > run.attempt
        BY <1>1, <4>2 DEF StartAttempt
      <4>4. ~StartAttempt(None)
        <5>1. attempts'[run.attempt + 1].by = c
          BY <1>1, <2>1, <4>2, StartRows
        <5>2. StartAttempt(None) => attempts'[run.attempt + 1].by = None
          BY <1>1, StartRows
        <5> QED
          BY <2>1, <5>1, <5>2, NoneAssumption
      <4> QED
        BY <1>3, <4>2, <4>3, <4>4
    <3> QED
      BY <3>1, <3>2, DeliveryMoves
  <2> QED
    BY <2>1, <2>2, <2>3
<1> QED
  BY <1>4, <1>5, <1>6, <1>7 DEF ExecutionInv

LEMMA InitExecutions == Init => ExecutionInv
<1> SUFFICES ASSUME Init PROVE ExecutionInv
  OBVIOUS
<1>1. NoExecution.pc = "none" /\ NoExecution.host = None
  BY DEF NoExecution
<1> QED
  BY <1>1 DEF Init, ExecutionInv, NotStarted, FailedEnded, Undelivered, NoneHasNoHost, At, Waits

\* A failed attempt has no execution that could still ask the provider, so the
\* automatic run and the retry that follow a failure never overlap it.
THEOREM FailedIsOverHolds == Spec => []FailedIsOver
<1>1. TypeInv /\ RowInv /\ CommandInv /\ ExecutionInv /\ [Next]_vars => ExecutionInv'
  BY ExecutionsKept
<1>2. ExecutionInv => FailedIsOver
  BY DEF ExecutionInv, FailedEnded, FailedIsOver, At
<1> QED
  BY <1>1, <1>2, InitExecutions, CommandsHold, PTL DEF Spec
=============================================================================
