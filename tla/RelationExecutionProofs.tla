---------------------- MODULE RelationExecutionProofs ----------------------
(* Theorems about RelationExecution, for any number of workers, jobs,       *)
(* provider configurations and lease tokens, any limit, and any number of   *)
(* failures, crashes, restores and expiring leases.                         *)
EXTENDS RelationExecution, FiniteSetTheorems, TLAPS

-----------------------------------------------------------------------------
(* Part 1: the locals of a dispatch                                         *)

\* The literals the actions use.
LEMMA Literals ==
  /\ Pcs = {"idle", "select", "read", "look", "prior", "releasePrior", "reserve",
            "authorize", "activate", "call", "answered", "failed", "store", "finish",
            "retry", "check", "giveBack", "mark", "giveBackAgain", "pause"}
  /\ Flags = {"no", "yes"}
BY DEF Pcs, Flags

LEMMA NoWorkType == NoWork \in Worker
BY SMT DEF NoWork, Worker, Pcs, Flags

\* Where a dispatch has not called the provider yet, knows the configuration it
\* will call, and may call without asking again.
Before == {"read", "look", "prior", "releasePrior", "reserve", "authorize", "activate", "call"}
Keyed == {"prior", "releasePrior", "reserve", "authorize", "activate", "call"}
Armed == {"activate", "call"}

\* What a dispatch's step does to its own locals: it ends, it goes on with its
\* lease and without getting nearer to a call it may not make, it takes a lease,
\* or it arms its claim.
Ends(w) == workers'[w] = NoWork
KeepsLease(w) ==
  workers'[w].token = workers[w].token /\ workers'[w].job = workers[w].job
GoesOn(w) ==
  /\ KeepsLease(w)
  /\ workers'[w].pc \in Before =>
       /\ workers[w].pc \in Before \ {"authorize"}
       /\ workers'[w].pc \in Armed <=> workers[w].pc \in Armed
  /\ workers'[w].pc \in Keyed =>
       workers'[w].key \in Keys \/ (workers[w].pc \in Keyed /\ workers'[w].key = workers[w].key)
Takes(w) ==
  \E t \in Tokens :
    /\ Fresh(t) /\ claims' = [claims EXCEPT ![t] = NoClaim]
    /\ workers'[w].pc = "read" /\ workers'[w].job \in Jobs /\ workers'[w].token = t
Arms(w) ==
  /\ At(w, "authorize") /\ Refundable(TokenOf(w)) /\ Arm(w)
  /\ KeepsLease(w) /\ workers'[w].pc = "activate" /\ workers'[w].key = workers[w].key

\* A step of w leaves the locals of the others alone.
Alone(w) == \A v \in Workers : v # w => workers'[v] = workers[v]

Moves(w) == workers' \in [Workers -> Worker] /\ Alone(w)

\* The ways most steps move a dispatch.
LEMMA Leaves ==
  ASSUME workers \in [Workers -> Worker], NEW w \in Workers, Leave(w)
  PROVE  Moves(w) /\ Ends(w)
<1>1. workers' = [workers EXCEPT ![w] = NoWork]
  BY DEF Leave
<1>2. workers' \in [Workers -> Worker]
  BY <1>1, NoWorkType, Zenon
<1> QED
  BY <1>1, <1>2, Zenon DEF Moves, Ends, Alone

\* One local more than the place may be assigned, the token, job and key apart.
Assigned(w, pc) ==
  \/ workers' = [workers EXCEPT ![w].pc = pc]
  \/ \E flag \in Flags : workers' = [workers EXCEPT ![w].pc = pc, ![w].held = flag]
  \/ \E flag \in Flags : workers' = [workers EXCEPT ![w].pc = pc, ![w].activated = flag]
  \/ \E t \in Tokens : workers' = [workers EXCEPT ![w].pc = pc, ![w].prior = t]

LEMMA Assigns ==
  ASSUME workers \in [Workers -> Worker], NEW w \in Workers, NEW pc \in Pcs, Assigned(w, pc)
  PROVE  /\ Moves(w) /\ KeepsLease(w)
         /\ workers'[w].pc = pc /\ workers'[w].key = workers[w].key
<1> DEFINE Goal == /\ Moves(w) /\ KeepsLease(w)
                   /\ workers'[w].pc = pc /\ workers'[w].key = workers[w].key
<1>0. workers[w] \in Worker
  OBVIOUS
<1>1. CASE workers' = [workers EXCEPT ![w].pc = pc]
  <2>1. workers' \in [Workers -> Worker] /\ Alone(w)
    BY <1>1, Zenon DEF Worker, Alone
  <2>2. KeepsLease(w) /\ workers'[w].pc = pc /\ workers'[w].key = workers[w].key
    BY <1>0, <1>1, SMT DEF Worker, KeepsLease
  <2> QED
    BY <2>1, <2>2 DEF Moves
<1>2. ASSUME NEW flag \in Flags, workers' = [workers EXCEPT ![w].pc = pc, ![w].held = flag]
      PROVE  Goal
  <2>1. workers' \in [Workers -> Worker] /\ Alone(w)
    BY <1>2, Zenon DEF Worker, Alone
  <2>2. KeepsLease(w) /\ workers'[w].pc = pc /\ workers'[w].key = workers[w].key
    BY <1>0, <1>2, SMT DEF Worker, KeepsLease
  <2> QED
    BY <2>1, <2>2 DEF Moves
<1>3. ASSUME NEW flag \in Flags,
             workers' = [workers EXCEPT ![w].pc = pc, ![w].activated = flag]
      PROVE  Goal
  <2>1. workers' \in [Workers -> Worker] /\ Alone(w)
    BY <1>3, Zenon DEF Worker, Alone
  <2>2. KeepsLease(w) /\ workers'[w].pc = pc /\ workers'[w].key = workers[w].key
    BY <1>0, <1>3, SMT DEF Worker, KeepsLease
  <2> QED
    BY <2>1, <2>2 DEF Moves
<1>4. ASSUME NEW t \in Tokens, workers' = [workers EXCEPT ![w].pc = pc, ![w].prior = t]
      PROVE  Goal
  <2>1. workers' \in [Workers -> Worker] /\ Alone(w)
    BY <1>4, Zenon DEF Worker, Alone
  <2>2. KeepsLease(w) /\ workers'[w].pc = pc /\ workers'[w].key = workers[w].key
    BY <1>0, <1>4, SMT DEF Worker, KeepsLease
  <2> QED
    BY <2>1, <2>2 DEF Moves
<1> QED
  BY <1>1, <1>2, <1>3, <1>4 DEF Assigned

\* Such a step goes on, unless it takes the dispatch nearer to the call.
LEMMA Going ==
  ASSUME workers \in [Workers -> Worker], NEW w \in Workers, NEW pc \in Pcs, Assigned(w, pc),
         pc \in Before => /\ workers[w].pc \in Before \ {"authorize"}
                          /\ pc \in Armed <=> workers[w].pc \in Armed,
         pc \in Keyed => workers[w].pc \in Keyed
  PROVE  Moves(w) /\ GoesOn(w)
<1>1. /\ Moves(w) /\ KeepsLease(w)
      /\ workers'[w].pc = pc /\ workers'[w].key = workers[w].key
  BY Assigns
<1> QED
  BY <1>1, Zenon DEF GoesOn

LEMMA DispatchMoves ==
  ASSUME workers \in [Workers -> Worker], NEW w \in Workers, Dispatch(w)
  PROVE  Moves(w) /\ (Ends(w) \/ GoesOn(w) \/ Takes(w) \/ Arms(w))
<1> DEFINE Goal == Moves(w) /\ (Ends(w) \/ GoesOn(w) \/ Takes(w) \/ Arms(w))
<1>a. ASSUME Leave(w) PROVE Goal
  BY <1>a, Leaves
\* Where a failure leads is before no call.
<1>b. ASSUME NEW pc \in {"check", "mark", "finish", "retry", "store", "giveBack", "answered",
                        "failed", "giveBackAgain", "pause", "select"},
             Assigned(w, pc)
      PROVE  Goal
  <2>1. /\ pc \in Pcs /\ pc \notin Before /\ pc \notin Armed /\ pc \notin Keyed
    BY DEF Pcs, Before, Armed, Keyed
  <2> QED
    BY <1>b, <2>1, Going
<1>c. ASSUME Fail(w) PROVE Goal
  <2>1. \E pc \in {"check", "mark"} : Assigned(w, pc)
    BY <1>c, Zenon DEF Fail, Goto, Assigned
  <2> QED
    BY <1>b, <2>1
<1>d. ASSUME NEW pc \in {"look", "prior", "releasePrior", "reserve", "authorize", "call"},
             Assigned(w, pc),
             \/ pc = "look" /\ At(w, "read")
             \/ pc = "releasePrior" /\ At(w, "prior")
             \/ pc = "reserve" /\ (At(w, "prior") \/ At(w, "releasePrior"))
             \/ pc = "authorize" /\ At(w, "reserve")
             \/ pc = "call" /\ At(w, "activate")
      PROVE  Goal
  <2>1. /\ pc \in Pcs
        /\ workers[w].pc \in Before \ {"authorize"}
        /\ pc \in Armed <=> workers[w].pc \in Armed
        /\ pc \in Keyed => workers[w].pc \in Keyed
    BY <1>d DEF At, Pcs, Before, Armed, Keyed
  <2> QED
    BY <1>d, <2>1, Going
<1>1. CASE RecoverExpired(w)
  BY <1>1, <1>b DEF RecoverExpired, Goto, Assigned
<1>2. CASE ClaimNext(w)
  <2>1. ASSUME NEW j \in Jobs, NEW t \in Tokens, Fresh(t),
               claims' = [claims EXCEPT ![t] = NoClaim],
               workers' = [workers EXCEPT ![w] =
                 [NoWork EXCEPT !.pc = "read", !.job = j, !.token = t]]
        PROVE  Goal
    <3> DEFINE row == [NoWork EXCEPT !.pc = "read", !.job = j, !.token = t]
    <3>1. /\ row \in Worker /\ row.pc = "read" /\ row.job = j /\ row.token = t
      <4>1. "read" \in Pcs /\ j \in Jobs \cup {None} /\ t \in Tokens \cup {None}
        BY DEF Pcs
      <4>2. row \in Worker
        BY <4>1, NoWorkType, Zenon DEF Worker
      <4>3. row.pc = "read" /\ row.job = j /\ row.token = t
        BY SMT DEF NoWork
      <4> QED
        BY <4>2, <4>3
    <3> HIDE DEF row
    <3>2. workers' = [workers EXCEPT ![w] = row]
      BY <2>1 DEF row
    <3>3. workers' \in [Workers -> Worker] /\ Alone(w) /\ workers'[w] = row
      BY <3>1, <3>2, Zenon DEF Alone
    <3> QED
      BY <2>1, <3>1, <3>3 DEF Moves, Takes
  <2> QED
    BY <1>2, <1>a, <2>1 DEF ClaimNext
<1>3. CASE ReadStored(w)
  BY <1>3, <1>b, <1>d DEF ReadStored, Goto, Assigned
<1>4. CASE ReadExecution(w)
  <2>1. ASSUME NEW k \in Keys, NEW pc \in {"prior", "finish"}, At(w, "look"),
               workers' = [workers EXCEPT ![w] = [workers[w] EXCEPT !.key = k, !.pc = pc]]
        PROVE  Goal
    <3> DEFINE row == [workers[w] EXCEPT !.key = k, !.pc = pc]
    <3>1. /\ row \in Worker /\ row.pc = pc /\ row.key = k
          /\ row.job = workers[w].job /\ row.token = workers[w].token
      <4>1. workers[w] \in Worker /\ pc \in Pcs
        BY DEF Pcs
      <4>2. row \in Worker
        BY <4>1, Zenon DEF Worker
      <4> QED
        BY <4>1, <4>2, SMT DEF Worker
    <3> HIDE DEF row
    <3>2. workers' = [workers EXCEPT ![w] = row]
      BY <2>1 DEF row
    <3>3. workers' \in [Workers -> Worker] /\ Alone(w) /\ workers'[w] = row
      BY <3>1, <3>2, Zenon DEF Alone
    <3>4. workers[w].pc = "look" /\ pc \notin Armed
      BY <2>1 DEF At, Armed
    <3> QED
      BY <3>1, <3>3, <3>4 DEF Moves, GoesOn, KeepsLease, Before, Armed
  <2>2. ASSUME workers' = [workers EXCEPT ![w] = NoWork]
        PROVE  Goal
    BY <1>a, <2>2 DEF Leave
  <2>3. ASSUME Goto(w, "retry") PROVE Goal
    BY <1>b, <2>3 DEF Goto, Assigned
  <2> QED
    <3>1. ASSUME NEW k \in Keys,
                 workers' = [workers EXCEPT ![w] =
                   IF receipts[JobOf(w)][k].state \in {"RUNNING", "OUTCOME_UNKNOWN"} THEN NoWork
                   ELSE [workers[w] EXCEPT !.key = k,
                           !.pc = IF receipts[JobOf(w)][k].state = "ABSENT"
                                  THEN "prior" ELSE "finish"]]
          PROVE  Goal
      <4>1. CASE receipts[JobOf(w)][k].state \in {"RUNNING", "OUTCOME_UNKNOWN"}
        BY <2>2, <3>1, <4>1
      <4>2. CASE receipts[JobOf(w)][k].state = "ABSENT"
        BY <1>4, <2>1, <3>1, <4>2 DEF ReadExecution
      <4>3. CASE receipts[JobOf(w)][k].state \notin {"RUNNING", "OUTCOME_UNKNOWN", "ABSENT"}
        BY <1>4, <2>1, <3>1, <4>3 DEF ReadExecution
      <4> QED
        BY <4>1, <4>2, <4>3
    <3> QED
      BY <1>4, <2>3, <3>1 DEF ReadExecution
<1>5. CASE Retry(w)
  BY <1>5, <1>a DEF Retry
<1>6. CASE ReadPrior(w)
  <2>1. ASSUME NEW t \in Tokens,
               workers' = [workers EXCEPT ![w].pc = "releasePrior", ![w].prior = t]
        PROVE  Goal
    BY <1>6, <1>d, <2>1 DEF ReadPrior, Assigned
  <2>2. ASSUME Goto(w, "reserve") PROVE Goal
    BY <1>6, <1>d, <2>2 DEF ReadPrior, Goto, Assigned
  <2> QED
    BY <1>6, <1>c, <2>1, <2>2 DEF ReadPrior, Reserved
<1>7. CASE ReleasePrior(w)
  <2>1. ASSUME Goto(w, "reserve") PROVE Goal
    BY <1>7, <1>d, <2>1 DEF ReleasePrior, Goto, Assigned
  <2> QED
    BY <1>7, <1>c, <2>1 DEF ReleasePrior
<1>8. CASE ReserveAttempt(w)
  <2>1. ASSUME workers' = [workers EXCEPT ![w].pc = "authorize", ![w].held = "yes"]
        PROVE  Goal
    BY <1>8, <1>d, <2>1, Literals DEF ReserveAttempt, Assigned
  <2> QED
    BY <1>8, <1>c, <2>1 DEF ReserveAttempt
<1>9. CASE AuthorizeExecution(w)
  <2>1. ASSUME Refundable(TokenOf(w)), Arm(w), Goto(w, "activate") PROVE Goal
    BY <1>9, <2>1, Assigns, Literals DEF AuthorizeExecution, Goto, Assigned, Arms
  <2> QED
    BY <1>9, <1>c, <2>1 DEF AuthorizeExecution
<1>10. CASE Activate(w)
  <2>1. ASSUME workers' = [workers EXCEPT ![w].pc = "call", ![w].activated = "yes"]
        PROVE  Goal
    BY <1>10, <1>d, <2>1, Literals DEF Activate, Assigned
  <2> QED
    BY <1>10, <1>c, <2>1 DEF Activate
<1>11. CASE CallProvider(w)
  BY <1>11, <1>b DEF CallProvider, Goto, Assigned
<1>12. CASE SettleAnswered(w) \/ SettleFailed(w)
  BY <1>12, <1>b DEF SettleAnswered, SettleFailed, Goto, Assigned
<1>13. CASE StoreOutput(w)
  BY <1>13, <1>b DEF StoreOutput, Goto, Assigned
<1>14. CASE Finish(w)
  <2>1. ASSUME UNCHANGED workers PROVE Goal
    BY <1>14, <2>1 DEF Finish, At, Moves, Alone, GoesOn, KeepsLease, Before, Keyed
  <2> QED
    BY <1>14, <1>a, <2>1 DEF Finish
<1>15. CASE CheckActivated(w)
  BY <1>15, <1>b, Literals DEF CheckActivated, Goto, Assigned
<1>16. CASE GiveBack(w)
  BY <1>16, <1>b DEF GiveBack, Goto, Assigned
<1>17. CASE MarkUnknown(w)
  BY <1>17, <1>a, <1>b DEF MarkUnknown, Goto, Assigned
<1>18. CASE Pause(w)
  BY <1>18, <1>a DEF Pause
<1> QED
  BY <1>1, <1>2, <1>3, <1>4, <1>5, <1>6, <1>7, <1>8, <1>9, <1>10, <1>11, <1>12, <1>13,
     <1>14, <1>15, <1>16, <1>17, <1>18 DEF Dispatch
-----------------------------------------------------------------------------
(* Part 2: the rows keep their shape                                        *)

\* Before the call a dispatch has a token and a job, and soon a configuration.
Held ==
  \A w \in Workers :
    /\ workers[w].pc \in Before => TokenOf(w) \in Tokens /\ JobOf(w) \in Jobs
    /\ workers[w].pc \in Keyed => KeyOf(w) \in Keys

TypeInv == TypeOK /\ Held

LEMMA JobsType ==
  ASSUME TypeOK, NEW w \in Workers, Dispatch(w)
  PROVE  jobs' \in [Jobs -> Job]
<1>a. jobs \in [Jobs -> Job]
  BY DEF TypeOK
<1>b. \A status \in {"RETRYABLE", "PENDING", "COMPLETED", "OUTCOME_UNKNOWN"} :
        [NoJob EXCEPT !.status = status] \in Job
  BY SMT DEF NoJob, Job, JobStates
<1>c. \A status \in {"RETRYABLE", "PENDING", "COMPLETED", "OUTCOME_UNKNOWN"} :
        Released(JobOf(w), status) \in [Jobs -> Job]
  <2>1. ASSUME NEW row \in Job PROVE [jobs EXCEPT ![JobOf(w)] = row] \in [Jobs -> Job]
    BY <1>a, Zenon
  <2> QED
    BY <1>b, <2>1 DEF Released
<1>1. Released(JobOf(w), "RETRYABLE") \in [Jobs -> Job]
  BY <1>c
<1>2. Released(JobOf(w), "PENDING") \in [Jobs -> Job]
  BY <1>c
<1>3. Released(JobOf(w), "COMPLETED") \in [Jobs -> Job]
  BY <1>c
<1>4. Released(JobOf(w), "OUTCOME_UNKNOWN") \in [Jobs -> Job]
  BY <1>c
<1>5. CASE RecoverExpired(w)
  <2>1. [NoJob EXCEPT !.status = "OUTCOME_UNKNOWN"] \in Job
    BY <1>b
  <2>2. jobs' = [j \in Jobs |->
          IF Expired(j) /\ \E k \in Keys : Unsettled(j, k)
          THEN [NoJob EXCEPT !.status = "OUTCOME_UNKNOWN"] ELSE jobs[j]]
    BY <1>5 DEF RecoverExpired
  <2> QED
    BY <1>a, <2>1, <2>2
<1>6. CASE ClaimNext(w)
  <2>1. ASSUME NEW j \in Jobs, NEW t \in Tokens
        PROVE  [jobs EXCEPT ![j] = [status |-> "RUNNING", token |-> t, lease |-> "live"]]
                 \in [Jobs -> Job]
    <3>1. [status |-> "RUNNING", token |-> t, lease |-> "live"] \in Job
      BY SMT DEF Job, JobStates
    <3> QED
      BY <1>a, <3>1, Zenon
  <2>2. \/ UNCHANGED jobs
        \/ \E j \in Jobs, t \in Tokens :
             jobs' = [jobs EXCEPT ![j] = [status |-> "RUNNING", token |-> t, lease |-> "live"]]
    BY <1>6, Zenon DEF ClaimNext
  <2> QED
    BY <1>a, <2>1, <2>2, Zenon
<1>7. CASE Retry(w) \/ Pause(w)
  BY <1>a, <1>1, <1>7 DEF Retry, Pause
<1>8. CASE StoreOutput(w)
  BY <1>a, <1>2, <1>8 DEF StoreOutput, Save, local
<1>9. CASE Finish(w)
  BY <1>a, <1>3, <1>9 DEF Finish
<1>10. CASE MarkUnknown(w)
  BY <1>a, <1>4, <1>10 DEF MarkUnknown, local
<1>11. CASE UNCHANGED jobs
  BY <1>a, <1>11
<1> QED
  BY <1>5, <1>6, <1>7, <1>8, <1>9, <1>10, <1>11 DEF Dispatch, ReadStored, ReadExecution,
     ReadPrior, ReleasePrior, ReserveAttempt, AuthorizeExecution, Activate, CallProvider,
     SettleAnswered, SettleFailed, CheckActivated, GiveBack, local

LEMMA ReceiptState ==
  \A row \in Receipt : \A state \in ReceiptStates : [row EXCEPT !.state = state] \in Receipt
BY Zenon DEF Receipt

\* An assignment outside the rows that exist assigns nothing.
LEMMA ReceiptTypes ==
  ASSUME receipts \in [Jobs -> [Keys -> Receipt]], NEW j, NEW k
  PROVE  /\ \A row \in Receipt :
              [receipts EXCEPT ![j][k] = row] \in [Jobs -> [Keys -> Receipt]]
         /\ \A state \in ReceiptStates :
              [receipts EXCEPT ![j][k].state = state] \in [Jobs -> [Keys -> Receipt]]
<1>1. \A rows \in [Keys -> Receipt] :
        [receipts EXCEPT ![j] = rows] \in [Jobs -> [Keys -> Receipt]]
  BY Zenon
<1>2. ASSUME j \notin Jobs, NEW x
      PROVE  [receipts EXCEPT ![j] = x] = receipts
  BY <1>2
<1>3. ASSUME NEW row \in Receipt
      PROVE  [receipts EXCEPT ![j][k] = row] \in [Jobs -> [Keys -> Receipt]]
  <2>1. CASE j \in Jobs
    <3>1. [receipts[j] EXCEPT ![k] = row] \in [Keys -> Receipt]
      BY <2>1, Zenon
    <3> QED
      BY <1>1, <3>1, Zenon
  <2>2. CASE j \notin Jobs
    BY <1>2, <2>2, Zenon
  <2> QED
    BY <2>1, <2>2
<1>4. ASSUME NEW state \in ReceiptStates
      PROVE  [receipts EXCEPT ![j][k].state = state] \in [Jobs -> [Keys -> Receipt]]
  <2>1. CASE j \in Jobs
    <3>1. CASE k \in Keys
      <4>0. receipts[j][k] \in Receipt
        BY <2>1, <3>1
      <4>1. [receipts[j][k] EXCEPT !.state = state] \in Receipt
        BY <4>0, ReceiptState
      <4>2. [receipts[j] EXCEPT ![k].state = state] \in [Keys -> Receipt]
        BY <2>1, <4>1, Zenon
      <4> QED
        BY <1>1, <4>2, Zenon
    <3>2. CASE k \notin Keys
      <4>1. [receipts[j] EXCEPT ![k].state = state] = receipts[j]
        BY <2>1, <3>2
      <4> QED
        BY <1>1, <2>1, <4>1, Zenon
    <3> QED
      BY <3>1, <3>2
  <2>2. CASE j \notin Jobs
    BY <1>2, <2>2, Zenon
  <2> QED
    BY <2>1, <2>2
<1> QED
  BY <1>3, <1>4

LEMMA ReceiptsType ==
  ASSUME TypeOK, Held, NEW w \in Workers, Dispatch(w)
  PROVE  receipts' \in [Jobs -> [Keys -> Receipt]]
<1>a. receipts \in [Jobs -> [Keys -> Receipt]]
  BY DEF TypeOK
<1>1. CASE RecoverExpired(w)
  <2>1. ASSUME NEW j \in Jobs, NEW k \in Keys
        PROVE  [receipts[j][k] EXCEPT !.state = "OUTCOME_UNKNOWN"] \in Receipt
    <3>1. receipts[j][k] \in Receipt /\ "OUTCOME_UNKNOWN" \in ReceiptStates
      BY <1>a DEF ReceiptStates
    <3> QED
      BY <3>1, ReceiptState
  <2>2. receipts' = [j \in Jobs |-> [k \in Keys |->
          IF Expired(j) /\ receipts[j][k].state = "RUNNING"
          THEN [receipts[j][k] EXCEPT !.state = "OUTCOME_UNKNOWN"] ELSE receipts[j][k]]]
    BY <1>1 DEF RecoverExpired
  <2> QED
    BY <1>a, <2>1, <2>2, Zenon
<1>2. CASE Activate(w)
  <2>1. TokenOf(w) \in Tokens /\ JobOf(w) \in Jobs /\ KeyOf(w) \in Keys
    BY <1>2 DEF Activate, At, Held, Before, Keyed
  <2>2. [state |-> "RUNNING", claim |-> TokenOf(w)] \in Receipt
    BY <2>1, SMT DEF Receipt, ReceiptStates
  <2>3. WriteReceipt(w) => receipts' \in [Jobs -> [Keys -> Receipt]]
    BY <1>a, <2>1, <2>2, ReceiptTypes DEF WriteReceipt
  <2> QED
    BY <1>a, <1>2, <2>3 DEF Activate
<1>3. CASE StoreOutput(w)
  <2>1. "OUTPUT_STORED" \in ReceiptStates
    BY DEF ReceiptStates
  <2>2. [receipts EXCEPT ![JobOf(w)][KeyOf(w)].state = "OUTPUT_STORED"]
          \in [Jobs -> [Keys -> Receipt]]
    BY <1>a, <2>1, ReceiptTypes
  <2> QED
    BY <1>a, <1>3, <2>2 DEF StoreOutput, Save, local
<1>4. CASE MarkUnknown(w)
  <2> DEFINE unknown == [receipts EXCEPT ![JobOf(w)][KeyOf(w)].state =
                           IF @ = "RUNNING" THEN "OUTCOME_UNKNOWN" ELSE @]
  <2>1. unknown \in [Jobs -> [Keys -> Receipt]]
    <3>1. CASE receipts[JobOf(w)][KeyOf(w)].state = "RUNNING"
      <4>1. unknown = [receipts EXCEPT ![JobOf(w)][KeyOf(w)].state = "OUTCOME_UNKNOWN"]
        BY <3>1
      <4>2. "OUTCOME_UNKNOWN" \in ReceiptStates
        BY DEF ReceiptStates
      <4> QED
        BY <1>a, <4>1, <4>2, ReceiptTypes
    <3>2. CASE receipts[JobOf(w)][KeyOf(w)].state # "RUNNING"
      <4>1. unknown = receipts
        BY <1>a, <3>2 DEF Receipt
      <4> QED
        BY <1>a, <4>1
    <3> QED
      BY <3>1, <3>2
  <2>2. receipts' = unknown \/ receipts' = receipts
    BY <1>4 DEF MarkUnknown, local
  <2> QED
    BY <1>a, <2>1, <2>2
<1>5. CASE UNCHANGED receipts
  BY <1>a, <1>5
<1> QED
  BY <1>1, <1>2, <1>3, <1>4, <1>5 DEF Dispatch, ClaimNext, ReadStored, ReadExecution, Retry,
     ReadPrior, ReleasePrior, ReserveAttempt, AuthorizeExecution, CallProvider,
     SettleAnswered, SettleFailed, Finish, CheckActivated, GiveBack, Pause, local

-----------------------------------------------------------------------------
(* Part 3: what a step does to a claim                                      *)

Counts == {"RESERVED", "PROVIDER_SUCCEEDED", "PROVIDER_FAILED"}

\* It is kept, stays unarmed, is settled, is a new one, is counted, or is armed.
ClaimMoves(w, t) ==
  \/ claims'[t] = claims[t]
  \/ claims[t].armed = "no" /\ claims'[t].armed = "no"
  \/ claims[t].armed = "yes" /\ claims'[t].armed = "yes" /\ claims'[t].state \in Counts
  \/ Fresh(t) /\ claims'[t] = NoClaim
  \/ At(w, "reserve") /\ t = TokenOf(w) /\ claims'[t].armed = "no"
  \/ /\ At(w, "authorize") /\ t = TokenOf(w) /\ Refundable(t)
     /\ claims'[t].armed = "yes" /\ claims'[t].state \in Counts

LEMMA ClaimState ==
  \A row \in Claim : \A state \in ClaimStates :
    /\ [row EXCEPT !.state = state] \in Claim
    /\ [row EXCEPT !.state = state].state = state
    /\ [row EXCEPT !.state = state].armed = row.armed
<1>1. \A row \in Claim : \A state \in ClaimStates : [row EXCEPT !.state = state] \in Claim
  BY Zenon DEF Claim
<1>2. \A row \in Claim : \A state \in ClaimStates :
        /\ [row EXCEPT !.state = state].state = state
        /\ [row EXCEPT !.state = state].armed = row.armed
  BY SMT DEF Claim
<1> QED
  BY <1>1, <1>2

\* One row of the claims is assigned; an attempt without a row has none.
LEMMA ClaimAssigned ==
  ASSUME claims \in [Tokens -> Claim], NEW t, NEW row \in Claim,
         claims' = [claims EXCEPT ![t] = row]
  PROVE  /\ claims' \in [Tokens -> Claim]
         /\ \A u \in Tokens : u # t => claims'[u] = claims[u]
         /\ t \in Tokens => claims'[t] = row
<1>1. claims' \in [Tokens -> Claim]
  BY Zenon
<1>2. /\ \A u \in Tokens : u # t => claims'[u] = claims[u]
      /\ t \in Tokens => claims'[t] = row
  BY Zenon
<1> QED
  BY <1>1, <1>2

LEMMA ClaimStateAssigned ==
  ASSUME claims \in [Tokens -> Claim], NEW t, NEW state \in ClaimStates,
         claims' = [claims EXCEPT ![t].state = state]
  PROVE  /\ claims' \in [Tokens -> Claim]
         /\ \A u \in Tokens : u # t => claims'[u] = claims[u]
         /\ t \in Tokens => claims'[t].state = state /\ claims'[t].armed = claims[t].armed
<1>1. CASE t \in Tokens
  <2>1. claims[t] \in Claim
    BY <1>1
  <2> DEFINE row == [claims[t] EXCEPT !.state = state]
  <2>2. row \in Claim /\ row.state = state /\ row.armed = claims[t].armed
    BY <2>1, ClaimState
  <2>3. claims' = [claims EXCEPT ![t] = row]
    OBVIOUS
  <2> HIDE DEF row
  <2> QED
    BY <2>2, <2>3, ClaimAssigned
<1>2. CASE t \notin Tokens
  <2>1. claims' = claims
    BY <1>2
  <2> QED
    BY <1>2, <2>1
<1> QED
  BY <1>1, <1>2

LEMMA Releases ==
  ASSUME TypeOK, NEW t, ReleaseUnused(t) \/ UNCHANGED authority
  PROVE  /\ claims' \in [Tokens -> Claim] /\ usage' \in [1..Days -> Nat]
         /\ \A w : \A u \in Tokens : ClaimMoves(w, u)
<1>a. claims \in [Tokens -> Claim] /\ usage \in [1..Days -> Nat]
  BY DEF TypeOK
<1>1. CASE UNCHANGED authority
  BY <1>a, <1>1 DEF authority, ClaimMoves
<1>2. CASE /\ Refundable(t)
           /\ claims' = [claims EXCEPT ![t].state = "RELEASED"]
           /\ usage' = [usage EXCEPT ![claims[t].day] = IF @ > 0 THEN @ - 1 ELSE @]
  <2>1. "RELEASED" \in ClaimStates
    BY DEF ClaimStates
  <2>2. /\ claims' \in [Tokens -> Claim]
        /\ \A u \in Tokens : u # t => claims'[u] = claims[u]
        /\ t \in Tokens => claims'[t].armed = claims[t].armed
    BY <1>a, <1>2, <2>1, ClaimStateAssigned
  <2>3. \A d \in 1..Days : usage'[d] \in Nat
    <3>1. ASSUME NEW n \in Nat PROVE (IF n > 0 THEN n - 1 ELSE n) \in Nat
      BY SMT
    <3> QED
      BY <1>a, <1>2, <3>1
  <2>4. usage' \in [1..Days -> Nat]
    BY <1>a, <1>2, <2>3
  <2> QED
    BY <1>2, <2>2, <2>4 DEF ClaimMoves, Refundable
<1> QED
  BY <1>1, <1>2 DEF ReleaseUnused

LEMMA Settles ==
  ASSUME TypeOK, NEW w, NEW state \in {"PROVIDER_SUCCEEDED", "PROVIDER_FAILED"},
         SettleAs(w, state) \/ UNCHANGED claims
  PROVE  claims' \in [Tokens -> Claim] /\ \A u \in Tokens : ClaimMoves(w, u)
<1>a. claims \in [Tokens -> Claim]
  BY DEF TypeOK
<1>1. CASE UNCHANGED claims
  BY <1>a, <1>1 DEF ClaimMoves
<1>2. CASE /\ claims[TokenOf(w)].armed = "yes"
           /\ claims' = [claims EXCEPT ![TokenOf(w)].state = state]
  <2>1. state \in ClaimStates
    BY DEF ClaimStates
  <2>2. /\ claims' \in [Tokens -> Claim]
        /\ \A u \in Tokens : u # TokenOf(w) => claims'[u] = claims[u]
        /\ TokenOf(w) \in Tokens => /\ claims'[TokenOf(w)].state = state
                                   /\ claims'[TokenOf(w)].armed = claims[TokenOf(w)].armed
    BY <1>a, <1>2, <2>1, ClaimStateAssigned
  <2> QED
    BY <1>2, <2>2 DEF ClaimMoves, Counts
<1> QED
  BY <1>1, <1>2 DEF SettleAs

LEMMA DispatchClaims ==
  ASSUME TypeOK, Held, NEW w \in Workers, Dispatch(w)
  PROVE  /\ claims' \in [Tokens -> Claim] /\ usage' \in [1..Days -> Nat]
         /\ \A t \in Tokens : ClaimMoves(w, t)
<1> DEFINE Goal == /\ claims' \in [Tokens -> Claim] /\ usage' \in [1..Days -> Nat]
                   /\ \A t \in Tokens : ClaimMoves(w, t)
<1>a. claims \in [Tokens -> Claim] /\ usage \in [1..Days -> Nat] /\ today \in 1..Days
  BY DEF TypeOK
<1>b. ASSUME UNCHANGED authority PROVE Goal
  BY <1>a, <1>b DEF authority, ClaimMoves
<1>c. ASSUME NEW t, ReleaseUnused(t) PROVE Goal
  BY <1>c, Releases
<1>1. CASE ClaimNext(w)
  <2>1. ASSUME NEW t \in Tokens, Fresh(t), claims' = [claims EXCEPT ![t] = NoClaim],
               UNCHANGED usage
        PROVE  Goal
    <3>1. NoClaim \in Claim
      BY <1>a, BoundsAssumption, SMT DEF NoClaim, Claim, ClaimStates, Flags
    <3>2. /\ claims' \in [Tokens -> Claim]
          /\ \A u \in Tokens : u # t => claims'[u] = claims[u]
          /\ claims'[t] = NoClaim
      BY <1>a, <2>1, <3>1, ClaimAssigned
    <3> QED
      BY <1>a, <2>1, <3>2 DEF ClaimMoves
  <2> QED
    BY <1>1, <1>b, <2>1 DEF ClaimNext, authority
<1>2. CASE ReleasePrior(w)
  BY <1>2, <1>b, <1>c DEF ReleasePrior
<1>3. CASE ReserveAttempt(w)
  <2>1. ASSUME CountClaim(w) PROVE Goal
    <3>1. TokenOf(w) \in Tokens /\ JobOf(w) \in Jobs /\ At(w, "reserve")
      BY <1>3 DEF ReserveAttempt, At, Held, Before
    <3> DEFINE row == [state |-> "RESERVED", job |-> JobOf(w), day |-> today, armed |-> "no"]
    <3>2. row \in Claim /\ row.armed = "no"
      BY <1>a, <3>1, SMT DEF Claim, ClaimStates, Flags
    <3>3. claims' = [claims EXCEPT ![TokenOf(w)] = row]
      BY <2>1 DEF CountClaim
    <3>4. usage' \in [1..Days -> Nat]
      BY <1>a, <2>1, SMT DEF CountClaim
    <3> HIDE DEF row
    <3>5. /\ claims' \in [Tokens -> Claim]
          /\ \A u \in Tokens : u # TokenOf(w) => claims'[u] = claims[u]
          /\ claims'[TokenOf(w)] = row
      BY <1>a, <3>1, <3>2, <3>3, ClaimAssigned
    <3> QED
      BY <3>1, <3>2, <3>4, <3>5 DEF ClaimMoves
  <2> QED
    BY <1>3, <1>b, <2>1 DEF ReserveAttempt
<1>4. CASE AuthorizeExecution(w)
  <2>1. ASSUME Refundable(TokenOf(w)), Arm(w), UNCHANGED usage PROVE Goal
    <3>1. TokenOf(w) \in Tokens /\ At(w, "authorize")
      BY <1>4 DEF AuthorizeExecution, At, Held, Before
    <3> DEFINE row == [claims[TokenOf(w)] EXCEPT !.armed = "yes"]
    <3>2. claims[TokenOf(w)] \in Claim
      BY <1>a, <3>1
    <3>3. row \in Claim
      BY <3>2, Literals, Zenon DEF Claim
    <3>4. row.armed = "yes" /\ row.state = claims[TokenOf(w)].state
      BY <3>2, SMT DEF Claim
    <3>5. claims' = [claims EXCEPT ![TokenOf(w)] = row]
      BY <2>1 DEF Arm
    <3> HIDE DEF row
    <3>6. /\ claims' \in [Tokens -> Claim]
          /\ \A u \in Tokens : u # TokenOf(w) => claims'[u] = claims[u]
          /\ claims'[TokenOf(w)] = row
      BY <1>a, <3>1, <3>3, <3>5, ClaimAssigned
    <3>7. row.state \in Counts
      BY <2>1, <3>4 DEF Refundable, Counts
    <3> QED
      BY <1>a, <2>1, <3>1, <3>4, <3>6, <3>7 DEF ClaimMoves
  <2> QED
    BY <1>4, <1>b, <2>1 DEF AuthorizeExecution, authority
<1>5. CASE SettleAnswered(w) \/ SettleFailed(w)
  <2>1. UNCHANGED usage
    BY <1>5 DEF SettleAnswered, SettleFailed
  <2>2. ASSUME UNCHANGED claims PROVE Goal
    BY <1>b, <2>1, <2>2 DEF authority
  <2>3. ASSUME NEW state \in {"PROVIDER_SUCCEEDED", "PROVIDER_FAILED"}, SettleAs(w, state)
        PROVE  Goal
    BY <1>a, <2>1, <2>3, Settles
  <2> QED
    BY <1>5, <2>2, <2>3 DEF SettleAnswered, SettleFailed
<1>6. CASE GiveBack(w)
  BY <1>6, <1>b, <1>c DEF GiveBack
<1> QED
  BY <1>1, <1>2, <1>3, <1>4, <1>5, <1>6, <1>b DEF Dispatch, RecoverExpired, ReadStored,
     ReadExecution, Retry, ReadPrior, Activate, CallProvider, StoreOutput, Finish,
     CheckActivated, MarkUnknown, Pause

-----------------------------------------------------------------------------
(* Part 4: types                                                            *)

\* The other variables: only the call adds to the paid calls.
LEMMA DispatchRest ==
  ASSUME TypeOK, Held, NEW w \in Workers, Dispatch(w)
  PROVE  /\ UNCHANGED upsets /\ faults' \in 0..MaxFaults
         /\ \/ UNCHANGED paid
            \/ /\ At(w, "call") /\ UNCHANGED claims
               /\ paid' = paid \cup {<<JobOf(w), KeyOf(w), TokenOf(w)>>}
<1>1. UNCHANGED upsets
  BY DEF Dispatch, RecoverExpired, ClaimNext, ReadStored, ReadExecution, Retry, ReadPrior,
     ReleasePrior, ReserveAttempt, AuthorizeExecution, Activate, CallProvider, SettleAnswered,
     SettleFailed, StoreOutput, Finish, CheckActivated, GiveBack, MarkUnknown, Pause
<1>2. Fault \/ NoFault
  BY DEF Dispatch, RecoverExpired, ClaimNext, ReadStored, ReadExecution, Retry, ReadPrior,
     ReleasePrior, ReserveAttempt, AuthorizeExecution, Activate, CallProvider, SettleAnswered,
     SettleFailed, StoreOutput, Finish, CheckActivated, GiveBack, MarkUnknown, Pause
<1>3. faults' \in 0..MaxFaults
  BY <1>2, BoundsAssumption, SMT DEF TypeOK, Fault, NoFault
<1>4. \/ UNCHANGED paid
      \/ /\ At(w, "call") /\ UNCHANGED claims
         /\ paid' = paid \cup {<<JobOf(w), KeyOf(w), TokenOf(w)>>}
  BY DEF Dispatch, RecoverExpired, ClaimNext, ReadStored, ReadExecution, Retry, ReadPrior,
     ReleasePrior, ReserveAttempt, AuthorizeExecution, Activate, CallProvider, SettleAnswered,
     SettleFailed, StoreOutput, Finish, CheckActivated, GiveBack, MarkUnknown, Pause, authority
<1> QED
  BY <1>1, <1>3, <1>4

LEMMA InitTypes == Init => TypeInv
<1> SUFFICES ASSUME Init PROVE TypeInv
  OBVIOUS
<1>1. NoJob \in Job
  BY SMT DEF NoJob, Job, JobStates
<1>2. NoReceipt \in Receipt
  BY SMT DEF NoReceipt, Receipt, ReceiptStates
<1>3. NoClaim \in Claim
  BY BoundsAssumption, SMT DEF NoClaim, Claim, ClaimStates, Flags
<1>4. jobs \in [Jobs -> Job] /\ receipts \in [Jobs -> [Keys -> Receipt]]
  BY <1>1, <1>2 DEF Init
<1>5. claims \in [Tokens -> Claim] /\ workers \in [Workers -> Worker]
  BY <1>3, NoWorkType DEF Init
<1>6. /\ usage \in [1..Days -> Nat] /\ paid \subseteq Jobs \X Keys \X Tokens
      /\ today \in 1..Days /\ faults \in 0..MaxFaults /\ crashes \in 0..MaxCrashes
      /\ restores \in 0..MaxRestores /\ slow \in 0..MaxSlow
  BY BoundsAssumption DEF Init
<1>7. Held
  BY DEF Init, Held, NoWork, Before, Keyed
<1> QED
  BY <1>4, <1>5, <1>6, <1>7 DEF TypeInv, TypeOK

LEMMA DispatchTypes ==
  ASSUME TypeInv, NEW w \in Workers, Dispatch(w)
  PROVE  TypeInv'
<1>1. TypeOK /\ Held
  BY DEF TypeInv
<1>2. workers \in [Workers -> Worker]
  BY <1>1 DEF TypeOK
<1>3. Moves(w) /\ (Ends(w) \/ GoesOn(w) \/ Takes(w) \/ Arms(w))
  BY <1>2, DispatchMoves
<1>4. paid' \subseteq Jobs \X Keys \X Tokens
  <2>1. At(w, "call") => JobOf(w) \in Jobs /\ KeyOf(w) \in Keys /\ TokenOf(w) \in Tokens
    BY <1>1 DEF Held, At, Before, Keyed
  <2> QED
    BY <1>1, <2>1, DispatchRest DEF TypeOK
<1>5. TypeOK'
  BY <1>1, <1>3, <1>4, JobsType, ReceiptsType, DispatchClaims, DispatchRest
     DEF TypeOK, Moves, upsets
<1>6. Held'
  <2>1. /\ NoWork.pc \notin Before /\ NoWork.pc \notin Keyed
        /\ "read" \in Before /\ "read" \notin Keyed
        /\ "authorize" \in Before /\ "authorize" \in Keyed
    BY DEF NoWork, Before, Keyed
  <2>2. ASSUME NEW v \in Workers
        PROVE  /\ workers'[v].pc \in Before =>
                    workers'[v].token \in Tokens /\ workers'[v].job \in Jobs
               /\ workers'[v].pc \in Keyed => workers'[v].key \in Keys
    <3>1. CASE v # w
      BY <1>1, <1>3, <3>1 DEF Moves, Alone, Held, TokenOf, JobOf, KeyOf
    <3>2. CASE v = w /\ Ends(w)
      BY <2>1, <3>2 DEF Ends
    <3>3. CASE v = w /\ GoesOn(w)
      BY <1>1, <3>3 DEF GoesOn, KeepsLease, Held, TokenOf, JobOf, KeyOf
    <3>4. CASE v = w /\ Takes(w)
      BY <2>1, <3>4 DEF Takes
    <3>5. CASE v = w /\ Arms(w)
      BY <1>1, <2>1, <3>5 DEF Arms, KeepsLease, Held, At, TokenOf, JobOf, KeyOf
    <3> QED
      BY <1>3, <3>1, <3>2, <3>3, <3>4, <3>5
  <2> QED
    BY <2>2 DEF Held, TokenOf, JobOf, KeyOf
<1> QED
  BY <1>5, <1>6 DEF TypeInv

LEMMA NextTypes == TypeInv /\ [Next]_vars => TypeInv'
<1> SUFFICES ASSUME TypeInv, [Next]_vars PROVE TypeInv'
  OBVIOUS
<1>1. TypeOK /\ Held
  BY DEF TypeInv
<1>2. ASSUME NEW w \in Workers, Dispatch(w) PROVE TypeInv'
  BY <1>2, DispatchTypes
<1>3. ASSUME NEW w \in Workers, Crash(w) PROVE TypeInv'
  <2>1. workers \in [Workers -> Worker]
    BY <1>1 DEF TypeOK
  <2>2. Moves(w) /\ Ends(w)
    BY <1>3, <2>1, Leaves DEF Crash
  <2>3. crashes' \in 0..MaxCrashes
    BY <1>1, <1>3, BoundsAssumption, SMT DEF TypeOK, Crash
  <2>4. TypeOK'
    BY <1>1, <1>3, <2>2, <2>3 DEF TypeOK, Crash, Moves, local, authority
  <2>5. NoWork.pc \notin Before /\ NoWork.pc \notin Keyed
    BY DEF NoWork, Before, Keyed
  <2>6. \A v \in Workers : workers'[v] = workers[v] \/ workers'[v] = NoWork
    BY <2>2 DEF Moves, Alone, Ends
  <2>7. Held'
    BY <1>1, <2>5, <2>6 DEF Held, TokenOf, JobOf, KeyOf
  <2> QED
    BY <2>4, <2>7 DEF TypeInv
<1>4. ASSUME NEW j \in Jobs, LeaseExpires(j) PROVE TypeInv'
  <2>1. jobs[j] \in Job /\ jobs \in [Jobs -> Job]
    BY <1>1 DEF TypeOK
  <2>2. [jobs[j] EXCEPT !.lease = "expired"] \in Job
    BY <2>1, Zenon DEF Job
  <2>3. jobs' = [jobs EXCEPT ![j] = [jobs[j] EXCEPT !.lease = "expired"]]
    BY <1>4 DEF LeaseExpires
  <2>4. jobs' \in [Jobs -> Job]
    BY <2>1, <2>2, <2>3, Zenon
  <2>5. slow' \in 0..MaxSlow
    BY <1>1, <1>4, BoundsAssumption, SMT DEF TypeOK, LeaseExpires
  <2>6. TypeOK'
    BY <1>1, <1>4, <2>4, <2>5 DEF TypeOK, LeaseExpires, authority
  <2> QED
    BY <1>1, <1>4, <2>6 DEF TypeInv, LeaseExpires, Held, TokenOf, JobOf, KeyOf
<1>5. ASSUME NEW j \in Jobs, Restore(j) PROVE TypeInv'
  <2>1. NoJob \in Job /\ NoReceipt \in Receipt
    BY SMT DEF NoJob, Job, JobStates, NoReceipt, Receipt, ReceiptStates
  <2>2. jobs' \in [Jobs -> Job]
    BY <1>1, <1>5, <2>1 DEF TypeOK, Restore
  <2>3. receipts' \in [Jobs -> [Keys -> Receipt]]
    BY <1>1, <1>5, <2>1 DEF TypeOK, Restore
  <2>4. restores' \in 0..MaxRestores
    BY <1>1, <1>5, BoundsAssumption, SMT DEF TypeOK, Restore
  <2>5. TypeOK'
    BY <1>1, <1>5, <2>2, <2>3, <2>4 DEF TypeOK, Restore, authority
  <2> QED
    BY <1>1, <1>5, <2>5 DEF TypeInv, Restore, Held, TokenOf, JobOf, KeyOf
<1>6. ASSUME NEW j \in Jobs, Supersede(j) PROVE TypeInv'
  <2>1. [NoJob EXCEPT !.status = "SUPERSEDED"] \in Job
    BY SMT DEF NoJob, Job, JobStates
  <2>2. jobs' \in [Jobs -> Job]
    BY <1>1, <1>6, <2>1 DEF TypeOK, Supersede, Released
  <2>3. TypeOK'
    BY <1>1, <1>6, <2>2 DEF TypeOK, Supersede, authority, upsets
  <2> QED
    BY <1>1, <1>6, <2>3 DEF TypeInv, Supersede, Held, TokenOf, JobOf, KeyOf
<1>7. CASE NextDay
  <2>1. today' \in 1..Days
    BY <1>1, <1>7, BoundsAssumption, SMT DEF TypeOK, NextDay
  <2>2. TypeOK'
    BY <1>1, <1>7, <2>1 DEF TypeOK, NextDay, local, authority
  <2> QED
    BY <1>1, <1>7, <2>2 DEF TypeInv, NextDay, Held, TokenOf, JobOf, KeyOf
<1>8. CASE UNCHANGED vars
  BY <1>1, <1>8 DEF TypeInv, TypeOK, Held, vars, TokenOf, JobOf, KeyOf
<1> QED
  BY <1>2, <1>3, <1>4, <1>5, <1>6, <1>7, <1>8 DEF Next

LEMMA TypesHold == Spec => []TypeInv
<1> QED
  BY InitTypes, NextTypes, PTL DEF Spec

\* The rows of both databases and the locals of every dispatch keep their shape.
THEOREM RelationTypes == Spec => []TypeOK
<1>1. TypeInv => TypeOK
  BY DEF TypeInv
<1> QED
  BY <1>1, TypesHold, PTL

-----------------------------------------------------------------------------
(* Part 5: paid calls stay counted                                          *)

\* No two dispatches share a lease token.
Apart ==
  \A v, w \in Workers :
    v # w /\ workers[v].pc \in Before /\ workers[w].pc \in Before => TokenOf(v) # TokenOf(w)
\* Up to its call a dispatch has not paid; its claim is armed from the fence on.
Unpaid == \A w \in Workers : workers[w].pc \in Before => \A p \in paid : p[3] # TokenOf(w)
CallIsArmed ==
  \A w \in Workers :
    /\ workers[w].pc \in Armed => claims[TokenOf(w)].armed = "yes"
    /\ workers[w].pc \in Before \ Armed => claims[TokenOf(w)].armed = "no"
\* An armed claim is not released: Refundable asks for one that is not armed.
ArmedIsCounted ==
  \A t \in Tokens : claims[t].armed = "yes" => claims[t].state \in Counts

PaidInv == Apart /\ Unpaid /\ CallIsArmed /\ ArmedIsCounted /\ PaidCallsAreCounted

\* A claim that is armed stays so, unless its token is drawn again; and it is
\* armed by the one dispatch that holds its token.
LEMMA ArmedClaims ==
  ASSUME TypeInv, PaidInv, NEW w \in Workers, Dispatch(w), NEW t \in Tokens
  PROVE  /\ claims'[t].armed = "yes" => claims'[t].state \in Counts
         /\ claims[t].armed = "yes" => claims'[t].armed = "yes"
         /\ claims'[t].armed = "yes" =>
              claims[t].armed = "yes" \/ (At(w, "authorize") /\ t = TokenOf(w))
         /\ claims'[t].armed \in Flags
<1>1. ClaimMoves(w, t) /\ claims' \in [Tokens -> Claim] /\ TypeOK
  BY DispatchClaims DEF TypeInv
<1>2. claims[t].armed \in Flags /\ claims'[t].armed \in Flags
  BY <1>1 DEF TypeOK, Claim
<1>3. NoClaim.armed = "no"
  BY DEF NoClaim
<1>4. Fresh(t) => claims[t].state \notin Counts
  BY DEF Fresh, Counts
<1>5. claims[t].armed = "yes" => claims[t].state \in Counts
  BY DEF PaidInv, ArmedIsCounted
<1>6. At(w, "reserve") /\ t = TokenOf(w) => claims[t].armed = "no"
  BY DEF PaidInv, CallIsArmed, At, Before, Armed
<1> QED
  BY <1>1, <1>2, <1>3, <1>4, <1>5, <1>6 DEF ClaimMoves, Flags

LEMMA InitPaid == Init => PaidInv
<1> SUFFICES ASSUME Init PROVE PaidInv
  OBVIOUS
<1>1. NoWork.pc \notin Before /\ NoWork.pc \notin Armed /\ NoClaim.armed = "no"
  BY DEF NoWork, NoClaim, Before, Armed
<1>2. Apart /\ Unpaid /\ CallIsArmed
  BY <1>1 DEF Init, Apart, Unpaid, CallIsArmed
<1>3. ArmedIsCounted /\ PaidCallsAreCounted
  BY <1>1 DEF Init, ArmedIsCounted, PaidCallsAreCounted
<1> QED
  BY <1>2, <1>3 DEF PaidInv

LEMMA DispatchPaid ==
  ASSUME TypeInv, PaidInv, NEW w \in Workers, Dispatch(w)
  PROVE  PaidInv'
<1>1. TypeOK /\ Held /\ TypeOK' /\ Held'
  BY DispatchTypes DEF TypeInv
<1>2. Moves(w) /\ (Ends(w) \/ GoesOn(w) \/ Takes(w) \/ Arms(w))
  BY <1>1, DispatchMoves DEF TypeOK
<1>3. \A v \in Workers : v # w => workers'[v] = workers[v]
  BY <1>2 DEF Moves, Alone
<1>4. NoWork.pc \notin Before /\ NoWork.pc \notin Armed
  BY DEF NoWork, Before, Armed
<1>5. /\ "read" \in Before /\ "read" \notin Armed
      /\ "authorize" \in Before /\ "authorize" \notin Armed
      /\ "activate" \in Before /\ "activate" \in Armed
      /\ "call" \in Before /\ "call" \in Armed /\ Armed \subseteq Before
  BY DEF Before, Armed
\* Whoever is before its call has the token it had, or one that was fresh.
<1>6. ASSUME NEW v \in Workers, workers'[v].pc \in Before
      PROVE  \/ /\ workers[v].pc \in Before /\ workers'[v].token = workers[v].token
             \/ v = w /\ Fresh(workers'[w].token) /\ Takes(w)
  <2>1. CASE v # w
    BY <1>3, <1>6, <2>1
  <2>2. CASE v = w /\ Ends(w)
    BY <1>4, <1>6, <2>2 DEF Ends
  <2>3. CASE v = w /\ GoesOn(w)
    BY <1>6, <2>3 DEF GoesOn, KeepsLease
  <2>4. CASE v = w /\ Takes(w)
    BY <2>4 DEF Takes
  <2>5. CASE v = w /\ Arms(w)
    BY <1>5, <2>5 DEF Arms, KeepsLease, At
  <2> QED
    BY <1>2, <2>1, <2>2, <2>3, <2>4, <2>5
<1>7. Apart'
  <2>1. ASSUME NEW u \in Workers, NEW v \in Workers, u # v,
               workers'[u].pc \in Before, workers'[v].pc \in Before
        PROVE  workers'[u].token # workers'[v].token
    <3>1. CASE workers[u].pc \in Before /\ workers'[u].token = workers[u].token
               /\ workers[v].pc \in Before /\ workers'[v].token = workers[v].token
      BY <2>1, <3>1 DEF PaidInv, Apart, TokenOf
    <3>2. CASE u = w /\ Fresh(workers'[w].token)
      BY <1>3, <2>1, <3>2 DEF Fresh
    <3>3. CASE v = w /\ Fresh(workers'[w].token)
      BY <1>3, <2>1, <3>3 DEF Fresh
    <3> QED
      BY <1>6, <2>1, <3>1, <3>2, <3>3
  <2> QED
    BY <2>1 DEF Apart, TokenOf
<1>8. \/ UNCHANGED paid
      \/ /\ At(w, "call") /\ UNCHANGED claims /\ workers'[w].pc \notin Before
         /\ paid' = paid \cup {<<JobOf(w), KeyOf(w), TokenOf(w)>>}
  <2>1. CASE CallProvider(w)
    <3>1. workers'[w].pc \in {"answered", "failed"}
      BY <1>1, <2>1 DEF CallProvider, Goto, TypeOK, Worker
    <3> QED
      BY <2>1, <3>1 DEF CallProvider, Before, authority
  <2>2. CASE ~CallProvider(w)
    BY <2>2 DEF Dispatch, RecoverExpired, ClaimNext, ReadStored, ReadExecution, Retry,
       ReadPrior, ReleasePrior, ReserveAttempt, AuthorizeExecution, Activate, SettleAnswered,
       SettleFailed, StoreOutput, Finish, CheckActivated, GiveBack, MarkUnknown, Pause
  <2> QED
    BY <2>1, <2>2
<1>9. Unpaid'
  <2>1. ASSUME NEW v \in Workers, workers'[v].pc \in Before, NEW p \in paid'
        PROVE  p[3] # workers'[v].token
    <3>1. CASE p \in paid
      BY <1>6, <2>1, <3>1 DEF PaidInv, Unpaid, Fresh, TokenOf
    <3>2. CASE p \notin paid
      <4>1. At(w, "call") /\ workers'[w].pc \notin Before /\ p = <<JobOf(w), KeyOf(w), TokenOf(w)>>
        BY <1>8, <3>2
      <4>2. v # w /\ p[3] = TokenOf(w) /\ workers[w].pc \in Before
        BY <1>5, <2>1, <4>1 DEF At
      <4>3. workers'[v] = workers[v]
        BY <1>3, <4>2
      <4> QED
        BY <2>1, <4>2, <4>3 DEF PaidInv, Apart, TokenOf
    <3> QED
      BY <3>1, <3>2
  <2> QED
    BY <2>1 DEF Unpaid, TokenOf
<1>10. CallIsArmed'
  <2>1. ASSUME NEW v \in Workers, workers'[v].pc \in Before
        PROVE  /\ workers'[v].pc \in Armed => claims'[workers'[v].token].armed = "yes"
               /\ workers'[v].pc \notin Armed => claims'[workers'[v].token].armed = "no"
    <3>1. workers'[v].token \in Tokens
      BY <1>1, <2>1 DEF Held, TokenOf
    <3>2. CASE v # w
      <4>1. workers'[v] = workers[v]
        BY <1>3, <3>2
      <4>2. At(w, "authorize") => workers[v].token # TokenOf(w)
        BY <1>5, <2>1, <3>2, <4>1 DEF PaidInv, Apart, At, TokenOf
      <4> QED
        BY <2>1, <3>1, <4>1, <4>2, ArmedClaims DEF PaidInv, CallIsArmed, TokenOf, Flags
    <3>3. CASE v = w /\ Takes(w)
      <4>1. claims'[workers'[v].token] = NoClaim
        BY <1>1, <3>3 DEF Takes, TypeOK
      <4> QED
        BY <1>5, <3>3, <4>1 DEF Takes, NoClaim
    <3>4. CASE v = w /\ Arms(w)
      BY <1>1, <1>5, <3>1, <3>4 DEF Arms, Arm, KeepsLease, TypeOK, Claim, TokenOf
    <3>5. CASE v = w /\ GoesOn(w)
      <4>1. /\ workers'[w].token = workers[w].token
            /\ workers[w].pc \in Before /\ workers[w].pc # "authorize"
            /\ workers'[w].pc \in Armed <=> workers[w].pc \in Armed
        BY <2>1, <3>5 DEF GoesOn, KeepsLease
      <4> QED
        BY <3>1, <3>5, <4>1, ArmedClaims DEF PaidInv, CallIsArmed, TokenOf, At, Flags
    <3> QED
      BY <1>2, <1>4, <2>1, <3>2, <3>3, <3>4, <3>5 DEF Ends
  <2> QED
    BY <1>5, <2>1 DEF CallIsArmed, TokenOf
<1>11. ArmedIsCounted'
  BY <1>1, ArmedClaims DEF ArmedIsCounted
<1>12. PaidCallsAreCounted'
  <2>1. ASSUME NEW p \in paid'
        PROVE  claims'[p[3]].armed = "yes" /\ claims'[p[3]].state \in Counts
    <3>1. p[3] \in Tokens
      BY <1>1 DEF TypeOK
    <3>2. claims[p[3]].armed = "yes"
      BY <1>5, <1>8 DEF PaidInv, PaidCallsAreCounted, CallIsArmed, At
    <3> QED
      BY <3>1, <3>2, ArmedClaims
  <2>2. ASSUME NEW p \in paid', NEW q \in paid', p[3] = q[3]
        PROVE  p = q
    <3>1. CASE p \in paid /\ q \in paid
      BY <2>2, <3>1 DEF PaidInv, PaidCallsAreCounted
    <3>2. At(w, "call") => \A r \in paid : r[3] # TokenOf(w)
      BY <1>5 DEF PaidInv, Unpaid, At
    <3>3. CASE p \notin paid \/ q \notin paid
      BY <1>8, <2>2, <3>2, <3>3
    <3> QED
      BY <3>1, <3>3
  <2> QED
    BY <2>1, <2>2 DEF PaidCallsAreCounted, Counted, Counts
<1> QED
  BY <1>7, <1>9, <1>10, <1>11, <1>12 DEF PaidInv

LEMMA NextPaid == TypeInv /\ PaidInv /\ [Next]_vars => PaidInv'
<1> SUFFICES ASSUME TypeInv, PaidInv, [Next]_vars PROVE PaidInv'
  OBVIOUS
<1>1. ASSUME NEW w \in Workers, Dispatch(w) PROVE PaidInv'
  BY <1>1, DispatchPaid
<1>2. ASSUME NEW w \in Workers, Crash(w) PROVE PaidInv'
  <2>1. workers \in [Workers -> Worker]
    BY DEF TypeInv, TypeOK
  <2>2. \A v \in Workers : workers'[v] = workers[v] \/ workers'[v] = NoWork
    BY <1>2, <2>1, Leaves DEF Crash, Moves, Alone, Ends
  <2>3. NoWork.pc \notin Before /\ NoWork.pc \notin Armed
    BY DEF NoWork, Before, Armed
  <2>4. UNCHANGED <<claims, paid>>
    BY <1>2 DEF Crash, authority
  <2>5. Apart' /\ Unpaid' /\ CallIsArmed'
    BY <2>2, <2>3, <2>4 DEF PaidInv, Apart, Unpaid, CallIsArmed, TokenOf
  <2>6. ArmedIsCounted' /\ PaidCallsAreCounted'
    BY <2>4 DEF PaidInv, ArmedIsCounted, PaidCallsAreCounted, Counted
  <2> QED
    BY <2>5, <2>6 DEF PaidInv
<1>3. ASSUME UNCHANGED <<claims, paid, workers>> PROVE PaidInv'
  BY <1>3 DEF PaidInv, Apart, Unpaid, CallIsArmed, ArmedIsCounted, PaidCallsAreCounted,
     Counted, TokenOf
<1>4. ASSUME NEW j \in Jobs, LeaseExpires(j) \/ Restore(j) \/ Supersede(j) PROVE PaidInv'
  BY <1>3, <1>4 DEF LeaseExpires, Restore, Supersede, authority
<1>5. CASE NextDay \/ UNCHANGED vars
  BY <1>3, <1>5 DEF NextDay, vars, authority
<1> QED
  BY <1>1, <1>2, <1>4, <1>5 DEF Next

\* A call that may have been billed has a claim of its own, armed before it, that
\* no failure, crash, release by another dispatch or restored database gives back.
THEOREM PaidStaysCounted == Spec => []PaidCallsAreCounted
<1>1. Spec => []PaidInv
  BY InitPaid, NextPaid, TypesHold, PTL DEF Spec
<1>2. PaidInv => PaidCallsAreCounted
  BY DEF PaidInv
<1> QED
  BY <1>1, <1>2, PTL

-----------------------------------------------------------------------------
(* Part 6: the counter of a day                                             *)

\* Where a dispatch has not taken a token yet, and where its token has not been
\* counted.
Resting == {"idle", "select"}
Uncounted == {"read", "look", "prior", "releasePrior", "reserve"}

\* How a dispatch gets where it releases, where it calls, and past its rest.
LEMMA Arrivals ==
  ASSUME workers \in [Workers -> Worker], NEW w \in Workers, Dispatch(w)
  PROVE  /\ workers'[w].pc = "releasePrior" => workers'[w].prior \in Tokens
         /\ workers'[w].pc = "call" =>
              /\ At(w, "activate") /\ CanActivate(w) /\ WriteReceipt(w)
              /\ KeepsLease(w) /\ workers'[w].key = workers[w].key
         /\ workers[w].pc \in Resting => workers'[w].pc \in Resting \/ Takes(w)
<1> DEFINE Goal == /\ workers'[w].pc = "releasePrior" => workers'[w].prior \in Tokens
                   /\ workers'[w].pc = "call" =>
                        /\ At(w, "activate") /\ CanActivate(w) /\ WriteReceipt(w)
                        /\ KeepsLease(w) /\ workers'[w].key = workers[w].key
                   /\ workers[w].pc \in Resting => workers'[w].pc \in Resting \/ Takes(w)
<1>0. workers[w] \in Worker
  OBVIOUS
<1>a. ASSUME Leave(w) PROVE Goal
  <2>1. workers'[w].pc = "idle"
    BY <1>a DEF Leave, NoWork
  <2> QED
    BY <2>1 DEF Resting
<1>b. ASSUME NEW pc \in Pcs \ {"releasePrior", "call"}, Assigned(w, pc),
             workers[w].pc \notin Resting \/ pc \in Resting
      PROVE  Goal
  <2>1. workers'[w].pc = pc
    BY <1>b, Assigns
  <2> QED
    BY <1>b, <2>1
<1>c. ASSUME Fail(w), workers[w].pc \notin Resting PROVE Goal
  <2>1. \E pc \in {"check", "mark"} : Assigned(w, pc)
    BY <1>c, Zenon DEF Fail, Goto, Assigned
  <2> QED
    BY <1>b, <1>c, <2>1 DEF Pcs
<1>1. CASE RecoverExpired(w)
  BY <1>1, <1>b DEF RecoverExpired, Goto, Assigned, Pcs, Resting
<1>2. CASE ClaimNext(w)
  <2>1. Leave(w) \/ Takes(w)
    <3>1. workers[w].pc = "select"
      BY <1>2 DEF ClaimNext, At
    <3>2. ASSUME NEW j \in Jobs, NEW t \in Tokens, Fresh(t),
                 claims' = [claims EXCEPT ![t] = NoClaim],
                 workers' = [workers EXCEPT ![w] =
                   [NoWork EXCEPT !.pc = "read", !.job = j, !.token = t]]
          PROVE  Takes(w)
      <4>1. /\ [NoWork EXCEPT !.pc = "read", !.job = j, !.token = t].pc = "read"
            /\ [NoWork EXCEPT !.pc = "read", !.job = j, !.token = t].job = j
            /\ [NoWork EXCEPT !.pc = "read", !.job = j, !.token = t].token = t
        BY SMT DEF NoWork
      <4>2. workers'[w] = [NoWork EXCEPT !.pc = "read", !.job = j, !.token = t]
        BY <3>2
      <4> QED
        BY <3>2, <4>1, <4>2 DEF Takes
    <3> QED
      BY <1>2, <3>2 DEF ClaimNext
  <2>2. ASSUME Takes(w) PROVE workers'[w].pc = "read"
    BY <2>2 DEF Takes
  <2> QED
    BY <1>a, <2>1, <2>2
<1>3. CASE ReadStored(w)
  BY <1>3, <1>b DEF ReadStored, Goto, Assigned, At, Pcs, Resting
<1>4. CASE ReadExecution(w)
  <2>1. At(w, "look")
    BY <1>4 DEF ReadExecution
  <2>2. ASSUME NEW k \in Keys, NEW pc \in {"prior", "finish"},
               workers' = [workers EXCEPT ![w] = [workers[w] EXCEPT !.key = k, !.pc = pc]]
        PROVE  workers'[w].pc = pc
    BY <1>0, <2>2, SMT DEF Worker
  <2>3. \/ Leave(w) \/ Goto(w, "retry")
        \/ \E k \in Keys, pc \in {"prior", "finish"} :
             workers' = [workers EXCEPT ![w] = [workers[w] EXCEPT !.key = k, !.pc = pc]]
    <3>1. ASSUME NEW k \in Keys,
                 workers' = [workers EXCEPT ![w] =
                   IF receipts[JobOf(w)][k].state \in {"RUNNING", "OUTCOME_UNKNOWN"} THEN NoWork
                   ELSE [workers[w] EXCEPT !.key = k,
                           !.pc = IF receipts[JobOf(w)][k].state = "ABSENT"
                                  THEN "prior" ELSE "finish"]]
          PROVE  \/ Leave(w)
                 \/ \E pc \in {"prior", "finish"} :
                      workers' = [workers EXCEPT ![w] = [workers[w] EXCEPT !.key = k, !.pc = pc]]
      <4>1. CASE receipts[JobOf(w)][k].state \in {"RUNNING", "OUTCOME_UNKNOWN"}
        BY <3>1, <4>1 DEF Leave
      <4>2. CASE receipts[JobOf(w)][k].state = "ABSENT"
        BY <3>1, <4>2
      <4>3. CASE receipts[JobOf(w)][k].state \notin {"RUNNING", "OUTCOME_UNKNOWN", "ABSENT"}
        BY <3>1, <4>3
      <4> QED
        BY <4>1, <4>2, <4>3
    <3> QED
      BY <1>4, <3>1 DEF ReadExecution
  <2>4. CASE \E k \in Keys, pc \in {"prior", "finish"} :
               workers' = [workers EXCEPT ![w] = [workers[w] EXCEPT !.key = k, !.pc = pc]]
    BY <2>1, <2>2, <2>4 DEF At, Resting
  <2>5. CASE Goto(w, "retry")
    BY <1>b, <2>1, <2>5 DEF Goto, Assigned, At, Pcs, Resting
  <2> QED
    BY <1>a, <2>3, <2>4, <2>5
<1>5. CASE Retry(w)
  BY <1>5, <1>a DEF Retry
<1>6. CASE ReadPrior(w)
  <2>1. ASSUME NEW t \in Tokens,
               workers' = [workers EXCEPT ![w].pc = "releasePrior", ![w].prior = t]
        PROVE  workers'[w].pc = "releasePrior" /\ workers'[w].prior = t
    BY <1>0, <2>1, SMT DEF Worker
  <2>2. At(w, "prior")
    BY <1>6 DEF ReadPrior
  <2>3. CASE \E t \in Tokens :
               workers' = [workers EXCEPT ![w].pc = "releasePrior", ![w].prior = t]
    BY <2>1, <2>2, <2>3 DEF At, Resting
  <2>4. CASE Goto(w, "reserve")
    BY <1>b, <2>2, <2>4 DEF Goto, Assigned, At, Pcs, Resting
  <2>5. CASE Fail(w)
    BY <1>c, <2>2, <2>5 DEF At, Resting
  <2> QED
    BY <1>6, <2>3, <2>4, <2>5 DEF ReadPrior, Reserved
<1>7. CASE ReleasePrior(w) \/ ReserveAttempt(w) \/ AuthorizeExecution(w)
  <2>1. workers[w].pc \notin Resting
    BY <1>7 DEF ReleasePrior, ReserveAttempt, AuthorizeExecution, At, Resting
  <2>2. \/ Fail(w) \/ Assigned(w, "reserve") \/ Assigned(w, "authorize") \/ Assigned(w, "activate")
    BY <1>7, Literals
    DEF ReleasePrior, ReserveAttempt, AuthorizeExecution, Goto, Assigned
  <2> QED
    BY <1>b, <1>c, <2>1, <2>2 DEF Pcs
<1>8. CASE Activate(w)
  <2>1. At(w, "activate")
    BY <1>8 DEF Activate
  <2>2. CASE Fail(w)
    BY <1>c, <2>1, <2>2 DEF At, Resting
  <2>3. CASE /\ CanActivate(w) /\ WriteReceipt(w)
             /\ workers' = [workers EXCEPT ![w].pc = "call", ![w].activated = "yes"]
    <3>1. Assigned(w, "call") /\ "call" \in Pcs
      BY <2>3, Literals DEF Assigned
    <3>2. workers'[w].pc = "call" /\ KeepsLease(w) /\ workers'[w].key = workers[w].key
      BY <3>1, Assigns
    <3> QED
      BY <2>1, <2>3, <3>2 DEF At, Resting
  <2> QED
    BY <1>8, <2>2, <2>3 DEF Activate
<1>9. CASE CallProvider(w) \/ SettleAnswered(w) \/ SettleFailed(w) \/ StoreOutput(w)
  BY <1>9, <1>b DEF CallProvider, SettleAnswered, SettleFailed, StoreOutput, Goto, Assigned,
     At, Pcs, Resting
<1>10. CASE Finish(w)
  <2>1. Leave(w) \/ workers' = workers
    BY <1>10 DEF Finish
  <2>2. workers[w].pc = "finish"
    BY <1>10 DEF Finish, At
  <2> QED
    BY <1>a, <2>1, <2>2 DEF Resting
<1>11. CASE CheckActivated(w) \/ GiveBack(w)
  BY <1>11, <1>b, Literals DEF CheckActivated, GiveBack, Goto, Assigned, At, Resting
<1>12. CASE MarkUnknown(w)
  <2>1. Leave(w) \/ Assigned(w, "giveBackAgain") \/ Assigned(w, "pause")
    BY <1>12 DEF MarkUnknown, Goto, Assigned
  <2>2. workers[w].pc \notin Resting
    BY <1>12 DEF MarkUnknown, At, Resting
  <2> QED
    BY <1>a, <1>b, <2>1, <2>2 DEF Pcs
<1>13. CASE Pause(w)
  BY <1>13, <1>a DEF Pause
<1> QED
  BY <1>1, <1>2, <1>3, <1>4, <1>5, <1>6, <1>7, <1>8, <1>9, <1>10, <1>11, <1>12, <1>13
  DEF Dispatch

\* The tokens a dispatch works with are tokens, and the one it drew is not
\* counted before it reserves.
TokensHeld ==
  \A w \in Workers :
    /\ workers[w].pc \notin Resting => TokenOf(w) \in Tokens
    /\ At(w, "releasePrior") => workers[w].prior \in Tokens
    /\ workers[w].pc \in Uncounted => ~Counted(TokenOf(w))

UsageInv == TokensHeld /\ UsageIsExact

\* What one step of w does to the counters: nothing, or one claim is counted
\* or given back together with its day.
KeepsCounts ==
  /\ usage' = usage
  /\ \A t \in Tokens : /\ Counted(t)' <=> Counted(t)
                       /\ Counted(t) => claims'[t].day = claims[t].day
Refunds(t) ==
  /\ Counted(t) /\ ~Counted(t)'
  /\ \A u \in Tokens : u # t => claims'[u] = claims[u]
  /\ usage' = [usage EXCEPT ![claims[t].day] = IF @ > 0 THEN @ - 1 ELSE @]
Adds(w) ==
  /\ At(w, "reserve") /\ workers'[w].pc \notin Uncounted
  /\ usage[today] < DailyLimit /\ usage' = [usage EXCEPT ![today] = @ + 1]
  /\ \A u \in Tokens : u # TokenOf(w) => claims'[u] = claims[u]
  /\ claims'[TokenOf(w)].state = "RESERVED" /\ claims'[TokenOf(w)].day = today

LEMMA CountsKept ==
  ASSUME UNCHANGED authority
  PROVE  KeepsCounts
BY DEF authority, KeepsCounts, Counted

LEMMA ReleaseRefunds ==
  ASSUME TypeOK, NEW t \in Tokens, ReleaseUnused(t) \/ UNCHANGED authority
  PROVE  KeepsCounts \/ Refunds(t)
<1>1. CASE UNCHANGED authority
  BY <1>1, CountsKept
<1>2. CASE /\ Refundable(t)
           /\ claims' = [claims EXCEPT ![t].state = "RELEASED"]
           /\ usage' = [usage EXCEPT ![claims[t].day] = IF @ > 0 THEN @ - 1 ELSE @]
  <2>1. claims \in [Tokens -> Claim] /\ "RELEASED" \in ClaimStates
    BY DEF TypeOK, ClaimStates
  <2>2. /\ \A u \in Tokens : u # t => claims'[u] = claims[u]
        /\ claims'[t].state = "RELEASED"
    BY <1>2, <2>1, ClaimStateAssigned
  <2>3. Counted(t) /\ ~Counted(t)'
    BY <1>2, <2>2 DEF Refundable, Counted
  <2> QED
    BY <1>2, <2>2, <2>3 DEF Refunds
<1> QED
  BY <1>1, <1>2 DEF ReleaseUnused

\* The days of the claims a step settles or arms.
LEMMA RowsChange ==
  ASSUME claims \in [Tokens -> Claim], NEW t \in Tokens
  PROVE  /\ \A state :
              claims' = [claims EXCEPT ![t].state = state] =>
                /\ \A u \in Tokens : u # t => claims'[u] = claims[u]
                /\ claims'[t].state = state /\ claims'[t].day = claims[t].day
         /\ claims' = [claims EXCEPT ![t].armed = "yes"] =>
                /\ \A u \in Tokens : u # t => claims'[u] = claims[u]
                /\ claims'[t].state = claims[t].state /\ claims'[t].day = claims[t].day
<1>1. claims[t] \in Claim
  OBVIOUS
<1>2. \A state : /\ [claims[t] EXCEPT !.state = state].state = state
                 /\ [claims[t] EXCEPT !.state = state].day = claims[t].day
  BY <1>1, SMT DEF Claim
<1>3. /\ [claims[t] EXCEPT !.armed = "yes"].state = claims[t].state
      /\ [claims[t] EXCEPT !.armed = "yes"].day = claims[t].day
  BY <1>1, SMT DEF Claim
<1>4. ASSUME NEW state, claims' = [claims EXCEPT ![t].state = state]
      PROVE  /\ \A u \in Tokens : u # t => claims'[u] = claims[u]
             /\ claims'[t] = [claims[t] EXCEPT !.state = state]
  BY <1>4, Zenon
<1>5. ASSUME claims' = [claims EXCEPT ![t].armed = "yes"]
      PROVE  /\ \A u \in Tokens : u # t => claims'[u] = claims[u]
             /\ claims'[t] = [claims[t] EXCEPT !.armed = "yes"]
  BY <1>5, Zenon
<1>6. ASSUME NEW state, claims' = [claims EXCEPT ![t].state = state]
      PROVE  /\ \A u \in Tokens : u # t => claims'[u] = claims[u]
             /\ claims'[t].state = state /\ claims'[t].day = claims[t].day
  BY <1>2, <1>4, <1>6
<1>7. ASSUME claims' = [claims EXCEPT ![t].armed = "yes"]
      PROVE  /\ \A u \in Tokens : u # t => claims'[u] = claims[u]
             /\ claims'[t].state = claims[t].state /\ claims'[t].day = claims[t].day
  BY <1>3, <1>5, <1>7
<1> QED
  BY <1>6, <1>7

LEMMA DispatchCounts ==
  ASSUME TypeInv, TokensHeld, NEW w \in Workers, Dispatch(w)
  PROVE  KeepsCounts \/ Adds(w) \/ \E t \in Tokens : Refunds(t)
<1>a. /\ claims \in [Tokens -> Claim] /\ usage \in [1..Days -> Nat] /\ today \in 1..Days
      /\ workers \in [Workers -> Worker] /\ TypeOK
  BY DEF TypeInv, TypeOK
<1>1. CASE UNCHANGED authority
  BY <1>1, CountsKept
<1>2. CASE ClaimNext(w)
  <2>1. ASSUME NEW t \in Tokens, Fresh(t), claims' = [claims EXCEPT ![t] = NoClaim],
               UNCHANGED usage
        PROVE  KeepsCounts
    <3>1. \A u \in Tokens : u # t => claims'[u] = claims[u]
      BY <1>a, <2>1
    <3>2. claims'[t] = NoClaim
      BY <1>a, <2>1
    <3>3. ~Counted(t) /\ ~Counted(t)'
      BY <2>1, <3>2 DEF Fresh, Counted, NoClaim
    <3> QED
      BY <2>1, <3>1, <3>3 DEF KeepsCounts, Counted
  <2> QED
    BY <1>1, <1>2, <2>1 DEF ClaimNext, authority
<1>3. CASE ReleasePrior(w)
  <2>1. workers[w].prior \in Tokens
    BY <1>3 DEF ReleasePrior, TokensHeld
  <2> QED
    BY <1>a, <1>3, <2>1, ReleaseRefunds DEF ReleasePrior
<1>4. CASE ReserveAttempt(w)
  <2>1. At(w, "reserve") /\ TokenOf(w) \in Tokens
    BY <1>4 DEF ReserveAttempt, TokensHeld, At, Resting
  <2>2. ASSUME CanReserve(w), CountClaim(w) PROVE Adds(w)
    <3>1. claims'[TokenOf(w)] =
            [state |-> "RESERVED", job |-> JobOf(w), day |-> today, armed |-> "no"]
      BY <1>a, <2>1, <2>2 DEF CountClaim
    <3>2. \A u \in Tokens : u # TokenOf(w) => claims'[u] = claims[u]
      BY <1>a, <2>2 DEF CountClaim
    <3>3. usage[today] < DailyLimit /\ usage' = [usage EXCEPT ![today] = @ + 1]
      BY <2>2 DEF CanReserve, CountClaim
    <3>4. workers'[w].pc \notin Uncounted
      <4>1. \E pc \in {"authorize", "check", "mark"} : Assigned(w, pc)
        BY <1>4, <2>2, Literals, Zenon DEF ReserveAttempt, Fail, Goto, Assigned
      <4>2. PICK pc \in {"authorize", "check", "mark"} : Assigned(w, pc)
        BY <4>1
      <4>3. workers'[w].pc = pc
        BY <1>a, <4>2, Assigns DEF Pcs
      <4> QED
        BY <4>2, <4>3 DEF Uncounted
    <3>5. claims'[TokenOf(w)].state = "RESERVED" /\ claims'[TokenOf(w)].day = today
      BY <3>1
    <3> QED
      BY <2>1, <3>2, <3>3, <3>4, <3>5 DEF Adds
  <2> QED
    BY <1>1, <1>4, <2>2 DEF ReserveAttempt
<1>5. CASE AuthorizeExecution(w)
  <2>1. TokenOf(w) \in Tokens
    BY <1>5 DEF AuthorizeExecution, TokensHeld, At, Resting
  <2>2. ASSUME Arm(w), UNCHANGED usage PROVE KeepsCounts
    BY <1>a, <2>1, <2>2, RowsChange DEF Arm, KeepsCounts, Counted
  <2> QED
    BY <1>1, <1>5, <2>2 DEF AuthorizeExecution, authority
<1>6. CASE SettleAnswered(w) \/ SettleFailed(w)
  <2>1. TokenOf(w) \in Tokens /\ UNCHANGED usage
    BY <1>6 DEF SettleAnswered, SettleFailed, TokensHeld, At, Resting
  <2>2. ASSUME NEW state \in {"PROVIDER_SUCCEEDED", "PROVIDER_FAILED"}, SettleAs(w, state),
               claims' # claims
        PROVE  KeepsCounts
    <3>1. /\ claims[TokenOf(w)].state = "RESERVED"
          /\ claims' = [claims EXCEPT ![TokenOf(w)].state = state]
      BY <2>2 DEF SettleAs
    <3>2. /\ \A u \in Tokens : u # TokenOf(w) => claims'[u] = claims[u]
          /\ claims'[TokenOf(w)].state = state
          /\ claims'[TokenOf(w)].day = claims[TokenOf(w)].day
      BY <1>a, <2>1, <3>1, RowsChange
    <3> QED
      BY <2>1, <3>1, <3>2 DEF KeepsCounts, Counted
  <2> QED
    BY <1>1, <1>6, <2>1, <2>2 DEF SettleAnswered, SettleFailed, authority
<1>7. CASE GiveBack(w)
  <2>1. TokenOf(w) \in Tokens
    BY <1>7 DEF GiveBack, TokensHeld, At, Resting
  <2> QED
    BY <1>a, <1>7, <2>1, ReleaseRefunds DEF GiveBack
<1> QED
  BY <1>1, <1>2, <1>3, <1>4, <1>5, <1>6, <1>7 DEF Dispatch, RecoverExpired, ReadStored,
     ReadExecution, Retry, ReadPrior, Activate, CallProvider, StoreOutput, Finish,
     CheckActivated, MarkUnknown, Pause

CountedOn(d) == {t \in Tokens : Counted(t) /\ claims[t].day = d}

\* A day's counter and its claims move together.
LEMMA UsageStep ==
  ASSUME TypeInv, UsageInv, NEW w \in Workers,
         KeepsCounts \/ Adds(w) \/ \E t \in Tokens : Refunds(t)
  PROVE  UsageIsExact'
<1> SUFFICES ASSUME NEW d \in 1..Days
             PROVE  usage'[d] = Cardinality(CountedOn(d)') /\ usage'[d] <= DailyLimit
  BY DEF UsageIsExact, CountedOn
<1>a. /\ usage \in [1..Days -> Nat] /\ today \in 1..Days
      /\ usage[d] = Cardinality(CountedOn(d)) /\ usage[d] <= DailyLimit
      /\ DailyLimit \in Nat
  BY LimitAssumption DEF TypeInv, TypeOK, UsageInv, UsageIsExact, CountedOn
<1>b. IsFiniteSet(CountedOn(d))
  BY TokensAssumption, FS_Subset DEF CountedOn
<1>1. CASE KeepsCounts
  <2>1. CountedOn(d)' = CountedOn(d)
    BY <1>1 DEF KeepsCounts, CountedOn
  <2> QED
    BY <1>1, <1>a, <2>1 DEF KeepsCounts
<1>2. CASE Adds(w)
  <2>1. TokenOf(w) \in Tokens /\ ~Counted(TokenOf(w))
    BY <1>2 DEF Adds, UsageInv, TokensHeld, At, Resting, Uncounted
  <2>2. TokenOf(w) \notin CountedOn(d)
    BY <2>1 DEF CountedOn
  <2>3. \A u \in Tokens : u # TokenOf(w) => (u \in CountedOn(d)' <=> u \in CountedOn(d))
    BY <1>2 DEF Adds, CountedOn, Counted
  <2>4. CASE d = today
    <3>1. CountedOn(d)' = CountedOn(d) \cup {TokenOf(w)}
      <4>1. TokenOf(w) \in CountedOn(d)'
        BY <1>2, <2>1, <2>4 DEF Adds, CountedOn, Counted
      <4>2. CountedOn(d) \subseteq Tokens /\ CountedOn(d)' \subseteq Tokens
        BY DEF CountedOn
      <4> QED
        BY <2>1, <2>2, <2>3, <4>1, <4>2
    <3>2. Cardinality(CountedOn(d)') = Cardinality(CountedOn(d)) + 1
      BY <1>b, <2>2, <3>1, FS_AddElement
    <3>3. usage'[d] = usage[d] + 1 /\ usage[d] < DailyLimit
      BY <1>2, <1>a, <2>4 DEF Adds
    <3> QED
      BY <1>a, <3>2, <3>3
  <2>5. CASE d # today
    <3>1. TokenOf(w) \notin CountedOn(d)'
      BY <1>2, <2>5 DEF Adds, CountedOn
    <3>2. CountedOn(d)' = CountedOn(d)
      <4>1. CountedOn(d) \subseteq Tokens /\ CountedOn(d)' \subseteq Tokens
        BY DEF CountedOn
      <4> QED
        BY <2>2, <2>3, <3>1, <4>1
    <3>3. usage'[d] = usage[d]
      BY <1>2, <1>a, <2>5 DEF Adds
    <3> QED
      BY <1>a, <3>2, <3>3
  <2> QED
    BY <2>4, <2>5
<1>3. ASSUME NEW t \in Tokens, Refunds(t)
      PROVE  usage'[d] = Cardinality(CountedOn(d)') /\ usage'[d] <= DailyLimit
  <2>1. \A u \in Tokens : u # t => (u \in CountedOn(d)' <=> u \in CountedOn(d))
    BY <1>3 DEF Refunds, CountedOn, Counted
  <2>2. t \notin CountedOn(d)'
    BY <1>3 DEF Refunds, CountedOn
  <2>3. CountedOn(d)' = CountedOn(d) \ {t}
    <3>1. CountedOn(d) \subseteq Tokens /\ CountedOn(d)' \subseteq Tokens
      BY DEF CountedOn
    <3> QED
      BY <2>1, <2>2, <3>1
  <2>4. CASE claims[t].day = d
    <3>1. t \in CountedOn(d)
      BY <1>3, <2>4 DEF Refunds, CountedOn
    <3>2. /\ Cardinality(CountedOn(d)') = Cardinality(CountedOn(d)) - 1
          /\ Cardinality(CountedOn(d)') \in Nat
      BY <1>b, <2>3, <3>1, FS_RemoveElement, FS_CardinalityType
    <3>3. usage'[d] = IF usage[d] > 0 THEN usage[d] - 1 ELSE usage[d]
      BY <1>3, <1>a, <2>4 DEF Refunds
    <3> QED
      BY <1>a, <3>2, <3>3
  <2>5. CASE claims[t].day # d
    <3>1. CountedOn(d)' = CountedOn(d)
      BY <2>3, <2>5 DEF CountedOn
    <3>2. usage'[d] = usage[d]
      BY <1>3, <1>a, <2>5 DEF Refunds
    <3> QED
      BY <1>a, <3>1, <3>2
  <2> QED
    BY <2>4, <2>5
<1> QED
  BY <1>1, <1>2, <1>3

LEMMA TokensStep ==
  ASSUME TypeInv, PaidInv, TokensHeld, NEW w \in Workers, Dispatch(w)
  PROVE  TokensHeld'
<1>a. /\ workers \in [Workers -> Worker] /\ TypeOK /\ Held
  BY DEF TypeInv, TypeOK
<1>b. Moves(w) /\ (Ends(w) \/ GoesOn(w) \/ Takes(w) \/ Arms(w))
  BY <1>a, DispatchMoves
<1>c. KeepsCounts \/ Adds(w) \/ \E t \in Tokens : Refunds(t)
  BY DispatchCounts
<1>d. /\ NoWork.pc \in Resting /\ NoWork.pc \notin Uncounted /\ NoWork.pc # "releasePrior"
      /\ Uncounted \subseteq Before /\ "reserve" \in Before /\ "activate" \notin Uncounted
      /\ \A pc \in Before \ {"authorize"} : pc \notin Armed => pc \in Uncounted
      /\ \A pc \in Uncounted : pc \in Before /\ pc \notin Armed
  BY DEF NoWork, Resting, Uncounted, Before, Armed
\* A token stays uncounted, unless its dispatch reserves.
<1>e. ASSUME NEW t \in Tokens, ~Counted(t), ~(Adds(w) /\ t = TokenOf(w))
      PROVE  claims'[t].state \notin Counts
  <2>1. CASE KeepsCounts
    BY <1>e, <2>1 DEF KeepsCounts, Counted, Counts
  <2>2. CASE Adds(w)
    BY <1>e, <2>2 DEF Adds, Counted, Counts
  <2>3. ASSUME NEW u \in Tokens, Refunds(u)
        PROVE  claims'[t].state \notin Counts
    BY <1>e, <2>3 DEF Refunds, Counted, Counts
  <2> QED
    BY <1>c, <2>1, <2>2, <2>3
<1>1. ASSUME NEW v \in Workers, v # w
      PROVE  /\ workers'[v].pc \notin Resting => workers'[v].token \in Tokens
             /\ workers'[v].pc = "releasePrior" => workers'[v].prior \in Tokens
             /\ workers'[v].pc \in Uncounted => claims'[workers'[v].token].state \notin Counts
  <2>1. workers'[v] = workers[v]
    BY <1>1, <1>b DEF Moves, Alone
  <2>2. ASSUME workers[v].pc \in Uncounted
        PROVE  claims'[workers[v].token].state \notin Counts
    <3>1. workers[v].token \in Tokens /\ ~Counted(workers[v].token)
      BY <1>a, <1>d, <2>2 DEF TokensHeld, Held, TokenOf
    <3>2. ~(Adds(w) /\ workers[v].token = TokenOf(w))
      BY <1>1, <1>d, <2>2 DEF Adds, PaidInv, Apart, At, TokenOf
    <3> QED
      BY <1>e, <3>1, <3>2
  <2> QED
    BY <2>1, <2>2 DEF TokensHeld, At, TokenOf
<1>2. /\ workers'[w].pc \notin Resting => workers'[w].token \in Tokens
      /\ workers'[w].pc = "releasePrior" => workers'[w].prior \in Tokens
  <2>1. workers'[w].pc = "releasePrior" => workers'[w].prior \in Tokens
    BY <1>a, Arrivals
  <2>2. ASSUME workers'[w].pc \notin Resting
        PROVE  workers'[w].token \in Tokens
    <3>1. CASE Takes(w)
      BY <3>1 DEF Takes
    <3>2. CASE KeepsLease(w) /\ workers[w].pc \notin Resting
      BY <3>2 DEF KeepsLease, TokensHeld, TokenOf
    <3>3. CASE Ends(w)
      BY <1>d, <2>2, <3>3 DEF Ends
    <3>4. workers[w].pc \in Resting => Takes(w)
      BY <1>a, <2>2, Arrivals
    <3> QED
      BY <1>b, <3>1, <3>2, <3>3, <3>4 DEF GoesOn, Arms
  <2> QED
    BY <2>1, <2>2
<1>3. ASSUME workers'[w].pc \in Uncounted
      PROVE  claims'[workers'[w].token].state \notin Counts
  <2>1. CASE Takes(w)
    <3>1. PICK t \in Tokens : claims' = [claims EXCEPT ![t] = NoClaim] /\ workers'[w].token = t
      BY <2>1 DEF Takes
    <3>2. claims'[t] = NoClaim
      BY <1>a, <3>1 DEF TypeOK
    <3> QED
      BY <3>1, <3>2 DEF NoClaim, Counts
  <2>2. CASE GoesOn(w)
    <3>1. workers[w].pc \in Uncounted /\ workers'[w].token = TokenOf(w)
      BY <1>3, <1>d, <2>2 DEF GoesOn, KeepsLease, TokenOf
    <3>2. TokenOf(w) \in Tokens /\ ~Counted(TokenOf(w))
      BY <1>a, <1>d, <3>1 DEF TokensHeld, Held
    <3>3. ~Adds(w)
      BY <1>3 DEF Adds
    <3> QED
      BY <1>e, <3>1, <3>2, <3>3
  <2> QED
    BY <1>3, <1>b, <1>d, <2>1, <2>2 DEF Ends, Arms
<1>4. \A v \in Workers :
        /\ workers'[v].pc \notin Resting => workers'[v].token \in Tokens
        /\ workers'[v].pc = "releasePrior" => workers'[v].prior \in Tokens
        /\ workers'[v].pc \in Uncounted => claims'[workers'[v].token].state \notin Counts
  BY <1>1, <1>2, <1>3
<1> QED
  BY <1>4 DEF TokensHeld, At, TokenOf, Counted, Counts

\* What is not a dispatch's step leaves the authority alone; only a crash
\* changes the locals.
LEMMA OutsideSteps ==
  ASSUME workers \in [Workers -> Worker],
         \/ \E w \in Workers : Crash(w)
         \/ \E j \in Jobs : LeaseExpires(j) \/ Restore(j) \/ Supersede(j)
         \/ NextDay \/ UNCHANGED vars
  PROVE  /\ UNCHANGED <<claims, usage, paid>>
         /\ \A v \in Workers : workers'[v] = workers[v] \/ workers'[v] = NoWork
<1>1. ASSUME NEW w \in Workers, Crash(w)
      PROVE  /\ UNCHANGED <<claims, usage, paid>>
             /\ \A v \in Workers : workers'[v] = workers[v] \/ workers'[v] = NoWork
  <2>1. \A v \in Workers : workers'[v] = workers[v] \/ workers'[v] = NoWork
    BY <1>1, Leaves DEF Crash, Moves, Alone, Ends
  <2> QED
    BY <1>1, <2>1 DEF Crash, authority
<1>2. CASE \/ \E j \in Jobs : LeaseExpires(j) \/ Restore(j) \/ Supersede(j)
           \/ NextDay \/ UNCHANGED vars
  <2>1. UNCHANGED <<claims, usage, paid, workers>>
    BY <1>2 DEF LeaseExpires, Restore, Supersede, NextDay, vars, authority
  <2> QED
    BY <2>1
<1> QED
  BY <1>1, <1>2

LEMMA InitUsage == Init => UsageInv
<1> SUFFICES ASSUME Init PROVE UsageInv
  OBVIOUS
<1>1. NoWork.pc \in Resting /\ NoWork.pc \notin Uncounted /\ NoWork.pc # "releasePrior"
  BY DEF NoWork, Resting, Uncounted
<1>2. TokensHeld
  BY <1>1 DEF Init, TokensHeld, At
<1>3. \A t \in Tokens : ~Counted(t)
  BY DEF Init, Counted, NoClaim
<1>4. \A d \in 1..Days : {t \in Tokens : Counted(t) /\ claims[t].day = d} = {}
  BY <1>3
<1>5. UsageIsExact
  BY <1>4, FS_EmptySet, LimitAssumption DEF Init, UsageIsExact
<1> QED
  BY <1>2, <1>5 DEF UsageInv

LEMMA NextUsage == TypeInv /\ PaidInv /\ UsageInv /\ [Next]_vars => UsageInv'
<1> SUFFICES ASSUME TypeInv, PaidInv, UsageInv, [Next]_vars PROVE UsageInv'
  OBVIOUS
<1>1. ASSUME NEW w \in Workers, Dispatch(w) PROVE UsageInv'
  <2>1. TokensHeld
    BY DEF UsageInv
  <2> QED
    BY <1>1, <2>1, TokensStep, DispatchCounts, UsageStep DEF UsageInv
<1>2. CASE \/ \E w \in Workers : Crash(w)
           \/ \E j \in Jobs : LeaseExpires(j) \/ Restore(j) \/ Supersede(j)
           \/ NextDay \/ UNCHANGED vars
  <2>1. /\ UNCHANGED <<claims, usage>>
        /\ \A v \in Workers : workers'[v] = workers[v] \/ workers'[v] = NoWork
    BY <1>2, OutsideSteps DEF TypeInv, TypeOK
  <2>2. NoWork.pc \in Resting /\ NoWork.pc \notin Uncounted /\ NoWork.pc # "releasePrior"
    BY DEF NoWork, Resting, Uncounted
  <2>3. TokensHeld'
    BY <2>1, <2>2 DEF UsageInv, TokensHeld, At, TokenOf, Counted
  <2>4. UsageIsExact'
    BY <2>1 DEF UsageInv, UsageIsExact, Counted
  <2> QED
    BY <2>3, <2>4 DEF UsageInv
<1> QED
  BY <1>1, <1>2 DEF Next

\* The counter of each day is the number of that day's claims that were not
\* given back, and within the limit: no lost answer, second release, midnight or
\* crash between the two counts one twice or loses one.
THEOREM UsageStaysExact == Spec => []UsageIsExact
<1>1. Spec => []PaidInv
  BY InitPaid, NextPaid, TypesHold, PTL DEF Spec
<1>2. Spec => []UsageInv
  BY <1>1, InitUsage, NextUsage, TypesHold, PTL DEF Spec
<1>3. UsageInv => UsageIsExact
  BY DEF UsageInv
<1> QED
  BY <1>2, <1>3, PTL

-----------------------------------------------------------------------------
(* Part 7: one paid call for one configuration                              *)

\* A paid call has its receipt, under its own claim, for as long as no backup
\* comes back; a dispatch that is about to call has just written its receipt.
HasReceiptOf(j, k, t) == receipts[j][k].state # "ABSENT" /\ receipts[j][k].claim = t
ReceiptInv ==
  restores = 0 =>
    /\ \A p \in paid : HasReceiptOf(p[1], p[2], p[3])
    /\ \A w \in Workers : At(w, "call") => HasReceiptOf(JobOf(w), KeyOf(w), TokenOf(w))

\* A receipt is written once: it moves on, but keeps its claim.
LEMMA ReceiptStays ==
  ASSUME TypeInv, NEW w \in Workers, Dispatch(w), NEW j \in Jobs, NEW k \in Keys,
         receipts[j][k].state # "ABSENT"
  PROVE  receipts'[j][k].state # "ABSENT" /\ receipts'[j][k].claim = receipts[j][k].claim
<1>a. receipts \in [Jobs -> [Keys -> Receipt]] /\ receipts[j][k] \in Receipt
  BY DEF TypeInv, TypeOK
<1>b. \A st : /\ [receipts[j][k] EXCEPT !.state = st].state = st
              /\ [receipts[j][k] EXCEPT !.state = st].claim = receipts[j][k].claim
  BY <1>a, SMT DEF Receipt
\* The state of one receipt is assigned.
<1>c. ASSUME NEW i, NEW l, NEW st, st # "ABSENT",
             receipts' = [receipts EXCEPT ![i][l].state = st]
      PROVE  receipts'[j][k].state # "ABSENT" /\ receipts'[j][k].claim = receipts[j][k].claim
  <2>1. receipts'[j][k] = receipts[j][k]
        \/ receipts'[j][k] = [receipts[j][k] EXCEPT !.state = st]
    <3>1. CASE i = j /\ l = k
      BY <1>a, <1>c, <3>1
    <3>2. CASE i = j /\ l # k
      BY <1>a, <1>c, <3>2
    <3>3. CASE i # j
      BY <1>a, <1>c, <3>3
    <3> QED
      BY <3>1, <3>2, <3>3
  <2> QED
    BY <1>b, <1>c, <2>1
<1>1. CASE UNCHANGED receipts
  BY <1>1
<1>2. CASE RecoverExpired(w)
  <2>1. receipts'[j][k] = receipts[j][k]
        \/ receipts'[j][k] = [receipts[j][k] EXCEPT !.state = "OUTCOME_UNKNOWN"]
    BY <1>2 DEF RecoverExpired
  <2> QED
    BY <1>b, <2>1
<1>3. CASE Activate(w)
  <2>1. CASE CanActivate(w) /\ WriteReceipt(w)
    <3>1. JobOf(w) \in Jobs /\ KeyOf(w) \in Keys
      BY <1>3 DEF Activate, At, TypeInv, Held, Before, Keyed
    <3>2. ~(JobOf(w) = j /\ KeyOf(w) = k)
      BY <2>1 DEF CanActivate, ReceiptOf
    <3>3. receipts'[j][k] = receipts[j][k]
      <4>1. CASE JobOf(w) = j /\ KeyOf(w) # k
        BY <1>a, <2>1, <4>1 DEF WriteReceipt
      <4>2. CASE JobOf(w) # j
        BY <1>a, <2>1, <4>2 DEF WriteReceipt
      <4> QED
        BY <3>2, <4>1, <4>2
    <3> QED
      BY <3>3
  <2> QED
    BY <1>1, <1>3, <2>1 DEF Activate
<1>4. CASE StoreOutput(w)
  <2>1. \/ UNCHANGED receipts
        \/ receipts' = [receipts EXCEPT ![JobOf(w)][KeyOf(w)].state = "OUTPUT_STORED"]
    BY <1>4 DEF StoreOutput, Save, local
  <2> QED
    BY <1>1, <1>c, <2>1
<1>5. CASE MarkUnknown(w)
  <2> DEFINE unknown == [receipts EXCEPT ![JobOf(w)][KeyOf(w)].state =
                           IF @ = "RUNNING" THEN "OUTCOME_UNKNOWN" ELSE @]
  <2>1. UNCHANGED receipts \/ receipts' = unknown
    BY <1>5 DEF MarkUnknown, local
  <2>2. CASE receipts' = unknown
    <3>1. CASE receipts[JobOf(w)][KeyOf(w)].state = "RUNNING"
      <4>1. receipts' = [receipts EXCEPT ![JobOf(w)][KeyOf(w)].state = "OUTCOME_UNKNOWN"]
        BY <2>2, <3>1
      <4> QED
        BY <1>c, <4>1
    <3>2. CASE receipts[JobOf(w)][KeyOf(w)].state # "RUNNING"
      <4>1. receipts' = receipts
        BY <1>a, <2>2, <3>2 DEF Receipt
      <4> QED
        BY <1>1, <4>1
    <3> QED
      BY <3>1, <3>2
  <2> QED
    BY <1>1, <2>1, <2>2
<1> QED
  BY <1>1, <1>2, <1>3, <1>4, <1>5 DEF Dispatch, ClaimNext, ReadStored, ReadExecution, Retry,
     ReadPrior, ReleasePrior, ReserveAttempt, AuthorizeExecution, CallProvider,
     SettleAnswered, SettleFailed, Finish, CheckActivated, GiveBack, Pause, local

LEMMA ReceiptStep ==
  ASSUME TypeInv, ReceiptInv, NEW w \in Workers, Dispatch(w)
  PROVE  ReceiptInv'
<1>a. /\ workers \in [Workers -> Worker] /\ TypeOK /\ Held /\ TypeOK' /\ Held'
      /\ paid \subseteq Jobs \X Keys \X Tokens
      /\ receipts \in [Jobs -> [Keys -> Receipt]]
  BY DispatchTypes DEF TypeInv, TypeOK
<1>b. restores' = restores
  BY <1>a, DispatchRest DEF upsets
<1> SUFFICES ASSUME restores = 0
             PROVE  /\ \A p \in paid' : HasReceiptOf(p[1], p[2], p[3])'
                    /\ \A v \in Workers :
                         workers'[v].pc = "call" =>
                           /\ receipts'[workers'[v].job][workers'[v].key].state # "ABSENT"
                           /\ receipts'[workers'[v].job][workers'[v].key].claim = workers'[v].token
  BY <1>b DEF ReceiptInv, HasReceiptOf, At, JobOf, KeyOf, TokenOf
<1>c. \A v \in Workers : workers[v].pc = "call" =>
        workers[v].job \in Jobs /\ workers[v].key \in Keys /\ workers[v].token \in Tokens
  BY <1>a DEF Held, Before, Keyed, JobOf, KeyOf, TokenOf
<1>1. ASSUME NEW p \in paid'
      PROVE  HasReceiptOf(p[1], p[2], p[3])'
  <2>1. \/ HasReceiptOf(p[1], p[2], p[3]) /\ p[1] \in Jobs /\ p[2] \in Keys
    <3>1. CASE p \in paid
      BY <1>a, <3>1 DEF ReceiptInv
    <3>2. CASE At(w, "call") /\ p = <<JobOf(w), KeyOf(w), TokenOf(w)>>
      BY <1>c, <3>2 DEF ReceiptInv, At, JobOf, KeyOf, TokenOf
    <3> QED
      BY <1>1, <1>a, <3>1, <3>2, DispatchRest
  <2> QED
    BY <2>1, ReceiptStays DEF HasReceiptOf
<1>2. ASSUME NEW v \in Workers, workers'[v].pc = "call"
      PROVE  /\ receipts'[workers'[v].job][workers'[v].key].state # "ABSENT"
             /\ receipts'[workers'[v].job][workers'[v].key].claim = workers'[v].token
  <2>1. CASE v # w
    <3>1. workers'[v] = workers[v]
      BY <1>a, <2>1, DispatchMoves DEF Moves, Alone
    <3>2. HasReceiptOf(workers[v].job, workers[v].key, workers[v].token)
      BY <1>2, <3>1 DEF ReceiptInv, At, JobOf, KeyOf, TokenOf
    <3> QED
      BY <1>2, <1>c, <3>1, <3>2, ReceiptStays DEF HasReceiptOf
  <2>2. CASE v = w
    <3>1. /\ At(w, "activate") /\ WriteReceipt(w)
          /\ KeepsLease(w) /\ workers'[w].key = workers[w].key
      BY <1>2, <1>a, <2>2, Arrivals
    <3>2. JobOf(w) \in Jobs /\ KeyOf(w) \in Keys
      BY <1>a, <3>1 DEF At, Held, Before, Keyed
    <3>3. receipts'[JobOf(w)][KeyOf(w)] = [state |-> "RUNNING", claim |-> TokenOf(w)]
      BY <1>a, <3>1, <3>2 DEF WriteReceipt
    <3> QED
      BY <2>2, <3>1, <3>3 DEF KeepsLease, JobOf, KeyOf, TokenOf
  <2> QED
    BY <2>1, <2>2
<1> QED
  BY <1>1, <1>2

LEMMA NextReceipts == TypeInv /\ ReceiptInv /\ [Next]_vars => ReceiptInv'
<1> SUFFICES ASSUME TypeInv, ReceiptInv, [Next]_vars PROVE ReceiptInv'
  OBVIOUS
<1>1. ASSUME NEW w \in Workers, Dispatch(w) PROVE ReceiptInv'
  BY <1>1, ReceiptStep
<1>2. CASE \E j \in Jobs : Restore(j)
  <2>1. restores' # 0
    BY <1>2, BoundsAssumption, SMT DEF Restore, TypeInv, TypeOK
  <2> QED
    BY <2>1 DEF ReceiptInv
<1>3. CASE \/ \E w \in Workers : Crash(w)
           \/ \E j \in Jobs : LeaseExpires(j) \/ Supersede(j)
           \/ NextDay \/ UNCHANGED vars
  <2>1. /\ UNCHANGED paid
        /\ \A v \in Workers : workers'[v] = workers[v] \/ workers'[v] = NoWork
    BY <1>3, OutsideSteps DEF TypeInv, TypeOK
  <2>2. UNCHANGED <<receipts, restores>>
    BY <1>3 DEF Crash, LeaseExpires, Supersede, NextDay, vars, local, upsets
  <2>3. NoWork.pc # "call"
    BY DEF NoWork
  <2> QED
    BY <2>1, <2>2, <2>3 DEF ReceiptInv, HasReceiptOf, At, JobOf, KeyOf, TokenOf
<1> QED
  BY <1>1, <1>2, <1>3 DEF Next

\* A job pays once for one configuration of the provider: the receipt is there,
\* with its one claim, before the call leaves, and nothing but a restored backup
\* takes it away.
THEOREM PaysOnce == Spec => []OnePaidCallPerExecution
<1>1. Init => ReceiptInv
  BY DEF Init, ReceiptInv, At, NoWork
<1>2. ASSUME TypeInv, ReceiptInv
      PROVE  OnePaidCallPerExecution
  <2> SUFFICES ASSUME restores = 0, NEW p \in paid, NEW q \in paid, p[1] = q[1], p[2] = q[2]
               PROVE  p = q
    BY DEF OnePaidCallPerExecution
  <2>1. p \in Jobs \X Keys \X Tokens /\ q \in Jobs \X Keys \X Tokens
    BY <1>2 DEF TypeInv, TypeOK
  <2>2. p[3] = q[3]
    BY <1>2 DEF ReceiptInv, HasReceiptOf
  <2> QED
    BY <2>1, <2>2
<1> QED
  BY <1>1, <1>2, NextReceipts, TypesHold, PTL DEF Spec

-----------------------------------------------------------------------------
(* Part 8: what it takes to send a job's call again                         *)

\* A call was sent, or may have been, and its outcome is not known.
Underway(j) == \E k \in Keys : Unsettled(j, k)

\* The gap: the lease of a call under way expires after a dispatch has recovered
\* the expired ones and before it selects a job.
NoCallTakenOver ==
  [][\A j \in Jobs : Expired(j) /\ jobs'[j].lease = "live" => ~Underway(j)]_vars

\* A dispatch that has found no output of its job and is on its way to a call.
SeekingPcs == {"look", "prior", "releasePrior", "reserve", "authorize", "activate"}

\* A job has one receipt at most; while its call is under way nobody but a
\* takeover gets it; and whoever holds its lease on the way to a call has none.
OneReceipt ==
  \A j \in Jobs, k, l \in Keys :
    receipts[j][k].state # "ABSENT" /\ receipts[j][l].state # "ABSENT" => k = l
KeptBack == \A j \in Jobs : Underway(j) => jobs[j].status \notin {"PENDING", "RETRYABLE"}
Seeks(w) ==
  /\ At(w, "read") /\ LeaseLive(w) => ~Underway(JobOf(w))
  /\ workers[w].pc \in SeekingPcs /\ LeaseLive(w) => ~HasReceipt(JobOf(w))
AnswersKnown ==
  \A w \in Workers :
    workers[w].pc \in {"answered", "store"} => JobOf(w) \in Jobs /\ KeyOf(w) \in Keys
SentInv ==
  /\ AnswersKnown
  /\ restores = 0 => OneReceipt /\ KeptBack /\ \A w \in Workers : Seeks(w)

\* How a dispatch gets to where it seeks, and where it has an answer.
LEMMA SeeksOn ==
  ASSUME workers \in [Workers -> Worker], NEW w \in Workers, Dispatch(w)
  PROVE  /\ workers'[w].pc \in {"answered", "store"} =>
              /\ workers[w].pc \in {"call", "answered"}
              /\ KeepsLease(w) /\ workers'[w].key = workers[w].key
         /\ workers'[w].pc = "read" => ClaimNext(w)
         /\ workers'[w].pc = "look" =>
              /\ At(w, "read") /\ KeepsLease(w) /\ UNCHANGED local
              /\ LeaseLive(w) => ~HasOutput(JobOf(w))
         /\ workers'[w].pc \in SeekingPcs \ {"look"} =>
              workers[w].pc \in SeekingPcs /\ KeepsLease(w)
<1> DEFINE Goal == /\ workers'[w].pc \in {"answered", "store"} =>
                        /\ workers[w].pc \in {"call", "answered"}
                        /\ KeepsLease(w) /\ workers'[w].key = workers[w].key
                   /\ workers'[w].pc = "read" => ClaimNext(w)
                   /\ workers'[w].pc = "look" =>
                        /\ At(w, "read") /\ KeepsLease(w) /\ UNCHANGED local
                        /\ LeaseLive(w) => ~HasOutput(JobOf(w))
                   /\ workers'[w].pc \in SeekingPcs \ {"look"} =>
                        workers[w].pc \in SeekingPcs /\ KeepsLease(w)
<1>a. ASSUME Leave(w) PROVE Goal
  <2>1. workers'[w].pc = "idle"
    BY <1>a DEF Leave, NoWork
  <2> QED
    BY <2>1 DEF SeekingPcs
\* The next place is no place to seek or to answer from.
<1>b. ASSUME NEW pc \in {"check", "mark", "finish", "retry", "giveBack", "failed", "call",
                        "giveBackAgain", "pause", "select"},
             Assigned(w, pc)
      PROVE  Goal
  <2>1. pc \in Pcs
    BY DEF Pcs
  <2>2. workers'[w].pc = pc
    BY <1>b, <2>1, Assigns
  <2> QED
    BY <2>2 DEF SeekingPcs
<1>c. ASSUME Fail(w) PROVE Goal
  <2>1. \E pc \in {"check", "mark"} : Assigned(w, pc)
    BY <1>c, Zenon DEF Fail, Goto, Assigned
  <2> QED
    BY <1>b, <2>1
\* It is one to seek from.
<1>d. ASSUME NEW pc \in SeekingPcs \ {"look"}, Assigned(w, pc), workers[w].pc \in SeekingPcs
      PROVE  Goal
  <2>1. pc \in Pcs /\ pc \notin {"answered", "store", "read", "look"}
    BY DEF Pcs, SeekingPcs
  <2>2. workers'[w].pc = pc /\ KeepsLease(w)
    BY <1>d, <2>1, Assigns
  <2> QED
    BY <1>d, <2>1, <2>2
\* It is one with an answer.
<1>e. ASSUME NEW pc \in {"answered", "store"}, Assigned(w, pc),
             workers[w].pc \in {"call", "answered"}
      PROVE  Goal
  <2>1. pc \in Pcs /\ pc \notin SeekingPcs /\ pc # "read" /\ pc # "look"
    BY DEF Pcs, SeekingPcs
  <2>2. workers'[w].pc = pc /\ KeepsLease(w) /\ workers'[w].key = workers[w].key
    BY <1>e, <2>1, Assigns
  <2> QED
    BY <1>e, <2>1, <2>2
<1>1. CASE RecoverExpired(w)
  BY <1>1, <1>b DEF RecoverExpired, Goto, Assigned
<1>2. CASE ClaimNext(w)
  <2>1. At(w, "select")
    BY <1>2 DEF ClaimNext
  <2>2. Leave(w) \/ Takes(w)
    <3>1. workers'[w].pc \in Resting => Leave(w)
      <4>1. \A j \in Jobs, t \in Tokens :
              [NoWork EXCEPT !.pc = "read", !.job = j, !.token = t].pc \notin Resting
        BY SMT DEF NoWork, Resting
      <4> QED
        BY <1>2, <4>1 DEF ClaimNext
    <3> QED
      BY <2>1, <3>1, Arrivals DEF At, Resting
  <2>3. Takes(w) => workers'[w].pc = "read"
    BY DEF Takes
  <2> QED
    BY <1>2, <1>a, <2>2, <2>3 DEF SeekingPcs
<1>3. CASE ReadStored(w)
  <2>1. At(w, "read") /\ UNCHANGED local
    BY <1>3 DEF ReadStored
  <2>2. \/ Assigned(w, "finish") \/ Assigned(w, "retry")
        \/ Assigned(w, "look") /\ (LeaseLive(w) => ~HasOutput(JobOf(w)))
    BY <1>3, Zenon DEF ReadStored, Goto, Assigned, HasOutput
  <2>3. CASE Assigned(w, "look") /\ (LeaseLive(w) => ~HasOutput(JobOf(w)))
    <3>1. workers'[w].pc = "look" /\ KeepsLease(w)
      BY <2>3, Assigns, Literals
    <3> QED
      BY <2>1, <2>3, <3>1
  <2> QED
    BY <1>b, <2>2, <2>3
<1>4. CASE ReadExecution(w)
  <2>1. At(w, "look")
    BY <1>4 DEF ReadExecution
  <2>2. workers'[w].pc \in {"idle", "prior", "finish", "retry"}
    <3>1. workers[w] \in Worker /\ NoWork.pc = "idle"
      BY DEF NoWork
    <3>2. \A k, pc : [workers[w] EXCEPT !.key = k, !.pc = pc].pc = pc
      BY <3>1, SMT DEF Worker
    <3>3. Goto(w, "retry") => workers'[w].pc = "retry"
      BY <3>1, SMT DEF Goto, Worker
    <3>4. ASSUME NEW k \in Keys,
                 workers' = [workers EXCEPT ![w] =
                   IF receipts[JobOf(w)][k].state \in {"RUNNING", "OUTCOME_UNKNOWN"} THEN NoWork
                   ELSE [workers[w] EXCEPT !.key = k,
                           !.pc = IF receipts[JobOf(w)][k].state = "ABSENT"
                                  THEN "prior" ELSE "finish"]]
          PROVE  workers'[w].pc \in {"idle", "prior", "finish", "retry"}
      BY <3>1, <3>2, <3>4
    <3> QED
      BY <1>4, <3>3, <3>4 DEF ReadExecution
  <2>3. workers'[w].pc = "prior" => KeepsLease(w)
    BY DispatchMoves DEF Ends, NoWork, GoesOn, Takes, Arms
  <2> QED
    BY <2>1, <2>2, <2>3 DEF At, SeekingPcs
<1>5. CASE Retry(w) \/ Pause(w)
  BY <1>5, <1>a DEF Retry, Pause
<1>6. CASE ReadPrior(w) \/ ReleasePrior(w) \/ ReserveAttempt(w) \/ AuthorizeExecution(w)
  <2>1. workers[w].pc \in SeekingPcs
    BY <1>6 DEF ReadPrior, ReleasePrior, ReserveAttempt, AuthorizeExecution, At, SeekingPcs
  <2>2. \/ Fail(w)
        \/ \E pc \in {"releasePrior", "reserve", "authorize", "activate"} : Assigned(w, pc)
    BY <1>6, Literals, Zenon
    DEF ReadPrior, ReleasePrior, ReserveAttempt, AuthorizeExecution, Goto, Assigned, Reserved
  <2> QED
    BY <1>c, <1>d, <2>1, <2>2 DEF SeekingPcs
<1>7. CASE Activate(w)
  BY <1>7, <1>b, <1>c, Literals DEF Activate, Assigned
<1>8. CASE CallProvider(w) \/ SettleAnswered(w)
  <2>1. workers[w].pc \in {"call", "answered"}
    BY <1>8 DEF CallProvider, SettleAnswered, At
  <2>2. \/ Assigned(w, "answered") \/ Assigned(w, "failed")
        \/ Assigned(w, "store") \/ Assigned(w, "mark")
    BY <1>8 DEF CallProvider, SettleAnswered, Goto, Assigned
  <2> QED
    BY <1>b, <1>e, <2>1, <2>2
<1>9. CASE SettleFailed(w) \/ StoreOutput(w)
  BY <1>9, <1>b DEF SettleFailed, StoreOutput, Goto, Assigned
<1>10. CASE Finish(w)
  <2>1. workers[w].pc = "finish"
    BY <1>10 DEF Finish, At
  <2>2. Leave(w) \/ workers' = workers
    BY <1>10 DEF Finish
  <2> QED
    BY <1>a, <2>1, <2>2 DEF SeekingPcs
<1>11. CASE CheckActivated(w) \/ GiveBack(w)
  BY <1>11, <1>b, Literals DEF CheckActivated, GiveBack, Goto, Assigned
<1>12. CASE MarkUnknown(w)
  BY <1>12, <1>a, <1>b DEF MarkUnknown, Goto, Assigned
<1> QED
  BY <1>1, <1>2, <1>3, <1>4, <1>5, <1>6, <1>7, <1>8, <1>9, <1>10, <1>11, <1>12 DEF Dispatch

\* What a step does to the rows when it takes no job and writes no receipt: it
\* may end a job's lease, receipts move on, and a job is given back without a
\* receipt or with its output.
QuietRows ==
  /\ \A j \in Jobs : jobs'[j] = jobs[j] \/ jobs'[j].lease # "live"
  /\ \A j \in Jobs, k \in Keys :
       /\ receipts'[j][k].state = "ABSENT" <=> receipts[j][k].state = "ABSENT"
       /\ Unsettled(j, k)' => Unsettled(j, k)
  /\ \A j \in Jobs : jobs'[j].status \in {"PENDING", "RETRYABLE"} =>
       jobs'[j].status = jobs[j].status \/ ~HasReceipt(j) \/ HasOutput(j)'

LEMMA ReleasedRow ==
  ASSUME jobs \in [Jobs -> Job], NEW j \in Jobs, NEW i, NEW status,
         jobs' = Released(i, status)
  PROVE  \/ jobs'[j] = jobs[j]
         \/ i = j /\ jobs'[j].status = status /\ jobs'[j].lease = "none"
<1>1. /\ [NoJob EXCEPT !.status = status].status = status
      /\ [NoJob EXCEPT !.status = status].lease = "none"
  BY SMT DEF NoJob
<1>2. CASE i = j
  BY <1>1, <1>2 DEF Released
<1>3. CASE i # j
  BY <1>3 DEF Released
<1> QED
  BY <1>2, <1>3

\* The state of one receipt that is not settled is assigned.
LEMMA ReceiptMoves ==
  ASSUME receipts \in [Jobs -> [Keys -> Receipt]], NEW i \in Jobs, NEW l \in Keys,
         Unsettled(i, l), NEW st \in {"OUTCOME_UNKNOWN", "OUTPUT_STORED"},
         receipts' = [receipts EXCEPT ![i][l].state = st]
  PROVE  /\ \A j \in Jobs, k \in Keys :
              /\ receipts'[j][k].state = "ABSENT" <=> receipts[j][k].state = "ABSENT"
              /\ Unsettled(j, k)' => Unsettled(j, k)
         /\ receipts'[i][l].state = st
<1>1. receipts[i][l] \in Receipt
  OBVIOUS
<1>2. [receipts[i][l] EXCEPT !.state = st].state = st
  BY <1>1, SMT DEF Receipt
<1>3. receipts'[i][l] = [receipts[i][l] EXCEPT !.state = st]
  OBVIOUS
<1>4. ASSUME NEW j \in Jobs, NEW k \in Keys, ~(j = i /\ k = l)
      PROVE  receipts'[j][k] = receipts[j][k]
  <2>1. CASE j = i /\ k # l
    BY <2>1
  <2>2. CASE j # i
    BY <2>2
  <2> QED
    BY <1>4, <2>1, <2>2
<1> QED
  BY <1>2, <1>3, <1>4 DEF Unsettled

LEMMA RowsMove ==
  ASSUME TypeInv, AnswersKnown, NEW w \in Workers, Dispatch(w)
  PROVE  \/ ClaimNext(w)
         \/ /\ At(w, "activate") /\ CanActivate(w) /\ WriteReceipt(w)
            /\ UNCHANGED jobs /\ workers'[w].pc \in {"call", "check", "mark"}
         \/ QuietRows
<1>a. /\ jobs \in [Jobs -> Job] /\ receipts \in [Jobs -> [Keys -> Receipt]]
      /\ workers \in [Workers -> Worker]
  BY DEF TypeInv, TypeOK
<1>1. CASE UNCHANGED local
  BY <1>1 DEF local, QuietRows, Unsettled
<1>2. CASE RecoverExpired(w)
  <2>1. ASSUME NEW j \in Jobs
        PROVE  \/ jobs'[j] = jobs[j]
               \/ jobs'[j].status = "OUTCOME_UNKNOWN" /\ jobs'[j].lease = "none"
    <3>1. /\ [NoJob EXCEPT !.status = "OUTCOME_UNKNOWN"].status = "OUTCOME_UNKNOWN"
          /\ [NoJob EXCEPT !.status = "OUTCOME_UNKNOWN"].lease = "none"
      BY SMT DEF NoJob
    <3>2. \/ jobs'[j] = jobs[j]
          \/ jobs'[j] = [NoJob EXCEPT !.status = "OUTCOME_UNKNOWN"]
      BY <1>2 DEF RecoverExpired
    <3> QED
      BY <3>1, <3>2
  <2>2. ASSUME NEW j \in Jobs, NEW k \in Keys
        PROVE  /\ receipts'[j][k].state = "ABSENT" <=> receipts[j][k].state = "ABSENT"
               /\ Unsettled(j, k)' => Unsettled(j, k)
    <3>1. receipts[j][k] \in Receipt
      BY <1>a
    <3>2. [receipts[j][k] EXCEPT !.state = "OUTCOME_UNKNOWN"].state = "OUTCOME_UNKNOWN"
      BY <3>1, SMT DEF Receipt
    <3>3. \/ receipts'[j][k] = receipts[j][k]
          \/ /\ receipts[j][k].state = "RUNNING"
             /\ receipts'[j][k] = [receipts[j][k] EXCEPT !.state = "OUTCOME_UNKNOWN"]
      BY <1>2 DEF RecoverExpired
    <3> QED
      BY <3>2, <3>3 DEF Unsettled
  <2> QED
    BY <2>1, <2>2 DEF QuietRows
<1>3. CASE Retry(w) \/ Pause(w)
  <2>1. /\ UNCHANGED receipts
        /\ UNCHANGED jobs \/ (~HasReceipt(JobOf(w)) /\ jobs' = Released(JobOf(w), "RETRYABLE"))
    BY <1>3 DEF Retry, Pause
  <2>2. ASSUME NEW j \in Jobs
        PROVE  jobs'[j] = jobs[j] \/ (jobs'[j].lease = "none" /\ ~HasReceipt(j))
    BY <1>a, <2>1, ReleasedRow
  <2> QED
    BY <2>1, <2>2 DEF QuietRows, Unsettled
<1>4. CASE Activate(w)
  <2>1. \E pc \in {"call", "check", "mark"} : Assigned(w, pc)
    BY <1>4, Literals, Zenon DEF Activate, Fail, Goto, Assigned
  <2>2. workers'[w].pc \in {"call", "check", "mark"}
    BY <1>a, <2>1, Assigns, Literals
  <2> QED
    BY <1>1, <1>4, <2>2 DEF Activate, local
<1>5. CASE StoreOutput(w)
  <2>1. JobOf(w) \in Jobs /\ KeyOf(w) \in Keys
    BY <1>5 DEF StoreOutput, At, AnswersKnown
  <2>2. \/ UNCHANGED local
        \/ /\ Unsettled(JobOf(w), KeyOf(w))
           /\ receipts' = [receipts EXCEPT ![JobOf(w)][KeyOf(w)].state = "OUTPUT_STORED"]
           /\ UNCHANGED jobs \/ jobs' = Released(JobOf(w), "PENDING")
    BY <1>5 DEF StoreOutput, Save, Storable
  <2>3. CASE /\ Unsettled(JobOf(w), KeyOf(w))
             /\ receipts' = [receipts EXCEPT ![JobOf(w)][KeyOf(w)].state = "OUTPUT_STORED"]
             /\ UNCHANGED jobs \/ jobs' = Released(JobOf(w), "PENDING")
    <3>1. /\ \A j \in Jobs, k \in Keys :
               /\ receipts'[j][k].state = "ABSENT" <=> receipts[j][k].state = "ABSENT"
               /\ Unsettled(j, k)' => Unsettled(j, k)
          /\ receipts'[JobOf(w)][KeyOf(w)].state = "OUTPUT_STORED"
      BY <1>a, <2>1, <2>3, ReceiptMoves
    <3>2. \E k \in Keys : receipts'[JobOf(w)][k].state = "OUTPUT_STORED"
      BY <2>1, <3>1
    <3>3. ASSUME NEW j \in Jobs
          PROVE  \/ jobs'[j] = jobs[j]
                 \/ /\ jobs'[j].lease = "none"
                    /\ \E k \in Keys : receipts'[j][k].state = "OUTPUT_STORED"
      BY <1>a, <2>3, <3>2, ReleasedRow
    <3> QED
      BY <3>1, <3>3 DEF QuietRows, HasOutput, Outputs
  <2> QED
    BY <1>1, <2>2, <2>3
<1>6. CASE Finish(w)
  <2>1. /\ UNCHANGED receipts
        /\ UNCHANGED jobs \/ jobs' = Released(JobOf(w), "COMPLETED")
    BY <1>6 DEF Finish
  <2>2. ASSUME NEW j \in Jobs
        PROVE  \/ jobs'[j] = jobs[j]
               \/ jobs'[j].status = "COMPLETED" /\ jobs'[j].lease = "none"
    BY <1>a, <2>1, ReleasedRow
  <2> QED
    BY <2>1, <2>2 DEF QuietRows, Unsettled
<1>7. CASE MarkUnknown(w)
  <2> DEFINE unknown == [receipts EXCEPT ![JobOf(w)][KeyOf(w)].state =
                           IF @ = "RUNNING" THEN "OUTCOME_UNKNOWN" ELSE @]
  <2>1. \/ UNCHANGED local
        \/ /\ receipts' = unknown
           /\ UNCHANGED jobs \/ jobs' = Released(JobOf(w), "OUTCOME_UNKNOWN")
    BY <1>7 DEF MarkUnknown
  <2>2. ASSUME receipts' = unknown,
               NEW j \in Jobs, NEW k \in Keys
        PROVE  /\ receipts'[j][k].state = "ABSENT" <=> receipts[j][k].state = "ABSENT"
               /\ Unsettled(j, k)' => Unsettled(j, k)
    <3>1. receipts[j][k] \in Receipt
      BY <1>a
    <3>2. [receipts[j][k] EXCEPT !.state =
             IF @ = "RUNNING" THEN "OUTCOME_UNKNOWN" ELSE @].state
          = IF receipts[j][k].state = "RUNNING" THEN "OUTCOME_UNKNOWN" ELSE receipts[j][k].state
      BY <3>1, SMT DEF Receipt
    <3>3. \/ receipts'[j][k] = receipts[j][k]
          \/ receipts'[j][k] = [receipts[j][k] EXCEPT !.state =
                                  IF @ = "RUNNING" THEN "OUTCOME_UNKNOWN" ELSE @]
      <4>1. CASE j = JobOf(w) /\ k = KeyOf(w)
        BY <1>a, <2>2, <4>1
      <4>2. CASE j = JobOf(w) /\ k # KeyOf(w)
        BY <1>a, <2>2, <4>2
      <4>3. CASE j # JobOf(w)
        BY <1>a, <2>2, <4>3
      <4> QED
        BY <4>1, <4>2, <4>3
    <3>4. \/ receipts'[j][k].state = receipts[j][k].state
          \/ receipts[j][k].state = "RUNNING" /\ receipts'[j][k].state = "OUTCOME_UNKNOWN"
      BY <3>2, <3>3, Zenon
    <3> HIDE DEF unknown
    <3> QED
      BY <3>4 DEF Unsettled
  <2>3. CASE /\ receipts' = unknown
             /\ UNCHANGED jobs \/ jobs' = Released(JobOf(w), "OUTCOME_UNKNOWN")
    <3>1. ASSUME NEW j \in Jobs
          PROVE  \/ jobs'[j] = jobs[j]
                 \/ jobs'[j].status = "OUTCOME_UNKNOWN" /\ jobs'[j].lease = "none"
      BY <1>a, <2>3, ReleasedRow
    <3> QED
      BY <2>2, <2>3, <3>1 DEF QuietRows
  <2> QED
    BY <1>1, <2>1, <2>3
<1> QED
  BY <1>1, <1>2, <1>3, <1>4, <1>5, <1>6, <1>7 DEF Dispatch, ReadStored, ReadExecution,
     ReadPrior, ReleasePrior, ReserveAttempt, AuthorizeExecution, CallProvider,
     SettleAnswered, SettleFailed, CheckActivated, GiveBack

LEMMA SeekersAreBefore == SeekingPcs \subseteq Before
BY DEF SeekingPcs, Before

\* A dispatch whose locals stay as they are is not disturbed by quiet rows.
LEMMA QuietSeeks ==
  ASSUME QuietRows, NEW v \in Workers, NEW j \in Jobs, Seeks(v), JobOf(v) = j,
         TokenOf(v)' = TokenOf(v), JobOf(v)' = j, LeaseLive(v)'
  PROVE  /\ LeaseLive(v)
         /\ ~Underway(j) => ~Underway(j)'
         /\ ~HasReceipt(j) => ~HasReceipt(j)'
BY DEF QuietRows, LeaseLive, Owns, JobOf, TokenOf, Underway, HasReceipt

LEMMA QuietKeeps ==
  ASSUME QuietRows, OneReceipt, KeptBack
  PROVE  OneReceipt' /\ KeptBack'
<1>1. OneReceipt'
  BY DEF QuietRows, OneReceipt
<1>2. ASSUME NEW j \in Jobs, Underway(j)', jobs'[j].status \in {"PENDING", "RETRYABLE"}
      PROVE  FALSE
  <2>1. PICK k \in Keys : Unsettled(j, k)' /\ Unsettled(j, k)
    BY <1>2 DEF QuietRows, Underway
  <2>2. Underway(j) /\ HasReceipt(j)
    BY <2>1 DEF Underway, HasReceipt, Unsettled
  <2>3. HasOutput(j)'
    BY <1>2, <2>2 DEF QuietRows, KeptBack
  <2>4. PICK l \in Keys : receipts'[j][l].state = "OUTPUT_STORED"
    BY <2>3 DEF HasOutput, Outputs
  <2>5. k = l
    BY <1>1, <2>1, <2>4 DEF OneReceipt, Unsettled
  <2> QED
    BY <2>1, <2>4, <2>5 DEF Unsettled
<1> QED
  BY <1>1, <1>2 DEF KeptBack

LEMMA SentStep ==
  ASSUME TypeInv, PaidInv, SentInv, NEW w \in Workers, Dispatch(w), restores = 0,
         \A j \in Jobs : Expired(j) /\ jobs'[j].lease = "live" => ~Underway(j)
  PROVE  OneReceipt' /\ KeptBack' /\ \A v \in Workers : Seeks(v)'
<1>a. /\ workers \in [Workers -> Worker] /\ jobs \in [Jobs -> Job]
      /\ receipts \in [Jobs -> [Keys -> Receipt]]
      /\ OneReceipt /\ KeptBack /\ AnswersKnown
      /\ \A v \in Workers : Seeks(v)
  BY DEF TypeInv, TypeOK, SentInv
<1>b. /\ \A v \in Workers : v # w => workers'[v] = workers[v]
      /\ \A v \in Workers : At(v, "read") \/ workers[v].pc \in SeekingPcs => JobOf(v) \in Jobs
  BY <1>a, DispatchMoves, SeekersAreBefore DEF Moves, Alone, TypeInv, Held, At, Before
<1>1. CASE ClaimNext(w)
  <2>1. UNCHANGED receipts
    BY <1>1 DEF ClaimNext
  <2>2. CASE UNCHANGED jobs /\ Leave(w)
    <3>1. workers'[w].pc = "idle"
      BY <1>a, <2>2 DEF Leave, NoWork
    <3>2. \A v \in Workers : Seeks(v)'
      BY <1>a, <1>b, <2>1, <2>2, <3>1
      DEF Seeks, At, LeaseLive, Owns, JobOf, TokenOf, Underway, Unsettled, HasReceipt, SeekingPcs
    <3> QED
      BY <1>a, <2>1, <2>2, <3>2 DEF OneReceipt, KeptBack, Underway, Unsettled
  <2>3. ASSUME NEW j \in Jobs, Claimable(j), NEW t \in Tokens, Fresh(t),
               jobs' = [jobs EXCEPT ![j] = [status |-> "RUNNING", token |-> t, lease |-> "live"]],
               \/ Leave(w)
               \/ workers' = [workers EXCEPT ![w] =
                    [NoWork EXCEPT !.pc = "read", !.job = j, !.token = t]]
        PROVE  OneReceipt' /\ KeptBack' /\ \A v \in Workers : Seeks(v)'
    <3>1. jobs'[j] = [status |-> "RUNNING", token |-> t, lease |-> "live"]
      BY <1>a, <2>3
    <3>2. ~Underway(j)
      BY <1>a, <2>3, <3>1 DEF Claimable, KeptBack
    <3>3. \A i \in Jobs : i # j => jobs'[i] = jobs[i]
      BY <1>a, <2>3
    <3>4. \/ workers'[w].pc = "idle"
          \/ workers'[w].pc = "read" /\ workers'[w].job = j
      <4>1. NoWork.pc = "idle"
        BY DEF NoWork
      <4>2. /\ [NoWork EXCEPT !.pc = "read", !.job = j, !.token = t].pc = "read"
            /\ [NoWork EXCEPT !.pc = "read", !.job = j, !.token = t].job = j
        BY SMT DEF NoWork
      <4> QED
        BY <1>a, <2>3, <4>1, <4>2 DEF Leave
    <3>5. OneReceipt' /\ KeptBack'
      BY <1>a, <2>1, <3>1, <3>3 DEF OneReceipt, KeptBack, Underway, Unsettled
    <3>6. ASSUME NEW v \in Workers, v # w PROVE Seeks(v)'
      <4>1. workers'[v] = workers[v] /\ TokenOf(v) # t
        BY <1>b, <2>3, <3>6 DEF Fresh, TokenOf
      <4>2. ASSUME At(v, "read") \/ workers[v].pc \in SeekingPcs, LeaseLive(v)'
            PROVE  LeaseLive(v)
        BY <1>b, <3>1, <3>3, <4>1, <4>2 DEF LeaseLive, Owns, JobOf, TokenOf
      <4> QED
        BY <1>a, <2>1, <4>1, <4>2
        DEF Seeks, At, JobOf, Underway, Unsettled, HasReceipt
    <3>7. Seeks(w)'
      BY <2>1, <3>2, <3>4 DEF Seeks, At, JobOf, Underway, Unsettled, SeekingPcs
    <3> QED
      BY <3>5, <3>6, <3>7
  <2> QED
    BY <1>1, <2>2, <2>3 DEF ClaimNext
<1>2. CASE /\ At(w, "activate") /\ CanActivate(w) /\ WriteReceipt(w)
           /\ UNCHANGED jobs /\ workers'[w].pc \in {"call", "check", "mark"}
  <2>1. /\ JobOf(w) \in Jobs /\ KeyOf(w) \in Keys /\ LeaseLive(w)
        /\ workers[w].pc \in SeekingPcs
    BY <1>2 DEF CanActivate, At, TypeInv, Held, Before, Keyed, SeekingPcs
  <2>2. ~HasReceipt(JobOf(w))
    BY <1>a, <2>1 DEF Seeks
  <2>3. /\ \A j \in Jobs : j # JobOf(w) => receipts'[j] = receipts[j]
        /\ \A k \in Keys : k # KeyOf(w) => receipts'[JobOf(w)][k] = receipts[JobOf(w)][k]
    BY <1>a, <1>2, <2>1 DEF WriteReceipt
  <2>4. OneReceipt'
    BY <1>a, <2>2, <2>3 DEF OneReceipt, HasReceipt
  <2>5. KeptBack'
    BY <1>a, <1>2, <2>1, <2>3 DEF KeptBack, Underway, Unsettled, LeaseLive, Owns
  <2>6. ASSUME NEW v \in Workers, v # w PROVE Seeks(v)'
    <3>1. workers'[v] = workers[v]
      BY <1>b, <2>6
    <3>2. ASSUME At(v, "read") \/ workers[v].pc \in SeekingPcs, LeaseLive(v)
          PROVE  JobOf(v) # JobOf(w)
      <4>1. workers[v].pc \in Before /\ workers[w].pc \in Before
        BY <2>1, <3>2, SeekersAreBefore DEF At, Before
      <4>2. TokenOf(v) # TokenOf(w)
        BY <2>6, <4>1 DEF PaidInv, Apart
      <4> QED
        BY <2>1, <3>2, <4>2 DEF LeaseLive, Owns
    <3>3. LeaseLive(v)' => LeaseLive(v)
      BY <1>2, <3>1 DEF LeaseLive, Owns, JobOf, TokenOf
    <3> QED
      BY <1>a, <1>b, <2>3, <3>1, <3>2, <3>3
      DEF Seeks, At, JobOf, Underway, Unsettled, HasReceipt
  <2>7. Seeks(w)'
    BY <1>2 DEF Seeks, At, SeekingPcs
  <2> QED
    BY <2>4, <2>5, <2>6, <2>7
<1>3. CASE QuietRows /\ ~ClaimNext(w)
  <2>1. ASSUME NEW v \in Workers, v # w PROVE Seeks(v)'
    <3>1. workers'[v] = workers[v]
      BY <1>b, <2>1
    <3> QED
      BY <1>a, <1>b, <1>3, <3>1, QuietSeeks DEF Seeks, At, JobOf, TokenOf
  <2>2. Seeks(w)'
    <3>1. workers'[w].pc # "read"
      BY <1>a, <1>3, SeeksOn
    <3>2. ASSUME workers'[w].pc \in SeekingPcs, LeaseLive(w)'
          PROVE  ~HasReceipt(JobOf(w))'
      <4>1. /\ At(w, "read") \/ workers[w].pc \in SeekingPcs
            /\ KeepsLease(w)
        BY <1>a, <3>2, SeeksOn
      <4>2. JobOf(w) \in Jobs /\ JobOf(w)' = JobOf(w) /\ TokenOf(w)' = TokenOf(w)
        BY <1>b, <4>1 DEF KeepsLease, JobOf, TokenOf
      <4>3. LeaseLive(w)
        BY <1>a, <1>3, <3>2, <4>2, QuietSeeks
      <4>4. CASE At(w, "read")
        <5>1. workers'[w].pc = "look"
          BY <1>a, <3>2, <4>4, SeeksOn DEF At, SeekingPcs
        <5>2. ~HasOutput(JobOf(w)) /\ ~Underway(JobOf(w))
          BY <1>a, <4>3, <4>4, <5>1, SeeksOn DEF Seeks
        <5>3. ~HasReceipt(JobOf(w))
          <6>1. \A k \in Keys : receipts[JobOf(w)][k].state \in ReceiptStates
            BY <1>a, <4>2 DEF Receipt
          <6> QED
            BY <5>2, <6>1 DEF HasReceipt, HasOutput, Outputs, Underway, Unsettled, ReceiptStates
        <5> QED
          BY <1>3, <4>2, <5>3 DEF QuietRows, HasReceipt
      <4>5. CASE workers[w].pc \in SeekingPcs
        <5>1. ~HasReceipt(JobOf(w))
          BY <1>a, <4>3, <4>5 DEF Seeks
        <5> QED
          BY <1>3, <4>2, <5>1 DEF QuietRows, HasReceipt
      <4> QED
        BY <4>1, <4>4, <4>5
    <3> QED
      BY <3>1, <3>2 DEF Seeks, At
  <2> QED
    BY <1>a, <1>3, <2>1, <2>2, QuietKeeps
<1> QED
  BY <1>a, <1>1, <1>2, <1>3, RowsMove

LEMMA InitSent == Init => SentInv
<1> SUFFICES ASSUME Init PROVE SentInv
  OBVIOUS
<1>1. \A w \in Workers : workers[w].pc = "idle"
  BY DEF Init, NoWork
<1>2. \A j \in Jobs, k \in Keys : receipts[j][k].state = "ABSENT"
  BY DEF Init, NoReceipt
<1> QED
  BY <1>1, <1>2 DEF SentInv, AnswersKnown, OneReceipt, KeptBack, Underway, Unsettled, Seeks,
     At, SeekingPcs

\* Steps outside the dispatches.
LEMMA SentOutside ==
  ASSUME TypeInv, SentInv,
         \/ \E w \in Workers : Crash(w)
         \/ \E j \in Jobs : LeaseExpires(j) \/ Supersede(j)
         \/ NextDay \/ UNCHANGED vars
  PROVE  SentInv'
<1>a. /\ jobs \in [Jobs -> Job] /\ restores' = restores
      /\ workers \in [Workers -> Worker]
  BY DEF TypeInv, TypeOK, Crash, LeaseExpires, Supersede, NextDay, vars, upsets
<1>1. \A v \in Workers : workers'[v] = workers[v] \/ workers'[v].pc = "idle"
  BY <1>a, OutsideSteps DEF NoWork
<1>2. AnswersKnown'
  BY <1>1 DEF SentInv, AnswersKnown, JobOf, KeyOf
<1>3. QuietRows
  <2>1. ASSUME NEW j \in Jobs, LeaseExpires(j)
        PROVE  QuietRows
    <3>1. /\ jobs'[j].lease = "expired" /\ jobs'[j].status = jobs[j].status
          /\ \A i \in Jobs : i # j => jobs'[i] = jobs[i]
      <4>1. jobs[j] \in Job /\ jobs'[j] = [jobs[j] EXCEPT !.lease = "expired"]
        BY <1>a, <2>1 DEF LeaseExpires
      <4>2. /\ [jobs[j] EXCEPT !.lease = "expired"].lease = "expired"
            /\ [jobs[j] EXCEPT !.lease = "expired"].status = jobs[j].status
        BY <4>1, SMT DEF Job
      <4>3. \A i \in Jobs : i # j => jobs'[i] = jobs[i]
        BY <1>a, <2>1 DEF LeaseExpires
      <4> QED
        BY <4>1, <4>2, <4>3
    <3>2. UNCHANGED receipts
      BY <2>1 DEF LeaseExpires
    <3> QED
      BY <3>1, <3>2 DEF QuietRows, Unsettled
  <2>2. ASSUME NEW j \in Jobs, Supersede(j)
        PROVE  QuietRows
    <3>1. jobs' = Released(j, "SUPERSEDED") /\ UNCHANGED receipts
      BY <2>2 DEF Supersede
    <3>2. ASSUME NEW i \in Jobs
          PROVE  \/ jobs'[i] = jobs[i]
                 \/ jobs'[i].status = "SUPERSEDED" /\ jobs'[i].lease = "none"
      BY <1>a, <3>1, ReleasedRow
    <3> QED
      BY <3>1, <3>2 DEF QuietRows, Unsettled
  <2>3. CASE UNCHANGED local
    BY <2>3 DEF QuietRows, local, Unsettled
  <2> QED
    BY <2>1, <2>2, <2>3 DEF Crash, NextDay, vars, local
<1>4. ASSUME restores = 0, NEW v \in Workers PROVE Seeks(v)'
  <2>1. CASE workers'[v].pc = "idle"
    BY <2>1 DEF Seeks, At, SeekingPcs
  <2>2. CASE workers'[v] = workers[v]
    <3>1. Seeks(v)
      BY <1>4 DEF SentInv
    <3>2. At(v, "read") \/ workers[v].pc \in SeekingPcs => JobOf(v) \in Jobs
      BY SeekersAreBefore DEF TypeInv, Held, At, Before
    <3> QED
      BY <1>3, <2>2, <3>1, <3>2, QuietSeeks DEF Seeks, At, JobOf, TokenOf
  <2> QED
    BY <1>1, <2>1, <2>2
<1> QED
  BY <1>a, <1>2, <1>3, <1>4, QuietKeeps DEF SentInv

LEMMA NextSent ==
  ASSUME TypeInv, PaidInv, SentInv, [Next]_vars,
         [\A j \in Jobs : Expired(j) /\ jobs'[j].lease = "live" => ~Underway(j)]_vars
  PROVE  SentInv'
<1>1. ASSUME NEW w \in Workers, Dispatch(w),
             \A j \in Jobs : Expired(j) /\ jobs'[j].lease = "live" => ~Underway(j)
      PROVE  SentInv'
  <2>1. workers \in [Workers -> Worker] /\ restores' = restores
    BY <1>1, DispatchRest DEF TypeInv, TypeOK, upsets
  <2>2. AnswersKnown'
    <3>1. ASSUME NEW v \in Workers, workers'[v].pc \in {"answered", "store"}
          PROVE  workers'[v].job \in Jobs /\ workers'[v].key \in Keys
      <4>1. CASE v # w
        <5>1. workers'[v] = workers[v]
          BY <1>1, <2>1, <4>1, DispatchMoves DEF Moves, Alone
        <5> QED
          BY <3>1, <5>1 DEF SentInv, AnswersKnown, JobOf, KeyOf
      <4>2. CASE v = w
        <5>1. /\ workers[w].pc \in {"call", "answered"}
              /\ KeepsLease(w) /\ workers'[w].key = workers[w].key
          BY <1>1, <2>1, <3>1, <4>2, SeeksOn
        <5>2. JobOf(w) \in Jobs /\ KeyOf(w) \in Keys
          BY <5>1 DEF SentInv, AnswersKnown, TypeInv, Held, Before, Keyed
        <5> QED
          BY <4>2, <5>1, <5>2 DEF KeepsLease, JobOf, KeyOf
      <4> QED
        BY <4>1, <4>2
    <3> QED
      BY <3>1 DEF AnswersKnown, JobOf, KeyOf
  <2> QED
    BY <1>1, <2>1, <2>2, SentStep DEF SentInv
<1>2. CASE \E j \in Jobs : Restore(j)
  <2>1. restores' # 0
    BY <1>2, BoundsAssumption, SMT DEF Restore, TypeInv, TypeOK
  <2>2. UNCHANGED workers
    BY <1>2 DEF Restore
  <2> QED
    BY <2>1, <2>2 DEF SentInv, AnswersKnown, JobOf, KeyOf
<1>3. CASE \/ \E w \in Workers : Crash(w)
           \/ \E j \in Jobs : LeaseExpires(j) \/ Supersede(j)
           \/ NextDay \/ UNCHANGED vars
  BY <1>3, SentOutside
<1>4. CASE UNCHANGED vars
  BY <1>3, <1>4
<1>5. CASE Next /\ \A j \in Jobs : Expired(j) /\ jobs'[j].lease = "live" => ~Underway(j)
  BY <1>1, <1>2, <1>3, <1>5, Zenon DEF Next
<1> QED
  BY <1>4, <1>5

\* The one way to send a job's call again, beside a restored database, is to
\* take the job over between the recovery of its lease and the selection.
\* Without that, no crash, lost answer, revised configuration, slow worker or
\* late settlement does.
THEOREM SentAgainByTakeoverOnly == Spec /\ NoCallTakenOver => NeverSentAgain
<1>1. TypeInv /\ PaidInv /\ SentInv /\ [Next]_vars
      /\ [\A j \in Jobs : Expired(j) /\ jobs'[j].lease = "live" => ~Underway(j)]_vars
      => SentInv'
  BY NextSent
<1>2. ASSUME TypeInv, ReceiptInv, SentInv, [Next]_vars
      PROVE  [restores = 0 => \A p \in paid' \ paid : ~\E q \in paid : q[1] = p[1]]_vars
  <2> SUFFICES ASSUME Next, restores = 0, NEW p \in paid', p \notin paid,
                      NEW q \in paid, q[1] = p[1]
               PROVE  FALSE
    BY <1>2
  <2>1. PICK w \in Workers : Dispatch(w)
    <3>1. CASE \/ \E w \in Workers : Crash(w)
               \/ \E j \in Jobs : LeaseExpires(j) \/ Restore(j) \/ Supersede(j)
               \/ NextDay
      BY <1>2, <3>1, OutsideSteps DEF TypeInv, TypeOK
    <3> QED
      BY <3>1 DEF Next
  <2>2. At(w, "call") /\ p = <<JobOf(w), KeyOf(w), TokenOf(w)>>
    BY <1>2, <2>1, DispatchRest DEF TypeInv
  <2>3. /\ HasReceiptOf(q[1], q[2], q[3])
        /\ HasReceiptOf(JobOf(w), KeyOf(w), TokenOf(w))
    BY <1>2, <2>2 DEF ReceiptInv
  <2>4. q \in Jobs \X Keys \X Tokens /\ KeyOf(w) \in Keys /\ q[1] = JobOf(w)
    BY <1>2, <2>2 DEF TypeInv, TypeOK, Held, Keyed, At
  <2>5. q[2] = KeyOf(w)
    BY <1>2, <2>3, <2>4 DEF SentInv, OneReceipt, HasReceiptOf
  <2>6. q = p
    BY <2>2, <2>3, <2>4, <2>5 DEF HasReceiptOf
  <2> QED
    BY <2>6
<1>3. Spec => [](TypeInv /\ PaidInv /\ ReceiptInv)
  <2>1. Init => ReceiptInv
    BY DEF Init, ReceiptInv, At, NoWork
  <2> QED
    BY <2>1, InitPaid, NextPaid, NextReceipts, TypesHold, PTL DEF Spec
<1> QED
  BY <1>1, <1>2, <1>3, InitSent, PTL DEF Spec, NoCallTakenOver, NeverSentAgain
=============================================================================
