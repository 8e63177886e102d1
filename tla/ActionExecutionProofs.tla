------------------------ MODULE ActionExecutionProofs ------------------------
(* Theorems about ActionExecution, for any number of calls of any kind, and  *)
(* any number of failures and crashes.                                       *)
EXTENDS ActionExecution, TLAPS

-----------------------------------------------------------------------------
(* Part 1: the calls                                                        *)

Typed == calls \in [Calls -> Call]
Others(c) == \A d \in Calls : d # c => calls'[d] = calls[d]

LEMMA CallTypes ==
  ASSUME Typed, NEW c \in Calls, NEW x \in Call, calls' = [calls EXCEPT ![c] = x]
  PROVE  Typed' /\ Others(c) /\ calls'[c] = x
<1>1. Typed'
  BY Zenon DEF Typed
<1> QED
  BY <1>1 DEF Typed, Others

LEMMA Literals ==
  /\ Categories = {"EXECUTION_CLAIMED", "PREFLIGHT_PASSED", "PREFLIGHT_FAILED", "EXECUTED",
                   "FAILED", "OUTCOME_UNKNOWN", "VERIFIED", "VERIFICATION_FAILED"}
  /\ Keys = {"VERIFIED", "OUTCOME_UNKNOWN", "FAILED"}
  /\ \A event : FeedbackOf(event) \in Keys \cup {"none"}
BY DEF Categories, Keys, FeedbackOf

LEMMA IdleType ==
  /\ NoBatch \in [Keys -> Nat] /\ Nothing \in Event
  /\ Idle \in Call /\ Idle.pc = "idle" /\ Idle.batch = NoBatch
  /\ Idle.saw = Nothing /\ Idle.next = "none" /\ Idle.key = "none"
<1>1. NoBatch \in [Keys -> Nat] /\ Nothing \in Event
  BY DEF NoBatch, Nothing, Event
<1>2. Idle \in Call
  BY <1>1 DEF Idle, Call
<1> QED
  BY <1>1, <1>2 DEF Idle

\* The call ends.
Ended(c) ==
  /\ calls'[c].pc = IF Kind[c] = "dispatch" THEN "idle" ELSE "done"
  /\ calls'[c].batch = NoBatch /\ calls'[c].next = "none" /\ calls'[c].key = "none"

LEMMA FinishTypes ==
  ASSUME Typed, NEW c \in Calls, Finish(c)
  PROVE  Typed' /\ Others(c) /\ Ended(c)
<1> DEFINE x == IF Kind[c] = "dispatch" THEN Idle ELSE [Idle EXCEPT !.pc = "done"]
<1>1. /\ x \in Call /\ x.pc = IF Kind[c] = "dispatch" THEN "idle" ELSE "done"
      /\ x.batch = NoBatch /\ x.next = "none" /\ x.key = "none"
  BY IdleType DEF Call
<1>2. calls' = [calls EXCEPT ![c] = x]
  BY DEF Finish
<1> HIDE DEF x
<1> QED
  BY <1>1, <1>2, CallTypes DEF Ended

LEMMA GoTypes ==
  ASSUME Typed, NEW c \in Calls, Go(c, "readback")
  PROVE  /\ Typed' /\ Others(c) /\ calls'[c].pc = "readback" /\ calls'[c].next = calls[c].next
         /\ calls'[c].saw = calls[c].saw /\ calls'[c].key = calls[c].key
<1>1. Typed'
  <2>1. "readback" \in {"idle", "preflight", "execute", "verify", "write", "readback",
                       "claim", "publish", "mark", "release", "done"}
    OBVIOUS
  <2> QED
    BY <2>1, Zenon DEF Typed, Call, Go
<1> QED
  BY <1>1 DEF Typed, Call, Go, Others

LEMMA WriteTypes ==
  ASSUME Typed, NEW c \in Calls, NEW event \in Categories, Write(c, event)
  PROVE  /\ Typed' /\ Others(c) /\ calls'[c].pc = "write" /\ calls'[c].next = event
         /\ calls'[c].saw = calls[c].saw
<1> DEFINE x == [calls[c] EXCEPT !.pc = "write", !.next = event]
<1>1. /\ x \in Call /\ x.pc = "write" /\ x.next = event /\ x.saw = calls[c].saw
  BY DEF Typed, Call
<1>2. calls' = [calls EXCEPT ![c] = x]
  BY DEF Write
<1> HIDE DEF x
<1> QED
  BY <1>1, <1>2, CallTypes

LEMMA ProceedTypes ==
  ASSUME Typed, NEW c \in Calls, calls[c].next # "none", Proceed(c)
  PROVE  /\ Typed' /\ Others(c)
         /\ \/ calls[c].next = "PREFLIGHT_FAILED" /\ Ended(c)
            \/ /\ calls[c].next # "PREFLIGHT_FAILED"
               /\ calls'[c].pc = After(calls[c].next) /\ calls'[c].saw = Written(c)
               /\ calls'[c].next = "none"
<1>1. CASE calls[c].next = "PREFLIGHT_FAILED"
  BY <1>1, FinishTypes DEF Proceed
<1>2. CASE calls[c].next # "PREFLIGHT_FAILED"
  <2>1. calls[c].next \in Categories /\ calls[c] \in Call
    BY DEF Typed, Call
  <2>2. Written(c) \in Event
    BY <2>1 DEF Written, Event
  <2>3. FeedbackOf(calls[c].next) \in Keys \cup {"none"}
    BY Literals
  <2>4. After(calls[c].next) \in {"preflight", "execute", "verify", "claim"}
    BY DEF After
  <2> DEFINE x == [calls[c] EXCEPT !.pc = After(calls[c].next), !.saw = Written(c),
                                   !.next = "none", !.key = FeedbackOf(calls[c].next)]
  <2>5. calls' = [calls EXCEPT ![c] = x]
    BY <1>2 DEF Proceed
  <2>6. x.pc = After(calls[c].next) /\ x.saw = Written(c) /\ x.next = "none"
    BY <2>1 DEF Call
  <2>7. x \in Call
    BY <2>1, <2>2, <2>3, <2>4 DEF Call
  <2> HIDE DEF x
  <2> QED
    BY <1>2, <2>5, <2>6, <2>7, CallTypes
<1> QED
  BY <1>1, <1>2

LEMMA ClaimTypes ==
  ASSUME Typed, NEW c \in Calls, ClaimForExecution(c)
  PROVE  /\ Typed' /\ Others(c)
         /\ \/ UNCHANGED <<record, audit>> /\ Ended(c)
            \/ /\ UNCHANGED <<record, audit>>
               /\ calls'[c].pc = "readback" /\ calls'[c].next = "EXECUTION_CLAIMED"
            \/ /\ Claimable /\ record' = [by |-> c, event |-> "EXECUTION_CLAIMED"]
               /\ audit' = audit \cup {[by |-> c, event |-> "EXECUTION_CLAIMED"]}
               /\ \/ calls'[c].pc = "readback" /\ calls'[c].next = "EXECUTION_CLAIMED"
                  \/ /\ calls'[c].pc = "preflight"
                     /\ calls'[c].saw = [by |-> c, event |-> "EXECUTION_CLAIMED"]
<1> DEFINE claim == [by |-> c, event |-> "EXECUTION_CLAIMED"]
           x == [Idle EXCEPT !.pc = "preflight", !.saw = claim]
           y == [[Idle EXCEPT !.next = "EXECUTION_CLAIMED"] EXCEPT !.pc = "readback"]
<1>1. claim \in Event
  BY Literals DEF Event
<1>2. x \in Call /\ x.pc = "preflight" /\ x.saw = claim
  BY <1>1, IdleType DEF Call
<1>3. y \in Call /\ y.pc = "readback" /\ y.next = "EXECUTION_CLAIMED"
  BY IdleType, Literals DEF Call
<1>4. \/ UNCHANGED <<record, audit>> /\ Finish(c)
      \/ Claimable /\ record' = claim /\ audit' = audit \cup {claim}
         /\ (calls' = [calls EXCEPT ![c] = x] \/ calls' = [calls EXCEPT ![c] = y])
      \/ UNCHANGED <<record, audit>> /\ calls' = [calls EXCEPT ![c] = y]
  BY DEF ClaimForExecution, tables
<1> HIDE DEF x, y
<1>5. CASE Claimable /\ record' = claim /\ audit' = audit \cup {claim}
           /\ calls' = [calls EXCEPT ![c] = x]
  BY <1>2, <1>5, CallTypes
<1>6. CASE Claimable /\ record' = claim /\ audit' = audit \cup {claim}
           /\ calls' = [calls EXCEPT ![c] = y]
  BY <1>3, <1>6, CallTypes
<1>7. CASE UNCHANGED <<record, audit>> /\ Finish(c)
  BY <1>7, FinishTypes
<1>8. CASE UNCHANGED <<record, audit>> /\ calls' = [calls EXCEPT ![c] = y]
  BY <1>3, <1>8, CallTypes
<1> QED
  BY <1>4, <1>5, <1>6, <1>7, <1>8

LEMMA StartTypes ==
  ASSUME Typed, record \in Event, NEW c \in Calls, StartVerify(c) \/ StartReconcile(c)
  PROVE  /\ Typed' /\ Others(c) /\ calls'[c].saw = record
         /\ \/ Kind[c] = "verify" /\ calls'[c].pc = "verify" /\ StatusOf(record.event) \in Verifiable
            \/ /\ Kind[c] = "reconcile" /\ calls'[c].pc = "write"
               /\ StatusOf(record.event) = "EXECUTING" /\ calls'[c].next = "OUTCOME_UNKNOWN"
<1>1. CASE StartVerify(c)
  <2> DEFINE x == [calls[c] EXCEPT !.pc = "verify", !.saw = record]
  <2>1. x \in Call /\ x.pc = "verify" /\ x.saw = record
    BY DEF Typed, Call
  <2>2. calls' = [calls EXCEPT ![c] = x]
    BY <1>1 DEF StartVerify
  <2> HIDE DEF x
  <2> QED
    BY <1>1, <2>1, <2>2, CallTypes DEF StartVerify
<1>2. CASE StartReconcile(c)
  <2> DEFINE x == [calls[c] EXCEPT !.pc = "write", !.saw = record, !.next = "OUTCOME_UNKNOWN"]
  <2>1. x \in Call /\ x.pc = "write" /\ x.saw = record /\ x.next = "OUTCOME_UNKNOWN"
    BY Literals DEF Typed, Call
  <2>2. calls' = [calls EXCEPT ![c] = x]
    BY <1>2 DEF StartReconcile
  <2> HIDE DEF x
  <2> QED
    BY <1>2, <2>1, <2>2, CallTypes DEF StartReconcile
<1> QED
  BY <1>1, <1>2

\* The outbox: its rows, and the calls that publish them.
Outboxed == outbox \in [Keys -> Row]
\* A row stays bound to the event it was inserted for, and published.
Bound ==
  \A k \in Keys : /\ outbox[k].state # "absent" => outbox'[k].from = outbox[k].from
                  /\ outbox[k].state # "absent" <=> outbox'[k].state # "absent"
                  /\ outbox[k].state = "published" => outbox'[k] = outbox[k]
\* Only this row has become published, if any.
Only(S) == \A k \in Keys : outbox'[k].state = "published" => outbox[k].state = "published" \/ k \in S

LEMMA TakenRow ==
  ASSUME NEW r \in Row, NEW n \in Nat
  PROVE  LET taken == [r EXCEPT !.state = "processing", !.claim = "fresh", !.attempts = n] IN
         taken \in Row /\ taken.state = "processing" /\ taken.from = r.from
<1> DEFINE taken == [r EXCEPT !.state = "processing", !.claim = "fresh", !.attempts = n]
<1>1. taken \in Row
  <2>1. "processing" \in {"absent", "pending", "processing", "published"}
        /\ "fresh" \in {"none", "fresh", "stale"}
    OBVIOUS
  <2> QED
    BY <2>1, Zenon DEF Row
<1>2. taken.state = "processing" /\ taken.from = r.from
  BY DEF Row
<1> QED
  BY <1>1, <1>2

LEMMA ClaimOutboxTypes ==
  ASSUME Typed, Outboxed, NEW c \in Calls, ClaimFeedbackOutbox(c)
  PROVE  /\ Typed' /\ Outboxed' /\ Others(c) /\ Bound /\ Only({})
         /\ Ended(c) \/ calls'[c].pc = "publish"
<1> DEFINE rows == Wanted(c)
           taken(k) == [outbox[k] EXCEPT !.state = "processing", !.claim = "fresh", !.attempts = @ + 1]
           batch == [k \in Keys |-> IF k \in rows THEN outbox[k].attempts + 1 ELSE 0]
           x == [calls[c] EXCEPT !.pc = "publish", !.batch = batch]
<1>1. \A k \in Keys : outbox[k].attempts \in Nat /\ outbox[k] \in Row
  BY DEF Outboxed, Row
<1>2. batch \in [Keys -> Nat]
  BY <1>1
<1>3. x \in Call /\ x.pc = "publish"
  <2> HIDE DEF batch
  <2> QED
    BY <1>2 DEF Typed, Call
<1>4. \A k \in Keys : /\ taken(k) \in Row /\ taken(k).state = "processing"
                      /\ taken(k).from = outbox[k].from
  <2> SUFFICES ASSUME NEW k \in Keys
               PROVE  /\ taken(k) \in Row /\ taken(k).state = "processing"
                      /\ taken(k).from = outbox[k].from
    OBVIOUS
  <2>1. outbox[k] \in Row /\ outbox[k].attempts + 1 \in Nat
    BY <1>1
  <2> QED
    BY <2>1, TakenRow
<1>5. \A k \in rows : outbox[k].state \in {"pending", "processing"}
  BY DEF Wanted, Available
<1>6. ASSUME outbox' = [k \in Keys |-> IF k \notin rows THEN outbox[k] ELSE taken(k)]
      PROVE  Outboxed' /\ Bound /\ Only({})
  <2> HIDE DEF rows, taken
  <2>1. Outboxed'
    BY <1>1, <1>4, <1>6 DEF Outboxed
  <2>2. \A k \in Keys : outbox'[k] = IF k \notin rows THEN outbox[k] ELSE taken(k)
    BY <1>6
  <2> QED
    BY <1>4, <1>5, <2>1, <2>2 DEF Bound, Only
<1>7. ASSUME UNCHANGED outbox PROVE Outboxed' /\ Bound /\ Only({})
  BY <1>7 DEF Outboxed, Bound, Only
<1>8. /\ Finish(c) \/ calls' = [calls EXCEPT ![c] = x]
      /\ \/ UNCHANGED outbox
         \/ outbox' = [k \in Keys |-> IF k \notin rows THEN outbox[k] ELSE taken(k)]
  BY DEF ClaimFeedbackOutbox
<1> HIDE DEF x, taken, rows
<1> QED
  BY <1>3, <1>6, <1>7, <1>8, CallTypes, FinishTypes

LEMMA PublishTypes ==
  ASSUME Typed, NEW c \in Calls, NEW k \in Keys, Publish(c, k)
  PROVE  /\ Typed' /\ Others(c) /\ calls'[c].key = k
         /\ \/ calls'[c].pc = "mark" /\ handed' = handed \cup {k}
            \/ calls'[c].pc = "release" /\ UNCHANGED handed
<1>1. ASSUME NEW pc \in {"mark", "release"}, calls' = [calls EXCEPT ![c].pc = pc, ![c].key = k]
      PROVE  Typed' /\ Others(c) /\ calls'[c].key = k /\ calls'[c].pc = pc
  <2> DEFINE x == [calls[c] EXCEPT !.pc = pc, !.key = k]
  <2>1. x \in Call /\ x.pc = pc /\ x.key = k
    BY DEF Typed, Call
  <2>2. calls' = [calls EXCEPT ![c] = x]
    BY <1>1
  <2> HIDE DEF x
  <2> QED
    BY <2>1, <2>2, CallTypes
<1> QED
  BY <1>1 DEF Publish

LEMMA GoOnTypes ==
  ASSUME Typed, NEW c \in Calls, calls[c].key \in Keys, GoOn(c)
  PROVE  Typed' /\ Others(c) /\ (Ended(c) \/ calls'[c].pc = "publish")
<1> DEFINE batch == [calls[c].batch EXCEPT ![calls[c].key] = 0]
           x == [calls[c] EXCEPT !.pc = "publish", !.batch = batch]
<1>1. batch \in [Keys -> Nat]
  BY DEF Typed, Call
<1>2. x \in Call /\ x.pc = "publish"
  <2> HIDE DEF batch
  <2> QED
    BY <1>1 DEF Typed, Call
<1>3. Finish(c) \/ calls' = [calls EXCEPT ![c] = x]
  BY DEF GoOn
<1> HIDE DEF x
<1> QED
  BY <1>2, <1>3, CallTypes, FinishTypes

LEMMA SetRowTypes ==
  ASSUME Outboxed, NEW c \in Calls, calls[c].key \in Keys,
         NEW state \in {"pending", "published"}, SetRow(c, state) \/ UNCHANGED outbox
  PROVE  /\ Outboxed' /\ Bound /\ Only({calls[c].key})
         /\ state # "published" => Only({})
<1> DEFINE k == calls[c].key
           x == [outbox[k] EXCEPT !.state = state, !.claim = "none"]
<1>1. CASE UNCHANGED outbox
  BY <1>1 DEF Outboxed, Bound, Only
<1>2. CASE Current(c) /\ outbox' = [outbox EXCEPT ![k] = x]
  <2>1. x \in Row /\ x.state = state /\ x.from = outbox[k].from
    BY DEF Outboxed, Row
  <2>2. outbox[k].state = "processing"
    BY <1>2 DEF Current
  <2> HIDE DEF x, k
  <2>3. k \in Keys
    BY DEF k
  <2>4. Outboxed'
    BY <1>2, <2>1, <2>3, Zenon DEF Outboxed
  <2>5. outbox'[k] = x /\ \A j \in Keys : j # k => outbox'[j] = outbox[j]
    BY <1>2, <2>3 DEF Outboxed
  <2> QED
    BY <2>1, <2>2, <2>3, <2>4, <2>5 DEF Bound, Only, k
<1>3. SetRow(c, state) /\ Current(c) => outbox' = [outbox EXCEPT ![k] = x]
  BY DEF SetRow
<1>4. SetRow(c, state) /\ ~Current(c) => UNCHANGED outbox
  BY DEF SetRow
<1> QED
  BY <1>1, <1>2, <1>3, <1>4

LEMMA ExpireTypes ==
  ASSUME Outboxed, NEW k \in Keys, ClaimExpires(k)
  PROVE  Outboxed' /\ Bound /\ Only({})
<1> DEFINE x == [outbox[k] EXCEPT !.claim = "stale"]
<1>1. x \in Row /\ x.state = "processing" /\ x.from = outbox[k].from
  BY DEF Outboxed, Row, ClaimExpires
<1>2. outbox' = [outbox EXCEPT ![k] = x] /\ outbox[k].state = "processing"
  BY DEF ClaimExpires
<1> HIDE DEF x
<1>3. Outboxed'
  BY <1>1, <1>2, Zenon DEF Outboxed
<1>4. outbox'[k] = x /\ \A j \in Keys : j # k => outbox'[j] = outbox[j]
  BY <1>2 DEF Outboxed
<1> QED
  BY <1>1, <1>2, <1>3, <1>4 DEF Bound, Only

\* The intent of an outcome is inserted, or is there already.
LEMMA InsertTypes ==
  ASSUME Outboxed, NEW c \in Calls, Written(c) \in Event, OutboxAgrees(c), InsertFeedbackOutbox(c)
  PROVE  /\ Outboxed' /\ Only({})
         /\ \A k \in Keys : outbox[k].state # "absent" => outbox'[k] = outbox[k]
         /\ FeedbackOf(calls[c].next) # "none" =>
              /\ outbox'[FeedbackOf(calls[c].next)].state # "absent"
              /\ outbox'[FeedbackOf(calls[c].next)].from = Written(c)
<1> DEFINE k == FeedbackOf(calls[c].next)
           x == [NoRow EXCEPT !.state = "pending", !.from = Written(c)]
<1>1. k \in Keys \cup {"none"}
  BY Literals
<1>2. x \in Row /\ x.state = "pending" /\ x.from = Written(c)
  BY DEF NoRow, Row
<1>3. CASE UNCHANGED outbox /\ (k = "none" \/ outbox[k].state # "absent")
  BY <1>3 DEF Outboxed, Only, OutboxAgrees
<1>4. CASE k # "none" /\ outbox[k].state = "absent" /\ outbox' = [outbox EXCEPT ![k] = x]
  <2> HIDE DEF x
  <2>1. k \in Keys
    BY <1>1, <1>4
  <2> HIDE DEF k
  <2>2. Outboxed'
    BY <1>2, <1>4, <2>1, Zenon DEF Outboxed
  <2>3. outbox'[k] = x /\ \A j \in Keys : j # k => outbox'[j] = outbox[j]
    BY <1>4, <2>1 DEF Outboxed
  <2> QED
    BY <1>2, <1>4, <2>1, <2>2, <2>3 DEF Only, k
<1> QED
  BY <1>3, <1>4 DEF InsertFeedbackOutbox

-----------------------------------------------------------------------------
(* Part 2: the record, the calls that write it and the provider             *)

Claim(c) == [by |-> c, event |-> "EXECUTION_CLAIMED"]
Claimant(c) == Claim(c) \in audit
Writing(c, S) == (At(c, "write") \/ At(c, "readback")) /\ calls[c].next \in S
\* The call may still ask the provider.
Ready(c) == At(c, "preflight") \/ At(c, "execute") \/ Writing(c, {"PREFLIGHT_PASSED"})

\* What may be written over what was seen.
Planned(c) ==
  LET saw == calls[c].saw.event  next == calls[c].next IN
  \/ saw = "EXECUTION_CLAIMED" /\ next \in {"PREFLIGHT_PASSED", "PREFLIGHT_FAILED", "OUTCOME_UNKNOWN"}
  \/ saw = "PREFLIGHT_PASSED" /\ next \in {"EXECUTED", "FAILED", "OUTCOME_UNKNOWN"}
  \/ saw \in Verifiable /\ next \in {"VERIFIED", "VERIFICATION_FAILED"}

CallInv(c) ==
  /\ At(c, "preflight") => calls[c].saw.event = "EXECUTION_CLAIMED"
  /\ At(c, "execute") => calls[c].saw.event = "PREFLIGHT_PASSED"
  /\ At(c, "verify") => calls[c].saw.event \in Verifiable
  /\ At(c, "write") => Planned(c)
  /\ At(c, "readback") => calls[c].next = "EXECUTION_CLAIMED" \/ Planned(c)
  /\ Ready(c) \/ Writing(c, {"PREFLIGHT_FAILED", "FAILED"}) => Claimant(c)
  /\ Ready(c) \/ Writing(c, {"EXECUTION_CLAIMED", "PREFLIGHT_FAILED"}) \/ At(c, "idle")
       => c \notin asked
  /\ Writing(c, {"FAILED"}) => effect = "no"
  /\ Writing(c, {"EXECUTED", "VERIFIED"}) => effect = "yes"
  /\ Ready(c) => record.event \notin {"FAILED", "PREFLIGHT_FAILED"}

RecordInv ==
  /\ record \in Event /\ audit \subseteq Event /\ asked \subseteq Calls
  /\ effect \in {"no", "pending", "yes"}
  /\ IF record.event \in {"PREVIEW_READY", "APPROVED"} THEN audit = {} ELSE record \in audit
  /\ \A c, d \in Calls : Claimant(c) /\ Claimant(d) => c = d
  /\ \A c \in Calls : Claimant(c) => Kind[c] = "execute"
  /\ \A c \in asked : Claimant(c)
  /\ effect # "no" => asked # {}
  /\ record.event \in {"FAILED", "PREFLIGHT_FAILED"} => effect = "no"
  /\ record.event \in {"EXECUTED", "VERIFIED"} => effect = "yes"

StateInv == Typed /\ RecordInv /\ \A c \in Calls : CallInv(c)

Quiet(c) ==
  \/ calls'[c].pc \in {"done", "claim", "publish", "mark", "release"}
  \/ calls'[c].pc = "idle" /\ Kind[c] = "dispatch"

LEMMA EndedIsQuiet == ASSUME NEW c \in Calls, Ended(c) PROVE Quiet(c)
BY DEF Ended, Quiet

\* A call that only publishes, or ends, moves nothing of this.
LEMMA QuietKeeps ==
  ASSUME StateInv, NEW c \in Calls, Typed', Others(c), Quiet(c),
         UNCHANGED <<record, audit, effect, asked>>
  PROVE  StateInv'
<1>1. RecordInv'
  BY DEF StateInv, RecordInv, Claimant, Claim
<1>2. ASSUME NEW d \in Calls, d # c PROVE CallInv(d)'
  <2>1. calls'[d] = calls[d]
    BY <1>2 DEF Others
  <2> QED
    BY <2>1 DEF StateInv, CallInv, Planned, Ready, Writing, At, Claimant, Claim
<1>3. Kind[c] = "dispatch" => c \notin asked
  BY DEF StateInv, RecordInv
<1>4. CallInv(c)'
  BY <1>3 DEF CallInv, Planned, Ready, Writing, At, Quiet
<1> QED
  BY <1>1, <1>2, <1>4 DEF StateInv

\* The calls other than the one that steps.
LEMMA OthersKeep ==
  ASSUME StateInv, NEW c \in Calls, Others(c),
         UNCHANGED <<effect, asked>>,
         \/ UNCHANGED <<record, audit>>
         \/ /\ audit' = audit \cup {record'} /\ record'.event \notin {"FAILED", "PREFLIGHT_FAILED"}
         \/ /\ audit' = audit \cup {record'} /\ Claimant(c)
  PROVE  \A d \in Calls : d # c => CallInv(d)'
<1> SUFFICES ASSUME NEW d \in Calls, d # c PROVE CallInv(d)'
  OBVIOUS
<1>1. calls'[d] = calls[d]
  BY DEF Others
<1>2. CallInv(d) /\ (Claimant(d) => Claimant(d)')
  BY DEF StateInv, Claimant, Claim
<1>3. Ready(d) => record'.event \notin {"FAILED", "PREFLIGHT_FAILED"}
  BY <1>2 DEF CallInv, StateInv, RecordInv
<1> QED
  BY <1>1, <1>2, <1>3 DEF CallInv, Planned, Ready, Writing, At

LEMMA ClaimKeeps ==
  ASSUME StateInv, NEW c \in Calls, ClaimForExecution(c)
  PROVE  StateInv'
<1>1. Typed' /\ Others(c) /\ UNCHANGED <<effect, asked>> /\ Kind[c] = "execute" /\ At(c, "idle")
  BY ClaimTypes DEF ClaimForExecution, provider, StateInv
<1>2. c \notin asked
  BY <1>1 DEF StateInv, CallInv
<1>3. CASE UNCHANGED <<record, audit>> /\ Ended(c)
  BY <1>1, <1>3, QuietKeeps, EndedIsQuiet
<1>4. CASE /\ UNCHANGED <<record, audit>>
           /\ calls'[c].pc = "readback" /\ calls'[c].next = "EXECUTION_CLAIMED"
  <2>1. RecordInv'
    BY <1>1, <1>4 DEF StateInv, RecordInv, Claimant, Claim
  <2>2. \A d \in Calls : d # c => CallInv(d)'
    BY <1>1, <1>4, OthersKeep
  <2>3. CallInv(c)'
    BY <1>1, <1>2, <1>4 DEF CallInv, Planned, Ready, Writing, At
  <2> QED
    BY <1>1, <2>1, <2>2, <2>3 DEF StateInv
<1>5. CASE /\ Claimable /\ record' = Claim(c) /\ audit' = audit \cup {Claim(c)}
           /\ \/ calls'[c].pc = "readback" /\ calls'[c].next = "EXECUTION_CLAIMED"
              \/ calls'[c].pc = "preflight" /\ calls'[c].saw = Claim(c)
  <2>1. audit = {} /\ asked = {} /\ effect = "no"
    BY <1>5 DEF Claimable, Approved, StateInv, RecordInv, Claimant
  <2>2. Claim(c) \in Event /\ Claim(c).event = "EXECUTION_CLAIMED" /\ Claim(c).by = c
    BY Literals DEF Claim, Event
  <2>3. \A d \in Calls : Claimant(d)' <=> d = c
    BY <1>5, <2>1 DEF Claimant, Claim
  <2>4. RecordInv'
    BY <1>1, <1>5, <2>1, <2>2, <2>3 DEF RecordInv
  <2>5. \A d \in Calls : d # c => CallInv(d)'
    BY <1>1, <1>5, <2>2, OthersKeep
  <2>6. CallInv(c)'
    BY <1>1, <1>2, <1>5, <2>2, <2>3 DEF CallInv, Planned, Ready, Writing, At
  <2> QED
    BY <1>1, <2>4, <2>5, <2>6 DEF StateInv
<1> QED
  BY <1>3, <1>4, <1>5, ClaimTypes DEF Claim, StateInv

\* Applied: the call has written what it had planned.
LEMMA ApplyRecord ==
  ASSUME StateInv, NEW c \in Calls, At(c, "write"), SameStatus(c),
         record' = Written(c), audit' = audit \cup {Written(c)}, UNCHANGED <<effect, asked>>
  PROVE  /\ RecordInv' /\ Written(c) \in Event /\ Planned(c)
         /\ record.event \in {"EXECUTION_CLAIMED", "PREFLIGHT_PASSED", "EXECUTED",
                              "OUTCOME_UNKNOWN", "VERIFICATION_FAILED"}
         /\ \A d \in Calls : Claimant(d)' <=> Claimant(d)
<1>1. CallInv(c) /\ Planned(c) /\ RecordInv
  BY DEF StateInv, CallInv
<1>2. calls[c].next \in Categories \ {"EXECUTION_CLAIMED"}
  BY <1>1, Literals DEF Planned
<1>3. Written(c) \in Event /\ Written(c).event = calls[c].next /\ Written(c).by = c
  BY <1>2 DEF Written, Event
<1>4. \A d \in Calls : Claimant(d)' <=> Claimant(d)
  BY <1>2 DEF Claimant, Claim, Written
<1>5. record.event \in {"EXECUTION_CLAIMED", "PREFLIGHT_PASSED", "EXECUTED",
                        "OUTCOME_UNKNOWN", "VERIFICATION_FAILED"}
  <2>1. StatusOf(calls[c].saw.event) \in {"EXECUTING", "EXECUTED", "OUTCOME_UNKNOWN", "VERIFICATION_FAILED"}
    BY <1>1 DEF Planned, StatusOf, Verifiable
  <2>2. StatusOf(record.event) \in {"EXECUTING", "EXECUTED", "OUTCOME_UNKNOWN", "VERIFICATION_FAILED"}
    BY <2>1 DEF SameStatus
  <2>3. record.event # "EXECUTING"
    BY <1>1, Literals DEF RecordInv, Event
  <2> QED
    BY <2>2, <2>3 DEF StatusOf
<1>6. calls[c].next = "PREFLIGHT_FAILED" => effect = "no"
  <2> SUFFICES ASSUME calls[c].next = "PREFLIGHT_FAILED" PROVE asked = {}
    BY <1>1 DEF RecordInv
  <2>1. Claimant(c) /\ c \notin asked
    BY <1>1 DEF CallInv, Writing
  <2> QED
    BY <1>1, <2>1 DEF RecordInv
<1>7. /\ calls[c].next = "FAILED" => effect = "no"
      /\ calls[c].next \in {"EXECUTED", "VERIFIED"} => effect = "yes"
  BY <1>1 DEF CallInv, Writing
<1>8. RecordInv'
  <2>1. record'.event \notin {"PREVIEW_READY", "APPROVED"}
    BY <1>2, <1>3, Literals
  <2> QED
    BY <1>1, <1>3, <1>4, <1>6, <1>7, <2>1 DEF RecordInv
<1> QED
  BY <1>1, <1>3, <1>4, <1>5, <1>8

\* The handler goes on with what it has written.
LEMMA ProceedKeeps ==
  ASSUME StateInv, NEW c \in Calls, At(c, "write") \/ At(c, "readback"), Proceed(c),
         UNCHANGED <<effect, asked>>, RecordInv', record' = Written(c),
         calls[c].next = "EXECUTION_CLAIMED" \/ Planned(c),
         \A d \in Calls : Claimant(d)' <=> Claimant(d),
         \A d \in Calls : d # c => CallInv(d)'
  PROVE  StateInv'
<1>1. CallInv(c) /\ Typed
  BY DEF StateInv
<1>2. calls[c].next \in Categories
  BY Literals DEF Planned
<1>3. calls[c].next # "none"
  BY <1>2, Literals
<1>4. Typed' /\ Others(c)
  BY <1>1, <1>3, ProceedTypes
<1>5. Written(c).event = calls[c].next /\ Written(c).by = c /\ Written(c) = record'
  BY DEF Written
<1>6. CASE Quiet(c)
  <2>1. Kind[c] = "dispatch" => c \notin asked
    BY DEF StateInv, RecordInv
  <2>2. CallInv(c)'
    BY <1>6, <2>1 DEF CallInv, Planned, Ready, Writing, At, Quiet
  <2> QED
    BY <1>4, <2>2 DEF StateInv
<1>7. CASE calls[c].next = "EXECUTION_CLAIMED" /\ calls'[c].pc = "preflight" /\ calls'[c].saw = Written(c)
  <2>1. Written(c) = Claim(c)
    BY <1>7 DEF Written, Claim
  <2>2. Claimant(c)'
    BY <2>1, <1>5, <1>7 DEF RecordInv, Claimant, Claim
  <2>3. c \notin asked
    BY <1>1, <1>7 DEF CallInv, Writing
  <2>4. CallInv(c)'
    BY <1>5, <1>7, <2>2, <2>3 DEF CallInv, Planned, Ready, Writing, At
  <2> QED
    BY <1>4, <2>4 DEF StateInv
<1>8. CASE calls[c].next = "PREFLIGHT_PASSED" /\ calls'[c].pc = "execute" /\ calls'[c].saw = Written(c)
  <2>1. Claimant(c)' /\ c \notin asked
    BY <1>1, <1>8 DEF CallInv, Writing, Ready
  <2>2. CallInv(c)'
    BY <1>5, <1>8, <2>1 DEF CallInv, Planned, Ready, Writing, At
  <2> QED
    BY <1>4, <2>2 DEF StateInv
<1>9. CASE calls[c].next = "EXECUTED" /\ calls'[c].pc = "verify" /\ calls'[c].saw = Written(c)
  <2>1. CallInv(c)'
    BY <1>5, <1>9 DEF CallInv, Planned, Ready, Writing, At, Verifiable
  <2> QED
    BY <1>4, <2>1 DEF StateInv
<1>10. \/ Quiet(c)
       \/ /\ calls'[c].saw = Written(c)
          /\ \/ calls[c].next = "EXECUTION_CLAIMED" /\ calls'[c].pc = "preflight"
             \/ calls[c].next = "PREFLIGHT_PASSED" /\ calls'[c].pc = "execute"
             \/ calls[c].next = "EXECUTED" /\ calls'[c].pc = "verify"
  <2>1. \/ Ended(c)
        \/ calls'[c].pc = After(calls[c].next) /\ calls'[c].saw = Written(c)
    BY <1>1, <1>3, ProceedTypes
  <2> QED
    BY <2>1, EndedIsQuiet DEF After, Quiet
<1> QED
  BY <1>6, <1>7, <1>8, <1>9, <1>10

LEMMA GoKeeps ==
  ASSUME StateInv, NEW c \in Calls, At(c, "write"), Go(c, "readback"), RecordInv',
         UNCHANGED <<effect, asked>>,
         \A d \in Calls : Claimant(d)' <=> Claimant(d),
         \A d \in Calls : d # c => CallInv(d)',
         Ready(c) => record'.event \notin {"FAILED", "PREFLIGHT_FAILED"}
  PROVE  StateInv'
<1>1. CallInv(c) /\ Typed
  BY DEF StateInv
<1>2. /\ Typed' /\ Others(c) /\ calls'[c].pc = "readback" /\ calls'[c].next = calls[c].next
      /\ calls'[c].saw = calls[c].saw
  BY <1>1, GoTypes
<1>3. CallInv(c)'
  BY <1>1, <1>2 DEF CallInv, Planned, Ready, Writing, At
<1> QED
  BY <1>2, <1>3 DEF StateInv

LEMMA TransitionKeeps ==
  ASSUME StateInv, NEW c \in Calls, Transition(c)
  PROVE  StateInv'
<1>1. Typed /\ RecordInv /\ CallInv(c) /\ At(c, "write") /\ UNCHANGED <<effect, asked>>
  BY DEF StateInv, Transition, provider
<1>2. CASE UNCHANGED tables /\ Finish(c)
  BY <1>1, <1>2, FinishTypes, EndedIsQuiet, QuietKeeps DEF tables
<1>3. CASE UNCHANGED tables /\ Go(c, "readback")
  <2>1. RecordInv' /\ \A d \in Calls : Claimant(d)' <=> Claimant(d)
    BY <1>1, <1>3 DEF RecordInv, Claimant, Claim, tables
  <2>2. Others(c)
    BY <1>1, <1>3, GoTypes
  <2>3. \A d \in Calls : d # c => CallInv(d)'
    BY <1>1, <1>3, <2>2, OthersKeep DEF tables
  <2>4. Ready(c) => record'.event \notin {"FAILED", "PREFLIGHT_FAILED"}
    BY <1>1, <1>3 DEF CallInv, tables
  <2> QED
    BY <1>1, <1>3, <2>1, <2>3, <2>4, GoKeeps
<1>4. CASE Permitted(c) /\ Apply(c) /\ (Proceed(c) \/ Go(c, "readback"))
  <2>1. record' = Written(c) /\ audit' = audit \cup {Written(c)} /\ SameStatus(c)
    BY <1>4 DEF Apply, Permitted
  <2>2. /\ RecordInv' /\ Planned(c) /\ Written(c) \in Event
        /\ \A d \in Calls : Claimant(d)' <=> Claimant(d)
    BY <1>1, <2>1, ApplyRecord
  <2>3. Written(c).event = calls[c].next /\ calls[c].next # "none"
    BY <2>2 DEF Written, Planned
  <2>4. Others(c)
    BY <1>1, <1>4, <2>3, GoTypes, ProceedTypes
  <2>5. calls[c].next \in {"FAILED", "PREFLIGHT_FAILED"} => Claimant(c)
    BY <1>1 DEF CallInv, Writing
  <2>6. \A d \in Calls : d # c => CallInv(d)'
    BY <1>1, <2>1, <2>3, <2>4, <2>5, OthersKeep
  <2>7. Ready(c) => record'.event \notin {"FAILED", "PREFLIGHT_FAILED"}
    BY <1>1, <2>1, <2>3 DEF Ready, Writing, At
  <2> QED
    BY <1>1, <1>4, <2>1, <2>2, <2>6, <2>7, GoKeeps, ProceedKeeps
<1> QED
  BY <1>2, <1>3, <1>4 DEF Transition

LEMMA ReadbackKeeps ==
  ASSUME StateInv, NEW c \in Calls, Readback(c)
  PROVE  StateInv'
<1>1. /\ Typed /\ RecordInv /\ CallInv(c) /\ At(c, "readback")
      /\ UNCHANGED <<record, audit, effect, asked>>
  BY DEF StateInv, Readback, provider, tables
<1>2. CASE Finish(c)
  BY <1>1, <1>2, FinishTypes, EndedIsQuiet, QuietKeeps
<1>3. CASE IsWritten(c) /\ Proceed(c)
  <2>1. RecordInv' /\ \A d \in Calls : Claimant(d)' <=> Claimant(d)
    BY <1>1 DEF RecordInv, Claimant, Claim
  <2>2. calls[c].next = "EXECUTION_CLAIMED" \/ Planned(c)
    BY <1>1 DEF CallInv
  <2>3. calls[c].next # "none"
    BY <2>2 DEF Planned
  <2>4. Others(c)
    BY <1>1, <1>3, <2>3, ProceedTypes
  <2>5. \A d \in Calls : d # c => CallInv(d)'
    BY <1>1, <2>4, OthersKeep
  <2>6. record' = Written(c)
    BY <1>1, <1>3 DEF IsWritten
  <2> QED
    BY <1>1, <1>3, <2>1, <2>2, <2>5, <2>6, ProceedKeeps
<1> QED
  BY <1>2, <1>3 DEF Readback

\* A call decides what to write, or asks the provider.
LEMMA WriteKeeps ==
  ASSUME StateInv, NEW c \in Calls, NEW event \in Categories, Write(c, event),
         UNCHANGED <<record, audit, effect, asked>>,
         \/ At(c, "preflight") /\ event \in {"PREFLIGHT_PASSED", "PREFLIGHT_FAILED"}
         \/ At(c, "verify") /\ event = "VERIFICATION_FAILED"
         \/ At(c, "verify") /\ event = "VERIFIED" /\ effect = "yes"
  PROVE  StateInv'
<1>1. Typed /\ RecordInv /\ CallInv(c)
  BY DEF StateInv
<1>2. /\ Typed' /\ Others(c) /\ calls'[c].pc = "write" /\ calls'[c].next = event
      /\ calls'[c].saw = calls[c].saw
  BY <1>1, WriteTypes
<1>3. RecordInv' /\ (Claimant(c)' <=> Claimant(c))
  BY <1>1 DEF RecordInv, Claimant, Claim
<1>4. \A d \in Calls : d # c => CallInv(d)'
  BY <1>2, OthersKeep
<1>5. CallInv(c)'
  BY <1>1, <1>2, <1>3 DEF CallInv, Planned, Ready, Writing, At
<1> QED
  BY <1>2, <1>3, <1>4, <1>5 DEF StateInv

LEMMA AskKeeps ==
  ASSUME StateInv, NEW c \in Calls, Execute(c)
  PROVE  StateInv'
<1>1. /\ Typed /\ RecordInv /\ CallInv(c) /\ At(c, "execute")
      /\ UNCHANGED <<record, audit>> /\ asked' = asked \cup {c}
  BY DEF StateInv, Execute, tables
<1>2. Claimant(c) /\ asked = {} /\ effect = "no"
  BY <1>1 DEF CallInv, RecordInv, Ready
<1>3. PICK event \in {"EXECUTED", "FAILED", "OUTCOME_UNKNOWN"} :
        /\ Write(c, event) /\ effect' \in {"no", "pending", "yes"}
        /\ event = "EXECUTED" => effect' = "yes"
        /\ event = "FAILED" => effect' = "no"
  BY <1>2 DEF Execute
<1>4. /\ Typed' /\ Others(c) /\ calls'[c].pc = "write" /\ calls'[c].next = event
      /\ calls'[c].saw = calls[c].saw
  BY <1>1, <1>3, WriteTypes, Literals
<1>5. record.event \notin {"FAILED", "PREFLIGHT_FAILED", "EXECUTED", "VERIFIED"}
  BY <1>1, <1>2 DEF CallInv, Ready, RecordInv
<1>6. RecordInv' /\ \A d \in Calls : Claimant(d)' <=> Claimant(d)
  BY <1>1, <1>2, <1>3, <1>5 DEF RecordInv, Claimant, Claim
<1>7. ASSUME NEW d \in Calls, d # c PROVE CallInv(d)'
  <2>1. calls'[d] = calls[d] /\ CallInv(d)
    BY <1>4, <1>7 DEF Others, StateInv
  <2>2. ~Claimant(d)
    BY <1>1, <1>2, <1>7 DEF RecordInv
  <2>3. ~Ready(d) /\ ~Writing(d, {"PREFLIGHT_FAILED", "FAILED"})
    BY <2>1, <2>2 DEF CallInv
  <2>4. ~Writing(d, {"EXECUTED", "VERIFIED"})
    BY <1>2, <2>1 DEF CallInv
  <2> QED
    BY <1>1, <1>2, <1>6, <1>7, <2>1, <2>2, <2>3, <2>4 DEF CallInv, Planned, Ready, Writing, At
<1>8. CallInv(c)'
  BY <1>1, <1>2, <1>3, <1>4, <1>6 DEF CallInv, Planned, Ready, Writing, At
<1> QED
  BY <1>4, <1>6, <1>7, <1>8 DEF StateInv

LEMMA StartKeeps ==
  ASSUME StateInv, NEW c \in Calls, StartVerify(c) \/ StartReconcile(c)
  PROVE  StateInv'
<1>1. /\ Typed /\ RecordInv /\ CallInv(c) /\ At(c, "idle") /\ record \in Event
      /\ UNCHANGED <<record, audit, effect, asked>>
  BY DEF StateInv, RecordInv, StartVerify, StartReconcile, provider, tables
<1>2. /\ Typed' /\ Others(c) /\ calls'[c].saw = record
      /\ \/ calls'[c].pc = "verify" /\ StatusOf(record.event) \in Verifiable
         \/ /\ calls'[c].pc = "write" /\ calls'[c].next = "OUTCOME_UNKNOWN"
            /\ StatusOf(record.event) = "EXECUTING"
  BY <1>1, StartTypes
<1>3. /\ record.event # "EXECUTING"
      /\ StatusOf(record.event) \in Verifiable => record.event \in Verifiable
      /\ StatusOf(record.event) = "EXECUTING" =>
           record.event \in {"EXECUTION_CLAIMED", "PREFLIGHT_PASSED"}
  BY <1>1, Literals DEF Event, StatusOf, Verifiable
<1>4. RecordInv'
  BY <1>1 DEF RecordInv, Claimant, Claim
<1>5. \A d \in Calls : d # c => CallInv(d)'
  BY <1>1, <1>2, OthersKeep
<1>6. CallInv(c)'
  BY <1>1, <1>2, <1>3 DEF CallInv, Planned, Ready, Writing, At
<1> QED
  BY <1>2, <1>4, <1>5, <1>6 DEF StateInv

\* Steps of the user, of time and of the provider.
LEMMA EnvironmentKeeps ==
  ASSUME StateInv, UNCHANGED calls,
         \/ Approve \/ Expire \/ LateEffect \/ UNCHANGED vars
         \/ \E k \in Keys : ClaimExpires(k)
  PROVE  StateInv'
<1>1. Typed /\ RecordInv /\ Typed'
  BY DEF StateInv, Typed
<1>2. CASE UNCHANGED <<record, audit, effect, asked>>
  BY <1>1, <1>2 DEF StateInv, RecordInv, CallInv, Planned, Ready, Writing, At, Claimant, Claim
<1>3. CASE Approve
  <2>1. /\ record'.event = "APPROVED" /\ record' \in Event /\ record.event = "PREVIEW_READY"
        /\ UNCHANGED <<audit, effect, asked>>
    BY <1>1, <1>3 DEF Approve, RecordInv, Event, provider
  <2>2. RecordInv' /\ \A d \in Calls : Claimant(d)' <=> Claimant(d)
    BY <1>1, <2>1 DEF RecordInv, Claimant, Claim
  <2> QED
    BY <1>1, <2>1, <2>2 DEF StateInv, CallInv, Planned, Ready, Writing, At
<1>4. CASE LateEffect
  <2>1. effect = "pending" /\ effect' = "yes" /\ UNCHANGED <<record, audit, asked>>
    BY <1>4 DEF LateEffect, tables
  <2>2. RecordInv' /\ \A d \in Calls : Claimant(d)' <=> Claimant(d)
    BY <1>1, <2>1 DEF RecordInv, Claimant, Claim
  <2> QED
    BY <1>1, <2>1, <2>2 DEF StateInv, CallInv, Planned, Ready, Writing, At
<1> QED
  BY <1>2, <1>3, <1>4 DEF Expire, ClaimExpires, vars, tables, provider

-----------------------------------------------------------------------------
(* Part 3: the outbox and what is handed over                               *)

PublishInv(c) ==
  /\ At(c, "mark") \/ At(c, "release") => calls[c].key \in Keys
  /\ At(c, "mark") => calls[c].key \in handed

OutboxInv ==
  /\ Outboxed /\ handed \subseteq Keys
  /\ PublishedIsHandedOver /\ OutcomesHaveFeedback
  /\ \A c \in Calls : PublishInv(c)

Published == \A k \in Keys : outbox[k].state = "published" => outbox'[k] = outbox[k]

\* The rows stay bound, and only what is handed over is published.
LEMMA BoundKeeps ==
  ASSUME OutboxInv, Outboxed', Bound, UNCHANGED audit, handed \subseteq handed', handed' \subseteq Keys,
         NEW S, S \subseteq handed, Only(S),
         \A c \in Calls : PublishInv(c)'
  PROVE  OutboxInv' /\ Published
<1>1. PublishedIsHandedOver'
  BY DEF OutboxInv, PublishedIsHandedOver, Only
<1>2. OutcomesHaveFeedback'
  BY Literals DEF OutboxInv, OutcomesHaveFeedback, Bound
<1> QED
  BY <1>1, <1>2 DEF OutboxInv, Published, Bound

LEMMA OthersPublish ==
  ASSUME OutboxInv, NEW c \in Calls, Others(c), handed \subseteq handed',
         calls'[c].pc \notin {"mark", "release"}
  PROVE  \A d \in Calls : PublishInv(d)'
BY DEF OutboxInv, Others, PublishInv, At

LEMMA DispatchKeeps ==
  ASSUME StateInv, OutboxInv, NEW c \in Calls, Dispatch(c)
  PROVE  StateInv' /\ OutboxInv' /\ Published
<1>1. Typed /\ Outboxed /\ UNCHANGED <<record, audit, effect, asked>> /\ handed \subseteq Keys
  BY DEF StateInv, OutboxInv, Dispatch, ClaimFeedbackOutbox, Mark, Release, Publish, provider, tables
<1>2. CASE ClaimFeedbackOutbox(c)
  <2>1. /\ Typed' /\ Outboxed' /\ Others(c) /\ Bound /\ Only({}) /\ handed' = handed
        /\ Ended(c) \/ calls'[c].pc = "publish"
    BY <1>1, <1>2, ClaimOutboxTypes DEF ClaimFeedbackOutbox
  <2>2. Quiet(c) /\ calls'[c].pc \notin {"mark", "release"}
    BY <2>1, EndedIsQuiet DEF Quiet, Ended
  <2>3. \A d \in Calls : PublishInv(d)'
    BY <2>1, <2>2, OthersPublish
  <2> QED
    BY <1>1, <2>1, <2>2, <2>3, QuietKeeps, BoundKeeps
<1>3. ASSUME NEW state \in {"pending", "published"}, SetRow(c, state) \/ UNCHANGED outbox,
             \/ At(c, "mark")
             \/ At(c, "release") /\ state = "pending",
             GoOn(c) \/ Finish(c), handed' = handed
      PROVE  StateInv' /\ OutboxInv' /\ Published
  <2>1. calls[c].key \in Keys /\ (At(c, "mark") => calls[c].key \in handed)
    BY <1>3 DEF OutboxInv, PublishInv
  <2>2. Typed' /\ Others(c) /\ (Ended(c) \/ calls'[c].pc = "publish")
    BY <1>1, <1>3, <2>1, GoOnTypes, FinishTypes
  <2>3. Quiet(c) /\ calls'[c].pc \notin {"mark", "release"}
    BY <2>2, EndedIsQuiet DEF Quiet, Ended
  <2>4. \A d \in Calls : PublishInv(d)'
    BY <1>3, <2>2, <2>3, OthersPublish
  <2>5. /\ Outboxed' /\ Bound /\ Only({calls[c].key}) /\ (state # "published" => Only({}))
    BY <1>1, <1>3, <2>1, SetRowTypes
  <2>6. \E S \in {{calls[c].key}, {}} : S \subseteq handed /\ Only(S)
    BY <1>3, <2>1, <2>5
  <2> QED
    BY <1>1, <1>3, <2>2, <2>3, <2>4, <2>5, <2>6, QuietKeeps, BoundKeeps
<1>4. CASE Mark(c) \/ Release(c)
  BY <1>3, <1>4 DEF Mark, Release
<1>5. ASSUME NEW k \in Keys, Publish(c, k) PROVE StateInv' /\ OutboxInv' /\ Published
  <2>1. /\ Typed' /\ Others(c) /\ calls'[c].key = k /\ outbox' = outbox
        /\ \/ calls'[c].pc = "mark" /\ handed' = handed \cup {k}
           \/ calls'[c].pc = "release" /\ UNCHANGED handed
    BY <1>1, <1>5, PublishTypes DEF Publish, tables
  <2>2. Quiet(c)
    BY <2>1 DEF Quiet
  <2>3. PublishInv(c)' /\ \A d \in Calls : d # c => PublishInv(d)'
    BY <2>1 DEF PublishInv, Others, OutboxInv, At
  <2>4. Outboxed' /\ Bound /\ Only({}) /\ handed \subseteq handed' /\ handed' \subseteq Keys
    BY <1>1, <2>1 DEF Outboxed, Bound, Only
  <2> QED
    BY <1>1, <2>1, <2>2, <2>3, <2>4, QuietKeeps, BoundKeeps
<1> QED
  BY <1>2, <1>4, <1>5 DEF Dispatch

\* A transaction inserts the intent of its outcome, bound to that outcome.
LEMMA InsertKeeps ==
  ASSUME StateInv, OutboxInv, NEW c \in Calls, At(c, "write"), Permitted(c), Apply(c),
         Others(c), handed' = handed, calls'[c].pc \notin {"mark", "release"}
  PROVE  OutboxInv' /\ Published
<1>1. Written(c) \in Event /\ Written(c).event = calls[c].next
  <2>1. calls[c].next \in Categories
    BY Literals DEF StateInv, CallInv, Planned
  <2> QED
    BY <2>1 DEF Written, Event
<1>2. /\ Outboxed' /\ Only({})
      /\ \A k \in Keys : outbox[k].state # "absent" => outbox'[k] = outbox[k]
      /\ FeedbackOf(calls[c].next) # "none" =>
           /\ outbox'[FeedbackOf(calls[c].next)].state # "absent"
           /\ outbox'[FeedbackOf(calls[c].next)].from = Written(c)
  BY <1>1, InsertTypes DEF OutboxInv, Apply, Permitted
<1>3. OutcomesHaveFeedback'
  <2> SUFFICES ASSUME NEW e \in audit', FeedbackOf(e.event) # "none"
               PROVE  /\ outbox'[FeedbackOf(e.event)].state # "absent"
                      /\ outbox'[FeedbackOf(e.event)].from = e
    BY DEF OutcomesHaveFeedback
  <2>1. CASE e = Written(c)
    BY <1>1, <1>2, <2>1
  <2>2. CASE e \in audit
    BY <1>2, <2>2, Literals DEF OutboxInv, OutcomesHaveFeedback
  <2> QED
    BY <2>1, <2>2 DEF Apply
<1>4. PublishedIsHandedOver'
  BY <1>2 DEF OutboxInv, PublishedIsHandedOver, Only
<1>5. \A d \in Calls : PublishInv(d)'
  BY OthersPublish
<1> QED
  BY <1>2, <1>3, <1>4, <1>5 DEF OutboxInv, Published

\* The handlers leave the outbox alone but for that.
LEMMA HandlerKeeps ==
  ASSUME StateInv, OutboxInv, NEW c \in Calls, Handler(c) \/ Crash(c)
  PROVE  StateInv' /\ OutboxInv' /\ Published
<1>1. Typed /\ record \in Event /\ handed' = handed /\ handed \subseteq Keys
  BY DEF StateInv, RecordInv, OutboxInv, Handler, ClaimForExecution, Preflight, Execute, StartVerify,
     Verify, StartReconcile, Transition, Readback, Crash
<1>2. ASSUME Others(c), calls'[c].pc \notin {"mark", "release"}, outbox' = outbox,
             \A e \in audit' \ audit : FeedbackOf(e.event) = "none"
      PROVE  OutboxInv' /\ Published
  <2>1. \A d \in Calls : PublishInv(d)'
    BY <1>1, <1>2, OthersPublish
  <2>2. OutcomesHaveFeedback'
    BY <1>2 DEF OutboxInv, OutcomesHaveFeedback
  <2> QED
    BY <1>1, <1>2, <2>1, <2>2 DEF OutboxInv, Published, Outboxed, PublishedIsHandedOver
<1>3. ASSUME Ended(c) PROVE calls'[c].pc \notin {"mark", "release"}
  BY <1>3 DEF Ended
<1>4. CASE ClaimForExecution(c)
  <2>1. outbox' = outbox
    BY <1>4 DEF ClaimForExecution, tables
  <2>2. Others(c) /\ calls'[c].pc \notin {"mark", "release"}
        /\ audit' \subseteq audit \cup {[by |-> c, event |-> "EXECUTION_CLAIMED"]}
    BY <1>1, <1>3, <1>4, ClaimTypes
  <2>3. FeedbackOf("EXECUTION_CLAIMED") = "none"
    BY DEF FeedbackOf
  <2> QED
    BY <1>2, <1>4, <2>1, <2>2, <2>3, ClaimKeeps
<1>5. CASE Preflight(c) \/ Verify(c)
  <2>1. /\ UNCHANGED <<record, audit, effect, asked, outbox>>
        /\ \/ Finish(c)
           \/ \E event \in Categories : /\ Write(c, event)
              /\ \/ At(c, "preflight") /\ event \in {"PREFLIGHT_PASSED", "PREFLIGHT_FAILED"}
                 \/ At(c, "verify") /\ event = "VERIFICATION_FAILED"
                 \/ At(c, "verify") /\ event = "VERIFIED" /\ effect = "yes"
    BY <1>5, Literals DEF Preflight, Verify, tables, provider
  <2>2. CASE Finish(c)
    BY <1>1, <1>2, <1>3, <2>1, <2>2, FinishTypes, EndedIsQuiet, QuietKeeps
  <2>3. ASSUME NEW event \in Categories, Write(c, event) PROVE OutboxInv' /\ Published
    BY <1>1, <1>2, <2>1, <2>3, WriteTypes
  <2> QED
    BY <2>1, <2>2, <2>3, WriteKeeps
<1>6. CASE Execute(c)
  <2>1. \E event \in Categories : Write(c, event)
    BY <1>6, Literals DEF Execute
  <2>2. Others(c) /\ calls'[c].pc = "write" /\ outbox' = outbox /\ audit' = audit
    BY <1>1, <1>6, <2>1, WriteTypes DEF Execute, tables
  <2> QED
    BY <1>2, <1>6, <2>2, AskKeeps
<1>7. CASE StartVerify(c) \/ StartReconcile(c)
  <2>1. Others(c) /\ calls'[c].pc \in {"verify", "write"} /\ outbox' = outbox /\ audit' = audit
    BY <1>1, <1>7, StartTypes DEF StartVerify, StartReconcile, tables
  <2> QED
    BY <1>2, <1>7, <2>1, StartKeeps
<1>8. ASSUME At(c, "write") \/ At(c, "readback"), Finish(c) \/ Proceed(c) \/ Go(c, "readback")
      PROVE  Others(c) /\ calls'[c].pc \notin {"mark", "release"}
  <2>1. calls[c].next # "none"
    BY <1>8 DEF StateInv, CallInv, Planned
  <2>2. After(calls[c].next) \notin {"mark", "release"}
    BY DEF After
  <2> QED
    BY <1>1, <1>3, <1>8, <2>1, <2>2, FinishTypes, ProceedTypes, GoTypes
<1>9. CASE Transition(c)
  <2>1. Others(c) /\ calls'[c].pc \notin {"mark", "release"} /\ At(c, "write")
    BY <1>8, <1>9 DEF Transition
  <2>2. UNCHANGED tables \/ (Permitted(c) /\ Apply(c))
    BY <1>9 DEF Transition
  <2> QED
    BY <1>1, <1>2, <1>9, <2>1, <2>2, TransitionKeeps, InsertKeeps DEF tables
<1>10. CASE Readback(c)
  <2>1. Others(c) /\ calls'[c].pc \notin {"mark", "release"} /\ outbox' = outbox /\ audit' = audit
    BY <1>8, <1>10 DEF Readback, tables
  <2> QED
    BY <1>2, <1>10, <2>1, ReadbackKeeps
<1>11. CASE Crash(c)
  <2>1. Others(c) /\ Ended(c) /\ Typed' /\ UNCHANGED <<record, audit, effect, asked, outbox>>
    BY <1>1, <1>11, FinishTypes DEF Crash, tables, provider
  <2> QED
    BY <1>2, <1>3, <2>1, EndedIsQuiet, QuietKeeps
<1> QED
  BY <1>4, <1>5, <1>6, <1>7, <1>9, <1>10, <1>11 DEF Handler

LEMMA NextKeeps ==
  ASSUME StateInv, OutboxInv, [Next]_vars
  PROVE  StateInv' /\ OutboxInv' /\ Published
<1>1. ASSUME UNCHANGED <<audit, handed, calls>>, Outboxed', Bound, Only({}) PROVE OutboxInv' /\ Published
  <2>1. \A c \in Calls : PublishInv(c)'
    BY <1>1 DEF OutboxInv, PublishInv, At
  <2> QED
    BY <1>1, <2>1, BoundKeeps DEF OutboxInv
<1>2. CASE Approve \/ Expire \/ LateEffect \/ UNCHANGED vars
  <2>1. UNCHANGED <<audit, handed, calls, outbox>>
    BY <1>2 DEF Approve, Expire, LateEffect, vars, tables
  <2>2. Outboxed' /\ Bound /\ Only({})
    BY <2>1 DEF OutboxInv, Outboxed, Bound, Only
  <2> QED
    BY <1>1, <1>2, <2>1, <2>2, EnvironmentKeeps
<1>3. ASSUME NEW k \in Keys, ClaimExpires(k) PROVE StateInv' /\ OutboxInv' /\ Published
  BY <1>1, <1>3, ExpireTypes, EnvironmentKeeps DEF ClaimExpires, OutboxInv
<1>4. ASSUME NEW c \in Calls, Handler(c) \/ Dispatch(c) \/ Crash(c)
      PROVE  StateInv' /\ OutboxInv' /\ Published
  BY <1>4, HandlerKeeps, DispatchKeeps
<1> QED
  BY <1>2, <1>3, <1>4 DEF Next

-----------------------------------------------------------------------------
(* Part 4: the theorems                                                     *)

Counted == expired \in Flags /\ upsets \in 0..MaxUpsets

LEMMA CountedKept ==
  ASSUME Counted, [Next]_vars
  PROVE  Counted'
<1>1. upsets' \in 0..MaxUpsets
  <2>1. Fault \/ UNCHANGED upsets
    BY DEF Next, Approve, Expire, LateEffect, Handler, Dispatch, ClaimForExecution, Preflight, Execute,
       StartVerify, Verify, StartReconcile, Transition, Readback, ClaimFeedbackOutbox, Mark,
       Release, Publish, Crash, ClaimExpires, NoFault, vars
  <2> QED
    BY <2>1, BoundsAssumption DEF Fault, Counted
<1>2. expired' \in Flags
  <2>1. expired' = expired \/ expired' = "yes"
    BY DEF Next, Approve, Expire, LateEffect, Handler, Dispatch, ClaimForExecution, Preflight, Execute,
       StartVerify, Verify, StartReconcile, Transition, Readback, ClaimFeedbackOutbox, Mark,
       Release, Publish, Crash, ClaimExpires, vars
  <2> QED
    BY <2>1 DEF Counted, Flags
<1> QED
  BY <1>1, <1>2 DEF Counted

Inv == StateInv /\ OutboxInv /\ Counted

LEMMA InitInv == Init => Inv
<1> SUFFICES ASSUME Init PROVE Inv
  OBVIOUS
<1>1. NoRow \in Row /\ NoRow.state = "absent"
  BY IdleType DEF NoRow, Row
<1>2. Nothing.event = "PREVIEW_READY"
  BY DEF Nothing
<1>3. Typed
  BY IdleType DEF Init, Typed
<1>4. RecordInv
  BY <1>2, IdleType DEF Init, RecordInv, Claimant
<1>5. ASSUME NEW c \in Calls PROVE CallInv(c) /\ PublishInv(c)
  <2>1. calls[c].pc = "idle" /\ c \notin asked
    BY IdleType DEF Init
  <2> QED
    BY <2>1 DEF CallInv, PublishInv, Ready, Writing, At
<1>6. Outboxed /\ PublishedIsHandedOver /\ OutcomesHaveFeedback /\ handed \subseteq Keys
  BY <1>1 DEF Init, Outboxed, PublishedIsHandedOver, OutcomesHaveFeedback
<1>7. Counted
  BY BoundsAssumption DEF Init, Counted, Flags
<1> QED
  BY <1>3, <1>4, <1>5, <1>6, <1>7 DEF Inv, StateInv, OutboxInv

LEMMA InvHolds == Spec => []Inv
<1>1. Inv /\ [Next]_vars => Inv'
  BY NextKeeps, CountedKept DEF Inv
<1> QED
  BY <1>1, InitInv, PTL DEF Spec

\* The tables and the locals of the handlers keep their shapes.
THEOREM TypesHold == Spec => []TypeOK
<1>1. Inv => TypeOK
  BY DEF Inv, StateInv, OutboxInv, Counted, RecordInv, Typed, Outboxed, TypeOK
<1> QED
  BY <1>1, InvHolds, PTL

\* Only the one claim leads to the provider, whatever is lost, repeated or given up.
THEOREM AskedOnceHolds == Spec => []AskedOnce
<1>1. Inv => AskedOnce
  BY DEF Inv, StateInv, RecordInv, AskedOnce
<1> QED
  BY <1>1, InvHolds, PTL

\* A record never tells of an effect that was not made, nor denies one that was.
THEOREM OutcomeIsTrueHolds == Spec => []OutcomeIsTrue
<1>1. Inv => OutcomeIsTrue
  <2> SUFFICES ASSUME RecordInv PROVE OutcomeIsTrue
    BY DEF Inv, StateInv
  <2>1. record.event \in {"PREVIEW_READY", "APPROVED"} => asked = {}
    BY DEF RecordInv, Claimant
  <2> QED
    BY <2>1 DEF RecordInv, OutcomeIsTrue
<1> QED
  BY <1>1, InvHolds, PTL

\* Each outcome in the audit is bound to its own row of the outbox.
THEOREM OutcomesHaveFeedbackHolds == Spec => []OutcomesHaveFeedback
<1>1. Inv => OutcomesHaveFeedback
  BY DEF Inv, OutboxInv
<1> QED
  BY <1>1, InvHolds, PTL

\* Nothing is marked published that the runtime has not accepted.
THEOREM PublishedIsHandedOverHolds == Spec => []PublishedIsHandedOver
<1>1. Inv => PublishedIsHandedOver
  BY DEF Inv, OutboxInv
<1> QED
  BY <1>1, InvHolds, PTL

\* No late mark or release takes a published row back.
THEOREM PublishedIsFinalHolds == Spec => PublishedIsFinal
<1>1. Inv /\ [Next]_vars =>
        [\A k \in Keys : outbox[k].state = "published" => outbox'[k] = outbox[k]]_vars
  BY NextKeeps DEF Inv, Published
<1> QED
  BY <1>1, InvHolds, PTL DEF Spec, PublishedIsFinal

\* No command, in flight or new, changes a record that is verified, failed or
\* rejected by its preflight.
THEOREM EndIsFinalHolds == Spec => EndIsFinal
<1>1. Inv /\ [Next]_vars =>
        [record.event \in {"VERIFIED", "FAILED", "PREFLIGHT_FAILED"} => UNCHANGED record]_vars
  <2> SUFFICES ASSUME StateInv, Next, record.event \in {"VERIFIED", "FAILED", "PREFLIGHT_FAILED"}
               PROVE  record' = record
    BY DEF Inv
  <2>1. ASSUME NEW c \in Calls, Transition(c) PROVE record' = record
    <3>1. CASE Permitted(c) /\ Apply(c)
      <4>1. /\ At(c, "write") /\ SameStatus(c) /\ record' = Written(c)
            /\ audit' = audit \cup {Written(c)} /\ UNCHANGED <<effect, asked>>
        BY <2>1, <3>1 DEF Transition, Permitted, Apply, provider
      <4>2. record.event \in {"EXECUTION_CLAIMED", "PREFLIGHT_PASSED", "EXECUTED",
                              "OUTCOME_UNKNOWN", "VERIFICATION_FAILED"}
        BY <4>1, ApplyRecord
      <4> QED
        BY <4>2
    <3>2. CASE UNCHANGED tables
      BY <3>2 DEF tables
    <3> QED
      BY <2>1, <3>1, <3>2 DEF Transition
  <2>2. ASSUME NEW c \in Calls, ClaimForExecution(c) PROVE record' = record
    BY <2>2 DEF ClaimForExecution, Claimable, Approved, tables
  <2>3. CASE Approve
    BY <2>3 DEF Approve
  <2> QED
    BY <2>1, <2>2, <2>3 DEF Next, Expire, LateEffect, Handler, Dispatch, Preflight, Execute, StartVerify,
       Verify, StartReconcile, Readback, ClaimFeedbackOutbox, Mark, Release, Publish, Crash,
       ClaimExpires, tables
<1> QED
  BY <1>1, InvHolds, PTL DEF Spec, EndIsFinal
=============================================================================
