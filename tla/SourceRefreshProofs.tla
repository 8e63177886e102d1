------------------------ MODULE SourceRefreshProofs ------------------------
(* Theorems about SourceRefresh, for any number of workers, receipts and    *)
(* edits, and any number of failures, crashes and leases lost.              *)
EXTENDS SourceRefresh, TLAPS

-----------------------------------------------------------------------------
(* Part 1: the inductive invariant                                          *)

\* A row of the journal, with the submission, the command and the acquisition
\* that belong to it.
JobInv(r, job) ==
  /\ job \in Job
  /\ job.lease = "none" => job.owner = None
  /\ job.lease # "none" => job.phase \in Open \cup {"ACQUIRING"}
  /\ job.phase = "ACQUIRING" => job.lease # "none"
  /\ job.phase = "absent" => submissions[r] = "none" /\ fetched[r] = "none"
  /\ job.phase \in {"STAGED", "SUBMITTING", "SUCCEEDED"} => job.staged = "yes"
  /\ job.phase \in {"READY", "ACQUIRING"} => job.staged = "no"
  /\ job.attempts <= MaxAttempts
  /\ \/ job.phase = "READY"
     \/ job.phase = "FAILED" /\ job.code = "denied" /\ job.staged = "no"
     => fetched[r] \in {"none", "failed"} /\ job.attempts < MaxAttempts
  /\ job.phase = "FAILED" /\ job.code = "fetch" => fetched[r] = "failed" /\ job.staged = "no"
  /\ job.phase = "FAILED" /\ job.code = "rejected" => job.staged = "no"
  /\ job.phase = "FAILED" /\ job.code = "changed"
     => submissions[r] = "none" /\ job.base < source.version
  /\ job.phase = "SUCCEEDED" => submissions[r] = "SUCCEEDED" /\ ledger[r] = "COMPLETED"
  /\ job.base <= source.version
  /\ submissions[r] # "none" => job.staged = "yes"

\* The phase the worker knows at each step of drainOnce.
KnownPhases(pc) ==
  CASE pc = "authorize" -> Open
    [] pc = "acquire" -> {"READY"}
    [] pc \in {"fetch", "stage"} -> {"ACQUIRING"}
    [] pc \in {"again", "prepare", "submitting"} -> {"STAGED"}
    [] pc \in {"submit", "insert", "process", "readback", "record"} -> {"SUBMITTING"}
    [] OTHER -> Phases

\* What a call is about to record is true, and stays so until it does.
Records(call, job) ==
  \/ call.to = "FAILED" /\ call.code = "denied" /\ call.phase \in Open
  \/ call.to = "FAILED" /\ call.phase = "ACQUIRING"
     /\ call.code \in {"fetch", "rejected"}
     /\ (call.code = "fetch" => fetched[call.job] = "failed")
  \/ call.to = "FAILED" /\ call.phase = "SUBMITTING" /\ call.code = "changed"
     /\ submissions[call.job] = "none" /\ job.base < source.version
  \/ call.to = "FAILED" /\ call.phase = "SUBMITTING" /\ call.code = "intake"
  \/ call.to = "OUTCOME_UNKNOWN" /\ call.phase \in {"ACQUIRING", "SUBMITTING"}
  \/ call.to = "SUBMITTING" /\ call.phase = "SUBMITTING"
  \/ call.to = "SUCCEEDED" /\ call.phase = "SUBMITTING"
     /\ submissions[call.job] = "SUCCEEDED" /\ ledger[call.job] = "COMPLETED"

\* What finalize has read of the submission.
HasRead(call) ==
  \/ call.to = "FAILED" /\ call.code = "intake"
  \/ call.to = "SUBMITTING"
  \/ call.to = "SUCCEEDED" /\ submissions[call.job] = "SUCCEEDED"

\* A call under way, with the row it works on.  Only the owner may know more
\* than that the row was staged; an acquisition that lost its lease is held.
CallInv(w, call, job) ==
  /\ call \in Call
  /\ call.pc # "idle" =>
       /\ job.phase # "absent"
       /\ job.owner = w => job.phase = call.phase
       /\ call.phase = "ACQUIRING" =>
            \/ job.phase = "ACQUIRING" /\ job.owner = w
            \/ job.phase = "OUTCOME_UNKNOWN"
       /\ call.phase \in {"STAGED", "SUBMITTING"} => job.staged = "yes"
       /\ call.phase \in KnownPhases(call.pc)
       /\ call.pc = "fetch" => fetched[call.job] \in {"none", "failed"}
       /\ call.pc = "record" => HasRead(call)
       /\ call.pc = "settle" => Records(call, job)

\* A job is acquired by one call at a time.
Alone ==
  \A v, w \in Workers :
    /\ ~At(v, "idle") /\ calls[v].phase = "ACQUIRING"
    /\ ~At(w, "idle") /\ calls[w].phase = "ACQUIRING"
    /\ JobOf(v) = JobOf(w)
    => v = w

TablesTyped ==
  /\ source \in [version : Nat, receipts : Nat, traced : {"no", "yes"}, edits : Nat]
  /\ submissions \in [Receipts -> {"none", "SUCCEEDED", "CANCELLED"} \cup Unprocessed]
  /\ ledger \in [Receipts -> {"none", "ACCEPTED", "COMPLETED"}]
  /\ fetched \in [Receipts -> {"none", "ok", "failed", "rejected", "unknown"}]
  /\ upsets \in Nat

Jobs == jobs \in [Receipts -> Job] /\ \A r \in Receipts : JobInv(r, jobs[r])
Calls == calls \in [Workers -> Call] /\ \A w \in Workers : CallInv(w, calls[w], jobs[JobOf(w)])

Inv == TablesTyped /\ Jobs /\ Calls /\ Alone

LEMMA Literals ==
  /\ Open = {"READY", "STAGED", "SUBMITTING"}
  /\ Phases = {"READY", "STAGED", "SUBMITTING", "absent", "ACQUIRING", "SUCCEEDED",
               "FAILED", "OUTCOME_UNKNOWN"}
  /\ Unprocessed = {"RUNNING", "INDETERMINATE"}
  /\ MaxAttempts = 3
BY DEF Open, Phases, Unprocessed, MaxAttempts

LEMMA InitInv == Init => Inv
<1> SUFFICES ASSUME Init PROVE Inv
  OBVIOUS
<1>1. 1 \in Receipts
  BY BoundsAssumption DEF Receipts
<1>2. Jobs
  <2>1. ASSUME NEW r \in Receipts PROVE JobInv(r, jobs[r])
    BY Literals, NoneAssumption DEF Init, JobInv, Job, NewJob, Codes
  <2> QED
    BY <2>1 DEF Init, Jobs, JobInv
<1>3. Calls
  BY <1>1, <1>2, Literals DEF Init, Calls, CallInv, Call, Idle, Pcs, Codes, JobOf
<1> QED
  BY <1>2, <1>3, Literals DEF Init, Inv, TablesTyped, Alone, At, Idle

-----------------------------------------------------------------------------
(* Part 2: the sweep of the journal                                         *)

LEMMA RecoveredInv ==
  ASSUME NEW r \in Receipts, NEW job, JobInv(r, job)
  PROVE  JobInv(r, Recovered(job))
BY Literals DEF JobInv, Recovered, Job

LEMMA RecoveredCall ==
  ASSUME NEW w \in Workers, NEW call, NEW r \in Receipts, NEW job,
         JobInv(r, job), CallInv(w, call, job)
  PROVE  CallInv(w, call, Recovered(job))
BY Literals, NoneAssumption DEF JobInv, CallInv, Recovered, Job, Call, Records

\* The journal that claimNext works on is as good as the one it found.
LEMMA JournalsInv ==
  ASSUME Inv, NEW js \in Journals
  PROVE  /\ js \in [Receipts -> Job]
         /\ \A r \in Receipts : JobInv(r, js[r])
         /\ \A w \in Workers : CallInv(w, calls[w], js[JobOf(w)])
<1> DEFINE swept == [r \in Receipts |-> Recovered(jobs[r])]
<1>1. \A w \in Workers : JobOf(w) \in Receipts
  BY DEF Inv, Calls, Call, JobOf
<1>2. \A r \in Receipts : JobInv(r, swept[r])
  BY RecoveredInv DEF Inv, Jobs
<1>3. \A w \in Workers : CallInv(w, calls[w], swept[JobOf(w)])
  BY <1>1, RecoveredCall DEF Inv, Jobs, Calls
<1>4. CASE js = swept
  BY <1>2, <1>3, <1>4 DEF JobInv
<1>5. ASSUME NEW q \in Candidates(swept), js = [swept EXCEPT ![q] = NewJob(source.version)]
      PROVE  /\ \A r \in Receipts : JobInv(r, js[r])
             /\ \A w \in Workers : CallInv(w, calls[w], js[JobOf(w)])
  <2>1. q \in Receipts /\ swept[q].phase = "absent"
    BY <1>5 DEF Candidates
  <2>2. submissions[q] = "none" /\ fetched[q] = "none"
    BY <1>2, <2>1 DEF JobInv
  <2>3. JobInv(q, NewJob(source.version))
    BY <2>2, Literals, NoneAssumption DEF JobInv, Job, NewJob, Codes, Inv, TablesTyped
  <2>4. \A w \in Workers : JobOf(w) = q => calls[w].pc = "idle"
    BY <1>3, <2>1 DEF CallInv
  <2>5. \A w \in Workers : CallInv(w, calls[w], js[JobOf(w)])
    BY <1>1, <1>3, <1>5, <2>1, <2>4 DEF CallInv
  <2> QED
    BY <1>2, <1>5, <2>1, <2>3, <2>5
<1> QED
  BY <1>4, <1>5, <1>2 DEF Journals, JobInv

-----------------------------------------------------------------------------
(* Part 3: steps that leave the journal alone                               *)

\* What other calls and other rows may rely on: versions only grow, what is
\* completed stays so, and no submission appears or goes.
Evidence ==
  /\ TablesTyped'
  /\ source.version <= source'.version
  /\ UNCHANGED fetched
  /\ \A r \in Receipts :
       /\ ledger[r] = "COMPLETED" => ledger'[r] = "COMPLETED"
       /\ submissions[r] = "SUCCEEDED" => submissions'[r] = "SUCCEEDED"
       /\ submissions[r] = "none" <=> submissions'[r] = "none"

LEMMA RowKept ==
  ASSUME Inv, Evidence, NEW r \in Receipts, UNCHANGED jobs[r]
  PROVE  JobInv(r, jobs[r])'
BY DEF Inv, Jobs, JobInv, Job, Evidence, TablesTyped

LEMMA CallKept ==
  ASSUME Inv, Evidence, NEW v \in Workers, UNCHANGED calls[v], UNCHANGED jobs[JobOf(v)]
  PROVE  CallInv(v, calls[v], jobs[JobOf(v)])'
<1>1. CallInv(v, calls[v], jobs[JobOf(v)]) /\ calls[v].job \in Receipts
  BY DEF Inv, Calls, Call
<1>2. jobs[JobOf(v)] \in Job /\ source.version \in Nat /\ source'.version \in Nat
  BY <1>1 DEF Inv, Jobs, Evidence, TablesTyped, JobOf
<1> QED
  BY <1>1, <1>2 DEF CallInv, Records, HasRead, Evidence, JobOf, Job

\* The worker of the step, and nobody else, moves in drainOnce.
Moves(w) ==
  /\ calls' \in [Workers -> Call]
  /\ \A v \in Workers \ {w} : calls'[v] = calls[v]

\* It does not begin an acquisition.
NoAcquisition(w) ==
  calls'[w].pc # "idle" /\ calls'[w].phase = "ACQUIRING" =>
    calls[w].pc # "idle" /\ calls[w].phase = "ACQUIRING" /\ calls'[w].job = calls[w].job

LEMMA AloneKept ==
  ASSUME Inv, NEW w \in Workers, Moves(w), NoAcquisition(w)
  PROVE  Alone'
BY DEF Inv, Alone, At, JobOf, Moves, NoAcquisition

LEMMA CallStepKeeps ==
  ASSUME Inv, Evidence, UNCHANGED jobs, NEW w \in Workers, Moves(w), NoAcquisition(w),
         CallInv(w, calls[w], jobs[JobOf(w)])'
  PROVE  Inv'
<1>1. Jobs'
  BY RowKept DEF Inv, Jobs
<1>2. Calls'
  BY CallKept DEF Calls, Moves, JobOf
<1> QED
  BY <1>1, <1>2, AloneKept DEF Inv, Evidence

\* A call that ends says nothing.
LEMMA LeavesKeeps ==
  ASSUME Inv, NEW w \in Workers, Leaves(w)
  PROVE  Moves(w) /\ NoAcquisition(w) /\ calls'[w].pc = "idle"
<1>1. Idle \in Call
  BY BoundsAssumption, Literals DEF Idle, Call, Pcs, Codes, Receipts
<1> QED
  BY <1>1 DEF Leaves, Inv, Calls, Moves, NoAcquisition, Idle

LEMMA LeftInv ==
  ASSUME Inv, NEW w \in Workers, Leaves(w)
  PROVE  CallInv(w, calls[w], jobs[JobOf(w)])'
<1>1. Idle \in Call /\ Idle.pc = "idle" /\ calls'[w] = Idle
  BY BoundsAssumption, Literals DEF Idle, Call, Pcs, Codes, Receipts, Leaves, Inv, Calls
<1> QED
  BY <1>1 DEF CallInv

LEMMA SameEvidence ==
  ASSUME Inv, UNCHANGED <<source, submissions, ledger, fetched>>,
         NoFault \/ Fault
  PROVE  Evidence
BY DEF Inv, TablesTyped, Evidence, NoFault, Fault

\* The call of a worker as the invariant knows it.
LEMMA CallFacts ==
  ASSUME Inv, NEW w \in Workers
  PROVE  /\ calls[w] \in Call /\ calls[w].job \in Receipts
         /\ CallInv(w, calls[w], jobs[calls[w].job])
         /\ JobInv(calls[w].job, jobs[calls[w].job])
         /\ jobs[calls[w].job] \in Job
BY DEF Inv, Calls, Jobs, Call, JobOf

LEMMA GoesMoves ==
  ASSUME Inv, NEW w \in Workers, NEW pc \in Pcs, Goes(w, pc), ~At(w, "idle")
  PROVE  /\ Moves(w) /\ NoAcquisition(w)
         /\ calls'[w].pc = pc /\ calls'[w].job = calls[w].job
         /\ calls'[w].phase = calls[w].phase /\ calls'[w] \in Call
BY CallFacts DEF Inv, Calls, Goes, Moves, NoAcquisition, At, Call

LEMMA DecidesMoves ==
  ASSUME Inv, NEW w \in Workers, NEW to \in Phases, NEW code \in Codes, Decides(w, to, code),
         ~At(w, "idle")
  PROVE  /\ Moves(w) /\ NoAcquisition(w)
         /\ calls'[w].pc = "settle" /\ calls'[w].to = to /\ calls'[w].code = code
         /\ calls'[w].job = calls[w].job /\ calls'[w].phase = calls[w].phase
         /\ calls'[w] \in Call
BY CallFacts DEF Inv, Calls, Decides, Moves, NoAcquisition, At, Call, Pcs

\* A step of drainOnce that stays within its phase.
LEMMA GoesKeeps ==
  ASSUME Inv, Evidence, UNCHANGED jobs, NEW w \in Workers, ~At(w, "idle"),
         NEW pc \in Pcs \ {"idle", "fetch", "record", "settle"},
         Goes(w, pc), calls[w].phase \in KnownPhases(pc)
  PROVE  Inv'
<1>1. /\ calls'[w].pc = pc /\ calls'[w].job = calls[w].job
      /\ calls'[w].phase = calls[w].phase /\ calls'[w] \in Call
  BY GoesMoves
<1>2. CallInv(w, calls[w], jobs[JobOf(w)])'
  BY <1>1, CallFacts DEF CallInv, At, JobOf, Call
<1> QED
  BY <1>2, GoesMoves, CallStepKeeps

\* A step that decides what is recorded, if that is true.
LEMMA DecidesKeeps ==
  ASSUME Inv, Evidence, UNCHANGED jobs, NEW w \in Workers, ~At(w, "idle"),
         NEW to \in Phases, NEW code \in Codes, Decides(w, to, code),
         Records(calls[w], jobs[JobOf(w)])'
  PROVE  Inv'
<1>1. calls'[w] \in Call
  BY DecidesMoves
<1>2. calls'[w].pc = "settle" /\ calls'[w].phase = calls[w].phase /\ calls'[w].job = calls[w].job
  BY DecidesMoves
<1>3. calls'[w].phase \in KnownPhases("settle")
  BY <1>2, CallFacts DEF Call, KnownPhases
<1>4. CallInv(w, calls[w], jobs[JobOf(w)])'
  BY <1>1, <1>2, <1>3, CallFacts DEF CallInv, At, JobOf
<1> QED
  BY <1>4, DecidesMoves, CallStepKeeps

LEMMA UnsureKeeps ==
  ASSUME Inv, Evidence, UNCHANGED jobs, NEW w \in Workers, ~At(w, "idle"),
         calls[w].phase = "SUBMITTING", Unsure(w)
  PROVE  Inv'
<1>1. "SUBMITTING" \in Phases /\ "none" \in Codes /\ Decides(w, "SUBMITTING", "none")
  BY Literals DEF Codes, Unsure
<1>3. calls'[w].to = "SUBMITTING" /\ calls'[w].phase = "SUBMITTING"
  BY <1>1, DecidesMoves
<1>4. Records(calls[w], jobs[JobOf(w)])'
  BY <1>3 DEF Records
<1> QED
  BY <1>1, <1>4, DecidesKeeps

LEMMA LeavingKeeps ==
  ASSUME Inv, Evidence, UNCHANGED jobs, NEW w \in Workers, Leaves(w)
  PROVE  Inv'
BY LeavesKeeps, LeftInv, CallStepKeeps

LEMMA AuthorizeKeeps ==
  ASSUME Inv, NEW w \in Workers, Authorize(w)
  PROVE  Inv'
<1>1. Evidence /\ UNCHANGED jobs /\ ~At(w, "idle")
  BY SameEvidence DEF Authorize, NoFault, At
<1>2. calls[w].phase \in KnownPhases(calls[w].pc)
  BY <1>1, CallFacts DEF CallInv, At
<1>3. calls[w].phase \in Open /\ (At(w, "again") => calls[w].phase = "STAGED")
  BY <1>2, Literals DEF Authorize, KnownPhases, At
<1>4. CASE Decides(w, "FAILED", "denied")
  <2>1. "FAILED" \in Phases /\ "denied" \in Codes
    BY Literals DEF Codes
  <2>2. Records(calls[w], jobs[JobOf(w)])'
    BY <1>1, <1>3, <1>4, <2>1, DecidesMoves DEF Records
  <2> QED
    BY <1>1, <1>4, <2>1, <2>2, DecidesKeeps
<1>5. CASE At(w, "again") /\ Goes(w, "prepare")
  BY <1>1, <1>3, <1>5, GoesKeeps DEF KnownPhases, Pcs
<1>6. CASE ~At(w, "again") /\ calls[w].phase = "READY" /\ Goes(w, "acquire")
  BY <1>1, <1>6, GoesKeeps DEF KnownPhases, Pcs
<1>7. CASE ~At(w, "again") /\ calls[w].phase = "STAGED" /\ Goes(w, "again")
  BY <1>1, <1>7, GoesKeeps DEF KnownPhases, Pcs
<1>8. CASE ~At(w, "again") /\ calls[w].phase = "SUBMITTING" /\ Goes(w, "readback")
  BY <1>1, <1>8, GoesKeeps DEF KnownPhases, Pcs
<1> QED
  BY <1>3, <1>4, <1>5, <1>6, <1>7, <1>8, Literals DEF Authorize

LEMMA FetchKeeps ==
  ASSUME Inv, NEW w \in Workers, Fetch(w)
  PROVE  Inv'
<1> DEFINE r == JobOf(w)
<1>1. PICK end \in {"ok", "failed", "rejected", "unknown"} :
        /\ fetched' = [fetched EXCEPT ![JobOf(w)] = end]
        /\ CASE end = "ok" -> Goes(w, "stage")
             [] end = "failed" -> Decides(w, "FAILED", "fetch")
             [] end = "rejected" -> Decides(w, "FAILED", "rejected")
             [] end = "unknown" -> Decides(w, "OUTCOME_UNKNOWN", "none")
  BY DEF Fetch
<1>2. At(w, "fetch") /\ UNCHANGED <<source, jobs, submissions, ledger, upsets>>
  BY DEF Fetch
<1>3. ~At(w, "idle") /\ r \in Receipts /\ calls[w].phase = "ACQUIRING"
  BY <1>2, CallFacts DEF CallInv, At, KnownPhases, JobOf
<1>4. jobs[r].phase \in {"ACQUIRING", "OUTCOME_UNKNOWN"}
  BY <1>3, CallFacts DEF CallInv, At, JobOf
<1>5. TablesTyped'
  BY <1>1, <1>2 DEF Inv, TablesTyped
<1>6. fetched'[r] = end /\ \A q \in Receipts \ {r} : fetched'[q] = fetched[q]
  BY <1>1, <1>3 DEF Inv, TablesTyped
<1>7. Jobs'
  <2>1. ASSUME NEW q \in Receipts PROVE JobInv(q, jobs[q])'
    BY <1>2, <1>4, <1>6 DEF Inv, Jobs, JobInv
  <2> QED
    BY <2>1, <1>2 DEF Inv, Jobs
<1>8. /\ {"FAILED", "OUTCOME_UNKNOWN"} \subseteq Phases /\ {"fetch", "rejected", "none"} \subseteq Codes
      /\ "stage" \in Pcs
  BY Literals DEF Codes, Pcs
<1>9. Moves(w) /\ NoAcquisition(w)
  BY <1>1, <1>3, <1>8, GoesMoves, DecidesMoves
<1>10. CallInv(w, calls[w], jobs[JobOf(w)])'
  <2>1. CASE end = "ok"
    <3>1. /\ calls'[w].pc = "stage" /\ calls'[w].job = calls[w].job
          /\ calls'[w].phase = calls[w].phase /\ calls'[w] \in Call
      BY <1>1, <1>3, <1>8, <2>1, GoesMoves
    <3> QED
      BY <1>2, <1>3, <3>1, CallFacts DEF CallInv, At, JobOf, KnownPhases
  <2>2. ASSUME NEW to \in Phases, NEW code \in Codes, Decides(w, to, code),
               \/ to = "FAILED" /\ code = "fetch" /\ end = "failed"
               \/ to = "FAILED" /\ code = "rejected"
               \/ to = "OUTCOME_UNKNOWN"
        PROVE  CallInv(w, calls[w], jobs[JobOf(w)])'
    <3>1. /\ calls'[w].pc = "settle" /\ calls'[w].to = to /\ calls'[w].code = code
          /\ calls'[w].job = calls[w].job /\ calls'[w].phase = calls[w].phase
          /\ calls'[w] \in Call
      BY <1>3, <2>2, DecidesMoves
    <3>2. Records(calls[w], jobs[JobOf(w)])'
      BY <1>3, <1>6, <2>2, <3>1 DEF Records, JobOf
    <3>3. calls'[w].phase \in KnownPhases("settle")
      BY <3>1, CallFacts DEF Call, KnownPhases
    <3> QED
      BY <1>2, <1>3, <3>1, <3>2, <3>3, CallFacts DEF CallInv, At, JobOf
  <2> QED
    BY <1>1, <1>8, <2>1, <2>2
<1>11. ASSUME NEW v \in Workers \ {w} PROVE CallInv(v, calls[v], jobs[JobOf(v)])'
  <2>1. calls'[v] = calls[v] /\ CallInv(v, calls[v], jobs[calls[v].job]) /\ calls[v].job \in Receipts
    BY <1>9, CallFacts DEF Moves
  <2>2. calls[v].job = r => calls[v].pc = "idle" \/ calls[v].phase # "ACQUIRING"
    BY <1>3 DEF Inv, Alone, At, JobOf
  <2>3. calls[v].pc = "fetch" => calls[v].phase = "ACQUIRING"
    BY <2>1 DEF CallInv, KnownPhases
  <2> QED
    BY <1>2, <1>6, <2>1, <2>2, <2>3 DEF CallInv, Records, HasRead, JobOf
<1>12. Calls'
  BY <1>9, <1>10, <1>11 DEF Calls, Moves
<1> QED
  BY <1>5, <1>7, <1>9, <1>12, AloneKept DEF Inv

LEMMA PrepareKeeps ==
  ASSUME Inv, NEW w \in Workers, Prepare(w)
  PROVE  Inv'
<1>1. At(w, "prepare") /\ ~At(w, "idle") /\ JobOf(w) \in Receipts /\ UNCHANGED jobs
  BY CallFacts DEF Prepare, At, JobOf
<1>2. Evidence
  BY <1>1 DEF Prepare, Evidence, Inv, TablesTyped, NoFault, Fault
<1>3. calls[w].phase \in KnownPhases("submitting")
  BY <1>1, CallFacts DEF CallInv, At, KnownPhases
<1>4. CASE Goes(w, "submitting")
  BY <1>1, <1>2, <1>3, <1>4, GoesKeeps DEF Pcs
<1>5. CASE Leaves(w)
  BY <1>1, <1>2, <1>5, LeavingKeeps
<1> QED
  BY <1>4, <1>5 DEF Prepare

\* A call that submits knows the phase of its job.
LEMMA Submitting ==
  ASSUME Inv, NEW w \in Workers,
         calls[w].pc \in {"submit", "insert", "process", "readback", "record"}
  PROVE  /\ ~At(w, "idle") /\ JobOf(w) \in Receipts
         /\ calls[w].phase = "SUBMITTING" /\ jobs[JobOf(w)].staged = "yes"
BY CallFacts DEF CallInv, At, KnownPhases, JobOf

LEMMA SubmitKeeps ==
  ASSUME Inv, NEW w \in Workers, Submit(w)
  PROVE  Inv'
<1>1. Evidence /\ UNCHANGED jobs
  BY SameEvidence DEF Submit
<1>2. ~At(w, "idle") /\ calls[w].phase = "SUBMITTING"
  BY Submitting DEF Submit, At
<1>3. CASE Goes(w, "insert")
  BY <1>1, <1>2, <1>3, GoesKeeps DEF Pcs, KnownPhases
<1>4. CASE Goes(w, "process")
  BY <1>1, <1>2, <1>4, GoesKeeps DEF Pcs, KnownPhases
<1>5. CASE Unsure(w)
  BY <1>1, <1>2, <1>5, UnsureKeeps
<1> QED
  BY <1>3, <1>4, <1>5 DEF Submit

\* The intake is made of a version that is still the base of its job, so nobody
\* has called it overtaken.
LEMMA IntakeMade ==
  ASSUME Inv, NEW w \in Workers, Insert(w), NoFault \/ Fault,
         ~Refused(JobOf(w)), ~Overtaken(JobOf(w)),
         submissions' = [submissions EXCEPT ![JobOf(w)] = "RUNNING"],
         NEW v \in {source.version, source.version + 1},
         source' = [source EXCEPT !.version = v, !.receipts = @ + 1, !.traced = "yes"],
         Goes(w, "process") \/ Unsure(w)
  PROVE  Inv'
<1> DEFINE r == JobOf(w)
<1>1. /\ ~At(w, "idle") /\ r \in Receipts /\ calls[w].phase = "SUBMITTING"
      /\ jobs[r].staged = "yes" /\ UNCHANGED <<jobs, ledger, fetched>>
  BY Submitting DEF Insert, At
<1>2. submissions[r] = "none" /\ jobs[r].base = source.version
  BY DEF Refused, Overtaken
<1>3. source.version \in Nat /\ source'.version = v /\ source.version <= v
  BY DEF Inv, TablesTyped
<1>4. TablesTyped'
  <2>1. source' \in [version : Nat, receipts : Nat, traced : {"no", "yes"}, edits : Nat]
    <3>1. source = [version |-> source.version, receipts |-> source.receipts,
                    traced |-> source.traced, edits |-> source.edits]
          /\ source.receipts \in Nat /\ source.edits \in Nat /\ v \in Nat
      BY <1>3 DEF Inv, TablesTyped
    <3>2. source' = [version |-> v, receipts |-> source.receipts + 1, traced |-> "yes",
                     edits |-> source.edits]
      BY <3>1
    <3> QED
      BY <3>1, <3>2
  <2>2. upsets' \in Nat
    BY DEF Inv, TablesTyped, NoFault, Fault
  <2>3. submissions' \in [Receipts -> {"none", "SUCCEEDED", "CANCELLED"} \cup Unprocessed]
    BY <1>1 DEF Inv, TablesTyped, Unprocessed
  <2> QED
    BY <1>1, <2>1, <2>2, <2>3 DEF Inv, TablesTyped
<1>5. submissions'[r] = "RUNNING" /\ \A q \in Receipts \ {r} : submissions'[q] = submissions[q]
  BY <1>1 DEF Inv, TablesTyped
<1>6. jobs[r].phase # "absent"
  BY <1>1, CallFacts DEF CallInv, At, JobOf
<1>7. Jobs'
  <2>1. ASSUME NEW q \in Receipts PROVE JobInv(q, jobs[q])'
    <3>1. JobInv(q, jobs[q]) /\ jobs[q].base \in Nat
      BY DEF Inv, Jobs, Job
    <3> QED
      BY <1>1, <1>2, <1>3, <1>5, <1>6, <3>1 DEF JobInv
  <2> QED
    BY <2>1, <1>1 DEF Inv, Jobs
<1>8. /\ Moves(w) /\ NoAcquisition(w) /\ calls'[w] \in Call
      /\ calls'[w].job = calls[w].job /\ calls'[w].phase = calls[w].phase
      /\ \/ calls'[w].pc = "process"
         \/ calls'[w].pc = "settle" /\ calls'[w].to = "SUBMITTING"
  <2>1. CASE Goes(w, "process")
    BY <1>1, <2>1, GoesMoves DEF Pcs
  <2>2. CASE Unsure(w)
    <3>1. "SUBMITTING" \in Phases /\ "none" \in Codes
      BY Literals DEF Codes
    <3> QED
      BY <1>1, <2>2, <3>1, DecidesMoves DEF Unsure
  <2> QED
    BY <2>1, <2>2
<1>9. CallInv(w, calls[w], jobs[JobOf(w)])'
  BY <1>1, <1>8, CallFacts, Literals DEF CallInv, At, JobOf, KnownPhases, Records
<1>10. ASSUME NEW u \in Workers \ {w} PROVE CallInv(u, calls[u], jobs[JobOf(u)])'
  <2>1. /\ calls'[u] = calls[u] /\ CallInv(u, calls[u], jobs[calls[u].job])
        /\ calls[u].job \in Receipts /\ jobs[calls[u].job].base \in Nat
    BY <1>8, CallFacts DEF Moves, Job
  <2> QED
    BY <1>1, <1>2, <1>3, <1>5, <2>1 DEF CallInv, Records, HasRead, JobOf
<1>11. Calls'
  BY <1>8, <1>9, <1>10 DEF Calls, Moves
<1> QED
  BY <1>4, <1>7, <1>8, <1>11, AloneKept DEF Inv

LEMMA InsertKeeps ==
  ASSUME Inv, NEW w \in Workers, Insert(w)
  PROVE  Inv'
<1>1. /\ ~At(w, "idle") /\ JobOf(w) \in Receipts /\ calls[w].phase = "SUBMITTING"
      /\ UNCHANGED <<jobs, ledger, fetched>>
  BY Submitting DEF Insert, At
<1>2. CASE Unsure(w) /\ UNCHANGED <<source, submissions>> /\ (NoFault \/ Fault)
  BY <1>1, <1>2, SameEvidence, UnsureKeeps
<1>3. CASE /\ NoFault /\ Overtaken(JobOf(w)) /\ Decides(w, "FAILED", "changed")
           /\ UNCHANGED <<source, submissions>>
  <2>1. Evidence /\ "FAILED" \in Phases /\ "changed" \in Codes
    BY <1>1, <1>3, SameEvidence, Literals DEF Codes
  <2>2. /\ calls'[w].to = "FAILED" /\ calls'[w].code = "changed"
        /\ calls'[w].phase = "SUBMITTING" /\ calls'[w].job = calls[w].job
    BY <1>1, <1>3, <2>1, DecidesMoves
  <2>3. submissions[JobOf(w)] = "none" /\ jobs[JobOf(w)].base < source.version
    <3>1. jobs[JobOf(w)].base \in Nat /\ source.version \in Nat
          /\ jobs[JobOf(w)].base <= source.version
      BY <1>1 DEF Inv, Jobs, JobInv, Job, TablesTyped
    <3> QED
      BY <1>3, <3>1 DEF Overtaken, Refused
  <2>4. Records(calls[w], jobs[JobOf(w)])'
    BY <1>1, <1>3, <2>2, <2>3 DEF Records, JobOf
  <2> QED
    BY <1>1, <1>3, <2>1, <2>4, DecidesKeeps
<1>4. CASE /\ ~Refused(JobOf(w)) /\ ~Overtaken(JobOf(w))
           /\ submissions' = [submissions EXCEPT ![JobOf(w)] = "RUNNING"]
           /\ \E v \in {source.version, source.version + 1} :
                source' = [source EXCEPT !.version = v, !.receipts = @ + 1, !.traced = "yes"]
           /\ (NoFault /\ Goes(w, "process")) \/ (Fault /\ Unsure(w))
  BY <1>4, IntakeMade
<1> QED
  BY <1>2, <1>3, <1>4 DEF Insert

\* What is read of the submission is still so when the command is recorded.
LEMMA ReadsKeeps ==
  ASSUME Inv, Evidence, UNCHANGED jobs, NEW w \in Workers, ~At(w, "idle"),
         calls[w].phase = "SUBMITTING", JobOf(w) \in Receipts,
         NEW state, Reads(w, state), state = submissions'[JobOf(w)]
  PROVE  Inv'
<1> DEFINE to == CASE state = "SUCCEEDED" -> "SUCCEEDED"
                   [] state = "CANCELLED" -> "FAILED"
                   [] OTHER -> "SUBMITTING"
           code == IF state = "CANCELLED" THEN "intake" ELSE "none"
<1>1. /\ calls' \in [Workers -> Call] /\ \A v \in Workers \ {w} : calls'[v] = calls[v]
      /\ calls'[w].pc = "record" /\ calls'[w].job = calls[w].job
      /\ calls'[w].phase = "SUBMITTING" /\ calls'[w] \in Call
      /\ calls'[w].to = to /\ calls'[w].code = code
  <2>1. calls' = [calls EXCEPT ![w].pc = "record", ![w].to = to, ![w].code = code]
    BY DEF Reads
  <2>2. to \in Phases /\ code \in Codes /\ "record" \in Pcs
    BY Literals DEF Codes, Pcs
  <2> HIDE DEF to, code
  <2> QED
    BY <2>1, <2>2, CallFacts DEF Inv, Calls, Call
<1>2. HasRead(calls[w])'
  BY <1>1 DEF HasRead, JobOf
<1>3. CallInv(w, calls[w], jobs[JobOf(w)])'
  BY <1>1, <1>2, CallFacts DEF CallInv, At, JobOf, KnownPhases
<1> QED
  BY <1>1, <1>3, CallStepKeeps DEF Moves, NoAcquisition

LEMMA ProcessKeeps ==
  ASSUME Inv, NEW w \in Workers, Process(w)
  PROVE  Inv'
<1> DEFINE r == JobOf(w)
<1>1. /\ ~At(w, "idle") /\ r \in Receipts /\ calls[w].phase = "SUBMITTING"
      /\ UNCHANGED <<source, jobs, ledger, fetched>>
  BY Submitting DEF Process, At
<1>2. CASE UNCHANGED submissions /\ Fault /\ Unsure(w)
  BY <1>1, <1>2, SameEvidence, UnsureKeeps
<1>3. CASE UNCHANGED submissions /\ NoFault /\ Reads(w, submissions[r])
  BY <1>1, <1>3, SameEvidence, ReadsKeeps
<1>4. ASSUME NEW s \in {"SUCCEEDED", "INDETERMINATE"}, NoFault, submissions[r] \in Unprocessed,
             submissions' = [submissions EXCEPT ![r] = s]
      PROVE  Evidence /\ submissions'[r] = s
  BY <1>1, <1>4, Literals DEF Inv, TablesTyped, Evidence, NoFault
<1>5. CASE /\ NoFault /\ submissions[r] \in Unprocessed /\ Reads(w, "SUCCEEDED")
           /\ submissions' = [submissions EXCEPT ![r] = "SUCCEEDED"]
  BY <1>1, <1>4, <1>5, ReadsKeeps
<1>6. CASE /\ NoFault /\ submissions[r] \in Unprocessed /\ Unsure(w)
           /\ submissions' = [submissions EXCEPT ![r] = "INDETERMINATE"]
  BY <1>1, <1>4, <1>6, UnsureKeeps
<1> QED
  BY <1>2, <1>3, <1>5, <1>6 DEF Process

LEMMA ReadbackKeeps ==
  ASSUME Inv, NEW w \in Workers, Readback(w)
  PROVE  Inv'
<1>1. /\ ~At(w, "idle") /\ JobOf(w) \in Receipts /\ calls[w].phase = "SUBMITTING"
      /\ UNCHANGED <<source, jobs, submissions, ledger, fetched>> /\ Evidence
  BY Submitting, SameEvidence DEF Readback, At
<1>2. CASE Decides(w, "OUTCOME_UNKNOWN", "none")
  <2>1. "OUTCOME_UNKNOWN" \in Phases /\ "none" \in Codes
    BY Literals DEF Codes
  <2>2. Records(calls[w], jobs[JobOf(w)])'
    BY <1>1, <1>2, <2>1, DecidesMoves DEF Records
  <2> QED
    BY <1>1, <1>2, <2>1, <2>2, DecidesKeeps
<1>3. CASE Reads(w, submissions[JobOf(w)])
  BY <1>1, <1>3, ReadsKeeps
<1>4. CASE Leaves(w)
  BY <1>1, <1>4, LeavingKeeps
<1> QED
  BY <1>2, <1>3, <1>4 DEF Readback

LEMMA RecordKeeps ==
  ASSUME Inv, NEW w \in Workers, Record(w)
  PROVE  Inv'
<1> DEFINE r == JobOf(w)
<1>1. /\ ~At(w, "idle") /\ r \in Receipts /\ calls[w].phase = "SUBMITTING" /\ At(w, "record")
      /\ UNCHANGED <<source, jobs, submissions, fetched>>
  BY Submitting DEF Record, At
<1>2. Evidence
  BY <1>1 DEF Record, Evidence, Inv, TablesTyped, NoFault, Fault
<1>3. CASE ledger' = [ledger EXCEPT ![r] = "COMPLETED"] /\ Goes(w, "settle")
  <2>1. /\ calls'[w].pc = "settle" /\ calls'[w].job = calls[w].job
        /\ calls'[w].phase = "SUBMITTING" /\ calls'[w] \in Call
        /\ calls'[w].to = calls[w].to /\ calls'[w].code = calls[w].code
    BY <1>1, <1>3, CallFacts DEF Goes, Inv, Calls, Call, Pcs
  <2>2. ledger'[r] = "COMPLETED"
    BY <1>1, <1>3 DEF Inv, TablesTyped
  <2>3. HasRead(calls[w])
    BY <1>1, CallFacts DEF CallInv, At
  <2>4. Records(calls[w], jobs[JobOf(w)])'
    BY <1>1, <2>1, <2>2, <2>3 DEF Records, HasRead, JobOf
  <2>5. CallInv(w, calls[w], jobs[JobOf(w)])'
    BY <1>1, <2>1, <2>4, CallFacts, Literals DEF CallInv, At, JobOf, KnownPhases
  <2> QED
    BY <1>1, <1>2, <1>3, <2>5, GoesMoves, CallStepKeeps DEF Pcs
<1>4. CASE Unsure(w)
  BY <1>1, <1>2, <1>4, UnsureKeeps
<1> QED
  BY <1>3, <1>4 DEF Record

-----------------------------------------------------------------------------
(* Part 4: steps that write the journal                                     *)

\* The others only see that their lease is gone, or that it never was theirs.
LEMMA OthersKept ==
  ASSUME Inv, NEW w \in Workers, Holds(w), ~At(w, "idle"), JobOf(w) \in Receipts,
         jobs' \in [Receipts -> Job],
         \A q \in Receipts \ {JobOf(w)} : jobs'[q] = jobs[q],
         jobs'[JobOf(w)].owner \in {w, None}, jobs'[JobOf(w)].base = jobs[JobOf(w)].base,
         jobs'[JobOf(w)].phase # "absent",
         jobs[JobOf(w)].staged = "yes" => jobs'[JobOf(w)].staged = "yes",
         UNCHANGED <<source, submissions, ledger, fetched>>,
         NEW v \in Workers \ {w}, calls'[v] = calls[v]
  PROVE  CallInv(v, calls[v], jobs[JobOf(v)])'
<1>1. CallInv(v, calls[v], jobs[calls[v].job]) /\ calls[v].job \in Receipts
  BY CallFacts
<1>2. CASE calls[v].job # JobOf(w)
  BY <1>1, <1>2 DEF CallInv, Records, HasRead, JobOf
<1>3. CASE calls[v].job = JobOf(w)
  <2>1. jobs[JobOf(w)].owner = w /\ jobs[JobOf(w)].phase \in Open \cup {"ACQUIRING"}
    BY CallFacts DEF Holds, JobInv, JobOf
  <2>2. calls[v].pc # "idle" => calls[v].phase # "ACQUIRING"
    BY <1>1, <1>3, <2>1, Literals DEF CallInv
  <2>3. jobs'[JobOf(w)].owner # v
    BY NoneAssumption
  <2> QED
    BY <1>1, <1>3, <2>1, <2>2, <2>3 DEF CallInv, Records, HasRead, JobOf
<1> QED
  BY <1>2, <1>3

LEMMA WriteKeeps ==
  ASSUME Inv, NEW w \in Workers, Holds(w), ~At(w, "idle"), JobOf(w) \in Receipts,
         jobs' \in [Receipts -> Job],
         \A q \in Receipts \ {JobOf(w)} : jobs'[q] = jobs[q],
         jobs'[JobOf(w)].owner \in {w, None}, jobs'[JobOf(w)].base = jobs[JobOf(w)].base,
         jobs'[JobOf(w)].phase # "absent",
         jobs[JobOf(w)].staged = "yes" => jobs'[JobOf(w)].staged = "yes",
         UNCHANGED <<source, submissions, ledger, fetched>>, NoFault \/ Fault,
         Moves(w), Alone', JobInv(JobOf(w), jobs'[JobOf(w)]),
         CallInv(w, calls[w], jobs[JobOf(w)])'
  PROVE  Inv'
<1>1. Evidence
  BY SameEvidence
<1>2. Jobs'
  <2>1. ASSUME NEW q \in Receipts PROVE JobInv(q, jobs[q])'
    BY DEF JobInv, Inv, Jobs
  <2> QED
    BY <2>1 DEF Jobs
<1>3. Calls'
  BY OthersKept DEF Calls, Moves
<1> QED
  BY <1>1, <1>2, <1>3 DEF Inv, Evidence

LEMMA SettleKeeps ==
  ASSUME Inv, NEW w \in Workers, Settle(w)
  PROVE  Inv'
<1> DEFINE r == JobOf(w)
           job == jobs[r]
<1>1. /\ ~At(w, "idle") /\ r \in Receipts /\ Leaves(w) /\ (NoFault \/ Fault)
      /\ UNCHANGED <<source, submissions, ledger, fetched>>
  BY CallFacts DEF Settle, At, JobOf
<1>2. CASE UNCHANGED jobs
  BY <1>1, <1>2, SameEvidence, LeavingKeeps
<1>3. CASE /\ Holds(w)
           /\ Write(w, [job EXCEPT !.phase = calls[w].to, !.code = calls[w].code,
                          !.lease = "none", !.owner = None])
  <2>1. /\ job \in Job /\ JobInv(r, job) /\ calls[w] \in Call /\ job.phase = calls[w].phase
        /\ Records(calls[w], job)
    BY <1>1, <1>3, CallFacts DEF Settle, Holds, At, CallInv, JobOf
  <2>2. /\ jobs' \in [Receipts -> Job] /\ \A q \in Receipts \ {r} : jobs'[q] = jobs[q]
        /\ jobs'[r].phase = calls[w].to /\ jobs'[r].code = calls[w].code
        /\ jobs'[r].lease = "none" /\ jobs'[r].owner = None /\ jobs'[r].base = job.base
        /\ jobs'[r].staged = job.staged /\ jobs'[r].attempts = job.attempts
        /\ jobs'[r] \in Job
    BY <1>1, <1>3, <2>1 DEF Write, Inv, Jobs, Job, Call
  <2>3. calls[w].to \in {"FAILED", "OUTCOME_UNKNOWN", "SUBMITTING", "SUCCEEDED"}
    BY <2>1 DEF Records
  <2>4. JobInv(r, jobs'[r])
    BY <1>1, <2>1, <2>2, <2>3, Literals DEF JobInv, Records, JobOf
  <2>5. Moves(w) /\ Alone' /\ CallInv(w, calls[w], jobs[JobOf(w)])'
    BY <1>1, LeavesKeeps, LeftInv, AloneKept
  <2> QED
    BY <1>1, <1>3, <2>2, <2>3, <2>4, <2>5, WriteKeeps
<1> QED
  BY <1>1, <1>2, <1>3 DEF Settle

\* A checkpoint goes on if the row is as the next step must know it.
LEMMA CheckpointKeeps ==
  ASSUME Inv, NEW w \in Workers,
         NEW from \in Pcs \ {"idle"}, NEW to \in {"ACQUIRING", "STAGED", "SUBMITTING"},
         NEW next \in Pcs \ {"idle", "record", "settle"},
         Checkpoint(w, from, to, next), to \in KnownPhases(next),
         KnownPhases(from) = {IF to = "ACQUIRING" THEN "READY"
                              ELSE IF to = "STAGED" THEN "ACQUIRING" ELSE "STAGED"},
         next = "fetch" => to = "ACQUIRING"
  PROVE  Inv'
<1> DEFINE r == JobOf(w)
           job == jobs[r]
<1>1. /\ At(w, from) /\ ~At(w, "idle") /\ r \in Receipts /\ (NoFault \/ Fault)
      /\ UNCHANGED <<source, submissions, ledger, fetched>>
  BY CallFacts DEF Checkpoint, At, JobOf
<1>2. CASE UNCHANGED jobs /\ Leaves(w)
  BY <1>1, <1>2, SameEvidence, LeavingKeeps
<1>3. CASE /\ Holds(w)
           /\ Write(w, [job EXCEPT !.phase = to, !.code = "none",
                          !.staged = IF to = "STAGED" THEN "yes" ELSE @,
                          !.attempts = IF to = "ACQUIRING" THEN @ + 1 ELSE @])
           /\ \/ calls' = [calls EXCEPT ![w].pc = next, ![w].phase = to]
              \/ Leaves(w)
  <2>1. /\ job \in Job /\ JobInv(r, job) /\ calls[w] \in Call /\ job.phase = calls[w].phase
        /\ job.owner = w
        /\ job.phase = IF to = "ACQUIRING" THEN "READY"
                       ELSE IF to = "STAGED" THEN "ACQUIRING" ELSE "STAGED"
    BY <1>1, <1>3, CallFacts DEF Holds, At, CallInv, JobOf
  <2>2. to \in Phases /\ "none" \in Codes /\ job.attempts \in Nat
    BY <2>1, Literals DEF Codes, Job
  <2>3. /\ jobs' \in [Receipts -> Job] /\ \A q \in Receipts \ {r} : jobs'[q] = jobs[q]
        /\ jobs'[r].phase = to /\ jobs'[r].code = "none" /\ jobs'[r].lease = job.lease
        /\ jobs'[r].owner = job.owner /\ jobs'[r].base = job.base
        /\ jobs'[r].staged = (IF to = "STAGED" THEN "yes" ELSE job.staged)
        /\ jobs'[r].attempts = (IF to = "ACQUIRING" THEN job.attempts + 1 ELSE job.attempts)
        /\ jobs'[r] \in Job
    <3> DEFINE staged == IF to = "STAGED" THEN "yes" ELSE job.staged
               attempts == IF to = "ACQUIRING" THEN job.attempts + 1 ELSE job.attempts
    <3>1. staged \in {"no", "yes"} /\ attempts \in Nat
      BY <2>1, <2>2 DEF Job
    <3>2. jobs' = [jobs EXCEPT ![r] = [job EXCEPT !.phase = to, !.code = "none",
                                         !.staged = staged, !.attempts = attempts]]
      BY <1>3 DEF Write
    <3> HIDE DEF staged, attempts
    <3>3. /\ jobs' \in [Receipts -> Job] /\ \A q \in Receipts \ {r} : jobs'[q] = jobs[q]
          /\ jobs'[r].phase = to /\ jobs'[r].code = "none" /\ jobs'[r].lease = job.lease
          /\ jobs'[r].owner = job.owner /\ jobs'[r].base = job.base
          /\ jobs'[r].staged = staged /\ jobs'[r].attempts = attempts /\ jobs'[r] \in Job
      BY <1>1, <2>1, <2>2, <3>1, <3>2 DEF Inv, Jobs, Job
    <3> QED
      BY <3>3 DEF staged, attempts
  <2>4. JobInv(r, jobs'[r])
    <3>1. job.lease = "live" /\ job.owner = w /\ job.owner # None
      BY <1>3, NoneAssumption DEF Holds
    <3>2. CASE to = "ACQUIRING"
      BY <1>1, <2>1, <2>2, <2>3, <3>1, <3>2, Literals DEF JobInv
    <3>3. CASE to = "STAGED"
      BY <1>1, <2>1, <2>2, <2>3, <3>1, <3>3, Literals DEF JobInv
    <3>4. CASE to = "SUBMITTING"
      BY <1>1, <2>1, <2>2, <2>3, <3>1, <3>4, Literals DEF JobInv
    <3> QED
      BY <3>2, <3>3, <3>4
  <2>5. CASE Leaves(w)
    <3>1. Moves(w) /\ Alone' /\ CallInv(w, calls[w], jobs[JobOf(w)])'
      BY <2>5, LeavesKeeps, LeftInv, AloneKept
    <3> QED
      BY <1>1, <1>3, <2>1, <2>3, <2>4, <3>1, WriteKeeps
  <2>6. CASE calls' = [calls EXCEPT ![w].pc = next, ![w].phase = to]
    <3>1. /\ Moves(w) /\ calls'[w] \in Call /\ calls'[w].pc = next /\ calls'[w].phase = to
          /\ calls'[w].job = calls[w].job
      BY <2>1, <2>2, <2>6 DEF Inv, Calls, Call, Moves
    <3>2. Alone'
      <4>1. \A v \in Workers \ {w} : ~At(v, "idle") /\ JobOf(v) = r => calls[v].phase # "ACQUIRING"
        BY <1>1, <2>1, CallFacts DEF CallInv, At, JobOf, Inv, Alone
      <4> QED
        BY <3>1, <4>1 DEF Inv, Alone, Moves, At, JobOf
    <3>3. next = "fetch" => fetched[r] \in {"none", "failed"}
      BY <2>1 DEF JobInv
    <3>4. CallInv(w, calls[w], jobs[JobOf(w)])'
      <4>1. to \in {"STAGED", "SUBMITTING"} => jobs'[r].staged = "yes"
        BY <2>3, <2>4 DEF JobInv
      <4> QED
        BY <1>1, <2>1, <2>3, <3>1, <3>3, <4>1 DEF CallInv, JobOf
    <3> QED
      BY <1>1, <1>3, <2>1, <2>3, <2>4, <3>1, <3>2, <3>4, WriteKeeps
  <2> QED
    BY <1>3, <2>5, <2>6
<1> QED
  BY <1>1, <1>2, <1>3 DEF Checkpoint

\* The row after a claim whose acknowledgement arrives, or is lost.
ClaimedRow(job, o) == [job EXCEPT !.phase = Resumed(job), !.lease = "live", !.owner = o]

\* A row that is claimed becomes one that its worker, or nobody, may go on with.
LEMMA ClaimedInv ==
  ASSUME Inv, NEW js \in Journals, NEW r \in Receipts, Claimable(js[r]),
         NEW w \in Workers \cup {None}
  PROVE  LET job == ClaimedRow(js[r], w) IN
         /\ JobInv(r, job) /\ job \in Job /\ job.owner = w /\ job.phase \in Open
         /\ job.phase = Resumed(js[r])
         /\ job.base = js[r].base /\ job.staged = js[r].staged
         /\ js[r].owner = None /\ js[r].phase \in Open \cup {"FAILED"}
<1> DEFINE job == ClaimedRow(js[r], w)
<1>1. JobInv(r, js[r]) /\ js[r] \in Job
  BY JournalsInv DEF JobInv
<1>2. js[r].owner = None /\ js[r].phase \in Open \cup {"FAILED"}
  BY <1>1 DEF JobInv, Claimable
<1>3. Resumed(js[r]) \in Open
  BY <1>2, Literals DEF Resumed
<1>4. /\ job \in Job /\ job.phase = Resumed(js[r]) /\ job.lease = "live" /\ job.owner = w
      /\ job.base = js[r].base /\ job.staged = js[r].staged /\ job.attempts = js[r].attempts
      /\ job.code = js[r].code
  BY <1>1, <1>3, Literals DEF Job, ClaimedRow
<1> HIDE DEF job
<1>5. JobInv(r, job)
  <2>1. CASE js[r].phase # "FAILED"
    BY <1>1, <1>2, <1>4, <2>1, Literals DEF JobInv, Resumed
  <2>2. CASE js[r].phase = "FAILED"
    <3>1. js[r].attempts < MaxAttempts \/ js[r].staged = "yes"
      BY <1>1, <2>2, Literals DEF JobInv, Claimable, Job
    <3>2. fetched[r] \in {"none", "failed"} \/ js[r].staged = "yes"
      BY <1>1, <2>2, Literals DEF JobInv, Claimable, Job
    <3> QED
      BY <1>1, <1>4, <2>2, <3>1, <3>2, Literals DEF JobInv, Resumed, Job
  <2> QED
    BY <2>1, <2>2
<1> QED
  BY <1>2, <1>3, <1>4, <1>5 DEF job

\* Whoever worked on a row before the claim keeps what he may rely on.
LEMMA FormerKept ==
  ASSUME Inv, NEW js \in Journals, NEW r \in Receipts, Claimable(js[r]),
         NEW w \in Workers \cup {None}, NEW v \in Workers \ {w}, JobOf(v) = r
  PROVE  CallInv(v, calls[v], ClaimedRow(js[r], w))
<1> DEFINE job == ClaimedRow(js[r], w)
<1>1. CallInv(v, calls[v], js[r])
  BY JournalsInv
<1>2. /\ job.owner = w /\ job.phase \in Open /\ js[r].owner = None
      /\ job.base = js[r].base /\ job.staged = js[r].staged
      /\ js[r].phase \in Open \cup {"FAILED"}
  BY ClaimedInv
<1> HIDE DEF job
<1> QED
  BY <1>1, <1>2, NoneAssumption, Literals DEF CallInv, Records, job

LEMMA ClaimJobKeeps ==
  ASSUME Inv, NEW w \in Workers, NEW r \in Receipts, ClaimJob(w, r)
  PROVE  Inv'
<1>1. PICK js \in Journals :
        /\ Claimable(js[r])
        /\ LET job == [js[r] EXCEPT !.phase = Resumed(js[r]), !.lease = "live"] IN
           \/ NoFault /\ jobs' = [js EXCEPT ![r] = [job EXCEPT !.owner = w]]
              /\ calls' = [calls EXCEPT ![w] =
                   [Idle EXCEPT !.pc = "authorize", !.job = r, !.phase = job.phase]]
           \/ Fault /\ jobs' = [js EXCEPT ![r] = job] /\ UNCHANGED calls
  BY DEF ClaimJob
<1>2. At(w, "idle") /\ UNCHANGED <<source, submissions, ledger, fetched>> /\ (NoFault \/ Fault)
  BY <1>1 DEF ClaimJob
<1>3. /\ js \in [Receipts -> Job] /\ \A q \in Receipts : JobInv(q, js[q])
      /\ \A v \in Workers : CallInv(v, calls[v], js[JobOf(v)])
  BY JournalsInv
<1>4. Evidence
  BY <1>2, SameEvidence
<1>5. PICK o \in {w, None} :
        /\ jobs' = [js EXCEPT ![r] = ClaimedRow(js[r], o)]
        /\ \/ o = w /\ calls' = [calls EXCEPT ![w] =
                [Idle EXCEPT !.pc = "authorize", !.job = r, !.phase = Resumed(js[r])]]
           \/ o = None /\ UNCHANGED calls
  <2>1. js[r] \in Job /\ js[r].owner = None
    BY <1>1, <1>3 DEF JobInv, Claimable
  <2>2. ClaimedRow(js[r], None) = [js[r] EXCEPT !.phase = Resumed(js[r]), !.lease = "live"]
    BY <2>1 DEF Job, ClaimedRow
  <2>3. ClaimedRow(js[r], w) = [[js[r] EXCEPT !.phase = Resumed(js[r]), !.lease = "live"]
                                  EXCEPT !.owner = w]
    BY <2>1 DEF Job, ClaimedRow
  <2>4. [js[r] EXCEPT !.phase = Resumed(js[r]), !.lease = "live"].phase = Resumed(js[r])
    BY <2>1 DEF Job
  <2> QED
    BY <1>1, <2>2, <2>3, <2>4
<1> DEFINE new == ClaimedRow(js[r], o)
<1>6. /\ JobInv(r, new) /\ new \in Job /\ new.owner = o /\ new.phase \in Open
      /\ new.phase = Resumed(js[r])
  BY <1>1, ClaimedInv
<1>7. \A v \in Workers \ {o} : JobOf(v) = r => CallInv(v, calls[v], new)
  BY <1>1, FormerKept
<1> HIDE DEF new
<1>8. jobs' = [js EXCEPT ![r] = new]
  BY <1>5 DEF new
<1>9. Jobs'
  <2>1. ASSUME NEW q \in Receipts PROVE JobInv(q, jobs[q])'
    BY <1>2, <1>3, <1>6, <1>8 DEF JobInv
  <2> QED
    BY <1>3, <1>6, <1>8, <2>1 DEF Jobs
<1>10. calls' \in [Workers -> Call] /\ \A v \in Workers \ {w} : calls'[v] = calls[v]
  <2>1. [Idle EXCEPT !.pc = "authorize", !.job = r, !.phase = Resumed(js[r])] \in Call
    BY <1>6, Literals DEF Call, Idle, Pcs, Codes
  <2> QED
    BY <1>5, <2>1 DEF Inv, Calls
<1>11. ASSUME NEW v \in Workers \ {w} PROVE CallInv(v, calls[v], jobs[JobOf(v)])'
  <2>1. calls'[v] = calls[v] /\ calls[v].job \in Receipts
    BY <1>10, CallFacts
  <2>2. CallInv(v, calls[v], jobs'[calls[v].job])
    BY <1>3, <1>5, <1>7, <1>8, <2>1, NoneAssumption DEF JobOf
  <2> QED
    BY <1>2, <2>1, <2>2 DEF CallInv, Records, HasRead, JobOf
<1>12. CallInv(w, calls[w], jobs[JobOf(w)])'
  <2>1. CASE UNCHANGED calls
    BY <1>2, <2>1, CallFacts DEF CallInv, At
  <2>2. CASE calls' = [calls EXCEPT ![w] =
               [Idle EXCEPT !.pc = "authorize", !.job = r, !.phase = Resumed(js[r])]]
    <3>1. /\ calls'[w].pc = "authorize" /\ calls'[w].job = r /\ calls'[w] \in Call
          /\ calls'[w].phase = new.phase
      BY <1>6, <1>10, <2>2 DEF Inv, Calls, Idle
    <3>2. jobs'[r] = new
      BY <1>3, <1>8
    <3> QED
      BY <1>6, <3>1, <3>2, Literals DEF CallInv, JobOf, KnownPhases, JobInv
  <2> QED
    BY <1>5, <2>1, <2>2
<1>13. Calls'
  BY <1>10, <1>11, <1>12 DEF Calls
<1>14. Alone'
  <2>1. At(w, "idle")' \/ calls'[w].phase # "ACQUIRING"
    BY <1>2, <1>5, <1>6, Literals DEF At, Inv, Calls, Idle
  <2> QED
    BY <1>10, <2>1 DEF Inv, Alone, At, JobOf
<1> QED
  BY <1>4, <1>9, <1>13, <1>14 DEF Inv, Evidence

LEMMA ClaimNothingKeeps ==
  ASSUME Inv, NEW w \in Workers, ClaimNothing(w)
  PROVE  Inv'
<1>1. jobs' \in Journals /\ UNCHANGED <<source, submissions, ledger, calls, fetched, upsets>>
  BY DEF ClaimNothing
<1>2. PICK js \in Journals : jobs' = js
  BY <1>1
<1>3. /\ js \in [Receipts -> Job] /\ \A r \in Receipts : JobInv(r, js[r])
      /\ \A v \in Workers : CallInv(v, calls[v], js[JobOf(v)])
  BY JournalsInv
<1>4. Jobs'
  BY <1>1, <1>2, <1>3 DEF Jobs, JobInv
<1>5. Calls'
  BY <1>1, <1>2, <1>3 DEF Inv, Calls, CallInv, Records, HasRead, JobOf
<1> QED
  BY <1>1, <1>4, <1>5 DEF Inv, TablesTyped, Alone, At, JobOf

\* An expired lease tells its worker nothing.
LEMMA ExpireKeeps ==
  ASSUME Inv, NEW r \in Receipts, Expire(r)
  PROVE  Inv'
<1>1. /\ jobs[r].lease = "live" /\ jobs' = [jobs EXCEPT ![r].lease = "expired"]
      /\ UNCHANGED <<source, submissions, ledger, calls, fetched>> /\ (NoFault \/ Fault)
  BY DEF Expire
<1>2. Evidence
  BY <1>1, SameEvidence
<1>3. jobs[r] \in Job /\ JobInv(r, jobs[r])
  BY DEF Inv, Jobs
<1>4. /\ jobs' \in [Receipts -> Job] /\ \A q \in Receipts \ {r} : jobs'[q] = jobs[q]
      /\ jobs'[r] = [jobs[r] EXCEPT !.lease = "expired"]
  BY <1>1, <1>3 DEF Inv, Jobs, Job
<1>5. Jobs'
  <2>1. ASSUME NEW q \in Receipts PROVE JobInv(q, jobs[q])'
    BY <1>1, <1>3, <1>4 DEF JobInv, Job, Inv, Jobs
  <2> QED
    BY <1>4, <2>1 DEF Jobs
<1>6. Calls'
  <2>1. ASSUME NEW v \in Workers PROVE CallInv(v, calls[v], jobs[JobOf(v)])'
    BY <1>1, <1>3, <1>4, CallFacts DEF CallInv, Records, HasRead, JobOf, Job
  <2> QED
    BY <1>1, <2>1 DEF Inv, Calls
<1> QED
  BY <1>1, <1>2, <1>5, <1>6 DEF Inv, Alone, At, JobOf, Evidence

\* Steps of the rest of the system: no call and no row of the journal moves.
LEMMA OutsideKeeps ==
  ASSUME Inv, Evidence, UNCHANGED <<jobs, calls>>
  PROVE  Inv'
<1>1. Jobs'
  BY RowKept DEF Inv, Jobs
<1>2. Calls'
  BY CallKept DEF Inv, Calls, JobOf
<1> QED
  BY <1>1, <1>2 DEF Inv, Alone, At, JobOf, Evidence

LEMMA IntakeKeeps ==
  ASSUME Inv, NEW r \in Receipts, Intake(r)
  PROVE  Inv'
<1>1. UNCHANGED <<source, jobs, ledger, calls, fetched, upsets>>
  BY DEF Intake
<1>2. PICK s \in {"SUCCEEDED", "CANCELLED", "RUNNING"} :
        /\ submissions' = [submissions EXCEPT ![r] = s]
        /\ submissions[r] \in {"RUNNING", "INDETERMINATE", "CANCELLED"}
  BY Literals DEF Intake
<1>3. Evidence
  BY <1>1, <1>2, Literals DEF Evidence, Inv, TablesTyped
<1> QED
  BY <1>1, <1>3, OutsideKeeps

LEMMA EditKeeps ==
  ASSUME Inv, Edit
  PROVE  Inv'
<1>1. UNCHANGED <<jobs, submissions, ledger, calls, fetched, upsets>>
  BY DEF Edit
<1>2. source.version \in Nat /\ source.receipts \in Nat /\ source.edits \in Nat
      /\ source = [version |-> source.version, receipts |-> source.receipts,
                   traced |-> source.traced, edits |-> source.edits]
  BY DEF Inv, TablesTyped
<1>3. source' \in [version : Nat, receipts : Nat, traced : {"no", "yes"}, edits : Nat]
      /\ source.version <= source'.version
  <2>1. CASE \E v \in {source.version, source.version + 1} :
               source' = [version |-> v, receipts |-> source.receipts + 1, traced |-> "yes",
                          edits |-> source.edits + 1]
    BY <1>2, <2>1
  <2>2. CASE source' = [source EXCEPT !.version = @ + 1, !.traced = "no", !.edits = @ + 1]
    <3>1. source' = [version |-> source.version + 1, receipts |-> source.receipts,
                     traced |-> "no", edits |-> source.edits + 1]
      BY <1>2, <2>2
    <3> QED
      BY <1>2, <3>1
  <2> QED
    BY <2>1, <2>2 DEF Edit
<1>4. Evidence
  BY <1>1, <1>3 DEF Evidence, Inv, TablesTyped
<1> QED
  BY <1>1, <1>4, OutsideKeeps

-----------------------------------------------------------------------------
(* Part 5: the theorems                                                     *)

LEMMA DrainKeeps ==
  ASSUME Inv, NEW w \in Workers, Drain(w)
  PROVE  Inv'
<1>1. CASE Checkpoint(w, "acquire", "ACQUIRING", "fetch")
  BY <1>1, CheckpointKeeps DEF Pcs, KnownPhases
<1>2. CASE Checkpoint(w, "stage", "STAGED", "again")
  BY <1>2, CheckpointKeeps DEF Pcs, KnownPhases
<1>3. CASE Checkpoint(w, "submitting", "SUBMITTING", "submit")
  BY <1>3, CheckpointKeeps DEF Pcs, KnownPhases
<1> QED
  BY <1>1, <1>2, <1>3, AuthorizeKeeps, SettleKeeps, FetchKeeps, PrepareKeeps, SubmitKeeps,
     InsertKeeps, ProcessKeeps, ReadbackKeeps, RecordKeeps DEF Drain

LEMMA NextKeeps == Inv /\ [Next]_vars => Inv'
<1> SUFFICES ASSUME Inv, [Next]_vars PROVE Inv'
  OBVIOUS
<1>1. ASSUME NEW w \in Workers, Crash(w) PROVE Inv'
  BY <1>1, SameEvidence, LeavingKeeps DEF Crash
<1>2. CASE UNCHANGED vars
  BY <1>2, OutsideKeeps DEF vars, Evidence, Inv, TablesTyped
<1> QED
  BY <1>1, <1>2, ClaimJobKeeps, ClaimNothingKeeps, DrainKeeps, ExpireKeeps, IntakeKeeps,
     EditKeeps DEF Next

LEMMA InvHolds == Spec => []Inv
BY InitInv, NextKeeps, PTL DEF Spec

\* Every reachable state has the shape of the tables and of drainOnce's locals.
THEOREM TypesHold == Spec => []TypeOK
<1>1. Inv => TypeOK
  BY DEF Inv, TablesTyped, Jobs, Calls, TypeOK
<1> QED
  BY <1>1, InvHolds, PTL

\* No worker fetches a URL again whose acquisition may have succeeded, and none a
\* fourth time, whatever leases are lost on the way.
THEOREM NeverRefetchedHolds == Spec => []NeverRefetched
<1>1. Inv => NeverRefetched
  BY CallFacts DEF CallInv, JobInv, NeverRefetched, At, JobOf
<1> QED
  BY <1>1, InvHolds, PTL

\* A refresh that failed before its intake has none, also later.
THEOREM FailedIsCleanHolds == Spec => []FailedIsClean
<1>1. Inv => FailedIsClean
  <2> SUFFICES ASSUME Inv, NEW r \in Receipts, jobs[r].phase = "FAILED",
                      jobs[r].code \in {"fetch", "rejected", "changed"}
               PROVE  submissions[r] = "none"
    BY DEF FailedIsClean
  <2>1. JobInv(r, jobs[r])
    BY DEF Inv, Jobs
  <2> QED
    BY <2>1 DEF JobInv
<1> QED
  BY <1>1, InvHolds, PTL

\* A refresh that succeeded has its intake and its command completed for good.
THEOREM SucceededIsCommittedHolds == Spec => []SucceededIsCommitted
<1>1. Inv => SucceededIsCommitted
  BY DEF Inv, Jobs, JobInv, SucceededIsCommitted
<1> QED
  BY <1>1, InvHolds, PTL
=============================================================================
