-------------------------- MODULE ImportWorkerProofs --------------------------
(***************************************************************************)
(* Theorems about the polling workers (module ImportWorker), for any set   *)
(* of workers, jobs and lines and any limits.                              *)
(***************************************************************************)
EXTENDS ImportWorker, ProcessJobProofs, FiniteSets, FiniteSetTheorems

\* The table stays a table when one of its rows is replaced by a row.
LEMMA UpdateType ==
  ASSUME TypeOK, NEW w \in Workers, NEW row \in Row, Update(w, row)
  PROVE  jobs' \in [Jobs -> Row]
BY DEF TypeOK, Update

(***************************************************************************)
(* Types.                                                                  *)
(***************************************************************************)

\* Every call of process_job keeps the tables and its own state typed.
LEMMA ProcessType ==
  ASSUME TypeOK, NEW w \in Workers, Call(w)
  PROVE  TypeOK'
<1>1. TablesTyped'
  BY ProcessTables DEF TypeOK, TablesTyped, Call, Workers
<1>2. UNCHANGED <<job, final, selected, crashes>>
  BY ProcessLocals DEF Call
<1>3. pc' \in [Workers -> PCs]
  BY ProcessLocals DEF TypeOK, Call, PCs
<1> QED BY <1>1, <1>2, <1>3 DEF TypeOK, TablesTyped

\* The program never leaves the types: Spec => []TypeOK.
LEMMA TypeStep ==
  ASSUME TypeOK, [Next]_vars
  PROVE  TypeOK'
<1> USE MaxCrashesAssumption, LimitsAssumption
<1>1. ASSUME NEW w \in Workers, SelectCandidate(w)
      PROVE  TypeOK'
  BY <1>1 DEF TypeOK, SelectCandidate, Goto, PCs, Candidates, IsCandidate, Row,
     tables
<1>2. ASSUME NEW w \in Workers, ClaimSelected(w)
      PROVE  TypeOK'
  <2>1. jobs' \in [Jobs -> Row]
    <3>1. RowOf(w) \in Row
      BY DEF RowOf, TypeOK
    <3>2. Lock(RowOf(w), w) \in Row
      BY <3>1, RowOperators DEF Workers
    <3> QED BY <1>2, <3>2, UpdateType DEF ClaimSelected, TypeOK
  <2>2. pc' \in [Workers -> PCs]
    BY <1>2 DEF ClaimSelected, TypeOK, Goto, PCs, Phases
  <2>3. final' \in [Workers -> BOOLEAN]
    <3>1. (selected[w] + 1 >= MaxAttempts) \in BOOLEAN
      OBVIOUS
    <3> QED BY <1>2, <3>1, Zenon DEF ClaimSelected, IsFinalAttempt, TypeOK
  <2>4. selected' \in [Workers -> 0 .. MaxAttempts - 1]
    BY <1>2 DEF ClaimSelected, TypeOK
  <2>5. UNCHANGED <<pdf, drafts, committed, job, crashes>>
    BY <1>2 DEF ClaimSelected
  <2> QED BY <2>1, <2>2, <2>3, <2>4, <2>5 DEF TypeOK
<1>3. ASSUME NEW w \in Workers, Call(w)
      PROVE  TypeOK'
  BY <1>3, ProcessType
<1>4. ASSUME NEW w \in Workers, Crash(w)
      PROVE  TypeOK'
  BY <1>4 DEF TypeOK, Crash, Goto, PCs, tables
<1>5. ASSUME NEW w \in Workers, Restart(w)
      PROVE  TypeOK'
  BY <1>5 DEF TypeOK, Restart, Goto, PCs, tables
<1>6. CASE Environment
  <2>1. CASE \E j \in Jobs : Upload(j) /\ UNCHANGED <<selected, crashes>>
    <3>1. CreatePending \in Row
      BY NewRows
    <3> QED BY <2>1, <3>1 DEF TypeOK, Upload, locals
  <2>2. CASE \E j \in Jobs : LockAges(j) /\ UNCHANGED <<selected, crashes>>
    <3>1. \A j \in Jobs : Age(jobs[j]) \in Row
      BY RowOperators DEF TypeOK
    <3> QED BY <2>2, <3>1 DEF TypeOK, LockAges, locals
  <2>3. ASSUME NEW j \in Jobs, NEW l \in Lines, UNCHANGED <<selected, crashes>>,
               AcceptDraft(j, l) \/ ReopenDraft(j, l) \/ DeleteTransaction(j, l)
        PROVE  TypeOK'
    <3>1. drafts[j][l] \in Nat /\ committed[j][l] \in Nat
      BY DEF TypeOK
    <3>2. CASE AcceptDraft(j, l)
      BY <2>3, <3>1, <3>2 DEF TypeOK, AcceptDraft, locals
    <3>3. CASE ReopenDraft(j, l)
      BY <2>3, <3>1, <3>3 DEF TypeOK, ReopenDraft, locals
    <3>4. CASE DeleteTransaction(j, l)
      <4>1. CASE drafts[j][l] > 0 /\ drafts' = [drafts EXCEPT ![j][l] = @ - 1]
                 /\ UNCHANGED committed
        BY <2>3, <3>1, <3>4, <4>1 DEF TypeOK, DeleteTransaction, locals
      <4>2. CASE committed[j][l] > 0
                 /\ committed' = [committed EXCEPT ![j][l] = @ - 1]
                 /\ UNCHANGED drafts
        BY <2>3, <3>1, <3>4, <4>2 DEF TypeOK, DeleteTransaction, locals
      <4> QED BY <3>4, <4>1, <4>2 DEF DeleteTransaction
    <3> QED BY <2>3, <3>2, <3>3, <3>4
  <2> QED
    BY <1>6, <2>1, <2>2, <2>3 DEF Environment, UserStep
<1>7. CASE UNCHANGED vars
  BY <1>7 DEF vars, tables, locals, TypeOK
<1> QED
  BY <1>1, <1>2, <1>3, <1>4, <1>5, <1>6, <1>7 DEF Next, Poll

LEMMA TypeInit == Init => TypeOK
BY LimitsAssumption, MaxCrashesAssumption
   DEF Init, TypeOK, NoRow, Row, Statuses, Steps, Errors, Active, Terminal,
       NoLines, PCs

\* Type correctness of the tables and of every worker's local state.
THEOREM TypeCorrect == Spec => []TypeOK
BY TypeInit, TypeStep, PTL DEF Spec

(***************************************************************************)
(* Rows.  What a worker may do to a row depends on what it knows of it,    *)
(* even if it has been superseded: the row it selected or claimed still    *)
(* exists and its attempts have not gone down since.                       *)
(***************************************************************************)
InCall == Phases \ Outcomes

WorkerKnows(w) ==
  /\ pc[w] = "selected" =>
       Exists(RowOf(w)) /\ selected[w] <= RowOf(w).attempts
  /\ pc[w] \in InCall =>
       /\ Exists(RowOf(w)) /\ RowOf(w).attempts > 0
       /\ final[w] => RowOf(w).attempts >= MaxAttempts
  /\ pc[w] = "interrupting" => final[w]

RowInv(r) ==
  /\ RowConsistent(r)
  /\ ~Exists(r) => r.attempts = 0
  /\ r.error \in GivenUp => r.attempts >= MaxAttempts

RowsInv ==
  /\ TypeOK
  /\ \A j \in Jobs : RowInv(jobs[j])
  /\ \A w \in Workers : WorkerKnows(w)

\* The ways a row changes, from r to s, in one step of the system.
SameClaim(r, s) ==
  /\ s.status = r.status /\ s.attempts = r.attempts
  /\ s.lockedBy = r.lockedBy /\ s.lockedAt = r.lockedAt
  /\ s.finishedAt = r.finishedAt /\ s.error = r.error
  /\ s.metadata = r.metadata

RowChange(r, s) ==
  \/ SameClaim(r, s)
  \/ ~Exists(r) /\ s = CreatePending
  \/ \E w \in Workers : r.status \in Active /\ s = Lock(r, w)
  \/ r.attempts > 0 /\ (s = SaveResult(r) \/ s = MarkPendingForRetry(r))
  \/ s = MarkFailed(r, "file rejected")
  \/ r.attempts >= MaxAttempts /\ \E e \in GivenUp : s = MarkFailed(r, e)
  \/ r.status = "processing" /\ s = Age(r)

\* Such a change keeps the row's invariant.
LEMMA RowChangeSafe ==
  ASSUME NEW r \in Row, NEW s \in Row, RowInv(r), RowChange(r, s)
  PROVE  RowInv(s)
<1>0. r.attempts \in Nat /\ r.attempts + 1 > 0
  BY DEF Row
<1> USE DEF RowInv, RowConsistent, Exists, Active, Terminal
<1>1. r.attempts \in Nat /\ MaxAttempts \in Nat /\ NoOwner \notin Workers
  BY LimitsAssumption, NoOwnerAssumption DEF Row, Workers
<1>2. /\ "none" \notin GivenUp /\ "Temporary processing failure" \notin GivenUp
      /\ "file rejected" \notin GivenUp
  BY DEF GivenUp
<1>3. s = r => RowInv(s)
  BY <1>1
<1>4. CASE SameClaim(r, s)
  BY <1>1, <1>4 DEF SameClaim
<1>5. CASE ~Exists(r) /\ s = CreatePending
  <2>1. /\ s.status = "pending" /\ s.attempts = 0 /\ s.lockedBy = NoOwner
        /\ s.lockedAt = "null" /\ s.finishedAt = "null" /\ s.error = "none"
    BY <1>5 DEF CreatePending, NoRow
  <2> QED BY <1>1, <1>2, <1>5, <2>1
<1>6. ASSUME NEW w \in Workers, r.status \in Active, s = Lock(r, w)
      PROVE  RowInv(s)
  <2>1. /\ s.status = "processing" /\ s.attempts = r.attempts + 1
        /\ s.lockedBy = w /\ s.lockedAt = "recent"
        /\ s.finishedAt = r.finishedAt /\ s.error = "none"
    BY <1>6 DEF Lock, CountAttempt, Row
  <2>2. w # NoOwner
    BY <1>1, <1>6
  <2>3. s.attempts > 0
    BY <1>0, <2>1
  <2>4. r.finishedAt # "set"
    BY <1>6
  <2>5. RowConsistent(s)
    BY <2>1, <2>2, <2>3, <2>4
  <2> QED BY <1>2, <2>1, <2>5
<1>7. CASE r.attempts > 0 /\ s = SaveResult(r) /\ Exists(r)
  <2>1. /\ s.status = "done" /\ s.attempts = r.attempts /\ s.lockedBy = NoOwner
        /\ s.lockedAt = "null" /\ s.finishedAt = "set" /\ s.error = "none"
        /\ s.metadata
    BY <1>7, SavedColumns
  <2> QED BY <1>1, <1>2, <1>7, <2>1
<1>8. CASE r.attempts > 0 /\ s = MarkPendingForRetry(r) /\ Exists(r)
  <2>1. /\ s.status = "pending" /\ s.attempts = r.attempts
        /\ s.lockedBy = NoOwner /\ s.lockedAt = "null" /\ s.finishedAt = "null"
        /\ s.error = "Temporary processing failure"
    BY <1>8 DEF MarkPendingForRetry, Unlock, Row
  <2> QED BY <1>1, <1>2, <1>8, <2>1
<1>9. ASSUME NEW e, s = MarkFailed(r, e), Exists(r),
             e \notin {"none", "Temporary processing failure"},
             e \in GivenUp => r.attempts >= MaxAttempts
      PROVE  RowInv(s)
  <2>1. /\ s.status = "failed" /\ s.attempts = r.attempts
        /\ s.lockedBy = NoOwner /\ s.lockedAt = "null"
        /\ s.finishedAt = "set" /\ s.error = e
    BY <1>9 DEF MarkFailed, Unlock, Row
  <2> QED BY <1>1, <1>9, <2>1
<1>10. CASE r.status = "processing" /\ s = Age(r)
  <2>1. /\ s.status = "processing" /\ s.attempts = r.attempts
        /\ s.lockedBy = r.lockedBy /\ s.lockedAt = "old"
        /\ s.finishedAt = r.finishedAt /\ s.error = r.error
    BY <1>10 DEF Age, Row
  <2> QED BY <1>1, <1>10, <2>1
<1>11. CASE r.attempts > 0 /\ (s = SaveResult(r) \/ s = MarkPendingForRetry(r))
  BY <1>3, <1>7, <1>8, <1>11, SavedColumns DEF MarkPendingForRetry
<1>12. CASE s = MarkFailed(r, "file rejected")
  <2>1. CASE Exists(r)
    BY <1>2, <1>9, <1>12, <2>1
  <2>2. CASE ~Exists(r)
    <3>1. s = r
      BY <1>12, <2>2 DEF MarkFailed
    <3> QED BY <1>3, <3>1
  <2> QED BY <2>1, <2>2
<1>13. ASSUME r.attempts >= MaxAttempts, NEW e \in GivenUp, s = MarkFailed(r, e)
       PROVE  RowInv(s)
  BY <1>2, <1>3, <1>9, <1>13 DEF MarkFailed
<1> QED
  BY <1>4, <1>5, <1>6, <1>10, <1>11, <1>12, <1>13 DEF RowChange

\* Such a change never removes a row and never takes an attempt back.
LEMMA RowChangeMonotone ==
  ASSUME NEW r \in Row, NEW s \in Row, RowInv(r), RowChange(r, s)
  PROVE  s.attempts >= r.attempts /\ (Exists(r) => Exists(s))
<1>1. r.attempts \in Nat
  BY DEF Row
<1>2. /\ \A w : Lock(r, w).status = "processing"
      /\ \A w : Lock(r, w).attempts = r.attempts + 1
  BY DEF Lock, CountAttempt, Row
<1>3. ASSUME Exists(r)
      PROVE  /\ SaveResult(r).status = "done" /\ MarkPendingForRetry(r).status = "pending"
             /\ \A e : MarkFailed(r, e).status = "failed"
             /\ SaveResult(r).attempts = r.attempts
             /\ MarkPendingForRetry(r).attempts = r.attempts
             /\ \A e : MarkFailed(r, e).attempts = r.attempts
  BY <1>3, SavedColumns DEF MarkPendingForRetry, MarkFailed, Unlock, Row
<1>4. ASSUME ~Exists(r)
      PROVE  SaveResult(r) = r /\ MarkPendingForRetry(r) = r
             /\ \A e : MarkFailed(r, e) = r
  BY <1>4, SavedColumns DEF MarkPendingForRetry, MarkFailed
<1>5. Age(r).status = r.status /\ Age(r).attempts = r.attempts
  BY DEF Age, Row
<1>6. ~Exists(r) => r.attempts = 0
  BY DEF RowInv
<1>7. CreatePending.status = "pending" /\ CreatePending.attempts = 0
  BY DEF CreatePending, NoRow
<1>8. s.attempts >= r.attempts
  <2>1. CASE SameClaim(r, s)
    BY <1>1, <2>1 DEF SameClaim
  <2>2. CASE ~Exists(r) /\ s = CreatePending
    BY <1>6, <1>7, <2>2
  <2>3. CASE \E w \in Workers : r.status \in Active /\ s = Lock(r, w)
    BY <1>1, <1>2, <2>3
  <2>4. CASE s = r \/ s.attempts = r.attempts
    BY <1>1, <2>4
  <2> QED BY <1>3, <1>4, <1>5, <2>1, <2>2, <2>3, <2>4 DEF RowChange
<1>9. Exists(r) => Exists(s)
  BY <1>2, <1>3, <1>5, <1>7 DEF RowChange, SameClaim, Exists, GivenUp
<1> QED BY <1>8, <1>9

\* Every step of the system changes every row in one of these ways.
LEMMA StepRowChange ==
  ASSUME RowsInv, [Next]_vars, NEW j \in Jobs
  PROVE  RowChange(jobs[j], jobs'[j])
<1> DEFINE Unchanged == jobs'[j] = jobs[j]
<1>1. Unchanged => RowChange(jobs[j], jobs'[j])
  BY DEF RowChange, SameClaim
<1>2. ASSUME NEW w \in Workers, NEW row, Update(w, row)
      PROVE  Unchanged \/ (job[w] = j /\ jobs'[j] = row)
  BY <1>2 DEF Update, RowsInv, TypeOK
<1>3. ASSUME NEW w \in Workers, ClaimSelected(w)
      PROVE  RowChange(jobs[j], jobs'[j])
  <2>1. \/ Unchanged
        \/ /\ ClaimNextMatches(RowOf(w)) /\ job[w] = j
           /\ jobs'[j] = Lock(RowOf(w), w)
    BY <1>2, <1>3 DEF ClaimSelected
  <2> QED BY <1>1, <2>1 DEF RowChange, ClaimNextMatches, RowOf
<1>4. ASSUME NEW w \in Workers, Call(w)
      PROVE  RowChange(jobs[j], jobs'[j])
  <2> USE <1>4 DEF RowOf
  <2>1. CASE LoadJob(w) \/ ReadPdf(w) \/ AgentReturns(w) \/ CheckCommitted(w)
             \/ RaiseTemporary(w) \/ CleanUp(w)
    BY <1>1, <2>1 DEF LoadJob, ReadPdf, AgentReturns, CheckCommitted,
       RaiseTemporary, CleanUp, tables
  <2>2. CASE ClaimById(w)
    BY <1>1, <1>2, <2>2 DEF ClaimById, ClaimByIdMatches, RowChange, Active
  <2>3. CASE CloseInterrupted(w)
    <3>1. RowOf(w).attempts >= MaxAttempts
      BY <2>3 DEF CloseInterrupted, RowsInv, WorkerKnows, InCall, Phases, Outcomes
    <3> QED BY <1>1, <1>2, <2>3, <3>1 DEF CloseInterrupted, RowChange, GivenUp
  <2>4. ASSUME NEW r \in Row, NEW s \in Steps
        PROVE  /\ SameClaim(r, MarkStep(r, s))
               /\ SameClaim(r, MarkStep(SaveAgentInput(r), s))
               /\ SameClaim(r, MarkStep(SaveAgentOutput(r), s))
    BY DEF SameClaim, MarkStep, SaveAgentInput, SaveAgentOutput, Row, Exists
  <2>5. jobs[j] \in Row /\ {"Processing started", "Reading PDF with agent",
          "agent progress", "Validating transactions"} \subseteq Steps
    BY DEF RowsInv, TypeOK, Steps
  <2>6. CASE Start(w)
    BY <1>1, <1>2, <2>4, <2>5, <2>6 DEF Start, RowChange
  <2>7. CASE SaveInput(w)
    BY <1>1, <1>2, <2>4, <2>5, <2>7 DEF SaveInput, RowChange
  <2>8. CASE AgentProgress(w)
    BY <1>1, <1>2, <2>4, <2>5, <2>8 DEF AgentProgress, RowChange
  <2>9. CASE SaveOutput(w)
    BY <1>1, <1>2, <2>4, <2>5, <2>9 DEF SaveOutput, RowChange
  <2>10. pc[w] \in InTry \cup Handlers => RowOf(w).attempts > 0
    BY DEF RowsInv, WorkerKnows, InCall, Phases, Working, InTry, Handlers, Outcomes
  <2>11. CASE SaveDrafts(w)
    BY <1>1, <1>2, <2>10, <2>11 DEF SaveDrafts, RowChange, InTry
  <2>12. CASE Reject(w)
    BY <1>1, <1>2, <2>12 DEF Reject, RowChange
  <2>13. CASE RequeueOrFail(w)
    <3>1. final[w] => RowOf(w).attempts >= MaxAttempts
      BY <2>13 DEF RequeueOrFail, RowsInv, WorkerKnows, InCall, Phases, Working,
         Handlers, Outcomes
    <3> QED
      BY <1>1, <1>2, <2>10, <2>13, <3>1
         DEF RequeueOrFail, RowChange, GivenUp, Handlers
  <2> QED
    BY <2>1, <2>2, <2>3, <2>6, <2>7, <2>8, <2>9, <2>11, <2>12, <2>13
       DEF Call, ProcessStep, Advance
<1>5. ASSUME NEW k \in Jobs, Upload(k)
      PROVE  RowChange(jobs[j], jobs'[j])
  <2>1. ~Exists(jobs[k])
    BY <1>5, JobsAssumption DEF Upload
  <2> QED BY <1>1, <1>5, <2>1 DEF Upload, RowChange, RowsInv, TypeOK
<1>6. ASSUME NEW k \in Jobs, LockAges(k)
      PROVE  RowChange(jobs[j], jobs'[j])
  BY <1>1, <1>6 DEF LockAges, RowChange, RowsInv, TypeOK
<1>7. CASE UNCHANGED jobs
  BY <1>1, <1>7
<1> QED
  BY <1>3, <1>4, <1>5, <1>6, <1>7
     DEF Next, Poll, SelectCandidate, Crash, Restart, Environment, UserStep,
         AcceptDraft, ReopenDraft, DeleteTransaction, vars, tables

\* The row a worker knows of stays at least what the worker knows.
LEMMA KnowledgeStep ==
  ASSUME RowsInv, [Next]_vars, NEW v \in Workers
  PROVE  WorkerKnows(v)'
<1> DEFINE r == jobs[job[v]]
           s == jobs'[job[v]]
<1>1. r \in Row /\ s \in Row /\ RowInv(r)
  BY TypeStep DEF RowsInv, TypeOK
<1>2. s.attempts >= r.attempts /\ (Exists(r) => Exists(s))
  BY <1>1, StepRowChange, RowChangeMonotone DEF RowsInv, TypeOK
<1>3. r.attempts \in Nat /\ s.attempts \in Nat /\ MaxAttempts \in Nat \ {0}
      /\ selected[v] \in Nat
  BY <1>1, LimitsAssumption DEF Row, RowsInv, TypeOK
<1>4. WorkerKnows(v)
  BY DEF RowsInv
<1> HIDE DEF r, s
<1>5. CASE /\ job'[v] = job[v]
           /\ pc'[v] = "selected" => pc[v] = "selected" /\ selected'[v] = selected[v]
           /\ pc'[v] \in InCall => pc[v] \in InCall /\ final'[v] = final[v]
           /\ pc'[v] = "interrupting" => pc[v] = "interrupting" \/ final[v]
  <2>1. pc'[v] = "selected" => Exists(s) /\ selected'[v] <= s.attempts
    BY <1>2, <1>3, <1>4, <1>5 DEF WorkerKnows, RowOf, r
  <2>2. pc'[v] \in InCall => Exists(s) /\ s.attempts > 0
    BY <1>2, <1>3, <1>4, <1>5 DEF WorkerKnows, RowOf, r
  <2>3. ASSUME pc'[v] \in InCall, final'[v]
        PROVE  s.attempts >= MaxAttempts
    <3>1. r.attempts >= MaxAttempts
      BY <1>4, <1>5, <2>3 DEF WorkerKnows, RowOf, r
    <3> QED BY <1>2, <1>3, <3>1
  <2>4. "interrupting" \in InCall
    BY DEF InCall, Phases, Outcomes
  <2>5. pc'[v] = "interrupting" => final'[v]
    BY <1>4, <1>5, <2>4 DEF WorkerKnows
  <2> QED BY <1>5, <2>1, <2>2, <2>3, <2>5 DEF WorkerKnows, RowOf, s
<1>6. ASSUME NEW w \in Workers, w # v, Poll(w) \/ Call(w) \/ Crash(w) \/ Restart(w)
      PROVE  WorkerKnows(v)'
  <2>1. UNCHANGED <<job[v], pc[v], selected[v], final[v]>>
    BY <1>6 DEF RowsInv, TypeOK, Poll, SelectCandidate, ClaimSelected, Call,
       ProcessStep, Advance, LoadJob, ClaimById, CloseInterrupted, Start,
       SaveInput, ReadPdf, AgentProgress, AgentReturns, SaveOutput,
       CheckCommitted, SaveDrafts, RaiseTemporary, Reject, RequeueOrFail,
       CleanUp, Crash, Restart, Goto, Return, locals
  <2> QED BY <1>5, <2>1
<1>7. CASE Environment \/ UNCHANGED vars
  <2>1. UNCHANGED <<job, pc, selected, final>>
    BY <1>7 DEF Environment, UserStep, Upload, AcceptDraft, ReopenDraft,
       DeleteTransaction, LockAges, locals, vars
  <2> QED BY <1>5, <2>1
<1>8. CASE Call(v)
  <2>1. UNCHANGED <<job, selected, final>>
    BY <1>8 DEF Call, ProcessStep, Advance, LoadJob, ClaimById,
       CloseInterrupted, Start, SaveInput, ReadPdf, AgentProgress,
       AgentReturns, SaveOutput, CheckCommitted, SaveDrafts, RaiseTemporary,
       Reject, RequeueOrFail, CleanUp, locals
  <2>2. pc[v] \in InCall /\ pc'[v] # "selected"
    BY <1>8 DEF RowsInv, TypeOK, Call, ProcessStep, Advance, LoadJob, ClaimById,
       CloseInterrupted, Start, SaveInput, ReadPdf, AgentProgress,
       AgentReturns, SaveOutput, CheckCommitted, SaveDrafts, RaiseTemporary,
       Reject, RequeueOrFail, CleanUp, locals, Goto, Return, InCall, Phases,
       Working, InTry, Handlers, Outcomes
  <2>3. pc'[v] = "interrupting" => final[v]
    BY <1>8 DEF RowsInv, TypeOK, Call, ProcessStep, Advance, LoadJob, ClaimById,
       CloseInterrupted, Start, SaveInput, ReadPdf, AgentProgress,
       AgentReturns, SaveOutput, CheckCommitted, SaveDrafts, RaiseTemporary,
       Reject, RequeueOrFail, CleanUp, locals, Goto, Return
  <2> QED BY <1>5, <2>1, <2>2, <2>3
<1>9. CASE SelectCandidate(v)
  <2>1. PICK j \in Jobs : /\ IsCandidate(jobs[j]) /\ job' = [job EXCEPT ![v] = j]
                          /\ selected' = [selected EXCEPT ![v] = jobs[j].attempts]
    BY <1>9 DEF SelectCandidate, Candidates
  <2>2. pc'[v] = "selected" /\ job'[v] = j /\ jobs' = jobs
        /\ selected'[v] = jobs[j].attempts
    BY <1>9, <2>1 DEF SelectCandidate, Goto, RowsInv, TypeOK, tables
  <2>3. Exists(jobs[j]) /\ jobs[j].attempts \in Nat
    BY <2>1 DEF IsCandidate, Exists, RowsInv, TypeOK, Row
  <2>4. "selected" \notin InCall
    BY DEF InCall, Phases, Working, InTry, Handlers, Outcomes
  <2> QED BY <2>2, <2>3, <2>4 DEF WorkerKnows, RowOf
<1>10. CASE ClaimSelected(v)
  <2>1. CASE ~ClaimNextMatches(RowOf(v))
    <3>1. pc'[v] = "polling"
      BY <1>10, <2>1 DEF ClaimSelected, Goto, RowsInv, TypeOK
    <3> QED BY <3>1 DEF WorkerKnows, InCall, Phases, Working, InTry, Handlers,
               Outcomes
  <2>2. CASE ClaimNextMatches(RowOf(v))
    <3>1. /\ pc'[v] = "loading_job" /\ job' = job /\ s = Lock(r, v)
          /\ final'[v] = (selected[v] + 1 >= MaxAttempts)
      BY <1>10, <2>2 DEF ClaimSelected, IsFinalAttempt, Goto, Update, RowOf, RowsInv, TypeOK, r, s
    <3>2. s.status = "processing" /\ s.attempts = r.attempts + 1
      BY <1>1, <3>1 DEF Lock, CountAttempt, Row
    <3>3. selected[v] <= r.attempts
      BY <1>4, <1>10 DEF ClaimSelected, WorkerKnows, RowOf, r
    <3>4. ASSUME final'[v]
          PROVE  s.attempts >= MaxAttempts
      <4>1. selected[v] + 1 >= MaxAttempts
        BY <3>1, <3>4, Zenon
      <4> QED BY <1>3, <3>2, <3>3, <4>1
    <3>5. Exists(s) /\ s.attempts > 0
      BY <1>3, <3>2 DEF Exists
    <3> QED BY <3>1, <3>4, <3>5 DEF WorkerKnows, RowOf, s
  <2> QED BY <2>1, <2>2
<1>11. CASE Crash(v) \/ Restart(v)
  <2>1. pc'[v] \in {"down", "polling"}
    BY <1>11 DEF Crash, Restart, Goto, RowsInv, TypeOK
  <2> QED BY <2>1 DEF WorkerKnows, InCall, Phases, Working, InTry, Handlers,
             Outcomes
<1> QED
  BY <1>6, <1>7, <1>8, <1>9, <1>10, <1>11 DEF Next, Poll

LEMMA RowsStep ==
  ASSUME RowsInv, [Next]_vars
  PROVE  RowsInv'
<1>1. TypeOK'
  BY TypeStep DEF RowsInv
<1>2. ASSUME NEW j \in Jobs PROVE RowInv(jobs'[j])
  <2>1. jobs[j] \in Row /\ jobs'[j] \in Row /\ RowInv(jobs[j])
    BY <1>1 DEF RowsInv, TypeOK
  <2>2. RowChange(jobs[j], jobs'[j])
    BY StepRowChange
  <2> QED BY <2>1, <2>2, RowChangeSafe
<1>3. \A w \in Workers : WorkerKnows(w)'
  BY KnowledgeStep
<1> QED BY <1>1, <1>2, <1>3 DEF RowsInv

LEMMA RowsInit == Init => RowsInv
<1> SUFFICES ASSUME Init PROVE RowsInv
  OBVIOUS
<1>1. RowInv(NoRow)
  BY DEF RowInv, RowConsistent, NoRow, Exists, Terminal, GivenUp
<1>2. \A w \in Workers : WorkerKnows(w)
  BY DEF Init, WorkerKnows, InCall, Phases, Working, InTry, Handlers, Outcomes
<1> QED BY <1>1, <1>2, TypeInit DEF Init, RowsInv

\* The inductive invariant: rows agree with themselves and count every
\* attempt a worker can know of (import_jobs.py:106-309, main.py:286-310).
THEOREM RowsInvariant == Spec => []RowsInv
BY RowsInit, RowsStep, PTL DEF Spec

\* Whatever the number of workers and however late they write, the columns
\* of every row agree (import_jobs.py:106-309).
THEOREM RowsAlwaysConsistent == Spec => []RowsConsistent
<1>1. RowsInv => RowsConsistent
  BY DEF RowsInv, RowInv, RowsConsistent
<1> QED BY <1>1, RowsInvariant, PTL

\* A job is closed as a retry failure only after MaxAttempts attempts, even
\* by a worker whose own count is out of date (main.py:79, 250, 309).
THEOREM NeverGivenUpEarly == Spec => []GivenUpAfterAllAttempts
<1>1. RowsInv => GivenUpAfterAllAttempts
  BY DEF RowsInv, RowInv, GivenUpAfterAllAttempts
<1> QED BY <1>1, RowsInvariant, PTL

(***************************************************************************)
(* Locks.                                                                  *)
(***************************************************************************)

\* What an action does to the lock on j: it keeps it, gives it up, or gives
\* it to a worker that now holds j.
KeepsLock(j) ==
  jobs'[j].status = jobs[j].status /\ jobs'[j].lockedBy = jobs[j].lockedBy

GivesLock(j) ==
  \E w \in Workers : jobs'[j].lockedBy = w /\ Holds(w, j)'

\* A worker leaves the phases in which it may hold a lock only after it has
\* read that the lock is not its own, or has given it up.
LEMMA CallLock ==
  ASSUME RowsInv, NEW w \in Workers, Call(w), NEW j \in Jobs,
         jobs'[j].status = "processing"
  PROVE  \/ GivesLock(j)
         \/ KeepsLock(j) /\ (Holds(w, j) /\ jobs[j].lockedBy = w => Holds(w, j)')
<1> DEFINE r == jobs[j]
           s == jobs'[j]
<1>1. r \in Row /\ pc \in [Workers -> PCs] /\ job \in [Workers -> Jobs]
      /\ jobs \in [Jobs -> Row]
  BY DEF RowsInv, TypeOK
<1>2. job' = job
  BY DEF Call, ProcessStep, Advance, LoadJob, ClaimById, CloseInterrupted,
     Start, SaveInput, ReadPdf, AgentProgress, AgentReturns, SaveOutput,
     CheckCommitted, SaveDrafts, RaiseTemporary, Reject, RequeueOrFail,
     CleanUp, locals
<1>3. ASSUME NEW row, Update(w, row)
      PROVE  s = r \/ (job[w] = j /\ s = row)
  BY <1>1, <1>3 DEF Update
<1>4. \A step : /\ SameClaim(r, MarkStep(r, step))
                /\ SameClaim(r, MarkStep(SaveAgentInput(r), step))
                /\ SameClaim(r, MarkStep(SaveAgentOutput(r), step))
  BY <1>1 DEF SameClaim, MarkStep, SaveAgentInput, SaveAgentOutput, Row, Exists
<1>5. CASE LoadJob(w)
  BY <1>1, <1>2, <1>5 DEF LoadJob, KeepsLock, Holds, Holding, RowOf, Goto, Return,
     Terminal, tables
<1>6. CASE ClaimById(w)
  <2>1. CASE ~ClaimByIdMatches(RowOf(w))
    BY <1>6, <2>1 DEF ClaimById, KeepsLock, Holds, Holding, InTry, Handlers
  <2>2. CASE ClaimByIdMatches(RowOf(w))
    <3>1. pc'[w] = "starting"
      BY <1>1, <1>6, <2>2 DEF ClaimById, Goto
    <3>2. CASE job[w] = j /\ s = Lock(r, w)
      <4>1. s.lockedBy = w
        BY <1>1, <3>2 DEF Lock, CountAttempt, Row
      <4> QED BY <1>2, <3>1, <3>2, <4>1 DEF GivesLock, Holds, Holding
    <3>3. CASE s = r
      BY <1>6, <3>3 DEF ClaimById, KeepsLock, Holds, Holding, InTry, Handlers
    <3> QED BY <1>3, <1>6, <2>2, <3>2, <3>3 DEF ClaimById, RowOf
  <2> QED BY <2>1, <2>2
<1>7. CASE ReadPdf(w) \/ AgentReturns(w) \/ CheckCommitted(w) \/ RaiseTemporary(w)
  BY <1>1, <1>2, <1>7 DEF ReadPdf, AgentReturns, CheckCommitted, RaiseTemporary,
     KeepsLock, Holds, Holding, InTry, Handlers, Goto, tables
<1>8. CASE Start(w) \/ SaveInput(w) \/ AgentProgress(w) \/ SaveOutput(w)
  <2>1. s = r \/ SameClaim(r, s)
    BY <1>3, <1>4, <1>8 DEF Start, SaveInput, AgentProgress, SaveOutput, RowOf
  <2>2. pc'[w] \in Holding
    BY <1>1, <1>8 DEF Start, SaveInput, AgentProgress, SaveOutput, locals, Goto,
       Holding, InTry, Handlers
  <2> QED BY <1>2, <2>1, <2>2 DEF KeepsLock, SameClaim, Holds
<1>9. CASE CloseInterrupted(w) \/ SaveDrafts(w) \/ Reject(w) \/ RequeueOrFail(w)
  <2>1. Exists(RowOf(w))
    BY <1>9 DEF CloseInterrupted, SaveDrafts, Reject, RequeueOrFail, RowsInv,
       WorkerKnows, InCall, Phases, Working, InTry, Handlers, Outcomes
  <2>2. job[w] = j => s.status # "processing"
    <3>1. Exists(r) => /\ SaveResult(r).status = "done"
                       /\ MarkPendingForRetry(r).status = "pending"
                       /\ \A e : MarkFailed(r, e).status = "failed"
      BY <1>1, SavedColumns DEF MarkPendingForRetry, MarkFailed, Unlock, Row
    <3>2. \/ Update(w, SaveResult(RowOf(w)))
          \/ Update(w, MarkPendingForRetry(RowOf(w)))
          \/ \E e : Update(w, MarkFailed(RowOf(w), e))
      BY <1>9, <2>1 DEF CloseInterrupted, SaveDrafts, Reject, RequeueOrFail
    <3>3. job[w] = j => \/ s = SaveResult(r) \/ s = MarkPendingForRetry(r)
                        \/ \E e : s = MarkFailed(r, e)
      BY <1>1, <3>2 DEF Update, RowOf
    <3> QED BY <2>1, <3>1, <3>3 DEF RowOf
  <2>3. job[w] # j => s = r
    BY <1>1, <1>9 DEF CloseInterrupted, SaveDrafts, Reject, RequeueOrFail, Update
  <2> QED BY <2>2, <2>3 DEF KeepsLock, Holds
<1>10. CASE CleanUp(w)
  BY <1>10 DEF CleanUp, KeepsLock, Holds, Holding, InTry, Handlers
<1> QED
  BY <1>5, <1>6, <1>7, <1>8, <1>9, <1>10 DEF Call, ProcessStep, Advance

LEMMA LockStep ==
  ASSUME RowsInv, LockNotAbandoned, [Next]_vars
  PROVE  LockNotAbandoned'
<1>1. RowsInv'
  BY RowsStep
<1>2. SUFFICES ASSUME crashes' = 0, NEW j \in Jobs, jobs'[j].status = "processing",
                      NEW v \in Workers, jobs'[j].lockedBy = v
               PROVE  Holds(v, j)'
  <2>1. ASSUME NEW j \in Jobs, jobs'[j].status = "processing"
        PROVE  jobs'[j].lockedBy \in Workers
    <3>1. jobs'[j] \in Row /\ RowInv(jobs'[j])
      BY <1>1 DEF RowsInv, TypeOK
    <3>2. jobs'[j].lockedBy # NoOwner
      BY <2>1, <3>1 DEF RowInv, RowConsistent
    <3> QED BY <3>1, <3>2 DEF Row, Workers
  <2> QED BY <2>1 DEF LockNotAbandoned
<1>3. ASSUME KeepsLock(j), crashes = 0
      PROVE  Holds(v, j) /\ jobs[j].lockedBy = v
  BY <1>2, <1>3 DEF LockNotAbandoned, KeepsLock
<1>4. ASSUME NEW w \in Workers, v # w, Poll(w) \/ Call(w) \/ Restart(w)
      PROVE  Holds(v, j)' <=> Holds(v, j)
  BY <1>4 DEF Holds, RowsInv, TypeOK, Poll, SelectCandidate, ClaimSelected, Call,
     ProcessStep, Advance, LoadJob, ClaimById, CloseInterrupted, Start,
     SaveInput, ReadPdf, AgentProgress, AgentReturns, SaveOutput,
     CheckCommitted, SaveDrafts, RaiseTemporary, Reject, RequeueOrFail,
     CleanUp, Restart, Goto, Return, locals
<1>5. ASSUME NEW w \in Workers, Call(w)
      PROVE  Holds(v, j)'
  <2>1. crashes = 0
    BY <1>2, <1>5 DEF Call
  <2>2. CASE GivesLock(j)
    BY <1>2, <2>2 DEF GivesLock
  <2>3. CASE KeepsLock(j) /\ (Holds(w, j) /\ jobs[j].lockedBy = w => Holds(w, j)')
    BY <1>3, <1>4, <1>5, <2>1, <2>3
  <2> QED BY <1>2, <1>5, <2>2, <2>3, CallLock
<1>6. ASSUME NEW w \in Workers, ClaimSelected(w)
      PROVE  Holds(v, j)'
  <2>1. crashes = 0 /\ pc[w] \notin Holding
    BY <1>2, <1>6 DEF ClaimSelected, Holding, InTry, Handlers
  <2>2. CASE jobs'[j] = jobs[j]
    <3>1. Holds(v, j)
      BY <1>3, <2>1, <2>2 DEF KeepsLock
    <3>2. v # w
      BY <2>1, <3>1 DEF Holds
    <3> QED BY <1>4, <1>6, <3>1, <3>2 DEF Poll
  <2>3. CASE jobs'[j] # jobs[j]
    <3>1. job[w] = j /\ jobs'[j] = Lock(jobs[j], w)
          /\ pc'[w] = "loading_job" /\ job' = job
      BY <1>6, <2>3 DEF ClaimSelected, Update, RowOf, Goto, RowsInv, TypeOK
    <3>2. jobs'[j].lockedBy = w
      BY <3>1 DEF Lock, CountAttempt, RowsInv, TypeOK, Row
    <3> QED BY <1>2, <3>1, <3>2 DEF Holds, Holding
  <2> QED BY <2>2, <2>3
<1>7. ASSUME NEW w \in Workers, SelectCandidate(w) \/ Restart(w)
      PROVE  Holds(v, j)'
  <2>1. crashes = 0 /\ jobs' = jobs /\ pc[w] \notin Holding
    BY <1>2, <1>7 DEF SelectCandidate, Restart, Holding, InTry, Handlers, Idle, Outcomes,
       tables
  <2>2. Holds(v, j)
    BY <1>3, <2>1 DEF KeepsLock
  <2>3. v # w
    BY <2>1, <2>2 DEF Holds
  <2> QED BY <1>4, <1>7, <2>2, <2>3 DEF Poll
<1>8. ASSUME NEW w \in Workers, Crash(w)
      PROVE  FALSE
  BY <1>2, <1>8, MaxCrashesAssumption DEF Crash, RowsInv, TypeOK
<1>9. CASE Environment \/ UNCHANGED vars
  <2>1. UNCHANGED <<pc, job, crashes>>
    BY <1>9 DEF Environment, UserStep, Upload, AcceptDraft, ReopenDraft,
       DeleteTransaction, LockAges, locals, vars
  <2>2. KeepsLock(j)
    <3>1. CASE \E k \in Jobs : Upload(k)
      <4>1. PICK k \in Jobs : Upload(k)
        BY <3>1
      <4>2. CreatePending.status = "pending"
        BY DEF CreatePending, NoRow
      <4>3. k # j
        BY <1>2, <4>1, <4>2 DEF Upload, RowsInv, TypeOK
      <4> QED BY <4>1, <4>3 DEF Upload, KeepsLock, RowsInv, TypeOK
    <3>2. CASE \E k \in Jobs : LockAges(k)
      <4>1. \A r \in Row : Age(r).status = r.status /\ Age(r).lockedBy = r.lockedBy
        BY DEF Age, Row
      <4> QED BY <3>2, <4>1 DEF LockAges, KeepsLock, RowsInv, TypeOK
    <3>3. CASE jobs' = jobs
      BY <3>3 DEF KeepsLock
    <3> QED BY <1>9, <3>1, <3>2, <3>3 DEF Environment, UserStep, AcceptDraft,
               ReopenDraft, DeleteTransaction, vars, tables
  <2> QED BY <1>2, <1>3, <2>1, <2>2 DEF Holds
<1> QED
  BY <1>5, <1>6, <1>7, <1>8, <1>9 DEF Next, Poll

\* As long as no worker dies, a job that is processing is in the hands of
\* the worker its lock names: no path of process_job leaves a job locked
\* behind it (main.py:53-270).
THEOREM OnlyDeathAbandons == Spec => []LockNotAbandoned
<1>1. Init => LockNotAbandoned
  BY DEF Init, LockNotAbandoned, NoRow
<1> QED BY <1>1, LockStep, RowsInvariant, PTL DEF Spec

(***************************************************************************)
(* Attempts.  A claim by claim_next_pending counts an attempt and lets its *)
(* worker count one more by claim_by_id, if it then reads a pending row.   *)
(* Those that may still do so are in MayClaimById.                         *)
(***************************************************************************)

\* Each of them has counted an attempt of its own, so at the last claim of
\* claim_next_pending there are fewer than MaxAttempts of them.
AttemptBudget(j) ==
  /\ IsFiniteSet(MayClaimById(j))
  /\ Cardinality(MayClaimById(j)) <= jobs[j].attempts
  /\ jobs[j].attempts + Cardinality(MayClaimById(j)) <= 2 * MaxAttempts

\* How a step changes the attempts of j and the workers that may add one.
LEMMA AttemptChange ==
  ASSUME RowsInv, [Next]_vars, NEW j \in Jobs
  PROVE  LET a == jobs[j].attempts
             S == MayClaimById(j)
         IN  \/ jobs'[j].attempts = a /\ MayClaimById(j)' \subseteq S
             \/ /\ a < MaxAttempts /\ jobs'[j].attempts = a + 1
                /\ \E w \in Workers : MayClaimById(j)' = S \cup {w}
             \/ /\ jobs'[j].attempts = a + 1
                /\ \E w \in S : MayClaimById(j)' = S \ {w}
<1> DEFINE r == jobs[j]
           s == jobs'[j]
           S == MayClaimById(j)
           T == MayClaimById(j)'
<1>1. /\ r \in Row /\ jobs \in [Jobs -> Row] /\ pc \in [Workers -> PCs]
      /\ job \in [Workers -> Jobs] /\ RowInv(r)
  BY DEF RowsInv, TypeOK
<1>2. (\A w : Lock(r, w).attempts = r.attempts + 1) /\ Age(r).attempts = r.attempts
  BY <1>1 DEF Lock, CountAttempt, Age, Row
<1>3. ASSUME NEW w \in Workers, NEW row, Update(w, row)
      PROVE  s = r \/ (job[w] = j /\ s = row)
  BY <1>1, <1>3 DEF Update
<1>4. ASSUME NEW w \in Workers, ClaimSelected(w)
      PROVE  \/ s.attempts = r.attempts /\ T \subseteq S
             \/ r.attempts < MaxAttempts /\ s.attempts = r.attempts + 1 /\ T = S \cup {w}
  <2>1. CASE ~ClaimNextMatches(RowOf(w)) \/ job[w] # j
    <3>1. s = r
      BY <1>3, <1>4, <2>1 DEF ClaimSelected
    <3>2. T \subseteq S
      BY <1>1, <1>4, <2>1 DEF ClaimSelected, MayClaimById, Goto, Workers
    <3> QED BY <3>1, <3>2
  <2>2. CASE ClaimNextMatches(RowOf(w)) /\ job[w] = j
    <3>1. s = Lock(r, w) /\ r.attempts < MaxAttempts
      BY <1>1, <1>4, <2>2 DEF ClaimSelected, ClaimNextMatches, Update, RowOf
    <3>2. T = S \cup {w}
      BY <1>1, <1>4, <2>2 DEF ClaimSelected, MayClaimById, Goto, Workers
    <3> QED BY <1>2, <3>1, <3>2
  <2> QED BY <2>1, <2>2
<1>5. ASSUME NEW w \in Workers, Call(w)
      PROVE  \/ s.attempts = r.attempts /\ T \subseteq S
             \/ s.attempts = r.attempts + 1 /\ w \in S /\ T = S \ {w}
  <2>1. TablesTyped /\ w \in Owners /\ job \in [Owners -> Jobs] /\ pc \in [Owners -> PCs]
    BY <1>1 DEF RowsInv, TypeOK, TablesTyped, Workers
  <2>2. ProcessStep(w)
    BY <1>5 DEF Call
  <2> QED BY <2>1, <2>2, ProcessAttempts
<1>6. ASSUME NEW w \in Workers, SelectCandidate(w) \/ Crash(w) \/ Restart(w)
      PROVE  s = r /\ T \subseteq S
  <2>1. s = r
    BY <1>6 DEF SelectCandidate, Crash, Restart, tables
  <2>2. T \subseteq S
    BY <1>1, <1>6 DEF SelectCandidate, Crash, Restart, MayClaimById, Goto,
       Workers
  <2> QED BY <2>1, <2>2
<1>7. CASE Environment \/ UNCHANGED vars
  <2>1. T = S
    BY <1>7 DEF Environment, UserStep, Upload, AcceptDraft, ReopenDraft,
       DeleteTransaction, LockAges, locals, vars, MayClaimById
  <2>2. ASSUME NEW k \in Jobs, Upload(k)
        PROVE  s.attempts = r.attempts
    <3>1. s = r \/ (~Exists(r) /\ s = CreatePending)
      BY <1>1, <2>2, JobsAssumption DEF Upload
    <3>2. CreatePending.attempts = 0
      BY DEF CreatePending, NoRow
    <3> QED BY <1>1, <3>1, <3>2 DEF RowInv
  <2>3. ASSUME NEW k \in Jobs, LockAges(k)
        PROVE  s.attempts = r.attempts
    BY <1>1, <1>2, <2>3 DEF LockAges
  <2> QED BY <1>7, <2>1, <2>2, <2>3 DEF Environment, UserStep, AcceptDraft,
             ReopenDraft, DeleteTransaction, vars, tables
<1> QED
  BY <1>4, <1>5, <1>6, <1>7 DEF Next, Poll

LEMMA BudgetStep ==
  ASSUME RowsInv, [Next]_vars, NEW j \in Jobs, AttemptBudget(j)
  PROVE  AttemptBudget(j)'
<1> DEFINE a == jobs[j].attempts
           b == jobs'[j].attempts
           S == MayClaimById(j)
           T == MayClaimById(j)'
<1>1. /\ a \in Nat /\ MaxAttempts \in Nat /\ IsFiniteSet(S) /\ Cardinality(S) \in Nat
      /\ Cardinality(S) <= a /\ a + Cardinality(S) <= 2 * MaxAttempts
  BY LimitsAssumption, FS_CardinalityType DEF RowsInv, TypeOK, Row, AttemptBudget
<1>2. CASE b = a /\ T \subseteq S
  <2>1. IsFiniteSet(T) /\ Cardinality(T) <= Cardinality(S) /\ Cardinality(T) \in Nat
    BY <1>1, <1>2, FS_Subset, FS_CardinalityType
  <2> QED BY <1>1, <1>2, <2>1 DEF AttemptBudget
<1>3. ASSUME a < MaxAttempts, b = a + 1, NEW w \in Workers, T = S \cup {w}
      PROVE  AttemptBudget(j)'
  <2>1. ASSUME NEW X, IsFiniteSet(X), NEW v
        PROVE  /\ IsFiniteSet(X \cup {v}) /\ Cardinality(X \cup {v}) \in Nat
               /\ Cardinality(X \cup {v}) <= Cardinality(X) + 1
    <3>1. Cardinality(X) \in Nat
      BY <2>1, FS_CardinalityType
    <3>2. CASE v \in X
      BY <2>1, <3>1, <3>2, FS_AddElement
    <3>3. CASE v \notin X
      BY <2>1, <3>1, <3>3, FS_AddElement
    <3> QED BY <3>2, <3>3
  <2>2. IsFiniteSet(T) /\ Cardinality(T) \in Nat /\ Cardinality(T) <= Cardinality(S) + 1
    BY <1>1, <1>3, <2>1
  <2> QED BY <1>1, <1>3, <2>2 DEF AttemptBudget
<1>4. ASSUME b = a + 1, NEW w \in S, T = S \ {w}
      PROVE  AttemptBudget(j)'
  <2>1. IsFiniteSet(T) /\ Cardinality(T) = Cardinality(S) - 1
    BY <1>1, <1>4, FS_RemoveElement
  <2> QED BY <1>1, <1>4, <2>1 DEF AttemptBudget
<1> QED
  BY <1>2, <1>3, <1>4, AttemptChange

\* However many workers poll, a job is attempted no more than twice
\* MaxAttempts times (import_jobs.py:106-193, main.py:68-77).
THEOREM AttemptsAlwaysBounded == Spec => []AttemptsBounded
<1> DEFINE Budgets == \A j \in Jobs : AttemptBudget(j)
<1>1. Init => Budgets
  <2> SUFFICES ASSUME Init, NEW j \in Jobs PROVE AttemptBudget(j)
    OBVIOUS
  <2>1. MayClaimById(j) = {} /\ jobs[j].attempts = 0
    BY DEF Init, MayClaimById, NoRow, Workers
  <2> QED BY <2>1, FS_EmptySet, LimitsAssumption DEF AttemptBudget
<1>2. RowsInv /\ Budgets /\ [Next]_vars => Budgets'
  BY BudgetStep
<1>3. RowsInv /\ Budgets => AttemptsBounded
  <2> SUFFICES ASSUME RowsInv, NEW j \in Jobs, AttemptBudget(j)
               PROVE  jobs[j].attempts <= 2 * MaxAttempts
    BY DEF AttemptsBounded
  <2>1. jobs[j].attempts \in Nat /\ Cardinality(MayClaimById(j)) \in Nat
    BY FS_CardinalityType DEF AttemptBudget, RowsInv, TypeOK, Row
  <2> QED BY <2>1, LimitsAssumption DEF AttemptBudget
<1> QED BY <1>1, <1>2, <1>3, RowsInvariant, PTL DEF Spec

(***************************************************************************)
(* One polling worker: nobody competes with it for a row, and what it read *)
(* of a row is still true when it acts on it.                              *)
(***************************************************************************)
OneWorker == \A v, w \in Workers : v = w

\* What the worker knows of its row, and what is true of every row, between
\* any two steps.
SoloKnows(w) ==
  /\ pc[w] \notin {"claiming", "interrupting"}
  /\ pc[w] = "selected" =>
       RowOf(w).status \in Active /\ RowOf(w).attempts = selected[w]
  /\ pc[w] \in Holding =>
       /\ RowOf(w).status = "processing" /\ RowOf(w).lockedBy = w
       /\ final[w] <=> RowOf(w).attempts >= MaxAttempts
  /\ pc[w] = "cleaning_up" => RowOf(w).status \in Terminal

SoloRow(j) ==
  /\ jobs[j].status \in Active => j \in pdf
  /\ jobs[j].status = "pending" => jobs[j].attempts < MaxAttempts

SoloInv ==
  /\ RowsInv
  /\ \A w \in Workers : SoloKnows(w)
  /\ \A j \in Jobs : SoloRow(j)

\* The repository's updates, by the two columns the lifecycle shows.
LEMMA ClaimColumns ==
  ASSUME NEW r \in Row
  PROVE  /\ \A w : /\ Lock(r, w).status = "processing"
                   /\ Lock(r, w).attempts = r.attempts + 1
                   /\ Lock(r, w).lockedBy = w
         /\ Age(r).status = r.status /\ Age(r).attempts = r.attempts
         /\ Age(r).lockedBy = r.lockedBy
         /\ CreatePending.status = "pending" /\ CreatePending.attempts = 0
BY DEF Lock, CountAttempt, Age, CreatePending, NoRow, Row

LEMMA EndColumns ==
  ASSUME NEW r \in Row, Exists(r)
  PROVE  /\ SaveResult(r).status = "done" /\ SaveResult(r).attempts = r.attempts
         /\ MarkPendingForRetry(r).status = "pending"
         /\ MarkPendingForRetry(r).attempts = r.attempts
         /\ \A e : /\ MarkFailed(r, e).status = "failed"
                  /\ MarkFailed(r, e).attempts = r.attempts
BY SavedColumns DEF MarkPendingForRetry, MarkFailed, Unlock, Row

LEMMA StepColumns ==
  ASSUME NEW r \in Row
  PROVE  \A step : /\ SameClaim(r, MarkStep(r, step))
                  /\ SameClaim(r, MarkStep(SaveAgentInput(r), step))
                  /\ SameClaim(r, MarkStep(SaveAgentOutput(r), step))
BY DEF SameClaim, MarkStep, SaveAgentInput, SaveAgentOutput, Row, Exists

(***************************************************************************)
(* Each step of a lone worker, in the lifecycle's terms.  The cases are    *)
(* what the invariant and the refinement both need.                        *)
(***************************************************************************)

\* A step that changes no status, no count of attempts, no file.
Stutter == \A j \in Jobs : /\ jobs'[j].status = jobs[j].status
                          /\ jobs'[j].attempts = jobs[j].attempts
                          /\ jobs'[j].lockedBy = jobs[j].lockedBy
           /\ pdf' = pdf

\* A step that moves job j to a status, with a count of attempts.
Moves(j, status, attempts) ==
  /\ jobs'[j].status = status /\ jobs'[j].attempts = attempts
  /\ \A k \in Jobs \ {j} : jobs'[k] = jobs[k]


Submits(j) ==
  /\ ~Exists(jobs[j]) /\ Moves(j, "pending", 0) /\ pdf' = pdf \cup {j}
Begins(j) ==
  /\ jobs[j].status \in Active /\ jobs[j].attempts < MaxAttempts
  /\ Moves(j, "processing", jobs[j].attempts + 1) /\ pdf' = pdf
GivesBack(j) ==
  /\ jobs[j].status = "processing" /\ jobs[j].attempts < MaxAttempts
  /\ Moves(j, "pending", jobs[j].attempts) /\ pdf' = pdf
Ends(j) ==
  /\ jobs[j].status = "processing" /\ pdf' = pdf
  /\ \E end \in Terminal : Moves(j, end, jobs[j].attempts)
Discards(j) ==
  /\ jobs[j].status \in Terminal /\ jobs' = jobs /\ pdf' = pdf \ {j}

LoneStep ==
  \/ Stutter
  \/ \E j \in Jobs : \/ Submits(j) \/ Begins(j) \/ GivesBack(j)
                     \/ Ends(j) \/ Discards(j)

\* process_job never finds its row in anyone else's hands.
LEMMA LoneCall ==
  ASSUME SoloInv, NEW w \in Workers, Call(w)
  PROVE  LoneStep /\ SoloKnows(w)'
<1> DEFINE j == job[w]
           r == jobs[j]
           s == jobs'[j]
<1>1. /\ j \in Jobs /\ r \in Row /\ Exists(r) /\ SoloKnows(w)
      /\ pc \in [Workers -> PCs] /\ jobs \in [Jobs -> Row]
      /\ r.attempts \in Nat
  BY DEF SoloInv, RowsInv, TypeOK, WorkerKnows, InCall, Phases, Outcomes,
     Working, InTry, Handlers, RowOf, Call, ProcessStep, Advance, LoadJob,
     ClaimById, CloseInterrupted, Start, SaveInput, ReadPdf, AgentProgress,
     AgentReturns, SaveOutput, CheckCommitted, SaveDrafts, RaiseTemporary,
     Reject, RequeueOrFail, CleanUp, Row
<1>2. job' = job /\ final' = final /\ selected' = selected
  BY DEF Call, ProcessStep, Advance, LoadJob, ClaimById, CloseInterrupted,
     Start, SaveInput, ReadPdf, AgentProgress, AgentReturns, SaveOutput,
     CheckCommitted, SaveDrafts, RaiseTemporary, Reject, RequeueOrFail,
     CleanUp, locals
<1>3. ASSUME NEW row, Update(w, row)
      PROVE  s = row /\ \A k \in Jobs \ {j} : jobs'[k] = jobs[k]
  BY <1>1, <1>3 DEF Update
<1>4. /\ SaveResult(r).status = "done" /\ SaveResult(r).attempts = r.attempts
       /\ \A e : /\ MarkFailed(r, e).status = "failed"
                /\ MarkFailed(r, e).attempts = r.attempts
  BY <1>1, EndColumns
<1>5. ~ClaimById(w) /\ ~CloseInterrupted(w)
  BY <1>1 DEF SoloKnows, ClaimById, CloseInterrupted
<1>6. CASE LoadJob(w)
  <2>1. pc'[w] = "starting" /\ pc[w] = "loading_job"
    BY <1>1, <1>6 DEF LoadJob, SoloKnows, Holding, RowOf, Goto, Terminal
  <2>2. Stutter
    BY <1>6 DEF LoadJob, Stutter, tables
  <2>3. jobs' = jobs
    BY <1>6 DEF LoadJob, tables
  <2> QED BY <1>1, <1>2, <2>1, <2>2, <2>3 DEF SoloKnows, Holding, RowOf, LoneStep
<1>7. CASE \/ ReadPdf(w) \/ AgentReturns(w) \/ CheckCommitted(w)
           \/ RaiseTemporary(w)
  <2>1. pc'[w] \in InTry \cup Handlers /\ pc[w] \in Holding
    BY <1>1, <1>7 DEF ReadPdf, AgentReturns, CheckCommitted, RaiseTemporary,
       Holding, InTry, Handlers, Goto
  <2>2. Stutter /\ jobs' = jobs
    BY <1>7 DEF ReadPdf, AgentReturns, CheckCommitted, RaiseTemporary, Stutter,
       tables
  <2> QED BY <1>1, <1>2, <2>1, <2>2 DEF SoloKnows, Holding, RowOf, LoneStep,
             InTry, Handlers
<1>8. CASE Start(w) \/ SaveInput(w) \/ AgentProgress(w) \/ SaveOutput(w)
  <2>1. SameClaim(r, s) /\ \A k \in Jobs \ {j} : jobs'[k] = jobs[k]
    BY <1>1, <1>3, <1>8, StepColumns DEF Start, SaveInput, AgentProgress,
       SaveOutput, RowOf
  <2>2. pdf' = pdf /\ pc[w] \in Holding /\ pc'[w] \in InTry \cup Handlers
    BY <1>1, <1>8 DEF Start, SaveInput, AgentProgress, SaveOutput, Holding,
       InTry, Handlers, Goto, locals
  <2>3. Stutter
    BY <2>1, <2>2 DEF Stutter, SameClaim
  <2> QED BY <1>1, <1>2, <2>1, <2>2, <2>3 DEF SoloKnows, Holding, RowOf, LoneStep,
             InTry, Handlers, SameClaim
<1>9. CASE SaveDrafts(w) \/ Reject(w)
  <2>1. \E end \in Terminal : Moves(j, end, r.attempts)
    <3>1. Update(w, SaveResult(r)) \/ Update(w, MarkFailed(r, "file rejected"))
      BY <1>1, <1>9 DEF SaveDrafts, Reject, RowOf
    <3>2. CASE Update(w, SaveResult(r))
      <4>1. s = SaveResult(r) /\ \A k \in Jobs \ {j} : jobs'[k] = jobs[k]
        BY <1>3, <3>2
      <4>2. Moves(j, "done", r.attempts)
        BY <1>4, <4>1 DEF Moves
      <4> QED BY <4>2 DEF Terminal
    <3>3. CASE Update(w, MarkFailed(r, "file rejected"))
      <4>1. s = MarkFailed(r, "file rejected")
            /\ \A k \in Jobs \ {j} : jobs'[k] = jobs[k]
        BY <1>3, <3>3
      <4>2. Moves(j, "failed", r.attempts)
        BY <1>4, <4>1 DEF Moves
      <4> QED BY <4>2 DEF Terminal
    <3> QED BY <3>1, <3>2, <3>3
  <2>3. pdf' = pdf /\ pc[w] \in Holding /\ pc'[w] = "cleaning_up"
    BY <1>1, <1>9 DEF SaveDrafts, Reject, Holding, InTry, Handlers, Goto, RowOf
  <2>2. Ends(j)
    BY <1>1, <2>1, <2>3 DEF Ends, SoloKnows, RowOf
  <2> QED BY <1>1, <1>2, <2>1, <2>2, <2>3 DEF LoneStep, SoloKnows, RowOf, Moves, Holding,
             InTry, Handlers
<1>10. CASE RequeueOrFail(w)
  <2>1. r.status = "processing" /\ (final[w] <=> r.attempts >= MaxAttempts)
    BY <1>1, <1>10 DEF RequeueOrFail, SoloKnows, Holding, Handlers, RowOf
  <2>2. pdf' = pdf /\ pc'[w] \in Outcomes
    BY <1>1, <1>10 DEF RequeueOrFail, Goto, Return, Outcomes
  <2>3. CASE final[w]
    <3>1. Moves(j, "failed", r.attempts)
      <4>1. Update(w, MarkFailed(r, "Processing failed after all retry attempts."))
        BY <1>10, <2>3 DEF RequeueOrFail, RowOf
      <4>2. s = MarkFailed(r, "Processing failed after all retry attempts.")
            /\ \A k \in Jobs \ {j} : jobs'[k] = jobs[k]
        BY <1>3, <4>1
      <4> QED BY <1>4, <4>2 DEF Moves
    <3> QED BY <1>1, <2>1, <2>2, <3>1 DEF LoneStep, Ends, Terminal, SoloKnows, Outcomes,
               Holding, InTry, Handlers
  <2>4. CASE ~final[w]
    <3>1. Moves(j, "pending", r.attempts)
      BY <1>1, <1>3, <1>10, <2>4, EndColumns DEF RequeueOrFail, RowOf, Moves
    <3>2. r.attempts < MaxAttempts
      BY <1>1, <2>1, <2>4, LimitsAssumption
    <3> QED BY <1>1, <2>1, <2>2, <3>1, <3>2 DEF LoneStep, GivesBack, SoloKnows, Outcomes,
               Holding, InTry, Handlers
  <2> QED BY <2>3, <2>4
<1>11. CASE CleanUp(w)
  <2>1. jobs' = jobs /\ pdf' \in {pdf, pdf \ {j}} /\ pc'[w] = "done"
        /\ r.status \in Terminal
    BY <1>1, <1>11 DEF CleanUp, Goto, Return, SoloKnows, RowOf
  <2>2. LoneStep
    BY <1>1, <2>1 DEF LoneStep, Stutter, Discards
  <2> QED BY <2>1, <2>2 DEF SoloKnows, Holding, InTry, Handlers
<1> QED
  BY <1>5, <1>6, <1>7, <1>8, <1>9, <1>10, <1>11 DEF Call, ProcessStep, Advance

LEMMA LoneWorkerStep ==
  ASSUME OneWorker, SoloInv, [Next]_vars
  PROVE  LoneStep /\ \A v \in Workers : SoloKnows(v)'
<1>1. /\ jobs \in [Jobs -> Row] /\ pc \in [Workers -> PCs]
      /\ job \in [Workers -> Jobs] /\ final \in [Workers -> BOOLEAN]
      /\ \A j \in Jobs : jobs[j].attempts \in Nat
      /\ \A v \in Workers : SoloKnows(v) /\ selected[v] \in 0 .. MaxAttempts - 1
  BY DEF SoloInv, RowsInv, TypeOK, Row
<1>2. ASSUME NEW w \in Workers, Call(w)
      PROVE  LoneStep /\ \A v \in Workers : SoloKnows(v)'
  BY <1>2, LoneCall DEF OneWorker
<1>3. ASSUME NEW w \in Workers, SelectCandidate(w)
      PROVE  LoneStep /\ SoloKnows(w)'
  <2>1. PICK j \in Jobs : /\ IsCandidate(jobs[j]) /\ job' = [job EXCEPT ![w] = j]
                          /\ selected' = [selected EXCEPT ![w] = jobs[j].attempts]
    BY <1>3 DEF SelectCandidate, Candidates
  <2>2. /\ jobs' = jobs /\ pdf' = pdf /\ pc'[w] = "selected" /\ job'[w] = j
        /\ selected'[w] = jobs[j].attempts
    BY <1>1, <1>3, <2>1 DEF SelectCandidate, Goto, tables, RowsInv, SoloInv, TypeOK
  <2>3. LoneStep
    BY <2>2 DEF LoneStep, Stutter
  <2> QED BY <2>1, <2>2, <2>3 DEF SoloKnows, IsCandidate, Active, RowOf, Holding,
             InTry, Handlers
<1>4. ASSUME NEW w \in Workers, ClaimSelected(w)
      PROVE  LoneStep /\ SoloKnows(w)'
  <2> DEFINE r == jobs[job[w]]
  <2>1. /\ r \in Row /\ r.status \in Active /\ r.attempts = selected[w]
        /\ job[w] \in Jobs /\ selected[w] \in Nat /\ selected[w] < MaxAttempts
    BY <1>1, <1>4, LimitsAssumption DEF ClaimSelected, SoloKnows, RowOf
  <2>2. /\ Update(w, Lock(r, w)) /\ pc'[w] = "loading_job" /\ job' = job
        /\ pdf' = pdf /\ final'[w] = (selected[w] + 1 >= MaxAttempts)
    BY <1>1, <1>4, <2>1 DEF ClaimSelected, IsFinalAttempt, ClaimNextMatches, Goto, RowOf
  <2>3. jobs'[job[w]] = Lock(r, w) /\ \A k \in Jobs \ {job[w]} : jobs'[k] = jobs[k]
    BY <1>1, <2>1, <2>2 DEF Update
  <2>4. Begins(job[w])
    BY <2>1, <2>2, <2>3, ClaimColumns DEF Begins, Moves
  <2>5. final'[w] <=> jobs'[job[w]].attempts >= MaxAttempts
    <3>1. jobs'[job[w]].attempts = selected[w] + 1
      BY <2>1, <2>3, ClaimColumns
    <3> QED BY <2>2, <3>1, Zenon
  <2>6. jobs'[job[w]].status = "processing" /\ jobs'[job[w]].lockedBy = w
    BY <2>1, <2>3, ClaimColumns
  <2> QED BY <2>1, <2>2, <2>4, <2>5, <2>6 DEF LoneStep, SoloKnows, RowOf
<1>5. ASSUME NEW w \in Workers, Crash(w) \/ Restart(w)
      PROVE  LoneStep /\ SoloKnows(w)'
  <2>1. jobs' = jobs /\ pdf' = pdf /\ pc'[w] \in {"down", "polling"}
    BY <1>1, <1>5 DEF Crash, Restart, Goto, tables
  <2> QED BY <2>1 DEF LoneStep, Stutter, SoloKnows, Holding, InTry, Handlers
<1>6. CASE Environment
  <2>1. UNCHANGED <<pc, job, final, selected>>
    BY <1>6 DEF Environment, UserStep, Upload, AcceptDraft, ReopenDraft,
       DeleteTransaction, LockAges, locals
  <2>2. CASE \E k \in Jobs : Upload(k)
    <3>1. PICK k \in Jobs : Upload(k)
      BY <2>2
    <3>2. ~Exists(jobs[k])
      BY <3>1, JobsAssumption DEF Upload
    <3>3. jobs'[k] = CreatePending /\ \A i \in Jobs \ {k} : jobs'[i] = jobs[i]
      BY <1>1, <3>1 DEF Upload
    <3>4. Submits(k)
      BY <1>1, <3>1, <3>2, <3>3, ClaimColumns DEF Submits, Moves, Upload
    <3>5. ASSUME NEW v \in Workers
          PROVE  SoloKnows(v)'
      <4>1. CASE job[v] # k
        BY <1>1, <2>1, <3>3, <4>1 DEF SoloKnows, RowOf
      <4>2. CASE job[v] = k
        BY <1>1, <2>1, <3>2, <4>2 DEF SoloKnows, RowOf, Exists, Active, Terminal
      <4> QED BY <4>1, <4>2
    <3> QED BY <3>4, <3>5 DEF LoneStep
  <2>3. CASE \E k \in Jobs : LockAges(k)
    <3>1. \A i \in Jobs : /\ jobs'[i].status = jobs[i].status
                          /\ jobs'[i].attempts = jobs[i].attempts
                          /\ jobs'[i].lockedBy = jobs[i].lockedBy
      BY <1>1, <2>3, ClaimColumns DEF LockAges
    <3>2. pdf' = pdf
      BY <2>3 DEF LockAges
    <3> QED BY <1>1, <2>1, <3>1, <3>2 DEF LoneStep, Stutter, SoloKnows, RowOf
  <2>4. CASE UNCHANGED <<jobs, pdf>>
    BY <1>1, <2>1, <2>4 DEF LoneStep, Stutter, SoloKnows, RowOf
  <2> QED BY <1>6, <2>2, <2>3, <2>4 DEF Environment, UserStep, AcceptDraft,
             ReopenDraft, DeleteTransaction
<1>7. CASE UNCHANGED vars
  BY <1>1, <1>7 DEF vars, tables, locals, LoneStep, Stutter, SoloKnows, RowOf
<1> QED
  BY <1>2, <1>3, <1>4, <1>5, <1>6, <1>7 DEF Next, Poll, OneWorker

LEMMA SoloStep ==
  ASSUME OneWorker, SoloInv, [Next]_vars
  PROVE  SoloInv'
<1>1. RowsInv' /\ LoneStep /\ \A w \in Workers : SoloKnows(w)'
  BY RowsStep, LoneWorkerStep DEF SoloInv
<1>2. ASSUME NEW j \in Jobs
      PROVE  SoloRow(j)'
  <2>1. SoloRow(j) /\ MaxAttempts \in Nat \ {0}
    BY LimitsAssumption DEF SoloInv
  <2>2. CASE Stutter
    BY <2>1, <2>2 DEF Stutter, SoloRow
  <2>3. ASSUME NEW k \in Jobs, Submits(k)
        PROVE  SoloRow(j)'
    BY <2>1, <2>3 DEF Submits, Moves, SoloRow, Active
  <2>4. ASSUME NEW k \in Jobs, Begins(k) \/ GivesBack(k) \/ Ends(k)
        PROVE  SoloRow(j)'
    BY <2>1, <2>4 DEF SoloInv, Begins, GivesBack, Ends, Moves, SoloRow, Active,
       Terminal
  <2>5. ASSUME NEW k \in Jobs, Discards(k)
        PROVE  SoloRow(j)'
    BY <2>1, <2>5 DEF Discards, SoloRow, Active, Terminal
  <2> QED BY <1>1, <2>2, <2>3, <2>4, <2>5 DEF LoneStep
<1> QED BY <1>1, <1>2 DEF SoloInv

LEMMA SoloInit == Init => SoloInv
<1> SUFFICES ASSUME Init PROVE SoloInv
  OBVIOUS
<1>1. \A j \in Jobs : SoloRow(j)
  BY DEF Init, SoloRow, NoRow, Active
<1>2. \A w \in Workers : SoloKnows(w)
  BY DEF Init, SoloKnows, Holding, InTry, Handlers
<1> QED BY <1>1, <1>2, RowsInit DEF SoloInv

\* The steps of a lone worker are steps of the lifecycle.
LEMMA StepRefines ==
  ASSUME TypeOK, TypeOK', LoneStep
  PROVE  [Lifecycle!Next]_(Lifecycle!vars)
<1> USE DEF Phase, Tries, TypeOK, Moves
<1>1. CASE Stutter
  BY <1>1 DEF Stutter, Lifecycle!vars
<1>2. ASSUME NEW j \in Jobs, Submits(j)
      PROVE  Lifecycle!Submit(j)
  BY <1>2 DEF Submits, Lifecycle!Submit, Exists
<1>3. ASSUME NEW j \in Jobs, Begins(j)
      PROVE  Lifecycle!Begin(j)
  BY <1>3 DEF Begins, Lifecycle!Begin, Active
<1>4. ASSUME NEW j \in Jobs, GivesBack(j)
      PROVE  Lifecycle!GiveBack(j)
  BY <1>4 DEF GivesBack, Lifecycle!GiveBack
<1>5. ASSUME NEW j \in Jobs, Ends(j)
      PROVE  Lifecycle!End(j)
  BY <1>5 DEF Ends, Lifecycle!End, Terminal
<1>6. ASSUME NEW j \in Jobs, Discards(j)
      PROVE  Lifecycle!Discard(j)
  BY <1>6 DEF Discards, Lifecycle!Discard, Terminal
<1> QED
  BY <1>1, <1>2, <1>3, <1>4, <1>5, <1>6 DEF LoneStep, Lifecycle!Next

\* A lone worker owns every row it works on, from its claim to the end of
\* its attempt, and knows whether the attempt is the last (main.py:286-310).
THEOREM SoleHolder ==
  ASSUME OneWorker
  PROVE  Spec => []SoleHolderOwnsRow
<1>1. SoloInv => SoleHolderOwnsRow
  BY DEF SoloInv, SoloKnows, SoleHolderOwnsRow, Holds, RowOf
<1> QED BY <1>1, SoloInit, SoloStep, PTL DEF Spec

\* One polling worker gives every job the lifecycle it is promised, through
\* any number of deaths and restarts (main.py:42-312).
THEOREM OneWorkerKeepsLifecycle ==
  ASSUME OneWorker
  PROVE  Spec => LifecycleSpec
<1>1. Init => Lifecycle!Init
  BY DEF Init, Lifecycle!Init, Phase, Tries, NoRow
<1>2. SoloInv /\ SoloInv' /\ [Next]_vars => [Lifecycle!Next]_(Lifecycle!vars)
  BY LoneWorkerStep, StepRefines DEF SoloInv, RowsInv
<1> QED
  BY <1>1, <1>2, SoloInit, SoloStep, PTL DEF Spec, LifecycleSpec, Lifecycle!Spec
===============================================================================
