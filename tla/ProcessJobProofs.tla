--------------------------- MODULE ProcessJobProofs ---------------------------
(***************************************************************************)
(* Lemmas about rows and about process_job (module ProcessJob) that hold   *)
(* whoever the processors are: the proofs about polling workers and about  *)
(* deliveries both rest on them.                                           *)
(***************************************************************************)
EXTENDS ProcessJob, TLAPS

(***************************************************************************)
(* The operators on rows.                                                  *)
(***************************************************************************)

\* A missing row and a new one are rows.
LEMMA NewRows == NoRow \in Row /\ CreatePending \in Row
<1>1. NoRow \in Row
  BY DEF NoRow, Row, Statuses, Steps, Errors, Active, Terminal
<1>2. "pending" \in Statuses /\ "Upload received" \in Steps
  BY DEF Statuses, Active, Steps
<1> QED BY <1>1, <1>2 DEF CreatePending, Row

\* What a saved result leaves of a row that exists; one that does not is
\* left alone.
LEMMA SavedColumns ==
  ASSUME NEW r \in Row
  PROVE  /\ Exists(r) =>
              /\ SaveResult(r).status = "done" /\ SaveResult(r).error = "none"
              /\ SaveResult(r).attempts = r.attempts
              /\ SaveResult(r).lockedBy = NoOwner /\ SaveResult(r).lockedAt = "null"
              /\ SaveResult(r).finishedAt = "set" /\ SaveResult(r).metadata
         /\ ~Exists(r) => SaveResult(r) = r
<1>1. CASE Exists(r)
  <2> DEFINE s == SaveStatementMetadata(r)
  <2>1. /\ s \in Row /\ s.status = r.status /\ s.attempts = r.attempts
        /\ s.metadata
    BY <1>1 DEF SaveStatementMetadata, Row
  <2>2. SaveResult(r) = MarkDone(s) /\ Exists(s)
    BY <1>1, <2>1 DEF SaveResult, Exists
  <2> HIDE DEF s
  <2> QED BY <1>1, <2>1, <2>2 DEF MarkDone, Unlock, Row
<1>2. CASE ~Exists(r)
  BY <1>2 DEF SaveResult, MarkDone, SaveStatementMetadata
<1> QED BY <1>1, <1>2

\* Every statement of the repository turns a row into a row.
LEMMA RowOperators ==
  ASSUME NEW r \in Row
  PROVE  /\ \A w \in Owners : Lock(r, w) \in Row
         /\ \A s \in Steps : MarkStep(r, s) \in Row
         /\ SaveAgentInput(r) \in Row /\ SaveAgentOutput(r) \in Row
         /\ SaveResult(r) \in Row /\ MarkPendingForRetry(r) \in Row
         /\ \A e \in Errors : MarkFailed(r, e) \in Row
         /\ Age(r) \in Row
<1>2. /\ {"pending", "processing", "done", "failed"} \subseteq Statuses
      /\ {"Upload received", "Processing started", "Failed", "Waiting to retry",
          "Draft transactions saved"} \subseteq Steps
      /\ {"none", "Temporary processing failure"} \subseteq Errors
  BY DEF Statuses, Active, Terminal, Steps, Errors
<1>4. ASSUME NEW w \in Owners PROVE Lock(r, w) \in Row
  <2>1. CountAttempt(r) \in Row
    BY DEF CountAttempt, Row
  <2>2. "Processing started" \in Steps
    BY DEF Steps
  <2> QED BY <1>2, <2>1, <2>2 DEF Lock, Row
<1>5. \A s \in Steps : MarkStep(r, s) \in Row
  BY DEF MarkStep, Row
<1>6. SaveAgentInput(r) \in Row /\ SaveAgentOutput(r) \in Row
  BY DEF SaveAgentInput, SaveAgentOutput, Row
<1>7. Unlock(r) \in Row
  BY DEF Unlock, Row
<1>8. SaveResult(r) \in Row
  <2>1. SaveStatementMetadata(r) \in Row
    BY DEF SaveStatementMetadata, Row
  <2>2. ASSUME NEW x \in Row PROVE MarkDone(x) \in Row
    <3>1. Unlock(x) \in Row
      BY DEF Unlock, Row
    <3> QED BY <1>2, <3>1 DEF MarkDone, Row
  <2> QED BY <2>1, <2>2 DEF SaveResult
<1>9. MarkPendingForRetry(r) \in Row
  BY <1>2, <1>7 DEF MarkPendingForRetry, Row
<1>10. \A e \in Errors : MarkFailed(r, e) \in Row
  BY <1>2, <1>7 DEF MarkFailed, Row
<1>11. Age(r) \in Row
  BY DEF Age, Row
<1> QED
  BY <1>4, <1>5, <1>6, <1>8, <1>9, <1>10, <1>11

(***************************************************************************)
(* Types.                                                                  *)
(***************************************************************************)
TablesTyped ==
  /\ jobs \in [Jobs -> Row]
  /\ pdf \subseteq Jobs
  /\ drafts \in [Jobs -> [Lines -> Nat]]
  /\ committed \in [Jobs -> [Lines -> Nat]]

\* A step of process_job keeps the tables typed.
LEMMA ProcessTables ==
  ASSUME TablesTyped, NEW w \in Owners, job[w] \in Jobs, ProcessStep(w)
  PROVE  TablesTyped'
<1> DEFINE row == RowOf(w)
<1>1. row \in Row
  BY DEF TablesTyped, RowOf
<1>2. ASSUME NEW r \in Row, Update(w, r)
      PROVE  jobs' \in [Jobs -> Row]
  BY <1>2 DEF TablesTyped, Update
<1>3. jobs' \in [Jobs -> Row]
  <2> USE <1>1, RowOperators
  <2>1. CASE LoadJob(w) \/ ReadPdf(w) \/ AgentReturns(w) \/ CheckCommitted(w)
             \/ RaiseTemporary(w) \/ CleanUp(w)
    BY <2>1 DEF TablesTyped, LoadJob, ReadPdf, AgentReturns, CheckCommitted,
       RaiseTemporary, CleanUp, tables
  <2>2. CASE ClaimById(w)
    BY <1>2, <2>2 DEF ClaimById, TablesTyped
  <2>3. CASE CloseInterrupted(w)
    BY <1>2, <2>3 DEF CloseInterrupted, Errors
  <2>4. CASE Start(w)
    BY <1>2, <2>4 DEF Start, Steps
  <2>5. CASE SaveInput(w)
    <3>1. MarkStep(SaveAgentInput(row), "Reading PDF with agent") \in Row
      BY RowOperators DEF Steps
    <3> QED BY <1>2, <2>5, <3>1 DEF SaveInput
  <2>6. CASE AgentProgress(w)
    BY <1>2, <2>6 DEF AgentProgress, Steps
  <2>7. CASE SaveOutput(w)
    <3>1. MarkStep(SaveAgentOutput(row), "Validating transactions") \in Row
      BY RowOperators DEF Steps
    <3> QED BY <1>2, <2>7, <3>1 DEF SaveOutput
  <2>8. CASE SaveDrafts(w)
    BY <1>2, <2>8 DEF SaveDrafts, TablesTyped
  <2>9. CASE Reject(w)
    BY <1>2, <2>9 DEF Reject, Errors
  <2>10. CASE RequeueOrFail(w)
    BY <1>2, <2>10 DEF RequeueOrFail, Errors
  <2> QED
    BY <2>1, <2>2, <2>3, <2>4, <2>5, <2>6, <2>7, <2>8, <2>9, <2>10
       DEF ProcessStep, Advance
<1>4. drafts' \in [Jobs -> [Lines -> Nat]]
  <2>1. CASE SaveDrafts(w)
    <3>1. \A counts : CreateMany(DeleteDrafts(counts)) \in [Lines -> Nat]
      BY DEF CreateMany, DeleteDrafts, NoLines
    <3>2. \/ drafts' = drafts
          \/ drafts' = [drafts EXCEPT ![job[w]] =
                          CreateMany(DeleteDrafts(drafts[job[w]]))]
      BY <2>1 DEF SaveDrafts
    <3>3. CreateMany(DeleteDrafts(drafts[job[w]])) \in [Lines -> Nat]
      BY <3>1
    <3> HIDE DEF CreateMany, DeleteDrafts
    <3> QED BY <3>2, <3>3 DEF TablesTyped
  <2>2. CASE ~SaveDrafts(w)
    BY <2>2 DEF TablesTyped, ProcessStep, Advance, LoadJob, ClaimById,
       CloseInterrupted, Start, SaveInput, ReadPdf, AgentProgress,
       AgentReturns, SaveOutput, CheckCommitted, RaiseTemporary, Reject,
       RequeueOrFail, CleanUp, tables, locals
  <2> QED BY <2>1, <2>2
<1>5. pdf' \subseteq Jobs /\ committed' = committed
  BY DEF TablesTyped, ProcessStep, Advance, LoadJob, ClaimById,
     CloseInterrupted, Start, SaveInput, ReadPdf, AgentProgress, AgentReturns,
     SaveOutput, CheckCommitted, SaveDrafts, RaiseTemporary, Reject,
     RequeueOrFail, CleanUp, tables, locals
<1> QED BY <1>3, <1>4, <1>5 DEF TablesTyped

\* A step of process_job takes its own call to another phase, or leaves it
\* where it is, and does nothing else to any call.
LEMMA ProcessLocals ==
  ASSUME NEW w, ProcessStep(w)
  PROVE  /\ UNCHANGED <<job, final>>
         /\ pc[w] \in Phases \ Outcomes
         /\ pc' = pc \/ \E p \in Phases : pc' = [pc EXCEPT ![w] = p]
<1> USE DEF Goto, Return, Phases, Working, InTry, Handlers, Outcomes
<1>1. CASE LoadJob(w)         BY <1>1 DEF LoadJob
<1>2. CASE ClaimById(w)       BY <1>2 DEF ClaimById
<1>3. CASE CloseInterrupted(w) BY <1>3 DEF CloseInterrupted
<1>4. CASE Start(w)           BY <1>4 DEF Start
<1>5. CASE SaveInput(w)       BY <1>5 DEF SaveInput
<1>6. CASE ReadPdf(w)         BY <1>6 DEF ReadPdf
<1>7. CASE AgentProgress(w)   BY <1>7 DEF AgentProgress, locals
<1>8. CASE AgentReturns(w)    BY <1>8 DEF AgentReturns
<1>9. CASE SaveOutput(w)      BY <1>9 DEF SaveOutput
<1>10. CASE CheckCommitted(w) BY <1>10 DEF CheckCommitted
<1>11. CASE SaveDrafts(w)     BY <1>11 DEF SaveDrafts
<1>12. CASE RaiseTemporary(w) BY <1>12 DEF RaiseTemporary
<1>13. CASE Reject(w)         BY <1>13 DEF Reject
<1>14. CASE RequeueOrFail(w)  BY <1>14 DEF RequeueOrFail
<1>15. CASE CleanUp(w)        BY <1>15 DEF CleanUp
<1> QED
  BY <1>1, <1>2, <1>3, <1>4, <1>5, <1>6, <1>7, <1>8, <1>9, <1>10, <1>11,
     <1>12, <1>13, <1>14, <1>15 DEF ProcessStep, Advance

(***************************************************************************)
(* Rows.                                                                   *)
(***************************************************************************)

\* From r to s a row neither appears nor goes away, takes no attempt back
\* and does not pass claim_by_id's limit.
Kept(r, s) ==
  /\ Exists(r) <=> Exists(s)
  /\ s.attempts >= r.attempts
  /\ r.attempts <= MaxClaimsById => s.attempts <= MaxClaimsById

KeptConsistent(r, s) == RowConsistent(s) /\ Kept(r, s)

\* The errors that close a job.
Closing == Errors \ {"none", "Temporary processing failure"}

\* A row that does not change, or only in what it says of the attempt.
LEMMA SameColumns ==
  ASSUME NEW r \in Row, NEW s \in Row, RowConsistent(r),
         s.status = r.status, s.attempts = r.attempts,
         s.lockedBy = r.lockedBy, s.lockedAt = r.lockedAt,
         s.finishedAt = r.finishedAt, s.error = r.error,
         s.metadata = r.metadata
  PROVE  KeptConsistent(r, s)
<1>1. r.attempts \in Nat /\ MaxClaimsById \in Nat
  BY LimitsAssumption DEF Row
<1>2. RowConsistent(s)
  BY DEF RowConsistent
<1>3. Kept(r, s)
  BY <1>1 DEF Kept, Exists
<1> QED BY <1>2, <1>3 DEF KeptConsistent

\* The statements of the repository keep a row's columns in agreement: a
\* retry asks for an attempt that was made, a claim for a pending row.
LEMMA RowOperatorsKeep ==
  ASSUME NEW r \in Row, RowConsistent(r)
  PROVE  /\ \A s \in Steps : /\ KeptConsistent(r, MarkStep(r, s))
                             /\ KeptConsistent(r, MarkStep(SaveAgentInput(r), s))
                             /\ KeptConsistent(r, MarkStep(SaveAgentOutput(r), s))
         /\ \A w \in Owners : ClaimByIdMatches(r) =>
              /\ KeptConsistent(r, Lock(r, w))
              /\ Exists(Lock(r, w)) /\ Lock(r, w).attempts > 0
         /\ KeptConsistent(r, SaveResult(r))
         /\ r.attempts > 0 => KeptConsistent(r, MarkPendingForRetry(r))
         /\ \A e \in Closing : KeptConsistent(r, MarkFailed(r, e))
<1>0. r.attempts \in Nat /\ r.attempts + 1 > 0 /\ r.attempts <= r.attempts + 1
      /\ MaxClaimsById \in Nat /\ NoOwner \notin Owners
  BY LimitsAssumption, NoOwnerAssumption DEF Row
<1>1. KeptConsistent(r, r)
  BY SameColumns
<1>2. ASSUME NEW s \in Steps
      PROVE  /\ KeptConsistent(r, MarkStep(r, s))
             /\ KeptConsistent(r, MarkStep(SaveAgentInput(r), s))
             /\ KeptConsistent(r, MarkStep(SaveAgentOutput(r), s))
  <2>1. /\ SaveAgentInput(r) \in Row /\ SaveAgentOutput(r) \in Row
        /\ MarkStep(r, s) \in Row
    BY RowOperators
  <2>2. /\ MarkStep(SaveAgentInput(r), s) \in Row
        /\ MarkStep(SaveAgentOutput(r), s) \in Row
    BY <2>1, RowOperators
  <2>3. KeptConsistent(r, MarkStep(r, s))
    BY <2>1, SameColumns DEF MarkStep, Row
  <2>4. KeptConsistent(r, MarkStep(SaveAgentInput(r), s))
    BY <2>2, SameColumns DEF MarkStep, SaveAgentInput, Row
  <2>5. KeptConsistent(r, MarkStep(SaveAgentOutput(r), s))
    BY <2>2, SameColumns DEF MarkStep, SaveAgentOutput, Row
  <2> QED BY <2>3, <2>4, <2>5
<1>3. ASSUME NEW w \in Owners, ClaimByIdMatches(r)
      PROVE  /\ KeptConsistent(r, Lock(r, w))
             /\ Exists(Lock(r, w)) /\ Lock(r, w).attempts > 0
  <2> DEFINE s == Lock(r, w)
  <2>1. /\ s.status = "processing" /\ s.attempts = r.attempts + 1
        /\ s.lockedBy = w /\ s.lockedAt = "recent"
        /\ s.finishedAt = r.finishedAt /\ s.error = "none"
    BY DEF Lock, CountAttempt, Row
  <2>2. r.status = "pending" /\ r.attempts < MaxClaimsById
        /\ r.finishedAt # "set" /\ w # NoOwner
    BY <1>0, <1>3 DEF ClaimByIdMatches, RowConsistent, Terminal
  <2> HIDE DEF s
  <2>3. s.attempts > 0 /\ s.attempts >= r.attempts /\ s.attempts <= MaxClaimsById
    BY <1>0, <2>1, <2>2
  <2>4. KeptConsistent(r, s) /\ Exists(s)
    BY <2>1, <2>2, <2>3 DEF KeptConsistent, Kept, RowConsistent, Exists, Terminal
  <2> QED BY <2>3, <2>4 DEF s
<1>4. ASSUME NEW s, Exists(r), s.status # "none", s.attempts = r.attempts
      PROVE  Kept(r, s)
  BY <1>0, <1>4 DEF Kept, Exists
<1>5. KeptConsistent(r, SaveResult(r))
  <2>1. CASE Exists(r)
    <3> DEFINE s == SaveResult(r)
    <3>1. /\ s.status = "done" /\ s.attempts = r.attempts /\ s.lockedBy = NoOwner
          /\ s.lockedAt = "null" /\ s.finishedAt = "set" /\ s.error = "none"
          /\ s.metadata
      BY <2>1, SavedColumns
    <3> HIDE DEF s
    <3>2. RowConsistent(s)
      BY <1>0, <2>1, <3>1 DEF RowConsistent, Terminal
    <3>3. Kept(r, s)
      BY <2>1, <3>1, <1>4
    <3> QED BY <3>2, <3>3 DEF KeptConsistent, s
  <2> QED BY <1>1, <2>1, SavedColumns
<1>6. ASSUME r.attempts > 0
      PROVE  KeptConsistent(r, MarkPendingForRetry(r))
  <2>1. CASE Exists(r)
    <3> DEFINE s == MarkPendingForRetry(r)
    <3>1. /\ s.status = "pending" /\ s.attempts = r.attempts
          /\ s.lockedBy = NoOwner /\ s.lockedAt = "null" /\ s.finishedAt = "null"
          /\ s.error = "Temporary processing failure"
      BY <2>1 DEF MarkPendingForRetry, Unlock, Row
    <3> HIDE DEF s
    <3>2. RowConsistent(s)
      BY <1>0, <1>6, <2>1, <3>1 DEF RowConsistent, Terminal
    <3>3. Kept(r, s)
      BY <2>1, <3>1, <1>4
    <3> QED BY <3>2, <3>3 DEF KeptConsistent, s
  <2> QED BY <1>1, <2>1 DEF MarkPendingForRetry
<1>7. ASSUME NEW e \in Closing
      PROVE  KeptConsistent(r, MarkFailed(r, e))
  <2>1. CASE Exists(r)
    <3> DEFINE s == MarkFailed(r, e)
    <3>1. /\ s.status = "failed" /\ s.attempts = r.attempts
          /\ s.lockedBy = NoOwner /\ s.lockedAt = "null"
          /\ s.finishedAt = "set" /\ s.error = e
      BY <2>1 DEF MarkFailed, Unlock, Row
    <3> HIDE DEF s
    <3>2. RowConsistent(s)
      BY <1>0, <1>7, <2>1, <3>1 DEF RowConsistent, Terminal, Closing
    <3>3. Kept(r, s)
      BY <2>1, <3>1, <1>4
    <3> QED BY <3>2, <3>3 DEF KeptConsistent, s
  <2> QED BY <1>1, <2>1 DEF MarkFailed
<1> QED BY <1>2, <1>3, <1>5, <1>6, <1>7

\* What a call that is past its claim knows of its row, even when it has
\* been superseded.
AttemptMade(r) == Exists(r) /\ r.attempts > 0

\* One step of a call changes the rows as RowOperatorsKeep says, and it gets
\* past "loading_job" and "claiming" with an attempt made.
LEMMA ProcessRows ==
  ASSUME TablesTyped, NEW w \in Owners, job[w] \in Jobs, ProcessStep(w),
         \A j \in Jobs : RowConsistent(jobs[j]),
         pc[w] \in Working => AttemptMade(RowOf(w)),
         NEW P, pc \in [Owners -> P]
  PROVE  /\ \A j \in Jobs : KeptConsistent(jobs[j], jobs'[j])
         /\ \A j \in Jobs \ {job[w]} : jobs'[j] = jobs[j]
         /\ pc'[w] \in Working => AttemptMade(RowOf(w)')
<1> DEFINE row == RowOf(w)
<1>1. row \in Row /\ RowConsistent(row) /\ row = jobs[job[w]]
  BY DEF TablesTyped, RowOf
<1>2. job' = job
  BY ProcessLocals
<1>3. \A j \in Jobs : KeptConsistent(jobs[j], jobs[j])
  BY SameColumns DEF TablesTyped
<1>4. ASSUME NEW r, Update(w, r), KeptConsistent(row, r)
      PROVE  /\ \A j \in Jobs : KeptConsistent(jobs[j], jobs'[j])
             /\ \A j \in Jobs \ {job[w]} : jobs'[j] = jobs[j]
             /\ jobs'[job[w]] = r
  BY <1>1, <1>3, <1>4 DEF TablesTyped, Update
<1>5. ASSUME NEW r \in Row, Kept(row, r), AttemptMade(row)
      PROVE  AttemptMade(r)
  BY <1>1, <1>5 DEF Kept, AttemptMade, Row
<1>6. ASSUME NEW r \in Row, Update(w, r), KeptConsistent(row, r),
             pc[w] \in Working \/ pc'[w] \notin Working
      PROVE  /\ \A j \in Jobs : KeptConsistent(jobs[j], jobs'[j])
             /\ \A j \in Jobs \ {job[w]} : jobs'[j] = jobs[j]
             /\ pc'[w] \in Working => AttemptMade(RowOf(w)')
  BY <1>2, <1>4, <1>5, <1>6 DEF KeptConsistent, RowOf
<1>7. ASSUME jobs' = jobs, pc[w] \in Working \/ pc'[w] \notin Working
      PROVE  /\ \A j \in Jobs : KeptConsistent(jobs[j], jobs'[j])
             /\ \A j \in Jobs \ {job[w]} : jobs'[j] = jobs[j]
             /\ pc'[w] \in Working => AttemptMade(RowOf(w)')
  BY <1>2, <1>3, <1>7 DEF RowOf
<1> USE <1>1, RowOperators, RowOperatorsKeep
<1>8. CASE LoadJob(w)
  <2>1. jobs' = jobs
    BY <1>8 DEF LoadJob, tables
  <2>2. CASE pc'[w] # "starting"
    <3>1. pc'[w] \notin Working
      BY <1>8, <2>2 DEF LoadJob, Goto, Return, Working, InTry, Handlers
    <3> QED BY <1>7, <2>1, <3>1
  <2>3. CASE pc'[w] = "starting"
    <3>1. row.status = "processing"
      BY <1>8, <2>3 DEF LoadJob, Goto, Return
    <3>2. AttemptMade(row)
      BY <3>1 DEF RowConsistent, AttemptMade, Exists
    <3> QED BY <1>2, <1>3, <2>1, <3>2 DEF RowOf
  <2> QED BY <2>2, <2>3
<1>9. CASE ClaimById(w)
  <2>1. CASE ClaimByIdMatches(row)
    <3>1. Update(w, Lock(row, w)) /\ KeptConsistent(row, Lock(row, w))
          /\ AttemptMade(Lock(row, w))
      BY <1>9, <2>1 DEF ClaimById, AttemptMade
    <3> QED BY <1>2, <1>4, <3>1 DEF RowOf
  <2>2. CASE ~ClaimByIdMatches(row)
    <3>1. jobs' = jobs /\ pc'[w] = "retry"
      BY <1>9, <2>2 DEF ClaimById, Goto, Return
    <3> QED BY <1>7, <3>1 DEF Working, InTry, Handlers
  <2> QED BY <2>1, <2>2
<1>10. CASE CloseInterrupted(w)
  <2>1. pc'[w] = "done" /\ "Processing was interrupted before it completed." \in Closing
    BY <1>10 DEF CloseInterrupted, Goto, Return, Closing, Errors
  <2> QED BY <1>6, <1>10, <2>1
          DEF CloseInterrupted, Working, InTry, Handlers, Closing
<1>11. {"Processing started", "Reading PDF with agent", "agent progress",
        "Validating transactions"} \subseteq Steps
  BY DEF Steps
<1>12. CASE Start(w)
  BY <1>6, <1>11, <1>12 DEF Start, Working
<1>13. CASE SaveInput(w)
  <2>1. MarkStep(SaveAgentInput(row), "Reading PDF with agent") \in Row
    BY <1>11
  <2> QED BY <1>6, <1>11, <1>13, <2>1 DEF SaveInput, Working, InTry
<1>14. CASE AgentProgress(w)
  BY <1>6, <1>11, <1>14 DEF AgentProgress, Working, InTry
<1>15. CASE SaveOutput(w)
  <2>1. MarkStep(SaveAgentOutput(row), "Validating transactions") \in Row
    BY <1>11
  <2> QED BY <1>6, <1>11, <1>15, <2>1 DEF SaveOutput, Working, InTry
<1>16. CASE SaveDrafts(w)
  <2>1. pc[w] \in Working
    BY <1>16 DEF SaveDrafts, Working, InTry
  <2>2. CASE Exists(row)
    BY <1>6, <1>16, <2>1, <2>2 DEF SaveDrafts
  <2>3. CASE ~Exists(row)
    BY <1>7, <1>16, <2>1, <2>3 DEF SaveDrafts
  <2> QED BY <2>2, <2>3
<1>17. CASE Reject(w)
  <2>1. pc[w] \in Working /\ "file rejected" \in Closing
    BY <1>17 DEF Reject, Working, Handlers, Closing, Errors
  <2> QED BY <1>6, <1>17, <2>1 DEF Reject, Closing
<1>18. CASE RequeueOrFail(w)
  <2>1. pc[w] \in Working /\ row.attempts > 0
        /\ "Processing failed after all retry attempts." \in Closing
    BY <1>18 DEF RequeueOrFail, Working, Handlers, Closing, Errors, AttemptMade
  <2> QED BY <1>6, <1>18, <2>1 DEF RequeueOrFail, Closing
<1>19. CASE ReadPdf(w) \/ AgentReturns(w) \/ CheckCommitted(w)
            \/ RaiseTemporary(w) \/ CleanUp(w)
  <2>1. jobs' = jobs /\ pc[w] \in Working
    BY <1>19 DEF ReadPdf, AgentReturns, CheckCommitted, RaiseTemporary,
       CleanUp, tables, Working, InTry
  <2> QED BY <1>7, <2>1
<1> QED
  BY <1>8, <1>9, <1>10, <1>12, <1>13, <1>14, <1>15, <1>16, <1>17, <1>18, <1>19
     DEF ProcessStep, Advance

(***************************************************************************)
(* Attempts.  A call can add an attempt to its job only while it is about  *)
(* to read or to claim it.                                                 *)
(***************************************************************************)
MayClaimById(j) ==
  {w \in Owners : job[w] = j /\ pc[w] \in {"loading_job", "claiming"}}

\* A step of a call counts an attempt and gives up the right to count one,
\* or leaves the attempts of every job as they are.
LEMMA ProcessAttempts ==
  ASSUME TablesTyped, NEW w \in Owners, ProcessStep(w), NEW j \in Jobs,
         job \in [Owners -> Jobs], NEW P, pc \in [Owners -> P]
  PROVE  \/ /\ jobs'[j].attempts = jobs[j].attempts
            /\ MayClaimById(j)' \subseteq MayClaimById(j)
         \/ /\ jobs'[j].attempts = jobs[j].attempts + 1
            /\ w \in MayClaimById(j)
            /\ MayClaimById(j)' = MayClaimById(j) \ {w}
<1> DEFINE r == jobs[j]
           s == jobs'[j]
           S == MayClaimById(j)
           T == MayClaimById(j)'
<1>1. r \in Row /\ jobs \in [Jobs -> Row]
  BY DEF TablesTyped
<1>2. /\ \A v : Lock(r, v).attempts = r.attempts + 1
      /\ SaveResult(r).attempts = r.attempts
      /\ MarkPendingForRetry(r).attempts = r.attempts
      /\ \A e : MarkFailed(r, e).attempts = r.attempts
  BY <1>1, SavedColumns DEF Lock, CountAttempt, MarkPendingForRetry, MarkFailed,
     Unlock, Row
<1>3. \A step : /\ MarkStep(r, step).attempts = r.attempts
                /\ MarkStep(SaveAgentInput(r), step).attempts = r.attempts
                /\ MarkStep(SaveAgentOutput(r), step).attempts = r.attempts
  BY <1>1 DEF MarkStep, SaveAgentInput, SaveAgentOutput, Row, Exists
<1>4. ASSUME NEW row, Update(w, row)
      PROVE  s = r \/ (job[w] = j /\ s = row)
  BY <1>1, <1>4 DEF Update
<1>5. CASE ClaimById(w)
  <2>1. CASE ~ClaimByIdMatches(RowOf(w)) \/ job[w] # j
    <3>1. s = r
      BY <1>4, <1>5, <2>1 DEF ClaimById
    <3>2. T \subseteq S
      BY <1>5, <2>1 DEF ClaimById, MayClaimById, Goto, Return
    <3> QED BY <3>1, <3>2
  <2>2. CASE ClaimByIdMatches(RowOf(w)) /\ job[w] = j
    <3>1. s = Lock(r, w)
      BY <1>1, <1>5, <2>2 DEF ClaimById, Update, RowOf
    <3>2. w \in S /\ T = S \ {w}
      BY <1>5, <2>2 DEF ClaimById, MayClaimById, Goto
    <3> QED BY <1>2, <3>1, <3>2
  <2> QED BY <2>1, <2>2
<1>6. CASE LoadJob(w) \/ ReadPdf(w) \/ AgentReturns(w) \/ CheckCommitted(w)
           \/ RaiseTemporary(w) \/ CleanUp(w)
  <2>1. s = r
    BY <1>6 DEF LoadJob, ReadPdf, AgentReturns, CheckCommitted,
       RaiseTemporary, CleanUp, tables
  <2>2. T \subseteq S
    BY <1>6 DEF LoadJob, ReadPdf, AgentReturns, CheckCommitted,
       RaiseTemporary, CleanUp, MayClaimById, Goto, Return, InTry
  <2> QED BY <2>1, <2>2
<1>7. CASE CloseInterrupted(w) \/ Start(w) \/ SaveInput(w) \/ AgentProgress(w)
           \/ SaveOutput(w) \/ SaveDrafts(w) \/ Reject(w) \/ RequeueOrFail(w)
  <2>1. T \subseteq S
    BY <1>7 DEF CloseInterrupted, Start, SaveInput, AgentProgress,
       SaveOutput, SaveDrafts, Reject, RequeueOrFail, MayClaimById, Goto,
       Return, locals
  <2>2. s.attempts = r.attempts
    BY <1>2, <1>3, <1>4, <1>7 DEF CloseInterrupted, Start, SaveInput,
       AgentProgress, SaveOutput, SaveDrafts, Reject, RequeueOrFail, RowOf
  <2> QED BY <2>1, <2>2
<1> QED BY <1>5, <1>6, <1>7 DEF ProcessStep, Advance
===============================================================================
