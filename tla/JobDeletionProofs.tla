--------------------------- MODULE JobDeletionProofs ---------------------------
(***************************************************************************)
(* Theorems about deletions and event streams beside a lone worker (module *)
(* JobDeletion), for any number of jobs, deletions and streams.            *)
(***************************************************************************)
EXTENDS JobDeletion, ImportWorkerProofs

(***************************************************************************)
(* The invariant.  What a deletion read is stale by the time it deletes.   *)
(* It is still true because a row that is over stays as it is: the worker  *)
(* picks active rows only, holds what it works on, and is done with a row  *)
(* when it cleans up after it.                                             *)
(***************************************************************************)
Over(j) == jobs[j].status \in Terminal \/ j \in gone

WorkerHas(w) ==
  /\ pc[w] \notin {"claiming", "interrupting"}
  /\ pc[w] = "selected" => RowOf(w).status \in Active
  /\ pc[w] \in Holding =>
       RowOf(w).status = "processing" /\ RowOf(w).lockedBy = w
  /\ pc[w] = "cleaning_up" => Over(job[w])

GoneForGood(j) ==
  /\ ~Exists(jobs[j])
  /\ drafts[j] = NoLines /\ committed[j] = NoLines
  /\ CanRead(j) => j \notin pdf

DeletionKnows(r) ==
  /\ dpc[r] \in {"removing_file", "deleting_rows", "committing"} => Over(target[r])
  /\ dpc[r] \in {"deleting_rows", "committing"} /\ CanRead(target[r])
       => target[r] \notin pdf

StreamKnows(s) ==
  /\ spc[s] = "ended" =>
       /\ Over(watched[s])
       /\ told[s] # Nothing /\ told[s][1] = "failed"
       /\ Exists(jobs[watched[s]]) => told[s] = ImportJobEventKey(jobs[watched[s]])
  /\ spc[s] = "broken" =>
       Over(watched[s]) /\ jobs[watched[s]].status \in {"done", "none"}

\* A lone worker reopens no job, so a row with metadata is one that is done.
SavedWhenDone(row) == row.metadata <=> row.status = "done"

DeletionInv ==
  /\ DeletionTypeOK
  /\ \A w \in Workers : WorkerHas(w)
  /\ \A j \in gone : GoneForGood(j)
  /\ \A j \in Jobs : jobs[j].status \in Active => j \in pdf
  /\ \A j \in Jobs : SavedWhenDone(jobs[j])
  /\ \A r \in Requests : DeletionKnows(r)
  /\ \A s \in Streams : StreamKnows(s)

(***************************************************************************)
(* What every step but a deletion's leaves of the jobs that are over.      *)
(***************************************************************************)
Settled ==
  /\ \A j \in Jobs : Over(j) => jobs'[j] = jobs[j]
  /\ \A j \in Jobs : Exists(jobs[j]) => Exists(jobs'[j])
  /\ \A j \in gone : drafts'[j] = drafts[j] /\ committed'[j] = committed[j]
  /\ \A j \in Jobs : Over(j) /\ j \in pdf' => j \in pdf
  /\ \A j \in Jobs : jobs'[j].status \in Active => j \in pdf'
  /\ \A j \in Jobs : SavedWhenDone(jobs'[j])

\* With the rest of the state as it was, that keeps all but the worker's
\* part of the invariant.
LEMMA SettledKeeps ==
  ASSUME DeletionInv, DeletionTypeOK', Settled, UNCHANGED others,
         \A w \in Workers : WorkerHas(w)'
  PROVE  DeletionInv'
<1>1. /\ gone \subseteq Jobs /\ target \in [Requests -> Jobs]
      /\ watched \in [Streams -> Jobs] /\ place' = place /\ gone' = gone
      /\ dpc' = dpc /\ target' = target
      /\ spc' = spc /\ watched' = watched /\ told' = told
  BY DEF DeletionInv, DeletionTypeOK, others, requests, streams
<1>2. \A j \in gone : GoneForGood(j)'
  <2>1. ASSUME NEW j \in gone PROVE GoneForGood(j)'
    <3>1. j \in Jobs /\ Over(j) /\ GoneForGood(j)
      BY <1>1 DEF Over, DeletionInv
    <3> QED BY <1>1, <3>1 DEF Settled, GoneForGood, CanRead
  <2> QED BY <2>1
<1>3. ASSUME NEW r \in Requests PROVE DeletionKnows(r)'
  <2>1. target[r] \in Jobs /\ DeletionKnows(r)
    BY <1>1 DEF DeletionInv
  <2> QED BY <1>1, <2>1 DEF Settled, DeletionKnows, Over, CanRead
<1>4. ASSUME NEW s \in Streams PROVE StreamKnows(s)'
  <2>1. watched[s] \in Jobs /\ StreamKnows(s)
    BY <1>1 DEF DeletionInv
  <2> QED BY <1>1, <2>1 DEF Settled, StreamKnows, Over
<1>5. \A j \in gone' : GoneForGood(j)'
  BY <1>1, <1>2
<1> QED BY <1>3, <1>4, <1>5 DEF DeletionInv, Settled

(***************************************************************************)
(* The worker.                                                             *)
(***************************************************************************)

\* The updates of a call give its row, which exists, a status.
LEMMA EndStatus ==
  ASSUME NEW r \in Row, Exists(r)
  PROVE  /\ SaveResult(r).status = "done" /\ SaveResult(r).metadata
         /\ MarkPendingForRetry(r).metadata = r.metadata
         /\ \A e : MarkFailed(r, e).metadata = r.metadata
         /\ MarkPendingForRetry(r).status = "pending"
         /\ \A e : MarkFailed(r, e).status = "failed"
         /\ \A step : /\ SameClaim(r, MarkStep(r, step))
                      /\ SameClaim(r, MarkStep(SaveAgentInput(r), step))
                      /\ SameClaim(r, MarkStep(SaveAgentOutput(r), step))
BY SavedColumns DEF MarkPendingForRetry, MarkFailed, Unlock, SameClaim, MarkStep,
   SaveAgentInput, SaveAgentOutput, Row, Exists

\* An attempt ends with metadata exactly when it ends with a result.
LEMMA EndSaved ==
  ASSUME NEW r \in Row, Exists(r), r.metadata = FALSE
  PROVE  /\ Exists(SaveResult(r)) /\ SavedWhenDone(SaveResult(r))
         /\ Exists(MarkPendingForRetry(r)) /\ SavedWhenDone(MarkPendingForRetry(r))
         /\ \A e : Exists(MarkFailed(r, e)) /\ SavedWhenDone(MarkFailed(r, e))
<1>1. /\ SaveResult(r).status = "done" /\ SaveResult(r).metadata
      /\ MarkPendingForRetry(r).metadata = r.metadata
      /\ MarkPendingForRetry(r).status = "pending"
      /\ \A e : MarkFailed(r, e).metadata = r.metadata
      /\ \A e : MarkFailed(r, e).status = "failed"
  BY EndStatus
<1> QED BY <1>1 DEF Exists, SavedWhenDone

\* A step that changes one row, which is active, and no file.
LEMMA ActiveSettled ==
  ASSUME DeletionInv, NEW j \in Jobs, jobs[j].status \in Active,
         NEW row, jobs' = [jobs EXCEPT ![j] = row], Exists(row),
         SavedWhenDone(row), pdf' = pdf,
         \A k \in gone : drafts'[k] = drafts[k] /\ committed'[k] = committed[k]
  PROVE  Settled
<1>1. jobs \in [Jobs -> Row] /\ jobs'[j] = row
      /\ \A k \in Jobs \ {j} : jobs'[k] = jobs[k]
  BY DEF DeletionInv, DeletionTypeOK, TypeOK
<1>2. Exists(jobs[j]) /\ ~Over(j) /\ j \in pdf
  BY DEF DeletionInv, GoneForGood, Over, Exists, Active, Terminal
<1> QED BY <1>1, <1>2 DEF Settled, DeletionInv

\* A step that changes neither rows nor transactions, and no file but one
\* of a job that is over.
LEMMA IdleSettled ==
  ASSUME DeletionInv, UNCHANGED <<jobs, drafts, committed>>,
         \/ pdf' = pdf
         \/ \E j \in Jobs : Over(j) /\ pdf' = pdf \ {j}
  PROVE  Settled
<1>1. ASSUME NEW j \in Jobs, Over(j), pdf' = pdf \ {j}
      PROVE  \A k \in Jobs : jobs'[k].status \in Active => k \in pdf'
  BY <1>1 DEF DeletionInv, Over, GoneForGood, Exists, Active, Terminal
<1> QED BY <1>1 DEF Settled, DeletionInv

LEMMA CallSettles ==
  ASSUME DeletionInv, NEW w \in Workers, Call(w), UNCHANGED others
  PROVE  Settled /\ WorkerHas(w)'
<1> DEFINE j == job[w]
           r == RowOf(w)
<1>1. /\ j \in Jobs /\ r \in Row /\ r = jobs[j] /\ WorkerHas(w)
      /\ pc \in [Workers -> PCs] /\ jobs \in [Jobs -> Row]
  BY DEF DeletionInv, DeletionTypeOK, TypeOK, RowOf
<1>2. job' = job
  BY ProcessLocals DEF Call
<1>3. pc[w] \in Holding =>
        /\ r.status = "processing" /\ Exists(r) /\ jobs[j].status \in Active
        /\ j \notin gone /\ r.metadata = FALSE
  BY <1>1 DEF WorkerHas, Exists, Active, DeletionInv, GoneForGood, SavedWhenDone, Row
<1>4. ~ClaimById(w) /\ ~CloseInterrupted(w)
  BY <1>1 DEF WorkerHas, ClaimById, CloseInterrupted
<1>5. ASSUME NEW row, Update(w, row), Exists(row), SavedWhenDone(row),
             pc[w] \in Holding, pdf' = pdf, UNCHANGED <<drafts, committed>>
      PROVE  Settled /\ RowOf(w)' = row
  <2>1. jobs' = [jobs EXCEPT ![j] = row]
    BY <1>5 DEF Update
  <2>2. RowOf(w)' = row
    BY <1>1, <1>2, <2>1 DEF RowOf
  <2> QED BY <1>1, <1>3, <1>5, <2>1, <2>2, ActiveSettled
<1>6. CASE LoadJob(w)
  <2>1. pc'[w] = "starting" /\ pc[w] = "loading_job"
    BY <1>1, <1>6 DEF LoadJob, WorkerHas, Holding, Goto, Terminal
  <2>2. UNCHANGED <<jobs, pdf, drafts, committed>>
    BY <1>6 DEF LoadJob, tables
  <2> QED BY <1>1, <1>2, <2>1, <2>2, IdleSettled DEF WorkerHas, Holding, RowOf
<1>7. CASE ReadPdf(w) \/ AgentReturns(w) \/ CheckCommitted(w) \/ RaiseTemporary(w)
  <2>1. pc'[w] \in InTry \cup Handlers /\ pc[w] \in Holding
    BY <1>1, <1>7 DEF ReadPdf, AgentReturns, CheckCommitted, RaiseTemporary,
       Holding, InTry, Handlers, Goto
  <2>2. UNCHANGED <<jobs, pdf, drafts, committed>>
    BY <1>7 DEF ReadPdf, AgentReturns, CheckCommitted, RaiseTemporary, tables
  <2> QED BY <1>1, <1>2, <2>1, <2>2, IdleSettled
          DEF WorkerHas, Holding, RowOf, InTry, Handlers
<1>8. CASE Start(w) \/ SaveInput(w) \/ AgentProgress(w) \/ SaveOutput(w)
  <2>1. /\ UNCHANGED <<pdf, drafts, committed>>
        /\ pc[w] \in Holding /\ pc'[w] \in InTry \cup Handlers
    BY <1>1, <1>8 DEF Start, SaveInput, AgentProgress, SaveOutput, Holding,
       InTry, Handlers, Goto, locals
  <2>2. PICK row : Update(w, row) /\ SameClaim(r, row)
    BY <1>1, <1>3, <1>8, <2>1, EndStatus DEF Start, SaveInput, AgentProgress,
       SaveOutput
  <2>3. /\ Exists(row) /\ row.status = "processing" /\ row.lockedBy = w
        /\ SavedWhenDone(row)
    BY <1>1, <1>3, <2>1, <2>2 DEF SameClaim, Exists, WorkerHas, SavedWhenDone
  <2>4. Settled /\ RowOf(w)' = row
    BY <1>5, <2>1, <2>2, <2>3
  <2> QED BY <2>1, <2>3, <2>4 DEF WorkerHas, Holding, InTry, Handlers
<1>9. CASE SaveDrafts(w)
  <2>1. pc[w] \in Holding
    BY <1>9 DEF SaveDrafts, Holding, InTry
  <2>2. /\ jobs' = [jobs EXCEPT ![j] = SaveResult(r)] /\ pc'[w] = "cleaning_up"
        /\ pdf' = pdf /\ committed' = committed
        /\ drafts' = [drafts EXCEPT ![j] = CreateMany(DeleteDrafts(@))]
    BY <1>1, <1>3, <1>9, <2>1 DEF SaveDrafts, Goto, Update
  <2>3. \A k \in gone : drafts'[k] = drafts[k] /\ committed'[k] = committed[k]
    BY <1>3, <2>1, <2>2 DEF DeletionInv, DeletionTypeOK, TypeOK
  <2>4. /\ SaveResult(r).status = "done" /\ Exists(SaveResult(r))
        /\ SavedWhenDone(SaveResult(r))
    BY <1>1, <1>3, <2>1, EndStatus, EndSaved
  <2>5. Settled
    BY <1>1, <1>3, <2>1, <2>2, <2>3, <2>4, ActiveSettled
  <2>6. Over(job[w])'
    BY <1>1, <1>2, <2>2, <2>4 DEF Over, Terminal
  <2> QED BY <2>2, <2>5, <2>6 DEF WorkerHas, Holding, InTry, Handlers
<1>10. CASE Reject(w)
  <2>1. /\ pc[w] \in Holding /\ pc'[w] = "cleaning_up"
        /\ UNCHANGED <<pdf, drafts, committed>>
        /\ Update(w, MarkFailed(r, "file rejected"))
    BY <1>1, <1>10 DEF Reject, Holding, Handlers, Goto
  <2>2. \A e : /\ MarkFailed(r, e).status = "failed" /\ Exists(MarkFailed(r, e))
              /\ SavedWhenDone(MarkFailed(r, e))
    <3>1. r \in Row /\ Exists(r) /\ r.metadata = FALSE
      BY <1>1, <1>3, <2>1, Zenon
    <3>2. \A e : MarkFailed(r, e).status = "failed"
      BY <3>1, EndStatus
    <3>3. \A e : Exists(MarkFailed(r, e)) /\ SavedWhenDone(MarkFailed(r, e))
      BY <3>1, EndSaved
    <3> QED BY <3>2, <3>3
  <2>3. Settled /\ RowOf(w)' = MarkFailed(r, "file rejected")
    BY <1>5, <2>1, <2>2
  <2>4. Over(job[w])'
    BY <2>2, <2>3 DEF Over, Terminal, RowOf
  <2> QED BY <2>1, <2>3, <2>4 DEF WorkerHas, Holding, InTry, Handlers
<1>11. CASE RequeueOrFail(w)
  <2>1. /\ pc[w] \in Holding /\ pc'[w] \in Outcomes
        /\ UNCHANGED <<pdf, drafts, committed>>
    BY <1>1, <1>11 DEF RequeueOrFail, Holding, Handlers, Goto, Return, Outcomes
  <2>2. PICK row : Update(w, row) /\ Exists(row) /\ SavedWhenDone(row)
    <3>1. r \in Row /\ Exists(r) /\ r.metadata = FALSE
      BY <1>1, <1>3, <2>1, Zenon
    <3>2. CASE final[w]
      <4>1. \E e : Update(w, MarkFailed(r, e))
        BY <1>11, <3>2, Zenon DEF RequeueOrFail
      <4> QED BY <3>1, <4>1, EndSaved
    <3>3. CASE ~final[w]
      <4>1. Update(w, MarkPendingForRetry(r))
        BY <1>11, <3>3, Zenon DEF RequeueOrFail
      <4> QED BY <3>1, <4>1, EndSaved
    <3> QED BY <3>2, <3>3
  <2>3. Settled
    BY <1>5, <2>1, <2>2
  <2> QED BY <2>1, <2>3 DEF WorkerHas, Holding, InTry, Handlers, Outcomes
<1>12. CASE CleanUp(w)
  <2>1. /\ UNCHANGED <<jobs, drafts, committed>> /\ pdf' \in {pdf, pdf \ {j}}
        /\ pc'[w] = "done" /\ Over(j)
    BY <1>1, <1>12 DEF CleanUp, Goto, Return, WorkerHas
  <2>2. Settled
    BY <1>1, <2>1, IdleSettled
  <2> QED BY <2>1, <2>2 DEF WorkerHas, Holding, InTry, Handlers
<1> QED
  BY <1>4, <1>6, <1>7, <1>8, <1>9, <1>10, <1>11, <1>12 DEF Call, ProcessStep, Advance

LEMMA WorkerInv ==
  ASSUME DeletionInv, NEW w \in Workers, WorkerStep(w)
  PROVE  DeletionInv' /\ Settled
<1>1. /\ jobs \in [Jobs -> Row] /\ pc \in [Workers -> PCs] /\ job[w] \in Jobs
      /\ job \in [Workers -> Jobs] /\ WorkerHas(w) /\ UNCHANGED others
  BY DEF DeletionInv, DeletionTypeOK, TypeOK, WorkerStep
<1>2. ASSUME Call(w) PROVE Settled /\ WorkerHas(w)'
  BY <1>1, <1>2, CallSettles
<1>3. ASSUME SelectCandidate(w) PROVE Settled /\ WorkerHas(w)'
  <2>1. PICK j \in Jobs : IsCandidate(jobs[j]) /\ job' = [job EXCEPT ![w] = j]
    BY <1>3 DEF SelectCandidate, Candidates
  <2>2. /\ UNCHANGED <<jobs, pdf, drafts, committed>> /\ pc'[w] = "selected"
        /\ job'[w] = j
    BY <1>1, <1>3, <2>1 DEF SelectCandidate, Goto, tables
  <2> QED BY <2>1, <2>2, IdleSettled
          DEF WorkerHas, IsCandidate, Active, RowOf, Holding, InTry, Handlers
<1>4. ASSUME ClaimSelected(w) PROVE Settled /\ WorkerHas(w)'
  <2>1. job' = job /\ UNCHANGED <<pdf, drafts, committed>> /\ RowOf(w) = jobs[job[w]]
        /\ RowOf(w).status \in Active
    BY <1>1, <1>4 DEF ClaimSelected, RowOf, WorkerHas
  <2>2. CASE ClaimNextMatches(RowOf(w))
    <3>1. /\ jobs' = [jobs EXCEPT ![job[w]] = Lock(RowOf(w), w)]
          /\ pc'[w] = "loading_job"
      BY <1>1, <1>4, <2>2 DEF ClaimSelected, Update, Goto
    <3>2. /\ Lock(RowOf(w), w).status = "processing" /\ Lock(RowOf(w), w).lockedBy = w
          /\ Lock(RowOf(w), w).metadata = RowOf(w).metadata
      BY <1>1, <2>1 DEF Lock, CountAttempt, Row
    <3>5. SavedWhenDone(Lock(RowOf(w), w))
      BY <1>1, <2>1, <3>2 DEF DeletionInv, SavedWhenDone, Active
    <3>3. Settled
      BY <1>1, <2>1, <3>1, <3>2, <3>5, ActiveSettled DEF Exists
    <3>4. RowOf(w)' = Lock(RowOf(w), w)
      BY <1>1, <2>1, <3>1 DEF RowOf
    <3> QED BY <3>1, <3>2, <3>3, <3>4 DEF WorkerHas
  <2>3. CASE ~ClaimNextMatches(RowOf(w))
    <3>1. jobs' = jobs /\ pc'[w] = "polling"
      BY <1>1, <1>4, <2>3 DEF ClaimSelected, Goto
    <3> QED BY <2>1, <3>1, IdleSettled DEF WorkerHas, Holding, InTry, Handlers
  <2> QED BY <2>2, <2>3
<1>5. ASSUME Crash(w) \/ Restart(w) PROVE Settled /\ WorkerHas(w)'
  <2>1. UNCHANGED <<jobs, pdf, drafts, committed>> /\ pc'[w] \in {"down", "polling"}
    BY <1>1, <1>5 DEF Crash, Restart, Goto, tables
  <2> QED BY <2>1, IdleSettled DEF WorkerHas, Holding, InTry, Handlers
<1>6. Settled /\ WorkerHas(w)'
  BY <1>2, <1>3, <1>4, <1>5 DEF WorkerStep, Poll
<1>7. DeletionTypeOK'
  <2>1. TypeOK'
    BY TypeStep DEF DeletionInv, DeletionTypeOK, WorkerStep, Next
  <2> QED BY <1>1, <2>1 DEF DeletionInv, DeletionTypeOK, others, requests, streams
<1>8. \A v \in Workers : WorkerHas(v)'
  BY <1>6, SoleWorkerAssumption DEF Workers
<1> QED BY <1>1, <1>6, <1>7, <1>8, SettledKeeps

(***************************************************************************)
(* Uploads, reviews and time.                                              *)
(***************************************************************************)
LEMMA UserInv ==
  ASSUME DeletionInv,
         \E j \in Jobs :
           \/ UploadNew(j)
           \/ \E l \in Lines : ReviewLines(j, l)
           \/ LockAges(j) /\ UNCHANGED <<selected, crashes, others>>
  PROVE  DeletionInv' /\ Settled
<1>1. /\ jobs \in [Jobs -> Row] /\ job \in [Workers -> Jobs]
      /\ gone \subseteq Jobs
      /\ drafts \in [Jobs -> [Lines -> Nat]] /\ committed \in [Jobs -> [Lines -> Nat]]
  BY DEF DeletionInv, DeletionTypeOK, TypeOK
<1>2. UNCHANGED <<pc, job, final, selected, crashes, others>>
  BY DEF UploadNew, Upload, ReviewLines, AcceptDraft, ReopenDraft,
     DeleteTransaction, LockAges, locals
<1>3. [Next]_vars
  BY DEF UploadNew, ReviewLines, Next, Environment, UserStep
<1>4. DeletionTypeOK'
  <2>1. TypeOK'
    BY <1>3, TypeStep DEF DeletionInv, DeletionTypeOK
  <2> QED BY <1>2, <2>1 DEF DeletionInv, DeletionTypeOK, others, requests, streams
<1>5. ASSUME NEW j \in Jobs, UploadNew(j)
      PROVE  Settled /\ \A w \in Workers : WorkerHas(w)'
  <2>1. ~Exists(jobs[j]) /\ j \notin gone
    BY <1>5, JobsAssumption DEF UploadNew, Upload
  <2>2. /\ jobs' = [jobs EXCEPT ![j] = CreatePending] /\ pdf' = pdf \cup {j}
        /\ UNCHANGED <<drafts, committed>>
    BY <1>5 DEF UploadNew, Upload
  <2>3. ~Over(j) /\ Exists(CreatePending) /\ SavedWhenDone(CreatePending)
    BY <2>1 DEF Over, Exists, Terminal, CreatePending, NoRow, SavedWhenDone
  <2>4. Settled
    BY <1>1, <2>1, <2>2, <2>3 DEF Settled, DeletionInv
  <2>5. ASSUME NEW w \in Workers PROVE WorkerHas(w)'
    <3>1. WorkerHas(w) /\ job[w] \in Jobs
      BY <1>1 DEF DeletionInv
    <3>2. CASE job[w] # j
      BY <1>1, <1>2, <2>2, <3>1, <3>2 DEF WorkerHas, RowOf, Over, others
    <3>3. CASE job[w] = j
      BY <1>2, <2>1, <2>3, <3>1, <3>3 DEF WorkerHas, RowOf, Exists, Active
    <3> QED BY <3>2, <3>3
  <2> QED BY <2>4, <2>5
<1>6. ASSUME NEW j \in Jobs, NEW l \in Lines, ReviewLines(j, l)
      PROVE  Settled /\ \A w \in Workers : WorkerHas(w)'
  <2>1. UNCHANGED <<jobs, pdf>>
    BY <1>6 DEF ReviewLines, AcceptDraft, ReopenDraft, DeleteTransaction
  <2>2. drafts[j][l] > 0 \/ committed[j][l] > 0
    BY <1>6 DEF ReviewLines, AcceptDraft, ReopenDraft, DeleteTransaction
  <2>3. j \notin gone
    BY <2>2 DEF DeletionInv, GoneForGood, NoLines
  <2>4. \A k \in Jobs \ {j} : drafts'[k] = drafts[k] /\ committed'[k] = committed[k]
    BY <1>1, <1>6 DEF ReviewLines, AcceptDraft, ReopenDraft, DeleteTransaction
  <2>5. Settled
    BY <1>1, <2>1, <2>3, <2>4 DEF Settled, DeletionInv
  <2>6. \A w \in Workers : WorkerHas(w)'
    BY <1>2, <2>1 DEF DeletionInv, WorkerHas, RowOf, Over, others
  <2> QED BY <2>5, <2>6
<1>7. ASSUME NEW j \in Jobs, LockAges(j)
      PROVE  Settled /\ \A w \in Workers : WorkerHas(w)'
  <2>1. /\ jobs' = [jobs EXCEPT ![j] = Age(jobs[j])]
        /\ UNCHANGED <<pdf, drafts, committed>> /\ jobs[j].status \in Active
    BY <1>7 DEF LockAges, Active
  <2>2. /\ Age(jobs[j]).status = jobs[j].status
        /\ Age(jobs[j]).lockedBy = jobs[j].lockedBy
        /\ SavedWhenDone(Age(jobs[j]))
    BY <1>1 DEF Age, Row, DeletionInv, SavedWhenDone
  <2>3. Settled
    BY <1>1, <2>1, <2>2, ActiveSettled DEF Exists, Active
  <2>4. \A k \in Jobs : /\ jobs'[k].status = jobs[k].status
                        /\ jobs'[k].lockedBy = jobs[k].lockedBy
    BY <1>1, <2>1, <2>2
  <2>5. \A w \in Workers : WorkerHas(w)'
    BY <1>1, <1>2, <2>4 DEF DeletionInv, WorkerHas, RowOf, Over, others
  <2> QED BY <2>3, <2>5
<1>8. Settled /\ \A w \in Workers : WorkerHas(w)'
  BY <1>5, <1>6, <1>7
<1> QED BY <1>2, <1>4, <1>8, SettledKeeps

(***************************************************************************)
(* Deletions.                                                              *)
(***************************************************************************)

\* A deletion that has found its job over keeps that as its only ground.
LEMMA DeletionStepInv ==
  ASSUME DeletionInv, NEW r \in Requests, DeletionStep(r)
  PROVE  /\ DeletionInv'
         /\ \A j \in Jobs : Exists(jobs[j]) /\ ~Exists(jobs'[j])
              => jobs[j].status \in Terminal
<1> DEFINE t == target[r]
<1>1. /\ t \in Jobs /\ jobs \in [Jobs -> Row] /\ gone \subseteq Jobs
      /\ dpc \in [Requests -> DeletionSteps \cup Answers] /\ pdf \subseteq Jobs
      /\ drafts \in [Jobs -> [Lines -> Nat]] /\ committed \in [Jobs -> [Lines -> Nat]]
      /\ place \in [Jobs -> Places] /\ target \in [Requests -> Jobs]
      /\ watched \in [Streams -> Jobs] /\ job \in [Workers -> Jobs]
      /\ DeletionKnows(r)
  BY DEF DeletionInv, DeletionTypeOK, TypeOK
<1>2. UNCHANGED <<locals, selected, crashes, place, target, streams>>
  BY DEF DeletionStep, CheckDeletion, RemoveFile, DeleteRows, CommitDeletion,
     worker, tables
<1>3. ASSUME NEW next \in DeletionSteps \cup Answers,
             DeletionGoto(r, next), UNCHANGED <<jobs, drafts, committed, gone>>,
             pdf' = pdf \/ (Over(t) /\ pdf' = pdf \ {t}),
             next \in {"removing_file", "deleting_rows", "committing"} => Over(t),
             next \in {"deleting_rows", "committing"} /\ CanRead(t) => t \notin pdf'
      PROVE  DeletionInv'
  <2>1. dpc'[r] = next /\ \A q \in Requests \ {r} : dpc'[q] = dpc[q]
    BY <1>1, <1>3 DEF DeletionGoto
  <2>2. DeletionTypeOK'
    BY <1>1, <1>2, <1>3 DEF DeletionGoto, DeletionInv, DeletionTypeOK, TypeOK,
       locals, streams
  <2>3. \A w \in Workers : WorkerHas(w)'
    BY <1>2, <1>3 DEF DeletionInv, WorkerHas, RowOf, Over, locals
  <2>4. \A j \in gone' : GoneForGood(j)'
    BY <1>2, <1>3 DEF DeletionInv, GoneForGood, CanRead
  <2>5. ASSUME NEW j \in Jobs, jobs'[j].status \in Active PROVE j \in pdf'
    BY <1>3, <2>5 DEF DeletionInv, Over, GoneForGood, Active, Terminal, Exists
  <2>6. ASSUME NEW q \in Requests PROVE DeletionKnows(q)'
    <3>1. CASE q = r
      BY <1>2, <1>3, <2>1, <3>1 DEF DeletionKnows, Over, CanRead
    <3>2. CASE q # r
      BY <1>2, <1>3, <2>1, <3>2 DEF DeletionInv, DeletionKnows, Over, CanRead
    <3> QED BY <3>1, <3>2
  <2>7. \A s \in Streams : StreamKnows(s)'
    BY <1>2, <1>3 DEF DeletionInv, StreamKnows, Over, streams
  <2>8. \A j \in Jobs : SavedWhenDone(jobs'[j])
    BY <1>3 DEF DeletionInv
  <2> QED BY <2>2, <2>3, <2>4, <2>5, <2>6, <2>7, <2>8 DEF DeletionInv
<1>4. CASE CheckDeletion(r)
  <2>1. PICK next \in {"404", "409", "removing_file"} :
          /\ DeletionGoto(r, next)
          /\ next = "removing_file" => Exists(jobs[t]) /\ jobs[t].status \notin Active
    BY <1>4 DEF CheckDeletion
  <2>2. next = "removing_file" => Over(t)
    BY <1>1, <2>1 DEF Over, Exists, Row, Statuses
  <2>3. UNCHANGED <<jobs, pdf, drafts, committed, gone>>
    BY <1>4 DEF CheckDeletion, worker, tables
  <2>4. next \in DeletionSteps \cup Answers
    BY <2>1 DEF DeletionSteps, Answers
  <2>5. DeletionInv'
    BY <1>3, <2>1, <2>2, <2>3, <2>4
  <2> QED BY <2>3, <2>5
<1>5. CASE RemoveFile(r)
  <2>1. Over(t) /\ UNCHANGED <<jobs, drafts, committed, gone>>
    BY <1>1, <1>5 DEF RemoveFile, DeletionKnows
  <2>2. CASE DeletionGoto(r, "deleting_rows") /\ pdf' = DeleteIfExists(t)
    <3>1. /\ pdf' = pdf \/ pdf' = pdf \ {t}
          /\ CanRead(t) => t \notin pdf'
      BY <2>2 DEF DeleteIfExists, CanRead, PassedOver
    <3> QED BY <1>3, <2>1, <2>2, <3>1 DEF DeletionSteps
  <2>3. CASE DeletionGoto(r, "500") /\ pdf' \in {pdf, pdf \ {t}}
    BY <1>3, <2>1, <2>3 DEF Answers
  <2>4. \/ DeletionGoto(r, "deleting_rows") /\ pdf' = DeleteIfExists(t)
        \/ DeletionGoto(r, "500") /\ pdf' \in {pdf, pdf \ {t}}
    BY <1>5 DEF RemoveFile
  <2> QED BY <2>1, <2>2, <2>3, <2>4
<1>6. CASE DeleteRows(r)
  <2>1. Over(t) /\ (CanRead(t) => t \notin pdf)
    BY <1>1, <1>6 DEF DeleteRows, DeletionKnows
  <2>2. UNCHANGED <<jobs, pdf, drafts, committed, gone>>
    BY <1>6 DEF DeleteRows, worker, tables
  <2>3. PICK next \in {"committing", "500"} : DeletionGoto(r, next)
    BY <1>6 DEF DeleteRows
  <2>4. DeletionInv'
    BY <1>3, <2>1, <2>2, <2>3 DEF DeletionSteps, Answers
  <2> QED BY <2>2, <2>4
<1>7. CASE CommitDeletion(r)
  <2>1. Over(t) /\ (CanRead(t) => t \notin pdf) /\ pdf' = pdf
    BY <1>1, <1>7 DEF CommitDeletion, DeletionKnows
  <2>2. CASE DeletionGoto(r, "rolled_back") /\ UNCHANGED <<jobs, drafts, committed, gone>>
    BY <1>3, <2>1, <2>2 DEF Answers
  <2>3. CASE /\ jobs' = [jobs EXCEPT ![t] = NoRow]
             /\ drafts' = [drafts EXCEPT ![t] = NoLines]
             /\ committed' = [committed EXCEPT ![t] = NoLines]
             /\ gone' = gone \cup {t}
             /\ DeletionGoto(r, "204")
    <3>1. /\ NoRow \in Row /\ ~Exists(NoRow) /\ NoRow.status = "none"
          /\ NoLines \in [Lines -> Nat] /\ SavedWhenDone(NoRow)
      BY NewRows DEF Exists, NoRow, NoLines, SavedWhenDone
    <3>2. /\ jobs'[t] = NoRow /\ drafts'[t] = NoLines /\ committed'[t] = NoLines
          /\ \A j \in Jobs \ {t} : /\ jobs'[j] = jobs[j] /\ drafts'[j] = drafts[j]
                                   /\ committed'[j] = committed[j]
      BY <1>1, <2>3
    <3>3. /\ \A j \in Jobs : Over(j) => Over(j)'
           /\ Over(target[r])'
      BY <1>2, <2>3, <3>2 DEF Over
    <3>4. DeletionTypeOK'
      BY <1>1, <1>2, <2>1, <2>3, <3>1 DEF DeletionGoto, DeletionInv,
         DeletionTypeOK, TypeOK, locals, streams, Answers
    <3>5. ASSUME NEW w \in Workers PROVE WorkerHas(w)'
      <4>1. WorkerHas(w) /\ job[w] \in Jobs /\ UNCHANGED <<pc, job>>
        BY <1>1, <1>2 DEF DeletionInv, locals
      <4>2. CASE job[w] # t
        BY <3>2, <3>3, <4>1, <4>2 DEF WorkerHas, RowOf
      <4>3. CASE job[w] = t
        <5>1. jobs[t].status \notin Active
          BY <2>1 DEF Over, Active, Terminal, DeletionInv, GoneForGood, Exists
        <5> QED BY <1>2, <3>2, <3>3, <4>1, <4>3, <5>1 DEF WorkerHas, RowOf, Active
      <4> QED BY <4>2, <4>3
    <3>6. ASSUME NEW j \in gone' PROVE GoneForGood(j)'
      <4>1. CASE j = t
        BY <1>2, <2>1, <3>1, <3>2, <4>1 DEF GoneForGood, CanRead
      <4>2. CASE j # t
        BY <1>1, <1>2, <2>1, <2>3, <3>2, <4>2 DEF DeletionInv, GoneForGood, CanRead
      <4> QED BY <4>1, <4>2
    <3>7. \A j \in Jobs : jobs'[j].status \in Active => j \in pdf'
      BY <2>1, <3>1, <3>2 DEF DeletionInv, Active
    <3>8. ASSUME NEW q \in Requests PROVE DeletionKnows(q)'
      <4>1. dpc'[q] = dpc[q] \/ dpc'[q] = "204"
        BY <1>1, <2>3 DEF DeletionGoto
      <4> QED BY <1>1, <1>2, <2>1, <3>2, <3>3, <4>1 DEF DeletionInv, DeletionKnows, CanRead
    <3>9. \A s \in Streams : StreamKnows(s)'
      BY <1>1, <1>2, <3>1, <3>2, <3>3 DEF DeletionInv, StreamKnows, streams
    <3>10. ASSUME NEW j \in Jobs, Exists(jobs[j]), ~Exists(jobs'[j])
          PROVE  jobs[j].status \in Terminal
      BY <2>1, <3>2, <3>10 DEF Over, DeletionInv, GoneForGood
    <3>11. \A j \in Jobs : SavedWhenDone(jobs'[j])
      BY <3>1, <3>2 DEF DeletionInv
    <3> QED BY <3>4, <3>5, <3>6, <3>7, <3>8, <3>9, <3>10, <3>11 DEF DeletionInv
  <2> QED BY <1>7, <2>2, <2>3 DEF CommitDeletion
<1> QED BY <1>4, <1>5, <1>6, <1>7 DEF DeletionStep

LEMMA AskInv ==
  ASSUME DeletionInv, NEW r \in Requests, NEW j \in Jobs, AskDeletion(r, j)
  PROVE  DeletionInv' /\ jobs' = jobs
<1>1. /\ UNCHANGED <<jobs, pdf, drafts, committed, pc, job, final, selected, crashes>>
      /\ UNCHANGED <<place, gone, spc, watched, told>>
      /\ dpc' = [dpc EXCEPT ![r] = "loading_job"]
      /\ target' = [target EXCEPT ![r] = j]
  BY DEF AskDeletion, worker, tables, locals, streams, DeletionGoto
<1>2. DeletionTypeOK'
  BY <1>1 DEF DeletionInv, DeletionTypeOK, TypeOK, DeletionSteps
<1>3. \A q \in Requests : DeletionKnows(q)'
  BY <1>1 DEF DeletionInv, DeletionTypeOK, DeletionKnows, Over, CanRead
<1>4. /\ \A w \in Workers : WorkerHas(w)'
      /\ \A k \in gone' : GoneForGood(k)'
      /\ \A k \in Jobs : jobs'[k].status \in Active => k \in pdf'
      /\ \A k \in Jobs : SavedWhenDone(jobs'[k])
      /\ \A s \in Streams : StreamKnows(s)'
  BY <1>1 DEF DeletionInv, WorkerHas, RowOf, GoneForGood, StreamKnows, Over, CanRead
<1> QED BY <1>1, <1>2, <1>3, <1>4 DEF DeletionInv

(***************************************************************************)
(* Streams and deployments.                                                *)
(***************************************************************************)
LEMMA EventKeyTyped ==
  ASSUME NEW row \in Row
  PROVE  /\ ImportJobEventKey(row) \in EventKeys
         /\ ImportJobEventKey(row) # Nothing
         /\ ImportJobEventKey(row)[1] = row.status
<1> DEFINE seen == [status |-> row.status, step |-> row.step, error |-> row.error,
                    finishedAt |-> row.finishedAt]
<1>1. seen \in [status : Statuses, step : Steps, error : Errors,
                finishedAt : {"null", "set"}]
  BY DEF Row
<1>2. ImportJobEventKey(row) = ImportJobEventKey(seen)
  BY DEF ImportJobEventKey
<1>3. ImportJobEventKey(row) \in EventKeys
  BY <1>1, <1>2 DEF EventKeys
<1> QED BY <1>3 DEF ImportJobEventKey, Nothing

LEMMA StreamInv ==
  ASSUME DeletionInv, NEW s \in Streams,
         (\E j \in Jobs : OpenStream(s, j)) \/ Observe(s) \/ Disconnect(s)
  PROVE  DeletionInv' /\ jobs' = jobs
<1>1. UNCHANGED <<jobs, pdf, drafts, committed, pc, job, final, selected, crashes,
                  place, gone, dpc, target>>
  BY DEF OpenStream, Observe, Disconnect, worker, tables, locals, requests
<1>2. /\ spc \in [Streams -> StreamStates]
      /\ watched \in [Streams -> Jobs] /\ jobs \in [Jobs -> Row]
      /\ told \in [Streams -> EventKeys \cup {Nothing}]
      /\ jobs[watched[s]] \in Row
  BY DEF DeletionInv, DeletionTypeOK, TypeOK
<1>3. /\ spc' \in [Streams -> StreamStates]
      /\ watched' \in [Streams -> Jobs]
      /\ told' \in [Streams -> EventKeys \cup {Nothing}]
      /\ \A v \in Streams \ {s} : /\ spc'[v] = spc[v] /\ watched'[v] = watched[v]
                                  /\ told'[v] = told[v]
  BY <1>2, EventKeyTyped DEF OpenStream, Observe, Disconnect, StreamGoto, StreamStates
<1>4. StreamKnows(s)'
  <2>1. CASE spc'[s] \notin {"ended", "broken"}
    BY <2>1 DEF StreamKnows
  <2>2. CASE spc'[s] = "ended"
    <3>1. /\ Observe(s) /\ watched' = watched
          /\ told'[s] = ImportJobEventKey(jobs[watched[s]])
          /\ jobs[watched[s]].status \in Terminal
          /\ CanDump(jobs[watched[s]])
      BY <1>2, <2>2 DEF OpenStream, Observe, Disconnect, StreamGoto
    <3>2. told'[s] # Nothing /\ told'[s][1] = jobs[watched[s]].status
      BY <1>2, <3>1, EventKeyTyped
    <3>3. jobs[watched[s]].status = "failed"
      BY <1>2, <3>1 DEF DeletionInv, SavedWhenDone, CanDump, Terminal
    <3> QED BY <1>1, <2>2, <3>1, <3>2, <3>3 DEF StreamKnows, Over
  <2>3. CASE spc'[s] = "broken"
    <3>1. /\ Observe(s) /\ watched' = watched /\ ~CanDump(jobs[watched[s]])
      BY <1>2, <2>3 DEF OpenStream, Observe, Disconnect, StreamGoto
    <3>2. jobs[watched[s]].status = "done"
      BY <1>2, <3>1 DEF DeletionInv, SavedWhenDone, CanDump
    <3> QED BY <1>1, <2>3, <3>1, <3>2 DEF StreamKnows, Over, Terminal
  <2> QED BY <2>1, <2>2, <2>3
<1>5. \A v \in Streams : StreamKnows(v)'
  BY <1>1, <1>3, <1>4 DEF DeletionInv, StreamKnows, Over
<1>6. DeletionTypeOK'
  BY <1>1, <1>3 DEF DeletionInv, DeletionTypeOK, TypeOK
<1>7. /\ \A w \in Workers : WorkerHas(w)'
      /\ \A k \in gone' : GoneForGood(k)'
      /\ \A k \in Jobs : jobs'[k].status \in Active => k \in pdf'
      /\ \A k \in Jobs : SavedWhenDone(jobs'[k])
      /\ \A r \in Requests : DeletionKnows(r)'
  BY <1>1 DEF DeletionInv, WorkerHas, RowOf, GoneForGood, DeletionKnows, Over, CanRead
<1> QED BY <1>1, <1>5, <1>6, <1>7 DEF DeletionInv

\* Other settings make files unreachable and none reachable.
LEMMA RedeployInv ==
  ASSUME DeletionInv, Redeploy
  PROVE  DeletionInv' /\ jobs' = jobs
<1>1. UNCHANGED <<jobs, pdf, drafts, committed, pc, job, final, selected, crashes,
                  gone, dpc, target, spc, watched, told>>
  BY DEF Redeploy, worker, tables, locals, requests, streams
<1>2. PICK p \in Places \ {"here"} :
        place' = [j \in Jobs |-> IF Exists(jobs[j]) /\ CanRead(j) THEN p ELSE place[j]]
  BY DEF Redeploy
<1>3. place' \in [Jobs -> Places] /\ \A j \in Jobs : CanRead(j)' => CanRead(j)
  BY <1>2 DEF DeletionInv, DeletionTypeOK, CanRead
<1>4. DeletionTypeOK'
  BY <1>1, <1>3 DEF DeletionInv, DeletionTypeOK, TypeOK
<1>5. gone \subseteq Jobs /\ target \in [Requests -> Jobs]
  BY DEF DeletionInv, DeletionTypeOK
<1>6. /\ \A k \in gone' : GoneForGood(k)'
      /\ \A r \in Requests : DeletionKnows(r)'
  <2>1. ASSUME NEW k \in gone PROVE GoneForGood(k)'
    BY <1>1, <1>3, <1>5 DEF DeletionInv, GoneForGood
  <2>2. ASSUME NEW r \in Requests PROVE DeletionKnows(r)'
    <3>1. DeletionKnows(r) /\ target[r] \in Jobs
      BY <1>5 DEF DeletionInv
    <3>2. CanRead(target[r])' => CanRead(target[r])
      BY <1>1, <1>3, <3>1 DEF CanRead
    <3> QED BY <1>1, <3>1, <3>2 DEF DeletionKnows, Over
  <2> QED BY <1>1, <2>1, <2>2
<1>7. /\ \A w \in Workers : WorkerHas(w)'
      /\ \A k \in Jobs : jobs'[k].status \in Active => k \in pdf'
      /\ \A k \in Jobs : SavedWhenDone(jobs'[k])
      /\ \A s \in Streams : StreamKnows(s)'
  BY <1>1 DEF DeletionInv, WorkerHas, RowOf, StreamKnows, Over
<1> QED BY <1>1, <1>4, <1>6, <1>7 DEF DeletionInv

(***************************************************************************)
(* The theorems.                                                           *)
(***************************************************************************)
LEMMA DeletionStart == DeletionInit => DeletionInv
<1> SUFFICES ASSUME DeletionInit PROVE DeletionInv
  OBVIOUS
<1>1. TypeOK
  BY TypeInit DEF DeletionInit
<1>2. DeletionTypeOK
  BY <1>1 DEF DeletionInit, DeletionTypeOK, Places, Answers, StreamStates
<1>3. \A w \in Workers : WorkerHas(w)
  BY DEF DeletionInit, Init, WorkerHas, Holding, InTry, Handlers
<1>4. \A j \in Jobs : jobs[j].status \notin Active /\ SavedWhenDone(jobs[j])
  BY DEF DeletionInit, Init, NoRow, Active, SavedWhenDone
<1> QED BY <1>2, <1>3, <1>4 DEF DeletionInv, DeletionInit, DeletionKnows, StreamKnows

\* Every step keeps the invariant and deletes no row but one that is over.
LEMMA DeletionNextInv ==
  ASSUME DeletionInv, [DeletionNext]_allVars
  PROVE  /\ DeletionInv'
         /\ \A j \in Jobs : Exists(jobs[j]) /\ ~Exists(jobs'[j])
              => jobs[j].status \in Terminal
<1>1. ASSUME NEW w \in Workers, WorkerStep(w)
      PROVE  DeletionInv' /\ Settled
  BY <1>1, WorkerInv
<1>2. ASSUME \E j \in Jobs :
               \/ UploadNew(j)
               \/ \E l \in Lines : ReviewLines(j, l)
               \/ LockAges(j) /\ UNCHANGED <<selected, crashes, others>>
      PROVE  DeletionInv' /\ Settled
  BY <1>2, UserInv
<1>3. CASE DeletionInv' /\ (Settled \/ jobs' = jobs)
  BY <1>3 DEF Settled
<1>4. ASSUME NEW r \in Requests, DeletionStep(r)
      PROVE  /\ DeletionInv'
             /\ \A j \in Jobs : Exists(jobs[j]) /\ ~Exists(jobs'[j])
                  => jobs[j].status \in Terminal
  BY <1>4, DeletionStepInv
<1>5. CASE UNCHANGED allVars
  <2>1. UNCHANGED <<jobs, pdf, drafts, committed, pc, job, final, selected, crashes,
                    place, gone, dpc, target, spc, watched, told>>
    BY <1>5 DEF allVars, worker, tables, locals, requests, streams
  <2>2. DeletionTypeOK'
    BY <2>1 DEF DeletionInv, DeletionTypeOK, TypeOK
  <2>3. DeletionInv'
    BY <2>1, <2>2 DEF DeletionInv, WorkerHas, RowOf, GoneForGood, DeletionKnows,
       StreamKnows, Over, CanRead
  <2> QED BY <2>1, <2>3
<1> QED
  BY <1>1, <1>2, <1>3, <1>4, <1>5, AskInv, StreamInv, RedeployInv DEF DeletionNext

\* The tables, calls and streams stay what the module declares.
THEOREM DeletionTypeCorrect == DeletionSpec => []DeletionTypeOK
<1>1. DeletionInv => DeletionTypeOK
  BY DEF DeletionInv
<1> QED BY <1>1, DeletionStart, DeletionNextInv, PTL DEF DeletionSpec

\* No deletion, refused, failed or carried out, takes the file of a job that
\* is still to be processed (import_jobs_routes.py:111-115).
THEOREM ActiveAlwaysHasFile == DeletionSpec => []ActiveKeepsFile
<1>1. DeletionInv => ActiveKeepsFile
  BY DEF DeletionInv, ActiveKeepsFile
<1> QED BY <1>1, DeletionStart, DeletionNextInv, PTL DEF DeletionSpec

\* A deleted job leaves no transaction and no file that its settings reach,
\* however many deletions of it overlap (import_jobs_routes.py:114-121).
THEOREM DeletedStaysGone == DeletionSpec => []DeletedLeavesNothing
<1>1. DeletionInv => DeletedLeavesNothing
  BY DEF DeletionInv, GoneForGood, DeletedLeavesNothing
<1> QED BY <1>1, DeletionStart, DeletionNextInv, PTL DEF DeletionSpec

\* A stream that returns told the failure the job keeps until it is deleted;
\* one that breaks off watched a job that is done: what was saved with it
\* cannot be sent (import_jobs_routes.py:153-160).
THEOREM StreamsTellFailures == DeletionSpec => []StreamTellsFailure
<1>1. DeletionInv => StreamTellsFailure
  BY DEF DeletionInv, StreamKnows, StreamTellsFailure
<1> QED BY <1>1, DeletionStart, DeletionNextInv, PTL DEF DeletionSpec

\* A row goes only when its job is over, although the status was read before
\* the storage was awaited (import_jobs_routes.py:112).
THEOREM OnlyEndedJobsGo == DeletionSpec => ActiveIsNotDeleted
<1>1. DeletionInv /\ [DeletionNext]_allVars =>
        [\A j \in Jobs : Exists(jobs[j]) /\ ~Exists(jobs'[j])
           => jobs[j].status \in Terminal]_allVars
  BY DeletionNextInv
<1> QED BY <1>1, DeletionStart, DeletionNextInv, PTL DEF DeletionSpec, ActiveIsNotDeleted
===============================================================================
