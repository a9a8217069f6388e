------------------------------ MODULE ProcessJob ------------------------------
(***************************************************************************)
(* process_job (app/workers/import_worker/main.py): what a processor does  *)
(* with one job id, from the first read of the row to the value it         *)
(* returns.  A processor is a call in progress: a polling worker that has  *)
(* claimed a job (module ImportWorker) or an HTTP delivery of a queued     *)
(* task.  Every action is one transaction or one await of the function;    *)
(* between two actions other processors, users and time may step in.       *)
(*                                                                         *)
(* pc names the next thing the call does; "done" and "retry" are the       *)
(* outcomes it returns.                                                    *)
(***************************************************************************)
EXTENDS ImportJobs

CONSTANTS Jobs,   \* job ids, numbered in the order of created_at
          Lines   \* the transactions a statement holds

ASSUME JobsAssumption == Jobs \subseteq Nat

VARIABLES jobs,       \* the import_jobs table
          pdf,        \* the jobs whose uploaded file is in the storage
          drafts,     \* per job and line, the rows with is_draft
          committed,  \* per job and line, the rows the user has accepted
          pc, job,    \* per processor: next step, the job_id argument
          final       \* per processor: the final_attempt argument

tables == <<jobs, pdf, drafts, committed>>
locals == <<pc, job, final>>

InTry == {"saving_agent_input", "reading_pdf", "agent_extract",
          "saving_agent_output", "checking_committed",
          "saving_draft_transactions"}
Handlers == {"rejecting", "retrying"}
Outcomes == {"done", "retry"}
Working  == {"starting", "cleaning_up"} \cup InTry \cup Handlers
Phases   == {"loading_job", "claiming", "interrupting"} \cup Working \cup Outcomes

Goto(w, phase)     == pc' = [pc EXCEPT ![w] = phase]
Return(w, outcome) == Goto(w, outcome)

\* Apply an UPDATE to the row of the processor's job.
Update(w, row) == jobs' = [jobs EXCEPT ![job[w]] = row]
RowOf(w)       == jobs[job[w]]

NoLines  == [l \in Lines |-> 0]

(***************************************************************************)
(* Before the try block.                                                   *)
(***************************************************************************)

\* A slip: a job somebody else holds is taken for one that is over.
LoadJobOfOther(w) ==
  /\ pc[w] = "loading_job"
  /\ Goto(w, CASE RowOf(w).status = "pending" -> "claiming"
             [] RowOf(w).lockedBy = w -> "starting"
             [] OTHER -> "done")
  /\ UNCHANGED <<tables, job, final>>

\* get_by_id and the branches on what it returned.  Nothing holds the row
\* after this read: the branch taken acts on it in a later step.
LoadJob(w) ==
  /\ pc[w] = "loading_job"
  /\ \/ /\ RowOf(w).status \in Terminal \cup {"none"}
        /\ Return(w, "done")
     \/ /\ RowOf(w).status = "pending"
        /\ Goto(w, "claiming")
     \/ /\ RowOf(w).status = "processing"
        /\ RowOf(w).lockedBy = w
        /\ Goto(w, "starting")
     \/ /\ RowOf(w).status = "processing"
        /\ RowOf(w).lockedBy # w
        /\ IF final[w] THEN Goto(w, "interrupting") ELSE Return(w, "retry")
  /\ UNCHANGED <<tables, job, final>>

ClaimById(w) ==
  /\ pc[w] = "claiming"
  /\ IF ClaimByIdMatches(RowOf(w))
     THEN Update(w, Lock(RowOf(w), w)) /\ Goto(w, "starting")
     ELSE UNCHANGED jobs /\ Return(w, "retry")
  /\ UNCHANGED <<pdf, drafts, committed, job, final>>

CloseInterrupted(w) ==
  /\ pc[w] = "interrupting"
  /\ Update(w, MarkFailed(RowOf(w),
                          "Processing was interrupted before it completed."))
  /\ Return(w, "done")
  /\ UNCHANGED <<pdf, drafts, committed, job, final>>

Start(w) ==
  /\ pc[w] = "starting"
  /\ Update(w, MarkStep(RowOf(w), "Processing started"))
  /\ Goto(w, "saving_agent_input")
  /\ UNCHANGED <<pdf, drafts, committed, job, final>>

(***************************************************************************)
(* The try block.                                                          *)
(***************************************************************************)

SaveInput(w) ==
  /\ pc[w] = "saving_agent_input"
  /\ Update(w, MarkStep(SaveAgentInput(RowOf(w)), "Reading PDF with agent"))
  /\ Goto(w, "reading_pdf")
  /\ UNCHANGED <<pdf, drafts, committed, job, final>>

\* A missing file raises like any other storage error.
ReadPdf(w) ==
  /\ pc[w] = "reading_pdf"
  /\ Goto(w, IF job[w] \in pdf THEN "agent_extract" ELSE "retrying")
  /\ UNCHANGED <<tables, job, final>>

\* handle_agent_progress, called back while the agent works.
AgentProgress(w) ==
  /\ pc[w] = "agent_extract"
  /\ Update(w, MarkStep(RowOf(w), "agent progress"))
  /\ UNCHANGED <<pdf, drafts, committed, locals>>

\* The agent answers; an error status or data that is no object rejects
\* the file for good.
AgentReturns(w) ==
  /\ pc[w] = "agent_extract"
  /\ \E next \in {"saving_agent_output", "rejecting"} : Goto(w, next)
  /\ UNCHANGED <<tables, job, final>>

\* The output is committed before it is parsed; parsing may reject it.
SaveOutput(w) ==
  /\ pc[w] = "saving_agent_output"
  /\ Update(w, MarkStep(SaveAgentOutput(RowOf(w)), "Validating transactions"))
  /\ \E next \in {"checking_committed", "rejecting"} : Goto(w, next)
  /\ UNCHANGED <<pdf, drafts, committed, job, final>>

\* save_parsed_import_result, first statement: a plain SELECT.
HasCommitted(j) == \E l \in Lines : committed[j][l] > 0

CheckCommitted(w) ==
  /\ pc[w] = "checking_committed"
  /\ Goto(w, IF HasCommitted(job[w]) THEN "retrying"
             ELSE "saving_draft_transactions")
  /\ UNCHANGED <<tables, job, final>>

\* The rest of save_parsed_import_result up to the commit, as one step; module
\* DraftSaves takes it apart, among other saves and the user's changes.  A job
\* that is gone fails the foreign key and the transaction rolls back.
DeleteDrafts(counts) == NoLines
CreateMany(counts)   == [l \in Lines |-> counts[l] + 1]
SaveResult(r)        == MarkDone(SaveStatementMetadata(r))

SaveDrafts(w) ==
  /\ pc[w] = "saving_draft_transactions"
  /\ IF Exists(RowOf(w))
     THEN /\ drafts' = [drafts EXCEPT ![job[w]] = CreateMany(DeleteDrafts(@))]
          /\ Update(w, SaveResult(RowOf(w)))
          /\ Goto(w, "cleaning_up")
     ELSE /\ Goto(w, "retrying")
          /\ UNCHANGED <<jobs, drafts>>
  /\ UNCHANGED <<pdf, committed, job, final>>

\* Any exception of the try block but PermanentImportError: the database,
\* the storage, the agent's service, an account that is not available.
RaiseTemporary(w) ==
  /\ pc[w] \in InTry
  /\ Goto(w, "retrying")
  /\ UNCHANGED <<tables, job, final>>

(***************************************************************************)
(* The handlers and the cleanup.                                           *)
(***************************************************************************)

Reject(w) ==
  /\ pc[w] = "rejecting"
  /\ Update(w, MarkFailed(RowOf(w), "file rejected"))
  /\ Goto(w, "cleaning_up")
  /\ UNCHANGED <<pdf, drafts, committed, job, final>>

\* Slips: the attempt is retried in place, its file is removed although it
\* may be retried, or the row is forgotten.
RetryInPlace(w) ==
  /\ pc[w] = "retrying"
  /\ IF final[w]
     THEN /\ Update(w, MarkFailed(RowOf(w),
                         "Processing failed after all retry attempts."))
          /\ Return(w, "done")
     ELSE /\ Update(w, MarkPendingForRetry(RowOf(w)))
          /\ Goto(w, "loading_job")
  /\ UNCHANGED <<pdf, drafts, committed, job, final>>

RequeueAndCleanUp(w) ==
  /\ pc[w] = "retrying"
  /\ Update(w, IF final[w]
               THEN MarkFailed(RowOf(w),
                      "Processing failed after all retry attempts.")
               ELSE MarkPendingForRetry(RowOf(w)))
  /\ Goto(w, "cleaning_up")
  /\ UNCHANGED <<pdf, drafts, committed, job, final>>

ReturnWithoutRequeue(w) ==
  /\ pc[w] = "retrying"
  /\ IF final[w]
     THEN /\ Update(w, MarkFailed(RowOf(w),
                         "Processing failed after all retry attempts."))
          /\ Return(w, "done")
     ELSE /\ UNCHANGED jobs
          /\ Return(w, "retry")
  /\ UNCHANGED <<pdf, drafts, committed, job, final>>

RequeueOrFail(w) ==
  /\ pc[w] = "retrying"
  /\ IF final[w]
     THEN /\ Update(w, MarkFailed(RowOf(w),
                         "Processing failed after all retry attempts."))
          /\ Return(w, "done")
     ELSE /\ Update(w, MarkPendingForRetry(RowOf(w)))
          /\ Return(w, "retry")
  /\ UNCHANGED <<pdf, drafts, committed, job, final>>

\* _delete_pdf_best_effort: an error of the storage is logged and dropped.
CleanUp(w) ==
  /\ pc[w] = "cleaning_up"
  /\ pdf' \in {pdf, pdf \ {job[w]}}
  /\ Return(w, "done")
  /\ UNCHANGED <<jobs, drafts, committed, job, final>>

\* Everything but a progress callback brings the call closer to its end.
Advance(w) ==
  \/ LoadJob(w)       \/ ClaimById(w)  \/ CloseInterrupted(w) \/ Start(w)
  \/ SaveInput(w)     \/ ReadPdf(w)    \/ AgentReturns(w)     \/ SaveOutput(w)
  \/ CheckCommitted(w) \/ SaveDrafts(w) \/ RaiseTemporary(w)
  \/ Reject(w)        \/ RequeueOrFail(w) \/ CleanUp(w)

ProcessStep(w) == Advance(w) \/ AgentProgress(w)

(***************************************************************************)
(* The rest of the program, as process_job meets it.                       *)
(***************************************************************************)

\* A new upload is committed: the file first, then the pending row.
Upload(j) ==
  /\ \A k \in Jobs : k >= j => ~Exists(jobs[k])
  /\ jobs' = [jobs EXCEPT ![j] = CreatePending]
  /\ pdf' = pdf \cup {j}
  /\ UNCHANGED <<drafts, committed, locals>>

\* PATCH /transactions/{id} with is_draft, in either direction: the user
\* accepts a draft or puts an accepted transaction back.
AcceptDraft(j, l) ==
  /\ drafts[j][l] > 0
  /\ drafts' = [drafts EXCEPT ![j][l] = @ - 1]
  /\ committed' = [committed EXCEPT ![j][l] = @ + 1]
  /\ UNCHANGED <<jobs, pdf, locals>>

ReopenDraft(j, l) ==
  /\ committed[j][l] > 0
  /\ drafts' = [drafts EXCEPT ![j][l] = @ + 1]
  /\ committed' = [committed EXCEPT ![j][l] = @ - 1]
  /\ UNCHANGED <<jobs, pdf, locals>>

\* DELETE /transactions/{id}.
DeleteTransaction(j, l) ==
  /\ \/ /\ drafts[j][l] > 0
        /\ drafts' = [drafts EXCEPT ![j][l] = @ - 1]
        /\ UNCHANGED committed
     \/ /\ committed[j][l] > 0
        /\ committed' = [committed EXCEPT ![j][l] = @ - 1]
        /\ UNCHANGED drafts
  /\ UNCHANGED <<jobs, pdf, locals>>

UserStep ==
  \/ \E j \in Jobs : Upload(j)
  \/ \E j \in Jobs, l \in Lines :
       AcceptDraft(j, l) \/ ReopenDraft(j, l) \/ DeleteTransaction(j, l)

LockAges(j) ==
  /\ jobs[j].status = "processing" /\ jobs[j].lockedAt = "recent"
  /\ jobs' = [jobs EXCEPT ![j] = Age(@)]
  /\ UNCHANGED <<pdf, drafts, committed, locals>>

(***************************************************************************)
(* Whoever the processors are.                                             *)
(***************************************************************************)

\* The columns of a row agree with each other whatever the order in which
\* superseded and current workers write it: a job is locked exactly while
\* it is processing, finished exactly when it is over, and its error
\* message is the one its status calls for (import_jobs.py:106-309).
RowsConsistent == \A j \in Jobs : RowConsistent(jobs[j])
===============================================================================
