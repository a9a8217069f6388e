----------------------------- MODULE JobDeletion -----------------------------
(***************************************************************************)
(* Two handlers of app/api/import_jobs_routes.py beside a polling worker:  *)
(* DELETE /import-jobs/{id}, which reads the job, awaits the storage and   *)
(* then deletes the rows, and GET /import-jobs/{id}/events, which polls    *)
(* the row once a second and tells the client what has changed.            *)
(*                                                                         *)
(* A deletion is a call in progress, like a processor's: the row is read   *)
(* once, and what the handler does afterwards rests on that read.  Its     *)
(* transaction is committed by get_session when the handler has returned,  *)
(* after the answer is on its way.                                         *)
(***************************************************************************)
EXTENDS ImportWorker

CONSTANTS Requests,  \* clients of the deletion
          Streams    \* clients of the event stream

\* With a second worker a save may add transactions between a deletion's
\* two DELETEs, which this module does not tell apart.
ASSUME SoleWorkerAssumption == \A v, w \in Owners : v = w

VARIABLES place,           \* per job: where its file lies, seen from the settings
          gone,            \* the jobs whose row was deleted
          dpc, target,     \* per request: next step or answer, the job_id
          spc, watched,    \* per stream: open or how it ended, the job_id
          told             \* per stream: last_event_key

requests == <<dpc, target>>
streams  == <<spc, watched, told>>
worker   == <<tables, locals, selected, crashes>>

allVars == <<worker, place, gone, requests, streams>>

(***************************************************************************)
(* The storage (app/services/file_storage_service.py).  A storage_path is  *)
(* "here" when the configured back end owns it; an absolute path left from *)
(* local storage and an object of a retired bucket are no longer reached,  *)
(* which a deletion passes over; any other path is refused.                *)
(***************************************************************************)
PassedOver == {"local", "retired"}
Places     == {"here", "foreign"} \cup PassedOver

CanRead(j)   == place[j] = "here"
CanDelete(j) == place[j] # "foreign"

\* The files after a delete_if_exists that returned.
DeleteIfExists(j) == IF place[j] \in PassedOver THEN pdf ELSE pdf \ {j}

(***************************************************************************)
(* delete_import_job.                                                      *)
(***************************************************************************)
DeletionSteps == {"loading_job", "removing_file", "deleting_rows", "committing"}
Answers       == {"idle", "204", "404", "409", "500", "rolled_back"}

DeletionGoto(r, next) == dpc' = [dpc EXCEPT ![r] = next]

AskDeletion(r, j) ==
  /\ dpc[r] \in Answers
  /\ DeletionGoto(r, "loading_job")
  /\ target' = [target EXCEPT ![r] = j]
  /\ UNCHANGED <<worker, place, gone, streams>>

\* Slips: only a waiting job is refused; the file goes before the check.
CheckPendingOnly(r) ==
  /\ dpc[r] = "loading_job"
  /\ DeletionGoto(r, CASE ~Exists(jobs[target[r]])             -> "404"
                       [] jobs[target[r]].status = "pending" -> "409"
                       [] OTHER                               -> "removing_file")
  /\ UNCHANGED <<worker, place, gone, target, streams>>

CheckAfterRemoval(r) ==
  /\ dpc[r] = "loading_job"
  /\ pdf' = DeleteIfExists(target[r])
  /\ DeletionGoto(r, CASE ~Exists(jobs[target[r]])          -> "404"
                       [] jobs[target[r]].status \in Active -> "409"
                       [] OTHER                            -> "removing_file")
  /\ UNCHANGED <<jobs, drafts, committed, locals, selected, crashes, place,
                 gone, target, streams>>

CheckDeletion(r) ==
  /\ dpc[r] = "loading_job"
  /\ DeletionGoto(r, CASE ~Exists(jobs[target[r]])          -> "404"
                       [] jobs[target[r]].status \in Active -> "409"
                       [] OTHER                            -> "removing_file")
  /\ UNCHANGED <<worker, place, gone, target, streams>>

\* A slip: the deletion goes on although the storage failed.
RemoveFileBestEffort(r) ==
  /\ dpc[r] = "removing_file"
  /\ pdf' \in {pdf, DeleteIfExists(target[r])}
  /\ DeletionGoto(r, "deleting_rows")
  /\ UNCHANGED <<jobs, drafts, committed, locals, selected, crashes, place,
                 gone, target, streams>>

\* The await.  The storage may fail before or after the file is gone.
RemoveFile(r) ==
  /\ dpc[r] = "removing_file"
  /\ \/ /\ CanDelete(target[r])
        /\ pdf' = DeleteIfExists(target[r])
        /\ DeletionGoto(r, "deleting_rows")
     \/ /\ place[target[r]] \notin PassedOver
        /\ pdf' \in IF CanDelete(target[r]) THEN {pdf, pdf \ {target[r]}}
                                            ELSE {pdf}
        /\ DeletionGoto(r, "500")
  /\ UNCHANGED <<jobs, drafts, committed, locals, selected, crashes, place,
                 gone, target, streams>>

\* delete_for_import_job, whose rows stay locked until the commit, and
\* session.delete, which the commit flushes.
DeleteRows(r) ==
  /\ dpc[r] = "deleting_rows"
  /\ \E next \in {"committing", "500"} : DeletionGoto(r, next)
  /\ UNCHANGED <<worker, place, gone, target, streams>>

\* get_session's exit: all of the rows go or, when the flush or the commit
\* fails, none of them.  A row somebody else has deleted is only warned of.
CommitDeletion(r) ==
  /\ dpc[r] = "committing"
  /\ \/ /\ jobs'      = [jobs EXCEPT ![target[r]] = NoRow]
        /\ drafts'    = [drafts EXCEPT ![target[r]] = NoLines]
        /\ committed' = [committed EXCEPT ![target[r]] = NoLines]
        /\ gone'      = gone \cup {target[r]}
        /\ DeletionGoto(r, "204")
     \/ /\ DeletionGoto(r, "rolled_back")
        /\ UNCHANGED <<jobs, drafts, committed, gone>>
  /\ UNCHANGED <<pdf, locals, selected, crashes, place, target, streams>>

DeletionStep(r) ==
  CheckDeletion(r) \/ RemoveFile(r) \/ DeleteRows(r) \/ CommitDeletion(r)

(***************************************************************************)
(* stream_import_job_events.                                               *)
(***************************************************************************)
ImportJobEventKey(row) == <<row.status, row.step, row.error, row.finishedAt>>

Nothing == <<>>

OpenStream(s, j) ==
  /\ spc[s] # "open"
  /\ spc' = [spc EXCEPT ![s] = "open"]
  /\ watched' = [watched EXCEPT ![s] = j]
  /\ told' = [told EXCEPT ![s] = Nothing]
  /\ UNCHANGED <<worker, place, gone, requests>>

\* json.dumps refuses a Decimal, which is what model_dump leaves of the
\* confidence that was saved with the statement's metadata.
CanDump(row) == ~row.metadata

StreamGoto(s, next) == spc' = [spc EXCEPT ![s] = next]

\* Slips: the stream looks for its end before it tells the client, or knows
\* of one end only.
ObserveEndFirst(s) ==
  /\ spc[s] = "open"
  /\ LET row == jobs[watched[s]]
     IN  \/ ~Exists(row) /\ StreamGoto(s, "not_found") /\ UNCHANGED told
         \/ /\ row.status \in Terminal
            /\ StreamGoto(s, "ended")
            /\ UNCHANGED told
         \/ /\ row.status \in Active
            /\ told' = [told EXCEPT ![s] = ImportJobEventKey(row)]
            /\ UNCHANGED spc
  /\ UNCHANGED <<worker, place, gone, requests, watched>>

ObserveUntilDone(s) ==
  /\ spc[s] = "open"
  /\ LET row == jobs[watched[s]]
     IN  \/ ~Exists(row) /\ StreamGoto(s, "not_found") /\ UNCHANGED told
         \/ /\ Exists(row) /\ ~CanDump(row)
            /\ StreamGoto(s, "broken")
            /\ UNCHANGED told
         \/ /\ Exists(row) /\ CanDump(row)
            /\ told' = [told EXCEPT ![s] = ImportJobEventKey(row)]
            /\ StreamGoto(s, IF row.status = "done" THEN "ended" ELSE "open")
  /\ UNCHANGED <<worker, place, gone, requests, watched>>

\* One round of the loop: read, tell what is new, end or sleep.  A row that
\* cannot be dumped raises before anything is told of it, and the response,
\* already on its way, breaks off.
Observe(s) ==
  /\ spc[s] = "open"
  /\ LET row == jobs[watched[s]]
     IN  \/ ~Exists(row) /\ StreamGoto(s, "not_found") /\ UNCHANGED told
         \/ /\ Exists(row) /\ ~CanDump(row)
            /\ StreamGoto(s, "broken")
            /\ UNCHANGED told
         \/ /\ Exists(row) /\ CanDump(row)
            /\ told' = [told EXCEPT ![s] = ImportJobEventKey(row)]
            /\ StreamGoto(s, IF row.status \in Terminal THEN "ended" ELSE "open")
  /\ UNCHANGED <<worker, place, gone, requests, watched>>

Disconnect(s) ==
  /\ spc[s] = "open"
  /\ spc' = [spc EXCEPT ![s] = "disconnected"]
  /\ UNCHANGED <<worker, place, gone, requests, watched, told>>

(***************************************************************************)
(* The worker and the user, as the two handlers meet them.                 *)
(***************************************************************************)
others == <<place, gone, requests, streams>>

\* The worker's read of a file that is not here raises, and its cleanup
\* passes over such a file or has its error dropped.
StorageAllows(w) ==
  /\ pc[w] = "reading_pdf" /\ pc'[w] = "agent_extract" => CanRead(job[w])
  /\ pdf' # pdf => CanRead(job[w])

WorkerStep(w) ==
  /\ \/ Poll(w)
     \/ Call(w) /\ StorageAllows(w)
     \/ Crash(w)
     \/ Restart(w)
  /\ UNCHANGED others

UploadNew(j) ==
  /\ j \notin gone
  /\ Upload(j)
  /\ UNCHANGED <<selected, crashes, others>>

ReviewLines(j, l) ==
  /\ AcceptDraft(j, l) \/ ReopenDraft(j, l) \/ DeleteTransaction(j, l)
  /\ \A r \in Requests : ~(dpc[r] = "committing" /\ target[r] = j)
  /\ UNCHANGED <<selected, crashes, others>>

\* A deployment with another back end or bucket, while no call is open: the
\* files of earlier uploads are no longer here.
Redeploy ==
  /\ \A w \in Workers : pc[w] \in Idle \cup {"down"}
  /\ \A r \in Requests : dpc[r] \in Answers
  /\ \A s \in Streams : spc[s] # "open"
  /\ \E p \in Places \ {"here"} :
       place' = [j \in Jobs |-> IF Exists(jobs[j]) /\ CanRead(j)
                                THEN p ELSE place[j]]
  /\ UNCHANGED <<worker, gone, requests, streams>>

DeletionInit ==
  /\ Init
  /\ place   = [j \in Jobs |-> "here"]
  /\ gone    = {}
  /\ dpc     = [r \in Requests |-> "idle"]
  /\ target  \in [Requests -> Jobs]
  /\ spc     = [s \in Streams |-> "idle"]
  /\ watched \in [Streams -> Jobs]
  /\ told    = [s \in Streams |-> Nothing]

DeletionNext ==
  \/ \E w \in Workers : WorkerStep(w)
  \/ \E r \in Requests : \/ \E j \in Jobs : AskDeletion(r, j)
                         \/ DeletionStep(r)
  \/ \E s \in Streams : \/ \E j \in Jobs : OpenStream(s, j)
                        \/ Observe(s) \/ Disconnect(s)
  \/ \E j \in Jobs : \/ UploadNew(j)
                     \/ \E l \in Lines : ReviewLines(j, l)
                     \/ LockAges(j) /\ UNCHANGED <<selected, crashes, others>>
  \/ Redeploy

DeletionSpec == DeletionInit /\ [][DeletionNext]_allVars

(***************************************************************************)
(* Fairness: the worker keeps running as in module ImportWorker, and the   *)
(* server's loop gets round to an open stream.  Clients are not fair.      *)
(***************************************************************************)
FairDeletionSpec ==
  /\ DeletionSpec
  /\ \A w \in Workers :
       /\ WF_allVars(Poll(w) /\ UNCHANGED others)
       /\ WF_allVars(/\ Advance(w) /\ StorageAllows(w)
                     /\ UNCHANGED <<selected, crashes, others>>)
       /\ WF_allVars(Restart(w) /\ UNCHANGED others)
  /\ \A j \in Jobs :
       WF_allVars(LockAges(j) /\ UNCHANGED <<selected, crashes, others>>)
  /\ \A s \in Streams : WF_allVars(Observe(s))

(***************************************************************************)
(* Properties.                                                             *)
(***************************************************************************)
StreamStates ==
  {"idle", "open", "ended", "broken", "not_found", "disconnected"}

EventKeys == {ImportJobEventKey(row) : row \in
                [status : Statuses, step : Steps, error : Errors,
                 finishedAt : {"null", "set"}]}

DeletionTypeOK ==
  /\ TypeOK
  /\ place \in [Jobs -> Places]
  /\ gone \subseteq Jobs
  /\ dpc \in [Requests -> DeletionSteps \cup Answers]
  /\ target \in [Requests -> Jobs]
  /\ spc \in [Streams -> StreamStates]
  /\ watched \in [Streams -> Jobs]
  /\ told \in [Streams -> EventKeys \cup {Nothing}]

\* "Active import cannot be deleted" (import_jobs_routes.py:112): although
\* the status is read before the storage is awaited and the rows deleted,
\* and however many deletions overlap, a lone worker never loses a row it
\* will still pick up or is working on.
ActiveIsNotDeleted ==
  [][\A j \in Jobs :
        Exists(jobs[j]) /\ ~Exists(jobs'[j]) => jobs[j].status \in Terminal]_allVars

\* A deletion, whether it is refused, fails or goes through, never takes the
\* file of a job that still has to be processed (import_jobs_routes.py:111-115).
ActiveKeepsFile == \A j \in Jobs : jobs[j].status \in Active => j \in pdf

\* A deleted job leaves neither transactions nor, in the configured
\* storage, its file behind: an error of the storage stops the deletion
\* while the rows that name the file are still there
\* (import_jobs_routes.py:114-121).
DeletedLeavesNothing ==
  \A j \in gone :
    /\ drafts[j] = NoLines /\ committed[j] = NoLines
    /\ CanRead(j) => j \notin pdf

\* A stream that returns has told its client that the job failed, with the
\* words the row ends with: a lone worker does not change them later.  One
\* that breaks off does so over a job that is done
\* (import_jobs_routes.py:153-160).
StreamTellsFailure ==
  \A s \in Streams :
    LET row == jobs[watched[s]]
    IN  /\ spc[s] = "ended" =>
             /\ told[s] # Nothing /\ told[s][1] = "failed"
             /\ Exists(row) => told[s] = ImportJobEventKey(row)
        /\ spc[s] = "broken" => row.status \in {"done", "none"}

\* Nobody watches for ever: an open stream returns or breaks off with its
\* job, or ends with the job's deletion or with its client, unless the
\* worker died on the last attempt and the job stays processing
\* (import_jobs_routes.py:138-163).
StreamEnds ==
  \A s \in Streams :
    spc[s] = "open" ~> spc[s] # "open" \/ DiedOnLastAttempt(watched[s])

\* What the route says of itself and its test asks for: a stream looks for
\* the job's end after it has told of it, `if job.status in {"done",
\* "failed"}' (import_jobs_routes.py:160), and the end is an event to tell
\* (test_import_job_events.py:101).
StreamTellsOutcome ==
  \A s \in Streams :
    spc[s] \in {"ended", "broken"} =>
      told[s] # Nothing /\ told[s][1] \in Terminal
===============================================================================
