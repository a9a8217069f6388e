------------------------------ MODULE DraftSaves ------------------------------
(***************************************************************************)
(* The end of process_job (app/workers/import_worker/main.py), from the    *)
(* agent's answer to the call's outcome, with save_parsed_import_result    *)
(* (data_persistence.py) taken apart into its statements: several calls    *)
(* save results for one job while its user reviews the rows that are       *)
(* there.  Module ProcessJob takes a save for one step; here is what that  *)
(* rests on.                                                               *)
(*                                                                         *)
(* The database is READ COMMITTED.  A statement sees what is committed     *)
(* when it starts; an UPDATE or DELETE waits for the transaction that      *)
(* holds a row it wants and then asks its WHERE again of the row as it has *)
(* become.  A row stays locked until its transaction ends.                 *)
(*                                                                         *)
(* A call gets there without an await and keeps the event loop of its      *)
(* process all the while; where tasks are delivered over HTTP that is the  *)
(* loop that also answers the user.  A PATCH is answered when its UPDATE   *)
(* is flushed, and committed later in a thread that the loop has to start  *)
(* (app/db/session.py).                                                    *)
(***************************************************************************)
EXTENDS Integers, FiniteSets

CONSTANTS Savers,      \* calls of process_job for the job, a save each
          NoSaver,
          Processes,
          Home,        \* per saver, the process it runs in
          Ids,         \* transaction ids
          Parsed,      \* per saver, the ids its transactions will get
          Clients,
          MaxRequests  \* bound: requests of the user

ASSUME SaversAssumption ==
  /\ NoSaver \notin Savers
  /\ Home \in [Savers -> Processes]
  /\ Parsed \in [Savers -> SUBSET Ids]
  /\ \A s, t \in Savers : s # t => Parsed[s] \cap Parsed[t] = {}
ASSUME RequestsAssumption == MaxRequests \in Nat

VARIABLES row,      \* per id: absent, or committed as a draft or accepted
          touched,  \* the ids whose row a user has changed or deleted
          spc,      \* per saver: its next statement, or how it ended
          found,    \* per saver: the rows its DELETE still has to lock
          doomed,   \* per saver: the rows it has deleted and not committed
          jobLock,  \* the saver that holds the job's row
          last,     \* the saver that committed last
          request,  \* per client, its request
          requests

saves == <<spc, found, doomed, jobLock, last>>
users == <<request, requests>>
vars  == <<row, touched, saves, users>>

InDelete   == {"deleting", "committing"}
HoldingJob == {"selecting"} \cup InDelete
InSave     == {"checking", "locking"} \cup HoldingJob
AtWork     == {"recording", "handling"} \cup InSave
Ended      == {"saved", "failed"}

Idle     == [phase |-> "idle"]
Ask(phase, id, new, p) ==
  [phase |-> phase, id |-> id, new |-> new, process |-> p]
Pending(c)  == request[c].phase # "idle"
Waits(c)    == request[c].phase = "waiting"

\* An UPDATE that was flushed; a DELETE is flushed by its commit only.
HasLocked(c, id) ==
  /\ request[c].phase \in {"answered", "committing"}
  /\ request[c].id = id /\ request[c].new # "absent"

LockedByUser(id)      == \E c \in Clients : HasLocked(c, id)
LockedBySave(id)      == \E s \in Savers : id \in doomed[s]
LockedForUser(c, id)  ==
  LockedBySave(id) \/ \E d \in Clients \ {c} : HasLocked(d, id)

LoopIsFree(p) ==
  /\ \A s \in Savers : Home[s] = p => spc[s] \notin AtWork
  /\ \A c \in Clients : Waits(c) => request[c].process # p

Init ==
  /\ row = [id \in Ids |-> "absent"] /\ touched = {}
  /\ spc = [s \in Savers |-> "idle"]
  /\ found  = [s \in Savers |-> {}] /\ doomed = [s \in Savers |-> {}]
  /\ jobLock = NoSaver /\ last = NoSaver
  /\ request = [c \in Clients |-> Idle] /\ requests = 0

(***************************************************************************)
(* A save.                                                                 *)
(***************************************************************************)
SaverGoto(s, next) == spc' = [spc EXCEPT ![s] = next]

AgentAnswers(s) ==
  /\ spc[s] = "idle" /\ LoopIsFree(Home[s])
  /\ SaverGoto(s, "recording")
  /\ UNCHANGED <<row, touched, found, doomed, jobLock, last, users>>

\* save_agent_output and mark_step: the UPDATE waits for the job's row, and
\* its commit gives it back.
SaveOutput(s) ==
  /\ spc[s] = "recording" /\ jobLock = NoSaver
  /\ SaverGoto(s, "checking")
  /\ UNCHANGED <<row, touched, found, doomed, jobLock, last, users>>

\* has_committed_for_import_job: a SELECT that locks nothing.
CheckCommitted(s) ==
  /\ spc[s] = "checking"
  /\ SaverGoto(s, IF \E id \in Ids : row[id] = "accepted" THEN "handling"
                                                         ELSE "locking")
  /\ UNCHANGED <<row, touched, found, doomed, jobLock, last, users>>

\* A slip: the metadata is written with the rest of the result at the end,
\* so no lock comes before the DELETE.
SaveMetadataLate(s) ==
  /\ spc[s] = "locking"
  /\ SaverGoto(s, "selecting")
  /\ UNCHANGED <<row, touched, found, doomed, jobLock, last, users>>

\* save_statement_metadata: the UPDATE waits for the job's row and keeps it.
SaveMetadata(s) ==
  /\ spc[s] = "locking" /\ jobLock = NoSaver
  /\ jobLock' = s
  /\ SaverGoto(s, "selecting")
  /\ UNCHANGED <<row, touched, found, doomed, last, users>>

\* delete_drafts_for_import_job: what the DELETE sees as it starts, then
\* row by row what it locks and finds to be a draft still.
BeginDelete(s) ==
  /\ spc[s] = "selecting"
  /\ found' = [found EXCEPT ![s] = {id \in Ids : row[id] = "draft"}]
  /\ SaverGoto(s, "deleting")
  /\ UNCHANGED <<row, touched, doomed, jobLock, last, users>>

\* A slip: the drafts that were found are deleted by their ids.
DeleteFound(s, id) ==
  /\ spc[s] = "deleting" /\ id \in found[s] /\ ~LockedByUser(id)
  /\ found' = [found EXCEPT ![s] = @ \ {id}]
  /\ doomed' = [doomed EXCEPT ![s] = @ \cup {id}]
  /\ UNCHANGED <<row, touched, spc, jobLock, last, users>>

DeleteDraft(s, id) ==
  /\ spc[s] = "deleting" /\ id \in found[s] /\ ~LockedByUser(id)
  /\ found' = [found EXCEPT ![s] = @ \ {id}]
  /\ doomed' = [doomed EXCEPT ![s] = IF row[id] = "draft" THEN @ \cup {id} ELSE @]
  /\ UNCHANGED <<row, touched, spc, jobLock, last, users>>

\* create_many and mark_done, on rows nobody else has seen or can take.
CreateMany(s) ==
  /\ spc[s] = "deleting" /\ found[s] = {}
  /\ SaverGoto(s, "committing")
  /\ UNCHANGED <<row, touched, found, doomed, jobLock, last, users>>

CommitSave(s) ==
  /\ spc[s] = "committing"
  /\ row' = [id \in Ids |-> IF id \in Parsed[s] THEN "draft"
                            ELSE IF id \in doomed[s] THEN "absent" ELSE row[id]]
  /\ doomed' = [doomed EXCEPT ![s] = {}]
  /\ jobLock' = NoSaver /\ last' = s
  /\ SaverGoto(s, "saved")
  /\ UNCHANGED <<touched, found, users>>

\* A slip: the session is left open when a statement fails.
FailUnclosed(s) ==
  /\ spc[s] \in {"recording"} \cup InSave
  /\ found' = [found EXCEPT ![s] = {}]
  /\ SaverGoto(s, "handling")
  /\ UNCHANGED <<row, touched, doomed, jobLock, last, users>>

\* The answer is no good, or any statement or the commit fails: what is not
\* committed is rolled back.
Fail(s) ==
  /\ spc[s] \in {"recording"} \cup InSave
  /\ found' = [found EXCEPT ![s] = {}] /\ doomed' = [doomed EXCEPT ![s] = {}]
  /\ jobLock' = IF jobLock = s THEN NoSaver ELSE jobLock
  /\ SaverGoto(s, "handling")
  /\ UNCHANGED <<row, touched, last, users>>

\* mark_failed or mark_pending_for_retry, in a session of its own.
HandleError(s) ==
  /\ spc[s] = "handling" /\ jobLock = NoSaver
  /\ SaverGoto(s, "failed")
  /\ UNCHANGED <<row, touched, found, doomed, jobLock, last, users>>

SaveStep(s) ==
  \/ AgentAnswers(s) \/ SaveOutput(s) \/ CheckCommitted(s)
  \/ SaveMetadata(s) \/ BeginDelete(s)
  \/ \E id \in Ids : DeleteDraft(s, id)
  \/ CreateMany(s) \/ CommitSave(s) \/ HandleError(s)

(***************************************************************************)
(* The user.                                                               *)
(***************************************************************************)
Asks(c, p, id) ==
  /\ ~Pending(c) /\ LoopIsFree(p) /\ requests < MaxRequests
  /\ row[id] # "absent"
  /\ requests' = requests + 1
  /\ UNCHANGED <<row, touched, saves>>

\* PATCH /transactions/{id} with another is_draft than the row's: the flush
\* may meet a lock and then waits with its loop.
PatchIsDraft(c, p, id, new) ==
  /\ Asks(c, p, id) /\ row[id] # new
  /\ request' = [request EXCEPT ![c] =
       Ask(IF LockedForUser(c, id) THEN "waiting" ELSE "answered", id, new, p)]

DeleteTransaction(c, p, id) ==
  /\ Asks(c, p, id)
  /\ request' = [request EXCEPT ![c] = Ask("answered", id, "absent", p)]

\* A slip: nobody looks whether the UPDATE found its row.
ResumeBlindly(c) ==
  /\ Waits(c) /\ ~LockedForUser(c, request[c].id)
  /\ request' = [request EXCEPT ![c].phase = "answered"]
  /\ UNCHANGED <<row, touched, saves, requests>>

\* The lock is free.  A row that is gone by then fails the flush.
Resume(c) ==
  /\ Waits(c) /\ ~LockedForUser(c, request[c].id)
  /\ request' = [request EXCEPT ![c] =
       IF row[request[c].id] = "absent" THEN Idle
       ELSE [@ EXCEPT !.phase = "answered"]]
  /\ UNCHANGED <<row, touched, saves, requests>>

StartCommit(c) ==
  /\ request[c].phase = "answered" /\ LoopIsFree(request[c].process)
  /\ request' = [request EXCEPT ![c].phase = "committing"]
  /\ UNCHANGED <<row, touched, saves, requests>>

\* A DELETE waits here, in its thread; one that finds no row only warns.
Commit(c) ==
  LET id == request[c].id
  IN /\ request[c].phase = "committing"
     /\ ~LockedForUser(c, id)
     /\ row' = [row EXCEPT ![id] = request[c].new]
     /\ touched' = touched \cup {id}
     /\ request' = [request EXCEPT ![c] = Idle]
     /\ UNCHANGED <<saves, requests>>

CommitFails(c) ==
  /\ request[c].phase = "committing"
  /\ request' = [request EXCEPT ![c] = Idle]
  /\ UNCHANGED <<row, touched, saves, requests>>

Ends(c) == Resume(c) \/ StartCommit(c) \/ Commit(c)

Next ==
  \/ \E s \in Savers : SaveStep(s) \/ Fail(s)
  \/ \E c \in Clients, p \in Processes, id \in Ids :
       \/ \E new \in {"draft", "accepted"} : PatchIsDraft(c, p, id, new)
       \/ DeleteTransaction(c, p, id)
  \/ \E c \in Clients : Ends(c) \/ CommitFails(c)

Spec == Init /\ [][Next]_vars

\* Processes keep running and a lock that is given back goes to one who
\* waits for it; the user need not ask for anything.
FairSpec ==
  /\ Spec
  /\ \A s \in Savers : WF_vars(SaveStep(s))
  /\ \A c \in Clients : WF_vars(Ends(c))

(***************************************************************************)
(* Properties.                                                             *)
(***************************************************************************)
RowStates == {"absent", "draft", "accepted"}

\* The job's row is held from the first UPDATE to the end of the save, and
\* only then are rows on their way out.
SavesTypeOK ==
  /\ row \in [Ids -> RowStates] /\ touched \subseteq Ids
  /\ spc \in [Savers -> {"idle"} \cup AtWork \cup Ended]
  /\ found \in [Savers -> SUBSET Ids] /\ doomed \in [Savers -> SUBSET Ids]
  /\ jobLock \in Savers \cup {NoSaver} /\ last \in Savers \cup {NoSaver}
  /\ \A s \in Savers : spc[s] \in HoldingJob <=> jobLock = s
  /\ \A s \in Savers : spc[s] \notin InDelete => found[s] = {} /\ doomed[s] = {}
  /\ request \in [Clients -> {Idle} \cup
       [phase : {"waiting", "answered", "committing"}, id : Ids,
        new : RowStates, process : Processes]]
  /\ requests \in 0 .. MaxRequests

\* However many results are saved for a job, the rows no user has changed
\* are those of one answer, the last one saved, and all of that answer: no
\* line is there twice and none is left over, although the drafts to delete
\* are looked up before others commit (data_persistence.py:27-41).
DraftsOfOneSave ==
  \A id \in Ids \ touched :
    row[id] = "draft" <=> last # NoSaver /\ id \in Parsed[last]

\* A save never takes away a row the user has accepted, not one accepted
\* after its check or while its DELETE was waiting
\* (transactions.py:404-417, data_persistence.py:21-36).
AcceptedIsKept ==
  [][\A id \in Ids :
       /\ row[id] = "accepted" /\ row'[id] # "accepted"
       => \E c \in Clients : request[c] # Idle /\ request'[c] = Idle]_vars

\* An answered PATCH has a row to commit to, however the saves interleave:
\* no save has deleted it or will before the commit
\* (transactions_routes.py:134-153, session.py:25).
AnsweredHasItsRow ==
  \A c \in Clients, id \in Ids :
    HasLocked(c, id) => row[id] # "absent" /\ ~LockedBySave(id)

(***************************************************************************)
(* A call that waits does so with the loop of its process, and an answered *)
(* PATCH keeps its row locked until its own loop starts its commit.  Two   *)
(* such waits can close a ring that the database does not see.             *)
(***************************************************************************)
WaitsForProcess(p, q) ==
  \/ \E s \in Savers :
       /\ Home[s] = p
       /\ \/ /\ spc[s] \in {"recording", "locking", "handling"}
             /\ jobLock \notin {NoSaver, s}
             /\ Home[jobLock] = q
          \/ /\ spc[s] = "deleting"
             /\ \E c \in Clients, id \in found[s] :
                  /\ HasLocked(c, id) /\ request[c].phase = "answered"
                  /\ request[c].process = q
  \/ \E c \in Clients :
       /\ Waits(c) /\ request[c].process = p
       /\ \/ \E s \in Savers : request[c].id \in doomed[s] /\ Home[s] = q
          \/ \E d \in Clients \ {c} :
               /\ HasLocked(d, request[c].id) /\ request[d].phase = "answered"
               /\ request[d].process = q

StandStill ==
  \E ring \in SUBSET Processes \ {{}} :
    \A p \in ring : \E q \in ring : WaitsForProcess(p, q)

\* A call whose agent has answered comes to its outcome, unless processes
\* wait for each other in a ring, be it one process that waits for itself
\* (main.py:177-270, transactions.py:409, session.py:25).
CallEnds ==
  \A s \in Savers : spc[s] \in AtWork ~> spc[s] \in Ended \/ StandStill
===============================================================================
