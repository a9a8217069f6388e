----------------------------- MODULE ImportWorker -----------------------------
(***************************************************************************)
(* The polling workers (run_worker in app/workers/import_worker/main.py).  *)
(* Any number of them may run against one database; each loops: claim the  *)
(* oldest claimable job, process it, poll again.                           *)
(*                                                                         *)
(* claim_next_pending is two statements of one READ COMMITTED transaction, *)
(* a SELECT without a lock and an UPDATE, and another worker may commit    *)
(* between them.  It returns the object the SELECT loaded: the ORM applies *)
(* the UPDATE's `attempts + 1' to the value it loaded, and get_by_id does  *)
(* not refresh an object the session holds.  So a worker's idea of its     *)
(* attempt is the number it selected plus one, and that decides            *)
(* final_attempt.                                                          *)
(***************************************************************************)
EXTENDS ProcessJob

CONSTANT MaxCrashes  \* how often a worker process may die

ASSUME MaxCrashesAssumption == MaxCrashes \in Nat

VARIABLES selected,  \* per worker: the attempts its SELECT loaded
          crashes    \* worker deaths so far, bounded by MaxCrashes

vars == <<tables, locals, selected, crashes>>

\* A polling worker locks rows under its own id.
Workers == Owners

Idle == {"polling"} \cup Outcomes
PCs  == Phases \cup {"polling", "selected", "down"}

Init ==
  /\ jobs      = [j \in Jobs |-> NoRow]
  /\ pdf       = {}
  /\ drafts    = [j \in Jobs |-> NoLines]
  /\ committed = [j \in Jobs |-> NoLines]
  /\ pc        = [w \in Workers |-> "polling"]
  /\ job       \in [Workers -> Jobs]
  /\ final     = [w \in Workers |-> FALSE]
  /\ selected  = [w \in Workers |-> 0]
  /\ crashes   = 0

Candidates == {j \in Jobs : IsCandidate(jobs[j])}

\* The SELECT: the oldest candidate.  With none the worker sleeps and polls
\* again; what process_job returned makes no difference to the loop.
SelectCandidate(w) ==
  /\ pc[w] \in Idle
  /\ \E j \in Candidates :
       /\ \A k \in Candidates : j <= k
       /\ job' = [job EXCEPT ![w] = j]
       /\ selected' = [selected EXCEPT ![w] = jobs[j].attempts]
  /\ Goto(w, "selected")
  /\ UNCHANGED <<tables, final, crashes>>

\* A slip: the last attempt is told one early, or one late.
EagerFinalAttempt(attempt) == attempt >= MaxAttempts - 1
LateFinalAttempt(attempt)  == attempt > MaxAttempts

\* final_attempt, from the attempts of the object claim_next_pending returned.
IsFinalAttempt(attempt) == attempt >= MaxAttempts

\* The UPDATE, its commit and the call of process_job.
ClaimSelected(w) ==
  /\ pc[w] = "selected"
  /\ IF ClaimNextMatches(RowOf(w))
     THEN /\ Update(w, Lock(RowOf(w), w))
          /\ final' = [final EXCEPT ![w] = IsFinalAttempt(selected[w] + 1)]
          /\ Goto(w, "loading_job")
     ELSE /\ Goto(w, "polling")
          /\ UNCHANGED <<jobs, final>>
  /\ selected' = [selected EXCEPT ![w] = 0]
  /\ UNCHANGED <<pdf, drafts, committed, job, crashes>>

\* The process dies: it is killed, or process_job raises outside its try
\* block, which run_worker does not catch.  An open transaction rolls back.
Crash(w) ==
  /\ pc[w] # "down" /\ crashes < MaxCrashes
  /\ crashes' = crashes + 1
  /\ Goto(w, "down")
  /\ final' = [final EXCEPT ![w] = FALSE]
  /\ selected' = [selected EXCEPT ![w] = 0]
  /\ UNCHANGED <<tables, job>>

\* It is started again under the same --worker-id; a worker with a new id
\* is one more element of Workers.
Restart(w) ==
  /\ pc[w] = "down"
  /\ Goto(w, "polling")
  /\ UNCHANGED <<tables, job, final, selected, crashes>>

Poll(w) == SelectCandidate(w) \/ ClaimSelected(w)
Call(w) == ProcessStep(w) /\ UNCHANGED <<selected, crashes>>

Environment ==
  \/ UserStep /\ UNCHANGED <<selected, crashes>>
  \/ \E j \in Jobs : LockAges(j) /\ UNCHANGED <<selected, crashes>>

Next ==
  \/ \E w \in Workers : Poll(w) \/ Call(w) \/ Crash(w) \/ Restart(w)
  \/ Environment

Spec == Init /\ [][Next]_vars

(***************************************************************************)
(* Fairness.  A worker that runs keeps running (the agent answers or its   *)
(* request fails), a dead one is started again, and a lock gets old.       *)
(***************************************************************************)
Fairness ==
  /\ \A w \in Workers :
       /\ WF_vars(Poll(w))
       /\ WF_vars(Advance(w) /\ UNCHANGED <<selected, crashes>>)
       /\ WF_vars(Restart(w))
  /\ \A j \in Jobs : WF_vars(LockAges(j) /\ UNCHANGED <<selected, crashes>>)

FairSpec == Spec /\ Fairness

(***************************************************************************)
(* Types.                                                                  *)
(***************************************************************************)
TypeOK ==
  /\ jobs \in [Jobs -> Row]
  /\ pdf \subseteq Jobs
  /\ drafts \in [Jobs -> [Lines -> Nat]]
  /\ committed \in [Jobs -> [Lines -> Nat]]
  /\ pc \in [Workers -> PCs]
  /\ job \in [Workers -> Jobs]
  /\ final \in [Workers -> BOOLEAN]
  /\ selected \in [Workers -> 0 .. MaxAttempts - 1]
  /\ crashes \in 0 .. MaxCrashes

(***************************************************************************)
(* Safety, for any number of workers.  Two of them can process one job at  *)
(* the same time: both selected it before either claimed it, or the lock   *)
(* grew old while its holder was still at work.                            *)
(***************************************************************************)

\* Workers that hold a claim on j they have not given back.
Holding == {"loading_job", "starting"} \cup InTry \cup Handlers
Holds(w, j) == job[w] = j /\ pc[w] \in Holding

\* Only a death abandons a job: as long as every worker lives, the worker
\* named by locked_by is in the middle of that very job, so no return path
\* of process_job leaves a lock behind (main.py:53-270).
LockNotAbandoned ==
  crashes = 0 =>
    \A j \in Jobs : jobs[j].status = "processing" => Holds(jobs[j].lockedBy, j)

\* No more than two rounds of attempts: claim_next_pending stops at
\* MaxAttempts, and each of its claims lets process_job claim the job once
\* more by id (main.py:68-73), whose own limit is far higher.
AttemptsBounded == \A j \in Jobs : jobs[j].attempts <= 2 * MaxAttempts

\* A job is given up only after MaxAttempts attempts, although a worker
\* decides that from the attempts it selected, not from those in the row
\* (import_jobs.py:116-157, main.py:79, 250, 309).
GivenUp == {"Processing failed after all retry attempts.",
            "Processing was interrupted before it completed."}

GivenUpAfterAllAttempts ==
  \A j \in Jobs :
    jobs[j].error \in GivenUp => jobs[j].attempts >= MaxAttempts

(***************************************************************************)
(* What the code's own words promise and two workers break.                *)
(***************************************************************************)

\* "An import failure that will not improve when retried." (main.py:32):
\* a job whose file was rejected is not put back to work.
RejectedIsFinal ==
  [][\A j \in Jobs :
        jobs[j].status = "failed" /\ jobs[j].error = "file rejected"
          => jobs'[j].status = "failed"]_vars

\* "Import job already has committed transactions; retry cannot replace
\* them." (data_persistence.py:25): no save goes through for such a job.
CommittedIsNotReplaced ==
  [][\A j \in Jobs :
        HasCommitted(j) /\ committed' = committed
          => \A l \in Lines : drafts'[j][l] <= drafts[j][l]]_vars

(***************************************************************************)
(* One worker.                                                             *)
(***************************************************************************)

\* A worker that nobody competes with owns the row it works on: the lock
\* names it and its attempt is the row's (main.py:286-310).
SoleHolderOwnsRow ==
  \A w \in Workers, j \in Jobs :
    Holds(w, j) =>
      /\ jobs[j].status = "processing" /\ jobs[j].lockedBy = w
      /\ final[w] <=> jobs[j].attempts >= MaxAttempts

Phase == [j \in Jobs |-> jobs[j].status]
Tries == [j \in Jobs |-> jobs[j].attempts]

Lifecycle ==
  INSTANCE ImportLifecycle
    WITH phase <- Phase, tries <- Tries, files <- pdf, MaxTries <- MaxAttempts

\* With one worker a job has the lifecycle of module ImportLifecycle: it
\* ends once and for all, after at most MaxAttempts attempts, and keeps its
\* file until then, through failures, deaths and restarts (main.py:42-312).
LifecycleSpec == Lifecycle!Spec

(***************************************************************************)
(* Liveness.                                                               *)
(***************************************************************************)

\* The job was on its last attempt when its worker died; no SELECT of
\* claim_next_pending finds it again (import_jobs.py:119), and the branch
\* that closes an interrupted job (main.py:79-92) asks for its id.
DiedOnLastAttempt(j) ==
  /\ crashes > 0
  /\ jobs[j].status = "processing" /\ jobs[j].attempts >= MaxAttempts
  /\ \A w \in Workers : ~Holds(w, j)

\* Every upload is brought to an end, whatever fails on the way and
\* whichever worker dies, unless a death hits the last attempt.
UploadSettles ==
  \A j \in Jobs :
    Exists(jobs[j]) ~> jobs[j].status \in Terminal \/ DiedOnLastAttempt(j)
===============================================================================
