----------------------------- MODULE CloudImport -----------------------------
(***************************************************************************)
(* Imports over Cloud Tasks (cloud_tasks_mode = "google"): upload requests *)
(* (agent_process_file in app/api/agents_routes.py) put a task on a queue, *)
(* and the queue delivers it to process_queued_import                      *)
(* (app/api/internal_tasks_routes.py), which runs process_job under an     *)
(* owner id made for that delivery.                                        *)
(*                                                                         *)
(* The queue is outside the repository.  It delivers a task until a        *)
(* delivery is answered with success or MaxDeliveries have been made,      *)
(* tells each delivery how many there were before, stops waiting for an    *)
(* answer at a deadline, and remembers the names of tasks that are over.   *)
(***************************************************************************)
EXTENDS ProcessJob, FiniteSets

CONSTANTS Requests,       \* upload requests, one call of the handler each
          NoTask,
          Contents,       \* what an uploaded file may contain
          MaxDeliveries,  \* cloud_tasks_max_attempts, 3
          MaxFaults,      \* bound on deaths and on deliveries turned away
          MaxTimeouts     \* bound on deliveries that outlive their deadline

ASSUME ContentsAssumption   == Contents # {}
ASSUME DeliveriesAssumption == MaxDeliveries \in Nat \ {0}
ASSUME NoTaskAssumption     == NoTask \notin Jobs \X (0 .. MaxClaimsById)
ASSUME BoundsAssumption     == MaxFaults \in Nat /\ MaxTimeouts \in Nat

VARIABLES
  upload,    \* per request: the job its key stands for, and the file
  upc,       \* per request: what the handler does next
  seen,      \* per request: what it keeps of the row it read or made
  answer,    \* per request: the status code of the response, 0 before
  saved,     \* the requests whose file is stored and belongs to no row
  hash,      \* per job: file_hash
  queue,     \* the tasks, by name
  serves,    \* per owner: the task whose delivery awaits its answer
  faults, timeouts

web   == <<upload, upc, seen, answer, saved, hash>>
tasks == <<queue, serves>>
vars  == <<tables, locals, web, tasks, faults, timeouts>>

\* What the handler goes on to use of a row, however old it gets.
Read(row) == [status |-> row.status, attempts |-> row.attempts]

\* A task is named after the job and its attempts when it is enqueued.
Names == Jobs \X (0 .. MaxClaimsById)

\* "finished" and "exhausted" tasks were answered, with success or with a
\* last failure; "dropped" ones got no answer to their last delivery.
Over == {"finished", "exhausted", "dropped"}
Task == [state : {"absent", "waiting", "delivered"} \cup Over,
         retries : 0 .. MaxDeliveries - 1]
Alive(n) == queue[n].state \in {"waiting", "delivered"}

HandlerPCs == {"looking_up", "saving_file", "creating", "discarding_duplicate",
               "discarding_unused", "looking_again", "enqueuing",
               "failing_dispatch", "deleting_unscheduled", "answered", "dead"}

(***************************************************************************)
(* The initial state.                                                      *)
(***************************************************************************)
Init ==
  /\ jobs      = [j \in Jobs |-> NoRow]
  /\ pdf       = {}
  /\ drafts    = [j \in Jobs |-> NoLines]
  /\ committed = [j \in Jobs |-> NoLines]
  /\ pc        = [w \in Owners |-> "idle"]
  /\ job       \in [Owners -> Jobs]
  /\ final     = [w \in Owners |-> FALSE]
  /\ upload    \in [Requests -> [key : Jobs, file : Contents]]
  /\ upc       = [r \in Requests |-> "looking_up"]
  /\ seen      = [r \in Requests |-> Read(NoRow)]
  /\ answer    = [r \in Requests |-> 0]
  /\ saved     = {}
  /\ hash      = [j \in Jobs |-> CHOOSE c \in Contents : TRUE]
  /\ queue     = [n \in Names |-> [state |-> "absent", retries |-> 0]]
  /\ serves    = [w \in Owners |-> NoTask]
  /\ faults    = 0
  /\ timeouts  = 0

(***************************************************************************)
(* The upload request.                                                     *)
(***************************************************************************)
Key(r)        == upload[r].key
Handle(r, to) == upc' = [upc EXCEPT ![r] = to]
Answer(r, code) ==
  /\ Handle(r, "answered")
  /\ answer' = [answer EXCEPT ![r] = code]

\* The response to a request that finds its job, from the row it has read.
AnswerKnown(r, row) == Answer(r, IF row.status \in Active THEN 202 ELSE 200)

\* Slips: the file is not compared, or a pending job is not enqueued again.
ReuseAnyFile(r, row) ==
  /\ seen' = [seen EXCEPT ![r] = Read(row)]
  /\ IF row.status = "pending"
     THEN Handle(r, "enqueuing") /\ UNCHANGED answer
     ELSE AnswerKnown(r, row)

ReuseWithoutDispatch(r, row) ==
  /\ IF hash[Key(r)] # upload[r].file THEN Answer(r, 409)
     ELSE AnswerKnown(r, row)
  /\ UNCHANGED seen

\* A job under the same key: another file is refused, a pending job is
\* enqueued again, anything else is reported as it is.
Reuse(r, row) ==
  IF hash[Key(r)] # upload[r].file
  THEN Answer(r, 409) /\ UNCHANGED seen
  ELSE /\ seen' = [seen EXCEPT ![r] = Read(row)]
       /\ IF row.status = "pending"
          THEN Handle(r, "enqueuing") /\ UNCHANGED answer
          ELSE AnswerKnown(r, row)

LookUp(r) ==
  /\ upc[r] = "looking_up"
  /\ IF Exists(jobs[Key(r)])
     THEN Reuse(r, jobs[Key(r)])
     ELSE Handle(r, "saving_file") /\ UNCHANGED <<seen, answer>>
  /\ UNCHANGED <<tables, locals, tasks, upload, saved, hash>>

\* The file is refused before anything is stored (415), or the storage
\* fails (500), or it is stored under a path of its own.
SaveFile(r) ==
  /\ upc[r] = "saving_file"
  /\ \/ saved' = saved \cup {r} /\ Handle(r, "creating") /\ UNCHANGED answer
     \/ Answer(r, 415) /\ UNCHANGED saved
     \/ Answer(r, 500) /\ UNCHANGED saved
  /\ UNCHANGED <<tables, locals, tasks, upload, seen, hash>>

\* The INSERT and its commit.  The unique key lets one of several requests
\* through; the others raise when that one has committed.  Any other error
\* of the INSERT discards the file too, an error of the commit does not.
CreateJob(r) ==
  /\ upc[r] = "creating"
  /\ \/ /\ ~Exists(jobs[Key(r)])
        /\ jobs' = [jobs EXCEPT ![Key(r)] = CreatePending]
        /\ pdf' = pdf \cup {Key(r)}
        /\ saved' = saved \ {r}
        /\ hash' = [hash EXCEPT ![Key(r)] = upload[r].file]
        /\ seen' = [seen EXCEPT ![r] = Read(CreatePending)]
        /\ Handle(r, "enqueuing")
        /\ UNCHANGED answer
     \/ /\ Exists(jobs[Key(r)])
        /\ Handle(r, "discarding_duplicate")
        /\ UNCHANGED <<jobs, pdf, seen, answer, saved, hash>>
     \/ /\ Handle(r, "discarding_unused")
        /\ UNCHANGED <<jobs, pdf, seen, answer, saved, hash>>
     \/ /\ ~Exists(jobs[Key(r)])
        /\ Answer(r, 500)
        /\ UNCHANGED <<jobs, pdf, seen, saved, hash>>
  /\ UNCHANGED <<drafts, committed, locals, tasks, upload>>

\* delete_if_exists on the file just saved; it may raise.
DiscardFile(r) ==
  /\ \/ /\ upc[r] = "discarding_duplicate"
        /\ saved' = saved \ {r}
        /\ Handle(r, "looking_again")
        /\ UNCHANGED answer
     \/ /\ upc[r] = "discarding_unused"
        /\ saved' = saved \ {r}
        /\ \E code \in {422, 500} : Answer(r, code)
     \/ /\ upc[r] \in {"discarding_duplicate", "discarding_unused"}
        /\ Answer(r, 500)
        /\ UNCHANGED saved
  /\ UNCHANGED <<tables, locals, tasks, upload, seen, hash>>

LookAgain(r) ==
  /\ upc[r] = "looking_again"
  /\ IF Exists(jobs[Key(r)])
     THEN Reuse(r, jobs[Key(r)])
     ELSE Answer(r, 409) /\ UNCHANGED seen
  /\ UNCHANGED <<tables, locals, tasks, upload, saved, hash>>

\* create_task.  A name that is taken, by a task of any state, is success.
\* The call may fail with the task created or without.
TaskName(r) == <<Key(r), seen[r].attempts>>

CreateTask(n) ==
  queue' = IF queue[n].state = "absent"
           THEN [queue EXCEPT ![n].state = "waiting"]
           ELSE queue

Enqueue(r) ==
  /\ upc[r] = "enqueuing"
  /\ \/ CreateTask(TaskName(r)) /\ AnswerKnown(r, seen[r])
     \/ /\ CreateTask(TaskName(r)) \/ UNCHANGED queue
        /\ Handle(r, "failing_dispatch")
        /\ UNCHANGED answer
  /\ UNCHANGED <<tables, locals, upload, seen, saved, hash, serves>>

FailDispatch(r) ==
  /\ upc[r] = "failing_dispatch"
  /\ jobs' = [jobs EXCEPT ![Key(r)] =
                MarkFailed(@, "Import could not be scheduled.")]
  /\ Handle(r, "deleting_unscheduled")
  /\ UNCHANGED <<pdf, drafts, committed, locals, tasks,
                 upload, seen, answer, saved, hash>>

DeleteUnscheduled(r) ==
  /\ upc[r] = "deleting_unscheduled"
  /\ pdf' \in {pdf, pdf \ {Key(r)}}
  /\ Answer(r, 503)
  /\ UNCHANGED <<jobs, drafts, committed, locals, tasks,
                 upload, seen, saved, hash>>

RequestStep(r) ==
  \/ LookUp(r)    \/ SaveFile(r)  \/ CreateJob(r)    \/ DiscardFile(r)
  \/ LookAgain(r) \/ Enqueue(r)   \/ FailDispatch(r) \/ DeleteUnscheduled(r)

\* The process of the API dies with the request in it.
RequestDies(r) ==
  /\ upc[r] \notin {"looking_up", "answered", "dead"} /\ faults < MaxFaults
  /\ faults' = faults + 1
  /\ Handle(r, "dead")
  /\ UNCHANGED <<tables, locals, tasks, upload, seen, answer, saved, hash, timeouts>>

(***************************************************************************)
(* Deliveries.                                                             *)
(***************************************************************************)

\* An owner id that no row, no delivery has: uuid4 makes a new one each time.
Unused(w) ==
  /\ pc[w] = "idle"
  /\ \A j \in Jobs : jobs[j].lockedBy # w

NeverFinalDelivery(retries) == retries >= MaxDeliveries   \* a slip

\* process_queued_import tells the last delivery from the retry count.
IsFinalDelivery(retries) == retries >= MaxDeliveries - 1

Deliver(n, w) ==
  /\ queue[n].state = "waiting" /\ Unused(w)
  /\ queue' = [queue EXCEPT ![n].state = "delivered"]
  /\ serves' = [serves EXCEPT ![w] = n]
  /\ job' = [job EXCEPT ![w] = n[1]]
  /\ final' = [final EXCEPT ![w] = IsFinalDelivery(queue[n].retries)]
  /\ Goto(w, "loading_job")
  /\ UNCHANGED <<tables, web>>

\* A slip: the queue's limit is one above the setting.
RedeliverOnceMore(n, end) ==
  queue' = [queue EXCEPT ![n] =
              IF @.retries < MaxDeliveries
              THEN [state |-> "waiting", retries |-> @.retries + 1]
              ELSE [@ EXCEPT !.state = end]]

\* A delivery has failed: the task waits for its next one, or was at its
\* last.
Redeliver(n, end) ==
  queue' = [queue EXCEPT ![n] =
              IF @.retries < MaxDeliveries - 1
              THEN [state |-> "waiting", retries |-> @.retries + 1]
              ELSE [@ EXCEPT !.state = end]]

EndCall(w) ==
  /\ Goto(w, "idle")
  /\ final' = [final EXCEPT ![w] = FALSE]
  /\ serves' = [serves EXCEPT ![w] = NoTask]

\* 204 for "done", 503 for "retry".  Nobody hears the answer of a call that
\* is past its deadline.
AnswerDelivery(w) ==
  /\ pc[w] \in Outcomes
  /\ IF serves[w] = NoTask THEN UNCHANGED queue
     ELSE IF pc[w] = "done"
     THEN queue' = [queue EXCEPT ![serves[w]].state = "finished"]
     ELSE Redeliver(serves[w], "exhausted")
  /\ EndCall(w)
  /\ UNCHANGED <<tables, job, web>>

\* The call ends without an outcome: its process dies, or process_job
\* raises outside its try block.
DeliveryDies(w) ==
  /\ pc[w] # "idle" /\ faults < MaxFaults
  /\ faults' = faults + 1
  /\ IF serves[w] = NoTask THEN UNCHANGED queue
     ELSE Redeliver(serves[w], "dropped")
  /\ EndCall(w)
  /\ UNCHANGED <<tables, job, web, timeouts>>

\* A delivery does not reach process_job: require_cloud_task answers 503
\* when it cannot verify the token, or the request is lost on its way.
TurnedAway(n) ==
  /\ queue[n].state = "waiting" /\ faults < MaxFaults
  /\ faults' = faults + 1
  /\ Redeliver(n, "dropped")
  /\ UNCHANGED <<tables, locals, web, serves, timeouts>>

\* The queue stops waiting; the call goes on.
Deadline(w) ==
  /\ serves[w] # NoTask /\ timeouts < MaxTimeouts
  /\ timeouts' = timeouts + 1
  /\ Redeliver(serves[w], "dropped")
  /\ serves' = [serves EXCEPT ![w] = NoTask]
  /\ UNCHANGED <<tables, locals, web, faults>>

(***************************************************************************)
(* The specification.                                                      *)
(***************************************************************************)
bounds == <<faults, timeouts>>

Request(r) == RequestStep(r) /\ UNCHANGED bounds
StartDelivery(n) == \E w \in Owners : Deliver(n, w) /\ UNCHANGED bounds
Call(w)    == (Advance(w) /\ UNCHANGED <<web, tasks, bounds>>)
              \/ (AnswerDelivery(w) /\ UNCHANGED bounds)
Progress(w) == AgentProgress(w) /\ UNCHANGED <<web, tasks, bounds>>

Next ==
  \/ \E r \in Requests : Request(r) \/ RequestDies(r)
  \/ \E n \in Names : StartDelivery(n) \/ TurnedAway(n)
  \/ \E w \in Owners : Call(w) \/ Progress(w) \/ DeliveryDies(w) \/ Deadline(w)

Spec == Init /\ [][Next]_vars

\* A request that runs goes on, a waiting task is delivered again, and a
\* call goes on: the agent answers or its request fails.
Fairness ==
  /\ \A r \in Requests : WF_vars(Request(r))
  /\ \A n \in Names : WF_vars(StartDelivery(n))
  /\ \A w \in Owners : WF_vars(Call(w))

FairSpec == Spec /\ Fairness

TypeOK ==
  /\ jobs \in [Jobs -> Row]
  /\ pdf \subseteq Jobs
  /\ drafts \in [Jobs -> [Lines -> Nat]]
  /\ committed \in [Jobs -> [Lines -> Nat]]
  /\ pc \in [Owners -> Phases \cup {"idle"}]
  /\ job \in [Owners -> Jobs]
  /\ final \in [Owners -> BOOLEAN]
  /\ upload \in [Requests -> [key : Jobs, file : Contents]]
  /\ upc \in [Requests -> HandlerPCs]
  /\ seen \in [Requests -> [status : Statuses, attempts : 0 .. MaxClaimsById]]
  /\ answer \in [Requests -> {0, 200, 202, 409, 415, 422, 500, 503}]
  /\ saved \subseteq Requests
  /\ hash \in [Jobs -> Contents]
  /\ queue \in [Names -> Task]
  /\ serves \in [Owners -> Names \cup {NoTask}]
  /\ faults \in 0 .. MaxFaults
  /\ timeouts \in 0 .. MaxTimeouts

(***************************************************************************)
(* Safety.  Two deliveries can process one job: a deadline passes while    *)
(* the first is at work, or the key is used again while the job waits for  *)
(* its next attempt, which makes a second task.                            *)
(***************************************************************************)

\* An upload that got an answer other than 500 leaves no file behind that
\* no job owns, and one answered with success got a job made from the very
\* file it sent, however many uploads share the key (agents_routes.py:62-199).
AnswersAreTrue ==
  \A r \in Requests :
    /\ answer[r] \notin {0, 500} => r \notin saved
    /\ answer[r] \in {200, 202} =>
         Exists(jobs[Key(r)]) /\ hash[Key(r)] = upload[r].file

\* "Accepted" means a task was made for the job, even when the request that
\* created the job died before it came to that (agents_routes.py:82-97,
\* 156-170, 187).
TasksOf(j)  == {n \in Names : n[1] = j /\ queue[n].state # "absent"}
AcceptedWasQueued ==
  \A r \in Requests : answer[r] = 202 => TasksOf(Key(r)) # {}

\* The queue does not lose sight of an accepted upload: a task of an open job
\* is still to be delivered or being delivered, unless one got no answer to
\* its last delivery, or a call outlived its deadline.  Such a call, which the
\* last delivery could not stop, is still at work, or has put the job back to
\* pending, or died with the job in its hands
\* (main.py:68-99, 248-270, internal_tasks_routes.py:53-63).
LastWentUnanswered(j) == \E n \in TasksOf(j) : queue[n].state = "dropped"

LateCall(w, j) == job[w] = j /\ pc[w] # "idle" /\ serves[w] = NoTask

LeftByLateCall(j) ==
  /\ timeouts > 0
  /\ \/ /\ jobs[j].status = "pending"
        /\ jobs[j].error = "Temporary processing failure"
     \/ /\ jobs[j].status = "processing" /\ faults > 0
        /\ pc[jobs[j].lockedBy] = "idle"

AcceptedStaysQueued ==
  \A r \in Requests :
    LET j == Key(r) IN
    answer[r] = 202 /\ jobs[j].status \in Active
      => \/ \E n \in TasksOf(j) : Alive(n)
         \/ LastWentUnanswered(j)
         \/ \E w \in Owners : LateCall(w, j)
         \/ LeftByLateCall(j)

\* A delivery makes one attempt at most, so the queue's limit bounds the
\* attempts of a job, not claim_by_id's (main.py:42-270).
AttemptsWithinDeliveries ==
  \A j \in Jobs :
    jobs[j].attempts <= MaxDeliveries * Cardinality(TasksOf(j))

(***************************************************************************)
(* Liveness.                                                               *)
(***************************************************************************)

\* An accepted upload comes to an end and stays there, with the exception
\* of AcceptedStaysQueued.
AcceptedUploadSettles ==
  \A r \in Requests :
    answer[r] = 202 ~> \/ [](jobs[Key(r)].status \in Terminal)
                       \/ LastWentUnanswered(Key(r))

(***************************************************************************)
(* What the code's own words promise and an ambiguous failure breaks.      *)
(***************************************************************************)

\* "Import could not be scheduled." (agents_routes.py:38): nobody is
\* processing a job that is closed with these words.
UnscheduledIsNotRunning ==
  [][\A j \in Jobs :
        /\ jobs'[j].error = "Import could not be scheduled."
        /\ jobs[j].error # jobs'[j].error
        => jobs[j].status # "processing"]_vars
===============================================================================
