--------------------------- MODULE CloudImportProofs ---------------------------
(***************************************************************************)
(* Theorems about imports over Cloud Tasks (module CloudImport), for any   *)
(* requests, keys, files, owners and limits: what an upload is answered    *)
(* stays true, whatever races, deaths and missed deadlines follow.         *)
(***************************************************************************)
EXTENDS CloudImport, ProcessJobProofs, FiniteSetTheorems

(***************************************************************************)
(* The invariant.  AnswersAreTrue and AcceptedWasQueued speak of requests  *)
(* that are over.  They are inductive with what a request knows while it   *)
(* runs, and with what a call knows: a job is processing only because a    *)
(* task brought somebody to it.                                            *)
(***************************************************************************)
Queued(j) == TasksOf(j) # {}

RowKnown(j) ==
  /\ RowConsistent(jobs[j])
  /\ jobs[j].attempts <= MaxClaimsById
  /\ jobs[j].status = "processing" => Queued(j)

OwnJob(r) == Exists(jobs[Key(r)]) /\ hash[Key(r)] = upload[r].file

HoldsFile == {"creating", "discarding_duplicate", "discarding_unused", "dead"}

RequestKnows(r) ==
  /\ upc[r] \in {"enqueuing", "failing_dispatch", "deleting_unscheduled"} => OwnJob(r)
  /\ answer[r] # 0 => upc[r] = "answered"
  /\ r \in saved => upc[r] \in HoldsFile \/ answer[r] = 500
  /\ answer[r] \in {200, 202} => OwnJob(r)
  /\ answer[r] = 202 => Queued(Key(r))

CallKnows(w) ==
  /\ pc[w] # "idle" => Queued(job[w])
  /\ pc[w] \in Working => AttemptMade(RowOf(w))

CloudInv ==
  /\ TypeOK
  /\ \A j \in Jobs : RowKnown(j)
  /\ \A r \in Requests : RequestKnows(r)
  /\ \A w \in Owners : CallKnows(w)

(***************************************************************************)
(* What every step keeps of the rows, the files' hashes and the tasks.     *)
(***************************************************************************)
RowChange(r, s) ==
  \/ KeptConsistent(r, s)
  \/ ~Exists(r) /\ s = CreatePending

TasksKept == \A n \in Names : queue[n].state # "absent" => queue'[n].state # "absent"

HashesKept == \A j \in Jobs : Exists(jobs[j]) => hash'[j] = hash[j]

LEMMA QueuedKept ==
  ASSUME TasksKept, NEW j, Queued(j)
  PROVE  Queued(j)'
BY DEF TasksKept, Queued, TasksOf, Names

\* A failed delivery leaves a task a task.
LEMMA RedeliverKeeps ==
  ASSUME queue \in [Names -> Task], NEW n \in Names, NEW end \in Over,
         Redeliver(n, end)
  PROVE  queue' \in [Names -> Task] /\ TasksKept
<1>1. queue[n].retries \in 0 .. MaxDeliveries - 1 /\ MaxDeliveries \in Nat \ {0}
  BY DeliveriesAssumption DEF Task
<1>2. CASE queue[n].retries < MaxDeliveries - 1
  <2> DEFINE t == [state |-> "waiting", retries |-> queue[n].retries + 1]
  <2>1. queue[n].retries + 1 \in 0 .. MaxDeliveries - 1
    BY <1>1, <1>2
  <2>2. t \in Task /\ t.state # "absent"
    BY <2>1 DEF Task
  <2>3. queue' = [queue EXCEPT ![n] = t]
    BY <1>2 DEF Redeliver
  <2> HIDE DEF t
  <2> QED BY <2>2, <2>3 DEF TasksKept
<1>3. CASE ~(queue[n].retries < MaxDeliveries - 1)
  <2> DEFINE t == [queue[n] EXCEPT !.state = end]
  <2>1. t \in Task /\ t.state # "absent"
    BY DEF Task, Over
  <2>2. queue' = [queue EXCEPT ![n] = t]
    BY <1>3 DEF Redeliver
  <2> HIDE DEF t
  <2> QED BY <2>1, <2>2 DEF TasksKept
<1> QED BY <1>2, <1>3

\* create_task finds the name taken or makes a task of it.
LEMMA CreateTaskKeeps ==
  ASSUME queue \in [Names -> Task], NEW n \in Names, CreateTask(n)
  PROVE  queue' \in [Names -> Task] /\ TasksKept /\ queue'[n].state # "absent"
<1>1. [queue[n] EXCEPT !.state = "waiting"] \in Task
  BY DEF Task
<1> QED BY <1>1 DEF CreateTask, TasksKept, Task

\* What a step does to everybody who takes no part in it.
LEMMA RequestUnaware ==
  ASSUME CloudInv, TasksKept, HashesKept, jobs' \in [Jobs -> Row],
         upload' = upload, \A j \in Jobs : RowChange(jobs[j], jobs'[j]),
         NEW r \in Requests, upc'[r] = upc[r], answer'[r] = answer[r],
         r \in saved' => r \in saved
  PROVE  RequestKnows(r)'
<1>1. Key(r) \in Jobs /\ Key(r)' = Key(r)
  BY DEF CloudInv, TypeOK, Key
<1>2. OwnJob(r) => OwnJob(r)'
  BY <1>1 DEF OwnJob, HashesKept, RowChange, KeptConsistent, Kept, Key
<1>3. Queued(Key(r)) => Queued(Key(r))'
  BY <1>1, QueuedKept
<1> QED BY <1>2, <1>3 DEF CloudInv, RequestKnows

LEMMA CallUnaware ==
  ASSUME CloudInv, TasksKept, jobs' \in [Jobs -> Row],
         \A j \in Jobs : RowChange(jobs[j], jobs'[j]),
         NEW w \in Owners, pc'[w] = pc[w], job'[w] = job[w]
  PROVE  CallKnows(w)'
<1>1. job[w] \in Jobs /\ jobs[job[w]] \in Row
  BY DEF CloudInv, TypeOK
<1>2. Queued(job[w]) => Queued(job[w])'
  BY <1>1, QueuedKept
<1>3. AttemptMade(RowOf(w)) => AttemptMade(RowOf(w)')
  BY <1>1 DEF AttemptMade, RowOf, RowChange, KeptConsistent, Kept, Row
<1> QED BY <1>2, <1>3 DEF CloudInv, CallKnows

LEMMA RowsKnown ==
  ASSUME CloudInv, TasksKept, jobs' \in [Jobs -> Row], NEW j \in Jobs,
         RowChange(jobs[j], jobs'[j]),
         jobs'[j].status = "processing" => jobs[j].status = "processing" \/ Queued(j)
  PROVE  RowKnown(j)'
<1>1. Queued(j) => Queued(j)'
  BY QueuedKept
<1>2. KeptConsistent(jobs[j], jobs'[j]) => RowKnown(j)'
  BY <1>1 DEF CloudInv, RowKnown, KeptConsistent, Kept
<1>3. CASE jobs'[j] = CreatePending
  <2>1. /\ jobs'[j].status = "pending" /\ jobs'[j].attempts = 0
        /\ jobs'[j].lockedBy = NoOwner /\ jobs'[j].lockedAt = "null"
        /\ jobs'[j].finishedAt = "null" /\ jobs'[j].error = "none"
    BY <1>3 DEF CreatePending, NoRow
  <2>2. RowConsistent(jobs'[j])
    BY <2>1 DEF RowConsistent, Terminal
  <2>3. jobs'[j].attempts <= MaxClaimsById
    BY <2>1, LimitsAssumption
  <2> QED BY <2>1, <2>2, <2>3 DEF RowKnown
<1> QED BY <1>2, <1>3 DEF RowChange

(***************************************************************************)
(* The upload request.                                                     *)
(***************************************************************************)

\* A request leaves rows, hashes and tasks as the lemmas above ask.
LEMMA RequestRows ==
  ASSUME CloudInv, NEW r \in Requests, RequestStep(r)
  PROVE  /\ jobs' \in [Jobs -> Row] /\ HashesKept /\ hash' \in [Jobs -> Contents]
         /\ \A j \in Jobs :
              /\ RowChange(jobs[j], jobs'[j])
              /\ jobs'[j].status = "processing" => jobs[j].status = "processing"
<1>1. /\ Key(r) \in Jobs /\ jobs \in [Jobs -> Row] /\ upload[r].file \in Contents
      /\ hash \in [Jobs -> Contents]
  BY DEF CloudInv, TypeOK, Key
<1>2. \A j \in Jobs : RowConsistent(jobs[j]) /\ RowChange(jobs[j], jobs[j])
  BY <1>1, SameColumns DEF CloudInv, RowKnown, RowChange
<1>3. CASE UNCHANGED <<jobs, hash>>
  BY <1>1, <1>2, <1>3 DEF HashesKept
<1>4. CASE /\ ~Exists(jobs[Key(r)])
           /\ jobs' = [jobs EXCEPT ![Key(r)] = CreatePending]
           /\ hash' = [hash EXCEPT ![Key(r)] = upload[r].file]
  <2>1. CreatePending \in Row /\ CreatePending.status = "pending"
    BY NewRows DEF CreatePending, NoRow
  <2> QED BY <1>1, <1>2, <1>4, <2>1 DEF HashesKept, RowChange
<1>5. CASE FailDispatch(r)
  <2> DEFINE row == MarkFailed(jobs[Key(r)], "Import could not be scheduled.")
  <2>1. "Import could not be scheduled." \in Closing
    BY DEF Closing, Errors
  <2>2. row \in Row /\ KeptConsistent(jobs[Key(r)], row)
    BY <1>1, <1>2, <2>1, RowOperators, RowOperatorsKeep DEF Closing
  <2>3. row.status = "processing" => jobs[Key(r)].status = "processing"
    BY <1>1 DEF MarkFailed, Unlock, Row
  <2>4. jobs' = [jobs EXCEPT ![Key(r)] = row] /\ hash' = hash
    BY <1>5 DEF FailDispatch
  <2> HIDE DEF row
  <2> QED BY <1>1, <1>2, <2>2, <2>3, <2>4 DEF HashesKept, RowChange
<1>6. CASE CreateJob(r)
  BY <1>3, <1>4, <1>6 DEF CreateJob
<1> QED
  BY <1>3, <1>5, <1>6 DEF RequestStep, LookUp, SaveFile, DiscardFile, LookAgain,
     Enqueue, DeleteUnscheduled, tables

\* A request names its task after what it has read of its job.
LEMMA RequestTasks ==
  ASSUME CloudInv, NEW r \in Requests, RequestStep(r)
  PROVE  queue' \in [Names -> Task] /\ TasksKept
<1>1. queue \in [Names -> Task] /\ TaskName(r) \in Names
  BY DEF CloudInv, TypeOK, TaskName, Names, Key
<1>2. CASE UNCHANGED queue
  BY <1>1, <1>2 DEF TasksKept
<1>3. CASE CreateTask(TaskName(r))
  BY <1>1, <1>3, CreateTaskKeeps
<1> QED
  BY <1>2, <1>3 DEF RequestStep, LookUp, SaveFile, CreateJob, DiscardFile,
     LookAgain, Enqueue, FailDispatch, DeleteUnscheduled, tasks

\* A request changes its own place, answer and file only.
LEMMA RequestLocals ==
  ASSUME CloudInv, NEW r \in Requests, RequestStep(r)
  PROVE  /\ UNCHANGED <<locals, upload, serves, drafts, committed>>
         /\ \A q \in Requests \ {r} :
              /\ upc'[q] = upc[q] /\ answer'[q] = answer[q]
              /\ q \in saved' => q \in saved
         /\ upc' \in [Requests -> HandlerPCs]
         /\ answer' \in [Requests -> {0, 200, 202, 409, 415, 422, 500, 503}]
         /\ seen' \in [Requests -> [status : Statuses, attempts : 0 .. MaxClaimsById]]
         /\ saved' \subseteq Requests /\ pdf' \subseteq Jobs
<1>1. Key(r) \in Jobs /\ jobs[Key(r)] \in Row /\ jobs[Key(r)].attempts <= MaxClaimsById
  BY DEF CloudInv, TypeOK, Key, RowKnown
<1>2. /\ Read(jobs[Key(r)]) \in [status : Statuses, attempts : 0 .. MaxClaimsById]
      /\ Read(CreatePending) \in [status : Statuses, attempts : 0 .. MaxClaimsById]
  <2>1. 0 \in 0 .. MaxClaimsById /\ jobs[Key(r)].attempts \in 0 .. MaxClaimsById
    BY <1>1, LimitsAssumption DEF Row
  <2>2. CreatePending.status \in Statuses /\ CreatePending.attempts = 0
    BY DEF CreatePending, NoRow, Statuses, Active
  <2>3. jobs[Key(r)].status \in Statuses
    BY <1>1 DEF Row
  <2> QED BY <2>1, <2>2, <2>3 DEF Read
<1>3. /\ upc \in [Requests -> HandlerPCs]
      /\ answer \in [Requests -> {0, 200, 202, 409, 415, 422, 500, 503}]
      /\ seen \in [Requests -> [status : Statuses, attempts : 0 .. MaxClaimsById]]
      /\ saved \subseteq Requests /\ pdf \subseteq Jobs
  BY DEF CloudInv, TypeOK
<1> USE <1>1, <1>2, <1>3 DEF Handle, Answer, AnswerKnown, HandlerPCs
<1>4. CASE LookUp(r)
  BY <1>4 DEF LookUp, Reuse, tables, tasks
<1>5. CASE SaveFile(r)
  BY <1>5 DEF SaveFile, tables, tasks
<1>6. CASE CreateJob(r)
  BY <1>6 DEF CreateJob, tasks
<1>7. CASE DiscardFile(r)
  BY <1>7 DEF DiscardFile, tables, tasks
<1>8. CASE LookAgain(r)
  BY <1>8 DEF LookAgain, Reuse, tables, tasks
<1>9. CASE Enqueue(r)
  <2>1. UNCHANGED <<jobs, pdf, drafts, committed, locals, upload, seen, saved, serves>>
    BY <1>9 DEF Enqueue, tables
  <2>2. CASE AnswerKnown(r, seen[r])
    BY <2>1, <2>2
  <2>3. CASE Handle(r, "failing_dispatch") /\ UNCHANGED answer
    BY <2>1, <2>3
  <2> QED BY <1>9, <2>2, <2>3 DEF Enqueue
<1>10. CASE FailDispatch(r)
  <2>1. /\ upc' = [upc EXCEPT ![r] = "deleting_unscheduled"]
        /\ UNCHANGED <<pdf, drafts, committed, locals, upload, serves>>
        /\ UNCHANGED <<seen, answer, saved>>
    BY <1>10 DEF FailDispatch, tasks
  <2> QED BY <2>1
<1>11. CASE DeleteUnscheduled(r)
  BY <1>11 DEF DeleteUnscheduled, tables, tasks
<1> QED
  BY <1>4, <1>5, <1>6, <1>7, <1>8, <1>9, <1>10, <1>11 DEF RequestStep

\* What a request knows when it has taken a step: it claims a job for its
\* own only from a row with its file, and answers "accepted" only after a
\* task was made, by itself or by whoever brought the job to a processor.
LEMMA RequestLearns ==
  ASSUME CloudInv, NEW r \in Requests, RequestStep(r)
  PROVE  RequestKnows(r)'
<1> DEFINE row == jobs[Key(r)]
<1>1. /\ Key(r) \in Jobs /\ Key(r)' = Key(r) /\ row \in Row
      /\ upload' = upload
      /\ upc \in [Requests -> HandlerPCs] /\ hash \in [Jobs -> Contents]
      /\ answer \in [Requests -> {0, 200, 202, 409, 415, 422, 500, 503}]
      /\ queue \in [Names -> Task]
  BY RequestLocals DEF CloudInv, TypeOK, Key
<1>2. OwnJob(r) => OwnJob(r)'
  <2>1. HashesKept /\ RowChange(row, jobs'[Key(r)])
    BY <1>1, RequestRows
  <2> QED BY <1>1, <2>1 DEF OwnJob, HashesKept, RowChange, KeptConsistent, Kept
<1>3. Queued(Key(r)) => Queued(Key(r))'
  BY <1>1, RequestTasks, QueuedKept
<1>4. upc[r] # "answered" /\ answer[r] = 0
  <2>1. upc[r] # "answered"
    BY DEF RequestStep, LookUp, SaveFile, CreateJob, DiscardFile, LookAgain,
       Enqueue, FailDispatch, DeleteUnscheduled
  <2> QED BY <2>1 DEF CloudInv, RequestKnows
<1>5. r \in saved => upc[r] \in HoldsFile
  BY <1>4 DEF CloudInv, RequestKnows
<1>6. ASSUME NEW to, Handle(r, to), UNCHANGED answer, to # "answered",
             to \in {"enqueuing", "failing_dispatch", "deleting_unscheduled"}
               => OwnJob(r)',
             r \in saved' => to \in HoldsFile
      PROVE  RequestKnows(r)'
  BY <1>1, <1>4, <1>6 DEF Handle, RequestKnows
<1>7. ASSUME NEW code \in {200, 202, 409, 415, 422, 500, 503}, Answer(r, code),
             code \in {200, 202} => OwnJob(r)',
             code = 202 => Queued(Key(r))',
             r \in saved' => code = 500
      PROVE  RequestKnows(r)'
  BY <1>1, <1>7 DEF Answer, Handle, RequestKnows
<1>8. ASSUME Reuse(r, row), Exists(row), saved' = saved, upc[r] \notin HoldsFile
      PROVE  RequestKnows(r)'
  <2>1. r \notin saved'
    BY <1>5, <1>8
  <2>2. CASE hash[Key(r)] # upload[r].file
    BY <1>7, <1>8, <2>1, <2>2 DEF Reuse
  <2>3. CASE hash[Key(r)] = upload[r].file /\ row.status = "pending"
    <3>1. OwnJob(r)'
      BY <1>2, <1>8, <2>3 DEF OwnJob
    <3> QED BY <1>6, <1>8, <2>1, <2>3, <3>1 DEF Reuse
  <2>4. CASE hash[Key(r)] = upload[r].file /\ row.status # "pending"
    <3>1. OwnJob(r)'
      BY <1>2, <1>8, <2>4 DEF OwnJob
    <3>2. row.status \in Active => Queued(Key(r))'
      BY <1>1, <1>3, <2>4 DEF CloudInv, RowKnown, Active
    <3>3. AnswerKnown(r, row)
      BY <1>8, <2>4 DEF Reuse
    <3> QED BY <1>7, <2>1, <3>1, <3>2, <3>3 DEF AnswerKnown
  <2> QED BY <2>2, <2>3, <2>4
<1>9. CASE LookUp(r)
  <2>1. upc[r] \notin HoldsFile /\ saved' = saved
    BY <1>9 DEF LookUp, HoldsFile
  <2>2. CASE Exists(row)
    BY <1>8, <1>9, <2>1, <2>2 DEF LookUp
  <2>3. CASE ~Exists(row)
    BY <1>5, <1>6, <1>9, <2>1, <2>3 DEF LookUp
  <2> QED BY <2>2, <2>3
<1>10. CASE SaveFile(r)
  <2>1. r \notin saved
    BY <1>5, <1>10 DEF SaveFile, HoldsFile
  <2>2. CASE Handle(r, "creating") /\ UNCHANGED answer
    BY <1>6, <2>2 DEF HoldsFile
  <2>3. ASSUME NEW code \in {415, 500}, Answer(r, code), UNCHANGED saved
        PROVE  RequestKnows(r)'
    BY <1>7, <2>1, <2>3
  <2> QED BY <1>10, <2>2, <2>3 DEF SaveFile
<1>11. CASE CreateJob(r)
  <2>1. CASE /\ jobs' = [jobs EXCEPT ![Key(r)] = CreatePending]
             /\ hash' = [hash EXCEPT ![Key(r)] = upload[r].file]
             /\ saved' = saved \ {r} /\ Handle(r, "enqueuing")
             /\ UNCHANGED answer
    <3>1. Exists(CreatePending)
      BY DEF Exists, CreatePending, NoRow
    <3>2. jobs \in [Jobs -> Row]
      BY DEF CloudInv, TypeOK
    <3>3. OwnJob(r)'
      BY <1>1, <2>1, <3>1, <3>2 DEF OwnJob
    <3> QED BY <1>6, <2>1, <3>3
  <2>2. ASSUME NEW to \in {"discarding_duplicate", "discarding_unused"},
               Handle(r, to), UNCHANGED answer
        PROVE  RequestKnows(r)'
    BY <1>6, <2>2 DEF HoldsFile
  <2>3. CASE Answer(r, 500)
    BY <1>7, <2>3
  <2> QED BY <1>11, <2>1, <2>2, <2>3 DEF CreateJob
<1>12. CASE DiscardFile(r)
  <2>1. CASE saved' = saved \ {r} /\ Handle(r, "looking_again") /\ UNCHANGED answer
    BY <1>6, <2>1
  <2>2. ASSUME saved' = saved \ {r}, NEW code \in {422, 500}, Answer(r, code)
        PROVE  RequestKnows(r)'
    BY <1>7, <2>2
  <2>3. CASE Answer(r, 500)
    BY <1>7, <2>3
  <2> QED BY <1>12, <2>1, <2>2, <2>3 DEF DiscardFile
<1>13. CASE LookAgain(r)
  <2>1. upc[r] \notin HoldsFile /\ saved' = saved
    BY <1>13 DEF LookAgain, HoldsFile
  <2>2. CASE Exists(row)
    BY <1>8, <1>13, <2>1, <2>2 DEF LookAgain
  <2>3. CASE ~Exists(row)
    BY <1>5, <1>7, <1>13, <2>1, <2>3 DEF LookAgain
  <2> QED BY <2>2, <2>3
<1>14. CASE Enqueue(r)
  <2>1. OwnJob(r)' /\ r \notin saved' /\ saved' = saved
    BY <1>2, <1>5, <1>14 DEF Enqueue, CloudInv, RequestKnows, HoldsFile
  <2>2. CASE CreateTask(TaskName(r)) /\ AnswerKnown(r, seen[r])
    <3>1. TaskName(r) \in Names /\ TaskName(r)[1] = Key(r)
      BY <1>1 DEF CloudInv, TypeOK, TaskName, Names
    <3>2. queue'[TaskName(r)].state # "absent"
      BY <1>1, <2>2, <3>1, CreateTaskKeeps
    <3>3. Queued(Key(r))'
      BY <1>1, <3>1, <3>2 DEF Queued, TasksOf
    <3> QED BY <1>7, <2>1, <2>2, <3>3 DEF AnswerKnown
  <2>3. CASE Handle(r, "failing_dispatch") /\ UNCHANGED answer
    BY <1>6, <2>1, <2>3
  <2> QED BY <1>14, <2>2, <2>3 DEF Enqueue
<1>15. CASE FailDispatch(r)
  <2>1. OwnJob(r)' /\ r \notin saved' /\ saved' = saved
    BY <1>2, <1>5, <1>15 DEF FailDispatch, CloudInv, RequestKnows, HoldsFile
  <2> QED BY <1>6, <1>15, <2>1 DEF FailDispatch
<1>16. CASE DeleteUnscheduled(r)
  <2>1. r \notin saved' /\ saved' = saved
    BY <1>5, <1>16 DEF DeleteUnscheduled, HoldsFile
  <2> QED BY <1>7, <1>16, <2>1 DEF DeleteUnscheduled
<1> QED
  BY <1>9, <1>10, <1>11, <1>12, <1>13, <1>14, <1>15, <1>16 DEF RequestStep

LEMMA RequestInv ==
  ASSUME CloudInv, NEW r \in Requests, Request(r)
  PROVE  CloudInv'
<1>1. RequestStep(r) /\ UNCHANGED <<faults, timeouts>>
  BY DEF Request, bounds
<1>2. TypeOK'
  BY <1>1, RequestRows, RequestTasks, RequestLocals DEF CloudInv, TypeOK, locals
<1>3. \A j \in Jobs : RowKnown(j)'
  BY <1>1, RequestRows, RequestTasks, RowsKnown
<1>4. \A q \in Requests : RequestKnows(q)'
  BY <1>1, RequestRows, RequestTasks, RequestLocals, RequestLearns, RequestUnaware
<1>5. \A w \in Owners : CallKnows(w)'
  BY <1>1, RequestRows, RequestTasks, RequestLocals, CallUnaware DEF locals
<1> QED BY <1>2, <1>3, <1>4, <1>5 DEF CloudInv

(***************************************************************************)
(* Calls of process_job and what happens to deliveries.                    *)
(***************************************************************************)

\* A step of process_job in a delivery, whoever else is at work on the job.
LEMMA ProcessInv ==
  ASSUME CloudInv, NEW w \in Owners, ProcessStep(w), UNCHANGED <<web, tasks, bounds>>
  PROVE  CloudInv'
<1>1. /\ TablesTyped /\ job[w] \in Jobs /\ pc[w] # "idle"
      /\ pc \in [Owners -> Phases \cup {"idle"}] /\ job \in [Owners -> Jobs]
  BY ProcessLocals DEF CloudInv, TypeOK, TablesTyped, Phases, Working, InTry,
     Handlers, Outcomes
<1>2. /\ \A j \in Jobs : KeptConsistent(jobs[j], jobs'[j])
      /\ \A j \in Jobs \ {job[w]} : jobs'[j] = jobs[j]
      /\ pc'[w] \in Working => AttemptMade(RowOf(w)')
  <2>1. \A j \in Jobs : RowConsistent(jobs[j])
    BY DEF CloudInv, RowKnown
  <2>2. pc[w] \in Working => AttemptMade(RowOf(w))
    BY DEF CloudInv, CallKnows
  <2> QED BY <1>1, <2>1, <2>2, ProcessRows
<1>3. TablesTyped' /\ UNCHANGED <<job, final>>
  BY <1>1, ProcessTables, ProcessLocals
<1>4. pc' = pc \/ \E p \in Phases : pc' = [pc EXCEPT ![w] = p]
  BY ProcessLocals
<1>5. TasksKept /\ HashesKept /\ UNCHANGED <<upload, upc, answer, saved, queue>>
  BY DEF TasksKept, HashesKept, web, tasks
<1>6. \A j \in Jobs : RowChange(jobs[j], jobs'[j])
  BY <1>2 DEF RowChange
<1>7. Queued(job[w])
  BY <1>1 DEF CloudInv, CallKnows
<1>8. TypeOK'
  BY <1>1, <1>3, <1>4 DEF CloudInv, TypeOK, TablesTyped, web, tasks, bounds
<1>9. ASSUME NEW j \in Jobs PROVE RowKnown(j)'
  <2>1. jobs'[j].status = "processing" => jobs[j].status = "processing" \/ Queued(j)
    BY <1>2, <1>7
  <2> QED BY <1>3, <1>5, <1>6, <2>1, RowsKnown DEF TablesTyped
<1>10. \A r \in Requests : RequestKnows(r)'
  BY <1>3, <1>5, <1>6, RequestUnaware DEF TablesTyped
<1>11. ASSUME NEW v \in Owners PROVE CallKnows(v)'
  <2>1. CASE v # w
    <3>1. pc'[v] = pc[v] /\ job'[v] = job[v]
      BY <1>1, <1>3, <1>4, <2>1
    <3> QED BY <1>3, <1>5, <1>6, <3>1, CallUnaware DEF TablesTyped
  <2>2. CASE v = w
    <3>1. Queued(job[w])' /\ job' = job
      BY <1>3, <1>5, <1>7, QueuedKept
    <3> QED BY <1>2, <2>2, <3>1 DEF CallKnows
  <2> QED BY <2>1, <2>2
<1> QED BY <1>8, <1>9, <1>10, <1>11 DEF CloudInv

\* A step that touches neither rows nor requests, keeps the tasks there are
\* and leaves every call in its place, ended, or started for a task.
LEMMA DeliveryInv ==
  ASSUME CloudInv, TypeOK', TasksKept, jobs' = jobs,
         UNCHANGED <<upload, upc, answer, saved, hash>>,
         \A w \in Owners :
           \/ pc'[w] = pc[w] /\ job'[w] = job[w]
           \/ pc'[w] = "idle"
           \/ pc'[w] = "loading_job" /\ Queued(job'[w])
  PROVE  CloudInv'
<1>1. jobs' \in [Jobs -> Row] /\ HashesKept
  BY DEF CloudInv, TypeOK, HashesKept
<1>2. \A j \in Jobs : RowChange(jobs[j], jobs'[j])
  BY <1>1, SameColumns DEF CloudInv, RowKnown, RowChange
<1>3. \A j \in Jobs : RowKnown(j)'
  BY <1>1, <1>2, RowsKnown
<1>4. \A r \in Requests : RequestKnows(r)'
  BY <1>1, <1>2, RequestUnaware
<1>5. ASSUME NEW w \in Owners PROVE CallKnows(w)'
  <2>1. CASE pc'[w] = pc[w] /\ job'[w] = job[w]
    BY <1>1, <1>2, <2>1, CallUnaware
  <2>2. CASE pc'[w] = "idle"
    BY <2>2 DEF CallKnows, Working, InTry, Handlers
  <2>3. CASE pc'[w] = "loading_job" /\ Queued(job'[w])
    <3>1. Queued(job[w])'
      BY <2>3 DEF TasksKept, Queued, TasksOf
    <3> QED BY <2>3, <3>1 DEF CallKnows, Working, InTry, Handlers
  <2> QED BY <2>1, <2>2, <2>3
<1> QED BY <1>3, <1>4, <1>5 DEF CloudInv

LEMMA StartDeliveryInv ==
  ASSUME CloudInv, NEW n \in Names, StartDelivery(n)
  PROVE  CloudInv'
<1>1. PICK w \in Owners : Deliver(n, w) /\ UNCHANGED bounds
  BY DEF StartDelivery
<1>2. /\ n[1] \in Jobs /\ queue \in [Names -> Task] /\ job \in [Owners -> Jobs]
      /\ pc \in [Owners -> Phases \cup {"idle"}]
  BY DEF Names, CloudInv, TypeOK
<1>3. [queue[n] EXCEPT !.state = "delivered"] \in Task
  BY <1>2 DEF Task
<1>4. queue' \in [Names -> Task] /\ TasksKept
  BY <1>1, <1>2, <1>3 DEF Deliver, TasksKept, Task
<1>5. Queued(n[1])
  BY <1>1 DEF Deliver, Queued, TasksOf
<1>6. TypeOK'
  <2>1. IsFinalDelivery(queue[n].retries) \in BOOLEAN
    BY DEF IsFinalDelivery
  <2>2. final' = [final EXCEPT ![w] = IsFinalDelivery(queue[n].retries)]
    BY <1>1 DEF Deliver
  <2>3. final' \in [Owners -> BOOLEAN]
    BY <2>1, <2>2, Zenon DEF CloudInv, TypeOK
  <2>4. "loading_job" \in Phases
    BY DEF Phases
  <2> QED BY <1>1, <1>2, <1>4, <2>3, <2>4
          DEF Deliver, Goto, CloudInv, TypeOK, tables, web, bounds
<1>7. \A v \in Owners : \/ pc'[v] = pc[v] /\ job'[v] = job[v]
                        \/ pc'[v] = "loading_job" /\ Queued(job'[v])
  <2>1. pc' = [pc EXCEPT ![w] = "loading_job"] /\ job' = [job EXCEPT ![w] = n[1]]
    BY <1>1 DEF Deliver, Goto
  <2> QED BY <1>2, <1>5, <2>1
<1> QED BY <1>1, <1>4, <1>6, <1>7, DeliveryInv DEF Deliver, tables, web

\* The end of a call, with an answer or without, and whatever it does to
\* the task it was delivered for.
LEMMA EndCallInv ==
  ASSUME CloudInv, NEW w \in Owners, EndCall(w), UNCHANGED <<tables, job, web>>,
         queue' \in [Names -> Task], TasksKept,
         faults' \in 0 .. MaxFaults, timeouts' \in 0 .. MaxTimeouts
  PROVE  CloudInv'
<1>1. TypeOK'
  BY DEF CloudInv, TypeOK, EndCall, Goto, tables, web
<1>2. \A v \in Owners : (pc'[v] = pc[v] /\ job'[v] = job[v]) \/ pc'[v] = "idle"
  BY DEF CloudInv, TypeOK, EndCall, Goto
<1> QED BY <1>1, <1>2, DeliveryInv DEF tables, web

LEMMA AnswerInv ==
  ASSUME CloudInv, NEW w \in Owners, AnswerDelivery(w), UNCHANGED bounds
  PROVE  CloudInv'
<1>1. /\ queue \in [Names -> Task] /\ serves[w] \in Names \cup {NoTask}
      /\ faults' \in 0 .. MaxFaults /\ timeouts' \in 0 .. MaxTimeouts
  BY DEF CloudInv, TypeOK, bounds
<1>2. queue' \in [Names -> Task] /\ TasksKept
  <2>1. CASE queue' = queue
    BY <1>1, <2>1 DEF TasksKept
  <2>2. CASE serves[w] # NoTask
             /\ queue' = [queue EXCEPT ![serves[w]].state = "finished"]
    <3>1. serves[w] \in Names
      BY <1>1, <2>2
    <3>2. [queue[serves[w]] EXCEPT !.state = "finished"] \in Task
      BY <1>1, <3>1 DEF Task, Over
    <3> QED BY <1>1, <2>2, <3>1, <3>2 DEF TasksKept, Task
  <2>3. CASE serves[w] # NoTask /\ Redeliver(serves[w], "exhausted")
    BY <1>1, <2>3, RedeliverKeeps DEF Over
  <2> QED BY <2>1, <2>2, <2>3 DEF AnswerDelivery
<1> QED BY <1>1, <1>2, EndCallInv DEF AnswerDelivery

\* Deaths, refusals and deadlines.
LEMMA FaultInv ==
  ASSUME CloudInv,
         \/ \E r \in Requests : RequestDies(r)
         \/ \E n \in Names : TurnedAway(n)
         \/ \E w \in Owners : DeliveryDies(w) \/ Deadline(w)
  PROVE  CloudInv'
<1>1. /\ queue \in [Names -> Task] /\ serves \in [Owners -> Names \cup {NoTask}]
      /\ faults \in 0 .. MaxFaults /\ timeouts \in 0 .. MaxTimeouts
      /\ faults < MaxFaults => faults + 1 \in 0 .. MaxFaults
      /\ timeouts < MaxTimeouts => timeouts + 1 \in 0 .. MaxTimeouts
  BY BoundsAssumption DEF CloudInv, TypeOK
<1>2. ASSUME NEW r \in Requests, RequestDies(r)
      PROVE  CloudInv'
  <2>1. TypeOK'
    BY <1>1, <1>2 DEF CloudInv, TypeOK, RequestDies, Handle, HandlerPCs, tables,
       locals, tasks
  <2>2. /\ TasksKept /\ HashesKept /\ UNCHANGED <<jobs, upload, answer, saved, pc, job>>
        /\ upc' = [upc EXCEPT ![r] = "dead"] /\ upc[r] # "answered"
    BY <1>2 DEF RequestDies, Handle, TasksKept, HashesKept, tables, locals, tasks
  <2>3. jobs' \in [Jobs -> Row] /\ \A j \in Jobs : RowChange(jobs[j], jobs'[j])
    BY <2>2, SameColumns DEF CloudInv, TypeOK, RowKnown, RowChange
  <2>4. \A j \in Jobs : RowKnown(j)'
    BY <2>2, <2>3, RowsKnown
  <2>5. ASSUME NEW q \in Requests PROVE RequestKnows(q)'
    <3>1. CASE q # r
      <4>1. upc'[q] = upc[q]
        BY <2>2, <3>1 DEF CloudInv, TypeOK
      <4> QED BY <2>2, <2>3, <4>1, RequestUnaware
    <3>2. CASE q = r
      <4>1. answer'[r] = 0 /\ upc'[r] = "dead"
        BY <2>2 DEF CloudInv, TypeOK, RequestKnows
      <4> QED BY <3>2, <4>1 DEF RequestKnows, HoldsFile
    <3> QED BY <3>1, <3>2
  <2>6. \A w \in Owners : CallKnows(w)'
    BY <2>2, <2>3, CallUnaware
  <2> QED BY <2>1, <2>4, <2>5, <2>6 DEF CloudInv
<1>3. ASSUME NEW n \in Names, TurnedAway(n)
      PROVE  CloudInv'
  <2>1. queue' \in [Names -> Task] /\ TasksKept
    BY <1>1, <1>3, RedeliverKeeps DEF TurnedAway, Over
  <2>2. TypeOK'
    BY <1>1, <1>3, <2>1 DEF CloudInv, TypeOK, TurnedAway, tables, locals, web
  <2> QED BY <1>3, <2>1, <2>2, DeliveryInv DEF TurnedAway, tables, locals, web
<1>4. ASSUME NEW w \in Owners, DeliveryDies(w)
      PROVE  CloudInv'
  <2>1. queue' \in [Names -> Task] /\ TasksKept
    <3>1. CASE queue' = queue
      BY <1>1, <3>1 DEF TasksKept
    <3>2. CASE serves[w] # NoTask /\ Redeliver(serves[w], "dropped")
      BY <1>1, <3>2, RedeliverKeeps DEF Over
    <3> QED BY <1>4, <3>1, <3>2 DEF DeliveryDies
  <2> QED BY <1>1, <1>4, <2>1, EndCallInv DEF DeliveryDies
<1>5. ASSUME NEW w \in Owners, Deadline(w)
      PROVE  CloudInv'
  <2>1. queue' \in [Names -> Task] /\ TasksKept
    BY <1>1, <1>5, RedeliverKeeps DEF Deadline, Over
  <2>2. TypeOK'
    BY <1>1, <1>5, <2>1 DEF CloudInv, TypeOK, Deadline, tables, locals, web
  <2> QED BY <1>5, <2>1, <2>2, DeliveryInv DEF Deadline, tables, locals, web
<1> QED BY <1>2, <1>3, <1>4, <1>5

(***************************************************************************)
(* The theorems.                                                           *)
(***************************************************************************)
LEMMA CloudInit == Init => CloudInv
<1> SUFFICES ASSUME Init PROVE CloudInv
  OBVIOUS
<1>1. NoRow \in Row /\ RowConsistent(NoRow) /\ ~Exists(NoRow) /\ NoRow.attempts = 0
      /\ NoRow.status = "none"
  BY NewRows DEF NoRow, RowConsistent, Exists, Terminal
<1>2. Read(NoRow) \in [status : Statuses, attempts : 0 .. MaxClaimsById]
  BY <1>1, LimitsAssumption DEF Read, Statuses
<1>3. [state |-> "absent", retries |-> 0] \in Task
  BY DeliveriesAssumption DEF Task
<1>4. TypeOK
  <2>1. (CHOOSE c \in Contents : TRUE) \in Contents
    BY ContentsAssumption
  <2> QED BY <1>1, <1>2, <1>3, <2>1, BoundsAssumption
          DEF Init, TypeOK, NoLines, HandlerPCs
<1>5. \A j \in Jobs : RowKnown(j)
  BY <1>1, LimitsAssumption DEF Init, RowKnown
<1>6. \A r \in Requests : RequestKnows(r)
  BY DEF Init, RequestKnows
<1>7. \A w \in Owners : CallKnows(w)
  BY DEF Init, CallKnows, Working, InTry, Handlers
<1> QED BY <1>4, <1>5, <1>6, <1>7 DEF CloudInv

LEMMA CloudStep == CloudInv /\ [Next]_vars => CloudInv'
<1> SUFFICES ASSUME CloudInv, [Next]_vars PROVE CloudInv'
  OBVIOUS
<1>1. ASSUME NEW r \in Requests, Request(r) PROVE CloudInv'
  BY <1>1, RequestInv
<1>2. ASSUME NEW n \in Names, StartDelivery(n) PROVE CloudInv'
  BY <1>2, StartDeliveryInv
<1>3. ASSUME NEW w \in Owners, Call(w) PROVE CloudInv'
  BY <1>3, ProcessInv, AnswerInv DEF Call, ProcessStep
<1>4. ASSUME NEW w \in Owners, Progress(w) PROVE CloudInv'
  BY <1>4, ProcessInv DEF Progress, ProcessStep
<1>5. CASE UNCHANGED vars
  BY <1>5 DEF vars, tables, locals, web, tasks, CloudInv, TypeOK, RowKnown,
     RequestKnows, CallKnows, Queued, TasksOf, OwnJob, Key, RowOf
<1> QED BY <1>1, <1>2, <1>3, <1>4, <1>5, FaultInv DEF Next

\* The rows, requests, tasks and calls stay what the module declares.
THEOREM CloudTypeCorrect == Spec => []TypeOK
<1>1. CloudInv => TypeOK
  BY DEF CloudInv
<1> QED BY <1>1, CloudInit, CloudStep, PTL DEF Spec

\* The invariant all of this rests on, for any number of deliveries.
THEOREM CloudInvariant == Spec => []CloudInv
BY CloudInit, CloudStep, PTL DEF Spec

\* A response other than 500 leaves no file without a job behind, and a
\* success speaks of a job made from the file that was sent, whatever races
\* under its key (agents_routes.py).
THEOREM AnswersStayTrue == Spec => []AnswersAreTrue
<1>1. CloudInv => AnswersAreTrue
  BY DEF CloudInv, RequestKnows, AnswersAreTrue, OwnJob, HoldsFile
<1> QED BY <1>1, CloudInit, CloudStep, PTL DEF Spec

\* No upload is accepted without a task for its job, even one that finds the
\* job made by a request that died on the way to the queue.
THEOREM AcceptedAlwaysQueued == Spec => []AcceptedWasQueued
<1>1. CloudInv => AcceptedWasQueued
  BY DEF CloudInv, RequestKnows, AcceptedWasQueued, Queued
<1> QED BY <1>1, CloudInit, CloudStep, PTL DEF Spec

\* Overlapping deliveries leave every row's columns in agreement, although
\* none of their updates asks who holds the row.
THEOREM OverlapKeepsRows == Spec => []RowsConsistent
<1>1. CloudInv => RowsConsistent
  BY DEF CloudInv, RowKnown, RowsConsistent
<1> QED BY <1>1, CloudInit, CloudStep, PTL DEF Spec

(***************************************************************************)
(* Attempts.  Each delivery of a task of j pays for one attempt: those     *)
(* that were begun are the attempts made and the calls that may still make *)
(* one.  A delivery that is turned away pays for none.                     *)
(***************************************************************************)
Begun(n) ==
  IF queue[n].state \in {"absent", "waiting"} THEN queue[n].retries
  ELSE queue[n].retries + 1

Deliveries(j) ==
  {d \in Names \X (1 .. MaxDeliveries) : d[1] \in TasksOf(j) /\ d[2] <= Begun(d[1])}

DeliveryBudget(j) ==
  /\ IsFiniteSet(MayClaimById(j))
  /\ jobs[j].attempts + Cardinality(MayClaimById(j)) <= Cardinality(Deliveries(j))

\* Tasks of one job with MaxDeliveries deliveries each make a finite set.
LEMMA DeliveriesBounded ==
  ASSUME NEW j, NEW T, T \subseteq {j} \X (0 .. MaxClaimsById),
         NEW D, D \subseteq T \X (1 .. MaxDeliveries)
  PROVE  /\ IsFiniteSet(D) /\ Cardinality(D) \in Nat /\ Cardinality(T) \in Nat
         /\ Cardinality(D) <= MaxDeliveries * Cardinality(T)
<1>1. /\ IsFiniteSet(0 .. MaxClaimsById) /\ IsFiniteSet(1 .. MaxDeliveries)
      /\ Cardinality(1 .. MaxDeliveries) = MaxDeliveries /\ MaxDeliveries \in Nat
  BY FS_Interval, LimitsAssumption, DeliveriesAssumption
<1>2. IsFiniteSet(T) /\ Cardinality(T) \in Nat
  <2>1. IsFiniteSet({j} \X (0 .. MaxClaimsById))
    BY <1>1, FS_Singleton, FS_Product
  <2> QED BY <2>1, FS_Subset, FS_CardinalityType
<1>3. /\ IsFiniteSet(T \X (1 .. MaxDeliveries))
      /\ Cardinality(T \X (1 .. MaxDeliveries)) = Cardinality(T) * MaxDeliveries
  BY <1>1, <1>2, FS_Product
<1>4. /\ IsFiniteSet(D) /\ Cardinality(D) \in Nat
      /\ Cardinality(D) <= Cardinality(T) * MaxDeliveries
  BY <1>3, FS_Subset, FS_CardinalityType
<1> QED BY <1>1, <1>2, <1>4

\* A step that takes back no delivery, makes no attempt and starts no call
\* stays within the budget.
LEMMA BudgetKept ==
  ASSUME CloudInv, NEW j \in Jobs, DeliveryBudget(j), jobs'[j] \in Row,
         Deliveries(j) \subseteq Deliveries(j)',
         \/ /\ jobs'[j].attempts <= jobs[j].attempts
            /\ MayClaimById(j)' \subseteq MayClaimById(j)
         \/ /\ jobs'[j].attempts = jobs[j].attempts + 1
            /\ \E w \in MayClaimById(j) : MayClaimById(j)' = MayClaimById(j) \ {w}
  PROVE  DeliveryBudget(j)'
<1> DEFINE a == jobs[j].attempts
           b == jobs'[j].attempts
           S == MayClaimById(j)
           T == MayClaimById(j)'
           c == Cardinality(Deliveries(j))
           d == Cardinality(Deliveries(j)')
<1>1. /\ a \in Nat /\ b \in Nat /\ IsFiniteSet(S) /\ Cardinality(S) \in Nat
      /\ a + Cardinality(S) <= c
  BY FS_CardinalityType DEF CloudInv, TypeOK, Row, DeliveryBudget
<1>2. c \in Nat /\ d \in Nat /\ c <= d
  <2>1. IsFiniteSet(Deliveries(j)) /\ IsFiniteSet(Deliveries(j)')
    <3>1. /\ TasksOf(j) \subseteq {j} \X (0 .. MaxClaimsById)
          /\ TasksOf(j)' \subseteq {j} \X (0 .. MaxClaimsById)
          /\ Deliveries(j) \subseteq TasksOf(j) \X (1 .. MaxDeliveries)
          /\ Deliveries(j)' \subseteq TasksOf(j)' \X (1 .. MaxDeliveries)
      BY DEF TasksOf, Names, Deliveries
    <3> QED BY <3>1, DeliveriesBounded
  <2> QED BY <2>1, FS_Subset, FS_CardinalityType
<1>3. IsFiniteSet(T) /\ Cardinality(T) \in Nat /\ b + Cardinality(T) <= a + Cardinality(S)
  <2>1. CASE b <= a /\ T \subseteq S
    <3>1. IsFiniteSet(T) /\ Cardinality(T) <= Cardinality(S) /\ Cardinality(T) \in Nat
      BY <1>1, <2>1, FS_Subset, FS_CardinalityType
    <3> QED BY <1>1, <2>1, <3>1
  <2>2. ASSUME b = a + 1, NEW w \in S, T = S \ {w}
        PROVE  IsFiniteSet(T) /\ Cardinality(T) \in Nat
               /\ b + Cardinality(T) <= a + Cardinality(S)
    <3>1. IsFiniteSet(T) /\ Cardinality(T) = Cardinality(S) - 1 /\ Cardinality(T) \in Nat
      BY <1>1, <2>2, FS_RemoveElement, FS_CardinalityType
    <3> QED BY <1>1, <2>2, <3>1
  <2> QED BY <2>1, <2>2
<1>4. b + Cardinality(T) <= d
  BY <1>1, <1>2, <1>3
<1> QED BY <1>3, <1>4 DEF DeliveryBudget

\* What a step does to the tasks: none goes away, none forgets a delivery.
BegunKept == \A n \in Names : Begun(n)' >= Begun(n)

LEMMA DeliveriesKept ==
  ASSUME CloudInv, CloudInv', TasksKept, BegunKept, NEW j \in Jobs
  PROVE  Deliveries(j) \subseteq Deliveries(j)'
<1>1. \A n \in Names : Begun(n) \in Nat /\ Begun(n)' \in Nat
  BY DEF CloudInv, TypeOK, Task, Begun
<1>2. SUFFICES ASSUME NEW n \in Names, n \in TasksOf(j), NEW i \in 1 .. MaxDeliveries,
                      i <= Begun(n)
               PROVE  n \in TasksOf(j)' /\ i <= Begun(n)'
  BY DEF Deliveries
<1>3. i \in Nat /\ Begun(n)' >= Begun(n)
  BY DEF BegunKept
<1> QED BY <1>1, <1>2, <1>3 DEF TasksKept, TasksOf

\* A failed delivery has been counted already, one that was turned away is
\* counted now.
LEMMA RedeliverBegun ==
  ASSUME queue \in [Names -> Task], NEW n \in Names, NEW end \in Over,
         Redeliver(n, end)
  PROVE  BegunKept
<1>1. \A m \in Names : queue[m].retries \in Nat /\ Begun(m) \in Nat
  BY DEF Task, Begun
<1>2. SUFFICES Begun(n)' >= Begun(n)
  <2>1. ASSUME NEW m \in Names, m # n PROVE Begun(m)' = Begun(m)
    BY <2>1 DEF Redeliver, Begun
  <2> QED BY <1>1, <2>1 DEF BegunKept
<1>3. CASE queue[n].retries < MaxDeliveries - 1
  <2>1. queue'[n] = [state |-> "waiting", retries |-> queue[n].retries + 1]
    BY <1>3 DEF Redeliver
  <2>2. Begun(n)' = queue[n].retries + 1
    BY <2>1 DEF Begun
  <2> QED BY <1>1, <2>2 DEF Begun
<1>4. CASE ~(queue[n].retries < MaxDeliveries - 1)
  <2>1. queue'[n] = [queue[n] EXCEPT !.state = end]
    BY <1>4 DEF Redeliver
  <2>2. queue'[n].state = end /\ queue'[n].retries = queue[n].retries
    BY <2>1 DEF Task
  <2>3. Begun(n)' = queue[n].retries + 1
    BY <2>2 DEF Begun, Over
  <2> QED BY <1>1, <2>3 DEF Begun
<1> QED BY <1>3, <1>4

\* Steps that change no attempts and start no call.
LEMMA BudgetUntouched ==
  ASSUME CloudInv, CloudInv', TasksKept, BegunKept, NEW j \in Jobs, DeliveryBudget(j),
         jobs'[j].attempts <= jobs[j].attempts,
         MayClaimById(j)' \subseteq MayClaimById(j)
  PROVE  DeliveryBudget(j)'
<1>1. jobs'[j] \in Row /\ Deliveries(j) \subseteq Deliveries(j)'
  BY DeliveriesKept DEF CloudInv, TypeOK
<1> QED BY <1>1, BudgetKept

\* A request makes rows without attempts and tasks without deliveries.
LEMMA RequestBudget ==
  ASSUME CloudInv, CloudInv', NEW r \in Requests, Request(r),
         NEW j \in Jobs, DeliveryBudget(j)
  PROVE  DeliveryBudget(j)'
<1>1. /\ RequestStep(r) /\ Key(r) \in Jobs /\ jobs \in [Jobs -> Row]
      /\ queue \in [Names -> Task] /\ TaskName(r) \in Names
  BY DEF Request, CloudInv, TypeOK, Key, TaskName, Names
<1>2. BegunKept
  <2>1. \A n \in Names : Begun(n) \in Nat
    BY <1>1 DEF Task, Begun
  <2>2. CASE UNCHANGED queue
    BY <2>1, <2>2 DEF BegunKept, Begun
  <2>3. CASE CreateTask(TaskName(r))
    <3>1. \A n \in Names : Begun(n)' = Begun(n)
      BY <1>1, <2>3 DEF CreateTask, Begun, Task
    <3> QED BY <2>1, <3>1 DEF BegunKept
  <2> QED
    BY <1>1, <2>2, <2>3 DEF RequestStep, LookUp, SaveFile, CreateJob, DiscardFile,
       LookAgain, Enqueue, FailDispatch, DeleteUnscheduled, tasks
<1>3. jobs'[j].attempts <= jobs[j].attempts
  <2>1. jobs[j].attempts \in Nat
    BY <1>1 DEF Row
  <2>2. CASE UNCHANGED jobs
    BY <2>1, <2>2
  <2>3. CASE jobs' = [jobs EXCEPT ![Key(r)] = CreatePending]
    BY <1>1, <2>1, <2>3 DEF CreatePending, NoRow
  <2>4. CASE FailDispatch(r)
    <3> DEFINE row == MarkFailed(jobs[Key(r)], "Import could not be scheduled.")
    <3>1. jobs[Key(r)] \in Row /\ jobs' = [jobs EXCEPT ![Key(r)] = row]
      BY <1>1, <2>4 DEF FailDispatch
    <3>2. row.attempts = jobs[Key(r)].attempts
      BY <3>1 DEF MarkFailed, Unlock, Row
    <3> HIDE DEF row
    <3> QED BY <1>1, <2>1, <3>1, <3>2
  <2> QED
    BY <1>1, <2>2, <2>3, <2>4 DEF RequestStep, LookUp, SaveFile, CreateJob,
       DiscardFile, LookAgain, Enqueue, DeleteUnscheduled, tables
<1>4. MayClaimById(j)' = MayClaimById(j) /\ TasksKept
  BY <1>1, RequestLocals, RequestTasks DEF locals, MayClaimById
<1> QED BY <1>2, <1>3, <1>4, BudgetUntouched

\* A delivery that begins pays for the attempt its call may make.
LEMMA StartBudget ==
  ASSUME CloudInv, CloudInv', NEW n \in Names, StartDelivery(n),
         NEW j \in Jobs, DeliveryBudget(j)
  PROVE  DeliveryBudget(j)'
<1>1. PICK w \in Owners : Deliver(n, w) /\ UNCHANGED bounds
  BY DEF StartDelivery
<1>2. /\ queue \in [Names -> Task] /\ job \in [Owners -> Jobs]
      /\ pc \in [Owners -> Phases \cup {"idle"}] /\ jobs' = jobs
      /\ queue[n].retries \in 0 .. MaxDeliveries - 1 /\ MaxDeliveries \in Nat
  BY <1>1, DeliveriesAssumption DEF CloudInv, TypeOK, Deliver, tables, Task
<1>3. \A m \in Names : Begun(m) \in Nat
  BY <1>2 DEF Begun, Task
<1>4. /\ queue'[n].state = "delivered" /\ queue'[n].retries = queue[n].retries
      /\ queue[n].state = "waiting" /\ \A m \in Names \ {n} : queue'[m] = queue[m]
  BY <1>1, <1>2 DEF Deliver, Task
<1>5. /\ Begun(n) = queue[n].retries /\ Begun(n)' = queue[n].retries + 1
      /\ \A m \in Names \ {n} : Begun(m)' = Begun(m)
  BY <1>4 DEF Begun
<1>6. TasksKept /\ BegunKept
  BY <1>2, <1>3, <1>4, <1>5 DEF TasksKept, BegunKept
<1>7. CASE n[1] # j
  <2>1. MayClaimById(j)' \subseteq MayClaimById(j)
    BY <1>1, <1>2, <1>7 DEF Deliver, Goto, MayClaimById
  <2>2. jobs'[j].attempts <= jobs[j].attempts
    BY <1>2 DEF CloudInv, TypeOK, Row
  <2> QED BY <1>6, <2>1, <2>2, BudgetUntouched
<1>8. CASE n[1] = j
  <2> DEFINE d == <<n, queue[n].retries + 1>>
             D == Deliveries(j)
             E == Deliveries(j)'
             S == MayClaimById(j)
  <2>1. MayClaimById(j)' = S \cup {w} /\ w \notin S
    BY <1>1, <1>2, <1>8 DEF Deliver, Unused, Goto, MayClaimById
  <2>2. d \notin D
    BY <1>2, <1>5 DEF Deliveries
  <2>3. d \in E
    <3>1. n \in TasksOf(j)'
      BY <1>4, <1>8 DEF TasksOf
    <3>2. queue[n].retries + 1 \in 1 .. MaxDeliveries
      BY <1>2
    <3> QED BY <1>2, <1>5, <3>1, <3>2 DEF Deliveries
  <2>4. D \subseteq E
    BY <1>6, DeliveriesKept
  <2>5. /\ IsFiniteSet(D) /\ Cardinality(D) \in Nat
        /\ IsFiniteSet(E) /\ Cardinality(E) \in Nat
    <3>1. /\ TasksOf(j) \subseteq {j} \X (0 .. MaxClaimsById)
          /\ TasksOf(j)' \subseteq {j} \X (0 .. MaxClaimsById)
          /\ D \subseteq TasksOf(j) \X (1 .. MaxDeliveries)
          /\ E \subseteq TasksOf(j)' \X (1 .. MaxDeliveries)
      BY DEF TasksOf, Names, Deliveries
    <3> QED BY <3>1, DeliveriesBounded
  <2>6. Cardinality(D) + 1 <= Cardinality(E)
    <3>1. Cardinality(D \cup {d}) = Cardinality(D) + 1
      BY <2>2, <2>5, FS_AddElement
    <3>2. D \cup {d} \subseteq E
      BY <2>3, <2>4
    <3> QED BY <2>5, <3>1, <3>2, FS_Subset
  <2>7. /\ IsFiniteSet(S) /\ Cardinality(S) \in Nat /\ jobs[j].attempts \in Nat
        /\ jobs[j].attempts + Cardinality(S) <= Cardinality(D)
    BY FS_CardinalityType DEF DeliveryBudget, CloudInv, TypeOK, Row
  <2>8. IsFiniteSet(S \cup {w}) /\ Cardinality(S \cup {w}) = Cardinality(S) + 1
    BY <2>1, <2>7, FS_AddElement
  <2> HIDE DEF d, D, E, S
  <2>9. jobs[j].attempts + Cardinality(S \cup {w}) <= Cardinality(E)
    BY <2>5, <2>6, <2>7, <2>8
  <2> QED BY <1>2, <2>1, <2>8, <2>9 DEF DeliveryBudget, E
<1> QED BY <1>7, <1>8

\* A call moves the attempt it may make to the ones made, or gives it up.
LEMMA ProcessBudget ==
  ASSUME CloudInv, CloudInv', NEW w \in Owners, ProcessStep(w), UNCHANGED tasks,
         NEW j \in Jobs, DeliveryBudget(j)
  PROVE  DeliveryBudget(j)'
<1>1. /\ TablesTyped /\ job \in [Owners -> Jobs] /\ jobs'[j] \in Row
      /\ pc \in [Owners -> Phases \cup {"idle"}] /\ jobs[j].attempts \in Nat
  BY DEF CloudInv, TypeOK, TablesTyped, Row
<1>2. Deliveries(j) \subseteq Deliveries(j)'
  BY DEF tasks, Deliveries, TasksOf, Begun
<1>3. \/ jobs'[j].attempts = jobs[j].attempts /\ MayClaimById(j)' \subseteq MayClaimById(j)
      \/ /\ jobs'[j].attempts = jobs[j].attempts + 1
         /\ \E v \in MayClaimById(j) : MayClaimById(j)' = MayClaimById(j) \ {v}
  BY <1>1, ProcessAttempts
<1> QED BY <1>1, <1>2, <1>3, BudgetKept

\* The end of a delivery, heard or not.
LEMMA EndBudget ==
  ASSUME CloudInv, CloudInv', NEW j \in Jobs, DeliveryBudget(j), jobs' = jobs,
         TasksKept, BegunKept, NEW w \in Owners, EndCall(w) \/ UNCHANGED pc,
         job' = job
  PROVE  DeliveryBudget(j)'
<1>1. MayClaimById(j)' \subseteq MayClaimById(j)
  BY DEF CloudInv, TypeOK, EndCall, Goto, MayClaimById
<1>2. jobs'[j].attempts <= jobs[j].attempts
  BY DEF CloudInv, TypeOK, Row
<1> QED BY <1>1, <1>2, BudgetUntouched

LEMMA BudgetStep ==
  ASSUME CloudInv, CloudInv', [Next]_vars, NEW j \in Jobs, DeliveryBudget(j)
  PROVE  DeliveryBudget(j)'
<1>1. queue \in [Names -> Task] /\ serves \in [Owners -> Names \cup {NoTask}]
      /\ \A n \in Names : Begun(n) \in Nat
  BY DEF CloudInv, TypeOK, Task, Begun
<1>2. ASSUME UNCHANGED queue PROVE TasksKept /\ BegunKept
  BY <1>1, <1>2 DEF TasksKept, BegunKept, Begun
<1>3. ASSUME NEW n \in Names, NEW end \in Over, Redeliver(n, end)
      PROVE  TasksKept /\ BegunKept
  BY <1>1, <1>3, RedeliverKeeps, RedeliverBegun
<1>4. ASSUME NEW r \in Requests, Request(r) PROVE DeliveryBudget(j)'
  BY <1>4, RequestBudget
<1>5. ASSUME NEW n \in Names, StartDelivery(n) PROVE DeliveryBudget(j)'
  BY <1>5, StartBudget
<1>6. ASSUME NEW w \in Owners, ProcessStep(w), UNCHANGED tasks
      PROVE  DeliveryBudget(j)'
  BY <1>6, ProcessBudget
<1>7. ASSUME NEW w \in Owners, AnswerDelivery(w) PROVE DeliveryBudget(j)'
  <2>1. CASE serves[w] # NoTask
             /\ queue' = [queue EXCEPT ![serves[w]].state = "finished"]
    <3>1. serves[w] \in Names
      BY <1>1, <2>1
    <3>2. \A n \in Names : /\ queue'[n].retries = queue[n].retries
                           /\ queue'[n] = queue[n] \/ queue'[n].state = "finished"
      BY <1>1, <2>1, <3>1 DEF Task
    <3>3. \A n \in Names : queue[n].retries \in Nat
      BY <1>1 DEF Task
    <3>4. TasksKept /\ BegunKept
      BY <1>1, <3>2, <3>3 DEF TasksKept, BegunKept, Begun
    <3> QED BY <1>7, <3>4, EndBudget DEF AnswerDelivery, tables
  <2>2. CASE UNCHANGED queue
    BY <1>2, <1>7, <2>2, EndBudget DEF AnswerDelivery, tables
  <2>3. CASE serves[w] # NoTask /\ Redeliver(serves[w], "exhausted")
    BY <1>1, <1>3, <1>7, <2>3, EndBudget DEF AnswerDelivery, tables, Over
  <2> QED BY <1>7, <2>1, <2>2, <2>3 DEF AnswerDelivery
<1>8. ASSUME NEW w \in Owners, DeliveryDies(w) PROVE DeliveryBudget(j)'
  <2>1. CASE UNCHANGED queue
    BY <1>2, <1>8, <2>1, EndBudget DEF DeliveryDies, tables
  <2>2. CASE serves[w] # NoTask /\ Redeliver(serves[w], "dropped")
    BY <1>1, <1>3, <1>8, <2>2, EndBudget DEF DeliveryDies, tables, Over
  <2> QED BY <1>8, <2>1, <2>2 DEF DeliveryDies
<1>9. ASSUME NEW w \in Owners, Deadline(w) PROVE DeliveryBudget(j)'
  <2>1. serves[w] \in Names
    BY <1>1, <1>9 DEF Deadline
  <2> QED BY <1>3, <1>9, <2>1, EndBudget DEF Deadline, tables, locals, Over
<1>10. CASE \/ \E n \in Names : TurnedAway(n)
            \/ \E r \in Requests : RequestDies(r)
            \/ UNCHANGED vars
  <2>1. UNCHANGED <<jobs, pc, job>>
    BY <1>10 DEF TurnedAway, RequestDies, vars, tables, locals
  <2>2. TasksKept /\ BegunKept
    BY <1>2, <1>3, <1>10 DEF TurnedAway, RequestDies, vars, tasks, Over
  <2>3. jobs'[j].attempts <= jobs[j].attempts
    BY <2>1 DEF CloudInv, TypeOK, Row
  <2> QED BY <2>1, <2>2, <2>3, BudgetUntouched DEF MayClaimById
<1> QED
  BY <1>4, <1>5, <1>6, <1>7, <1>8, <1>9, <1>10 DEF Next, Call, Progress, ProcessStep

\* However deliveries overlap, die or outlive their deadline, the attempts of
\* a job are bounded by the queue's limit for each of its tasks
\* (main.py:42-270, internal_tasks_routes.py:53-63).
THEOREM DeliveriesBoundAttempts == Spec => []AttemptsWithinDeliveries
<1> DEFINE Budgets == \A j \in Jobs : DeliveryBudget(j)
<1>1. Init => Budgets
  <2> SUFFICES ASSUME Init, NEW j \in Jobs PROVE DeliveryBudget(j)
    OBVIOUS
  <2>1. MayClaimById(j) = {} /\ jobs[j].attempts = 0
    BY DEF Init, MayClaimById, NoRow
  <2>2. /\ TasksOf(j) \subseteq {j} \X (0 .. MaxClaimsById)
        /\ Deliveries(j) \subseteq TasksOf(j) \X (1 .. MaxDeliveries)
    BY DEF TasksOf, Names, Deliveries
  <2>3. Cardinality(Deliveries(j)) \in Nat
    BY <2>2, DeliveriesBounded
  <2> QED BY <2>1, <2>3, FS_EmptySet DEF DeliveryBudget
<1>2. CloudInv /\ CloudInv' /\ Budgets /\ [Next]_vars => Budgets'
  BY BudgetStep
<1>3. CloudInv /\ Budgets => AttemptsWithinDeliveries
  <2> SUFFICES ASSUME CloudInv, NEW j \in Jobs, DeliveryBudget(j)
               PROVE  jobs[j].attempts <= MaxDeliveries * Cardinality(TasksOf(j))
    BY DEF AttemptsWithinDeliveries
  <2>1. /\ TasksOf(j) \subseteq {j} \X (0 .. MaxClaimsById)
        /\ Deliveries(j) \subseteq TasksOf(j) \X (1 .. MaxDeliveries)
    BY DEF TasksOf, Names, Deliveries
  <2>2. /\ Cardinality(Deliveries(j)) \in Nat
        /\ Cardinality(Deliveries(j)) <= MaxDeliveries * Cardinality(TasksOf(j))
        /\ Cardinality(TasksOf(j)) \in Nat /\ MaxDeliveries \in Nat
    BY <2>1, DeliveriesBounded, DeliveriesAssumption
  <2>3. /\ jobs[j].attempts \in Nat /\ Cardinality(MayClaimById(j)) \in Nat
        /\ jobs[j].attempts + Cardinality(MayClaimById(j)) <= Cardinality(Deliveries(j))
    BY FS_CardinalityType DEF DeliveryBudget, CloudInv, TypeOK, Row
  <2> DEFINE c == Cardinality(Deliveries(j))
             d == MaxDeliveries * Cardinality(TasksOf(j))
  <2>4. d \in Nat
    BY <2>2
  <2> HIDE DEF d
  <2> QED BY <2>2, <2>3, <2>4 DEF d
<1> QED BY <1>1, <1>2, <1>3, CloudInvariant, PTL DEF Spec
(***************************************************************************)
(* Whoever accepts an upload relies on the queue until the job is over.    *)
(* AcceptedStaysQueued is inductive with what keeps an open job in sight:  *)
(* a locked one has its call, or a call that died; one that nobody works   *)
(* on has a task whose deliveries will, or could not, bring it to an end.  *)
(***************************************************************************)

\* Nothing but a last delivery without an answer takes this task away before
\* the job is closed or locked again.
Promised(n) ==
  \/ queue[n].state \in {"waiting", "dropped"}
  \/ \E w \in Owners :
       /\ serves[w] = n
       /\ \/ pc[w] \in {"loading_job", "interrupting"}
          \/ pc[w] = "claiming" /\ jobs[n[1]].status = "pending"
          \/ pc[w] = "retry" /\ ~final[w]

HasPromise(j) == \E n \in Names : n[1] = j /\ Promised(n)

\* A delivery and its task know of each other.
DeliveryKnows(w) ==
  /\ pc[w] = "idle" => serves[w] = NoTask
  /\ pc[w] # "idle" /\ timeouts = 0 => serves[w] # NoTask
  /\ serves[w] # NoTask =>
       /\ serves[w][1] = job[w]
       /\ queue[serves[w]].state = "delivered"
       /\ final[w] = IsFinalDelivery(queue[serves[w]].retries)
       /\ \A v \in Owners : serves[v] = serves[w] => v = w

TemporaryFailure == "Temporary processing failure"

Holding == {"starting"} \cup InTry \cup Handlers

OpenJobKnown(j) ==
  /\ Queued(j) => Exists(jobs[j])
  /\ jobs[j].status = "pending" /\ Queued(j) =>
       \/ jobs[j].attempts >= MaxClaimsById
       \/ timeouts > 0 /\ jobs[j].error = TemporaryFailure
       \/ HasPromise(j)
  /\ jobs[j].status = "processing" =>
       LET u == jobs[j].lockedBy
       IN \/ pc[u] \in Holding /\ job[u] = j
          \/ pc[u] = "idle" /\ faults > 0 /\ (timeouts > 0 \/ HasPromise(j))

FollowInv ==
  /\ \A w \in Owners : DeliveryKnows(w)
  /\ \A j \in Jobs : OpenJobKnown(j)

\* What one step of a call does to its job, from row r to row s, and to its
\* own place.
SameTenure(r, s) ==
  /\ s.status = r.status     /\ s.lockedBy = r.lockedBy
  /\ s.attempts = r.attempts /\ s.error = r.error

Moves(w, r, s) ==
  \/ s.status \notin Active
  \/ SameTenure(r, s) /\ (pc[w] \in Holding => pc'[w] \in Holding)
  \/ /\ s.status = "processing" /\ s.lockedBy = w
     /\ r.status = "pending" /\ pc'[w] = "starting"
  \/ /\ s.status = "pending" /\ s.error = TemporaryFailure
     /\ pc'[w] = "retry" /\ ~final[w]

LEMMA ProcessMoves ==
  ASSUME CloudInv, NEW w \in Owners, ProcessStep(w),
         NEW r, r = jobs[job[w]], NEW s, s = jobs'[job[w]]
  PROVE  Moves(w, r, s)
<1>1. /\ r \in Row /\ job[w] \in Jobs /\ jobs \in [Jobs -> Row]
      /\ pc \in [Owners -> Phases \cup {"idle"}] /\ RowOf(w) = r
  BY DEF CloudInv, TypeOK, RowOf
<1>2. ASSUME NEW row, Update(w, row) PROVE s = row
  BY <1>1, <1>2 DEF Update
<1>3. CASE \/ LoadJob(w) \/ ReadPdf(w) \/ AgentReturns(w) \/ CheckCommitted(w)
           \/ RaiseTemporary(w) \/ CleanUp(w)
  <2>1. jobs' = jobs
    BY <1>3 DEF LoadJob, ReadPdf, AgentReturns, CheckCommitted, RaiseTemporary,
       CleanUp, tables
  <2>2. pc[w] \in Holding => pc'[w] \in Holding
    BY <1>1, <1>3 DEF LoadJob, ReadPdf, AgentReturns, CheckCommitted,
       RaiseTemporary, CleanUp, Goto, Return, Holding, InTry, Handlers
  <2> QED BY <2>1, <2>2 DEF Moves, SameTenure
<1>4. CASE ClaimById(w)
  <2>1. CASE ClaimByIdMatches(r)
    <3>1. s = Lock(r, w) /\ pc'[w] = "starting" /\ r.status = "pending"
      BY <1>1, <1>2, <1>4, <2>1 DEF ClaimById, Goto, ClaimByIdMatches
    <3>2. s.status = "processing" /\ s.lockedBy = w
      BY <1>1, <3>1 DEF Lock, CountAttempt, Row
    <3> QED BY <3>1, <3>2 DEF Moves
  <2>2. CASE ~ClaimByIdMatches(r)
    BY <1>1, <1>4, <2>2 DEF ClaimById, Holding, InTry, Handlers,
       Moves, SameTenure
  <2> QED BY <2>1, <2>2
<1>5. ASSUME Start(w) \/ SaveInput(w) \/ AgentProgress(w) \/ SaveOutput(w)
      PROVE  SameTenure(r, s) /\ (pc[w] \in Holding => pc'[w] \in Holding)
  <2>1. \/ \E step : s = MarkStep(r, step)
        \/ \E step : s = MarkStep(SaveAgentInput(r), step)
        \/ \E step : s = MarkStep(SaveAgentOutput(r), step)
    BY <1>1, <1>2, <1>5, Zenon DEF Start, SaveInput, AgentProgress, SaveOutput
  <2>2. SameTenure(r, s)
    BY <1>1, <2>1 DEF SameTenure, MarkStep, SaveAgentInput, SaveAgentOutput, Row
  <2>3. \/ pc'[w] \in InTry \cup Handlers
        \/ pc' = pc
    <3>1. CASE Start(w)
      BY <1>1, <3>1, Zenon DEF Start, Goto, InTry
    <3>2. CASE SaveInput(w)
      BY <1>1, <3>2, Zenon DEF SaveInput, Goto, InTry
    <3>3. CASE AgentProgress(w)
      BY <3>3, Zenon DEF AgentProgress, locals
    <3>4. CASE SaveOutput(w)
      BY <1>1, <3>4, Zenon DEF SaveOutput, Goto, InTry, Handlers
    <3> QED BY <1>5, <3>1, <3>2, <3>3, <3>4
  <2> QED BY <2>2, <2>3 DEF Holding
<1>6. ASSUME NEW why, Update(w, MarkFailed(r, why)) PROVE s.status \notin Active
  <2>1. s = MarkFailed(r, why)
    BY <1>2, <1>6
  <2> QED BY <1>1, <2>1 DEF MarkFailed, Unlock, Row, Exists, Active
<1>7. CASE CloseInterrupted(w) \/ Reject(w)
  <2>1. \E why : Update(w, MarkFailed(r, why))
    BY <1>1, <1>7, Zenon DEF CloseInterrupted, Reject
  <2> QED BY <1>6, <2>1 DEF Moves
<1>8. CASE SaveDrafts(w)
  <2>1. CASE Exists(r)
    <3>1. s = SaveResult(r)
      BY <1>1, <1>2, <1>8, <2>1 DEF SaveDrafts
    <3> QED BY <1>1, <2>1, <3>1, SavedColumns DEF Active, Moves
  <2>2. CASE ~Exists(r)
    BY <1>1, <1>8, <2>2 DEF SaveDrafts, Exists, Active, Moves
  <2> QED BY <2>1, <2>2
<1>9. CASE RequeueOrFail(w)
  <2>1. CASE final[w]
    <3>1. \E why : Update(w, MarkFailed(r, why))
      BY <1>1, <1>9, <2>1, Zenon DEF RequeueOrFail
    <3> QED BY <1>6, <3>1 DEF Moves
  <2>2. CASE ~final[w]
    <3>1. s = MarkPendingForRetry(r) /\ pc'[w] = "retry"
      BY <1>1, <1>2, <1>9, <2>2 DEF RequeueOrFail, Goto, Return
    <3>2. CASE Exists(r)
      <4>1. \E step : s = [Unlock(r) EXCEPT !.status = "pending", !.step = step,
                              !.finishedAt = "null", !.error = TemporaryFailure]
        BY <3>1, <3>2, Zenon DEF MarkPendingForRetry, TemporaryFailure
      <4>2. s.status = "pending" /\ s.error = TemporaryFailure
        BY <1>1, <4>1 DEF Unlock, Row
      <4> QED BY <2>2, <3>1, <4>2 DEF Moves
    <3>3. CASE ~Exists(r)
      BY <3>1, <3>3 DEF MarkPendingForRetry, Exists, Active, Moves
    <3> QED BY <3>2, <3>3
  <2> QED BY <2>1, <2>2
<1> QED
  BY <1>3, <1>4, <1>5, <1>7, <1>8, <1>9 DEF ProcessStep, Advance, Moves

(***************************************************************************)
(* Promises.                                                               *)
(***************************************************************************)

\* The job of a promise is still as it was when the promise was looked at.
Unsettled(j) ==
  /\ jobs'[j].status = jobs[j].status
  /\ \/ jobs[j].status = "pending" /\ jobs[j].attempts < MaxClaimsById
     \/ jobs[j].status = "processing" /\ pc[jobs[j].lockedBy] = "idle"

\* What is waiting or given up without an answer, and stays where it is.
LEMMA PromiseAtRest ==
  ASSUME NEW n \in Names, queue[n].state \in {"waiting", "dropped"},
         queue'[n] = queue[n]
  PROVE  Promised(n)'
BY DEF Promised

\* A failed delivery that was not answered, or not for the last time,
\* leaves a promise.
LEMMA RedeliverPromises ==
  ASSUME queue \in [Names -> Task], NEW n \in Names, NEW end,
         Redeliver(n, end), end = "dropped" \/ ~IsFinalDelivery(queue[n].retries)
  PROVE  Promised(n)' /\ queue'[n].state # "absent"
<1>1. queue[n] \in Task /\ queue[n].retries \in Int /\ MaxDeliveries \in Int
  BY DeliveriesAssumption DEF Task
<1>2. CASE queue[n].retries < MaxDeliveries - 1
  <2>1. queue'[n].state = "waiting"
    BY <1>2 DEF Redeliver
  <2> QED BY <2>1 DEF Promised
<1>3. CASE ~(queue[n].retries < MaxDeliveries - 1)
  <2>1. end = "dropped"
    BY <1>1, <1>3 DEF IsFinalDelivery
  <2>2. queue'[n].state = "dropped"
    BY <1>1, <1>3, <2>1 DEF Redeliver, Task
  <2> QED BY <2>2 DEF Promised
<1> QED BY <1>2, <1>3

\* A call that has not yet got hold of its job keeps its promise or settles
\* the job: it finds a pending job to claim and a job of a dead call to
\* close, or hands the task back.
LEMMA ProcessPromise ==
  ASSUME CloudInv, FollowInv, NEW w \in Owners, ProcessStep(w), UNCHANGED tasks,
         NEW n \in Names, Promised(n), Unsettled(n[1])
  PROVE  Promised(n)'
<1>1. /\ pc \in [Owners -> Phases \cup {"idle"}] /\ jobs \in [Jobs -> Row]
      /\ job \in [Owners -> Jobs] /\ n[1] \in Jobs /\ RowOf(w) = jobs[job[w]]
  BY DEF CloudInv, TypeOK, Names, RowOf
<1>2. /\ UNCHANGED <<job, final, queue, serves>> /\ pc[w] \notin Outcomes
      /\ \A v \in Owners \ {w} : pc'[v] = pc[v]
  BY <1>1, ProcessLocals DEF tasks
<1>3. CASE queue[n].state \in {"waiting", "dropped"}
  BY <1>2, <1>3, PromiseAtRest
<1>4. ASSUME NEW v \in Owners, serves[v] = n,
             \/ pc[v] \in {"loading_job", "interrupting"}
             \/ pc[v] = "claiming" /\ jobs[n[1]].status = "pending"
             \/ pc[v] = "retry" /\ ~final[v]
      PROVE  Promised(n)'
  <2>1. CASE v # w
    <3>1. pc'[v] = pc[v] /\ jobs'[n[1]].status = jobs[n[1]].status
      BY <1>2, <2>1 DEF Unsettled
    <3> QED BY <1>2, <1>4, <3>1 DEF Promised
  <2>2. CASE v = w
    <3>1. n[1] = job[w]
      <4>1. n # NoTask
        BY NoTaskAssumption DEF Names
      <4> QED BY <1>4, <2>2, <4>1 DEF FollowInv, DeliveryKnows
    <3> DEFINE r == jobs[job[w]]
    <3>2. r \in Row /\ r.status \in Active /\ jobs'[job[w]].status = r.status
      BY <1>1, <3>1 DEF Unsettled, Active
    <3>3. CASE pc[w] = "loading_job"
      <4>1. LoadJob(w)
        BY <3>3 DEF ProcessStep, Advance, LoadJob, ClaimById, CloseInterrupted,
           Start, SaveInput, ReadPdf, AgentReturns, SaveOutput, CheckCommitted,
           SaveDrafts, RaiseTemporary, Reject, RequeueOrFail, CleanUp,
           AgentProgress, InTry
      <4>2. CASE r.status = "pending"
        <5>1. pc'[w] = "claiming"
          BY <1>1, <4>1, <4>2 DEF LoadJob, Goto, Return, Terminal
        <5> QED BY <1>2, <1>4, <2>2, <3>1, <3>2, <4>2, <5>1 DEF Promised
      <4>3. CASE r.status = "processing"
        <5>1. r.lockedBy # w
          BY <3>1, <3>3, <4>3 DEF Unsettled
        <5>2. \/ pc'[w] = "interrupting"
              \/ pc'[w] = "retry" /\ ~final[w]
          BY <1>1, <4>1, <4>3, <5>1 DEF LoadJob, Goto, Return, Terminal
        <5> QED BY <1>2, <1>4, <2>2, <5>2 DEF Promised
      <4> QED BY <3>2, <4>2, <4>3 DEF Active
    <3>4. CASE pc[w] = "interrupting"
      <4>1. CloseInterrupted(w)
        BY <3>4, ZenonT(60) DEF ProcessStep, Advance, LoadJob, ClaimById, CloseInterrupted,
           Start, SaveInput, ReadPdf, AgentReturns, SaveOutput, CheckCommitted,
           SaveDrafts, RaiseTemporary, Reject, RequeueOrFail, CleanUp,
           AgentProgress, InTry
      <4>2. \E why : jobs'[job[w]] = MarkFailed(r, why)
        BY <1>1, <4>1, Zenon DEF CloseInterrupted, Update
      <4>3. jobs'[job[w]].status \notin Active
        BY <3>2, <4>2 DEF MarkFailed, Unlock, Row, Exists, Active
      <4> QED BY <3>2, <4>3
    <3>5. CASE pc[w] = "claiming" /\ r.status = "pending"
      <4>1. ClaimById(w)
        BY <3>5 DEF ProcessStep, Advance, LoadJob, ClaimById, CloseInterrupted,
           Start, SaveInput, ReadPdf, AgentReturns, SaveOutput, CheckCommitted,
           SaveDrafts, RaiseTemporary, Reject, RequeueOrFail, CleanUp,
           AgentProgress, InTry
      <4>2. ClaimByIdMatches(r)
        BY <3>1, <3>5 DEF Unsettled, ClaimByIdMatches
      <4>3. jobs'[job[w]] = Lock(r, w)
        BY <1>1, <4>1, <4>2 DEF ClaimById, Update
      <4>4. jobs'[job[w]].status = "processing"
        BY <3>2, <4>3 DEF Lock, CountAttempt, Row
      <4> QED BY <3>2, <3>5, <4>4
    <3> QED BY <1>2, <1>4, <2>2, <3>1, <3>3, <3>4, <3>5 DEF Outcomes
  <2> QED BY <2>1, <2>2
<1> QED BY <1>3, <1>4 DEF Promised

\* A promise that a step does not touch.
LEMMA PromiseUndisturbed ==
  ASSUME NEW n \in Names, Promised(n),
         jobs'[n[1]].status = jobs[n[1]].status, queue'[n] = queue[n],
         \A v \in Owners : serves[v] = n =>
           serves'[v] = n /\ pc'[v] = pc[v] /\ final'[v] = final[v]
  PROVE  Promised(n)'
<1>1. CASE queue[n].state \in {"waiting", "dropped"}
  BY <1>1, PromiseAtRest
<1>2. ASSUME NEW v \in Owners, serves[v] = n,
             \/ pc[v] \in {"loading_job", "interrupting"}
             \/ pc[v] = "claiming" /\ jobs[n[1]].status = "pending"
             \/ pc[v] = "retry" /\ ~final[v]
      PROVE  Promised(n)'
  BY <1>2 DEF Promised
<1> QED BY <1>1, <1>2 DEF Promised

\* What a task that keeps a promise is not.
LEMMA PromiseOfTask ==
  ASSUME FollowInv, NEW n \in Names, Promised(n)
  PROVE  queue[n].state \in {"waiting", "dropped", "delivered"}
<1>1. n # NoTask
  BY NoTaskAssumption DEF Names
<1> QED BY <1>1 DEF Promised, FollowInv, DeliveryKnows

\* A call that ends hands a promise back to its task; one that outlives its
\* deadline does so while it goes on.
LEMMA EndPromise ==
  ASSUME CloudInv, FollowInv, NEW w \in Owners,
         AnswerDelivery(w) \/ DeliveryDies(w) \/ Deadline(w),
         NEW n \in Names, Promised(n)
  PROVE  Promised(n)'
<1>1. /\ queue \in [Names -> Task] /\ serves \in [Owners -> Names \cup {NoTask}]
      /\ pc \in [Owners -> Phases \cup {"idle"}] /\ final \in [Owners -> BOOLEAN]
      /\ n # NoTask
  BY NoTaskAssumption DEF CloudInv, TypeOK, Names
<1>2. /\ jobs' = jobs
      /\ \A v \in Owners \ {w} : /\ serves'[v] = serves[v] /\ pc'[v] = pc[v]
                                 /\ final'[v] = final[v]
  BY <1>1 DEF AnswerDelivery, DeliveryDies, Deadline, EndCall, Goto, tables, locals
<1>3. CASE serves[w] # n
  <2>1. queue'[n] = queue[n]
    BY <1>1, <1>3 DEF AnswerDelivery, DeliveryDies, Deadline, Redeliver
  <2> QED BY <1>2, <1>3, <2>1, PromiseUndisturbed
<1>4. CASE serves[w] = n
  <2>1. /\ queue[n].state = "delivered"
        /\ final[w] = IsFinalDelivery(queue[n].retries)
        /\ \A v \in Owners : serves[v] = n => v = w
    BY <1>1, <1>4 DEF FollowInv, DeliveryKnows
  <2>2. CASE AnswerDelivery(w)
    <3>1. pc[w] = "retry" /\ ~final[w]
      BY <2>1, <2>2 DEF Promised, AnswerDelivery, Outcomes
    <3>2. Redeliver(n, "exhausted")
      BY <1>1, <1>4, <2>2, <3>1 DEF AnswerDelivery
    <3> QED BY <1>1, <2>1, <3>1, <3>2, RedeliverPromises
  <2>3. CASE DeliveryDies(w) \/ Deadline(w)
    <3>1. Redeliver(n, "dropped")
      BY <1>1, <1>4, <2>3 DEF DeliveryDies, Deadline
    <3> QED BY <1>1, <3>1, RedeliverPromises
  <2> QED BY <2>2, <2>3
<1> QED BY <1>3, <1>4

\* A task that waits passes its promise to the call it is delivered to, or
\* keeps it when the delivery is turned away.
LEMMA StartPromise ==
  ASSUME CloudInv, FollowInv, NEW m \in Names, StartDelivery(m) \/ TurnedAway(m),
         NEW n \in Names, Promised(n)
  PROVE  Promised(n)'
<1>1. /\ queue \in [Names -> Task] /\ serves \in [Owners -> Names \cup {NoTask}]
      /\ pc \in [Owners -> Phases \cup {"idle"}] /\ final \in [Owners -> BOOLEAN]
      /\ n # NoTask
  BY NoTaskAssumption DEF CloudInv, TypeOK, Names
<1>2. ASSUME TurnedAway(m) PROVE Promised(n)'
  <2>1. CASE m = n
    BY <1>1, <1>2, <2>1, RedeliverPromises DEF TurnedAway
  <2>2. CASE m # n
    <3>1. queue'[n] = queue[n] /\ UNCHANGED <<jobs, pc, final, serves>>
      BY <1>1, <1>2, <2>2 DEF TurnedAway, Redeliver, tables, locals
    <3> QED BY <3>1, PromiseUndisturbed
  <2> QED BY <2>1, <2>2
<1>3. ASSUME NEW w \in Owners, Deliver(m, w) PROVE Promised(n)'
  <2>1. /\ serves'[w] = m /\ pc'[w] = "loading_job" /\ jobs' = jobs
        /\ \A v \in Owners \ {w} : /\ serves'[v] = serves[v] /\ pc'[v] = pc[v]
                                   /\ final'[v] = final[v]
    BY <1>1, <1>3 DEF Deliver, Goto, tables
  <2>2. CASE m = n
    BY <2>1, <2>2 DEF Promised
  <2>3. CASE m # n
    <3>1. queue'[n] = queue[n]
      BY <1>1, <1>3, <2>3 DEF Deliver
    <3>2. serves[w] # n
      BY <1>1, <1>3 DEF Deliver, Unused, FollowInv, DeliveryKnows
    <3> QED BY <2>1, <3>1, <3>2, PromiseUndisturbed
  <2> QED BY <2>2, <2>3
<1> QED BY <1>2, <1>3 DEF StartDelivery

\* A request makes its task, or leaves the queue as it is.
LEMMA RequestQueue ==
  ASSUME NEW r \in Requests, RequestStep(r)
  PROVE  (CreateTask(TaskName(r)) /\ upc[r] = "enqueuing") \/ UNCHANGED queue
BY Zenon DEF RequestStep, LookUp, SaveFile, CreateJob, DiscardFile, LookAgain,
   Enqueue, FailDispatch, DeleteUnscheduled, tasks

\* A promise is kept until its job is locked, over or out of attempts.
LEMMA PromiseStep ==
  ASSUME CloudInv, FollowInv, [Next]_vars, NEW n \in Names, Promised(n),
         Unsettled(n[1])
  PROVE  Promised(n)'
<1>1. ASSUME NEW r \in Requests, RequestStep(r) PROVE Promised(n)'
  <2>1. UNCHANGED <<locals, serves>>
    BY <1>1, RequestLocals
  <2>2. queue \in [Names -> Task] /\ TaskName(r) \in Names
    BY DEF CloudInv, TypeOK, TaskName, Names, Key
  <2>3. queue[n].state # "absent"
    BY PromiseOfTask
  <2>4. CASE CreateTask(TaskName(r))
    <3>1. queue'[n] = queue[n]
      BY <2>2, <2>3, <2>4 DEF CreateTask
    <3> QED BY <2>1, <3>1, PromiseUndisturbed DEF locals, Unsettled
  <2>5. CASE UNCHANGED queue
    BY <2>1, <2>5, PromiseUndisturbed DEF locals, Unsettled
  <2> QED BY <1>1, <2>4, <2>5, RequestQueue
<1>2. CASE (\E r \in Requests : RequestDies(r)) \/ UNCHANGED vars
  <2>1. UNCHANGED <<jobs, pc, final, queue, serves>>
    BY <1>2 DEF RequestDies, vars, tables, locals, tasks
  <2> QED BY <2>1, PromiseUndisturbed
<1>3. ASSUME NEW w \in Owners, ProcessStep(w), UNCHANGED tasks PROVE Promised(n)'
  BY <1>3, ProcessPromise
<1> QED
  BY <1>1, <1>2, <1>3, EndPromise, StartPromise
     DEF Next, Request, Call, Progress, ProcessStep

(***************************************************************************)
(* Deliveries and their tasks.                                             *)
(***************************************************************************)

\* A step that neither ends nor starts call v, nor touches its task.
LEMMA DeliveryUnaware ==
  ASSUME NEW v \in Owners, DeliveryKnows(v),
         serves'[v] = serves[v], job'[v] = job[v], final'[v] = final[v],
         pc'[v] = "idle" <=> pc[v] = "idle", timeouts' = 0 => timeouts = 0,
         serves[v] # NoTask =>
           /\ queue'[serves[v]] = queue[serves[v]]
           /\ \A u \in Owners : serves'[u] = serves[v] => serves[u] = serves[v]
  PROVE  DeliveryKnows(v)'
BY DEF DeliveryKnows, IsFinalDelivery

LEMMA KnowsStep ==
  ASSUME CloudInv, FollowInv, [Next]_vars, NEW v \in Owners
  PROVE  DeliveryKnows(v)'
<1>1. /\ queue \in [Names -> Task] /\ serves \in [Owners -> Names \cup {NoTask}]
      /\ pc \in [Owners -> Phases \cup {"idle"}] /\ final \in [Owners -> BOOLEAN]
      /\ job \in [Owners -> Jobs] /\ timeouts \in Nat
  BY BoundsAssumption DEF CloudInv, TypeOK
<1>2. \A u \in Owners : DeliveryKnows(u)
  BY DEF FollowInv
<1>3. serves[v] # NoTask => serves[v] \in Names /\ queue[serves[v]].state = "delivered"
  BY <1>1, <1>2 DEF DeliveryKnows
<1>4. ASSUME NEW r \in Requests, RequestStep(r), UNCHANGED bounds
      PROVE  DeliveryKnows(v)'
  <2>1. UNCHANGED <<pc, job, final, serves, timeouts>> /\ TaskName(r) \in Names
    BY <1>4, RequestLocals DEF CloudInv, TypeOK, TaskName, Names, Key, locals, bounds
  <2>2. serves[v] # NoTask => queue'[serves[v]] = queue[serves[v]]
    BY <1>1, <1>3, <1>4, <2>1, RequestQueue DEF CreateTask
  <2> QED BY <1>2, <2>1, <2>2, DeliveryUnaware
<1>5. CASE (\E r \in Requests : RequestDies(r)) \/ UNCHANGED vars
  <2>1. UNCHANGED <<pc, job, final, queue, serves, timeouts>>
    BY <1>5 DEF RequestDies, vars, locals, tasks
  <2> QED BY <1>2, <2>1, DeliveryUnaware
<1>6. ASSUME NEW w \in Owners, ProcessStep(w), UNCHANGED <<tasks, bounds>>
      PROVE  DeliveryKnows(v)'
  <2>1. /\ UNCHANGED <<job, final>> /\ pc[w] \in Phases
        /\ pc' = pc \/ \E p \in Phases : pc' = [pc EXCEPT ![w] = p]
    BY <1>6, ProcessLocals
  <2>2. pc'[v] = "idle" <=> pc[v] = "idle"
    <3>1. "idle" \notin Phases
      BY DEF Phases, Working, InTry, Handlers, Outcomes
    <3> HIDE DEF Phases
    <3> QED BY <1>1, <2>1, <3>1
  <2> QED BY <1>2, <1>6, <2>1, <2>2, DeliveryUnaware DEF tasks, bounds
<1>7. ASSUME NEW m \in Names, TurnedAway(m) PROVE DeliveryKnows(v)'
  <2>1. UNCHANGED <<pc, job, final, serves, timeouts>>
    BY <1>7 DEF TurnedAway, locals
  <2>2. serves[v] # NoTask => queue'[serves[v]] = queue[serves[v]]
    BY <1>1, <1>3, <1>7 DEF TurnedAway, Redeliver
  <2> QED BY <1>2, <2>1, <2>2, DeliveryUnaware
<1>8. ASSUME NEW m \in Names, NEW w \in Owners, Deliver(m, w), UNCHANGED bounds
      PROVE  DeliveryKnows(v)'
  <2>1. /\ pc[w] = "idle" /\ pc'[w] = "loading_job" /\ serves'[w] = m
        /\ job'[w] = m[1] /\ final'[w] = IsFinalDelivery(queue[m].retries)
        /\ \A u \in Owners \ {w} : /\ pc'[u] = pc[u] /\ serves'[u] = serves[u]
                                   /\ job'[u] = job[u] /\ final'[u] = final[u]
    BY <1>1, <1>8 DEF Deliver, Unused, Goto
  <2>2. /\ queue[m].state = "waiting" /\ queue'[m].state = "delivered"
        /\ queue'[m].retries = queue[m].retries
        /\ \A n \in Names \ {m} : queue'[n] = queue[n]
    BY <1>1, <1>8 DEF Deliver, Task
  <2>3. CASE v # w
    <3>1. serves[v] # NoTask => serves[v] \in Names \ {m}
      BY <1>3, <2>2
    <3>2. serves[v] # NoTask => queue'[serves[v]] = queue[serves[v]] /\ serves'[w] # serves[v]
      BY <2>1, <2>2, <3>1
    <3>3. pc'[v] = pc[v] /\ serves'[v] = serves[v] /\ job'[v] = job[v] /\ final'[v] = final[v]
      BY <2>1, <2>3
    <3>4. \A u \in Owners : serves'[u] = serves[v] /\ serves[v] # NoTask => serves[u] = serves[v]
      BY <2>1, <3>2
    <3> QED BY <1>2, <1>8, <3>2, <3>3, <3>4, DeliveryUnaware DEF bounds
  <2>4. CASE v = w
    <3>1. \A u \in Owners : serves'[u] = m => u = w
      <4>1. ASSUME NEW u \in Owners \ {w} PROVE serves[u] # m
        <5>1. m # NoTask
          BY NoTaskAssumption DEF Names
        <5> QED BY <1>2, <2>2, <5>1 DEF DeliveryKnows
      <4> QED BY <2>1, <4>1
    <3>2. final'[w] = IsFinalDelivery(queue'[m].retries)
      BY <2>1, <2>2 DEF IsFinalDelivery
    <3>3. m # NoTask
      BY NoTaskAssumption DEF Names
    <3> QED BY <2>1, <2>2, <2>4, <3>1, <3>2, <3>3 DEF DeliveryKnows, IsFinalDelivery
  <2> QED BY <2>3, <2>4
<1>9. ASSUME NEW w \in Owners, AnswerDelivery(w) \/ DeliveryDies(w) \/ Deadline(w),
             UNCHANGED timeouts \/ Deadline(w)
      PROVE  DeliveryKnows(v)'
  <2>1. /\ serves'[w] = NoTask /\ job' = job
        /\ \A u \in Owners \ {w} : /\ pc'[u] = pc[u] /\ serves'[u] = serves[u]
                                   /\ final'[u] = final[u]
    BY <1>1, <1>9 DEF AnswerDelivery, DeliveryDies, Deadline, EndCall, Goto, locals
  <2>2. timeouts' = 0 => timeouts = 0
    BY <1>1, <1>9 DEF Deadline
  <2>3. CASE v # w
    <3>1. serves[v] # NoTask => serves[w] # serves[v]
      BY <1>2, <2>3 DEF DeliveryKnows
    <3>2. serves[v] # NoTask => queue'[serves[v]] = queue[serves[v]]
      BY <1>1, <1>3, <1>9, <3>1 DEF AnswerDelivery, DeliveryDies, Deadline, Redeliver
    <3>3. pc'[v] = pc[v] /\ serves'[v] = serves[v] /\ job'[v] = job[v] /\ final'[v] = final[v]
      BY <2>1, <2>3
    <3>4. \A u \in Owners : serves'[u] = serves[v] /\ serves[v] # NoTask => serves[u] = serves[v]
      BY <2>1
    <3> QED BY <1>2, <2>2, <3>2, <3>3, <3>4, DeliveryUnaware
  <2>4. CASE v = w /\ (AnswerDelivery(w) \/ DeliveryDies(w))
    <3>1. pc'[w] = "idle"
      BY <1>1, <2>4 DEF AnswerDelivery, DeliveryDies, EndCall, Goto
    <3> QED BY <2>1, <2>4, <3>1 DEF DeliveryKnows
  <2>5. CASE v = w /\ Deadline(w)
    <3>1. timeouts' # 0 /\ pc'[w] # "idle"
      BY <1>1, <1>2, <2>5 DEF Deadline, locals, DeliveryKnows
    <3> QED BY <2>1, <2>5, <3>1 DEF DeliveryKnows
  <2> QED BY <1>9, <2>3, <2>4, <2>5
<1> QED
  BY <1>4, <1>5, <1>6, <1>7, <1>8, <1>9
     DEF Next, Request, StartDelivery, Call, Progress, ProcessStep, bounds, DeliveryDies

(***************************************************************************)
(* Open jobs.                                                              *)
(***************************************************************************)

\* What a step does to a row: nothing that matters here, the end of the job,
\* a new row, or what ProcessMoves tells of a call.
LEMMA StepRows ==
  ASSUME CloudInv, [Next]_vars, NEW j \in Jobs
  PROVE  /\ Exists(jobs[j]) => Exists(jobs'[j])
         /\ \/ SameTenure(jobs[j], jobs'[j])
            \/ jobs'[j].status \notin Active
            \/ ~Exists(jobs[j]) /\ UNCHANGED queue
            \/ \E w \in Owners : /\ job[w] = j /\ ProcessStep(w)
                                 /\ UNCHANGED <<tasks, bounds>>
<1>1. jobs \in [Jobs -> Row]
  BY DEF CloudInv, TypeOK
<1>2. ASSUME jobs'[j] = jobs[j]
      PROVE  (Exists(jobs[j]) => Exists(jobs'[j])) /\ SameTenure(jobs[j], jobs'[j])
  BY <1>2 DEF SameTenure
<1>3. ASSUME NEW r \in Requests, RequestStep(r)
      PROVE  \/ jobs'[j] = jobs[j]
             \/ jobs'[j].status \notin Active /\ Exists(jobs'[j])
             \/ ~Exists(jobs[j]) /\ UNCHANGED queue
             \/ ~Exists(jobs[j]) /\ jobs'[j].status \notin Active
  <2>1. CASE FailDispatch(r)
    <3>1. PICK why : jobs' = [jobs EXCEPT ![Key(r)] = MarkFailed(jobs[Key(r)], why)]
      BY <2>1, Zenon DEF FailDispatch
    <3>2. ASSUME NEW x \in Row, NEW how
          PROVE  /\ MarkFailed(x, how).status \notin Active
                 /\ Exists(x) => Exists(MarkFailed(x, how))
      BY DEF MarkFailed, Unlock, Row, Exists, Active
    <3> DEFINE s == MarkFailed(jobs[Key(r)], why)
    <3>3. Key(r) = j => s.status \notin Active /\ (Exists(jobs[j]) => Exists(s))
      BY <1>1, <3>2
    <3> HIDE DEF s
    <3>4. CASE Key(r) = j
      <4>1. jobs'[j] = s
        BY <1>1, <3>1, <3>4 DEF s
      <4> QED BY <3>3, <3>4, <4>1
    <3>5. CASE Key(r) # j
      BY <1>1, <3>1, <3>5
    <3> QED BY <3>4, <3>5
  <2>2. CASE CreateJob(r)
    BY <1>1, <2>2 DEF CreateJob, tasks
  <2>3. CASE UNCHANGED jobs
    BY <2>3
  <2> QED
    BY <1>3, <2>1, <2>2, <2>3, Zenon DEF RequestStep, LookUp, SaveFile, DiscardFile,
       LookAgain, Enqueue, DeleteUnscheduled, tables
<1>4. ASSUME NEW w \in Owners, ProcessStep(w), UNCHANGED <<tasks, bounds>>
      PROVE  /\ Exists(jobs[j]) => Exists(jobs'[j])
             /\ job[w] # j => jobs'[j] = jobs[j]
  <2>1. /\ TablesTyped /\ job[w] \in Jobs /\ pc \in [Owners -> Phases \cup {"idle"}]
        /\ \A i \in Jobs : RowConsistent(jobs[i])
        /\ pc[w] \in Working => AttemptMade(RowOf(w))
    BY DEF CloudInv, TypeOK, TablesTyped, RowKnown, CallKnows
  <2>2. /\ \A i \in Jobs : KeptConsistent(jobs[i], jobs'[i])
        /\ \A i \in Jobs \ {job[w]} : jobs'[i] = jobs[i]
    BY <1>4, <2>1, ProcessRows
  <2> QED BY <2>2 DEF KeptConsistent, Kept
<1>5. CASE jobs' = jobs
  BY <1>2, <1>5
<1>6. \/ \E r \in Requests : RequestStep(r)
      \/ \E w \in Owners : ProcessStep(w) /\ UNCHANGED <<tasks, bounds>>
      \/ jobs' = jobs
  BY DEF Next, Request, RequestDies, StartDelivery, Deliver, TurnedAway, Call,
     Progress, ProcessStep, AnswerDelivery, DeliveryDies, Deadline, tables, vars
<1> QED BY <1>2, <1>3, <1>4, <1>5, <1>6

\* A task is made by a request.
LEMMA NewTaskStep ==
  ASSUME CloudInv, FollowInv, [Next]_vars, NEW n \in Names,
         queue[n].state = "absent", queue'[n].state # "absent"
  PROVE  /\ queue'[n].state = "waiting"
         /\ \E r \in Requests : RequestStep(r) /\ TaskName(r) = n /\ upc[r] = "enqueuing"
<1>1. /\ queue \in [Names -> Task] /\ serves \in [Owners -> Names \cup {NoTask}]
  BY DEF CloudInv, TypeOK
<1>2. \A w \in Owners : serves[w] # NoTask => serves[w] # n
  BY DEF FollowInv, DeliveryKnows
<1>3. queue'[n] # queue[n]
  OBVIOUS
<1>4. ASSUME NEW m \in Names, queue[m].state = "waiting"
      PROVE  m # n
  BY <1>4
<1>5. PICK r \in Requests : RequestStep(r)
  BY <1>1, <1>2, <1>3, <1>4
     DEF Next, Request, RequestDies, StartDelivery, Deliver, TurnedAway, Call,
         Progress, AnswerDelivery, DeliveryDies, Deadline, Redeliver, tasks, vars
<1>6. CreateTask(TaskName(r)) /\ upc[r] = "enqueuing"
  BY <1>3, <1>5, RequestQueue
<1>7. TaskName(r) = n /\ queue'[n].state = "waiting"
  <2>1. TaskName(r) \in Names
    BY DEF CloudInv, TypeOK, TaskName, Names, Key
  <2> QED BY <1>1, <1>3, <1>6, <2>1 DEF CreateTask, Task
<1> QED BY <1>5, <1>6, <1>7

\* It is made for a row that exists, and waits.
LEMMA StepTasks ==
  ASSUME CloudInv, FollowInv, [Next]_vars, NEW n \in Names,
         queue[n].state = "absent", queue'[n].state # "absent"
  PROVE  queue'[n].state = "waiting" /\ Exists(jobs[n[1]])
<1>1. PICK r \in Requests : TaskName(r) = n /\ upc[r] = "enqueuing"
  BY NewTaskStep
<1>2. OwnJob(r) /\ n[1] = Key(r)
  BY <1>1 DEF CloudInv, RequestKnows, TaskName
<1> QED BY <1>2, NewTaskStep DEF OwnJob

\* A call that holds its job goes on, or dies.
LEMMA HolderSteps ==
  ASSUME CloudInv, FollowInv, [Next]_vars, NEW u \in Owners, pc[u] \in Holding
  PROVE  \/ pc'[u] = pc[u] /\ job'[u] = job[u]
         \/ ProcessStep(u)
         \/ DeliveryDies(u)
<1>1. /\ pc \in [Owners -> Phases \cup {"idle"}] /\ job \in [Owners -> Jobs]
      /\ pc[u] # "idle" /\ pc[u] \notin Outcomes
  BY DEF CloudInv, TypeOK, Holding, InTry, Handlers, Outcomes
<1>2. ASSUME NEW w \in Owners, ProcessStep(w), w # u
      PROVE  pc'[u] = pc[u] /\ job'[u] = job[u]
  BY <1>1, <1>2, ProcessLocals
<1>3. ASSUME NEW r \in Requests, RequestStep(r)
      PROVE  pc'[u] = pc[u] /\ job'[u] = job[u]
  BY <1>3, RequestLocals DEF locals
<1>4. ASSUME NEW w \in Owners, AnswerDelivery(w) \/ DeliveryDies(w) \/ Deadline(w)
      PROVE  (pc'[u] = pc[u] /\ job'[u] = job[u]) \/ DeliveryDies(u)
  BY <1>1, <1>4 DEF AnswerDelivery, DeliveryDies, Deadline, EndCall, Goto, locals
<1>5. ASSUME NEW m \in Names, NEW w \in Owners, Deliver(m, w)
      PROVE  pc'[u] = pc[u] /\ job'[u] = job[u]
  BY <1>1, <1>5 DEF Deliver, Unused, Goto
<1>6. CASE \/ \E m \in Names : TurnedAway(m)
           \/ \E r \in Requests : RequestDies(r)
           \/ UNCHANGED vars
  BY <1>6 DEF TurnedAway, RequestDies, vars, locals
<1> QED
  BY <1>2, <1>3, <1>4, <1>5, <1>6
     DEF Next, Request, StartDelivery, Call, Progress, ProcessStep

\* Deaths and deadlines are counted.
LEMMA CountsKept ==
  ASSUME CloudInv, [Next]_vars
  PROVE  (faults > 0 => faults' > 0) /\ (timeouts > 0 => timeouts' > 0)
<1>1. faults \in Nat /\ timeouts \in Nat
  BY BoundsAssumption DEF CloudInv, TypeOK
<1> QED
  BY <1>1 DEF Next, Request, RequestDies, StartDelivery, TurnedAway, Call, Progress,
     DeliveryDies, Deadline, bounds, vars

\* A job keeps its promise until it is settled.
LEMMA HasPromiseStep ==
  ASSUME CloudInv, FollowInv, [Next]_vars, NEW j \in Jobs, HasPromise(j), Unsettled(j)
  PROVE  HasPromise(j)'
<1>1. PICK n \in Names : n[1] = j /\ Promised(n)
  BY DEF HasPromise
<1>2. Promised(n)'
  BY <1>1, PromiseStep
<1> QED BY <1>1, <1>2 DEF HasPromise

\* The id of a call that died with a job in its hands is not used again.
LEMMA IdleOwner ==
  ASSUME CloudInv, [Next]_vars, NEW u \in Owners, pc[u] = "idle",
         NEW j \in Jobs, jobs[j].lockedBy = u
  PROVE  pc'[u] = "idle"
<1>1. pc \in [Owners -> Phases \cup {"idle"}]
  BY DEF CloudInv, TypeOK
<1>2. ASSUME NEW w \in Owners, ProcessStep(w) PROVE pc'[u] = pc[u]
  <2>1. /\ pc[w] \in Phases
        /\ pc' = pc \/ \E p \in Phases : pc' = [pc EXCEPT ![w] = p]
    BY <1>2, ProcessLocals
  <2>2. w # u
    BY <2>1 DEF Phases, Working, InTry, Handlers, Outcomes
  <2> QED BY <1>1, <2>1, <2>2
<1>3. ASSUME NEW r \in Requests, RequestStep(r) PROVE pc'[u] = pc[u]
  BY <1>3, RequestLocals DEF locals
<1>4. ASSUME NEW w \in Owners, AnswerDelivery(w) \/ DeliveryDies(w) \/ Deadline(w)
      PROVE  pc'[u] = "idle"
  BY <1>1, <1>4 DEF AnswerDelivery, DeliveryDies, Deadline, EndCall, Goto, locals
<1>5. ASSUME NEW m \in Names, NEW w \in Owners, Deliver(m, w) PROVE pc'[u] = pc[u]
  BY <1>1, <1>5 DEF Deliver, Unused, Goto
<1>6. CASE \/ \E m \in Names : TurnedAway(m)
           \/ \E r \in Requests : RequestDies(r)
           \/ UNCHANGED vars
  BY <1>6 DEF TurnedAway, RequestDies, vars, locals
<1> QED
  BY <1>2, <1>3, <1>4, <1>5, <1>6
     DEF Next, Request, StartDelivery, Call, Progress, ProcessStep

\* A job whose row keeps its status, owner and attempts.
LEMMA TenureStep ==
  ASSUME CloudInv, FollowInv, [Next]_vars, NEW j \in Jobs,
         SameTenure(jobs[j], jobs'[j])
  PROVE  OpenJobKnown(j)'
<1> DEFINE r == jobs[j]
           u == jobs[j].lockedBy
<1>1. /\ OpenJobKnown(j) /\ r \in Row
      /\ jobs'[j].status = r.status /\ jobs'[j].lockedBy = u
      /\ jobs'[j].attempts = r.attempts /\ jobs'[j].error = r.error
  BY DEF FollowInv, SameTenure, CloudInv, TypeOK
<1>2. ASSUME ~Queued(j), Queued(j)' PROVE HasPromise(j)' /\ Exists(r)
  <2>1. PICK n \in Names : n[1] = j /\ queue'[n].state # "absent"
    BY <1>2 DEF Queued, TasksOf
  <2>2. queue[n].state = "absent"
    BY <1>2, <2>1 DEF Queued, TasksOf
  <2>3. queue'[n].state = "waiting" /\ Exists(r)
    BY <2>1, <2>2, StepTasks
  <2> QED BY <2>1, <2>3 DEF HasPromise, Promised
<1>3. Queued(j)' => Exists(jobs'[j])
  BY <1>1, <1>2 DEF OpenJobKnown, Exists
<1>4. ASSUME r.status = "pending", Queued(j)'
      PROVE  \/ r.attempts >= MaxClaimsById
             \/ timeouts' > 0 /\ r.error = TemporaryFailure
             \/ HasPromise(j)'
  <2>1. CASE HasPromise(j) /\ ~(r.attempts >= MaxClaimsById)
    <3>1. r.attempts < MaxClaimsById
      BY <1>1, <2>1, LimitsAssumption DEF Row
    <3> QED BY <1>1, <1>4, <2>1, <3>1, HasPromiseStep DEF Unsettled
  <2> QED BY <1>1, <1>2, <1>4, <2>1, CountsKept DEF OpenJobKnown
<1>5. ASSUME r.status = "processing"
      PROVE  \/ pc'[u] \in Holding /\ job'[u] = j
             \/ pc'[u] = "idle" /\ faults' > 0 /\ (timeouts' > 0 \/ HasPromise(j)')
  <2>1. u \in Owners
    <3>1. u # NoOwner
      BY <1>5, Zenon DEF CloudInv, RowKnown, RowConsistent
    <3>2. u \in Owners \cup {NoOwner}
      BY <1>1 DEF Row
    <3> QED BY <3>1, <3>2
  <2>2. /\ pc \in [Owners -> Phases \cup {"idle"}] /\ queue \in [Names -> Task]
        /\ serves \in [Owners -> Names \cup {NoTask}] /\ DeliveryKnows(u)
    BY <2>1 DEF CloudInv, TypeOK, FollowInv
  <2>3. CASE pc[u] \in Holding /\ job[u] = j
    <3>1. CASE pc'[u] = pc[u] /\ job'[u] = job[u]
      BY <2>3, <3>1
    <3>2. CASE ProcessStep(u)
      <4>1. Moves(u, jobs[j], jobs'[j])
        BY <2>1, <2>3, <3>2, ProcessMoves
      <4>2. pc'[u] \in Holding
        BY <1>1, <1>5, <2>3, <4>1 DEF Moves, SameTenure, Active
      <4>3. job' = job
        BY <3>2, ProcessLocals
      <4> QED BY <2>3, <4>2, <4>3
    <3>3. CASE DeliveryDies(u)
      <4>1. /\ pc'[u] = "idle" /\ faults' = faults + 1 /\ timeouts' = timeouts
            /\ pc[u] # "idle"
        BY <2>1, <2>2, <3>3 DEF DeliveryDies, EndCall, Goto
      <4>2. faults' > 0 /\ timeouts \in Nat
        BY <4>1, BoundsAssumption DEF CloudInv, TypeOK
      <4>3. ASSUME timeouts = 0 PROVE HasPromise(j)'
        <5>1. PICK n \in Names : n = serves[u] /\ n[1] = j
          BY <2>1, <2>2, <2>3, <4>1, <4>3 DEF DeliveryKnows
        <5>2. n # NoTask
          BY NoTaskAssumption DEF Names
        <5>3. Redeliver(n, "dropped")
          BY <3>3, <5>1, <5>2 DEF DeliveryDies
        <5>4. queue'[n].state \in {"waiting", "dropped"}
          BY <2>2, <5>3, RedeliverPromises DEF Redeliver, Task
        <5> QED BY <5>1, <5>4 DEF HasPromise, Promised
      <4> QED BY <4>1, <4>2, <4>3
    <3> QED BY <2>1, <2>3, <3>1, <3>2, <3>3, HolderSteps
  <2>4. CASE pc[u] = "idle" /\ faults > 0 /\ (timeouts > 0 \/ HasPromise(j))
    <3>1. faults' > 0 /\ (timeouts' > 0 \/ HasPromise(j)')
      BY <1>1, <1>5, <2>4, CountsKept, HasPromiseStep DEF Unsettled
    <3>2. pc'[u] = "idle"
      BY <2>1, <2>4, IdleOwner
    <3> QED BY <3>1, <3>2
  <2> QED BY <1>1, <1>5, <2>3, <2>4 DEF OpenJobKnown
<1> QED BY <1>1, <1>3, <1>4, <1>5 DEF OpenJobKnown

LEMMA OpenJobStep ==
  ASSUME CloudInv, FollowInv, [Next]_vars, NEW j \in Jobs
  PROVE  OpenJobKnown(j)'
<1> DEFINE s == jobs'[j]
<1>1. Queued(j)' => Exists(s)
  <2>1. Exists(jobs[j]) => Exists(s)
    BY StepRows
  <2>2. ASSUME Queued(j)', ~Exists(jobs[j]) PROVE FALSE
    <3>1. PICK n \in Names : n[1] = j /\ queue'[n].state # "absent"
      BY <2>2 DEF Queued, TasksOf
    <3>2. queue[n].state = "absent"
      BY <2>2, <3>1 DEF FollowInv, OpenJobKnown, Queued, TasksOf
    <3> QED BY <2>2, <3>1, <3>2, StepTasks
  <2> QED BY <2>1, <2>2
<1>2. CASE SameTenure(jobs[j], s)
  BY <1>2, TenureStep
<1>3. CASE s.status \notin Active
  BY <1>1, <1>3 DEF OpenJobKnown, Active
<1>4. CASE ~Exists(jobs[j]) /\ UNCHANGED queue
  <2>1. ~Queued(j)'
    BY <1>4 DEF FollowInv, OpenJobKnown, Queued, TasksOf
  <2>2. CASE s.status = "processing"
    <3>1. RowKnown(j)'
      BY CloudStep DEF CloudInv
    <3> QED BY <2>1, <2>2, <3>1 DEF RowKnown
  <2> QED BY <2>1, <2>2 DEF OpenJobKnown
<1>5. ASSUME NEW w \in Owners, job[w] = j, ProcessStep(w), UNCHANGED <<tasks, bounds>>
      PROVE  OpenJobKnown(j)'
  <2>1. Moves(w, jobs[j], s)
    BY <1>5, ProcessMoves
  <2>2. UNCHANGED <<job, final, queue, serves, timeouts>> /\ pc[w] # "idle"
    <3>1. "idle" \notin Phases
      BY DEF Phases, Working, InTry, Handlers, Outcomes
    <3> QED BY <1>5, <3>1, ProcessLocals DEF tasks, bounds
  <2>3. CASE s.status = "processing" /\ s.lockedBy = w /\ pc'[w] = "starting"
    BY <1>1, <1>5, <2>2, <2>3 DEF OpenJobKnown, Holding
  <2>4. CASE /\ s.status = "pending" /\ s.error = TemporaryFailure
             /\ pc'[w] = "retry" /\ ~final[w]
    <3>1. timeouts \in Nat /\ serves[w] \in Names \cup {NoTask} /\ DeliveryKnows(w)
      BY BoundsAssumption DEF CloudInv, TypeOK, FollowInv
    <3>2. CASE timeouts = 0
      <4>1. serves[w] \in Names /\ serves[w][1] = j
        BY <1>5, <2>2, <3>1, <3>2 DEF DeliveryKnows
      <4>2. Promised(serves[w])'
        BY <2>2, <2>4 DEF Promised
      <4>3. HasPromise(j)'
        <5> DEFINE n == serves[w]
        <5>1. n \in Names /\ n[1] = j /\ Promised(n)'
          BY <2>2, <4>1, <4>2
        <5> QED BY <2>2, <5>1 DEF HasPromise
      <4> QED BY <1>1, <2>4, <4>3 DEF OpenJobKnown
    <3>3. CASE timeouts > 0
      BY <1>1, <2>2, <2>4, <3>3 DEF OpenJobKnown
    <3> QED BY <3>1, <3>2, <3>3
  <2> QED BY <1>2, <1>3, <2>1, <2>3, <2>4 DEF Moves
<1> QED BY <1>2, <1>3, <1>4, <1>5, StepRows

LEMMA FollowInit == Init => FollowInv
BY NoTaskAssumption DEF Init, FollowInv, DeliveryKnows, OpenJobKnown, Queued, TasksOf, NoRow

LEMMA FollowStep == CloudInv /\ FollowInv /\ [Next]_vars => FollowInv'
BY KnowsStep, OpenJobStep DEF FollowInv

\* The invariant that follows every open job to a task or a call.
THEOREM FollowInvariant == Spec => []FollowInv
BY FollowInit, FollowStep, CloudInvariant, PTL DEF Spec

\* Every task has a request that named it, and that is past making it.
PastEnqueuing == {"failing_dispatch", "deleting_unscheduled", "answered", "dead"}

TasksHaveRequests ==
  \A n \in Names : queue[n].state # "absent" =>
    \E r \in Requests : upc[r] \in PastEnqueuing /\ TaskName(r) = n

LEMMA TasksHaveRequestsStep ==
  ASSUME CloudInv, FollowInv, TasksHaveRequests, [Next]_vars
  PROVE  TasksHaveRequests'
<1> SUFFICES ASSUME NEW n \in Names, queue'[n].state # "absent"
             PROVE  \E r \in Requests : upc'[r] \in PastEnqueuing /\ TaskName(r)' = n
  BY DEF TasksHaveRequests
<1>1. /\ upc \in [Requests -> HandlerPCs] /\ queue \in [Names -> Task]
      /\ seen \in [Requests -> [status : Statuses, attempts : 0 .. MaxClaimsById]]
      /\ serves \in [Owners -> Names \cup {NoTask}]
  BY DEF CloudInv, TypeOK
<1>2. ASSUME NEW q \in Requests, RequestStep(q)
      PROVE  /\ upload' = upload
             /\ \A r \in Requests \ {q} : upc'[r] = upc[r] /\ seen'[r] = seen[r]
             /\ upc[q] \in PastEnqueuing \cup {"enqueuing"} =>
                  upc'[q] \in PastEnqueuing /\ seen'[q] = seen[q]
  <2>1. upload' = upload /\ \A r \in Requests \ {q} : upc'[r] = upc[r]
    BY <1>2, RequestLocals
  <2>2. seen' = seen \/ \E x : seen' = [seen EXCEPT ![q] = x]
    BY <1>2, Zenon DEF RequestStep, LookUp, SaveFile, CreateJob, DiscardFile, LookAgain,
       Reuse, Enqueue, FailDispatch, DeleteUnscheduled
  <2>3. CASE Enqueue(q)
    BY <1>1, <2>1, <2>2, <2>3
       DEF Enqueue, AnswerKnown, Answer, Handle, PastEnqueuing
  <2>4. CASE FailDispatch(q)
    <3>1. upc' = [upc EXCEPT ![q] = "deleting_unscheduled"] /\ seen' = seen
      BY <2>4, Zenon DEF FailDispatch, Handle
    <3> QED BY <1>1, <2>1, <3>1 DEF PastEnqueuing
  <2>5. CASE DeleteUnscheduled(q)
    BY <1>1, <2>1, <2>5 DEF DeleteUnscheduled, Answer, Handle, PastEnqueuing
  <2>6. CASE ~(Enqueue(q) \/ FailDispatch(q) \/ DeleteUnscheduled(q))
    <3>1. upc[q] \notin PastEnqueuing \cup {"enqueuing"}
      BY <1>2, <2>6 DEF RequestStep, LookUp, SaveFile, CreateJob, DiscardFile,
         LookAgain, PastEnqueuing
    <3> QED BY <1>1, <2>1, <2>2, <3>1
  <2> QED BY <2>3, <2>4, <2>5, <2>6
<1>3. ASSUME NEW r \in Requests, upc[r] \in PastEnqueuing, TaskName(r) = n
      PROVE  upc'[r] \in PastEnqueuing /\ TaskName(r)' = n
  <2>1. CASE \E q \in Requests : RequestStep(q)
    BY <1>2, <1>3, <2>1 DEF TaskName, Key
  <2>2. CASE ~\E q \in Requests : RequestStep(q)
    <3>1. /\ UNCHANGED <<upload, seen>>
          /\ upc' = upc \/ \E q \in Requests : upc' = [upc EXCEPT ![q] = "dead"]
      BY <2>2 DEF Next, Request, RequestDies, Handle, StartDelivery, Deliver,
         TurnedAway, Call, Progress, AnswerDelivery, DeliveryDies, Deadline, web, vars
    <3> QED BY <1>1, <1>3, <3>1 DEF TaskName, Key, PastEnqueuing
  <2> QED BY <2>1, <2>2
<1>4. CASE queue[n].state # "absent"
  BY <1>3, <1>4 DEF TasksHaveRequests
<1>5. CASE queue[n].state = "absent"
  <2>1. PICK q \in Requests : RequestStep(q) /\ TaskName(q) = n /\ upc[q] = "enqueuing"
    BY <1>5, NewTaskStep
  <2> QED BY <1>2, <2>1 DEF TaskName, Key
<1> QED BY <1>4, <1>5

UploadsOf(j) == {r \in Requests : Key(r) = j}

\* No job has more tasks than it has uploads.
LEMMA TasksCounted ==
  ASSUME TasksHaveRequests, NEW j \in Jobs, IsFiniteSet(UploadsOf(j))
  PROVE  /\ Cardinality(TasksOf(j)) \in Nat /\ Cardinality(UploadsOf(j)) \in Nat
         /\ Cardinality(TasksOf(j)) <= Cardinality(UploadsOf(j))
<1> DEFINE U == UploadsOf(j)
           name == [r \in U |-> TaskName(r)]
           S == {name[r] : r \in U}
<1>1. TasksOf(j) \subseteq S
  <2> SUFFICES ASSUME NEW n \in TasksOf(j) PROVE n \in S
    OBVIOUS
  <2>1. PICK r \in Requests : TaskName(r) = n
    BY DEF TasksHaveRequests, TasksOf
  <2>2. r \in U
    BY <2>1 DEF TaskName, TasksOf, UploadsOf
  <2> QED BY <2>1, <2>2
<1>2. IsFiniteSet(S) /\ Cardinality(S) <= Cardinality(U)
  <2>1. name \in Surjection(U, S)
    BY DEF Surjection
  <2> QED BY <2>1, FS_Surjection
<1>3. Cardinality(TasksOf(j)) <= Cardinality(S) /\ IsFiniteSet(TasksOf(j))
  BY <1>1, <1>2, FS_Subset
<1> QED BY <1>2, <1>3, FS_CardinalityType

\* The deliveries of a job's tasks are too few to use up claim_by_id's attempts
\* (config.py: 3 for each task; import_jobs.py: 100 for each job).
FewUploads(j) ==
  /\ IsFiniteSet(UploadsOf(j))
  /\ MaxDeliveries * Cardinality(UploadsOf(j)) < MaxClaimsById

\* An upload keeps its key.
LEMMA FewUploadsStep ==
  ASSUME CloudInv, [Next]_vars, \A j \in Jobs : FewUploads(j)
  PROVE  \A j \in Jobs : FewUploads(j)'
<1>1. upload' = upload
  <2>1. CASE \E q \in Requests : RequestStep(q)
    BY <2>1, RequestLocals
  <2>2. CASE ~\E q \in Requests : RequestStep(q)
    BY <2>2 DEF Next, Request, RequestDies, StartDelivery, Deliver, TurnedAway, Call,
       Progress, AnswerDelivery, DeliveryDies, Deadline, web, vars
  <2> QED BY <2>1, <2>2
<1> QED BY <1>1 DEF FewUploads, UploadsOf, Key

\* The invariants follow an accepted upload as long as claim_by_id may still
\* claim its job.
LEMMA FollowsAccepted ==
  ASSUME CloudInv, FollowInv, NEW r \in Requests, answer[r] = 202,
         jobs[Key(r)].status \in Active,
         jobs[Key(r)].status = "pending" => jobs[Key(r)].attempts < MaxClaimsById
  PROVE  LET j == Key(r) IN
         \/ \E n \in TasksOf(j) : Alive(n)
         \/ LastWentUnanswered(j)
         \/ \E w \in Owners : LateCall(w, j)
         \/ LeftByLateCall(j)
<1> DEFINE j == Key(r)
           row == jobs[j]
<1>1. /\ j \in Jobs /\ row \in Row /\ row.attempts \in Nat /\ MaxClaimsById \in Nat
      /\ Queued(j) /\ OpenJobKnown(j) /\ row.status \in {"pending", "processing"}
  BY LimitsAssumption DEF CloudInv, TypeOK, Key, Row, RequestKnows, FollowInv, Active
<1>2. HasPromise(j) => (\E n \in TasksOf(j) : Alive(n)) \/ LastWentUnanswered(j)
  <2>1. ASSUME NEW n \in Names, n[1] = j, Promised(n)
        PROVE  n \in TasksOf(j) /\ (Alive(n) \/ queue[n].state = "dropped")
    BY <2>1, PromiseOfTask DEF TasksOf, Alive
  <2> QED BY <2>1 DEF HasPromise, LastWentUnanswered
<1>3. CASE row.status = "pending"
  <2>1. HasPromise(j) \/ (timeouts > 0 /\ row.error = TemporaryFailure)
    BY <1>1, <1>3 DEF OpenJobKnown
  <2>2. timeouts > 0 /\ row.error = TemporaryFailure => LeftByLateCall(j)
    BY <1>3, Zenon DEF LeftByLateCall, TemporaryFailure
  <2> QED BY <1>2, <2>1, <2>2
<1>4. CASE row.status = "processing"
  <2> DEFINE u == row.lockedBy
  <2>1. u \in Owners
    <3>1. u # NoOwner
      BY <1>1, <1>4, Zenon DEF CloudInv, RowKnown, RowConsistent
    <3> QED BY <1>1, <3>1 DEF Row
  <2>2. CASE pc[u] \in Holding /\ job[u] = j
    <3>1. pc[u] # "idle" /\ DeliveryKnows(u)
      BY <2>1, <2>2 DEF Holding, InTry, Handlers, FollowInv
    <3>2. CASE serves[u] = NoTask
      BY <2>1, <2>2, <3>1, <3>2 DEF LateCall
    <3>3. CASE serves[u] # NoTask
      <4>1. serves[u] \in Names
        BY <2>1, <3>3 DEF CloudInv, TypeOK
      <4>2. serves[u] \in TasksOf(j) /\ Alive(serves[u])
        BY <2>2, <3>1, <3>3, <4>1 DEF DeliveryKnows, TasksOf, Alive
      <4> QED BY <4>2
    <3> QED BY <3>2, <3>3
  <2>3. CASE pc[u] = "idle" /\ faults > 0 /\ timeouts > 0
    BY <1>4, <2>3, Zenon DEF LeftByLateCall
  <2> QED BY <1>1, <1>2, <1>4, <2>2, <2>3 DEF OpenJobKnown
<1> QED BY <1>1, <1>3, <1>4

\* The queue does not lose sight of an accepted upload, whatever races, deaths
\* and deadlines befall its deliveries, when the uploads under its key are too
\* few to use up claim_by_id's attempts (agents_routes.py,
\* internal_tasks_routes.py, main.py:68-99, 248-270).
THEOREM AcceptedAlwaysFollowed ==
  Spec /\ (\A j \in Jobs : FewUploads(j)) => []AcceptedStaysQueued
<1> DEFINE Few == \A j \in Jobs : FewUploads(j)
<1> HIDE DEF Few
<1>1. Init => TasksHaveRequests
  BY DEF Init, TasksHaveRequests
<1>2. CloudInv /\ FollowInv /\ TasksHaveRequests /\ [Next]_vars => TasksHaveRequests'
  BY TasksHaveRequestsStep
<1>3. CloudInv /\ Few /\ [Next]_vars => Few'
  BY FewUploadsStep DEF Few
<1>4. CloudInv /\ FollowInv /\ TasksHaveRequests /\ AttemptsWithinDeliveries /\ Few
        => AcceptedStaysQueued
  <2> SUFFICES ASSUME CloudInv, FollowInv, TasksHaveRequests, AttemptsWithinDeliveries,
                      Few, NEW r \in Requests, answer[r] = 202,
                      jobs[Key(r)].status \in Active
               PROVE  LET j == Key(r) IN
                      \/ \E n \in TasksOf(j) : Alive(n)
                      \/ LastWentUnanswered(j)
                      \/ \E w \in Owners : LateCall(w, j)
                      \/ LeftByLateCall(j)
    BY DEF AcceptedStaysQueued
  <2> DEFINE j == Key(r)
             a == jobs[j].attempts
             t == Cardinality(TasksOf(j))
             c == Cardinality(UploadsOf(j))
  <2>1. j \in Jobs /\ a \in Nat /\ MaxDeliveries \in Nat /\ MaxClaimsById \in Nat
    BY LimitsAssumption, DeliveriesAssumption DEF CloudInv, TypeOK, Key, Row
  <2>2. a <= MaxDeliveries * t
    BY <2>1 DEF AttemptsWithinDeliveries
  <2>3. MaxDeliveries * c < MaxClaimsById /\ IsFiniteSet(UploadsOf(j))
    BY <2>1 DEF Few, FewUploads
  <2>4. t \in Nat /\ c \in Nat /\ t <= c
    BY <2>1, <2>3, TasksCounted
  <2> HIDE DEF j, a, t, c
  <2>5. MaxDeliveries * t <= MaxDeliveries * c
    BY <2>1, <2>4
  <2>6. MaxDeliveries * t \in Nat /\ MaxDeliveries * c \in Nat
    BY <2>1, <2>4
  <2>7. a < MaxClaimsById
    BY <2>1, <2>2, <2>3, <2>5, <2>6
  <2> QED BY <2>7, FollowsAccepted DEF j, a
<1>5. Spec /\ Few => []AcceptedStaysQueued
  BY <1>1, <1>2, <1>3, <1>4, CloudInvariant, FollowInvariant, DeliveriesBoundAttempts,
     PTL DEF Spec
<1> QED BY <1>5 DEF Few
===============================================================================
