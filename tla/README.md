# Verification of the Acetate API

The repository is the backend of a budget application: a FastAPI service over
PostgreSQL, object storage, an agent service that reads bank statements, and a
worker that turns an uploaded PDF into draft transactions. This directory holds
TLA+ modules that model its core, TLC configurations that check them on small
instances, and TLAPS proofs of theorems about them for every instance. Paths
below are relative to `app/`.

## 1. Inventory

| Part | Code | State it keeps | Operations |
|---|---|---|---|
| import jobs table | `db/repositories/import_jobs.py`, `db/schemas/import_jobs.py` | one row per upload: status, step, attempts, lock, finished_at, error, agent payloads | create, two claims, marks, saves, delete, queries |
| import worker | `workers/import_worker/main.py` `run_worker` | the claimed job and its attempt number, in memory | poll, claim, process, poll again; die, be restarted |
| job processing | `process_job`, `data_persistence.py` | phase, `final_attempt`; the file, the drafts | claim by id, agent call with progress callbacks, save drafts, reject, requeue, clean up |
| upload and dispatch | `api/agents_routes.py`, `services/cloud_tasks_service.py` | file, row, queued task; idempotency key | upload, reuse of a key, enqueue, close on failed dispatch |
| task delivery | `api/internal_tasks_routes.py` | retry count of the task (held by the queue) | verify the caller, run `process_job`, answer 204 or 503 |
| deletion and events | `api/import_jobs_routes.py` | none of its own | delete file, transactions and row; poll a row into an event stream |
| transaction review | `db/repositories/transactions.py`, `api/transactions_routes.py` | transactions, draft flag, user's classification | list, create, patch, accept, delete |
| agent adapter | `agents/providers/google_adk/` | stream position, messages already reported | call, map events, parse the answer |
| result mapping | `workers/import_worker/data_mapping.py`, `helpers.py` | none | choose metadata, reject or convert transactions |
| file storage | `services/file_storage_service.py` | files by path | save, read, delete if it exists |
| wealth | `db/repositories/wealth.py`, `api/wealth_routes.py` | checkpoints, projection settings | create, list, get or create |
| monthly report | `services/monthly_capacity_report.py` | none | month window, sums, projection |
| authentication | `auth/supabase.py`, `auth/dependencies.py` | cache of signing keys with an expiry | verify a token, refresh the cache under a lock |
| declarations, shell | `db/models`, `db/schemas`, `alembic`, `main.py`, `db/session.py`, `categories_routes.py` | columns, wiring, stubs | none to model |

How they meet: the API and the workers share nothing but the database and the
storage. An upload writes the file, then the row, then (with Cloud Tasks) a task
named after the job and its attempts; with `cloud_tasks_mode = none` polling
workers find the row instead. Whoever processes the job calls `process_job`,
which opens a new session, so a transaction of its own, for every step, and
awaits the agent between them. The user reads the row, reviews the drafts, and
may delete a finished job.

What is hard there:

* **Claims without a lock.** `claim_next_pending` is a SELECT and then an UPDATE
  that does not ask again whether the row is still the one selected. Two workers
  can both claim a row. The 15-minute age of a lock has the same effect: nothing
  renews it while the agent works.
* **Writes without a fence.** All later updates match on the id alone, so a
  worker that has been superseded still closes or requeues the row.
* **A number in memory.** `final_attempt` is computed from the object the SELECT
  loaded (SQLAlchemy applies `attempts + 1` to it and does not read the row
  again), not from the row that was claimed.
* **Death and restart.** The row is the only memory of an attempt whose worker
  died.
* **Checks before locks.** `save_parsed_import_result` looks for accepted
  transactions before its transaction holds any row; its DELETE looks up the drafts
  before it has locked them, and may wait for a row that the user is changing.
* **At-least-once delivery.** A task is delivered again after a failure or a
  deadline, while the delivery before may still be at work; a key that is used
  again can make a second task for the same job.
* **Ambiguous failures.** `create_task` may fail after the task was made; the
  handler then closes the job and deletes its file.
* **Races for a key.** Uploads with the same key create one row between them and
  must leave no file behind; a request may die after its commit and before its task.
* **A check before an await.** The deletion of a job reads its status, awaits
  the storage, and deletes rows that were read before; an event stream decides on
  one poll that the job is over, and breaks off over a row it cannot put in words.
* **A cache that many requests miss at once.** The identity provider's keys are
  fetched under a lock that is taken after the miss, and keys change meanwhile.
* **Answers before commits.** `get_session` commits when the response is on its
  way, in a thread that the event loop has to start. Until then rows stay locked,
  a second handler compares with the old row, and one that waits for a lock
  synchronously stops the loop that should start the commit.
* **What an agent says.** The answer is searched for in a text with several objects,
  nested and cut off ones; each field of it may be missing, unreadable or no number.
* **Dates and sums.** A report's months run across year ends and leap days; its
  query, its months and the listing each state their own selection of rows.

`PROJECT.json` lists these hazards at their lines with the properties that
cover them.

What makes the parts correct: rows agree with themselves whoever writes last;
attempts are bounded and a job is given up only after all of them; an upload
ends, once; its file is there while somebody may need it; a line has one draft;
accepted transactions are not replaced; a rejected file is not tried again; a
job is deleted only when it is over, and leaves nothing; a stream ends with its
job, and should tell how it ended; an answer about a token rests on keys no older than a life of the
cache; what users have answered stays answered; a label says truly who gave it;
listings, reports and projections agree about the same rows.

## 2. Modules

```
ImportJobs            the row and the repository's statements on it
  ProcessJob          process_job, step by step, for any processor
    ProcessJobProofs  lemmas about rows and calls that the proofs below share
    ImportWorker      polling workers, deaths, restarts; the properties
      MCImportWorker  symmetry for TLC
      ImportWorkerProofs      theorems for any number of workers, and for one
      JobDeletion     deletions, event streams and the storage beside a worker
        MCJobDeletion an instance for TLC
        JobDeletionProofs     theorems for any number of deletions and streams
    CloudImport       uploads under a key, the task queue, its deliveries
      MCCloudImport   symmetry for TLC
      CloudImportProofs       theorems for any number of uploads and deliveries
ImportLifecycle       what an import promises; refined by one worker

DraftSaves            the saves of one job, by statement, and its user's requests
  MCDraftSaves        an instance for TLC
  DraftSavesProofs    theorems for any number of saves, processes and requests

JwksCache             the cache of signing keys, its lock, its fetches
  MCJwksCache         an instance for TLC
  JwksCacheProofs     theorems for any number of requests and keys

Calendar              dates, months, the window of a report
  StatementMapping    which answers of the agent become drafts
    TransactionReview create, patch and list as functions of row and request
      MonthlyReport   the report as a function of what it reads
        MonthlyReportProofs   theorems about every report
AgentCall             a call of the agent: session, stream, answer
Ledger                all five around the tables: handlers, locks, commits
  MCLedger            statements, answers and requests for TLC
  LedgerProofs        theorems for any number of clients and processes
```

**ImportJobs** keeps of a row what the code decides on. Every operator is one
UPDATE of the repository: it takes the row as it is when the statement runs and
returns the row after it, or the same row when the WHERE does not match.
`locked_at` is `recent` or `old` (older than `stale_after`); `Age` lets the 15
minutes pass. A row that does not exist has status `none`.

**ProcessJob** has one action per transaction or await of `process_job`. The
pc values are the function's own `phase` names where it has one. `LoadJob`
reads the row and takes a branch; `ClaimById` and `CloseInterrupted` are the
transactions that act on it; the rest follows the try block, its two handlers
(`Reject` for `PermanentImportError`, `RequeueOrFail` for everything else) and the
best-effort cleanup. `RaiseTemporary` is an exception anywhere in the try block.
`CheckCommitted` and `SaveDrafts` are the two halves of
`save_parsed_import_result`: the first is a SELECT that locks nothing; the second
is taken as one step here, and apart in `DraftSaves`. Drafts and accepted transactions are counts
per job and line of the statement. The module also has the rest of the program
as an import meets it: a new upload, a user who accepts, reopens or deletes
transactions, and the ageing of locks.

**ImportWorker** adds the polling loop. `SelectCandidate` and `ClaimSelected` are
the two statements of `claim_next_pending`; `selected` is the attempts value the
first loaded, and `IsFinalAttempt(selected + 1)` is what `run_worker` passes.
`Crash` stands for a killed process and for an exception `run_worker` does not
catch; an open transaction rolls back. `Restart` starts the worker under its id.

**DraftSaves** takes apart what `ProcessJob` has as `SaveOutput`, `CheckCommitted`,
`SaveDrafts` and the handlers: the statements of several calls that save results for one
job, whoever runs them, with the row locks of READ COMMITTED. `SaveMetadata` waits for the
job's row (`jobLock`) and keeps it. `BeginDelete` is what the DELETE sees as it
starts (`found`); `DeleteDraft` locks one of these rows when no user holds it, and asks
once more whether it is a draft; `CommitSave` makes all of it visible; `Fail` rolls back.
A row is `absent`, `draft` or `accepted`, and the rows of each answer have ids of their
own (`Parsed`), so that two answers for one line are told apart. The user's PATCH of
`is_draft` is flushed, which locks its row, answered, and committed later by its
process; a DELETE is flushed by its commit. A call makes its statements
synchronously, so from the agent's answer to its outcome the loop of its process
(`Home`) does nothing else. `touched` is a history variable: the rows a
user has changed or deleted.

**CloudImport** is the other composition of `ProcessJob`, for
`cloud_tasks_mode = google`, where no worker polls. A request of the upload
handler runs through `LookUp`, `SaveFile`, `CreateJob` (INSERT and commit; the
unique key serialises requests), `Enqueue`, and the error paths `DiscardFile`,
`LookAgain`, `FailDispatch`, `DeleteUnscheduled`; `seen` is what it goes on to
use of a row it read earlier, `answer` its status code. `saved` holds the files that no row
owns. Tasks are named `<<job, attempts>>` as in `enqueue_import`; a name that was used
before counts as success. The queue itself is external: it delivers a waiting
task, counts failures (`Redeliver`), gives up after `MaxDeliveries`, and may stop waiting for
an answer while the call goes on (`Deadline`). A delivery calls `process_job`
under an id that nothing else carries (`Unused`), with `IsFinalDelivery` of its retry
count; `AnswerDelivery` is its 204 or 503, `DeliveryDies` an end without
answer, `TurnedAway` a refusal before `process_job`. The number of attempts is at most
`MaxClaimsById`, so the names are finite. A task that ends is `finished` (204),
`exhausted` (its last delivery answered 503) or `dropped` (its last delivery got no answer).

**ImportLifecycle** is the abstract specification: a job waits, is tried at most
`MaxTries` times, ends once, and its file is discarded only after the end.

**JobDeletion** extends `ImportWorker` with one worker. A deletion is
`AskDeletion`, `CheckDeletion` (read and refuse), `RemoveFile` (the awaited
storage call), `DeleteRows` (both DELETEs) and `CommitDeletion` (`get_session`'s exit, which
may fail after the 204). `place` says how the configured storage sees a file:
its own, a local path or a retired bucket, which a deletion passes over, or a
foreign one, which it refuses; `Redeploy` changes the configuration between
calls. An event stream is its last event key and the polls of `Observe`: a poll
that finds the row gone says so, one that can dump the row tells it and returns if the job is
over, and one that cannot breaks off (`broken`). `CanDump` is false once
`save_statement_metadata` has run (`metadata` in the row of `ImportJobs`): the mapping
always gives it a confidence, the ORM reads it back as a `Decimal`, and `json.dumps` raises.

**JwksCache** is `SupabaseTokenVerifier`. Between two awaits the code is one
step, so a request is `Ask`, `Acquire` (the lock), `ProviderAnswers`, then `Fill` or
`FetchFails`. Time passes in ticks; `left` is what remains until `_expires_at`, `elapsed` is
how long the fetch in progress has taken. That it takes at most `FetchLimit` is an
assumption about the provider: httpx's `timeout=10.0` bounds each connect, read, write and
wait for a connection, not their sum, so a key set that drips in could take longer. `since` is a history variable: the ticks since a
key was last published or withdrawn. JWT decoding is a choice of verdicts.

**Calendar**, **StatementMapping**, **TransactionReview** and **MonthlyReport** are
operators without state. Dates are `<<y, m, d>>`, money is in cents, confidences
in percent, a text is `text`, `blank` or `long`. `Texts` are all texts, among them the
labels of the code; `IsLine`, `FieldType` and `IsPayload` say which types a line of an
answer and a request can have before any check of the code. `ParseVerdict` runs the checks in the
code's order and tells a `ValueError` (`rejected` for good) from an error that
is retried (`broken`). `Changes` is what a flush writes of a patch: the assigned
fields that differ from the row as it was read. `Storable` is what the table accepts:
the texts, the labels, the confidence, and the widths of its numbers (`HasWidths`), where `MaxAmount`
stands for the limit of `Numeric(14, 2)` and `MaxInteger` for that of INTEGER. `Listed` is
the filter of `list_filtered` on drafts and dates. `Report` follows `build_report`;
the twelfth root of a yearly multiplier is a constant function.

**AgentCall** is `extract_statement_transactions`: every request may fail, the
stream may break after any event or the progress callback may raise, the
`finally` clause asks to delete the session (an `httpx.HTTPError` of which is dropped, while
any other error replaces what the call had), and `Candidates` are the objects that
`raw_decode` finds at the opening braces of the text, which is a sequence of
`Pieces`: prose, and whole or cut `Objects`.

**Ledger** joins them. `EndImport` parses and saves what the call returned.
`Handle(c, p)` is one request of client `c` at process `p` from its first statement to
its answer; FastAPI runs these handlers on the event loop and none of them
awaits. It reads the committed tables and flushes: then it is `answered`, or
`waiting` when the row or the unique key is locked by another open transaction,
and its loop waits with it. `StartCommit` needs a free loop, `Commit` ends the
transaction, `CommitFails` and `Restart` roll it back. A DELETE is flushed by the
commit (`autoflush=False`) and waits there. `told` and `toldSettings` are
history variables: the row and the multiplier that the answers so far amount to,
`NoValue` where nothing is promised.

Definitions called a "slip" are variants with a plausible mistake. Nothing in
the specifications uses them; each is put in the place of the definition below
it to see that a property notices.

## 3. Runs

`workers`, `solo`, `rejected` and `committed` use `MCImportWorker`; `deletion`, `signing` and `ledger` the modules named after
theirs, `untold` `MCJobDeletion`, `saves` `MCDraftSaves`, the others `MCCloudImport`. Deadlock is not checked: with every
job over, an idle worker's poll changes nothing, and with every request and
delivery answered nothing is left to happen; TLC takes both for deadlocks.

| Run | Instance | Checks |
|---|---|---|
| `workers` | 3 workers, 1 job, 1 line, 1 death | `TypeOK`, `RowsConsistent`, `GivenUpAfterAllAttempts`, `LockNotAbandoned`, `AttemptsBounded` |
| `solo` | 1 worker, 2 jobs, 1 line, 3 deaths, fairness | `SoleHolderOwnsRow`, `LifecycleSpec`, `UploadSettles` |
| `cloud` | 2 uploads of 2 files under 1 key, 2 deliveries a task, 1 fault, 1 deadline missed | `TypeOK`, `AnswersAreTrue`, `AcceptedWasQueued`, `RowsConsistent`, `AttemptsWithinDeliveries`, `AcceptedStaysQueued` |
| `settled` | 2 uploads under 1 key, 2 deliveries a task, fairness | `AcceptedUploadSettles` |
| `deletion` | 1 worker, 1 job, 1 death, 2 deletions, 1 stream, fairness | `DeletionTypeOK`, `ActiveKeepsFile`, `DeletedLeavesNothing`, `StreamTellsFailure`, `ActiveIsNotDeleted`, `StreamEnds` |
| `saves` | 3 saves in 2 processes, of 2, 1 and 1 lines, 2 clients, 3 requests, fairness | `DraftsOfOneSave`, `AnsweredHasItsRow`, `AcceptedIsKept`, `CallEnds` |
| `signing` | 2 requests, 2 keys, a life of 2 ticks, a fetch of at most 1, fairness | `TypeOK`, `OneFetchPerLife`, `WithdrawnKeyIsForgotten`, `PublishedKeyIsLearned`, `EveryoneIsAnswered` |
| `ledger` | 1 statement, 3 events of the agent, 2 clients, 2 processes, 3 requests, 1 fault, fairness | `LedgerTypeOK`, `SessionsAreCleanedUp`, `AnswerIsTheLastWhole`, `OnlyWidthsAreUnchecked`, `AgentLabelsAreTheAgents`, `CorrectionsStand`, `SettingsStand`, `ReportMatchesListing`, `WindowsAgree`, `RequestsEnd` |
| `rejected` | 2 workers, 1 job | violation of `RejectedIsFinal` |
| `committed` | 2 workers, 1 job | violation of `CommittedIsNotReplaced` |
| `untold` | 1 worker, 1 job, 1 stream | violation of `StreamTellsOutcome` |
| `unscheduled` | 2 uploads under 1 key, 2 deliveries | violation of `UnscheduledIsNotRunning` |

Bounds. `MaxAttempts` is the code's 3 and `MaxClaimsById` its 100. `MaxCrashes`
is the only bound added; it counts deaths over the whole behaviour. Two workers
are enough for every race of one claim with another or with a late writer; three
are the least for which `CloseInterrupted` happens among polling workers and for
which a job is attempted five times. One job suffices where workers compete for
it; the order of candidates needs two jobs, and `solo` has them. `Upload` creates
the jobs in the order of their numbers, which stands for `created_at`. One line
of a statement is enough because the lines of a job are saved and deleted
together and the user's steps concern one line each. `DraftSaves` is where they are not
taken for one step: its first answer has two lines, one of which may be locked while the
other goes. Its three saves are a save that is over, one whose DELETE is under way, and one
that waits for the job's row; two of them share a process. Savers are not told which attempt they
are: a call that fails and is retried is another saver.

In `CloudImport`, `MaxFaults` bounds deaths of requests and deliveries and
deliveries turned away, `MaxTimeouts` missed deadlines. `MaxDeliveries` is 3 in
the code's default; 2 has a delivery that is the last and one that is not, and two
uploads make two tasks, so four deliveries.
`MaxClaimsById` is lowered to 6 to keep the set of names small, which is above
any number of claims the deliveries of a run can make. There are three owner ids in
`cloud`: two tasks may be delivered while a call that missed its deadline goes on; a
fourth, for a lock that a death leaves behind meanwhile, adds 800 states to 2.4 million. Where
no deadline is missed two are enough. The user's review is left out here: `workers` covers what
happens to transactions.

`JobDeletion` assumes one worker: with two, a late worker that puts a finished
job back to pending (`RejectedIsFinal`) would meet a deletion too, and nothing
new would be learned. Two deletions are the least that overlap. In `JwksCache` ticks
beyond `Horizon` are not told apart; two requests are one that fetches and one that
queues, and a life longer than a fetch is the least in which fresh, expired and
lagging keys all occur. In `Ledger`, `MaxAmount` is 20000 and `MaxInteger` 99, so that a line with
a balance of 20001 and a creation with 100 installments are too wide; these rows stand for
the ones with more than twelve digits or 32 bits. There, requests begin when the import has been
saved (an import that was not leaves the tables as they were); `MaxRequests` bounds
requests, `MaxFaults` failed commits and restarts, `MaxEvents` the texts of a stream.
Two requests in flight are all that a lock, a unique key or a comparison with a
stale row needs; the third shows what they left behind. The statement has a line on
31 December and one on 28 February without a year, a purchase is made on
29 February, and the reports begin in November and December. The requests of `MCLedger` have
each kind and each refusal once. The default account is taken to be usable.

Fairness of the workers (`FairSpec` of `ImportWorker`). A running worker goes on polling (`run_worker` is an endless
loop) and a call in progress goes on: the agent answers or its request fails,
both of which are in `AgentReturns` and `RaiseTemporary`. A dead worker is started again by
its supervisor, and a lock gets old because time passes. Progress callbacks,
uploads, users and deaths have no fairness. `FairSpec` of `CloudImport`: a request in progress
and a call in progress go on, and the queue delivers a waiting task.
`FairDeletionSpec`: the worker as above, and the server's loop gets round to an
open stream; nobody need ask for a deletion. `DraftSaves`: a call whose agent has answered
goes on when the lock it waits for is given back, and so does a user's request.
`JwksCache`: a fetch ends within its assumed limit, and `asyncio.Lock` wakes its waiters in turn, which is
strong fairness of `Acquire` because others may take the lock in between. `Ledger`: a
request whose next step is possible takes it (`Continue`): a free loop starts
commits, a thread finishes, a database grants a free lock. Arrivals, faults and the
steps of the agent have no fairness.

### What the runs show

The passing runs show that the race of two claims, bad as it is, leaves the
table in order: rows stay consistent, a job is never given up early, attempts stay below twice the limit (a worker that finds the job it
claimed back in `pending` claims it once more by id). One worker has the promised
lifecycle, and brings every upload to an end unless it dies in a last attempt.

Saves that interleave do not double a draft (`DraftsOfOneSave`): what holds that together is
the UPDATE of the job's metadata before the DELETE; without it, or after it, two saves
would each miss the other's rows. A transaction the user accepts, even while the DELETE waits for it, is kept
(`AcceptedIsKept`), because PostgreSQL asks the WHERE again; and a PATCH that was answered
has a row to commit to (`AnsweredHasItsRow`), because its flush has locked it. `CallEnds` has the
exception `StandStill`: a save that waits for the row of an answered PATCH holds the loop which
would start that PATCH's commit. One process that serves the deliveries and the API is
enough; two can also close the ring between them.

In cloud mode, every answer of an upload but 500 is true: no file without a
row, no success for another file's job, and an accepted upload has a task even
if the request that created its job died first. An open job without a task is
the work of a delivery that outlived its deadline, or of a last delivery without
an answer (`AcceptedStaysQueued`); without such, an accepted upload ends for good
(`AcceptedUploadSettles`). A late call is an exception because nothing stops it: the
last delivery closes the job over its head, and when it then fails it puts the job
back to pending, where no task will find it (`LeftByLateCall`); or it takes up the
job before the last delivery can, and dies. Rows still agree with themselves then.

With one worker a deletion is safe: an active job keeps row and file, although the
status is read before the storage is awaited, because a job that is over stays
over. A deletion whose commit fails after the file is gone leaves rows of a finished job,
and the deletion can be repeated. A stream ends with its job, but it tells failures only
(`StreamTellsFailure`): over a job that is done it breaks off, see `StreamTellsOutcome` below.

A key cache that many requests miss is filled once per life; a withdrawn key is
refused, and a new one accepted, after a life and a fetch at the latest, as long as a fetch
is assumed to take, and a failing provider delays nobody for ever.

The ledger keeps what the agent and the users said: labels always show their
true source, even beside overlapping edits (of imported rows: a POST may call
the agent the source of its own labels); a correction or a setting that was
answered is stored, or its commit failed; a report counts each listed row in exactly one month, across the year end and on
29 February; overlapping reports agree. What the mapping does not check, and the table
does, is the width of numbers (`OnlyWidthsAreUnchecked`): an answer with an amount or balance of more
than twelve digits, or installments beyond 32 bits, is accepted, fails at the save and is
retried, as are a failed call and a confidence that is no number; labels, texts and dates never
cause that. The properties also state where the code promises less than one would wish:

* `UploadSettles` has an exception, `DiedOnLastAttempt`: a polling worker dies in
  the third attempt, the row stays `processing`, no poll selects it and it can neither be
  retried nor deleted. `process_job` has a branch for an interrupted job
  (`main.py:79-92`), which only a caller that already has the id reaches.
* `RequestsEnd` has an exception, `StandsStill`: a handler that waits for a row
  locked by an answered request of the same process blocks the loop that would
  start that request's commit. Without a lock timeout the process hangs until it
  is restarted. Two PATCHes of one transaction, or two first PUTs of the projection
  settings, in quick succession are enough. With more requests in flight two
  processes can wait for each other in the same way.
* `CorrectionsStand` promises nothing of a row while two PATCHes of it overlap: the
  second compares with the row before the first, so a value equal to the old one
  is not written, and its answer tells of a row that is never stored.
* `AnswerIsTheLastWhole` admits a part of an object when the text breaks off in the
  middle of a later one: the whole object before it is then ignored and the file rejected.

The four violations are disagreements between the code and what it says:

* `RejectedIsFinal`: two workers hold a job; one's agent call rejects the file and
  marks the job failed, the other's fails later and marks it pending again.
  `PermanentImportError` is "An import failure that will not improve when
  retried" (`main.py:32`).
* `CommittedIsNotReplaced`: a worker checks for accepted transactions, another
  one saves its drafts, the user accepts one, and the first worker inserts the
  line again. The code says "retry cannot replace them"
  (`data_persistence.py:25`).
* `StreamTellsOutcome`: the save of a successful import leaves a confidence in the row;
  the stream's next poll gives `json.dumps` a `Decimal` (`import_jobs_routes.py:153`) and raises
  before it tells anything. The loop is written to tell `done` and return
  (`import_jobs_routes.py:160`), and a test asks that the end is an event of its own
  (`test_import_job_events.py:101`); no test has a row with a confidence.
* `UnscheduledIsNotRunning`: `create_task` raises although the task exists, and
  `_fail_dispatch` closes a job that a delivery is processing, with "Import could
  not be scheduled." (`agents_routes.py:38`), and deletes its file.

## 4. Proofs

All theorems hold for every set of workers, jobs (numbered by naturals) and
lines, and every value of the limits, under the assumptions named in the
modules: `NoOwner` is no worker, `MaxAttempts` is positive, the other limits are
naturals.

* `TypeCorrect`: `TypeOK` is inductive by itself, given operator lemmas
  (`NewRows`, `RowOperators`) that say every statement returns a row, and
  `ProcessTables` and `ProcessLocals` about a step of `process_job`. These, and what
  such a step does to rows and attempts (`ProcessRows`, `ProcessAttempts`), are in
  `ProcessJobProofs`, since they hold for workers and deliveries alike.
* `RowsInvariant`: `RowsConsistent` is not inductive. A worker that gives up a
  job writes "failed after all attempts" on a row it may not own, so the
  invariant needs to know that such a worker's `final` is true only if the row
  counts `MaxAttempts` attempts; that again needs `selected[w] <= attempts` for
  a worker between its SELECT and its UPDATE, and attempts that never decrease.
  `RowsInv` adds this per worker (`WorkerKnows`) and per row (`RowInv`).
  `RowsAlwaysConsistent` and `NeverGivenUpEarly` follow from it.
* `OnlyDeathAbandons`: on top of it, while nobody has died the worker in
  `locked_by` is inside the attempt. The delicate cases are the late writers: when
  one rewrites a row it takes the lock away, so nothing is left behind.
* `AttemptsAlwaysBounded`: polling claims need `attempts < MaxAttempts`; each of
  them lets its worker claim once more by id. The measure is attempts plus the
  number of workers that may still do so (`AttemptBudget`), which a polling claim
  keeps within `2 * MaxAttempts` and a claim by id does not raise.
* `SoleHolder`: with one worker (`OneWorker`) `SoloInv` says that the row a worker
  works on names it and that its attempt is the row's.
* `OneWorkerKeepsLifecycle`: from `SoloInv`, every step of one worker is a step
  of `ImportLifecycle` or leaves its variables alone.

`DraftSavesProofs` is about every set of saves, processes, clients and ids, where each
save runs in one process and no two answers have an id in common (`SaversAssumption`). `SavesInv`
(`SavesInvariant`) says what `DraftsOfOneSave` rests on: rows of an answer that is not
saved are nobody's yet (`FreshIsUnused`), and while a save holds the job's row, every draft no
user has touched is among what its DELETE has found or taken (`DeletesKnow`), so that the commit leaves
none of them; what it has taken is still a draft and held by nobody else (`OneHolder`,
`AnsweredHasItsRow`). `DraftsAreOfTheLastSave`, `AnsweredKeepsItsRow` and `AcceptedStays`
follow; the serialisation of two saves is proved here from the statements' locks. `SavesTypeCorrect`
also says that the job's row is held from the metadata's UPDATE to the end of a save.

`JwksCacheProofs` holds for every set of requests and keys, every life and every
limit assumed of a fetch. `CacheInv` (`CacheInvariant`) adds to the types that only one request fetches, and
only when the cache is stale, and that both the answer under way and the cached
keys are the provider's keys of `old` and of `Life - left + lag` ticks ago, but
for keys that have changed since; `WithdrawnKeysForgotten` and `PublishedKeysLearned`
follow because those ages stay below a life and a fetch.

`MonthlyReportProofs` is about every first month, every number of months and whatever
rows and checkpoints are read. `LoadedDatesHaveAMonth` (a date between the bounds of
the query lies in one of the months, so that `totals[month_key]` is there, and a
date of one of the months is loaded), `WindowHasNoMonthTwice` and
`WindowsShareTheirMonths` rest on `AddMonthsCounts`, that `_add_months` adds to the absolute
number of a month. From them, `TotalIsDue`: a total is the sum over the rows of the
month, wherever the report begins; and `OverlappingReportsAgree`, for totals, debt drops
and projections. The projection is recursive; in place of an induction the proofs take
the least month of a counterexample (`LeastExists`), once to see that the recursive
function is what its equation says (`ProjectionGrows`), once to compare two of them
(`ProjectionsAgree`).

`LedgerProofs` is about every set of clients, processes and ids, every answer of the
agent and every request. What it assumes is named in the modules: ids are numbers;
answers and requests have the shape that JSON and the request models give them
(`AnswersAssumption`, `PayloadsAssumption`), with any values in their fields; checkpoints
have dates; and the reports asked for are ones that are answered, also for a month more.
`LedgerInv` (`LedgerInvariant`) has five parts.

* `CallInv`: the call's variables by phase. That the object which is returned is the last
  whole one (`LastObjectIsTheLastWhole`) is proved of `Candidates` for texts of any length:
  no two candidates end at the same place, and the one that ends last is whole unless
  nothing after it is.
* `TableInv`: rows are rows (`IsRow`), and what a client is about to write is a list of
  such rows under ids that nobody else uses, or a change of a row whose source becomes
  the user's with any change of a label (`WriteKnown`). It needs `AcceptedAnswerIsRows` (the checks
  of the mapping imply the constraints of the table but for the widths) and `PatchIsChange` (so do those of
  a PATCH). `AgentLabelsAreTheAgents` is part of it.
* `LockInv`: flushed writes hold disjoint locks, a flushed change has its row, a flushed
  insert its key; therefore checkpoints stay unique and a commit changes what its flush saw.
* `SettingsInv`, `ToldInv`: as long as something is promised, at most one change of the
  row or of the settings makes it true. `CorrectionsStand` is not inductive: it says
  nothing of what the change under way will make of the row, and that is why a
  commit keeps it.

The theorems about what is stored (`LedgerTypeCorrect`, `WidthsAreLeft`, `LabelsOfTheAgent`,
`AnsweredEditsStand`, `AnsweredSettingsStand`) and about the call (`CallsCleanUp`,
`TheLastWholeIsTheAnswer`) are read off it. `ReportsTellTheListings` and `ReportsThatOverlapAgree`
apply `MonthlyReportProofs` to the rows of any reachable state.

`CloudImportProofs` is about every set of requests, keys and files (there is at least
one file content, `ContentsAssumption`), of owner ids, and any limits. `CloudInv`
(`CloudInvariant`) adds three things to the types. A request that is to enqueue, or
that gives up enqueuing, has a job made from its file, and its own file is in
nobody's way (`RequestKnows`). A call is at work only on a job that has a task, and past its
claim an attempt is counted (`CallKnows`). So a job is `processing` only if it has a
task (`RowKnown`), which is what a request that finds it in that state answers 202
by; a request that finds it `pending` makes a task itself. From this follow
`AnswersStayTrue`, `AcceptedAlwaysQueued` and `OverlapKeepsRows`.
`DeliveriesBoundAttempts` counts: the attempts made and the calls that may still
make one (`MayClaimById`) are at most the deliveries begun (`DeliveryBudget`), a set of
pairs of a task and a number that only grows; it is finite because the names of
a job's tasks are.

`AcceptedStaysQueued` says that an accepted upload is not forgotten, and it is far from
inductive: between a task and the lock it leads to lie a claim, its commit, the
answer, and a retry of the queue. `FollowInv` (`FollowInvariant`) follows an open job
through all of them. A delivery and its task know of each other, and no two
calls serve one task (`DeliveryKnows`); a call that missed its deadline serves none,
and goes on. A `processing` job has the call that holds its lock, or that call
died (`OpenJobKnown`). A `pending` job has a promise (`HasPromise`): a task that waits,
or one whose last delivery went unanswered, or a call that
has yet to load and claim it, or will hand it back for another delivery. The exception is
the one the property names, a job that a late call has put back to
`pending`. What one step does to a job is said once, in `ProcessMoves` for a call and in
`StepRows` and `StepTasks` for all of `Next`; `PromiseStep` says that a promise is kept
until the job is closed or locked again.

`AcceptedAlwaysFollowed` has one hypothesis, on the uploads of a behaviour: those under
one key are finitely many, and `MaxDeliveries` times their number is below `MaxClaimsById`
(`FewUploads`). For the code's limits, 3 and 100, that is at most 33 uploads under
one key. It is needed because a job that was claimed `MaxClaimsById`
times cannot be claimed again, and stays pending when its last delivery is
answered 503. No task is made but by an upload under its key, which names it once
(`TasksHaveRequests`); with `DeliveriesBoundAttempts` the attempts of a job therefore
stay below the limit. `FollowInvariant` itself needs no such hypothesis, and names
the exhausted job as a case of its own. All three runs of `CloudImport` meet the hypothesis.

`JobDeletionProofs` is about every set of jobs, deletions and streams beside one worker
(`SoleWorkerAssumption`). `DeletionInv` says why a stale read does no harm: a job
that is over, or gone, stays so (`Settled`), since the worker selects active rows
only, holds the row it works on, and cleans up after rows that are over
(`WorkerHas`). Whatever a deletion or a stream has read as over is therefore over
when it is used (`DeletionKnows`, `StreamKnows`). `ActiveAlwaysHasFile`, `DeletedStaysGone`,
`StreamsTellFailures` and `OnlyEndedJobsGo` follow.

Only model-checked: everything under fairness (`UploadSettles`, `AcceptedUploadSettles`,
`StreamEnds`, `CallEnds`, `EveryoneIsAnswered`, `RequestsEnd`), which is beyond the prover. Every invariant
and every action property of the passing runs is a theorem.

## 5. Not modelled, and the plan

The columns that describe an upload or a statement, wording and logging are left
out, and so are characters the database refuses in a text (NUL), what a listing filters by
category and job, its total and its pages (the total and the page are two SELECTs,
between which another process may commit; nothing says what they promise then), the file system's paths and the checks that an upload looks like a PDF. Of
the agent adapter, `GoogleAdkClient.run` with `final_text_from_google_adk_events`, which
nothing calls, and the token providers, each a call of a library. The JWT
library, Cloud Tasks, the storage back ends and PostgreSQL are external, modelled
as the code uses them. The data declarations, the migrations, the logging and the stub
routes have no behaviour to model.

In `DraftSaves`, calls whose agent is still at work write progress to the job's row and may
wait for it like the calls that are there; they add no other kind of wait.

What could follow: two workers beside a deletion.
