------------------------------ MODULE ImportJobs ------------------------------
(***************************************************************************)
(* The import_jobs table: one row per uploaded statement, and the          *)
(* statements ImportJobRepository (app/db/repositories/import_jobs.py)     *)
(* runs against a row.  Every operator takes the row as it is when the     *)
(* UPDATE runs and returns the row as it is after it; an UPDATE whose      *)
(* WHERE matches nothing returns the row it was given.                     *)
(*                                                                         *)
(* Columns that only describe the upload (file name, size, hash, user) are *)
(* left out.  A timestamp is kept as what the code asks of it: locked_at   *)
(* is "old" once it lies the 15 minutes back after which a lock may be     *)
(* taken over, finished_at is set or not.                                  *)
(***************************************************************************)
EXTENDS Integers

CONSTANTS Owners,        \* the worker ids that locked_by may hold
          NoOwner,       \* locked_by IS NULL
          MaxAttempts,   \* claim_next_pending's max_attempts, 3
          MaxClaimsById  \* claim_by_id's max_attempts, 100

ASSUME NoOwnerAssumption == NoOwner \notin Owners
ASSUME LimitsAssumption  == /\ MaxAttempts \in Nat \ {0}
                            /\ MaxClaimsById \in Nat

Active   == {"pending", "processing"}
Terminal == {"done", "failed"}

\* "none" stands for a row that does not exist.
Statuses == Active \cup Terminal \cup {"none"}

\* The messages a job can show, error_message and current_step.  An agent's
\* own progress messages and its reasons for rejecting a file are one each.
Errors == {"none", "Temporary processing failure",
           "Processing failed after all retry attempts.",
           "Processing was interrupted before it completed.",
           "Import could not be scheduled.", "file rejected"}

Steps == {"none", "Upload received", "Processing started",
          "Reading PDF with agent", "agent progress",
          "Validating transactions", "Draft transactions saved",
          "Failed", "Waiting to retry"}

Row == [status     : Statuses,
        step       : Steps,
        attempts   : Nat,
        lockedBy   : Owners \cup {NoOwner},
        lockedAt   : {"null", "recent", "old"},
        finishedAt : {"null", "set"},
        error      : Errors,
        input      : BOOLEAN,   \* agent_input_payload_json is set
        output     : BOOLEAN,   \* agent_output_payload_json is set
        metadata   : BOOLEAN]   \* statement_kind_confidence and its like are set

NoRow == [status |-> "none", step |-> "none", attempts |-> 0,
          lockedBy |-> NoOwner, lockedAt |-> "null", finishedAt |-> "null",
          error |-> "none", input |-> FALSE, output |-> FALSE,
          metadata |-> FALSE]

Exists(r) == r.status # "none"

CreatePending ==
  [NoRow EXCEPT !.status = "pending", !.step = "Upload received"]

(***************************************************************************)
(* Claims.                                                                 *)
(***************************************************************************)

\* Slips in the SELECT: one attempt too many, or no takeover of old locks.
IsCandidateOnceMore(r) ==
  /\ r.attempts <= MaxAttempts
  /\ \/ r.status = "pending"
     \/ r.status = "processing" /\ r.lockedAt = "old"
IsPendingCandidate(r) == r.attempts < MaxAttempts /\ r.status = "pending"

\* The SELECT of claim_next_pending: a row a worker may pick.
IsCandidate(r) ==
  /\ r.attempts < MaxAttempts
  /\ \/ r.status = "pending"
     \/ r.status = "processing" /\ r.lockedAt = "old"

CountAttempt(r) == [r EXCEPT !.attempts = @ + 1]

Lock(r, w) ==
  [CountAttempt(r) EXCEPT !.status = "processing",
                          !.step = "Processing started",
                          !.lockedBy = w, !.lockedAt = "recent",
                          !.error = "none"]

\* The UPDATE of claim_next_pending.  Its WHERE asks for less than the
\* SELECT: not that the lock of a "processing" row is still old.
ClaimNextMatches(r) == r.status \in Active /\ r.attempts < MaxAttempts

\* The UPDATE of claim_by_id.
ClaimByIdMatches(r) == r.status = "pending" /\ r.attempts < MaxClaimsById

(***************************************************************************)
(* Updates keyed on the id alone, whatever the status and the owner.       *)
(***************************************************************************)

MarkStep(r, s)     == IF Exists(r) THEN [r EXCEPT !.step = s] ELSE r
SaveAgentInput(r)  == IF Exists(r) THEN [r EXCEPT !.input = TRUE] ELSE r
SaveAgentOutput(r) == IF Exists(r) THEN [r EXCEPT !.output = TRUE] ELSE r

\* No update takes the metadata back, not even one that reopens the job.
SaveStatementMetadata(r) ==
  IF Exists(r) THEN [r EXCEPT !.metadata = TRUE] ELSE r

Unlock(r) == [r EXCEPT !.lockedBy = NoOwner, !.lockedAt = "null"]

MarkDone(r) ==
  IF Exists(r)
  THEN [Unlock(r) EXCEPT !.status = "done", !.finishedAt = "set",
                         !.step = "Draft transactions saved",
                         !.error = "none"]
  ELSE r

MarkFailedLocked(r, why) ==   \* a slip: the lock stays
  IF Exists(r)
  THEN [r EXCEPT !.status = "failed", !.step = "Failed",
                 !.finishedAt = "set", !.error = why]
  ELSE r

MarkFailed(r, why) ==
  IF Exists(r)
  THEN [Unlock(r) EXCEPT !.status = "failed", !.step = "Failed",
                         !.finishedAt = "set", !.error = why]
  ELSE r

MarkPendingStillFinished(r) ==   \* a slip: finished_at stays
  IF Exists(r)
  THEN [Unlock(r) EXCEPT !.status = "pending", !.step = "Waiting to retry",
                         !.error = "Temporary processing failure"]
  ELSE r

MarkPendingForRetry(r) ==
  IF Exists(r)
  THEN [Unlock(r) EXCEPT !.status = "pending", !.step = "Waiting to retry",
                         !.finishedAt = "null",
                         !.error = "Temporary processing failure"]
  ELSE r

\* Fifteen minutes go by after a claim: nothing refreshes locked_at.
Age(r) == [r EXCEPT !.lockedAt = "old"]

(***************************************************************************)
(* What every reader of a row relies on: the columns agree with each       *)
(* other, whichever worker wrote last.                                     *)
(***************************************************************************)
RowConsistent(r) ==
  /\ r.status = "processing" <=> r.lockedBy # NoOwner
  /\ r.lockedAt # "null" <=> r.lockedBy # NoOwner
  /\ r.status = "processing" => r.attempts > 0 /\ r.error = "none"
  /\ r.finishedAt = "set" <=> r.status \in Terminal
  /\ r.status = "done" => r.error = "none" /\ r.metadata
  /\ r.status = "failed" =>
       r.error \notin {"none", "Temporary processing failure"}
  /\ r.status = "pending" =>
       \/ r.attempts = 0 /\ r.error = "none"
       \/ r.attempts > 0 /\ r.error = "Temporary processing failure"
===============================================================================
