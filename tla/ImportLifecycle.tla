--------------------------- MODULE ImportLifecycle ---------------------------
(***************************************************************************)
(* What an import promises to its user: an upload waits, is processed a    *)
(* limited number of times, and ends once and for all, done or failed; its *)
(* file is there for as long as anybody may want to process it.  The       *)
(* states are those of import_jobs.status; the promise is the reading of   *)
(* that column by the API (import_jobs_routes.py: a stream of events ends  *)
(* with "done" or "failed", and only such a job can be deleted).           *)
(***************************************************************************)
EXTENDS Integers

CONSTANTS Jobs, MaxTries

VARIABLES phase, tries, files

vars == <<phase, tries, files>>

Init ==
  /\ phase = [j \in Jobs |-> "none"]
  /\ tries = [j \in Jobs |-> 0]
  /\ files = {}

Submit(j) ==
  /\ phase[j] = "none"
  /\ phase' = [phase EXCEPT ![j] = "pending"]
  /\ tries' = [tries EXCEPT ![j] = 0]
  /\ files' = files \cup {j}

\* A try begins; the one before it, if any, was given back or has died.
Begin(j) ==
  /\ phase[j] \in {"pending", "processing"} /\ tries[j] < MaxTries
  /\ phase' = [phase EXCEPT ![j] = "processing"]
  /\ tries' = [tries EXCEPT ![j] = @ + 1]
  /\ UNCHANGED files

\* A try fails and leaves another one to be had.
GiveBack(j) ==
  /\ phase[j] = "processing" /\ tries[j] < MaxTries
  /\ phase' = [phase EXCEPT ![j] = "pending"]
  /\ UNCHANGED <<tries, files>>

End(j) ==
  /\ phase[j] = "processing"
  /\ \E end \in {"done", "failed"} : phase' = [phase EXCEPT ![j] = end]
  /\ UNCHANGED <<tries, files>>

Discard(j) ==
  /\ phase[j] \in {"done", "failed"}
  /\ files' = files \ {j}
  /\ UNCHANGED <<phase, tries>>

Next == \E j \in Jobs : Submit(j) \/ Begin(j) \/ GiveBack(j) \/ End(j) \/ Discard(j)

Spec == Init /\ [][Next]_vars

\* A job that is not over can still be processed: its file is there, and a
\* waiting one has a try left.
Processable ==
  \A j \in Jobs :
    /\ phase[j] \in {"pending", "processing"} => j \in files
    /\ phase[j] = "pending" => tries[j] < MaxTries
===============================================================================
