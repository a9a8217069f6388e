-------------------------------- MODULE Ledger --------------------------------
(***************************************************************************)
(* What becomes of a statement: the agent is called (AgentCall), its       *)
(* answer becomes draft transactions (StatementMapping), the user reviews  *)
(* them and keeps checkpoints and projection settings (TransactionReview   *)
(* and the wealth repository), and reads listings and reports of what is   *)
(* stored (MonthlyReport).                                                 *)
(*                                                                         *)
(* A handler runs to its end on the event loop of its process, without an  *)
(* await: it reads the committed tables, flushes its changes and answers.  *)
(* Only then does get_session (app/db/session.py) commit, in a thread that *)
(* the loop has to start.  Until that commit a flushed row stays locked,   *)
(* and a handler whose flush meets the lock waits with its loop.           *)
(***************************************************************************)
EXTENDS MonthlyReport, AgentCall

CONSTANTS Answers,     \* per object, the agent's answer
          Ids,         \* transaction ids, in the order they are used
          Gone,        \* a row that was deleted
          Clients, Processes,
          \* What clients ask for.
          Creations, Patches, Multipliers, Checkpoints, Reports,
          MaxRequests, \* bound: requests that may write
          MaxFaults    \* bound: commits that fail, processes that restart

ASSUME IdsAssumption == Ids \subseteq Nat
ASSUME BoundsAssumption == MaxRequests \in Nat /\ MaxFaults \in Nat

\* A row is neither absent nor deleted.
ASSUME RowsAssumption ==
  LET values == (UNION {FieldType(f) : f \in Fields}) \cup {NoValue}
  IN Gone # NoValue /\ {Gone, NoValue} \cap [Fields -> values] = {}

\* Lines have the shape of lines, requests that of requests.
ASSUME AnswersAssumption ==
  /\ DOMAIN Answers = Objects \cup {Fragment}
  /\ \A o \in DOMAIN Answers :
       LET lines == Answers[o].transactions
       IN lines # NoValue => /\ DOMAIN lines \subseteq Nat
                             /\ \A k \in DOMAIN lines : IsLine(lines[k])
ASSUME PayloadsAssumption ==
  /\ \A patch \in Patches : IsPayload(patch)
  /\ \A payloads \in Creations :
       /\ payloads \in Seq({payloads[k] : k \in DOMAIN payloads})
       /\ \A k \in DOMAIN payloads :
            /\ IsPayload(payloads[k])
            /\ "is_draft" \in DOMAIN payloads[k] => payloads[k].is_draft \in BOOLEAN
ASSUME CheckpointsAssumption ==
  \A c \in Checkpoints : c.date \in FieldType("date")

\* Reports that are answered, also from the month after.
ASSUME ReportsAssumption ==
  \A query \in Reports : /\ query.anchor # NoValue /\ query.months \in Nat \ {0}
                         /\ query.include_drafts \in BOOLEAN
                         /\ IsAnswerable(query.anchor, query.months + 1)

VARIABLES import,       \* calling, saved, rejected or retry
          rows,         \* per id, the committed transaction
          checkpoints,  \* the committed wealth checkpoints
          settings,     \* the committed multiplier, or NoValue
          request,      \* per client, its request
          told,         \* per id, the row as the answers so far describe it
          toldSettings, \* the multiplier as the answers so far describe it
          requests, faults

tables == <<rows, checkpoints, settings>>
ghosts == <<told, toldSettings>>
bounds == <<requests, faults>>
vars   == <<call, import, tables, request, ghosts, bounds>>

Stored      == {i \in Ids : rows[i] \notin {NoValue, Gone}}
Nothing     == [kind |-> "nothing"]
Idle        == [phase |-> "idle", write |-> Nothing, process |-> NoValue]
Phases      == {"idle", "waiting", "answered", "committing"}
Pending(c)  == request[c].phase # "idle"
HasFlushed(c) == request[c].phase \notin {"idle", "waiting"}

Init ==
  /\ CallInit /\ import = "calling"
  /\ rows = [i \in Ids |-> NoValue]
  /\ checkpoints = {} /\ settings = NoValue
  /\ request = [c \in Clients |-> Idle]
  /\ told = [i \in Ids |-> NoValue] /\ toldSettings = NoValue
  /\ requests = 0 /\ faults = 0

(***************************************************************************)
(* The import (process_job from agent_extract on, save_parsed_import_      *)
(* result).  The variables of the call are local and end with it.          *)
(***************************************************************************)
AgentRows == IF import = "saved" THEN MapAnswer(Answers[result.data]) ELSE <<>>

SaveImport ==
  LET parsed == MapAnswer(Answers[result.data])
      saved  == [i \in Ids |-> IF i \in DOMAIN parsed THEN parsed[i]
                                                     ELSE rows[i]]
  IN IF \A k \in DOMAIN parsed : Storable(parsed[k])
     THEN import' = "saved" /\ rows' = saved /\ told' = saved
     ELSE import' = "retry" /\ UNCHANGED <<rows, told>>

EndImport ==
  /\ import = "calling" /\ phase \in Over
  /\ LET verdict == CASE phase = "raised"            -> "broken"
                      [] result.status = "error"     -> "rejected"
                      [] result.status = "success"   ->
                           ParseVerdict(Answers[result.data])
     IN \/ /\ verdict = "fine" /\ SaveImport
        \/ /\ verdict # "fine" /\ UNCHANGED <<rows, told>>
           /\ import' = IF verdict = "rejected" THEN "rejected" ELSE "retry"
  /\ phase' = "over" /\ emitted' = {} /\ text' = <<>> /\ session' = "none"
  /\ UNCHANGED <<result, checkpoints, settings, request, toldSettings, bounds>>

(***************************************************************************)
(* Locks.  An update locks its row, an insert its unique key; a deletion   *)
(* is flushed by the commit and locks nothing before.                      *)
(***************************************************************************)
Record(write) ==
  CASE write.kind \in {"set_fields", "drop_row"} -> <<"transaction", write.id>>
    [] write.kind \in {"insert_checkpoint", "drop_checkpoint"} ->
         <<"checkpoint", write.checkpoint.date, write.checkpoint.currency>>
    [] write.kind \in {"insert_settings", "set_settings"} -> <<"settings">>
    [] OTHER -> <<"none">>

Locked(write) ==
  IF write.kind \in {"set_fields", "insert_checkpoint", "insert_settings",
                     "set_settings"}
  THEN {Record(write)} ELSE {}

LockedByOthers(c) ==
  UNION {Locked(request[d].write) : d \in {d \in Clients \ {c} : HasFlushed(d)}}

TouchedByOthers(c, write) ==
  \E d \in Clients \ {c} : Pending(d) /\ Record(request[d].write) = Record(write)

LoopIsFree(p) ==
  \A c \in Clients : request[c].phase = "waiting" => request[c].process # p

(***************************************************************************)
(* A handler, from its first statement to its answer.                      *)
(***************************************************************************)

\* The answer of a request that has nothing to commit: its status changes
\* nothing here.
Refuse(c, status) == UNCHANGED request

Flush(c, p, write) ==
  request' = [request EXCEPT ![c] =
    [phase |-> IF Locked(write) \cap LockedByOthers(c) = {}
               THEN "answered" ELSE "waiting",
     write |-> write, process |-> p]]

Handles(c, p) ==
  /\ ~Pending(c) /\ LoopIsFree(p) /\ import = "saved"
  /\ requests < MaxRequests
  /\ requests' = requests + 1
  /\ UNCHANGED <<call, import, tables, faults>>

\* Ids for n new rows that nobody else is about to use.
NewIds(n) ==
  LET taken == {i \in Ids : rows[i] # NoValue} \cup
               UNION {DOMAIN request[c].write.rows :
                        c \in {c \in Clients :
                                 request[c].write.kind = "insert_rows"}}
      free  == Ids \ taken
  IN {i \in free : Cardinality({j \in free : j < i}) < n}

CreateTransactions(c, p, payloads) ==
  LET status == CreateManyAnswer(payloads)
      new    == NewIds(Len(payloads))
      nth(i) == Cardinality({j \in new : j <= i})
  IN /\ Cardinality(new) = Len(payloads)
     /\ Handles(c, p) /\ UNCHANGED ghosts
     /\ IF status # "201" THEN Refuse(c, status)
        ELSE Flush(c, p, [kind |-> "insert_rows",
                          rows |-> [i \in new |-> NewRow(payloads[nth(i)])]])

\* An overlap with another request for the row leaves open what it becomes:
\* the handler compares with a row that is about to change.
UpdateTransaction(c, p, i, payload) ==
  LET status == PatchAnswer(rows[i], payload)
      patch  == Prepared(Renamed(payload))
      write  == [kind |-> "set_fields", id |-> i,
                 changes |-> Changes(rows[i], payload)]
  IN /\ Handles(c, p) /\ UNCHANGED toldSettings
     /\ IF i \notin Stored THEN Refuse(c, "404") /\ UNCHANGED told
        ELSE IF status # "200" THEN Refuse(c, status) /\ UNCHANGED told
        ELSE /\ IF DOMAIN write.changes = {} THEN Refuse(c, "200")
                ELSE Flush(c, p, write)
             /\ told' = [told EXCEPT ![i] =
                  IF @ = NoValue \/ TouchedByOthers(c, write) THEN NoValue
                  ELSE Rewrite(@, [f \in Assigned(patch) |-> patch[f]])]

DeleteTransaction(c, p, i) ==
  /\ Handles(c, p) /\ UNCHANGED ghosts
  /\ IF i \in Stored
     THEN Flush(c, p, [kind |-> "drop_row", id |-> i]) ELSE Refuse(c, "404")

\* upsert_projection_settings
PutSettings(c, p, multiplier) ==
  LET write == [kind |-> IF settings = NoValue THEN "insert_settings"
                                               ELSE "set_settings",
                multiplier |-> multiplier]
      waits == Locked(write) \cap LockedByOthers(c) # {}
  IN /\ Handles(c, p) /\ UNCHANGED told
     /\ IF settings = multiplier THEN Refuse(c, "200")
        ELSE Flush(c, p, write)
     /\ toldSettings' =
          CASE settings = multiplier /\ TouchedByOthers(c, write) -> NoValue
            [] settings # multiplier /\ waits -> toldSettings
            [] OTHER -> multiplier

\* create_checkpoint: the flush finds the unique key taken.
CreateCheckpoint(c, p, new) ==
  /\ Handles(c, p) /\ UNCHANGED ghosts
  /\ IF \E old \in checkpoints : /\ old.date = new.date
                                 /\ old.currency = new.currency
     THEN Refuse(c, "409")
     ELSE Flush(c, p, [kind |-> "insert_checkpoint", checkpoint |-> new])

DeleteCheckpoint(c, p, old) ==
  /\ Handles(c, p) /\ UNCHANGED ghosts
  /\ IF old \in checkpoints
     THEN Flush(c, p, [kind |-> "drop_checkpoint", checkpoint |-> old])
     ELSE Refuse(c, "404")

Handle(c, p) ==
  \/ \E payloads \in Creations : CreateTransactions(c, p, payloads)
  \/ \E i \in Ids :
       \/ \E payload \in Patches : UpdateTransaction(c, p, i, payload)
       \/ DeleteTransaction(c, p, i)
  \/ \E multiplier \in Multipliers : PutSettings(c, p, multiplier)
  \/ \E point \in Checkpoints :
       CreateCheckpoint(c, p, point) \/ DeleteCheckpoint(c, p, point)

(***************************************************************************)
(* A flush that has waited.  The lock is free when its holder has          *)
(* committed or rolled back; an update then finds its row or not, an       *)
(* insert its key.                                                         *)
(***************************************************************************)
Answer(c) == request' = [request EXCEPT ![c].phase = "answered"]
End(c)    == request' = [request EXCEPT ![c] = Idle]

\* A slip: an insert that meets the other's row answers with its own value.
ResumeSettingsAnyway(c, write) ==
  IF write.kind = "insert_settings" /\ settings # NoValue
  THEN End(c) /\ toldSettings' = write.multiplier
  ELSE Answer(c) /\ toldSettings' = write.multiplier

ResumeSettings(c, write) ==
  IF write.kind = "insert_settings" /\ settings # NoValue
  THEN End(c) /\ UNCHANGED toldSettings
  ELSE Answer(c) /\ toldSettings' = write.multiplier

\* A slip: no unique key keeps the two checkpoints apart.
ResumeCheckpointAnyway(c, write) == Answer(c)

ResumeCheckpoint(c, write) ==
  IF \E old \in checkpoints :
       <<"checkpoint", old.date, old.currency>> = Record(write)
  THEN End(c) ELSE Answer(c)

Resume(c) ==
  LET write == request[c].write
  IN /\ request[c].phase = "waiting"
     /\ Locked(write) \cap LockedByOthers(c) = {}
     /\ \/ /\ write.kind = "set_fields" /\ UNCHANGED toldSettings
           /\ IF write.id \in Stored THEN Answer(c) ELSE End(c)
        \/ /\ write.kind = "insert_checkpoint" /\ UNCHANGED toldSettings
           /\ ResumeCheckpoint(c, write)
        \/ /\ write.kind \in {"insert_settings", "set_settings"}
           /\ ResumeSettings(c, write)
     /\ UNCHANGED <<call, import, tables, told, bounds>>

(***************************************************************************)
(* get_session's exit: the loop starts a thread, and the thread commits.   *)
(***************************************************************************)
\* A slip: no commit starts while a handler waits anywhere.
StartCommitInTurn(c) ==
  /\ request[c].phase = "answered" /\ \A p \in Processes : LoopIsFree(p)
  /\ request' = [request EXCEPT ![c].phase = "committing"]
  /\ UNCHANGED <<call, import, tables, ghosts, bounds>>

StartCommit(c) ==
  /\ request[c].phase = "answered" /\ LoopIsFree(request[c].process)
  /\ request' = [request EXCEPT ![c].phase = "committing"]
  /\ UNCHANGED <<call, import, tables, ghosts, bounds>>

Apply(write) ==
  /\ rows' = CASE write.kind = "insert_rows" -> Completed(write.rows, rows)
               [] write.kind = "set_fields"  ->
                    [rows EXCEPT ![write.id] = Rewrite(@, write.changes)]
               [] write.kind = "drop_row"    -> [rows EXCEPT ![write.id] = Gone]
               [] OTHER                      -> rows
  /\ checkpoints' =
       CASE write.kind = "insert_checkpoint" -> checkpoints \cup {write.checkpoint}
         [] write.kind = "drop_checkpoint"   -> checkpoints \ {write.checkpoint}
         [] OTHER                            -> checkpoints
  /\ settings' = IF write.kind \in {"insert_settings", "set_settings"}
                 THEN write.multiplier ELSE settings

\* A deletion waits in its thread for the lock; a row somebody else has
\* deleted is only warned of.
Commit(c) ==
  LET write == request[c].write
  IN /\ request[c].phase = "committing"
     /\ Record(write) \notin LockedByOthers(c)
     /\ Apply(write)
     /\ told' = IF write.kind = "insert_rows" THEN Completed(write.rows, told)
                ELSE told
     /\ End(c)
     /\ UNCHANGED <<call, import, toldSettings, bounds>>

\* What was answered is not what is stored: nothing is promised any more.
Forget(lost) ==
  /\ told' = [i \in Ids |->
       IF \E write \in lost : write.kind = "set_fields" /\ write.id = i
       THEN NoValue ELSE told[i]]
  /\ toldSettings' =
       IF \E write \in lost : write.kind \in {"insert_settings", "set_settings"}
       THEN NoValue ELSE toldSettings

CommitFails(c) ==
  /\ request[c].phase = "committing" /\ faults < MaxFaults
  /\ faults' = faults + 1
  /\ Forget({request[c].write})
  /\ End(c)
  /\ UNCHANGED <<call, import, tables, requests>>

\* A process is replaced; its open transactions are rolled back.
Restart(p) ==
  LET ended == {c \in Clients : Pending(c) /\ request[c].process = p}
  IN /\ ended # {} /\ faults < MaxFaults
     /\ faults' = faults + 1
     /\ Forget({request[c].write : c \in ended})
     /\ request' = [c \in Clients |->
          IF c \in ended
          THEN Idle ELSE request[c]]
     /\ UNCHANGED <<call, import, tables, requests>>

CallNext == CallStep /\ UNCHANGED <<import, tables, request, ghosts, bounds>>

Continue(c) == Resume(c) \/ StartCommit(c) \/ Commit(c)

Next ==
  \/ CallNext \/ EndImport
  \/ \E c \in Clients :
       \/ Continue(c) \/ CommitFails(c)
       \/ \E p \in Processes : Handle(c, p)
  \/ \E p \in Processes : Restart(p)

Spec == Init /\ [][Next]_vars

\* A loop that is free starts the commits it has been given, a thread
\* finishes, a lock that is free is granted.
FairSpec == Spec /\ \A c \in Clients : WF_vars(Continue(c))

(***************************************************************************)
(* Properties of what is stored.                                           *)
(***************************************************************************)

\* Types, and the constraints of the tables: labels from the known sets
\* and one checkpoint per date and currency.
LedgerTypeOK ==
  /\ import \in {"calling", "saved", "rejected", "retry"}
  /\ \A i \in Stored : DOMAIN rows[i] = Fields /\ Storable(rows[i])
  /\ \A a, b \in checkpoints :
       a.date = b.date /\ a.currency = b.currency => a = b
  /\ settings \in {NoValue} \cup Multipliers
  /\ \A c \in Clients :
       /\ request[c].phase \in Phases
       /\ Pending(c) <=> request[c].write # Nothing
  /\ requests \in 0..MaxRequests /\ faults \in 0..MaxFaults

\* The mapping checks all that the table does but the width of numbers: a
\* job is tried again, which asks the agent anew, for a failed call, for a
\* confidence that is not a number, and for an accepted answer with a number
\* too wide for its column, never for its labels, texts or dates
\* (data_mapping.py:32-181, schemas/transactions.py:32-105).
OnlyWidthsAreUnchecked ==
  import = "retry" =>
    \/ result.status = "none"
    \/ ParseVerdict(Answers[result.data]) = "broken"
    \/ \E k \in DOMAIN MapAnswer(Answers[result.data]) :
         ~HasWidths(MapAnswer(Answers[result.data])[k])

\* An imported row that says it was classified by the agent shows the labels
\* that the agent gave it, however it was edited and by how many requests at
\* a time (transactions.py:447-486).  Of a row that was posted this is not
\* said: a POST may name the agent as its source.
AgentLabelsAreTheAgents ==
  \A i \in Stored :
    rows[i].imported /\ rows[i].classification_source = "agent" =>
      /\ rows[i].report_bucket = AgentRows[i].report_bucket
      /\ rows[i].transaction_nature = AgentRows[i].transaction_nature

\* A row is what the answered requests have made of it: fields that a PATCH
\* names have its values, all others keep theirs.  The exceptions are in
\* told: a PATCH that overlaps another one of the row, and a commit that
\* failed after its answer (transactions.py:306-373, session.py:21-30).
CorrectionsStand ==
  \A i \in Stored :
    \/ told[i] \in {NoValue, rows[i]}
    \/ \E c \in Clients : /\ Pending(c)
                          /\ Record(request[c].write) = <<"transaction", i>>

\* The same of the projection settings: whoever was answered 200 last and
\* committed is who they show, also when two first requests both insert
\* (wealth.py:103-124).
SettingsStand ==
  \/ toldSettings \in {NoValue, settings}
  \/ \E c \in Clients : Record(request[c].write) = <<"settings">>

(***************************************************************************)
(* Properties of what is read, whatever listing or report is asked for.    *)
(***************************************************************************)
Known == {Completed([id |-> i], rows[i]) : i \in Stored}

ReportOf(query, anchor) ==
  Report(Known, checkpoints, IF settings = NoValue THEN 100 ELSE settings,
         anchor, query.months, query.currency, query.include_drafts)

\* What the listings show of the k-th month of a report and one of its
\* lines.
Buckets == [income |-> "income",     living |-> "living_cost",
            fixed  |-> "fixed_cost", debt   |-> "debt_installment"]

\* From the first day of a month to its last; drafts have a listing of
\* their own.
ListedIn(txs, month, include) ==
  {t \in txs : \E drafts \in (IF include THEN {TRUE, FALSE} ELSE {NoValue}) :
     Listed([date_from |-> <<month[1], month[2], 1>>,
             date_to   |-> <<month[1], month[2], LastDay(month)>>,
             is_draft  |-> drafts], t)}

ShownIn(txs, query, k, field) ==
  LET n     == 12 * query.anchor[1] + query.anchor[2] + k - 2
      month == <<n \div 12, (n % 12) + 1>>
  IN {t \in ListedIn(txs, month, query.include_drafts) :
     /\ t.reverted_at = NoValue
     /\ t.currency = query.currency
     /\ t.report_bucket = Buckets[field]}

SumOf(field, txs) ==
  MapThenSumSet(LAMBDA t : IF field = "income" THEN t.amount
                                               ELSE AbsValue(t.amount), txs)

\* A report shows consecutive months, and in each of them exactly the
\* transactions that the listings show of its dates: none is dropped at the
\* end of a month or a year and none counted twice.  What a listing has
\* beyond the report is reverted, in another currency or not to be reported
\* (monthly_capacity_report.py:40-76, transactions.py:88-209).
ReportMatchesListing ==
  \A query \in Reports :
    LET report == ReportOf(query, query.anchor)
    IN \A k \in 1..query.months : \A field \in DOMAIN Buckets :
         report[k].totals[field] = SumOf(field, ShownIn(Known, query, k, field))

\* Two reports that overlap tell the same of the months they share: the
\* totals always, the debt drop when both know the month before, and the
\* projection from the latest checkpoint that both know
\* (monthly_capacity_report.py:89-131).
WindowsAgree ==
  \A query \in Reports :
    LET early == ReportOf(query, query.anchor)
        late  == ReportOf(query, AddMonths(query.anchor, 1))
    IN \A k \in 1..(query.months - 1) :
         /\ early[k + 1].month = late[k].month
         /\ early[k + 1].totals = late[k].totals
         /\ k > 1 => early[k + 1].debtDrop = late[k].debtDrop
         /\ late[k].wealth # NoValue => early[k + 1].wealth = late[k].wealth

(***************************************************************************)
(* Progress.                                                               *)
(***************************************************************************)

\* A loop that waits for a commit only it could start: it stands still
\* until its process is restarted.
StandsStill(p) ==
  \E c, d \in Clients :
    /\ request[c].process = p /\ request[c].phase = "waiting"
    /\ request[d].process = p /\ request[d].phase = "answered"
    /\ Locked(request[c].write) \cap Locked(request[d].write) # {}

\* A request ends, by its answer and its commit or rollback, unless a loop
\* stands still.
RequestsEnd ==
  \A c \in Clients :
    Pending(c) ~> (~Pending(c) \/ \E p \in Processes : StandsStill(p))
===============================================================================
