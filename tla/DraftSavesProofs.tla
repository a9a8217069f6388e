--------------------------- MODULE DraftSavesProofs ---------------------------
(***************************************************************************)
(* Theorems about saves of one job that interleave with each other and     *)
(* with its user's reviews (module DraftSaves), for any number of saves,   *)
(* processes, clients and transactions.                                    *)
(***************************************************************************)
EXTENDS DraftSaves, TLAPS

(***************************************************************************)
(* The invariant.  A save that has looked up the drafts still finds, among *)
(* what it has to delete or has deleted, every draft no user has touched:  *)
(* it holds the job's row, so no other save commits in between.  And what  *)
(* it has deleted nobody can accept: a row has one holder at a time.       *)
(***************************************************************************)
Fresh(id) == \E s \in Savers : spc[s] # "saved" /\ id \in Parsed[s]

FreshIsUnused ==
  \A id \in Ids : Fresh(id) => row[id] = "absent" /\ id \notin touched

RequestsKnow ==
  \A c \in Clients : Pending(c) => ~Fresh(request[c].id)

OneHolder ==
  \A c, d \in Clients, id \in Ids : HasLocked(c, id) /\ HasLocked(d, id) => c = d

DeletesKnow ==
  \A s \in Savers :
    /\ \A id \in doomed[s] : row[id] = "draft"
    /\ spc[s] = "committing" => found[s] = {}
    /\ spc[s] \in InDelete =>
         \A id \in Ids \ touched :
           row[id] = "draft" => id \in found[s] \/ id \in doomed[s]

LastIsSaved == last # NoSaver => spc[last] = "saved"

SavesInv ==
  /\ SavesTypeOK /\ FreshIsUnused /\ RequestsKnow /\ OneHolder /\ DeletesKnow
  /\ LastIsSaved /\ DraftsOfOneSave /\ AnsweredHasItsRow

\* The user's part of the invariant asks of the saves only what they have
\* deleted and which of them are over.
LEMMA UsersUnmoved ==
  ASSUME SavesInv, UNCHANGED <<row, touched, users>>,
         \A s \in Savers : spc'[s] = "saved" <=> spc[s] = "saved",
         \A s \in Savers : \A id \in doomed'[s] :
           id \in doomed[s] \/ (id \in Ids /\ ~LockedByUser(id))
  PROVE  FreshIsUnused' /\ RequestsKnow' /\ OneHolder' /\ AnsweredHasItsRow'
<1>1. UNCHANGED <<row, touched, request>>
  BY DEF users
<1>2. \A id : Fresh(id)' <=> Fresh(id)
  BY DEF Fresh
<1>3. \A c \in Clients, id \in Ids : HasLocked(c, id)' <=> HasLocked(c, id)
  BY <1>1 DEF HasLocked
<1>4. FreshIsUnused' /\ RequestsKnow' /\ OneHolder'
  BY <1>1, <1>2, <1>3 DEF SavesInv, FreshIsUnused, RequestsKnow, OneHolder, Pending
<1>5. ASSUME NEW c \in Clients, NEW id \in Ids, HasLocked(c, id)
      PROVE  row[id] # "absent" /\ ~LockedBySave(id)'
  BY <1>5 DEF SavesInv, AnsweredHasItsRow, LockedBySave, LockedByUser
<1>6. AnsweredHasItsRow'
  BY <1>1, <1>3, <1>5 DEF AnsweredHasItsRow
<1> QED BY <1>4, <1>6

\* A step of a save that neither commits nor begins or continues its DELETE.
LEMMA QuietSave ==
  ASSUME SavesInv, NEW s \in Savers,
         UNCHANGED <<row, touched, found, doomed, jobLock, last, users>>,
         NEW next \in {"recording", "checking", "locking", "handling", "failed"},
         SaverGoto(s, next), spc[s] \notin HoldingJob, spc[s] # "saved"
  PROVE  SavesInv'
<1>1. /\ spc' = [spc EXCEPT ![s] = next] /\ spc \in [Savers -> {"idle"} \cup AtWork \cup Ended]
      /\ UNCHANGED <<request, requests>>
  BY DEF SaverGoto, SavesInv, SavesTypeOK, users
<1>2. SavesTypeOK'
  BY <1>1 DEF SavesInv, SavesTypeOK, AtWork, InSave, HoldingJob, InDelete, Ended
<1>3. FreshIsUnused' /\ RequestsKnow' /\ OneHolder' /\ AnsweredHasItsRow'
  BY <1>1, UsersUnmoved DEF SavesInv, SavesTypeOK
<1>4. DeletesKnow'
  BY <1>1 DEF SavesInv, DeletesKnow, InDelete, HoldingJob
<1>5. LastIsSaved' /\ DraftsOfOneSave'
  BY <1>1 DEF SavesInv, SavesTypeOK, LastIsSaved, DraftsOfOneSave
<1> QED BY <1>2, <1>3, <1>4, <1>5 DEF SavesInv

LEMMA SaveStepInv ==
  ASSUME SavesInv, NEW s \in Savers, SaveStep(s) \/ Fail(s)
  PROVE  SavesInv'
<1> USE DEF AtWork, InSave, HoldingJob, InDelete, Ended
<1>1. /\ SavesTypeOK /\ UNCHANGED users /\ UNCHANGED <<request, requests>>
      /\ touched' = touched
  BY DEF SavesInv, SaveStep, AgentAnswers, SaveOutput, CheckCommitted, SaveMetadata,
     BeginDelete, DeleteDraft, CreateMany, CommitSave, HandleError, Fail, users
<1>2. CASE AgentAnswers(s) \/ SaveOutput(s) \/ CheckCommitted(s) \/ HandleError(s)
  BY <1>2, QuietSave DEF AgentAnswers, SaveOutput, CheckCommitted, HandleError
<1>3. CASE SaveMetadata(s)
  <2>1. /\ spc' = [spc EXCEPT ![s] = "selecting"] /\ jobLock' = s /\ jobLock = NoSaver
        /\ UNCHANGED <<row, touched, found, doomed, last>> /\ spc[s] = "locking"
    BY <1>3 DEF SaveMetadata, SaverGoto
  <2>2. SavesTypeOK'
    BY <1>1, <2>1, SaversAssumption DEF SavesTypeOK
  <2>3. FreshIsUnused' /\ RequestsKnow' /\ OneHolder' /\ AnsweredHasItsRow'
    BY <1>1, <2>1, UsersUnmoved DEF SavesTypeOK
  <2>4. DeletesKnow' /\ LastIsSaved' /\ DraftsOfOneSave'
    BY <1>1, <2>1 DEF SavesInv, SavesTypeOK, DeletesKnow, LastIsSaved, DraftsOfOneSave
  <2> QED BY <2>2, <2>3, <2>4 DEF SavesInv
<1>4. CASE BeginDelete(s)
  <2>1. /\ spc' = [spc EXCEPT ![s] = "deleting"] /\ spc[s] = "selecting"
        /\ found' = [found EXCEPT ![s] = {id \in Ids : row[id] = "draft"}]
        /\ UNCHANGED <<row, touched, doomed, jobLock, last>>
    BY <1>4 DEF BeginDelete, SaverGoto
  <2>2. SavesTypeOK'
    BY <1>1, <2>1 DEF SavesTypeOK
  <2>3. FreshIsUnused' /\ RequestsKnow' /\ OneHolder' /\ AnsweredHasItsRow'
    BY <1>1, <2>1, UsersUnmoved DEF SavesTypeOK
  <2>4. DeletesKnow' /\ LastIsSaved' /\ DraftsOfOneSave'
    BY <1>1, <2>1 DEF SavesInv, SavesTypeOK, DeletesKnow, LastIsSaved, DraftsOfOneSave
  <2> QED BY <2>2, <2>3, <2>4 DEF SavesInv
<1>5. ASSUME NEW id \in Ids, DeleteDraft(s, id) PROVE SavesInv'
  <2>1. /\ spc[s] = "deleting" /\ id \in found[s] /\ ~LockedByUser(id)
        /\ found' = [found EXCEPT ![s] = @ \ {id}]
        /\ doomed' = [doomed EXCEPT ![s] = IF row[id] = "draft" THEN @ \cup {id} ELSE @]
        /\ UNCHANGED <<row, touched, spc, jobLock, last>>
    BY <1>5 DEF DeleteDraft
  <2>2. SavesTypeOK'
    BY <1>1, <2>1 DEF SavesTypeOK
  <2>3. FreshIsUnused' /\ RequestsKnow' /\ OneHolder' /\ AnsweredHasItsRow'
    BY <1>1, <2>1, UsersUnmoved DEF SavesTypeOK
  <2>4. DeletesKnow' /\ LastIsSaved' /\ DraftsOfOneSave'
    BY <1>1, <2>1 DEF SavesInv, SavesTypeOK, DeletesKnow, LastIsSaved, DraftsOfOneSave
  <2> QED BY <2>2, <2>3, <2>4 DEF SavesInv
<1>6. CASE CreateMany(s)
  <2>1. /\ spc' = [spc EXCEPT ![s] = "committing"] /\ spc[s] = "deleting" /\ found[s] = {}
        /\ UNCHANGED <<row, touched, found, doomed, jobLock, last>>
    BY <1>6 DEF CreateMany, SaverGoto
  <2>2. SavesTypeOK'
    BY <1>1, <2>1 DEF SavesTypeOK
  <2>3. FreshIsUnused' /\ RequestsKnow' /\ OneHolder' /\ AnsweredHasItsRow'
    BY <1>1, <2>1, UsersUnmoved DEF SavesTypeOK
  <2>4. DeletesKnow' /\ LastIsSaved' /\ DraftsOfOneSave'
    BY <1>1, <2>1 DEF SavesInv, SavesTypeOK, DeletesKnow, LastIsSaved, DraftsOfOneSave
  <2> QED BY <2>2, <2>3, <2>4 DEF SavesInv
<1>7. CASE Fail(s)
  <2>1. /\ spc' = [spc EXCEPT ![s] = "handling"] /\ spc[s] \in {"recording"} \cup InSave
        /\ found' = [found EXCEPT ![s] = {}] /\ doomed' = [doomed EXCEPT ![s] = {}]
        /\ jobLock' = IF jobLock = s THEN NoSaver ELSE jobLock
        /\ UNCHANGED <<row, touched, last>>
    BY <1>7 DEF Fail, SaverGoto
  <2>2. SavesTypeOK'
    BY <1>1, <2>1, SaversAssumption DEF SavesTypeOK
  <2>3. FreshIsUnused' /\ RequestsKnow' /\ OneHolder' /\ AnsweredHasItsRow'
    BY <1>1, <2>1, UsersUnmoved DEF SavesTypeOK
  <2>4. DeletesKnow' /\ LastIsSaved' /\ DraftsOfOneSave'
    BY <1>1, <2>1 DEF SavesInv, SavesTypeOK, DeletesKnow, LastIsSaved, DraftsOfOneSave
  <2> QED BY <2>2, <2>3, <2>4 DEF SavesInv
<1>8. CASE CommitSave(s)
  <2>1. /\ spc' = [spc EXCEPT ![s] = "saved"] /\ spc[s] = "committing"
        /\ doomed' = [doomed EXCEPT ![s] = {}] /\ jobLock' = NoSaver /\ last' = s
        /\ found' = found /\ found[s] = {}
        /\ row' = [id \in Ids |-> IF id \in Parsed[s] THEN "draft"
                                  ELSE IF id \in doomed[s] THEN "absent" ELSE row[id]]
    BY <1>8 DEF CommitSave, SaverGoto, SavesInv, DeletesKnow
  <2>2. jobLock = s /\ \A t \in Savers \ {s} : spc[t] \notin HoldingJob /\ doomed[t] = {}
    BY <1>1, <2>1 DEF SavesTypeOK
  <2>3. SavesTypeOK'
    BY <1>1, <2>1, <2>2, SaversAssumption DEF SavesTypeOK, RowStates
  <2>4. \A id \in Ids : Fresh(id)' => Fresh(id) /\ id \notin Parsed[s]
    BY <1>1, <2>1, SaversAssumption DEF Fresh, SavesTypeOK
  <2>5. \A id \in Ids : id \in Parsed[s] => row[id] = "absent" /\ id \notin touched
    BY <2>1 DEF SavesInv, FreshIsUnused, Fresh
  <2>6. FreshIsUnused' /\ RequestsKnow'
    BY <1>1, <2>1, <2>4 DEF SavesInv, FreshIsUnused, RequestsKnow, Pending, SavesTypeOK, Idle
  <2>7. \A c \in Clients, id \in Ids : HasLocked(c, id)' <=> HasLocked(c, id)
    BY <1>1 DEF HasLocked
  <2>8. OneHolder'
    BY <2>7 DEF SavesInv, OneHolder
  <2>9. ASSUME NEW c \in Clients, NEW id \in Ids, HasLocked(c, id)
        PROVE  row'[id] # "absent" /\ ~LockedBySave(id)'
    BY <1>1, <2>1, <2>2, <2>9 DEF SavesInv, AnsweredHasItsRow, LockedBySave, SavesTypeOK
  <2>10. AnsweredHasItsRow'
    BY <2>7, <2>9 DEF AnsweredHasItsRow
  <2>11. DeletesKnow' /\ LastIsSaved'
    BY <1>1, <2>1, <2>2, SaversAssumption DEF DeletesKnow, LastIsSaved, SavesTypeOK
  <2>12. ASSUME NEW id \in Ids \ touched
         PROVE  row'[id] = "draft" <=> id \in Parsed[s]
    BY <2>1, <2>12 DEF SavesInv, DeletesKnow
  <2>13. DraftsOfOneSave'
    BY <1>1, <2>1, <2>12, SaversAssumption DEF DraftsOfOneSave
  <2> QED BY <2>3, <2>6, <2>8, <2>10, <2>11, <2>13 DEF SavesInv
<1> QED BY <1>2, <1>3, <1>4, <1>5, <1>6, <1>7, <1>8 DEF SaveStep

\* A step of the user that changes no row.
LEMMA AskStepInv ==
  ASSUME SavesInv, NEW c \in Clients, UNCHANGED <<row, touched, saves>>,
         requests' \in 0 .. MaxRequests,
         NEW ask \in {Idle} \cup [phase : {"waiting", "answered", "committing"},
                                 id : Ids, new : RowStates, process : Processes],
         request' = [request EXCEPT ![c] = ask],
         ask # Idle => row[ask.id] # "absent" \/ ask.id = request[c].id,
         ask # Idle => Pending(c) \/ row[ask.id] # "absent",
         ask # Idle /\ ask.phase \in {"answered", "committing"} /\ ask.new # "absent" =>
           \/ HasLocked(c, ask.id)
           \/ row[ask.id] # "absent" /\ ~LockedForUser(c, ask.id)
  PROVE  SavesInv'
<1>1. UNCHANGED <<spc, found, doomed, jobLock, last>> /\ SavesTypeOK
  BY DEF saves, SavesInv
<1>2. SavesTypeOK'
  BY <1>1 DEF SavesTypeOK
<1>3. \A d \in Clients \ {c} : request'[d] = request[d]
  BY <1>1 DEF SavesTypeOK
<1>4. request'[c] = ask
  BY <1>1 DEF SavesTypeOK
<1>5. FreshIsUnused' /\ DeletesKnow' /\ LastIsSaved' /\ DraftsOfOneSave'
  BY <1>1 DEF SavesInv, FreshIsUnused, Fresh, DeletesKnow, LastIsSaved, DraftsOfOneSave
<1>6. ASSUME NEW d \in Clients, Pending(d)', Fresh(request'[d].id)
      PROVE  FALSE
  <2>1. CASE d # c
    BY <1>1, <1>3, <1>6, <2>1 DEF SavesInv, RequestsKnow, Fresh, Pending
  <2>2. CASE d = c
    <3>1. ask # Idle /\ ask.id \in Ids
      BY <1>4, <1>6, <2>2 DEF Pending, Idle
    <3> QED
      BY <1>1, <1>4, <1>6, <2>2, <3>1 DEF SavesInv, RequestsKnow, FreshIsUnused, Fresh, Pending
  <2> QED BY <2>1, <2>2
<1>7. RequestsKnow'
  BY <1>1, <1>6 DEF RequestsKnow, Fresh
<1>8. \A d \in Clients \ {c}, id \in Ids : HasLocked(d, id)' <=> HasLocked(d, id)
  BY <1>3 DEF HasLocked
<1>9. ASSUME NEW id \in Ids, HasLocked(c, id)'
      PROVE  HasLocked(c, id) \/ (row[id] # "absent" /\ ~LockedForUser(c, id))
  <2>1. ask # Idle /\ ask.id = id /\ ask.phase \in {"answered", "committing"}
        /\ ask.new # "absent"
    BY <1>4, <1>9 DEF HasLocked, Idle
  <2> QED BY <2>1
<1>10. OneHolder'
  BY <1>8, <1>9 DEF SavesInv, OneHolder, LockedForUser
<1>11. AnsweredHasItsRow'
  BY <1>1, <1>8, <1>9 DEF SavesInv, AnsweredHasItsRow, LockedForUser, LockedBySave
<1> QED BY <1>2, <1>5, <1>7, <1>10, <1>11 DEF SavesInv

LEMMA AsksInv ==
  ASSUME SavesInv, NEW c \in Clients, NEW p \in Processes, NEW id \in Ids,
         \/ \E new \in {"draft", "accepted"} : PatchIsDraft(c, p, id, new)
         \/ DeleteTransaction(c, p, id)
  PROVE  SavesInv'
<1>1. /\ UNCHANGED <<row, touched, saves>> /\ requests' \in 0 .. MaxRequests
      /\ row[id] # "absent"
  BY RequestsAssumption DEF PatchIsDraft, DeleteTransaction, Asks, SavesInv, SavesTypeOK
<1>2. ASSUME NEW new \in {"draft", "accepted"}, PatchIsDraft(c, p, id, new)
      PROVE  SavesInv'
  <2> DEFINE phase == IF LockedForUser(c, id) THEN "waiting" ELSE "answered"
             ask   == Ask(phase, id, new, p)
  <2>1. request' = [request EXCEPT ![c] = ask]
    BY <1>2 DEF PatchIsDraft
  <2>2. /\ ask \in [phase : {"waiting", "answered", "committing"},
                    id : Ids, new : RowStates, process : Processes]
        /\ ask.id = id /\ (ask.phase \in {"answered", "committing"} => ~LockedForUser(c, id))
    BY DEF Ask, RowStates
  <2> HIDE DEF ask
  <2> QED BY <1>1, <2>1, <2>2, AskStepInv
<1>3. CASE DeleteTransaction(c, p, id)
  <2> DEFINE ask == Ask("answered", id, "absent", p)
  <2>1. request' = [request EXCEPT ![c] = ask]
    BY <1>3 DEF DeleteTransaction
  <2>2. /\ ask \in [phase : {"waiting", "answered", "committing"},
                    id : Ids, new : RowStates, process : Processes]
        /\ ask.id = id /\ ask.new = "absent"
    BY DEF Ask, RowStates
  <2> HIDE DEF ask
  <2> QED BY <1>1, <2>1, <2>2, AskStepInv
<1> QED BY <1>2, <1>3

LEMMA EndsInv ==
  ASSUME SavesInv, NEW c \in Clients, Ends(c) \/ CommitFails(c)
  PROVE  SavesInv'
<1>1. SavesTypeOK /\ requests' \in 0 .. MaxRequests
  BY DEF SavesInv, SavesTypeOK, Ends, Resume, StartCommit, Commit, CommitFails
<1>2. ASSUME request[c].phase # "idle"
      PROVE  /\ request[c] \in [phase : {"waiting", "answered", "committing"},
                               id : Ids, new : RowStates, process : Processes]
             /\ Pending(c)
  BY <1>1, <1>2 DEF SavesTypeOK, Idle, Pending
<1>3. CASE Resume(c)
  <2>1. /\ Pending(c) /\ UNCHANGED <<row, touched, saves>>
        /\ request[c] \in [phase : {"waiting", "answered", "committing"},
                           id : Ids, new : RowStates, process : Processes]
    BY <1>2, <1>3 DEF Resume, Waits
  <2>2. CASE row[request[c].id] = "absent"
    BY <1>1, <1>3, <2>1, <2>2, AskStepInv DEF Resume
  <2>3. CASE row[request[c].id] # "absent"
    <3> DEFINE ask == [request[c] EXCEPT !.phase = "answered"]
    <3>1. /\ ask \in [phase : {"waiting", "answered", "committing"},
                      id : Ids, new : RowStates, process : Processes]
          /\ ask.id = request[c].id
      BY <2>1
    <3>2. request' = [request EXCEPT ![c] = ask] /\ ~LockedForUser(c, request[c].id)
      BY <1>3, <2>3 DEF Resume
    <3> HIDE DEF ask
    <3> QED BY <1>1, <2>1, <2>3, <3>1, <3>2, AskStepInv
  <2> QED BY <2>2, <2>3
<1>4. CASE StartCommit(c)
  <2> DEFINE ask == [request[c] EXCEPT !.phase = "committing"]
  <2>1. /\ Pending(c) /\ UNCHANGED <<row, touched, saves>> /\ request[c].phase = "answered"
        /\ request[c] \in [phase : {"waiting", "answered", "committing"},
                           id : Ids, new : RowStates, process : Processes]
    BY <1>2, <1>4 DEF StartCommit
  <2>2. /\ ask \in [phase : {"waiting", "answered", "committing"},
                    id : Ids, new : RowStates, process : Processes]
        /\ ask.id = request[c].id /\ ask.new = request[c].new
    BY <2>1
  <2>3. ask.new # "absent" => HasLocked(c, ask.id)
    BY <2>1, <2>2 DEF HasLocked
  <2>4. request' = [request EXCEPT ![c] = ask]
    BY <1>4 DEF StartCommit
  <2> HIDE DEF ask
  <2> QED BY <1>1, <2>1, <2>2, <2>3, <2>4, AskStepInv
<1>5. CASE CommitFails(c)
  BY <1>1, <1>5, AskStepInv DEF CommitFails
<1>6. CASE Commit(c)
  <2> DEFINE id == request[c].id
  <2>1. /\ id \in Ids /\ request[c].new \in RowStates /\ Pending(c)
        /\ request[c].phase = "committing"
    BY <1>2, <1>6 DEF Commit
  <2>2. /\ row' = [row EXCEPT ![id] = request[c].new] /\ touched' = touched \cup {id}
        /\ request' = [request EXCEPT ![c] = Idle]
        /\ UNCHANGED <<spc, found, doomed, jobLock, last, requests>>
        /\ ~LockedForUser(c, id)
    BY <1>6 DEF Commit, saves
  <2> HIDE DEF id
  <2>3. SavesTypeOK'
    BY <1>1, <2>1, <2>2 DEF SavesTypeOK
  <2>4. \A i : Fresh(i)' <=> Fresh(i)
    BY <2>2 DEF Fresh
  <2>5. ~Fresh(id)
    BY <2>1 DEF SavesInv, RequestsKnow, id
  <2>6. FreshIsUnused'
    BY <1>1, <2>1, <2>2, <2>4, <2>5 DEF SavesInv, FreshIsUnused, SavesTypeOK
  <2>7. \A d \in Clients : Pending(d)' => d # c /\ Pending(d) /\ request'[d] = request[d]
    BY <1>1, <2>2 DEF Pending, Idle, SavesTypeOK
  <2>8. RequestsKnow'
    BY <2>4, <2>7 DEF SavesInv, RequestsKnow
  <2>9. \A d \in Clients, i \in Ids : HasLocked(d, i)' => d # c /\ HasLocked(d, i)
    BY <1>1, <2>2 DEF HasLocked, Idle, SavesTypeOK
  <2>10. OneHolder'
    BY <2>9 DEF SavesInv, OneHolder
  <2>11. DeletesKnow' /\ LastIsSaved' /\ DraftsOfOneSave'
    BY <1>1, <2>1, <2>2 DEF SavesInv, SavesTypeOK, DeletesKnow, LastIsSaved, DraftsOfOneSave,
       LockedForUser, LockedBySave
  <2>12. AnsweredHasItsRow'
    BY <1>1, <2>1, <2>2, <2>9
    DEF SavesInv, SavesTypeOK, AnsweredHasItsRow, LockedForUser, LockedBySave
  <2> QED BY <2>3, <2>6, <2>8, <2>10, <2>11, <2>12 DEF SavesInv
<1> QED BY <1>3, <1>4, <1>5, <1>6 DEF Ends

LEMMA SavesStart == Init => SavesInv
<1> SUFFICES ASSUME Init PROVE SavesInv
  OBVIOUS
<1>1. \A c \in Clients : request[c] = Idle
  BY DEF Init
<1>2. \A c \in Clients : ~Pending(c) /\ \A id \in Ids : ~HasLocked(c, id)
  BY <1>1 DEF Pending, HasLocked, Idle
<1>3. SavesTypeOK
  BY SaversAssumption, RequestsAssumption
  DEF Init, SavesTypeOK, RowStates, HoldingJob, InDelete
<1> QED
  BY <1>2, <1>3, SaversAssumption
  DEF Init, SavesInv, FreshIsUnused, Fresh, RequestsKnow, OneHolder, DeletesKnow, LastIsSaved,
      DraftsOfOneSave, AnsweredHasItsRow, InDelete

LEMMA SavesStep == SavesInv /\ [Next]_vars => SavesInv'
<1> SUFFICES ASSUME SavesInv, [Next]_vars PROVE SavesInv'
  OBVIOUS
<1>1. CASE UNCHANGED vars
  BY <1>1
  DEF vars, saves, users, SavesInv, SavesTypeOK, FreshIsUnused, Fresh, RequestsKnow, Pending,
      OneHolder, HasLocked, DeletesKnow, LastIsSaved, DraftsOfOneSave, AnsweredHasItsRow,
      LockedBySave
<1>2. CASE Next
  BY <1>2, SaveStepInv, AsksInv, EndsInv DEF Next
<1> QED BY <1>1, <1>2

\* The invariant holds always, whatever is lost, fails or waits.
THEOREM SavesInvariant == Spec => []SavesInv
<1> QED BY SavesStart, SavesStep, PTL DEF Spec

\* Type correctness, and the job's row held exactly while a save is at work
\* on the drafts (import_jobs.py:231-262).
THEOREM SavesTypeCorrect == Spec => []SavesTypeOK
<1>1. SavesInv => SavesTypeOK
  BY DEF SavesInv
<1> QED BY <1>1, SavesInvariant, PTL

\* However many results are saved for a job and however they interleave with
\* each other and with the user, the rows the user has not changed are those
\* of the last one saved (data_persistence.py:27-41).
THEOREM DraftsAreOfTheLastSave == Spec => []DraftsOfOneSave
<1>1. SavesInv => DraftsOfOneSave
  BY DEF SavesInv
<1> QED BY <1>1, SavesInvariant, PTL

\* An answered PATCH has its row until its commit
\* (transactions_routes.py:134-153, session.py:25).
THEOREM AnsweredKeepsItsRow == Spec => []AnsweredHasItsRow
<1>1. SavesInv => AnsweredHasItsRow
  BY DEF SavesInv
<1> QED BY <1>1, SavesInvariant, PTL

\* Only the user's own request takes away a row that has been accepted
\* (transactions.py:404-417, data_persistence.py:21-36).
THEOREM AcceptedStays == Spec => AcceptedIsKept
<1> DEFINE Kept == \A id \in Ids :
              /\ row[id] = "accepted" /\ row'[id] # "accepted"
              => \E c \in Clients : request[c] # Idle /\ request'[c] = Idle
<1>1. ASSUME SavesInv, [Next]_vars PROVE Kept
  <2>1. CASE row' = row
    BY <2>1
  <2>2. ASSUME NEW s \in Savers, CommitSave(s) PROVE row' = row \/ Kept
    <3>1. \A id \in Ids : id \in Parsed[s] => row[id] = "absent"
      BY <1>1, <2>2 DEF CommitSave, SavesInv, FreshIsUnused, Fresh
    <3>2. \A id \in doomed[s] : row[id] = "draft"
      BY <1>1 DEF SavesInv, DeletesKnow
    <3>3. \A id \in Ids : row[id] = "accepted" => row'[id] = "accepted"
      BY <2>2, <3>1, <3>2 DEF CommitSave
    <3> QED BY <3>3
  <2>3. ASSUME NEW c \in Clients, Commit(c) PROVE Kept
    <3>1. request[c] # Idle /\ request'[c] = Idle
      BY <1>1, <2>3 DEF Commit, Idle, SavesInv, SavesTypeOK
    <3> QED BY <3>1
  <2> QED
    BY <1>1, <2>1, <2>2, <2>3
    DEF Next, vars, SaveStep, AgentAnswers, SaveOutput, CheckCommitted, SaveMetadata,
        BeginDelete, DeleteDraft, CreateMany, HandleError, Fail, PatchIsDraft,
        DeleteTransaction, Asks, Ends, Resume, StartCommit, CommitFails
<1>2. SavesInv /\ [Next]_vars => [Kept]_vars
  BY <1>1
<1> QED BY <1>2, SavesInvariant, PTL DEF Spec, AcceptedIsKept
===============================================================================
