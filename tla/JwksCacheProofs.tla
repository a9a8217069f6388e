---------------------------- MODULE JwksCacheProofs ----------------------------
(***************************************************************************)
(* Theorems about module JwksCache, for any set of requests and keys and   *)
(* any life and fetch limit.                                               *)
(*                                                                         *)
(* The argument.  A set of key ids that was read from the provider some    *)
(* ticks ago differs from what the provider publishes now only in keys     *)
(* that have changed since then.  This is so for the answer under way,     *)
(* read `old' ticks ago, and for the fresh cache, read lag + Life - left   *)
(* ticks ago.  A tick ages both sides alike, a rotation makes the key a    *)
(* recent one, and a fill turns the first into the second.  Decisions are  *)
(* taken with one of the two sets, and both ages are below Staleness.      *)
(***************************************************************************)
EXTENDS JwksCache, TLAPS

\* ks was what the provider published `age' ticks ago, up to keys that have
\* changed since.
ReadAgo(ks, age) ==
  \A k \in Keys : ~(k \in ks <=> k \in published) => since[k] <= age

OneFetch == \A r, s \in Requests :
              pc[r] \in Fetching /\ pc[s] \in Fetching => r = s
StaleWhileFetching == \A r \in Requests : pc[r] \in Fetching => left = 0
AnswerIsRecent ==
  \A r \in Requests : pc[r] = "answered" => ReadAgo(payload, old)
CacheIsRecent == left > 0 => ReadAgo(keys, lag + (Life - left))

CacheInv == TypeOK /\ old <= elapsed
            /\ OneFetch /\ StaleWhileFetching /\ AnswerIsRecent /\ CacheIsRecent

\* What CacheInv asks at the start of each age: nothing differs yet.
LEMMA ReadNow == \A age : ReadAgo(published, age)
BY DEF ReadAgo

LEMMA CacheInvInit == Init => CacheInv
<1> SUFFICES ASSUME Init PROVE CacheInv
  OBVIOUS
<1> USE TimeAssumption DEF Init
<1>1. TypeOK
  BY DEF TypeOK, Horizon, Steps
<1>2. \A r \in Requests : pc[r] \notin Fetching
  BY DEF Fetching
<1>3. OneFetch /\ StaleWhileFetching /\ AnswerIsRecent /\ CacheIsRecent
  BY <1>2 DEF OneFetch, StaleWhileFetching, AnswerIsRecent, CacheIsRecent,
              Fetching
<1> QED
  BY <1>1, <1>3 DEF CacheInv

\* A request that moves without ending or starting a fetch leaves the rest
\* of the invariant alone.
LEMMA OnlyOneMoves ==
  ASSUME CacheInv, NEW r \in Requests, NEW next \in Steps \ Fetching,
         pc[r] \notin Fetching, Goto(r, next),
         kid' \in [Requests -> Keys \cup {NoKey}],
         UNCHANGED <<provider, cache, fetch>>
  PROVE  CacheInv'
<1> USE DEF CacheInv, Goto, provider, cache, fetch
<1>1. \A s \in Requests : pc'[s] \in Fetching =>
                            pc[s] \in Fetching /\ pc'[s] = pc[s]
  BY DEF TypeOK
<1>2. TypeOK'
  BY DEF TypeOK
<1>3. OneFetch' /\ StaleWhileFetching'
  BY <1>1 DEF OneFetch, StaleWhileFetching
<1>4. AnswerIsRecent'
  BY <1>1 DEF AnswerIsRecent, ReadAgo, Fetching
<1>5. CacheIsRecent'
  BY DEF CacheIsRecent, ReadAgo
<1> QED
  BY <1>2, <1>3, <1>4, <1>5

LEMMA DecisionsAreSteps ==
  \A k, ks : Decisions(k, ks) \subseteq Steps \ Fetching
BY DEF Decisions, Verdicts, Steps, Answers, Fetching

LEMMA AskKeepsInv ==
  ASSUME CacheInv, NEW r \in Requests, Ask(r)
  PROVE  CacheInv'
<1>1. pc[r] \notin Fetching
  BY DEF Ask, Fetching
<1>2. PICK k \in Keys \cup {NoKey} :
        /\ kid' = [kid EXCEPT ![r] = k]
        /\ \E next \in IF k = NoKey THEN {"401"}
                        ELSE IF Fresh THEN Decisions(k, keys)
                        ELSE {"waiting"} : Goto(r, next)
  BY DEF Ask
<1>3. PICK next \in Steps \ Fetching : Goto(r, next)
  BY <1>2, DecisionsAreSteps
     DEF Steps, Answers, Verdicts, Fetching
<1>4. kid' \in [Requests -> Keys \cup {NoKey}]
  BY <1>2 DEF CacheInv, TypeOK
<1> QED
  BY <1>1, <1>3, <1>4, OnlyOneMoves DEF Ask

LEMMA LeaveKeepsInv ==
  ASSUME CacheInv, NEW r \in Requests, Leave(r)
  PROVE  CacheInv'
<1>1. pc[r] \notin Fetching /\ "idle" \in Steps \ Fetching
  BY DEF Leave, Fetching, Answers, Verdicts, Steps
<1>2. kid' \in [Requests -> Keys \cup {NoKey}]
  BY DEF Leave, CacheInv, TypeOK
<1> QED
  BY <1>1, <1>2, OnlyOneMoves DEF Leave

LEMMA AcquireKeepsInv ==
  ASSUME CacheInv, NEW r \in Requests, Acquire(r)
  PROVE  CacheInv'
<1>1. pc[r] = "waiting" /\ pc[r] \notin Fetching
  BY DEF Acquire, Fetching
<1>2. kid' \in [Requests -> Keys \cup {NoKey}]
  BY DEF Acquire, CacheInv, TypeOK, vars
<1>3. CASE Fresh
  <2>1. PICK next \in Steps \ Fetching : Goto(r, next)
    BY <1>3, DecisionsAreSteps DEF Acquire
  <2> QED
    BY <1>1, <1>2, <2>1, OnlyOneMoves DEF Acquire
<1>4. CASE ~Fresh
  <2> USE <1>4 DEF CacheInv, Acquire, provider, cache, fetch
  <2>1. Goto(r, "fetching")
    OBVIOUS
  <2>2. TypeOK'
    BY <2>1 DEF TypeOK, Goto, Steps, Fetching
  <2>3. \A s \in Requests : pc[s] \notin Fetching
    BY DEF FetchInProgress
  <2>4. \A s \in Requests : s # r => pc'[s] \notin Fetching
    BY <2>1, <2>3 DEF Goto, TypeOK
  <2>5. left = 0
    BY DEF Fresh, TypeOK
  <2>6. OneFetch' /\ StaleWhileFetching'
    BY <2>4, <2>5 DEF OneFetch, StaleWhileFetching
  <2>7. AnswerIsRecent' /\ CacheIsRecent'
    <3>1. pc'[r] = "fetching"
      BY <2>1 DEF Goto, TypeOK
    <3> QED
      BY <2>4, <2>5, <3>1 DEF AnswerIsRecent, CacheIsRecent, Fetching
  <2> QED
    BY <2>2, <2>6, <2>7
<1> QED
  BY <1>3, <1>4

\* The request whose fetch is in progress is the only one that fetches.
LEMMA OthersDoNotFetch ==
  ASSUME CacheInv, NEW r \in Requests, pc[r] \in Fetching,
         NEW next, Goto(r, next)
  PROVE  /\ \A s \in Requests : s # r => pc'[s] = pc[s] /\ pc[s] \notin Fetching
         /\ pc'[r] = next
         /\ left = 0
BY DEF CacheInv, OneFetch, StaleWhileFetching, Goto, TypeOK

LEMMA ProviderAnswersKeepsInv ==
  ASSUME CacheInv, NEW r \in Requests, ProviderAnswers(r)
  PROVE  CacheInv'
<1> USE DEF CacheInv, ProviderAnswers, provider, cache
<1>1. /\ \A s \in Requests : s # r => pc'[s] = pc[s] /\ pc[s] \notin Fetching
      /\ pc'[r] = "answered"
      /\ left = 0
  BY OthersDoNotFetch DEF Fetching
<1>2. TypeOK' /\ old' <= elapsed'
  BY TimeAssumption DEF TypeOK, Goto, Steps, Fetching
<1>3. OneFetch' /\ StaleWhileFetching'
  BY <1>1 DEF OneFetch, StaleWhileFetching
<1>4. AnswerIsRecent' /\ CacheIsRecent'
  <2>1. ReadAgo(published, 0)'
    BY DEF ReadAgo
  <2> QED
    BY <1>1, <2>1 DEF AnswerIsRecent, CacheIsRecent, Fetching, ReadAgo
<1> QED
  BY <1>2, <1>3, <1>4

LEMMA FillKeepsInv ==
  ASSUME CacheInv, NEW r \in Requests, Fill(r)
  PROVE  CacheInv'
<1> USE DEF CacheInv, Fill, provider, NoFetch
<1>1. PICK next \in Steps \ Fetching : Goto(r, next)
  BY DecisionsAreSteps
<1>2. \A s \in Requests : pc'[s] \notin Fetching
  <2>1. pc[r] \in Fetching
    BY DEF Fetching
  <2> QED
    BY <1>1, <2>1, OthersDoNotFetch
<1>3. TypeOK' /\ old' <= elapsed'
  BY <1>1, TimeAssumption DEF TypeOK, Goto
<1>4. OneFetch' /\ StaleWhileFetching' /\ AnswerIsRecent'
  BY <1>2 DEF OneFetch, StaleWhileFetching, AnswerIsRecent, Fetching
<1>5. CacheIsRecent'
  <2>1. ReadAgo(payload, old)
    BY DEF AnswerIsRecent
  <2>2. lag' + (Life - left') = old
    BY TimeAssumption DEF TypeOK
  <2>3. ReadAgo(keys, lag + (Life - left))'
    BY <2>1, <2>2 DEF ReadAgo
  <2> QED
    BY <2>3 DEF CacheIsRecent
<1> QED
  BY <1>3, <1>4, <1>5

LEMMA FetchFailsKeepsInv ==
  ASSUME CacheInv, NEW r \in Requests, FetchFails(r)
  PROVE  CacheInv'
<1> USE DEF CacheInv, FetchFails, provider, cache, NoFetch
<1>1. \A s \in Requests : pc'[s] \notin Fetching
  BY OthersDoNotFetch DEF Fetching
<1>2. TypeOK' /\ old' <= elapsed'
  BY TimeAssumption DEF TypeOK, Goto, Steps, Answers
<1>3. OneFetch' /\ StaleWhileFetching' /\ AnswerIsRecent'
  BY <1>1 DEF OneFetch, StaleWhileFetching, AnswerIsRecent, Fetching
<1>4. CacheIsRecent'
  BY DEF CacheIsRecent, ReadAgo
<1> QED
  BY <1>2, <1>3, <1>4

\* A rotation touches one key, and that key has changed just now.
LEMMA RotateKeepsInv ==
  ASSUME CacheInv, Rotate
  PROVE  CacheInv'
<1> USE DEF CacheInv, cache, fetch
<1>1. PICK k \in Keys :
        /\ published' = IF k \in published THEN published \ {k}
                                           ELSE published \cup {k}
        /\ since' = [since EXCEPT ![k] = 0]
  BY DEF Rotate
<1>2. ASSUME NEW ks, NEW age \in Nat, ReadAgo(ks, age)
      PROVE  \A q \in Keys : ~(q \in ks <=> q \in published') => since'[q] <= age
  <2>1. since'[k] = 0 /\ \A q \in Keys : q # k => since'[q] = since[q]
    BY <1>1 DEF TypeOK
  <2>2. \A q \in Keys : q # k => (q \in published' <=> q \in published)
    BY <1>1
  <2> QED
    BY <1>2, <2>1, <2>2 DEF ReadAgo
<1>3. TypeOK' /\ old' <= elapsed'
  BY <1>1, TimeAssumption DEF TypeOK, Rotate, Horizon
<1>4. OneFetch' /\ StaleWhileFetching'
  BY DEF Rotate, OneFetch, StaleWhileFetching
<1>5. AnswerIsRecent'
  BY <1>2 DEF Rotate, AnswerIsRecent, ReadAgo, TypeOK
<1>6. CacheIsRecent'
  <2>1. lag + (Life - left) \in Nat
    BY TimeAssumption DEF TypeOK
  <2> QED
    BY <1>2, <2>1 DEF Rotate, CacheIsRecent, ReadAgo
<1> QED
  BY <1>3, <1>4, <1>5, <1>6

\* A tick makes what was read and what was changed older by one.
LEMMA TickKeepsInv ==
  ASSUME CacheInv, Tick
  PROVE  CacheInv'
<1> USE DEF CacheInv, Tick
<1>1. ASSUME NEW ks, NEW age \in Nat, ReadAgo(ks, age)
      PROVE  \A q \in Keys : ~(q \in ks <=> q \in published) => since'[q] <= age + 1
  <2>1. \A q \in Keys : since'[q] <= since[q] + 1
    BY TimeAssumption DEF TypeOK, Older, Horizon
  <2>2. \A q \in Keys : since[q] \in Nat /\ since'[q] \in Nat
    BY TimeAssumption DEF TypeOK, Older, Horizon
  <2> QED
    BY <1>1, <2>1, <2>2 DEF ReadAgo
<1>2. TypeOK' /\ old' <= elapsed'
  <2>1. since' \in [Keys -> 0 .. Horizon]
    BY TimeAssumption DEF TypeOK, Older, Horizon
  <2>2. left' \in 0 .. Life
    BY TimeAssumption DEF TypeOK, Fresh
  <2>3. elapsed' \in 0 .. FetchLimit /\ old' \in 0 .. FetchLimit /\ old' <= elapsed'
    BY TimeAssumption DEF TypeOK
  <2> QED
    BY <2>1, <2>2, <2>3 DEF TypeOK
<1>3. OneFetch' /\ StaleWhileFetching'
  BY DEF OneFetch, StaleWhileFetching, Fresh
<1>4. AnswerIsRecent'
  <2> SUFFICES ASSUME NEW r \in Requests, pc[r] = "answered"
               PROVE  ReadAgo(payload, old)'
    BY DEF AnswerIsRecent
  <2>1. old' = old + 1
    BY DEF FetchInProgress, Fetching
  <2>2. ReadAgo(payload, old) /\ old \in Nat
    BY DEF AnswerIsRecent, TypeOK
  <2> QED
    BY <1>1, <2>1, <2>2 DEF ReadAgo
<1>5. CacheIsRecent'
  <2> SUFFICES ASSUME left' > 0
               PROVE  ReadAgo(keys, lag + (Life - left))'
    BY DEF CacheIsRecent
  <2>1. left > 0 /\ left' = left - 1
    BY DEF Fresh, TypeOK
  <2>2. ReadAgo(keys, lag + (Life - left)) /\ lag + (Life - left) \in Nat
    BY <2>1, TimeAssumption DEF CacheIsRecent, TypeOK
  <2>3. lag' + (Life - left') = lag + (Life - left) + 1
    BY <2>1, TimeAssumption DEF TypeOK
  <2> QED
    BY <1>1, <2>2, <2>3 DEF ReadAgo
<1> QED
  BY <1>2, <1>3, <1>4, <1>5

LEMMA CacheInvStep == CacheInv /\ [Next]_vars => CacheInv'
<1> SUFFICES ASSUME CacheInv, [Next]_vars PROVE CacheInv'
  OBVIOUS
<1>1. ASSUME NEW r \in Requests, Ask(r) PROVE CacheInv'
  BY <1>1, AskKeepsInv
<1>2. ASSUME NEW r \in Requests, Acquire(r) PROVE CacheInv'
  BY <1>2, AcquireKeepsInv
<1>3. ASSUME NEW r \in Requests, Await(r) PROVE CacheInv'
  BY <1>3, ProviderAnswersKeepsInv, FillKeepsInv, FetchFailsKeepsInv DEF Await
<1>4. ASSUME NEW r \in Requests, Leave(r) PROVE CacheInv'
  BY <1>4, LeaveKeepsInv
<1>5. CASE UNCHANGED vars
  BY <1>5 DEF CacheInv, TypeOK, OneFetch, StaleWhileFetching, AnswerIsRecent,
              CacheIsRecent, ReadAgo, vars, provider, cache, fetch
<1> QED
  BY <1>1, <1>2, <1>3, <1>4, <1>5, RotateKeepsInv, TickKeepsInv DEF Next

\* The inductive invariant of the cache.
THEOREM CacheInvariant == Spec => []CacheInv
BY CacheInvInit, CacheInvStep, PTL DEF Spec

\* Ticks, key ids and steps keep their types; in particular a cache's keys
\* took no longer to arrive than a fetch is assumed to take.
THEOREM CacheTypeCorrect == Spec => []TypeOK
<1>1. CacheInv => TypeOK
  BY DEF CacheInv
<1> QED
  BY <1>1, CacheInvariant, PTL

\* However many requests find the cache expired, one of them fetches, and
\* nobody fetches while the keys are fresh.
THEOREM NeverFetchesTwice == Spec => []OneFetchPerLife
<1>1. CacheInv => OneFetchPerLife
  BY DEF CacheInv, TypeOK, OneFetch, StaleWhileFetching, OneFetchPerLife,
         FetchInProgress, Fresh
<1> QED
  BY <1>1, CacheInvariant, PTL

(***************************************************************************)
(* Answers.                                                                *)
(***************************************************************************)

\* A step that gives an answer about a key decides with a key set that was
\* read less than Staleness ticks ago.
LEMMA DecidedOnRecentKeys ==
  ASSUME CacheInv, [Next]_vars, NEW r \in Requests, NEW answer,
         answer \in {"200", "unknown_key"}, Answered(r, answer)
  PROVE  \E ks \in SUBSET Keys : \E age \in Nat :
            /\ age < Staleness /\ ReadAgo(ks, age)
            /\ answer \in Decisions(kid'[r], ks) /\ kid'[r] \in Keys \cup {NoKey}
<1> USE DEF CacheInv, Answered
<1>0. /\ kid'[r] \in Keys \cup {NoKey} /\ pc \in [Requests -> Steps]
      /\ kid \in [Requests -> Keys \cup {NoKey}]
  BY CacheInvStep DEF TypeOK
<1>1. CASE Fresh /\ answer \in Decisions(kid'[r], keys)
  <2>1. lag + (Life - left) \in Nat /\ lag + (Life - left) < Staleness
    BY <1>1, TimeAssumption DEF TypeOK, Fresh, Staleness
  <2> QED
    BY <1>0, <1>1, <2>1 DEF CacheIsRecent, Fresh, TypeOK
<1>2. CASE pc[r] = "answered" /\ answer \in Decisions(kid'[r], payload)
  <2>1. old \in Nat /\ old < Staleness
    BY TimeAssumption DEF TypeOK, Staleness
  <2> QED
    BY <1>0, <1>2, <2>1 DEF AnswerIsRecent, TypeOK
<1>3. ASSUME NEW s \in Requests, Ask(s)
      PROVE  Fresh /\ answer \in Decisions(kid'[r], keys)
  <2>1. PICK k \in Keys \cup {NoKey} :
          /\ kid' = [kid EXCEPT ![s] = k]
          /\ \E next \in IF k = NoKey THEN {"401"}
                          ELSE IF Fresh THEN Decisions(k, keys)
                          ELSE {"waiting"} : Goto(s, next)
    BY <1>3 DEF Ask
  <2>2. s = r
    BY <1>0, <2>1 DEF Goto
  <2>3. kid'[r] = k
    BY <1>0, <2>1, <2>2
  <2>4. pc'[r] \in IF k = NoKey THEN {"401"}
                   ELSE IF Fresh THEN Decisions(k, keys) ELSE {"waiting"}
    BY <1>0, <2>1, <2>2 DEF Goto
  <2> QED
    BY <2>3, <2>4
<1>4. ASSUME NEW s \in Requests, Acquire(s)
      PROVE  Fresh /\ answer \in Decisions(kid'[r], keys)
  <2>1. PICK next \in IF Fresh THEN Decisions(kid[s], keys) ELSE {"fetching"} :
          Goto(s, next)
    BY <1>4 DEF Acquire
  <2>2. s = r /\ pc'[r] = next
    BY <1>0, <2>1 DEF Goto
  <2>3. kid' = kid
    BY <1>4 DEF Acquire
  <2> QED
    BY <2>1, <2>2, <2>3
<1>5. ASSUME NEW s \in Requests, Fill(s)
      PROVE  pc[r] = "answered" /\ answer \in Decisions(kid'[r], payload)
  <2>1. PICK next \in Decisions(kid[s], payload) : Goto(s, next)
    BY <1>5 DEF Fill
  <2>2. s = r /\ pc'[r] = next
    BY <1>0, <2>1 DEF Goto
  <2>3. kid' = kid
    BY <1>5 DEF Fill
  <2> QED
    BY <1>5, <2>1, <2>2, <2>3 DEF Fill
<1>6. ASSUME NEW s \in Requests,
             ProviderAnswers(s) \/ FetchFails(s) \/ Leave(s)
      PROVE  FALSE
  <2>1. Goto(s, "answered") \/ Goto(s, "503") \/ Goto(s, "idle")
    BY <1>6 DEF ProviderAnswers, FetchFails, Leave
  <2> QED
    BY <1>0, <2>1 DEF Goto
<1>7. CASE Rotate \/ Tick \/ UNCHANGED vars
  BY <1>7 DEF Rotate, Tick, vars
<1> QED
  BY <1>1, <1>2, <1>3, <1>4, <1>5, <1>6, <1>7 DEF Next, Await

LEMMA AnswersAreRecent ==
  ASSUME CacheInv, [Next]_vars, NEW r \in Requests
  PROVE  /\ Answered(r, "200") =>
              kid'[r] \in published \/ ChangedLately(kid'[r])
         /\ Answered(r, "unknown_key") =>
              kid'[r] \notin published \/ ChangedLately(kid'[r])
<1>0. /\ published \subseteq Keys /\ Staleness \in Nat
      /\ \A k \in Keys : since[k] \in Nat
  BY TimeAssumption DEF CacheInv, TypeOK, Staleness, Horizon
<1>1. ASSUME Answered(r, "200")
      PROVE  kid'[r] \in published \/ ChangedLately(kid'[r])
  <2>1. PICK ks \in SUBSET Keys : \E age \in Nat :
            /\ age < Staleness /\ ReadAgo(ks, age)
            /\ "200" \in Decisions(kid'[r], ks) /\ kid'[r] \in Keys \cup {NoKey}
    BY <1>1, DecidedOnRecentKeys
  <2>2. kid'[r] \in ks
    BY <2>1 DEF Decisions
  <2> QED
    BY <1>0, <2>1, <2>2 DEF ReadAgo, ChangedLately
<1>2. ASSUME Answered(r, "unknown_key")
      PROVE  kid'[r] \notin published \/ ChangedLately(kid'[r])
  <2>1. PICK ks \in SUBSET Keys : \E age \in Nat :
            /\ age < Staleness /\ ReadAgo(ks, age)
            /\ "unknown_key" \in Decisions(kid'[r], ks)
            /\ kid'[r] \in Keys \cup {NoKey}
    BY <1>2, DecidedOnRecentKeys
  <2>2. kid'[r] \notin ks
    BY <2>1 DEF Decisions, Verdicts
  <2> QED
    BY <1>0, <2>1, <2>2 DEF ReadAgo, ChangedLately
<1> QED
  BY <1>1, <1>2

\* A withdrawn key is accepted for less than Life + FetchLimit ticks more.
THEOREM WithdrawnKeysForgotten == Spec => WithdrawnKeyIsForgotten
<1>1. CacheInv /\ [Next]_vars =>
        [\A r \in Requests :
           Answered(r, "200") =>
             \/ kid'[r] \in published
             \/ ChangedLately(kid'[r])]_vars
  BY AnswersAreRecent
<1> QED
  BY <1>1, CacheInvariant, PTL DEF Spec, WithdrawnKeyIsForgotten

\* A published key is refused for less than Life + FetchLimit ticks.
THEOREM PublishedKeysLearned == Spec => PublishedKeyIsLearned
<1>1. CacheInv /\ [Next]_vars =>
        [\A r \in Requests :
           Answered(r, "unknown_key") =>
             \/ kid'[r] \notin published
             \/ ChangedLately(kid'[r])]_vars
  BY AnswersAreRecent
<1> QED
  BY <1>1, CacheInvariant, PTL DEF Spec, PublishedKeyIsLearned
===============================================================================
