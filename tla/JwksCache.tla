------------------------------ MODULE JwksCache ------------------------------
(***************************************************************************)
(* Authentication of a request (app/auth/supabase.py and dependencies.py): *)
(* SupabaseTokenVerifier keeps the identity provider's signing keys for    *)
(* cache_seconds and fetches them again when a token arrives later.        *)
(*                                                                         *)
(* The server runs one event loop, so the code between two awaits is one   *)
(* step.  The awaits are the lock and the fetch; during a fetch the        *)
(* provider answers with the keys it has at that moment, and the answer    *)
(* takes its time to arrive.  Time passes in ticks; what the code asks of  *)
(* a monotonic clock, `now < expires_at', is kept as the ticks that are    *)
(* left.                                                                   *)
(*                                                                         *)
(* That a fetch ends within FetchLimit ticks is assumed of the provider,   *)
(* not enforced by the code: its timeout of ten seconds bounds each        *)
(* connect, read, write and wait for a connection, and an answer that      *)
(* drips in may take longer than all of them.                              *)
(***************************************************************************)
EXTENDS Integers

CONSTANTS Requests,   \* requests that may be open at the same time
          Keys,       \* key ids
          NoKey,      \* the kid of a token that names none
          Life,       \* cache_seconds, in ticks
          FetchLimit  \* assumed: the ticks a whole fetch takes at most

ASSUME NoKeyAssumption == NoKey \notin Keys
ASSUME TimeAssumption  == Life \in Nat \ {0} /\ FetchLimit \in Nat

VARIABLES
  published,  \* the provider's current key ids
  since,      \* per key: ticks since it was last published or withdrawn
  keys,       \* _keys, the key ids of the last fetch
  left,       \* ticks until _expires_at
  lag,        \* ticks that last fetch took after the provider had answered
  payload,    \* key ids of the answer that is under way
  elapsed,    \* ticks since the fetch in progress was sent
  old,        \* ticks since the answer that is under way was given
  pc,         \* per request: next step or answer
  kid         \* per request: the key id of its token

provider == <<published, since>>
cache    == <<keys, left, lag>>
fetch    == <<payload, elapsed, old>>
vars     == <<provider, cache, fetch, pc, kid>>

Verdicts == {"200", "401", "403"}

Fetching == {"fetching", "answered"}
Answers  == Verdicts \cup {"503", "unknown_key"}
Steps    == {"idle", "waiting"} \cup Fetching \cup Answers

\* Ticks are counted as far as they matter.
Horizon      == Life + FetchLimit + 1
Older(ticks) == IF ticks < Horizon THEN ticks + 1 ELSE Horizon

Fresh           == left > 0
FetchInProgress == \E r \in Requests : pc[r] \in Fetching

Goto(r, next) == pc' = [pc EXCEPT ![r] = next]

\* `return self._keys[k]' with the keys ks, or the KeyError.  What verify and
\* get_current_user then make of the token is not told apart further: 200,
\* 401 for a signature, issuer, audience, time or claim that is wrong, 403
\* for another user than the one who is allowed and registered.
Decisions(k, ks) == IF k \in ks THEN Verdicts ELSE {"unknown_key"}

Init ==
  /\ published \in SUBSET Keys
  /\ since     = [k \in Keys |-> Horizon]
  /\ keys      = {} /\ left = 0 /\ lag = 0
  /\ payload   = {} /\ elapsed = 0 /\ old = 0
  /\ pc        = [r \in Requests |-> "idle"]
  /\ kid       = [r \in Requests |-> NoKey]

(***************************************************************************)
(* get_current_user, verify and _get_key.                                  *)
(***************************************************************************)

\* A slip: keys that were fetched once are used whatever their age.
AskStale(r) ==
  /\ pc[r] = "idle"
  /\ \E k \in Keys \cup {NoKey} :
       /\ kid' = [kid EXCEPT ![r] = k]
       /\ \E next \in IF k = NoKey THEN {"401"}
                       ELSE IF keys # {} THEN Decisions(k, keys)
                       ELSE {"waiting"} : Goto(r, next)
  /\ UNCHANGED <<provider, cache, fetch>>

\* A request arrives.  A missing or malformed token is turned away before
\* its key is looked up; with fresh keys the others are decided at once.
Ask(r) ==
  /\ pc[r] = "idle"
  /\ \E k \in Keys \cup {NoKey} :
       /\ kid' = [kid EXCEPT ![r] = k]
       /\ \E next \in IF k = NoKey THEN {"401"}
                       ELSE IF Fresh THEN Decisions(k, keys)
                       ELSE {"waiting"} : Goto(r, next)
  /\ UNCHANGED <<provider, cache, fetch>>

\* A slip: a caller that got the lock does not look at the cache again.
AcquireAndFetch(r) ==
  /\ pc[r] = "waiting" /\ ~FetchInProgress
  /\ Goto(r, "fetching")
  /\ UNCHANGED <<provider, cache, fetch, kid>>

\* The lock is held for the length of a fetch.  Whoever gets it looks at
\* the cache again: an earlier holder's fetch may have filled it.
Acquire(r) ==
  /\ pc[r] = "waiting" /\ ~FetchInProgress
  /\ \E next \in IF Fresh THEN Decisions(kid[r], keys) ELSE {"fetching"} :
       Goto(r, next)
  /\ UNCHANGED <<provider, cache, fetch, kid>>

ProviderAnswers(r) ==
  /\ pc[r] = "fetching"
  /\ Goto(r, "answered")
  /\ payload' = published
  /\ old' = 0
  /\ UNCHANGED <<provider, cache, elapsed, kid>>

NoFetch == payload' = {} /\ elapsed' = 0 /\ old' = 0

\* A slip: keys that are no longer published stay.
FillMerging(r) ==
  /\ pc[r] = "answered"
  /\ keys' = keys \cup payload /\ left' = Life /\ lag' = old
  /\ \E next \in Decisions(kid[r], keys \cup payload) : Goto(r, next)
  /\ NoFetch
  /\ UNCHANGED <<provider, kid>>

\* The answer arrives: its keys replace the old ones, live from now on and
\* decide about this token.
Fill(r) ==
  /\ pc[r] = "answered"
  /\ keys' = payload /\ left' = Life /\ lag' = old
  /\ \E next \in Decisions(kid[r], payload) : Goto(r, next)
  /\ NoFetch
  /\ UNCHANGED <<provider, kid>>

\* A slip: the lock's holder tries again until it succeeds.
FetchAgain(r) ==
  /\ pc[r] \in Fetching
  /\ Goto(r, "fetching")
  /\ NoFetch
  /\ UNCHANGED <<provider, cache, kid>>

\* AuthenticationUnavailableError: no connection, an error status, no key
\* set, or out of time.  The cache stays as it is, so the next in the queue
\* fetches for itself.
FetchFails(r) ==
  /\ pc[r] \in Fetching
  /\ Goto(r, "503")
  /\ NoFetch
  /\ UNCHANGED <<provider, cache, kid>>

\* The answer is sent; the next request may take its place.
Leave(r) ==
  /\ pc[r] \in Answers
  /\ Goto(r, "idle")
  /\ kid' = [kid EXCEPT ![r] = NoKey]
  /\ UNCHANGED <<provider, cache, fetch>>

(***************************************************************************)
(* The provider and time.                                                  *)
(***************************************************************************)
Rotate ==
  /\ \E k \in Keys :
       /\ published' = IF k \in published THEN published \ {k}
                                          ELSE published \cup {k}
       /\ since' = [since EXCEPT ![k] = 0]
  /\ UNCHANGED <<cache, fetch, pc, kid>>

\* A slip: the fetch has no timeout, and the provider never ends it.
TickWithoutTimeout ==
  /\ since' = [k \in Keys |-> Older(since[k])]
  /\ left'  = IF Fresh THEN left - 1 ELSE left
  /\ IF FetchInProgress
     THEN elapsed' = elapsed + 1 /\ old' = old + 1
     ELSE UNCHANGED <<elapsed, old>>
  /\ UNCHANGED <<published, keys, lag, payload, pc, kid>>

\* Time passes, but not while a fetch is at the limit that is assumed of it:
\* the answer, or a timeout of one of its operations, comes first.
Tick ==
  /\ FetchInProgress => elapsed < FetchLimit
  /\ since' = [k \in Keys |-> Older(since[k])]
  /\ left'  = IF Fresh THEN left - 1 ELSE left
  /\ IF FetchInProgress
     THEN elapsed' = elapsed + 1 /\ old' = old + 1
     ELSE UNCHANGED <<elapsed, old>>
  /\ UNCHANGED <<published, keys, lag, payload, pc, kid>>

Await(r) == ProviderAnswers(r) \/ Fill(r) \/ FetchFails(r)

Next ==
  \/ \E r \in Requests : Ask(r) \/ Acquire(r) \/ Await(r) \/ Leave(r)
  \/ Rotate
  \/ Tick

Spec == Init /\ [][Next]_vars

(***************************************************************************)
(* Fairness: a fetch ends, at the latest by its timeout, and the lock is   *)
(* handed to its waiters in the order they came, so none is passed over    *)
(* for ever.                                                               *)
(***************************************************************************)
FairSpec ==
  /\ Spec
  /\ \A r \in Requests : WF_vars(Await(r)) /\ SF_vars(Acquire(r))

(***************************************************************************)
(* Properties.                                                             *)
(***************************************************************************)
TypeOK ==
  /\ published \subseteq Keys
  /\ since \in [Keys -> 0 .. Horizon]
  /\ keys \subseteq Keys
  /\ left \in 0 .. Life
  /\ lag \in 0 .. FetchLimit
  /\ payload \subseteq Keys
  /\ elapsed \in 0 .. FetchLimit
  /\ old \in 0 .. FetchLimit
  /\ pc \in [Requests -> Steps]
  /\ kid \in [Requests -> Keys \cup {NoKey}]

\* Callers that found the cache expired queue up, and one of them fetches
\* for all: there is never more than one fetch, and none while the keys are
\* fresh, an unknown key id notwithstanding (supabase.py:93-108).
OneFetchPerLife ==
  /\ \A r, s \in Requests : pc[r] \in Fetching /\ pc[s] \in Fetching => r = s
  /\ FetchInProgress => ~Fresh

\* How long an answer may rest on keys the provider has changed.
Staleness == Life + FetchLimit

Answered(r, answer) == pc[r] # answer /\ pc'[r] = answer
ChangedLately(k)    == since[k] < Staleness

\* A key the provider has withdrawn stops being accepted within one life of
\* the cache and the time a fetch takes at most, which is an assumption
\* about the provider (supabase.py:103-108).
WithdrawnKeyIsForgotten ==
  [][\A r \in Requests :
        Answered(r, "200") =>
          \/ kid'[r] \in published
          \/ ChangedLately(kid'[r])]_vars

\* A key the provider has published is known within the same time, on the same
\* assumption: nobody is refused longer for carrying it (supabase.py:87-112).
PublishedKeyIsLearned ==
  [][\A r \in Requests :
        Answered(r, "unknown_key") =>
          \/ kid'[r] \notin published
          \/ ChangedLately(kid'[r])]_vars

\* Whether fetches fail or succeed, as long as they end, whoever waits for
\* keys gets an answer: a failed fetch passes the lock on (supabase.py:93-112).
EveryoneIsAnswered ==
  \A r \in Requests : pc[r] \in {"waiting"} \cup Fetching ~> pc[r] \in Answers
===============================================================================
