\* Two requests, two keys, keys that live for two ticks and fetches that may
\* take one.
CONSTANTS
  r1 = r1
  r2 = r2
  k1 = k1
  k2 = k2
  Requests = {r1, r2}
  Keys = {k1, k2}
  NoKey = NoKey
  Life = 2
  FetchLimit = 1
SPECIFICATION FairSpec
INVARIANTS TypeOK OneFetchPerLife
PROPERTIES WithdrawnKeyIsForgotten PublishedKeyIsLearned EveryoneIsAnswered
