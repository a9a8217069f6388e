\* One worker that may die once, one statement of one line, two deletion
\* requests and one event stream.
CONSTANTS
  w1 = w1
  l1 = l1
  r1 = r1
  r2 = r2
  s1 = s1
  Owners = {w1}
  NoOwner = NoOwner
  MaxAttempts = 3
  MaxClaimsById = 100
  MaxCrashes = 1
  Jobs = {1}
  Lines = {l1}
  Requests = {r1, r2}
  Streams = {s1}
SPECIFICATION FairDeletionSpec
INVARIANTS DeletionTypeOK ActiveKeepsFile DeletedLeavesNothing StreamTellsFailure
PROPERTIES ActiveIsNotDeleted StreamEnds
