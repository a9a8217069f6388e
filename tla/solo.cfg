\* One worker under fairness, two statements of one line, three deaths.
CONSTANTS
  w1 = w1
  l1 = l1
  Owners = {w1}
  NoOwner = NoOwner
  MaxAttempts = 3
  MaxClaimsById = 100
  MaxCrashes = 3
  Jobs = {1, 2}
  Lines = {l1}
SPECIFICATION FairSpec
INVARIANT SoleHolderOwnsRow
PROPERTIES LifecycleSpec UploadSettles
\* With every job over, an idle worker polls without changing anything.
CHECK_DEADLOCK FALSE
