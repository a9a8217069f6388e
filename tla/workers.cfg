\* Three workers on one job, a statement of one line, one death.
CONSTANTS
  w1 = w1
  w2 = w2
  w3 = w3
  l1 = l1
  Owners = {w1, w2, w3}
  NoOwner = NoOwner
  MaxAttempts = 3
  MaxClaimsById = 100
  MaxCrashes = 1
  Jobs = {1}
  Lines = {l1}
SPECIFICATION Spec
SYMMETRY WorkerSymmetry
INVARIANTS TypeOK RowsConsistent LockNotAbandoned AttemptsBounded GivenUpAfterAllAttempts
\* With every job over, idle workers poll without changing anything.
CHECK_DEADLOCK FALSE
