\* Two uploads of two files under one key, two deliveries a task, one of which
\* may outlive its deadline, and one fault.
CONSTANTS
  d1 = d1
  d2 = d2
  d3 = d3
  r1 = r1
  r2 = r2
  c1 = c1
  c2 = c2
  l1 = l1
  Owners = {d1, d2, d3}
  NoOwner = NoOwner
  NoTask = NoTask
  MaxAttempts = 3
  MaxClaimsById = 6
  Jobs = {1}
  Lines = {l1}
  Requests = {r1, r2}
  Contents = {c1, c2}
  MaxDeliveries = 2
  MaxFaults = 1
  MaxTimeouts = 1
SPECIFICATION Spec
SYMMETRY CloudSymmetry
INVARIANTS AnswersAreTrue AcceptedWasQueued TypeOK RowsConsistent
  AttemptsWithinDeliveries AcceptedStaysQueued
\* When everything is answered, nothing more happens.
CHECK_DEADLOCK FALSE
