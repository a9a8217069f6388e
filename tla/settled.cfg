\* Two uploads under one key, two deliveries a task, fairness.
CONSTANTS
  d1 = d1
  d2 = d2
  r1 = r1
  r2 = r2
  c1 = c1
  l1 = l1
  Owners = {d1, d2}
  NoOwner = NoOwner
  NoTask = NoTask
  MaxAttempts = 3
  MaxClaimsById = 6
  Jobs = {1}
  Lines = {l1}
  Requests = {r1, r2}
  Contents = {c1}
  MaxDeliveries = 2
  MaxFaults = 0
  MaxTimeouts = 0
SPECIFICATION FairSpec
PROPERTY AcceptedUploadSettles
\* When everything is answered, nothing more happens.
CHECK_DEADLOCK FALSE
