\* Two workers on one job, a user who accepts its drafts.
CONSTANTS
  w1 = w1
  w2 = w2
  l1 = l1
  Owners = {w1, w2}
  NoOwner = NoOwner
  MaxAttempts = 3
  MaxClaimsById = 100
  MaxCrashes = 0
  Jobs = {1}
  Lines = {l1}
SPECIFICATION Spec
PROPERTY CommittedIsNotReplaced
CHECK_DEADLOCK FALSE
