\* Two workers on one job: a rejected file.
CONSTANTS
  w1 = w1
  w2 = w2
  l1 = l1
  Owners = {w1, w2}
  NoOwner = NoOwner
  MaxAttempts = 3
  MaxClaimsById = 100
  MaxCrashes = 0
  Jobs = {1}
  Lines = {l1}
SPECIFICATION Spec
PROPERTY RejectedIsFinal
CHECK_DEADLOCK FALSE
