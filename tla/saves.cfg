\* Three saves in two processes for one job, whose user sends up to three
\* requests.
CONSTANTS
  s1 = s1
  s2 = s2
  s3 = s3
  p = p
  q = q
  c1 = c1
  c2 = c2
  Savers = {s1, s2, s3}
  NoSaver = NoSaver
  Processes = {p, q}
  Home <- HomeOf
  Ids = {1, 2, 3, 4}
  Parsed <- ParsedBy
  Clients = {c1, c2}
  MaxRequests = 3
SPECIFICATION FairSpec
INVARIANTS DraftsOfOneSave AnsweredHasItsRow
PROPERTIES AcceptedIsKept CallEnds
\* Saves are over once they have ended, and processes may wait for each other.
CHECK_DEADLOCK FALSE
