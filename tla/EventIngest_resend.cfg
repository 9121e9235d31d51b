SPECIFICATION FairSpec
CONSTANTS
  start = start
  end = end
  fail = fail
  Event = {start, end, fail}
  Sid = {s1}
  Type <- Types
  SessionOf <- OneSession
  Body <- Logs
  Malformed = Malformed
  Oversized = Oversized
  Key = {k1}
  NoKey = NoKey
  None = None
  Request = {r1, r2}
  MaxPosts = 2
  MaxFaults = 2
  MaxDeaths = 1
  MaxPurges = 1
INVARIANTS
  FannedOutOnce
  PinnedIsDone
  OneAnswerPerKey
  ReportedSessionsEnd
PROPERTIES
  StoredIsFannedOut
CHECK_DEADLOCK FALSE
