SPECIFICATION FairSpec
CONSTANTS
  Stream = {s1, s2, s3}
  e1 = e1
  e2 = e2
  Event <- AllEvents
  Filter <- Filters
  MaxBacklog = 3
  ReplayLimit = 2
  Cap = 2
  NoStream = NoStream
  MaxPublished = 4
INVARIANTS
  FeedIsExact
  SlotsAreOpenStreams
PROPERTIES
  ClosedIsSilent
  AbortedIsReleased
CHECK_DEADLOCK FALSE
