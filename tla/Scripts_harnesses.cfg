SPECIFICATION ScriptsSpec
CONSTANTS
  Path <- MCPath
  Route <- MCRoute
  Instance <- MCInstance
  Sample <- MCSample
  Floor = {"audit"}
  Public = {"health"}
  Images <- MCImages
  Reviewed <- MCReviewed
  Plan <- MCPlan
  Byte <- MCByte
  SizeLine <- MCSizeLine
  Responses <- MCResponses
  MaxFrame = 2
  HeadLimit = 6
  SizeLineLimit = 3
  SWEEP_QUIET = 2
  SWEEP_BUDGET = 2
  SWEEP_MAX_LIST_ERRORS = 2
INVARIANTS
  SilentTeardownIsClean
  TeardownIsBounded
  NothingOutlivesTheProcess
  PruneRecovers
  PassIsGated
  NothingMovesUnasked
  PassedAsPinned
  DecodedIsWritten
  FrameInHandIsGiven
CHECK_DEADLOCK FALSE
