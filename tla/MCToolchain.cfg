SPECIFICATION ToolchainSpec
CONSTANTS
  Parts = {"server", "measure", "supervise", "hashing", "cache", "publication"}
  Documents = {d1, d2}
  Roots = {r1}
  None = None
  MaxOpen = 1
  MaxText = 1
  MaxCancelled = 2
  PayloadsFit = TRUE
  MaxMemory = 2
  PrivateLimits = {1, 2}
  WorkingLimits = {1}
  NoLimit = NoLimit
  MaxRoom = 3
  PipeRoom = 2
  MemoryLimit = 0
  MaxResident = 1
  Threads = {t1, t2, t3}
  Versions = {v1, v2}
  Contents = {v1, v2}
  Assets = {1, 2, 3}
  Record = 2
  MaxCommits = 3
  MaxFailures = 2
INVARIANTS
  NothingOutlivesTheCall
  LimitsAreReported
  OutcomeIsTrue
  LibraryStays
  HitIsEarned
  PublishedIsApproved
PROPERTIES
  ExactlyOneAnswer
  CallComesBack
  SupervisionEnds
  RetryFinishes
  PublicationStays
  RefusalHasCause
CHECK_DEADLOCK FALSE
