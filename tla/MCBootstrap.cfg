SPECIFICATION MCSpec
CONSTANTS
  Parts = {"index", "bodies", "trees", "constants", "sets", "scripts"}
  Sources = 5
  Partitions = 4
  MaxRecords = 4
  Families = {"owner", "status", "output", "result", "rounds", "leaving"}
  MaxSize = 3
  MaxBlocks = 2
  MaxOperators = 2
  LastUnit = 1
  ByPartition = TRUE
  Programs <- MCPrograms
  Evaluated <- MCEvaluated
  Mentions <- MCMentions
  ProjectVersions <- MCVersions
  Rejected <- MCRejected
  Empty = Empty
  ObjectA = ObjectA
  ObjectB = ObjectB
INVARIANTS
  IndexIsExact
  ConstantsAreExact
  ResolvedTogether
  SuccessIsEarned
  ResultIsTheVerdict
  CompleteIsOneBuild
PROPERTIES
  AcceptedIsSafe
  EmittedMeansTheSame
  LoweredMeansTheSame
  SourcesAreReadBack
CHECK_DEADLOCK FALSE
