SPECIFICATION MCSpec
CONSTANTS
  Parts = {"bodies"}
  Sources = 5
  Partitions = 4
  MaxRecords = 4
  Families = {"jump"}
  MaxSize = 3
  MaxBlocks = 2
  MaxOperators = 2
  LastUnit = 1
  ByPartition = TRUE
  Programs <- MCPrograms
  Evaluated <- MCEvaluated
  Mentions <- MCMentions
  ProjectVersions <- MCVersions
  Rejected <- MCRejected
  Empty = Empty
  ObjectA = ObjectA
  ObjectB = ObjectB
PROPERTIES
  AcceptedIsSafe
CHECK_DEADLOCK FALSE
