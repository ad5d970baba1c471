SPECIFICATION FairSpec
CONSTANTS
  Chunks = 2
  Workers = 1
  NumSources = 5
  Partitions = 3
  MaxErrors = 1
  Capacity = 3
  Bases = {1, 2, 3}
  Buffer = 1
  Weights = {0, 1}
  Budget = 3
  HardLimit = 4
INVARIANTS
  NothingLeaks
  FailureHasCause
PROPERTIES
  ImplementsSerialFlow
  Terminates
