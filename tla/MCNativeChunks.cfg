SPECIFICATION MCSpec
CONSTANTS
  Chunks = 4
  NumSources = 5
  Cold = TRUE
  Workers = 4
  Kinds = {"clean", "cached", "hit", "errors", "fatal", "growth", "long"}
  Ceiling = 2
  Slack = 0
  LongUnits = 2
INVARIANTS
  LaunchIsTruthful
  NoUseAfterDestroy
  ReturnIsClean
  OneWriterPerSource
PROPERTIES
  ImplementsSerial
  Terminates
