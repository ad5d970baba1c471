SPECIFICATION Spec
CHECK_DEADLOCK FALSE \* A disposed session stops.
CONSTANTS
  Documents = {d1}
  r1 = r1
  r2 = r2
  r3 = r3
  Roots = {r1, r2, r3}
  Workspace <- TwoFolders
  None = None
  Pieces = {a}
  MaxOpen = 1
  MaxText = 1
  MaxCancelled = 2
  PayloadsFit = TRUE
  MaxRestarts = 1
  MaxPending = 2
  MaxEdited = 1
  MaxVersion = 2
  MaxEvents = 3
  MaxCrashes = 1
INVARIANTS
  RootIsAFolder
