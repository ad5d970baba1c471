SPECIFICATION Spec
CHECK_DEADLOCK FALSE \* A disposed session stops.
CONSTANTS
  Documents = {d1, d2}
  r1 = r1
  r2 = r2
  r3 = r3
  Roots = {r1}
  Workspace <- OneFolder
  None = None
  Pieces = {a, b}
  MaxOpen = 1
  MaxText = 2
  MaxCancelled = 2
  PayloadsFit = TRUE
  MaxRestarts = 1
  MaxPending = 2
  MaxEdited = 2
  MaxVersion = 3
  MaxEvents = 4
  MaxCrashes = 2
SYMMETRY PieceSymmetry
INVARIANTS
  ReadyIsInitialized
  Converged
  DiagnosticsAreCurrent
  NobodyWaitsInVain
