SPECIFICATION Spec
CONSTANTS
  Builders = {b1, b2}
  Partitions = 2
  Projects <- MCProjects
  None = None
SYMMETRY BuilderSymmetry
INVARIANTS
  BundleIsGenuine
PROPERTIES
  ImplementsCleanBuild
