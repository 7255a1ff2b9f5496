SPECIFICATION FairSpec
CONSTANTS
  Kinds = {collectors, instrumentations}
  Finalized = {collectors}
  Setups <- TestSetups
  DefaultRelease = "sock"
  NewVersion = "v2"
  MaxCreations = 2
INVARIANTS
  PassedMeansClean
  CRDsMatchChart
PROPERTIES
  OperatorOutlivesFinalizers
  TeardownEnds
