SPECIFICATION AssertionSpec
CONSTANTS
  Batches <- SomeBatches
  Options <- TestOptions
  Hash <- TheHash
  MaxRuns = 2
INVARIANTS PassedMeansSame CountsOfWholeBatch
PROPERTIES UpdatePasses SameSeriesPass
