SPECIFICATION Spec
CONSTANTS
  Cycles = {34, 35}
  FirstLatest <- SomeLatest
  FirstImages <- SomeImages
  MaxLatest <- SomeBound
  MaxNews = 2
  MaxRuns = 2
  Jobs <- MatrixJobs
INVARIANTS MatrixCurrent OldOrNew
PROPERTY RunEnds
