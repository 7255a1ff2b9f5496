SPECIFICATION Spec
CONSTANTS
  Tests = {t1, t2}
  NoTest = NoTest
  LeaseDuration = 12
  RenewDeadline = 8
  RetryPeriod = 1
  RequestTimeout = 4
  MaxFaults = 1
  MaxCrashes = 0
SYMMETRY Symmetry
INVARIANT HeldForDurationOfTest
