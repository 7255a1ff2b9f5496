SPECIFICATION Spec
CONSTANTS
  Tests = {t1, t2}
  NoTest = NoTest
  LeaseDuration = 5
  RenewDeadline = 2
  RetryPeriod = 1
  RequestTimeout = 1
  MaxFaults = 4
  MaxCrashes = 1
SYMMETRY Symmetry
INVARIANTS
  TypeOK
  
  

  
