SPECIFICATION FairSpec
CONSTANTS
  Tests = {t1, t2}
  NoTest = NoTest
  LeaseDuration = 8
  RenewDeadline = 5
  RetryPeriod = 1
  RequestTimeout = 1
  MaxFaults = 1
  MaxCrashes = 1
PROPERTIES
  
  WaitingEnds
  ReleaseEnds
