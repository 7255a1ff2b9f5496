SPECIFICATION Spec
CONSTANTS
  Suites <- SomeSuites
  Networks <- SomeNetworks
  Names = {"m1", "m2"}
  MaxPayloads = 2
INVARIANTS PortsReleased BindFailureFails 
PROPERTY TestEnds
