SPECIFICATION Spec
CONSTANTS
  Payloads <- SomePayloads
  Want <- Expected
  Timeout = 2
  Interval = 1
  MaxPayloads = 4
INVARIANTS TypeOK OneLook FallsBackOnlyThen ReturnedAsClaimed
PROPERTY SelectionEnds
