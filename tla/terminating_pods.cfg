SPECIFICATION Spec
CONSTANTS
  Pods = {"agent1", "agent2"}
  Collectors = {"agent1", "agent2"}
  ControlPlane = {"agent1"}
  Timeout = 3
  MinReady = 1
  TailLines = 2
  MaxEvents = 2
INVARIANT NoneTerminating
