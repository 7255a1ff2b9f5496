SPECIFICATION Spec
CONSTANTS
  Scripts <- SomeScripts
  Content <- TheContent
  Path <- ThePath
  Mounts <- SomeMounts
  Others = {"o1", "o2"}
  MaxRetries = 2
  MaxFaults = 2
INVARIANTS PodAccepted CopiedWhole
PROPERTIES NoLostUpdate 
