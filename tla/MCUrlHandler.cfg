SPECIFICATION Spec
CONSTANTS
  Instances = 2
  Configured = {"absent", "idle", "opening"}
  MaxIncidents = 3
INVARIANTS HandledOnce UrlJoins
PROPERTY StartsEnd
CHECK_DEADLOCK FALSE
