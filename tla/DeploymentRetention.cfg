CONSTANTS
  Apps = {a1}
  Revisions = {r1, r2}
  NoRevision = NoRevision
  NoOperation = NoOperation
  NoRequest = NoRequest
  NoSnapshot = NoSnapshot
  NoApp = NoApp
  Probed = {a1}
  Stateful = {}
  MaxOperations = 2
  MaxStops = 0
  MaxCrashes = 0
SPECIFICATION Spec
CHECK_DEADLOCK FALSE
SYMMETRY Symmetry
INVARIANTS
  LifecycleRevisionRetained
