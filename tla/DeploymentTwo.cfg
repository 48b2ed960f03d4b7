CONSTANTS
  Apps = {a1, a2}
  Revisions = {r1}
  NoRevision = NoRevision
  NoOperation = NoOperation
  NoRequest = NoRequest
  NoSnapshot = NoSnapshot
  NoApp = NoApp
  Probed = {a1}
  Stateful = {a2}
  MaxOperations = 2
  MaxStops = 0
  MaxCrashes = 0
SPECIFICATION Spec
CHECK_DEADLOCK FALSE
INVARIANTS
  ServesUnlessStopped
