CONSTANTS
  Apps = {a1}
  Revisions = {r1}
  NoRevision = NoRevision
  NoOperation = NoOperation
  NoRequest = NoRequest
  NoSnapshot = NoSnapshot
  NoApp = NoApp
  Probed = {a1}
  Stateful = {}
  MaxOperations = 1
  MaxStops = 2
  MaxCrashes = 1
SPECIFICATION FairSpec
CHECK_DEADLOCK FALSE
INVARIANTS
  StopHolds
  SuccessIsRecorded
PROPERTIES
  Answered
