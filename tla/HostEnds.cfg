SPECIFICATION EndsSpec
CONSTANTS
  Ids = {i1, i2, i3}
  Revisions = {r1, r2}
  NoRevision = NoRevision
  NoOperation = NoOperation
  Procs = {p1, p2}
  LockApps = {a1, a2}
  Free = Free
  Previews = {v1, v2}
  NoPreview = NoPreview
  Gates = {v2}
  Stacks = {v1}
  Privates = {}
  Targets = {"t", "u"}
  PathTargets = {"t"}
  NoTarget = NoTarget
  LowPort = 1
  HighPort = 2
  MaxPreviews = 2
  MemoryBudget = 3
  MaxTrouble = 1
  Nobody = Nobody
INVARIANTS
  FenceHolds
  OneInside
PROPERTIES
  KeepsDecisionLog
  AcceptedInTime
  EveryoneEnds
  Reclaimed
  CommandAnswered
CHECK_DEADLOCK FALSE
