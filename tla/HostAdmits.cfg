SPECIFICATION AdmitsSpec
CONSTANTS
  Commits = {c1, c2}
  Builds = {b1, b2}
  s1 = s1
  s2 = s2
  Sources <- MCSources
  deployer = deployer
  uploader = uploader
  Admitters <- MCAdmitters
  NoCommit = none
  MaxClock = 2
  AdmissionKinds <- MCAdmissionKinds
  FirstPolicies <- MCFirstPolicies
  PolicyEdits <- MCPolicyEdits
  Previews = {p1, p2, p3}
  NoPreview = NoPreview
  Gates = {p2, p3}
  Stacks = {p1}
  Privates = {}
  Targets = {one, two, three}
  PathTargets = {one, two}
  NoTarget = NoTarget
  LowPort = 1
  HighPort = 3
  MaxPreviews = 2
  MemoryBudget = 4
  MaxTrouble = 1
SYMMETRY MCSymmetry
INVARIANTS
  CapacityRespected
  EffectsRecorded
  ServedStaysServed
PROPERTIES
  AcceptedKept
  ForwardOnly
CHECK_DEADLOCK FALSE
