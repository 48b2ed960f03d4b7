SPECIFICATION PartsSpec
CONSTANTS
  Commands = {c1}
  NoCommand = NoCommand
  Window = 2
  Skew = 1
  Stale = 3
  Keep = 4
  InboxLimit = 1
  PassLimit = 1
  MaxRequests = 2
  MaxFailures = 2
  MaxTime = 7
  StaticRevisions = {r1, r2}
  NoStatic = NoStatic
  MaxStages = 3
  Elsewhere = Elsewhere
  OwnerHosts = {"command"}
  MaxHalts = 1
  MaxFaults = 1
  Callers = {u1, u2}
  CallerKinds = {"deploy", "deploy_only", "recover", "preview", "set_secret",
                 "update", "report", "reconcile"}
  MaxAdmitted = 2
  Operators = {o1}
  NoKey = NoKey
  PipeSize = 1
  MaxWritten = 3
  Maximum = 2
  BackupRuns = {run}
  BackupRevisions = {v1, v2}
  BackupCallers = {b1, b2}
  NoRun = NoRun
  MaxTicks = 2
  MaxDeploys = 1
  i1 = i1
  i2 = i2
  i3 = i3
  i4 = i4
  k1 = k1
  k2 = k2
  Images <- MCImages
  Configs <- MCConfigs
  ConfigOf <- MCConfigOf
  ByConfig <- MCByConfig
  Expected = k1
  Binders = {n1, n2}
  NoImage = NoImage
  Limit = 2
  MaxMoves = 1
  MaxDeaths = 1
  Services = {e1, e2}
  Whole = Whole
  VerbCallers = {h1, h2}
  MaxVerbs = 3
  MaxVerbTroubles = 2
  Monitors = {m1}
  SampleBytes = 2
  HistoryMax = 38
  HistoryTail = 19
  HistoryKeep = 3
  RecordMax = 4
  EarlierSamples = 12
  MaxSamples = 15
  MaxHistoryTroubles = 2
INVARIANTS
  AtMostOnce
  ResultsTrue
  PartsTypeOK
  TreesPublished
  StoppedIsWithdrawn
  AcceptedIsWhole
  RefusedLeavesServing
  ReceiptTrue
  CertainMeansNothing
  KeyHeld
  OwnedToTheEnd
  ExportOnce
  BoundIsAccepted
  RecordIsEarned
  HistoryServed
SYMMETRY PartsSymmetry
CHECK_DEADLOCK FALSE
