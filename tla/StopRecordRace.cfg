SPECIFICATION StopRecordSpec
CONSTANTS
  Services = {s1}
  Whole = Whole
  VerbCallers = {o1, o2}
  MaxVerbs = 2
  MaxVerbTroubles = 0
INVARIANT RecordedMeansDown
CHECK_DEADLOCK FALSE
