SPECIFICATION CallerSpec
CONSTANTS
  Callers = {c1}
  CallerKinds = {"lifecycle", "preview", "preview_database"}
  MaxAdmitted = 1
INVARIANT CertainMeansNothing
CHECK_DEADLOCK FALSE
