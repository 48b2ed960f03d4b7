SPECIFICATION SetupSpec
CONSTANTS
  Operators = {o1}
  NoKey = NoKey
INVARIANT RegisteredIsUsable
CHECK_DEADLOCK FALSE
