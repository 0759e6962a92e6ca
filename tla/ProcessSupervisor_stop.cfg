SPECIFICATION SupervisorSpec
CONSTANTS
  Threads = {t1, t2}
  Ids = {p1}
  None = None
  MaxCalls = 3
SYMMETRY Symmetry
PROPERTIES
  CallsWriteWhatTheyAsk
CHECK_DEADLOCK FALSE
