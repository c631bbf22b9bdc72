SPECIFICATION FairSpec
CONSTANTS
  Workers = {1, 2, 3}
  Jobs = {1, 2, 3}
  App = App
  Monitor = Monitor
  None = None
  Pill = Pill
  StartCount = 2
  TP_MIN_COUNT = 1
  TP_MAX_COUNT = 2
  queuelen = 2
  MonitorLen = 1
  FAIL_LIMITCOUNT = 0
  CountCap = 2
  AUTO = FALSE
  QREAD = TRUE
  Updates = {"INC"}
  MaxUpdates = 1
  MayDestroy = FALSE
INVARIANTS
  JobConservation
PROPERTIES
  ImplementsJobPool
  JobsSettle
