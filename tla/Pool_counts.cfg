SPECIFICATION Spec
CONSTANTS
  Workers = {1, 2, 3}
  Jobs = {1}
  App = App
  Monitor = Monitor
  None = None
  Pill = Pill
  StartCount = 2
  TP_MIN_COUNT = 1
  TP_MAX_COUNT = 3
  queuelen = 1
  MonitorLen = 1
  FAIL_LIMITCOUNT = 0
  CountCap = 2
  AUTO = TRUE
  QREAD = FALSE
  Updates = {"INC", "DEC"}
  MaxUpdates = 1
  MayDestroy = TRUE
INVARIANTS
  TypeOK
  ThreadLenCounts
  DestroyAfterExit
CHECK_DEADLOCK FALSE
