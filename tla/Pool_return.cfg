SPECIFICATION FairSpec
CONSTANTS
  Workers = {1, 2}
  Jobs = {1}
  App = App
  Monitor = Monitor
  None = None
  Pill = Pill
  StartCount = 2
  TP_MIN_COUNT = 2
  TP_MAX_COUNT = 2
  queuelen = 1
  MonitorLen = 3
  FAIL_LIMITCOUNT = 1
  CountCap = 1
  AUTO = FALSE
  QREAD = FALSE
  Updates = {}
  MaxUpdates = 0
  MayDestroy = TRUE
PROPERTY DestroyReturns
CHECK_DEADLOCK FALSE
