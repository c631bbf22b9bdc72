SPECIFICATION Spec
CONSTANTS
  Workers = {1, 2, 3}
  Jobs = {1}
  App = App
  Monitor = Monitor
  None = None
  Pill = Pill
  StartCount = 2
  TP_MIN_COUNT = 2
  TP_MAX_COUNT = 3
  queuelen = 2
  MonitorLen = 3
  FAIL_LIMITCOUNT = 1
  CountCap = 2
  AUTO = FALSE
  QREAD = FALSE
  Updates = {}
  MaxUpdates = 0
  MayDestroy = FALSE
INVARIANT FailReadMeansIdle
