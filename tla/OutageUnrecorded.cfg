SPECIFICATION OnTimeSpec
CONSTANTS
  Runs = {r1}
  Retention = 2
  Cap = 4
  HistoryRetention = 4
  Interval = 1
  Threshold = 0
  MaxTime = 4
  MaxRows = 3
  MaxUpsets = 0
INVARIANTS NoOutageUnrecorded
CHECK_DEADLOCK FALSE
