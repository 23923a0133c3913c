SPECIFICATION FairSpec
CONSTANTS
  Runs = {r1, r2}
  Retention = 1
  Cap = 2
  HistoryRetention = 1
  Threshold = 0
  MaxTime = 2
  MaxRows = 4
  MaxUpsets = 1
INVARIANTS TypeOK   OneMail
PROPERTIES RecoveredTicketResolved
CHECK_DEADLOCK FALSE
