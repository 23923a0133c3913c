SPECIFICATION FairSpec
CONSTANTS
  Sessions = {s1, s2}
  Runs = {r1}
  Window = 1
  NoEvent = NoEvent
  NoSession = NoSession
  MaxFaults = 1
  MaxRestarts = 0
PROPERTIES EndEventuallySaved
CHECK_DEADLOCK FALSE
