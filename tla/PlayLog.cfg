SPECIFICATION Spec
CONSTANTS
  Sessions = {s1, s2}
  Runs = {r1, r2}
  Window = 2
  NoEvent = NoEvent
  NoSession = NoSession
  MaxFaults = 1
  MaxRestarts = 1
INVARIANTS TypeOK NothingDropped
CHECK_DEADLOCK FALSE
SYMMETRY PlaySymmetry
