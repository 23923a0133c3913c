SPECIFICATION FairSpec
CONSTANTS
  FlapOn = TRUE
  FlapWindow = 7
  FlapMax = 5
  Cooldown = 4
  Trips = 2
  Quarantine = 8
  FlapIdle = 9
  Window = 3
  BaseMax = 2
  HardCeiling = 3
  MaxBackoff = 4
  MaxLevel = 4
  Release = 2
  IdleReset = 5
  Warmup = 3
  Multipliers = {1, 2}
  Retry = 1
  MaxDisturbances = 7
INVARIANTS TypeOK CeilingKept
PROPERTIES EventuallyAdmitted HealthyNeverFlagged
CHECK_DEADLOCK FALSE
