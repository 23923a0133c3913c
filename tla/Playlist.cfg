SPECIFICATION QuietFairSpec
CONSTANTS
  Handlers = {h1, h2}
  Pushers = {p1, p2}
  NoGen = NoGen
  MaxVersion = 2
  MaxWire = 1
  MaxTimeouts = 1
  MaxFaults = 1
INVARIANTS TypeOK  RefreshAnswered
PROPERTIES EventuallyCurrent
