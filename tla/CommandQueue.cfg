CONSTANTS
    Types = {t1, t2}
    Handlers = {h1, h2}
    MaxSends = 3
    MaxPushes = 2
    MaxFaults = 1
SPECIFICATION Spec
INVARIANTS TypeOK NothingStranded InOrder
