CONSTANTS
    Devices = {d1, d2}
    Statuses = {online, offline}
    Flushes = {f1, f2}
    NoStatus = NoStatus
    NoDevice = NoDevice
    NoFlush = NoFlush
    MaxRemembered = 1
    MaxRows = 2
    MaxFaults = 1
    MaxRestarts = 1
SPECIFICATION Spec
INVARIANTS TypeOK NetStateLogged NeighboursDiffer
SYMMETRY WriterSymmetry
