CONSTANTS
    Devices = {d1}
    Sockets = {s1, s2}
    Ticks = {k1}
    Owner <- OneDevice
    Reinstalled = {s2}
    NoSocket = NoSocket
    NoDevice = NoDevice
    MaxDbFaults = 1
    MaxRestarts = 0
SPECIFICATION Spec
INVARIANTS TypeOK UniqueIncumbent NoTimerWhileLive NoFalseOffline
PROPERTIES ImplementsPresence
