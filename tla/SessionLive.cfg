CONSTANTS
    Devices = {d1}
    Sockets = {s1}
    Ticks = {k1}
    Owner <- OneDevice
    Reinstalled = {s1}
    NoSocket = NoSocket
    NoDevice = NoDevice
    MaxDbFaults = 2
    MaxRestarts = 1
SPECIFICATION FairSpec
PROPERTIES EventuallyOffline EventuallyOnline
