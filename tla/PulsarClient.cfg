SPECIFICATION PulsarSpec
CONSTANTS
    None = None
    Sockets = {"s1", "s2"}
    MaxRetryTimes = 2
    Messages = {"m1", "m2"}
    Unreadable = {"m2"}
    MaxFaults = 4
INVARIANTS
    OneConnection
PROPERTIES
    KeepsSubscribed
    LostConnectionIsNoticed
    EveryReadableMessageIsAcknowledged
CHECK_DEADLOCK FALSE
