SPECIFICATION NotifFairSpec
CONSTANTS
    z1 = z1  z2 = z2  t1 = t1
    NoZone = NoZone
    Zones = {z1, z2}
    Threads = {t1}
    Kinds = {"absent", "untyped", "other"}
    Starts <- SomeStarts
    Serials = {0, 1, 2, 3}
    MaxInt = 2
    MaxAsks = 1
    MaxEdits = 1
    MaxFaults = 1
INVARIANT NoMissedNotify
PROPERTIES MastersNotified NotificationsCease
