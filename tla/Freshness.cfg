SPECIFICATION FreshSpec
CONSTANTS
    z1 = z1  z2 = z2  t1 = t1  t2 = t2
    NoZone = NoZone
    Zones = {z1, z2}
    Threads = {t1, t2}
    Refreshes = {1, 6}
    Word = 8
    StartTime = 2
    MaxTime = 4
    MaxExtras = 1
    Starts <- SomeStarts
SYMMETRY Symmetry
INVARIANTS IdsInv OwnChecks LeftAlone DueListed
PROPERTY TableAllocates
