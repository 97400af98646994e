SPECIFICATION IdsSpec
CONSTANTS
    z1 = z1  z2 = z2  z3 = z3  z4 = z4  t1 = t1  t2 = t2  t3 = t3
    Zones = {z1, z2}
    Threads = {t1, t2}
    NoZone = NoZone
INVARIANT ToldUnique
