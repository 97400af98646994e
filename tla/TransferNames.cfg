SPECIFICATION Spec
CONSTANTS
    z1 = z1  z2 = z2  c1 = c1  c2 = c2  t1 = t1  t2 = t2
    NoZone = NoZone  Nobody = Nobody
    Zones = {z1, z2}
    Clients = {c1, c2}
    Threads = {t1}
    TxIds = {1, 2}
    SameSecond = TRUE
    Records = 2
    MaxVersion = 2
    MaxFaults = 1
SYMMETRY TransferSymmetry
INVARIANT WholeZones
