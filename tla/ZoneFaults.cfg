SPECIFICATION FairSpec
CONSTANTS
    o1 = o1  o2 = o2  a1 = a1  a2 = a2  p1 = p1  p2 = p2  z1 = z1  z2 = z2
    NoApi = NoApi  Absent = Absent  None = None  Unset = Unset  NoUpdate = NoUpdate
    Confs <- ApiConfs
    Acls = {1}
    EditSets <- ConfOrZones
    Paths = {p1}
    ServiceFile = p1
    Zones = {z1}
    Kinds = {"master", "slave"}
    Masters = {"m"}
    MaxZonesPerTx = 1
    MaxTx = 3
    IdsRestart = FALSE
    ApiMode = TRUE
    Faults = {"slow", "api", "client", "veto", "crash", "pdns", "early"}
    MaxFaults = 3
PROPERTIES NeverAgainstRunning NeverBack TxFinishes LoadedEventually
