SPECIFICATION Spec
CONSTANTS
    o1 = o1  o2 = o2  a1 = a1  a2 = a2  p1 = p1  p2 = p2  z1 = z1  z2 = z2
    NoApi = NoApi  Absent = Absent  None = None  Unset = Unset  NoUpdate = NoUpdate
    Confs <- NoApiConfs
    Acls = {1}
    EditSets <- ConfAndSvc
    Paths = {p1, p2}
    ServiceFile = p1
    Zones = {}
    Kinds = {"master"}
    Masters = {}
    MaxZonesPerTx = 1
    MaxTx = 2
    IdsRestart = FALSE
    ApiMode = FALSE
    Faults = {}
    MaxFaults = 0
INVARIANT WrittenWhereConfigured
