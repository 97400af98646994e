SPECIFICATION FairSpec
CONSTANTS
    v1 = v1  v2 = v2
    Values = {v1, v2}
    Unset = Unset
    MaxTries = 2
    MaxSignals = 2
    MaxFaults = 1
INVARIANTS SettingsKnown ReadyMeansServing SettingsCurrent
PROPERTIES StartEnds StopEnds
