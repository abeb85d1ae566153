SPECIFICATION LifeSpec
CONSTANTS
    Pids = {p1, p2}
    Absent = Absent
    Empty = Empty
    Garbled = Garbled
    RawConfigs <- MCRawConfigs
INVARIANTS SerialExclusion HolderIsNamed AcceptedMeansSound ReleasedReadsUnseen
PROPERTIES SettledHolderIsSafe SignalEndsMonitor RaceResolves
