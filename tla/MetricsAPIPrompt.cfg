SPECIFICATION APILiveSpec
CONSTANTS
    Kind = "gpu"
    Enabled = TRUE
    Interval = 3
    Cap = 2
    Epoch = 4
    MaxTime = 13
    Prompt = TRUE
    CollectBound = 2
    StartDelay = 1
    None = None
    Clients = {c1}
    Windows = {1, 3}
    Limits = {0, 1}
    BadWindow = BadWindow
INVARIANTS NoFalseAlarm
PROPERTIES HealthyMeansFresh HistoryIsTheWindow TickIsServed
