SPECIFICATION APISpec
CONSTANTS
    Kind = "memory"
    Enabled = TRUE
    Interval = 1
    Cap = 2
    Epoch = 4
    MaxTime = 8
    Prompt = FALSE
    CollectBound = 0
    StartDelay = 0
    None = None
    Clients = {c1}
    Windows = {1, 3}
    Limits = {0, 1}
    BadWindow = BadWindow
INVARIANTS PublishOrder HistoryExact HangIsReported
PROPERTIES NoBackwardReads HealthContradictionExplained
