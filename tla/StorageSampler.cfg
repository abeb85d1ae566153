SPECIFICATION LiveSpec
CONSTANTS
    home = home
    nfs = nfs
    Paths <- MCPaths
    Callers = {sampler}
    Goroutine = sampler
    Calls = {k1, k2}
    MaxVersion = 2
    None = None
    Configs <- MCConfigs
    Tables <- MCTables
INVARIANTS OneWorkerPerPath RoundIsComplete
PROPERTIES AnswersNeverGoBack HungMountRecovers RoundEnds
