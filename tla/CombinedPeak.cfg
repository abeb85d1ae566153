SPECIFICATION CombinedSpec
CONSTANTS
    c1 = c1
    c2 = c2
    Clients = {c1, c2}
    Loads = {0, 1}
    Widths = {1, 2}
    Windows = {1, 2}
    Epoch = 3
    Cap = 2
    MaxSamples = 3
    Devices = {0, 1}
    Total = 2
    Word = 8
    MaxClock = 4
    Workloads <- MCWorkloads
INVARIANTS OverallIsMaximum PeakNeverUnderstates SharedArraysHonest MemoryAddsNoOverflow MemoryPeakExact GpuPeakExact
