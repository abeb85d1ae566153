SPECIFICATION Spec
CONSTANTS
    Clients = {c1}
    Loads = {0, 1}
    Widths = {1}
    Windows = {1, 2}
    Epoch = 3
    Cap = 3
    MaxSamples = 3
INVARIANT PeakWasObserved
