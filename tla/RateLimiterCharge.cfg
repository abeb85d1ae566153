SPECIFICATION LimiterSpec
CONSTANTS
    Addrs = {a}
    Reqs = {r1, r2}
    Burst = 1
    Cost = 3
    Second = 2
    Idle = 4
    Hold = 1
    MaxTime = 9
    MaxRequests = 5
PROPERTY DeniedNeverCharged
