SPECIFICATION Spec
CONSTANTS
    peer = peer
    other = other
    NoAddr = NoAddr
    Addrs = {peer, other}
    Reqs = {r1, r2}
    Burst = 1
    Cost = 3
    Second = 2
    Idle = 1
    Hold = 1
    MaxTime = 3
    MaxRequests = 3
    Setups <- MCSetups
    Requests <- MCRequests
INVARIANTS PreflightNeverCharged CorsHeadersExact LogMatchesAnswer OnePeerOneBucket GrantsWithinRate
PROPERTY RetryAfterSuffices
SYMMETRY Symmetry
