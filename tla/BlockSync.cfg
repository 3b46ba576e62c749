SPECIFICATION Spec
CONSTANTS
    f = f
    s = s
    Peers = {f, s}
    Faulty = {f}
    Stable = {s}
    Start = 1
    Reports <- MCReports
    None = None
    MaxRequesters = 2
    MaxPendingPerPeer = 2
    MaxPending = 2
    MaxErrors = 1
    MaxReconnects = 0
    MaxLate = 1
INVARIANTS
    OnlyChainApplied
    RequestersAreContiguous
 
CHECK_DEADLOCK FALSE
