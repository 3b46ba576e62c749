SPECIFICATION MCSpec
CONSTANTS
    Heights = {1}
    Rounds = {0, 1}
    Values = {A, B}
    Times = {1, 2}
    NoValue = NoValue
    a = a
    b = b
    p = p
    q = q
    rpc = rpc
    self = self
    None = None
INVARIANTS
    NoDoubleSign
    LatestIsPending
    PoolIsConsistent
    OverrunIsBounded
    AvailabilityIsTold
    
    UpdatesAreUsedOnce
PROPERTIES
    SignsInOrder
    TimeoutsMove
    BroadcastReaches
\* A log replay that fills the ticker's channel, and a panic, end a behaviour.
CHECK_DEADLOCK FALSE
