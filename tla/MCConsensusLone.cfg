SPECIFICATION Spec
CONSTANTS
    v1 = v1
    v2 = v2
    v3 = v3
    A = A
    B = B
    Nil = Nil
    NoVote = NoVote
    None = None
    Self = Self
    p = p
    Validators = {v1, v2}
    Correct = {v1}
    BlockIDs = {A, B, Nil}
    ValidBlocks = {A, B}
    Peers = {Self, p}
    Unit = 1
    PowerOf <- MCPowerOf
    Weight1 = 6
    Weight2 = 24
    Weight3 = 0
    MaxRound = 1
    MaxHeight = 1
    Primary <- MCPrimary
    NewBlock <- MCNewBlock
    Forged <- MCForged
    ProofHeights = {1}
    Claims = {}
    WaitForTxs = FALSE
    EmptyBlocksInterval = FALSE
    SkipTimeoutReply = FALSE
INVARIANTS
    
    SignsOnce
    PreparesRespectLock
    LocksArePolkas
PROPERTIES
    MovesForward
    VotesAreKept
\* The bounds end every behaviour.
CHECK_DEADLOCK FALSE
