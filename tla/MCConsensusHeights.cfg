SPECIFICATION Spec
CONSTANTS
    v1 = v1
    v2 = v2
    v3 = v3
    A = A
    B = B
    Nil = Nil
    NoVote = NoVote
    None = None
    Self = Self
    p = p
    Validators = {v1, v2, v3}
    Correct = {v1}
    BlockIDs = {A, B, Nil}
    ValidBlocks = {A, B}
    Peers = {Self, p}
    Unit = 1
    PowerOf <- MCPowerOf
    Weight1 = 16
    Weight2 = 7
    Weight3 = 7
    MaxRound = 0
    MaxHeight = 2
    Primary <- MCPrimary
    NewBlock <- MCNewBlock
    Forged <- MCForgedBlocks
    ProofHeights = {1}
    Claims <- MCClaims
    WaitForTxs = TRUE
    EmptyBlocksInterval = TRUE
    SkipTimeoutReply = TRUE
PROPERTIES
    ImplementsVoting
\* The bounds end every behaviour.
CHECK_DEADLOCK FALSE
