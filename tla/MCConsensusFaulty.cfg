SPECIFICATION Spec
CONSTANTS
    v1 = v1
    v2 = v2
    v3 = v3
    A = A
    B = B
    Nil = Nil
    NoVote = NoVote
    None = None
    Self = Self
    p = p
    Validators = {v1, v2, v3}
    Correct = {v1, v2}
    BlockIDs = {A, B, Nil}
    ValidBlocks = {A, B}
    Peers = {Self, p}
    Unit = 1
    PowerOf <- MCPowerOf
    Weight1 = 17
    Weight2 = 7
    Weight3 = 6
    MaxRound = 1
    MaxHeight = 1
    Primary <- MCPrimary
    NewBlock <- MCNewBlock
    Forged <- MCForgedVotes
    ProofHeights = {1}
    Claims = {}
    WaitForTxs = FALSE
    EmptyBlocksInterval = FALSE
    SkipTimeoutReply = FALSE
INVARIANTS
    ChainsAgree
PROPERTIES
    ImplementsVoting
\* The bounds end every behaviour.
CHECK_DEADLOCK FALSE
