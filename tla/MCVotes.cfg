SPECIFICATION MCSpec
CONSTANTS
    Nil = Nil
    NoVote = NoVote
    Validators = {v1, v2, v3, v4, v5}
    Correct = {v1, v2, v3}
    BlockIDs = {A, B, Nil}
    Heights = {1}
    MaxRound = 1
    Unit = 1
    PowerOf <- MCPowerOf
    Peers = {p1, p2}
SYMMETRY Symmetry
\* The voting rules end when every validator has voted in every round.
CHECK_DEADLOCK FALSE
INVARIANTS
    Agreement
    Maj23IsQuorum
    ReplyVerifies
PROPERTIES
    Maj23Stable
