CONSTANTS
  v1 = v1
  v2 = v2
  A = A
  Validators = {v1, v2}
  Unit = 1
  PowerOf <- MCPowerOf
  BlockIDs = {Nil, A}
  Nil = Nil
  NoVote = NoVote
  Peers = {us}
  Us = us
  MaxHeight = 2
  MaxRound = 1
  MaxFlight = 2
  Instances <- MCInstances
SPECIFICATION FairSpec
INVARIANT MarkedIsGiven
CHECK_DEADLOCK FALSE
PROPERTY CommitsReach
