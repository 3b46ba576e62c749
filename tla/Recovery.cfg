\* kvstore, which forgets everything, and an application that keeps its data.
SPECIFICATION FairSpec
CONSTANTS
    MaxHeight = 2
    Ids = {1}
    MaxLog = 7
    MaxCrashes = 3
    Durable = {TRUE, FALSE}
    UpdateHeights = {2}
INVARIANTS
    Resumable
    StoredBlocksComplete
    BlocksRunOnce
    RunsInSync
    
PROPERTIES
    Recovers
