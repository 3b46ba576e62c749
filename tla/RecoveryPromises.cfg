\* A marker that was not written is missed at the next height.
SPECIFICATION Spec
CONSTANTS
    MaxHeight = 2
    Ids = {1}
    MaxLog = 7
    MaxCrashes = 3
    Durable = {FALSE}
    UpdateHeights = {}
INVARIANTS
    PromisesKept
