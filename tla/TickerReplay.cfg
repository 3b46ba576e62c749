SPECIFICATION Spec
CONSTANTS
    MaxPlace = 4
    TickTockBufferSize = 2
    Records = 3
CHECK_DEADLOCK FALSE
PROPERTY ReplayEnds
