CONSTANTS
    Controls = {c1, c2}
    NoCallback = NoCallback
    Huge = 5
    MaxQueue = 2
    LastSequence = 3
    MostEvents = 1
    QueueSize = 4
    Setups <- MCSetups
SPECIFICATION Spec
INVARIANTS StaysWatched SendsBounded NoEventLost Agreement SuccessIsReal
CHECK_DEADLOCK FALSE
PROPERTIES EventuallyAnswered
