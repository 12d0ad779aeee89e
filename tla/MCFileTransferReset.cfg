CONSTANTS
    f1 = f1
    f2 = f2
    Files = {f1, f2}
    NoFile = NoFile
    Start = 1
    Stop = 3
    Setups <- ResetSetups
SPECIFICATION Spec
INVARIANT FileIntact
\* The ports stop when every file asked for is sent.
CHECK_DEADLOCK FALSE
