SPECIFICATION FairSpec
CONSTANTS
    BufLen = 3
    Depth = 2
    Threshold = 1
    MaxCount = 4
    Marks = 5
INVARIANT InOrder
PROPERTIES
    ConsoleServed
    HandlerEnds
