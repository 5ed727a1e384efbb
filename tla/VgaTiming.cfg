SPECIFICATION FairSpec
CONSTANTS
    HTotal = 4
    HVisible = 2
    VTotal = 525
    VVisible = 480
    VSync = 490
    VSyncEnd = 492
INVARIANTS
    NoTearing
    OneStepPerFrame
PROPERTIES
    StepsInTurn
    FrameClockRuns
