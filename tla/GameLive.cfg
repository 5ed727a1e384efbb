CONSTANTS
    Width = 3
    Stripe = 1
    SpawnX = 1
    DropAt = 1
    SoftDrop = 3
    CounterMod = 6
    ScoreMod = 2
    Shapes = {6}
SPECIFICATION FairSpec
PROPERTIES ClearingEnds PieceLands NextPieceComes
