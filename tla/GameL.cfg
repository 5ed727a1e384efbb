CONSTANTS
    Width = 3
    Stripe = 1
    SpawnX = 1
    DropAt = 0
    SoftDrop = 1
    CounterMod = 2
    ScoreMod = 2
    Shapes = {3}
SPECIFICATION Spec
INVARIANTS TypeOK InBounds WallsIntact ShapeKnown TopFree
PROPERTY ImplementsWell
