CONSTANTS
    Width = 4
    Stripe = 1
    SpawnX = 1
    DropAt = 0
    SoftDrop = 1
    CounterMod = 2
    ScoreMod = 4
    Shapes = {0, 4}
SPECIFICATION Spec
INVARIANTS BestRecorded Determined
PROPERTIES ImplementsWell ImplementsPieceRequest
