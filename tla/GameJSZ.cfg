CONSTANTS
    Width = 3
    Stripe = 1
    SpawnX = 1
    DropAt = 0
    SoftDrop = 1
    CounterMod = 2
    ScoreMod = 2
    Shapes = {2, 5, 7}
SPECIFICATION Spec
INVARIANTS NoFullRow LastBlockNeverShifts FlightClear
