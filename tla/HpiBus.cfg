SPECIFICATION Spec
CONSTANTS
    MaxValue = 1
    Gap = 6
    Latency = 4
INVARIANT TypeOK
PROPERTY ImplementsPorts
