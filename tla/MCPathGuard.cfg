SPECIFICATION Spec
CONSTANTS
    NoPattern = NoPattern
    MaxDecodes = 4
    MaxLen = 4
    Wires <- MCWires
    Allows <- MCAllows
    Readings <- MCReadings
INVARIANTS
    TypeOK
    LoopInv
    NoTraversal
    VerdictExact
    StillListed
    Confined
