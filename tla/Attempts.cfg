SPECIFICATION Spec
CONSTANTS
    Email = {e1}
    Request = {r1, r2}
    None = None
    Limits <- MCLimits
    Blocks <- MCBlocks
    MaxAttempts = 6
    MaxRows = 2
    MaxClock = 5
SYMMETRY Symmetry
INVARIANTS
    TypeOK
    CountIsExact
    BlockMatchesCount
PROPERTIES
    BlockHolds
