SPECIFICATION Spec
CONSTANTS
    Request = {r1}
    MaxOtps = 2
    MaxSecrets = 2
    Limit = 2
    MaxTries = 2
INVARIANTS
    LimitHolds
