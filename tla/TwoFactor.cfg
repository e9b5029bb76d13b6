SPECIFICATION Spec
CONSTANTS
    Request = {r1, r2}
    MaxOtps = 2
    MaxSecrets = 2
    Limit = 2
    MaxTries = 0
SYMMETRY Symmetry
INVARIANTS
    TypeOK
    SecurityConsistent
    OneOtpAtATime
PROPERTIES
    CodesSpec
