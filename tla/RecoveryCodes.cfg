SPECIFICATION Spec
CONSTANTS
    Request = {r1, r2, r3}
    MaxGenerations = 3
SYMMETRY Symmetry
INVARIANTS
    TypeOK
    OneSetOfCodes
    EnabledHasCodes
PROPERTIES
    CodesSpec
