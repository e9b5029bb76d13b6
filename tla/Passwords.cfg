SPECIFICATION Spec
CONSTANTS
    User = {u1}
    Link = {l1, l2}
    Grant = {g1}
    Request = {r1, r2}
    None = None
    MaxChanges = 3
SYMMETRY Symmetry
VIEW Seen
CONSTRAINT FewTokens
INVARIANTS
    TypeOK
    StaleGrantExplained
    AccessFollowsPassword
    ResetMailIsStored
    GrantOnlyVerified
PROPERTIES
    CodesSpec
