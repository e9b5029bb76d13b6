SPECIFICATION Spec
CONSTANTS
    u1 = u1
    u2 = u2
    a = a
    b = b
    c = c
    admin = admin
    user = user
    User = {u1, u2}
    Email = {a, b, c}
    Role = {admin, user}
    Change = {q1, q2}
    Log = {l1, l2}
    Identity = {i1}
    Link = {k1, k2}
    Token = {t1, t2}
    Request = {r1, r2}
    None = None
    PoolSize = 2
    MaxSecret = 1
    FirstRole <- MCFirstRole
    DefaultRole = user
    Grants <- MCGrants
    SuperAdmin = admin
    Scenarios <- MCScenarios
SYMMETRY Symmetry
CHECK_DEADLOCK FALSE
INVARIANTS
    TypeOK
    SecondConfirmationOnlyByRace
    LinkOnlyByRace
    PasswordFollowsAddress
    PassedTokenIsRevoked
    OneLiveTokenUnlessRaced
    StuckOnlyIfWedged
    PoolServes
PROPERTIES
    AddressSpec
    ColumnsKept
    OthersOnlyByAdmin
    SecondPassOnlyByRace
