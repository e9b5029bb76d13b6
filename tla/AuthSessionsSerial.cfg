SPECIFICATION Spec
CONSTANTS
    User = {u1, u2}
    Device = {d1}
    SessionId = {s1, s2, s3}
    TokenId = {t1, t2, t3}
    Request = {r1}
    None = None
    JwtTTL = 1
    RowTTL = 2
    MaxClock = 3
INVARIANTS
    LiveImpliesActive
    OneSessionPerDevice
PROPERTIES
    GlobalLogoutIsExact
