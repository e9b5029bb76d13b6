SPECIFICATION FairSpec
CONSTANTS
    User = {u1}
    Device = {d1}
    SessionId = {s1}
    TokenId = {t1, t2}
    Request = {r1, r2}
    None = None
    JwtTTL = 1
    RowTTL = 2
    MaxClock = 0
PROPERTIES
    EveryRequestEnds
