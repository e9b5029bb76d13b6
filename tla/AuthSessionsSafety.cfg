SPECIFICATION Spec
CONSTANTS
    User = {u1}
    Device = {d1, d2}
    SessionId = {s1, s2}
    TokenId = {t1, t2, t3}
    Request = {r1, r2}
    None = None
    JwtTTL = 1
    RowTTL = 2
    MaxClock = 0
SYMMETRY Symmetry
INVARIANTS
    TypeOK
    LiveOnInactiveOnlyIfRaced
    OneExchangePerRequest
    DeliveredIsStored
    HistoryMatchesLogins
PROPERTIES
    LedgerSpec
