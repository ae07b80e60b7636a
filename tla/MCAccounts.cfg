SPECIFICATION SessionsSpec
CONSTANTS
    u1 = u1
    g1 = g1
    a1 = a1
    c1 = c1
    w1 = w1
    w2 = w2
    NoUser = NoUser
    User = {u1}
    GoogleSub = {g1}
    AppleSub = {a1}
    Token = {1, 2, 3}
    Code = {c1}
    Worker = {w1, w2}
    MaxOTPAttempts = 2
    MaxEvent = 3
    HistLen = 2
    Buffer = 1
SYMMETRY Requests
INVARIANTS
    SessionsTypeOK
    SessionsEnd
    CodesGuarded
    NothingLostBetween
CHECK_DEADLOCK FALSE
