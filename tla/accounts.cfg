CONSTANTS
    Requests = {r1, r2}
    Passwords = {p1, p2}
    Codes = {c1}
    Threshold = 2
    MaxRequests = 5
    MaxSessions = 3
    None = None
    Calls = {i1, i2, i3}
    Thresholds <- MCThresholds
    Permanent = 1
    MaxFailures = 4
    Readers = {g1, g2}
    Writers = {w1, w2}
    MaxWrites = 3
    Applications = {a1, a2}
    Reviewing = {c2, c3, c4}
    Purchases = {t1, t2}
    RefundIds = {f1, f2}
    MaxAsks = 4
SPECIFICATION AccountsSpec
SYMMETRY Symmetric
CHECK_DEADLOCK FALSE
INVARIANTS
    AccountsSound   RoomsSound
