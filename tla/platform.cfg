CONSTANTS
    k1 = k1
    k2 = k2
    None = None
    Requests = {r1, r2}
    MaxRequests = 5
    Lessons <- MCLessons
    Quizzes <- MCQuizzes
    Prerequisites <- MCPrerequisites
    Xp <- MCXp
    Whole = 3
    Awards = {1, 2}
    LevelXp = 1
    Bundle = {k1, k2}
    Users = {u1, u2}
    Ratings = {1, 4}
    Members = {m1, m2, m3}
    Creator = m1
    Milestones = {2, 3}
    Freezes = 1
    LastDay = 4
    Gifts = {g1, g2}
    Fallback = FALSE
    MaxGrants = 2
    Stroops = {1, 2}
    Sessions = {s1, s2, s3}
    Threshold = 2
    Notes = {t1, t2}
    MaxCalls = 5
    People = {u1, u2}
    Options = {1, 2}
    Keys = {key1, key2}
    Pages = {1, 2, 3}
    Categories = {c1, c2, c3}
    MaxStarted = 4
    u1 = u1
    u2 = u2
    Docs = {"p1", "p2"}
    Start = 26
    Finish = 27
    MonthsCompared = 3
    LinesPerPage = 2
    CellWidth = 3
SPECIFICATION PlatformSpec
SYMMETRY Symmetric
CHECK_DEADLOCK FALSE
INVARIANTS
    CreditEarned MembersSound  RecordsKept ReportsTrue
PROPERTIES
    OthersKept
