CONSTANTS
    None = None
    x1 = x1
    x2 = x2
    x3 = x3
    m1 = m1
    m2 = m2
    Donors <- MCDonors
    Milestones = {m1, m2}
    Amount <- MCAmount
    Gifts <- MCGifts
    MaxDonors = 3
    MaxCampaign = 10
    MaxInt = 127
    Batch = 1
    MaxLedger = 2
    Holders = {y1, y2}
    Rates = {0, 3}
    Spends = {1, 3}
    Points = {1, 4}
    Precision = 2
    MaxPoints = 7
    MaxBuilt = 2
    Recipients = {z1, z2}
    TotalBps = 5
    MaxRecipients = 2
    Deposits = {1, 3}
    MaxDeposited = 7
    p1 = p1
    p2 = p2
    p3 = p3
    p4 = p4
    People <- MCPeople
    Admins <- MCAdmins
    Applications = {y1, y2}
    Scores = {8, 16}
    MinReviewers = 2
    Decisions = {e1, e2}
    q4 = q4
    body = body
    other = other
    Requests <- MCRequests
    BodyOf <- MCBodyOf
    Disconnects = TRUE
    WritesFail = TRUE
    HandlersFail = TRUE
    KeysExpire = TRUE
    Visits = {e1, e2}
    Learners = {y1, y2}
    Author = writer
    Reviews = 1
    Taxonomy = {"fiqh"}
    Unknown = "unlisted"
    Prices = {0, 5}
    MaxVisits = 3
    LastDay = 2
SPECIFICATION ServicesSpec
SYMMETRY Symmetric
CHECK_DEADLOCK FALSE
INVARIANTS
    Conserved SharesHold PointsAndRevenue SelectionSound RetriesSound CatalogueSound
PROPERTIES
    PassComplete
