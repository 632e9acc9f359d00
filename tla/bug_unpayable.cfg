CONSTANTS
    NumEndpoints = 2
    Readers = {r1, r2}
    Submitters = {w1}
    RetryLimits = {0, 1, 2}
    Threshold = 2
    s1 = s1
    s2 = s2
    s3 = s3
    u1 = u1
    u2 = u2
    None = None
    Submissions = {s1, s2, s3}
    Operations = {1, 2}
    InnerFees = {1, 3}
    FeeSetting = 5
    DailySetting = 0
    PerUserSetting = 1
    LastDay = 1
    Decimals = 2
    Quotes = {1, 10, 99}
    Percents = {0, 5, 50}
    SendMaxes = {1, 7, 101}
    Creator = creator
    Platform = platform
    Releases = {k1, k2}
    Funds = {f1}
    Senders = {n1}
    Reports = {b1, b2, b3}
    People = {v1, v2}
    Nobody = Nobody
    Handlers = {h1, h2, h3}
    Ids = {1, 2, 3, 4}
    Values = {0, 1, 2}
    Late = {2}
    Filters = {{0, 1, 2}, {1, 2}}
    Limits <- MCLimits
    DefaultLimit = 1
    MaxLimit = 2
    MaxWrites = 1
    Nodes = {n1, n2}
    Streams = {st1, st2}
    Recipients = {u1, u2}
    MaxSent = 1
    MaxRuns = 3
    MaxFaults = 2
SPECIFICATION NetworkSpec
CHECK_DEADLOCK FALSE
INVARIANTS
    BuiltPays
