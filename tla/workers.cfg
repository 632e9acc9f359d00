CONSTANTS
    n1 = n1
    verify = verify
    receipt = receipt
    None = None
    Keys = {verify, receipt}
    Child <- MCChild
    MaxAttempts <- MCAttempts
    Nodes = {n1}
    MaxRestarts = 2
    Refreshes = {f1, f2}
    Loops = {w1, w2}
    Kinds = {"tracked", "donation", "stray", "unknown", "other"}
    PageLimit = 2
    MaxPayments = 2
    MaxFaults = 2
SPECIFICATION WorkersSpec
CHECK_DEADLOCK FALSE
INVARIANTS
    WorkIsTrue
PROPERTIES
     EnqueuedFinishes AnchorResolves NothingBlocks
