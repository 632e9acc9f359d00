SPECIFICATION Spec
CONSTANTS
    None = None
    Rows = {r1, r2}
    Txs = {1, 2}
    SeqOf <- ByNumber
    Sessions = {s1}
    Jobs = {j1}
    Reconcilers = {w1}
    MaxAttempts = 2
    MaxFaults = 1
    MaxBoots = 1
    SingleReplica = FALSE
SYMMETRY Symmetric
CHECK_DEADLOCK FALSE
INVARIANTS
    TypeOK HashUnique ConfirmedIsPaid
PROPERTIES
    HashIsPermanent
