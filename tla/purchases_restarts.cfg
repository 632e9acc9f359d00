SPECIFICATION Spec
CONSTANTS
    None = None
    Rows = {r1, r2}
    Txs = {1, 2}
    SeqOf <- ByNumber
    Sessions = {s1, s2}
    Jobs = {j1, j2}
    Reconcilers = {}
    MaxAttempts = 2
    MaxFaults = 2
    MaxBoots = 2
    SingleReplica = TRUE
SYMMETRY Symmetric
CHECK_DEADLOCK FALSE
INVARIANTS
    CheckoutHeld ServedWithoutFaults
PROPERTIES
    ImplementsSettlement
