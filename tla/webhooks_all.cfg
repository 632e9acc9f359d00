CONSTANTS
MaxAttempts = 2
DisableAfter = 2
LockTime = 3
PostTime = 1
Backoff = 4
None = None
Deliveries = {d1, d2}
Workers = {w1, w2}
MaxPerTick = 2
MaxEvents = 1
SPECIFICATION FairSpec
CHECK_DEADLOCK FALSE

    
PROPERTIES
     EmittedResolves
