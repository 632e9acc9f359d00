CONSTANTS
Schedulers = {w1, w2}
Calls = {c1}
Cadence = 1
Window = 1
MaxCycles = 2
MaxTime = 2
MaxStops = 1
Paying = {1}
Ingest = TRUE
SPECIFICATION FairPledgeSpec
INVARIANTS
    CyclesTrue
PROPERTIES
    EventuallyClosed
