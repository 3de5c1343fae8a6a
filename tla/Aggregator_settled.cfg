\* One job, one batch.
CONSTANTS
    Jobs = {j1}
    BatchSize = 2
    MaxBatches = 1
    MaxOverlap = 1
    MaxDbFaults = 0
    MaxCrashes = 0
SPECIFICATION Spec
INVARIANT SettledIsConfirmed
CHECK_DEADLOCK FALSE
