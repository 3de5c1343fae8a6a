\* Two jobs on one slot, with a payload that does not fit in the pipe.
CONSTANTS
    j1 = j1
    j2 = j2
    Jobs = {j1, j2}
    MaxConcurrent = 1
    BigPayload = {j1}
SPECIFICATION FairSpec
PROPERTY StartedWorkerEnds
CHECK_DEADLOCK FALSE
