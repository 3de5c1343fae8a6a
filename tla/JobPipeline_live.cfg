\* Two jobs on one slot, writes succeed and the gateway stays up.
CONSTANTS
    j1 = j1
    j2 = j2
    b1 = b1
    gateway = gateway
    other = other
    NoRecord = NoRecord
    Jobs <- MCTwoJobs
    IdOf <- MCIdOf
    ModelOf <- MCModelOf
    Bridge = b1
    Gateway = gateway
    Outsiders = {other}
    MaxConcurrent = 1
    FieldSize = 4
    SettleEnabled = TRUE
    MaxPolls = 1
    MaxL2Polls = 1
    MaxDbFaults = 0
    MaxCrashes = 0
SPECIFICATION FairSpec
PROPERTY RowsReachFinal
CHECK_DEADLOCK FALSE
