\* The polling loop of the gateway against a slow or busy prover.
CONSTANTS
    j1 = j1
    j2 = j2
    b1 = b1
    gateway = gateway
    other = other
    NoRecord = NoRecord
    Jobs <- MCTwoJobs
    IdOf <- MCIdOf
    ModelOf <- MCModelOf
    Bridge = b1
    Gateway = gateway
    Outsiders = {}
    MaxConcurrent = 1
    FieldSize = 4
    SettleEnabled = TRUE
    MaxPolls = 1
    MaxL2Polls = 1
    MaxDbFaults = 0
    MaxCrashes = 0
SPECIFICATION FairSpec
PROPERTY DoneIsPersisted
CHECK_DEADLOCK FALSE
