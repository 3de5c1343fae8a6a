\* Two jobs on one slot; another caller, a failing write and a restart.
CONSTANTS
    j1 = j1
    j2 = j2
    b1 = b1
    gateway = gateway
    other = other
    NoRecord = NoRecord
    Jobs <- MCTwoJobs
    IdOf <- MCIdOf
    ModelOf <- MCModelOf
    Bridge = b1
    Gateway = gateway
    Outsiders = {other}
    MaxConcurrent = 1
    FieldSize = 4
    SettleEnabled = TRUE
    MaxPolls = 1
    MaxL2Polls = 1
    MaxDbFaults = 1
    MaxCrashes = 1
SPECIFICATION Spec
INVARIANTS
    TypeOK
    SettledIsRecorded
    OwnHashVerified
    OnlyFaultsStrandRows
PROPERTIES ToldForward ImplementsJobService
CHECK_DEADLOCK FALSE
