\* Three jobs on two slots; every payload fits in the pipe.
CONSTANTS
    j1 = j1
    j2 = j2
    j3 = j3
    Jobs = {j1, j2, j3}
    MaxConcurrent = 2
    BigPayload = {}
SPECIFICATION FairSpec
INVARIANTS
    TypeOK
    PermitAccounting
    QueueExact
    ProverBound
    DoneHasProof
PROPERTIES
    ImplementsService
    ImplementsFairService
    StartedWorkerEnds
\* All jobs are submitted and finished: nothing is left to do.
CHECK_DEADLOCK FALSE
