\* One job, in up to five batch processes: two may be at it at a time, one call
\* of Postgres fails and a restart loses two processes.
CONSTANTS
    Jobs = {j1}
    BatchSize = 2
    MaxBatches = 5
    MaxOverlap = 2
    MaxDbFaults = 1
    MaxCrashes = 1
SPECIFICATION FairSpec
INVARIANTS TypeOK TxIsRecorded SentIsAggregated BatchedIsOver
PROPERTIES BatchForward DoneIsBatched
CHECK_DEADLOCK FALSE
