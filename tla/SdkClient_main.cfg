\* One call that may post twice; the gateway is restarted once.
CONSTANTS
    Calls = {c1}
    MaxRetries = 1
    MaxConcurrent = 1
    MaxCrashes = 1
SPECIFICATION FairSpec
INVARIANTS TypeOK ResultIsRecorded JobFailedIsFinal KnownJobIsFound
PROPERTY CallsEnd
\* The call is over and both jobs have reached the end of their lives.
CHECK_DEADLOCK FALSE
