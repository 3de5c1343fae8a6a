\* Two bridges racing to vouch for the same ids, among them the sentinel 0;
\* an id and a model that are no felts; the owner edits the whitelist.
CONSTANTS
    b1 = b1
    b2 = b2
    s1 = s1
    s2 = s2
    NoRecord = NoRecord
    Bridges = {b1, b2}
    Submitters = {s1, s2}
    Ids = {0, 1, 4}
    Models = {1, 4}
    FieldSize = 4
SPECIFICATION FairSpec
INVARIANTS
    TypeOK
    OneClaimPerBridge
    RecordBacked
PROPERTIES
    LedgerWriteOnce
    BridgedReachesL2
