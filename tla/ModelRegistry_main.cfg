\* One other account may become owner or settler; one output hash.
CONSTANTS
    r1 = r1
    r2 = r2
    q1 = q1
    c1 = c1
    c2 = c2
    n1 = n1
    v0 = v0
    v1 = v1
    NoRecord = NoRecord
    Registrations = {r1, r2}
    JobRequests = {q1}
    NameOf <- MCNameOf
    VersionOf <- MCVersionOf
    CidOf <- MCCidOf
    IdOf <- MCIdOf
    DefaultVersion = v0
    SettleEnabled = TRUE
    Gateway = gateway
    Others = {other}
    OutputHashes = {h1}
SPECIFICATION Spec
INVARIANTS TypeOK HashIsOfCid AnswerIsTrue
PROPERTIES ModelsWriteOnce RegisteredStays
CHECK_DEADLOCK FALSE
