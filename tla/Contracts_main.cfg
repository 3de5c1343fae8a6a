\* The owner and one other account; every batch of at most three hashes.
CONSTANTS
    Accounts = {a1, a2}
    Deployer = a1
    NoRecord = NoRecord
    OutputHashes = {h1, h2, h3}
    BatchIds = {b1}
    MaxBatchSize = 2
    WordBytes = 2
    Missing = Missing
    NoNumber = NoNumber
    NoString = NoString
    NoHex = NoHex
    Files <- MCFiles
SPECIFICATION MCSpec
INVARIANTS TypeOK HashesInOneBatch CalldataIsFile
PROPERTY RenouncedForGood
CHECK_DEADLOCK FALSE
