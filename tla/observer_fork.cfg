SPECIFICATION VotedAgainSpec
CONSTANTS
    Address = {1, 2}
    PublicHash = {"k"}
    HashSpace = {0, 1, 2, 3, 4}
    Observer = {1, 2, 3}
    GenesisRanks <- MCRanks
    MaxBlocksPerFormulator = 1
    InitConnected <- OneMissing
    None = None
    All = All
    MaxHeight = 1
    MaxMade = 2
    MaxSynced = 1
    Unstable = {1, 2}
    MaxFails = 2
    MaxExpired = 0
    MaxChanges = 0
    MaxRestarts = 0
INVARIANTS
    NoFork
CHECK_DEADLOCK FALSE
