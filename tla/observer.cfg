SPECIFICATION Spec
CONSTANTS
    Address = {1, 2}
    PublicHash = {"k"}
    HashSpace = {0, 1, 2, 3, 4}
    Observer = {1, 2, 3}
    GenesisRanks <- MCRanks
    MaxBlocksPerFormulator = 1
    InitConnected <- OnlyLast
    None = None
    All = All
    MaxHeight = 1
    MaxMade = 2
    MaxSynced = 0
    Unstable = {3}
    MaxFails = 0
    MaxExpired = 0
    MaxChanges = 1
    MaxRestarts = 0
INVARIANTS
    NoFork
CHECK_DEADLOCK FALSE
