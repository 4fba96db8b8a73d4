SPECIFICATION FaultsSpec
CONSTANTS
    Address = {1, 2}
    PublicHash = {"k"}
    HashSpace = {0, 1, 2, 3, 4}
    Observer = {1, 2, 3}
    GenesisRanks <- MCRanks
    MaxBlocksPerFormulator = 2
    InitConnected <- OneMissing
    None = None
    All = All
    MaxHeight = 2
    MaxMade = 3
    MaxSynced = 0
    Unstable = {1}
    MaxFails = 1
    MaxExpired = 1
    MaxChanges = 0
    MaxRestarts = 1
INVARIANTS
    Certified
    RoundHasData
CHECK_DEADLOCK FALSE
