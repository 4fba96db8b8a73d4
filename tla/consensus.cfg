SPECIFICATION Spec
CONSTANTS
    Address = {1, 2, 3}
    PublicHash = {"k1", "k2"}
    HashSpace = {0, 1}
    Genesis <- MCGenesis
    AddressHash <- MCAddressHash
    MaxBlocksPerFormulator = 2
    MaxPhaseDiff <- Unlimited
    MaxHeight = 8
    MaxApplied = 3
    MaxChanges = 1
    MaxChangeHeight = 2
INVARIANTS
    TableWellFormed
    PhaseSpread
    TableIsActiveSet
    GeneratorHoldsTurn
    BoundedBypass
    IdleTableIsStored
    
CHECK_DEADLOCK FALSE
