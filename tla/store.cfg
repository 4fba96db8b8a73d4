SPECIFICATION FairSpec
CONSTANTS
    ChunkUnit = 2
    MaxBlocks = 3
    KeyOrder <- MCKeyOrder
    Absent = Absent
    Same = Same
    NotCached = NotCached
    HeightKey = "height"
    Changes <- MCChanges
    Budgets <- MCBudgets
INVARIANTS  BlocksAreThere NothingLost OnlyKnownFailures AppendedBlocksStay
PROPERTIES CatchesUp
CHECK_DEADLOCK FALSE
