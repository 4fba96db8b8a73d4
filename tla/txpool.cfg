SPECIFICATION Spec
CONSTANTS
    None = None
    Nil = Nil
    A = a
    B = b
    U = u
    V = v
    Account = {a, b}
    MaxSeq = 2
    Rival = {a}
    Utxo = {u, v}
    MaxTurns = 3
    MaxChecked = 1
    MaxTwice = 1
    Item = {1, 2, 3}
    Priority = {1, 2, 3, 4, 5, 6, 7, 8}
    NoItem = NoItem
    PageCap = 2
    Large = 4
    Few = 2
    Fresh = 3
    MaxContent = 4
    Hash = {1, 2, 3}
    AddrOf <- MCAddrOf
    Pings <- MCPings
    NoNode = NoNode
    GroupLength = 2
    MaxStored = 3
    MaxLoads = 1
INVARIANTS
    IndexesAgree
    SizeIsContent
    PopFinds
    PooledWillExpire
    
    PeerMapIsGroups
    RotationReaches
CHECK_DEADLOCK FALSE
