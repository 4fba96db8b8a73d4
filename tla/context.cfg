SPECIFICATION LedgerSpec
CONSTANTS
    None = None
    a0 = a0
    a1 = a1
    a2 = a2
    a3 = a3
    n0 = n0
    n1 = n1
    Address = {a0, a1, a2, a3}
    Name = {n0, n1}
    Key = {k1}
    Value = {1, 2}
    Utxo = {1, 2}
    NameOf <- MCNameOf
    HeightOf <- MCHeightOf
    Owner <- MCOwner
    InitAccounts = {a0}
    InitUtxo = {1}
    RewriteDeleted = FALSE
    MaxStack = 3
    MaxHeight = 2
    MaxSeq = 2
    MaxEvents = 3
INVARIANTS
    NamesLeadToAccounts

    
