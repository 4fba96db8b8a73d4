SPECIFICATION Spec
CONSTANTS
    Nil = Nil
    Process = Process
    COIN = 10
    AllowedName <- MCAllowedName
    AlphaPolicy <- MCAlphaPolicy
    SigmaPolicy <- MCSigmaPolicy
    OmegaPolicy <- MCOmegaPolicy
    HyperPolicy <- MCHyperPolicy
    Scope = {"auto"}
    Genesis <- MCGenesis
    Generators <- MCGenerators
    Offer <- MCOffer
    MaxHeight <- MCMaxHeight
    MaxTx <- MCMaxTx
    keyA = keyA
    keyU = keyU
    keyV = keyV
    keyW = keyW
    keyF = keyF
CHECK_DEADLOCK FALSE
INVARIANT StakingSumHolds
