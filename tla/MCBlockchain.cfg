SPECIFICATION Spec
CONSTANTS
    g = g a1 = a1 a2 = a2 a3 = a3 a4 = a4 c2 = c2 e3 = e3 z = z k = k k1 = k1
    w = w x = x
    NONE = NONE
    Blocks <- AllBlocks
    Coins = {w, x}
    MaxHeight = 3
    Prev <- MCPrev
    Height <- MCHeight
    Weight <- MCWeight
    IsTx <- MCIsTx
    Additions <- MCAdditions
    Rewards <- MCRewards
    Removals <- MCRemovals
    GenRefs <- NoRefs
    HasSes <- MCHasSes
    HeaderValid <- AllBlocks
    BodyValid <- AllBlocks
    Rooted <- NumberedBlocks
    Ancestor <- MCAncestor
    BLOCKS_CACHE_SIZE = 2
    MaxBatch = 1
    AbortPoints = {"add", "reconsider"}
    WpMismatch = FALSE
INVARIANTS
    TypeOK
    StoredChainsComplete
    MemoryFollowsDatabase
    PeakIsHeaviest
    CoinStoreMatchesChain
    
    
    SummariesMatchChain
    VerdictMatchesReference
    SanityChecksRedundant
PROPERTIES
    PeakWeightGrows
    ImplementsLedger
    
