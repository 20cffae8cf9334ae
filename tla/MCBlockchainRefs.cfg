SPECIFICATION Spec
CONSTANTS
    g = g a1 = a1 a2 = a2 a3 = a3 a4 = a4 c2 = c2 e3 = e3 z = z k = k k1 = k1
    w = w x = x
    NONE = NONE
    Blocks <- RefBlocks
    Coins = {w, x}
    MaxHeight = 4
    Prev <- MCPrev
    Height <- MCHeight
    Weight <- ShortWeight
    IsTx <- MCIsTx
    Additions <- MCAdditions
    Rewards <- MCRewards
    Removals <- MCRemovals
    GenRefs <- RefsToA2
    HasSes <- MCHasSes
    HeaderValid <- RefBlocks
    BodyValid <- RefBlocks
    Rooted <- NumberedBlocks
    Ancestor <- MCAncestor
    BLOCKS_CACHE_SIZE = 4
    MaxBatch = 2
    AbortPoints = {}
    WpMismatch = FALSE
INVARIANTS
    GeneratorsFromOwnChain
