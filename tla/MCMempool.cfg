SPECIFICATION Spec
CONSTANTS
    g = g a1 = a1 a2 = a2 c2 = c2 c3 = c3 d3 = d3 r = r s = s x = x t1 = t1 t2 = t2 t3 = t3
    NONE = NONE
    PeakTask = PeakTask
    Blocks <- MCBlocks
    Coins = {r, s, x}
    MaxHeight = 3
    Prev <- MCPrev
    Height <- MCHeight
    Weight <- MCWeight
    IsTx <- MCIsTx
    Additions <- Nothing
    Rewards <- MCRewards
    Removals <- MCRemovals
    GenRefs <- Nothing
    HasSes <- NoSes
    HeaderValid <- MCBlocks
    BodyValid <- MCBlocks
    Rooted <- MCBlocks
    Ancestor <- PathOf
    Txs = {t1, t2, t3}
    TxRemovals <- MCTxRemovals
    TxAdditions <- MCTxAdditions
    Cost <- MCCost
    Fee <- MCFee
    MinHeight <- MCMinHeight
    WellFormed = {t1, t2, t3}
    Satisfied = {t1, t2, t3}
    Authorized = {t1, t2, t3}
    MaxTotalCost = 2
    PotentialMax = 20
    MinFpc = 1
    MinFeeIncrease = 1
    SeenSize = 2
INVARIANTS
    TypeOK
    IndexMatchesItems
    CostWithinLimit
    
PROPERTIES
    ReplacementsPayMore
