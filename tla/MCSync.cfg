SPECIFICATION Spec
CONSTANTS
    g = g a1 = a1 a2 = a2 a3 = a3 a4 = a4 a5 = a5 b3 = b3 b4 = b4 b5 = b5
    p1 = p1 p2 = p2
    NONE = NONE
    Blocks <- MCBlocks
    Coins = {}
    MaxHeight = 5
    Prev <- MCPrev
    Height <- MCHeight
    Weight <- MCWeight
    IsTx <- Never
    Additions <- Nothing
    Rewards <- Nothing
    Removals <- Nothing
    GenRefs <- Nothing
    HasSes <- MCHasSes
    HeaderValid <- MCBlocks
    BodyValid <- MCBodyValid
    Rooted <- MCBlocks
    Ancestor <- PathOf
    Peers = {p1}
    PeerTips <- MCPeerTips
    StartPeaks = {a2, b3, a4, a5}
    Infusable = {a3}
    Handlers = {1, 2}
    Serves <- MCServes
    Syncs = {3}
    SHORT_SYNC = 1
    BACKTRACK = 1
    RECENT_BLOCKS = 2
    SYNC_BEHIND = 2
    BATCH_BACK = 1
    BATCH_SIZE = 2
    SES_BACK = 1
    CLEAR_PERIOD = 4
    Malformed = TRUE
INVARIANTS
    TypeOK
    
    ShortSyncsKnown
    ForkPointCommon
