SPECIFICATION Spec
CONSTANTS
    b0 = b0
    b1 = b1
    b2 = b2
    b3 = b3
    d2 = d2
    d3 = d3
    e1 = e1
    e2 = e2
    e2b = e2b
    e2c = e2c
    k1 = k1
    k2 = k2
    NONE = NONE
    GENESIS = GENESIS
    Blocks = {b0, b1, b2, b3, d2, d3}
    Prev <- MCPrev
    Iters <- MCIters
    Weight <- MCWeight
    IpSlot <- MCIpSlot
    SpSlot <- MCSpSlot
    FirstInSubSlot = {b1, b3}
    BlockSp <- MCBlockSp
    Slots = {e1, e2, e2b, e2c}
    CcPrev <- MCCcPrev
    CcHash <- MCCcHash
    Rc <- MCRc
    SlotStart <- MCSlotStart
    SignagePoints <- MCSignagePoints
    SUB_SLOT_ITERS = 4
    NUM_SPS = 4
    MaxWaiting = 1
    Uncached = {b0, b3}
    Clearing = {b0, b2}
INVARIANTS
    TypeOK
    
    
CHECK_DEADLOCK FALSE
