---------------------------- MODULE HeaviestChain ----------------------------
(***************************************************************************)
(* What the chain of a full node promises to the rest of the node: a growing *)
(* set of valid blocks, the peak among them, and the coins that can be       *)
(* spent on the chain of the peak.  Blockchain.tla implements it; the sync   *)
(* of FullNodeSync.tla is built on it.                                       *)
(***************************************************************************)
EXTENDS BlockTree

VARIABLES
    stored,   \* the blocks of the block store
    peak,     \* the block that get_peak() returns; NONE before the first block
    unspent   \* the coins that the chain of the peak has created and not spent

ledger == <<stored, peak, unspent>>

UnspentOn(b) ==
    {c \in Coins :
        /\ \E h \in 0..Height[b] : c \in Created(Ancestor[b][h])
        /\ \A h \in 0..Height[b] : c \notin Removals[Ancestor[b][h]]}

LedgerInit == stored = {} /\ peak = NONE /\ unspent = {}

\* A valid block whose parent is stored.
Acceptable(b) ==
    /\ Height[b] > 0 => Prev[b] \in stored
    /\ ValidOnOwnChain(b)

\* The first block, or one that is heavier than the peak; a genesis block never
\* replaces a peak.
Outweighs(b) ==
    IF peak = NONE THEN Height[b] = 0 ELSE Height[b] > 0 /\ Weight[b] > Weight[peak]

Extend(b) ==
    /\ b \notin stored
    /\ stored' = stored \cup {b}
    /\ Acceptable(b)
    /\ Outweighs(b)
    /\ peak' = b
    /\ unspent' = UnspentOn(b)

KeepAside(b) ==
    /\ b \notin stored
    /\ stored' = stored \cup {b}
    /\ Acceptable(b)
    /\ ~Outweighs(b)
    /\ peak # NONE
    /\ UNCHANGED <<peak, unspent>>

Accept == \E b \in Blocks : Extend(b) \/ KeepAside(b)

LedgerSpec == LedgerInit /\ [][Accept]_ledger
=============================================================================
