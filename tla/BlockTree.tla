------------------------------ MODULE BlockTree ------------------------------
(***************************************************************************)
(* The blocks a node may be sent and the facts about them that do not       *)
(* change: a header hash commits to the whole ancestry of its block, so     *)
(* parent, height, weight and body of a block are constants of the model.   *)
(* A block is identified with its header hash.                              *)
(***************************************************************************)
EXTENDS Integers

CONSTANTS
    Blocks,        \* every block some peer may send
    Coins,         \* coin names
    NONE,          \* Python's None
    MaxHeight,     \* bound: no block claims a height above it
    Prev,          \* prev_header_hash; NONE where it is GENESIS_CHALLENGE
    Height,        \* the height the block claims
    Weight,        \* cumulative difficulty
    IsTx,          \* is_transaction_block()
    Additions,     \* coins the block's generator creates
    Rewards,       \* get_included_reward_coins()
    Removals,      \* coins the block's generator spends
    GenRefs,       \* transactions_generator_ref_list, as a set of heights
    HasSes,        \* sub_epoch_summary_included is not None
    HeaderValid,   \* blocks that validate_finished_header_block accepts
    BodyValid,     \* blocks whose body passes every check that reads no coin
    Rooted,        \* blocks with a properly numbered path to a genesis block
    Ancestor       \* Ancestor[b][h]: the block of height h on b's own chain

Heights == 0..MaxHeight

ASSUME BlockAssumption ==
    /\ NONE \notin Blocks
    /\ MaxHeight \in Nat
    /\ Prev \in [Blocks -> Blocks \cup {NONE}]
    /\ Height \in [Blocks -> Heights]
    /\ Weight \in [Blocks -> Nat]
    /\ IsTx \in [Blocks -> BOOLEAN]
    /\ Additions \in [Blocks -> SUBSET Coins]
    /\ Rewards \in [Blocks -> SUBSET Coins]
    /\ Removals \in [Blocks -> SUBSET Coins]
    /\ GenRefs \in [Blocks -> SUBSET Heights]
    /\ HasSes \in [Blocks -> BOOLEAN]
    /\ HeaderValid \subseteq Blocks
    /\ BodyValid \subseteq Blocks

(***************************************************************************)
(* Header validation recomputes the weight: a genesis block weighs          *)
(* DIFFICULTY_STARTING and every other block at least one more than its     *)
(* parent.  It also fixes the parent of a block of height 0.                *)
(***************************************************************************)
ASSUME HeaderAssumption ==
    /\ \A b \in HeaderValid : Height[b] = 0 => Prev[b] = NONE /\ Weight[b] > 0
    /\ \A b \in HeaderValid : Height[b] > 0 =>
            Prev[b] \in Blocks /\ Weight[b] > Weight[Prev[b]]
    /\ \A b, g \in HeaderValid :
            Height[b] = 0 /\ Height[g] = 0 => Weight[b] = Weight[g]

(***************************************************************************)
(* A block without transactions creates and spends nothing, a generator     *)
(* refers to earlier heights only (check 8c of validate_block_body), and a  *)
(* genesis block has nothing before it to spend.                            *)
(***************************************************************************)
ASSUME BodyAssumption ==
    /\ \A b \in BodyValid : ~IsTx[b] =>
            Additions[b] = {} /\ Rewards[b] = {} /\ Removals[b] = {}
    /\ \A b \in BodyValid : \A h \in GenRefs[b] : h < Height[b]

(***************************************************************************)
(* Rooted and Ancestor are determined by Prev and Height; they stand for    *)
(* walking prev_hash from a block towards its genesis block.                *)
(***************************************************************************)
ASSUME AncestorAssumption ==
    /\ Rooted \subseteq Blocks
    /\ \A b \in Blocks :
          b \in Rooted <=> \/ Height[b] = 0
                           \/ Prev[b] \in Rooted /\ Height[b] = Height[Prev[b]] + 1
    /\ \A b \in Rooted :
          /\ Ancestor[b][Height[b]] = b
          /\ Height[b] > 0 => Ancestor[b][Height[b] - 1] = Prev[b]
          /\ \A k \in 0..Height[b] :
                /\ Ancestor[b][k] \in Rooted
                /\ Height[Ancestor[b][k]] = k
                /\ \A h \in 0..k : Ancestor[Ancestor[b][k]][h] = Ancestor[b][h]

Created(b) == Additions[b] \cup Rewards[b]

\* The heights at which the chains of a and b hold the same block.
Common(a, b) ==
    {h \in 0..Height[a] : h <= Height[b] /\ Ancestor[a][h] = Ancestor[b][h]}

(***************************************************************************)
(* What find_fork_point_in_chain(blocks, a, b) returns: the greatest common *)
(* height, or -1 when even the genesis blocks differ.  A one-element set;   *)
(* FindForkPoint.tla has the loop, and the proof that it computes this.     *)
(***************************************************************************)
ForkPoints(a, b) ==
    {f \in Common(a, b) \cup {-1} : \A h \in Common(a, b) : h <= f}

\* Every record that the walk from b down to height fork looks up is among `loaded`.
WalkedIn(loaded, b, fork) ==
    \A h \in 0..(Height[b] - 1) : h >= fork => Ancestor[b][h] \in loaded

----------------------------------------------------------------------------
(* Valid blocks                                                             *)

\* The removals that validate_block_body looks up: the block creates the others.
CoinsReadFor(b) == IF IsTx[b] THEN Removals[b] \ Created(b) ELSE {}

\* What validate_block_body has to decide, said of the block's own chain alone.
ValidOnOwnChain(b) ==
    /\ b \in HeaderValid \cap BodyValid \cap Rooted
    /\ \A c \in CoinsReadFor(b) :
          /\ \E h \in 0..(Height[b] - 1) : c \in Created(Ancestor[b][h])
          /\ \A h \in 0..(Height[b] - 1) : c \notin Removals[Ancestor[b][h]]

(***************************************************************************)
(* A coin's name is the hash of its parent's name, its puzzle hash and its  *)
(* amount; the parent of a reward coin is named after a height.  On a valid *)
(* chain no coin is therefore created twice.                                *)
(***************************************************************************)
ASSUME CoinAssumption ==
    \A b \in Rooted :
        (\A h \in 0..Height[b] : ValidOnOwnChain(Ancestor[b][h])) =>
            \A h, k \in 0..Height[b] :
                h # k => Created(Ancestor[b][h]) \cap Created(Ancestor[b][k]) = {}
=============================================================================
