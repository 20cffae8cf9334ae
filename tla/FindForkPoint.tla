---------------------------- MODULE FindForkPoint ----------------------------
(***************************************************************************)
(* chia/consensus/find_fork_point.py: the loop that walks two chains down   *)
(* by prev_hash until they meet, over a BlockchainInterface that has some   *)
(* of the block records in memory.  One action per branch of the loop.      *)
(* Blockchain.tla uses its result, ForkPoints, and the condition under      *)
(* which it raises KeyError, WalkedIn, instead of the loop.                 *)
(***************************************************************************)
EXTENDS BlockTree

VARIABLES
    args,      \* the two blocks of the call
    loaded,    \* the keys of the records that blocks.block_record finds
    block_1,   \* the loop's variables
    block_2,
    pc,        \* "loop", "returned" or "raised"
    value      \* what was returned; -1 before

vars == <<args, loaded, block_1, block_2, pc, value>>

Init ==
    /\ args \in Rooted \X Rooted
    /\ loaded \in SUBSET Blocks
    /\ block_1 = args[1]
    /\ block_2 = args[2]
    /\ pc = "loop"
    /\ value = -1

\* Mutant: the loop ends when one of the blocks is a genesis block.
BothAboveGenesis == Height[block_2] > 0 /\ Height[block_1] > 0

\* The condition of the while loop.
AboveGenesis == Height[block_2] > 0 \/ Height[block_1] > 0

Looping == pc = "loop" /\ AboveGenesis

Raise ==
    /\ pc' = "raised"
    /\ UNCHANGED <<args, loaded, block_1, block_2, value>>

Return(v) ==
    /\ pc' = "returned"
    /\ value' = v
    /\ UNCHANGED <<args, loaded, block_1, block_2>>

StepBlock2 ==
    /\ Looping
    /\ Height[block_2] > Height[block_1]
    /\ IF Prev[block_2] \in loaded
       THEN block_2' = Prev[block_2] /\ UNCHANGED <<args, loaded, block_1, pc, value>>
       ELSE Raise

\* Mutant: block_1 is looked up by its own hash.
StaysAtBlock1 ==
    /\ Looping
    /\ Height[block_1] > Height[block_2]
    /\ UNCHANGED vars

StepBlock1 ==
    /\ Looping
    /\ Height[block_1] > Height[block_2]
    /\ IF Prev[block_1] \in loaded
       THEN block_1' = Prev[block_1] /\ UNCHANGED <<args, loaded, block_2, pc, value>>
       ELSE Raise

SameHeight == Looping /\ Height[block_1] = Height[block_2]

Meet ==
    /\ SameHeight
    /\ block_1 = block_2
    /\ Return(Height[block_2])

\* Mutant: of two different blocks only block_2's predecessor is looked up.
StepBothHalfChecked ==
    /\ SameHeight
    /\ block_1 # block_2
    /\ IF Prev[block_2] \in loaded
       THEN /\ block_1' = Prev[block_1]
            /\ block_2' = Prev[block_2]
            /\ UNCHANGED <<args, loaded, pc, value>>
       ELSE Raise

StepBoth ==
    /\ SameHeight
    /\ block_1 # block_2
    /\ IF {Prev[block_1], Prev[block_2]} \subseteq loaded
       THEN /\ block_1' = Prev[block_1]
            /\ block_2' = Prev[block_2]
            /\ UNCHANGED <<args, loaded, pc, value>>
       ELSE Raise

\* After the loop: both are genesis blocks.
AtGenesis ==
    /\ pc = "loop"
    /\ ~AboveGenesis
    /\ Return(IF block_1 = block_2 THEN 0 ELSE -1)

Next == StepBlock2 \/ StepBlock1 \/ Meet \/ StepBoth \/ AtGenesis

\* The function runs without an await: it goes on until it returns or raises.
Spec == Init /\ [][Next]_vars /\ WF_vars(Next)

----------------------------------------------------------------------------
(* Properties                                                               *)

\* "Returns -1 if chains have no common ancestor", and otherwise the height of the
\* last block that the chains have in common.
ReturnsForkPoint == pc = "returned" => value \in ForkPoints(args[1], args[2])

\* The lookups fail if and only if a record between the fork point and one of the
\* two blocks is not in memory; the fork point's own record is needed unless the
\* block is the fork point.
RaisesIffUnloaded ==
    pc # "loop" => \A f \in ForkPoints(args[1], args[2]) :
        pc = "raised" <=> ~(WalkedIn(loaded, args[1], f) /\ WalkedIn(loaded, args[2], f))

\* The loop ends.
Terminates == <>(pc # "loop")
=============================================================================
