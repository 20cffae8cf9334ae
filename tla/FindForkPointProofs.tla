------------------------ MODULE FindForkPointProofs ------------------------
(***************************************************************************)
(* The loop of find_fork_point_in_chain returns the fork point, and raises  *)
(* exactly when a record it needs is missing, for every block tree and      *)
(* every set of loaded records.  WalkInv is the loop invariant.             *)
(***************************************************************************)
EXTENDS FindForkPoint, BlockTreeProofs

\* The loop has walked from a down to b, and found every record on the way.
Walked(a, b) ==
    /\ b \in Rooted
    /\ Height[b] <= Height[a]
    /\ b = Ancestor[a][Height[b]]
    /\ WalkedIn(loaded, a, Height[b])

WalkInv ==
    /\ args[1] \in Rooted
    /\ args[2] \in Rooted
    /\ Walked(args[1], block_1)
    /\ Walked(args[2], block_2)
    /\ \A h \in Common(args[1], args[2]) : h <= Height[block_1] /\ h <= Height[block_2]
    /\ ReturnsForkPoint
    /\ RaisesIffUnloaded

\* One step down a chain.
LEMMA WalkStep ==
    ASSUME NEW a \in Rooted, NEW b, Walked(a, b), Height[b] > 0
    PROVE  /\ Height[a] \in Nat /\ Height[b] \in Nat
           /\ Height[Prev[b]] = Height[b] - 1
           /\ Prev[b] = Ancestor[a][Height[b] - 1]
           /\ Prev[b] \in loaded => Walked(a, Prev[b])
<1>1. b \in Rooted /\ Height[a] \in Nat /\ Height[b] \in Nat
    BY BlockAssumption, AncestorAssumption DEF Walked, Heights
<1>2. Prev[b] \in Rooted /\ Height[Prev[b]] = Height[b] - 1
    BY <1>1, ParentChain
<1>3. Ancestor[b][Height[b] - 1] = Prev[b]
    BY <1>1, AncestorAssumption
<1>4. Ancestor[b][Height[b] - 1] = Ancestor[a][Height[b] - 1]
    <2>1. Height[b] \in 0..Height[a] /\ Height[b] - 1 \in 0..Height[b]
        BY <1>1 DEF Walked
    <2> QED
        BY <2>1, AncestorAssumption DEF Walked
<1>5. ASSUME Prev[b] \in loaded PROVE WalkedIn(loaded, a, Height[b] - 1)
    BY <1>1, <1>3, <1>4, <1>5 DEF Walked, WalkedIn
<1> QED
    BY <1>1, <1>2, <1>3, <1>4, <1>5 DEF Walked

\* A missing record above the fork point is one that the walk needs.
LEMMA WalkBlocked ==
    ASSUME NEW a \in Rooted, NEW b, Walked(a, b), Height[b] > 0, Prev[b] \notin loaded,
           NEW f \in Int, f < Height[b]
    PROVE  ~WalkedIn(loaded, a, f)
<1>1. /\ Height[a] \in Nat /\ Height[b] \in Nat /\ Height[b] <= Height[a]
      /\ Prev[b] = Ancestor[a][Height[b] - 1]
    BY WalkStep DEF Walked
<1>2. Height[b] - 1 \in 0..(Height[a] - 1) /\ Height[b] - 1 >= f
    BY <1>1
<1> QED
    BY <1>1, <1>2 DEF WalkedIn

\* The heights of the loop's blocks; a block at a common height is on both chains.
LEMMA WalkHeights ==
    ASSUME WalkInv
    PROVE  /\ block_1 \in Rooted /\ block_2 \in Rooted
           /\ Height[block_1] \in 0..Height[args[1]]
           /\ Height[block_2] \in 0..Height[args[2]]
           /\ Height[args[1]] \in Nat /\ Height[args[2]] \in Nat
           /\ Common(args[1], args[2]) \subseteq Nat
           /\ Height[block_1] = Height[block_2] =>
                 (block_1 = block_2 <=> Height[block_1] \in Common(args[1], args[2]))
<1>1. /\ block_1 \in Rooted /\ block_2 \in Rooted
      /\ Height[block_1] \in Nat /\ Height[block_2] \in Nat
      /\ Height[args[1]] \in Nat /\ Height[args[2]] \in Nat
      /\ Height[block_1] <= Height[args[1]] /\ Height[block_2] <= Height[args[2]]
    BY BlockAssumption, AncestorAssumption DEF WalkInv, Walked, Heights
<1> QED
    BY <1>1 DEF WalkInv, Walked, Common

\* What the fork point is when the walk is at its end.
LEMMA ForkPointReached ==
    ASSUME WalkInv, Height[block_1] = Height[block_2],
           NEW f \in ForkPoints(args[1], args[2])
    PROVE  /\ f \in Int
           /\ block_1 = block_2 => f = Height[block_1]
           /\ block_1 # block_2 => f < Height[block_1]
<1>1. f \in Common(args[1], args[2]) \cup {-1} /\ \A h \in Common(args[1], args[2]) : h <= f
    BY DEF ForkPoints
<1>2. \A h \in Common(args[1], args[2]) : h <= Height[block_1]
    BY DEF WalkInv
<1> QED
    BY <1>1, <1>2, WalkHeights

\* The first iteration starts at the arguments.
LEMMA InitWalk == Init => WalkInv
<1> SUFFICES ASSUME Init PROVE WalkInv
    OBVIOUS
<1>1. args[1] \in Rooted /\ args[2] \in Rooted
    BY DEF Init
<1>2. ASSUME NEW a \in Rooted PROVE Walked(a, a)
    BY <1>2, BlockAssumption, AncestorAssumption DEF Walked, WalkedIn, Heights
<1>3. \A h \in Common(args[1], args[2]) : h <= Height[args[1]] /\ h <= Height[args[2]]
    BY <1>1, BlockAssumption, AncestorAssumption DEF Common, Heights
<1> QED
    BY <1>1, <1>2, <1>3 DEF Init, WalkInv, ReturnsForkPoint, RaisesIffUnloaded

\* A lookup that fails is one that the walk needs.
LEMMA RaiseWalk ==
    ASSUME WalkInv, Raise,
           \A f \in ForkPoints(args[1], args[2]) :
              ~(WalkedIn(loaded, args[1], f) /\ WalkedIn(loaded, args[2], f))
    PROVE  WalkInv'
BY DEF WalkInv, Raise, ReturnsForkPoint, RaisesIffUnloaded, Walked, WalkedIn, Common, ForkPoints

\* A step down that keeps every common height at or below both blocks.
LEMMA StepWalk ==
    ASSUME WalkInv, pc = "loop", UNCHANGED <<args, loaded, pc, value>>,
           Walked(args[1], block_1'), Walked(args[2], block_2'),
           \A h \in Common(args[1], args[2]) : h <= Height[block_1'] /\ h <= Height[block_2']
    PROVE  WalkInv'
BY DEF WalkInv, ReturnsForkPoint, RaisesIffUnloaded, Walked, WalkedIn, Common, ForkPoints

\* The loop returns when both blocks are at the same height; all is loaded above it.
LEMMA ReturnWalk ==
    ASSUME WalkInv, Height[block_1] = Height[block_2], NEW v, Return(v),
           block_1 = block_2 => v = Height[block_1],
           block_1 # block_2 => v = -1 /\ Height[block_1] = 0
    PROVE  WalkInv'
<1>1. v \in ForkPoints(args[1], args[2])
    BY WalkHeights DEF ForkPoints, WalkInv
<1>2. ASSUME NEW f \in ForkPoints(args[1], args[2])
      PROVE  WalkedIn(loaded, args[1], f) /\ WalkedIn(loaded, args[2], f)
    <2>1. /\ f \in Int
          /\ block_1 = block_2 => f = Height[block_1]
          /\ block_1 # block_2 => f < Height[block_1]
        BY ForkPointReached
    <2>2. WalkedIn(loaded, args[1], Height[block_1]) /\ WalkedIn(loaded, args[2], Height[block_1])
        BY DEF WalkInv, Walked
    <2> QED
        BY <2>1, <2>2 DEF WalkedIn
<1> QED
    BY <1>1, <1>2 DEF WalkInv, Return, ReturnsForkPoint, RaisesIffUnloaded, Walked, WalkedIn,
                      Common, ForkPoints

\* The loop invariant is inductive: one case for each branch.
LEMMA WalkInductive == WalkInv /\ [Next]_vars => WalkInv'
<1> SUFFICES ASSUME WalkInv, [Next]_vars PROVE WalkInv'
    OBVIOUS
<1>1. /\ args[1] \in Rooted /\ args[2] \in Rooted
      /\ Walked(args[1], block_1) /\ Walked(args[2], block_2)
      /\ \A h \in Common(args[1], args[2]) : h <= Height[block_1] /\ h <= Height[block_2]
    BY DEF WalkInv
<1>2. \A f \in ForkPoints(args[1], args[2]) :
          f \in Int /\ f <= Height[block_1] /\ f <= Height[block_2]
    BY <1>1, WalkHeights DEF ForkPoints
<1>3. CASE StepBlock2
    <2>1. Height[block_2] > 0 /\ Height[block_2] > Height[block_1] /\ pc = "loop"
        BY <1>3, WalkHeights DEF StepBlock2, Looping
    <2>2. CASE Prev[block_2] \in loaded
        <3>1. \A h \in Common(args[1], args[2]) : h <= Height[Prev[block_2]]
            BY <1>1, <2>1, WalkStep, WalkHeights
        <3> QED
            BY <1>1, <1>3, <2>1, <2>2, <3>1, WalkStep, StepWalk DEF StepBlock2
    <2>3. CASE Prev[block_2] \notin loaded
        <3>1. \A f \in ForkPoints(args[1], args[2]) : ~WalkedIn(loaded, args[2], f)
            BY <1>1, <1>2, <2>1, <2>3, WalkBlocked, WalkHeights
        <3> QED
            BY <1>3, <2>3, <3>1, RaiseWalk DEF StepBlock2
    <2> QED
        BY <2>2, <2>3
<1>4. CASE StepBlock1
    <2>1. Height[block_1] > 0 /\ Height[block_1] > Height[block_2] /\ pc = "loop"
        BY <1>4, WalkHeights DEF StepBlock1, Looping
    <2>2. CASE Prev[block_1] \in loaded
        <3>1. \A h \in Common(args[1], args[2]) : h <= Height[Prev[block_1]]
            BY <1>1, <2>1, WalkStep, WalkHeights
        <3> QED
            BY <1>1, <1>4, <2>1, <2>2, <3>1, WalkStep, StepWalk DEF StepBlock1
    <2>3. CASE Prev[block_1] \notin loaded
        <3>1. \A f \in ForkPoints(args[1], args[2]) : ~WalkedIn(loaded, args[1], f)
            BY <1>1, <1>2, <2>1, <2>3, WalkBlocked, WalkHeights
        <3> QED
            BY <1>4, <2>3, <3>1, RaiseWalk DEF StepBlock1
    <2> QED
        BY <2>2, <2>3
<1>5. CASE Meet
    BY <1>5, ReturnWalk DEF Meet, SameHeight
<1>6. CASE StepBoth
    <2>1. /\ Height[block_1] > 0 /\ Height[block_1] = Height[block_2] /\ pc = "loop"
          /\ block_1 # block_2
        BY <1>6, WalkHeights DEF StepBoth, SameHeight, Looping, AboveGenesis
    <2>2. CASE {Prev[block_1], Prev[block_2]} \subseteq loaded
        <3>1. \A h \in Common(args[1], args[2]) :
                 h <= Height[Prev[block_1]] /\ h <= Height[Prev[block_2]]
            BY <1>1, <2>1, WalkStep, WalkHeights
        <3> QED
            BY <1>1, <1>6, <2>1, <2>2, <3>1, WalkStep, StepWalk DEF StepBoth
    <2>3. CASE ~({Prev[block_1], Prev[block_2]} \subseteq loaded)
        <3>1. ASSUME NEW f \in ForkPoints(args[1], args[2])
              PROVE  ~(WalkedIn(loaded, args[1], f) /\ WalkedIn(loaded, args[2], f))
            <4>1. f \in Int /\ f < Height[block_1] /\ f < Height[block_2]
                BY <2>1, ForkPointReached
            <4> QED
                BY <1>1, <2>1, <2>3, <4>1, WalkBlocked
        <3> QED
            BY <1>6, <2>3, <3>1, RaiseWalk DEF StepBoth
    <2> QED
        BY <2>2, <2>3
<1>7. CASE AtGenesis
    <2>1. Height[block_1] = 0 /\ Height[block_2] = 0
        BY <1>7, WalkHeights DEF AtGenesis, AboveGenesis
    <2> QED
        BY <1>7, <2>1, ReturnWalk DEF AtGenesis
<1>8. CASE UNCHANGED vars
    BY <1>8 DEF vars, WalkInv, ReturnsForkPoint, RaisesIffUnloaded, Walked, WalkedIn,
                Common, ForkPoints
<1> QED
    BY <1>3, <1>4, <1>5, <1>6, <1>7, <1>8 DEF Next

\* When find_fork_point_in_chain returns, it returns the greatest height at which the
\* chains of its arguments hold the same block, or -1 when there is none.
THEOREM AlwaysReturnsForkPoint == Spec => []ReturnsForkPoint
<1>1. WalkInv => ReturnsForkPoint
    BY DEF WalkInv
<1> QED
    BY <1>1, InitWalk, WalkInductive, PTL DEF Spec

\* find_fork_point_in_chain raises KeyError exactly when a record between the fork
\* point and one of its arguments is not in memory: the condition that Blockchain.tla
\* uses in its place.
THEOREM AlwaysRaisesIffUnloaded == Spec => []RaisesIffUnloaded
<1>1. WalkInv => RaisesIffUnloaded
    BY DEF WalkInv
<1> QED
    BY <1>1, InitWalk, WalkInductive, PTL DEF Spec
=============================================================================
