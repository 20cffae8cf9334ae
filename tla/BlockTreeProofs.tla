-------------------------- MODULE BlockTreeProofs --------------------------
(***************************************************************************)
(* What walking prev_hash meets: lemmas about Ancestor, Common and          *)
(* ForkPoints for every block tree.  Least elements stand in for induction. *)
(***************************************************************************)
EXTENDS BlockTree, WellFoundedInduction, TLAPS

\* Below its tip, a block's chain is the chain of its parent: what walking
\* prev_hash from either of them meets.
LEMMA ParentChain ==
    ASSUME NEW b \in Rooted, Height[b] > 0
    PROVE  /\ Prev[b] \in Rooted
           /\ Height[Prev[b]] = Height[b] - 1
           /\ \A h \in 0..(Height[b] - 1) : Ancestor[b][h] = Ancestor[Prev[b]][h]
<1>1. b \in Blocks /\ Height[b] \in Nat
    BY BlockAssumption, AncestorAssumption DEF Heights
<1>2. Prev[b] \in Rooted /\ Height[b] = Height[Prev[b]] + 1
    BY <1>1, AncestorAssumption
<1>3. Height[Prev[b]] = Height[b] - 1
    BY <1>1, <1>2, BlockAssumption, AncestorAssumption DEF Heights
<1>4. Ancestor[b][Height[b] - 1] = Prev[b] /\ Height[b] - 1 \in 0..Height[b]
    BY <1>1, AncestorAssumption
<1>5. \A h \in 0..(Height[b] - 1) : Ancestor[Prev[b]][h] = Ancestor[b][h]
    BY <1>4, AncestorAssumption
<1> QED
    BY <1>2, <1>3, <1>5

\* Two chains that hold the same block at one height are the same below it.
LEMMA CommonBelow ==
    ASSUME NEW a \in Rooted, NEW b \in Rooted, NEW f \in 0..Height[a],
           f <= Height[b], Ancestor[a][f] = Ancestor[b][f]
    PROVE  \A h \in 0..f : Ancestor[a][h] = Ancestor[b][h]
<1>1. Height[a] \in Nat /\ Height[b] \in Nat
    BY BlockAssumption, AncestorAssumption DEF Heights
<1>2. f \in 0..Height[b]
    BY <1>1
<1>3. \A h \in 0..f : Ancestor[Ancestor[a][f]][h] = Ancestor[a][h]
    BY AncestorAssumption
<1>4. \A h \in 0..f : Ancestor[Ancestor[b][f]][h] = Ancestor[b][h]
    BY <1>2, AncestorAssumption
<1> QED
    BY <1>3, <1>4

\* A fork point is -1 or a common height of the two chains.
LEMMA ForkPointsType ==
    ASSUME NEW a \in Rooted, NEW b \in Rooted, NEW f \in ForkPoints(a, b)
    PROVE  /\ f \in -1..MaxHeight
           /\ f <= Height[a]
           /\ f <= Height[b]
           /\ f >= 0 => Ancestor[a][f] = Ancestor[b][f]
<1>1. Height[a] \in 0..MaxHeight /\ Height[b] \in 0..MaxHeight /\ MaxHeight \in Nat
    BY BlockAssumption, AncestorAssumption DEF Heights
<1>2. CASE f = -1
    BY <1>1, <1>2
<1>3. CASE f \in Common(a, b)
    BY <1>1, <1>3 DEF Common
<1> QED
    BY <1>2, <1>3 DEF ForkPoints

-----------------------------------------------------------------------------
(* Least elements *)

\* Every set of naturals that is not empty has a least element: an induction is stated
\* as the search for a least counterexample.
LEMMA LeastNatural ==
    ASSUME NEW T, T \subseteq Nat, T # {}
    PROVE  \E x \in T : \A y \in T : x <= y
<1> DEFINE R == OpToRel(<, Nat)
<1>1. IsWellFoundedOn(R, Nat)
    BY NatLessThanWellFounded
<1>2. \A x, y \in Nat : <<y, x>> \in R <=> y < x
    BY DEF OpToRel
<1> HIDE DEF R
<1>3. PICK x \in T : \A y \in T : ~(<<y, x>> \in R)
    BY <1>1, WFMin
<1>4. ASSUME NEW y \in T PROVE x <= y
    <2>1. x \in Nat /\ y \in Nat /\ ~(y < x)
        BY <1>2, <1>3
    <2> QED
        BY <2>1
<1> QED
    BY <1>4

\* find_fork_point_in_chain has something to find: two chains have a greatest common
\* height, or none at all.
LEMMA ForkPointExists ==
    ASSUME NEW a \in Rooted, NEW b \in Rooted
    PROVE  ForkPoints(a, b) # {}
<1> DEFINE T == {Height[a] - h : h \in Common(a, b)}
<1>1. Height[a] \in Nat /\ \A h \in Common(a, b) : h \in Int /\ 0 <= h /\ h <= Height[a]
    BY BlockAssumption, AncestorAssumption DEF Heights, Common
<1>2. CASE Common(a, b) = {}
    BY <1>2 DEF ForkPoints
<1>3. CASE Common(a, b) # {}
    <2>1. T \subseteq Nat /\ T # {}
        BY <1>1, <1>3
    <2>2. PICK x \in T : \A y \in T : x <= y
        <3> HIDE DEF T
        <3> QED
            BY <2>1, LeastNatural
    <2>3. PICK f \in Common(a, b) : Height[a] - f = x
        BY <2>2
    <2>4. ASSUME NEW h \in Common(a, b) PROVE h <= f
        <3>1. Height[a] - f <= Height[a] - h
            BY <2>2, <2>3
        <3> QED
            BY <1>1, <2>3, <3>1
    <2> QED
        BY <2>3, <2>4 DEF ForkPoints
<1> QED
    BY <1>2, <1>3

\* Of some blocks one has the least height: respond_block has a block to begin with.
LEMMA LowestBlock ==
    ASSUME NEW S \in SUBSET Blocks, S # {}
    PROVE  \E b \in S : \A a \in S : Height[b] <= Height[a]
<1> DEFINE T == {Height[b] : b \in S}
<1>1. T \subseteq Nat /\ T # {}
    BY BlockAssumption DEF Heights
<1>2. PICK x \in T : \A y \in T : x <= y
    <2> HIDE DEF T
    <2> QED
        BY <1>1, LeastNatural
<1>3. PICK b \in S : Height[b] = x
    BY <1>2
<1> QED
    BY <1>2, <1>3

\* And one has the greatest.
LEMMA HighestBlock ==
    ASSUME NEW S \in SUBSET Blocks, S # {}
    PROVE  \E b \in S : \A a \in S : Height[a] <= Height[b]
<1> DEFINE T == {MaxHeight - Height[b] : b \in S}
<1>1. \A b \in S : Height[b] \in Nat /\ Height[b] <= MaxHeight /\ MaxHeight \in Nat
    BY BlockAssumption DEF Heights
<1>2. T \subseteq Nat /\ T # {}
    BY <1>1
<1>3. PICK x \in T : \A y \in T : x <= y
    <2> HIDE DEF T
    <2> QED
        BY <1>2, LeastNatural
<1>4. PICK b \in S : MaxHeight - Height[b] = x
    BY <1>3
<1>5. ASSUME NEW a \in S PROVE Height[a] <= Height[b]
    <2>1. MaxHeight - Height[b] <= MaxHeight - Height[a]
        BY <1>3, <1>4
    <2> QED
        BY <1>1, <1>4, <2>1
<1> QED
    BY <1>4, <1>5
=============================================================================
