---------------------------- MODULE StoreProofs ----------------------------
(***************************************************************************)
(* The store of sub-slots and signage points follows the peak, for every    *)
(* block tree, every order of messages and every reorganization that does   *)
(* not go back to an earlier slot.  The chain of a block is a line in time  *)
(* (ChainLine); a slot or a signage point that the store accepts is right   *)
(* for the peak it was checked against; and new_peak keeps only what is     *)
(* right for both the old and the new peak.                                 *)
(***************************************************************************)
EXTENDS FullNodeStore, WellFoundedInduction, SequenceTheorems, TLAPS

-----------------------------------------------------------------------------
(* The chain of a block                                                     *)

\* What walking prev_hash from b meets, as paths.
Reached == [b \in Blocks |->
    {a \in Blocks : \E n \in Nat : \E s \in [0..n -> Blocks] :
        s[0] = b /\ s[n] = a /\ \A i \in 0..n - 1 : Prev[s[i]] = s[i + 1]}]

\* Facts about the constants, in the form in which the proofs use them.
LEMMA Constants ==
    /\ Prev \in [Blocks -> Blocks \cup {NONE}]
    /\ NONE \notin Blocks /\ NONE \notin Slots
    /\ \A b \in Blocks : Iters[b] \in Nat /\ Weight[b] \in Nat
    /\ \A b \in Blocks : Prev[b] # NONE => Prev[b] \in Blocks /\ Iters[Prev[b]] < Iters[b]
    /\ SUB_SLOT_ITERS \in Nat /\ SUB_SLOT_ITERS > 0
    /\ INTERVAL \in Nat
    /\ Indexes \subseteq Nat
<1>1. \A b \in Blocks : Iters[b] \in Nat /\ Weight[b] \in Nat
    BY StoreAssumption
<1>2. SUB_SLOT_ITERS \in Nat /\ SUB_SLOT_ITERS > 0 /\ INTERVAL \in Nat /\ NUM_SPS \in Nat
    BY StoreAssumption
<1>3. Indexes \subseteq Nat
    BY <1>2 DEF Indexes
<1> QED
    BY <1>1, <1>2, <1>3, StoreAssumption

\* A path is empty or begins with the step to the parent.
LEMMA ReachedStep ==
    ASSUME NEW b \in Blocks
    PROVE  Reached[b] = {b} \cup (IF Prev[b] = NONE THEN {} ELSE Reached[Prev[b]])
<1> DEFINE Path(n, s, a, c) ==
        s[0] = c /\ s[n] = a /\ \A i \in 0..n - 1 : Prev[s[i]] = s[i + 1]
<1>1. \A c \in Blocks : \A a : a \in Reached[c] <=>
          a \in Blocks /\ \E n \in Nat : \E s \in [0..n -> Blocks] : Path(n, s, a, c)
    BY DEF Reached
<1>2. b \in Reached[b]
    <2> DEFINE s == [i \in 0..0 |-> b]
    <2>1. s \in [0..0 -> Blocks] /\ Path(0, s, b, b)
        OBVIOUS
    <2> HIDE DEF s, Path
    <2>2. \E u \in [0..0 -> Blocks] : Path(0, u, b, b)
        BY <2>1
    <2> QED
        BY <1>1, <2>2
<1>3. ASSUME NEW a \in Reached[b], a # b PROVE Prev[b] # NONE /\ a \in Reached[Prev[b]]
    <2>0. PICK n \in Nat : \E s \in [0..n -> Blocks] : Path(n, s, a, b)
        BY <1>1
    <2>1. PICK s \in [0..n -> Blocks] : Path(n, s, a, b)
        BY <2>0
    <2>2. n > 0
        BY <2>1, <1>3
    <2>3. Prev[b] = s[1] /\ s[1] \in Blocks
        BY <2>1, <2>2
    <2> DEFINE t == [i \in 0..n - 1 |-> s[i + 1]]
    <2>4. t \in [0..n - 1 -> Blocks] /\ Path(n - 1, t, a, Prev[b]) /\ n - 1 \in Nat
        BY <2>1, <2>2, <2>3
    <2> HIDE DEF t
    <2>5. a \in Reached[Prev[b]]
        BY <1>1, <2>3, <2>4 DEF Reached
    <2> QED
        BY <2>3, <2>5, Constants
<1>4. ASSUME Prev[b] # NONE, NEW a \in Reached[Prev[b]] PROVE a \in Reached[b]
    <2>0. Prev[b] \in Blocks
        BY <1>4, Constants
    <2>6. PICK n \in Nat : \E s \in [0..n -> Blocks] : Path(n, s, a, Prev[b])
        BY <1>1, <2>0
    <2>1. PICK s \in [0..n -> Blocks] : Path(n, s, a, Prev[b])
        BY <2>6
    <2> DEFINE t == [i \in 0..n + 1 |-> IF i = 0 THEN b ELSE s[i - 1]]
    <2>2. t \in [0..n + 1 -> Blocks] /\ t[0] = b /\ t[n + 1] = a /\ n + 1 \in Nat
        BY <2>1
    <2>3. ASSUME NEW i \in 0..(n + 1) - 1 PROVE Prev[t[i]] = t[i + 1]
        <3>1. CASE i = 0
            BY <2>1, <3>1
        <3>2. CASE i # 0
            <4>1. i - 1 \in 0..n - 1 /\ t[i] = s[i - 1] /\ t[i + 1] = s[i] /\ (i - 1) + 1 = i
                BY <3>2
            <4> QED
                BY <2>1, <4>1
        <3> QED
            BY <3>1, <3>2
    <2> HIDE DEF t
    <2>4. Path(n + 1, t, a, b)
        BY <2>2, <2>3
    <2> HIDE DEF Path
    <2>5. a \in Blocks
        BY <1>1, <2>0
    <2>7. \E u \in [0..n + 1 -> Blocks] : Path(n + 1, u, a, b)
        BY <2>2, <2>4
    <2> QED
        BY <1>1, <2>2, <2>5, <2>7
<1> QED
    BY <1>2, <1>3, <1>4

\* Chain is defined by recursion along prev_hash; Reached is a solution of the equation.
LEMMA ChainEquation ==
    Chain = [b \in Blocks |-> {b} \cup IF Prev[b] = NONE THEN {} ELSE Chain[Prev[b]]]
<1> DEFINE Step(f) == [b \in Blocks |-> {b} \cup IF Prev[b] = NONE THEN {} ELSE f[Prev[b]]]
<1>1. Reached = Step(Reached)
    BY ReachedStep DEF Reached
<1>2. \E f : f = Step(f)
    BY <1>1
<1>3. (CHOOSE f : f = Step(f)) = Step(CHOOSE f : f = Step(f))
    <2> HIDE DEF Step
    <2> QED
        BY <1>2, Zenon
<1>4. Chain = CHOOSE f : f = Step(f)
    BY DEF Chain
<1> QED
    BY <1>3, <1>4

\* One step of the walk.
LEMMA ChainStep ==
    ASSUME NEW b \in Blocks
    PROVE  Chain[b] = {b} \cup (IF Prev[b] = NONE THEN {} ELSE Chain[Prev[b]])
BY ChainEquation

\* Every set of naturals that is not empty has a least element.
LEMMA LeastNatural ==
    ASSUME NEW T, T \subseteq Nat, T # {}
    PROVE  \E x \in T : \A y \in T : x <= y
<1> DEFINE R == OpToRel(<, Nat)
<1>1. IsWellFoundedOn(R, Nat)
    BY NatLessThanWellFounded
<1>2. \A x, y \in Nat : <<y, x>> \in R <=> y < x
    BY DEF OpToRel
<1> HIDE DEF R
<1>3. PICK x \in T : \A y \in T : ~(<<y, x>> \in R)
    BY <1>1, WFMin
<1>4. ASSUME NEW y \in T PROVE x <= y
    <2>1. x \in Nat /\ y \in Nat /\ ~(y < x)
        BY <1>2, <1>3
    <2> QED
        BY <2>1
<1> QED
    BY <1>4

\* Induction along the chain: what a block inherits from its parent holds of all blocks.
\* total_iters decreases on the way down.
LEMMA ChainInduction ==
    ASSUME NEW S \in SUBSET Blocks,
           \A b \in Blocks : Prev[b] = NONE \/ Prev[b] \in S => b \in S
    PROVE  S = Blocks
<1> SUFFICES ASSUME Blocks \ S # {} PROVE FALSE
    OBVIOUS
<1> DEFINE T == {Iters[b] : b \in Blocks \ S}
<1>1. T \subseteq Nat /\ T # {}
    BY Constants
<1>2. PICK x \in T : \A y \in T : x <= y
    <2> HIDE DEF T
    <2> QED
        BY <1>1, LeastNatural
<1>3. PICK b \in Blocks \ S : Iters[b] = x
    BY <1>2
<1>4. Prev[b] # NONE /\ Prev[b] \in Blocks \ S /\ Iters[Prev[b]] < Iters[b]
    BY <1>3, Constants
<1>5. Iters[b] <= Iters[Prev[b]]
    BY <1>2, <1>3, <1>4
<1> QED
    BY <1>3, <1>4, <1>5, Constants

\* A chain is a line in time: its blocks are before its tip, and of two of them the
\* earlier one is on the chain of the later one.
LEMMA ChainLine ==
    ASSUME NEW b \in Blocks
    PROVE  /\ b \in Chain[b] /\ Chain[b] \subseteq Blocks
           /\ \A a \in Chain[b] :
                 /\ Iters[a] <= Iters[b]
                 /\ Iters[a] = Iters[b] => a = b
                 /\ Chain[a] \subseteq Chain[b]
                 /\ \A c \in Chain[b] : Iters[c] <= Iters[a] => c \in Chain[a]
<1> DEFINE P(d) ==
        /\ d \in Chain[d] /\ Chain[d] \subseteq Blocks
        /\ \A a \in Chain[d] :
              /\ Iters[a] <= Iters[d]
              /\ Iters[a] = Iters[d] => a = d
              /\ Chain[a] \subseteq Chain[d]
              /\ \A c \in Chain[d] : Iters[c] <= Iters[a] => c \in Chain[a]
           S == {d \in Blocks : P(d)}
<1>1. ASSUME NEW d \in Blocks, Prev[d] = NONE PROVE P(d)
    BY <1>1, ChainStep, Constants
<1>2. ASSUME NEW d \in Blocks, Prev[d] # NONE, Prev[d] \in S PROVE P(d)
    <2>1. Chain[d] = {d} \cup Chain[Prev[d]] /\ P(Prev[d]) /\ Prev[d] \in Blocks
        BY <1>2, ChainStep
    <2>2. Iters[Prev[d]] < Iters[d] /\ \A a \in Blocks : Iters[a] \in Nat
        BY <1>2, Constants
    <2>3. d \in Chain[d] /\ Chain[d] \subseteq Blocks
        BY <2>1
    <2>4. \A a \in Chain[Prev[d]] : Iters[a] < Iters[d] /\ Chain[a] \subseteq Chain[d]
        BY <2>1, <2>2
    <2>5. ASSUME NEW a \in Chain[d], NEW c \in Chain[d], Iters[c] <= Iters[a] PROVE c \in Chain[a]
        <3>1. CASE a = d
            BY <3>1
        <3>2. CASE a \in Chain[Prev[d]]
            <4>1. c # d
                BY <2>1, <2>2, <2>4, <2>5, <3>2
            <4> QED
                BY <2>1, <2>5, <3>2, <4>1
        <3> QED
            BY <2>1, <3>1, <3>2
    <2>6. ASSUME NEW a \in Chain[d]
          PROVE  /\ Iters[a] <= Iters[d] /\ (Iters[a] = Iters[d] => a = d)
                 /\ Chain[a] \subseteq Chain[d]
        BY <2>1, <2>2, <2>3, <2>4
    <2> QED
        BY <2>3, <2>5, <2>6
<1>3. S = Blocks
    <2>1. \A d \in Blocks : Prev[d] = NONE \/ Prev[d] \in S => d \in S
        BY <1>1, <1>2
    <2> HIDE DEF P
    <2> QED
        BY <2>1, ChainInduction
<1> QED
    BY <1>3

\* The latest of some blocks of a chain.
LEMMA LatestOf ==
    ASSUME NEW b \in Blocks, NEW S \in SUBSET Chain[b], S # {}
    PROVE  /\ Latest(S) \in S
           /\ \A a \in S : Iters[a] <= Iters[Latest(S)]
           /\ \A x \in S : (\A a \in S : Iters[a] <= Iters[x]) => x = Latest(S)
<1> DEFINE T == {Iters[b] - Iters[a] : a \in S}
<1>0. S \subseteq Blocks /\ \A a \in S : Iters[a] \in Nat /\ Iters[a] <= Iters[b] /\ Iters[b] \in Nat
    BY ChainLine, Constants
<1>1. T \subseteq Nat /\ T # {}
    BY <1>0
<1>2. PICK x \in T : \A y \in T : x <= y
    <2> HIDE DEF T
    <2> QED
        BY <1>1, LeastNatural
<1>3. PICK m \in S : Iters[b] - Iters[m] = x
    BY <1>2
<1>4. ASSUME NEW a \in S PROVE Iters[a] <= Iters[m]
    <2>1. Iters[b] - Iters[m] <= Iters[b] - Iters[a]
        BY <1>2, <1>3
    <2> QED
        BY <1>0, <2>1
<1>5. Latest(S) \in S /\ \A a \in S : Iters[a] <= Iters[Latest(S)]
    BY <1>4 DEF Latest
<1>6. ASSUME NEW y \in S, \A a \in S : Iters[a] <= Iters[y] PROVE y = Latest(S)
    <2>1. Iters[y] = Iters[Latest(S)]
        BY <1>0, <1>5, <1>6
    <2>2. y \in Chain[Latest(S)] /\ Latest(S) \in Blocks
        BY <1>0, <1>5, <2>1, ChainLine
    <2> QED
        BY <2>1, <2>2, ChainLine
<1> QED
    BY <1>5, <1>6

-----------------------------------------------------------------------------
(* Time and slots                                                           *)

\* The slot of a time begins at the last multiple of SUB_SLOT_ITERS before it.
LEMMA SlotArithmetic ==
    ASSUME NEW n \in Nat, NEW q \in Nat
    PROVE  LET m == (n \div SUB_SLOT_ITERS) * SUB_SLOT_ITERS IN
           /\ m \in Nat /\ n \div SUB_SLOT_ITERS \in Nat
           /\ m <= n /\ n < m + SUB_SLOT_ITERS
           /\ n < q * SUB_SLOT_ITERS + SUB_SLOT_ITERS => m <= q * SUB_SLOT_ITERS
           /\ q * SUB_SLOT_ITERS <= n => q * SUB_SLOT_ITERS <= m
<1> DEFINE S == SUB_SLOT_ITERS
           d == n \div S
           m == d * S
<1>1. S \in Nat /\ S > 0
    BY Constants
<1>2. d \in Nat /\ m \in Nat /\ m <= n /\ n < m + S
    BY <1>1
<1>3. ASSUME NEW i \in Nat, NEW j \in Nat, i <= j PROVE i * S <= j * S
    BY <1>1, <1>3
<1>4. (d + 1) * S = m + S /\ (q + 1) * S = q * S + S
    BY <1>1, <1>2
<1> HIDE DEF S, d, m
<1>5. q * S \in Nat
    BY <1>1
<1>6. ASSUME n < q * S + S PROVE m <= q * S
    <2>1. ~(q + 1 <= d)
        <3> SUFFICES ASSUME q + 1 <= d PROVE FALSE
            OBVIOUS
        <3>1. (q + 1) * S <= d * S
            BY <1>2, <1>3
        <3> QED
            BY <1>1, <1>2, <1>4, <1>5, <1>6, <3>1 DEF m
    <2> QED
        BY <1>2, <1>3, <2>1 DEF m
<1>7. ASSUME q * S <= n PROVE q * S <= m
    <2>1. ~(d + 1 <= q)
        <3> SUFFICES ASSUME d + 1 <= q PROVE FALSE
            OBVIOUS
        <3>1. (d + 1) * S <= q * S
            BY <1>2, <1>3
        <3> QED
            BY <1>1, <1>2, <1>4, <1>5, <1>7, <3>1
    <2> QED
        BY <1>2, <1>3, <2>1 DEF m
<1> QED
    BY <1>2, <1>6, <1>7 DEF S, d, m

-----------------------------------------------------------------------------
(* Signage points                                                           *)

\* The blocks of p's chain between two times, and the challenge from which a signage
\* point has to be computed for a node whose peak is p.
InfusedOn(p, from, to) ==
    IF p = NONE THEN {} ELSE {b \in Chain[p] : Iters[b] > from /\ Iters[b] <= to}
RightRc(p, entry, k) ==
    LET before == InfusedOn(p, entry.iters, SpIters(entry, k))
    IN  IF before = {} THEN RcOf(entry) ELSE Latest(before)

\* An entry of the store knows where its slot begins, and slots begin at multiples of
\* their length.
EntryOK(entry) ==
    /\ entry \in Entries
    /\ entry.iters = IF entry.eos = NONE THEN 0 ELSE SlotStart[entry.eos]
    /\ \E q \in Nat : entry.iters = q * SUB_SLOT_ITERS

\* The time of a signage point is not before the beginning of its slot.
LEMMA SpItersType ==
    ASSUME NEW n \in Nat, NEW k \in Indexes
    PROVE  n + k * INTERVAL \in Nat /\ n <= n + k * INTERVAL
<1>1. k \in Nat /\ INTERVAL \in Nat
    BY Constants
<1>2. k * INTERVAL \in Nat
    <2> HIDE DEF INTERVAL
    <2> QED
        BY <1>1
<1> QED
    BY <1>2

\* The walk of new_signage_point finds the right challenge in the slot of the peak and in
\* later ones: there the first block of a sub-slot that it meets is the first of this
\* sub-slot.
LEMMA ExpectedIsRight ==
    ASSUME NEW p \in Blocks \cup {NONE}, NEW entry, EntryOK(entry), NEW k \in Indexes,
           p = NONE \/ entry.iters + SUB_SLOT_ITERS > Iters[p],
           ~WalkRaises(entry, k, p)
    PROVE  ExpectedRc(entry, k, p) = RightRc(p, entry, k)
<1>1. CASE p = NONE
    BY <1>1 DEF ExpectedRc, FromStart, RightRc, InfusedOn
<1>2. CASE p # NONE
    <2> DEFINE from == entry.iters
               to == SpIters(entry, k)
               after == {b \in Chain[p] : Iters[b] > to}
               before == InfusedOn(p, from, to)
               rest == Chain[p] \ after
    <2>1. p \in Blocks /\ Iters[p] \in Nat /\ from \in Nat
        BY <1>2, Constants DEF EntryOK, Entries
    <2>2. to \in Nat /\ from <= to
        BY <2>1, SpItersType DEF SpIters
    <2>3. /\ Chain[p] \subseteq Blocks /\ p \in Chain[p]
          /\ \A a \in Chain[p] : Iters[a] \in Nat /\ Iters[a] <= Iters[p]
        BY <2>1, ChainLine, Constants
    <2>4. After(entry, k, p) = after
        BY <2>1, <2>2, <2>3 DEF After
    <2>5. before = {b \in Chain[p] : Iters[b] > from /\ Iters[b] <= to}
        BY <2>1, Constants DEF InfusedOn
    <2>6. PICK q \in Nat : from = q * SUB_SLOT_ITERS
        BY DEF EntryOK
    <2>7. from + SUB_SLOT_ITERS > Iters[p] /\ SUB_SLOT_ITERS \in Nat
        BY <1>2, Constants
    <2>8. \A a \in Chain[p] :
             /\ IpStart(a) \in Nat /\ IpStart(a) <= from
             /\ from <= Iters[a] => IpStart(a) = from
             /\ Iters[a] # from
        <3> SUFFICES ASSUME NEW a \in Chain[p]
                     PROVE  /\ IpStart(a) \in Nat /\ IpStart(a) <= from
                            /\ from <= Iters[a] => IpStart(a) = from
                            /\ Iters[a] # from
            OBVIOUS
        <3>1. a \in Blocks /\ Iters[a] \in Nat /\ Iters[a] < from + SUB_SLOT_ITERS
            BY <2>1, <2>3, <2>7
        <3>2. /\ IpStart(a) \in Nat
              /\ Iters[a] < from + SUB_SLOT_ITERS => IpStart(a) <= from
              /\ from <= Iters[a] => from <= IpStart(a)
            BY <2>6, <3>1, SlotArithmetic DEF IpStart
        <3>3. IpStart(a) < Iters[a]
            BY <3>1, SlotAssumption
        <3> QED
            BY <2>1, <3>1, <3>2, <3>3
    <2>9. \A b \in Blocks : b \in FirstInSubSlot /\ Prev[b] # NONE => Iters[Prev[b]] < IpStart(b)
        BY SlotAssumption
    <2>10. \A b \in Blocks : Prev[b] # NONE /\ Iters[Prev[b]] < IpStart(b) => b \in FirstInSubSlot
        BY SlotAssumption
    <2> HIDE DEF from, to, before
    <2>11. CASE from > Iters[p]
        <3>1. before = {}
            BY <2>1, <2>3, <2>5, <2>11
        <3>2. FromStart(entry, k, p)
            BY <1>2, <2>11 DEF FromStart, from
        <3> QED
            BY <3>1, <3>2 DEF ExpectedRc, RightRc, before, from, to
    <2>12. CASE after \cap FirstInSubSlot # {}
        <3>1. PICK y \in after : y \in FirstInSubSlot
            BY <2>12
        <3>2. y \in Blocks /\ y \in Chain[p] /\ Iters[y] \in Nat /\ Iters[y] > to
            BY <2>3, <3>1
        <3>3. ASSUME NEW a \in before PROVE FALSE
            <4>1. a \in Chain[p] /\ Iters[a] > from /\ Iters[a] <= to /\ Iters[a] \in Nat
                BY <2>3, <2>5, <3>3
            <4>2. a \in Chain[y] /\ a # y
                BY <2>1, <2>2, <3>2, <4>1, ChainLine
            <4>3. Prev[y] # NONE /\ a \in Chain[Prev[y]]
                BY <3>2, <4>2, ChainStep
            <4>4. Prev[y] \in Blocks /\ Iters[Prev[y]] \in Nat
                BY <3>2, <4>3, Constants
            <4>5. Iters[a] <= Iters[Prev[y]]
                BY <4>3, <4>4, ChainLine
            <4>6. Iters[Prev[y]] < IpStart(y) /\ IpStart(y) <= from /\ IpStart(y) \in Nat
                BY <2>8, <2>9, <3>1, <3>2, <4>3
            <4> QED
                BY <2>1, <4>1, <4>4, <4>5, <4>6 DEF from
        <3>4. FromStart(entry, k, p)
            BY <1>2, <2>4, <2>12 DEF FromStart
        <3> QED
            BY <3>3, <3>4 DEF ExpectedRc, RightRc, before, from, to
    <2>13. CASE ~(from > Iters[p]) /\ after \cap FirstInSubSlot = {}
        <3>1. ~FromStart(entry, k, p)
            BY <1>2, <2>4, <2>13 DEF FromStart, from
        <3>2. rest # {}
            BY <2>4, <3>1 DEF WalkRaises
        <3> DEFINE x == Latest(rest)
        <3>3. /\ x \in rest /\ \A a \in rest : Iters[a] <= Iters[x]
            <4>1. rest \in SUBSET Chain[p]
                OBVIOUS
            <4> HIDE DEF rest
            <4> QED
                BY <2>1, <3>2, <4>1, LatestOf
        <3> HIDE DEF x
        <3>4. x \in Chain[p] /\ x \in Blocks /\ Iters[x] \in Nat /\ Iters[x] <= to
            BY <2>2, <2>3, <3>3 DEF to
        <3>5. Iters[x] > from
            <4> SUFFICES ASSUME Iters[x] <= from PROVE FALSE
                BY <2>1, <3>4 DEF from
            <4>1. p \in after
                <5> SUFFICES ASSUME p \in rest PROVE FALSE
                    BY <2>3
                <5>1. Iters[p] <= Iters[x]
                    BY <3>3
                <5>2. Iters[p] = from
                    BY <2>1, <2>13, <3>4, <5>1 DEF from
                <5> QED
                    BY <2>3, <2>8, <5>2
            <4> DEFINE T == {Iters[a] : a \in after}
            <4>2. T \subseteq Nat /\ T # {}
                BY <2>3, <4>1
            <4>3. PICK n \in T : \A m \in T : n <= m
                <5> HIDE DEF T
                <5> QED
                    BY <4>2, LeastNatural
            <4>4. PICK y \in after : Iters[y] = n
                BY <4>3
            <4>5. \A a \in after : Iters[y] <= Iters[a]
                BY <4>3, <4>4
            <4>6. y \in Chain[p] /\ y \in Blocks /\ Iters[y] \in Nat /\ Iters[y] > to
                BY <2>3, <4>4
            <4>7. x \in Chain[y] /\ x # y
                BY <2>1, <2>2, <3>4, <4>6, ChainLine
            <4>8. Prev[y] # NONE /\ Prev[y] \in Blocks /\ Iters[Prev[y]] < Iters[y] /\ Iters[Prev[y]] \in Nat
                BY <4>6, <4>7, ChainStep, Constants
            <4>9. Prev[y] \in Chain[p]
                BY <2>1, <4>6, <4>8, ChainStep, ChainLine
            <4>10. Prev[y] \in rest
                BY <4>5, <4>6, <4>8, <4>9
            <4>11. Iters[Prev[y]] < from
                BY <2>1, <2>8, <3>3, <3>4, <4>8, <4>9, <4>10 DEF from
            <4>12. IpStart(y) = from
                BY <2>1, <2>2, <2>8, <4>6 DEF from
            <4>13. y \in FirstInSubSlot
                BY <2>10, <4>6, <4>8, <4>11, <4>12
            <4> QED
                BY <2>13, <4>4, <4>13
        <3>6. x \in before /\ before \in SUBSET Chain[p] /\ before \subseteq rest
            BY <2>1, <2>2, <2>3, <2>5, <3>4, <3>5
        <3>7. x = Latest(before)
            <4> HIDE DEF rest
            <4> QED
                BY <2>1, <3>3, <3>6, LatestOf
        <3>8. ExpectedRc(entry, k, p) = x
            BY <2>4, <3>1 DEF ExpectedRc, x
        <3> QED
            BY <3>6, <3>7, <3>8 DEF RightRc, before, from, to
    <2> QED
        BY <2>11, <2>12, <2>13
<1> QED
    BY <1>1, <1>2

\* The entries of the store are sound.
StoreOK(slots) ==
    /\ slots \in Seq(Entries) /\ Len(slots) >= 1
    /\ \A i \in 1..Len(slots) : EntryOK(slots[i])

\* In the slot of p and in later ones the signage points at these times are right for p.
SpsRight(slots, p, times) ==
    \A i \in 1..Len(slots), k \in Indexes :
        /\ p = NONE \/ slots[i].iters + SUB_SLOT_ITERS > Iters[p]
        /\ slots[i].sps[k] # NONE
        /\ SpIters(slots[i], k) \in times
        => slots[i].sps[k] = RightRc(p, slots[i], k)

\* new_signage_point finds an entry of the store.
LEMMA SlotIndexOf ==
    ASSUME NEW slots, Len(slots) \in Nat, NEW sp, SlotIndexes(slots, sp) # {}
    PROVE  SlotIndex(slots, sp) \in 1..Len(slots) /\ CcOf(slots[SlotIndex(slots, sp)]) = sp.cc
<1>1. SlotIndexes(slots, sp) \subseteq Nat
    BY DEF SlotIndexes
<1>2. \E i \in SlotIndexes(slots, sp) : \A j \in SlotIndexes(slots, sp) : i <= j
    BY <1>1, LeastNatural
<1>3. SlotIndex(slots, sp) \in SlotIndexes(slots, sp)
    BY <1>2 DEF SlotIndex
<1> QED
    BY <1>3 DEF SlotIndexes

\* The fields of a signage point.
LEMMA SignagePointType ==
    ASSUME NEW sp \in SignagePoints
    PROVE  sp.index \in Indexes /\ sp.rc \in Challenges
BY StoreAssumption

\* What storing signage points changes.
LEMMA WithSpsFields ==
    ASSUME NEW slots \in Seq(Entries), NEW sps \in SUBSET SignagePoints
    PROVE  LET new == WithSps(slots, sps) IN
           /\ new \in Seq(Entries) /\ Len(new) = Len(slots)
           /\ \A i \in 1..Len(slots) :
                 /\ new[i].eos = slots[i].eos /\ new[i].iters = slots[i].iters
                 /\ \A k \in Indexes :
                       \/ new[i].sps[k] = slots[i].sps[k]
                       \/ \E sp \in sps : /\ sp.index = k /\ SlotIndex(slots, sp) = i
                                          /\ new[i].sps[k] = sp.rc
<1> DEFINE new == WithSps(slots, sps)
           Filled(i) == [k \in Indexes |->
              IF \E sp \in sps : sp.index = k /\ SlotIndex(slots, sp) = i
              THEN (CHOOSE sp \in sps : sp.index = k /\ SlotIndex(slots, sp) = i).rc
              ELSE slots[i].sps[k]]
<1>0. Len(slots) \in Nat /\ \A i \in 1..Len(slots) : slots[i] \in Entries
    OBVIOUS
<1>1. new = [i \in 1..Len(slots) |-> [slots[i] EXCEPT !.sps = Filled(i)]]
    BY DEF WithSps
<1>2. ASSUME NEW i \in 1..Len(slots), NEW k \in Indexes
      PROVE  /\ Filled(i)[k] \in Challenges \cup {NONE}
             /\ \/ Filled(i)[k] = slots[i].sps[k]
                \/ \E sp \in sps : sp.index = k /\ SlotIndex(slots, sp) = i /\ Filled(i)[k] = sp.rc
    <2>1. CASE \E sp \in sps : sp.index = k /\ SlotIndex(slots, sp) = i
        <3> DEFINE sp == CHOOSE sp \in sps : sp.index = k /\ SlotIndex(slots, sp) = i
        <3>1. sp \in sps /\ sp.index = k /\ SlotIndex(slots, sp) = i
            BY <2>1
        <3>2. Filled(i)[k] = sp.rc
            BY <2>1
        <3> HIDE DEF sp
        <3>3. sp.rc \in Challenges
            BY <3>1, SignagePointType
        <3> QED
            BY <3>1, <3>2, <3>3
    <2>2. CASE ~\E sp \in sps : sp.index = k /\ SlotIndex(slots, sp) = i
        BY <1>0, <2>2 DEF Entries
    <2> QED
        BY <2>1, <2>2
<1>3. ASSUME NEW i \in 1..Len(slots)
      PROVE  /\ new[i] \in Entries
             /\ new[i].eos = slots[i].eos /\ new[i].iters = slots[i].iters /\ new[i].sps = Filled(i)
    <2>1. Filled(i) \in [Indexes -> Challenges \cup {NONE}]
        <3>1. \A k \in Indexes : Filled(i)[k] \in Challenges \cup {NONE}
            BY <1>2
        <3> QED
            BY <3>1
    <2>2. new[i] = [slots[i] EXCEPT !.sps = Filled(i)]
        BY <1>1
    <2> HIDE DEF new, Filled
    <2> QED
        BY <1>0, <2>1, <2>2 DEF Entries
<1>4. new \in Seq(Entries) /\ Len(new) = Len(slots)
    <2>1. DOMAIN new = 1..Len(slots) /\ new \in [1..Len(slots) -> Entries]
        BY <1>1, <1>3
    <2> HIDE DEF new
    <2> QED
        BY <1>0, <2>1
<1>5. ASSUME NEW i \in 1..Len(slots), NEW k \in Indexes
      PROVE  \/ new[i].sps[k] = slots[i].sps[k]
             \/ \E sp \in sps : sp.index = k /\ SlotIndex(slots, sp) = i /\ new[i].sps[k] = sp.rc
    <2>1. new[i].sps[k] = Filled(i)[k]
        BY <1>3
    <2> HIDE DEF new, Filled
    <2> QED
        BY <1>2, <2>1
<1> HIDE DEF new, Filled
<1>6. /\ new \in Seq(Entries) /\ Len(new) = Len(slots)
      /\ \A i \in 1..Len(slots) :
            /\ new[i].eos = slots[i].eos /\ new[i].iters = slots[i].iters
            /\ \A k \in Indexes :
                  \/ new[i].sps[k] = slots[i].sps[k]
                  \/ \E sp \in sps : /\ sp.index = k /\ SlotIndex(slots, sp) = i
                                     /\ new[i].sps[k] = sp.rc
    BY <1>3, <1>4, <1>5
<1> QED
    BY <1>6 DEF new

\* Entries that begin at the same time and with the same end of sub-slot expect the same.
LEMMA SameRight ==
    ASSUME NEW e, NEW f, e.eos = f.eos, e.iters = f.iters, NEW p, NEW k
    PROVE  RightRc(p, e, k) = RightRc(p, f, k) /\ SpIters(e, k) = SpIters(f, k) /\ RcOf(e) = RcOf(f)
           /\ CcOf(e) = CcOf(f)
BY DEF RightRc, SpIters, RcOf, CcOf

\* Signage points that new_signage_point accepts for the peak p are right for p.
LEMMA StoreSps ==
    ASSUME NEW slots, StoreOK(slots), NEW p \in Blocks \cup {NONE}, NEW times,
           NEW sps \in SUBSET SignagePoints, \A sp \in sps : AddableSp(slots, sp, p)
    PROVE  /\ StoreOK(WithSps(slots, sps))
           /\ SpsRight(slots, p, times) => SpsRight(WithSps(slots, sps), p, times)
<1> DEFINE new == WithSps(slots, sps)
<1>1. /\ new \in Seq(Entries) /\ Len(new) = Len(slots) /\ Len(slots) \in Nat
      /\ \A i \in 1..Len(slots) :
            /\ new[i].eos = slots[i].eos /\ new[i].iters = slots[i].iters
            /\ \A k \in Indexes :
                  \/ new[i].sps[k] = slots[i].sps[k]
                  \/ \E sp \in sps : /\ sp.index = k /\ SlotIndex(slots, sp) = i
                                     /\ new[i].sps[k] = sp.rc
    BY WithSpsFields DEF StoreOK
<1> HIDE DEF new
<1>2. StoreOK(new)
    <2>1. ASSUME NEW i \in 1..Len(new) PROVE EntryOK(new[i])
        <3>1. new[i] \in Entries /\ EntryOK(slots[i])
            BY <1>1 DEF StoreOK
        <3> QED
            BY <1>1, <3>1 DEF EntryOK
    <2> QED
        BY <1>1, <2>1 DEF StoreOK
<1>3. ASSUME SpsRight(slots, p, times), NEW i \in 1..Len(new), NEW k \in Indexes,
             p = NONE \/ new[i].iters + SUB_SLOT_ITERS > Iters[p],
             new[i].sps[k] # NONE, SpIters(new[i], k) \in times
      PROVE  new[i].sps[k] = RightRc(p, new[i], k)
    <2>0. i \in 1..Len(slots) /\ new[i].eos = slots[i].eos /\ new[i].iters = slots[i].iters
        BY <1>1
    <2>1. RightRc(p, new[i], k) = RightRc(p, slots[i], k) /\ SpIters(new[i], k) = SpIters(slots[i], k)
        BY <2>0, SameRight
    <2>2. CASE new[i].sps[k] = slots[i].sps[k]
        BY <1>3, <2>0, <2>1, <2>2 DEF SpsRight
    <2>3. ASSUME NEW sp \in sps, sp.index = k, SlotIndex(slots, sp) = i, new[i].sps[k] = sp.rc
          PROVE  new[i].sps[k] = RightRc(p, new[i], k)
        <3>1. ~WalkRaises(slots[i], k, p) /\ sp.rc = ExpectedRc(slots[i], k, p)
            BY <2>3 DEF AddableSp, Raises
        <3>2. EntryOK(slots[i])
            BY <2>0 DEF StoreOK
        <3>3. ExpectedRc(slots[i], k, p) = RightRc(p, slots[i], k)
            BY <1>3, <2>0, <3>1, <3>2, ExpectedIsRight
        <3> QED
            BY <2>1, <2>3, <3>1, <3>3
    <2> QED
        BY <1>1, <2>0, <2>2, <2>3
<1>4. SpsRight(slots, p, times) => SpsRight(new, p, times)
    BY <1>3 DEF SpsRight
<1> QED
    BY <1>2, <1>4 DEF new

-----------------------------------------------------------------------------
(* Ends of sub-slot                                                         *)

\* Each slot is connected with the one before it, for a node whose peak is p; and p is not
\* beyond the last one.
Connected(p, entry, next) ==
    LET inside == InfusedOn(p, entry.iters, next.iters - 1) IN
    /\ CcPrev[next.eos] = CcOf(entry)
    /\ next.iters = entry.iters + SUB_SLOT_ITERS
    /\ Rc[next.eos] = IF inside = {} THEN RcOf(entry) ELSE Latest(inside)
SlotsRight(slots, p) == \A i \in 1..Len(slots) - 1 : Connected(p, slots[i], slots[i + 1])
Covers(slots, p) == p # NONE => Iters[p] < slots[Len(slots)].iters + SUB_SLOT_ITERS

\* The entry that new_finished_sub_slot appends.
LEMMA WithSlotFields ==
    ASSUME NEW slots, StoreOK(slots), NEW e \in Slots, Appends(slots, e)
    PROVE  LET new == WithSlot(slots, e)
               last == slots[Len(slots)] IN
           /\ StoreOK(new) /\ Len(new) = Len(slots) + 1
           /\ \A i \in 1..Len(slots) : new[i] = slots[i]
           /\ new[Len(slots) + 1] = [eos |-> e, sps |-> NoSps, iters |-> last.iters + SUB_SLOT_ITERS]
<1> DEFINE n == Len(slots)
           last == slots[n]
           entry == [eos |-> e, sps |-> NoSps, iters |-> last.iters + SUB_SLOT_ITERS]
           new == WithSlot(slots, e)
<1>1. slots \in Seq(Entries) /\ n \in Nat /\ n >= 1 /\ EntryOK(last)
    BY DEF StoreOK
<1>2. Last(slots) = last
    BY DEF Last
<1>3. new = Append(slots, entry)
    BY <1>2 DEF WithSlot
<1>4. last.iters \in Nat /\ last.eos \in Slots \cup {NONE}
    BY <1>1 DEF EntryOK, Entries
<1>5. EntryOK(entry)
    <2>1. NoSps \in [Indexes -> Challenges \cup {NONE}]
        BY DEF NoSps
    <2>2. last.iters + SUB_SLOT_ITERS \in Nat
        BY <1>4, Constants
    <2>3. entry \in Entries
        BY <2>1, <2>2 DEF Entries
    <2>4. SlotStart[e] = last.iters + SUB_SLOT_ITERS
        <3>1. CcPrev[e] = CcOf(last)
            BY <1>2 DEF Appends
        <3>2. CASE last.eos = NONE
            <4>1. last.iters = 0 /\ CcPrev[e] = GENESIS
                BY <1>1, <3>1, <3>2 DEF EntryOK, CcOf
            <4> QED
                BY <4>1, SlotAssumption, Constants
        <3>3. CASE last.eos # NONE
            <4>1. last.iters = SlotStart[last.eos] /\ CcPrev[e] = CcHash[last.eos] /\ last.eos \in Slots
                BY <1>1, <1>4, <3>1, <3>3 DEF EntryOK, CcOf
            <4> QED
                BY <4>1, SlotAssumption
        <3> QED
            BY <3>2, <3>3
    <2>5. \E q \in Nat : entry.iters = q * SUB_SLOT_ITERS
        <3>1. PICK q \in Nat : last.iters = q * SUB_SLOT_ITERS
            BY <1>1 DEF EntryOK
        <3>2. (q + 1) * SUB_SLOT_ITERS = last.iters + SUB_SLOT_ITERS /\ q + 1 \in Nat
            BY <3>1, Constants
        <3> QED
            BY <3>2
    <2>6. e # NONE
        BY Constants
    <2> QED
        BY <2>3, <2>4, <2>5, <2>6 DEF EntryOK
<1>6. entry \in Entries
    BY <1>5 DEF EntryOK
<1> HIDE DEF entry, new, n
<1>7. /\ new \in Seq(Entries) /\ Len(new) = n + 1
      /\ \A i \in 1..n : new[i] = slots[i]
      /\ new[n + 1] = entry
    BY <1>1, <1>3, <1>6 DEF n
<1>8. \A i \in 1..Len(new) : EntryOK(new[i])
    BY <1>1, <1>5, <1>7 DEF StoreOK, n
<1> QED
    BY <1>1, <1>7, <1>8 DEF StoreOK, n, entry, new

\* It has no signage points.
LEMMA WithSlotSps ==
    ASSUME NEW slots, StoreOK(slots), NEW e \in Slots, Appends(slots, e),
           NEW p, NEW times, SpsRight(slots, p, times)
    PROVE  SpsRight(WithSlot(slots, e), p, times)
<1> DEFINE new == WithSlot(slots, e)
<1>0. /\ Len(new) = Len(slots) + 1
      /\ \A i \in 1..Len(slots) : new[i] = slots[i]
      /\ new[Len(slots) + 1] = [eos |-> e, sps |-> NoSps,
                                iters |-> slots[Len(slots)].iters + SUB_SLOT_ITERS]
    BY WithSlotFields
<1> HIDE DEF new
<1>1. /\ Len(new) = Len(slots) + 1 /\ Len(slots) \in Nat
      /\ \A i \in 1..Len(slots) : new[i] = slots[i]
      /\ new[Len(slots) + 1].sps = NoSps
    BY <1>0 DEF StoreOK
<1>2. \A k \in Indexes : new[Len(slots) + 1].sps[k] = NONE
    BY <1>1 DEF NoSps
<1>3. SpsRight(new, p, times)
    BY <1>1, <1>2 DEF SpsRight
<1> QED
    BY <1>3 DEF new

\* An end of sub-slot that new_finished_sub_slot accepts for p connects the slots of p.
LEMMA WithSlotRight ==
    ASSUME NEW slots, StoreOK(slots), NEW e \in Slots, NEW p \in Blocks \cup {NONE},
           AddableSlot(slots, e, p), SlotsRight(slots, p), Covers(slots, p)
    PROVE  SlotsRight(WithSlot(slots, e), p) /\ Covers(WithSlot(slots, e), p)
<1> DEFINE new == WithSlot(slots, e)
           n == Len(slots)
           last == slots[n]
           S == SUB_SLOT_ITERS
<1>1. Appends(slots, e) /\ Last(slots) = last
    BY DEF AddableSlot, Last
<1>0. /\ StoreOK(new) /\ Len(new) = n + 1
      /\ \A i \in 1..n : new[i] = slots[i]
      /\ new[n + 1] = [eos |-> e, sps |-> NoSps, iters |-> last.iters + S]
    BY <1>1, WithSlotFields
<1> HIDE DEF new
<1>2. /\ StoreOK(new) /\ Len(new) = n + 1 /\ n \in Nat /\ n >= 1
      /\ \A i \in 1..n : new[i] = slots[i]
      /\ new[n + 1].eos = e /\ new[n + 1].iters = last.iters + S
    BY <1>0 DEF StoreOK
<1>3. last.iters \in Nat /\ S \in Nat /\ S > 0
    <2>1. EntryOK(last)
        BY <1>2 DEF StoreOK
    <2> QED
        BY <2>1, Constants DEF EntryOK, Entries
<1> HIDE DEF n
<1>4. Connected(p, last, new[n + 1])
    <2> DEFINE inside == InfusedOn(p, last.iters, new[n + 1].iters - 1)
    <2>1. CcPrev[e] = CcOf(last)
        BY <1>1 DEF Appends
    <2>2. Rc[e] = IF PeakInLastSlot(slots, p) THEN p ELSE RcOf(last)
        BY <1>1 DEF AddableSlot
    <2>3. CASE PeakInLastSlot(slots, p)
        <3>1. p \in Blocks /\ Iters[p] > last.iters /\ Iters[p] < last.iters + S /\ Iters[p] \in Nat
            BY <1>1, <2>3, Constants DEF PeakInLastSlot, Covers, n
        <3>2. p \in inside /\ inside \in SUBSET Chain[p] /\ p # NONE
            BY <1>2, <1>3, <3>1, ChainLine, Constants DEF InfusedOn
        <3>3. \A a \in inside : Iters[a] <= Iters[p]
            BY <3>1, <3>2, ChainLine
        <3> HIDE DEF inside
        <3>4. p = Latest(inside)
            BY <3>1, <3>2, <3>3, LatestOf
        <3> QED
            BY <1>2, <2>1, <2>2, <2>3, <3>2, <3>4 DEF Connected, inside
    <2>4. CASE ~PeakInLastSlot(slots, p)
        <3>1. inside = {}
            <4>1. CASE p = NONE
                BY <4>1 DEF InfusedOn
            <4>2. CASE p # NONE
                <5>1. p \in Blocks /\ ~(Iters[p] > last.iters) /\ Iters[p] \in Nat
                    BY <1>1, <2>4, <4>2, Constants DEF PeakInLastSlot
                <5>2. \A a \in Chain[p] : Iters[a] <= Iters[p] /\ Iters[a] \in Nat
                    BY <5>1, ChainLine, Constants
                <5> QED
                    BY <1>3, <5>1, <5>2 DEF InfusedOn
            <4> QED
                BY <4>1, <4>2
        <3> HIDE DEF inside
        <3> QED
            BY <1>2, <2>1, <2>2, <2>4, <3>1 DEF Connected, inside
    <2> QED
        BY <2>3, <2>4
<1>5. ASSUME NEW i \in 1..Len(new) - 1 PROVE Connected(p, new[i], new[i + 1])
    <2>1. CASE i = n
        BY <1>2, <1>4, <2>1
    <2>2. CASE i # n
        <3>1. i \in 1..n - 1 /\ new[i] = slots[i] /\ new[i + 1] = slots[i + 1]
            BY <1>2, <2>2
        <3> QED
            BY <3>1 DEF SlotsRight, n
    <2> QED
        BY <2>1, <2>2
<1>6. Covers(new, p)
    <2>1. p # NONE => Iters[p] \in Nat /\ Iters[p] < last.iters + S
        BY Constants DEF Covers, n
    <2> QED
        BY <1>2, <1>3, <2>1 DEF Covers
<1> QED
    BY <1>5, <1>6 DEF SlotsRight, new

\* Storing signage points leaves the slots as they are.
LEMMA WithSpsRight ==
    ASSUME NEW slots, StoreOK(slots), NEW sps \in SUBSET SignagePoints, NEW p
    PROVE  /\ SlotsRight(slots, p) => SlotsRight(WithSps(slots, sps), p)
           /\ Covers(slots, p) => Covers(WithSps(slots, sps), p)
<1> DEFINE new == WithSps(slots, sps)
<1>1. /\ Len(new) = Len(slots) /\ Len(slots) \in Nat /\ Len(slots) >= 1
      /\ \A i \in 1..Len(slots) : new[i].eos = slots[i].eos /\ new[i].iters = slots[i].iters
    BY WithSpsFields DEF StoreOK
<1> HIDE DEF new
<1>2. ASSUME NEW i \in 1..Len(new) - 1, Connected(p, slots[i], slots[i + 1])
      PROVE  Connected(p, new[i], new[i + 1])
    <2>1. /\ new[i].eos = slots[i].eos /\ new[i].iters = slots[i].iters
          /\ new[i + 1].eos = slots[i + 1].eos /\ new[i + 1].iters = slots[i + 1].iters
        BY <1>1
    <2> QED
        BY <1>2, <2>1 DEF Connected, RcOf, CcOf
<1> QED
    BY <1>1, <1>2 DEF SlotsRight, Covers, new

-----------------------------------------------------------------------------
(* new_peak                                                                 *)

\* The signage points that new_peak keeps are those of the same slot before the fork.
LEMMA KeptSpsFields ==
    ASSUME NEW slots, StoreOK(slots), NEW e, NEW until
    PROVE  /\ KeptSps(slots, e, until) \in [Indexes -> Challenges \cup {NONE}]
           /\ \A k \in Indexes : KeptSps(slots, e, until)[k] # NONE =>
                 \E i \in 1..Len(slots) :
                     /\ slots[i].eos = e /\ e # NONE
                     /\ slots[i].sps[k] = KeptSps(slots, e, until)[k]
                     /\ SpIters(slots[i], k) < Iters[until]
<1>1. CASE ~PresentSlot(slots, e) \/ e = NONE
    BY <1>1 DEF KeptSps, NoSps
<1>2. CASE PresentSlot(slots, e) /\ e # NONE
    <2> DEFINE i == CHOOSE i \in 1..Len(slots) : slots[i].eos = e
               kept == [k \in Indexes |->
                          IF SpIters(slots[i], k) < Iters[until] THEN slots[i].sps[k] ELSE NONE]
    <2>1. i \in 1..Len(slots) /\ slots[i].eos = e
        BY <1>2 DEF PresentSlot
    <2>2. KeptSps(slots, e, until) = kept
        BY <1>2 DEF KeptSps
    <2> HIDE DEF i
    <2>3. slots[i].sps \in [Indexes -> Challenges \cup {NONE}]
        BY <2>1 DEF StoreOK, EntryOK, Entries
    <2>4. kept \in [Indexes -> Challenges \cup {NONE}]
        BY <2>3
    <2>5. \A k \in Indexes : kept[k] # NONE =>
             slots[i].sps[k] = kept[k] /\ SpIters(slots[i], k) < Iters[until]
        OBVIOUS
    <2> HIDE DEF kept
    <2> QED
        BY <1>2, <2>1, <2>2, <2>4, <2>5
<1> QED
    BY <1>1, <1>2

\* The entries with which new_peak starts anew: the slot of the peak, and before it the
\* one of its signage point if the peak is an overflow block.
SlotEntry(slots, e, until, iters) ==
    [eos |-> e, sps |-> KeptSps(slots, e, until), iters |-> iters]

\* They are two for an overflow block and one for any other.
LEMMA PeakEntries ==
    ASSUME NEW b \in Blocks, IpSlot[b] # NONE, NEW slots, NEW until
    PROVE  LET first == SlotEntry(slots, SpSlot[b], until, SpStart(b))
               second == SlotEntry(slots, IpSlot[b], until, IpStart(b))
           IN  SlotsOfPeak(slots, b, until) = IF Overflow(b) THEN <<first, second>> ELSE <<second>>
<1> DEFINE first == SlotEntry(slots, SpSlot[b], until, SpStart(b))
           second == SlotEntry(slots, IpSlot[b], until, IpStart(b))
<1>1. SlotsOfPeak(slots, b, until) =
        (IF SpSlot[b] # NONE \/ SpStart(b) = 0 THEN <<first>> ELSE << >>) \o <<second>>
    BY DEF SlotsOfPeak, SlotEntry
<1>2. CASE Overflow(b)
    <2>1. SpSlot[b] # NONE \/ SpStart(b) = 0
        BY <1>2, SlotAssumption
    <2> HIDE DEF first, second
    <2>2. <<first>> \o <<second>> = <<first, second>>
        <3> DEFINE A == {first, second}
                   s == <<first>>
                   t == <<second>>
                   u == <<first, second>>
        <3>1. s \in Seq(A) /\ t \in Seq(A) /\ u \in Seq(A)
            OBVIOUS
        <3>2. Len(s) = 1 /\ Len(t) = 1 /\ Len(u) = 2 /\ s[1] = u[1] /\ t[1] = u[2]
            OBVIOUS
        <3> HIDE DEF A, s, t, u
        <3>3. s \o t \in Seq(A) /\ Len(s \o t) = 2 /\ (s \o t)[1] = u[1] /\ (s \o t)[2] = u[2]
            BY <3>1, <3>2, ConcatProperties
        <3>4. s \o t = u
            BY <3>1, <3>2, <3>3, SeqEqual
        <3> QED
            BY <3>4 DEF s, t, u
    <2> QED
        BY <1>1, <1>2, <2>1, <2>2 DEF first, second
<1>3. CASE ~Overflow(b)
    <2>1. SpSlot[b] = NONE /\ IpStart(b) > 0
        BY <1>3, SlotAssumption
    <2>2. SpStart(b) = IpStart(b) /\ IpStart(b) \in Nat
        BY <1>3, SlotArithmetic, Constants DEF SpStart, IpStart
    <2> HIDE DEF first, second
    <2>3. << >> \o <<second>> = <<second>>
        OBVIOUS
    <2>4. ~(SpSlot[b] # NONE \/ SpStart(b) = 0)
        BY <2>1, <2>2
    <2>5. SlotsOfPeak(slots, b, until) = <<second>>
        BY <1>1, <2>3, <2>4
    <2> QED
        BY <1>3, <2>5 DEF second
<1> QED
    BY <1>2, <1>3

\* After new_peak the store holds the slots of the new peak, connected, and of the old
\* signage points those that are right for the new peak if the ones before the fork were.
LEMMA PeakSlots ==
    ASSUME NEW slots, StoreOK(slots), NEW b \in Blocks, NEW until
    PROVE  LET new == SlotsOfPeak(slots, b, until) IN
           /\ StoreOK(new) /\ SlotsRight(new, b) /\ Covers(new, b)
           /\ SpsRight(slots, b, {n \in Nat : n < Iters[until]}) => SpsRight(new, b, Nat)
<1> DEFINE new == SlotsOfPeak(slots, b, until)
           S == SUB_SLOT_ITERS
           times == {n \in Nat : n < Iters[until]}
<1>0. b # NONE /\ S \in Nat /\ S > 0 /\ Iters[b] \in Nat
    BY Constants
<1>1. /\ IpStart(b) \in Nat /\ IpStart(b) < Iters[b] /\ Iters[b] < IpStart(b) + S
      /\ \E q \in Nat : IpStart(b) = q * S
    BY <1>0, SlotArithmetic, SlotAssumption DEF IpStart
<1>2. CASE IpSlot[b] = NONE
    <2> DEFINE entry == [eos |-> NONE, sps |-> NoSps, iters |-> 0]
    <2>1. new = <<entry>> /\ IpStart(b) = 0
        BY <1>2, SlotAssumption DEF SlotsOfPeak, GenesisSubSlot
    <2>2. EntryOK(entry)
        <3>1. NoSps \in [Indexes -> Challenges \cup {NONE}]
            BY DEF NoSps
        <3>2. entry \in Entries
            BY <3>1 DEF Entries
        <3>3. 0 = 0 * S
            BY <1>0
        <3> QED
            BY <3>2, <3>3 DEF EntryOK
    <2>3. \A k \in Indexes : entry.sps[k] = NONE
        BY DEF NoSps
    <2>4. entry \in Entries /\ entry.iters = 0
        BY <2>2 DEF EntryOK
    <2> HIDE DEF new, entry
    <2>5. Len(new) = 1 /\ new[1] = entry /\ new \in Seq(Entries)
        BY <2>1, <2>4
    <2>6. StoreOK(new) /\ SlotsRight(new, b)
        BY <2>2, <2>5 DEF StoreOK, SlotsRight
    <2>7. Covers(new, b)
        BY <1>1, <2>1, <2>4, <2>5 DEF Covers
    <2>8. SpsRight(new, b, Nat)
        BY <2>3, <2>5 DEF SpsRight
    <2> QED
        BY <2>6, <2>7, <2>8 DEF new
<1>3. CASE IpSlot[b] # NONE
    <2> DEFINE first == SlotEntry(slots, SpSlot[b], until, SpStart(b))
               second == SlotEntry(slots, IpSlot[b], until, IpStart(b))
    <2>1. new = IF Overflow(b) THEN <<first, second>> ELSE <<second>>
        BY <1>3, PeakEntries
    <2>2. IpSlot[b] \in Slots /\ SlotStart[IpSlot[b]] = IpStart(b) /\ SpSlot[b] \in Slots \cup {NONE}
        BY <1>3, StoreAssumption, SlotAssumption
    <2>3. EntryOK(second) /\ second.iters = IpStart(b) /\ second.eos = IpSlot[b]
        <3>1. second \in Entries
            BY <1>1, <2>2, KeptSpsFields DEF SlotEntry, Entries
        <3>2. second.iters = IpStart(b) /\ second.eos = IpSlot[b]
            BY DEF SlotEntry
        <3> QED
            BY <1>1, <1>3, <2>2, <3>1, <3>2 DEF EntryOK
    <2>4. ASSUME Overflow(b)
          PROVE  /\ EntryOK(first) /\ first.eos = SpSlot[b]
                 /\ first.iters = SpStart(b) /\ IpStart(b) = SpStart(b) + S /\ SpStart(b) \in Nat
        <3>1. SpStart(b) = IpStart(b) - S
            BY <2>4 DEF SpStart
        <3>2. SpStart(b) = IF SpSlot[b] = NONE THEN 0 ELSE SlotStart[SpSlot[b]]
            BY <2>4, SlotAssumption
        <3>3. SpStart(b) \in Nat
            BY <2>2, <3>2, SlotAssumption
        <3>4. first.eos = SpSlot[b] /\ first.iters = SpStart(b)
            BY DEF SlotEntry
        <3>5. first \in Entries
            BY <2>2, <3>3, KeptSpsFields DEF SlotEntry, Entries
        <3>6. \E q \in Nat : SpStart(b) = q * S
            <4>1. PICK q \in Nat : IpStart(b) = q * S
                BY <1>1
            <4>2. q # 0
                BY <1>0, <3>1, <3>3, <4>1
            <4>3. (q - 1) * S = q * S - S /\ q - 1 \in Nat
                BY <1>0, <4>2
            <4> QED
                BY <3>1, <4>1, <4>3
        <3> HIDE DEF first
        <3> QED
            BY <1>0, <1>1, <3>1, <3>2, <3>3, <3>4, <3>5, <3>6 DEF EntryOK
    <2>5. ASSUME Overflow(b) PROVE Connected(b, first, second)
        <3> DEFINE inside == {a \in Chain[b] : Iters[a] > SpStart(b) /\ Iters[a] < IpStart(b)}
        <3>1. /\ CcPrev[IpSlot[b]] = IF SpSlot[b] = NONE THEN GENESIS ELSE CcHash[SpSlot[b]]
              /\ Rc[IpSlot[b]] = IF inside # {} THEN Latest(inside)
                                 ELSE IF SpSlot[b] = NONE THEN GENESIS ELSE SpSlot[b]
            BY <2>5, SlotAssumption
        <3>2. \A a \in Chain[b] : Iters[a] \in Nat
            BY ChainLine, Constants
        <3>3. InfusedOn(b, SpStart(b), IpStart(b) - 1) = inside
            BY <1>0, <1>1, <3>2 DEF InfusedOn
        <3> HIDE DEF inside, first, second
        <3> QED
            BY <2>3, <2>4, <2>5, <3>1, <3>3 DEF Connected, CcOf, RcOf
    <2>6. ASSUME SpsRight(slots, b, times), NEW k \in Indexes, second.sps[k] # NONE
          PROVE  second.sps[k] = RightRc(b, second, k)
        <3>1. second.sps = KeptSps(slots, IpSlot[b], until)
            BY DEF SlotEntry
        <3> HIDE DEF second
        <3>2. PICK i \in 1..Len(slots) :
                 /\ slots[i].eos = IpSlot[b] /\ slots[i].sps[k] = second.sps[k]
                 /\ SpIters(slots[i], k) < Iters[until]
            BY <2>6, <3>1, KeptSpsFields
        <3>3. EntryOK(slots[i])
            BY DEF StoreOK
        <3>4. slots[i].iters = IpStart(b)
            BY <1>3, <2>2, <3>2, <3>3 DEF EntryOK
        <3>5. SpIters(slots[i], k) \in Nat
            BY <1>1, <3>4, SpItersType DEF SpIters
        <3>6. slots[i].sps[k] = RightRc(b, slots[i], k)
            BY <1>1, <2>6, <3>2, <3>4, <3>5 DEF SpsRight
        <3> QED
            BY <2>3, <3>2, <3>4, <3>6, SameRight
    <2> HIDE DEF new, first, second, times
    <2>7. CASE Overflow(b)
        <3>1. EntryOK(first) /\ EntryOK(second) /\ first \in Entries /\ second \in Entries
            BY <2>3, <2>4, <2>7 DEF EntryOK
        <3>2. Len(new) = 2 /\ new[1] = first /\ new[2] = second /\ new \in Seq(Entries)
            BY <2>1, <2>7, <3>1
        <3>3. StoreOK(new) /\ SlotsRight(new, b)
            BY <2>5, <2>7, <3>1, <3>2 DEF StoreOK, SlotsRight
        <3>4. Covers(new, b)
            BY <1>1, <2>3, <3>2 DEF Covers
        <3>5. ~(first.iters + S > Iters[b])
            BY <1>0, <1>1, <2>4, <2>7
        <3>6. SpsRight(slots, b, times) => SpsRight(new, b, Nat)
            BY <1>0, <2>6, <3>2, <3>5 DEF SpsRight
        <3> QED
            BY <3>3, <3>4, <3>6 DEF new, times
    <2>8. CASE ~Overflow(b)
        <3>1. second \in Entries
            BY <2>3 DEF EntryOK
        <3>2. Len(new) = 1 /\ new[1] = second /\ new \in Seq(Entries)
            BY <2>1, <2>8, <3>1
        <3>3. StoreOK(new) /\ SlotsRight(new, b)
            BY <2>3, <3>2 DEF StoreOK, SlotsRight
        <3>4. Covers(new, b)
            BY <1>1, <2>3, <3>2 DEF Covers
        <3>6. SpsRight(slots, b, times) => SpsRight(new, b, Nat)
            BY <2>6, <3>2 DEF SpsRight
        <3> QED
            BY <3>3, <3>4, <3>6 DEF new, times
    <2> QED
        BY <2>7, <2>8
<1> QED
    BY <1>2, <1>3

-----------------------------------------------------------------------------
(* The inductive invariants                                                 *)

\* All stored blocks descend from one block, so that a reorganization has a fork block.
ChainShape ==
    /\ peak \in Blocks \cup {NONE} /\ fork \in Blocks \cup {NONE}
    /\ stored \subseteq Blocks /\ post \in {"store", "clear", "done"}
    /\ IF peak = NONE THEN stored = {} /\ post = "done" ELSE peak \in stored
    /\ stored # {} => \E r \in Blocks : \A b \in stored : r \in Chain[b]

CacheShape ==
    /\ future_eos_cache \in [Challenges -> SUBSET Slots]
    /\ future_sp_cache \in [Challenges -> SUBSET SignagePoints]

HandlerShape ==
    /\ waiting \subseteq Slots
    /\ handler.at \in {"free", "eos", "sp"} /\ handler.peak \in Blocks \cup {NONE}
    /\ handler.at = "eos" => handler.item \in Slots
    /\ handler.at = "sp" => handler.item \in SignagePoints

Shape == ChainShape /\ CacheShape /\ HandlerShape /\ StoreOK(finished_sub_slots)

\* While the peak has changed and the store does not know of it, only the signage points
\* before the fork have to be right: new_peak keeps no others.
Until == IF fork = NONE THEN peak ELSE fork
Times == IF post = "store" THEN {n \in Nat : n < Iters[Until]} ELSE Nat

SpsInv == SpsRight(finished_sub_slots, peak, Times)

SlotsInv ==
    /\ handler.at # "eos"
    /\ post # "store" => SlotsRight(finished_sub_slots, peak) /\ Covers(finished_sub_slots, peak)

\* A reorganization does not go back to an earlier slot: of two blocks the heavier
\* one is not in an earlier slot.
HeavierNotEarlier == \A a, b \in Blocks : Weight[a] < Weight[b] => IpStart(a) <= IpStart(b)

\* get_full_peak never has to wait: the block of the peak is in the block store's cache.
PeaksCached == Uncached = {}

\* What one step keeps.
Kept == /\ Shape'
        /\ HeavierNotEarlier /\ SpsInv => SpsInv'
        /\ PeaksCached /\ SlotsInv => SlotsInv'

-----------------------------------------------------------------------------
(* The chain                                                                *)

\* The fork block, and that up to it both chains have the same blocks.
LEMMA ForkBlock ==
    ASSUME Shape, NEW b \in Blocks, NewPeak(b)
    PROVE  /\ fork' \in Blocks \cup {NONE}
           /\ Until' \in Blocks
           /\ \A from, to : to < Iters[Until'] /\ to \in Nat =>
                 InfusedOn(peak, from, to) = InfusedOn(b, from, to)
<1>0. /\ b # NONE /\ peak' = b /\ NONE \notin Blocks
      /\ fork' = IF Prev[b] = peak THEN NONE ELSE Latest(Chain[b] \cap Chain[peak])
    BY Constants DEF NewPeak
<1>1. CASE peak = NONE
    <2>1. Prev[b] = NONE
        BY <1>1 DEF NewPeak
    <2>2. fork' = NONE /\ Until' = b
        BY <1>0, <1>1, <2>1 DEF Until
    <2>3. Chain[b] = {b}
        BY <2>1, ChainStep
    <2>4. ASSUME NEW from, NEW to \in Nat, to < Iters[b] PROVE InfusedOn(b, from, to) = {}
        BY <1>0, <2>3, <2>4, Constants DEF InfusedOn
    <2> QED
        BY <1>1, <2>2, <2>4 DEF InfusedOn
<1>2. CASE peak # NONE
    <2>1. Prev[b] \in stored /\ peak \in stored /\ stored \subseteq Blocks
        BY <1>2 DEF NewPeak, Shape, ChainShape
    <2>2. Chain[b] = {b} \cup Chain[Prev[b]] /\ Prev[b] \in Blocks /\ peak \in Blocks
        BY <1>0, <2>1, ChainStep
    <2>3. CASE Prev[b] = peak
        <3>1. fork' = NONE /\ Until' = b
            BY <1>0, <2>3 DEF Until
        <3>2. ASSUME NEW from, NEW to \in Nat, to < Iters[b]
              PROVE  InfusedOn(peak, from, to) = InfusedOn(b, from, to)
            BY <1>0, <1>2, <2>2, <2>3, <3>2, Constants DEF InfusedOn
        <3> QED
            BY <3>1, <3>2
    <2>4. CASE Prev[b] # peak
        <3> DEFINE both == Chain[b] \cap Chain[peak]
        <3>1. both # {}
            <4>1. PICK r \in Blocks : \A c \in stored : r \in Chain[c]
                BY <2>1 DEF Shape, ChainShape
            <4> QED
                BY <2>1, <2>2, <4>1
        <3>2. fork' = Latest(both) /\ both \in SUBSET Chain[b]
            BY <1>0, <2>4
        <3>3. fork' \in both
            <4> HIDE DEF both
            <4> QED
                BY <3>1, <3>2, LatestOf
        <3>4. fork' \in Blocks /\ fork' # NONE /\ Until' = fork'
            BY <1>0, <3>3, ChainLine DEF Until
        <3>5. ASSUME NEW a, NEW from, NEW to \in Nat, to < Iters[fork']
              PROVE  a \in InfusedOn(peak, from, to) <=> a \in InfusedOn(b, from, to)
            <4>1. fork' \in Chain[b] /\ fork' \in Chain[peak] /\ Iters[fork'] \in Nat
                BY <3>3, <3>4, Constants
            <4>2. ASSUME NEW c \in Blocks, NEW d \in Blocks, fork' \in Chain[c], fork' \in Chain[d],
                         a \in Chain[c], Iters[a] <= to
                  PROVE  a \in Chain[d]
                <5>1. a \in Blocks /\ Iters[a] \in Nat
                    BY <4>2, ChainLine, Constants
                <5>2. Iters[a] <= Iters[fork']
                    BY <3>5, <4>1, <4>2, <5>1
                <5>3. a \in Chain[fork']
                    BY <4>2, <5>2, ChainLine
                <5> QED
                    BY <4>2, <5>3, ChainLine
            <4>3. a \in Chain[peak] /\ Iters[a] <= to <=> a \in Chain[b] /\ Iters[a] <= to
                BY <2>2, <4>1, <4>2
            <4> QED
                BY <1>0, <1>2, <4>3 DEF InfusedOn
        <3>6. ASSUME NEW from, NEW to \in Nat, to < Iters[fork']
              PROVE  InfusedOn(peak, from, to) = InfusedOn(b, from, to)
            <4>1. \A a : a \in InfusedOn(peak, from, to) <=> a \in InfusedOn(b, from, to)
                BY <3>5, <3>6
            <4> QED
                BY <1>0, <1>2, <4>1 DEF InfusedOn
        <3> QED
            BY <3>4, <3>6
    <2> QED
        BY <2>3, <2>4
<1> QED
    BY <1>1, <1>2

\* A block below a stored one descends from the same first block.
LEMMA ChainGrows ==
    ASSUME Shape, NEW b \in Blocks, stored' = stored \cup {b},
           stored = {} \/ Prev[b] \in stored
    PROVE  \E r \in Blocks : \A c \in stored' : r \in Chain[c]
<1>1. CASE stored = {}
    BY <1>1, ChainLine
<1>2. CASE stored # {}
    <2>1. PICK r \in Blocks : \A c \in stored : r \in Chain[c]
        BY <1>2 DEF Shape, ChainShape
    <2>2. Prev[b] \in Blocks /\ Prev[b] # NONE /\ r \in Chain[Prev[b]]
        BY <1>2, <2>1, Constants DEF Shape, ChainShape
    <2>3. r \in Chain[b]
        BY <2>2, ChainStep
    <2> QED
        BY <2>1, <2>3
<1> QED
    BY <1>1, <1>2

\* receive_block keeps a block aside.
LEMMA KeepAsideKeeps ==
    ASSUME Shape, NEW b \in Blocks, KeepAside(b)
    PROVE  Kept
<1>1. UNCHANGED <<peak, fork, post, finished_sub_slots, future_eos_cache, future_sp_cache, waiting, handler>>
    BY DEF KeepAside, storeVars
<1>2. peak # NONE
    BY DEF KeepAside, Shape, ChainShape
<1>3. ChainShape'
    <2>1. stored' = stored \cup {b} /\ Prev[b] \in stored
        BY DEF KeepAside
    <2>2. \E r \in Blocks : \A c \in stored' : r \in Chain[c]
        BY <2>1, ChainGrows
    <2> QED
        BY <1>1, <1>2, <2>1, <2>2 DEF Shape, ChainShape
<1> QED
    BY <1>1, <1>3 DEF Kept, Shape, CacheShape, HandlerShape, SpsInv, SlotsInv, Times, Until

\* receive_block makes a block the peak.
LEMMA NewPeakKeeps ==
    ASSUME Shape, NEW b \in Blocks, NewPeak(b)
    PROVE  Kept
<1>1. /\ UNCHANGED <<finished_sub_slots, future_eos_cache, future_sp_cache, waiting, handler>>
      /\ peak' = b /\ post = "done" /\ post' = "store" /\ stored' = stored \cup {b}
    BY DEF NewPeak, storeVars
<1>2. ChainShape'
    <2>1. stored = {} \/ Prev[b] \in stored
        BY DEF NewPeak, Shape, ChainShape
    <2>2. \E r \in Blocks : \A c \in stored' : r \in Chain[c]
        BY <1>1, <2>1, ChainGrows
    <2> QED
        BY <1>1, <2>2, ForkBlock, Constants DEF Shape, ChainShape
<1>3. ASSUME HeavierNotEarlier, SpsInv PROVE SpsInv'
    <2> DEFINE slots == finished_sub_slots
               times == {n \in Nat : n < Iters[Until']}
               S == SUB_SLOT_ITERS
    <2>1. SpsRight(slots, peak, Nat) /\ Times' = times /\ slots' = slots
        BY <1>1, <1>3 DEF SpsInv, Times
    <2>2. ASSUME NEW i \in 1..Len(slots), NEW k \in Indexes, slots[i].iters + S > Iters[b],
                 slots[i].sps[k] # NONE, SpIters(slots[i], k) \in times
          PROVE  slots[i].sps[k] = RightRc(b, slots[i], k)
        <3>1. EntryOK(slots[i])
            BY DEF Shape, StoreOK
        <3>2. PICK q \in Nat : slots[i].iters = q * S
            BY <3>1 DEF EntryOK
        <3>3. peak = NONE \/ slots[i].iters + S > Iters[peak]
            <4> SUFFICES ASSUME peak # NONE PROVE slots[i].iters + S > Iters[peak]
                OBVIOUS
            <4>1. peak \in Blocks /\ Weight[peak] < Weight[b]
                BY Constants DEF NewPeak, Shape, ChainShape
            <4>2. IpStart(peak) <= IpStart(b)
                BY <1>3, <4>1 DEF HeavierNotEarlier
            <4>3. /\ Iters[b] \in Nat /\ Iters[peak] \in Nat /\ S \in Nat /\ slots[i].iters \in Nat
                BY <3>1, <4>1, Constants DEF EntryOK, Entries
            <4>4. IpStart(b) \in Nat /\ IpStart(b) <= slots[i].iters
                BY <2>2, <3>2, <4>3, SlotArithmetic DEF IpStart
            <4>5. IpStart(peak) \in Nat /\ Iters[peak] < IpStart(peak) + S
                BY <4>3, SlotArithmetic DEF IpStart
            <4> QED
                BY <4>2, <4>3, <4>4, <4>5
        <3>4. SpIters(slots[i], k) \in Nat /\ SpIters(slots[i], k) < Iters[Until']
            BY <2>2
        <3>5. slots[i].sps[k] = RightRc(peak, slots[i], k)
            BY <2>1, <2>2, <3>3, <3>4 DEF SpsRight
        <3>6. InfusedOn(peak, slots[i].iters, SpIters(slots[i], k)) =
              InfusedOn(b, slots[i].iters, SpIters(slots[i], k))
            BY <3>4, ForkBlock
        <3> QED
            BY <3>5, <3>6 DEF RightRc
    <2>3. b # NONE
        BY Constants
    <2>4. SpsRight(slots, b, times)
        <3> HIDE DEF slots, times
        <3> QED
            BY <2>2, <2>3 DEF SpsRight
    <2> QED
        BY <1>1, <2>1, <2>4 DEF SpsInv
<1> QED
    BY <1>1, <1>2, <1>3 DEF Kept, Shape, CacheShape, HandlerShape, SlotsInv

-----------------------------------------------------------------------------
(* peak_post_processing                                                     *)

\* What the store holds after new_peak.
LEMMA PostProcessedSlots ==
    ASSUME Shape, PeakPostProcessing
    PROVE  /\ StoreOK(finished_sub_slots')
           /\ SlotsRight(finished_sub_slots', peak) /\ Covers(finished_sub_slots', peak)
           /\ SpsRight(finished_sub_slots, peak, {n \in Nat : n < Iters[Until]}) =>
                 SpsRight(finished_sub_slots', peak, Nat)
<1> DEFINE own == BlockSp[peak]
           base == SlotsOfPeak(finished_sub_slots, peak, Until)
           times == {n \in Nat : n < Iters[Until]}
           Good(slots) ==
              /\ StoreOK(slots) /\ SlotsRight(slots, peak) /\ Covers(slots, peak)
              /\ SpsRight(finished_sub_slots, peak, times) => SpsRight(slots, peak, Nat)
           Filled(slots) == WithSps(slots, FutureSps(slots, peak))
<1>1. peak \in Blocks /\ peak \in Challenges
    BY DEF PeakPostProcessing, Shape, ChainShape, Challenges
<1>2. Good(base)
    BY <1>1, PeakSlots DEF Shape
<1>3. PICK slots \in SlotsWithFuture(base, peak) :
          finished_sub_slots' = IF own # NONE /\ AddableSp(Filled(slots), own, peak)
                                THEN WithSps(Filled(slots), {own}) ELSE Filled(slots)
    BY DEF PeakPostProcessing, Until
<1> HIDE DEF base, times
<1>4. Good(slots)
    <2>1. CASE slots = base
        BY <1>2, <2>1
    <2>2. CASE slots \in WithFutureSlot(base, peak)
        <3>1. PICK e \in future_eos_cache[peak] : AddableSlot(base, e, peak) /\ slots = WithSlot(base, e)
            BY <2>2 DEF WithFutureSlot
        <3>2. e \in Slots
            BY <1>1, <3>1 DEF Shape, CacheShape
        <3>3. Appends(base, e)
            BY <3>1 DEF AddableSlot
        <3>4. StoreOK(WithSlot(base, e))
            BY <1>2, <3>2, <3>3, WithSlotFields
        <3>5. SlotsRight(WithSlot(base, e), peak) /\ Covers(WithSlot(base, e), peak)
            BY <1>1, <1>2, <3>1, <3>2, WithSlotRight
        <3>6. SpsRight(finished_sub_slots, peak, times) => SpsRight(WithSlot(base, e), peak, Nat)
            BY <1>2, <3>2, <3>3, WithSlotSps
        <3> QED
            BY <3>1, <3>4, <3>5, <3>6
    <2> QED
        BY <1>3, <2>1, <2>2 DEF SlotsWithFuture
<1>5. ASSUME NEW s, Good(s), NEW sps \in SUBSET SignagePoints, \A sp \in sps : AddableSp(s, sp, peak)
      PROVE  Good(WithSps(s, sps))
    <2>1. /\ StoreOK(WithSps(s, sps))
          /\ SpsRight(s, peak, Nat) => SpsRight(WithSps(s, sps), peak, Nat)
        BY <1>1, <1>5, StoreSps
    <2>2. SlotsRight(WithSps(s, sps), peak) /\ Covers(WithSps(s, sps), peak)
        BY <1>5, WithSpsRight
    <2> QED
        BY <1>5, <2>1, <2>2
<1>6. Good(Filled(slots))
    <2>1. FutureSps(slots, peak) \in SUBSET SignagePoints
        BY <1>1 DEF FutureSps, Shape, CacheShape
    <2>2. \A sp \in FutureSps(slots, peak) : AddableSp(slots, sp, peak)
        BY DEF FutureSps
    <2> HIDE DEF Good
    <2> QED
        BY <1>4, <1>5, <2>1, <2>2
<1>7. ASSUME own # NONE, AddableSp(Filled(slots), own, peak) PROVE Good(WithSps(Filled(slots), {own}))
    <2>1. own \in SignagePoints
        BY <1>1, <1>7, StoreAssumption
    <2> HIDE DEF Good, Filled, own
    <2> QED
        BY <1>5, <1>6, <1>7, <2>1
<1>8. Good(finished_sub_slots')
    <2> HIDE DEF Good, Filled, own
    <2> QED
        BY <1>3, <1>6, <1>7
<1> QED
    BY <1>8 DEF times

\* peak_post_processing, up to the end of the store's part in it.
LEMMA PeakPostProcessingKeeps ==
    ASSUME Shape, PeakPostProcessing
    PROVE  Kept
<1>1. /\ UNCHANGED <<peak, fork, stored, waiting, handler>>
      /\ post = "store" /\ post' \in {"clear", "done"} /\ peak # NONE /\ peak \in Blocks
    BY DEF PeakPostProcessing, Shape, ChainShape
<1>2. CacheShape'
    <2>1. BlockSp[peak] \in SignagePoints \cup {NONE} /\ peak \in Challenges
        BY <1>1, StoreAssumption DEF Challenges
    <2>2. future_eos_cache' \in [Challenges -> SUBSET Slots]
        BY DEF PeakPostProcessing, Shape, CacheShape
    <2> DEFINE own == BlockSp[peak]
               popped == [future_sp_cache EXCEPT ![peak] = {}]
    <2>3. popped \in [Challenges -> SUBSET SignagePoints]
        BY DEF Shape, CacheShape
    <2>4. \/ future_sp_cache' = popped
          \/ own # NONE /\ future_sp_cache' = AddToFutureSp(popped, own)
        BY DEF PeakPostProcessing
    <2> HIDE DEF popped, own
    <2>5. own # NONE => AddToFutureSp(popped, own) \in [Challenges -> SUBSET SignagePoints]
        BY <2>1, <2>3, SignagePointType DEF AddToFutureSp, own
    <2> QED
        BY <2>2, <2>3, <2>4, <2>5 DEF CacheShape
<1>3. Shape'
    BY <1>1, <1>2, PostProcessedSlots DEF Shape, ChainShape, HandlerShape
<1>4. SpsInv => SpsInv'
    BY <1>1, PostProcessedSlots DEF SpsInv, Times
<1>5. SlotsInv => SlotsInv'
    BY <1>1, PostProcessedSlots DEF SlotsInv
<1> QED
    BY <1>3, <1>4, <1>5 DEF Kept

\* clear_old_cache_entries.
LEMMA ClearOldCacheEntriesKeeps ==
    ASSUME Shape, ClearOldCacheEntries
    PROVE  Kept
<1>1. /\ UNCHANGED <<peak, fork, stored, finished_sub_slots, waiting, handler>>
      /\ post = "clear" /\ post' = "done"
    BY DEF ClearOldCacheEntries
<1>2. CacheShape'
    BY DEF ClearOldCacheEntries, Shape, CacheShape
<1> QED
    BY <1>1, <1>2 DEF Kept, Shape, ChainShape, HandlerShape, SpsInv, SlotsInv, Times, Until

-----------------------------------------------------------------------------
(* The handlers                                                             *)

\* new_finished_sub_slot with the peak p.
LEMMA NewFinishedSubSlotKeeps ==
    ASSUME Shape, NEW e \in Slots, NEW p, NewFinishedSubSlot(e, p), UNCHANGED <<chainVars, future_sp_cache>>
    PROVE  /\ CacheShape' /\ StoreOK(finished_sub_slots')
           /\ SpsInv => SpsInv'
           /\ p = peak /\ post # "store"
                /\ SlotsRight(finished_sub_slots, p) /\ Covers(finished_sub_slots, p)
              => SlotsRight(finished_sub_slots', p) /\ Covers(finished_sub_slots', p)
<1>1. CacheShape'
    <2>1. Rc[e] \in Challenges
        BY StoreAssumption
    <2> QED
        BY <2>1 DEF NewFinishedSubSlot, Shape, CacheShape
<1>2. CASE AddableSlot(finished_sub_slots, e, p)
    <2>1. finished_sub_slots' = WithSlot(finished_sub_slots, e) /\ Appends(finished_sub_slots, e)
        BY <1>2 DEF NewFinishedSubSlot, AddableSlot
    <2>2. StoreOK(WithSlot(finished_sub_slots, e))
        BY <2>1, WithSlotFields DEF Shape
    <2>3. SpsInv => SpsInv'
        BY <2>1, WithSlotSps DEF Shape, SpsInv, Times, Until, chainVars
    <2>4. ASSUME p = peak, SlotsRight(finished_sub_slots, p), Covers(finished_sub_slots, p)
          PROVE  SlotsRight(WithSlot(finished_sub_slots, e), p) /\ Covers(WithSlot(finished_sub_slots, e), p)
        BY <1>2, <2>4, WithSlotRight DEF Shape, ChainShape
    <2> QED
        BY <1>1, <2>1, <2>2, <2>3, <2>4
<1>3. CASE ~AddableSlot(finished_sub_slots, e, p)
    BY <1>1, <1>3 DEF NewFinishedSubSlot, Shape, SpsInv, Times, Until, chainVars
<1> QED
    BY <1>2, <1>3

\* respond_end_of_sub_slot under the lock; if it waits for the block of the peak, the peak
\* that it has read may be an old one when it goes on.
LEMMA EndOfSubSlotLockedKeeps ==
    ASSUME Shape, NEW e \in Slots, EndOfSubSlotLocked(e)
    PROVE  Kept
<1>1. UNCHANGED chainVars /\ waiting' = waiting \ {e}
    BY DEF EndOfSubSlotLocked
<1>2. CASE peak \in Uncached
    <2>1. UNCHANGED storeVars /\ handler' = [at |-> "eos", item |-> e, peak |-> peak]
        BY <1>2 DEF EndOfSubSlotLocked
    <2>2. Shape'
        BY <1>1, <2>1 DEF Shape, ChainShape, CacheShape, HandlerShape, chainVars, storeVars
    <2>3. ~PeaksCached
        BY <1>2 DEF PeaksCached
    <2> QED
        BY <1>1, <2>1, <2>2, <2>3 DEF Kept, SpsInv, Times, Until, chainVars, storeVars
<1>3. CASE peak \notin Uncached
    <2>1. NewFinishedSubSlot(e, peak) /\ UNCHANGED <<future_sp_cache, handler>>
        BY <1>3 DEF EndOfSubSlotLocked
    <2>2. Shape' /\ (SpsInv => SpsInv')
        BY <1>1, <2>1, NewFinishedSubSlotKeeps DEF Shape, ChainShape, HandlerShape, chainVars
    <2>3. SlotsInv => SlotsInv'
        BY <1>1, <2>1, NewFinishedSubSlotKeeps DEF SlotsInv, chainVars
    <2> QED
        BY <2>2, <2>3 DEF Kept
<1> QED
    BY <1>2, <1>3

\* Its end after such a wait: signage points stay right even then.
LEMMA EndOfSubSlotAddedKeeps ==
    ASSUME Shape, EndOfSubSlotAdded
    PROVE  Kept
<1>1. /\ handler.at = "eos" /\ handler.item \in Slots /\ NewFinishedSubSlot(handler.item, handler.peak)
      /\ handler' = Free /\ UNCHANGED <<chainVars, future_sp_cache, waiting>>
    BY DEF EndOfSubSlotAdded, Shape, HandlerShape
<1>2. Shape' /\ (SpsInv => SpsInv')
    BY <1>1, NewFinishedSubSlotKeeps DEF Shape, ChainShape, HandlerShape, chainVars, Free
<1>3. ~SlotsInv
    BY <1>1 DEF SlotsInv
<1> QED
    BY <1>2, <1>3 DEF Kept

\* respond_signage_point.
LEMMA SignagePointAddedKeeps ==
    ASSUME Shape, SignagePointAdded
    PROVE  Kept
<1> DEFINE sp == handler.item
<1>1. /\ sp \in SignagePoints /\ handler' = Free
      /\ UNCHANGED <<chainVars, future_eos_cache, waiting>>
    BY DEF SignagePointAdded, Shape, HandlerShape
<1>2. peak \in Blocks \cup {NONE} /\ StoreOK(finished_sub_slots)
    BY DEF Shape, ChainShape
<1>3. CacheShape'
    <2>1. sp.rc \in Challenges
        BY <1>1, SignagePointType
    <2>2. future_sp_cache' = future_sp_cache \/ future_sp_cache' = AddToFutureSp(future_sp_cache, sp)
        BY DEF SignagePointAdded
    <2> HIDE DEF sp
    <2> QED
        BY <1>1, <2>1, <2>2 DEF AddToFutureSp, Shape, CacheShape
<1>4. CASE AddableSp(finished_sub_slots, sp, peak)
    <2>1. finished_sub_slots' = WithSps(finished_sub_slots, {sp})
        BY <1>4 DEF SignagePointAdded
    <2>2. {sp} \in SUBSET SignagePoints /\ \A x \in {sp} : AddableSp(finished_sub_slots, x, peak)
        BY <1>1, <1>4
    <2> HIDE DEF sp
    <2>3. StoreOK(finished_sub_slots')
        BY <1>2, <2>1, <2>2, StoreSps
    <2>4. SpsInv => SpsInv'
        BY <1>1, <1>2, <2>1, <2>2, StoreSps DEF SpsInv, Times, Until, chainVars
    <2>5. SlotsInv => SlotsInv'
        BY <1>1, <1>2, <2>1, <2>2, WithSpsRight DEF SlotsInv, chainVars, Free
    <2> QED
        BY <1>1, <1>3, <2>3, <2>4, <2>5 DEF Kept, Shape, ChainShape, HandlerShape, chainVars, Free
<1>5. CASE ~AddableSp(finished_sub_slots, sp, peak)
    <2>1. UNCHANGED finished_sub_slots
        BY <1>5 DEF SignagePointAdded
    <2> QED
        BY <1>1, <1>3, <2>1
           DEF Kept, Shape, ChainShape, HandlerShape, SpsInv, SlotsInv, Times, Until, chainVars, Free
<1> QED
    BY <1>4, <1>5

\* Steps that change neither the chain nor the store.
LEMMA WaitingKeeps ==
    ASSUME Shape, UNCHANGED <<chainVars, storeVars>>, HandlerShape', handler'.at = "eos" => handler.at = "eos"
    PROVE  Kept
BY DEF Kept, Shape, ChainShape, CacheShape, SpsInv, SlotsInv, Times, Until, chainVars, storeVars

\* Every step of the handlers, of the chain and of peak_post_processing.
LEMMA StepKeeps ==
    ASSUME Shape, [Next]_vars
    PROVE  Kept
<1>1. CASE UNCHANGED vars
    BY <1>1, WaitingKeeps DEF vars, Shape, HandlerShape
<1>2. ASSUME NEW e \in Slots, RespondEndOfSubSlot(e) \/ PreviousMissing(e) PROVE Kept
    BY <1>2, WaitingKeeps DEF RespondEndOfSubSlot, PreviousMissing, Shape, HandlerShape
<1>3. ASSUME NEW sp \in SignagePoints, RespondSignagePoint(sp) PROVE Kept
    BY <1>3, WaitingKeeps DEF RespondSignagePoint, Shape, HandlerShape
<1> QED
    BY <1>1, <1>2, <1>3, KeepAsideKeeps, NewPeakKeeps, PeakPostProcessingKeeps,
       ClearOldCacheEntriesKeeps, EndOfSubSlotLockedKeeps, EndOfSubSlotAddedKeeps,
       SignagePointAddedKeeps DEF Next

\* The empty store.
LEMMA InitKeeps == Init => Shape /\ SpsInv /\ SlotsInv
<1> SUFFICES ASSUME Init PROVE Shape /\ SpsInv /\ SlotsInv
    OBVIOUS
<1> DEFINE entry == [eos |-> NONE, sps |-> NoSps, iters |-> 0]
<1>1. finished_sub_slots = <<entry>>
    BY DEF Init, GenesisSubSlot
<1>2. EntryOK(entry) /\ entry \in Entries
    <2>1. NoSps \in [Indexes -> Challenges \cup {NONE}]
        BY DEF NoSps
    <2>2. entry \in Entries
        BY <2>1 DEF Entries
    <2>3. 0 = 0 * SUB_SLOT_ITERS
        BY Constants
    <2> QED
        BY <2>2, <2>3 DEF EntryOK
<1>3. \A k \in Indexes : entry.sps[k] = NONE
    BY DEF NoSps
<1> HIDE DEF entry
<1>4. Len(finished_sub_slots) = 1 /\ finished_sub_slots[1] = entry /\ finished_sub_slots \in Seq(Entries)
    BY <1>1, <1>2
<1>5. StoreOK(finished_sub_slots)
    BY <1>2, <1>4 DEF StoreOK
<1>6. SpsInv
    BY <1>3, <1>4 DEF SpsInv, SpsRight
<1>7. SlotsInv
    BY <1>4 DEF SlotsInv, SlotsRight, Covers, Init, Free
<1> QED
    BY <1>5, <1>6, <1>7 DEF Init, Free, Shape, ChainShape, CacheShape, HandlerShape

-----------------------------------------------------------------------------
(* Theorems                                                                 *)

\* The types, the entries of the store and the chain behind the fork block are sound in
\* every reachable state.
THEOREM ShapeInvariant == Spec => []Shape
<1>1. Init => Shape
    BY InitKeeps
<1>2. Shape /\ [Next]_vars => Shape'
    BY StepKeeps DEF Kept
<1> QED
    BY <1>1, <1>2, PTL DEF Spec

\* Every variable of the FullNodeStore keeps its type; the store is never empty, as
\* new_finished_sub_slot and new_peak assert.
THEOREM TypeCorrect == Spec => []TypeOK
<1>1. Shape => TypeOK
    BY DEF Shape, ChainShape, CacheShape, HandlerShape, StoreOK, TypeOK
<1> QED
    BY <1>1, ShapeInvariant, PTL

\* The slots in the store are those of the peak's chain, each computed from the last block
\* before its end, whichever messages come before, between and after the peaks; as long
\* as respond_end_of_sub_slot does not have to wait for the block of the peak.
THEOREM SlotsAlwaysFollowPeak == PeaksCached => (Spec => []SlotsFollowPeak)
<1> SUFFICES ASSUME PeaksCached PROVE Spec => []SlotsFollowPeak
    OBVIOUS
<1>1. Init => Shape /\ SlotsInv
    BY InitKeeps
<1>2. (Shape /\ SlotsInv) /\ [Next]_vars => (Shape /\ SlotsInv)'
    BY StepKeeps DEF Kept
<1>3. Shape /\ SlotsInv => SlotsFollowPeak
    BY DEF SlotsInv, SlotsRight, Connected, InfusedOn, Infused, SlotsFollowPeak, Settled
<1> QED
    BY <1>1, <1>2, <1>3, PTL DEF Spec

\* From the slot of the peak on, a signage point in the store was computed from the last
\* block of the peak's chain before it, through every reorganization that does not go back
\* to an earlier slot.
THEOREM SpsAlwaysFollowPeak == HeavierNotEarlier => (Spec => []SpsFollowPeak)
<1> SUFFICES ASSUME HeavierNotEarlier PROVE Spec => []SpsFollowPeak
    OBVIOUS
<1>1. Init => Shape /\ SpsInv
    BY InitKeeps
<1>2. (Shape /\ SpsInv) /\ [Next]_vars => (Shape /\ SpsInv)'
    BY StepKeeps DEF Kept
<1>3. Shape /\ SpsInv => SpsFollowPeak
    <2> SUFFICES ASSUME Shape, SpsInv, Settled,
                        NEW i \in 1..Len(finished_sub_slots), NEW k \in Indexes,
                        peak = NONE \/ finished_sub_slots[i].iters + SUB_SLOT_ITERS > Iters[peak],
                        finished_sub_slots[i].sps[k] # NONE
                 PROVE  finished_sub_slots[i].sps[k] = RightRc(peak, finished_sub_slots[i], k)
        BY DEF SpsFollowPeak, RightRc, InfusedOn, Infused
    <2>1. finished_sub_slots[i].iters \in Nat
        BY DEF Shape, StoreOK, EntryOK, Entries
    <2>2. SpIters(finished_sub_slots[i], k) \in Nat
        BY <2>1, SpItersType DEF SpIters
    <2> QED
        BY <2>2 DEF SpsInv, SpsRight, Times, Settled
<1> QED
    BY <1>1, <1>2, <1>3, PTL DEF Spec
=============================================================================
