--------------------------- MODULE MempoolProofs ---------------------------
(***************************************************************************)
(* The mempool between its two locks, for every set of bundles, coins and   *)
(* blocks: the index by coin is the one of the items, their costs add up to  *)
(* total_mempool_cost and stay within the limit, and what a farmer is given *)
(* on a transaction peak can be included; items leave only for a bundle     *)
(* that pays more per cost.                                                 *)
(***************************************************************************)
EXTENDS MempoolManager, BlockTreeProofs, FiniteSetTheorems

----------------------------------------------------------------------------
(* The inductive invariant                                                  *)

PoolShape ==
    /\ mempool.spends \subseteq Txs
    /\ mempool.removals \in [Coins -> Txs \cup {NONE}]

PotentialShape ==
    /\ potential = [txs |-> potential.txs, cost |-> potential.cost, max |-> potential.max]
    /\ potential.txs \in Seq(Txs)

TaskShape ==
    /\ tasks \in [Txs -> [pc : {"idle", "validating", "waiting"},
                          unread : SUBSET Coins, spent : BOOLEAN]]
    /\ lock \in Seq(Txs \cup {PeakTask})

PeakShape ==
    /\ chain_peak \in Rooted
    /\ peak \in Rooted \cup {NONE}
    /\ receiving \in [pc : {"idle", "apply", "new_peak", "lock", "pool", "retry",
                            "announce", "failed"},
                      block : Rooted \cup {NONE}, left : SUBSET Txs,
                      retry : Seq(Txs), added : Seq(Txs)]

Shape == PoolShape /\ PotentialShape /\ TaskShape /\ PeakShape

\* The coin store is the one of the peak except while _reconsider_peak rewrites it.
CoinsFollowPeak == receiving.pc # "apply" => coins_at = chain_peak

\* Weights only grow: until new_peak has taken over a new peak, self.peak is lighter.
PeakIsBehind ==
    /\ peak # NONE => Weight[peak] <= Weight[chain_peak]
    /\ receiving.pc = "new_peak" /\ peak # NONE => Weight[peak] < Weight[chain_peak]
    /\ receiving.pc = "apply" =>
          receiving.block \in Rooted /\ Weight[receiving.block] > Weight[chain_peak]

\* new_peak refills the pool under mempool_manager.lock ...
RefillLocked == receiving.pc \in {"pool", "retry"} => Holds(PeakTask)

\* ... and so does a task that has read some of its coins.
ReadersLocked ==
    \A t \in Txs :
        tasks[t].pc = "waiting" /\ tasks[t].unread # TxRemovals[t] => Holds(t)

\* The peak that new_peak has taken over is still the one of the chain.
AtPeak == peak = chain_peak

\* From the moment in which the pool is emptied every item fits the peak ...
ItemsFit ==
    AtPeak /\ receiving.pc \in {"pool", "retry", "announce", "idle", "failed"} =>
        \A t \in mempool.spends : SpendableAt(t, peak) /\ Height[peak] >= MinHeight[t]

\* ... and so does, once the pool is refilled, every coin that a task has read.
ReadsFit ==
    AtPeak /\ receiving.pc \in {"announce", "idle", "failed"} =>
        \A t \in Txs : tasks[t].pc = "waiting" =>
            \A c \in TxRemovals[t] \ tasks[t].unread :
                ~Missing(t, c, peak) /\ (AlreadySpent(t, c, peak) => tasks[t].spent)

MempoolInv ==
    /\ Shape
    /\ IndexMatchesItems
    /\ CoinsFollowPeak
    /\ PeakIsBehind
    /\ RefillLocked
    /\ ReadersLocked
    /\ ItemsFit
    /\ ReadsFit

----------------------------------------------------------------------------
(* Costs and fees add up                                                    *)

\* MapThenSumSet takes the elements of a set one after the other.  That its recursive
\* definition has a solution is proved here, by induction on the size of the set.
Some(s) == CHOOSE x \in s : TRUE
SumRule(w, g, s) == IF s = {} THEN 0 ELSE w[Some(s)] + g[s \ {Some(s)}]
Sums(w, S) == CHOOSE g : g = [s \in SUBSET S |-> SumRule(w, g, s)]
SumOf(w, S) == Sums(w, S)[S]

\* The two sums of the model are such sums.
LEMMA CostIsSum == \A S : CostOf(S) = SumOf(Cost, S) /\ FeeOf(S) = SumOf(Fee, S)
<1>1. ASSUME NEW S PROVE CostOf(S) = SumOf(Cost, S)
    BY DEF CostOf, MapThenSumSet, MapThenFoldSet, SumOf, Sums, SumRule, Some
<1>2. ASSUME NEW S PROVE FeeOf(S) = SumOf(Fee, S)
    BY DEF FeeOf, MapThenSumSet, MapThenFoldSet, SumOf, Sums, SumRule, Some
<1> QED
    BY <1>1, <1>2

\* One element less.
LEMMA RestOfSet ==
    ASSUME NEW s, IsFiniteSet(s), s # {}
    PROVE  /\ Some(s) \in s /\ s \ {Some(s)} \subseteq s
           /\ IsFiniteSet(s \ {Some(s)}) /\ Cardinality(s) \in Nat
           /\ Cardinality(s \ {Some(s)}) = Cardinality(s) - 1
           /\ Cardinality(s) > 0
<1>1. Some(s) \in s
    BY DEF Some
<1>2. /\ IsFiniteSet(s \ {Some(s)})
      /\ Cardinality(s \ {Some(s)}) = Cardinality(s) - 1
    BY <1>1, FS_RemoveElement
<1>3. Cardinality(s) \in Nat /\ Cardinality(s \ {Some(s)}) \in Nat
    BY <1>2, FS_CardinalityType
<1> QED
    BY <1>1, <1>2, <1>3

\* There is a function that follows the rule on all sets of at most k elements.
LEMMA SumsUpTo ==
    ASSUME NEW w \in [Txs -> Nat], NEW S \in SUBSET Txs, IsFiniteSet(S), NEW k \in Nat
    PROVE  \E g \in [SUBSET S -> Nat] :
              \A s \in SUBSET S : Cardinality(s) <= k => g[s] = SumRule(w, g, s)
<1> DEFINE Has(n) == \E g \in [SUBSET S -> Nat] :
                        \A s \in SUBSET S : Cardinality(s) <= n => g[s] = SumRule(w, g, s)
           Lacking == {n \in Nat : ~Has(n)}
<1>0. ASSUME NEW s \in SUBSET S PROVE IsFiniteSet(s) /\ Cardinality(s) \in Nat
    BY FS_Subset, FS_CardinalityType
<1> SUFFICES ASSUME ~Has(k) PROVE FALSE
    OBVIOUS
<1>1. Lacking \subseteq Nat /\ Lacking # {}
    OBVIOUS
<1>2. PICK n \in Lacking : \A m \in Lacking : n <= m
    <2> HIDE DEF Lacking
    <2> QED
        BY <1>1, LeastNatural
<1>3. CASE n = 0
    <2> DEFINE g == [s \in SUBSET S |-> 0]
    <2>1. g \in [SUBSET S -> Nat]
        OBVIOUS
    <2>2. ASSUME NEW s \in SUBSET S, Cardinality(s) <= 0 PROVE g[s] = SumRule(w, g, s)
        <3>1. s = {}
            BY <1>0, <2>2, FS_EmptySet
        <3> QED
            BY <3>1 DEF SumRule
    <2> HIDE DEF g
    <2>3. Has(0)
        BY <2>1, <2>2
    <2> QED
        BY <1>2, <1>3, <2>3
<1>4. CASE n > 0
    <2>1. n - 1 \in Nat /\ ~(n <= n - 1)
        BY <1>2, <1>4
    <2>2. Has(n - 1)
        BY <1>2, <2>1
    <2>3. PICK g \in [SUBSET S -> Nat] :
             \A s \in SUBSET S : Cardinality(s) <= n - 1 => g[s] = SumRule(w, g, s)
        BY <2>2
    <2> DEFINE f == [s \in SUBSET S |-> SumRule(w, g, s)]
    <2>4. ASSUME NEW s \in SUBSET S PROVE f[s] = SumRule(w, g, s) /\ SumRule(w, g, s) \in Nat
        <3>1. CASE s = {}
            BY <3>1 DEF SumRule
        <3>2. CASE s # {}
            <4>1. Some(s) \in Txs /\ s \ {Some(s)} \in SUBSET S
                BY <1>0, <3>2, RestOfSet
            <4>2. w[Some(s)] \in Nat /\ g[s \ {Some(s)}] \in Nat
                BY <2>3, <4>1
            <4> QED
                BY <3>2, <4>2 DEF SumRule
        <3> QED
            BY <3>1, <3>2
    <2>5. f \in [SUBSET S -> Nat]
        BY <2>4
    <2> HIDE DEF f
    <2>6. ASSUME NEW s \in SUBSET S, Cardinality(s) <= n PROVE f[s] = SumRule(w, f, s)
        <3>1. CASE s = {}
            BY <2>4, <3>1 DEF SumRule
        <3>2. CASE s # {}
            <4> DEFINE r == s \ {Some(s)}
            <4>1. r \in SUBSET S /\ Cardinality(r) = Cardinality(s) - 1 /\ Cardinality(s) \in Nat
                BY <1>0, <3>2, RestOfSet
            <4>2. Cardinality(r) <= n - 1
                BY <2>1, <2>6, <4>1
            <4>3. f[r] = g[r]
                <5> HIDE DEF r
                <5> QED
                    BY <2>3, <2>4, <4>1, <4>2
            <4> QED
                BY <2>4, <3>2, <4>3 DEF SumRule
        <3> QED
            BY <3>1, <3>2
    <2>7. Has(n)
        BY <2>5, <2>6
    <2> QED
        BY <1>2, <2>7
<1> QED
    BY <1>2, <1>3, <1>4

\* The recursive definition of the sum has a solution.
LEMMA SumsExist ==
    ASSUME NEW w \in [Txs -> Nat], NEW S \in SUBSET Txs, IsFiniteSet(S)
    PROVE  \A s \in SUBSET S : Sums(w, S)[s] = SumRule(w, Sums(w, S), s)
<1>1. PICK k \in Nat : k = Cardinality(S)
    BY FS_CardinalityType
<1>2. PICK g \in [SUBSET S -> Nat] :
         \A s \in SUBSET S : Cardinality(s) <= k => g[s] = SumRule(w, g, s)
    BY SumsUpTo
<1>3. ASSUME NEW s \in SUBSET S PROVE g[s] = SumRule(w, g, s)
    <2>1. Cardinality(s) <= k
        BY <1>1, FS_Subset
    <2> QED
        BY <1>2, <2>1
<1>4. g = [s \in SUBSET S |-> SumRule(w, g, s)]
    BY <1>3
<1> DEFINE h == Sums(w, S)
<1>5. h = [s \in SUBSET S |-> SumRule(w, h, s)]
    BY <1>4 DEF Sums
<1> HIDE DEF h
<1>6. \A s \in SUBSET S : h[s] = SumRule(w, h, s)
    BY <1>5
<1> QED
    BY <1>6 DEF h

\* Solutions agree where both are defined.
LEMMA SumsAgree ==
    ASSUME NEW w \in [Txs -> Nat], NEW S \in SUBSET Txs, IsFiniteSet(S), NEW T \in SUBSET S
    PROVE  SumOf(w, T) = Sums(w, S)[T]
<1> DEFINE f == Sums(w, T)
           g == Sums(w, S)
           Differ == {s \in SUBSET T : f[s] # g[s]}
           Sizes == {Cardinality(s) : s \in Differ}
<1>0. IsFiniteSet(T) /\ T \in SUBSET Txs
    BY FS_Subset
<1>1. ASSUME NEW s \in SUBSET T PROVE f[s] = SumRule(w, f, s) /\ g[s] = SumRule(w, g, s)
    BY <1>0, SumsExist
<1>2. ASSUME NEW s \in SUBSET T PROVE IsFiniteSet(s) /\ Cardinality(s) \in Nat
    BY <1>0, FS_Subset, FS_CardinalityType
<1> HIDE DEF f, g
<1> SUFFICES ASSUME f[T] # g[T] PROVE FALSE
    BY DEF SumOf, f, g
<1>3. Sizes \subseteq Nat /\ Sizes # {}
    BY <1>2
<1>4. PICK n \in Sizes : \A m \in Sizes : n <= m
    <2> HIDE DEF Sizes
    <2> QED
        BY <1>3, LeastNatural
<1>5. PICK s \in SUBSET T : Cardinality(s) = n /\ f[s] # g[s]
    BY <1>4
<1>6. s # {}
    BY <1>1, <1>5 DEF SumRule
<1> DEFINE r == s \ {Some(s)}
<1>7. r \in SUBSET T /\ Cardinality(r) = n - 1 /\ n \in Nat
    BY <1>2, <1>5, <1>6, RestOfSet
<1>8. f[r] = g[r]
    <2> HIDE DEF r
    <2>1. ~(n <= n - 1)
        BY <1>7
    <2> QED
        BY <1>4, <1>7, <2>1
<1> QED
    BY <1>1, <1>5, <1>6, <1>8 DEF SumRule

\* The sum of a finite set: 0, or one element and the sum of the rest.
LEMMA SumRecurs ==
    ASSUME NEW w \in [Txs -> Nat], NEW S \in SUBSET Txs, IsFiniteSet(S)
    PROVE  SumOf(w, S) = IF S = {} THEN 0 ELSE w[Some(S)] + SumOf(w, S \ {Some(S)})
<1>1. SumOf(w, S) = SumRule(w, Sums(w, S), S)
    BY SumsExist DEF SumOf
<1>2. SumOf(w, S \ {Some(S)}) = Sums(w, S)[S \ {Some(S)}]
    BY SumsAgree
<1> QED
    BY <1>1, <1>2 DEF SumRule

\* It is a natural number.
LEMMA SumType ==
    ASSUME NEW w \in [Txs -> Nat], NEW S \in SUBSET Txs, IsFiniteSet(S)
    PROVE  SumOf(w, S) \in Nat
<1>1. PICK k \in Nat : k = Cardinality(S)
    BY FS_CardinalityType
<1>2. PICK g \in [SUBSET S -> Nat] :
         \A s \in SUBSET S : Cardinality(s) <= k => g[s] = SumRule(w, g, s)
    BY SumsUpTo
<1>3. ASSUME NEW s \in SUBSET S PROVE g[s] = SumRule(w, g, s)
    <2>1. Cardinality(s) <= k
        BY <1>1, FS_Subset
    <2> QED
        BY <1>2, <2>1
<1> DEFINE Odd == {s \in SUBSET S : SumOf(w, s) # g[s]}
           Sizes == {Cardinality(s) : s \in Odd}
<1>4. ASSUME NEW s \in SUBSET S PROVE IsFiniteSet(s) /\ Cardinality(s) \in Nat /\ s \in SUBSET Txs
    BY FS_Subset, FS_CardinalityType
<1> SUFFICES ASSUME SumOf(w, S) # g[S] PROVE FALSE
    BY <1>2
<1>5. Sizes \subseteq Nat /\ Sizes # {}
    BY <1>4
<1>6. PICK n \in Sizes : \A m \in Sizes : n <= m
    <2> HIDE DEF Sizes
    <2> QED
        BY <1>5, LeastNatural
<1>7. PICK s \in SUBSET S : Cardinality(s) = n /\ SumOf(w, s) # g[s]
    BY <1>6
<1> DEFINE r == s \ {Some(s)}
<1>8. SumOf(w, s) = IF s = {} THEN 0 ELSE w[Some(s)] + SumOf(w, r)
    BY <1>4, SumRecurs
<1>9. s # {}
    BY <1>3, <1>7, <1>8 DEF SumRule
<1>10. r \in SUBSET S /\ Cardinality(r) = n - 1 /\ n \in Nat
    BY <1>4, <1>7, <1>9, RestOfSet
<1>11. SumOf(w, r) = g[r]
    <2> HIDE DEF r
    <2>1. ~(n <= n - 1)
        BY <1>10
    <2> QED
        BY <1>6, <1>10, <2>1
<1> QED
    BY <1>3, <1>7, <1>8, <1>9, <1>11 DEF SumRule

\* An element more adds its own share, whichever element the recursion takes first.
LEMMA SumAdds ==
    ASSUME NEW w \in [Txs -> Nat], NEW S \in SUBSET Txs, IsFiniteSet(S), NEW t \in Txs, t \notin S
    PROVE  SumOf(w, S \cup {t}) = SumOf(w, S) + w[t]
<1> DEFINE Adds(U, u) == SumOf(w, U \cup {u}) = SumOf(w, U) + w[u]
           Sets(n) == {U \in SUBSET Txs : IsFiniteSet(U) /\ Cardinality(U) = n}
           Failing == {n \in Nat : \E U \in Sets(n) : \E u \in Txs \ U : ~Adds(U, u)}
<1>1. Cardinality(S) \in Nat
    BY FS_CardinalityType
<1> SUFFICES ASSUME ~Adds(S, t) PROVE FALSE
    OBVIOUS
<1>2. Failing \subseteq Nat /\ Failing # {}
    BY <1>1
<1>3. PICK n \in Failing : \A m \in Failing : n <= m
    <2> HIDE DEF Failing
    <2> QED
        BY <1>2, LeastNatural
<1>4a. PICK U \in Sets(n) : \E u \in Txs \ U : ~Adds(U, u)
    BY <1>3
<1>4. PICK u \in Txs \ U : ~Adds(U, u)
    BY <1>4a
<1> DEFINE V == U \cup {u}
           x == Some(V)
           R == U \ {x}
<1>5. IsFiniteSet(U) /\ Cardinality(U) = n /\ U \in SUBSET Txs
    BY <1>4a
<1>6. IsFiniteSet(V) /\ V # {} /\ V \in SUBSET Txs /\ x \in V
    BY <1>4, <1>5, FS_AddElement DEF Some
<1>7. SumOf(w, V) = w[x] + SumOf(w, V \ {x})
    BY <1>6, SumRecurs
<1>8. /\ SumOf(w, U) \in Nat /\ w[u] \in Nat /\ w[x] \in Nat
    BY <1>4, <1>5, <1>6, SumType
<1>9. ASSUME x = u PROVE FALSE
    <2>1. V \ {x} = U
        BY <1>4, <1>9
    <2> HIDE DEF V, x
    <2>2. SumOf(w, V \ {x}) = SumOf(w, U) /\ w[x] = w[u]
        BY <1>9, <2>1, Zenon
    <2>3. SumOf(w, V) = SumOf(w, U) + w[u]
        BY <1>7, <1>8, <2>2
    <2> QED
        BY <1>4, <2>3 DEF V
<1>10. x \in U /\ x \in Txs /\ V \ {x} = R \cup {u} /\ u \notin R /\ x \notin R /\ R \cup {x} = U
    BY <1>4, <1>6, <1>9
<1>11. IsFiniteSet(R) /\ Cardinality(R) = n - 1 /\ R \in SUBSET Txs /\ n \in Nat
    <2>1. n \in Nat
        BY <1>3
    <2> QED
        BY <1>5, <1>10, <2>1, FS_RemoveElement
<1>12. Cardinality(R) \in Nat
    BY <1>11, FS_CardinalityType
<1> HIDE DEF V, R, x
<1>13. ASSUME NEW y \in Txs \ R PROVE Adds(R, y)
    <2>1. n - 1 \in Nat /\ ~(n <= n - 1)
        BY <1>11, <1>12
    <2>2. n - 1 \notin Failing
        <3> HIDE DEF Failing
        <3> QED
            BY <1>3, <2>1
    <2>3. R \in Sets(n - 1)
        BY <1>11
    <2> QED
        BY <2>1, <2>2, <2>3
<1>14. SumOf(w, R \cup {u}) = SumOf(w, R) + w[u] /\ SumOf(w, R \cup {x}) = SumOf(w, R) + w[x]
    BY <1>4, <1>10, <1>13
<1>15. SumOf(w, R) \in Nat
    BY <1>11, SumType
<1>16. SumOf(w, V) = SumOf(w, U) + w[u]
    BY <1>7, <1>8, <1>10, <1>14, <1>15
<1> QED
    BY <1>4, <1>16 DEF V

\* The sums of two parts.
LEMMA SumSplits ==
    ASSUME NEW w \in [Txs -> Nat], NEW S \in SUBSET Txs, IsFiniteSet(S), NEW X \in SUBSET S
    PROVE  SumOf(w, S) = SumOf(w, S \ X) + SumOf(w, X)
<1> DEFINE Splits(U) == SumOf(w, S) = SumOf(w, S \ U) + SumOf(w, U)
           Failing == {n \in Nat : \E U \in SUBSET S : Cardinality(U) = n /\ ~Splits(U)}
<1>0. ASSUME NEW U \in SUBSET S
      PROVE  IsFiniteSet(U) /\ Cardinality(U) \in Nat /\ U \in SUBSET Txs /\ SumOf(w, U) \in Nat
    <2>1. IsFiniteSet(U) /\ U \in SUBSET Txs
        BY FS_Subset
    <2> QED
        BY <2>1, FS_CardinalityType, SumType
<1> SUFFICES ASSUME ~Splits(X) PROVE FALSE
    OBVIOUS
<1>1. Failing \subseteq Nat /\ Failing # {}
    BY <1>0
<1>2. PICK n \in Failing : \A m \in Failing : n <= m
    <2> HIDE DEF Failing
    <2> QED
        BY <1>1, LeastNatural
<1>3. PICK U \in SUBSET S : Cardinality(U) = n /\ ~Splits(U)
    BY <1>2
<1>4. U # {}
    <2> SUFFICES ASSUME U = {} PROVE FALSE
        OBVIOUS
    <2>1. SumOf(w, U) = 0 /\ S \ U = S
        BY <1>0, SumRecurs
    <2>2. SumOf(w, S) \in Nat
        BY <1>0
    <2> QED
        BY <1>3, <2>1, <2>2
<1> DEFINE x == Some(U)
           V == U \ {x}
<1>5. x \in U /\ V \in SUBSET S /\ Cardinality(V) = n - 1 /\ n \in Nat
    BY <1>0, <1>3, <1>4, RestOfSet
<1>6. x \in Txs /\ S \ V = (S \ U) \cup {x} /\ x \notin S \ U
    BY <1>5
<1>7. SumOf(w, U) = w[x] + SumOf(w, V)
    BY <1>0, <1>4, SumRecurs
<1> HIDE DEF V, x
<1>8. Splits(V)
    <2>1. n - 1 \notin Failing
        <3>1. ~(n <= n - 1)
            BY <1>5
        <3> HIDE DEF Failing
        <3> QED
            BY <1>2, <3>1
    <2>2. n - 1 \in Nat
        BY <1>0, <1>5
    <2> QED
        BY <1>5, <2>1, <2>2
<1>9. SumOf(w, S \ V) = SumOf(w, S \ U) + w[x]
    <2>1. S \ U \in SUBSET S
        OBVIOUS
    <2>2. S \ U \in SUBSET Txs /\ IsFiniteSet(S \ U)
        BY <1>0, <2>1
    <2> QED
        BY <1>6, <2>2, SumAdds
<1>10. SumOf(w, S \ U) \in Nat /\ SumOf(w, V) \in Nat /\ w[x] \in Nat
    <2>1. S \ U \in SUBSET S
        OBVIOUS
    <2> QED
        BY <1>0, <1>5, <1>6, <2>1
<1>11. SumOf(w, S) = SumOf(w, S \ U) + SumOf(w, U)
    BY <1>7, <1>8, <1>9, <1>10
<1> QED
    BY <1>3, <1>11

\* The costs of bundles, in the form in which the proofs use them.
LEMMA CostsAddUp ==
    ASSUME NEW S \in SUBSET Txs, IsFiniteSet(S)
    PROVE  /\ CostOf(S) \in Nat
           /\ CostOf({}) = 0
           /\ \A t \in Txs \ S : CostOf(S \cup {t}) = CostOf(S) + Cost[t]
           /\ \A X \in SUBSET S : CostOf(S) = CostOf(S \ X) + CostOf(X)
<1>1. Cost \in [Txs -> Nat]
    BY TxAssumption
<1>2. SumOf(Cost, S) \in Nat
    BY <1>1, SumType
<1>3. SumOf(Cost, {}) = 0
    <2>1. IsFiniteSet({}) /\ {} \in SUBSET Txs
        BY FS_EmptySet
    <2> QED
        BY <1>1, <2>1, SumRecurs
<1>4. ASSUME NEW t \in Txs \ S PROVE SumOf(Cost, S \cup {t}) = SumOf(Cost, S) + Cost[t]
    BY <1>1, SumAdds
<1>5. ASSUME NEW X \in SUBSET S PROVE SumOf(Cost, S) = SumOf(Cost, S \ X) + SumOf(Cost, X)
    BY <1>1, SumSplits
<1> QED
    BY <1>2, <1>3, <1>4, <1>5, CostIsSum

----------------------------------------------------------------------------
(* What add_spendbundle does to the pool                                    *)

\* remove_from_pool for the conflicting and the evicted items and add_to_pool leave the
\* index by coin that of the items, and add nothing but the bundle.
LEMMA AdmitKeepsIndex ==
    ASSUME PoolShape, IndexMatchesItems, NEW t \in Txs, Admit(t)
    PROVE  /\ PoolShape' /\ IndexMatchesItems'
           /\ mempool'.spends \subseteq mempool.spends \cup {t}
<1>1. PICK E \in Evictions(mempool.spends \ Conflicts(t), t) :
         mempool' = AddToPool(RemoveFromPool(mempool, Conflicts(t) \cup E), t)
    BY DEF Admit
<1> DEFINE S == Conflicts(t) \cup E
<1>2. NONE \notin Txs /\ TxRemovals \in [Txs -> SUBSET Coins]
    BY TxAssumption
<1>3. S \subseteq mempool.spends
    <2>1. E \subseteq mempool.spends
        BY DEF Evictions
    <2>2. Conflicts(t) \subseteq mempool.spends
        BY <1>2 DEF Conflicts, PoolShape, IndexMatchesItems
    <2> QED
        BY <2>1, <2>2
<1> HIDE DEF S
<1>4. /\ mempool'.spends = (mempool.spends \ S) \cup {t}
      /\ mempool'.removals = [c \in Coins |->
            IF c \in TxRemovals[t] THEN t
            ELSE IF \E u \in S : c \in TxRemovals[u] THEN NONE ELSE mempool.removals[c]]
    BY <1>1 DEF S, AddToPool, RemoveFromPool
<1>5. PoolShape'
    BY <1>4 DEF PoolShape
<1>6. IndexMatchesItems'
    <2> SUFFICES ASSUME NEW c \in Coins, NEW u \in Txs
                 PROVE  mempool'.removals[c] = u <=>
                           u \in mempool'.spends /\ c \in TxRemovals[u]
        BY DEF IndexMatchesItems
    <2>1. \A w \in Txs : mempool.removals[c] = w <=> w \in mempool.spends /\ c \in TxRemovals[w]
        BY DEF IndexMatchesItems
    <2>2. CASE c \in TxRemovals[t]
        <3>1. mempool'.removals[c] = t
            BY <1>4, <2>2
        <3>2. u \in mempool.spends /\ c \in TxRemovals[u] => u \in S
            BY <1>2, <2>1, <2>2 DEF S, Conflicts
        <3> QED
            BY <1>4, <2>2, <3>1, <3>2
    <2>3. CASE c \notin TxRemovals[t]
        <3>1. CASE \E w \in S : c \in TxRemovals[w]
            <4>1. mempool'.removals[c] = NONE
                BY <1>4, <2>3, <3>1
            <4>2. PICK w \in S : c \in TxRemovals[w]
                BY <3>1
            <4>3. w \in Txs /\ mempool.removals[c] = w
                BY <1>3, <2>1, <4>2 DEF PoolShape
            <4> QED
                BY <1>2, <1>4, <2>1, <2>3, <4>1, <4>2, <4>3
        <3>2. CASE ~ \E w \in S : c \in TxRemovals[w]
            <4>1. mempool'.removals[c] = mempool.removals[c]
                BY <1>4, <2>3, <3>2
            <4> QED
                BY <1>4, <2>1, <2>3, <3>2, <4>1
        <3> QED
            BY <3>1, <3>2
    <2> QED
        BY <2>2, <2>3
<1> QED
    BY <1>4, <1>5, <1>6

\* add_to_potential_tx_set keeps a queue of bundles, also when it overflows.
LEMMA AddToPotentialShape ==
    ASSUME PotentialShape, NEW t \in Txs, AddToPotential(t)
    PROVE  PotentialShape'
<1>1. CASE t \in PotentialTxs
    BY <1>1 DEF AddToPotential, PotentialShape
<1>2. CASE t \notin PotentialTxs /\ Overflows(t)
    BY <1>2 DEF AddToPotential, PotentialShape
<1>3. CASE t \notin PotentialTxs /\ ~Overflows(t)
    <2>1. potential' = [potential EXCEPT !.txs = Append(@, t), !.cost = @ + Cost[t]]
        BY <1>3 DEF AddToPotential
    <2>2. potential' = [txs |-> Append(potential.txs, t), cost |-> potential.cost + Cost[t],
                        max |-> potential.max]
        BY <2>1 DEF PotentialShape
    <2> QED
        BY <2>2 DEF PotentialShape
<1> QED
    BY <1>1, <1>2, <1>3

\* add_spendbundle keeps the index and adds at most the bundle, and that only when it
\* returns SUCCESS.
LEMMA AddSpendbundleKeepsIndex ==
    ASSUME PoolShape, PotentialShape, IndexMatchesItems, NEW t \in Txs, NEW status,
           AddSpendbundle(t, status)
    PROVE  /\ PoolShape' /\ PotentialShape' /\ IndexMatchesItems'
           /\ \A u \in mempool'.spends \ mempool.spends :
                 u = t /\ status = "SUCCESS" /\ t \notin mempool.spends
<1>1. CASE status \in {"PENDING", "RAISED"}
    <2>1. AddToPotential(t) /\ UNCHANGED mempool
        BY <1>1 DEF AddSpendbundle
    <2> QED
        BY <2>1, AddToPotentialShape DEF PoolShape, IndexMatchesItems
<1>2. CASE status = "SUCCESS" /\ t \notin mempool.spends
    <2>1. Admit(t) /\ UNCHANGED potential
        BY <1>2 DEF AddSpendbundle
    <2> QED
        BY <1>2, <2>1, AdmitKeepsIndex DEF PotentialShape
<1>3. CASE status \notin {"PENDING", "RAISED"} /\ ~(status = "SUCCESS" /\ t \notin mempool.spends)
    <2>1. UNCHANGED <<mempool, potential>>
        BY <1>3 DEF AddSpendbundle
    <2> QED
        BY <2>1 DEF PoolShape, PotentialShape, IndexMatchesItems
<1> QED
    BY <1>1, <1>2, <1>3

\* A bundle that enters can be spent on the coins that were read, and its height has come.
LEMMA SuccessIsAdmissible ==
    ASSUME NEW t \in Txs, NEW spendable \in BOOLEAN, NEW authorized \in BOOLEAN,
           t \notin mempool.spends, Status(t, spendable, authorized) = "SUCCESS"
    PROVE  spendable /\ ~TooEarly(t)
<1>1. spendable /\ ~MustWait(t) /\ t \in Satisfied
    BY DEF Status
<1> QED
    BY <1>1 DEF MustWait

----------------------------------------------------------------------------
(* The index by coin                                                        *)

\* No step of a task or of new_peak breaks the index by coin.
LEMMA PoolStep ==
    ASSUME Shape, IndexMatchesItems, [Next]_vars
    PROVE  PoolShape' /\ PotentialShape' /\ IndexMatchesItems'
<1> USE DEF Shape
<1>1. CASE UNCHANGED <<mempool, potential>>
    BY <1>1 DEF PoolShape, PotentialShape, IndexMatchesItems
<1>2. ASSUME NEW t \in Txs, FinishAdd(t)
      PROVE  PoolShape' /\ PotentialShape' /\ IndexMatchesItems'
    <2>1. \E status : AddSpendbundle(t, status)
        BY <1>2 DEF FinishAdd
    <2> QED
        BY <2>1, AddSpendbundleKeepsIndex
<1>3. CASE RestartPool
    <2>1. mempool' = EmptyPool /\ UNCHANGED potential
        BY <1>3 DEF RestartPool
    <2> QED
        BY <2>1, TxAssumption DEF PoolShape, PotentialShape, IndexMatchesItems, EmptyPool
<1>4. ASSUME NEW t \in Txs, ReaddItem(t)
      PROVE  PoolShape' /\ PotentialShape' /\ IndexMatchesItems'
    <2>1. \E status : AddSpendbundle(t, status)
        BY <1>4 DEF ReaddItem
    <2> QED
        BY <2>1, AddSpendbundleKeepsIndex
<1>5. CASE TakePotential
    <2>1. potential' = [potential EXCEPT !.txs = <<>>] /\ UNCHANGED mempool
        BY <1>5 DEF TakePotential
    <2>2. potential' = [txs |-> <<>>, cost |-> potential.cost, max |-> potential.max]
        BY <2>1 DEF PotentialShape
    <2> QED
        BY <2>1, <2>2 DEF PoolShape, PotentialShape, IndexMatchesItems
<1>6. CASE RetryItem
    <2>1. Head(receiving.retry) \in Txs
        BY <1>6 DEF RetryItem, PeakShape
    <2>2. \E status : AddSpendbundle(Head(receiving.retry), status)
        BY <1>6 DEF RetryItem
    <2> QED
        BY <2>1, <2>2, AddSpendbundleKeepsIndex
<1>7. ASSUME NEW t \in Txs,
             \/ Submit(t) \/ PreValidated(t) \/ PreValidationRaises(t)
             \/ RefuseAtOnce(t) \/ ReadCoin(t)
      PROVE  UNCHANGED <<mempool, potential>>
    BY <1>7 DEF Submit, PreValidated, PreValidationRaises, RefuseAtOnce, ReadCoin
<1>8. ASSUME \/ \E b \in Rooted : ReceiveBlock(b)
             \/ ApplyBlock \/ CommitBlock \/ SkipPeak \/ TakePeak \/ LeavePool
             \/ AnnounceItem \/ AnnouncePeak \/ PeakTaskEnds \/ UNCHANGED vars
      PROVE  UNCHANGED <<mempool, potential>>
    BY <1>8 DEF ReceiveBlock, ApplyBlock, CommitBlock, SkipPeak, TakePeak, LeavePool,
       AnnounceItem, AnnouncePeak, PeakTaskEnds, vars
<1> QED
    BY <1>1, <1>2, <1>3, <1>4, <1>5, <1>6, <1>7, <1>8 DEF Next, TxStep, PeakStep

----------------------------------------------------------------------------
(* The two peaks                                                            *)

\* Submit and the steps of respond_transaction leave the chain and new_peak alone.
LEMMA TxStepKeepsPeak ==
    ASSUME NEW t \in Txs, Submit(t) \/ TxStep(t)
    PROVE  UNCHANGED <<chain_peak, coins_at, receiving, peak>>
BY DEF Submit, TxStep, PreValidated, PreValidationRaises, RefuseAtOnce, ReadCoin, FinishAdd, chain

\* The blocks of the tree have weights and heights.
LEMMA RootedType ==
    \A b \in Rooted : Weight[b] \in Nat /\ Height[b] \in Nat /\ b # NONE
<1>1. \A b \in Rooted : b \in Blocks
    BY AncestorAssumption
<1>2. MaxHeight \in Nat /\ Height \in [Blocks -> 0..MaxHeight] /\ Weight \in [Blocks -> Nat]
    BY BlockAssumption DEF Heights
<1> QED
    BY <1>1, <1>2, BlockAssumption

\* The exception that leaves new_peak leaves the chain and self.peak as they are.
LEMMA PeakFailsShape ==
    ASSUME PeakShape, CoinsFollowPeak, PeakIsBehind, PeakFails,
           receiving.pc \in {"pool", "retry"},
           UNCHANGED <<chain_peak, coins_at, peak>>
    PROVE  PeakShape' /\ CoinsFollowPeak' /\ PeakIsBehind'
<1>1. receiving' = [pc |-> "failed", block |-> NONE, left |-> {}, retry |-> <<>>, added |-> <<>>]
    BY DEF PeakFails, NoPeak
<1> QED
    BY <1>1 DEF PeakShape, CoinsFollowPeak, PeakIsBehind

\* peak_post_processing goes on to announce the items, or fails.
LEMMA AnnouncingIs ==
    ASSUME NEW items
    PROVE  \/ Announcing(items) =
                 [pc |-> "failed", block |-> NONE, left |-> {}, retry |-> <<>>, added |-> <<>>]
           \/ Announcing(items) =
                 [pc |-> "announce", block |-> NONE, left |-> {}, retry |-> <<>>, added |-> items]
<1>1. [NoPeak EXCEPT !.pc = "failed"] =
         [pc |-> "failed", block |-> NONE, left |-> {}, retry |-> <<>>, added |-> <<>>]
    BY DEF NoPeak
<1>2. ASSUME NEW r, r = [NoPeak EXCEPT !.pc = "announce", !.added = items]
      PROVE  r = [pc |-> "announce", block |-> NONE, left |-> {}, retry |-> <<>>, added |-> items]
    BY <1>2 DEF NoPeak
<1> QED
    BY <1>1, <1>2 DEF Announcing

\* self.peak never gets ahead of the chain, and falls behind it only until new_peak has
\* dealt with a transaction block; outside receive_block the coins are those of the peak.
LEMMA PeakStepKeepsPeak ==
    ASSUME Shape, CoinsFollowPeak, PeakIsBehind, [Next]_vars
    PROVE  PeakShape' /\ CoinsFollowPeak' /\ PeakIsBehind'
<1> DEFINE Goal == PeakShape' /\ CoinsFollowPeak' /\ PeakIsBehind'
<1> USE DEF Shape, chain
<1>1. CASE UNCHANGED <<chain_peak, coins_at, receiving, peak>>
    BY <1>1 DEF PeakShape, CoinsFollowPeak, PeakIsBehind
<1>2. ASSUME NEW b \in Rooted, ReceiveBlock(b) PROVE Goal
    <2>1. /\ receiving' = [pc |-> "apply", block |-> b, left |-> {}, retry |-> <<>>, added |-> <<>>]
          /\ Weight[b] > Weight[chain_peak] /\ UNCHANGED <<chain_peak, peak>>
        BY <1>2 DEF ReceiveBlock, NoPeak
    <2> QED
        BY <2>1 DEF PeakShape, CoinsFollowPeak, PeakIsBehind
<1>3. CASE ApplyBlock
    BY <1>3 DEF ApplyBlock, PeakShape, CoinsFollowPeak, PeakIsBehind
<1>4. CASE CommitBlock
    BY <1>4, RootedType DEF CommitBlock, PeakShape, CoinsFollowPeak, PeakIsBehind
<1>5. CASE SkipPeak
    BY <1>5 DEF SkipPeak, NoPeak, PeakShape, CoinsFollowPeak, PeakIsBehind
<1>6. CASE TakePeak
    <2>1. /\ peak' = chain_peak /\ UNCHANGED <<chain_peak, coins_at>>
          /\ receiving.pc = "new_peak" /\ receiving' = [receiving EXCEPT !.pc = "lock"]
        BY <1>6 DEF TakePeak
    <2>2. Weight[chain_peak] <= Weight[chain_peak]
        BY RootedType DEF PeakShape
    <2> QED
        BY <2>1, <2>2 DEF PeakShape, CoinsFollowPeak, PeakIsBehind
<1>7. CASE RestartPool
    BY <1>7 DEF RestartPool, PeakShape, PoolShape, CoinsFollowPeak, PeakIsBehind
<1>8. ASSUME NEW t \in Txs, ReaddItem(t) PROVE Goal
    <2>1. UNCHANGED <<chain_peak, coins_at, peak>> /\ receiving.pc = "pool"
        BY <1>8 DEF ReaddItem
    <2>2. CASE PeakFails
        BY <2>1, <2>2, PeakFailsShape
    <2>3. CASE receiving' = [receiving EXCEPT !.left = @ \ {t}]
        BY <2>1, <2>3 DEF PeakShape, CoinsFollowPeak, PeakIsBehind
    <2> QED
        BY <1>8, <2>2, <2>3 DEF ReaddItem
<1>9. CASE TakePotential
    BY <1>9 DEF TakePotential, PeakShape, PotentialShape, CoinsFollowPeak, PeakIsBehind
<1>10. CASE RetryItem
    <2>1. UNCHANGED <<chain_peak, coins_at, peak>> /\ receiving.pc = "retry"
        BY <1>10 DEF RetryItem
    <2>2. CASE PeakFails
        BY <2>1, <2>2, PeakFailsShape
    <2>3. CASE ~PeakFails
        <3>1. PICK added \in {receiving.added, Append(receiving.added, Head(receiving.retry))} :
                 receiving' = [receiving EXCEPT !.retry = Tail(@), !.added = added]
            BY <1>10, <2>3 DEF RetryItem
        <3>2. added \in Seq(Txs) /\ Tail(receiving.retry) \in Seq(Txs)
            BY <1>10 DEF RetryItem, PeakShape
        <3> QED
            BY <2>1, <3>1, <3>2 DEF PeakShape, CoinsFollowPeak, PeakIsBehind
    <2> QED
        BY <2>2, <2>3
<1>11. CASE LeavePool
    BY <1>11 DEF LeavePool, Announcing, NoPeak, PeakShape, CoinsFollowPeak, PeakIsBehind
<1>12. CASE AnnounceItem
    <2> DEFINE items == Tail(receiving.added)
    <2>1. items \in Seq(Txs) /\ receiving.pc = "announce" /\ UNCHANGED <<chain_peak, coins_at, peak>>
        BY <1>12 DEF AnnounceItem, PeakShape
    <2>2. receiving' = Announcing(items)
        BY <1>12 DEF AnnounceItem
    <2> HIDE DEF items
    <2>3. CASE receiving' = [pc |-> "failed", block |-> NONE, left |-> {}, retry |-> <<>>,
                             added |-> <<>>]
        BY <2>1, <2>3 DEF PeakShape, CoinsFollowPeak, PeakIsBehind
    <2>4. CASE receiving' = [pc |-> "announce", block |-> NONE, left |-> {}, retry |-> <<>>,
                             added |-> items]
        BY <2>1, <2>4 DEF PeakShape, CoinsFollowPeak, PeakIsBehind
    <2> QED
        BY <2>2, <2>3, <2>4, AnnouncingIs
<1>13. CASE AnnouncePeak \/ PeakTaskEnds
    <2>1. /\ receiving.pc \in {"announce", "failed"} /\ UNCHANGED <<chain_peak, coins_at, peak>>
          /\ receiving' = [pc |-> "idle", block |-> NONE, left |-> {}, retry |-> <<>>, added |-> <<>>]
        BY <1>13 DEF AnnouncePeak, PeakTaskEnds, NoPeak
    <2> QED
        BY <2>1 DEF PeakShape, CoinsFollowPeak, PeakIsBehind
<1>14. CASE UNCHANGED vars
    BY <1>1, <1>14 DEF vars
<1> HIDE DEF Goal
<1> QED
    BY <1>1, <1>2, <1>3, <1>4, <1>5, <1>6, <1>7, <1>8, <1>9, <1>10, <1>11, <1>12, <1>13, <1>14,
       TxStepKeepsPeak DEF Next, PeakStep, Goal

----------------------------------------------------------------------------
(* mempool_manager.lock                                                     *)

\* A task that queues for the lock goes behind its holder; releasing it leaves a queue.
LEMMA QueueType ==
    ASSUME TaskShape, NEW q \in Txs \cup {PeakTask}
    PROVE  /\ Append(lock, q) \in Seq(Txs \cup {PeakTask})
           /\ Append(lock, q) # <<>>
           /\ lock # <<>> => Head(Append(lock, q)) = Head(lock)
           /\ lock # <<>> => Tail(lock) \in Seq(Txs \cup {PeakTask})
BY DEF TaskShape

\* Nobody but the task that holds the lock has read some of its coins, and nobody has
\* while new_peak holds it.
LEMMA OneHolder ==
    ASSUME TaskShape, ReadersLocked, NEW q \in Txs \cup {PeakTask}, Holds(q),
           NEW t \in Txs, t # q, tasks[t].pc = "waiting"
    PROVE  tasks[t].unread = TxRemovals[t]
BY DEF ReadersLocked, Holds

\* When a task ends and gives up the lock, both facts about the lock are kept.
LEMMA TaskEnds ==
    ASSUME TaskShape, RefillLocked, ReadersLocked, NEW t \in Txs, Holds(t), Release(t),
           tasks' = [tasks EXCEPT ![t] = NoTask], UNCHANGED receiving
    PROVE  TaskShape' /\ RefillLocked' /\ ReadersLocked'
<1>1. t # PeakTask /\ TxRemovals \in [Txs -> SUBSET Coins]
    BY TxAssumption
<1>2. receiving'.pc \notin {"pool", "retry"}
    BY <1>1 DEF RefillLocked, Holds
<1>3. lock' \in Seq(Txs \cup {PeakTask})
    BY QueueType DEF Release, Holds
<1>4. tasks' \in [Txs -> [pc : {"idle", "validating", "waiting"},
                          unread : SUBSET Coins, spent : BOOLEAN]]
    BY DEF TaskShape, NoTask
<1>5. ASSUME NEW u \in Txs, tasks'[u].pc = "waiting"
      PROVE  tasks'[u].unread = TxRemovals[u]
    <2>1. u # t
        BY <1>5 DEF TaskShape, NoTask
    <2>2. tasks'[u] = tasks[u]
        BY <2>1 DEF TaskShape
    <2> QED
        BY <1>5, <2>1, <2>2, OneHolder
<1>6. RefillLocked'
    BY <1>2 DEF RefillLocked
<1>7. ReadersLocked'
    BY <1>5 DEF ReadersLocked
<1> QED
    BY <1>3, <1>4, <1>6, <1>7 DEF TaskShape

\* When new_peak gives up the lock, nobody has read coins yet.
LEMMA RefillEnds ==
    ASSUME TaskShape, RefillLocked, ReadersLocked, Holds(PeakTask), Release(PeakTask),
           receiving'.pc \notin {"pool", "retry"}, UNCHANGED tasks
    PROVE  /\ TaskShape' /\ RefillLocked' /\ ReadersLocked'
           /\ \A u \in Txs : tasks'[u].pc = "waiting" => tasks'[u].unread = TxRemovals[u]
<1>1. PeakTask \notin Txs
    BY TxAssumption
<1>2. lock' \in Seq(Txs \cup {PeakTask})
    BY QueueType DEF Release, Holds
<1>3. \A u \in Txs : tasks'[u].pc = "waiting" => tasks'[u].unread = TxRemovals[u]
    BY <1>1, OneHolder
<1>4. RefillLocked'
    BY DEF RefillLocked
<1>5. ReadersLocked'
    BY <1>3 DEF ReadersLocked
<1> QED
    BY <1>2, <1>3, <1>4, <1>5 DEF TaskShape

\* One that queues keeps the holder of the lock.
LEMMA QueueKeepsHolder ==
    ASSUME TaskShape, NEW q \in Txs \cup {PeakTask}, lock' = Append(lock, q),
           NEW u \in Txs \cup {PeakTask}, Holds(u)
    PROVE  Holds(u)'
BY QueueType DEF Holds

\* new_peak refills the pool, and a task reads its second coin and the following ones,
\* under the lock: no step of another task takes it away.
LEMMA LockStep ==
    ASSUME Shape, RefillLocked, ReadersLocked, [Next]_vars
    PROVE  TaskShape' /\ RefillLocked' /\ ReadersLocked'
<1> DEFINE Goal == TaskShape' /\ RefillLocked' /\ ReadersLocked'
<1> USE DEF Shape
<1>0. PeakTask \notin Txs /\ TxRemovals \in [Txs -> SUBSET Coins]
    BY TxAssumption
<1>1. ASSUME UNCHANGED <<lock, tasks>>,
             receiving'.pc \in {"pool", "retry"} =>
                receiving.pc \in {"pool", "retry"} \/ Holds(PeakTask)
      PROVE  Goal
    BY <1>1 DEF TaskShape, RefillLocked, ReadersLocked, Holds
<1>2. ASSUME NEW t \in Txs, Submit(t) PROVE Goal
    <2>1. /\ tasks[t].pc = "idle" /\ UNCHANGED <<lock, receiving>>
          /\ tasks' = [tasks EXCEPT ![t].pc = "validating"]
        BY <1>2 DEF Submit
    <2>2. TaskShape'
        BY <2>1 DEF TaskShape
    <2>3. ReadersLocked'
        BY <2>1 DEF ReadersLocked, TaskShape, Holds
    <2> QED
        BY <2>1, <2>2, <2>3 DEF RefillLocked, Holds
<1>3. ASSUME NEW t \in Txs, PreValidated(t) PROVE Goal
    <2>1. /\ lock' = Append(lock, t) /\ UNCHANGED receiving
          /\ tasks' = [tasks EXCEPT ![t].pc = "waiting", ![t].unread = TxRemovals[t]]
        BY <1>3 DEF PreValidated
    <2>2. TaskShape'
        BY <1>0, <2>1, QueueType DEF TaskShape
    <2>3. RefillLocked'
        BY <2>1, QueueKeepsHolder DEF RefillLocked
    <2>4. ASSUME NEW u \in Txs, tasks'[u].pc = "waiting", tasks'[u].unread # TxRemovals[u]
          PROVE  Holds(u)'
        <3>1. tasks'[u] = tasks[u]
            BY <2>1, <2>4 DEF TaskShape
        <3>2. Holds(u)
            BY <2>4, <3>1 DEF ReadersLocked
        <3> QED
            BY <2>1, <3>2, QueueKeepsHolder
    <2> QED
        BY <2>2, <2>3, <2>4 DEF ReadersLocked
<1>4. ASSUME NEW t \in Txs, PreValidationRaises(t) PROVE Goal
    <2>1. UNCHANGED <<lock, receiving>> /\ tasks' = [tasks EXCEPT ![t] = NoTask]
        BY <1>4 DEF PreValidationRaises
    <2>2. TaskShape'
        BY <2>1 DEF TaskShape, NoTask
    <2>3. ReadersLocked'
        BY <2>1 DEF ReadersLocked, TaskShape, Holds, NoTask
    <2> QED
        BY <2>1, <2>2, <2>3 DEF RefillLocked, Holds
<1>5. ASSUME NEW t \in Txs, RefuseAtOnce(t) \/ FinishAdd(t) PROVE Goal
    <2>1. /\ Holds(t) /\ Release(t) /\ UNCHANGED receiving
          /\ tasks' = [tasks EXCEPT ![t] = NoTask]
        BY <1>5 DEF RefuseAtOnce, FinishAdd, Reading
    <2> QED
        BY <2>1, TaskEnds
<1>6. ASSUME NEW t \in Txs, ReadCoin(t) PROVE Goal
    <2>1. Holds(t) /\ UNCHANGED receiving
        BY <1>6 DEF ReadCoin, Reading
    <2>2. CASE Release(t) /\ tasks' = [tasks EXCEPT ![t] = NoTask]
        BY <2>1, <2>2, TaskEnds
    <2>3. ASSUME NEW c \in tasks[t].unread, UNCHANGED lock,
                 tasks' = [tasks EXCEPT ![t].unread = @ \ {c},
                                        ![t].spent = @ \/ AlreadySpent(t, c, coins_at)]
          PROVE  Goal
        <3>1. (tasks[t].spent \/ AlreadySpent(t, c, coins_at)) \in BOOLEAN
            OBVIOUS
        <3>2. TaskShape'
            BY <2>3, <3>1 DEF TaskShape
        <3>3. \A u \in Txs : u # t => tasks'[u] = tasks[u]
            BY <2>3 DEF TaskShape
        <3>4. ReadersLocked'
            BY <2>1, <2>3, <3>3 DEF ReadersLocked, Holds
        <3> QED
            BY <2>1, <2>3, <3>2, <3>4 DEF RefillLocked, Holds
    <2> QED
        BY <1>6, <2>2, <2>3 DEF ReadCoin
<1>7. CASE TakePeak
    <2>1. lock' = Append(lock, PeakTask) /\ receiving'.pc = "lock" /\ UNCHANGED tasks
        BY <1>7 DEF TakePeak, PeakShape
    <2>2. TaskShape'
        BY <2>1, QueueType DEF TaskShape
    <2> QED
        BY <2>1, <2>2, QueueKeepsHolder DEF RefillLocked, ReadersLocked
<1>8. ASSUME Release(PeakTask), receiving.pc \in {"pool", "retry"},
             receiving'.pc \notin {"pool", "retry"}, UNCHANGED tasks
      PROVE  Goal
    BY <1>8, RefillEnds DEF RefillLocked
<1>9. ASSUME NEW t \in Txs, ReaddItem(t) PROVE Goal
    <2>1. receiving.pc = "pool" /\ UNCHANGED tasks
        BY <1>9 DEF ReaddItem
    <2>2. \/ Release(PeakTask) /\ receiving'.pc = "failed"
          \/ UNCHANGED lock
        BY <1>9 DEF ReaddItem, PeakFails, NoPeak
    <2> QED
        BY <1>1, <1>8, <2>1, <2>2
<1>10. CASE RetryItem
    <2>1. receiving.pc = "retry" /\ UNCHANGED tasks
        BY <1>10 DEF RetryItem
    <2>2. \/ Release(PeakTask) /\ receiving'.pc = "failed"
          \/ UNCHANGED lock
        BY <1>10 DEF RetryItem, PeakFails, NoPeak
    <2> QED
        BY <1>1, <1>8, <2>1, <2>2
<1>11. CASE LeavePool
    BY <1>8, <1>11, AnnouncingIs DEF LeavePool
<1>12. CASE RestartPool
    BY <1>1, <1>12 DEF RestartPool
<1>13. CASE TakePotential
    BY <1>1, <1>13 DEF TakePotential
<1>14. ASSUME \/ \E b \in Rooted : ReceiveBlock(b)
              \/ ApplyBlock \/ CommitBlock \/ SkipPeak
              \/ AnnounceItem \/ AnnouncePeak \/ PeakTaskEnds \/ UNCHANGED vars
       PROVE  /\ UNCHANGED <<lock, tasks>>
              /\ receiving'.pc \in {"pool", "retry"} => receiving.pc \in {"pool", "retry"}
    <2>1. CASE \E b \in Rooted : ReceiveBlock(b)
        BY <2>1 DEF ReceiveBlock, NoPeak
    <2>2. CASE ApplyBlock \/ CommitBlock \/ SkipPeak
        BY <2>2 DEF ApplyBlock, CommitBlock, SkipPeak, NoPeak, PeakShape
    <2>3. CASE AnnounceItem \/ AnnouncePeak \/ PeakTaskEnds
        <3>1. UNCHANGED <<lock, tasks>>
            BY <2>3 DEF AnnounceItem, AnnouncePeak, PeakTaskEnds
        <3>2. receiving' = NoPeak \/ \E items : receiving' = Announcing(items)
            BY <2>3 DEF AnnounceItem, AnnouncePeak, PeakTaskEnds
        <3>3. receiving'.pc \in {"idle", "failed", "announce"}
            BY <3>2, AnnouncingIs DEF NoPeak
        <3> QED
            BY <3>1, <3>3
    <2>4. CASE UNCHANGED vars
        BY <2>4 DEF vars
    <2> QED
        BY <1>14, <2>1, <2>2, <2>3, <2>4
<1> HIDE DEF Goal
<1>15. CASE \E t \in Txs : Submit(t) \/ TxStep(t)
    BY <1>2, <1>3, <1>4, <1>5, <1>6, <1>15 DEF TxStep, Goal
<1> QED
    BY <1>1, <1>7, <1>9, <1>10, <1>11, <1>12, <1>13, <1>14, <1>15
    DEF Next, PeakStep, Goal

----------------------------------------------------------------------------
(* What the items and the readers have seen                                 *)

\* A bundle enters a pool whose items fit the peak only if it fits the peak itself.
LEMMA AddedItemFits ==
    ASSUME Shape, IndexMatchesItems, peak \in Rooted,
           NEW t \in Txs, NEW spendable \in BOOLEAN, NEW authorized \in BOOLEAN,
           spendable => SpendableAt(t, peak),
           AddSpendbundle(t, Status(t, spendable, authorized)),
           \A u \in mempool.spends : SpendableAt(u, peak) /\ Height[peak] >= MinHeight[u]
    PROVE  \A u \in mempool'.spends : SpendableAt(u, peak) /\ Height[peak] >= MinHeight[u]
<1> SUFFICES ASSUME NEW u \in mempool'.spends, u \notin mempool.spends
             PROVE  SpendableAt(u, peak) /\ Height[peak] >= MinHeight[u]
    OBVIOUS
<1>1. u = t /\ Status(t, spendable, authorized) = "SUCCESS" /\ t \notin mempool.spends
    BY AddSpendbundleKeepsIndex DEF Shape
<1>2. spendable /\ ~TooEarly(t)
    BY <1>1, SuccessIsAdmissible
<1>3. Height[peak] \in Nat /\ MinHeight[t] \in Nat
    BY RootedType, TxAssumption
<1> QED
    BY <1>1, <1>2, <1>3 DEF TooEarly

\* Steps of respond_transaction that read no coin leave nothing read of the bundle.
LEMMA NothingReadFits ==
    ASSUME TaskShape, ReadsFit, NEW t \in Txs, UNCHANGED <<chain_peak, receiving, peak>>,
           \A u \in Txs : u # t => tasks'[u] = tasks[u],
           tasks'[t].pc = "waiting" => tasks'[t].unread = TxRemovals[t]
    PROVE  ReadsFit'
<1> SUFFICES ASSUME AtPeak', receiving'.pc \in {"announce", "idle", "failed"},
                    NEW u \in Txs, tasks'[u].pc = "waiting",
                    NEW c \in TxRemovals[u] \ tasks'[u].unread
             PROVE  ~Missing(u, c, peak') /\ (AlreadySpent(u, c, peak') => tasks'[u].spent)
    BY DEF ReadsFit
<1>1. AtPeak /\ peak' = peak /\ receiving.pc \in {"announce", "idle", "failed"}
    BY DEF AtPeak
<1>2. u # t
    OBVIOUS
<1> QED
    BY <1>1, <1>2 DEF ReadsFit

\* What is in the pool, and what the tasks have read, goes on to fit the peak.
LEMMA FitStep ==
    ASSUME MempoolInv, [Next]_vars
    PROVE  ItemsFit' /\ ReadsFit'
<1> DEFINE Goal == ItemsFit' /\ ReadsFit'
           Refilled == {"announce", "idle", "failed"}
<1> USE DEF MempoolInv, Shape, chain
<1>0. PeakTask \notin Txs /\ TxRemovals \in [Txs -> SUBSET Coins]
    BY TxAssumption
<1>1. CASE UNCHANGED <<chain_peak, receiving, peak, mempool, tasks>>
    BY <1>1 DEF ItemsFit, ReadsFit, AtPeak
<1>2. ASSUME UNCHANGED <<chain_peak, receiving, peak, mempool>> PROVE ItemsFit'
    BY <1>2 DEF ItemsFit, AtPeak
<1>3. ASSUME NEW t \in Txs,
             Submit(t) \/ PreValidated(t) \/ PreValidationRaises(t) \/ RefuseAtOnce(t)
      PROVE  Goal
    <2>1. UNCHANGED <<chain_peak, receiving, peak, mempool>>
        BY <1>3 DEF Submit, PreValidated, PreValidationRaises, RefuseAtOnce
    <2>2. /\ \A u \in Txs : u # t => tasks'[u] = tasks[u]
          /\ tasks'[t].pc = "waiting" => tasks'[t].unread = TxRemovals[t]
        BY <1>3 DEF Submit, PreValidated, PreValidationRaises, RefuseAtOnce, NoTask, TaskShape
    <2> QED
        BY <1>2, <2>1, <2>2, NothingReadFits
<1>4. ASSUME NEW t \in Txs, ReadCoin(t) PROVE Goal
    <2>1. /\ UNCHANGED <<chain_peak, receiving, peak, mempool>> /\ Holds(t)
          /\ tasks[t].pc = "waiting"
        BY <1>4 DEF ReadCoin, Reading
    <2>2. CASE tasks' = [tasks EXCEPT ![t] = NoTask]
        <3>1. /\ \A u \in Txs : u # t => tasks'[u] = tasks[u]
              /\ tasks'[t].pc = "idle"
            BY <2>2 DEF NoTask, TaskShape
        <3> QED
            BY <1>2, <2>1, <3>1, NothingReadFits
    <2>3. ASSUME NEW c \in tasks[t].unread, ~Missing(t, c, coins_at),
                 tasks' = [tasks EXCEPT ![t].unread = @ \ {c},
                                        ![t].spent = @ \/ AlreadySpent(t, c, coins_at)]
          PROVE  Goal
        <3> SUFFICES ASSUME AtPeak', receiving'.pc \in Refilled,
                            NEW u \in Txs, tasks'[u].pc = "waiting",
                            NEW d \in TxRemovals[u] \ tasks'[u].unread
                     PROVE  ~Missing(u, d, peak') /\ (AlreadySpent(u, d, peak') => tasks'[u].spent)
            BY <1>2, <2>1 DEF ReadsFit
        <3>1. AtPeak /\ peak' = peak /\ receiving.pc \in Refilled /\ coins_at = peak
            BY <2>1 DEF AtPeak, CoinsFollowPeak
        <3>2. CASE u # t
            <4>1. tasks'[u] = tasks[u]
                BY <2>3, <3>2 DEF TaskShape
            <4> QED
                BY <3>1, <4>1 DEF ReadsFit
        <3>3. CASE u = t
            <4>1. /\ tasks'[t].unread = tasks[t].unread \ {c}
                  /\ tasks'[t].spent = (tasks[t].spent \/ AlreadySpent(t, c, coins_at))
                BY <2>3 DEF TaskShape
            <4>2. CASE d = c
                BY <2>3, <3>1, <3>3, <4>1, <4>2
            <4>3. CASE d # c
                <5>1. d \in TxRemovals[t] \ tasks[t].unread
                    BY <3>3, <4>1, <4>3
                <5>2. ~Missing(t, d, peak) /\ (AlreadySpent(t, d, peak) => tasks[t].spent)
                    BY <2>1, <3>1, <5>1 DEF ReadsFit
                <5> QED
                    BY <3>1, <3>3, <4>1, <5>2
            <4> QED
                BY <4>2, <4>3
        <3> QED
            BY <3>2, <3>3
    <2> QED
        BY <1>4, <2>2, <2>3 DEF ReadCoin
<1>5. ASSUME NEW t \in Txs, FinishAdd(t) PROVE Goal
    <2>1. /\ UNCHANGED <<chain_peak, receiving, peak>> /\ Holds(t)
          /\ tasks[t].pc = "waiting" /\ tasks' = [tasks EXCEPT ![t] = NoTask]
        BY <1>5 DEF FinishAdd, Reading
    <2>2. ReadsFit'
        <3>1. /\ \A u \in Txs : u # t => tasks'[u] = tasks[u]
              /\ tasks'[t].pc = "idle"
            BY <2>1 DEF NoTask, TaskShape
        <3> QED
            BY <2>1, <3>1, NothingReadFits
    <2>3. ItemsFit'
        <3> SUFFICES ASSUME AtPeak', receiving'.pc \in {"pool", "retry"} \cup Refilled
                     PROVE  \A u \in mempool'.spends :
                               SpendableAt(u, peak) /\ Height[peak] >= MinHeight[u]
            BY <2>1 DEF ItemsFit
        <3>1. receiving.pc \notin {"pool", "retry"}
            BY <1>0, <2>1 DEF RefillLocked, Holds
        <3>2. AtPeak /\ receiving.pc \in Refilled /\ coins_at = peak /\ peak \in Rooted
            BY <2>1, <3>1 DEF AtPeak, CoinsFollowPeak, PeakShape
        <3>3. PICK c \in tasks[t].unread :
                 /\ tasks[t].unread = {c}
                 /\ AddSpendbundle(t, Status(t, /\ ~tasks[t].spent
                                                /\ ~Missing(t, c, coins_at)
                                                /\ ~AlreadySpent(t, c, coins_at),
                                             t \in Authorized))
            BY <1>5 DEF FinishAdd
        <3> DEFINE spendable == /\ ~tasks[t].spent
                                /\ ~Missing(t, c, coins_at)
                                /\ ~AlreadySpent(t, c, coins_at)
        <3>4. spendable => SpendableAt(t, peak)
            <4> SUFFICES ASSUME spendable, NEW d \in TxRemovals[t]
                         PROVE  ~Missing(t, d, peak) /\ ~AlreadySpent(t, d, peak)
                BY DEF SpendableAt
            <4>1. CASE d = c
                BY <3>2, <4>1
            <4>2. CASE d # c
                <5>1. d \in TxRemovals[t] \ tasks[t].unread
                    BY <3>3, <4>2
                <5> QED
                    BY <2>1, <3>2, <5>1 DEF ReadsFit
            <4> QED
                BY <4>1, <4>2
        <3>5. spendable \in BOOLEAN /\ (t \in Authorized) \in BOOLEAN
            OBVIOUS
        <3>6. AddSpendbundle(t, Status(t, spendable, t \in Authorized))
            BY <3>3
        <3>7. \A u \in mempool.spends : SpendableAt(u, peak) /\ Height[peak] >= MinHeight[u]
            BY <3>2 DEF ItemsFit
        <3> HIDE DEF spendable
        <3> QED
            BY <3>2, <3>4, <3>5, <3>6, <3>7, AddedItemFits
    <2> QED
        BY <2>2, <2>3
<1>6. ASSUME (\E b \in Rooted : ReceiveBlock(b)) \/ ApplyBlock \/ CommitBlock \/ TakePeak
      PROVE  receiving'.pc \in {"apply", "new_peak", "lock"}
    BY <1>6 DEF ReceiveBlock, ApplyBlock, CommitBlock, TakePeak, NoPeak, PeakShape
<1>7. CASE receiving'.pc \in {"apply", "new_peak", "lock"}
    BY <1>7 DEF ItemsFit, ReadsFit
<1>8. CASE SkipPeak
    <2>1. ~AtPeak'
        BY <1>8, RootedType DEF SkipPeak, AtPeak, PeakIsBehind, PeakShape
    <2> QED
        BY <2>1 DEF ItemsFit, ReadsFit
<1>9. CASE RestartPool
    <2>1. mempool'.spends = {} /\ receiving'.pc = "pool"
        BY <1>9 DEF RestartPool, EmptyPool, PeakShape
    <2> QED
        BY <2>1 DEF ItemsFit, ReadsFit
<1>10. ASSUME receiving.pc \in {"pool", "retry"}, Holds(PeakTask), Release(PeakTask),
              receiving'.pc \notin {"pool", "retry"}, UNCHANGED tasks
       PROVE  ReadsFit'
    BY <1>10, RefillEnds DEF ReadsFit
<1>11. ASSUME UNCHANGED <<chain_peak, peak>>, receiving.pc \in {"pool", "retry"},
              NEW t \in Txs, NEW authorized \in BOOLEAN,
              AddSpendbundle(t, Status(t, SpendableAt(t, coins_at), authorized))
       PROVE  ItemsFit'
    <2> SUFFICES ASSUME AtPeak'
                 PROVE  \A u \in mempool'.spends :
                           SpendableAt(u, peak) /\ Height[peak] >= MinHeight[u]
        BY <1>11 DEF ItemsFit
    <2>1. AtPeak /\ coins_at = peak /\ peak \in Rooted
        BY <1>11 DEF AtPeak, CoinsFollowPeak, PeakShape
    <2>2. SpendableAt(t, coins_at) \in BOOLEAN
        BY DEF SpendableAt
    <2>3. \A u \in mempool.spends : SpendableAt(u, peak) /\ Height[peak] >= MinHeight[u]
        BY <1>11, <2>1 DEF ItemsFit
    <2> QED
        BY <1>11, <2>1, <2>2, <2>3, AddedItemFits
<1>12. ASSUME NEW t \in Txs, ReaddItem(t) PROVE Goal
    <2>1. receiving.pc = "pool" /\ UNCHANGED <<chain_peak, peak, tasks>>
        BY <1>12 DEF ReaddItem
    <2>2. AddSpendbundle(t, Status(t, SpendableAt(t, coins_at), TRUE))
        BY <1>12 DEF ReaddItem
    <2>3. \/ Release(PeakTask) /\ receiving'.pc = "failed"
          \/ receiving'.pc = "pool"
        BY <1>12 DEF ReaddItem, PeakFails, NoPeak, PeakShape
    <2>4. ReadsFit'
        BY <1>10, <2>1, <2>3 DEF RefillLocked, ReadsFit
    <2> QED
        BY <1>11, <2>1, <2>2, <2>4
<1>13. CASE RetryItem
    <2> DEFINE t == Head(receiving.retry)
    <2>1. receiving.pc = "retry" /\ UNCHANGED <<chain_peak, peak, tasks>> /\ t \in Txs
        BY <1>13 DEF RetryItem, PeakShape
    <2>2. AddSpendbundle(t, Status(t, SpendableAt(t, coins_at), t \in Authorized))
        BY <1>13 DEF RetryItem
    <2>3. \/ Release(PeakTask) /\ receiving'.pc = "failed"
          \/ receiving'.pc = "retry"
        BY <1>13 DEF RetryItem, PeakFails, NoPeak, PeakShape
    <2>4. ReadsFit'
        BY <1>10, <2>1, <2>3 DEF RefillLocked, ReadsFit
    <2>5. (t \in Authorized) \in BOOLEAN
        OBVIOUS
    <2> HIDE DEF t
    <2> QED
        BY <1>11, <2>1, <2>2, <2>4, <2>5
<1>14. CASE TakePotential
    <2>1. /\ receiving.pc = "pool" /\ receiving'.pc = "retry"
          /\ UNCHANGED <<chain_peak, peak, mempool>>
        BY <1>14 DEF TakePotential, PeakShape
    <2> QED
        BY <2>1 DEF ItemsFit, ReadsFit, AtPeak
<1>15. CASE LeavePool
    <2>1. /\ receiving.pc = "retry" /\ UNCHANGED <<chain_peak, peak, mempool, tasks>>
          /\ Release(PeakTask) /\ receiving'.pc \in {"failed", "announce"}
        BY <1>15, AnnouncingIs DEF LeavePool
    <2>2. ReadsFit'
        BY <1>10, <2>1 DEF RefillLocked
    <2> QED
        BY <2>1, <2>2 DEF ItemsFit, AtPeak
<1>16. CASE AnnounceItem \/ AnnouncePeak \/ PeakTaskEnds
    <2>1. /\ receiving.pc \in {"announce", "failed"}
          /\ UNCHANGED <<chain_peak, peak, mempool, tasks>>
          /\ receiving' = NoPeak \/ \E items : receiving' = Announcing(items)
        BY <1>16 DEF AnnounceItem, AnnouncePeak, PeakTaskEnds
    <2>2. receiving'.pc \in Refilled
        BY <2>1, AnnouncingIs DEF NoPeak
    <2> QED
        BY <2>1, <2>2 DEF ItemsFit, ReadsFit, AtPeak
<1>17. CASE UNCHANGED vars
    BY <1>1, <1>17 DEF vars
<1> HIDE DEF Goal
<1>18. CASE \E t \in Txs : Submit(t) \/ TxStep(t)
    BY <1>3, <1>4, <1>5, <1>18 DEF TxStep, Goal
<1> QED
    BY <1>6, <1>7, <1>8, <1>9, <1>12, <1>13, <1>14, <1>15, <1>16, <1>17, <1>18
    DEF Next, PeakStep, Goal

----------------------------------------------------------------------------
(* The theorems                                                             *)

\* FullNode._start: an empty pool, no task, and the peak of the chain on disk if it is
\* a transaction block.
LEMMA MempoolInit == Init => MempoolInv
<1> SUFFICES ASSUME Init PROVE MempoolInv
    OBVIOUS
<1>1. chain_peak \in Rooted /\ NONE \notin Txs /\ TxRemovals \in [Txs -> SUBSET Coins]
    BY TxAssumption DEF Init
<1>2. PoolShape /\ IndexMatchesItems /\ mempool.spends = {}
    BY <1>1 DEF Init, EmptyPool, PoolShape, IndexMatchesItems
<1>3. PotentialShape
    BY DEF Init, PotentialShape
<1>4. TaskShape /\ \A t \in Txs : tasks[t].pc = "idle"
    BY DEF Init, TaskShape, NoTask
<1>5. PeakShape /\ receiving.pc = "idle"
    BY <1>1 DEF Init, PeakShape, NoPeak
<1>6. CoinsFollowPeak
    BY DEF Init, CoinsFollowPeak
<1>7. PeakIsBehind
    BY <1>1, <1>5, RootedType DEF Init, PeakIsBehind
<1>8. RefillLocked /\ ReadersLocked /\ ReadsFit /\ ItemsFit
    BY <1>2, <1>4, <1>5 DEF RefillLocked, ReadersLocked, ReadsFit, ItemsFit
<1> QED
    BY <1>2, <1>3, <1>4, <1>5, <1>6, <1>7, <1>8 DEF MempoolInv, Shape

\* Every step of respond_transaction, receive_block and new_peak keeps the invariant.
LEMMA MempoolNext == MempoolInv /\ [Next]_vars => MempoolInv'
<1> SUFFICES ASSUME MempoolInv, [Next]_vars PROVE MempoolInv'
    OBVIOUS
<1>1. PoolShape' /\ PotentialShape' /\ IndexMatchesItems'
    BY PoolStep DEF MempoolInv
<1>2. PeakShape' /\ CoinsFollowPeak' /\ PeakIsBehind'
    BY PeakStepKeepsPeak DEF MempoolInv
<1>3. TaskShape' /\ RefillLocked' /\ ReadersLocked'
    BY LockStep DEF MempoolInv
<1>4. ItemsFit' /\ ReadsFit'
    BY FitStep
<1> QED
    BY <1>1, <1>2, <1>3, <1>4 DEF MempoolInv, Shape

\* The inductive invariant holds in every behaviour.
LEMMA MempoolAlways == Spec => []MempoolInv
BY MempoolInit, MempoolNext, PTL DEF Spec

\* Whatever bundles come and whatever blocks replace the peak, Mempool.removals is the
\* index of the items: no two of them spend one coin, and no coin is left locked by an
\* item that was replaced, evicted or dropped.
THEOREM IndexAlwaysMatchesItems == Spec => []IndexMatchesItems
<1>1. MempoolInv => IndexMatchesItems
    BY DEF MempoolInv
<1> QED
    BY <1>1, MempoolAlways, PTL

\* Although respond_transaction reads coin records without blockchain.lock, and one
\* after the other, every item that create_bundle_from_mempool finds on a transaction
\* peak can be spent there and its height has come.
THEOREM MempoolAlwaysMatchesPeak == Spec => []MempoolMatchesPeak
<1>1. MempoolInv => MempoolMatchesPeak
    BY DEF MempoolInv, ItemsFit, AtPeak, MempoolMatchesPeak
<1> QED
    BY <1>1, MempoolAlways, PTL

----------------------------------------------------------------------------
(* The cost of the pool                                                     *)

\* There are only so many items, total_mempool_cost is what they cost, and within the limit.
CostsCounted == IsFiniteSet(mempool.spends) /\ CostWithinLimit

\* Items that leave and a bundle that enters change total_mempool_cost by what they cost:
\* remove_from_pool is called for the conflicting and for the evicted items, which differ,
\* and the bundle fits into what is left.
LEMMA AdmitKeepsCost ==
    ASSUME PoolShape, IndexMatchesItems, CostsCounted,
           NEW t \in Txs, t \notin mempool.spends, Admit(t)
    PROVE  CostsCounted'
<1>1. PICK E \in Evictions(mempool.spends \ Conflicts(t), t) :
         mempool' = AddToPool(RemoveFromPool(mempool, Conflicts(t) \cup E), t)
    BY DEF Admit
<1> DEFINE S == Conflicts(t) \cup E
           rest == mempool.spends \ S
<1>2. S \subseteq mempool.spends
    <2>1. E \subseteq mempool.spends
        BY DEF Evictions
    <2>2. Conflicts(t) \subseteq mempool.spends
        BY TxAssumption DEF Conflicts, PoolShape, IndexMatchesItems
    <2> QED
        BY <2>1, <2>2
<1>3. rest = (mempool.spends \ Conflicts(t)) \ E
    OBVIOUS
<1>4. ~(CostOf(rest) + Cost[t] > MaxTotalCost)
    BY <1>3 DEF Evictions, AtFullCapacity
<1> HIDE DEF S
<1>5. /\ mempool'.spends = rest \cup {t}
      /\ mempool'.total_cost = (mempool.total_cost - CostOf(S)) + Cost[t]
    BY <1>1 DEF S, AddToPool, RemoveFromPool
<1> HIDE DEF rest
<1>6. /\ rest \in SUBSET Txs /\ IsFiniteSet(rest)
      /\ S \in SUBSET Txs /\ IsFiniteSet(S)
      /\ mempool.spends \in SUBSET Txs /\ IsFiniteSet(mempool.spends) /\ t \notin rest
    BY <1>2, FS_Subset DEF rest, PoolShape, CostsCounted
<1>7. CostOf(rest) \in Nat /\ CostOf(S) \in Nat
    BY <1>6, CostsAddUp
<1>8. CostOf(mempool.spends) = CostOf(rest) + CostOf(S)
    BY <1>2, <1>6, CostsAddUp DEF rest
<1>9. CostOf(rest \cup {t}) = CostOf(rest) + Cost[t]
    BY <1>6, CostsAddUp
<1>10. Cost[t] \in Nat /\ MaxTotalCost \in Nat
    BY TxAssumption
<1>11. mempool.total_cost = CostOf(mempool.spends)
    BY DEF CostsCounted, CostWithinLimit
<1>12. mempool'.total_cost = CostOf(rest) + Cost[t]
    BY <1>5, <1>7, <1>8, <1>10, <1>11
<1>13. mempool'.total_cost <= MaxTotalCost
    BY <1>4, <1>7, <1>10, <1>12
<1>14. IsFiniteSet(rest \cup {t})
    BY <1>6, FS_AddElement
<1>15. mempool'.total_cost = CostOf(mempool'.spends)
    BY <1>5, <1>9, <1>12
<1> QED
    BY <1>5, <1>13, <1>14, <1>15 DEF CostsCounted, CostWithinLimit

\* add_spendbundle adds an item only if it is not there already.
LEMMA AddSpendbundleKeepsCost ==
    ASSUME PoolShape, IndexMatchesItems, CostsCounted,
           NEW t \in Txs, NEW status, AddSpendbundle(t, status)
    PROVE  CostsCounted'
<1>1. CASE status = "SUCCESS" /\ t \notin mempool.spends
    <2>1. Admit(t)
        BY <1>1 DEF AddSpendbundle
    <2> QED
        BY <1>1, <2>1, AdmitKeepsCost
<1>2. CASE ~(status = "SUCCESS" /\ t \notin mempool.spends)
    <2>1. UNCHANGED mempool
        BY <1>2 DEF AddSpendbundle
    <2> QED
        BY <2>1 DEF CostsCounted, CostWithinLimit
<1> QED
    BY <1>1, <1>2

\* No step of a task or of new_peak loses count.
LEMMA CostStep ==
    ASSUME Shape, IndexMatchesItems, CostsCounted, [Next]_vars
    PROVE  CostsCounted'
<1> USE DEF Shape
<1>1. CASE UNCHANGED mempool
    BY <1>1 DEF CostsCounted, CostWithinLimit
<1>2. ASSUME NEW t \in Txs, FinishAdd(t) PROVE CostsCounted'
    <2>1. \E status : AddSpendbundle(t, status)
        BY <1>2 DEF FinishAdd
    <2> QED
        BY <2>1, AddSpendbundleKeepsCost
<1>3. CASE RestartPool
    <2>1. mempool'.spends = {} /\ mempool'.total_cost = 0
        BY <1>3 DEF RestartPool, EmptyPool
    <2>2. IsFiniteSet({}) /\ {} \in SUBSET Txs
        BY FS_EmptySet
    <2>3. CostOf({}) = 0 /\ MaxTotalCost \in Nat
        BY <2>2, CostsAddUp, TxAssumption
    <2> QED
        BY <2>1, <2>2, <2>3 DEF CostsCounted, CostWithinLimit
<1>4. ASSUME NEW t \in Txs, ReaddItem(t) PROVE CostsCounted'
    <2>1. \E status : AddSpendbundle(t, status)
        BY <1>4 DEF ReaddItem
    <2> QED
        BY <2>1, AddSpendbundleKeepsCost
<1>5. CASE RetryItem
    <2>1. Head(receiving.retry) \in Txs
        BY <1>5 DEF RetryItem, PeakShape
    <2>2. \E status : AddSpendbundle(Head(receiving.retry), status)
        BY <1>5 DEF RetryItem
    <2> QED
        BY <2>1, <2>2, AddSpendbundleKeepsCost
<1>6. ASSUME NEW t \in Txs,
             \/ Submit(t) \/ PreValidated(t) \/ PreValidationRaises(t)
             \/ RefuseAtOnce(t) \/ ReadCoin(t)
      PROVE  UNCHANGED mempool
    BY <1>6 DEF Submit, PreValidated, PreValidationRaises, RefuseAtOnce, ReadCoin
<1>7. ASSUME \/ \E b \in Rooted : ReceiveBlock(b)
             \/ ApplyBlock \/ CommitBlock \/ SkipPeak \/ TakePeak \/ TakePotential
             \/ LeavePool \/ AnnounceItem \/ AnnouncePeak \/ PeakTaskEnds \/ UNCHANGED vars
      PROVE  UNCHANGED mempool
    BY <1>7 DEF ReceiveBlock, ApplyBlock, CommitBlock, SkipPeak, TakePeak, TakePotential,
       LeavePool, AnnounceItem, AnnouncePeak, PeakTaskEnds, vars
<1> QED
    BY <1>1, <1>2, <1>3, <1>4, <1>5, <1>6, <1>7 DEF Next, TxStep, PeakStep

----------------------------------------------------------------------------
(* What the types need                                                      *)

\* A pool has these fields; the accounts of the potential set are numbers.
Accounts ==
    /\ mempool = [spends |-> mempool.spends, removals |-> mempool.removals,
                  total_cost |-> mempool.total_cost]
    /\ potential.cost \in Nat /\ potential.max \in Int

\* seen_bundle_hashes never outgrows its size.
SeenBounded == seen \subseteq Txs /\ IsFiniteSet(seen) /\ Cardinality(seen) <= SeenSize

\* While the coin store is rewritten it is on the way to the new peak.
CoinsOnTheWay ==
    receiving.pc = "apply" =>
        \/ coins_at = NONE
        \/ /\ coins_at \in Rooted
           /\ Height[coins_at] <= Height[receiving.block]
           /\ coins_at = Ancestor[receiving.block][Height[coins_at]]

\* The tasks that hold the lock or wait for it.
Wants(q) ==
    \/ q \in Txs /\ tasks[q].pc = "waiting"
    \/ q = PeakTask /\ receiving.pc \in {"lock", "pool", "retry"}

\* Each of them is in the queue once, and nobody else is.
QueueOfWaiters ==
    /\ \A i, j \in DOMAIN lock : lock[i] = lock[j] => i = j
    /\ \A q \in Txs \cup {PeakTask} : Wants(q) <=> \E i \in DOMAIN lock : lock[i] = q

\* add_to_potential_tx_set keeps its accounts, also when its loop lowers the limit by
\* what everything costs.
LEMMA AddToPotentialAccounts ==
    ASSUME PotentialShape, Accounts, NEW t \in Txs, AddToPotential(t)
    PROVE  potential'.cost \in Nat /\ potential'.max \in Int
<1>1. Cost[t] \in Nat /\ potential.cost \in Nat /\ potential.max \in Int
    BY TxAssumption DEF Accounts
<1>2. CASE t \in PotentialTxs
    BY <1>1, <1>2 DEF AddToPotential
<1>3. CASE t \notin PotentialTxs /\ Overflows(t)
    <2> DEFINE S == PotentialTxs \cup {t}
               N == Len(potential.txs)
    <2>1. N \in Nat /\ potential.txs \in [1..N -> Txs]
        BY DEF PotentialShape
    <2>2. PotentialTxs = {potential.txs[i] : i \in 1..N}
        BY <2>1 DEF PotentialTxs
    <2>3. potential.txs \in Surjection(1..N, PotentialTxs)
        BY <2>1, <2>2 DEF Surjection
    <2>4. IsFiniteSet(PotentialTxs)
        BY <2>1, <2>3, FS_Interval, FS_Surjection
    <2> HIDE DEF N
    <2>5. IsFiniteSet(S) /\ S \in SUBSET Txs
        BY <2>1, <2>2, <2>4, FS_AddElement
    <2> HIDE DEF S
    <2>6. CostOf(S) \in Nat
        BY <2>5, CostsAddUp
    <2>7. potential' = [txs |-> <<>>, cost |-> potential.cost + Cost[t],
                        max |-> potential.max - CostOf(S)]
        BY <1>3 DEF AddToPotential, S
    <2> QED
        BY <1>1, <2>6, <2>7
<1>4. CASE t \notin PotentialTxs /\ ~Overflows(t)
    <2>1. potential' = [potential EXCEPT !.txs = Append(@, t), !.cost = @ + Cost[t]]
        BY <1>4 DEF AddToPotential
    <2>2. potential' = [txs |-> Append(potential.txs, t), cost |-> potential.cost + Cost[t],
                        max |-> potential.max]
        BY <2>1 DEF PotentialShape
    <2> QED
        BY <1>1, <2>2
<1> QED
    BY <1>2, <1>3, <1>4

\* So does add_spendbundle.
LEMMA AddSpendbundleAccounts ==
    ASSUME PotentialShape, Accounts, NEW t \in Txs, NEW status, AddSpendbundle(t, status)
    PROVE  Accounts'
<1>1. CASE status \in {"PENDING", "RAISED"}
    <2>1. AddToPotential(t) /\ UNCHANGED mempool
        BY <1>1 DEF AddSpendbundle
    <2> QED
        BY <2>1, AddToPotentialAccounts DEF Accounts
<1>2. CASE status = "SUCCESS" /\ t \notin mempool.spends
    <2>1. Admit(t) /\ UNCHANGED potential
        BY <1>2 DEF AddSpendbundle
    <2>2. PICK S : mempool' = AddToPool(RemoveFromPool(mempool, S), t)
        BY <2>1 DEF Admit
    <2> QED
        BY <2>1, <2>2 DEF Accounts, AddToPool
<1>3. CASE status \notin {"PENDING", "RAISED"} /\ ~(status = "SUCCESS" /\ t \notin mempool.spends)
    <2>1. UNCHANGED <<mempool, potential>>
        BY <1>3 DEF AddSpendbundle
    <2> QED
        BY <2>1 DEF Accounts
<1> QED
    BY <1>1, <1>2, <1>3

\* And every step.
LEMMA AccountsStep ==
    ASSUME Shape, Accounts, [Next]_vars
    PROVE  Accounts'
<1> USE DEF Shape
<1>1. CASE UNCHANGED <<mempool, potential>>
    BY <1>1 DEF Accounts
<1>2. ASSUME NEW t \in Txs, FinishAdd(t) PROVE Accounts'
    <2>1. \E status : AddSpendbundle(t, status)
        BY <1>2 DEF FinishAdd
    <2> QED
        BY <2>1, AddSpendbundleAccounts
<1>3. CASE RestartPool
    <2>1. mempool' = EmptyPool /\ UNCHANGED potential
        BY <1>3 DEF RestartPool
    <2> QED
        BY <2>1 DEF Accounts, EmptyPool
<1>4. ASSUME NEW t \in Txs, ReaddItem(t) PROVE Accounts'
    <2>1. \E status : AddSpendbundle(t, status)
        BY <1>4 DEF ReaddItem
    <2> QED
        BY <2>1, AddSpendbundleAccounts
<1>5. CASE TakePotential
    <2>1. potential' = [potential EXCEPT !.txs = <<>>] /\ UNCHANGED mempool
        BY <1>5 DEF TakePotential
    <2>2. potential' = [txs |-> <<>>, cost |-> potential.cost, max |-> potential.max]
        BY <2>1 DEF PotentialShape
    <2> QED
        BY <2>1, <2>2 DEF Accounts
<1>6. CASE RetryItem
    <2>1. Head(receiving.retry) \in Txs
        BY <1>6 DEF RetryItem, PeakShape
    <2>2. \E status : AddSpendbundle(Head(receiving.retry), status)
        BY <1>6 DEF RetryItem
    <2> QED
        BY <2>1, <2>2, AddSpendbundleAccounts
<1>7. ASSUME NEW t \in Txs,
             \/ Submit(t) \/ PreValidated(t) \/ PreValidationRaises(t)
             \/ RefuseAtOnce(t) \/ ReadCoin(t)
      PROVE  UNCHANGED <<mempool, potential>>
    BY <1>7 DEF Submit, PreValidated, PreValidationRaises, RefuseAtOnce, ReadCoin
<1>8. ASSUME \/ \E b \in Rooted : ReceiveBlock(b)
             \/ ApplyBlock \/ CommitBlock \/ SkipPeak \/ TakePeak \/ LeavePool
             \/ AnnounceItem \/ AnnouncePeak \/ PeakTaskEnds \/ UNCHANGED vars
      PROVE  UNCHANGED <<mempool, potential>>
    BY <1>8 DEF ReceiveBlock, ApplyBlock, CommitBlock, SkipPeak, TakePeak, LeavePool,
       AnnounceItem, AnnouncePeak, PeakTaskEnds, vars
<1> QED
    BY <1>1, <1>2, <1>3, <1>4, <1>5, <1>6, <1>7, <1>8 DEF Next, TxStep, PeakStep

\* A set that loses a bundle keeps within the size.
LEMMA SeenShrinks ==
    ASSUME SeenBounded, NEW t, seen' = seen \/ seen' = seen \ {t}
    PROVE  SeenBounded'
<1>1. seen' \subseteq seen
    OBVIOUS
<1>2. IsFiniteSet(seen') /\ Cardinality(seen') <= Cardinality(seen)
    BY <1>1, FS_Subset DEF SeenBounded
<1>3. Cardinality(seen) \in Nat /\ Cardinality(seen') \in Nat /\ SeenSize \in Nat
    BY <1>2, FS_CardinalityType, TxAssumption DEF SeenBounded
<1> QED
    BY <1>1, <1>2, <1>3 DEF SeenBounded

\* add_and_maybe_pop_seen takes one out when it puts one too many in.
LEMMA SeenGrows ==
    ASSUME SeenBounded, NEW t \in Txs, t \notin seen, seen' \in AddSeen(t)
    PROVE  SeenBounded'
<1>1. IsFiniteSet(seen) /\ Cardinality(seen) \in Nat /\ SeenSize \in Nat /\ seen \subseteq Txs
    BY FS_CardinalityType, TxAssumption DEF SeenBounded
<1>2. IsFiniteSet(seen \cup {t}) /\ Cardinality(seen \cup {t}) = Cardinality(seen) + 1
    BY <1>1, FS_AddElement
<1>3. CASE Cardinality(seen) < SeenSize
    <2>1. seen' = seen \cup {t}
        BY <1>3 DEF AddSeen
    <2> QED
        BY <1>1, <1>2, <1>3, <2>1 DEF SeenBounded
<1>4. CASE ~(Cardinality(seen) < SeenSize)
    <2>1. PICK u \in seen : seen' = (seen \cup {t}) \ {u}
        BY <1>4 DEF AddSeen
    <2>2. u \in seen \cup {t}
        BY <2>1
    <2>3. /\ IsFiniteSet((seen \cup {t}) \ {u})
          /\ Cardinality((seen \cup {t}) \ {u}) = Cardinality(seen \cup {t}) - 1
        BY <1>2, <2>2, FS_RemoveElement
    <2>4. Cardinality(seen') = Cardinality(seen)
        BY <1>1, <1>2, <2>1, <2>3
    <2>5. seen' \subseteq Txs /\ IsFiniteSet(seen')
        BY <1>1, <2>1, <2>3
    <2> QED
        BY <2>4, <2>5 DEF SeenBounded
<1> QED
    BY <1>3, <1>4

\* seen_bundle_hashes stays within its size.
LEMMA SeenStep ==
    ASSUME SeenBounded, [Next]_vars
    PROVE  SeenBounded'
<1>1. ASSUME NEW t \in Txs, Submit(t) PROVE SeenBounded'
    BY <1>1, SeenGrows DEF Submit
<1>2. ASSUME NEW t \in Txs, TxStep(t) PROVE seen' = seen \/ seen' = seen \ {t}
    BY <1>2 DEF TxStep, PreValidated, PreValidationRaises, RefuseAtOnce, ReadCoin, FinishAdd
<1>3. ASSUME NEW t \in Txs, ReaddItem(t) PROVE seen' = seen \/ seen' = seen \ {t}
    BY <1>3 DEF ReaddItem
<1>4. ASSUME \/ \E b \in Rooted : ReceiveBlock(b)
             \/ ApplyBlock \/ CommitBlock \/ SkipPeak \/ TakePeak \/ RestartPool
             \/ TakePotential \/ RetryItem \/ LeavePool
             \/ AnnounceItem \/ AnnouncePeak \/ PeakTaskEnds \/ UNCHANGED vars
      PROVE  seen' = seen
    BY <1>4 DEF ReceiveBlock, ApplyBlock, CommitBlock, SkipPeak, TakePeak, RestartPool,
       TakePotential, RetryItem, LeavePool, AnnounceItem, AnnouncePeak, PeakTaskEnds, vars
<1> QED
    BY <1>1, <1>2, <1>3, <1>4, SeenShrinks DEF Next, PeakStep

\* receive_block takes the coin store back to the fork and then along the new chain.
LEMMA CoinsStep ==
    ASSUME Shape, CoinsOnTheWay, PeakIsBehind, [Next]_vars
    PROVE  CoinsOnTheWay'
<1> USE DEF Shape
<1>1. ASSUME NEW b \in Rooted, ReceiveBlock(b) PROVE CoinsOnTheWay'
    <2>1. receiving'.block = b /\ chain_peak \in Rooted
        BY <1>1 DEF ReceiveBlock, NoPeak, PeakShape
    <2>2. PICK f \in ForkPoints(chain_peak, b) :
             coins_at' = IF f = -1 THEN NONE ELSE Ancestor[b][f]
        BY <1>1 DEF ReceiveBlock
    <2>3. CASE f = -1
        BY <2>2, <2>3 DEF CoinsOnTheWay
    <2>4. CASE f # -1
        <3>1. f \in -1..MaxHeight /\ f <= Height[b] /\ MaxHeight \in Nat
            BY <2>1, <2>2, ForkPointsType, BlockAssumption
        <3>2. f \in 0..Height[b]
            BY <2>4, <3>1, RootedType
        <3>3. Ancestor[b][f] \in Rooted /\ Height[Ancestor[b][f]] = f
            BY <3>2, AncestorAssumption
        <3> QED
            BY <2>1, <2>2, <2>4, <3>1, <3>3 DEF CoinsOnTheWay
    <2> QED
        BY <2>3, <2>4
<1>2. CASE ApplyBlock
    <2> DEFINE b == receiving.block
               h == IF coins_at = NONE THEN 0 ELSE Height[coins_at] + 1
    <2>1. b \in Rooted /\ receiving' = receiving /\ coins_at' = Ancestor[b][h]
        BY <1>2 DEF ApplyBlock, PeakIsBehind
    <2>2. Height[b] \in Nat /\ Ancestor[b][Height[b]] = b
        BY <2>1, RootedType, AncestorAssumption
    <2>3. h \in 0..Height[b]
        <3>1. CASE coins_at = NONE
            BY <2>2, <3>1
        <3>2. CASE coins_at # NONE
            <4>1. /\ coins_at \in Rooted /\ Height[coins_at] <= Height[b]
                  /\ coins_at = Ancestor[b][Height[coins_at]] /\ coins_at # b
                BY <1>2, <3>2 DEF ApplyBlock, CoinsOnTheWay
            <4>2. Height[coins_at] # Height[b] /\ Height[coins_at] \in Nat
                BY <2>2, <4>1, RootedType
            <4> QED
                BY <2>2, <3>2, <4>1, <4>2
        <3> QED
            BY <3>1, <3>2
    <2> HIDE DEF h
    <2>4. Ancestor[b][h] \in Rooted /\ Height[Ancestor[b][h]] = h /\ h <= Height[b]
        BY <2>1, <2>2, <2>3, AncestorAssumption
    <2> QED
        BY <2>1, <2>4 DEF CoinsOnTheWay
<1>3. ASSUME NEW t \in Txs, Submit(t) \/ TxStep(t) PROVE CoinsOnTheWay'
    BY <1>3, TxStepKeepsPeak DEF CoinsOnTheWay
<1>4. ASSUME CommitBlock \/ SkipPeak \/ TakePeak \/ RestartPool \/ TakePotential
      PROVE  receiving'.pc # "apply"
    <2>1. CASE SkipPeak
        BY <2>1 DEF SkipPeak, NoPeak
    <2>2. CASE CommitBlock \/ TakePeak
        BY <2>2 DEF CommitBlock, TakePeak, PeakShape
    <2>3. CASE RestartPool
        BY <2>3 DEF RestartPool, PeakShape
    <2>4. CASE TakePotential
        BY <2>4 DEF TakePotential, PeakShape
    <2> QED
        BY <1>4, <2>1, <2>2, <2>3, <2>4
<1>5. ASSUME (\E t \in Txs : ReaddItem(t)) \/ RetryItem
      PROVE  receiving'.pc # "apply"
    BY <1>5 DEF ReaddItem, RetryItem, PeakFails, NoPeak, PeakShape
<1>6. ASSUME LeavePool \/ AnnounceItem \/ AnnouncePeak \/ PeakTaskEnds
      PROVE  receiving'.pc # "apply"
    <2>1. receiving' = NoPeak \/ \E items : receiving' = Announcing(items)
        BY <1>6 DEF LeavePool, AnnounceItem, AnnouncePeak, PeakTaskEnds
    <2> QED
        BY <2>1, AnnouncingIs DEF NoPeak
<1>7. CASE receiving'.pc # "apply"
    BY <1>7 DEF CoinsOnTheWay
<1>8. CASE UNCHANGED vars
    BY <1>8 DEF vars, chain, CoinsOnTheWay
<1> QED
    BY <1>1, <1>2, <1>3, <1>4, <1>5, <1>6, <1>7, <1>8 DEF Next, PeakStep

\* One more in the queue, at its end.
LEMMA Enqueued ==
    ASSUME TaskShape, QueueOfWaiters, NEW q \in Txs \cup {PeakTask}, ~Wants(q), Wants(q)',
           lock' = Append(lock, q),
           \A u \in Txs \cup {PeakTask} : u # q => (Wants(u)' <=> Wants(u))
    PROVE  QueueOfWaiters'
<1> DEFINE n == Len(lock)
<1>1. n \in Nat /\ DOMAIN lock = 1..n /\ DOMAIN lock' = 1..(n + 1)
      /\ lock'[n + 1] = q /\ \A i \in 1..n : lock'[i] = lock[i]
    BY DEF TaskShape
<1>2. \A i \in 1..n : lock[i] # q
    BY <1>1 DEF QueueOfWaiters
<1> HIDE DEF n
<1>3. \A i, j \in DOMAIN lock' : lock'[i] = lock'[j] => i = j
    <2> SUFFICES ASSUME NEW i \in 1..(n + 1), NEW j \in 1..(n + 1), lock'[i] = lock'[j]
                 PROVE  i = j
        BY <1>1
    <2>1. i \in 1..n \/ i = n + 1
        BY <1>1
    <2>2. j \in 1..n \/ j = n + 1
        BY <1>1
    <2> QED
        BY <1>1, <1>2, <2>1, <2>2 DEF QueueOfWaiters
<1>4. ASSUME NEW u \in Txs \cup {PeakTask}
      PROVE  Wants(u)' <=> \E i \in DOMAIN lock' : lock'[i] = u
    <2>1. CASE u = q
        BY <1>1, <2>1
    <2>2. CASE u # q
        <3>1. Wants(u)' <=> \E i \in 1..n : lock[i] = u
            BY <1>1, <2>2 DEF QueueOfWaiters
        <3>2. (\E i \in 1..n : lock[i] = u) <=> \E i \in 1..(n + 1) : lock'[i] = u
            BY <1>1, <2>2
        <3> QED
            BY <1>1, <3>1, <3>2
    <2> QED
        BY <2>1, <2>2
<1> QED
    BY <1>3, <1>4 DEF QueueOfWaiters

\* The holder leaves the queue.
LEMMA Dequeued ==
    ASSUME TaskShape, QueueOfWaiters, NEW q \in Txs \cup {PeakTask}, Holds(q), ~Wants(q)',
           Release(q),
           \A u \in Txs \cup {PeakTask} : u # q => (Wants(u)' <=> Wants(u))
    PROVE  QueueOfWaiters'
<1> DEFINE n == Len(lock)
<1>1. /\ n \in Nat /\ n > 0 /\ DOMAIN lock = 1..n /\ lock[1] = q
      /\ DOMAIN lock' = 1..(n - 1) /\ \A i \in 1..(n - 1) : lock'[i] = lock[i + 1]
    BY DEF TaskShape, Holds, Release
<1> HIDE DEF n
<1>2. \A i, j \in DOMAIN lock' : lock'[i] = lock'[j] => i = j
    <2> SUFFICES ASSUME NEW i \in 1..(n - 1), NEW j \in 1..(n - 1), lock'[i] = lock'[j]
                 PROVE  i = j
        BY <1>1
    <2>1. i + 1 \in 1..n /\ j + 1 \in 1..n /\ lock[i + 1] = lock[j + 1]
        BY <1>1
    <2>2. i + 1 = j + 1
        BY <1>1, <2>1 DEF QueueOfWaiters
    <2> QED
        BY <1>1, <2>2
<1>3. ASSUME NEW u \in Txs \cup {PeakTask}
      PROVE  Wants(u)' <=> \E i \in DOMAIN lock' : lock'[i] = u
    <2>1. CASE u = q
        <3>1. ASSUME NEW i \in 1..(n - 1) PROVE lock'[i] # q
            <4>1. i + 1 \in 1..n /\ 1 \in 1..n /\ i + 1 # 1 /\ lock'[i] = lock[i + 1]
                BY <1>1
            <4> QED
                BY <1>1, <4>1 DEF QueueOfWaiters
        <3> QED
            BY <1>1, <2>1, <3>1
    <2>2. CASE u # q
        <3>1. Wants(u)' <=> \E i \in 1..n : lock[i] = u
            BY <1>1, <2>2 DEF QueueOfWaiters
        <3>2. ASSUME NEW i \in 1..n, lock[i] = u
              PROVE  \E j \in 1..(n - 1) : lock'[j] = u
            <4>1. i # 1 /\ i - 1 \in 1..(n - 1) /\ lock'[i - 1] = lock[(i - 1) + 1]
                BY <1>1, <2>2, <3>2
            <4>2. (i - 1) + 1 = i
                BY <1>1
            <4> QED
                BY <3>2, <4>1, <4>2
        <3>3. ASSUME NEW j \in 1..(n - 1), lock'[j] = u
              PROVE  \E i \in 1..n : lock[i] = u
            <4>1. j + 1 \in 1..n /\ lock[j + 1] = u
                BY <1>1, <3>3
            <4> QED
                BY <4>1
        <3> QED
            BY <1>1, <3>1, <3>2, <3>3
    <2> QED
        BY <2>1, <2>2
<1> QED
    BY <1>2, <1>3 DEF QueueOfWaiters

\* While the queue and who wants the lock stay, nothing changes.
LEMMA QueueStays ==
    ASSUME QueueOfWaiters, UNCHANGED lock,
           \A u \in Txs \cup {PeakTask} : Wants(u)' <=> Wants(u)
    PROVE  QueueOfWaiters'
BY DEF QueueOfWaiters

\* A step of respond_transaction concerns its own place in the queue only.
LEMMA QueueTxStep ==
    ASSUME Shape, QueueOfWaiters, NEW t \in Txs, Submit(t) \/ TxStep(t)
    PROVE  QueueOfWaiters'
<1> USE DEF Shape
<1>0. PeakTask \notin Txs /\ t \in Txs \cup {PeakTask} /\ NoTask.pc = "idle"
    BY TxAssumption DEF NoTask
<1>1. receiving' = receiving
    BY TxStepKeepsPeak
<1>2. ASSUME NEW r, tasks' = [tasks EXCEPT ![t] = r]
      PROVE  /\ Wants(t)' <=> r.pc = "waiting"
             /\ Wants(t) <=> tasks[t].pc = "waiting"
             /\ \A u \in Txs \cup {PeakTask} : u # t => (Wants(u)' <=> Wants(u))
    <2>1. tasks'[t] = r /\ \A u \in Txs : u # t => tasks'[u] = tasks[u]
        BY <1>2 DEF TaskShape
    <2> QED
        BY <1>0, <1>1, <2>1 DEF Wants
<1>3. ASSUME tasks' = [tasks EXCEPT ![t] = NoTask], Holds(t), Release(t)
      PROVE  QueueOfWaiters'
    <2>1. ~Wants(t)' /\ \A u \in Txs \cup {PeakTask} : u # t => (Wants(u)' <=> Wants(u))
        BY <1>0, <1>2, <1>3
    <2> QED
        BY <1>0, <1>3, <2>1, Dequeued
<1>4. CASE Submit(t)
    <2>1. /\ tasks[t].pc = "idle" /\ UNCHANGED lock
          /\ tasks' = [tasks EXCEPT ![t] = [tasks[t] EXCEPT !.pc = "validating"]]
        BY <1>4 DEF Submit
    <2>2. [tasks[t] EXCEPT !.pc = "validating"].pc = "validating"
        BY DEF TaskShape
    <2>3. Wants(t)' <=> Wants(t)
        BY <1>2, <2>1, <2>2
    <2> QED
        BY <1>2, <2>1, <2>3, QueueStays
<1>5. CASE PreValidated(t)
    <2> DEFINE r == [tasks[t] EXCEPT !.pc = "waiting", !.unread = TxRemovals[t]]
    <2>1. tasks[t].pc = "validating" /\ lock' = Append(lock, t)
        BY <1>5 DEF PreValidated
    <2>2. tasks' = [tasks EXCEPT ![t] = r]
        BY <1>5 DEF PreValidated, TaskShape
    <2>3. r.pc = "waiting"
        BY DEF TaskShape
    <2> HIDE DEF r
    <2>4. /\ ~Wants(t) /\ Wants(t)'
          /\ \A u \in Txs \cup {PeakTask} : u # t => (Wants(u)' <=> Wants(u))
        BY <1>2, <2>1, <2>2, <2>3
    <2> QED
        BY <1>0, <2>1, <2>4, Enqueued
<1>6. CASE PreValidationRaises(t)
    <2>1. /\ tasks[t].pc = "validating" /\ UNCHANGED lock
          /\ tasks' = [tasks EXCEPT ![t] = NoTask]
        BY <1>6 DEF PreValidationRaises
    <2>2. Wants(t)' <=> Wants(t)
        BY <1>0, <1>2, <2>1
    <2> QED
        BY <1>2, <2>1, <2>2, QueueStays
<1>7. CASE RefuseAtOnce(t) \/ FinishAdd(t)
    BY <1>3, <1>7 DEF RefuseAtOnce, FinishAdd, Reading
<1>8. CASE ReadCoin(t)
    <2>1. tasks[t].pc = "waiting" /\ Holds(t)
        BY <1>8 DEF ReadCoin, Reading
    <2>2. CASE Release(t) /\ tasks' = [tasks EXCEPT ![t] = NoTask]
        BY <1>3, <2>1, <2>2
    <2>3. ASSUME NEW c \in tasks[t].unread, UNCHANGED lock,
                 tasks' = [tasks EXCEPT ![t].unread = @ \ {c},
                                        ![t].spent = @ \/ AlreadySpent(t, c, coins_at)]
          PROVE  QueueOfWaiters'
        <3>1. tasks'[t].pc = "waiting" /\ \A u \in Txs : u # t => tasks'[u] = tasks[u]
            BY <2>1, <2>3 DEF TaskShape
        <3>2. \A u \in Txs \cup {PeakTask} : Wants(u)' <=> Wants(u)
            BY <1>0, <1>1, <2>1, <3>1 DEF Wants
        <3> QED
            BY <2>3, <3>2, QueueStays
    <2> QED
        BY <1>8, <2>2, <2>3 DEF ReadCoin
<1> QED
    BY <1>4, <1>5, <1>6, <1>7, <1>8 DEF TxStep

\* A step of the holder of blockchain.lock concerns its own place only.
LEMMA QueuePeakStep ==
    ASSUME Shape, RefillLocked, QueueOfWaiters,
           (\E b \in Rooted : ReceiveBlock(b)) \/ PeakStep
    PROVE  QueueOfWaiters'
<1> USE DEF Shape
<1>0. PeakTask \notin Txs /\ PeakTask \in Txs \cup {PeakTask}
    BY TxAssumption
<1>1. UNCHANGED tasks
    BY DEF ReceiveBlock, PeakStep, ApplyBlock, CommitBlock, SkipPeak, TakePeak, RestartPool,
       ReaddItem, TakePotential, RetryItem, LeavePool, AnnounceItem, AnnouncePeak, PeakTaskEnds
<1>2. \A u \in Txs \cup {PeakTask} : u # PeakTask => (Wants(u)' <=> Wants(u))
    BY <1>0, <1>1 DEF Wants
<1> DEFINE Busy == {"lock", "pool", "retry"}
<1>3. /\ Wants(PeakTask) <=> receiving.pc \in Busy
      /\ Wants(PeakTask)' <=> receiving'.pc \in Busy
    BY <1>0 DEF Wants
<1>4. ASSUME UNCHANGED lock, receiving.pc \in Busy <=> receiving'.pc \in Busy
      PROVE  QueueOfWaiters'
    BY <1>2, <1>3, <1>4, QueueStays
<1>5. ASSUME receiving.pc \in {"pool", "retry"}, Release(PeakTask), receiving'.pc \notin Busy
      PROVE  QueueOfWaiters'
    BY <1>0, <1>2, <1>3, <1>5, Dequeued DEF RefillLocked
<1>6. CASE \E b \in Rooted : ReceiveBlock(b)
    BY <1>4, <1>6 DEF ReceiveBlock, NoPeak
<1>7. CASE ApplyBlock
    BY <1>4, <1>7 DEF ApplyBlock
<1>8. CASE CommitBlock
    BY <1>4, <1>8 DEF CommitBlock, PeakShape
<1>9. CASE SkipPeak
    BY <1>4, <1>9 DEF SkipPeak, NoPeak
<1>10. CASE TakePeak
    <2>1. /\ receiving.pc = "new_peak" /\ receiving'.pc = "lock"
          /\ lock' = Append(lock, PeakTask)
        BY <1>10 DEF TakePeak, PeakShape
    <2> QED
        BY <1>0, <1>2, <1>3, <2>1, Enqueued
<1>11. CASE RestartPool
    BY <1>4, <1>11 DEF RestartPool, PeakShape
<1>12. ASSUME NEW t \in Txs, ReaddItem(t) PROVE QueueOfWaiters'
    <2>1. receiving.pc = "pool"
        BY <1>12 DEF ReaddItem
    <2>2. \/ Release(PeakTask) /\ receiving'.pc = "failed"
          \/ UNCHANGED lock /\ receiving'.pc = "pool"
        BY <1>12 DEF ReaddItem, PeakFails, NoPeak, PeakShape
    <2> QED
        BY <1>4, <1>5, <2>1, <2>2
<1>13. CASE TakePotential
    BY <1>4, <1>13 DEF TakePotential, PeakShape
<1>14. CASE RetryItem
    <2>1. receiving.pc = "retry"
        BY <1>14 DEF RetryItem
    <2>2. \/ Release(PeakTask) /\ receiving'.pc = "failed"
          \/ UNCHANGED lock /\ receiving'.pc = "retry"
        BY <1>14 DEF RetryItem, PeakFails, NoPeak, PeakShape
    <2> QED
        BY <1>4, <1>5, <2>1, <2>2
<1>15. CASE LeavePool
    <2>1. /\ receiving.pc = "retry" /\ Release(PeakTask)
          /\ receiving'.pc \in {"failed", "announce"}
        BY <1>15, AnnouncingIs DEF LeavePool
    <2> QED
        BY <1>5, <2>1
<1>16. CASE AnnounceItem \/ AnnouncePeak \/ PeakTaskEnds
    <2>1. /\ receiving.pc \in {"announce", "failed"} /\ UNCHANGED lock
          /\ receiving' = NoPeak \/ \E items : receiving' = Announcing(items)
        BY <1>16 DEF AnnounceItem, AnnouncePeak, PeakTaskEnds
    <2>2. receiving'.pc \in {"idle", "failed", "announce"}
        BY <2>1, AnnouncingIs DEF NoPeak
    <2> QED
        BY <1>4, <2>1, <2>2
<1> QED
    BY <1>6, <1>7, <1>8, <1>9, <1>10, <1>11, <1>12, <1>13, <1>14, <1>15, <1>16 DEF PeakStep

\* The queue for mempool_manager.lock is kept by every step.
LEMMA QueueStep ==
    ASSUME Shape, RefillLocked, QueueOfWaiters, [Next]_vars
    PROVE  QueueOfWaiters'
<1>1. CASE UNCHANGED vars
    BY <1>1 DEF vars, QueueOfWaiters, Wants
<1> QED
    BY <1>1, QueueTxStep, QueuePeakStep DEF Next

----------------------------------------------------------------------------
(* The types and the cost: the theorems                                     *)

\* The invariant about costs, sizes and the queue.
BookInv == CostsCounted /\ Accounts /\ SeenBounded /\ CoinsOnTheWay /\ QueueOfWaiters

\* FullNode._start: nothing counted yet.
LEMMA BookInit == Init => BookInv
<1> SUFFICES ASSUME Init PROVE BookInv
    OBVIOUS
<1>1. IsFiniteSet({}) /\ Cardinality({}) = 0 /\ {} \in SUBSET Txs
    BY FS_EmptySet
<1>2. CostOf({}) = 0 /\ MaxTotalCost \in Nat /\ SeenSize \in Nat /\ PotentialMax \in Nat
    BY <1>1, CostsAddUp, TxAssumption
<1>3. CostsCounted
    BY <1>1, <1>2 DEF Init, EmptyPool, CostsCounted, CostWithinLimit
<1>4. Accounts
    BY <1>2 DEF Init, EmptyPool, Accounts
<1>5. SeenBounded
    BY <1>1, <1>2 DEF Init, SeenBounded
<1>6. CoinsOnTheWay
    BY DEF Init, NoPeak, CoinsOnTheWay
<1>7. QueueOfWaiters
    <2>1. lock = <<>> /\ receiving.pc = "idle" /\ \A t \in Txs : tasks[t].pc = "idle"
        BY DEF Init, NoPeak, NoTask
    <2> QED
        BY <2>1 DEF QueueOfWaiters, Wants
<1> QED
    BY <1>3, <1>4, <1>5, <1>6, <1>7 DEF BookInv

\* Every step keeps the books.
LEMMA BookNext == MempoolInv /\ BookInv /\ [Next]_vars => BookInv'
BY CostStep, AccountsStep, SeenStep, CoinsStep, QueueStep DEF MempoolInv, BookInv

\* The books are right in every behaviour.
LEMMA BookAlways == Spec => []BookInv
<1>1. Init => BookInv
    BY BookInit
<1>2. MempoolInv /\ BookInv /\ [Next]_vars => BookInv'
    BY BookNext
<1> QED
    BY <1>1, <1>2, MempoolAlways, PTL DEF Spec

\* total_mempool_cost is never off, however items are replaced, evicted, dropped by
\* new_peak and added again, and never above mempool_max_total_cost.
THEOREM CostAlwaysWithinLimit == Spec => []CostWithinLimit
<1>1. BookInv => CostWithinLimit
    BY DEF BookInv, CostsCounted
<1> QED
    BY <1>1, BookAlways, PTL

\* A queue without repetitions holds each task once or not at all.
LEMMA PlacesInQueue ==
    ASSUME TaskShape, QueueOfWaiters, NEW q \in Txs \cup {PeakTask}
    PROVE  Cardinality({i \in DOMAIN lock : lock[i] = q}) = IF Wants(q) THEN 1 ELSE 0
<1>1. CASE Wants(q)
    <2>1. PICK i \in DOMAIN lock : lock[i] = q
        BY <1>1 DEF QueueOfWaiters
    <2>2. {j \in DOMAIN lock : lock[j] = q} = {i}
        BY <2>1 DEF QueueOfWaiters
    <2>3. Cardinality({i}) = 1
        BY FS_Singleton
    <2> QED
        BY <1>1, <2>2, <2>3
<1>2. CASE ~Wants(q)
    <2>1. {j \in DOMAIN lock : lock[j] = q} = {}
        BY <1>2 DEF QueueOfWaiters
    <2>2. Cardinality({}) = 0
        BY FS_EmptySet
    <2> QED
        BY <1>2, <2>1, <2>2
<1> QED
    BY <1>1, <1>2

\* The two invariants say all that the types do.
LEMMA InvariantsImplyType == MempoolInv /\ BookInv => TypeOK
<1> SUFFICES ASSUME MempoolInv, BookInv PROVE TypeOK
    OBVIOUS
<1>1. PoolShape /\ PotentialShape /\ TaskShape /\ PeakShape
    BY DEF MempoolInv, Shape
<1>2. coins_at \in Rooted \cup {NONE}
    BY <1>1 DEF MempoolInv, BookInv, CoinsFollowPeak, CoinsOnTheWay, PeakShape
<1>3. mempool \in [spends : SUBSET Txs, removals : [Coins -> Txs \cup {NONE}], total_cost : Nat]
    <2>1. mempool.spends \in SUBSET Txs /\ IsFiniteSet(mempool.spends)
        BY <1>1 DEF PoolShape, BookInv, CostsCounted
    <2>2. mempool.total_cost \in Nat
        BY <2>1, CostsAddUp DEF BookInv, CostsCounted, CostWithinLimit
    <2>3. mempool = [spends |-> mempool.spends, removals |-> mempool.removals,
                     total_cost |-> mempool.total_cost]
        BY DEF BookInv, Accounts
    <2>4. mempool.removals \in [Coins -> Txs \cup {NONE}]
        BY <1>1 DEF PoolShape
    <2> QED
        BY <2>1, <2>2, <2>3, <2>4
<1>4. potential \in [txs : Seq(Txs), cost : Nat, max : Int]
    <2>1. /\ potential = [txs |-> potential.txs, cost |-> potential.cost, max |-> potential.max]
          /\ potential.txs \in Seq(Txs) /\ potential.cost \in Nat /\ potential.max \in Int
        BY <1>1 DEF PotentialShape, BookInv, Accounts
    <2> QED
        BY <2>1
<1>5. seen \subseteq Txs /\ Cardinality(seen) <= SeenSize
    BY DEF BookInv, SeenBounded
<1>6. \A q \in Txs \cup {PeakTask} :
          Cardinality({i \in DOMAIN lock : lock[i] = q}) = IF Wants(q) THEN 1 ELSE 0
    BY <1>1, PlacesInQueue DEF BookInv
<1> QED
    BY <1>1, <1>2, <1>3, <1>4, <1>5, <1>6 DEF TypeOK, TaskShape, PeakShape, Wants

\* Every variable keeps its type: in particular the coin store is always that of some
\* chain, seen_bundle_hashes keeps within seen_cache_size, and each task that wants
\* mempool_manager.lock is in its queue exactly once.
THEOREM TypeCorrect == Spec => []TypeOK
<1>1. MempoolInv /\ BookInv => TypeOK
    BY InvariantsImplyType
<1> QED
    BY <1>1, MempoolAlways, BookAlways, PTL

----------------------------------------------------------------------------
(* Fee per cost                                                             *)

\* Multiplying by a natural keeps an order, and by one that is not zero a strict one.
LEMMA Scale ==
    ASSUME NEW a \in Nat, NEW b \in Nat, NEW c \in Nat
    PROVE  /\ a * c \in Nat /\ b * c \in Nat
           /\ a <= b => a * c <= b * c
           /\ c > 0 => (a < b <=> a * c < b * c)
<1>1. a * c \in Nat /\ b * c \in Nat
    OBVIOUS
<1>2. ASSUME a <= b PROVE a * c <= b * c
    <2>1. PICK d \in Nat : b = a + d
        <3>1. b - a \in Nat /\ b = a + (b - a)
            BY <1>2
        <3> QED
            BY <3>1
    <2>2. b * c = a * c + d * c /\ d * c \in Nat
        BY <2>1
    <2> QED
        BY <1>1, <2>2
<1>3. ASSUME c > 0, a < b PROVE a * c < b * c
    <2>1. PICK d \in Nat : b = a + 1 + d
        <3>1. b - a - 1 \in Nat /\ b = a + 1 + (b - a - 1)
            BY <1>3
        <3> QED
            BY <3>1
    <2>2. b * c = a * c + c + d * c /\ d * c \in Nat
        BY <2>1
    <2> QED
        BY <1>1, <1>3, <2>2
<1>4. ASSUME b <= a PROVE b * c <= a * c
    <2>1. PICK d \in Nat : a = b + d
        <3>1. a - b \in Nat /\ a = b + (a - b)
            BY <1>4
        <3> QED
            BY <3>1
    <2>2. a * c = b * c + d * c /\ d * c \in Nat
        BY <2>1
    <2> QED
        BY <1>1, <2>2
<1>5. a < b \/ b <= a
    OBVIOUS
<1> QED
    BY <1>1, <1>2, <1>3, <1>4, <1>5

\* Products of three factors may be taken in any order.
LEMMA Regroup ==
    ASSUME NEW a \in Nat, NEW b \in Nat, NEW c \in Nat
    PROVE  (a * b) * c = (a * c) * b /\ (a * b) * c = (b * c) * a
OBVIOUS

\* Fractions are ordered: fa/ca <= fb/cb <= fc/cc, and strictly if one of the two is.
LEMMA Fractions ==
    ASSUME NEW fa \in Nat, NEW fb \in Nat, NEW fc \in Nat,
           NEW ca \in Nat \ {0}, NEW cb \in Nat \ {0}, NEW cc \in Nat \ {0},
           fa * cb <= fb * ca, fb * cc <= fc * cb
    PROVE  /\ fa * cc <= fc * ca
           /\ fa * cb < fb * ca \/ fb * cc < fc * cb => fa * cc < fc * ca
<1> DEFINE A == fa * cb
           B == fb * ca
           C == fb * cc
           D == fc * cb
           X == fa * cc
           Y == fc * ca
<1>1. A \in Nat /\ B \in Nat /\ C \in Nat /\ D \in Nat /\ X \in Nat /\ Y \in Nat
    BY Scale
<1>2. A * cc = X * cb /\ B * cc = C * ca /\ D * ca = Y * cb
    BY Regroup
<1>3. A <= B /\ C <= D
    OBVIOUS
<1>4. (fa * cb < fb * ca <=> A < B) /\ (fb * cc < fc * cb <=> C < D)
    OBVIOUS
<1> SUFFICES X <= Y /\ (A < B \/ C < D => X < Y)
    OBVIOUS
<1> HIDE DEF A, B, C, D, X, Y
<1>5. A * cc <= B * cc /\ C * ca <= D * ca
    BY <1>1, <1>3, Scale
<1>6. A * cc \in Nat /\ B * cc \in Nat /\ D * ca \in Nat
    BY <1>1, Scale
<1>7. X * cb <= Y * cb
    BY <1>2, <1>5, <1>6
<1>8. ASSUME A < B \/ C < D PROVE X * cb < Y * cb
    <2>1. A * cc < B * cc \/ C * ca < D * ca
        BY <1>1, <1>8, Scale
    <2> QED
        BY <1>2, <1>5, <1>6, <2>1
<1>9. cb > 0
    OBVIOUS
<1>10. X < Y <=> X * cb < Y * cb
    BY <1>1, <1>9, Scale
<1>11. Y < X <=> Y * cb < X * cb
    BY <1>1, <1>9, Scale
<1>12. X * cb \in Nat /\ Y * cb \in Nat
    BY <1>1, Scale
<1> QED
    BY <1>1, <1>7, <1>8, <1>10, <1>11, <1>12

\* What fee per cost is: an order, for which bundles may be equal.
LEMMA RatesOrder ==
    ASSUME NEW a \in Txs, NEW b \in Txs, NEW c \in Txs
    PROVE  /\ ~PaysLess(a, a)
           /\ PaysLess(a, b) => ~PaysLess(b, a)
           /\ ~PaysLess(b, a) /\ ~PaysLess(c, b) => ~PaysLess(c, a)
           /\ ~PaysLess(b, a) /\ PaysLess(b, c) => PaysLess(a, c)
           /\ PaysLess(a, b) /\ ~PaysLess(c, b) => PaysLess(a, c)
<1>1. /\ Fee[a] \in Nat /\ Fee[b] \in Nat /\ Fee[c] \in Nat
      /\ Cost[a] \in Nat \ {0} /\ Cost[b] \in Nat \ {0} /\ Cost[c] \in Nat \ {0}
    BY TxAssumption
<1>2. \A x, y \in {a, b, c} : Fee[x] * Cost[y] \in Nat
    BY <1>1, Scale
<1>3. ~PaysLess(a, a)
    BY <1>2 DEF PaysLess
<1>4. PaysLess(a, b) => ~PaysLess(b, a)
    BY <1>2 DEF PaysLess
<1>5. /\ PaysLess(a, b) => Fee[a] * Cost[b] <= Fee[b] * Cost[a]
      /\ PaysLess(b, c) => Fee[b] * Cost[c] <= Fee[c] * Cost[b]
      /\ ~PaysLess(b, a) <=> Fee[a] * Cost[b] <= Fee[b] * Cost[a]
      /\ ~PaysLess(c, b) <=> Fee[b] * Cost[c] <= Fee[c] * Cost[b]
      /\ ~PaysLess(c, a) <=> Fee[a] * Cost[c] <= Fee[c] * Cost[a]
    BY <1>2 DEF PaysLess
<1>6. Fee[a] * Cost[b] <= Fee[b] * Cost[a] /\ Fee[b] * Cost[c] <= Fee[c] * Cost[b] =>
        /\ Fee[a] * Cost[c] <= Fee[c] * Cost[a]
        /\ PaysLess(a, b) \/ PaysLess(b, c) => PaysLess(a, c)
    BY <1>1, Fractions DEF PaysLess
<1> QED
    BY <1>3, <1>4, <1>5, <1>6

\* Of finitely many bundles one pays most.
LEMMA HighestPayer ==
    ASSUME NEW S \in SUBSET Txs, IsFiniteSet(S), S # {}
    PROVE  \E e \in S : \A d \in S : ~PaysLess(e, d)
<1> DEFINE Has(X) == \E e \in X : \A d \in X : ~PaysLess(e, d)
           Bad == {X \in SUBSET S : X # {} /\ ~Has(X)}
           Sizes == {Cardinality(X) : X \in Bad}
<1>1. ASSUME NEW X \in SUBSET S
      PROVE  IsFiniteSet(X) /\ Cardinality(X) \in Nat
    BY FS_Subset, FS_CardinalityType
<1> SUFFICES ASSUME ~Has(S) PROVE FALSE
    OBVIOUS
<1>2. S \in Bad
    OBVIOUS
<1>3. \A Z \in Bad : Z \in SUBSET S /\ Z # {} /\ ~Has(Z)
    OBVIOUS
<1>4. \A Z \in SUBSET S : Z # {} /\ Z \notin Bad => Has(Z)
    OBVIOUS
<1>5. Sizes \subseteq Nat /\ Sizes # {}
    BY <1>1, <1>2
<1> HIDE DEF Bad
<1>6. PICK n \in Sizes : \A m \in Sizes : n <= m
    <2> HIDE DEF Sizes
    <2> QED
        BY <1>5, LeastNatural
<1>7. PICK X \in Bad : Cardinality(X) = n
    BY <1>6
<1>8. X \in SUBSET S /\ X # {} /\ ~Has(X) /\ IsFiniteSet(X) /\ Cardinality(X) \in Nat
    BY <1>1, <1>3, <1>7
<1>9. PICK x \in X : TRUE
    BY <1>8
<1> DEFINE Y == X \ {x}
<1>10. IsFiniteSet(Y) /\ Cardinality(Y) = Cardinality(X) - 1 /\ Y \in SUBSET S
    BY <1>8, <1>9, FS_RemoveElement
<1>11. Y \notin Bad
    <2>1. ASSUME Y \in Bad PROVE FALSE
        <3>1. Cardinality(Y) \in Sizes
            BY <2>1
        <3> HIDE DEF Sizes
        <3>2. n <= Cardinality(Y)
            BY <1>6, <3>1
        <3> QED
            BY <1>7, <1>8, <1>10, <3>2
    <2> QED
        BY <2>1
<1>12. x \in Txs /\ X \subseteq Txs
    BY <1>8, <1>9
<1>13. CASE Y = {}
    <2>1. X = {x}
        BY <1>9, <1>13
    <2>2. ~PaysLess(x, x)
        BY <1>12, RatesOrder
    <2> QED
        BY <1>8, <2>1, <2>2
<1>14. CASE Y # {}
    <2>1. PICK e \in Y : \A d \in Y : ~PaysLess(e, d)
        BY <1>4, <1>10, <1>11, <1>14
    <2>2. CASE PaysLess(e, x)
        <3>1. ASSUME NEW d \in X PROVE ~PaysLess(x, d)
            <4>1. CASE d = x
                BY <1>12, <4>1, RatesOrder
            <4>2. CASE d # x
                <5>1. ~PaysLess(e, d) /\ ~PaysLess(x, e)
                    BY <1>12, <2>1, <2>2, <4>2, RatesOrder
                <5> QED
                    BY <1>12, <2>1, <5>1, RatesOrder
            <4> QED
                BY <4>1, <4>2
        <3> QED
            BY <1>8, <1>9, <3>1
    <2>3. CASE ~PaysLess(e, x)
        <3>1. \A d \in X : ~PaysLess(e, d)
            BY <2>1, <2>3
        <3> QED
            BY <1>8, <2>1, <3>1
    <2> QED
        BY <2>2, <2>3
<1> QED
    BY <1>13, <1>14

\* Fees add up as costs do.
LEMMA FeesAddUp ==
    ASSUME NEW S \in SUBSET Txs, IsFiniteSet(S)
    PROVE  /\ FeeOf(S) \in Nat
           /\ FeeOf({}) = 0
           /\ \A t \in Txs \ S : FeeOf(S \cup {t}) = FeeOf(S) + Fee[t]
           /\ \A X \in SUBSET S : FeeOf(S) = FeeOf(S \ X) + FeeOf(X)
<1>1. Fee \in [Txs -> Nat]
    BY TxAssumption
<1>2. SumOf(Fee, S) \in Nat
    BY <1>1, SumType
<1>3. SumOf(Fee, {}) = 0
    <2>1. IsFiniteSet({}) /\ {} \in SUBSET Txs
        BY FS_EmptySet
    <2> QED
        BY <1>1, <2>1, SumRecurs
<1>4. ASSUME NEW t \in Txs \ S PROVE SumOf(Fee, S \cup {t}) = SumOf(Fee, S) + Fee[t]
    BY <1>1, SumAdds
<1>5. ASSUME NEW X \in SUBSET S PROVE SumOf(Fee, S) = SumOf(Fee, S \ X) + SumOf(Fee, X)
    BY <1>1, SumSplits
<1> QED
    BY <1>2, <1>3, <1>4, <1>5, CostIsSum

\* Fewer bundles cost no more.
LEMMA CostMonotone ==
    ASSUME NEW S \in SUBSET Txs, IsFiniteSet(S), NEW X \in SUBSET S
    PROVE  CostOf(X) \in Nat /\ CostOf(X) <= CostOf(S)
<1>1. IsFiniteSet(X) /\ IsFiniteSet(S \ X) /\ X \in SUBSET Txs /\ S \ X \in SUBSET Txs
    BY FS_Subset
<1>2. CostOf(X) \in Nat /\ CostOf(S \ X) \in Nat
    BY <1>1, CostsAddUp
<1>3. CostOf(S) = CostOf(S \ X) + CostOf(X)
    BY CostsAddUp
<1> QED
    BY <1>2, <1>3

\* There is always a way to make room: of the sets of cheapest items without which the
\* bundle fits a smallest one, and then its last item was needed.
LEMMA EvictionsExist ==
    ASSUME NEW P \in SUBSET Txs, IsFiniteSet(P), NEW t \in Txs
    PROVE  Evictions(P, t) # {}
<1> DEFINE Cheapest(E) == \A e \in E, s \in P \ E : ~PaysLess(s, e)
           Fits(E) == ~AtFullCapacity(CostOf(P \ E), t)
           Ways == {E \in SUBSET P : Cheapest(E) /\ Fits(E)}
           Sizes == {Cardinality(E) : E \in Ways}
<1>1. ASSUME NEW X \in SUBSET P
      PROVE  X \in SUBSET Txs /\ IsFiniteSet(X) /\ Cardinality(X) \in Nat
    BY FS_Subset, FS_CardinalityType
<1>2. P \in Ways
    <2>1. P \ P = {} /\ Cheapest(P)
        OBVIOUS
    <2>2. CostOf({}) = 0
        BY CostsAddUp
    <2>3. Cost[t] \in 1..MaxTotalCost /\ MaxTotalCost \in Nat
        BY TxAssumption
    <2>4. Fits(P)
        BY <2>1, <2>2, <2>3 DEF AtFullCapacity
    <2> QED
        BY <2>1, <2>4
<1>3. Sizes \subseteq Nat /\ Sizes # {}
    BY <1>1, <1>2
<1>4. PICK n \in Sizes : \A m \in Sizes : n <= m
    <2> HIDE DEF Sizes
    <2> QED
        BY <1>3, LeastNatural
<1>5. PICK E \in Ways : Cardinality(E) = n
    BY <1>4
<1>6. E \in SUBSET P /\ Cheapest(E) /\ Fits(E)
    BY <1>5
<1>7. ASSUME E # {}
      PROVE  \E e \in E : /\ \A d \in E : ~PaysLess(e, d)
                          /\ AtFullCapacity(CostOf((P \ E) \cup {e}), t)
    <2>1. PICK e \in E : \A d \in E : ~PaysLess(e, d)
        BY <1>1, <1>6, <1>7, HighestPayer
    <2> DEFINE F == E \ {e}
    <2>2. P \ F = (P \ E) \cup {e} /\ F \in SUBSET P
        BY <1>6, <2>1
    <2>3. Cheapest(F)
        <3> SUFFICES ASSUME NEW f \in F, NEW s \in P \ F PROVE ~PaysLess(s, f)
            OBVIOUS
        <3> QED
            BY <1>6, <2>1, <2>2
    <2>4. Cardinality(F) = Cardinality(E) - 1 /\ Cardinality(E) \in Nat /\ Cardinality(F) \in Nat
        BY <1>1, <1>6, <2>1, <2>2, FS_RemoveElement
    <2>5. F \notin Ways
        <3>1. ASSUME F \in Ways PROVE FALSE
            <4>1. Cardinality(F) \in Sizes
                BY <3>1
            <4> HIDE DEF Sizes
            <4>2. n <= Cardinality(F)
                BY <1>4, <4>1
            <4> QED
                BY <1>5, <2>4, <4>2
        <3> QED
            BY <3>1
    <2>6. ~Fits(F)
        BY <2>2, <2>3, <2>5
    <2> QED
        BY <2>1, <2>2, <2>6
<1>8. E \in Evictions(P, t)
    BY <1>6, <1>7 DEF Evictions
<1> QED
    BY <1>8

\* At capacity add_spendbundle compares the bundle with the items that would make room
\* for it in the whole pool, and add_to_pool then evicts from what the conflicting items
\* have left: it evicts no item that was not compared or does not pay less.
LEMMA EvictedPayLess ==
    ASSUME NEW P \in SUBSET Txs, IsFiniteSet(P), NEW t \in Txs, NEW C \in SUBSET P,
           NEW E \in Evictions(P \ C, t),
           AtFullCapacity(CostOf(P), t) =>
              \A D \in Evictions(P, t) : \A d \in D : PaysLess(d, t)
    PROVE  \A e \in E : PaysLess(e, t)
<1>1. Cost[t] \in Nat /\ MaxTotalCost \in Nat
    BY TxAssumption
<1>2. ASSUME NEW X \in SUBSET P, NEW Y \in SUBSET X, AtFullCapacity(CostOf(Y), t)
      PROVE  AtFullCapacity(CostOf(X), t)
    <2>1. X \in SUBSET Txs /\ IsFiniteSet(X)
        BY FS_Subset
    <2>2. CostOf(Y) \in Nat /\ CostOf(Y) <= CostOf(X)
        BY <2>1, CostMonotone
    <2>3. CostOf(X) \in Nat
        BY <2>1, CostsAddUp
    <2> QED
        BY <1>1, <1>2, <2>2, <2>3 DEF AtFullCapacity
<1>3. E \in SUBSET (P \ C) /\ \A e \in E, s \in (P \ C) \ E : ~PaysLess(s, e)
    BY DEF Evictions
<1> SUFFICES ASSUME E # {} PROVE \A e \in E : PaysLess(e, t)
    OBVIOUS
<1>4. PICK m \in E : /\ \A d \in E : ~PaysLess(m, d)
                     /\ AtFullCapacity(CostOf(((P \ C) \ E) \cup {m}), t)
    BY DEF Evictions
<1> DEFINE Kept == ((P \ C) \ E) \cup {m}
<1>5. Kept \in SUBSET P
    BY <1>3, <1>4
<1>6. AtFullCapacity(CostOf(P), t)
    <2>1. P \in SUBSET P
        OBVIOUS
    <2> QED
        BY <1>2, <1>4, <1>5, <2>1
<1>7. PICK D \in Evictions(P, t) : TRUE
    BY EvictionsExist
<1>8. D \in SUBSET P /\ ~AtFullCapacity(CostOf(P \ D), t) /\ \A d \in D : PaysLess(d, t)
    BY <1>6, <1>7 DEF Evictions
<1>9. PaysLess(m, t)
    <2> SUFFICES ASSUME ~PaysLess(m, t) PROVE FALSE
        OBVIOUS
    <2>1. \A d \in D : PaysLess(d, m)
        BY <1>3, <1>4, <1>8, RatesOrder
    <2>2. Kept \in SUBSET (P \ D)
        <3> SUFFICES ASSUME NEW k \in Kept, k \in D PROVE FALSE
            BY <1>5
        <3>1. k # m
            BY <1>3, <1>4, <2>1, RatesOrder
        <3>2. ~PaysLess(k, m)
            BY <1>3, <1>4, <3>1
        <3> QED
            BY <2>1, <3>2
    <2>3. P \ D \in SUBSET P
        OBVIOUS
    <2> HIDE DEF Kept
    <2>4. AtFullCapacity(CostOf(P \ D), t)
        BY <1>2, <1>4, <2>2, <2>3 DEF Kept
    <2> QED
        BY <1>8, <2>4
<1> QED
    BY <1>3, <1>4, <1>9, RatesOrder

\* Two sums that each pay less per cost than f/c do so together.
LEMMA PayLessTogether ==
    ASSUME NEW f \in Nat, NEW c \in Nat, NEW f1 \in Nat, NEW f2 \in Nat,
           NEW c1 \in Nat, NEW c2 \in Nat, f1 * c <= f * c1, f2 * c <= f * c2
    PROVE  /\ (f1 + f2) * c <= f * (c1 + c2)
           /\ f1 * c < f * c1 \/ f2 * c < f * c2 => (f1 + f2) * c < f * (c1 + c2)
<1>1. (f1 + f2) * c = f1 * c + f2 * c /\ f * (c1 + c2) = f * c1 + f * c2
    OBVIOUS
<1>2. f1 * c \in Nat /\ f2 * c \in Nat /\ f * c1 \in Nat /\ f * c2 \in Nat
    OBVIOUS
<1> QED
    BY <1>1, <1>2

\* Items that each pay less per cost than a bundle pay less per cost together.
LEMMA SumsPayLess ==
    ASSUME NEW S \in SUBSET Txs, IsFiniteSet(S), NEW t \in Txs, \A s \in S : PaysLess(s, t)
    PROVE  /\ FeeOf(S) * Cost[t] <= Fee[t] * CostOf(S)
           /\ S # {} => FeeOf(S) * Cost[t] < Fee[t] * CostOf(S)
<1> DEFINE Good(X) == /\ FeeOf(X) * Cost[t] <= Fee[t] * CostOf(X)
                      /\ X # {} => FeeOf(X) * Cost[t] < Fee[t] * CostOf(X)
           Bad == {X \in SUBSET S : ~Good(X)}
           Sizes == {Cardinality(X) : X \in Bad}
<1>1. ASSUME NEW X \in SUBSET S
      PROVE  /\ X \in SUBSET Txs /\ IsFiniteSet(X) /\ Cardinality(X) \in Nat
             /\ FeeOf(X) \in Nat /\ CostOf(X) \in Nat
    BY FS_Subset, FS_CardinalityType, FeesAddUp, CostsAddUp
<1>2. Cost[t] \in Nat /\ Fee[t] \in Nat
    BY TxAssumption
<1> SUFFICES ASSUME ~Good(S) PROVE FALSE
    OBVIOUS
<1>3. S \in Bad
    OBVIOUS
<1>4. \A X \in Bad : X \in SUBSET S /\ ~Good(X)
    OBVIOUS
<1>5. \A X \in SUBSET S : X \notin Bad => Good(X)
    OBVIOUS
<1>6. Sizes \subseteq Nat /\ Sizes # {}
    BY <1>1, <1>3
<1> HIDE DEF Bad
<1>7. PICK n \in Sizes : \A m \in Sizes : n <= m
    <2> HIDE DEF Sizes
    <2> QED
        BY <1>6, LeastNatural
<1>8. PICK X \in Bad : Cardinality(X) = n
    BY <1>7
<1>9. X \in SUBSET S /\ ~Good(X)
    BY <1>4, <1>8
<1>10. X # {}
    <2>1. FeeOf({}) = 0 /\ CostOf({}) = 0
        BY FeesAddUp, CostsAddUp
    <2>2. 0 * Cost[t] <= Fee[t] * 0
        BY <1>2
    <2> QED
        BY <1>9, <2>1, <2>2
<1>11. PICK x \in X : TRUE
    BY <1>10
<1> DEFINE Y == X \ {x}
<1>12. Y \in SUBSET S /\ x \in Txs /\ x \notin Y /\ X = Y \cup {x} /\ PaysLess(x, t)
    BY <1>9, <1>11
<1>13. Cardinality(Y) = Cardinality(X) - 1
    BY <1>1, <1>9, <1>11, FS_RemoveElement
<1>14. Y \notin Bad
    <2>1. ASSUME Y \in Bad PROVE FALSE
        <3>1. Cardinality(Y) \in Sizes
            BY <2>1
        <3> HIDE DEF Sizes
        <3>2. n <= Cardinality(Y)
            BY <1>7, <3>1
        <3>3. Cardinality(X) \in Nat
            BY <1>1, <1>9
        <3> QED
            BY <1>8, <1>13, <3>2, <3>3
    <2> QED
        BY <2>1
<1>15. Good(Y)
    BY <1>5, <1>12, <1>14
<1> HIDE DEF Y
<1>16. FeeOf(Y) \in Nat /\ CostOf(Y) \in Nat /\ Fee[x] \in Nat /\ Cost[x] \in Nat
    BY <1>1, <1>12, TxAssumption
<1>17. FeeOf(X) = FeeOf(Y) + Fee[x] /\ CostOf(X) = CostOf(Y) + Cost[x]
    BY <1>1, <1>12, FeesAddUp, CostsAddUp
<1>18. Fee[x] * Cost[t] < Fee[t] * Cost[x]
    BY <1>12 DEF PaysLess
<1>19. Fee[x] * Cost[t] <= Fee[t] * Cost[x]
    BY <1>2, <1>16, <1>18, Scale
<1>20. (FeeOf(Y) + Fee[x]) * Cost[t] < Fee[t] * (CostOf(Y) + Cost[x])
    BY <1>2, <1>15, <1>16, <1>18, <1>19, PayLessTogether
<1>21. (FeeOf(Y) + Fee[x]) * Cost[t] <= Fee[t] * (CostOf(Y) + Cost[x])
    BY <1>2, <1>15, <1>16, <1>18, <1>19, PayLessTogether
<1> QED
    BY <1>9, <1>17, <1>20, <1>21

\* What leaves when a bundle is admitted pays less per cost than the bundle, all together:
\* the conflicting items by can_replace, the evicted ones by the comparison at capacity.
LEMMA AdmitPaysMore ==
    ASSUME PoolShape, IndexMatchesItems, CostsCounted, NEW t \in Txs, t \notin mempool.spends,
           ~FeeTooLow(t), ~MustWait(t), Admit(t)
    PROVE  LET gone == mempool.spends \ mempool'.spends
           IN  gone # {} => /\ t \in mempool'.spends \ mempool.spends
                            /\ FeeOf(gone) * Cost[t] < Fee[t] * CostOf(gone)
<1> DEFINE P == mempool.spends
           C == Conflicts(t)
<1>1. PICK E \in Evictions(P \ C, t) : mempool' = AddToPool(RemoveFromPool(mempool, C \cup E), t)
    BY DEF Admit
<1>2. C \subseteq P
    BY TxAssumption DEF Conflicts, PoolShape, IndexMatchesItems
<1>3. E \subseteq P \ C
    BY DEF Evictions
<1>4. mempool'.spends = (P \ (C \cup E)) \cup {t}
    BY <1>1 DEF AddToPool, RemoveFromPool
<1> DEFINE G == C \cup E
<1>5. P \ mempool'.spends = G /\ t \in mempool'.spends \ P
    BY <1>2, <1>3, <1>4
<1>6. P \in SUBSET Txs /\ IsFiniteSet(P) /\ mempool.total_cost = CostOf(P)
    BY DEF PoolShape, CostsCounted, CostWithinLimit
<1>7. /\ G \in SUBSET Txs /\ IsFiniteSet(G) /\ C \in SUBSET Txs /\ IsFiniteSet(C)
      /\ E \in SUBSET Txs /\ IsFiniteSet(E)
    BY <1>2, <1>3, <1>6, FS_Subset
<1>8. G \ E = C /\ E \in SUBSET G
    BY <1>3
<1>9. \A e \in E : PaysLess(e, t)
    <2>1. AtFullCapacity(CostOf(P), t) => \A D \in Evictions(P, t) : \A d \in D : PaysLess(d, t)
        BY <1>6 DEF FeeTooLow
    <2> HIDE DEF P, C
    <2> QED
        BY <1>1, <1>2, <1>6, <2>1, EvictedPayLess
<1>10. C # {} => FeeOf(C) * Cost[t] < Fee[t] * CostOf(C)
    <2>1. C # {} => Fee[t] * CostOf(C) > FeeOf(C) * Cost[t]
        BY DEF MustWait, CanReplace
    <2>2. FeeOf(C) \in Nat /\ CostOf(C) \in Nat /\ Fee[t] \in Nat /\ Cost[t] \in Nat
        BY <1>7, FeesAddUp, CostsAddUp, TxAssumption
    <2>3. Fee[t] * CostOf(C) \in Nat /\ FeeOf(C) * Cost[t] \in Nat
        BY <2>2, Scale
    <2> QED
        BY <2>1, <2>3
<1> HIDE DEF P, C, G
<1>11. /\ FeeOf(C) \in Nat /\ CostOf(C) \in Nat /\ FeeOf(E) \in Nat /\ CostOf(E) \in Nat
       /\ Fee[t] \in Nat /\ Cost[t] \in Nat
    BY <1>7, FeesAddUp, CostsAddUp, TxAssumption
<1>12. FeeOf(G) = FeeOf(C) + FeeOf(E) /\ CostOf(G) = CostOf(C) + CostOf(E)
    BY <1>7, <1>8, FeesAddUp, CostsAddUp
<1>13. /\ FeeOf(E) * Cost[t] <= Fee[t] * CostOf(E)
       /\ E # {} => FeeOf(E) * Cost[t] < Fee[t] * CostOf(E)
    BY <1>7, <1>9, SumsPayLess
<1>14. FeeOf(C) * Cost[t] <= Fee[t] * CostOf(C)
    <2>1. CASE C = {}
        <3>1. FeeOf(C) = 0 /\ CostOf(C) = 0
            BY <1>7, <2>1, FeesAddUp, CostsAddUp
        <3>2. 0 * Cost[t] <= Fee[t] * 0
            BY <1>11
        <3> QED
            BY <3>1, <3>2
    <2>2. CASE C # {}
        <3>1. FeeOf(C) * Cost[t] \in Nat /\ Fee[t] * CostOf(C) \in Nat
            BY <1>11, Scale
        <3> QED
            BY <1>10, <2>2, <3>1
    <2> QED
        BY <2>1, <2>2
<1>15. ASSUME G # {} PROVE FeeOf(G) * Cost[t] < Fee[t] * CostOf(G)
    <2>1. C # {} \/ E # {}
        BY <1>15 DEF G
    <2>2. FeeOf(C) * Cost[t] < Fee[t] * CostOf(C) \/ FeeOf(E) * Cost[t] < Fee[t] * CostOf(E)
        BY <1>10, <1>13, <2>1
    <2>3. (FeeOf(C) + FeeOf(E)) * Cost[t] < Fee[t] * (CostOf(C) + CostOf(E))
        BY <1>11, <1>13, <1>14, <2>2, PayLessTogether
    <2> QED
        BY <1>12, <2>3
<1> QED
    BY <1>5, <1>15 DEF P

\* add_spendbundle, called with what Status says, replaces items only at a higher rate.
LEMMA AddSpendbundlePaysMore ==
    ASSUME PoolShape, IndexMatchesItems, CostsCounted, NEW t \in Txs,
           NEW spendable \in BOOLEAN, NEW authorized \in BOOLEAN,
           AddSpendbundle(t, Status(t, spendable, authorized))
    PROVE  LET gone == mempool.spends \ mempool'.spends
           IN  gone # {} => \E u \in mempool'.spends \ mempool.spends :
                  FeeOf(gone) * Cost[u] < Fee[u] * CostOf(gone)
<1> DEFINE status == Status(t, spendable, authorized)
<1>1. CASE status = "SUCCESS" /\ t \notin mempool.spends
    <2>1. Admit(t)
        BY <1>1 DEF AddSpendbundle
    <2>2. ~FeeTooLow(t) /\ ~MustWait(t)
        BY <1>1 DEF Status
    <2> QED
        BY <1>1, <2>1, <2>2, AdmitPaysMore
<1>2. CASE ~(status = "SUCCESS" /\ t \notin mempool.spends)
    <2>1. UNCHANGED mempool
        BY <1>2 DEF AddSpendbundle
    <2> QED
        BY <2>1
<1> QED
    BY <1>1, <1>2

\* So does every step, but for new_peak's, which empties the pool to fill it again.
LEMMA ReplacementStep ==
    ASSUME MempoolInv, BookInv, [Next]_vars, receiving'.pc # "pool"
    PROVE  LET gone == mempool.spends \ mempool'.spends
           IN  gone # {} => \E t \in mempool'.spends \ mempool.spends :
                  FeeOf(gone) * Cost[t] < Fee[t] * CostOf(gone)
<1> DEFINE gone == mempool.spends \ mempool'.spends
           Goal == gone # {} => \E t \in mempool'.spends \ mempool.spends :
                      FeeOf(gone) * Cost[t] < Fee[t] * CostOf(gone)
<1> SUFFICES Goal
    OBVIOUS
<1>0. PoolShape /\ IndexMatchesItems /\ CostsCounted /\ PeakShape
    BY DEF MempoolInv, Shape, BookInv
<1>1. CASE UNCHANGED mempool
    BY <1>1
<1>2. ASSUME NEW t \in Txs, FinishAdd(t) PROVE Goal
    <2>1. PICK c \in tasks[t].unread :
             AddSpendbundle(t, Status(t, /\ ~tasks[t].spent
                                         /\ ~Missing(t, c, coins_at)
                                         /\ ~AlreadySpent(t, c, coins_at),
                                      t \in Authorized))
        BY <1>2 DEF FinishAdd
    <2>2. /\ (/\ ~tasks[t].spent
              /\ ~Missing(t, c, coins_at)
              /\ ~AlreadySpent(t, c, coins_at)) \in BOOLEAN
          /\ (t \in Authorized) \in BOOLEAN
        OBVIOUS
    <2> QED
        BY <1>0, <2>1, <2>2, AddSpendbundlePaysMore
<1>3. CASE RestartPool
    <2>1. receiving'.pc = "pool"
        BY <1>0, <1>3 DEF RestartPool, PeakShape
    <2> QED
        BY <2>1
<1>4. ASSUME NEW t \in Txs, ReaddItem(t) PROVE Goal
    <2>1. AddSpendbundle(t, Status(t, SpendableAt(t, coins_at), TRUE))
        BY <1>4 DEF ReaddItem
    <2>2. SpendableAt(t, coins_at) \in BOOLEAN
        BY DEF SpendableAt
    <2> QED
        BY <1>0, <2>1, <2>2, AddSpendbundlePaysMore
<1>5. CASE RetryItem
    <2> DEFINE t == Head(receiving.retry)
    <2>1. t \in Txs
        BY <1>0, <1>5 DEF RetryItem, PeakShape
    <2>2. AddSpendbundle(t, Status(t, SpendableAt(t, coins_at), t \in Authorized))
        BY <1>5 DEF RetryItem
    <2>3. SpendableAt(t, coins_at) \in BOOLEAN /\ (t \in Authorized) \in BOOLEAN
        BY DEF SpendableAt
    <2> HIDE DEF t
    <2> QED
        BY <1>0, <2>1, <2>2, <2>3, AddSpendbundlePaysMore
<1>6. ASSUME NEW t \in Txs,
             \/ Submit(t) \/ PreValidated(t) \/ PreValidationRaises(t)
             \/ RefuseAtOnce(t) \/ ReadCoin(t)
      PROVE  UNCHANGED mempool
    BY <1>6 DEF Submit, PreValidated, PreValidationRaises, RefuseAtOnce, ReadCoin
<1>7. ASSUME \/ \E b \in Rooted : ReceiveBlock(b)
             \/ ApplyBlock \/ CommitBlock \/ SkipPeak \/ TakePeak \/ TakePotential
             \/ LeavePool \/ AnnounceItem \/ AnnouncePeak \/ PeakTaskEnds \/ UNCHANGED vars
      PROVE  UNCHANGED mempool
    BY <1>7 DEF ReceiveBlock, ApplyBlock, CommitBlock, SkipPeak, TakePeak, TakePotential,
       LeavePool, AnnounceItem, AnnouncePeak, PeakTaskEnds, vars
<1> HIDE DEF Goal
<1> QED
    BY <1>1, <1>2, <1>3, <1>4, <1>5, <1>6, <1>7 DEF Next, TxStep, PeakStep

\* Nobody gets an item out of the mempool without paying more per cost than all that
\* leaves: neither by a conflict nor by filling it up.
THEOREM ReplacementsAlwaysPayMore == Spec => ReplacementsPayMore
<1>1. MempoolInv /\ BookInv /\ [Next]_vars =>
        [receiving'.pc # "pool" =>
            LET gone == mempool.spends \ mempool'.spends
            IN  gone # {} => \E t \in mempool'.spends \ mempool.spends :
                   FeeOf(gone) * Cost[t] < Fee[t] * CostOf(gone)]_vars
    BY ReplacementStep
<1> QED
    BY <1>1, MempoolAlways, BookAlways, PTL DEF Spec, ReplacementsPayMore
=============================================================================
