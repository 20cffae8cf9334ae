--------------------------- MODULE MempoolManager ---------------------------
(***************************************************************************)
(* chia/full_node/mempool_manager.py and mempool.py, between the tasks that *)
(* drive them in full_node.py: respond_transaction adds one spend bundle    *)
(* under mempool_manager.lock; the task that has received a new peak, still *)
(* under blockchain.lock, rebuilds the mempool (new_peak) and announces     *)
(* what has entered it (peak_post_processing).                              *)
(*                                                                          *)
(* respond_transaction does not take blockchain.lock: it reads coin records *)
(* while _reconsider_peak rewrites them.  By Blockchain.tla the coin store  *)
(* is at each of these moments the one of some block's chain; here it is    *)
(* represented by that block.                                               *)
(***************************************************************************)
EXTENDS BlockTree, Sequences, FiniteSetsExt

CONSTANTS
    Txs,             \* the spend bundles that peers send, by spend_name
    PeakTask,        \* the task that holds blockchain.lock
    TxRemovals,      \* coins that a bundle spends ...
    TxAdditions,     \* ... and creates
    Cost,
    Fee,
    MinHeight,       \* the bundle's ASSERT_HEIGHT_ABSOLUTE
    WellFormed,      \* bundles that pass the checks made before any coin is read
    Satisfied,       \* bundles whose other conditions hold; one that fails comes first
    Authorized,      \* bundles that pass the signature check
    MaxTotalCost,    \* mempool_max_total_cost
    PotentialMax,    \* the initial potential_cache_max_total_cost
    MinFpc,          \* nonzero_fee_minimum_fpc
    MinFeeIncrease,  \* get_min_fee_increase()
    SeenSize         \* seen_cache_size

ASSUME TxAssumption ==
    /\ PeakTask \notin Txs /\ NONE \notin Txs
    /\ TxRemovals \in [Txs -> SUBSET Coins \ {{}}]
    /\ TxAdditions \in [Txs -> SUBSET Coins]
    /\ Cost \in [Txs -> 1..MaxTotalCost]
    /\ Fee \in [Txs -> Nat]
    /\ MinHeight \in [Txs -> Nat]
    /\ WellFormed \subseteq Txs
    /\ Satisfied \subseteq Txs
    /\ Authorized \subseteq Txs
    /\ {MaxTotalCost, PotentialMax, MinFpc, MinFeeIncrease, SeenSize} \subseteq Nat

VARIABLES
    chain_peak,     \* blockchain.get_peak()
    coins_at,       \* the block to whose chain the coin store corresponds
    receiving,      \* the task that holds blockchain.lock, if any
    peak,           \* MempoolManager.peak
    mempool,        \* Mempool: spends, removals (the index by coin), total_mempool_cost
    potential,      \* potential_txs (by age), potential_cache_cost and its limit
    seen,           \* seen_bundle_hashes, its keys
    lock,           \* mempool_manager.lock: its holder, and then the waiters in order
    tasks           \* tasks[t]: the respond_transaction(t) under way

chain == <<chain_peak, coins_at>>
vars == <<chain, receiving, peak, mempool, potential, seen, lock, tasks>>

EmptyPool == [spends |-> {}, removals |-> [c \in Coins |-> NONE], total_cost |-> 0]
NoTask == [pc |-> "idle", unread |-> {}, spent |-> FALSE]
\* left: items of the old pool still to add; retry: potential items still to add;
\* added: potential items that were added, still to announce.
NoPeak == [pc |-> "idle", block |-> NONE, left |-> {}, retry |-> <<>>, added |-> <<>>]

\* FullNode._start: the chain on disk is loaded and its peak given to the mempool.
Init ==
    /\ chain_peak \in {b \in Rooted : \A h \in 0..Height[b] : ValidOnOwnChain(Ancestor[b][h])}
    /\ coins_at = chain_peak
    /\ receiving = NoPeak
    /\ peak = IF IsTx[chain_peak] THEN chain_peak ELSE NONE
    /\ mempool = EmptyPool
    /\ potential = [txs |-> <<>>, cost |-> 0, max |-> PotentialMax]
    /\ seen = {}
    /\ lock = <<>>
    /\ tasks = [t \in Txs |-> NoTask]

----------------------------------------------------------------------------
(* The coin store                                                           *)

\* The heights of b's chain; none for an empty chain.
ChainHeights(b) == IF b = NONE THEN {} ELSE 0..Height[b]
InStore(c, b) == \E h \in ChainHeights(b) : c \in Created(Ancestor[b][h])
SpentIn(c, b) == \E h \in ChainHeights(b) : c \in Removals[Ancestor[b][h]]

\* get_coin_record is None and the bundle does not create the coin itself.
Missing(t, c, b) == c \notin TxAdditions[t] /\ ~InStore(c, b)
AlreadySpent(t, c, b) == c \notin TxAdditions[t] /\ SpentIn(c, b)

\* Every coin that the bundle spends is there to be spent.
SpendableAt(t, b) == \A c \in TxRemovals[t] : ~Missing(t, c, b) /\ ~AlreadySpent(t, c, b)

----------------------------------------------------------------------------
(* Mempool                                                                  *)

CostOf(S) == MapThenSumSet(LAMBDA t : Cost[t], S)
FeeOf(S) == MapThenSumSet(LAMBDA t : Fee[t], S)

\* Fee per cost: t's is smaller than u's.
PaysLess(t, u) == Fee[t] * Cost[u] < Fee[u] * Cost[t]

\* Mutant: the cost of the new item is left out.
FullAlready(pool_cost, t) == pool_cost > MaxTotalCost

AtFullCapacity(pool_cost, t) == pool_cost + Cost[t] > MaxTotalCost

\* The items that go, in order of increasing fee per cost, until t fits; the last
\* one to go is the one whose fee per cost get_min_fee_rate returns.
Evictions(spends, t) ==
    {E \in SUBSET spends :
        /\ ~AtFullCapacity(CostOf(spends \ E), t)
        /\ \A e \in E, s \in spends \ E : ~PaysLess(s, e)
        /\ E # {} => \E e \in E :
              /\ \A d \in E : ~PaysLess(e, d)
              /\ AtFullCapacity(CostOf((spends \ E) \cup {e}), t)}

\* Mutant: the index by coin keeps the removed items.
KeepsIndex(pool, S) ==
    [pool EXCEPT !.spends = @ \ S, !.total_cost = @ - CostOf(S)]

RemoveFromPool(pool, S) ==
    [spends |-> pool.spends \ S,
     removals |-> [c \in Coins |->
        IF \E t \in S : c \in TxRemovals[t] THEN NONE ELSE pool.removals[c]],
     total_cost |-> pool.total_cost - CostOf(S)]

AddToPool(pool, t) ==
    [spends |-> pool.spends \cup {t},
     removals |-> [c \in Coins |-> IF c \in TxRemovals[t] THEN t ELSE pool.removals[c]],
     total_cost |-> pool.total_cost + Cost[t]]

----------------------------------------------------------------------------
(* add_spendbundle                                                          *)

\* Mutant: at capacity any fee that is not close to zero will do.
FeeNearZero(t) == AtFullCapacity(mempool.total_cost, t) /\ Fee[t] < MinFpc * Cost[t]

\* At capacity a bundle has to pay more than each item that would make room for it.
FeeTooLow(t) ==
    /\ AtFullCapacity(mempool.total_cost, t)
    /\ \/ Fee[t] < MinFpc * Cost[t]
       \/ \E E \in Evictions(mempool.spends, t) : \E e \in E : ~PaysLess(e, t)

Conflicts(t) == {mempool.removals[c] : c \in TxRemovals[t]} \ {NONE}

CanReplace(t) ==
    /\ \A u \in Conflicts(t) : TxRemovals[u] \subseteq TxRemovals[t]
    /\ Fee[t] * CostOf(Conflicts(t)) > FeeOf(Conflicts(t)) * Cost[t]
    /\ Fee[t] >= FeeOf(Conflicts(t)) + MinFeeIncrease

TooEarly(t) == Height[peak] < MinHeight[t]

\* A bundle that may enter later is put aside.
MustWait(t) ==
    \/ Conflicts(t) # {} /\ ~CanReplace(t)
    \/ t \in Satisfied /\ TooEarly(t)

\* remove_from_pool for the conflicting items, then add_to_pool.
Admit(t) ==
    \E E \in Evictions(mempool.spends \ Conflicts(t), t) :
        mempool' = AddToPool(RemoveFromPool(mempool, Conflicts(t) \cup E), t)

PotentialTxs == {potential.txs[i] : i \in DOMAIN potential.txs}

\* add_to_potential_tx_set overflows: the loop lowers the limit instead of the cost,
\* so it empties the set and then raises IndexError.
Overflows(t) == t \notin PotentialTxs /\ potential.cost + Cost[t] > potential.max

AddToPotential(t) ==
    potential' =
        IF t \in PotentialTxs THEN potential
        ELSE IF Overflows(t)
             THEN [txs |-> <<>>, cost |-> potential.cost + Cost[t],
                   max |-> potential.max - CostOf(PotentialTxs \cup {t})]
             ELSE [potential EXCEPT !.txs = Append(@, t), !.cost = @ + Cost[t]]

\* What add_spendbundle returns, or that it raises, after it has read the coins.
Status(t, spendable, authorized) ==
    IF t \in mempool.spends THEN "SUCCESS"
    ELSE IF ~spendable \/ FeeTooLow(t) THEN "FAILED"
    ELSE IF MustWait(t) THEN IF Overflows(t) THEN "RAISED" ELSE "PENDING"
    ELSE IF t \in Satisfied /\ authorized THEN "SUCCESS" ELSE "FAILED"

AddSpendbundle(t, status) ==
    IF status \in {"PENDING", "RAISED"} THEN AddToPotential(t) /\ UNCHANGED mempool
    ELSE IF status = "SUCCESS" /\ t \notin mempool.spends THEN Admit(t) /\ UNCHANGED potential
    ELSE UNCHANGED <<mempool, potential>>

----------------------------------------------------------------------------
(* respond_transaction                                                      *)

\* Mutant: no bundle is ever forgotten.
NeverPopSeen(t) == {seen \cup {t}}

\* add_and_maybe_pop_seen: a bundle too many pushes one out, in the code the oldest.
AddSeen(t) ==
    IF Cardinality(seen) < SeenSize THEN {seen \cup {t}}
    ELSE {(seen \cup {t}) \ {u} : u \in seen}

\* Bound: one respond_transaction at a time for each bundle.
Submit(t) ==
    /\ tasks[t].pc = "idle"
    /\ t \notin seen
    /\ seen' \in AddSeen(t)
    /\ tasks' = [tasks EXCEPT ![t].pc = "validating"]
    /\ UNCHANGED <<chain, receiving, peak, mempool, potential, lock>>

\* pre_validate_spendbundle has run in the process pool.
PreValidated(t) ==
    /\ tasks[t].pc = "validating"
    /\ lock' = Append(lock, t)
    /\ tasks' = [tasks EXCEPT ![t].pc = "waiting", ![t].unread = TxRemovals[t]]
    /\ UNCHANGED <<chain, receiving, peak, mempool, potential, seen>>

PreValidationRaises(t) ==
    /\ tasks[t].pc = "validating"
    /\ seen' = seen \ {t}
    /\ tasks' = [tasks EXCEPT ![t] = NoTask]
    /\ UNCHANGED <<chain, receiving, peak, mempool, potential, lock>>

\* Mutant: a bundle that is in the mempool already returns without the release.
KeepsLock(t) == lock' = IF t \in mempool.spends THEN lock ELSE Tail(lock)

Release(t) == lock' = Tail(lock)

Holds(t) == lock # <<>> /\ Head(lock) = t

\* Under the lock: the bundle has entered meanwhile, or fails the first checks.
RefuseAtOnce(t) ==
    /\ tasks[t].pc = "waiting" /\ Holds(t)
    /\ t \in mempool.spends \/ peak = NONE \/ t \notin WellFormed
    /\ seen' = seen \ {t}
    /\ Release(t)
    /\ tasks' = [tasks EXCEPT ![t] = NoTask]
    /\ UNCHANGED <<chain, receiving, peak, mempool, potential>>

\* The bundle holds the lock and has passed the first checks.
Reading(t) ==
    /\ tasks[t].pc = "waiting" /\ Holds(t)
    /\ t \notin mempool.spends /\ peak # NONE /\ t \in WellFormed

\* One coin record, of several; the task is suspended after it.
ReadCoin(t) ==
    /\ Reading(t)
    /\ Cardinality(tasks[t].unread) > 1
    /\ \E c \in tasks[t].unread :
          IF Missing(t, c, coins_at)
          THEN /\ seen' = seen \ {t}
               /\ Release(t)
               /\ tasks' = [tasks EXCEPT ![t] = NoTask]
          ELSE /\ tasks' = [tasks EXCEPT ![t].unread = @ \ {c},
                                         ![t].spent = @ \/ AlreadySpent(t, c, coins_at)]
               /\ UNCHANGED <<seen, lock>>
    /\ UNCHANGED <<chain, receiving, peak, mempool, potential>>

\* The last coin record, and all that follows it without an await.
FinishAdd(t) ==
    /\ Reading(t)
    /\ \E c \in tasks[t].unread :
          /\ tasks[t].unread = {c}
          /\ LET spendable == /\ ~tasks[t].spent
                              /\ ~Missing(t, c, coins_at)
                              /\ ~AlreadySpent(t, c, coins_at)
                 status == Status(t, spendable, t \in Authorized)
             IN  /\ AddSpendbundle(t, status)
                 /\ seen' = IF status \in {"SUCCESS", "RAISED"} THEN seen ELSE seen \ {t}
    /\ Release(t)
    /\ tasks' = [tasks EXCEPT ![t] = NoTask]
    /\ UNCHANGED <<chain, receiving, peak>>

----------------------------------------------------------------------------
(* A new peak                                                               *)

\* receive_block finds a block heavier than the peak; the coin store goes back to
\* the fork ...
ReceiveBlock(b) ==
    /\ receiving.pc = "idle"
    /\ \A h \in 0..Height[b] : ValidOnOwnChain(Ancestor[b][h])
    /\ Height[b] > 0 /\ Weight[b] > Weight[chain_peak]
    /\ \E f \in ForkPoints(chain_peak, b) :
          coins_at' = IF f = -1 THEN NONE ELSE Ancestor[b][f]
    /\ receiving' = [NoPeak EXCEPT !.pc = "apply", !.block = b]
    /\ UNCHANGED <<chain_peak, peak, mempool, potential, seen, lock, tasks>>

\* ... and forward again, block by block ...
ApplyBlock ==
    /\ receiving.pc = "apply"
    /\ coins_at # receiving.block
    /\ coins_at' = Ancestor[receiving.block][IF coins_at = NONE THEN 0 ELSE Height[coins_at] + 1]
    /\ UNCHANGED <<chain_peak, receiving, peak, mempool, potential, seen, lock, tasks>>

\* ... until the transaction is committed and the block is the peak.
CommitBlock ==
    /\ receiving.pc = "apply"
    /\ coins_at = receiving.block
    /\ chain_peak' = receiving.block
    /\ receiving' = [receiving EXCEPT !.pc = "new_peak"]
    /\ UNCHANGED <<coins_at, peak, mempool, potential, seen, lock, tasks>>

\* new_peak: nothing happens unless the peak is a transaction block.
SkipPeak ==
    /\ receiving.pc = "new_peak"
    /\ ~IsTx[chain_peak]
    /\ receiving' = NoPeak
    /\ UNCHANGED <<chain, peak, mempool, potential, seen, lock, tasks>>

\* self.peak is set before the lock is taken.
TakePeak ==
    /\ receiving.pc = "new_peak"
    /\ IsTx[chain_peak]
    /\ peak' = chain_peak
    /\ lock' = Append(lock, PeakTask)
    /\ receiving' = [receiving EXCEPT !.pc = "lock"]
    /\ UNCHANGED <<chain, mempool, potential, seen, tasks>>

\* Mutant: the pool is kept as it is.
KeepPool ==
    /\ receiving.pc = "lock" /\ Holds(PeakTask)
    /\ receiving' = [receiving EXCEPT !.pc = "pool"]
    /\ UNCHANGED <<chain, peak, mempool, potential, seen, lock, tasks>>

\* Under the lock an empty Mempool takes the place of the old one, which is a
\* reference to the pool that the last holder of the lock has filled.
RestartPool ==
    /\ receiving.pc = "lock" /\ Holds(PeakTask)
    /\ mempool' = EmptyPool
    /\ receiving' = [receiving EXCEPT !.pc = "pool", !.left = mempool.spends]
    /\ UNCHANGED <<chain, peak, potential, seen, lock, tasks>>

\* An exception leaves new_peak and then peak_post_processing.
PeakFails ==
    /\ Release(PeakTask)
    /\ receiving' = [NoPeak EXCEPT !.pc = "failed"]

\* One item of the old pool; its signature was checked when it came.
ReaddItem(t) ==
    /\ receiving.pc = "pool" /\ t \in receiving.left
    /\ LET status == Status(t, SpendableAt(t, coins_at), TRUE)
       IN  /\ AddSpendbundle(t, status)
           /\ seen' = IF status \in {"SUCCESS", "RAISED"} THEN seen ELSE seen \ {t}
           /\ IF status = "RAISED" THEN PeakFails
              ELSE /\ receiving' = [receiving EXCEPT !.left = @ \ {t}]
                   /\ UNCHANGED lock
    /\ UNCHANGED <<chain, peak, tasks>>

TakePotential ==
    /\ receiving.pc = "pool" /\ receiving.left = {}
    /\ potential' = [potential EXCEPT !.txs = <<>>]
    /\ receiving' = [receiving EXCEPT !.pc = "retry", !.retry = potential.txs]
    /\ UNCHANGED <<chain, peak, mempool, seen, lock, tasks>>

\* One item of the potential set.
RetryItem ==
    /\ receiving.pc = "retry" /\ receiving.retry # <<>>
    /\ LET t == Head(receiving.retry)
           status == Status(t, SpendableAt(t, coins_at), t \in Authorized)
       IN  /\ AddSpendbundle(t, status)
           /\ IF status = "RAISED" THEN PeakFails
              ELSE /\ receiving' = [receiving EXCEPT
                         !.retry = Tail(@),
                         !.added = IF status = "SUCCESS" THEN Append(@, t) ELSE @]
                   /\ UNCHANGED lock
    /\ UNCHANGED <<chain, peak, seen, tasks>>

\* peak_post_processing asserts that each item which new_peak has added is in the
\* mempool, and sends it to the peers.  It is suspended while it sends, never before
\* the first assertion.
Announcing(items) ==
    IF items # <<>> /\ Head(items) \notin mempool.spends
    THEN [NoPeak EXCEPT !.pc = "failed"]
    ELSE [NoPeak EXCEPT !.pc = "announce", !.added = items]

\* Mutant: the lock is not released at the end of new_peak.
LeavePoolLocked ==
    /\ receiving.pc = "retry" /\ receiving.retry = <<>>
    /\ receiving' = Announcing(receiving.added)
    /\ UNCHANGED <<chain, peak, mempool, potential, seen, lock, tasks>>

LeavePool ==
    /\ receiving.pc = "retry" /\ receiving.retry = <<>>
    /\ Release(PeakTask)
    /\ receiving' = Announcing(receiving.added)
    /\ UNCHANGED <<chain, peak, mempool, potential, seen, tasks>>

\* An item was sent; the next one is looked up.
AnnounceItem ==
    /\ receiving.pc = "announce" /\ receiving.added # <<>>
    /\ receiving' = Announcing(Tail(receiving.added))
    /\ UNCHANGED <<chain, peak, mempool, potential, seen, lock, tasks>>

\* The peers, timelords and wallets are told of the peak; blockchain.lock is released.
AnnouncePeak ==
    /\ receiving.pc = "announce" /\ receiving.added = <<>>
    /\ receiving' = NoPeak
    /\ UNCHANGED <<chain, peak, mempool, potential, seen, lock, tasks>>

\* An exception releases blockchain.lock: nobody is told.
PeakTaskEnds ==
    /\ receiving.pc = "failed"
    /\ receiving' = NoPeak
    /\ UNCHANGED <<chain, peak, mempool, potential, seen, lock, tasks>>

----------------------------------------------------------------------------
(* Farming                                                                  *)

\* declare_proof_of_space takes blockchain.lock and looks for the last transaction
\* block; create_bundle_from_mempool hands out items if that is self.peak.
Farmable ==
    /\ receiving.pc = "idle"
    /\ \E h \in 0..Height[chain_peak] :
          /\ peak = Ancestor[chain_peak][h]
          /\ IsTx[peak]
          /\ \A k \in (h + 1)..Height[chain_peak] : ~IsTx[Ancestor[chain_peak][k]]

----------------------------------------------------------------------------
TxStep(t) ==
    \/ PreValidated(t)
    \/ PreValidationRaises(t)
    \/ RefuseAtOnce(t)
    \/ ReadCoin(t)
    \/ FinishAdd(t)

PeakStep ==
    \/ ApplyBlock
    \/ CommitBlock
    \/ SkipPeak
    \/ TakePeak
    \/ RestartPool
    \/ \E t \in Txs : ReaddItem(t)
    \/ TakePotential
    \/ RetryItem
    \/ LeavePool
    \/ AnnounceItem
    \/ AnnouncePeak
    \/ PeakTaskEnds

Next ==
    \/ \E t \in Txs : Submit(t) \/ TxStep(t)
    \/ \E b \in Rooted : ReceiveBlock(b)
    \/ PeakStep

\* The event loop runs every task that is not waiting, and asyncio.Lock wakes its
\* waiters in order; nothing makes peers send bundles or blocks.
Fairness == WF_vars(PeakStep) /\ \A t \in Txs : WF_vars(TxStep(t))

Spec == Init /\ [][Next]_vars /\ Fairness

----------------------------------------------------------------------------
(* Properties                                                               *)

\* The type of every variable; the lock is queued for by the tasks that want it, once.
TypeOK ==
    /\ chain_peak \in Rooted
    /\ coins_at \in Rooted \cup {NONE}
    /\ peak \in Rooted \cup {NONE}
    /\ receiving \in [pc : {"idle", "apply", "new_peak", "lock", "pool", "retry",
                            "announce", "failed"},
                      block : Rooted \cup {NONE}, left : SUBSET Txs,
                      retry : Seq(Txs), added : Seq(Txs)]
    /\ mempool \in [spends : SUBSET Txs, removals : [Coins -> Txs \cup {NONE}],
                    total_cost : Nat]
    /\ potential \in [txs : Seq(Txs), cost : Nat, max : Int]
    /\ seen \subseteq Txs /\ Cardinality(seen) <= SeenSize
    /\ tasks \in [Txs -> [pc : {"idle", "validating", "waiting"},
                          unread : SUBSET Coins, spent : BOOLEAN]]
    /\ \A q \in Txs \cup {PeakTask} :
          Cardinality({i \in DOMAIN lock : lock[i] = q}) =
             IF \/ q \in Txs /\ tasks[q].pc = "waiting"
                \/ q = PeakTask /\ receiving.pc \in {"lock", "pool", "retry"}
             THEN 1 ELSE 0

\* The index by coin is the one of the items: no coin is spent by two of them, and
\* none is locked by an item that was replaced, evicted or dropped.
IndexMatchesItems ==
    \A c \in Coins : \A t \in Txs :
        mempool.removals[c] = t <=> t \in mempool.spends /\ c \in TxRemovals[t]

\* total_mempool_cost is the cost of the items, and within the limit.
CostWithinLimit ==
    mempool.total_cost = CostOf(mempool.spends) /\ mempool.total_cost <= MaxTotalCost

\* When a farmer can ask for a block on a transaction block that is the peak
\* (create_bundle_from_mempool, under blockchain.lock), every item can be included:
\* its coins exist and are unspent on the chain, and its height has come.  Not even
\* bundles that were checked while the coin store was being rewritten are left.
MempoolMatchesPeak ==
    receiving.pc = "idle" /\ peak = chain_peak =>
        \A t \in mempool.spends : SpendableAt(t, chain_peak) /\ Height[peak] >= MinHeight[t]

\* "The mempool will correspond to a certain peak": what a farmer is given can be
\* included in the next block, also when the peak is not a transaction block.
FarmableItemsSpendable ==
    Farmable => \A t \in mempool.spends : SpendableAt(t, chain_peak)

\* Items leave the mempool for a new one only if it pays more per cost than they do
\* together; otherwise only new_peak empties the mempool.
ReplacementsPayMore ==
    [][receiving'.pc # "pool" =>
          LET gone == mempool.spends \ mempool'.spends
          IN  gone # {} => \E t \in mempool'.spends \ mempool.spends :
                 FeeOf(gone) * Cost[t] < Fee[t] * CostOf(gone)]_vars

\* The holder of blockchain.lock waits for mempool_manager.lock, and always gets it:
\* every new peak is dealt with.
PeakIsProcessed == receiving.pc # "idle" ~> receiving.pc = "idle"

\* Every bundle is answered.
BundleIsAnswered == \A t \in Txs : tasks[t].pc # "idle" ~> tasks[t].pc = "idle"

\* peak_post_processing "notifies peers about the new peak": it is not left by an
\* exception.
PeakIsAnnounced == receiving.pc # "failed"
=============================================================================
