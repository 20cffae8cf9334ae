----------------------------- MODULE Blockchain -----------------------------
(***************************************************************************)
(* chia/consensus/blockchain.py with the two stores it writes through one   *)
(* sqlite connection, full_node/block_store.py and full_node/coin_store.py. *)
(*                                                                          *)
(* Every caller holds blockchain.lock, so one receive_block runs at a time. *)
(* Its database part awaits between statements: there the process may die,  *)
(* or an exception (a failing statement, a cancelled task) may strike.      *)
(* Each action below runs from one such await to the next.                  *)
(***************************************************************************)
EXTENDS BlockTree

CONSTANTS
    BLOCKS_CACHE_SIZE,  \* how far below the peak block records stay in memory
    MaxBatch,           \* bound: blocks in one pre-validated batch
    AbortPoints,        \* the control points at which an exception may strike
    WpMismatch          \* may a batch disagree with the weight proof's summaries

ASSUME ParameterAssumption ==
    /\ BLOCKS_CACHE_SIZE \in Nat \ {0}
    /\ MaxBatch \in Nat
    /\ AbortPoints \subseteq {"add", "reconsider", "collect", "apply", "commit"}
    /\ WpMismatch \in BOOLEAN

VARIABLES
    db,                \* what sqlite has committed: [blocks, peak, coins]
    tx,                \* what the connection sees, uncommitted writes included
    block_records,     \* Blockchain.__block_records, its keys
    heights_in_cache,  \* Blockchain.__heights_in_cache, its keys
    height_to_hash,    \* Blockchain.__height_to_hash; NONE where there is no key
    peak_height,       \* Blockchain._peak_height; -1 for None
    ses,               \* Blockchain.__sub_epoch_summaries: the including block
    block_cache,       \* BlockStore.block_cache, its keys
    coin_cache,        \* CoinStore.coin_record_cache; NONE where there is no key
    task,              \* the receive_block under way
    result,            \* what the last receive_block returned
    running            \* FALSE from a crash until Blockchain.create has run

memory == <<block_records, heights_in_cache, height_to_hash, peak_height, ses>>
vars == <<db, tx, memory, block_cache, coin_cache, task, result, running>>

----------------------------------------------------------------------------
(* State                                                                    *)

CoinRecord == [confirmed : Heights, spent_index : Heights, spent : BOOLEAN]
CoinTable == [Coins -> CoinRecord \cup {NONE}]
Database == [blocks : SUBSET Blocks, peak : Blocks \cup {NONE}, coins : CoinTable]

ASSUME NoneAssumption == NONE \notin CoinRecord

NoCoins == [c \in Coins |-> NONE]
EmptyDatabase == [blocks |-> {}, peak |-> NONE, coins |-> NoCoins]

\* block: the argument; fork: the fork height, from ReconsiderPeak on; next: the
\* height of the next block to apply; new_peak: does the block become the peak.
Idle == [pc |-> "idle", block |-> NONE, fork |-> -1, next |-> 0, new_peak |-> FALSE]
NoResult == [code |-> "NONE", block |-> NONE, fork |-> -1]

Codes == {"NONE", "NEW_PEAK", "ADDED_AS_ORPHAN", "INVALID_BLOCK",
          "ALREADY_HAVE_BLOCK", "DISCONNECTED_BLOCK", "RAISED"}

NoHeights == [h \in Heights |-> NONE]

Init ==
    /\ db = EmptyDatabase
    /\ tx = EmptyDatabase
    /\ block_records = {}
    /\ heights_in_cache = {}
    /\ height_to_hash = NoHeights
    /\ peak_height = -1
    /\ ses = NoHeights
    /\ block_cache = {}
    /\ coin_cache = NoCoins
    /\ task = Idle
    /\ result = NoResult
    /\ running = TRUE

Peak == height_to_hash[peak_height]

AtRest == running /\ task.pc = "idle"

----------------------------------------------------------------------------
(* CoinStore                                                                *)

\* get_coin_record: the cache first, then the table.
GetCoinRecord(c) == IF coin_cache[c] # NONE THEN coin_cache[c] ELSE tx.coins[c]

\* get_coin_record puts what it finds in the cache.
CacheAfterReading(read) ==
    [c \in Coins |-> IF c \in read THEN GetCoinRecord(c) ELSE coin_cache[c]]

\* Mutant: coins confirmed above the index stay.
KeepsLateCoins(r, index) ==
    IF r # NONE /\ r.spent_index > index
    THEN [r EXCEPT !.spent_index = 0, !.spent = FALSE] ELSE r

\* What rollback_to_block(index) makes of one record, in the cache as in the table.
RollBackRecord(r, index) ==
    IF r = NONE \/ r.confirmed > index THEN NONE
    ELSE IF r.spent_index > index
         THEN [r EXCEPT !.spent_index = 0, !.spent = FALSE]
         ELSE r

RollBack(table, index) == [c \in Coins |-> RollBackRecord(table[c], index)]

\* The record _set_spent reads in new_block: the block's additions have just
\* been inserted, and inserting a coin drops it from the cache.
ReadBySetSpent(c, created, height) ==
    IF c \in created
    THEN [confirmed |-> height, spent_index |-> 0, spent |-> FALSE]
    ELSE GetCoinRecord(c)

\* INSERT finds no row of that name, and every removal is there and unspent.
NewBlockSucceeds(created, removed) ==
    /\ \A c \in created : tx.coins[c] = NONE
    /\ \A c \in removed \ created :
          GetCoinRecord(c) # NONE /\ ~GetCoinRecord(c).spent

\* The table after new_block: additions and rewards inserted, removals replaced.
CoinsAfterNewBlock(created, removed, height) ==
    [c \in Coins |->
        IF c \in removed
        THEN [ReadBySetSpent(c, created, height)
                 EXCEPT !.spent_index = height, !.spent = TRUE]
        ELSE IF c \in created
             THEN [confirmed |-> height, spent_index |-> 0, spent |-> FALSE]
             ELSE tx.coins[c]]

\* Mutant: only inserted coins leave the cache.
CacheKeepsRemoved(created, removed) ==
    [c \in Coins |-> IF c \in created THEN NONE ELSE coin_cache[c]]

\* _add_coin_record drops the coin it writes from the cache.
CacheAfterNewBlock(created, removed) ==
    [c \in Coins |-> IF c \in created \cup removed THEN NONE ELSE coin_cache[c]]

----------------------------------------------------------------------------
(* get_block_generator                                                      *)

\* block_record of every block that find_fork_point_in_chain steps to from b.
WalkLoaded(b, fork) == WalkedIn(block_records, b, fork)

\* The block whose generator stands for height h when b's generator runs.  When
\* b's parent is what height_to_hash has at its height, height_to_hash is used
\* for every reference; otherwise the chain of b down to the fork, and
\* height_to_hash below it.
GeneratorRef(b, h) ==
    IF /\ Height[b] > 0
       /\ Prev[b] \in block_records
       /\ height_to_hash[Height[b] - 1] # Prev[b]
       /\ peak_height >= 0
       /\ \A k \in Common(Peak, Prev[b]) : k <= h
    THEN Ancestor[b][h]
    ELSE height_to_hash[h]

\* A generator run with other blocks' generators fails: its conditions list is empty.
GeneratorRuns(b) == \A h \in GenRefs[b] : GeneratorRef(b, h) = Ancestor[b][h]

\* KeyError: height_to_hash has no entry for the parent's height (the fork is longer
\* than the main chain) or for a reference, or a record of the walk is not loaded.
GeneratorLookupFails(b) ==
    /\ GenRefs[b] # {}
    /\ \/ \E h \in GenRefs[b] : GeneratorRef(b, h) = NONE
       \/ /\ Prev[b] \in block_records
          /\ \/ height_to_hash[Height[b] - 1] = NONE
             \/ /\ height_to_hash[Height[b] - 1] # Prev[b]
                /\ peak_height >= 0
                /\ \A f \in ForkPoints(Peak, Prev[b]) :
                      ~(WalkLoaded(Peak, f) /\ WalkLoaded(Prev[b], f))

\* Or a ValueError: a referenced block has no generator (it spends nothing).
GeneratorRaises(b) ==
    \/ GeneratorLookupFails(b)
    \/ \E h \in GenRefs[b] : Removals[GeneratorRef(b, h)] = {}

\* get_tx_removals_and_additions, and the rewards, for a block that is not the
\* one being received.
RemovalsFound(b) == IF GeneratorRuns(b) THEN Removals[b] ELSE {}
CreatedFound(b) ==
    (IF GeneratorRuns(b) THEN Additions[b] ELSE {}) \cup Rewards[b]

----------------------------------------------------------------------------
(* validate_block_body                                                      *)

ForkBlocks(b, fork) == {Ancestor[b][h] : h \in (fork + 1)..(Height[b] - 1)}

\* fork_h for check 15; fp is fork_point_with_peak, -1 when it is None.
BodyForkPoints(b, fp) ==
    IF peak_height = -1 \/ Height[b] = 0 THEN {-1}
    ELSE IF fp # -1 THEN {fp} ELSE ForkPoints(Peak, Prev[b])

\* No KeyError while b's generator is looked up, and no KeyError, failed assertion
\* or ValueError while the fork is walked.
BodyWalkSucceeds(b, fp, fork) ==
    IsTx[b] /\ Height[b] > 0 =>
        /\ ~GeneratorLookupFails(b)
        /\ fp = -1 /\ peak_height >= 0 =>
              WalkLoaded(Peak, fork) /\ WalkLoaded(Prev[b], fork)
        /\ ForkBlocks(b, fork) \cup {Prev[b]} \subseteq tx.blocks \cup block_cache
        /\ \A a \in ForkBlocks(b, fork) : ~GeneratorRaises(a)
        /\ \A a, d \in ForkBlocks(b, fork) : a # d =>
              /\ RemovalsFound(a) \cap RemovalsFound(d) = {}
              /\ CreatedFound(a) \cap CreatedFound(d) = {}

\* Mutant: a coin spent on the fork may be spent again.
SpendableIgnoringFork(b, fork, c) ==
    LET r == GetCoinRecord(c)
    IN  IF r # NONE /\ r.confirmed <= fork
        THEN ~(r.spent /\ r.spent_index <= fork)
        ELSE \E a \in ForkBlocks(b, fork) : c \in CreatedFound(a)

\* Mutant: the coin is looked up on the main chain, whatever the fork.
SpendableOnMainChain(b, fork, c) ==
    LET r == GetCoinRecord(c) IN r # NONE /\ ~r.spent

\* Check 15 for a coin that the block does not create itself.
Spendable(b, fork, c) ==
    /\ LET r == GetCoinRecord(c)
       IN  IF r # NONE /\ r.confirmed <= fork
           THEN ~(r.spent /\ r.spent_index <= fork)
           ELSE \E a \in ForkBlocks(b, fork) : c \in CreatedFound(a)
    /\ \A a \in ForkBlocks(b, fork) : c \notin RemovalsFound(a)

BodyAccepted(b, fork) ==
    /\ b \in BodyValid
    /\ ~GeneratorRaises(b)
    /\ GeneratorRuns(b)
    /\ \A c \in CoinsReadFor(b) : Spendable(b, fork, c)

----------------------------------------------------------------------------
(* receive_block: the checks, up to the database part                       *)

\* Mutant: a block may arrive before its parent.
AnyPrev(b) == TRUE

KnownPrev(b) == Height[b] = 0 \/ Prev[b] \in block_records

HeaderAccepted(b) ==
    /\ Height[b] > 0 => Height[b] = Height[Prev[b]] + 1
    /\ b \in HeaderValid

Returned(code, b, fork) == result' = [code |-> code, block |-> b, fork |-> fork]

AlreadyHaveBlock(b) ==
    /\ AtRest
    /\ b \in block_records
    /\ Returned("ALREADY_HAVE_BLOCK", b, -1)
    /\ UNCHANGED <<db, tx, memory, block_cache, coin_cache, task, running>>

DisconnectedBlock(b) ==
    /\ AtRest
    /\ b \notin block_records
    /\ ~KnownPrev(b)
    /\ Returned("DISCONNECTED_BLOCK", b, -1)
    /\ UNCHANGED <<db, tx, memory, block_cache, coin_cache, task, running>>

InvalidHeader(b) ==
    /\ AtRest
    /\ b \notin block_records
    /\ KnownPrev(b)
    /\ ~HeaderAccepted(b)
    /\ Returned("INVALID_BLOCK", b, -1)
    /\ UNCHANGED <<db, tx, memory, block_cache, coin_cache, task, running>>

\* The checks that come before validate_block_body pass.
ReachesBody(b) ==
    /\ AtRest
    /\ b \notin block_records
    /\ KnownPrev(b)
    /\ HeaderAccepted(b)

\* validate_block_body reads the fork's full blocks, and the records of the coins
\* removed up to the first error.
FullBlocksRead(b, fork) ==
    IF IsTx[b] /\ Height[b] > 0 THEN ForkBlocks(b, fork) \cup {Prev[b]} ELSE {}

BodyRaises(b, fp, fork) ==
    /\ ~BodyWalkSucceeds(b, fp, fork)
    /\ Returned("RAISED", b, -1)
    /\ UNCHANGED <<db, tx, memory, block_cache, coin_cache, task, running>>

InvalidBody(b, fp, fork) ==
    /\ BodyWalkSucceeds(b, fp, fork)
    /\ ~BodyAccepted(b, fork)
    /\ \E read \in SUBSET CoinsReadFor(b) : coin_cache' = CacheAfterReading(read)
    /\ block_cache' = block_cache \cup FullBlocksRead(b, fork)
    /\ Returned("INVALID_BLOCK", b, -1)
    /\ UNCHANGED <<db, tx, memory, task, running>>

AcceptBody(b, fp, fork) ==
    /\ BodyWalkSucceeds(b, fp, fork)
    /\ BodyAccepted(b, fork)
    /\ coin_cache' = CacheAfterReading(CoinsReadFor(b))
    /\ block_cache' = block_cache \cup FullBlocksRead(b, fork)
    /\ task' = [Idle EXCEPT !.pc = "add", !.block = b, !.fork = fp]
    /\ result' = NoResult
    /\ UNCHANGED <<db, tx, memory, running>>

\* A caller that gives fork_point_with_peak (sync from a weight proof) gives the
\* height of a block that the peak's chain and b's chain have in common.
ForkPointsGiven(b) ==
    {fp \in 0..peak_height : fp < Height[b] /\ height_to_hash[fp] = Ancestor[b][fp]}

ValidateBody(b) ==
    /\ ReachesBody(b)
    /\ \E fp \in ForkPointsGiven(b) \cup {-1} : \E fork \in BodyForkPoints(b, fp) :
          \/ BodyRaises(b, fp, fork)
          \/ InvalidBody(b, fp, fork)
          \/ AcceptBody(b, fp, fork)

----------------------------------------------------------------------------
(* receive_block: the database part                                         *)

\* begin_transaction and add_full_block; REPLACE writes is_peak = False.
AddFullBlock ==
    /\ running /\ task.pc = "add"
    /\ tx' = [tx EXCEPT !.blocks = @ \cup {task.block},
                        !.peak = IF @ = task.block THEN NONE ELSE @]
    /\ block_cache' = block_cache \cup {task.block}
    /\ task' = [task EXCEPT !.pc = "reconsider"]
    /\ UNCHANGED <<db, memory, coin_cache, result, running>>

\* Mutant: the longest chain wins.
LongerThanPeak == Height[task.block] > peak_height

\* Mutant: a block as heavy as the peak replaces it.
NotLighterThanPeak == Height[task.block] > 0 /\ Weight[task.block] >= Weight[Peak]

\* A second genesis block never becomes the peak.
HeavierThanPeak == Height[task.block] > 0 /\ Weight[task.block] > Weight[Peak]

KeepPeak ==
    /\ running /\ task.pc = "reconsider"
    /\ peak_height >= 0
    /\ ~HeavierThanPeak
    /\ task' = [task EXCEPT !.pc = "commit", !.fork = -1]
    /\ UNCHANGED <<db, tx, memory, block_cache, coin_cache, result, running>>

\* The first block of the chain: nothing to roll back.
FirstPeak ==
    /\ running /\ task.pc = "reconsider"
    /\ peak_height = -1
    /\ Height[task.block] = 0
    /\ task' = [task EXCEPT !.pc = "apply", !.fork = -1, !.next = 0, !.new_peak = TRUE]
    /\ UNCHANGED <<db, tx, memory, block_cache, coin_cache, result, running>>

\* fork_height: the peak's height when the block extends it, the caller's fork
\* point, or what find_fork_point_in_chain finds.
PeakForkPoints ==
    IF Prev[task.block] = Peak THEN {peak_height}
    ELSE IF task.fork # -1 THEN {task.fork}
    ELSE {f \in ForkPoints(Peak, task.block) :
              WalkLoaded(Peak, f) /\ WalkLoaded(task.block, f)}

\* Mutant: the summaries of the abandoned chain stay.
SesNotRolledBack(fork) == ses

SesKeptBelow(fork) == [h \in Heights |-> IF h > fork THEN NONE ELSE ses[h]]

\* _reconsider_peak for a heavier block: the coin store goes back to the fork
\* (unless the block extends the peak), and the sub-epoch summaries above it go.
RollBackToFork ==
    /\ running /\ task.pc = "reconsider"
    /\ peak_height >= 0
    /\ HeavierThanPeak
    /\ \E fork \in PeakForkPoints :
          /\ IF Prev[task.block] = Peak
             THEN UNCHANGED <<tx, coin_cache>>
             ELSE /\ tx' = [tx EXCEPT !.coins = RollBack(@, fork)]
                  /\ coin_cache' = RollBack(coin_cache, fork)
          /\ ses' = SesKeptBelow(fork)
          /\ task' = [task EXCEPT !.pc = "collect", !.fork = fork, !.new_peak = TRUE]
    /\ UNCHANGED <<db, block_records, heights_in_cache, height_to_hash,
                   peak_height, block_cache, result, running>>

\* The blocks collected from the new peak down to the fork: from FirstCollected up.
FirstCollected ==
    IF task.fork >= 0 /\ height_to_hash[task.fork] = Ancestor[task.block][task.fork]
    THEN task.fork + 1 ELSE 0
Collected ==
    {Ancestor[task.block][h] : h \in FirstCollected..Height[task.block]}

\* Mutant: the assertion that a collected block was found is missing.
CollectUnchecked ==
    /\ running /\ task.pc = "collect"
    /\ block_cache' = block_cache \cup (Collected \cap tx.blocks)
    /\ task' = [task EXCEPT !.pc = "apply", !.next = FirstCollected]
    /\ UNCHANGED <<db, tx, memory, coin_cache, result, running>>

CollectBlocks ==
    /\ running /\ task.pc = "collect"
    /\ Collected \subseteq tx.blocks
    /\ block_cache' = block_cache \cup Collected
    /\ task' = [task EXCEPT !.pc = "apply", !.next = FirstCollected]
    /\ UNCHANGED <<db, tx, memory, coin_cache, result, running>>

Applying == Ancestor[task.block][task.next]

\* The conditions of the received block were computed when it was validated; the
\* generators of the others run again here.
ToCreate == IF Applying = task.block THEN Created(Applying) ELSE CreatedFound(Applying)

\* Mutant: only the new peak's own coins are removed.
ToRemoveOnlyTip == IF Applying = task.block THEN Removals[Applying] ELSE {}
ToRemove == IF Applying = task.block THEN Removals[Applying] ELSE RemovalsFound(Applying)

CanApply ==
    IsTx[Applying] =>
        /\ Applying # task.block => ~GeneratorRaises(Applying)
        /\ NewBlockSucceeds(ToCreate, ToRemove)

\* new_block for one collected block, lowest first; blocks that are not
\* transaction blocks change no coin.
ApplyBlock ==
    /\ running /\ task.pc = "apply"
    /\ task.next <= Height[task.block]
    /\ CanApply
    /\ IF IsTx[Applying]
       THEN /\ tx' = [tx EXCEPT !.coins =
                        CoinsAfterNewBlock(ToCreate, ToRemove, Height[Applying])]
            /\ coin_cache' = CacheAfterNewBlock(ToCreate, ToRemove)
       ELSE UNCHANGED <<tx, coin_cache>>
    /\ task' = [task EXCEPT !.next = @ + 1]
    /\ UNCHANGED <<db, memory, block_cache, result, running>>

SetPeak ==
    /\ running /\ task.pc = "apply"
    /\ task.next > Height[task.block]
    /\ tx' = [tx EXCEPT !.peak = task.block]
    /\ task' = [task EXCEPT !.pc = "commit"]
    /\ UNCHANGED <<db, memory, block_cache, coin_cache, result, running>>

\* _reconsider_peak has returned a record for this height.
OnPath(h) == FirstCollected <= h /\ h <= Height[task.block]

\* Mutant: only the new peak is entered, not the rest of its fork.
UpdateTipOnly ==
    /\ block_records' = block_records \cup {task.block}
    /\ heights_in_cache' = heights_in_cache \cup {Height[task.block]}
    /\ IF task.new_peak
       THEN /\ height_to_hash' = [height_to_hash EXCEPT ![Height[task.block]] = task.block]
            /\ peak_height' = Height[task.block]
       ELSE UNCHANGED <<height_to_hash, peak_height>>
    /\ UNCHANGED ses

\* The memory update that follows a commit, with no await in between.
UpdateMemory ==
    /\ block_records' = block_records \cup {task.block}
    /\ heights_in_cache' = heights_in_cache \cup {Height[task.block]}
    /\ IF task.new_peak
       THEN /\ height_to_hash' = [h \in Heights |->
                  IF OnPath(h) THEN Ancestor[task.block][h] ELSE height_to_hash[h]]
            /\ ses' = [h \in Heights |->
                  IF OnPath(h) /\ HasSes[Ancestor[task.block][h]]
                  THEN Ancestor[task.block][h] ELSE ses[h]]
            /\ peak_height' = Height[task.block]
       ELSE UNCHANGED <<height_to_hash, ses, peak_height>>

\* Mutants: the fork height as it is, and one too high.
RawForkHeight == task.fork
ForkHeightPlusOne == task.fork + 1

\* uint32(max(fork_height, 0))
ReturnedForkHeight == IF task.fork < 0 THEN 0 ELSE task.fork

Commit ==
    /\ running /\ task.pc = "commit"
    /\ db' = tx
    /\ UpdateMemory
    /\ IF task.new_peak
       THEN Returned("NEW_PEAK", task.block, ReturnedForkHeight)
       ELSE Returned("ADDED_AS_ORPHAN", task.block, -1)
    /\ task' = Idle
    /\ UNCHANGED <<tx, block_cache, coin_cache, running>>

----------------------------------------------------------------------------
(* receive_block: the except clause                                         *)

\* Mutant: rollback_cache_block is forgotten.
UnwindKeepsCache ==
    /\ tx' = db
    /\ Returned("RAISED", task.block, -1)
    /\ task' = Idle
    /\ UNCHANGED <<db, memory, block_cache, coin_cache, running>>

\* rollback_cache_block, rollback_transaction and re-raise.  What the task did to
\* the coin cache and to the sub-epoch summaries stays.
Unwind ==
    /\ tx' = db
    /\ block_cache' = block_cache \ {task.block}
    /\ Returned("RAISED", task.block, -1)
    /\ task' = Idle
    /\ UNCHANGED <<db, memory, coin_cache, running>>

\* The code itself raises: find_fork_point_in_chain meets a record that is not in
\* memory, a collected block is not in the store, or new_block fails.
RaiseInTransaction ==
    /\ running
    /\ \/ /\ task.pc = "reconsider"
          /\ \/ peak_height = -1 /\ Height[task.block] > 0
             \/ peak_height >= 0 /\ HeavierThanPeak /\ PeakForkPoints = {}
       \/ task.pc = "collect" /\ ~(Collected \subseteq tx.blocks)
       \/ task.pc = "apply" /\ task.next <= Height[task.block] /\ ~CanApply
    /\ Unwind

\* Anything else: a failing statement, or the cancellation of the task that
\* called receive_block.
Abort ==
    /\ running
    /\ task.pc \in AbortPoints
    /\ Unwind

\* The task is cancelled while it waits for COMMIT: the database thread commits
\* all the same, and the memory update is skipped.
CancelledCommit ==
    /\ running
    /\ task.pc = "commit" /\ "commit" \in AbortPoints
    /\ db' = tx
    /\ block_cache' = block_cache \ {task.block}
    /\ Returned("RAISED", task.block, -1)
    /\ task' = Idle
    /\ UNCHANGED <<tx, memory, coin_cache, running>>

----------------------------------------------------------------------------
(* Crash and Blockchain.create                                              *)

Crash ==
    /\ running
    /\ tx' = db
    /\ block_records' = {}
    /\ heights_in_cache' = {}
    /\ height_to_hash' = NoHeights
    /\ peak_height' = -1
    /\ ses' = NoHeights
    /\ block_cache' = {}
    /\ coin_cache' = NoCoins
    /\ task' = Idle
    /\ result' = NoResult
    /\ running' = FALSE
    /\ UNCHANGED db

\* Mutant: the range of heights excludes its end.
CloseBelowPeak ==
    IF db.peak = NONE THEN {}
    ELSE {b \in db.blocks : /\ Height[b] >= Height[db.peak] - BLOCKS_CACHE_SIZE
                            /\ Height[b] < Height[db.peak]}

\* get_block_records_close_to_peak(BLOCKS_CACHE_SIZE)
CloseToPeak ==
    IF db.peak = NONE THEN {}
    ELSE {b \in db.blocks : Height[b] >= Height[db.peak] - BLOCKS_CACHE_SIZE}

\* get_peak_height_dicts walks from the peak to its genesis block.
UpToPeak(h) == db.peak # NONE /\ h <= Height[db.peak]

\* _load_chain_from_store.
Restart ==
    /\ ~running
    /\ db.peak # NONE => \A h \in 0..Height[db.peak] : Ancestor[db.peak][h] \in db.blocks
    /\ height_to_hash' = [h \in Heights |-> IF UpToPeak(h) THEN Ancestor[db.peak][h] ELSE NONE]
    /\ ses' = [h \in Heights |->
          IF UpToPeak(h) /\ HasSes[Ancestor[db.peak][h]] THEN Ancestor[db.peak][h] ELSE NONE]
    /\ block_records' = CloseToPeak
    /\ heights_in_cache' = {Height[b] : b \in CloseToPeak}
    /\ peak_height' = IF db.peak = NONE THEN -1 ELSE Height[db.peak]
    /\ running' = TRUE
    /\ UNCHANGED <<db, tx, block_cache, coin_cache, task, result>>

----------------------------------------------------------------------------
(* The cache of block records                                               *)

\* clean_block_record(height): the run of consecutive cached heights that ends at
\* height goes.
Cleaned(height) ==
    {h \in 0..height : \A k \in h..height : k \in heights_in_cache}

CleanBlockRecord(height) ==
    /\ AtRest
    /\ peak_height >= 0
    /\ height \in 0..(peak_height - BLOCKS_CACHE_SIZE)
    /\ block_records' = {b \in block_records : Height[b] \notin Cleaned(height)}
    /\ heights_in_cache' = heights_in_cache \ Cleaned(height)
    /\ UNCHANGED <<db, tx, height_to_hash, peak_height, ses, block_cache,
                   coin_cache, task, result, running>>

\* warmup(fork_point): the records of all stored blocks in a range of heights.
Warmed(fork_point) ==
    {b \in db.blocks : fork_point - BLOCKS_CACHE_SIZE <= Height[b] /\ Height[b] <= fork_point}

Warmup(fork_point) ==
    /\ AtRest
    /\ peak_height >= 0
    /\ fork_point \in 0..peak_height
    /\ block_records' = block_records \cup Warmed(fork_point)
    /\ heights_in_cache' = heights_in_cache \cup {Height[b] : b \in Warmed(fork_point)}
    /\ UNCHANGED <<db, tx, height_to_hash, peak_height, ses, block_cache,
                   coin_cache, task, result, running>>

\* pre_validate_blocks_multiprocessing on the blocks of b's chain from height
\* first on: each record is added while the later ones are computed.  All are
\* removed again at the end, or when the block after height `done` has no valid
\* proof of space; the keys of heights_in_cache stay.

PreValidatable(b, first) ==
    /\ AtRest
    /\ Height[b] - first < MaxBatch
    /\ first > 0 => Ancestor[b][first - 1] \in block_records

\* Mutant: the temporary records are never removed.
PreValidateKeepsRecords(b, first, done) ==
    /\ PreValidatable(b, first)
    /\ block_records' = block_records \cup {Ancestor[b][h] : h \in first..done}
    /\ heights_in_cache' = heights_in_cache \cup first..done
    /\ UNCHANGED <<db, tx, height_to_hash, peak_height, ses, block_cache,
                   coin_cache, task, result, running>>

PreValidate(b, first, done) ==
    /\ PreValidatable(b, first)
    /\ done < Height[b] => Ancestor[b][done + 1] \notin HeaderValid
    /\ heights_in_cache' = heights_in_cache \cup
          {h \in first..done : Ancestor[b][h] \notin block_records}
    /\ UNCHANGED <<db, tx, block_records, height_to_hash, peak_height, ses,
                   block_cache, coin_cache, task, result, running>>

\* The summary that the block of height `done` includes is not the one of the weight
\* proof: pre-validation gives up, and leaves the records it has added.
PreValidateMismatch(b, first, done) ==
    /\ PreValidatable(b, first)
    /\ WpMismatch
    /\ HasSes[Ancestor[b][done]]
    /\ block_records' = block_records \cup {Ancestor[b][h] : h \in first..(done - 1)}
    /\ heights_in_cache' = heights_in_cache \cup (first..(done - 1))
    /\ UNCHANGED <<db, tx, height_to_hash, peak_height, ses, block_cache,
                   coin_cache, task, result, running>>

----------------------------------------------------------------------------
ReceiveBlock ==
    \E b \in Blocks :
        \/ AlreadyHaveBlock(b)
        \/ DisconnectedBlock(b)
        \/ InvalidHeader(b)
        \/ ValidateBody(b)

StoreBlock ==
    \/ AddFullBlock
    \/ KeepPeak
    \/ FirstPeak
    \/ RollBackToFork
    \/ CollectBlocks
    \/ ApplyBlock
    \/ SetPeak
    \/ Commit

Fail == RaiseInTransaction \/ Abort \/ CancelledCommit

ManageRecords ==
    \/ \E height \in Heights : CleanBlockRecord(height) \/ Warmup(height)
    \/ \E b \in Rooted : \E first \in 0..Height[b] : \E done \in first..Height[b] :
          PreValidate(b, first, done) \/ PreValidateMismatch(b, first, done)

Next == ReceiveBlock \/ StoreBlock \/ Fail \/ ManageRecords \/ Crash \/ Restart

Spec == Init /\ [][Next]_vars

----------------------------------------------------------------------------
(* Properties                                                               *)

TaskType ==
    [pc : {"idle", "add", "reconsider", "collect", "apply", "commit"},
     block : Blocks \cup {NONE}, fork : -1..MaxHeight, next : 0..(MaxHeight + 1),
     new_peak : BOOLEAN]

\* The type of every variable; a fork height that is returned is a uint32.
TypeOK ==
    /\ db \in Database
    /\ tx \in Database
    /\ block_records \subseteq Blocks
    /\ heights_in_cache \subseteq Heights
    /\ height_to_hash \in [Heights -> Blocks \cup {NONE}]
    /\ peak_height \in -1..MaxHeight
    /\ ses \in [Heights -> Blocks \cup {NONE}]
    /\ block_cache \subseteq Blocks
    /\ coin_cache \in CoinTable
    /\ task \in TaskType
    /\ result.code = "NEW_PEAK" => result.fork >= 0
    /\ result \in [code : Codes, block : Blocks \cup {NONE}, fork : -1..MaxHeight]
    /\ running \in BOOLEAN

\* Blocks reach the database only below their parent: every stored block has its
\* whole chain stored, so the walks of get_peak_height_dicts and of the collecting
\* loop of _reconsider_peak never miss a block, after any crash.
StoredChainsComplete ==
    \A d \in {db, tx} : \A b \in d.blocks :
        b \in Rooted /\ \A h \in 0..Height[b] : Ancestor[b][h] \in d.blocks

\* Up to the peak, height_to_hash is the path from genesis to the committed peak,
\* and the record of the peak is in memory (get_peak looks it up there).
MemoryFollowsDatabase ==
    running =>
        /\ peak_height = -1 <=> db.peak = NONE
        /\ peak_height >= 0 =>
              /\ Peak = db.peak /\ Height[Peak] = peak_height
              /\ Peak \in block_records
              /\ \A h \in 0..peak_height : height_to_hash[h] = Ancestor[Peak][h]

\* No stored block is heavier than the peak.
PeakIsHeaviest ==
    \A b \in db.blocks : db.peak # NONE /\ Weight[b] <= Weight[db.peak]

\* A coin record r says of coin c what the chain of block b says up to height n.
RecordMatchesChain(r, c, b, n) ==
    IF r = NONE
    THEN \A h \in 0..n :
            c \notin Created(Ancestor[b][h]) /\ c \notin Removals[Ancestor[b][h]]
    ELSE /\ r.confirmed <= n
         /\ r.spent_index <= n
         /\ ~r.spent => r.spent_index = 0
         /\ \A h \in 0..n :
               /\ c \in Created(Ancestor[b][h]) <=> h = r.confirmed
               /\ c \in Removals[Ancestor[b][h]] <=> r.spent /\ h = r.spent_index

CoinsMatchChain(table, b, n) == \A c \in Coins : RecordMatchesChain(table[c], c, b, n)

\* The committed coin table is the one that the chain of the committed peak
\* produces, whatever reorganizations, failures and crashes came before.
CoinStoreMatchesChain ==
    IF db.peak = NONE THEN db.coins = NoCoins
    ELSE CoinsMatchChain(db.coins, db.peak, Height[db.peak])

\* Between two calls, get_coin_record answers from its cache what the committed
\* table says.
CoinCacheCoherent ==
    AtRest => \A c \in Coins : GetCoinRecord(c) = db.coins[c]

\* No block is served from the block cache that the database does not hold.
BlockCacheStored == block_cache \subseteq tx.blocks

\* contains_block: a block in memory was added to the database.
RecordsAreStored == block_records \subseteq db.blocks

\* The sub-epoch summaries in memory are the ones of the path to the peak.
SummariesMatchChain ==
    AtRest => \A h \in Heights :
        ses[h] = IF h <= peak_height /\ HasSes[height_to_hash[h]]
                 THEN height_to_hash[h] ELSE NONE

\* The verdict on a block does not depend on which chain is the main chain when
\* it arrives: stored blocks are valid, rejected blocks are not.
VerdictMatchesReference ==
    /\ \A b \in tx.blocks : ValidOnOwnChain(b)
    /\ result.code = "INVALID_BLOCK" => ~ValidOnOwnChain(result.block)

\* The assertions of new_block and _set_spent repeat what validation has checked:
\* a block that was accepted can be applied in every later reorganization.
SanityChecksRedundant ==
    task.pc = "apply" /\ task.next <= Height[task.block] => CanApply

\* Whatever the main chain is, a block whose references get_block_generator can
\* look up runs with the generators of its own chain.
GeneratorsFromOwnChain ==
    AtRest => \A b \in HeaderValid \cap BodyValid \cap Rooted :
        Height[b] > 0 /\ Prev[b] \in block_records /\ ~GeneratorLookupFails(b)
            => GeneratorRuns(b)

\* Whatever struck before, the path to the committed peak is stored: the assertion
\* and the dictionary lookups of _load_chain_from_store cannot fail, and a node can
\* always be started again.
CommittedPathStored ==
    db.peak # NONE => db.peak \in Rooted /\ \A h \in 0..Height[db.peak] : Ancestor[db.peak][h] \in db.blocks

\* A restart repairs what failures did to the memory of the process: height map,
\* summaries, records and caches agree with the database again.
RestartRepairsMemory ==
    [][~running /\ running' =>
          /\ MemoryFollowsDatabase'
          /\ RecordsAreStored'
          /\ SummariesMatchChain'
          /\ CoinCacheCoherent']_vars

\* The committed peak never loses weight, not even through a crash.
PeakWeightGrows ==
    [][db.peak # NONE =>
          db'.peak # NONE /\ (db'.peak = db.peak \/ Weight[db'.peak] > Weight[db.peak])]_vars

\* The coins that the committed table shows as unspent.
UnspentCoins == {c \in Coins : db.coins[c] # NONE /\ ~db.coins[c].spent}

Ledger == INSTANCE HeaviestChain
    WITH stored <- db.blocks, peak <- db.peak, unspent <- UnspentCoins

\* What is committed is the ledger of the heaviest chain: valid blocks are added one
\* at a time, below a stored parent, the peak moves to heavier blocks only, and the
\* unspent coins are at once those of its chain; reorganizations, exceptions, crashes
\* and restarts in between are invisible.
ImplementsLedger == Ledger!LedgerSpec

\* The fork height that receive_block returns with NEW_PEAK is honest: wallets
\* and the mempool keep everything up to it.
ForkHeightHonest ==
    [][result' # result /\ result'.code = "NEW_PEAK" =>
          \A h \in Heights : h <= result'.fork /\ result'.fork > 0 =>
              height_to_hash'[h] = height_to_hash[h]]_vars
=============================================================================
