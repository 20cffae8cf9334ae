-------------------------- MODULE BlockchainProofs --------------------------
(***************************************************************************)
(* What receive_block keeps true whatever fails: the invariant Shape is     *)
(* inductive for every block tree, every set of abort points and with       *)
(* batches that contradict their weight proof.  It yields the types, the    *)
(* committed path that a restart needs, and a block cache that serves       *)
(* stored blocks only.                                                      *)
(***************************************************************************)
EXTENDS Blockchain, BlockTreeProofs

\* The path from d's peak down to its genesis block is among d's blocks.
PathIn(d) ==
    d.peak # NONE =>
        d.peak \in Rooted /\ \A h \in 0..Height[d.peak] : Ancestor[d.peak][h] \in d.blocks

\* Blocks that are stored or in memory have numbered chains; the transaction adds to
\* what is committed.
StoreShape ==
    /\ db.blocks \subseteq tx.blocks
    /\ tx.blocks \subseteq Rooted
    /\ block_records \subseteq Rooted
    /\ PathIn(db)
    /\ PathIn(tx)

\* Up to peak_height, height_to_hash is the chain of the block it ends in, and stored.
MemoryShape ==
    peak_height >= 0 =>
        /\ Peak \in Rooted
        /\ Height[Peak] = peak_height
        /\ \A h \in 0..peak_height :
              height_to_hash[h] = Ancestor[Peak][h] /\ height_to_hash[h] \in db.blocks

\* What a receive_block under way has established when it reaches each point.
TaskShape ==
    /\ task.pc \in {"idle", "add"} => tx = db
    /\ tx.blocks \subseteq db.blocks \cup {task.block}
    /\ task.pc # "idle" =>
          /\ running
          /\ task.block \in Rooted
          /\ task.fork <= peak_height
          /\ task.fork <= Height[task.block]
    /\ task.pc \notin {"idle", "add"} => task.block \in tx.blocks
    /\ task.pc \in {"idle", "add", "reconsider"} => ~task.new_peak
    /\ task.pc \in {"collect", "apply"} => task.new_peak
    /\ task.pc \in {"apply", "commit"} /\ task.new_peak => Collected \subseteq tx.blocks

Shape == TypeOK /\ StoreShape /\ MemoryShape /\ TaskShape /\ BlockCacheStored

----------------------------------------------------------------------------
(* Coin records                                                             *)

\* get_coin_record returns a coin record or nothing.
LEMMA GetCoinRecordType ==
    ASSUME TypeOK, NEW c \in Coins
    PROVE  GetCoinRecord(c) \in CoinRecord \cup {NONE}
BY DEF TypeOK, GetCoinRecord, Database, CoinTable

\* rollback_to_block makes a coin table of a coin table.
LEMMA RollBackType ==
    ASSUME NEW table \in CoinTable, NEW index \in Int
    PROVE  RollBack(table, index) \in CoinTable
<1> SUFFICES ASSUME NEW c \in Coins
             PROVE  RollBackRecord(table[c], index) \in CoinRecord \cup {NONE}
    BY DEF RollBack, CoinTable
<1>1. table[c] \in CoinRecord \cup {NONE}
    BY DEF CoinTable
<1>2. 0 \in Heights
    BY BlockAssumption DEF Heights
<1> QED
    BY <1>1, <1>2 DEF RollBackRecord, CoinRecord

\* new_block writes proper records when every removal is in the store.
LEMMA NewBlockType ==
    ASSUME TypeOK, NEW created \in SUBSET Coins, NEW removed \in SUBSET Coins,
           NEW height \in Heights, NewBlockSucceeds(created, removed)
    PROVE  CoinsAfterNewBlock(created, removed, height) \in CoinTable
<1> DEFINE Fresh == [confirmed |-> height, spent_index |-> 0, spent |-> FALSE]
<1>1. Fresh \in CoinRecord
    BY BlockAssumption DEF CoinRecord, Heights
<1> SUFFICES ASSUME NEW c \in Coins
             PROVE  CoinsAfterNewBlock(created, removed, height)[c] \in CoinRecord \cup {NONE}
    BY DEF CoinsAfterNewBlock, CoinTable
<1>2. CASE c \in removed
    <2>1. ReadBySetSpent(c, created, height) \in CoinRecord
        BY <1>1, <1>2, GetCoinRecordType DEF ReadBySetSpent, NewBlockSucceeds
    <2>2. [ReadBySetSpent(c, created, height) EXCEPT !.spent_index = height, !.spent = TRUE]
             \in CoinRecord
        BY <2>1 DEF CoinRecord
    <2> QED
        BY <1>2, <2>2 DEF CoinsAfterNewBlock
<1>3. CASE c \notin removed
    BY <1>1, <1>3 DEF CoinsAfterNewBlock, TypeOK, Database, CoinTable
<1> QED
    BY <1>2, <1>3

----------------------------------------------------------------------------
(* Every step keeps Shape                                                   *)

\* The chain of a block is made of blocks.
LEMMA AncestorType ==
    ASSUME NEW b \in Rooted, NEW h \in 0..Height[b]
    PROVE  Ancestor[b][h] \in Rooted /\ Ancestor[b][h] \in Blocks
BY AncestorAssumption

\* A new node, with an empty database, has the shape.
LEMMA InitShape == Init => Shape
<1> SUFFICES ASSUME Init PROVE Shape
    OBVIOUS
<1>1. TypeOK
    <2>1. 0 \in Heights /\ MaxHeight \in Nat
        BY BlockAssumption DEF Heights
    <2>2. EmptyDatabase \in Database
        BY DEF EmptyDatabase, Database, NoCoins, CoinTable
    <2>3. Idle \in TaskType
        BY <2>1 DEF Idle, TaskType
    <2> QED
        BY <2>1, <2>2, <2>3 DEF Init, TypeOK, NoHeights, NoCoins, CoinTable, NoResult, Codes
<1>2. StoreShape /\ MemoryShape /\ TaskShape /\ BlockCacheStored
    BY DEF Init, StoreShape, MemoryShape, TaskShape, BlockCacheStored, EmptyDatabase,
           PathIn, Idle
<1> QED
    BY <1>1, <1>2 DEF Shape

\* Steps that only return a result.
LEMMA ReturnShape ==
    ASSUME Shape, NEW code \in Codes \ {"NEW_PEAK"}, NEW b \in Blocks,
           Returned(code, b, -1),
           UNCHANGED <<db, tx, memory, block_cache, coin_cache, task, running>>
    PROVE  Shape'
<1>1. TypeOK'
    BY BlockAssumption DEF Shape, TypeOK, Returned, memory
<1>2. StoreShape' /\ MemoryShape' /\ TaskShape' /\ BlockCacheStored'
    BY DEF Shape, StoreShape, MemoryShape, TaskShape, BlockCacheStored, PathIn, Peak, memory,
           Collected, FirstCollected
<1> QED
    BY <1>1, <1>2 DEF Shape

\* The blocks that validate_block_body reads were found in the store or its cache.
LEMMA FullBlocksReadStored ==
    ASSUME Shape, NEW b \in Blocks, NEW fp, NEW fork, BodyWalkSucceeds(b, fp, fork)
    PROVE  FullBlocksRead(b, fork) \subseteq tx.blocks
BY DEF Shape, BlockCacheStored, BodyWalkSucceeds, FullBlocksRead

\* Reading coin records keeps the type of the cache.
LEMMA CacheAfterReadingType ==
    ASSUME TypeOK, NEW read
    PROVE  CacheAfterReading(read) \in CoinTable
BY GetCoinRecordType DEF CacheAfterReading, CoinTable, TypeOK

\* A block that passes the checks up to the body has a numbered chain.
LEMMA ReachesBodyRooted ==
    ASSUME Shape, NEW b \in Blocks, ReachesBody(b)
    PROVE  b \in Rooted
<1>1. Height[b] \in Nat
    BY BlockAssumption DEF Heights
<1>2. CASE Height[b] = 0
    BY <1>2, AncestorAssumption
<1>3. CASE Height[b] > 0
    <2>1. Prev[b] \in Rooted /\ Height[b] = Height[Prev[b]] + 1
        BY <1>3 DEF ReachesBody, KnownPrev, HeaderAccepted, Shape, StoreShape
    <2> QED
        BY <2>1, AncestorAssumption
<1> QED
    BY <1>1, <1>2, <1>3

\* validate_block_body keeps the shape, whether it accepts, rejects or raises.
LEMMA ValidateBodyShape ==
    ASSUME Shape, NEW b \in Blocks, ValidateBody(b)
    PROVE  Shape'
<1> PICK fp \in ForkPointsGiven(b) \cup {-1} : \E fork \in BodyForkPoints(b, fp) :
          \/ BodyRaises(b, fp, fork)
          \/ InvalidBody(b, fp, fork)
          \/ AcceptBody(b, fp, fork)
    BY DEF ValidateBody
<1> PICK fork \in BodyForkPoints(b, fp) :
          \/ BodyRaises(b, fp, fork)
          \/ InvalidBody(b, fp, fork)
          \/ AcceptBody(b, fp, fork)
    OBVIOUS
<1>r. b \in Rooted /\ running /\ task.pc = "idle"
    BY ReachesBodyRooted DEF ValidateBody, ReachesBody, AtRest
<1>t. TypeOK /\ MaxHeight \in Nat /\ Height[b] \in 0..MaxHeight
    BY BlockAssumption DEF Shape, Heights
<1>1. CASE BodyRaises(b, fp, fork)
    BY <1>1, ReturnShape DEF BodyRaises, Codes
<1>2. CASE InvalidBody(b, fp, fork)
    <2>1. PICK read : coin_cache' = CacheAfterReading(read)
        BY <1>2 DEF InvalidBody
    <2>2. FullBlocksRead(b, fork) \subseteq tx.blocks
        BY <1>2, FullBlocksReadStored DEF InvalidBody
    <2>3. TypeOK'
        BY <1>2, <1>t, <2>1, <2>2, CacheAfterReadingType
           DEF InvalidBody, TypeOK, Returned, Codes, memory, Database
    <2>4. StoreShape' /\ MemoryShape' /\ TaskShape' /\ BlockCacheStored'
        BY <1>2, <2>2 DEF InvalidBody, Shape, StoreShape, MemoryShape, TaskShape,
           BlockCacheStored, PathIn, Peak, memory, Collected, FirstCollected
    <2> QED
        BY <2>3, <2>4 DEF Shape
<1>3. CASE AcceptBody(b, fp, fork)
    <2>1. fp \in -1..MaxHeight /\ fp <= peak_height /\ fp <= Height[b]
        BY <1>t DEF ForkPointsGiven, TypeOK
    <2>2. FullBlocksRead(b, fork) \subseteq tx.blocks
        BY <1>3, FullBlocksReadStored DEF AcceptBody
    <2>3. task' = [pc |-> "add", block |-> b, fork |-> fp, next |-> 0, new_peak |-> FALSE]
        BY <1>3 DEF AcceptBody, Idle
    <2>4. TypeOK'
        <3>1. coin_cache' \in CoinTable
            BY <1>3, <1>t, CacheAfterReadingType DEF AcceptBody
        <3>2. task' \in TaskType
            BY <1>t, <2>1, <2>3 DEF TaskType
        <3> QED
            BY <1>3, <1>t, <2>2, <3>1, <3>2
               DEF AcceptBody, TypeOK, NoResult, Codes, memory, Database
    <2>5. StoreShape' /\ MemoryShape' /\ BlockCacheStored'
        BY <1>3, <2>2 DEF AcceptBody, Shape, StoreShape, MemoryShape,
           BlockCacheStored, PathIn, Peak, memory
    <2>6. ~task'.new_peak
        BY <2>3
    <2>7. TaskShape'
        BY <1>3, <1>r, <2>1, <2>3, <2>6 DEF AcceptBody, Shape, TaskShape, memory
    <2> QED
        BY <2>4, <2>5, <2>7 DEF Shape
<1> QED
    BY <1>1, <1>2, <1>3

\* receive_block keeps the shape up to its database part.
LEMMA ReceiveBlockShape ==
    ASSUME Shape, ReceiveBlock
    PROVE  Shape'
<1> PICK b \in Blocks : \/ AlreadyHaveBlock(b)
                        \/ DisconnectedBlock(b)
                        \/ InvalidHeader(b)
                        \/ ValidateBody(b)
    BY DEF ReceiveBlock
<1>1. CASE AlreadyHaveBlock(b)
    BY <1>1, ReturnShape DEF AlreadyHaveBlock, Codes
<1>2. CASE DisconnectedBlock(b)
    BY <1>2, ReturnShape DEF DisconnectedBlock, Codes
<1>3. CASE InvalidHeader(b)
    BY <1>3, ReturnShape DEF InvalidHeader, Codes
<1>4. CASE ValidateBody(b)
    BY <1>4, ValidateBodyShape
<1> QED
    BY <1>1, <1>2, <1>3, <1>4

\* add_full_block keeps the shape.
LEMMA AddFullBlockShape ==
    ASSUME Shape, AddFullBlock
    PROVE  Shape'
<1>1. task.block \in Rooted /\ task.block \in Blocks /\ tx = db
    BY AncestorAssumption DEF Shape, TaskShape, AddFullBlock
<1>2. task' = [task EXCEPT !.pc = "reconsider"] /\ task'.pc = "reconsider"
      /\ task'.block = task.block /\ task'.fork = task.fork
    BY DEF AddFullBlock, Shape, TypeOK, TaskType
<1>3. tx'.blocks = db.blocks \cup {task.block} /\ tx'.peak \in {db.peak, NONE}
      /\ tx'.coins = tx.coins
    BY <1>1 DEF AddFullBlock, Shape, TypeOK, Database
<1>4. TypeOK'
    BY <1>1 DEF AddFullBlock, Shape, TypeOK, Database, TaskType, memory
<1>5. StoreShape' /\ MemoryShape' /\ BlockCacheStored'
    BY <1>1, <1>3 DEF AddFullBlock, Shape, StoreShape, MemoryShape, BlockCacheStored,
       PathIn, Peak, memory
<1>6. TaskShape'
    BY <1>1, <1>2, <1>3 DEF AddFullBlock, Shape, TaskShape, memory
<1> QED
    BY <1>4, <1>5, <1>6 DEF Shape

\* A block that is not heavier than the peak keeps the shape.
LEMMA KeepPeakShape ==
    ASSUME Shape, KeepPeak
    PROVE  Shape'
<1>1. /\ task'.pc = "commit" /\ task'.block = task.block /\ task'.fork = -1
      /\ ~task'.new_peak
    BY DEF KeepPeak, Shape, TypeOK, TaskType, TaskShape
<1>2. TypeOK'
    <2>1. -1 \in -1..MaxHeight /\ 0 \in 0..(MaxHeight + 1)
        BY BlockAssumption
    <2>2. task' \in TaskType
        BY <2>1 DEF KeepPeak, Shape, TypeOK, TaskType
    <2> QED
        BY <2>2 DEF KeepPeak, Shape, TypeOK, memory
<1>3. StoreShape' /\ MemoryShape' /\ BlockCacheStored'
    BY DEF KeepPeak, Shape, StoreShape, MemoryShape, BlockCacheStored, PathIn, Peak, memory
<1>4. Height[task.block] \in Nat /\ peak_height \in Int
    BY BlockAssumption, AncestorAssumption DEF KeepPeak, Shape, TypeOK, TaskShape, Heights
<1>5. TaskShape'
    BY <1>1, <1>4 DEF KeepPeak, Shape, TaskShape, memory
<1> QED
    BY <1>2, <1>3, <1>5 DEF Shape

\* The first genesis block keeps the shape.
LEMMA FirstPeakShape ==
    ASSUME Shape, FirstPeak
    PROVE  Shape'
<1>1. /\ task'.pc = "apply" /\ task'.block = task.block /\ task'.fork = -1
      /\ task'.new_peak
    BY DEF FirstPeak, Shape, TypeOK, TaskType
<1>2. TypeOK'
    <2>1. -1 \in -1..MaxHeight /\ 0 \in 0..(MaxHeight + 1)
        BY BlockAssumption
    <2>2. task' \in TaskType
        BY <2>1 DEF FirstPeak, Shape, TypeOK, TaskType
    <2> QED
        BY <2>2 DEF FirstPeak, Shape, TypeOK, memory
<1>3. StoreShape' /\ MemoryShape' /\ BlockCacheStored'
    BY DEF FirstPeak, Shape, StoreShape, MemoryShape, BlockCacheStored, PathIn, Peak, memory
<1>4. Collected' \subseteq tx.blocks
    <2>1. Collected' = {Ancestor[task.block][h] : h \in 0..Height[task.block]}
        BY <1>1 DEF Collected, FirstCollected
    <2>2. Height[task.block] = 0 /\ task.block \in Rooted /\ task.block \in tx.blocks
        BY DEF FirstPeak, Shape, TaskShape
    <2> QED
        BY <2>1, <2>2, AncestorAssumption
<1>5. TaskShape'
    BY <1>1, <1>4 DEF FirstPeak, Shape, TaskShape, memory
<1> QED
    BY <1>2, <1>3, <1>5 DEF Shape

\* The fork height chosen by _reconsider_peak is a height of both chains, or -1.
LEMMA PeakForkPointsType ==
    ASSUME Shape, task.pc = "reconsider", peak_height >= 0, Height[task.block] > 0,
           NEW fork \in PeakForkPoints
    PROVE  fork \in -1..MaxHeight /\ fork <= peak_height /\ fork <= Height[task.block]
<1>1. Peak \in Rooted /\ Height[Peak] = peak_height /\ task.block \in Rooted
    BY DEF Shape, MemoryShape, TaskShape
<1>2. Height[task.block] \in Nat /\ MaxHeight \in Nat /\ peak_height \in -1..MaxHeight
    BY <1>1, BlockAssumption, AncestorAssumption DEF Shape, TypeOK, Heights
<1>3. CASE Prev[task.block] = Peak
    <2>1. Height[Peak] = Height[task.block] - 1
        BY <1>1, <1>3, ParentChain
    <2> QED
        BY <1>1, <1>2, <1>3, <2>1 DEF PeakForkPoints
<1>4. CASE Prev[task.block] # Peak /\ task.fork # -1
    BY <1>4 DEF PeakForkPoints, Shape, TaskShape, TypeOK, TaskType
<1>5. CASE Prev[task.block] # Peak /\ task.fork = -1
    BY <1>1, <1>5, ForkPointsType DEF PeakForkPoints
<1> QED
    BY <1>3, <1>4, <1>5

\* Rolling the coin store back to the fork keeps the shape.
LEMMA RollBackToForkShape ==
    ASSUME Shape, RollBackToFork
    PROVE  Shape'
<1> PICK fork \in PeakForkPoints :
          /\ IF Prev[task.block] = Peak
             THEN UNCHANGED <<tx, coin_cache>>
             ELSE /\ tx' = [tx EXCEPT !.coins = RollBack(@, fork)]
                  /\ coin_cache' = RollBack(coin_cache, fork)
          /\ ses' = SesKeptBelow(fork)
          /\ task' = [task EXCEPT !.pc = "collect", !.fork = fork, !.new_peak = TRUE]
    BY DEF RollBackToFork
<1>1. fork \in -1..MaxHeight /\ fork <= peak_height /\ fork <= Height[task.block]
    BY PeakForkPointsType DEF RollBackToFork, HeavierThanPeak
<1>2. fork \in Int
    BY <1>1, BlockAssumption
<1>3. /\ task'.pc = "collect" /\ task'.block = task.block /\ task'.fork = fork
      /\ task'.new_peak
    BY DEF Shape, TypeOK, TaskType
<1>4. RollBack(tx.coins, fork) \in CoinTable /\ RollBack(coin_cache, fork) \in CoinTable
    BY <1>2, RollBackType DEF Shape, TypeOK, Database
<1>5. tx' \in Database /\ tx'.blocks = tx.blocks /\ tx'.peak = tx.peak /\ coin_cache' \in CoinTable
    BY <1>4 DEF Shape, TypeOK, Database
<1>6. ses' \in [Heights -> Blocks \cup {NONE}]
    BY DEF Shape, TypeOK, SesKeptBelow
<1>7. TypeOK'
    BY <1>1, <1>5, <1>6 DEF RollBackToFork, Shape, TypeOK, TaskType
<1>8. StoreShape' /\ MemoryShape' /\ BlockCacheStored'
    BY <1>5 DEF RollBackToFork, Shape, StoreShape, MemoryShape, BlockCacheStored, PathIn, Peak
<1>9. TaskShape'
    BY <1>1, <1>3, <1>5 DEF RollBackToFork, Shape, TaskShape
<1> QED
    BY <1>7, <1>8, <1>9 DEF Shape

\* The first block to apply is at a height of the new chain.
LEMMA FirstCollectedType ==
    ASSUME Shape, task.pc # "idle"
    PROVE  FirstCollected \in 0..(MaxHeight + 1) /\ FirstCollected <= Height[task.block] + 1
<1>1. task.fork \in -1..MaxHeight /\ task.fork <= Height[task.block]
    BY DEF Shape, TypeOK, TaskType, TaskShape
<1>2. MaxHeight \in Nat /\ Height[task.block] \in Nat
    BY BlockAssumption, AncestorAssumption DEF Shape, TaskShape, Heights
<1> QED
    BY <1>1, <1>2 DEF FirstCollected

\* Collecting the blocks of the new chain keeps the shape.
LEMMA CollectBlocksShape ==
    ASSUME Shape, CollectBlocks
    PROVE  Shape'
<1>1. FirstCollected \in 0..(MaxHeight + 1)
    BY FirstCollectedType DEF CollectBlocks
<1>2. /\ task'.pc = "apply" /\ task'.block = task.block /\ task'.fork = task.fork
      /\ task'.new_peak = task.new_peak
    BY DEF CollectBlocks, Shape, TypeOK, TaskType
<1>3. Collected' = Collected
    BY <1>2 DEF CollectBlocks, Collected, FirstCollected, memory
<1>4. TypeOK'
    BY <1>1 DEF CollectBlocks, Shape, TypeOK, TaskType, memory, Database
<1>5. StoreShape' /\ MemoryShape' /\ BlockCacheStored'
    BY DEF CollectBlocks, Shape, StoreShape, MemoryShape, BlockCacheStored, PathIn, Peak, memory
<1>6. TaskShape'
    BY <1>2, <1>3 DEF CollectBlocks, Shape, TaskShape, memory
<1> QED
    BY <1>4, <1>5, <1>6 DEF Shape

\* A block that becomes the peak has its whole chain stored: collected above the
\* fork, and on the old main chain up to it.
LEMMA NewPeakPathStored ==
    ASSUME Shape, task.pc \in {"apply", "commit"}, task.new_peak
    PROVE  /\ \A h \in 0..Height[task.block] : Ancestor[task.block][h] \in tx.blocks
           /\ \A h \in 0..Height[task.block] :
                 h < FirstCollected => height_to_hash[h] = Ancestor[task.block][h]
<1>1. task.block \in Rooted /\ Height[task.block] \in Nat
    BY BlockAssumption, AncestorAssumption DEF Shape, TaskShape, Heights
<1>2. FirstCollected \in Nat /\ MaxHeight \in Nat
    BY FirstCollectedType, BlockAssumption
<1>3. \A h \in 0..Height[task.block] : h >= FirstCollected => Ancestor[task.block][h] \in tx.blocks
    <2> SUFFICES ASSUME NEW h \in 0..Height[task.block], h >= FirstCollected
                 PROVE  Ancestor[task.block][h] \in Collected
        BY DEF Shape, TaskShape
    <2>1. h \in FirstCollected..Height[task.block]
        BY <1>1, <1>2
    <2> QED
        BY <2>1 DEF Collected
<1>4. ASSUME NEW h \in 0..Height[task.block], h < FirstCollected
      PROVE  height_to_hash[h] = Ancestor[task.block][h] /\ height_to_hash[h] \in tx.blocks
    <2>1. /\ FirstCollected = task.fork + 1 /\ task.fork >= 0
          /\ height_to_hash[task.fork] = Ancestor[task.block][task.fork]
        BY <1>4 DEF FirstCollected
    <2>2. task.fork \in 0..peak_height /\ task.fork <= Height[task.block]
        BY <2>1 DEF Shape, TypeOK, TaskType, TaskShape
    <2>3. peak_height >= 0 /\ Peak \in Rooted /\ Height[Peak] = peak_height
        BY <2>2 DEF Shape, MemoryShape, TypeOK
    <2>4. Ancestor[Peak][task.fork] = Ancestor[task.block][task.fork]
        BY <2>1, <2>2, <2>3 DEF Shape, MemoryShape
    <2>5. h \in 0..task.fork
        BY <1>4, <2>1, <2>2, <1>1
    <2>6. Ancestor[Peak][h] = Ancestor[task.block][h]
        BY <1>1, <2>2, <2>3, <2>4, <2>5, CommonBelow
    <2>7. h \in 0..peak_height
        BY <1>2, <2>2, <2>5 DEF Shape, TypeOK
    <2> QED
        BY <2>3, <2>6, <2>7 DEF Shape, MemoryShape, StoreShape
<1> QED
    BY <1>1, <1>2, <1>3, <1>4

\* The block to apply is on the chain of the block received.
LEMMA ApplyingType ==
    ASSUME Shape, task.pc = "apply", task.next <= Height[task.block]
    PROVE  /\ Applying \in Rooted /\ Applying \in Blocks
           /\ Height[Applying] = task.next /\ task.next \in Heights
           /\ ToCreate \in SUBSET Coins /\ ToRemove \in SUBSET Coins
<1>1. task.block \in Rooted /\ Height[task.block] \in Heights
    BY BlockAssumption, AncestorAssumption DEF Shape, TaskShape
<1>2. task.next \in 0..Height[task.block] /\ task.next \in Heights
    BY <1>1, BlockAssumption DEF Shape, TypeOK, TaskType, Heights
<1>3. Applying \in Rooted /\ Applying \in Blocks /\ Height[Applying] = task.next
    BY <1>1, <1>2, AncestorAssumption DEF Applying
<1> QED
    BY <1>2, <1>3, BlockAssumption DEF ToCreate, ToRemove, CreatedFound, RemovalsFound, Created

\* new_block keeps the shape.
LEMMA ApplyBlockShape ==
    ASSUME Shape, ApplyBlock
    PROVE  Shape'
<1>1. /\ Height[Applying] = task.next /\ task.next \in Heights
      /\ ToCreate \in SUBSET Coins /\ ToRemove \in SUBSET Coins
    BY ApplyingType DEF ApplyBlock
<1>2. tx' \in Database /\ tx'.blocks = tx.blocks /\ tx'.peak = tx.peak /\ coin_cache' \in CoinTable
    <2>1. CASE ~IsTx[Applying]
        BY <2>1 DEF ApplyBlock, Shape, TypeOK, Database
    <2>2. CASE IsTx[Applying]
        <3>1. CoinsAfterNewBlock(ToCreate, ToRemove, Height[Applying]) \in CoinTable
            BY <1>1, <2>2, NewBlockType DEF ApplyBlock, CanApply, Shape
        <3>2. CacheAfterNewBlock(ToCreate, ToRemove) \in CoinTable
            BY DEF CacheAfterNewBlock, CoinTable, Shape, TypeOK
        <3> QED
            BY <2>2, <3>1, <3>2 DEF ApplyBlock, Shape, TypeOK, Database
    <2> QED
        BY <2>1, <2>2
<1>3. task.next + 1 \in 0..(MaxHeight + 1)
    BY <1>1, BlockAssumption DEF Heights
<1>4. /\ task'.pc = "apply" /\ task'.block = task.block /\ task'.fork = task.fork
      /\ task'.new_peak = task.new_peak /\ task' \in TaskType
    BY <1>3 DEF ApplyBlock, Shape, TypeOK, TaskType
<1>5. TypeOK'
    BY <1>2, <1>4 DEF ApplyBlock, Shape, TypeOK, memory
<1>6. StoreShape' /\ MemoryShape' /\ BlockCacheStored'
    BY <1>2 DEF ApplyBlock, Shape, StoreShape, MemoryShape, BlockCacheStored, PathIn, Peak, memory
<1>7. Collected' = Collected
    BY <1>4 DEF ApplyBlock, Collected, FirstCollected, memory
<1>8. TaskShape'
    BY <1>2, <1>4, <1>7 DEF ApplyBlock, Shape, TaskShape, memory
<1> QED
    BY <1>5, <1>6, <1>8 DEF Shape

\* set_peak keeps the shape: the path below the new peak is stored.
LEMMA SetPeakShape ==
    ASSUME Shape, SetPeak
    PROVE  Shape'
<1>1. task.new_peak /\ task.block \in Rooted /\ task.block \in Blocks
    BY AncestorAssumption DEF SetPeak, Shape, TaskShape
<1>2. \A h \in 0..Height[task.block] : Ancestor[task.block][h] \in tx.blocks
    BY <1>1, NewPeakPathStored DEF SetPeak
<1>3. tx' \in Database /\ tx'.blocks = tx.blocks /\ tx'.peak = task.block
    BY <1>1 DEF SetPeak, Shape, TypeOK, Database
<1>4. /\ task'.pc = "commit" /\ task'.block = task.block /\ task'.fork = task.fork
      /\ task'.new_peak = task.new_peak /\ task' \in TaskType
    BY DEF SetPeak, Shape, TypeOK, TaskType
<1>5. TypeOK'
    BY <1>3, <1>4 DEF SetPeak, Shape, TypeOK, memory
<1>6. StoreShape' /\ MemoryShape' /\ BlockCacheStored'
    BY <1>1, <1>2, <1>3 DEF SetPeak, Shape, StoreShape, MemoryShape, BlockCacheStored,
       PathIn, Peak, memory
<1>7. Collected' = Collected
    BY <1>4 DEF SetPeak, Collected, FirstCollected, memory
<1>8. TaskShape'
    BY <1>3, <1>4, <1>7 DEF SetPeak, Shape, TaskShape, memory
<1> QED
    BY <1>5, <1>6, <1>8 DEF Shape

\* The commit and the memory update that follows it keep the shape.
LEMMA CommitShape ==
    ASSUME Shape, Commit
    PROVE  Shape'
<1>1. task.pc = "commit" /\ task.block \in Rooted /\ task.block \in Blocks /\ Height[task.block] \in Heights
    BY BlockAssumption, AncestorAssumption DEF Commit, Shape, TaskShape
<1>2. MaxHeight \in Nat /\ Heights = 0..MaxHeight
    BY BlockAssumption DEF Heights
<1>3. db' = tx /\ tx' = tx /\ task' = Idle /\ block_cache' = block_cache /\ running'
    BY DEF Commit, Shape, TaskShape
<1>4. /\ height_to_hash' \in [Heights -> Blocks \cup {NONE}]
      /\ ses' \in [Heights -> Blocks \cup {NONE}]
      /\ peak_height' \in -1..MaxHeight
    <2>1. \A h \in Heights : h <= Height[task.block] => Ancestor[task.block][h] \in Blocks
        BY <1>1, <1>2, AncestorAssumption
    <2>2. CASE task.new_peak
        <3>1. height_to_hash' \in [Heights -> Blocks \cup {NONE}]
            BY <2>1, <2>2 DEF Commit, UpdateMemory, OnPath, Shape, TypeOK
        <3>2. ses' \in [Heights -> Blocks \cup {NONE}]
            BY <2>1, <2>2 DEF Commit, UpdateMemory, OnPath, Shape, TypeOK
        <3>3. peak_height' = Height[task.block]
            BY <2>2 DEF Commit, UpdateMemory
        <3>4. Height[task.block] \in -1..MaxHeight
            BY <1>1, <1>2
        <3> QED
            BY <3>1, <3>2, <3>3, <3>4
    <2>3. CASE ~task.new_peak
        BY <2>3 DEF Commit, UpdateMemory, Shape, TypeOK
    <2> QED
        BY <2>2, <2>3
<1>5. TypeOK'
    <2>1. Idle \in TaskType
        BY <1>2 DEF Idle, TaskType
    <2>2. /\ result'.code = "NEW_PEAK" => result'.fork >= 0
          /\ result' \in [code : Codes, block : Blocks \cup {NONE}, fork : -1..MaxHeight]
        BY <1>1, <1>2 DEF Commit, Returned, ReturnedForkHeight, Codes, Shape, TypeOK, TaskType
    <2>3. block_records' \subseteq Blocks /\ heights_in_cache' \subseteq Heights
        BY <1>1 DEF Commit, UpdateMemory, Shape, TypeOK
    <2> QED
        BY <1>3, <1>4, <2>1, <2>2, <2>3 DEF Commit, Shape, TypeOK
<1>6. StoreShape' /\ BlockCacheStored'
    BY <1>1, <1>3 DEF Commit, UpdateMemory, Shape, StoreShape, BlockCacheStored, PathIn
<1>7. MemoryShape'
    <2>1. CASE ~task.new_peak
        BY <1>3, <2>1 DEF Commit, UpdateMemory, Shape, StoreShape, MemoryShape, Peak
    <2>2. CASE task.new_peak
        <3>1. peak_height' = Height[task.block]
            BY <2>2 DEF Commit, UpdateMemory
        <3>2. \A h \in 0..Height[task.block] : height_to_hash'[h] = Ancestor[task.block][h]
            <4> SUFFICES ASSUME NEW h \in 0..Height[task.block]
                         PROVE  height_to_hash'[h] = Ancestor[task.block][h]
                OBVIOUS
            <4>1. h \in Heights /\ h <= Height[task.block]
                BY <1>1, <1>2
            <4>2. FirstCollected \in Nat
                BY <1>1, <1>2, FirstCollectedType
            <4>3. CASE FirstCollected <= h
                BY <2>2, <4>1, <4>3 DEF Commit, UpdateMemory, OnPath
            <4>4. CASE h < FirstCollected
                <5>1. height_to_hash'[h] = height_to_hash[h]
                    BY <1>2, <2>2, <4>1, <4>2, <4>4 DEF Commit, UpdateMemory, OnPath
                <5> QED
                    BY <1>1, <2>2, <4>4, <5>1, NewPeakPathStored
            <4> QED
                BY <1>2, <4>1, <4>2, <4>3, <4>4
        <3>3. \A h \in 0..Height[task.block] : Ancestor[task.block][h] \in tx.blocks
            BY <1>1, <2>2, NewPeakPathStored
        <3>4. Peak' = task.block
            BY <1>1, <1>2, <3>1, <3>2, AncestorAssumption DEF Peak
        <3> QED
            BY <1>1, <1>3, <3>1, <3>2, <3>3, <3>4 DEF MemoryShape
    <2> QED
        BY <2>1, <2>2
<1>8. TaskShape'
    BY <1>3 DEF TaskShape, Idle
<1> QED
    BY <1>5, <1>6, <1>7, <1>8 DEF Shape

\* The except clause of receive_block keeps the shape.
LEMMA UnwindShape ==
    ASSUME Shape, task.pc # "idle", Unwind
    PROVE  Shape'
<1>1. task.block \in Blocks /\ MaxHeight \in Nat
    BY BlockAssumption, AncestorAssumption DEF Shape, TaskShape
<1>2. TypeOK'
    <2>1. Idle \in TaskType
        BY <1>1 DEF Idle, TaskType
    <2> QED
        BY <1>1, <2>1 DEF Unwind, Returned, Codes, Shape, TypeOK, memory
<1>3. StoreShape' /\ MemoryShape'
    BY DEF Unwind, Shape, StoreShape, MemoryShape, PathIn, Peak, memory
<1>4. TaskShape' /\ BlockCacheStored'
    BY DEF Unwind, Shape, TaskShape, BlockCacheStored, Idle, memory
<1> QED
    BY <1>2, <1>3, <1>4 DEF Shape

\* A cancellation during COMMIT keeps the shape: the database moves on, memory stays.
LEMMA CancelledCommitShape ==
    ASSUME Shape, CancelledCommit
    PROVE  Shape'
<1>1. task.block \in Blocks /\ MaxHeight \in Nat
    BY BlockAssumption, AncestorAssumption DEF CancelledCommit, Shape, TaskShape
<1>2. TypeOK'
    <2>1. Idle \in TaskType
        BY <1>1 DEF Idle, TaskType
    <2> QED
        BY <1>1, <2>1 DEF CancelledCommit, Returned, Codes, Shape, TypeOK, memory
<1>3. StoreShape' /\ MemoryShape'
    BY DEF CancelledCommit, Shape, StoreShape, MemoryShape, PathIn, Peak, memory
<1>4. TaskShape' /\ BlockCacheStored'
    BY DEF CancelledCommit, Shape, TaskShape, BlockCacheStored, Idle, memory
<1> QED
    BY <1>2, <1>3, <1>4 DEF Shape

\* A crash keeps the shape.
LEMMA CrashShape ==
    ASSUME Shape, Crash
    PROVE  Shape'
<1>1. MaxHeight \in Nat
    BY BlockAssumption
<1>2. TypeOK'
    <2>1. Idle \in TaskType
        BY <1>1 DEF Idle, TaskType
    <2>2. /\ NoResult \in [code : Codes, block : Blocks \cup {NONE}, fork : -1..MaxHeight]
          /\ NoResult.code # "NEW_PEAK"
        BY <1>1 DEF NoResult, Codes
    <2>3. /\ NoHeights \in [Heights -> Blocks \cup {NONE}]
          /\ NoCoins \in CoinTable
          /\ -1 \in -1..MaxHeight
        BY <1>1 DEF NoHeights, NoCoins, CoinTable
    <2> QED
        BY <2>1, <2>2, <2>3 DEF Crash, Shape, TypeOK
<1>3. StoreShape' /\ MemoryShape' /\ TaskShape' /\ BlockCacheStored'
    BY DEF Crash, Shape, StoreShape, MemoryShape, TaskShape, BlockCacheStored, PathIn, Idle
<1> QED
    BY <1>2, <1>3 DEF Shape

\* _load_chain_from_store keeps the shape.
LEMMA RestartShape ==
    ASSUME Shape, Restart
    PROVE  Shape'
<1>1. MaxHeight \in Nat /\ Heights = 0..MaxHeight /\ NONE \notin Blocks
    BY BlockAssumption DEF Heights
<1>2. db.peak # NONE => db.peak \in Rooted /\ Height[db.peak] \in Heights
    BY BlockAssumption, AncestorAssumption DEF Shape, StoreShape, PathIn
<1>3. \A h \in Heights :
         /\ height_to_hash'[h] = IF db.peak # NONE /\ h <= Height[db.peak]
                                 THEN Ancestor[db.peak][h] ELSE NONE
         /\ ses'[h] = IF db.peak # NONE /\ h <= Height[db.peak] /\ HasSes[Ancestor[db.peak][h]]
                      THEN Ancestor[db.peak][h] ELSE NONE
    BY DEF Restart, UpToPeak
<1>4. \A h \in Heights : db.peak # NONE /\ h <= Height[db.peak] =>
         h \in 0..Height[db.peak] /\ Ancestor[db.peak][h] \in Blocks
    BY <1>1, <1>2, AncestorAssumption
<1>5. CloseToPeak \subseteq db.blocks /\ CloseToPeak \subseteq Blocks
    BY DEF CloseToPeak, Shape, TypeOK, Database
<1>6. TypeOK'
    <2>1. height_to_hash' \in [Heights -> Blocks \cup {NONE}]
        BY <1>3, <1>4 DEF Restart, UpToPeak
    <2>2. ses' \in [Heights -> Blocks \cup {NONE}]
        BY <1>3, <1>4 DEF Restart, UpToPeak
    <2>3. peak_height' \in -1..MaxHeight
        BY <1>1, <1>2 DEF Restart
    <2>4. heights_in_cache' \subseteq Heights
        BY <1>5, BlockAssumption DEF Restart
    <2> QED
        BY <1>5, <2>1, <2>2, <2>3, <2>4 DEF Restart, Shape, TypeOK
<1>7. StoreShape' /\ BlockCacheStored'
    BY <1>5 DEF Restart, Shape, StoreShape, BlockCacheStored, PathIn
<1>8. MemoryShape'
    <2> SUFFICES ASSUME peak_height' >= 0 PROVE MemoryShape'
        BY DEF MemoryShape
    <2>1. db.peak # NONE /\ peak_height' = Height[db.peak]
        BY DEF Restart
    <2>2. \A h \in 0..Height[db.peak] :
             height_to_hash'[h] = Ancestor[db.peak][h] /\ height_to_hash'[h] \in db.blocks
        <3> SUFFICES ASSUME NEW h \in 0..Height[db.peak]
                     PROVE  /\ height_to_hash'[h] = Ancestor[db.peak][h]
                            /\ Ancestor[db.peak][h] \in db.blocks
            OBVIOUS
        <3>1. h \in Heights /\ h <= Height[db.peak]
            BY <1>1, <1>2, <2>1
        <3> QED
            BY <1>3, <2>1, <3>1 DEF Restart
    <2>3. Peak' = db.peak
        BY <1>1, <1>2, <2>1, <2>2, AncestorAssumption DEF Peak
    <2> QED
        BY <1>2, <2>1, <2>2, <2>3 DEF MemoryShape, Restart
<1>9. TaskShape'
    BY DEF Restart, Shape, TaskShape
<1> QED
    BY <1>6, <1>7, <1>8, <1>9 DEF Shape

\* Steps that only change which block records are in memory.
LEMMA RecordsShape ==
    ASSUME Shape, block_records' \subseteq Rooted, heights_in_cache' \subseteq Heights,
           UNCHANGED <<db, tx, height_to_hash, peak_height, ses, block_cache,
                       coin_cache, task, result, running>>
    PROVE  Shape'
<1>1. TypeOK'
    BY AncestorAssumption DEF Shape, TypeOK
<1>2. StoreShape' /\ MemoryShape' /\ TaskShape' /\ BlockCacheStored'
    BY DEF Shape, StoreShape, MemoryShape, TaskShape, BlockCacheStored, PathIn, Peak,
       Collected, FirstCollected
<1> QED
    BY <1>1, <1>2 DEF Shape

\* Evicting, warming up and pre-validating keep the shape.
LEMMA ManageRecordsShape ==
    ASSUME Shape, ManageRecords
    PROVE  Shape'
<1>1. MaxHeight \in Nat /\ Heights = 0..MaxHeight
    BY BlockAssumption DEF Heights
<1>2. block_records \subseteq Rooted /\ heights_in_cache \subseteq Heights /\ db.blocks \subseteq Rooted
    BY DEF Shape, StoreShape, TypeOK
<1>3. ASSUME NEW height \in Heights, CleanBlockRecord(height)
      PROVE  Shape'
    BY <1>2, <1>3, RecordsShape DEF CleanBlockRecord
<1>4. ASSUME NEW height \in Heights, Warmup(height)
      PROVE  Shape'
    <2>1. Warmed(height) \subseteq db.blocks /\ Warmed(height) \subseteq Blocks
        BY DEF Warmed, Shape, TypeOK, Database
    <2>2. {Height[b] : b \in Warmed(height)} \subseteq Heights
        BY <2>1, BlockAssumption
    <2> QED
        BY <1>2, <1>4, <2>1, <2>2, RecordsShape DEF Warmup
<1>5. ASSUME NEW b \in Rooted, NEW first \in 0..Height[b], NEW done \in first..Height[b],
             PreValidate(b, first, done) \/ PreValidateMismatch(b, first, done)
      PROVE  Shape'
    <2>1. Height[b] \in 0..MaxHeight
        BY BlockAssumption, AncestorAssumption, <1>1
    <2>2. \A h \in first..done : h \in Heights /\ Ancestor[b][h] \in Rooted
        BY <1>1, <2>1, AncestorAssumption
    <2>3. \A h \in first..(done - 1) : h \in first..done
        BY <2>1
    <2>4. CASE PreValidate(b, first, done)
        BY <1>2, <2>2, <2>4, RecordsShape DEF PreValidate
    <2>5. CASE PreValidateMismatch(b, first, done)
        BY <1>2, <2>2, <2>3, <2>5, RecordsShape DEF PreValidateMismatch
    <2> QED
        BY <1>5, <2>4, <2>5
<1> QED
    BY <1>3, <1>4, <1>5 DEF ManageRecords

\* Steps that change nothing keep the shape.
LEMMA StutterShape ==
    ASSUME Shape, UNCHANGED vars
    PROVE  Shape'
BY DEF vars, memory, Shape, TypeOK, StoreShape, MemoryShape, TaskShape, BlockCacheStored,
       PathIn, Peak, Collected, FirstCollected

\* Shape is inductive: one lemma for each action.
LEMMA ShapeInductive == Shape /\ [Next]_vars => Shape'
<1> SUFFICES ASSUME Shape, [Next]_vars PROVE Shape'
    OBVIOUS
<1>1. CASE ReceiveBlock
    BY <1>1, ReceiveBlockShape
<1>2. CASE StoreBlock
    BY <1>2, AddFullBlockShape, KeepPeakShape, FirstPeakShape, RollBackToForkShape,
       CollectBlocksShape, ApplyBlockShape, SetPeakShape, CommitShape DEF StoreBlock
<1>3. CASE Fail
    <2>1. RaiseInTransaction => task.pc # "idle" /\ Unwind
        BY DEF RaiseInTransaction
    <2>2. Abort => task.pc # "idle" /\ Unwind
        BY ParameterAssumption DEF Abort
    <2> QED
        BY <1>3, <2>1, <2>2, UnwindShape, CancelledCommitShape DEF Fail
<1>4. CASE ManageRecords
    BY <1>4, ManageRecordsShape
<1>5. CASE Crash
    BY <1>5, CrashShape
<1>6. CASE Restart
    BY <1>6, RestartShape
<1>7. CASE UNCHANGED vars
    BY <1>7, StutterShape
<1> QED
    BY <1>1, <1>2, <1>3, <1>4, <1>5, <1>6, <1>7 DEF Next

\* Shape holds in every reachable state.
THEOREM ShapeInvariant == Spec => []Shape
BY InitShape, ShapeInductive, PTL DEF Spec

\* Every variable keeps its type, and a fork height that receive_block returns fits
\* a uint32, whatever is received and whatever fails.
THEOREM TypeCorrect == Spec => []TypeOK
<1>1. Shape => TypeOK
    BY DEF Shape
<1> QED
    BY <1>1, ShapeInvariant, PTL

\* Whatever exceptions, cancellations and crashes strike, every block on the path to
\* the committed peak is in the database: the walk of get_peak_height_dicts never
\* misses a block, and Blockchain.create can always load the chain.
THEOREM CommittedPathAlwaysStored == Spec => []CommittedPathStored
<1>1. Shape => CommittedPathStored
    BY DEF Shape, StoreShape, PathIn, CommittedPathStored
<1> QED
    BY <1>1, ShapeInvariant, PTL

\* get_full_block never answers from its cache with a block that the database does
\* not hold, not even after a rollback.
THEOREM BlockCacheAlwaysStored == Spec => []BlockCacheStored
<1>1. Shape => BlockCacheStored
    BY DEF Shape
<1> QED
    BY <1>1, ShapeInvariant, PTL
----------------------------------------------------------------------------
(* What a restart repairs                                                   *)

\* _load_chain_from_store rebuilds a memory that follows the database.
LEMMA RestartMemory ==
    ASSUME Shape, Shape', Restart
    PROVE  MemoryFollowsDatabase' /\ RecordsAreStored'
<1>1. db' = db
    BY DEF Restart
<1>2. MemoryFollowsDatabase'
    <2>1. CASE db.peak = NONE
        <3>1. peak_height' = -1
            BY <2>1 DEF Restart
        <3> QED
            BY <1>1, <2>1, <3>1 DEF MemoryFollowsDatabase
    <2>2. CASE db.peak # NONE
        <3>1. db.peak \in Rooted /\ Height[db.peak] \in Heights /\ Height[db.peak] \in Nat
            BY <2>2, BlockAssumption, AncestorAssumption
               DEF Shape, StoreShape, PathIn, Heights
        <3>2. db.peak \in db.blocks
            <4>1. Height[db.peak] \in 0..Height[db.peak]
                BY <3>1
            <4> QED
                BY <2>2, <3>1, <4>1, AncestorAssumption DEF Shape, StoreShape, PathIn
        <3>3. peak_height' = Height[db.peak]
            BY <2>2 DEF Restart
        <3>4. Peak' = db.peak
            BY <2>2, <3>1, <3>3, AncestorAssumption DEF Restart, UpToPeak, Peak
        <3>5. db.peak \in block_records'
            BY <2>2, <3>1, <3>2, ParameterAssumption DEF Restart, CloseToPeak
        <3>6. peak_height' >= 0 /\ peak_height' # -1
            BY <3>1, <3>3
        <3>7. \A h \in 0..peak_height' : height_to_hash'[h] = Ancestor[Peak'][h]
            BY <3>6 DEF Shape, MemoryShape
        <3> QED
            BY <1>1, <2>2, <3>3, <3>4, <3>5, <3>6, <3>7 DEF MemoryFollowsDatabase
    <2> QED
        BY <2>1, <2>2
<1>3. RecordsAreStored'
    BY <1>1 DEF Restart, CloseToPeak, RecordsAreStored
<1> QED
    BY <1>2, <1>3

\* A process that has died can only be started again.
LEMMA OnlyRestartStarts ==
    ASSUME [Next]_vars, ~running
    PROVE  Restart \/ UNCHANGED vars
<1>1. ~Crash
    BY DEF Crash
<1>2. ~ReceiveBlock
    BY DEF ReceiveBlock, AlreadyHaveBlock, DisconnectedBlock, InvalidHeader, ValidateBody,
       ReachesBody, AtRest
<1>3. ~StoreBlock
    BY DEF StoreBlock, AddFullBlock, KeepPeak, FirstPeak, RollBackToFork, CollectBlocks,
       ApplyBlock, SetPeak, Commit
<1>4. ~Fail
    BY DEF Fail, RaiseInTransaction, Abort, CancelledCommit
<1>5. ~ManageRecords
    BY DEF ManageRecords, CleanBlockRecord, Warmup, PreValidate, PreValidateMismatch,
       PreValidatable, AtRest
<1> QED
    BY <1>1, <1>2, <1>3, <1>4, <1>5 DEF Next

\* A process dies only in a crash.
LEMMA OnlyCrashStops ==
    ASSUME [Next]_vars, running, ~running'
    PROVE  Crash
<1>1. CASE ReceiveBlock
    BY <1>1 DEF ReceiveBlock, AlreadyHaveBlock, DisconnectedBlock, InvalidHeader, ValidateBody,
       BodyRaises, InvalidBody, AcceptBody
<1>2. CASE StoreBlock
    BY <1>2 DEF StoreBlock, AddFullBlock, KeepPeak, FirstPeak, RollBackToFork, CollectBlocks,
       ApplyBlock, SetPeak, Commit
<1>3. CASE Fail
    BY <1>3 DEF Fail, RaiseInTransaction, Abort, CancelledCommit, Unwind
<1>4. CASE ManageRecords
    BY <1>4 DEF ManageRecords, CleanBlockRecord, Warmup, PreValidate, PreValidateMismatch
<1>5. CASE Restart \/ UNCHANGED vars
    BY <1>5 DEF Restart, vars
<1> QED
    BY <1>1, <1>2, <1>3, <1>4, <1>5 DEF Next

\* A process that has died keeps no coin records.
ForgetsCoins == ~running => coin_cache = NoCoins

\* Nor does it get any before it is started again.
LEMMA ForgetsCoinsInductive == ForgetsCoins /\ [Next]_vars => ForgetsCoins'
<1> SUFFICES ASSUME ForgetsCoins, [Next]_vars, ~running' PROVE coin_cache' = NoCoins
    BY DEF ForgetsCoins
<1>1. CASE running
    BY <1>1, OnlyCrashStops DEF Crash
<1>2. CASE ~running
    BY <1>2, OnlyRestartStarts DEF Restart, vars, ForgetsCoins
<1> QED
    BY <1>1, <1>2

\* Blockchain.create after a crash: what is in memory is what the database says.
LEMMA RestartRepairs ==
    ASSUME Shape, Shape', ForgetsCoins, Restart
    PROVE  SummariesMatchChain' /\ CoinCacheCoherent'
<1>1. /\ task.pc = "idle" /\ tx = db /\ coin_cache = NoCoins
      /\ UNCHANGED <<db, tx, coin_cache>>
    BY DEF Restart, Shape, TaskShape, ForgetsCoins
<1>2. CoinCacheCoherent'
    BY <1>1 DEF CoinCacheCoherent, GetCoinRecord, NoCoins
<1>3. SummariesMatchChain'
    <2>1. CASE db.peak = NONE
        <3>1. peak_height' = -1 /\ \A h \in Heights : ses'[h] = NONE
            BY <2>1 DEF Restart, UpToPeak
        <3>2. \A h \in Heights : ~(h <= -1)
            BY BlockAssumption DEF Heights
        <3> QED
            BY <3>1, <3>2 DEF SummariesMatchChain
    <2>2. CASE db.peak # NONE
        BY <2>2 DEF Restart, UpToPeak, SummariesMatchChain
    <2> QED
        BY <2>1, <2>2
<1> QED
    BY <1>2, <1>3

\* A restart mends all that exceptions and cancellations, which may strike anywhere here,
\* have done to the memory: the height map, the records, the summaries and the cache of
\* coins agree with the database again.
THEOREM RestartAlwaysRepairsMemory == Spec => RestartRepairsMemory
<1>1. Init => ForgetsCoins
    BY DEF Init, ForgetsCoins
<1>2. Spec => []ForgetsCoins
    BY <1>1, ForgetsCoinsInductive, PTL DEF Spec
<1>3. ASSUME [Next]_vars, ~running, running' PROVE Restart
    BY <1>3, OnlyRestartStarts DEF vars
<1>4. Shape /\ Shape' /\ ForgetsCoins /\ [Next]_vars =>
        [~running /\ running' =>
            /\ MemoryFollowsDatabase'
            /\ RecordsAreStored'
            /\ SummariesMatchChain'
            /\ CoinCacheCoherent']_vars
    BY <1>3, RestartMemory, RestartRepairs
<1> QED
    BY <1>2, <1>4, ShapeInvariant, PTL DEF Spec, RestartRepairsMemory

----------------------------------------------------------------------------
(* Generators of the block's own chain                                      *)

\* A heavier valid block is at least as high: in this code it need not be, and run
\* generator_refs shows what follows.
HeavierIsNotLower ==
    \A a, b \in HeaderValid : Weight[b] > Weight[a] => Height[b] >= Height[a]

\* height_to_hash has nothing above the peak, the peak has a valid header, and so does
\* the block that is to replace it, which is heavier.
NothingAbovePeak ==
    /\ db.peak \in HeaderValid \cup {NONE} /\ tx.peak \in HeaderValid \cup {NONE}
    /\ peak_height >= 0 => Peak \in HeaderValid
    /\ \A h \in Heights : h > peak_height => height_to_hash[h] = NONE
    /\ task.pc # "idle" =>
          /\ task.block \in HeaderValid
          /\ task.new_peak => peak_height = -1 \/ Weight[task.block] > Weight[Peak]

\* Steps that leave the height map alone, and bring no unchecked block.
LEMMA HeightsKept ==
    ASSUME NothingAbovePeak, UNCHANGED <<height_to_hash, peak_height>>,
           db'.peak \in HeaderValid \cup {NONE}, tx'.peak \in HeaderValid \cup {NONE},
           task'.pc # "idle" =>
              /\ task'.block \in HeaderValid
              /\ task'.new_peak => peak_height = -1 \/ Weight[task'.block] > Weight[Peak]
    PROVE  NothingAbovePeak'
BY DEF NothingAbovePeak, Peak

\* receive_block up to its database part: only a block with a valid header goes on.
LEMMA ReceiveBlockHeights ==
    ASSUME Shape, NothingAbovePeak, ReceiveBlock
    PROVE  NothingAbovePeak'
<1>1. task.pc = "idle" /\ UNCHANGED <<db, tx, height_to_hash, peak_height>>
    BY DEF ReceiveBlock, AlreadyHaveBlock, DisconnectedBlock, InvalidHeader, ValidateBody,
       ReachesBody, AtRest, BodyRaises, InvalidBody, AcceptBody, memory
<1>2. task'.pc # "idle" => task'.block \in HeaderValid /\ ~task'.new_peak
    <2>1. ASSUME NEW b \in Blocks, NEW fp, NEW fork, ReachesBody(b), AcceptBody(b, fp, fork)
          PROVE  task'.block \in HeaderValid /\ ~task'.new_peak
        BY <2>1 DEF ReachesBody, HeaderAccepted, AcceptBody, Idle
    <2> QED
        BY <1>1, <2>1 DEF ReceiveBlock, AlreadyHaveBlock, DisconnectedBlock, InvalidHeader,
           ValidateBody, BodyRaises, InvalidBody
<1> QED
    BY <1>1, <1>2, HeightsKept DEF NothingAbovePeak

\* The database part before the commit: a block is made the peak because it is heavier.
LEMMA StoreBlockHeights ==
    ASSUME Shape, NothingAbovePeak,
           \/ AddFullBlock \/ KeepPeak \/ FirstPeak \/ RollBackToFork
           \/ CollectBlocks \/ ApplyBlock \/ SetPeak
    PROVE  NothingAbovePeak'
<1>1. /\ task.block \in HeaderValid /\ UNCHANGED <<db, height_to_hash, peak_height>>
      /\ task \in TaskType /\ tx \in Database
    BY DEF AddFullBlock, KeepPeak, FirstPeak, RollBackToFork, CollectBlocks, ApplyBlock,
       SetPeak, memory, NothingAbovePeak, Shape, TypeOK
<1>2. CASE AddFullBlock
    <2>1. /\ task'.block = task.block /\ task'.new_peak = task.new_peak /\ ~task.new_peak
          /\ tx'.peak \in {tx.peak, NONE}
        BY <1>1, <1>2 DEF AddFullBlock, TaskType, Database, Shape, TaskShape
    <2> QED
        BY <1>1, <2>1, HeightsKept DEF NothingAbovePeak
<1>3. CASE KeepPeak
    <2>1. task'.block = task.block /\ ~task'.new_peak /\ tx' = tx
        BY <1>1, <1>3 DEF KeepPeak, TaskType, Shape, TaskShape
    <2> QED
        BY <1>1, <2>1, HeightsKept DEF NothingAbovePeak
<1>4. CASE FirstPeak
    <2>1. task'.block = task.block /\ tx' = tx /\ peak_height = -1
        BY <1>1, <1>4 DEF FirstPeak, TaskType
    <2> QED
        BY <1>1, <2>1, HeightsKept DEF NothingAbovePeak
<1>5. CASE RollBackToFork
    <2>1. task'.block = task.block /\ tx'.peak = tx.peak /\ Weight[task.block] > Weight[Peak]
        BY <1>1, <1>5 DEF RollBackToFork, HeavierThanPeak, TaskType, Database
    <2> QED
        BY <1>1, <2>1, HeightsKept DEF NothingAbovePeak
<1>6. CASE CollectBlocks
    <2>1. /\ task'.block = task.block /\ task'.new_peak = task.new_peak /\ tx' = tx
          /\ task.pc # "idle"
        BY <1>1, <1>6 DEF CollectBlocks, TaskType
    <2> QED
        BY <1>1, <2>1, HeightsKept DEF NothingAbovePeak
<1>7. CASE ApplyBlock
    <2>1. /\ task'.block = task.block /\ task'.new_peak = task.new_peak /\ tx'.peak = tx.peak
          /\ task.pc # "idle"
        BY <1>1, <1>7 DEF ApplyBlock, TaskType, Database
    <2> QED
        BY <1>1, <2>1, HeightsKept DEF NothingAbovePeak
<1>8. CASE SetPeak
    <2>1. /\ task'.block = task.block /\ task'.new_peak = task.new_peak
          /\ tx'.peak = task.block /\ task.pc # "idle"
        BY <1>1, <1>8 DEF SetPeak, TaskType, Database
    <2> QED
        BY <1>1, <2>1, HeightsKept DEF NothingAbovePeak
<1> QED
    BY <1>2, <1>3, <1>4, <1>5, <1>6, <1>7, <1>8

\* The commit: a new peak is not lower than the one before, so that it covers every
\* entry that was there.
LEMMA CommitHeights ==
    ASSUME HeavierIsNotLower, Shape, NothingAbovePeak, Commit
    PROVE  NothingAbovePeak'
<1>1. /\ task.pc # "idle" /\ task'.pc = "idle" /\ db' = tx /\ tx' = tx
      /\ task.block \in HeaderValid /\ task.block \in Rooted
      /\ Height[task.block] \in Heights
    BY BlockAssumption DEF Commit, Idle, NothingAbovePeak, Shape, TaskShape
<1>2. CASE ~task.new_peak
    BY <1>1, <1>2, HeightsKept DEF Commit, UpdateMemory, NothingAbovePeak
<1>3. CASE task.new_peak
    <2>1. peak_height' = Height[task.block]
        BY <1>3 DEF Commit, UpdateMemory
    <2>2. \A h \in Heights : height_to_hash'[h] =
             IF OnPath(h) THEN Ancestor[task.block][h] ELSE height_to_hash[h]
        BY <1>3 DEF Commit, UpdateMemory
    <2>3. Height[task.block] \in Nat /\ peak_height \in Int /\ Heights \subseteq Int
        BY <1>1, BlockAssumption DEF Heights, Shape, TypeOK
    <2>4. Height[task.block] >= peak_height
        <3>1. CASE peak_height = -1
            BY <2>3, <3>1
        <3>2. CASE peak_height >= 0
            <4>1. Peak \in HeaderValid /\ Weight[task.block] > Weight[Peak]
                BY <1>1, <1>3, <3>2 DEF NothingAbovePeak
            <4> QED
                BY <1>1, <3>2, <4>1 DEF HeavierIsNotLower, Shape, MemoryShape
        <3> QED
            BY <2>3, <3>1, <3>2 DEF Shape, TypeOK
    <2>5. ASSUME NEW h \in Heights, h > peak_height' PROVE height_to_hash'[h] = NONE
        <3>1. h \in Int /\ ~(h <= Height[task.block]) /\ h > peak_height
            BY <2>1, <2>3, <2>4, <2>5
        <3> QED
            BY <2>2, <3>1 DEF OnPath, NothingAbovePeak
    <2>6. Peak' = task.block
        <3>1. Peak' = height_to_hash'[Height[task.block]]
            BY <2>1 DEF Peak
        <3>2. Ancestor[task.block][Height[task.block]] = task.block
            BY <1>1, AncestorAssumption
        <3>3. CASE FirstCollected <= Height[task.block]
            BY <1>1, <2>2, <2>3, <3>1, <3>2, <3>3 DEF OnPath
        <3>4. CASE ~(FirstCollected <= Height[task.block])
            <4>1. /\ FirstCollected \in Int /\ Height[task.block] \in 0..Height[task.block]
                  /\ task.pc = "commit"
                BY <1>1, <2>3, FirstCollectedType, BlockAssumption DEF Commit
            <4>2. height_to_hash[Height[task.block]] = task.block
                BY <1>3, <2>3, <3>2, <3>4, <4>1, NewPeakPathStored
            <4> QED
                BY <1>1, <2>2, <3>1, <3>4, <4>2 DEF OnPath
        <3> QED
            BY <3>3, <3>4
    <2> QED
        BY <1>1, <2>5, <2>6 DEF NothingAbovePeak
<1> QED
    BY <1>2, <1>3

\* Exceptions and cancellations leave the height map alone.
LEMMA FailHeights ==
    ASSUME Shape, NothingAbovePeak, Fail
    PROVE  NothingAbovePeak'
<1>1. /\ task'.pc = "idle" /\ UNCHANGED <<height_to_hash, peak_height>>
      /\ {db', tx'} \subseteq {db, tx}
    BY DEF Fail, RaiseInTransaction, Abort, CancelledCommit, Unwind, Idle, memory
<1> QED
    BY <1>1, HeightsKept DEF NothingAbovePeak

\* A crash and a restart leave the chain of the committed peak, and nothing above it.
LEMMA RestartHeights ==
    ASSUME Shape, NothingAbovePeak, Crash \/ Restart
    PROVE  NothingAbovePeak'
<1>1. CASE Crash
    <2>1. ~(-1 >= 0)
        OBVIOUS
    <2> QED
        BY <1>1, <2>1 DEF Crash, NothingAbovePeak, NoHeights, Idle
<1>2. CASE Restart
    <2>1. task'.pc = "idle" /\ UNCHANGED <<db, tx>>
        BY <1>2 DEF Restart, Shape, TaskShape
    <2>2. CASE db.peak = NONE
        <3>1. peak_height' = -1 /\ \A h \in Heights : height_to_hash'[h] = NONE
            BY <1>2, <2>2 DEF Restart, UpToPeak
        <3> QED
            BY <2>1, <3>1 DEF NothingAbovePeak
    <2>3. CASE db.peak # NONE
        <3>1. /\ db.peak \in Rooted /\ db.peak \in HeaderValid /\ Height[db.peak] \in Heights
              /\ peak_height' = Height[db.peak]
            BY <1>2, <2>3, BlockAssumption DEF Restart, NothingAbovePeak, Shape, StoreShape,
               PathIn
        <3>2. \A h \in Heights : height_to_hash'[h] =
                 IF h <= Height[db.peak] THEN Ancestor[db.peak][h] ELSE NONE
            BY <1>2, <2>3 DEF Restart, UpToPeak
        <3>3. ASSUME NEW h \in Heights, h > peak_height' PROVE height_to_hash'[h] = NONE
            <4>1. h \in Int /\ Height[db.peak] \in Int /\ ~(h <= Height[db.peak])
                BY <3>1, <3>3, BlockAssumption DEF Heights
            <4> QED
                BY <3>2, <4>1
        <3>4. Peak' = db.peak
            <4>1. Height[db.peak] \in Int /\ Height[db.peak] <= Height[db.peak]
                BY <3>1, BlockAssumption DEF Heights
            <4>2. height_to_hash'[Height[db.peak]] = Ancestor[db.peak][Height[db.peak]]
                BY <3>1, <3>2, <4>1
            <4> QED
                BY <3>1, <4>2, AncestorAssumption DEF Peak
        <3> QED
            BY <2>1, <3>1, <3>3, <3>4 DEF NothingAbovePeak
    <2> QED
        BY <2>2, <2>3
<1> QED
    BY <1>1, <1>2

\* One lemma for each group of actions.
LEMMA HeightsInductive ==
    ASSUME HeavierIsNotLower
    PROVE  Shape /\ NothingAbovePeak /\ [Next]_vars => NothingAbovePeak'
<1> SUFFICES ASSUME Shape, NothingAbovePeak, [Next]_vars PROVE NothingAbovePeak'
    OBVIOUS
<1>1. CASE ManageRecords
    <2>1. UNCHANGED <<db, tx, height_to_hash, peak_height, task>>
        BY <1>1 DEF ManageRecords, CleanBlockRecord, Warmup, PreValidate, PreValidateMismatch
    <2> QED
        BY <2>1, HeightsKept DEF NothingAbovePeak
<1>2. CASE UNCHANGED vars
    BY <1>2, HeightsKept DEF NothingAbovePeak, vars, memory
<1> QED
    BY <1>1, <1>2, ReceiveBlockHeights, StoreBlockHeights, CommitHeights, FailHeights,
       RestartHeights DEF Next, StoreBlock

\* Unless the parent is above the peak, get_block_generator looks a reference up in the
\* block's own chain: height_to_hash has it when the parent is on the main chain or the
\* fork is above the reference.
LEMMA GeneratorOfOwnChain ==
    ASSUME Shape, NEW b \in HeaderValid \cap BodyValid \cap Rooted,
           Height[b] > 0, Prev[b] \in block_records, Height[b] - 1 <= peak_height,
           NEW h \in GenRefs[b]
    PROVE  GeneratorRef(b, h) = Ancestor[b][h]
<1> DEFINE H == Height[b] - 1
<1>1. /\ Prev[b] \in Rooted /\ Height[Prev[b]] = H
      /\ \A k \in 0..H : Ancestor[b][k] = Ancestor[Prev[b]][k]
    BY ParentChain
<1>2. Height[b] \in Nat /\ H \in Heights /\ H \in Nat /\ MaxHeight \in Nat
    BY BlockAssumption DEF Heights
<1>3. h \in 0..H
    BY <1>2, BlockAssumption, BodyAssumption DEF Heights
<1>4. peak_height \in Int /\ H <= peak_height /\ peak_height >= 0
    BY <1>2 DEF Shape, TypeOK
<1>5. /\ Peak \in Rooted /\ Height[Peak] = peak_height
      /\ \A k \in 0..peak_height : height_to_hash[k] = Ancestor[Peak][k]
    BY <1>4 DEF Shape, MemoryShape
<1>6. h \in 0..peak_height /\ H \in 0..peak_height
    BY <1>2, <1>3, <1>4
<1>7. ASSUME NEW k \in 0..H, h <= k, Ancestor[Peak][k] = Ancestor[Prev[b]][k]
      PROVE  height_to_hash[h] = Ancestor[b][h]
    <2>1. k \in 0..Height[Peak] /\ k <= Height[Prev[b]] /\ h \in 0..k
        BY <1>1, <1>2, <1>3, <1>4, <1>5, <1>7
    <2>2. Ancestor[Peak][h] = Ancestor[Prev[b]][h]
        BY <1>1, <1>5, <1>7, <2>1, CommonBelow
    <2> QED
        BY <1>1, <1>3, <1>5, <1>6, <2>2
<1>8. CASE height_to_hash[H] = Prev[b]
    <2>1. Ancestor[Peak][H] = Ancestor[Prev[b]][H] /\ H \in 0..H /\ h <= H
        BY <1>1, <1>2, <1>3, <1>5, <1>6, <1>8, AncestorAssumption
    <2>2. height_to_hash[h] = Ancestor[b][h]
        BY <1>7, <2>1
    <2> QED
        BY <1>8, <2>2 DEF GeneratorRef
<1>9. CASE height_to_hash[H] # Prev[b]
    <2>1. CASE \A k \in Common(Peak, Prev[b]) : k <= h
        BY <1>4, <1>9, <2>1 DEF GeneratorRef
    <2>2. CASE ~\A k \in Common(Peak, Prev[b]) : k <= h
        <3>1. PICK k \in Common(Peak, Prev[b]) : ~(k <= h)
            BY <2>2
        <3>2. k \in 0..H /\ h <= k /\ Ancestor[Peak][k] = Ancestor[Prev[b]][k]
            BY <1>1, <1>2, <1>3, <1>4, <1>5, <3>1 DEF Common
        <3>3. height_to_hash[h] = Ancestor[b][h]
            BY <1>7, <3>2
        <3> QED
            BY <2>2, <3>3 DEF GeneratorRef
    <2> QED
        BY <2>1, <2>2
<1> QED
    BY <1>8, <1>9

\* Where no chain outweighs a longer one, get_block_generator runs a block with the
\* generators of the block's own chain whenever it finds them, through every reorganization,
\* eviction, exception and crash.  The run generator_refs has a heavier chain that is shorter:
\* what goes wrong there are the entries that height_to_hash keeps above the new peak.
THEOREM GeneratorsAlwaysFromOwnChain ==
    ASSUME HeavierIsNotLower
    PROVE  Spec => []GeneratorsFromOwnChain
<1>1. Init => NothingAbovePeak
    BY DEF Init, NothingAbovePeak, EmptyDatabase, NoHeights, Idle
<1>2. ASSUME Shape, NothingAbovePeak, NEW b \in HeaderValid \cap BodyValid \cap Rooted,
             Height[b] > 0, Prev[b] \in block_records, ~GeneratorLookupFails(b),
             NEW h \in GenRefs[b]
      PROVE  GeneratorRef(b, h) = Ancestor[b][h]
    <2>1. Height[b] - 1 \in Heights /\ Height[b] - 1 \in Int /\ peak_height \in Int
        BY <1>2, BlockAssumption DEF Heights, Shape, TypeOK
    <2>2. Height[b] - 1 <= peak_height
        BY <1>2, <2>1 DEF GeneratorLookupFails, NothingAbovePeak
    <2> QED
        BY <1>2, <2>2, GeneratorOfOwnChain
<1>3. Shape /\ NothingAbovePeak => GeneratorsFromOwnChain
    BY <1>2 DEF GeneratorsFromOwnChain, GeneratorRuns
<1> QED
    BY <1>1, <1>3, HeightsInductive, ShapeInvariant, PTL DEF Spec
=============================================================================
