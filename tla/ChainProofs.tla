----------------------------- MODULE ChainProofs -----------------------------
(***************************************************************************)
(* Database, memory and coin store agree with the heaviest valid chain.     *)
(* Undisturbed names the conditions under which they do, for every block    *)
(* tree: no exception strikes once the coin store is being changed, no      *)
(* batch contradicts its weight proof, and generators refer to no earlier   *)
(* block or to one that is always found.  Then Blockchain implements        *)
(* HeaviestChain.                                                           *)
(***************************************************************************)
EXTENDS BlockchainProofs

\* Generators that other blocks refer to are found: there are generators at the heights
\* referred to, no record has to leave the cache, and a higher block is heavier.
GeneratorsFindable ==
    /\ \A b \in HeaderValid \cap BodyValid \cap Rooted : \A h \in GenRefs[b] :
          Removals[Ancestor[b][h]] # {}
    /\ MaxHeight < BLOCKS_CACHE_SIZE
    /\ \A a, b \in HeaderValid : Height[b] > Height[a] => Weight[b] > Weight[a]

Undisturbed ==
    /\ AbortPoints \subseteq {"add", "reconsider"}
    /\ WpMismatch = FALSE
    /\ (\A b \in Blocks : GenRefs[b] = {}) \/ GeneratorsFindable

\* No stored block is lighter than a genesis block.
GenesisLightest ==
    \A b \in tx.blocks : \A g \in HeaderValid : Height[g] = 0 => Weight[g] <= Weight[b]

\* The cache of coin records repeats what the connection sees.
CacheFollowsTx == \A c \in Coins : coin_cache[c] # NONE => coin_cache[c] = tx.coins[c]

\* What a receive_block under way knows about its block and its fork height.
TaskFollowsChecks ==
    task.pc # "idle" =>
        /\ task.block \notin block_records
        /\ Height[task.block] > 0 => Prev[task.block] \in block_records
        /\ ValidOnOwnChain(task.block)
        /\ task.fork >= 0 => height_to_hash[task.fork] = Ancestor[task.block][task.fork]
        /\ task.new_peak =>
              \/ db.peak = NONE /\ Height[task.block] = 0
              \/ db.peak # NONE /\ Weight[task.block] > Weight[db.peak]
        /\ task.pc = "commit" /\ ~task.new_peak =>
              db.peak # NONE /\ (Height[task.block] = 0 \/ Weight[task.block] <= Weight[db.peak])

\* How far the open transaction has taken the coin table and the peak.
TxFollowsTask ==
    /\ task.pc \in {"idle", "add", "reconsider", "commit"} /\ ~task.new_peak =>
          tx.coins = db.coins /\ tx.peak = db.peak
    /\ task.pc \in {"collect", "apply"} => tx.peak = db.peak
    /\ task.pc = "collect" => CoinsMatchChain(tx.coins, task.block, task.fork)
    /\ task.pc = "apply" =>
          /\ task.next <= Height[task.block] + 1
          /\ CoinsMatchChain(tx.coins, task.block, task.next - 1)
    /\ task.pc = "commit" /\ task.new_peak =>
          /\ tx.peak = task.block
          /\ CoinsMatchChain(tx.coins, task.block, Height[task.block])

\* As long as the chain fits the cache of records, every committed block has its record.
AllLoaded == running /\ MaxHeight < BLOCKS_CACHE_SIZE => db.blocks \subseteq block_records

Consistent ==
    /\ Shape
    /\ StoredChainsComplete
    /\ MemoryFollowsDatabase
    /\ PeakIsHeaviest
    /\ GenesisLightest
    /\ CoinStoreMatchesChain
    /\ RecordsAreStored
    /\ VerdictMatchesReference
    /\ CacheFollowsTx
    /\ TaskFollowsChecks
    /\ TxFollowsTask

----------------------------------------------------------------------------
(* Coins on one chain                                                       *)

\* The blocks of b's chain, up to height n, are valid.
ChainValid(b, n) == \A h \in 0..n : ValidOnOwnChain(Ancestor[b][h])

\* On a valid chain a coin is created no later than it is removed.
LEMMA RemovedWasCreated ==
    ASSUME NEW b \in Rooted, NEW n \in Int, n <= Height[b], ChainValid(b, n),
           NEW h \in 0..n, NEW c \in Removals[Ancestor[b][h]]
    PROVE  \E k \in 0..h : c \in Created(Ancestor[b][k])
<1> DEFINE a == Ancestor[b][h]
<1>1. Height[b] \in Nat /\ h \in 0..Height[b]
    BY BlockAssumption, AncestorAssumption DEF Heights
<1>2. a \in Rooted /\ Height[a] = h /\ \A k \in 0..h : Ancestor[a][k] = Ancestor[b][k]
    BY <1>1, AncestorAssumption
<1>3. ValidOnOwnChain(a) /\ a \in BodyValid
    BY DEF ChainValid, ValidOnOwnChain
<1>4. CASE c \in Created(a)
    BY <1>4, <1>1
<1>5. CASE c \notin Created(a)
    <2>1. c \in CoinsReadFor(a)
        BY <1>3, <1>5, BodyAssumption DEF CoinsReadFor
    <2>2. PICK k \in 0..(h - 1) : c \in Created(Ancestor[a][k])
        BY <1>2, <1>3, <2>1 DEF ValidOnOwnChain
    <2>3. k \in 0..h
        BY <1>1
    <2> QED
        BY <1>2, <2>2, <2>3
<1> QED
    BY <1>4, <1>5

\* A record says the same of two chains that share their blocks.
LEMMA MatchesSharedChain ==
    ASSUME NEW table, NEW a, NEW b, NEW n,
           \A h \in 0..n : Ancestor[a][h] = Ancestor[b][h],
           CoinsMatchChain(table, a, n)
    PROVE  CoinsMatchChain(table, b, n)
BY DEF CoinsMatchChain, RecordMatchesChain

\* rollback_to_block(f) takes the coin table of a chain to the one of its first
\* blocks, up to height f.
LEMMA RollBackMatches ==
    ASSUME NEW table \in CoinTable, NEW b \in Rooted, NEW n \in Int, n <= Height[b],
           NEW f \in Int, f <= n, f >= -1,
           ChainValid(b, n), CoinsMatchChain(table, b, n)
    PROVE  CoinsMatchChain(RollBack(table, f), b, f)
<1> SUFFICES ASSUME NEW c \in Coins
             PROVE  RecordMatchesChain(RollBack(table, f)[c], c, b, f)
    BY DEF CoinsMatchChain
<1> DEFINE r == table[c]
           q == RollBackRecord(table[c], f)
<1>1. q = RollBack(table, f)[c]
    BY DEF RollBack
<1>2. RecordMatchesChain(r, c, b, n) /\ r \in CoinRecord \cup {NONE}
    BY DEF CoinsMatchChain, CoinTable
<1>3. \A h \in 0..f : h \in 0..n
    OBVIOUS
<1>4. CASE r = NONE
    BY <1>1, <1>2, <1>3, <1>4 DEF RollBackRecord, RecordMatchesChain
<1>5. CASE r # NONE /\ r.confirmed > f
    <2>1. q = NONE /\ r.confirmed \in Nat
        BY <1>2, <1>5, BlockAssumption DEF RollBackRecord, CoinRecord, Heights
    <2>2. \A h \in 0..f : c \notin Created(Ancestor[b][h])
        BY <1>2, <1>3, <1>5, <2>1 DEF RecordMatchesChain
    <2>3. \A h \in 0..f : c \notin Removals[Ancestor[b][h]]
        <3> SUFFICES ASSUME NEW h \in 0..f, c \in Removals[Ancestor[b][h]]
                     PROVE  FALSE
            OBVIOUS
        <3>1. \E k \in 0..h : c \in Created(Ancestor[b][k])
            BY <1>3, RemovedWasCreated
        <3> QED
            BY <2>2, <3>1
    <2> QED
        BY <1>1, <2>1, <2>2, <2>3 DEF RecordMatchesChain
<1>6. CASE r # NONE /\ ~(r.confirmed > f)
    <2>1. r \in CoinRecord /\ r.confirmed \in Nat /\ r.spent_index \in Nat /\ r.spent \in BOOLEAN
        BY <1>2, <1>6, BlockAssumption DEF CoinRecord, Heights
    <2>2. CASE r.spent_index > f
        <3>1. q = [confirmed |-> r.confirmed, spent_index |-> 0, spent |-> FALSE]
            BY <1>6, <2>1, <2>2 DEF RollBackRecord, CoinRecord
        <3>2. q # NONE
            <4>1. 0 \in Heights
                BY BlockAssumption DEF Heights
            <4>2. q \in CoinRecord
                BY <2>1, <3>1, <4>1 DEF CoinRecord
            <4> QED
                BY <4>2, NoneAssumption
        <3>3. q.confirmed = r.confirmed /\ q.spent_index = 0 /\ ~q.spent /\ f >= 0
            BY <1>6, <2>1, <3>1
        <3>4. \A h \in 0..f : c \notin Removals[Ancestor[b][h]]
            BY <1>2, <1>3, <1>6, <2>1, <2>2 DEF RecordMatchesChain
        <3>5. \A h \in 0..f : c \in Created(Ancestor[b][h]) <=> h = q.confirmed
            BY <1>2, <1>3, <1>6, <3>3 DEF RecordMatchesChain
        <3> QED
            BY <1>1, <1>6, <2>1, <3>2, <3>3, <3>4, <3>5 DEF RecordMatchesChain
    <2>3. CASE ~(r.spent_index > f)
        BY <1>1, <1>2, <1>3, <1>6, <2>1, <2>3 DEF RollBackRecord, RecordMatchesChain
    <2> QED
        BY <2>2, <2>3
<1> QED
    BY <1>4, <1>5, <1>6

\* No record matches an empty chain.
LEMMA EmptyChainMatches ==
    ASSUME NEW table \in CoinTable, NEW b
    PROVE  CoinsMatchChain(table, b, -1) <=> table = NoCoins
<1>1. ASSUME table = NoCoins PROVE CoinsMatchChain(table, b, -1)
    BY <1>1 DEF CoinsMatchChain, RecordMatchesChain, NoCoins
<1>2. ASSUME CoinsMatchChain(table, b, -1) PROVE table = NoCoins
    <2>1. \A c \in Coins : table[c] = NONE
        <3> SUFFICES ASSUME NEW c \in Coins, table[c] # NONE PROVE FALSE
            OBVIOUS
        <3>1. table[c] \in CoinRecord /\ table[c].confirmed \in Nat
            BY BlockAssumption DEF CoinTable, CoinRecord, Heights
        <3>2. table[c].confirmed <= -1
            BY <1>2 DEF CoinsMatchChain, RecordMatchesChain
        <3> QED
            BY <3>1, <3>2
    <2> QED
        BY <2>1 DEF CoinTable, NoCoins
<1> QED
    BY <1>1, <1>2

\* new_block succeeds for a valid block on the coin table of the chain below it ...
LEMMA NewBlockPossible ==
    ASSUME TypeOK, CacheFollowsTx, NEW b \in Rooted, NEW n \in 0..Height[b],
           ChainValid(b, Height[b]), CoinsMatchChain(tx.coins, b, n - 1),
           IsTx[Ancestor[b][n]]
    PROVE  NewBlockSucceeds(Created(Ancestor[b][n]), Removals[Ancestor[b][n]])
<1> DEFINE a == Ancestor[b][n]
<1>1. Height[b] \in Nat /\ n \in Nat
    BY BlockAssumption, AncestorAssumption DEF Heights
<1>2. a \in Rooted /\ a \in Blocks /\ Height[a] = n /\ \A k \in 0..n : Ancestor[a][k] = Ancestor[b][k]
    BY AncestorAssumption
<1>3. ValidOnOwnChain(a)
    BY DEF ChainValid
<1>4. ASSUME NEW c \in Created(a) PROVE tx.coins[c] = NONE
    <2>1. c \in Coins
        BY <1>2, BlockAssumption DEF Created
    <2> SUFFICES ASSUME tx.coins[c] # NONE PROVE FALSE
        OBVIOUS
    <2> DEFINE k == tx.coins[c].confirmed
    <2>2. k \in Nat /\ k <= n - 1 /\ c \in Created(Ancestor[b][k])
        BY <1>1, <2>1, BlockAssumption
           DEF CoinsMatchChain, RecordMatchesChain, TypeOK, Database, CoinTable, CoinRecord, Heights
    <2>3. k \in 0..Height[b] /\ k # n
        BY <1>1, <2>2
    <2> QED
        BY <2>2, <2>3, CoinAssumption DEF ChainValid
<1>5. ASSUME NEW c \in Removals[a] \ Created(a)
      PROVE  GetCoinRecord(c) # NONE /\ ~GetCoinRecord(c).spent
    <2>1. c \in Coins /\ c \in CoinsReadFor(a)
        BY <1>2, BlockAssumption DEF CoinsReadFor
    <2>2. GetCoinRecord(c) = tx.coins[c]
        BY <2>1 DEF GetCoinRecord, CacheFollowsTx
    <2>3. PICK h \in 0..(n - 1) : c \in Created(Ancestor[b][h])
        BY <1>1, <1>2, <1>3, <2>1 DEF ValidOnOwnChain
    <2>4. \A k \in 0..(n - 1) : c \notin Removals[Ancestor[b][k]]
        BY <1>1, <1>2, <1>3, <2>1 DEF ValidOnOwnChain
    <2>5. RecordMatchesChain(tx.coins[c], c, b, n - 1)
        BY <2>1 DEF CoinsMatchChain
    <2>6. tx.coins[c] # NONE
        BY <2>3, <2>5 DEF RecordMatchesChain
    <2>7. tx.coins[c].spent_index \in Nat
        BY <2>1, <2>6, BlockAssumption DEF TypeOK, Database, CoinTable, CoinRecord, Heights
    <2>8. ~tx.coins[c].spent
        BY <1>1, <2>4, <2>5, <2>6, <2>7 DEF RecordMatchesChain
    <2> QED
        BY <2>2, <2>6, <2>8
<1> QED
    BY <1>4, <1>5 DEF NewBlockSucceeds

\* ... and produces the coin table of the chain up to the block.
LEMMA NewBlockMatches ==
    ASSUME TypeOK, CacheFollowsTx, NEW b \in Rooted, NEW n \in 0..Height[b],
           CoinsMatchChain(tx.coins, b, n - 1),
           NewBlockSucceeds(Created(Ancestor[b][n]), Removals[Ancestor[b][n]])
    PROVE  CoinsMatchChain(
               CoinsAfterNewBlock(Created(Ancestor[b][n]), Removals[Ancestor[b][n]], n), b, n)
<1> DEFINE a == Ancestor[b][n]
           new == CoinsAfterNewBlock(Created(a), Removals[a], n)
           Fresh == [confirmed |-> n, spent_index |-> 0, spent |-> FALSE]
<1>1. n \in Heights /\ n \in Nat /\ 0 \in Heights
    BY BlockAssumption, AncestorAssumption DEF Heights
<1> SUFFICES ASSUME NEW c \in Coins PROVE RecordMatchesChain(new[c], c, b, n)
    BY DEF CoinsMatchChain
<1> DEFINE r == tx.coins[c]
<1>2. RecordMatchesChain(r, c, b, n - 1) /\ r \in CoinRecord \cup {NONE}
    BY DEF CoinsMatchChain, TypeOK, Database, CoinTable
<1>3. \A h \in 0..n : h = n \/ h \in 0..(n - 1)
    BY <1>1
<1>4. Fresh \in CoinRecord
    BY <1>1 DEF CoinRecord
<1>5. GetCoinRecord(c) = r
    BY DEF GetCoinRecord, CacheFollowsTx
<1>6. r # NONE => /\ r.confirmed \in Nat /\ r.confirmed <= n - 1
                  /\ r.spent_index \in Nat /\ r.spent_index <= n - 1
    BY <1>2, BlockAssumption DEF RecordMatchesChain, CoinRecord, Heights
<1>7. CASE c \in Removals[a] /\ c \in Created(a)
    <2>1. new[c] = [confirmed |-> n, spent_index |-> n, spent |-> TRUE]
        BY <1>7 DEF CoinsAfterNewBlock, ReadBySetSpent
    <2>2. new[c] # NONE
        <3>1. new[c] \in CoinRecord
            BY <1>1, <2>1 DEF CoinRecord
        <3> QED
            BY <3>1, NoneAssumption
    <2>3. r = NONE
        BY <1>7 DEF NewBlockSucceeds
    <2>4. \A h \in 0..(n - 1) : c \notin Created(Ancestor[b][h]) /\ c \notin Removals[Ancestor[b][h]]
        BY <1>2, <2>3 DEF RecordMatchesChain
    <2>5. new[c].confirmed = n /\ new[c].spent_index = n /\ new[c].spent
        BY <2>1
    <2> QED
        BY <1>1, <1>3, <1>7, <2>2, <2>4, <2>5 DEF RecordMatchesChain
<1>8. CASE c \in Removals[a] /\ c \notin Created(a)
    <2>1. r # NONE /\ ~r.spent
        BY <1>5, <1>8 DEF NewBlockSucceeds
    <2>2. new[c] = [r EXCEPT !.spent_index = n, !.spent = TRUE]
        BY <1>5, <1>8 DEF CoinsAfterNewBlock, ReadBySetSpent
    <2>3. /\ new[c].confirmed = r.confirmed /\ new[c].spent_index = n /\ new[c].spent
          /\ new[c] \in CoinRecord
        BY <1>1, <1>2, <2>1, <2>2 DEF CoinRecord
    <2>4. new[c] # NONE
        BY <2>3, NoneAssumption
    <2>5. \A h \in 0..(n - 1) : /\ c \in Created(Ancestor[b][h]) <=> h = r.confirmed
                                /\ c \notin Removals[Ancestor[b][h]]
        BY <1>2, <2>1 DEF RecordMatchesChain
    <2> QED
        BY <1>1, <1>3, <1>6, <1>8, <2>1, <2>3, <2>4, <2>5 DEF RecordMatchesChain
<1>9. CASE c \notin Removals[a] /\ c \in Created(a)
    <2>1. new[c] = Fresh /\ new[c] # NONE
        BY <1>4, <1>9, NoneAssumption DEF CoinsAfterNewBlock
    <2>2. new[c].confirmed = n /\ new[c].spent_index = 0 /\ ~new[c].spent
        BY <2>1
    <2>3. r = NONE
        BY <1>9 DEF NewBlockSucceeds
    <2>4. \A h \in 0..(n - 1) : c \notin Created(Ancestor[b][h]) /\ c \notin Removals[Ancestor[b][h]]
        BY <1>2, <2>3 DEF RecordMatchesChain
    <2> QED
        BY <1>1, <1>3, <1>9, <2>1, <2>2, <2>4 DEF RecordMatchesChain
<1>10. CASE c \notin Removals[a] /\ c \notin Created(a)
    <2>1. new[c] = r
        BY <1>10 DEF CoinsAfterNewBlock
    <2> QED
        BY <1>1, <1>2, <1>3, <1>6, <1>10, <2>1 DEF RecordMatchesChain
<1> QED
    BY <1>7, <1>8, <1>9, <1>10

----------------------------------------------------------------------------
(* validate_block_body decides validity on the block's own chain            *)

\* Check 15 for one coin: the record of the main chain up to the fork, and the
\* blocks of the fork above it, tell whether the block's own chain has the coin.
LEMMA SpendableOnOwnChain ==
    ASSUME TypeOK, CacheFollowsTx,
           NEW b \in Rooted, NEW p \in Rooted, NEW fork \in Int,
           \A h \in 0..(Height[b] - 1) :
              /\ RemovalsFound(Ancestor[b][h]) = Removals[Ancestor[b][h]]
              /\ CreatedFound(Ancestor[b][h]) = Created(Ancestor[b][h]),
           -1 <= fork, fork < Height[b], fork <= Height[p],
           \A h \in 0..fork : Ancestor[p][h] = Ancestor[b][h],
           CoinsMatchChain(tx.coins, p, Height[p]),
           ChainValid(b, Height[b] - 1),
           NEW c \in Coins
    PROVE  Spendable(b, fork, c) <=>
              /\ \E h \in 0..(Height[b] - 1) : c \in Created(Ancestor[b][h])
              /\ \A h \in 0..(Height[b] - 1) : c \notin Removals[Ancestor[b][h]]
<1> DEFINE r == tx.coins[c]
           top == Height[b] - 1
           OnMain == r # NONE /\ r.confirmed <= fork
<1>1. Height[b] \in Nat /\ Height[p] \in Nat /\ top \in Int /\ top <= Height[b] /\ fork <= top
    BY BlockAssumption, AncestorAssumption DEF Heights
<1>2. GetCoinRecord(c) = r
    BY DEF GetCoinRecord, CacheFollowsTx
<1>3. \A h \in 0..top : Ancestor[b][h] \in Blocks
    BY <1>1, AncestorAssumption
<1>4. \A h \in (fork + 1)..top : h \in 0..top
    BY <1>1
<1>5. /\ (\E a \in ForkBlocks(b, fork) : c \in CreatedFound(a)) <=>
             \E h \in (fork + 1)..top : c \in Created(Ancestor[b][h])
      /\ (\A a \in ForkBlocks(b, fork) : c \notin RemovalsFound(a)) <=>
             \A h \in (fork + 1)..top : c \notin Removals[Ancestor[b][h]]
    <2>1. \A h \in (fork + 1)..top :
             /\ CreatedFound(Ancestor[b][h]) = Created(Ancestor[b][h])
             /\ RemovalsFound(Ancestor[b][h]) = Removals[Ancestor[b][h]]
        BY <1>4
    <2> QED
        BY <2>1 DEF ForkBlocks
<1>6. Spendable(b, fork, c) <=>
         /\ IF OnMain THEN ~(r.spent /\ r.spent_index <= fork)
            ELSE \E h \in (fork + 1)..top : c \in Created(Ancestor[b][h])
         /\ \A h \in (fork + 1)..top : c \notin Removals[Ancestor[b][h]]
    BY <1>2, <1>5 DEF Spendable
<1>7. r # NONE => r.confirmed \in Nat /\ r.spent_index \in Nat
    BY BlockAssumption DEF TypeOK, Database, CoinTable, CoinRecord, Heights
<1>8. \A h \in 0..fork : h \in 0..Height[p] /\ h \in 0..top
    BY <1>1
<1>9. ASSUME NEW h \in 0..fork
      PROVE  /\ c \in Created(Ancestor[b][h]) => r # NONE /\ h = r.confirmed
             /\ c \in Removals[Ancestor[b][h]] => r # NONE /\ r.spent /\ h = r.spent_index
             /\ r # NONE /\ h = r.confirmed => c \in Created(Ancestor[b][h])
             /\ r # NONE /\ r.spent /\ h = r.spent_index => c \in Removals[Ancestor[b][h]]
    BY <1>8 DEF CoinsMatchChain, RecordMatchesChain
<1>10. \A h \in 0..top : h \in 0..fork \/ h \in (fork + 1)..top
    BY <1>1
<1>11. ASSUME Spendable(b, fork, c)
       PROVE  /\ \E h \in 0..top : c \in Created(Ancestor[b][h])
              /\ \A h \in 0..top : c \notin Removals[Ancestor[b][h]]
    <2>1. CASE OnMain
        <3>1. r.confirmed \in 0..fork
            BY <1>7, <2>1
        <3>2. c \in Created(Ancestor[b][r.confirmed]) /\ r.confirmed \in 0..top
            BY <1>8, <1>9, <2>1, <3>1
        <3>3. \A h \in 0..fork : c \notin Removals[Ancestor[b][h]]
            BY <1>6, <1>7, <1>9, <1>11, <2>1
        <3> QED
            BY <1>6, <1>10, <1>11, <3>2, <3>3
    <2>2. CASE ~OnMain
        <3>1. \E h \in 0..top : c \in Created(Ancestor[b][h])
            BY <1>4, <1>6, <1>11, <2>2
        <3>2. \A h \in 0..fork : c \notin Created(Ancestor[b][h])
            BY <1>7, <1>9, <2>2
        <3>3. \A h \in 0..fork : c \notin Removals[Ancestor[b][h]]
            <4> SUFFICES ASSUME NEW h \in 0..fork, c \in Removals[Ancestor[b][h]]
                         PROVE  FALSE
                OBVIOUS
            <4>1. PICK k \in 0..h : c \in Created(Ancestor[b][k])
                BY <1>1, <1>8, RemovedWasCreated
            <4>2. k \in 0..fork
                OBVIOUS
            <4> QED
                BY <3>2, <4>1, <4>2
        <3> QED
            BY <1>6, <1>10, <1>11, <3>1, <3>3
    <2> QED
        BY <2>1, <2>2
<1>12. ASSUME NEW h \in 0..top, c \in Created(Ancestor[b][h]),
              \A k \in 0..top : c \notin Removals[Ancestor[b][k]]
       PROVE  Spendable(b, fork, c)
    <2>1. \A k \in (fork + 1)..top : c \notin Removals[Ancestor[b][k]]
        BY <1>4, <1>12
    <2>2. CASE OnMain
        <3>1. ASSUME r.spent, r.spent_index <= fork PROVE FALSE
            <4>1. r.spent_index \in 0..fork /\ r.spent_index \in 0..top
                BY <1>1, <1>7, <2>2, <3>1
            <4> QED
                BY <1>9, <1>12, <2>2, <3>1, <4>1
        <3> QED
            BY <1>6, <2>1, <2>2, <3>1
    <2>3. CASE ~OnMain
        <3>1. h \notin 0..fork
            BY <1>7, <1>9, <1>12, <2>3
        <3>2. h \in (fork + 1)..top
            BY <1>10, <3>1
        <3> QED
            BY <1>6, <1>12, <2>1, <2>3, <3>2
    <2> QED
        BY <2>2, <2>3
<1> QED
    BY <1>11, <1>12

\* The chain of a stored block, and the chain below a block that has a stored parent,
\* is stored and valid.
LEMMA StoredChainValid ==
    ASSUME Consistent, NEW b \in tx.blocks
    PROVE  ChainValid(b, Height[b])
BY DEF Consistent, StoredChainsComplete, VerdictMatchesReference, ChainValid

\* Below a block whose parent is stored, the chain is valid.
LEMMA ChainBelowValid ==
    ASSUME Consistent, NEW b \in Rooted, Height[b] > 0 => Prev[b] \in tx.blocks
    PROVE  ChainValid(b, Height[b] - 1)
<1>1. Height[b] \in Nat
    BY BlockAssumption, AncestorAssumption DEF Heights
<1>2. CASE Height[b] = 0
    BY <1>2 DEF ChainValid
<1>3. CASE Height[b] > 0
    <2>1. ChainValid(Prev[b], Height[b] - 1)
        BY <1>3, ParentChain, StoredChainValid
    <2> QED
        BY <1>3, <2>1, ParentChain DEF ChainValid
<1> QED
    BY <1>1, <1>2, <1>3

\* A block with its parent in memory arrives when there is a peak, and the peak in
\* memory is the committed one.
LEMMA PeakKnown ==
    ASSUME Consistent, running, NEW b \in Blocks, Prev[b] \in block_records
    PROVE  /\ db.peak # NONE /\ peak_height >= 0 /\ Peak = db.peak /\ Peak \in Rooted
           /\ Height[Peak] = peak_height /\ peak_height \in Nat
           /\ CoinsMatchChain(db.coins, Peak, peak_height)
<1>1. db.peak # NONE
    BY DEF Consistent, RecordsAreStored, PeakIsHeaviest
<1>2. peak_height \in Int
    BY BlockAssumption DEF Consistent, Shape, TypeOK
<1>3. peak_height # -1 /\ peak_height >= 0
    BY <1>1, <1>2, BlockAssumption DEF Consistent, MemoryFollowsDatabase, Shape, TypeOK
<1>4. Peak = db.peak /\ Height[Peak] = peak_height
    BY <1>3 DEF Consistent, MemoryFollowsDatabase
<1> QED
    BY <1>1, <1>2, <1>3, <1>4 DEF Consistent, CoinStoreMatchesChain, Shape, MemoryShape

\* The main chain reaches up to the parent of every block whose parent is stored.
LEMMA ParentNotAbovePeak ==
    ASSUME GeneratorsFindable, Consistent, running, NEW b \in Rooted, Height[b] > 0,
           Prev[b] \in block_records
    PROVE  /\ Height[b] - 1 <= peak_height /\ peak_height \in Nat
           /\ Peak \in db.blocks /\ Peak \in Rooted /\ Height[Peak] = peak_height
<1>1. b \in Blocks /\ Prev[b] \in Rooted /\ Height[Prev[b]] = Height[b] - 1
    BY AncestorAssumption, ParentChain
<1>2. Prev[b] \in db.blocks /\ Peak = db.peak
    BY <1>1, PeakKnown DEF Consistent, RecordsAreStored
<1>3. Peak \in Rooted /\ Height[Peak] = peak_height /\ peak_height \in Nat
    BY <1>1, PeakKnown
<1>4. Peak \in db.blocks
    <2>1. peak_height \in 0..peak_height /\ peak_height >= 0
        BY <1>3
    <2> QED
        BY <2>1 DEF Consistent, Shape, MemoryShape, Peak
<1>5. Prev[b] \in HeaderValid /\ Peak \in HeaderValid
    BY <1>2, <1>4 DEF Consistent, VerdictMatchesReference, ValidOnOwnChain, Shape, StoreShape
<1>6. Weight[Prev[b]] <= Weight[Peak] /\ Weight[Peak] \in Nat /\ Weight[Prev[b]] \in Nat
    BY <1>2, <1>5, BlockAssumption DEF Consistent, PeakIsHeaviest
<1>7. ~(Height[Prev[b]] > Height[Peak])
    BY <1>5, <1>6 DEF GeneratorsFindable
<1>8. Height[Prev[b]] \in Nat
    BY <1>1, BlockAssumption, AncestorAssumption DEF Heights
<1> QED
    BY <1>1, <1>3, <1>4, <1>7, <1>8

\* The records that find_fork_point_in_chain needs for a generator are all in memory.
LEMMA GeneratorLookupSucceeds ==
    ASSUME GeneratorsFindable, Consistent, AllLoaded, running,
           NEW b \in HeaderValid \cap BodyValid \cap Rooted, Height[b] > 0,
           Prev[b] \in db.blocks
    PROVE  ~GeneratorRaises(b) /\ GeneratorRuns(b)
<1>1. db.blocks \subseteq block_records /\ Prev[b] \in block_records
    BY DEF AllLoaded, GeneratorsFindable
<1>2. /\ Height[b] - 1 <= peak_height /\ peak_height \in Nat
      /\ Peak \in db.blocks /\ Peak \in Rooted /\ Height[Peak] = peak_height
    BY <1>1, ParentNotAbovePeak
<1>3. /\ Height[b] \in Nat /\ Height[b] - 1 \in 0..peak_height
      /\ Prev[b] \in Rooted /\ Height[Prev[b]] = Height[b] - 1
    BY <1>2, BlockAssumption, ParentChain DEF Heights
<1>4. ASSUME NEW h \in GenRefs[b]
      PROVE  /\ GeneratorRef(b, h) = Ancestor[b][h] /\ Ancestor[b][h] # NONE
             /\ Removals[GeneratorRef(b, h)] # {}
    <2>1. GeneratorRef(b, h) = Ancestor[b][h]
        BY <1>1, <1>2, GeneratorOfOwnChain DEF Consistent
    <2>2. h \in 0..Height[b]
        BY <1>3, BlockAssumption, BodyAssumption DEF Heights
    <2>3. Ancestor[b][h] \in Blocks
        BY <2>2, AncestorType
    <2> QED
        BY <2>1, <2>3, BlockAssumption DEF GeneratorsFindable
<1>5. GeneratorRuns(b)
    BY <1>4 DEF GeneratorRuns
<1>6. height_to_hash[Height[b] - 1] # NONE
    <2>1. height_to_hash[Height[b] - 1] \in db.blocks
        BY <1>2, <1>3 DEF Consistent, Shape, MemoryShape
    <2> QED
        BY <2>1, BlockAssumption DEF Consistent, Shape, TypeOK, Database
<1>7. ASSUME NEW a \in db.blocks, NEW f PROVE WalkLoaded(a, f)
    <2>1. a \in Rooted /\ Height[a] \in Nat
        BY BlockAssumption, AncestorAssumption DEF Consistent, StoredChainsComplete, Heights
    <2>2. \A h \in 0..(Height[a] - 1) : h \in 0..Height[a]
        BY <2>1
    <2> QED
        BY <1>1, <2>2 DEF WalkLoaded, WalkedIn, Consistent, StoredChainsComplete
<1>8. PICK f \in ForkPoints(Peak, Prev[b]) : TRUE
    BY <1>2, <1>3, ForkPointExists
<1>9. WalkLoaded(Peak, f) /\ WalkLoaded(Prev[b], f)
    BY <1>2, <1>7
<1>10. ~GeneratorLookupFails(b)
    BY <1>4, <1>6, <1>8, <1>9 DEF GeneratorLookupFails
<1> QED
    BY <1>4, <1>5, <1>10 DEF GeneratorRaises

\* The generators of stored blocks, and of a block with a stored parent, always run.
LEMMA GeneratorsRun ==
    ASSUME Undisturbed, Consistent, AllLoaded, running,
           NEW b \in HeaderValid \cap BodyValid \cap Rooted,
           Height[b] > 0 => Prev[b] \in db.blocks
    PROVE  /\ GeneratorRuns(b) /\ ~GeneratorRaises(b)
           /\ RemovalsFound(b) = Removals[b] /\ CreatedFound(b) = Created(b)
<1>1. b \in Blocks /\ Height[b] \in Nat
    BY BlockAssumption DEF Heights
<1>2. CASE GenRefs[b] = {}
    BY <1>2 DEF GeneratorRuns, GeneratorRaises, GeneratorLookupFails, RemovalsFound,
       CreatedFound, Created
<1>3. CASE GenRefs[b] # {}
    <2>1. Height[b] > 0
        <3>1. PICK h \in GenRefs[b] : h \in Nat /\ h < Height[b]
            BY <1>1, <1>3, BlockAssumption, BodyAssumption DEF Heights
        <3> QED
            BY <1>1, <3>1
    <2>2. GeneratorsFindable
        BY <1>1, <1>3 DEF Undisturbed
    <2>3. ~GeneratorRaises(b) /\ GeneratorRuns(b)
        BY <2>1, <2>2, GeneratorLookupSucceeds
    <2> QED
        BY <2>3 DEF RemovalsFound, CreatedFound, Created
<1> QED
    BY <1>2, <1>3

\* What the generators of a chain produce is what its blocks say, when the chain is valid
\* and stored below its tip.
LEMMA GeneratorsOfChainRun ==
    ASSUME Undisturbed, Consistent, AllLoaded, running,
           NEW b \in Rooted, Height[b] > 0 => Prev[b] \in db.blocks,
           NEW h \in 0..Height[b], ValidOnOwnChain(Ancestor[b][h])
    PROVE  /\ ~GeneratorRaises(Ancestor[b][h])
           /\ RemovalsFound(Ancestor[b][h]) = Removals[Ancestor[b][h]]
           /\ CreatedFound(Ancestor[b][h]) = Created(Ancestor[b][h])
<1> DEFINE a == Ancestor[b][h]
<1>1. Height[b] \in Nat /\ a \in HeaderValid \cap BodyValid \cap Rooted /\ Height[a] = h
    BY BlockAssumption, AncestorAssumption DEF Heights, ValidOnOwnChain
<1>2. ASSUME h > 0 PROVE Prev[a] \in db.blocks
    <2>1. Prev[a] = Ancestor[a][h - 1] /\ h - 1 \in 0..h
        BY <1>1, <1>2, AncestorAssumption
    <2>2. Ancestor[a][h - 1] = Ancestor[b][h - 1]
        BY <2>1, AncestorAssumption
    <2>3. Height[b] > 0 /\ h - 1 \in 0..(Height[b] - 1)
        BY <1>1, <1>2
    <2>4. Ancestor[b][h - 1] = Ancestor[Prev[b]][h - 1] /\ Height[Prev[b]] = Height[b] - 1
        BY <2>3, ParentChain
    <2>5. Prev[b] \in db.blocks
        BY <2>3
    <2> QED
        BY <2>1, <2>2, <2>3, <2>4, <2>5 DEF Consistent, StoredChainsComplete
<1> QED
    BY <1>1, <1>2, GeneratorsRun

\* The fork height with which a body is checked: both chains agree up to it.
LEMMA BodyForkCommon ==
    ASSUME Consistent, NEW b \in Blocks, ReachesBody(b), Height[b] > 0,
           NEW fp \in ForkPointsGiven(b) \cup {-1}, NEW fork \in BodyForkPoints(b, fp)
    PROVE  /\ fork \in Int /\ -1 <= fork /\ fork < Height[b] /\ fork <= Height[Peak]
           /\ \A h \in 0..fork : Ancestor[Peak][h] = Ancestor[b][h]
<1>1. b \in Rooted /\ Prev[b] \in block_records /\ running
    BY ReachesBodyRooted DEF Consistent, ReachesBody, KnownPrev, AtRest
<1>2. /\ peak_height >= 0 /\ Peak \in Rooted
      /\ Height[Peak] = peak_height /\ peak_height \in Nat
    BY <1>1, PeakKnown
<1>3. Height[b] \in Nat /\ MaxHeight \in Nat
    BY BlockAssumption DEF Heights
<1>4. CASE fp # -1
    <2>1. fork = fp /\ fp \in 0..peak_height /\ fp < Height[b] /\ height_to_hash[fp] = Ancestor[b][fp]
        BY <1>2, <1>4 DEF BodyForkPoints, ForkPointsGiven
    <2>2. Ancestor[Peak][fp] = Ancestor[b][fp]
        BY <1>2, <2>1 DEF Consistent, Shape, MemoryShape
    <2>3. \A h \in 0..fp : Ancestor[Peak][h] = Ancestor[b][h]
        BY <1>1, <1>2, <1>3, <2>1, <2>2, CommonBelow
    <2> QED
        BY <1>2, <1>3, <2>1, <2>3
<1>5. CASE fp = -1
    <2>1. fork \in ForkPoints(Peak, Prev[b])
        BY <1>2, <1>5 DEF BodyForkPoints
    <2>2. /\ Prev[b] \in Rooted /\ Height[Prev[b]] = Height[b] - 1
          /\ \A h \in 0..(Height[b] - 1) : Ancestor[b][h] = Ancestor[Prev[b]][h]
        BY <1>1, ParentChain
    <2>3. /\ fork \in -1..MaxHeight /\ fork <= Height[Peak] /\ fork <= Height[Prev[b]]
          /\ fork >= 0 => Ancestor[Peak][fork] = Ancestor[Prev[b]][fork]
        BY <1>2, <2>1, <2>2, ForkPointsType
    <2>4. \A h \in 0..fork : Ancestor[Peak][h] = Ancestor[Prev[b]][h]
        <3>1. CASE fork = -1
            BY <3>1
        <3>2. CASE fork >= 0
            <4>1. fork \in 0..Height[Peak]
                BY <1>2, <2>3, <3>2
            <4> QED
                BY <1>2, <2>2, <2>3, <3>2, <4>1, CommonBelow
        <3> QED
            BY <1>3, <2>3, <3>1, <3>2
    <2>5. \A h \in 0..fork : h \in 0..(Height[b] - 1)
        BY <1>3, <2>2, <2>3
    <2> QED
        BY <1>3, <2>2, <2>3, <2>4, <2>5
<1> QED
    BY <1>4, <1>5

\* The verdict of validate_block_body is the reference verdict.
LEMMA BodyVerdict ==
    ASSUME Undisturbed, Consistent, AllLoaded, NEW b \in Blocks, ReachesBody(b),
           NEW fp \in ForkPointsGiven(b) \cup {-1}, NEW fork \in BodyForkPoints(b, fp)
    PROVE  BodyAccepted(b, fork) <=> ValidOnOwnChain(b)
<1>1. b \in Rooted /\ b \in HeaderValid /\ tx = db
    BY ReachesBodyRooted
       DEF Consistent, ReachesBody, HeaderAccepted, AtRest, Shape, TaskShape
<1>2. Height[b] \in Nat
    BY BlockAssumption DEF Heights
<1>3. /\ running
      /\ Height[b] > 0 => Prev[b] \in db.blocks
      /\ b \in BodyValid => GeneratorRuns(b) /\ ~GeneratorRaises(b)
    <2>1. running /\ (Height[b] > 0 => Prev[b] \in db.blocks)
        BY <1>2 DEF ReachesBody, KnownPrev, AtRest, Consistent, RecordsAreStored
    <2> QED
        BY <1>1, <2>1, GeneratorsRun
<1>4. CoinsReadFor(b) \subseteq Coins
    BY BlockAssumption DEF CoinsReadFor
<1>5. ASSUME NEW c \in CoinsReadFor(b)
      PROVE  Spendable(b, fork, c) <=>
                /\ \E h \in 0..(Height[b] - 1) : c \in Created(Ancestor[b][h])
                /\ \A h \in 0..(Height[b] - 1) : c \notin Removals[Ancestor[b][h]]
    <2>1. c \in Coins
        BY <1>4
    <2>2. CASE Height[b] = 0
        <3>1. fork = -1
            BY <2>2 DEF BodyForkPoints
        <3>2. ForkBlocks(b, fork) = {}
            BY <2>2, <3>1 DEF ForkBlocks
        <3>3. GetCoinRecord(c) # NONE => GetCoinRecord(c).confirmed \in Nat
            BY <2>1, GetCoinRecordType, BlockAssumption DEF Consistent, Shape, CoinRecord, Heights
        <3>4. ~Spendable(b, fork, c)
            BY <3>1, <3>2, <3>3 DEF Spendable
        <3> QED
            BY <2>2, <3>4
    <2>3. CASE Height[b] > 0
        <3>1. Prev[b] \in block_records /\ running
            BY <2>3 DEF ReachesBody, KnownPrev, AtRest
        <3>2. ChainValid(b, Height[b] - 1)
            BY <1>1, <3>1, ChainBelowValid DEF Consistent, RecordsAreStored
        <3>3. Peak \in Rooted /\ CoinsMatchChain(tx.coins, Peak, Height[Peak])
            BY <1>1, <3>1, PeakKnown
        <3>4. TypeOK /\ CacheFollowsTx
            BY DEF Consistent, Shape
        <3>5. /\ fork \in Int /\ -1 <= fork /\ fork < Height[b] /\ fork <= Height[Peak]
              /\ \A h \in 0..fork : Ancestor[Peak][h] = Ancestor[b][h]
            BY <2>3, BodyForkCommon
        <3>6. \A h \in 0..(Height[b] - 1) :
                 /\ RemovalsFound(Ancestor[b][h]) = Removals[Ancestor[b][h]]
                 /\ CreatedFound(Ancestor[b][h]) = Created(Ancestor[b][h])
            <4> TAKE h \in 0..(Height[b] - 1)
            <4>1. h \in 0..Height[b] /\ ValidOnOwnChain(Ancestor[b][h])
                BY <1>2, <3>2 DEF ChainValid
            <4> QED
                BY <1>1, <1>3, <4>1, GeneratorsOfChainRun
        <3> QED
            BY <1>1, <2>1, <3>2, <3>3, <3>4, <3>5, <3>6, SpendableOnOwnChain
    <2> QED
        BY <1>2, <2>2, <2>3
<1> QED
    BY <1>1, <1>3, <1>5 DEF BodyAccepted, ValidOnOwnChain

----------------------------------------------------------------------------
(* Every step keeps Consistent                                              *)

\* A new node is consistent.
LEMMA InitConsistent == Init => Consistent
<1> SUFFICES ASSUME Init PROVE Consistent
    OBVIOUS
<1>1. Shape
    BY InitShape
<1>2. /\ db.blocks = {} /\ tx.blocks = {} /\ db.peak = NONE /\ db.coins = NoCoins
      /\ tx.coins = db.coins /\ tx.peak = db.peak /\ task.pc = "idle"
      /\ result.code = "NONE" /\ coin_cache = NoCoins
      /\ block_records = {} /\ peak_height = -1
    BY DEF Init, EmptyDatabase, Idle, NoResult
<1> QED
    BY <1>1, <1>2 DEF Consistent, StoredChainsComplete, MemoryFollowsDatabase, PeakIsHeaviest,
       GenesisLightest, CoinStoreMatchesChain, RecordsAreStored, VerdictMatchesReference,
       CacheFollowsTx, TaskFollowsChecks, TxFollowsTask, NoCoins

\* The parts of Consistent that say nothing of the task, the result or a cache.
Settled ==
    /\ StoredChainsComplete
    /\ MemoryFollowsDatabase
    /\ PeakIsHeaviest
    /\ GenesisLightest
    /\ CoinStoreMatchesChain
    /\ RecordsAreStored

\* A step inside the transaction leaves what is committed and in memory settled.
LEMMA SettledUnchanged ==
    ASSUME Settled, UNCHANGED <<db, memory, running>>, tx'.blocks = tx.blocks
    PROVE  Settled'
<1>1. StoredChainsComplete'
    BY DEF Settled, StoredChainsComplete
<1> QED
    BY <1>1 DEF Settled, MemoryFollowsDatabase, PeakIsHeaviest, GenesisLightest,
       CoinStoreMatchesChain, RecordsAreStored, Peak, memory

\* Consistent, with its conjuncts about committed state and memory together.
LEMMA ConsistentParts ==
    Consistent <=> /\ Shape /\ Settled /\ VerdictMatchesReference /\ CacheFollowsTx
                   /\ TaskFollowsChecks /\ TxFollowsTask
BY DEF Consistent, Settled

\* A step that only returns a result keeps everything consistent.
LEMMA ReturnConsistent ==
    ASSUME Consistent, Shape', NEW code \in Codes, NEW b \in Blocks,
           Returned(code, b, -1), code = "INVALID_BLOCK" => ~ValidOnOwnChain(b),
           UNCHANGED <<db, tx, memory, block_cache, coin_cache, task, running>>
    PROVE  Consistent'
<1>1. Settled'
    BY SettledUnchanged, ConsistentParts
<1>2. VerdictMatchesReference'
    BY DEF Consistent, VerdictMatchesReference, Returned
<1>3. CacheFollowsTx' /\ TaskFollowsChecks' /\ TxFollowsTask'
    BY DEF Consistent, CacheFollowsTx, TaskFollowsChecks, TxFollowsTask, CoinsMatchChain, memory
<1> QED
    BY <1>1, <1>2, <1>3, ConsistentParts DEF Consistent, Settled

\* A block with a wrong height or a bad header is not valid.
LEMMA InvalidHeaderConsistent ==
    ASSUME Consistent, Shape', NEW b \in Blocks, InvalidHeader(b)
    PROVE  Consistent'
<1>1. ~ValidOnOwnChain(b)
    BY AncestorAssumption, BlockAssumption DEF InvalidHeader, HeaderAccepted, ValidOnOwnChain, Heights
<1> QED
    BY <1>1, ReturnConsistent DEF InvalidHeader, Codes

\* Reading a coin record leaves the cache coherent.
LEMMA ReadingKeepsCoherence ==
    ASSUME CacheFollowsTx, NEW read, coin_cache' = CacheAfterReading(read), tx' = tx
    PROVE  CacheFollowsTx'
BY DEF CacheFollowsTx, CacheAfterReading, GetCoinRecord

\* validate_block_body accepts valid blocks and rejects invalid ones.
LEMMA ValidateBodyConsistent ==
    ASSUME Undisturbed, Consistent, AllLoaded, Shape', NEW b \in Blocks, ValidateBody(b)
    PROVE  Consistent'
<1> PICK fp \in ForkPointsGiven(b) \cup {-1} : \E fork \in BodyForkPoints(b, fp) :
          \/ BodyRaises(b, fp, fork)
          \/ InvalidBody(b, fp, fork)
          \/ AcceptBody(b, fp, fork)
    BY DEF ValidateBody
<1> PICK fork \in BodyForkPoints(b, fp) :
          \/ BodyRaises(b, fp, fork)
          \/ InvalidBody(b, fp, fork)
          \/ AcceptBody(b, fp, fork)
    OBVIOUS
<1>1. ReachesBody(b) /\ running /\ task.pc = "idle" /\ tx = db
    BY DEF ValidateBody, ReachesBody, AtRest, Consistent, Shape, TaskShape
<1>2. BodyAccepted(b, fork) <=> ValidOnOwnChain(b)
    BY <1>1, BodyVerdict
<1>3. CASE BodyRaises(b, fp, fork)
    BY <1>3, ReturnConsistent DEF BodyRaises, Codes
<1>4. CASE InvalidBody(b, fp, fork)
    <2>1. CacheFollowsTx'
        BY <1>4, ReadingKeepsCoherence DEF InvalidBody, Consistent
    <2>2. Settled'
        BY <1>4, SettledUnchanged, ConsistentParts DEF InvalidBody
    <2>3. VerdictMatchesReference'
        BY <1>2, <1>4 DEF InvalidBody, Consistent, VerdictMatchesReference, Returned
    <2>4. TaskFollowsChecks' /\ TxFollowsTask'
        BY <1>1, <1>4 DEF InvalidBody, Consistent, TaskFollowsChecks, TxFollowsTask
    <2> QED
        BY <2>1, <2>2, <2>3, <2>4 DEF Consistent, Settled
<1>5. CASE AcceptBody(b, fp, fork)
    <2>1. CacheFollowsTx'
        BY <1>5, ReadingKeepsCoherence DEF AcceptBody, Consistent
    <2>2. Settled'
        BY <1>5, SettledUnchanged, ConsistentParts DEF AcceptBody
    <2>3. VerdictMatchesReference'
        BY <1>5 DEF AcceptBody, Consistent, VerdictMatchesReference, NoResult
    <2>4. /\ task'.pc = "add" /\ task'.block = b /\ task'.fork = fp /\ ~task'.new_peak
        BY <1>5 DEF AcceptBody, Idle
    <2>5. fp >= 0 => height_to_hash[fp] = Ancestor[b][fp]
        BY DEF ForkPointsGiven
    <2>6. b \notin block_records /\ (Height[b] > 0 => Prev[b] \in block_records)
        BY <1>1, BlockAssumption DEF ReachesBody, KnownPrev, Heights
    <2>7. TaskFollowsChecks'
        BY <1>2, <1>5, <2>4, <2>5, <2>6 DEF AcceptBody, TaskFollowsChecks, memory
    <2>8. TxFollowsTask'
        BY <1>1, <1>5, <2>4 DEF AcceptBody, TxFollowsTask
    <2> QED
        BY <2>1, <2>2, <2>3, <2>7, <2>8 DEF Consistent, Settled
<1> QED
    BY <1>3, <1>4, <1>5

\* The checks of receive_block keep everything consistent.
LEMMA ReceiveBlockConsistent ==
    ASSUME Undisturbed, Consistent, AllLoaded, Shape', ReceiveBlock
    PROVE  Consistent'
<1> PICK b \in Blocks : \/ AlreadyHaveBlock(b)
                        \/ DisconnectedBlock(b)
                        \/ InvalidHeader(b)
                        \/ ValidateBody(b)
    BY DEF ReceiveBlock
<1>1. CASE AlreadyHaveBlock(b)
    BY <1>1, ReturnConsistent DEF AlreadyHaveBlock, Codes
<1>2. CASE DisconnectedBlock(b)
    BY <1>2, ReturnConsistent DEF DisconnectedBlock, Codes
<1>3. CASE InvalidHeader(b)
    BY <1>3, InvalidHeaderConsistent
<1>4. CASE ValidateBody(b)
    BY <1>4, ValidateBodyConsistent
<1> QED
    BY <1>1, <1>2, <1>3, <1>4

\* The received block, its parent and its weight.
LEMMA TaskBlock ==
    ASSUME Consistent, task.pc # "idle"
    PROVE  /\ task.block \in Rooted /\ task.block \in Blocks /\ task.block \in HeaderValid
           /\ ValidOnOwnChain(task.block)
           /\ Height[task.block] \in Nat /\ Weight[task.block] \in Nat
           /\ Height[task.block] > 0 =>
                 /\ Prev[task.block] \in db.blocks /\ Prev[task.block] \in tx.blocks
                 /\ Weight[task.block] > Weight[Prev[task.block]]
                 /\ Weight[Prev[task.block]] \in Nat
<1>1. /\ ValidOnOwnChain(task.block)
      /\ Height[task.block] > 0 => Prev[task.block] \in block_records
    BY DEF Consistent, TaskFollowsChecks
<1>2. task.block \in Rooted /\ task.block \in Blocks /\ task.block \in HeaderValid
    BY <1>1, AncestorAssumption DEF ValidOnOwnChain
<1> QED
    BY <1>1, <1>2, BlockAssumption, HeaderAssumption
       DEF Heights, Consistent, RecordsAreStored, Shape, StoreShape

\* A chain with its tip and its parent's chain stored is stored.
LEMMA ChainStored ==
    ASSUME NEW b \in Rooted, NEW stored, b \in stored,
           Height[b] > 0 => \A h \in 0..Height[Prev[b]] : Ancestor[Prev[b]][h] \in stored
    PROVE  \A h \in 0..Height[b] : Ancestor[b][h] \in stored
<1> SUFFICES ASSUME NEW h \in 0..Height[b] PROVE Ancestor[b][h] \in stored
    OBVIOUS
<1>1. Height[b] \in Nat
    BY BlockAssumption, AncestorAssumption DEF Heights
<1>2. CASE h = Height[b]
    BY <1>2, AncestorAssumption
<1>3. CASE h # Height[b]
    <2>1. Height[b] > 0 /\ h \in 0..(Height[b] - 1)
        BY <1>1, <1>3
    <2> QED
        BY <2>1, ParentChain
<1> QED
    BY <1>2, <1>3

\* Storing a valid block under its stored parent keeps everything consistent.
LEMMA AddFullBlockConsistent ==
    ASSUME Consistent, Shape', AddFullBlock
    PROVE  Consistent'
<1>1. task.pc = "add" /\ running /\ tx = db /\ ~task.new_peak
    BY DEF AddFullBlock, Consistent, Shape, TaskShape
<1> DEFINE b == task.block
<1>2. /\ b \in Rooted /\ b \in Blocks /\ b \in HeaderValid /\ ValidOnOwnChain(b)
      /\ Height[b] \in Nat /\ Weight[b] \in Nat
      /\ Height[b] > 0 => /\ Prev[b] \in db.blocks /\ Weight[b] > Weight[Prev[b]]
                          /\ Weight[Prev[b]] \in Nat
    BY <1>1, TaskBlock
<1>3. db.peak # b
    <2>1. db.peak # NONE => db.peak \in block_records
        BY <1>1, BlockAssumption DEF Consistent, MemoryFollowsDatabase, Shape, TypeOK
    <2> QED
        BY <1>1, <1>2, <2>1, BlockAssumption DEF Consistent, TaskFollowsChecks
<1>4. tx'.blocks = db.blocks \cup {b} /\ tx'.peak = db.peak /\ tx'.coins = db.coins
    BY <1>1, <1>3 DEF AddFullBlock, Consistent, Shape, TypeOK, Database
<1>5. StoredChainsComplete'
    <2>1. \A d \in db.blocks : d \in Rooted /\ \A h \in 0..Height[d] : Ancestor[d][h] \in db.blocks
        BY DEF Consistent, StoredChainsComplete
    <2>2. \A h \in 0..Height[b] : Ancestor[b][h] \in db.blocks \cup {b}
        BY <1>2, <2>1, ChainStored
    <2> QED
        BY <1>2, <1>4, <2>1, <2>2 DEF StoredChainsComplete, AddFullBlock
<1>6. GenesisLightest'
    <2> SUFFICES ASSUME NEW g \in HeaderValid, Height[g] = 0 PROVE Weight[g] <= Weight[b]
        BY <1>1, <1>4 DEF Consistent, GenesisLightest
    <2>1. Weight[g] \in Nat
        BY BlockAssumption
    <2>2. CASE Height[b] = 0
        BY <1>2, <2>1, <2>2, HeaderAssumption
    <2>3. CASE Height[b] > 0
        <3>1. Weight[g] <= Weight[Prev[b]]
            BY <1>1, <1>2, <2>3 DEF Consistent, GenesisLightest
        <3> QED
            BY <1>2, <2>1, <2>3, <3>1
    <2> QED
        BY <1>2, <2>2, <2>3
<1>7. MemoryFollowsDatabase' /\ PeakIsHeaviest' /\ CoinStoreMatchesChain' /\ RecordsAreStored'
    BY DEF AddFullBlock, Consistent, MemoryFollowsDatabase, PeakIsHeaviest,
       CoinStoreMatchesChain, RecordsAreStored, Peak, memory
<1>8. VerdictMatchesReference'
    BY <1>1, <1>2, <1>4 DEF AddFullBlock, Consistent, VerdictMatchesReference
<1>9. CacheFollowsTx'
    BY <1>1, <1>4 DEF AddFullBlock, Consistent, CacheFollowsTx
<1>10. /\ task'.pc = "reconsider" /\ task'.block = b /\ task'.fork = task.fork
       /\ ~task'.new_peak
    BY <1>1 DEF AddFullBlock, Consistent, Shape, TypeOK, TaskType
<1>11. TaskFollowsChecks'
    BY <1>1, <1>10 DEF AddFullBlock, Consistent, TaskFollowsChecks, memory
<1>12. TxFollowsTask'
    BY <1>4, <1>10 DEF AddFullBlock, TxFollowsTask
<1> QED
    BY <1>5, <1>6, <1>7, <1>8, <1>9, <1>11, <1>12 DEF Consistent

\* A block that is not heavier than the peak leaves the coin store alone.
LEMMA KeepPeakConsistent ==
    ASSUME Consistent, Shape', KeepPeak
    PROVE  Consistent'
<1>1. task.pc = "reconsider" /\ running /\ ~task.new_peak /\ peak_height >= 0
    BY DEF KeepPeak, Consistent, Shape, TaskShape
<1>2. /\ task'.pc = "commit" /\ task'.block = task.block /\ task'.fork = -1
      /\ ~task'.new_peak
    BY <1>1 DEF KeepPeak, Consistent, Shape, TypeOK, TaskType
<1>3. Settled'
    BY SettledUnchanged, ConsistentParts DEF KeepPeak
<1>4. VerdictMatchesReference' /\ CacheFollowsTx'
    BY DEF KeepPeak, Consistent, VerdictMatchesReference, CacheFollowsTx
<1>5. db.peak # NONE /\ Peak = db.peak /\ Peak \in Blocks
    BY <1>1, AncestorAssumption
       DEF Consistent, MemoryFollowsDatabase, Shape, MemoryShape
<1>6. Height[task.block] = 0 \/ Weight[task.block] <= Weight[db.peak]
    BY <1>1, <1>5, TaskBlock, BlockAssumption DEF KeepPeak, HeavierThanPeak
<1>7. TaskFollowsChecks'
    BY <1>1, <1>2, <1>5, <1>6 DEF KeepPeak, Consistent, TaskFollowsChecks, memory
<1>8. TxFollowsTask'
    BY <1>1, <1>2 DEF KeepPeak, Consistent, TxFollowsTask
<1> QED
    BY <1>3, <1>4, <1>7, <1>8 DEF Consistent, Settled

\* The first genesis block starts from an empty coin table.
LEMMA FirstPeakConsistent ==
    ASSUME Consistent, Shape', FirstPeak
    PROVE  Consistent'
<1>1. /\ task.pc = "reconsider" /\ running /\ ~task.new_peak /\ peak_height = -1
      /\ Height[task.block] = 0
    BY DEF FirstPeak, Consistent, Shape, TaskShape
<1>2. /\ task'.pc = "apply" /\ task'.block = task.block /\ task'.fork = -1
      /\ task'.new_peak /\ task'.next = 0
    BY <1>1 DEF FirstPeak, Consistent, Shape, TypeOK, TaskType
<1>3. Settled'
    BY SettledUnchanged, ConsistentParts DEF FirstPeak
<1>4. VerdictMatchesReference' /\ CacheFollowsTx'
    BY DEF FirstPeak, Consistent, VerdictMatchesReference, CacheFollowsTx
<1>5. db.peak = NONE /\ tx.coins = NoCoins /\ tx.peak = db.peak
    BY <1>1 DEF Consistent, MemoryFollowsDatabase, CoinStoreMatchesChain, TxFollowsTask
<1>6. TaskFollowsChecks'
    BY <1>1, <1>2, <1>5 DEF FirstPeak, Consistent, TaskFollowsChecks, memory
<1>7. CoinsMatchChain(tx.coins, task.block, -1)
    BY <1>5, EmptyChainMatches DEF Consistent, Shape, TypeOK, Database
<1>8. TxFollowsTask'
    BY <1>1, <1>2, <1>5, <1>7 DEF FirstPeak, TxFollowsTask, CoinsMatchChain
<1> QED
    BY <1>3, <1>4, <1>6, <1>8 DEF Consistent, Settled

\* The fork height that _reconsider_peak finds: the main chain and the new chain
\* agree up to it.
LEMMA PeakForkCommon ==
    ASSUME Consistent, running, task.pc = "reconsider", peak_height >= 0,
           Height[task.block] > 0, NEW fork \in PeakForkPoints
    PROVE  /\ fork \in Int /\ -1 <= fork /\ fork <= peak_height /\ fork <= Height[task.block]
           /\ \A h \in 0..fork : Ancestor[Peak][h] = Ancestor[task.block][h]
           /\ fork >= 0 => height_to_hash[fork] = Ancestor[task.block][fork]
           /\ Prev[task.block] = Peak => fork = peak_height
<1> DEFINE b == task.block
<1>1. b \in Rooted /\ Peak \in Rooted /\ Height[Peak] = peak_height
    BY DEF Consistent, Shape, MemoryShape, TaskShape
<1>2. fork \in -1..MaxHeight /\ fork <= peak_height /\ fork <= Height[b] /\ MaxHeight \in Nat
    BY PeakForkPointsType, BlockAssumption DEF Consistent
<1>3. Height[b] \in Nat /\ peak_height \in Nat
    BY <1>1, BlockAssumption, AncestorAssumption DEF Heights
<1>4. \A h \in 0..peak_height : height_to_hash[h] = Ancestor[Peak][h]
    BY DEF Consistent, Shape, MemoryShape
<1>5. fork >= 0 => Ancestor[Peak][fork] = Ancestor[b][fork]
    <2>1. CASE Prev[b] = Peak
        <3>1. fork = peak_height /\ fork = Height[b] - 1
            BY <1>1, <2>1, ParentChain DEF PeakForkPoints
        <3> QED
            BY <1>1, <1>3, <2>1, <3>1, AncestorAssumption
    <2>2. CASE Prev[b] # Peak /\ task.fork # -1
        <3>1. fork = task.fork
            BY <2>2 DEF PeakForkPoints
        <3> QED
            BY <1>2, <1>3, <1>4, <3>1 DEF Consistent, TaskFollowsChecks
    <2>3. CASE Prev[b] # Peak /\ task.fork = -1
        BY <1>1, <2>3, ForkPointsType DEF PeakForkPoints
    <2> QED
        BY <2>1, <2>2, <2>3
<1>6. CASE fork = -1
    BY <1>2, <1>3, <1>6 DEF PeakForkPoints
<1>7. CASE fork >= 0
    <2>1. fork \in 0..peak_height
        BY <1>2, <1>3, <1>7
    <2>2. \A h \in 0..fork : Ancestor[Peak][h] = Ancestor[b][h]
        BY <1>1, <1>2, <1>5, <1>7, <2>1, CommonBelow
    <2> QED
        BY <1>2, <1>4, <1>5, <1>7, <2>1, <2>2 DEF PeakForkPoints
<1> QED
    BY <1>2, <1>6, <1>7

\* After the rollback the coin table is the one of the chain up to the fork.
LEMMA RollBackToForkConsistent ==
    ASSUME Consistent, Shape', RollBackToFork
    PROVE  Consistent'
<1> DEFINE b == task.block
<1> PICK fork \in PeakForkPoints :
          /\ IF Prev[task.block] = Peak
             THEN UNCHANGED <<tx, coin_cache>>
             ELSE /\ tx' = [tx EXCEPT !.coins = RollBack(@, fork)]
                  /\ coin_cache' = RollBack(coin_cache, fork)
          /\ ses' = SesKeptBelow(fork)
          /\ task' = [task EXCEPT !.pc = "collect", !.fork = fork, !.new_peak = TRUE]
    BY DEF RollBackToFork
<1>1. /\ running /\ task.pc = "reconsider" /\ peak_height >= 0 /\ Height[b] > 0
      /\ Weight[b] > Weight[Peak] /\ ~task.new_peak
    BY DEF RollBackToFork, HeavierThanPeak, Consistent, Shape, TaskShape
<1>2. /\ fork \in Int /\ -1 <= fork /\ fork <= peak_height /\ fork <= Height[b]
      /\ \A h \in 0..fork : Ancestor[Peak][h] = Ancestor[b][h]
      /\ fork >= 0 => height_to_hash[fork] = Ancestor[b][fork]
      /\ Prev[b] = Peak => fork = peak_height
    BY <1>1, PeakForkCommon
<1>3. /\ db.peak # NONE /\ Peak = db.peak /\ Peak \in Rooted /\ Height[Peak] = peak_height
      /\ Peak \in tx.blocks /\ peak_height \in Int
    BY <1>1, BlockAssumption DEF Consistent, MemoryFollowsDatabase, RecordsAreStored, Shape,
       MemoryShape, StoreShape, TypeOK
<1>4. tx.coins = db.coins /\ tx.peak = db.peak /\ CoinsMatchChain(tx.coins, Peak, peak_height)
    BY <1>1, <1>3 DEF Consistent, TxFollowsTask, CoinStoreMatchesChain
<1>5. /\ task'.pc = "collect" /\ task'.block = b /\ task'.fork = fork /\ task'.new_peak
    BY DEF Consistent, Shape, TypeOK, TaskType
<1>6. tx'.blocks = tx.blocks /\ tx'.peak = tx.peak
    BY DEF Consistent, Shape, TypeOK, Database
<1>7. CoinsMatchChain(tx'.coins, b, fork)
    <2>1. CASE Prev[b] = Peak
        <3>1. tx'.coins = tx.coins /\ fork = peak_height
            BY <1>2, <2>1
        <3> QED
            BY <1>2, <1>4, <3>1, MatchesSharedChain
    <2>2. CASE Prev[b] # Peak
        <3>1. tx'.coins = RollBack(tx.coins, fork)
            BY <2>2 DEF Consistent, Shape, TypeOK, Database
        <3>2. ChainValid(Peak, peak_height)
            BY <1>3, StoredChainValid
        <3>3. CoinsMatchChain(RollBack(tx.coins, fork), Peak, fork)
            BY <1>2, <1>3, <1>4, <3>2, RollBackMatches DEF Consistent, Shape, TypeOK, Database
        <3> QED
            BY <1>2, <3>1, <3>3, MatchesSharedChain
    <2> QED
        BY <2>1, <2>2
<1>8. CacheFollowsTx'
    <2>1. CASE Prev[b] = Peak
        BY <2>1 DEF Consistent, CacheFollowsTx
    <2>2. CASE Prev[b] # Peak
        <3>1. tx'.coins = RollBack(tx.coins, fork) /\ coin_cache' = RollBack(coin_cache, fork)
            BY <2>2 DEF Consistent, Shape, TypeOK, Database
        <3>2. \A c \in Coins : /\ tx'.coins[c] = RollBackRecord(tx.coins[c], fork)
                               /\ coin_cache'[c] = RollBackRecord(coin_cache[c], fork)
            BY <3>1 DEF RollBack
        <3>3. RollBackRecord(NONE, fork) = NONE
            BY DEF RollBackRecord
        <3> QED
            BY <3>2, <3>3 DEF Consistent, CacheFollowsTx
    <2> QED
        BY <2>1, <2>2
<1>9. Settled'
    <2>1. StoredChainsComplete'
        BY <1>6 DEF RollBackToFork, Consistent, StoredChainsComplete
    <2> QED
        BY <1>6, <2>1 DEF RollBackToFork, Consistent, Settled, MemoryFollowsDatabase,
           PeakIsHeaviest, GenesisLightest, CoinStoreMatchesChain, RecordsAreStored, Peak
<1>10. VerdictMatchesReference'
    BY <1>6 DEF RollBackToFork, Consistent, VerdictMatchesReference
<1>11. TaskFollowsChecks'
    BY <1>1, <1>2, <1>3, <1>5 DEF RollBackToFork, Consistent, TaskFollowsChecks
<1>12. TxFollowsTask'
    BY <1>4, <1>5, <1>6, <1>7 DEF RollBackToFork, TxFollowsTask, CoinsMatchChain
<1> QED
    BY <1>8, <1>9, <1>10, <1>11, <1>12 DEF Consistent, Settled

\* The collecting loop starts just above the fork.
LEMMA FirstCollectedAboveFork ==
    ASSUME Consistent, task.pc # "idle"
    PROVE  FirstCollected = task.fork + 1
<1>1. task.fork \in Int /\ task.fork >= -1
    BY BlockAssumption DEF Consistent, Shape, TypeOK, TaskType
<1>2. task.fork >= 0 => height_to_hash[task.fork] = Ancestor[task.block][task.fork]
    BY DEF Consistent, TaskFollowsChecks
<1> QED
    BY <1>1, <1>2 DEF FirstCollected

\* The blocks to apply start right above the fork.
LEMMA CollectBlocksConsistent ==
    ASSUME Consistent, Shape', CollectBlocks
    PROVE  Consistent'
<1>1. running /\ task.pc = "collect" /\ task.new_peak
    BY DEF CollectBlocks, Consistent, Shape, TaskShape
<1>2. FirstCollected = task.fork + 1 /\ task.fork \in Int /\ task.fork <= Height[task.block]
      /\ Height[task.block] \in Nat
    BY <1>1, FirstCollectedAboveFork, TaskBlock, BlockAssumption
       DEF Consistent, Shape, TypeOK, TaskType, TaskShape
<1>3. /\ task'.pc = "apply" /\ task'.block = task.block /\ task'.fork = task.fork
      /\ task'.new_peak /\ task'.next = task.fork + 1
    BY <1>1, <1>2 DEF CollectBlocks, Consistent, Shape, TypeOK, TaskType
<1>4. Settled'
    BY SettledUnchanged, ConsistentParts DEF CollectBlocks
<1>5. VerdictMatchesReference' /\ CacheFollowsTx'
    BY DEF CollectBlocks, Consistent, VerdictMatchesReference, CacheFollowsTx
<1>6. TaskFollowsChecks'
    BY <1>1, <1>3 DEF CollectBlocks, Consistent, TaskFollowsChecks, memory
<1>7. task'.next - 1 = task.fork /\ task'.next <= Height[task.block] + 1
    BY <1>2, <1>3
<1>8. TxFollowsTask'
    BY <1>1, <1>3, <1>7 DEF CollectBlocks, Consistent, TxFollowsTask, CoinsMatchChain
<1> QED
    BY <1>4, <1>5, <1>6, <1>8 DEF Consistent, Settled

\* What is applied is what the block says: the generators of the collected blocks run.
LEMMA AppliedCoins ==
    ASSUME Undisturbed, Consistent, AllLoaded, task.pc = "apply",
           task.next <= Height[task.block]
    PROVE  /\ ToCreate = Created(Applying) /\ ToRemove = Removals[Applying]
           /\ Applying \in Blocks /\ Height[Applying] = task.next
           /\ task.next \in 0..Height[task.block]
           /\ task.block \in Rooted /\ ChainValid(task.block, Height[task.block])
           /\ Applying = Ancestor[task.block][task.next]
           /\ ~GeneratorRaises(Applying)
<1>1. Applying \in Blocks /\ Height[Applying] = task.next /\ task.next \in Heights
    BY ApplyingType DEF Consistent
<1>2. task.next \in 0..Height[task.block]
    BY <1>1, TaskBlock, BlockAssumption DEF Heights
<1>3. task.block \in tx.blocks /\ running
    BY DEF Consistent, Shape, TaskShape
<1>4. task.block \in Rooted /\ (Height[task.block] > 0 => Prev[task.block] \in db.blocks)
    BY TaskBlock
<1>5. ChainValid(task.block, Height[task.block])
    BY <1>3, StoredChainValid
<1>6. /\ ~GeneratorRaises(Applying) /\ RemovalsFound(Applying) = Removals[Applying]
      /\ CreatedFound(Applying) = Created(Applying)
    BY <1>2, <1>3, <1>4, <1>5, GeneratorsOfChainRun DEF ChainValid, Applying
<1> QED
    BY <1>1, <1>2, <1>4, <1>5, <1>6 DEF ToCreate, ToRemove, Applying

\* The assertions of new_block hold: what was accepted can be applied.
LEMMA ApplySucceeds ==
    ASSUME Undisturbed, Consistent, AllLoaded, task.pc = "apply",
           task.next <= Height[task.block]
    PROVE  CanApply
<1>1. /\ ToCreate = Created(Applying) /\ ToRemove = Removals[Applying]
      /\ Applying \in Blocks /\ task.next \in 0..Height[task.block]
      /\ task.block \in Rooted /\ ChainValid(task.block, Height[task.block])
      /\ Applying = Ancestor[task.block][task.next]
    BY AppliedCoins
<1>2. ~GeneratorRaises(Applying)
    BY AppliedCoins
<1>3. CoinsMatchChain(tx.coins, task.block, task.next - 1) /\ TypeOK /\ CacheFollowsTx
    BY DEF Consistent, TxFollowsTask, Shape
<1>4. IsTx[Applying] => NewBlockSucceeds(Created(Applying), Removals[Applying])
    BY <1>1, <1>3, NewBlockPossible
<1> QED
    BY <1>1, <1>2, <1>4 DEF CanApply

\* new_block advances the coin table by one block of the new chain.
LEMMA ApplyBlockConsistent ==
    ASSUME Undisturbed, Consistent, AllLoaded, Shape', ApplyBlock
    PROVE  Consistent'
<1> DEFINE b == task.block
           n == task.next
<1>1. running /\ task.pc = "apply" /\ n <= Height[b] /\ task.new_peak /\ CanApply
    BY DEF ApplyBlock, Consistent, Shape, TaskShape
<1>2. /\ ToCreate = Created(Applying) /\ ToRemove = Removals[Applying]
      /\ Applying \in Blocks /\ n \in 0..Height[b] /\ Height[Applying] = n
      /\ b \in Rooted /\ ChainValid(b, Height[b]) /\ Applying = Ancestor[b][n]
    BY <1>1, AppliedCoins
<1>3. n \in Nat /\ Height[b] \in Nat
    BY <1>1, <1>2, TaskBlock
<1>4. /\ task'.pc = "apply" /\ task'.block = b /\ task'.fork = task.fork
      /\ task'.new_peak /\ task'.next = n + 1
    BY <1>1 DEF ApplyBlock, Consistent, Shape, TypeOK, TaskType
<1>5. CoinsMatchChain(tx.coins, b, n - 1) /\ TypeOK /\ CacheFollowsTx /\ tx.peak = db.peak
    BY <1>1 DEF Consistent, TxFollowsTask, Shape
<1>6. tx'.blocks = tx.blocks /\ tx'.peak = tx.peak
    BY DEF ApplyBlock, Consistent, Shape, TypeOK, Database
<1>7. CoinsMatchChain(tx'.coins, b, n)
    <2>1. CASE IsTx[Applying]
        <3>1. tx'.coins = CoinsAfterNewBlock(Created(Applying), Removals[Applying], n)
            BY <1>2, <2>1 DEF ApplyBlock, Consistent, Shape, TypeOK, Database
        <3>2. NewBlockSucceeds(Created(Applying), Removals[Applying])
            BY <1>1, <1>2, <2>1 DEF CanApply
        <3> QED
            BY <1>2, <1>5, <3>1, <3>2, NewBlockMatches
    <2>2. CASE ~IsTx[Applying]
        <3>1. tx' = tx
            BY <2>2 DEF ApplyBlock
        <3>2. Applying \in BodyValid
            BY <1>2 DEF ChainValid, ValidOnOwnChain
        <3>3. Created(Applying) = {} /\ Removals[Applying] = {}
            BY <2>2, <3>2, BodyAssumption DEF Created
        <3>4. \A h \in 0..n : h = n \/ h \in 0..(n - 1)
            BY <1>3
        <3> SUFFICES ASSUME NEW c \in Coins PROVE RecordMatchesChain(tx.coins[c], c, b, n)
            BY <3>1 DEF CoinsMatchChain
        <3>5. RecordMatchesChain(tx.coins[c], c, b, n - 1)
            BY <1>5 DEF CoinsMatchChain
        <3>6. tx.coins[c] # NONE => tx.coins[c].confirmed \in Nat /\ tx.coins[c].spent_index \in Nat
            BY <1>5, BlockAssumption DEF TypeOK, Database, CoinTable, CoinRecord, Heights
        <3> QED
            BY <1>2, <1>3, <3>3, <3>4, <3>5, <3>6 DEF RecordMatchesChain
    <2> QED
        BY <2>1, <2>2
<1>8. CacheFollowsTx'
    <2>1. CASE IsTx[Applying]
        <3>1. /\ tx'.coins = CoinsAfterNewBlock(ToCreate, ToRemove, Height[Applying])
              /\ coin_cache' = CacheAfterNewBlock(ToCreate, ToRemove)
            BY <2>1 DEF ApplyBlock, Consistent, Shape, TypeOK, Database
        <3> QED
            BY <1>5, <3>1 DEF CacheFollowsTx, CoinsAfterNewBlock, CacheAfterNewBlock
    <2>2. CASE ~IsTx[Applying]
        BY <1>5, <2>2 DEF ApplyBlock, CacheFollowsTx
    <2> QED
        BY <2>1, <2>2
<1>9. Settled'
    BY <1>6, SettledUnchanged, ConsistentParts DEF ApplyBlock
<1>10. VerdictMatchesReference'
    BY <1>6 DEF ApplyBlock, Consistent, VerdictMatchesReference
<1>11. TaskFollowsChecks'
    BY <1>1, <1>4 DEF ApplyBlock, Consistent, TaskFollowsChecks, memory
<1>12. task'.next - 1 = n /\ task'.next <= Height[b] + 1
    BY <1>1, <1>3, <1>4
<1>13. TxFollowsTask'
    BY <1>4, <1>5, <1>6, <1>7, <1>12 DEF ApplyBlock, TxFollowsTask, CoinsMatchChain
<1> QED
    BY <1>8, <1>9, <1>10, <1>11, <1>13 DEF Consistent, Settled

\* When the peak is set, the coin table is the one of its whole chain.
LEMMA SetPeakConsistent ==
    ASSUME Consistent, Shape', SetPeak
    PROVE  Consistent'
<1> DEFINE b == task.block
<1>1. running /\ task.pc = "apply" /\ task.next > Height[b] /\ task.new_peak
    BY DEF SetPeak, Consistent, Shape, TaskShape
<1>2. /\ task'.pc = "commit" /\ task'.block = b /\ task'.fork = task.fork /\ task'.new_peak
    BY <1>1 DEF SetPeak, Consistent, Shape, TypeOK, TaskType
<1>3. tx'.blocks = tx.blocks /\ tx'.peak = b /\ tx'.coins = tx.coins
    BY DEF SetPeak, Consistent, Shape, TypeOK, Database
<1>4. task.next - 1 = Height[b]
    <2>1. task.next <= Height[b] + 1 /\ task.next \in Int /\ Height[b] \in Nat
        BY <1>1, TaskBlock, BlockAssumption DEF Consistent, TxFollowsTask, Shape, TypeOK, TaskType
    <2> QED
        BY <1>1, <2>1
<1>5. CoinsMatchChain(tx'.coins, b, Height[b])
    BY <1>1, <1>3, <1>4 DEF Consistent, TxFollowsTask
<1>6. Settled'
    BY <1>3, SettledUnchanged, ConsistentParts DEF SetPeak
<1>7. VerdictMatchesReference' /\ CacheFollowsTx'
    BY <1>3 DEF SetPeak, Consistent, VerdictMatchesReference, CacheFollowsTx
<1>8. TaskFollowsChecks'
    BY <1>1, <1>2 DEF SetPeak, Consistent, TaskFollowsChecks, memory
<1>9. TxFollowsTask'
    BY <1>2, <1>3, <1>5 DEF SetPeak, TxFollowsTask, CoinsMatchChain
<1> QED
    BY <1>6, <1>7, <1>8, <1>9 DEF Consistent, Settled

\* The commit publishes the new chain, and memory follows it.
LEMMA CommitConsistent ==
    ASSUME Consistent, Shape', Commit
    PROVE  Consistent'
<1> DEFINE b == task.block
<1>1. running /\ task.pc = "commit" /\ b \in tx.blocks
    BY DEF Commit, Consistent, Shape, TaskShape
<1>2. db' = tx /\ tx' = tx /\ task' = Idle /\ coin_cache' = coin_cache /\ running'
      /\ block_records' = block_records \cup {b}
    BY <1>1 DEF Commit, UpdateMemory
<1>3. /\ b \in Rooted /\ b \in Blocks /\ b \in HeaderValid
      /\ Height[b] \in Nat /\ Weight[b] \in Nat
    BY <1>1, TaskBlock
<1>4. tx.blocks = db.blocks \cup {b}
    BY <1>1 DEF Consistent, Shape, TaskShape, StoreShape
<1>5. db.peak # NONE => db.peak \in Blocks /\ db.peak \in tx.blocks /\ Weight[db.peak] \in Nat
    <2>1. db.peak # NONE => db.peak \in Rooted /\ Height[db.peak] \in 0..Height[db.peak]
        BY BlockAssumption, AncestorAssumption DEF Consistent, Shape, StoreShape, PathIn, Heights
    <2>2. db.peak # NONE => db.peak \in db.blocks
        BY <2>1, AncestorAssumption DEF Consistent, Shape, StoreShape, PathIn
    <2> QED
        BY <1>4, <2>1, <2>2, BlockAssumption, AncestorAssumption
<1>6. \A d \in db.blocks : db.peak # NONE /\ Weight[d] <= Weight[db.peak] /\ Weight[d] \in Nat
    BY BlockAssumption DEF Consistent, PeakIsHeaviest, Shape, TypeOK, Database
<1>7. PeakIsHeaviest'
    <2>1. CASE task.new_peak
        <3>1. tx.peak = b /\ b # NONE
            BY <1>1, <1>3, <2>1, BlockAssumption DEF Consistent, TxFollowsTask
        <3>2. db.blocks = {} \/ db.peak # NONE
            BY <1>6
        <3>3. \A d \in db.blocks : Weight[d] <= Weight[b]
            <4> SUFFICES ASSUME NEW d \in db.blocks PROVE Weight[d] <= Weight[b]
                OBVIOUS
            <4>1. db.peak # NONE /\ Weight[b] > Weight[db.peak]
                BY <1>1, <1>6, <2>1 DEF Consistent, TaskFollowsChecks
            <4> QED
                BY <1>3, <1>5, <1>6, <4>1
        <3> QED
            BY <1>2, <1>3, <1>4, <3>1, <3>3 DEF PeakIsHeaviest
    <2>2. CASE ~task.new_peak
        <3>1. tx.peak = db.peak /\ db.peak # NONE
            BY <1>1, <2>2 DEF Consistent, TxFollowsTask, TaskFollowsChecks
        <3>2. Weight[b] <= Weight[db.peak]
            <4>1. CASE Height[b] = 0
                BY <1>3, <1>5, <3>1, <4>1 DEF Consistent, GenesisLightest
            <4>2. CASE Height[b] # 0
                BY <1>1, <2>2, <4>2 DEF Consistent, TaskFollowsChecks
            <4> QED
                BY <4>1, <4>2
        <3> QED
            BY <1>2, <1>4, <1>6, <3>1, <3>2 DEF PeakIsHeaviest
    <2> QED
        BY <2>1, <2>2
<1>8. CoinStoreMatchesChain'
    <2>1. CASE task.new_peak
        BY <1>1, <1>2, <1>3, <2>1, BlockAssumption
           DEF Consistent, TxFollowsTask, CoinStoreMatchesChain, CoinsMatchChain
    <2>2. CASE ~task.new_peak
        BY <1>1, <1>2, <2>2
           DEF Consistent, TxFollowsTask, CoinStoreMatchesChain, CoinsMatchChain
    <2> QED
        BY <2>1, <2>2
<1>9. MemoryFollowsDatabase'
    <2>1. CASE task.new_peak
        <3>1. tx.peak = b /\ b # NONE
            BY <1>1, <1>3, <2>1, BlockAssumption DEF Consistent, TxFollowsTask
        <3>2. peak_height' = Height[b]
            BY <2>1 DEF Commit, UpdateMemory
        <3>3. Peak' = b
            <4>1. Height[b] \in Heights
                BY <1>3, BlockAssumption
            <4>2. FirstCollected <= Height[b] => height_to_hash'[Height[b]] = Ancestor[b][Height[b]]
                BY <1>3, <2>1, <4>1 DEF Commit, UpdateMemory, OnPath
            <4>3. FirstCollected \in Nat
                BY <1>1, FirstCollectedType, BlockAssumption DEF Consistent
            <4>4. CASE FirstCollected <= Height[b]
                BY <1>3, <3>2, <4>2, <4>4, AncestorAssumption DEF Peak
            <4>5. CASE ~(FirstCollected <= Height[b])
                <5>1. height_to_hash'[Height[b]] = height_to_hash[Height[b]]
                    BY <2>1, <4>1, <4>3, <4>5 DEF Commit, UpdateMemory, OnPath
                <5>2. height_to_hash[Height[b]] = Ancestor[b][Height[b]]
                    BY <1>1, <1>3, <2>1, <4>3, <4>5, NewPeakPathStored DEF Consistent
                <5> QED
                    BY <1>3, <3>2, <5>1, <5>2, AncestorAssumption DEF Peak
            <4> QED
                BY <4>4, <4>5
        <3>4. peak_height' >= 0 /\ peak_height' # -1
            BY <1>3, <3>2
        <3>5. \A h \in 0..peak_height' : height_to_hash'[h] = Ancestor[Peak'][h]
            BY <3>4 DEF Shape, MemoryShape
        <3> QED
            BY <1>2, <3>1, <3>2, <3>3, <3>4, <3>5 DEF MemoryFollowsDatabase
    <2>2. CASE ~task.new_peak
        <3>1. tx.peak = db.peak /\ height_to_hash' = height_to_hash /\ peak_height' = peak_height
            BY <1>1, <2>2 DEF Consistent, TxFollowsTask, Commit, UpdateMemory
        <3> QED
            BY <1>1, <1>2, <3>1 DEF Consistent, MemoryFollowsDatabase, Peak
    <2> QED
        BY <2>1, <2>2
<1>10. StoredChainsComplete' /\ GenesisLightest' /\ RecordsAreStored'
    BY <1>2, <1>4 DEF Consistent, StoredChainsComplete, GenesisLightest, RecordsAreStored
<1>11. VerdictMatchesReference'
    BY <1>2 DEF Commit, Returned, Consistent, VerdictMatchesReference
<1>12. CacheFollowsTx' /\ TaskFollowsChecks' /\ TxFollowsTask'
    BY <1>2 DEF Consistent, CacheFollowsTx, TaskFollowsChecks, TxFollowsTask, Idle
<1> QED
    BY <1>7, <1>8, <1>9, <1>10, <1>11, <1>12 DEF Consistent

\* The except clause, struck before the coin store was touched.
LEMMA UnwindConsistent ==
    ASSUME Consistent, Shape', task.pc \in {"add", "reconsider"}, Unwind
    PROVE  Consistent'
<1>1. tx.coins = db.coins /\ tx.peak = db.peak
    BY DEF Consistent, TxFollowsTask, Shape, TaskShape
<1>2. tx' = db /\ db' = db /\ task' = Idle /\ coin_cache' = coin_cache
      /\ UNCHANGED memory /\ running' = running
    BY DEF Unwind
<1>3. StoredChainsComplete'
    BY <1>2 DEF Consistent, StoredChainsComplete
<1>4. GenesisLightest'
    BY <1>2 DEF Consistent, GenesisLightest, Shape, StoreShape
<1>5. MemoryFollowsDatabase' /\ PeakIsHeaviest' /\ CoinStoreMatchesChain' /\ RecordsAreStored'
    BY <1>2 DEF Consistent, MemoryFollowsDatabase, PeakIsHeaviest, CoinStoreMatchesChain,
       RecordsAreStored, Peak, memory
<1>6. VerdictMatchesReference'
    BY <1>2 DEF Unwind, Returned, Consistent, VerdictMatchesReference, Shape, StoreShape
<1>7. CacheFollowsTx'
    BY <1>1, <1>2 DEF Consistent, CacheFollowsTx
<1>8. TaskFollowsChecks' /\ TxFollowsTask'
    BY <1>2 DEF TaskFollowsChecks, TxFollowsTask, Idle
<1> QED
    BY <1>3, <1>4, <1>5, <1>6, <1>7, <1>8 DEF Consistent

\* Undisturbed, the code raises only before the coin store is touched.
LEMMA FailsEarly ==
    ASSUME Undisturbed, Consistent, AllLoaded, Fail
    PROVE  task.pc \in {"add", "reconsider"} /\ Unwind
<1>1. ~CancelledCommit
    BY DEF CancelledCommit, Undisturbed
<1>2. CASE Abort
    BY <1>2 DEF Abort, Undisturbed
<1>3. CASE RaiseInTransaction
    <2>1. task.pc = "collect" => Collected \subseteq tx.blocks
        <3> SUFFICES ASSUME task.pc = "collect" PROVE Collected \subseteq tx.blocks
            OBVIOUS
        <3>1. task.block \in tx.blocks
            BY DEF Consistent, Shape, TaskShape
        <3>2. \A h \in 0..Height[task.block] : Ancestor[task.block][h] \in tx.blocks
            BY <3>1 DEF Consistent, StoredChainsComplete
        <3>3. FirstCollected \in Nat /\ Height[task.block] \in Nat
            BY FirstCollectedType, TaskBlock, BlockAssumption DEF Consistent
        <3>4. \A h \in FirstCollected..Height[task.block] : h \in 0..Height[task.block]
            BY <3>3
        <3> QED
            BY <3>2, <3>4 DEF Collected
    <2>2. task.pc = "apply" /\ task.next <= Height[task.block] => CanApply
        BY ApplySucceeds
    <2> QED
        BY <1>3, <2>1, <2>2 DEF RaiseInTransaction
<1> QED
    BY <1>1, <1>2, <1>3 DEF Fail

\* So an exception in receive_block leaves the stores and the memory consistent.
LEMMA FailConsistent ==
    ASSUME Undisturbed, Consistent, AllLoaded, Shape', Fail
    PROVE  Consistent'
BY FailsEarly, UnwindConsistent

\* A crash drops the transaction; what is committed is consistent.
LEMMA CrashConsistent ==
    ASSUME Consistent, Shape', Crash
    PROVE  Consistent'
<1>1. StoredChainsComplete'
    BY DEF Crash, Consistent, StoredChainsComplete
<1>2. GenesisLightest' /\ VerdictMatchesReference'
    BY DEF Crash, Consistent, GenesisLightest, VerdictMatchesReference, Shape, StoreShape, NoResult
<1>3. MemoryFollowsDatabase' /\ PeakIsHeaviest' /\ CoinStoreMatchesChain' /\ RecordsAreStored'
    BY DEF Crash, Consistent, MemoryFollowsDatabase, PeakIsHeaviest, CoinStoreMatchesChain,
       RecordsAreStored
<1>4. CacheFollowsTx' /\ TaskFollowsChecks' /\ TxFollowsTask'
    BY DEF Crash, CacheFollowsTx, TaskFollowsChecks, TxFollowsTask, Idle, NoCoins
<1> QED
    BY <1>1, <1>2, <1>3, <1>4 DEF Consistent

\* _load_chain_from_store rebuilds a memory that follows the database.
LEMMA RestartConsistent ==
    ASSUME Consistent, Shape', Restart
    PROVE  Consistent'
<1>1. db' = db /\ tx' = tx /\ task' = task /\ coin_cache' = coin_cache /\ result' = result
    BY DEF Restart
<1>2. ~running /\ task.pc = "idle"
    BY DEF Restart, Consistent, Shape, TaskShape
<1>3. MemoryFollowsDatabase' /\ RecordsAreStored'
    BY RestartMemory DEF Consistent
<1>4. StoredChainsComplete'
    BY <1>1 DEF Consistent, StoredChainsComplete
<1>5. PeakIsHeaviest' /\ GenesisLightest' /\ CoinStoreMatchesChain'
    BY <1>1 DEF Consistent, PeakIsHeaviest, GenesisLightest, CoinStoreMatchesChain
<1>6. VerdictMatchesReference' /\ CacheFollowsTx' /\ TaskFollowsChecks' /\ TxFollowsTask'
    BY <1>1, <1>2 DEF Consistent, VerdictMatchesReference, CacheFollowsTx, TaskFollowsChecks,
       TxFollowsTask
<1> QED
    BY <1>3, <1>4, <1>5, <1>6 DEF Consistent

\* Steps that change the records in memory keep the peak's record and add stored
\* blocks only.
LEMMA RecordsConsistent ==
    ASSUME Consistent, Shape', AtRest, block_records' \subseteq db.blocks,
           peak_height >= 0 /\ Peak \in block_records => Peak \in block_records',
           UNCHANGED <<db, tx, height_to_hash, peak_height, ses, block_cache,
                       coin_cache, task, result, running>>
    PROVE  Consistent'
<1>1. task.pc = "idle"
    BY DEF AtRest
<1>2. MemoryFollowsDatabase'
    BY DEF Consistent, MemoryFollowsDatabase, Peak
<1>3. StoredChainsComplete'
    BY DEF Consistent, StoredChainsComplete
<1>4. PeakIsHeaviest' /\ GenesisLightest' /\ CoinStoreMatchesChain' /\ RecordsAreStored'
    BY DEF Consistent, PeakIsHeaviest, GenesisLightest, CoinStoreMatchesChain, RecordsAreStored
<1>5. VerdictMatchesReference' /\ CacheFollowsTx' /\ TaskFollowsChecks' /\ TxFollowsTask'
    BY <1>1 DEF Consistent, VerdictMatchesReference, CacheFollowsTx, TaskFollowsChecks,
       TxFollowsTask
<1> QED
    BY <1>2, <1>3, <1>4, <1>5 DEF Consistent

\* Evicting, warming up and pre-validating keep the records stored.
LEMMA ManageRecordsConsistent ==
    ASSUME Undisturbed, Consistent, Shape', ManageRecords
    PROVE  Consistent'
<1>1. block_records \subseteq db.blocks
    BY DEF Consistent, RecordsAreStored
<1>2. ASSUME NEW height \in Heights, CleanBlockRecord(height)
      PROVE  Consistent'
    <2>1. peak_height >= 0 => Height[Peak] = peak_height
        BY DEF Consistent, Shape, MemoryShape
    <2>2. height < peak_height /\ peak_height \in Int /\ height \in Int
        BY <1>2, ParameterAssumption, BlockAssumption
           DEF CleanBlockRecord, Consistent, Shape, TypeOK, Heights
    <2>3. peak_height \notin Cleaned(height)
        BY <2>2 DEF Cleaned
    <2>4. peak_height >= 0 /\ Peak \in block_records => Peak \in block_records'
        BY <1>2, <2>1, <2>3 DEF CleanBlockRecord
    <2> QED
        BY <1>1, <1>2, <2>4, RecordsConsistent DEF CleanBlockRecord
<1>3. ASSUME NEW height \in Heights, Warmup(height)
      PROVE  Consistent'
    <2>1. Warmed(height) \subseteq db.blocks
        BY DEF Warmed
    <2> QED
        BY <1>1, <1>3, <2>1, RecordsConsistent DEF Warmup
<1>4. ASSUME NEW b \in Rooted, NEW first \in 0..Height[b], NEW done \in first..Height[b],
             PreValidate(b, first, done) \/ PreValidateMismatch(b, first, done)
      PROVE  Consistent'
    <2>1. ~PreValidateMismatch(b, first, done)
        BY DEF PreValidateMismatch, Undisturbed
    <2> QED
        BY <1>1, <1>4, <2>1, RecordsConsistent DEF PreValidate, PreValidatable
<1> QED
    BY <1>2, <1>3, <1>4 DEF ManageRecords

\* Steps that change nothing keep everything consistent.
LEMMA StutterConsistent ==
    ASSUME Consistent, UNCHANGED vars
    PROVE  Consistent'
<1>1. Shape'
    BY StutterShape DEF Consistent
<1>2. Settled'
    BY SettledUnchanged, ConsistentParts DEF vars
<1>3. VerdictMatchesReference' /\ CacheFollowsTx' /\ TaskFollowsChecks' /\ TxFollowsTask'
    BY DEF vars, memory, Consistent, VerdictMatchesReference, CacheFollowsTx, TaskFollowsChecks,
       TxFollowsTask, CoinsMatchChain
<1> QED
    BY <1>1, <1>2, <1>3 DEF Consistent, Settled

\* Consistent is inductive: one lemma for each action.
LEMMA ConsistentInductive ==
    ASSUME Undisturbed
    PROVE  Consistent /\ AllLoaded /\ [Next]_vars => Consistent'
<1> SUFFICES ASSUME Consistent, AllLoaded, [Next]_vars PROVE Consistent'
    OBVIOUS
<1>s. Shape'
    BY ShapeInductive DEF Consistent
<1>1. CASE ReceiveBlock
    BY <1>1, <1>s, ReceiveBlockConsistent
<1>2. CASE StoreBlock
    BY <1>2, <1>s, AddFullBlockConsistent, KeepPeakConsistent, FirstPeakConsistent,
       RollBackToForkConsistent, CollectBlocksConsistent, ApplyBlockConsistent,
       SetPeakConsistent, CommitConsistent DEF StoreBlock
<1>3. CASE Fail
    BY <1>3, <1>s, FailConsistent
<1>4. CASE ManageRecords
    BY <1>4, <1>s, ManageRecordsConsistent
<1>5. CASE Crash
    BY <1>5, <1>s, CrashConsistent
<1>6. CASE Restart
    BY <1>6, <1>s, RestartConsistent
<1>7. CASE UNCHANGED vars
    BY <1>7, StutterConsistent
<1> QED
    BY <1>1, <1>2, <1>3, <1>4, <1>5, <1>6, <1>7 DEF Next

\* No record leaves a cache that is larger than the chain: clean_block_record has nothing
\* to remove, a commit enters the block it stores, and a restart loads every block.
LEMMA LoadedInductive ==
    ASSUME Undisturbed
    PROVE  Consistent /\ AllLoaded /\ [Next]_vars => AllLoaded'
<1> SUFFICES ASSUME Consistent, AllLoaded, [Next]_vars, running', MaxHeight < BLOCKS_CACHE_SIZE
             PROVE  db'.blocks \subseteq block_records'
    BY DEF AllLoaded
<1>1. MaxHeight \in Nat /\ BLOCKS_CACHE_SIZE \in Nat
    BY BlockAssumption, ParameterAssumption
<1>2. CASE Restart
    <2>1. ASSUME NEW b \in db.blocks PROVE b \in CloseToPeak
        <3>1. db.peak # NONE /\ db.peak \in Rooted
            BY DEF Consistent, PeakIsHeaviest, Shape, StoreShape, PathIn
        <3>2. Height[b] \in 0..MaxHeight /\ Height[db.peak] \in 0..MaxHeight
            BY <3>1, BlockAssumption, AncestorAssumption
               DEF Heights, Consistent, Shape, TypeOK, Database
        <3> QED
            BY <1>1, <3>1, <3>2 DEF CloseToPeak
    <2> QED
        BY <1>2, <2>1 DEF Restart
<1>3. CASE Commit
    BY <1>1, <1>3 DEF Commit, UpdateMemory, Consistent, Shape, TaskShape, AllLoaded
<1>4. CASE ReceiveBlock
    BY <1>1, <1>4 DEF ReceiveBlock, AlreadyHaveBlock, DisconnectedBlock, InvalidHeader,
       ValidateBody, BodyRaises, InvalidBody, AcceptBody, memory, AllLoaded
<1>5. CASE StoreBlock /\ ~Commit
    BY <1>5 DEF StoreBlock, AddFullBlock, KeepPeak, FirstPeak, RollBackToFork, CollectBlocks,
       ApplyBlock, SetPeak, memory, AllLoaded
<1>6. CASE Fail
    BY <1>6, FailsEarly DEF Unwind, memory, AllLoaded
<1>7. CASE ManageRecords
    <2>1. ASSUME NEW height \in Heights, CleanBlockRecord(height) PROVE FALSE
        <3>1. height \in 0..(peak_height - BLOCKS_CACHE_SIZE) /\ peak_height \in -1..MaxHeight
            BY <2>1 DEF CleanBlockRecord, Consistent, Shape, TypeOK
        <3> QED
            BY <1>1, <3>1
    <2>2. block_records \subseteq block_records' /\ db' = db /\ running
        BY <1>7, <2>1 DEF ManageRecords, Warmup, PreValidate, PreValidateMismatch,
           PreValidatable, AtRest
    <2> QED
        BY <2>2 DEF AllLoaded
<1>8. CASE Crash \/ UNCHANGED vars
    BY <1>8 DEF Crash, vars, memory, AllLoaded
<1> QED
    BY <1>2, <1>3, <1>4, <1>5, <1>6, <1>7, <1>8 DEF Next

----------------------------------------------------------------------------
(* Theorems                                                                 *)

\* Database, memory, cache, verdicts and the task under way agree.
THEOREM ConsistentInvariant ==
    ASSUME Undisturbed
    PROVE  Spec => [](Consistent /\ AllLoaded)
<1>1. Init => AllLoaded
    BY DEF Init, AllLoaded, EmptyDatabase
<1> QED
    BY <1>1, InitConsistent, ConsistentInductive, LoadedInductive, PTL DEF Spec

\* Whatever reorganizations and crashes came before, the committed coin table is the
\* one that the chain of the committed peak produces: rollback_to_block and new_block
\* undo and redo exactly the spends of the two branches.
THEOREM CoinStoreAlwaysMatchesChain ==
    ASSUME Undisturbed
    PROVE  Spec => []CoinStoreMatchesChain
<1>1. Consistent => CoinStoreMatchesChain
    BY DEF Consistent
<1> QED
    BY <1>1, ConsistentInvariant, PTL

\* validate_block_body accepts a block exactly if it is valid on its own chain,
\* whichever chain is the main chain when it arrives.
THEOREM VerdictAlwaysMatchesReference ==
    ASSUME Undisturbed
    PROVE  Spec => []VerdictMatchesReference
<1>1. Consistent => VerdictMatchesReference
    BY DEF Consistent
<1> QED
    BY <1>1, ConsistentInvariant, PTL

\* The assertions of new_block and _set_spent never fail: what was accepted once can
\* be applied in every later reorganization.
THEOREM SanityChecksAlwaysRedundant ==
    ASSUME Undisturbed
    PROVE  Spec => []SanityChecksRedundant
<1>1. Consistent /\ AllLoaded => SanityChecksRedundant
    BY ApplySucceeds DEF SanityChecksRedundant
<1> QED
    BY <1>1, ConsistentInvariant, PTL

\* Between two calls get_coin_record answers what the committed table says.
THEOREM CoinCacheAlwaysCoherent ==
    ASSUME Undisturbed
    PROVE  Spec => []CoinCacheCoherent
<1>1. Consistent => CoinCacheCoherent
    BY DEF Consistent, CoinCacheCoherent, CacheFollowsTx, GetCoinRecord, AtRest, Shape, TaskShape
<1> QED
    BY <1>1, ConsistentInvariant, PTL

\* Up to the peak, the height map in memory is the path to the committed peak.
THEOREM MemoryAlwaysFollowsDatabase ==
    ASSUME Undisturbed
    PROVE  Spec => []MemoryFollowsDatabase
<1>1. Consistent => MemoryFollowsDatabase
    BY DEF Consistent
<1> QED
    BY <1>1, ConsistentInvariant, PTL

\* No stored block is heavier than the committed peak, whatever the order of arrival.
THEOREM PeakAlwaysHeaviest ==
    ASSUME Undisturbed
    PROVE  Spec => []PeakIsHeaviest
<1>1. Consistent => PeakIsHeaviest
    BY DEF Consistent
<1> QED
    BY <1>1, ConsistentInvariant, PTL

\* contains_block is true of stored blocks only: no record outlives a failed
\* receive_block or a pre-validated batch.
THEOREM RecordsAlwaysStored ==
    ASSUME Undisturbed
    PROVE  Spec => []RecordsAreStored
<1>1. Consistent => RecordsAreStored
    BY DEF Consistent
<1> QED
    BY <1>1, ConsistentInvariant, PTL

\* Every stored block has its whole chain in the same store, committed or not.
THEOREM StoredChainsAlwaysComplete ==
    ASSUME Undisturbed
    PROVE  Spec => []StoredChainsComplete
<1>1. Consistent => StoredChainsComplete
    BY DEF Consistent
<1> QED
    BY <1>1, ConsistentInvariant, PTL

\* A step changes the committed peak only to a heavier block: neither a crash nor a
\* failed receive_block takes weight from it.
LEMMA PeakWeightStep ==
    ASSUME Undisturbed, Consistent, [Next]_vars, db.peak # NONE
    PROVE  db'.peak # NONE /\ (db'.peak = db.peak \/ Weight[db'.peak] > Weight[db.peak])
<1>1. CASE Commit
    <2>1. db' = tx /\ task.pc = "commit" /\ task.block # NONE
        BY <1>1, TaskBlock, BlockAssumption DEF Commit
    <2>2. CASE task.new_peak
        BY <2>1, <2>2 DEF Consistent, TxFollowsTask, TaskFollowsChecks
    <2>3. CASE ~task.new_peak
        BY <2>1, <2>3 DEF Consistent, TxFollowsTask
    <2> QED
        BY <2>2, <2>3
<1>2. CASE ReceiveBlock
    BY <1>2 DEF ReceiveBlock, AlreadyHaveBlock, DisconnectedBlock, InvalidHeader, ValidateBody,
       BodyRaises, InvalidBody, AcceptBody
<1>3. CASE StoreBlock /\ ~Commit
    BY <1>3 DEF StoreBlock, AddFullBlock, KeepPeak, FirstPeak, RollBackToFork, CollectBlocks,
       ApplyBlock, SetPeak
<1>4. CASE Fail
    <2>1. ~CancelledCommit
        BY DEF CancelledCommit, Undisturbed
    <2> QED
        BY <1>4, <2>1 DEF Fail, RaiseInTransaction, Abort, Unwind
<1>5. CASE ManageRecords
    BY <1>5 DEF ManageRecords, CleanBlockRecord, Warmup, PreValidate, PreValidateMismatch
<1>6. CASE Crash \/ Restart \/ UNCHANGED vars
    BY <1>6 DEF Crash, Restart, vars
<1> QED
    BY <1>1, <1>2, <1>3, <1>4, <1>5, <1>6 DEF Next

\* The committed peak of a node never loses weight: its weight grows with every
\* change of peak, through reorganizations, failures and crashes.
THEOREM PeakWeightAlwaysGrows ==
    ASSUME Undisturbed
    PROVE  Spec => PeakWeightGrows
<1>1. Consistent /\ [Next]_vars =>
         [db.peak # NONE =>
            db'.peak # NONE /\ (db'.peak = db.peak \/ Weight[db'.peak] > Weight[db.peak])]_vars
    BY PeakWeightStep
<1> QED
    BY <1>1, ConsistentInvariant, PTL DEF Spec, PeakWeightGrows

----------------------------------------------------------------------------
(* The fork height that receive_block returns                               *)

\* Only a commit returns NEW_PEAK.
LEMMA OnlyCommitReturnsPeak ==
    ASSUME [Next]_vars, result' # result, result'.code = "NEW_PEAK"
    PROVE  Commit /\ task.new_peak
<1>1. ~ReceiveBlock
    <2>1. ASSUME ReceiveBlock PROVE FALSE
        <3>1. \/ \E code \in Codes \ {"NEW_PEAK"}, b \in Blocks : Returned(code, b, -1)
              \/ result' = NoResult
            BY <2>1 DEF ReceiveBlock, AlreadyHaveBlock, DisconnectedBlock, InvalidHeader,
               ValidateBody, BodyRaises, InvalidBody, AcceptBody, Codes
        <3> QED
            BY <3>1 DEF Returned, NoResult
    <2> QED
        BY <2>1
<1>2. CASE StoreBlock /\ ~Commit
    BY <1>2 DEF StoreBlock, AddFullBlock, KeepPeak, FirstPeak, RollBackToFork, CollectBlocks,
       ApplyBlock, SetPeak
<1>3. CASE Fail
    BY <1>3 DEF Fail, RaiseInTransaction, Abort, CancelledCommit, Unwind, Returned
<1>4. CASE ManageRecords
    BY <1>4 DEF ManageRecords, CleanBlockRecord, Warmup, PreValidate, PreValidateMismatch
<1>5. CASE Crash \/ Restart \/ UNCHANGED vars
    BY <1>5 DEF Crash, Restart, vars, NoResult
<1>6. CASE Commit
    BY <1>6 DEF Commit, Returned
<1> QED
    BY <1>1, <1>2, <1>3, <1>4, <1>5, <1>6 DEF Next, StoreBlock

\* With NEW_PEAK receive_block returns a height up to which the path is the one it was.
LEMMA ForkHeightStep ==
    ASSUME Consistent, [Next]_vars, result' # result, result'.code = "NEW_PEAK",
           NEW h \in Heights, h <= result'.fork, result'.fork > 0
    PROVE  height_to_hash'[h] = height_to_hash[h]
<1>1. Commit /\ task.new_peak
    BY OnlyCommitReturnsPeak
<1>2. result'.fork = ReturnedForkHeight /\ task.pc = "commit"
    BY <1>1 DEF Commit, Returned
<1>3. task.fork \in Int /\ h \in Nat
    BY BlockAssumption DEF Consistent, Shape, TypeOK, TaskType, Heights
<1>4. h <= task.fork
    BY <1>2, <1>3 DEF ReturnedForkHeight
<1>5. FirstCollected = task.fork + 1
    BY <1>2, FirstCollectedAboveFork
<1>6. ~OnPath(h)
    BY <1>3, <1>4, <1>5 DEF OnPath
<1> QED
    BY <1>1, <1>6 DEF Commit, UpdateMemory

\* Wallets and the mempool may keep everything up to the fork height that receive_block
\* returns with a new peak: no block of the path at or below it is another one.
THEOREM ForkHeightAlwaysHonest ==
    ASSUME Undisturbed
    PROVE  Spec => ForkHeightHonest
<1>1. Consistent /\ [Next]_vars =>
        [result' # result /\ result'.code = "NEW_PEAK" =>
            \A h \in Heights : h <= result'.fork /\ result'.fork > 0 =>
                height_to_hash'[h] = height_to_hash[h]]_vars
    BY ForkHeightStep
<1> QED
    BY <1>1, ConsistentInvariant, PTL DEF Spec, ForkHeightHonest

-----------------------------------------------------------------------------
(* The refinement: every step of receive_block, of a crash or of a restart   *)
(* commits one step of HeaviestChain or nothing.  Only Commit changes what   *)
(* is committed; there Consistent says which block it is and which coins the *)
(* table shows.                                                              *)

\* A record that says of a coin what a chain says of it is unspent exactly if the
\* chain has created the coin and not spent it.
LEMMA RecordShowsUnspent ==
    ASSUME NEW b \in Rooted, NEW c \in Coins, NEW r \in CoinRecord \cup {NONE},
           RecordMatchesChain(r, c, b, Height[b])
    PROVE  (r # NONE /\ ~r.spent) <=>
              /\ \E h \in 0..Height[b] : c \in Created(Ancestor[b][h])
              /\ \A h \in 0..Height[b] : c \notin Removals[Ancestor[b][h]]
<1>1. CASE r = NONE
    BY <1>1 DEF RecordMatchesChain
<1>2. CASE r # NONE
    <2>1. /\ r.confirmed \in 0..Height[b] /\ r.spent_index \in 0..Height[b]
          /\ r.spent \in BOOLEAN
        BY <1>2, BlockAssumption, AncestorAssumption DEF RecordMatchesChain, CoinRecord, Heights
    <2>2. \A h \in 0..Height[b] :
             /\ c \in Created(Ancestor[b][h]) <=> h = r.confirmed
             /\ c \in Removals[Ancestor[b][h]] <=> r.spent /\ h = r.spent_index
        BY <1>2 DEF RecordMatchesChain
    <2>3. c \in Created(Ancestor[b][r.confirmed])
        BY <2>1, <2>2
    <2>4. CASE r.spent
        <3>1. c \in Removals[Ancestor[b][r.spent_index]]
            BY <2>1, <2>2, <2>4
        <3> QED
            BY <2>1, <2>4, <3>1
    <2>5. CASE ~r.spent
        BY <1>2, <2>1, <2>2, <2>3, <2>5
    <2> QED
        BY <2>4, <2>5
<1> QED
    BY <1>1, <1>2

\* A coin table that matches a chain shows the unspent coins of that chain.
LEMMA TableShowsUnspent ==
    ASSUME NEW b \in Rooted, NEW table \in CoinTable, CoinsMatchChain(table, b, Height[b])
    PROVE  {c \in Coins : table[c] # NONE /\ ~table[c].spent} = Ledger!UnspentOn(b)
<1> SUFFICES ASSUME NEW c \in Coins
             PROVE  (table[c] # NONE /\ ~table[c].spent) <=>
                       /\ \E h \in 0..Height[b] : c \in Created(Ancestor[b][h])
                       /\ \A h \in 0..Height[b] : c \notin Removals[Ancestor[b][h]]
    BY DEF Ledger!UnspentOn, Ledger!Created, Created
<1>1. table[c] \in CoinRecord \cup {NONE} /\ RecordMatchesChain(table[c], c, b, Height[b])
    BY DEF CoinTable, CoinsMatchChain
<1> QED
    BY <1>1, RecordShowsUnspent

\* Only Commit changes the committed rows.
LEMMA OnlyCommitChangesDb ==
    ASSUME Undisturbed, [Next]_vars, ~Commit
    PROVE  db' = db
<1>1. CASE ReceiveBlock
    BY <1>1 DEF ReceiveBlock, AlreadyHaveBlock, DisconnectedBlock, InvalidHeader, ValidateBody,
       BodyRaises, InvalidBody, AcceptBody
<1>2. CASE StoreBlock
    BY <1>2 DEF StoreBlock, AddFullBlock, KeepPeak, FirstPeak, RollBackToFork, CollectBlocks,
       ApplyBlock, SetPeak
<1>3. CASE Fail
    <2>1. ~CancelledCommit
        BY DEF CancelledCommit, Undisturbed
    <2> QED
        BY <1>3, <2>1 DEF Fail, RaiseInTransaction, Abort, Unwind
<1>4. CASE ManageRecords
    BY <1>4 DEF ManageRecords, CleanBlockRecord, Warmup, PreValidate, PreValidateMismatch
<1>5. CASE Crash \/ Restart \/ UNCHANGED vars
    BY <1>5 DEF Crash, Restart, vars
<1> QED
    BY <1>1, <1>2, <1>3, <1>4, <1>5 DEF Next

\* The block that is being committed may be accepted by the ledger.
LEMMA CommittedBlockAcceptable ==
    ASSUME Consistent, Commit
    PROVE  /\ task.block \in Blocks /\ task.block \in Rooted
           /\ Ledger!Acceptable(task.block)
           /\ db'.blocks = db.blocks \cup {task.block}
<1>1. task.pc = "commit" /\ db' = tx
    BY DEF Commit
<1>2. tx.blocks = db.blocks \cup {task.block}
    BY <1>1 DEF Consistent, Shape, TaskShape, StoreShape
<1>3. /\ task.block \in Blocks /\ task.block \in Rooted /\ ValidOnOwnChain(task.block)
      /\ Height[task.block] > 0 => Prev[task.block] \in db.blocks
    BY <1>1, TaskBlock
<1>4. Ledger!ValidOnOwnChain(task.block)
    BY <1>3 DEF ValidOnOwnChain, Ledger!ValidOnOwnChain, Created, Ledger!Created, CoinsReadFor,
       Ledger!CoinsReadFor
<1> QED
    BY <1>1, <1>2, <1>3, <1>4 DEF Ledger!Acceptable

\* A commit that makes its block the peak extends the ledger.
LEMMA CommitExtends ==
    ASSUME Consistent, Commit, task.new_peak
    PROVE  Ledger!Extend(task.block)
<1> DEFINE b == task.block
<1>1. task.pc = "commit" /\ db' = tx
    BY DEF Commit
<1>2. b \in Blocks /\ b \in Rooted /\ Ledger!Acceptable(b) /\ db'.blocks = db.blocks \cup {b}
    BY CommittedBlockAcceptable
<1>3. /\ db'.peak = b /\ CoinsMatchChain(db'.coins, b, Height[b])
      /\ db'.coins \in CoinTable
    BY <1>1 DEF Consistent, TxFollowsTask, Shape, TypeOK, Database
<1>4. UnspentCoins' = Ledger!UnspentOn(b)
    BY <1>2, <1>3, TableShowsUnspent DEF UnspentCoins
<1>5. \/ db.peak = NONE /\ Height[b] = 0
      \/ db.peak # NONE /\ Weight[b] > Weight[db.peak]
    BY <1>1 DEF Consistent, TaskFollowsChecks
<1>6. b \notin db.blocks
    <2>1. db.peak # NONE => Weight[b] \in Nat /\ Weight[db.peak] \in Nat
        BY <1>2, BlockAssumption DEF Consistent, Shape, TypeOK, Database
    <2> QED
        BY <1>5, <2>1 DEF Consistent, PeakIsHeaviest
<1>7. Ledger!Outweighs(b)
    <2>1. CASE db.peak = NONE
        BY <1>5, <2>1 DEF Ledger!Outweighs
    <2>2. CASE db.peak # NONE
        <3>1. Height[b] > 0
            <4>1. db.peak \in db.blocks
                <5>1. db.peak \in Rooted /\ \A h \in 0..Height[db.peak] : Ancestor[db.peak][h] \in db.blocks
                    BY <2>2 DEF Consistent, Shape, StoreShape, PathIn
                <5>2. Height[db.peak] \in 0..Height[db.peak] /\ Ancestor[db.peak][Height[db.peak]] = db.peak
                    BY <5>1, BlockAssumption, AncestorAssumption DEF Heights
                <5> QED
                    BY <5>1, <5>2
            <4>2. b \in HeaderValid /\ Height[b] \in Nat /\ Weight[b] \in Nat
                BY <1>1, TaskBlock
            <4>3. db.peak \in tx.blocks /\ Weight[db.peak] \in Nat
                BY <4>1, <2>2, BlockAssumption DEF Consistent, Shape, StoreShape, TypeOK, Database
            <4>4. Height[b] = 0 => Weight[b] <= Weight[db.peak]
                BY <4>2, <4>3 DEF Consistent, GenesisLightest
            <4> QED
                BY <1>5, <2>2, <4>2, <4>3, <4>4
        <3> QED
            BY <1>5, <2>2, <3>1 DEF Ledger!Outweighs
    <2> QED
        BY <2>1, <2>2
<1> QED
    BY <1>2, <1>3, <1>4, <1>6, <1>7 DEF Ledger!Extend

\* Any other commit keeps its block aside, or changes nothing that was committed.
LEMMA CommitKeepsAside ==
    ASSUME Consistent, Commit, ~task.new_peak
    PROVE  Ledger!KeepAside(task.block) \/ UNCHANGED Ledger!ledger
<1> DEFINE b == task.block
<1>1. task.pc = "commit" /\ db' = tx
    BY DEF Commit
<1>2. b \in Blocks /\ b \in Rooted /\ Ledger!Acceptable(b) /\ db'.blocks = db.blocks \cup {b}
    BY CommittedBlockAcceptable
<1>3. db'.peak = db.peak /\ UnspentCoins' = UnspentCoins
    BY <1>1 DEF Consistent, TxFollowsTask, UnspentCoins
<1>4. db.peak # NONE /\ (Height[b] = 0 \/ Weight[b] <= Weight[db.peak])
    BY <1>1 DEF Consistent, TaskFollowsChecks
<1>5. ~Ledger!Outweighs(b)
    <2>1. Weight[b] \in Nat /\ Weight[db.peak] \in Nat /\ Height[b] \in Nat
        BY <1>1, <1>4, TaskBlock, BlockAssumption DEF Consistent, Shape, TypeOK, Database
    <2> QED
        BY <1>4, <2>1 DEF Ledger!Outweighs
<1>6. CASE b \in db.blocks
    BY <1>2, <1>3, <1>6 DEF Ledger!ledger
<1>7. CASE b \notin db.blocks
    BY <1>2, <1>3, <1>4, <1>5, <1>7 DEF Ledger!KeepAside
<1> QED
    BY <1>6, <1>7

\* A node starts with an empty ledger.
LEMMA InitRefines == Init => Ledger!LedgerInit
<1> SUFFICES ASSUME Init PROVE Ledger!LedgerInit
    OBVIOUS
<1>1. db = EmptyDatabase
    BY DEF Init
<1>2. db.blocks = {} /\ db.peak = NONE /\ \A c \in Coins : db.coins[c] = NONE
    BY <1>1 DEF EmptyDatabase, NoCoins
<1> QED
    BY <1>2 DEF Ledger!LedgerInit, UnspentCoins

\* Every step commits a step of the ledger or nothing.
LEMMA StepRefines ==
    ASSUME Undisturbed, Consistent, [Next]_vars
    PROVE  [Ledger!Accept]_(Ledger!ledger)
<1>1. CASE Commit
    <2>1. task.block \in Blocks
        BY <1>1, CommittedBlockAcceptable
    <2> QED
        BY <1>1, <2>1, CommitExtends, CommitKeepsAside DEF Ledger!Accept
<1>2. CASE ~Commit
    BY <1>2, OnlyCommitChangesDb DEF Ledger!ledger, UnspentCoins
<1> QED
    BY <1>1, <1>2

\* What receive_block commits is the ledger of HeaviestChain, for every block tree:
\* the steps of a reorganization, its failures, crashes and restarts are invisible.
THEOREM ChainImplementsLedger ==
    ASSUME Undisturbed
    PROVE  Spec => ImplementsLedger
<1>1. Consistent /\ [Next]_vars => [Ledger!Accept]_(Ledger!ledger)
    BY StepRefines
<1> QED
    BY <1>1, InitRefines, ConsistentInvariant, PTL DEF Spec, ImplementsLedger, Ledger!LedgerSpec

-----------------------------------------------------------------------------
(* The sub-epoch summaries in memory are those of the main chain.            *)
(* _reconsider_peak deletes the ones above the fork long before the new path *)
(* is entered, so the invariant speaks of both times.                        *)

SummariesUpTo(n) ==
    \A h \in Heights :
        ses[h] = IF h <= n /\ HasSes[height_to_hash[h]] THEN height_to_hash[h] ELSE NONE

\* While a new peak is prepared only the summaries up to the fork are left.
SummariesFollow == running => SummariesUpTo(IF task.new_peak THEN task.fork ELSE peak_height)

\* Steps that leave heights, summaries and peak alone, and the task's fork with them.
LEMMA SummariesUntouched ==
    ASSUME SummariesFollow, ses' = ses, height_to_hash' = height_to_hash,
           peak_height' = peak_height, running' = running,
           task'.new_peak = task.new_peak, task'.fork = task.fork \/ ~task.new_peak
    PROVE  SummariesFollow'
BY DEF SummariesFollow, SummariesUpTo

\* Deleting the summaries above the fork.
LEMMA RollBackSummaries ==
    ASSUME Consistent, SummariesFollow, RollBackToFork
    PROVE  SummariesFollow'
<1>1. PICK fork \in PeakForkPoints :
         /\ ses' = SesKeptBelow(fork)
         /\ task' = [task EXCEPT !.pc = "collect", !.fork = fork, !.new_peak = TRUE]
    BY DEF RollBackToFork
<1>2. task'.fork = fork /\ task'.new_peak
    BY <1>1 DEF Consistent, Shape, TypeOK, TaskType
<1>3. running /\ ~task.new_peak /\ height_to_hash' = height_to_hash
    BY DEF RollBackToFork, Consistent, Shape, TaskShape
<1>4. fork \in Int /\ fork <= peak_height /\ peak_height \in Int
    BY PeakForkPointsType, BlockAssumption
       DEF RollBackToFork, HeavierThanPeak, Consistent, Shape, TypeOK, Heights
<1> QED
    BY <1>1, <1>2, <1>3, <1>4, BlockAssumption
       DEF SummariesFollow, SummariesUpTo, SesKeptBelow, Heights

\* The new path enters exactly above what was left.
LEMMA CommitSummaries ==
    ASSUME Consistent, SummariesFollow, Commit
    PROVE  SummariesFollow'
<1>1. running /\ task.pc = "commit" /\ task' = Idle
    BY DEF Commit
<1>2. CASE task.new_peak
    <2>1. /\ task.fork \in Int /\ task.fork <= Height[task.block]
          /\ Height[task.block] \in Nat
          /\ FirstCollected = task.fork + 1
        BY <1>1, FirstCollectedAboveFork, TaskBlock, BlockAssumption
           DEF Consistent, Shape, TypeOK, TaskType, TaskShape
    <2>2. SummariesUpTo(task.fork)
        BY <1>1, <1>2 DEF SummariesFollow
    <2>3. /\ peak_height' = Height[task.block] /\ ~task'.new_peak
          /\ \A h \in Heights :
                /\ height_to_hash'[h] = IF OnPath(h) THEN Ancestor[task.block][h] ELSE height_to_hash[h]
                /\ ses'[h] = IF OnPath(h) /\ HasSes[Ancestor[task.block][h]]
                             THEN Ancestor[task.block][h] ELSE ses[h]
        BY <1>1, <1>2 DEF Commit, UpdateMemory, Idle
    <2>4. \A h \in Heights :
             ses'[h] = IF h <= peak_height' /\ HasSes[height_to_hash'[h]]
                       THEN height_to_hash'[h] ELSE NONE
        <3> SUFFICES ASSUME NEW h \in Heights
                     PROVE  ses'[h] = IF h <= Height[task.block] /\ HasSes[height_to_hash'[h]]
                                      THEN height_to_hash'[h] ELSE NONE
            BY <2>3
        <3>1. h \in Nat
            BY BlockAssumption DEF Heights
        <3>2. ses[h] = IF h <= task.fork /\ HasSes[height_to_hash[h]]
                       THEN height_to_hash[h] ELSE NONE
            BY <2>2 DEF SummariesUpTo
        <3>3. CASE OnPath(h)
            <4>1. task.fork < h /\ h <= Height[task.block]
                BY <2>1, <3>1, <3>3 DEF OnPath
            <4> QED
                BY <2>1, <2>3, <3>1, <3>2, <3>3, <4>1
        <3>4. CASE ~OnPath(h)
            <4>1. h <= task.fork \/ h > Height[task.block]
                BY <2>1, <3>1, <3>4 DEF OnPath
            <4>2. h <= task.fork <=> h <= Height[task.block]
                BY <2>1, <3>1, <4>1
            <4> QED
                BY <2>3, <3>2, <3>4, <4>2
        <3> QED
            BY <3>3, <3>4
    <2> QED
        BY <2>3, <2>4 DEF SummariesFollow, SummariesUpTo
<1>3. CASE ~task.new_peak
    BY <1>1, <1>3 DEF SummariesFollow, SummariesUpTo, Commit, UpdateMemory, Idle
<1> QED
    BY <1>2, <1>3

\* The other steps of the database part.
LEMMA StoreBlockSummaries ==
    ASSUME Consistent, SummariesFollow, StoreBlock, ~Commit, ~RollBackToFork
    PROVE  SummariesFollow'
<1>t. task \in TaskType
    BY DEF Consistent, Shape, TypeOK
<1>1. CASE AddFullBlock \/ CollectBlocks \/ ApplyBlock \/ SetPeak
    <2>1. /\ ses' = ses /\ height_to_hash' = height_to_hash /\ peak_height' = peak_height
          /\ running' = running
        BY <1>1 DEF AddFullBlock, CollectBlocks, ApplyBlock, SetPeak, memory
    <2>2. task'.new_peak = task.new_peak /\ task'.fork = task.fork
        BY <1>1, <1>t DEF AddFullBlock, CollectBlocks, ApplyBlock, SetPeak, TaskType
    <2> QED
        BY <2>1, <2>2, SummariesUntouched
<1>2. CASE KeepPeak
    <2>1. ~task.new_peak
        BY <1>2 DEF KeepPeak, Consistent, Shape, TaskShape
    <2>2. task'.new_peak = task.new_peak
        BY <1>2, <1>t DEF KeepPeak, TaskType
    <2> QED
        BY <1>2, <2>1, <2>2, SummariesUntouched DEF KeepPeak, memory
<1>3. CASE FirstPeak
    <2>1. ~task.new_peak /\ peak_height = -1
        BY <1>3 DEF FirstPeak, Consistent, Shape, TaskShape
    <2>2. task'.new_peak /\ task'.fork = -1
        BY <1>3, <1>t DEF FirstPeak, TaskType
    <2> QED
        BY <1>3, <2>1, <2>2 DEF FirstPeak, memory, SummariesFollow, SummariesUpTo
<1> QED
    BY <1>1, <1>2, <1>3 DEF StoreBlock

\* receive_block before the transaction: the task begins, with no new peak.
LEMMA ReceiveBlockSummaries ==
    ASSUME Consistent, SummariesFollow, ReceiveBlock
    PROVE  SummariesFollow'
<1>1. /\ ses' = ses /\ height_to_hash' = height_to_hash /\ peak_height' = peak_height
      /\ running' = running
    BY DEF ReceiveBlock, AlreadyHaveBlock, DisconnectedBlock, InvalidHeader, ValidateBody,
       BodyRaises, InvalidBody, AcceptBody, memory
<1>2. AtRest /\ (task' = task \/ ~task'.new_peak)
    BY DEF ReceiveBlock, AlreadyHaveBlock, DisconnectedBlock, InvalidHeader, ValidateBody,
       BodyRaises, InvalidBody, AcceptBody, ReachesBody, Idle
<1>3. ~task.new_peak
    BY <1>2 DEF AtRest, Consistent, Shape, TaskShape
<1> QED
    BY <1>1, <1>2, <1>3 DEF SummariesFollow, SummariesUpTo

\* _load_chain_from_store reads the summaries of the committed path.
LEMMA RestartSummaries ==
    ASSUME Consistent, Restart
    PROVE  SummariesFollow'
<1>1. ~task'.new_peak
    BY DEF Restart, Consistent, Shape, TaskShape
<1>2. CASE db.peak = NONE
    <2>1. /\ peak_height' = -1
          /\ \A h \in Heights : ses'[h] = NONE
        BY <1>2 DEF Restart, UpToPeak
    <2>2. \A h \in Heights : ~(h <= -1)
        BY BlockAssumption DEF Heights
    <2> QED
        BY <1>1, <2>1, <2>2 DEF SummariesFollow, SummariesUpTo
<1>3. CASE db.peak # NONE
    BY <1>1, <1>3 DEF Restart, UpToPeak, SummariesFollow, SummariesUpTo
<1> QED
    BY <1>2, <1>3

\* SummariesFollow is inductive relative to Consistent.
LEMMA SummariesInductive ==
    ASSUME Undisturbed
    PROVE  Consistent /\ AllLoaded /\ SummariesFollow /\ [Next]_vars => SummariesFollow'
<1> SUFFICES ASSUME Consistent, AllLoaded, SummariesFollow, [Next]_vars PROVE SummariesFollow'
    OBVIOUS
<1>1. CASE ReceiveBlock
    BY <1>1, ReceiveBlockSummaries
<1>2. CASE StoreBlock
    BY <1>2, CommitSummaries, RollBackSummaries, StoreBlockSummaries
<1>3. CASE Fail
    <2>1. task.pc \in {"add", "reconsider"} /\ Unwind
        BY <1>3, FailsEarly
    <2>2. ~task.new_peak
        BY <2>1 DEF Consistent, Shape, TaskShape
    <2> QED
        BY <2>1, <2>2 DEF Unwind, memory, SummariesFollow, SummariesUpTo, Idle
<1>4. CASE ManageRecords
    BY <1>4, SummariesUntouched
       DEF ManageRecords, CleanBlockRecord, Warmup, PreValidate, PreValidateMismatch
<1>5. CASE Crash
    BY <1>5 DEF Crash, SummariesFollow
<1>6. CASE Restart
    BY <1>6, RestartSummaries
<1>7. CASE UNCHANGED vars
    BY <1>7 DEF vars, memory, SummariesFollow, SummariesUpTo
<1> QED
    BY <1>1, <1>2, <1>3, <1>4, <1>5, <1>6, <1>7 DEF Next

\* Between two calls the summaries in memory, from which get_fork_point finds where to
\* sync from, are those of the path to the peak.
THEOREM SummariesAlwaysMatchChain ==
    ASSUME Undisturbed
    PROVE  Spec => []SummariesMatchChain
<1>1. Init => SummariesFollow
    <2> SUFFICES ASSUME Init PROVE SummariesFollow
        OBVIOUS
    <2>1. /\ \A h \in Heights : ses[h] = NONE /\ ~(h <= -1)
          /\ peak_height = -1 /\ ~task.new_peak
        BY BlockAssumption DEF Init, NoHeights, Idle, Heights
    <2> QED
        BY <2>1 DEF SummariesFollow, SummariesUpTo
<1>2. Consistent /\ SummariesFollow => SummariesMatchChain
    BY DEF SummariesMatchChain, SummariesFollow, SummariesUpTo, AtRest, Consistent, Shape, TaskShape
<1> QED
    BY <1>1, <1>2, SummariesInductive, ConsistentInvariant, PTL DEF Spec
=============================================================================
