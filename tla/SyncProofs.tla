----------------------------- MODULE SyncProofs -----------------------------
(***************************************************************************)
(* Catching up with peers, for any tree of blocks and any number of peers,   *)
(* message handlers and _sync tasks: there is one long sync at a time and    *)
(* the flags of SyncStore say so; SyncStore knows every short sync; who adds *)
(* blocks holds blockchain.lock; the chain grows block by block; and, where  *)
(* the peers' chains are one chain, a long sync has the right fork point.    *)
(***************************************************************************)
EXTENDS FullNodeSync, BlockTreeProofs, FiniteSetTheorems

-----------------------------------------------------------------------------
(* Counting *)

\* A finite set of naturals has a k-th element, counted from 0.
LEMMA KthElement ==
    ASSUME NEW T \in SUBSET Nat, IsFiniteSet(T), NEW k \in Nat, k < Cardinality(T)
    PROVE  \E h \in T : Cardinality({i \in T : i < h}) = k
<1> DEFINE Has(j) == \E h \in T : Cardinality({i \in T : i < h}) = j
           Missing == {j \in Nat : j < Cardinality(T) /\ ~Has(j)}
<1> SUFFICES ASSUME ~Has(k) PROVE FALSE
    OBVIOUS
<1>0. \A i \in T : i \in Nat
    OBVIOUS
<1>1. Missing \subseteq Nat /\ Missing # {}
    OBVIOUS
<1>2. PICK m \in Missing : \A j \in Missing : m <= j
    <2> HIDE DEF Missing
    <2> QED
        BY <1>1, LeastNatural
<1>3. m \in Nat /\ m < Cardinality(T) /\ ~Has(m) /\ Cardinality(T) \in Nat
    BY <1>2, FS_CardinalityType
<1>4. CASE m = 0
    <2>1. T # {}
        BY <1>3, <1>4, FS_EmptySet
    <2>2. PICK h \in T : \A i \in T : h <= i
        BY <2>1, LeastNatural
    <2>3. {i \in T : i < h} = {}
        <3>1. ASSUME NEW i \in T PROVE ~(i < h)
            BY <1>0, <2>2
        <3> QED
            BY <3>1
    <2>4. Cardinality({i \in T : i < h}) = 0
        BY <2>3, FS_EmptySet
    <2> QED
        BY <1>3, <1>4, <2>2, <2>4
<1>5. CASE m > 0
    <2>1. Has(m - 1)
        <3>1. m - 1 \in Nat /\ m - 1 < Cardinality(T) /\ ~(m <= m - 1)
            BY <1>3, <1>5
        <3> QED
            BY <1>2, <3>1
    <2>2. PICK g \in T : Cardinality({i \in T : i < g}) = m - 1
        BY <2>1
    <2> DEFINE below == {i \in T : i < g}
               upto == {i \in T : i <= g}
               above == T \ upto
    <2>3. IsFiniteSet(below)
        <3>1. below \in SUBSET T
            OBVIOUS
        <3> QED
            BY <3>1, FS_Subset
    <2>4. g \notin below /\ upto = below \cup {g} /\ upto \subseteq T
        <3>1. g \in T /\ g \in Nat /\ ~(g < g)
            BY <1>0, <2>2
        <3>2. ASSUME NEW i \in T PROVE i <= g <=> i < g \/ i = g
            BY <1>0, <3>1
        <3> QED
            BY <3>1, <3>2
    <2>5. Cardinality(upto) = m
        <3>1. Cardinality(below) = m - 1
            BY <2>2
        <3> HIDE DEF below, upto
        <3>2. Cardinality(below \cup {g}) = Cardinality(below) + 1
            BY <2>3, <2>4, FS_AddElement
        <3> QED
            BY <1>3, <2>4, <3>1, <3>2
    <2>6. above # {}
        <3> SUFFICES ASSUME above = {} PROVE FALSE
            OBVIOUS
        <3>1. upto = T
            BY <2>4
        <3> HIDE DEF upto
        <3> QED
            BY <1>3, <2>5, <3>1
    <2>7. above \subseteq Nat
        BY <1>0
    <2>8. PICK h \in above : \A i \in above : h <= i
        <3> HIDE DEF above
        <3> QED
            BY <2>6, <2>7, LeastNatural
    <2>9. {i \in T : i < h} = upto
        <3>1. h \in Nat /\ g \in Nat /\ g < h /\ h \in T
            BY <1>0, <2>2, <2>8
        <3>2. ASSUME NEW i \in T PROVE i < h <=> i <= g
            BY <1>0, <2>8, <3>1
        <3> QED
            BY <3>2
    <2> QED
        BY <1>3, <2>5, <2>8, <2>9
<1> QED
    BY <1>3, <1>4, <1>5

-----------------------------------------------------------------------------
(* The invariant *)

\* A part of one chain, as a peer sends it.
IsPath(blocks) ==
    \E t \in Rooted : \E i, j \in Heights :
        j <= Height[t] /\ blocks = {Ancestor[t][h] : h \in i..j}

WithPeer == {"ask", "backtrack", "far", "first", "fetch", "batch", "batchpost", "raised"}
WithBlock == {"ask", "backtrack", "far", "first", "fetch", "batch", "batchpost"}

\* What is known of a handler at each point: the peer it serves, the peak it was told of,
\* the blocks it still has to add, the height of its batch.
HandlerOK(r) ==
    /\ r \in HandlerType
    /\ r.pc \in WithPeer => r.peer \in Peers
    /\ r.pc \in WithBlock => r.block \in Blocks
    /\ r.pc \in {"add", "post"} => r.got # {}
    /\ r.pc \in {"batch", "batchpost"} => r.curr \in Heights
    /\ r.pc = "batch" => IsPath(r.got)

\* And of a long sync: its target.
SyncOK(r) ==
    /\ r \in SyncType
    /\ r.pc \in {"gather", "proof", "validate", "lock", "fetch"} => r.block \in Blocks

ChainShape == stored \subseteq Blocks /\ peak \in BlockOrNone
NetworkShape ==
    /\ connected \subseteq Peers /\ tip \in [Peers -> Blocks]
    /\ \A p \in Peers : tip[p] \in Rooted
ModeShape == sync_mode \in BOOLEAN /\ long_sync \in BOOLEAN /\ target \in BlockOrNone
PeaksShape ==
    /\ peak_to_peer \in [Blocks -> (SUBSET Peers) \cup {NONE}]
    /\ peer_to_peak \in [Peers -> BlockOrNone]
    /\ peers_changed \in BOOLEAN
FlagsShape == batch_syncing \subseteq Peers /\ backtrack_syncing \in [Peers -> Nat]
LockShape == lock \in Seq(Handlers \cup Syncs)
HandlerShape ==
    /\ handler \in [Handlers -> HandlerType]
    /\ \A h \in Handlers : HandlerOK(handler[h])
SyncShape ==
    /\ sync \in [Syncs -> SyncType]
    /\ \A s \in Syncs : SyncOK(sync[s])

Shape ==
    /\ ChainShape /\ NetworkShape /\ ModeShape /\ PeaksShape /\ FlagsShape /\ LockShape
    /\ HandlerShape /\ SyncShape /\ told \in BOOLEAN

\* Who adds blocks, or tells of the peak he has added, holds blockchain.lock.
AddersHold ==
    /\ \A h \in Handlers : handler[h].pc \in {"post", "batchpost"} => Holds(h)
    /\ \A s \in Syncs : sync[s].pc = "fetch" => Holds(s)

\* A batch sync is listed under its peer, and is the only one with it.
Batching(r) == r.pc \in {"first", "fetch", "batch", "batchpost"}
BatchesKnown ==
    /\ \A h \in Handlers : Batching(handler[h]) => handler[h].peer \in batch_syncing
    /\ \A g, h \in Handlers :
          Batching(handler[g]) /\ Batching(handler[h]) /\ handler[g].peer = handler[h].peer => g = h

\* The counter of backtracks is exact.
Backtracking(r) == r.pc \in {"backtrack", "respond", "add", "post"}
BacktracksCounted ==
    \A p \in Peers : backtrack_syncing[p] = Cardinality(BacktrackSyncing(p))

SyncInv == Shape /\ AddersHold /\ OneLongSync /\ BatchesKnown /\ BacktracksCounted

-----------------------------------------------------------------------------
(* What peers answer, and what the chain does with it *)

\* Facts about the constants, in the form in which the proofs use them.
LEMMA Constants ==
    /\ NONE \notin Blocks /\ NONE \notin Peers
    /\ MaxHeight \in Nat /\ BATCH_SIZE \in Nat /\ SES_BACK \in Nat /\ BATCH_BACK \in Nat
    /\ \A b \in Blocks : Height[b] \in Heights /\ Weight[b] \in Nat
    /\ Rooted \subseteq Blocks
    /\ IsFiniteSet(Handlers) /\ Handlers \cap Syncs = {}
BY BlockAssumption, AncestorAssumption, SyncAssumption

\* The blocks below a rooted block.
LEMMA Ancestors ==
    ASSUME NEW t \in Rooted, NEW h \in 0..Height[t]
    PROVE  Ancestor[t][h] \in Rooted /\ Ancestor[t][h] \in Blocks /\ Height[Ancestor[t][h]] = h
BY AncestorAssumption

\* Along a path that header validation accepts the weight grows, so that a part of it
\* has a heaviest block.
LEMMA WeightsGrow ==
    ASSUME NEW t \in Rooted, NEW i \in Heights, NEW j \in Heights, j <= Height[t],
           \A h \in i..j : Ancestor[t][h] \in HeaderValid,
           NEW k \in i..j
    PROVE  Weight[Ancestor[t][i]] <= Weight[Ancestor[t][k]]
<1> DEFINE W(h) == Weight[Ancestor[t][h]]
           Lighter == {h \in i..j : ~(W(i) <= W(h))}
<1>1. i \in Nat /\ j \in Nat /\ t \in Blocks /\ Height[t] \in Nat
    BY Constants DEF Heights
<1>2. ASSUME NEW h \in i..j
      PROVE  /\ h \in Nat /\ h \in 0..Height[t] /\ W(h) \in Nat
             /\ Ancestor[t][h] \in Rooted /\ Height[Ancestor[t][h]] = h
    <2>1. h \in 0..Height[t]
        BY <1>1
    <2> QED
        BY <1>1, <2>1, Ancestors, Constants
<1> SUFFICES ASSUME k \in Lighter PROVE FALSE
    OBVIOUS
<1>3. Lighter \subseteq Nat
    BY <1>1
<1>4. PICK m \in Lighter : \A h \in Lighter : m <= h
    <2> HIDE DEF Lighter
    <2> QED
        BY <1>3, LeastNatural
<1>5. m \in i..j /\ i \in i..j /\ W(i) \in Nat /\ W(m) \in Nat
    BY <1>1, <1>2, <1>4
<1>6. m # i
    BY <1>4, <1>5
<1>7. m - 1 \in i..j /\ m > 0
    BY <1>1, <1>5, <1>6
<1>8. m - 1 \notin Lighter
    <2>1. ~(m <= m - 1)
        BY <1>5
    <2> QED
        BY <1>4, <2>1
<1>9. W(i) <= W(m - 1) /\ W(m - 1) \in Nat
    BY <1>2, <1>7, <1>8
<1>10. W(m - 1) < W(m)
    <2> DEFINE b == Ancestor[t][m]
    <2>1. b \in Rooted /\ Height[b] = m /\ b \in HeaderValid /\ m \in 0..Height[t]
        BY <1>2, <1>5
    <2>2. Weight[b] > Weight[Prev[b]]
        BY <1>7, <2>1, HeaderAssumption
    <2>3. Ancestor[b][m - 1] = Prev[b]
        BY <1>7, <2>1, AncestorAssumption
    <2>4. m - 1 \in 0..m
        BY <1>7, <2>1
    <2>5. Ancestor[b][m - 1] = Ancestor[t][m - 1]
        BY <2>1, <2>4, AncestorAssumption
    <2> QED
        BY <2>2, <2>3, <2>5
<1> QED
    BY <1>4, <1>5, <1>9, <1>10

\* What receive_block_batch leaves of the chain is a set of blocks and a peak; a new peak
\* is among the blocks it has added.
LEMMA BatchShape ==
    ASSUME ChainShape, NEW got, IsPath(got)
    PROVE  /\ stored \cup Added(got) \subseteq Blocks
           /\ PeakAfter(got) \in BlockOrNone
           /\ PeakAfter(got) \in Added(got) \cup {peak} /\ Added(got) \subseteq got
<1>1. PICK t \in Rooted : \E i, j \in Heights :
         j <= Height[t] /\ got = {Ancestor[t][h] : h \in i..j}
    BY DEF IsPath
<1>2. PICK i \in Heights, j \in Heights :
         j <= Height[t] /\ got = {Ancestor[t][h] : h \in i..j}
    BY <1>1
<1>3. i \in Nat /\ j \in Nat /\ j <= MaxHeight /\ t \in Blocks /\ Height[t] \in Nat
    BY <1>2, Constants DEF Heights
<1>4. ASSUME NEW h \in i..j
      PROVE  /\ h \in Nat /\ h \in 0..Height[t] /\ Ancestor[t][h] \in Rooted
             /\ Ancestor[t][h] \in Blocks /\ Height[Ancestor[t][h]] = h
    <2>1. h \in 0..Height[t]
        BY <1>2, <1>3
    <2> QED
        BY <1>3, <2>1, Ancestors
<1>5. got \subseteq Blocks
    BY <1>2, <1>4
<1>6. Added(got) \subseteq got
    BY DEF Added, ToValidate
<1> DEFINE heavier == {b \in Added(got) : Weight[b] > PeakWeight}
<1>7. ASSUME heavier # {}
      PROVE  \E b \in heavier : \A a \in heavier : Weight[a] <= Weight[b]
    <2>1. heavier \in SUBSET Blocks
        BY <1>5, <1>6
    <2>2. PICK b \in heavier : \A a \in heavier : Height[a] <= Height[b]
        <3> HIDE DEF heavier
        <3> QED
            BY <1>7, <2>1, HighestBlock
    <2>3. ASSUME NEW a \in heavier PROVE Weight[a] <= Weight[b]
        <3>1. a \in got /\ b \in got /\ a \in ToValidate(got) /\ PreValidates(got)
            BY <1>6 DEF Added
        <3>2. PICK m \in i..j : a = Ancestor[t][m]
            BY <1>2, <3>1
        <3>3. PICK k \in i..j : b = Ancestor[t][k]
            BY <1>2, <3>1
        <3>4. m <= k /\ Height[a] = m /\ Height[b] = k
            BY <1>4, <2>2, <3>2, <3>3
        <3>5. m \in Heights /\ k \in m..j
            BY <1>3, <1>4, <3>2, <3>3, <3>4, Constants DEF Heights
        <3>6. PICK c \in got \ stored : Height[c] <= Height[a]
            BY <3>1 DEF ToValidate
        <3>7. Height[c] \in Nat
            BY <1>5, <3>6, Constants DEF Heights
        <3>8. ASSUME NEW h \in m..j PROVE Ancestor[t][h] \in HeaderValid
            <4>1. h \in i..j /\ m <= h /\ h \in Nat
                BY <1>3, <3>2
            <4>2. Ancestor[t][h] \in got /\ Height[c] <= Height[Ancestor[t][h]]
                BY <1>2, <1>4, <3>4, <3>6, <3>7, <4>1
            <4>3. Ancestor[t][h] \in ToValidate(got)
                BY <3>6, <4>2 DEF ToValidate
            <4> QED
                BY <3>1, <4>3 DEF PreValidates
        <3> QED
            BY <1>2, <3>2, <3>3, <3>5, <3>8, WeightsGrow
    <2> QED
        BY <2>2, <2>3
<1>8. PeakAfter(got) = IF heavier = {} THEN peak
                       ELSE CHOOSE b \in heavier : \A a \in heavier : Weight[a] <= Weight[b]
    BY DEF PeakAfter
<1>9. heavier \subseteq Blocks /\ heavier \subseteq Added(got)
    BY <1>5, <1>6
<1> HIDE DEF heavier
<1>10. PeakAfter(got) \in BlockOrNone /\ PeakAfter(got) \in Added(got) \cup {peak}
    BY <1>7, <1>8, <1>9 DEF ChainShape, BlockOrNone
<1> QED
    BY <1>5, <1>6, <1>10 DEF ChainShape

\* A peer answers a request for the block of a height with a block.
LEMMA AnswerTypes ==
    ASSUME NetworkShape, NEW p \in Peers, NEW height, NEW a \in Answers(p, height), a # NONE
    PROVE  a \in Blocks
<1>1. tip[p] \in Rooted
    BY DEF NetworkShape
<1> QED
    BY <1>1, Ancestors DEF Answers

\* It answers a request for several blocks with a part of its chain.
LEMMA BatchAnswerTypes ==
    ASSUME NetworkShape, NEW p \in Peers, NEW first, NEW b \in Blocks,
           first \in 0..(MaxHeight + BATCH_SIZE), first < Height[b],
           NEW got \in BatchAnswers(p, first, BatchEnd(first, Height[b])), got # {}
    PROVE  IsPath(got) /\ first \in Heights /\ first + BATCH_SIZE \in 0..(MaxHeight + BATCH_SIZE)
<1> DEFINE last == BatchEnd(first, Height[b])
<1>1. tip[p] \in Rooted
    BY DEF NetworkShape
<1>2. Height[b] \in Heights /\ MaxHeight \in Nat /\ BATCH_SIZE \in Nat
    BY Constants
<1>3. first \in Heights /\ first + BATCH_SIZE \in 0..(MaxHeight + BATCH_SIZE)
    BY <1>2 DEF Heights
<1>4. last \in Heights
    BY <1>2, <1>3 DEF Heights, BatchEnd
<1> HIDE DEF last
<1>5. last <= Height[tip[p]] /\ got = {Ancestor[tip[p]][h] : h \in first..last}
    BY DEF BatchAnswers, last
<1>6. IsPath(got)
    BY <1>1, <1>3, <1>4, <1>5 DEF IsPath
<1> QED
    BY <1>3, <1>6

\* The fork point of a weight proof is a height.
LEMMA ForkTypes ==
    ASSUME ChainShape, NEW b, NEW fork \in WeightProofForks(b)
    PROVE  fork \in Heights
<1> DEFINE T == SesHeights(peak)
<1>1. PICK k \in ForkPointIndexes(b) :
         fork = IF k > SES_BACK THEN SesHeight(peak, k - SES_BACK) ELSE 0
    BY DEF WeightProofForks
<1>2. T \in SUBSET Nat /\ T \subseteq Heights /\ \A h \in T : h <= MaxHeight
    BY Constants DEF ChainShape, BlockOrNone, SesHeights, Heights
<1>3. IsFiniteSet(T) /\ Cardinality(T) \in Nat
    BY <1>2, Constants, FS_BoundedSetOfNaturals, FS_CardinalityType
<1>4. CASE k > SES_BACK
    <2>1. k \in 0..Cardinality(T) - 1
        BY <1>1, <1>4, Constants DEF ForkPointIndexes
    <2>2. k - SES_BACK \in Nat /\ k - SES_BACK < Cardinality(T)
        BY <1>3, <1>4, <2>1, Constants
    <2>3. \E h \in T : Cardinality({i \in T : i < h}) = k - SES_BACK
        <3> HIDE DEF T
        <3> QED
            BY <1>2, <1>3, <2>2, KthElement
    <2>4. SesHeight(peak, k - SES_BACK) \in T
        BY <2>3 DEF SesHeight
    <2> QED
        BY <1>1, <1>2, <1>4, <2>4
<1>5. CASE ~(k > SES_BACK)
    BY <1>1, <1>5, Constants DEF Heights
<1> QED
    BY <1>4, <1>5

\* respond_block has a block to respond to.
LEMMA RespondingTypes ==
    ASSUME HandlerShape, NEW h \in Handlers, handler[h].got # {}
    PROVE  Responding(h) \in handler[h].got /\ Responding(h) \in Blocks
<1>1. handler[h].got \in SUBSET Blocks
    BY DEF HandlerShape, HandlerType
<1>2. \E b \in handler[h].got : \A a \in handler[h].got : Height[b] <= Height[a]
    BY <1>1, LowestBlock
<1> QED
    BY <1>1, <1>2 DEF Responding

-----------------------------------------------------------------------------
(* Steps of one handler *)

\* The records of a handler that has nothing to do and of one that raises.
LEMMA FreeOK ==
    /\ HandlerOK(Free)
    /\ Free = [pc |-> "free", peer |-> NONE, open |-> TRUE, block |-> NONE, our |-> 0,
               curr |-> 0, got |-> {}]
<1>1. 0 \in Heights /\ 0 \in 0..(MaxHeight + BATCH_SIZE)
    BY Constants DEF Heights
<1> QED
    BY <1>1 DEF Free, HandlerOK, HandlerType, BlockOrNone, WithPeer, WithBlock

\* A handler that raises keeps its peer, if it has one.
LEMMA RaisingOK ==
    ASSUME HandlerShape, NEW h \in Handlers
    PROVE  HandlerOK(Raising(h)) /\ Raising(h).pc \in {"free", "raised"}
<1> DEFINE p == handler[h].peer
           o == handler[h].open
<1>1. p \in Peers \cup {NONE} /\ o \in BOOLEAN
    BY DEF HandlerShape, HandlerType
<1>2. CASE p = NONE
    BY <1>2, FreeOK DEF Raising
<1>3. CASE p # NONE
    <2>1. ASSUME NEW e, e = [[Free EXCEPT !.peer = p, !.open = o] EXCEPT !.pc = "raised"]
          PROVE  HandlerOK(e) /\ e.pc = "raised"
        <3> HIDE DEF p, o
        <3>1. e = [pc |-> "raised", peer |-> p, open |-> o, block |-> NONE, our |-> 0,
                   curr |-> 0, got |-> {}]
            BY <2>1, FreeOK
        <3>2. 0 \in Heights /\ 0 \in 0..(MaxHeight + BATCH_SIZE)
            BY Constants DEF Heights
        <3> QED
            BY <1>1, <1>3, <3>1, <3>2 DEF HandlerOK, HandlerType, BlockOrNone, WithPeer, WithBlock
    <2> QED
        BY <1>3, <2>1 DEF Raising, Serving
<1> QED
    BY <1>2, <1>3

\* One handler goes on, the others stay where they are.
LEMMA HandleShape ==
    ASSUME HandlerShape, NEW h \in Handlers, NEW new, HandlerOK(new), Handle(h, new)
    PROVE  /\ HandlerShape' /\ handler'[h] = new
           /\ \A g \in Handlers : g # h => handler'[g] = handler[g]
<1>1. handler' = [handler EXCEPT ![h] = new] /\ new \in HandlerType
    BY DEF Handle, HandlerOK
<1>2. /\ handler' \in [Handlers -> HandlerType] /\ handler'[h] = new
      /\ \A g \in Handlers : g # h => handler'[g] = handler[g]
    BY <1>1 DEF HandlerShape
<1>3. \A g \in Handlers : HandlerOK(handler'[g])
    BY <1>2 DEF HandlerShape
<1> QED
    BY <1>2, <1>3 DEF HandlerShape

Adding == {"post", "batchpost"}

\* Holders keep the lock while others queue up behind them.
LEMMA HoldersKept ==
    ASSUME LockShape, NEW t \in Handlers \cup Syncs, NEW u, Holds(u), lock' = lock \/ Acquire(t)
    PROVE  Holds(u)'
BY DEF Holds, Acquire, LockShape

\* Who adds blocks holds the lock, as long as nobody starts without it.
LEMMA AddersKept ==
    ASSUME LockShape, AddersHold, NEW t \in Handlers \cup Syncs, lock' = lock \/ Acquire(t),
           \A h \in Handlers : handler'[h].pc \in Adding => handler[h].pc \in Adding \/ Holds(h),
           \A s \in Syncs : sync'[s].pc = "fetch" => sync[s].pc = "fetch" \/ Holds(s)
    PROVE  AddersHold' /\ LockShape'
<1>1. LockShape'
    BY DEF LockShape, Acquire
<1>2. ASSUME NEW h \in Handlers, handler'[h].pc \in Adding PROVE Holds(h)'
    BY <1>2, HoldersKept DEF AddersHold, Adding
<1>3. ASSUME NEW s \in Syncs, sync'[s].pc = "fetch" PROVE Holds(s)'
    BY <1>3, HoldersKept DEF AddersHold
<1> QED
    BY <1>1, <1>2, <1>3 DEF AddersHold, Adding

\* When the holder gives the lock back nobody is left who needed it.
LEMMA AddersReleased ==
    ASSUME LockShape, AddersHold, NEW t \in Handlers \cup Syncs, Holds(t),
           Release \/ lock' = Append(Tail(lock), t),
           \A h \in Handlers : handler'[h].pc \in Adding => h # t /\ handler[h].pc \in Adding,
           \A s \in Syncs : sync'[s].pc = "fetch" => s # t /\ sync[s].pc = "fetch"
    PROVE  AddersHold' /\ LockShape'
<1>1. LockShape'
    <2>1. lock # <<>> /\ lock \in Seq(Handlers \cup Syncs)
        BY DEF Holds, LockShape
    <2>2. Tail(lock) \in Seq(Handlers \cup Syncs)
        BY <2>1
    <2> QED
        BY <2>2 DEF LockShape, Release
<1>2. \A h \in Handlers : ~(handler'[h].pc \in Adding)
    BY DEF AddersHold, Adding, Holds
<1>3. \A s \in Syncs : sync'[s].pc # "fetch"
    BY DEF AddersHold, Holds
<1> QED
    BY <1>1, <1>2, <1>3 DEF AddersHold, Adding

\* The counters of backtracks when no backtrack begins or ends.
LEMMA CountSame ==
    ASSUME FlagsShape, BacktracksCounted, UNCHANGED backtrack_syncing,
           \A g \in Handlers : /\ Backtracking(handler'[g]) <=> Backtracking(handler[g])
                               /\ Backtracking(handler[g]) => handler'[g].peer = handler[g].peer
    PROVE  BacktracksCounted' /\ backtrack_syncing' \in [Peers -> Nat]
<1>1. ASSUME NEW p \in Peers PROVE BacktrackSyncing(p)' = BacktrackSyncing(p)
    BY DEF BacktrackSyncing, Backtracking
<1>2. ASSUME NEW p \in Peers
      PROVE  backtrack_syncing'[p] = Cardinality(BacktrackSyncing(p)')
    BY <1>1 DEF BacktracksCounted
<1>3. BacktracksCounted'
    BY <1>2 DEF BacktracksCounted
<1> QED
    BY <1>3 DEF FlagsShape

\* When one begins.
LEMMA CountUp ==
    ASSUME FlagsShape, BacktracksCounted, NEW h \in Handlers, NEW p \in Peers,
           ~Backtracking(handler[h]), Backtracking(handler'[h]), handler'[h].peer = p,
           \A g \in Handlers : g # h => handler'[g] = handler[g],
           backtrack_syncing' = [backtrack_syncing EXCEPT ![p] = @ + 1]
    PROVE  BacktracksCounted' /\ backtrack_syncing' \in [Peers -> Nat]
<1>1. BacktrackSyncing(p)' = BacktrackSyncing(p) \cup {h} /\ h \notin BacktrackSyncing(p)
    BY DEF BacktrackSyncing, Backtracking
<1>2. ASSUME NEW q \in Peers, q # p PROVE BacktrackSyncing(q)' = BacktrackSyncing(q)
    BY <1>2 DEF BacktrackSyncing, Backtracking
<1>3. \A q \in Peers : backtrack_syncing'[q] = IF q = p THEN backtrack_syncing[p] + 1
                                               ELSE backtrack_syncing[q]
    BY DEF FlagsShape
<1>4. Cardinality(BacktrackSyncing(p)') = Cardinality(BacktrackSyncing(p)) + 1
    <2>1. BacktrackSyncing(p) \in SUBSET Handlers
        BY DEF BacktrackSyncing
    <2>2. IsFiniteSet(BacktrackSyncing(p))
        BY <2>1, Constants, FS_Subset
    <2> QED
        BY <1>1, <2>2, FS_AddElement
<1>5. ASSUME NEW q \in Peers
      PROVE  backtrack_syncing'[q] = Cardinality(BacktrackSyncing(q)')
    BY <1>2, <1>3, <1>4 DEF BacktracksCounted
<1>6. BacktracksCounted'
    BY <1>5 DEF BacktracksCounted
<1> QED
    BY <1>6 DEF FlagsShape

\* When one ends, on whichever way out.
LEMMA CountDown ==
    ASSUME FlagsShape, BacktracksCounted, NEW h \in Handlers, NEW raises,
           handler[h].peer \in Peers \cup {NONE},
           Backtracking(handler[h]), ~Backtracking(handler'[h]),
           \A g \in Handlers : g # h => handler'[g] = handler[g],
           CountedDown(h, raises)
    PROVE  BacktracksCounted' /\ backtrack_syncing' \in [Peers -> Nat]
<1>0. PICK p \in Peers \cup {NONE} : p = handler[h].peer
    OBVIOUS
<1>1. ASSUME NEW q \in Peers, q # p PROVE BacktrackSyncing(q)' = BacktrackSyncing(q)
    BY <1>0, <1>1 DEF BacktrackSyncing, Backtracking
<1>2. CASE p = NONE
    <2>1. UNCHANGED backtrack_syncing /\ \A q \in Peers : q # p
        BY <1>0, <1>2, Constants DEF CountedDown
    <2>2. ASSUME NEW q \in Peers
          PROVE  backtrack_syncing'[q] = Cardinality(BacktrackSyncing(q)')
        BY <1>1, <2>1 DEF BacktracksCounted
    <2> QED
        BY <2>1, <2>2 DEF BacktracksCounted, FlagsShape
<1>3. CASE p \in Peers
    <2>1. backtrack_syncing' = [backtrack_syncing EXCEPT ![p] = @ - 1]
        BY <1>0, <1>3, Constants DEF CountedDown
    <2>2. BacktrackSyncing(p)' = BacktrackSyncing(p) \ {h} /\ h \in BacktrackSyncing(p)
        BY <1>0 DEF BacktrackSyncing, Backtracking
    <2>3. \A q \in Peers : backtrack_syncing'[q] = IF q = p THEN backtrack_syncing[p] - 1
                                                   ELSE backtrack_syncing[q]
        BY <1>3, <2>1 DEF FlagsShape
    <2>4. /\ IsFiniteSet(BacktrackSyncing(p)')
          /\ Cardinality(BacktrackSyncing(p)') = Cardinality(BacktrackSyncing(p)) - 1
        <3>1. BacktrackSyncing(p) \in SUBSET Handlers
            BY DEF BacktrackSyncing
        <3>2. IsFiniteSet(BacktrackSyncing(p))
            BY <3>1, Constants, FS_Subset
        <3> QED
            BY <2>2, <3>2, FS_RemoveElement
    <2>5. ASSUME NEW q \in Peers
          PROVE  backtrack_syncing'[q] = Cardinality(BacktrackSyncing(q)')
        BY <1>1, <2>3, <2>4 DEF BacktracksCounted
    <2>6. backtrack_syncing'[p] \in Nat
        BY <1>3, <2>4, <2>5, FS_CardinalityType
    <2> QED
        BY <2>1, <2>3, <2>5, <2>6 DEF BacktracksCounted, FlagsShape
<1> QED
    BY <1>0, <1>2, <1>3

\* What a step of handler h, whose record it replaces by new, may do to the lock, to the
\* counters of backtracks and to the set of batch syncs.
LockMoves(h, new) ==
    \/ /\ lock' = lock \/ Acquire(h)
       /\ new.pc \in Adding => handler[h].pc \in Adding \/ Holds(h)
    \/ Release /\ Holds(h) /\ new.pc \notin Adding

BacktracksMove(h, new) ==
    \/ /\ UNCHANGED backtrack_syncing
       /\ Backtracking(new) <=> Backtracking(handler[h])
       /\ Backtracking(handler[h]) => new.peer = handler[h].peer
    \/ /\ Backtracking(handler[h]) /\ ~Backtracking(new)
       /\ CountedDown(h, TRUE) \/ CountedDown(h, FALSE)
    \/ /\ ~Backtracking(handler[h]) /\ Backtracking(new) /\ new.peer \in Peers
       /\ backtrack_syncing' = [backtrack_syncing EXCEPT ![new.peer] = @ + 1]

BatchesMove(h, new) ==
    \/ /\ UNCHANGED batch_syncing
       /\ Batching(new) => Batching(handler[h]) /\ new.peer = handler[h].peer
    \/ Batching(handler[h]) /\ ~Batching(new) /\ NotBatchSyncing(h)
    \/ /\ handler[h].peer \notin batch_syncing /\ new.peer = handler[h].peer /\ new.peer \in Peers
       /\ batch_syncing' = batch_syncing \cup {new.peer}

\* The handlers after a step of one of them.
LEMMA HandlersMove ==
    ASSUME SyncInv, NEW h \in Handlers, NEW new, HandlerOK(new), Handle(h, new), UNCHANGED sync,
           LockMoves(h, new), BacktracksMove(h, new), BatchesMove(h, new)
    PROVE  HandlerShape' /\ LockShape' /\ AddersHold' /\ FlagsShape' /\ BatchesKnown' /\ BacktracksCounted'
<1> USE DEF SyncInv, Shape
<1>1. /\ HandlerShape' /\ handler'[h] = new
      /\ \A g \in Handlers : g # h => handler'[g] = handler[g]
    BY HandleShape
<1>2. handler[h].peer \in Peers \cup {NONE}
    BY DEF HandlerShape, HandlerType
<1>3. LockShape' /\ AddersHold'
    <2>1. CASE /\ lock' = lock \/ Acquire(h)
               /\ new.pc \in Adding => handler[h].pc \in Adding \/ Holds(h)
        BY <1>1, <2>1, AddersKept
    <2>2. CASE Release /\ Holds(h) /\ new.pc \notin Adding
        BY <1>1, <2>2, AddersReleased, Constants
    <2> QED
        BY <2>1, <2>2 DEF LockMoves
<1>4. BacktracksCounted' /\ backtrack_syncing' \in [Peers -> Nat]
    <2>1. CASE /\ UNCHANGED backtrack_syncing
               /\ Backtracking(new) <=> Backtracking(handler[h])
               /\ Backtracking(handler[h]) => new.peer = handler[h].peer
        BY <1>1, <2>1, CountSame
    <2>2. CASE /\ Backtracking(handler[h]) /\ ~Backtracking(new)
               /\ CountedDown(h, TRUE) \/ CountedDown(h, FALSE)
        BY <1>1, <1>2, <2>2, CountDown
    <2>3. CASE /\ ~Backtracking(handler[h]) /\ Backtracking(new) /\ new.peer \in Peers
               /\ backtrack_syncing' = [backtrack_syncing EXCEPT ![new.peer] = @ + 1]
        <3>1. PICK p \in Peers : p = new.peer
            BY <2>3
        <3> QED
            BY <1>1, <2>3, <3>1, CountUp
    <2> QED
        BY <2>1, <2>2, <2>3 DEF BacktracksMove
<1>5. BatchesKnown' /\ batch_syncing' \subseteq Peers
    <2>1. CASE /\ UNCHANGED batch_syncing
               /\ Batching(new) => Batching(handler[h]) /\ new.peer = handler[h].peer
        BY <1>1, <2>1 DEF BatchesKnown, FlagsShape
    <2>2. CASE Batching(handler[h]) /\ ~Batching(new) /\ NotBatchSyncing(h)
        BY <1>1, <2>2 DEF BatchesKnown, FlagsShape, NotBatchSyncing
    <2>3. CASE /\ handler[h].peer \notin batch_syncing /\ new.peer = handler[h].peer
               /\ new.peer \in Peers
               /\ batch_syncing' = batch_syncing \cup {new.peer}
        BY <1>1, <2>3 DEF BatchesKnown, FlagsShape
    <2> QED
        BY <2>1, <2>2, <2>3 DEF BatchesMove
<1> QED
    BY <1>1, <1>3, <1>4, <1>5 DEF FlagsShape

\* What is unchanged keeps its shape.
LEMMA Frames ==
    ASSUME SyncInv
    PROVE  /\ UNCHANGED chain => ChainShape'
           /\ UNCHANGED network => NetworkShape'
           /\ UNCHANGED peaks => PeaksShape'
           /\ UNCHANGED told => told' \in BOOLEAN
<1> USE DEF SyncInv, Shape
<1>1. UNCHANGED chain => ChainShape'
    BY DEF chain, ChainShape
<1>2. UNCHANGED network => NetworkShape'
    BY DEF network, NetworkShape
<1>3. UNCHANGED peaks => PeaksShape'
    BY DEF peaks, PeaksShape
<1> QED
    BY <1>1, <1>2, <1>3

\* A step of a handler that leaves the long syncs alone.
LEMMA MoveKeeps ==
    ASSUME SyncInv, NEW h \in Handlers, NEW new, HandlerOK(new), Handle(h, new),
           LockMoves(h, new), BacktracksMove(h, new), BatchesMove(h, new),
           UNCHANGED <<mode, sync>>,
           ChainShape', NetworkShape', PeaksShape', told' \in BOOLEAN
    PROVE  SyncInv'
<1> USE DEF SyncInv, Shape
<1>1. HandlerShape' /\ LockShape' /\ AddersHold' /\ FlagsShape' /\ BatchesKnown' /\ BacktracksCounted'
    BY HandlersMove
<1>2. ModeShape' /\ SyncShape' /\ OneLongSync'
    BY DEF ModeShape, SyncShape, OneLongSync, Working, Downloading, mode
<1> QED
    BY <1>1, <1>2

\* SyncStore: peer_has_block, peer_disconnected, clear_sync_info.
LEMMA HasBlockShape ==
    ASSUME PeaksShape, NEW b \in Blocks, NEW ps \in SUBSET Peers, PeersHaveBlock(b, ps)
    PROVE  /\ peak_to_peer' \in [Blocks -> (SUBSET Peers) \cup {NONE}]
           /\ peers_changed' \in BOOLEAN
<1>1. HaveBlock(b) \in SUBSET Peers
    BY DEF HaveBlock, PeaksShape
<1> QED
    BY <1>1 DEF PeersHaveBlock, PeaksShape

\* peer_has_block, with the new peak of the peer.
LEMMA HasPeakShape ==
    ASSUME PeaksShape, NEW b \in Blocks, NEW p \in Peers, PeerHasPeak(b, p)
    PROVE  PeaksShape'
<1>1. PeersHaveBlock(b, {p}) /\ peer_to_peak' = [peer_to_peak EXCEPT ![p] = b]
    BY DEF PeerHasPeak
<1>2. peer_to_peak' \in [Peers -> BlockOrNone]
    BY <1>1 DEF PeaksShape, BlockOrNone
<1> QED
    BY <1>1, <1>2, HasBlockShape DEF PeaksShape

\* peer_disconnected.
LEMMA DisconnectedShape ==
    ASSUME PeaksShape, NEW p \in Peers, PeerDisconnected(p)
    PROVE  PeaksShape'
BY DEF PeaksShape, PeerDisconnected, BlockOrNone

\* clear_sync_info.
LEMMA ClearShape ==
    ASSUME PeaksShape, ClearSyncInfo \/ UNCHANGED peak_to_peer,
           UNCHANGED <<peer_to_peak, peers_changed>>
    PROVE  PeaksShape'
BY DEF PeaksShape, ClearSyncInfo

-----------------------------------------------------------------------------
(* new_peak *)

\* A handler takes a message of a peer, or a block that our timelord infused.
LEMMA MessageKeeps ==
    ASSUME SyncInv, NEW h \in Handlers, Message(h)
    PROVE  SyncInv'
<1> USE DEF SyncInv, Shape
<1>0. 0 \in Heights /\ 0 \in 0..(MaxHeight + BATCH_SIZE)
    BY Constants DEF Heights
<1>1. CASE Infuse(h)
    <2>1. PICK b \in Infusable : Handle(h, [Free EXCEPT !.pc = "respond", !.got = {b}])
        BY <1>1 DEF Infuse
    <2>2. handler[h].pc = "free" /\ UNCHANGED <<chain, network, mode, peaks, flags, lock, sync, told>>
        BY <1>1 DEF Infuse
    <2> DEFINE new == [Free EXCEPT !.pc = "respond", !.got = {b}]
    <2>3. b \in Blocks
        BY <2>1, SyncAssumption, Constants
    <2>4. ASSUME NEW e, e = new PROVE HandlerOK(e) /\ e.pc = "respond" /\ e.peer = NONE
        <3>1. e = [pc |-> "respond", peer |-> NONE, open |-> TRUE, block |-> NONE, our |-> 0,
                   curr |-> 0, got |-> {b}]
            BY <2>4, FreeOK
        <3> QED
            BY <1>0, <2>3, <3>1 DEF HandlerOK, HandlerType, BlockOrNone, WithPeer, WithBlock
    <2>5. HandlerOK(new) /\ new.pc = "respond" /\ new.peer = NONE
        BY <2>4
    <2> HIDE DEF new
    <2>6. /\ HandlerShape' /\ handler'[h] = new
          /\ \A g \in Handlers : g # h => handler'[g] = handler[g]
        BY <2>1, <2>5, HandleShape DEF new
    <2>7. LockShape' /\ AddersHold'
        BY <2>2, <2>5, <2>6, AddersKept DEF Adding
    <2>8. BatchesKnown' /\ FlagsShape'
        BY <2>2, <2>5, <2>6 DEF BatchesKnown, FlagsShape, flags, Batching
    <2>9. BacktracksCounted'
        <3>1. ASSUME NEW p \in Peers PROVE BacktrackSyncing(p)' = BacktrackSyncing(p)
            <4>1. p # NONE
                BY Constants
            <4> QED
                BY <2>2, <2>5, <2>6, <4>1 DEF BacktrackSyncing
        <3>2. ASSUME NEW p \in Peers
              PROVE  backtrack_syncing'[p] = Cardinality(BacktrackSyncing(p)')
            BY <2>2, <3>1 DEF BacktracksCounted, flags
        <3> QED
            BY <3>2 DEF BacktracksCounted
    <2>10. ModeShape' /\ SyncShape' /\ OneLongSync'
        BY <2>2 DEF ModeShape, SyncShape, OneLongSync, Working, Downloading, mode
    <2> QED
        BY <2>2, <2>6, <2>7, <2>8, <2>9, <2>10, Frames
<1>2. ASSUME NEW p \in Serves[h] \ {NONE},
             \/ NewPeakIgnored(h, p) \/ NewPeakWhileSyncing(h, p)
             \/ NewPeakNear(h, p) \/ NewPeakFar(h, p)
      PROVE  SyncInv'
    <2>1. p \in Peers
        BY SyncAssumption
    <2>2. tip[p] \in Blocks /\ Height[tip[p]] \in Heights
        BY <2>1, Constants DEF NetworkShape
    <2>3. Height[tip[p]] \in 0..(MaxHeight + BATCH_SIZE) /\ PeakHeight \in Heights
        BY <1>0, <2>2, Constants DEF Heights, PeakHeight, ChainShape, BlockOrNone
    <2>4. /\ handler[h].pc = "free" /\ PeerHasPeak(tip[p], p)
          /\ UNCHANGED <<chain, network, mode, batch_syncing, lock, sync, told>>
        BY <1>2 DEF NewPeakIgnored, NewPeakWhileSyncing, NewPeakNear, NewPeakFar, flags
    <2>5. PeaksShape' /\ ChainShape' /\ NetworkShape' /\ told' \in BOOLEAN
        BY <2>1, <2>2, <2>4, HasPeakShape, Frames
    <2>6. CASE UNCHANGED <<handler, flags>>
        <3>1. LockShape' /\ AddersHold' /\ FlagsShape' /\ HandlerShape' /\ BatchesKnown'
            BY <2>4, <2>6 DEF LockShape, AddersHold, Holds, FlagsShape, flags, HandlerShape,
                              BatchesKnown
        <3>2. BacktracksCounted'
            BY <2>6, CountSame DEF flags
        <3>3. ModeShape' /\ SyncShape' /\ OneLongSync'
            BY <2>4 DEF ModeShape, SyncShape, OneLongSync, Working, Downloading, mode
        <3> QED
            BY <2>5, <3>1, <3>2, <3>3
    <2>7. CASE /\ target # NONE /\ UNCHANGED flags
               /\ Handle(h, [Free EXCEPT !.pc = "ask", !.peer = p, !.block = target])
        <3> DEFINE new == [Free EXCEPT !.pc = "ask", !.peer = p, !.block = target]
        <3>1. target \in Blocks
            BY <2>7 DEF ModeShape, BlockOrNone
        <3>2. ASSUME NEW e, e = new PROVE HandlerOK(e) /\ e.pc = "ask"
            <4>1. e = [pc |-> "ask", peer |-> p, open |-> TRUE, block |-> target, our |-> 0,
                       curr |-> 0, got |-> {}]
                BY <3>2, FreeOK
            <4> QED
                BY <1>0, <2>1, <3>1, <4>1 DEF HandlerOK, HandlerType, BlockOrNone, WithPeer, WithBlock
        <3>3. HandlerOK(new) /\ new.pc = "ask" /\ Handle(h, new)
            BY <2>7, <3>2
        <3> HIDE DEF new
        <3>4. LockMoves(h, new) /\ BacktracksMove(h, new) /\ BatchesMove(h, new)
            BY <2>4, <2>7, <3>3 DEF LockMoves, BacktracksMove, BatchesMove, Adding, Backtracking,
                                    Batching, flags
        <3> QED
            BY <2>4, <2>5, <3>3, <3>4, MoveKeeps
    <2>8. CASE NewPeakNear(h, p)
        <3> DEFINE new == [Free EXCEPT !.pc = "backtrack", !.peer = p, !.block = tip[p],
                                       !.our = PeakHeight, !.curr = Height[tip[p]]]
        <3>1. ASSUME NEW e, e = new PROVE HandlerOK(e) /\ e.pc = "backtrack" /\ e.peer = p
            <4>1. e = [pc |-> "backtrack", peer |-> p, open |-> TRUE, block |-> tip[p],
                       our |-> PeakHeight, curr |-> Height[tip[p]], got |-> {}]
                BY <3>1, FreeOK
            <4> QED
                BY <2>1, <2>2, <2>3, <4>1 DEF HandlerOK, HandlerType, BlockOrNone, WithPeer, WithBlock
        <3>2. /\ HandlerOK(new) /\ new.pc = "backtrack" /\ new.peer = p /\ Handle(h, new)
              /\ backtrack_syncing' = [backtrack_syncing EXCEPT ![p] = @ + 1]
            BY <2>8, <3>1 DEF NewPeakNear
        <3> HIDE DEF new
        <3>3. LockMoves(h, new) /\ BacktracksMove(h, new) /\ BatchesMove(h, new)
            BY <2>1, <2>4, <3>2 DEF LockMoves, BacktracksMove, BatchesMove, Adding, Backtracking,
                                    Batching
        <3> QED
            BY <2>4, <2>5, <3>2, <3>3, MoveKeeps
    <2>9. CASE NewPeakFar(h, p)
        <3> DEFINE new == [Free EXCEPT !.pc = "far", !.peer = p, !.block = tip[p],
                                       !.our = PeakHeight]
        <3>1. ASSUME NEW e, e = new PROVE HandlerOK(e) /\ e.pc = "far"
            <4>1. e = [pc |-> "far", peer |-> p, open |-> TRUE, block |-> tip[p],
                       our |-> PeakHeight, curr |-> 0, got |-> {}]
                BY <3>1, FreeOK
            <4> QED
                BY <1>0, <2>1, <2>2, <2>3, <4>1
                DEF HandlerOK, HandlerType, BlockOrNone, WithPeer, WithBlock
        <3>2. HandlerOK(new) /\ new.pc = "far" /\ Handle(h, new) /\ UNCHANGED flags
            BY <2>9, <3>1 DEF NewPeakFar
        <3> HIDE DEF new
        <3>3. LockMoves(h, new) /\ BacktracksMove(h, new) /\ BatchesMove(h, new)
            BY <2>4, <3>2 DEF LockMoves, BacktracksMove, BatchesMove, Adding, Backtracking,
                              Batching, flags
        <3> QED
            BY <2>4, <2>5, <3>2, <3>3, MoveKeeps
    <2> QED
        BY <1>2, <2>6, <2>7, <2>8, <2>9 DEF NewPeakIgnored, NewPeakWhileSyncing
<1> QED
    BY <1>1, <1>2 DEF Message

-----------------------------------------------------------------------------
(* Connections that end *)

\* What the end of a connection leaves of the handlers: they go on, at most one is done.
HandlersLose ==
    /\ handler' \in [Handlers -> HandlerType]
    /\ \A g \in Handlers :
          /\ HandlerOK(handler'[g])
          /\ \/ handler'[g].pc = handler[g].pc /\ handler'[g].peer = handler[g].peer
             \/ handler[g].pc \in {"raised", "start"} /\ handler'[g].pc = "free"

\* Handlers that lose their peer neither start to add blocks nor to sync.
LEMMA LoseKeeps ==
    ASSUME SyncInv, HandlersLose, UNCHANGED flags
    PROVE  /\ HandlerShape' /\ FlagsShape' /\ BatchesKnown' /\ BacktracksCounted'
           /\ \A g \in Handlers : handler'[g].pc \in Adding => handler[g].pc \in Adding
<1> USE DEF SyncInv, Shape, HandlersLose
<1>1. HandlerShape'
    BY DEF HandlerShape
<1>2. FlagsShape'
    BY DEF FlagsShape, flags
<1>3. BatchesKnown'
    BY DEF BatchesKnown, Batching, flags
<1>4. BacktracksCounted'
    BY CountSame DEF Backtracking, flags
<1> QED
    BY <1>1, <1>2, <1>3, <1>4 DEF Adding

\* The handlers when a peer goes: where they are, they stay.
LEMMA HandlersWithoutOK ==
    ASSUME HandlerShape, NEW p
    PROVE  /\ HandlersWithout(p) \in [Handlers -> HandlerType]
           /\ \A g \in Handlers :
                 /\ HandlerOK(HandlersWithout(p)[g])
                 /\ HandlersWithout(p)[g].pc = handler[g].pc
                 /\ HandlersWithout(p)[g].peer = handler[g].peer
<1>1. ASSUME NEW g \in Handlers
      PROVE  /\ HandlerOK(HandlersWithout(p)[g])
             /\ HandlersWithout(p)[g].pc = handler[g].pc
             /\ HandlersWithout(p)[g].peer = handler[g].peer
    <2>1. handler[g] \in HandlerType /\ HandlerOK(handler[g])
        BY DEF HandlerShape
    <2>2. ASSUME NEW e, e = [handler[g] EXCEPT !.open = FALSE]
          PROVE  HandlerOK(e) /\ e.pc = handler[g].pc /\ e.peer = handler[g].peer
        <3>1. /\ e \in HandlerType /\ e.pc = handler[g].pc /\ e.peer = handler[g].peer
              /\ e.block = handler[g].block /\ e.curr = handler[g].curr /\ e.got = handler[g].got
            BY <2>1, <2>2 DEF HandlerType
        <3> QED
            BY <2>1, <3>1 DEF HandlerOK
    <2> QED
        BY <2>1, <2>2 DEF HandlersWithout
<1>2. \A g \in Handlers : HandlersWithout(p)[g] \in HandlerType
    BY <1>1 DEF HandlerOK
<1>3. HandlersWithout(p) \in [Handlers -> HandlerType]
    BY <1>2 DEF HandlersWithout
<1> QED
    BY <1>1, <1>3

\* The syncs when a peer goes: where they are, they stay.
LEMMA SyncsWithoutOK ==
    ASSUME SyncShape, NEW p
    PROVE  /\ SyncsWithout(p) \in [Syncs -> SyncType]
           /\ \A s \in Syncs : /\ SyncOK(SyncsWithout(p)[s])
                               /\ SyncsWithout(p)[s].pc = sync[s].pc
<1>1. ASSUME NEW s \in Syncs
      PROVE  SyncOK(SyncsWithout(p)[s]) /\ SyncsWithout(p)[s].pc = sync[s].pc
    <2>1. sync[s] \in SyncType /\ SyncOK(sync[s])
        BY DEF SyncShape
    <2> DEFINE e == [sync[s] EXCEPT !.peers = @ \ {p}, !.left = @ \ {p}]
    <2>2. e \in SyncType /\ e.pc = sync[s].pc /\ e.block = sync[s].block
        BY <2>1 DEF SyncType
    <2>3. SyncsWithout(p)[s] = e
        BY DEF SyncsWithout
    <2> HIDE DEF e
    <2> QED
        BY <2>1, <2>2, <2>3 DEF SyncOK
<1>2. \A s \in Syncs : SyncsWithout(p)[s] \in SyncType
    BY <1>1 DEF SyncOK
<1>3. SyncsWithout(p) \in [Syncs -> SyncType]
    BY <1>2 DEF SyncsWithout
<1> QED
    BY <1>1, <1>3

\* The long syncs when none of them goes on.
LEMMA SyncsStay ==
    ASSUME OneLongSync, ModeShape, UNCHANGED mode, \A s \in Syncs : sync'[s].pc = sync[s].pc
    PROVE  OneLongSync' /\ ModeShape'
BY DEF OneLongSync, ModeShape, mode, Working, Downloading

\* Connecting, disconnecting, a new peak of a peer.
LEMMA NetworkKeeps ==
    ASSUME SyncInv, Network
    PROVE  SyncInv'
<1> USE DEF SyncInv, Shape
<1>1. ASSUME NEW p \in Peers, Connect(p) \/ PeerAdvances(p) PROVE SyncInv'
    <2>1. UNCHANGED <<chain, mode, peaks, flags, lock, handler, sync, told>>
        BY <1>1 DEF Connect, PeerAdvances
    <2>2. NetworkShape'
        <3>1. CASE Connect(p)
            BY <3>1 DEF Connect, NetworkShape
        <3>2. CASE PeerAdvances(p)
            <4>1. PICK b \in PeerTips[p] : tip' = [tip EXCEPT ![p] = b]
                BY <3>2 DEF PeerAdvances
            <4>2. b \in Rooted /\ b \in Blocks
                BY <4>1, SyncAssumption, Constants
            <4> QED
                BY <3>2, <4>1, <4>2 DEF NetworkShape, PeerAdvances
        <3> QED
            BY <1>1, <3>1, <3>2
    <2>3. LockShape' /\ AddersHold' /\ FlagsShape' /\ HandlerShape' /\ BatchesKnown' /\ SyncShape'
        BY <2>1 DEF LockShape, AddersHold, Holds, FlagsShape, flags, HandlerShape, BatchesKnown,
                    SyncShape
    <2>4. BacktracksCounted'
        BY <2>1, CountSame DEF flags
    <2>5. OneLongSync' /\ ModeShape'
        BY <2>1, SyncsStay
    <2> QED
        BY <2>1, <2>2, <2>3, <2>4, <2>5, Frames
<1>2. ASSUME NEW p \in Peers, Disconnect(p) PROVE SyncInv'
    <2>1. /\ connected' = connected \ {p} /\ PeerDisconnected(p)
          /\ handler' = HandlersWithout(p) /\ sync' = SyncsWithout(p)
          /\ UNCHANGED <<chain, tip, mode, flags, lock, told>>
        BY <1>2 DEF Disconnect
    <2>2. NetworkShape' /\ PeaksShape'
        BY <2>1, DisconnectedShape DEF NetworkShape
    <2>3. HandlersLose
        BY <2>1, HandlersWithoutOK DEF HandlersLose
    <2>4. SyncShape' /\ \A s \in Syncs : sync'[s].pc = sync[s].pc
        BY <2>1, SyncsWithoutOK DEF SyncShape
    <2>5. HandlerShape' /\ FlagsShape' /\ BatchesKnown' /\ BacktracksCounted'
        BY <2>1, <2>3, LoseKeeps
    <2>6. LockShape' /\ AddersHold'
        BY <2>1, <2>3, <2>4, LoseKeeps DEF LockShape, AddersHold, Holds, Adding
    <2>7. OneLongSync' /\ ModeShape'
        BY <2>1, <2>4, SyncsStay
    <2> QED
        BY <2>1, <2>2, <2>4, <2>5, <2>6, <2>7, Frames
<1> QED
    BY <1>1, <1>2 DEF Network

\* A handler that has raised closes its connection.
LEMMA RaisedKeeps ==
    ASSUME SyncInv, NEW h \in Handlers, Raised(h)
    PROVE  SyncInv'
<1> USE DEF SyncInv, Shape
<1>1. handler[h].pc = "raised" /\ UNCHANGED <<chain, tip, mode, flags, lock, told>>
    BY DEF Raised
<1>2. PICK p \in Peers : p = handler[h].peer
    BY <1>1 DEF HandlerShape, HandlerOK, WithPeer
<1>3. CASE handler[h].open
    <2>1. /\ connected' = connected \ {p} /\ PeerDisconnected(p)
          /\ handler' = [HandlersWithout(p) EXCEPT ![h] = Free] /\ sync' = SyncsWithout(p)
        BY <1>2, <1>3 DEF Raised
    <2>2. NetworkShape' /\ PeaksShape'
        BY <1>1, <2>1, DisconnectedShape DEF NetworkShape
    <2>3. HandlersLose
        <3>1. Free \in HandlerType /\ HandlerOK(Free) /\ Free.pc = "free"
            BY FreeOK DEF HandlerOK
        <3>2. handler' \in [Handlers -> HandlerType]
            BY <2>1, <3>1, HandlersWithoutOK
        <3>3. ASSUME NEW g \in Handlers
              PROVE  /\ HandlerOK(handler'[g])
                     /\ \/ handler'[g].pc = handler[g].pc /\ handler'[g].peer = handler[g].peer
                        \/ handler[g].pc \in {"raised", "start"} /\ handler'[g].pc = "free"
            <4>1. handler'[g] = IF g = h THEN Free ELSE HandlersWithout(p)[g]
                BY <2>1, HandlersWithoutOK
            <4> QED
                BY <1>1, <3>1, <4>1, HandlersWithoutOK
        <3> QED
            BY <3>2, <3>3 DEF HandlersLose
    <2>4. SyncShape' /\ \A s \in Syncs : sync'[s].pc = sync[s].pc
        BY <2>1, SyncsWithoutOK DEF SyncShape
    <2>5. HandlerShape' /\ FlagsShape' /\ BatchesKnown' /\ BacktracksCounted'
        BY <1>1, <2>3, LoseKeeps
    <2>6. LockShape' /\ AddersHold'
        BY <1>1, <2>3, <2>4, LoseKeeps DEF LockShape, AddersHold, Holds, Adding
    <2>7. OneLongSync' /\ ModeShape'
        BY <1>1, <2>4, SyncsStay
    <2> QED
        BY <1>1, <2>2, <2>4, <2>5, <2>6, <2>7, Frames
<1>4. CASE ~handler[h].open
    <2>1. Handle(h, Free) /\ UNCHANGED <<connected, peaks, sync>>
        BY <1>4 DEF Raised
    <2>2. HandlerOK(Free) /\ Free.pc = "free" /\ UNCHANGED network
        BY <1>1, <2>1, FreeOK DEF network
    <2>3. LockMoves(h, Free) /\ BacktracksMove(h, Free) /\ BatchesMove(h, Free)
        BY <1>1, <2>2 DEF LockMoves, BacktracksMove, BatchesMove, Adding, Backtracking, Batching, flags
    <2> QED
        BY <1>1, <2>1, <2>2, <2>3, MoveKeeps, Frames
<1> QED
    BY <1>3, <1>4

\* The answer to a request for the block we are syncing to.
LEMMA AskedKeeps ==
    ASSUME SyncInv, NEW h \in Handlers, Asked(h)
    PROVE  SyncInv'
<1> USE DEF SyncInv, Shape
<1>1. /\ handler[h].pc = "ask"
      /\ UNCHANGED <<chain, network, mode, peer_to_peak, flags, lock, sync, told>>
    BY DEF Asked
<1>2. handler[h].peer \in Peers /\ handler[h].block \in Blocks
    BY <1>1 DEF HandlerShape, HandlerOK, WithPeer, WithBlock
<1>3. ASSUME NEW new, new \in {Free, Raising(h)} PROVE
         /\ HandlerOK(new) /\ new.pc \in {"free", "raised"}
         /\ LockMoves(h, new) /\ BacktracksMove(h, new) /\ BatchesMove(h, new)
    <2>1. HandlerOK(new) /\ new.pc \in {"free", "raised"}
        <3>1. HandlerOK(Free) /\ Free.pc = "free"
            BY FreeOK
        <3>2. HandlerOK(Raising(h)) /\ Raising(h).pc \in {"free", "raised"}
            BY RaisingOK
        <3> QED
            BY <1>3, <3>1, <3>2
    <2> QED
        BY <1>1, <2>1 DEF LockMoves, BacktracksMove, BatchesMove, Adding, Backtracking, Batching, flags
<1>4. CASE /\ \E a \in AnswersTo(h, Height[handler[h].block]) :
                PeersHaveBlock(handler[h].block, IF a = NONE THEN {} ELSE {handler[h].peer})
           /\ Handle(h, Free)
    <2>1. PICK ps \in SUBSET Peers : PeersHaveBlock(handler[h].block, ps)
        BY <1>2, <1>4
    <2>2. PeaksShape'
        BY <1>1, <1>2, <2>1, HasBlockShape DEF PeaksShape
    <2> QED
        BY <1>1, <1>3, <1>4, <2>2, MoveKeeps, Frames
<1>5. CASE Handle(h, Raising(h)) /\ UNCHANGED <<peak_to_peer, peers_changed>>
    <2>1. PeaksShape'
        BY <1>1, <1>5 DEF PeaksShape
    <2> QED
        BY <1>1, <1>3, <1>5, <2>1, MoveKeeps, Frames
<1> QED
    BY <1>4, <1>5 DEF Asked

-----------------------------------------------------------------------------
(* short_sync_backtrack and respond_block *)

\* What is known of the record of a handler.
LEMMA HandlerFacts ==
    ASSUME HandlerShape, NEW h \in Handlers
    PROVE  HandlerOK(handler[h]) /\ handler[h] \in HandlerType
BY DEF HandlerShape

\* A handler that is done, or raises, ends its backtrack sync and its batch sync.
LEMMA DoneKeeps ==
    ASSUME SyncInv, NEW h \in Handlers, NEW new, new \in {Free, Raising(h)}, Handle(h, new),
           lock' = lock \/ Acquire(h) \/ (Release /\ Holds(h)),
           \/ ~Backtracking(handler[h]) /\ UNCHANGED backtrack_syncing
           \/ Backtracking(handler[h]) /\ (CountedDown(h, TRUE) \/ CountedDown(h, FALSE)),
           \/ UNCHANGED batch_syncing
           \/ Batching(handler[h]) /\ NotBatchSyncing(h),
           UNCHANGED <<mode, sync>>,
           ChainShape', NetworkShape', PeaksShape', told' \in BOOLEAN
    PROVE  SyncInv'
<1>1. HandlerShape
    BY DEF SyncInv, Shape
<1>2. HandlerOK(new) /\ new.pc \in {"free", "raised"}
    <2>1. HandlerOK(Free) /\ Free.pc = "free"
        BY FreeOK
    <2>2. HandlerOK(Raising(h)) /\ Raising(h).pc \in {"free", "raised"}
        BY <1>1, RaisingOK
    <2> QED
        BY <2>1, <2>2
<1>3. LockMoves(h, new)
    BY <1>2 DEF LockMoves, Adding
<1>4. BacktracksMove(h, new)
    BY <1>2 DEF BacktracksMove, Backtracking
<1>5. BatchesMove(h, new)
    BY <1>2 DEF BatchesMove, Batching
<1> QED
    BY <1>2, <1>3, <1>4, <1>5, MoveKeeps

\* A handler that goes on with the same peer is neither a new short sync nor a lost one.
LEMMA GoesOnKeeps ==
    ASSUME SyncInv, NEW h \in Handlers, NEW new, HandlerOK(new), Handle(h, new),
           LockMoves(h, new),
           new.peer = handler[h].peer,
           Backtracking(new) <=> Backtracking(handler[h]),
           Batching(new) <=> Batching(handler[h]),
           UNCHANGED <<flags, mode, sync>>,
           ChainShape', NetworkShape', PeaksShape', told' \in BOOLEAN
    PROVE  SyncInv'
<1>1. BacktracksMove(h, new) /\ BatchesMove(h, new)
    BY DEF BacktracksMove, BatchesMove, flags
<1> QED
    BY <1>1, MoveKeeps

\* The requests of a backtrack sync.
LEMMA BacktrackKeeps ==
    ASSUME SyncInv, NEW h \in Handlers,
           BacktrackFails(h) \/ BacktrackConnects(h) \/ BacktrackGoesOn(h) \/ BacktrackTooDeep(h)
    PROVE  SyncInv'
<1> USE DEF SyncInv, Shape
<1>1. handler[h].pc = "backtrack"
    BY DEF BacktrackFails, BacktrackConnects, BacktrackGoesOn, BacktrackTooDeep, Backtracks
<1>2. UNCHANGED <<chain, network, mode, peaks, batch_syncing, lock, sync, told>>
    BY DEF BacktrackFails, BacktrackConnects, BacktrackGoesOn, BacktrackTooDeep, flags
<1>3. HandlerOK(handler[h]) /\ handler[h] \in HandlerType
    BY HandlerFacts
<1>4. PICK p \in Peers : p = handler[h].peer
    BY <1>1, <1>3 DEF HandlerOK, WithPeer
<1>5. /\ handler[h].block \in Blocks /\ handler[h].curr \in 0..(MaxHeight + BATCH_SIZE)
      /\ handler[h].our \in Heights /\ handler[h].got \in SUBSET Blocks
      /\ handler[h].open \in BOOLEAN
    BY <1>1, <1>3 DEF HandlerOK, WithBlock, HandlerType
<1>6. ASSUME NEW a \in AnswersTo(h, handler[h].curr) \ {NONE} PROVE a \in Blocks
    <2>1. a \in Answers(p, handler[h].curr)
        BY <1>4 DEF AnswersTo
    <2> QED
        BY <2>1, AnswerTypes
<1>7. ChainShape' /\ NetworkShape' /\ PeaksShape' /\ told' \in BOOLEAN
    BY <1>2, Frames
<1>8. 0 \in Heights /\ 0 \in 0..(MaxHeight + BATCH_SIZE)
    BY Constants DEF Heights
<1>9. CASE BacktrackFails(h)
    <2>1. CountedDown(h, TRUE) /\ Handle(h, Raising(h))
        BY <1>9 DEF BacktrackFails
    <2> QED
        BY <1>1, <1>2, <1>7, <2>1, DoneKeeps DEF Backtracking
<1>10. CASE BacktrackConnects(h)
    <2>1. PICK a \in AnswersTo(h, handler[h].curr) \ {NONE} :
             Handle(h, [Serving(h) EXCEPT !.pc = "respond", !.got = handler[h].got \cup {a}])
        BY <1>10 DEF BacktrackConnects
    <2> DEFINE new == [Serving(h) EXCEPT !.pc = "respond", !.got = handler[h].got \cup {a}]
    <2>2. ASSUME NEW e, e = new PROVE HandlerOK(e) /\ e.pc = "respond" /\ e.peer = handler[h].peer
        <3>1. e = [pc |-> "respond", peer |-> handler[h].peer, open |-> handler[h].open,
                   block |-> NONE, our |-> 0, curr |-> 0, got |-> handler[h].got \cup {a}]
            BY <2>2, FreeOK DEF Serving
        <3> QED
            BY <1>4, <1>5, <1>6, <1>8, <3>1
            DEF HandlerOK, HandlerType, BlockOrNone, WithPeer, WithBlock
    <2>3. HandlerOK(new) /\ new.pc = "respond" /\ new.peer = handler[h].peer /\ Handle(h, new)
        BY <2>1, <2>2
    <2> HIDE DEF new
    <2>4. UNCHANGED flags
        BY <1>10 DEF BacktrackConnects
    <2>5. LockMoves(h, new)
        BY <1>2, <2>3 DEF LockMoves, Adding
    <2>6. (Backtracking(new) <=> Backtracking(handler[h])) /\ (Batching(new) <=> Batching(handler[h]))
        BY <1>1, <2>3 DEF Backtracking, Batching
    <2> QED
        BY <1>2, <1>7, <2>3, <2>4, <2>5, <2>6, GoesOnKeeps
<1>11. CASE BacktrackGoesOn(h)
    <2>1. PICK a \in AnswersTo(h, handler[h].curr) \ {NONE} :
             /\ handler[h].curr > 0
             /\ Handle(h, [handler[h] EXCEPT !.curr = @ - 1, !.got = @ \cup {a}])
        BY <1>11 DEF BacktrackGoesOn
    <2> DEFINE new == [handler[h] EXCEPT !.curr = @ - 1, !.got = @ \cup {a}]
    <2>2. new \in HandlerType
        <3>1. handler[h].curr - 1 \in 0..(MaxHeight + BATCH_SIZE)
            BY <1>5, <2>1, Constants
        <3>2. handler[h].got \cup {a} \in SUBSET Blocks
            BY <1>5, <1>6
        <3> QED
            BY <1>3, <3>1, <3>2 DEF HandlerType
    <2>3. new.pc = "backtrack" /\ new.peer = handler[h].peer /\ new.block = handler[h].block
        BY <1>1, <1>3 DEF HandlerType
    <2>4. Handle(h, new)
        BY <2>1
    <2> HIDE DEF new
    <2>5. HandlerOK(new)
        BY <1>4, <1>5, <2>2, <2>3 DEF HandlerOK
    <2>6. UNCHANGED flags
        BY <1>11 DEF BacktrackGoesOn
    <2>7. LockMoves(h, new)
        BY <1>2, <2>3 DEF LockMoves, Adding
    <2>8. (Backtracking(new) <=> Backtracking(handler[h])) /\ (Batching(new) <=> Batching(handler[h]))
        BY <1>1, <2>3 DEF Backtracking, Batching
    <2> QED
        BY <1>2, <1>7, <2>3, <2>4, <2>5, <2>6, <2>7, <2>8, GoesOnKeeps
<1>12. CASE BacktrackTooDeep(h)
    <2> DEFINE new == [handler[h] EXCEPT !.pc = "far", !.curr = 0, !.got = {}]
    <2>1. CountedDown(h, FALSE) /\ Handle(h, new)
        BY <1>12 DEF BacktrackTooDeep
    <2>2. new \in HandlerType
        BY <1>3, <1>8 DEF HandlerType
    <2>3. new.pc = "far" /\ new.peer = handler[h].peer /\ new.block = handler[h].block
        BY <1>3 DEF HandlerType
    <2> HIDE DEF new
    <2>4. HandlerOK(new)
        BY <1>4, <1>5, <2>2, <2>3 DEF HandlerOK
    <2>5. LockMoves(h, new) /\ BacktracksMove(h, new) /\ BatchesMove(h, new)
        BY <1>1, <1>2, <2>1, <2>3 DEF LockMoves, BacktracksMove, BatchesMove, Adding, Backtracking,
                                      Batching
    <2> QED
        BY <1>2, <1>7, <2>1, <2>4, <2>5, MoveKeeps
<1> QED
    BY <1>9, <1>10, <1>11, <1>12

\* The record of a handler that goes on to its next block.
LEMMA NextResponseOK ==
    ASSUME HandlerShape, NEW h \in Handlers
    PROVE  /\ HandlerOK(NextResponse(h)) /\ NextResponse(h).pc = "respond"
           /\ NextResponse(h).peer = handler[h].peer
<1> DEFINE new == NextResponse(h)
<1>1. handler[h] \in HandlerType
    BY HandlerFacts
<1>2. handler[h].got \ {Responding(h)} \in SUBSET Blocks
    BY <1>1 DEF HandlerType
<1>3. new \in HandlerType /\ new.pc = "respond" /\ new.peer = handler[h].peer
    BY <1>1, <1>2 DEF NextResponse, HandlerType
<1> HIDE DEF new
<1>4. HandlerOK(new)
    BY <1>3 DEF HandlerOK, WithPeer, WithBlock
<1> QED
    BY <1>3, <1>4 DEF new

\* The record of a handler that waits for the lock, or that has added its block.
LEMMA AddingOK ==
    ASSUME HandlerShape, NEW h \in Handlers, handler[h].got # {}, NEW pc \in {"add", "post"}
    PROVE  LET new == [handler[h] EXCEPT !.pc = pc]
           IN  HandlerOK(new) /\ new.pc = pc /\ new.peer = handler[h].peer
<1> DEFINE new == [handler[h] EXCEPT !.pc = pc]
<1>1. handler[h] \in HandlerType
    BY HandlerFacts
<1>2. new \in HandlerType /\ new.pc = pc /\ new.peer = handler[h].peer /\ new.got # {}
    BY <1>1 DEF HandlerType
<1> HIDE DEF new
<1>3. HandlerOK(new)
    BY <1>2 DEF HandlerOK, WithPeer, WithBlock
<1> QED
    BY <1>2, <1>3 DEF new

\* respond_block, from its checks to the announcement of a new peak.
LEMMA RespondKeeps ==
    ASSUME SyncInv, NEW h \in Handlers,
           \/ RespondSkips(h) \/ RespondWaits(h) \/ RespondReturns(h) \/ RespondRaises(h)
           \/ RespondOrphan(h) \/ RespondNewPeak(h) \/ RespondAnnounces(h) \/ RespondEnds(h)
    PROVE  SyncInv'
<1> USE DEF SyncInv, Shape
<1>1. HandlerOK(handler[h]) /\ handler[h] \in HandlerType
    BY HandlerFacts
<1>2. /\ handler[h].pc \in {"respond", "add", "post"}
      /\ UNCHANGED <<network, mode, batch_syncing, sync>>
    BY DEF RespondSkips, RespondWaits, RespondReturns, RespondRaises, RespondOrphan,
           RespondNewPeak, RespondAnnounces, RespondEnds, flags
<1>3. Backtracking(handler[h]) /\ ~Batching(handler[h]) /\ NetworkShape'
    BY <1>2, Frames DEF Backtracking, Batching
<1>4. handler[h].pc = "post" => Holds(h)
    BY DEF AddersHold
<1>5. handler[h].pc \in {"add", "post"} => Responding(h) \in Blocks
    BY <1>1, RespondingTypes DEF HandlerOK
<1> DEFINE next == NextResponse(h)
<1>6. /\ HandlerOK(next) /\ next.pc = "respond" /\ next.peer = handler[h].peer
      /\ Backtracking(next) /\ ~Batching(next)
    BY NextResponseOK DEF Backtracking, Batching
<1> HIDE DEF next
<1>7. ASSUME lock' = lock \/ (Release /\ Holds(h)) PROVE LockMoves(h, next)
    BY <1>6, <1>7 DEF LockMoves, Adding
<1>8. ASSUME Handle(h, next), lock' = lock \/ (Release /\ Holds(h)), UNCHANGED flags,
             ChainShape', PeaksShape', told' \in BOOLEAN
      PROVE  SyncInv'
    BY <1>2, <1>3, <1>6, <1>7, <1>8, GoesOnKeeps
<1>9. CASE RespondSkips(h) \/ RespondReturns(h)
    <2>1. /\ Handle(h, next) /\ UNCHANGED flags
          /\ lock' = lock \/ (Release /\ Holds(h))
          /\ UNCHANGED <<chain, peaks, told>>
        BY <1>9 DEF RespondSkips, RespondReturns, next
    <2>2. ChainShape' /\ PeaksShape' /\ told' \in BOOLEAN
        BY <2>1, Frames
    <2> QED
        BY <1>8, <2>1, <2>2
<1>10. CASE RespondRaises(h) \/ RespondEnds(h)
    <2>1. /\ Handle(h, Raising(h)) \/ Handle(h, Free)
          /\ lock' = lock \/ (Release /\ Holds(h))
          /\ CountedDown(h, TRUE) \/ CountedDown(h, FALSE)
          /\ UNCHANGED <<chain, peaks, told>>
        BY <1>10 DEF RespondRaises, RespondEnds
    <2>2. ChainShape' /\ PeaksShape' /\ told' \in BOOLEAN
        BY <2>1, Frames
    <2>3. PICK new \in {Free, Raising(h)} : Handle(h, new)
        BY <2>1
    <2> QED
        BY <1>2, <1>3, <2>1, <2>2, <2>3, DoneKeeps
<1>11. CASE RespondWaits(h) \/ RespondNewPeak(h)
    <2>1. PICK pc \in {"add", "post"} :
             /\ Handle(h, [handler[h] EXCEPT !.pc = pc])
             /\ pc = "add" => Acquire(h)
             /\ pc = "post" => UNCHANGED lock /\ Holds(h)
             /\ UNCHANGED <<peaks, flags, told>>
        BY <1>11 DEF RespondWaits, RespondNewPeak
    <2>2. handler[h].got # {}
        BY <1>1, <1>11 DEF RespondWaits, RespondNewPeak, HandlerOK
    <2> DEFINE new == [handler[h] EXCEPT !.pc = pc]
    <2>3. HandlerOK(new) /\ new.pc = pc /\ new.peer = handler[h].peer
        BY <2>2, AddingOK
    <2>4. Handle(h, new)
        BY <2>1
    <2> HIDE DEF new
    <2>5. ChainShape'
        <3>1. CASE RespondWaits(h)
            BY <3>1, Frames DEF RespondWaits
        <3>2. CASE RespondNewPeak(h)
            BY <1>5, <3>2 DEF RespondNewPeak, ChainShape, BlockOrNone
        <3> QED
            BY <1>11, <3>1, <3>2
    <2>6. PeaksShape' /\ told' \in BOOLEAN
        BY <2>1, Frames
    <2>7. LockMoves(h, new)
        BY <2>1, <2>3 DEF LockMoves, Adding
    <2>8. (Backtracking(new) <=> Backtracking(handler[h])) /\ (Batching(new) <=> Batching(handler[h]))
        BY <1>3, <2>3 DEF Backtracking, Batching
    <2> QED
        BY <1>2, <1>3, <2>1, <2>3, <2>4, <2>5, <2>6, <2>7, <2>8, GoesOnKeeps
<1>12. CASE RespondOrphan(h) \/ RespondAnnounces(h)
    <2>1. /\ Handle(h, next) /\ Release /\ Holds(h) /\ UNCHANGED flags
          /\ AfterAdding(peak) /\ UNCHANGED <<peer_to_peak, peers_changed>>
        BY <1>4, <1>12 DEF RespondOrphan, RespondAnnounces, next
    <2>2. PeaksShape'
        BY <2>1, ClearShape DEF AfterAdding
    <2>3. ChainShape' /\ told' \in BOOLEAN
        <3>1. CASE RespondOrphan(h)
            BY <1>5, <3>1 DEF RespondOrphan, ChainShape
        <3>2. CASE RespondAnnounces(h)
            BY <3>2, Frames DEF RespondAnnounces
        <3> QED
            BY <1>12, <3>1, <3>2
    <2> QED
        BY <1>8, <2>1, <2>2, <2>3
<1> QED
    BY <1>9, <1>10, <1>11, <1>12

-----------------------------------------------------------------------------
(* short_sync_batch and the early returns of _sync *)

\* A handler that will start a long sync.
LEMMA StartOK ==
    /\ HandlerOK([Free EXCEPT !.pc = "start"])
    /\ [Free EXCEPT !.pc = "start"].pc = "start"
<1>1. ASSUME NEW e, e = [Free EXCEPT !.pc = "start"]
      PROVE  HandlerOK(e) /\ e.pc = "start"
    <2>1. e = [pc |-> "start", peer |-> NONE, open |-> TRUE, block |-> NONE, our |-> 0,
               curr |-> 0, got |-> {}]
        BY <1>1, FreeOK
    <2>2. 0 \in Heights /\ 0 \in 0..(MaxHeight + BATCH_SIZE)
        BY Constants DEF Heights
    <2> QED
        BY <2>1, <2>2 DEF HandlerOK, HandlerType, BlockOrNone, WithPeer, WithBlock
<1> QED
    BY <1>1

\* The record of a batch sync that goes on to its next batch.
LEMMA NextBatchOK ==
    ASSUME HandlerShape, NEW h \in Handlers, handler[h].pc \in {"batch", "batchpost"}
    PROVE  /\ HandlerOK(NextBatch(h)) /\ NextBatch(h).pc = "fetch"
           /\ NextBatch(h).peer = handler[h].peer
<1> DEFINE new == NextBatch(h)
<1>1. HandlerOK(handler[h]) /\ handler[h] \in HandlerType
    BY HandlerFacts
<1>2. handler[h].curr + BATCH_SIZE \in 0..(MaxHeight + BATCH_SIZE)
    BY <1>1, Constants DEF HandlerOK, Heights
<1>3. /\ new \in HandlerType /\ new.pc = "fetch" /\ new.peer = handler[h].peer
      /\ new.block = handler[h].block
    BY <1>1, <1>2 DEF NextBatch, HandlerType
<1> HIDE DEF new
<1>4. HandlerOK(new)
    BY <1>1, <1>3 DEF HandlerOK, WithPeer, WithBlock
<1> QED
    BY <1>3, <1>4 DEF new

\* From the end of a backtrack sync that does not reach our chain to a batch sync, to the
\* wish for a long one, or to nothing.
LEMMA FarKeeps ==
    ASSUME SyncInv, NEW h \in Handlers,
           NeedsLongSync(h) \/ BatchRefused(h) \/ BatchBegins(h) \/ SyncRefused(h)
    PROVE  SyncInv'
<1> USE DEF SyncInv, Shape
<1>1. HandlerOK(handler[h]) /\ handler[h] \in HandlerType
    BY HandlerFacts
<1>2. /\ handler[h].pc \in {"far", "start"}
      /\ UNCHANGED <<chain, network, mode, peaks, backtrack_syncing, lock, sync, told>>
    BY DEF NeedsLongSync, BatchRefused, BatchBegins, SyncRefused, flags
<1>3. ~Backtracking(handler[h]) /\ ~Batching(handler[h])
    BY <1>2 DEF Backtracking, Batching
<1>4. ChainShape' /\ NetworkShape' /\ PeaksShape' /\ told' \in BOOLEAN
    BY <1>2, Frames
<1>5. CASE NeedsLongSync(h)
    <2> DEFINE new == [Free EXCEPT !.pc = "start"]
    <2>1. HandlerOK(new) /\ new.pc = "start"
        BY StartOK
    <2>2. Handle(h, new) /\ UNCHANGED flags
        BY <1>5 DEF NeedsLongSync
    <2> HIDE DEF new
    <2>3. LockMoves(h, new) /\ BacktracksMove(h, new) /\ BatchesMove(h, new)
        BY <1>2, <1>3, <2>1, <2>2 DEF LockMoves, BacktracksMove, BatchesMove, Adding,
                                      Backtracking, Batching, flags
    <2> QED
        BY <1>2, <1>4, <2>1, <2>2, <2>3, MoveKeeps
<1>6. CASE BatchRefused(h) \/ SyncRefused(h)
    <2>1. Handle(h, Free) /\ UNCHANGED batch_syncing
        BY <1>6 DEF BatchRefused, SyncRefused, flags
    <2> QED
        BY <1>2, <1>3, <1>4, <2>1, DoneKeeps
<1>7. CASE BatchBegins(h)
    <2>0. handler[h].pc = "far"
        BY <1>7 DEF BatchBegins
    <2>1. PICK pc \in {"first", "fetch"} :
             Handle(h, [handler[h] EXCEPT !.pc = pc, !.our = 0, !.curr = BatchStart(h)])
        BY <1>7 DEF BatchBegins
    <2> DEFINE new == [handler[h] EXCEPT !.pc = pc, !.our = 0, !.curr = BatchStart(h)]
    <2>2. BatchStart(h) \in 0..(MaxHeight + BATCH_SIZE) /\ 0 \in Heights
        <3>1. handler[h].our \in Heights
            BY <1>1 DEF HandlerType
        <3> QED
            BY <3>1, Constants DEF BatchStart, Heights
    <2>3. /\ new \in HandlerType /\ new.pc = pc /\ new.peer = handler[h].peer
          /\ new.block = handler[h].block
        BY <1>1, <2>1, <2>2 DEF HandlerType
    <2>4. Handle(h, new)
        BY <2>1
    <2> HIDE DEF new
    <2>5. HandlerOK(new) /\ new.peer \in Peers
        BY <1>1, <2>0, <2>3 DEF HandlerOK, WithPeer, WithBlock
    <2>6. LockMoves(h, new) /\ BacktracksMove(h, new)
        BY <1>2, <1>3, <2>3 DEF LockMoves, BacktracksMove, Adding, Backtracking
    <2>7. BatchesMove(h, new)
        BY <1>7, <2>3, <2>5 DEF BatchesMove, BatchBegins
    <2> QED
        BY <1>2, <1>4, <2>4, <2>5, <2>6, <2>7, MoveKeeps
<1> QED
    BY <1>5, <1>6, <1>7

\* The first block of a batch sync.
LEMMA BatchFirstKeeps ==
    ASSUME SyncInv, NEW h \in Handlers, BatchFirst(h)
    PROVE  SyncInv'
<1> USE DEF SyncInv, Shape
<1>1. HandlerOK(handler[h]) /\ handler[h] \in HandlerType
    BY HandlerFacts
<1>2. /\ handler[h].pc = "first"
      /\ UNCHANGED <<chain, network, mode, peaks, backtrack_syncing, lock, sync, told>>
    BY DEF BatchFirst
<1>3. ~Backtracking(handler[h]) /\ Batching(handler[h])
    BY <1>2 DEF Backtracking, Batching
<1>4. ChainShape' /\ NetworkShape' /\ PeaksShape' /\ told' \in BOOLEAN
    BY <1>2, Frames
<1>5. CASE Handle(h, Raising(h)) /\ (NotBatchSyncing(h) \/ UNCHANGED batch_syncing)
    BY <1>2, <1>3, <1>4, <1>5, DoneKeeps
<1>6. CASE Handle(h, [Free EXCEPT !.pc = "start"]) /\ NotBatchSyncing(h)
    <2> DEFINE new == [Free EXCEPT !.pc = "start"]
    <2>1. HandlerOK(new) /\ new.pc = "start" /\ Handle(h, new)
        BY <1>6, StartOK
    <2> HIDE DEF new
    <2>2. LockMoves(h, new) /\ BacktracksMove(h, new) /\ BatchesMove(h, new)
        BY <1>2, <1>3, <1>6, <2>1 DEF LockMoves, BacktracksMove, BatchesMove, Adding,
                                      Backtracking, Batching
    <2> QED
        BY <1>2, <1>4, <2>1, <2>2, MoveKeeps
<1>7. CASE Handle(h, [handler[h] EXCEPT !.pc = "fetch"]) /\ UNCHANGED batch_syncing
    <2> DEFINE new == [handler[h] EXCEPT !.pc = "fetch"]
    <2>1. /\ new \in HandlerType /\ new.pc = "fetch" /\ new.peer = handler[h].peer
          /\ new.block = handler[h].block /\ Handle(h, new)
        BY <1>1, <1>7 DEF HandlerType
    <2> HIDE DEF new
    <2>2. HandlerOK(new)
        BY <1>1, <1>2, <2>1 DEF HandlerOK, WithPeer, WithBlock
    <2>3. LockMoves(h, new) /\ BacktracksMove(h, new) /\ BatchesMove(h, new)
        BY <1>2, <1>3, <1>7, <2>1 DEF LockMoves, BacktracksMove, BatchesMove, Adding,
                                      Backtracking, Batching
    <2> QED
        BY <1>2, <1>4, <2>1, <2>2, <2>3, MoveKeeps
<1> QED
    BY <1>5, <1>6, <1>7 DEF BatchFirst

\* The other batches: requested, received under the lock, announced; and the end.
LEMMA BatchKeeps ==
    ASSUME SyncInv, NEW h \in Handlers,
           BatchFetch(h) \/ BatchReceived(h) \/ BatchAnnounces(h) \/ BatchEnds(h)
    PROVE  SyncInv'
<1> USE DEF SyncInv, Shape
<1>1. HandlerOK(handler[h]) /\ handler[h] \in HandlerType
    BY HandlerFacts
<1>2. /\ handler[h].pc \in {"fetch", "batch", "batchpost"}
      /\ UNCHANGED <<network, mode, peaks, backtrack_syncing, sync>>
    BY DEF BatchFetch, BatchReceived, BatchAnnounces, BatchEnds, flags
<1>3. ~Backtracking(handler[h]) /\ Batching(handler[h])
    BY <1>2 DEF Backtracking, Batching
<1>4. handler[h].peer \in Peers /\ handler[h].block \in Blocks
    BY <1>1, <1>2 DEF HandlerOK, WithPeer, WithBlock
<1>5. NetworkShape' /\ PeaksShape'
    BY <1>2, Frames
<1>6. ChainShape' /\ told' \in BOOLEAN
    <2>1. CASE UNCHANGED chain
        BY <2>1, Frames DEF BatchFetch, BatchReceived, BatchAnnounces, BatchEnds
    <2>2. CASE BatchReceived(h)
        <3>1. IsPath(handler[h].got)
            BY <1>1, <2>2 DEF BatchReceived, HandlerOK
        <3>2. /\ stored \cup Added(handler[h].got) \subseteq Blocks
              /\ PeakAfter(handler[h].got) \in BlockOrNone
            BY <3>1, BatchShape
        <3> QED
            BY <2>2, <3>2 DEF BatchReceived, ReceiveBlockBatch, ChainShape
    <2> QED
        BY <2>1, <2>2 DEF BatchFetch, BatchAnnounces, BatchEnds
\* The three ways on: done, with the next batch, with this one.
<1>7. ASSUME NEW new \in {Free, Raising(h)}, Handle(h, new), NotBatchSyncing(h),
             lock' = lock \/ (Release /\ Holds(h))
      PROVE  SyncInv'
    BY <1>2, <1>3, <1>5, <1>6, <1>7, DoneKeeps
<1>8. ASSUME handler[h].pc \in {"batch", "batchpost"}, Handle(h, NextBatch(h)),
             Release, Holds(h), UNCHANGED batch_syncing
      PROVE  SyncInv'
    <2> DEFINE new == NextBatch(h)
    <2>1. HandlerOK(new) /\ new.pc = "fetch" /\ new.peer = handler[h].peer /\ Handle(h, new)
        BY <1>8, NextBatchOK
    <2> HIDE DEF new
    <2>2. LockMoves(h, new) /\ BacktracksMove(h, new) /\ BatchesMove(h, new)
        BY <1>2, <1>3, <1>8, <2>1 DEF LockMoves, BacktracksMove, BatchesMove, Adding,
                                      Backtracking, Batching
    <2> QED
        BY <1>2, <1>5, <1>6, <2>1, <2>2, MoveKeeps
<1>9. CASE BatchFetch(h)
    <2>1. handler[h].pc = "fetch" /\ handler[h].curr < Height[handler[h].block]
        BY <1>9 DEF BatchFetch
    <2>2. PICK got \in BatchAnswers(handler[h].peer, handler[h].curr,
                                    BatchEnd(handler[h].curr, Height[handler[h].block])) :
             IF got = {}
             THEN /\ NotBatchSyncing(h)
                  /\ Handle(h, Raising(h))
                  /\ UNCHANGED lock
             ELSE /\ Handle(h, [handler[h] EXCEPT !.pc = "batch", !.got = got])
                  /\ Acquire(h)
                  /\ UNCHANGED batch_syncing
        BY <1>9 DEF BatchFetch
    <2>3. CASE got = {}
        BY <1>7, <2>2, <2>3
    <2>4. CASE got # {}
        <3> DEFINE new == [handler[h] EXCEPT !.pc = "batch", !.got = got]
        <3>1. handler[h].curr \in 0..(MaxHeight + BATCH_SIZE)
            BY <1>1 DEF HandlerType
        <3>2. IsPath(got) /\ handler[h].curr \in Heights
            BY <1>4, <2>1, <2>2, <2>4, <3>1, BatchAnswerTypes
        <3>3. got \in SUBSET Blocks
            <4>1. PICK t \in Rooted, i \in Heights, j \in Heights :
                     j <= Height[t] /\ got = {Ancestor[t][k] : k \in i..j}
                BY <3>2 DEF IsPath
            <4>2. ASSUME NEW k \in i..j PROVE Ancestor[t][k] \in Blocks
                <5>1. Height[t] \in Nat
                    BY <4>1, Constants DEF Heights
                <5>2. k \in 0..Height[t]
                    BY <4>1, <5>1 DEF Heights
                <5> QED
                    BY <5>2, Ancestors
            <4> QED
                BY <4>1, <4>2
        <3>4. /\ new \in HandlerType /\ new.pc = "batch" /\ new.peer = handler[h].peer
              /\ new.block = handler[h].block /\ new.curr = handler[h].curr /\ new.got = got
              /\ Handle(h, new)
            BY <1>1, <2>2, <2>4, <3>3 DEF HandlerType
        <3> HIDE DEF new
        <3>5. HandlerOK(new)
            BY <1>4, <3>2, <3>4 DEF HandlerOK, WithPeer, WithBlock
        <3>6. LockMoves(h, new) /\ BacktracksMove(h, new) /\ BatchesMove(h, new)
            BY <1>2, <1>3, <2>2, <2>4, <3>4 DEF LockMoves, BacktracksMove, BatchesMove, Adding,
                                                Backtracking, Batching
        <3> QED
            BY <1>2, <1>5, <1>6, <3>4, <3>5, <3>6, MoveKeeps
    <2> QED
        BY <2>3, <2>4
<1>10. CASE BatchReceived(h)
    <2>1. handler[h].pc = "batch" /\ Holds(h)
        BY <1>10 DEF BatchReceived
    <2>2. CASE NotBatchSyncing(h) /\ Handle(h, Raising(h)) /\ Release
        BY <1>7, <2>1, <2>2
    <2>3. CASE Handle(h, NextBatch(h)) /\ Release /\ UNCHANGED batch_syncing
        BY <1>8, <2>1, <2>3
    <2>4. CASE Handle(h, [handler[h] EXCEPT !.pc = "batchpost"]) /\ UNCHANGED <<batch_syncing, lock>>
        <3> DEFINE new == [handler[h] EXCEPT !.pc = "batchpost"]
        <3>1. /\ new \in HandlerType /\ new.pc = "batchpost" /\ new.peer = handler[h].peer
              /\ new.block = handler[h].block /\ new.curr = handler[h].curr /\ Handle(h, new)
            BY <1>1, <2>4 DEF HandlerType
        <3> HIDE DEF new
        <3>2. HandlerOK(new)
            BY <1>1, <2>1, <3>1 DEF HandlerOK, WithPeer, WithBlock
        <3>3. LockMoves(h, new) /\ BacktracksMove(h, new) /\ BatchesMove(h, new)
            BY <1>2, <1>3, <2>1, <2>4, <3>1 DEF LockMoves, BacktracksMove, BatchesMove, Adding,
                                                Backtracking, Batching
        <3> QED
            BY <1>2, <1>5, <1>6, <3>1, <3>2, <3>3, MoveKeeps
    <2> QED
        BY <1>10, <2>2, <2>3, <2>4 DEF BatchReceived
<1>11. CASE BatchAnnounces(h)
    <2>1. /\ handler[h].pc = "batchpost" /\ Handle(h, NextBatch(h)) /\ Release
          /\ UNCHANGED batch_syncing
        BY <1>11 DEF BatchAnnounces, flags
    <2>2. Holds(h)
        BY <2>1 DEF AddersHold
    <2> QED
        BY <1>8, <2>1, <2>2
<1>12. CASE BatchEnds(h)
    <2>1. Handle(h, Free) /\ NotBatchSyncing(h) /\ lock' = lock
        BY <1>12 DEF BatchEnds
    <2> QED
        BY <1>7, <2>1
<1> QED
    BY <1>9, <1>10, <1>11, <1>12

-----------------------------------------------------------------------------
(* _sync *)

\* A step of _sync task s: the others stay where they are, though connections may close.
SyncMoves(s) ==
    /\ sync' \in [Syncs -> SyncType]
    /\ \A r \in Syncs : SyncOK(sync'[r])
    /\ \A r \in Syncs : r # s => sync'[r].pc = sync[r].pc

\* What it does to the lock.
SyncLocks(s) ==
    \/ /\ lock' = lock \/ Acquire(s)
       /\ sync'[s].pc = "fetch" => sync[s].pc = "fetch" \/ Holds(s)
    \/ /\ Holds(s)
       /\ Release \/ lock' = Append(Tail(lock), s)
       /\ sync'[s].pc # "fetch"

\* What it does to long_sync and sync_mode: nothing while it goes on; it sets long_sync at
\* its start, sync_mode before it downloads, and both go when it ends.
SyncFlags(s) ==
    \/ /\ UNCHANGED <<long_sync, sync_mode>>
       /\ Working(s)' <=> Working(s)
       /\ Downloading(s)' <=> Downloading(s)
    \/ Working(s) /\ ~Working(s)' /\ LeavesSyncMode
    \/ /\ sync[s].pc = "validate" /\ sync'[s].pc = "lock"
       /\ sync_mode' = TRUE /\ UNCHANGED long_sync
    \/ /\ ~long_sync /\ ~sync_mode /\ sync'[s].pc = "collect"
       /\ long_sync' = TRUE /\ UNCHANGED sync_mode

\* There is one long sync at most, and the flags say which kind.
LEMMA OneLongSyncKept ==
    ASSUME OneLongSync, ModeShape, NEW s \in Syncs, SyncMoves(s), SyncFlags(s)
    PROVE  OneLongSync'
<1>0. ASSUME NEW r \in Syncs, r # s
      PROVE  (Working(r)' <=> Working(r)) /\ (Downloading(r)' <=> Downloading(r))
    BY <1>0 DEF SyncMoves, Working, Downloading
<1>1. \A r \in Syncs : Downloading(r) => Working(r)
    BY DEF Working, Downloading
<1>2. \A r \in Syncs : Downloading(r)' => Working(r)'
    BY DEF Working, Downloading
<1>3. CASE /\ UNCHANGED <<long_sync, sync_mode>>
           /\ Working(s)' <=> Working(s)
           /\ Downloading(s)' <=> Downloading(s)
    <2>1. \A r \in Syncs : (Working(r)' <=> Working(r)) /\ (Downloading(r)' <=> Downloading(r))
        BY <1>0, <1>3
    <2> HIDE DEF Working, Downloading
    <2> QED
        BY <1>3, <2>1 DEF OneLongSync
<1>4. CASE Working(s) /\ ~Working(s)' /\ LeavesSyncMode
    <2>1. \A r \in Syncs : ~Working(r)' /\ ~Downloading(r)'
        BY <1>0, <1>2, <1>4 DEF OneLongSync
    <2> QED
        BY <1>4, <2>1 DEF OneLongSync, LeavesSyncMode
<1>5. CASE /\ sync[s].pc = "validate" /\ sync'[s].pc = "lock"
           /\ sync_mode' = TRUE /\ UNCHANGED long_sync
    <2>1. Working(s) /\ Working(s)' /\ Downloading(s)'
        BY <1>5 DEF Working, Downloading
    <2>2. \A r \in Syncs : Working(r)' <=> Working(r)
        BY <1>0, <2>1
    <2> QED
        BY <1>5, <2>1, <2>2 DEF OneLongSync
<1>6. CASE /\ ~long_sync /\ ~sync_mode /\ sync'[s].pc = "collect"
           /\ long_sync' = TRUE /\ UNCHANGED sync_mode
    <2>1. Working(s)' /\ ~Downloading(s)'
        BY <1>6 DEF Working, Downloading
    <2>2. \A r \in Syncs : ~Working(r) /\ ~Downloading(r)
        BY <1>6 DEF OneLongSync
    <2>3. \A r \in Syncs : (Working(r)' <=> r = s) /\ ~Downloading(r)'
        BY <1>0, <2>1, <2>2
    <2> QED
        BY <1>6, <2>1, <2>3 DEF OneLongSync
<1> QED
    BY <1>3, <1>4, <1>5, <1>6 DEF SyncFlags

\* A step of a long sync.
LEMMA SyncMoveKeeps ==
    ASSUME SyncInv, NEW s \in Syncs, SyncMoves(s), SyncLocks(s), SyncFlags(s), HandlersLose,
           UNCHANGED flags, ModeShape', ChainShape', NetworkShape', PeaksShape', told' \in BOOLEAN
    PROVE  SyncInv'
<1> USE DEF SyncInv, Shape
<1>1. /\ HandlerShape' /\ FlagsShape' /\ BatchesKnown' /\ BacktracksCounted'
      /\ \A g \in Handlers : handler'[g].pc \in Adding => handler[g].pc \in Adding
    BY LoseKeeps
<1>2. OneLongSync'
    BY OneLongSyncKept
<1>3. SyncShape'
    BY DEF SyncShape, SyncMoves
<1>4. LockShape' /\ AddersHold'
    <2>1. CASE /\ lock' = lock \/ Acquire(s)
               /\ sync'[s].pc = "fetch" => sync[s].pc = "fetch" \/ Holds(s)
        BY <1>1, <2>1, AddersKept DEF SyncMoves
    <2>2. CASE /\ Holds(s)
               /\ Release \/ lock' = Append(Tail(lock), s)
               /\ sync'[s].pc # "fetch"
        BY <1>1, <2>2, AddersReleased, Constants DEF SyncMoves
    <2> QED
        BY <2>1, <2>2 DEF SyncLocks
<1> QED
    BY <1>1, <1>2, <1>3, <1>4

\* One _sync task goes on, the others and the handlers stay where they are.
LEMMA SyncGoesOn ==
    ASSUME SyncShape, NEW s \in Syncs, NEW new, SyncOK(new), sync' = [sync EXCEPT ![s] = new]
    PROVE  SyncMoves(s) /\ sync'[s] = new
<1>1. new \in SyncType
    BY DEF SyncOK
<1>2. /\ sync' \in [Syncs -> SyncType] /\ sync'[s] = new
      /\ \A r \in Syncs : r # s => sync'[r] = sync[r]
    BY <1>1 DEF SyncShape
<1>3. \A r \in Syncs : SyncOK(sync'[r])
    BY <1>2 DEF SyncShape
<1> QED
    BY <1>2, <1>3 DEF SyncMoves

\* No handler is the worse for it when none changes.
LEMMA HandlersStay ==
    ASSUME HandlerShape, UNCHANGED handler
    PROVE  HandlersLose
BY DEF HandlerShape, HandlersLose

\* The record of a sync that has nothing to do, and of one that finishes.
LEMMA NoSyncOK ==
    /\ SyncOK(NoSync) /\ NoSync.pc = "free"
    /\ NoSync = [pc |-> "free", block |-> NONE, peers |-> {}, left |-> {}, fork |-> 0,
                 curr |-> 0, advanced |-> FALSE, record |-> NONE]
<1>1. 0 \in Heights /\ 0 \in 0..(MaxHeight + BATCH_SIZE)
    BY Constants DEF Heights
<1> QED
    BY <1>1 DEF NoSync, SyncOK, SyncType, BlockOrNone

\* The record of a sync that goes to _finish_sync.
LEMMA FinishingOK ==
    ASSUME ChainShape
    PROVE  SyncOK(Finishing) /\ Finishing.pc = "finish"
<1>1. 0 \in Heights /\ 0 \in 0..(MaxHeight + BATCH_SIZE)
    BY Constants DEF Heights
<1>2. ASSUME NEW e, e = Finishing PROVE SyncOK(e) /\ e.pc = "finish"
    <2>1. e = [pc |-> "finish", block |-> NONE, peers |-> {}, left |-> {}, fork |-> 0,
               curr |-> 0, advanced |-> FALSE, record |-> peak]
        BY <1>2, NoSyncOK DEF Finishing
    <2> QED
        BY <1>1, <2>1 DEF SyncOK, SyncType, BlockOrNone, ChainShape
<1> QED
    BY <1>2

\* What is known of the record of a sync.
LEMMA SyncFacts ==
    ASSUME SyncShape, NEW s \in Syncs
    PROVE  SyncOK(sync[s]) /\ sync[s] \in SyncType
BY DEF SyncShape

\* The peers that SyncStore lists for a block.
LEMMA HaveBlockTypes ==
    ASSUME PeaksShape, NEW b \in Blocks
    PROVE  HaveBlock(b) \in SUBSET Peers
BY DEF PeaksShape, HaveBlock

\* A handler starts _sync.
LEMMA SyncStartsKeeps ==
    ASSUME SyncInv, NEW h \in Handlers, NEW s \in Syncs, SyncStarts(h, s)
    PROVE  SyncInv'
<1> USE DEF SyncInv, Shape
<1>1. /\ handler[h].pc = "start" /\ ~sync_mode /\ ~long_sync /\ Handle(h, Free)
      /\ sync' = [sync EXCEPT ![s] = [NoSync EXCEPT !.pc = "collect"]]
      /\ long_sync' = TRUE
      /\ UNCHANGED <<chain, network, sync_mode, target, peaks, flags, lock, told>>
    BY DEF SyncStarts
<1> DEFINE new == [NoSync EXCEPT !.pc = "collect"]
<1>2. SyncOK(new) /\ new.pc = "collect"
    <2>1. ASSUME NEW e, e = new PROVE SyncOK(e) /\ e.pc = "collect"
        <3>1. e = [pc |-> "collect", block |-> NONE, peers |-> {}, left |-> {}, fork |-> 0,
                   curr |-> 0, advanced |-> FALSE, record |-> NONE]
            BY <2>1, NoSyncOK
        <3>2. 0 \in Heights /\ 0 \in 0..(MaxHeight + BATCH_SIZE)
            BY Constants DEF Heights
        <3> QED
            BY <3>1, <3>2 DEF SyncOK, SyncType, BlockOrNone
    <2> QED
        BY <2>1
<1>3. sync' = [sync EXCEPT ![s] = new]
    BY <1>1
<1> HIDE DEF new
<1>4. SyncMoves(s) /\ sync'[s] = new
    BY <1>2, <1>3, SyncGoesOn
<1>5. SyncLocks(s)
    BY <1>1, <1>2, <1>4 DEF SyncLocks
<1>6. SyncFlags(s) /\ ModeShape'
    BY <1>1, <1>2, <1>4 DEF SyncFlags, ModeShape
<1>7. HandlersLose
    <2>1. HandlerOK(Free) /\ Free.pc = "free"
        BY FreeOK
    <2>2. /\ HandlerShape' /\ handler'[h] = Free
          /\ \A g \in Handlers : g # h => handler'[g] = handler[g]
        BY <1>1, <2>1, HandleShape
    <2> QED
        BY <1>1, <2>1, <2>2 DEF HandlersLose, HandlerShape
<1>8. ChainShape' /\ NetworkShape' /\ PeaksShape' /\ told' \in BOOLEAN
    BY <1>1, Frames
<1> QED
    BY <1>1, <1>4, <1>5, <1>6, <1>7, <1>8, SyncMoveKeeps

\* An exception outside the lock: the flags go, and the sync waits to finish.
LEMMA SyncFailsKeeps ==
    ASSUME SyncInv, NEW s \in Syncs, Working(s), sync[s].pc # "fetch",
           NEW closed \in SUBSET Peers, SyncFails(s, closed)
    PROVE  SyncInv'
<1> USE DEF SyncInv, Shape
<1>1. LeavesSyncMode /\ Acquire(s) /\ UNCHANGED <<chain, tip, target, flags, told>>
    BY DEF SyncFails
<1>2. SyncOK(Finishing) /\ Finishing.pc = "finish"
    BY FinishingOK
<1>3. ModeShape' /\ ChainShape' /\ told' \in BOOLEAN
    BY <1>1, Frames DEF ModeShape, LeavesSyncMode
<1>4. ASSUME SyncMoves(s), sync'[s] = Finishing, HandlersLose, NetworkShape', PeaksShape'
      PROVE  SyncInv'
    <2>1. SyncLocks(s) /\ SyncFlags(s)
        BY <1>1, <1>2, <1>4 DEF SyncLocks, SyncFlags, Working
    <2> QED
        BY <1>1, <1>3, <1>4, <2>1, SyncMoveKeeps
<1>5. CASE closed = {}
    <2>1. sync' = [sync EXCEPT ![s] = Finishing] /\ UNCHANGED <<connected, peaks, handler>>
        BY <1>5 DEF SyncFails
    <2>2. SyncMoves(s) /\ sync'[s] = Finishing /\ HandlersLose
        BY <1>2, <2>1, SyncGoesOn, HandlersStay
    <2>3. NetworkShape' /\ PeaksShape'
        BY <1>1, <2>1, Frames DEF network
    <2> QED
        BY <1>4, <2>2, <2>3
<1>6. CASE closed # {}
    <2>1. PICK p \in closed :
             /\ connected' = connected \ {p} /\ PeerDisconnected(p)
             /\ handler' = HandlersWithout(p)
             /\ sync' = [SyncsWithout(p) EXCEPT ![s] = Finishing]
        BY <1>6 DEF SyncFails
    <2>2. NetworkShape' /\ PeaksShape'
        BY <1>1, <2>1, DisconnectedShape DEF NetworkShape
    <2>3. HandlersLose
        BY <2>1, HandlersWithoutOK DEF HandlersLose
    <2>4. SyncMoves(s) /\ sync'[s] = Finishing
        <3>1. Finishing \in SyncType
            BY <1>2 DEF SyncOK
        <3>2. /\ sync' \in [Syncs -> SyncType] /\ sync'[s] = Finishing
              /\ \A r \in Syncs : r # s => sync'[r] = SyncsWithout(p)[r]
            BY <2>1, <3>1, SyncsWithoutOK
        <3>3. \A r \in Syncs : SyncOK(sync'[r])
            BY <1>2, <3>2, SyncsWithoutOK
        <3> QED
            BY <3>2, <3>3, SyncsWithoutOK DEF SyncMoves
    <2> QED
        BY <1>4, <2>2, <2>3, <2>4
<1> QED
    BY <1>5, <1>6

\* Before the proof: the heaviest peak is chosen, and a peer that has it.
LEMMA SelectKeeps ==
    ASSUME SyncInv, NEW s \in Syncs, SyncSelectsPeak(s) \/ SyncGathers(s) \/ SyncGivesUp(s)
    PROVE  SyncInv'
<1> USE DEF SyncInv, Shape
<1>1. SyncOK(sync[s]) /\ sync[s] \in SyncType
    BY SyncFacts
<1>2. UNCHANGED <<chain, network, flags, handler, told>>
    BY DEF SyncSelectsPeak, SyncGathers, SyncGivesUp
<1>3. ChainShape' /\ NetworkShape' /\ told' \in BOOLEAN /\ HandlersLose
    BY <1>2, Frames, HandlersStay
<1>4. CASE SyncSelectsPeak(s)
    <2>1. PICK b \in HeaviestPeaks :
             /\ target' = b
             /\ sync' = [sync EXCEPT ![s] = [@ EXCEPT !.pc = "gather", !.block = b,
                                                     !.peers = connected]]
        BY <1>4 DEF SyncSelectsPeak
    <2>2. /\ sync[s].pc = "collect"
          /\ UNCHANGED <<sync_mode, long_sync, peaks, lock>>
        BY <1>4 DEF SyncSelectsPeak
    <2>3. b \in Blocks
        BY <2>1 DEF HeaviestPeaks, KnownPeaks, PeaksShape, BlockOrNone
    <2> DEFINE new == [sync[s] EXCEPT !.pc = "gather", !.block = b, !.peers = connected]
    <2>4. /\ new \in SyncType /\ new.pc = "gather" /\ new.block = b
          /\ sync' = [sync EXCEPT ![s] = new]
        BY <1>1, <2>1, <2>3 DEF SyncType, SyncShape, NetworkShape, BlockOrNone
    <2> HIDE DEF new
    <2>5. SyncOK(new)
        BY <2>3, <2>4 DEF SyncOK
    <2>6. SyncMoves(s) /\ sync'[s] = new
        BY <2>4, <2>5, SyncGoesOn
    <2>7. SyncLocks(s) /\ SyncFlags(s)
        BY <2>2, <2>4, <2>6 DEF SyncLocks, SyncFlags, Working, Downloading
    <2>8. ModeShape' /\ PeaksShape'
        BY <2>1, <2>2, <2>3, Frames DEF ModeShape, BlockOrNone
    <2> QED
        BY <1>2, <1>3, <2>6, <2>7, <2>8, SyncMoveKeeps
<1>5. CASE SyncGathers(s) \/ SyncGivesUp(s)
    <2>1. sync[s].pc = "gather" /\ UNCHANGED peer_to_peak
        BY <1>5 DEF SyncGathers, SyncGivesUp
    <2>2. sync[s].block \in Blocks /\ sync[s].peers \in SUBSET Peers
        BY <1>1, <2>1 DEF SyncOK, SyncType
    <2>3. PICK having \in SUBSET Answering(s) : PeersHaveBlock(sync[s].block, having)
        BY <1>5 DEF SyncGathers, SyncGivesUp
    <2>4. PeaksShape'
        <3>1. having \in SUBSET Peers
            BY <2>2 DEF Answering
        <3> QED
            BY <2>1, <2>2, <2>3, <3>1, HasBlockShape DEF PeaksShape
    <2>5. CASE SyncGathers(s)
        <3>1. PICK p \in connected : sync' = [sync EXCEPT ![s] = [@ EXCEPT !.pc = "proof", !.peers = {p}]]
            BY <2>5 DEF SyncGathers
        <3> DEFINE new == [sync[s] EXCEPT !.pc = "proof", !.peers = {p}]
        <3>2. /\ new \in SyncType /\ new.pc = "proof" /\ new.block = sync[s].block
              /\ sync' = [sync EXCEPT ![s] = new]
            BY <1>1, <3>1 DEF SyncType, SyncShape, NetworkShape
        <3> HIDE DEF new
        <3>3. SyncOK(new)
            BY <2>2, <3>2 DEF SyncOK
        <3>4. SyncMoves(s) /\ sync'[s] = new
            BY <3>2, <3>3, SyncGoesOn
        <3>5. UNCHANGED <<mode, lock>>
            BY <2>5 DEF SyncGathers
        <3>6. SyncLocks(s) /\ SyncFlags(s) /\ ModeShape'
            BY <2>1, <3>2, <3>4, <3>5 DEF SyncLocks, SyncFlags, Working, Downloading, mode, ModeShape
        <3> QED
            BY <1>2, <1>3, <2>4, <3>4, <3>6, SyncMoveKeeps
    <2>6. CASE SyncGivesUp(s)
        <3>1. /\ LeavesSyncMode /\ Acquire(s) /\ sync' = [sync EXCEPT ![s] = Finishing]
              /\ UNCHANGED target
            BY <2>6 DEF SyncGivesUp
        <3>2. SyncOK(Finishing) /\ Finishing.pc = "finish"
            BY FinishingOK
        <3>3. SyncMoves(s) /\ sync'[s] = Finishing
            BY <3>1, <3>2, SyncGoesOn
        <3>4. SyncLocks(s) /\ SyncFlags(s) /\ ModeShape'
            BY <2>1, <3>1, <3>2, <3>3 DEF SyncLocks, SyncFlags, Working, LeavesSyncMode, ModeShape
        <3> QED
            BY <1>2, <1>3, <2>4, <3>3, <3>4, SyncMoveKeeps
    <2> QED
        BY <1>5, <2>5, <2>6
<1> QED
    BY <1>4, <1>5

\* The weight proof: it arrives, or the sync fails; it holds, and sync mode begins.
LEMMA ProofKeeps ==
    ASSUME SyncInv, NEW s \in Syncs,
           \/ SyncFindsNoPeak(s) \/ ProofArrives(s) \/ ProofFails(s) \/ ProofTooLate(s)
           \/ ProofHolds(s)
    PROVE  SyncInv'
<1> USE DEF SyncInv, Shape
<1>1. SyncOK(sync[s]) /\ sync[s] \in SyncType
    BY SyncFacts
<1>2. CASE SyncFindsNoPeak(s) \/ ProofFails(s) \/ ProofTooLate(s)
    <2>1. sync[s].peers \in SUBSET Peers
        BY <1>1 DEF SyncType
    <2>2. PICK closed \in SUBSET Peers : SyncFails(s, closed)
        BY <1>2, <2>1 DEF SyncFindsNoPeak, ProofFails, ProofTooLate
    <2>3. Working(s) /\ sync[s].pc # "fetch"
        BY <1>2 DEF SyncFindsNoPeak, ProofFails, ProofTooLate, Working
    <2> QED
        BY <2>2, <2>3, SyncFailsKeeps
<1>3. CASE ProofArrives(s)
    <2>1. /\ sync[s].pc = "proof" /\ sync' = [sync EXCEPT ![s].pc = "validate"]
          /\ UNCHANGED <<chain, network, mode, peaks, flags, lock, handler, told>>
        BY <1>3 DEF ProofArrives
    <2> DEFINE new == [sync[s] EXCEPT !.pc = "validate"]
    <2>2. /\ new \in SyncType /\ new.pc = "validate" /\ new.block = sync[s].block
          /\ sync' = [sync EXCEPT ![s] = new]
        BY <1>1, <2>1 DEF SyncType, SyncShape
    <2> HIDE DEF new
    <2>3. SyncOK(new)
        BY <1>1, <2>1, <2>2 DEF SyncOK
    <2>4. SyncMoves(s) /\ sync'[s] = new
        BY <2>2, <2>3, SyncGoesOn
    <2>5. SyncLocks(s) /\ SyncFlags(s) /\ ModeShape'
        BY <2>1, <2>2, <2>4 DEF SyncLocks, SyncFlags, Working, Downloading, mode, ModeShape
    <2>6. ChainShape' /\ NetworkShape' /\ PeaksShape' /\ told' \in BOOLEAN /\ HandlersLose
        BY <2>1, Frames, HandlersStay
    <2> QED
        BY <2>1, <2>4, <2>5, <2>6, SyncMoveKeeps
<1>4. CASE ProofHolds(s)
    <2>1. /\ sync[s].pc = "validate" /\ sync_mode' = TRUE /\ Acquire(s)
          /\ UNCHANGED <<chain, network, long_sync, target, peaks, flags, handler, told>>
        BY <1>4 DEF ProofHolds
    <2>2. PICK fork \in WeightProofForks(sync[s].block) :
             sync' = [sync EXCEPT ![s] = [@ EXCEPT !.pc = "lock", !.fork = fork]]
        BY <1>4 DEF ProofHolds
    <2>3. fork \in Heights
        BY <2>2, ForkTypes
    <2> DEFINE new == [sync[s] EXCEPT !.pc = "lock", !.fork = fork]
    <2>4. /\ new \in SyncType /\ new.pc = "lock" /\ new.block = sync[s].block
          /\ sync' = [sync EXCEPT ![s] = new]
        BY <1>1, <2>2, <2>3 DEF SyncType, SyncShape
    <2> HIDE DEF new
    <2>5. SyncOK(new)
        BY <1>1, <2>1, <2>4 DEF SyncOK
    <2>6. SyncMoves(s) /\ sync'[s] = new
        BY <2>4, <2>5, SyncGoesOn
    <2>7. SyncLocks(s) /\ SyncFlags(s) /\ ModeShape'
        BY <2>1, <2>4, <2>6 DEF SyncLocks, SyncFlags, ModeShape
    <2>8. ChainShape' /\ NetworkShape' /\ PeaksShape' /\ told' \in BOOLEAN /\ HandlersLose
        BY <2>1, Frames, HandlersStay
    <2> QED
        BY <2>1, <2>6, <2>7, <2>8, SyncMoveKeeps
<1> QED
    BY <1>2, <1>3, <1>4

\* The end of the download, whatever has happened, gives the lock back and waits for it again.
LEMMA LeavesLockKeeps ==
    ASSUME SyncInv, NEW s \in Syncs, Downloading(s), Holds(s), SyncLeavesLock(s),
           UNCHANGED <<chain, network, target, flags, handler, told>>, PeaksShape'
    PROVE  SyncInv'
<1> USE DEF SyncInv, Shape
<1>1. /\ LeavesSyncMode /\ lock' = Append(Tail(lock), s)
      /\ sync' = [sync EXCEPT ![s] = Finishing]
    BY DEF SyncLeavesLock
<1>2. SyncOK(Finishing) /\ Finishing.pc = "finish"
    BY FinishingOK
<1>3. SyncMoves(s) /\ sync'[s] = Finishing
    BY <1>1, <1>2, SyncGoesOn
<1>4. SyncLocks(s) /\ SyncFlags(s) /\ ModeShape'
    BY <1>1, <1>2, <1>3 DEF SyncLocks, SyncFlags, Working, Downloading, LeavesSyncMode, ModeShape
<1>5. ChainShape' /\ NetworkShape' /\ told' \in BOOLEAN /\ HandlersLose
    BY Frames, HandlersStay
<1> QED
    BY <1>3, <1>4, <1>5, SyncMoveKeeps

\* The ends of the download, its beginning, and _finish_sync.
LEMMA DownloadKeeps ==
    ASSUME SyncInv, NEW s \in Syncs,
           \/ NobodyToSyncFrom(s) \/ SyncRaises(s) \/ SyncStops(s)
           \/ SyncFromForkPoint(s) \/ FinishSync(s)
    PROVE  SyncInv'
<1> USE DEF SyncInv, Shape
<1>1. SyncOK(sync[s]) /\ sync[s] \in SyncType
    BY SyncFacts
<1>2. CASE NobodyToSyncFrom(s) \/ SyncRaises(s) \/ SyncStops(s)
    <2>1. /\ Downloading(s) /\ SyncLeavesLock(s)
          /\ UNCHANGED <<chain, network, target, flags, handler, told>>
        BY <1>2 DEF NobodyToSyncFrom, SyncRaises, SyncStops, Downloading
    <2>2. Holds(s)
        BY <1>2 DEF NobodyToSyncFrom, SyncRaises, SyncStops, AddersHold
    <2>3. PeaksShape'
        <3>1. CASE NobodyToSyncFrom(s) \/ SyncRaises(s)
            BY <3>1, Frames DEF NobodyToSyncFrom, SyncRaises
        <3>2. CASE SyncStops(s)
            BY <3>2 DEF SyncStops, PeaksShape
        <3> QED
            BY <1>2, <3>1, <3>2
    <2> QED
        BY <2>1, <2>2, <2>3, LeavesLockKeeps
<1>3. CASE SyncFromForkPoint(s)
    <2>1. /\ sync[s].pc = "lock" /\ Holds(s)
          /\ UNCHANGED <<chain, network, mode, peaks, flags, lock, handler, told>>
        BY <1>3 DEF SyncFromForkPoint
    <2>2. PICK fork \in {sync[s].fork, PeakHeight} : StartBatches(s, fork)
        BY <1>3 DEF SyncFromForkPoint
    <2>3. fork \in Heights /\ fork \in 0..(MaxHeight + BATCH_SIZE)
        <3>1. sync[s].fork \in Heights
            BY <1>1 DEF SyncType
        <3>2. PeakHeight \in Heights
            BY Constants DEF PeakHeight, ChainShape, BlockOrNone, Heights
        <3> QED
            BY <2>2, <3>1, <3>2, Constants DEF Heights
    <2>4. PeersWithPeak(s) \in SUBSET Peers
        BY DEF PeersWithPeak, NetworkShape
    <2> DEFINE new == [sync[s] EXCEPT !.pc = "fetch", !.fork = fork, !.curr = fork,
                                      !.peers = PeersWithPeak(s), !.left = PeersWithPeak(s)]
    <2>5. /\ new \in SyncType /\ new.pc = "fetch" /\ new.block = sync[s].block
          /\ sync' = [sync EXCEPT ![s] = new]
        BY <1>1, <2>2, <2>3, <2>4 DEF SyncType, SyncShape, StartBatches
    <2> HIDE DEF new
    <2>6. SyncOK(new)
        BY <1>1, <2>1, <2>5 DEF SyncOK
    <2>7. SyncMoves(s) /\ sync'[s] = new
        BY <2>5, <2>6, SyncGoesOn
    <2>8. SyncLocks(s) /\ SyncFlags(s) /\ ModeShape'
        BY <2>1, <2>5, <2>7 DEF SyncLocks, SyncFlags, Working, Downloading, mode, ModeShape
    <2>9. ChainShape' /\ NetworkShape' /\ PeaksShape' /\ told' \in BOOLEAN /\ HandlersLose
        BY <2>1, Frames, HandlersStay
    <2> QED
        BY <2>1, <2>7, <2>8, <2>9, SyncMoveKeeps
<1>4. CASE FinishSync(s)
    <2>1. /\ sync[s].pc = "finish" /\ Holds(s) /\ ClearSyncInfo /\ Release
          /\ sync' = [sync EXCEPT ![s] = NoSync]
          /\ told' = (sync[s].record \in {NONE, peak})
          /\ UNCHANGED <<chain, network, mode, peer_to_peak, peers_changed, flags, handler>>
        BY <1>4 DEF FinishSync
    <2>2. SyncMoves(s) /\ sync'[s] = NoSync /\ NoSync.pc = "free"
        BY <2>1, NoSyncOK, SyncGoesOn
    <2>3. SyncLocks(s) /\ SyncFlags(s) /\ ModeShape'
        BY <2>1, <2>2 DEF SyncLocks, SyncFlags, Working, Downloading, mode, ModeShape
    <2>4. PeaksShape'
        BY <2>1, ClearShape
    <2>5. ChainShape' /\ NetworkShape' /\ told' \in BOOLEAN /\ HandlersLose
        BY <2>1, Frames, HandlersStay
    <2> QED
        BY <2>1, <2>2, <2>3, <2>4, <2>5, SyncMoveKeeps
<1> QED
    BY <1>2, <1>3, <1>4

\* One batch of a long sync, with peer p.
LEMMA FetchKeeps ==
    ASSUME SyncInv, NEW s \in Syncs, NEW p \in Peers,
           SyncFetchFails(s, p) \/ SyncBatchInvalid(s, p) \/ SyncBatchAdded(s, p)
    PROVE  SyncInv'
<1> USE DEF SyncInv, Shape
<1>1. SyncOK(sync[s]) /\ sync[s] \in SyncType
    BY SyncFacts
<1>2. /\ sync[s].pc = "fetch" /\ sync[s].curr < Height[sync[s].block]
      /\ UNCHANGED <<tip, mode, flags, lock, told>>
    BY DEF SyncFetchFails, SyncBatchInvalid, SyncBatchAdded, network
<1>3. sync[s].block \in Blocks /\ sync[s].curr \in 0..(MaxHeight + BATCH_SIZE)
    BY <1>1, <1>2 DEF SyncOK, SyncType
<1>4. ASSUME NEW got \in SyncAnswers(s, p)
      PROVE  IsPath(got) /\ sync[s].curr + BATCH_SIZE \in 0..(MaxHeight + BATCH_SIZE)
    <2>1. /\ got \in BatchAnswers(p, sync[s].curr, BatchEnd(sync[s].curr, Height[sync[s].block]))
          /\ got # {}
        BY DEF SyncAnswers
    <2> QED
        BY <1>2, <1>3, <2>1, BatchAnswerTypes
<1>5. ASSUME NEW got \in SyncAnswers(s, p), ReceiveBlockBatch(got) PROVE ChainShape'
    <2>1. stored \cup Added(got) \subseteq Blocks /\ PeakAfter(got) \in BlockOrNone
        BY <1>4, BatchShape
    <2> QED
        BY <1>5, <2>1 DEF ReceiveBlockBatch, ChainShape
\* The sync stays in its loop, holding the lock.
<1>6. ASSUME SyncMoves(s), sync'[s].pc = "fetch", HandlersLose, ChainShape', NetworkShape', PeaksShape'
      PROVE  SyncInv'
    <2>1. SyncLocks(s) /\ SyncFlags(s) /\ ModeShape' /\ told' \in BOOLEAN
        BY <1>2, <1>6 DEF SyncLocks, SyncFlags, Working, Downloading, mode, ModeShape
    <2> QED
        BY <1>2, <1>6, <2>1, SyncMoveKeeps
<1>7. ASSUME connected' = connected \ {p}, PeerDisconnected(p), handler' = HandlersWithout(p)
      PROVE  NetworkShape' /\ PeaksShape' /\ HandlersLose
    <2>1. NetworkShape' /\ PeaksShape'
        BY <1>2, <1>7, DisconnectedShape DEF NetworkShape
    <2>2. HandlersLose
        BY <1>7, HandlersWithoutOK DEF HandlersLose
    <2> QED
        BY <2>1, <2>2
<1>8. CASE SyncFetchFails(s, p)
    <2>1. ChainShape'
        BY <1>8, Frames DEF SyncFetchFails
    <2>2. CASE /\ connected' = connected \ {p} /\ PeerDisconnected(p)
               /\ handler' = HandlersWithout(p) /\ sync' = SyncsWithout(p)
        <3>1. SyncMoves(s) /\ sync'[s].pc = "fetch"
            BY <1>2, <2>2, SyncsWithoutOK DEF SyncMoves
        <3> QED
            BY <1>6, <1>7, <2>1, <2>2, <3>1
    <2>3. CASE /\ sync' = [sync EXCEPT ![s].peers = @ \ {p}, ![s].left = @ \ {p}]
               /\ UNCHANGED <<connected, peaks, handler>>
        <3> DEFINE new == [sync[s] EXCEPT !.peers = @ \ {p}, !.left = @ \ {p}]
        <3>1. /\ new \in SyncType /\ new.pc = "fetch" /\ new.block = sync[s].block
              /\ sync' = [sync EXCEPT ![s] = new]
            BY <1>1, <1>2, <2>3 DEF SyncType, SyncShape
        <3> HIDE DEF new
        <3>2. SyncOK(new)
            BY <1>3, <3>1 DEF SyncOK
        <3>3. SyncMoves(s) /\ sync'[s] = new
            BY <3>1, <3>2, SyncGoesOn
        <3>4. NetworkShape' /\ PeaksShape' /\ HandlersLose
            BY <1>2, <2>3, Frames, HandlersStay DEF network
        <3> QED
            BY <1>6, <2>1, <3>1, <3>3, <3>4
    <2> QED
        BY <1>8, <2>2, <2>3 DEF SyncFetchFails
<1>9. CASE SyncBatchInvalid(s, p)
    <2>1. PICK got \in SyncAnswers(s, p) :
             /\ ReceiveBlockBatch(got)
             /\ sync' = [SyncsWithout(p) EXCEPT ![s].advanced = Advances(got)]
        BY <1>9 DEF SyncBatchInvalid
    <2>2. connected' = connected \ {p} /\ PeerDisconnected(p) /\ handler' = HandlersWithout(p)
        BY <1>9 DEF SyncBatchInvalid
    <2> DEFINE old == SyncsWithout(p)
               new == [old[s] EXCEPT !.advanced = Advances(got)]
    <2>3. /\ old \in [Syncs -> SyncType]
          /\ \A r \in Syncs : SyncOK(old[r]) /\ old[r].pc = sync[r].pc
        BY SyncsWithoutOK
    <2>4. sync' = [old EXCEPT ![s].advanced = Advances(got)]
        BY <2>1
    <2> HIDE DEF old
    <2>5. /\ new \in SyncType /\ new.pc = "fetch" /\ new.block = old[s].block
          /\ sync' = [old EXCEPT ![s] = new]
        <3>1. Advances(got) \in BOOLEAN
            BY DEF Advances
        <3> QED
            BY <1>2, <2>3, <2>4, <3>1 DEF SyncType
    <2> HIDE DEF new
    <2>6. SyncOK(new)
        BY <1>2, <2>3, <2>5 DEF SyncOK
    <2>7. SyncMoves(s) /\ sync'[s].pc = "fetch"
        BY <2>3, <2>5, <2>6 DEF SyncMoves
    <2> QED
        BY <1>5, <1>6, <1>7, <2>1, <2>2, <2>7
<1>10. CASE SyncBatchAdded(s, p)
    <2>1. PICK got \in SyncAnswers(s, p), peers \in SUBSET Peers, advanced \in BOOLEAN :
             /\ ReceiveBlockBatch(got)
             /\ sync' = [sync EXCEPT ![s] = [sync[s] EXCEPT !.curr = sync[s].curr + BATCH_SIZE,
                                            !.peers = peers, !.left = peers, !.advanced = advanced]]
        <3>1. PeersWithPeak(s) \in SUBSET Peers /\ sync[s].peers \in SUBSET Peers
            BY <1>1 DEF PeersWithPeak, NetworkShape, SyncType
        <3>2. \A got : Advances(got) \in BOOLEAN
            BY DEF Advances
        <3> QED
            BY <1>10, <3>1, <3>2 DEF SyncBatchAdded
    <2>2. /\ peers_changed' = FALSE
          /\ UNCHANGED <<network, peak_to_peer, peer_to_peak, handler>>
        BY <1>10 DEF SyncBatchAdded
    <2>3. sync[s].curr + BATCH_SIZE \in 0..(MaxHeight + BATCH_SIZE)
        BY <1>4, <2>1
    <2> DEFINE new == [sync[s] EXCEPT !.curr = sync[s].curr + BATCH_SIZE, !.peers = peers,
                                      !.left = peers, !.advanced = advanced]
    <2>4. sync' = [sync EXCEPT ![s] = new]
        BY <2>1
    <2>5. new \in SyncType /\ new.pc = "fetch" /\ new.block = sync[s].block
        BY <1>1, <1>2, <2>1, <2>3 DEF SyncType
    <2> HIDE DEF new
    <2>6. SyncOK(new)
        BY <1>3, <2>5 DEF SyncOK
    <2>7. SyncMoves(s) /\ sync'[s] = new
        BY <2>4, <2>6, SyncGoesOn
    <2>8. NetworkShape' /\ PeaksShape' /\ HandlersLose
        BY <2>2, Frames, HandlersStay DEF PeaksShape
    <2> QED
        BY <1>5, <1>6, <2>1, <2>5, <2>7, <2>8
<1> QED
    BY <1>8, <1>9, <1>10

-----------------------------------------------------------------------------
(* The theorems *)

\* The states in which a node starts.
LEMMA InitOK ==
    ASSUME Init
    PROVE  SyncInv
<1>1. HandlerOK(Free) /\ Free \in HandlerType /\ Free.pc = "free" /\ Free.peer = NONE
    BY FreeOK DEF HandlerOK
<1>2. SyncOK(NoSync) /\ NoSync \in SyncType /\ NoSync.pc = "free"
    BY NoSyncOK DEF SyncOK
<1>3. ChainShape
    <2>1. peak \in Rooted \cup {NONE}
        BY SyncAssumption DEF Init
    <2>2. CASE peak = NONE
        BY <2>2 DEF Init, ChainShape, BlockOrNone
    <2>3. CASE peak \in Rooted
        <3>1. ChainOf(peak) \subseteq Blocks
            BY <2>3, Ancestors DEF ChainOf
        <3>2. peak \in Blocks /\ peak # NONE
            BY <2>3, Constants
        <3> QED
            BY <3>1, <3>2 DEF Init, ChainShape, BlockOrNone
    <2> QED
        BY <2>1, <2>2, <2>3
<1>4. NetworkShape
    BY SyncAssumption DEF Init, NetworkShape
<1>5. ModeShape /\ PeaksShape /\ FlagsShape /\ LockShape /\ told \in BOOLEAN
    <2>1. ModeShape /\ FlagsShape /\ told \in BOOLEAN
        BY DEF Init, ModeShape, FlagsShape, BlockOrNone
    <2>2. PeaksShape
        BY DEF Init, PeaksShape, BlockOrNone
    <2>3. LockShape
        BY DEF Init, LockShape
    <2> QED
        BY <2>1, <2>2, <2>3
<1>6. HandlerShape /\ SyncShape
    BY <1>1, <1>2 DEF Init, HandlerShape, SyncShape
<1>7. /\ \A h \in Handlers : handler[h].pc = "free"
      /\ \A s \in Syncs : sync[s].pc = "free"
    BY <1>1, <1>2 DEF Init
<1>8. AddersHold /\ OneLongSync /\ BatchesKnown
    BY <1>7 DEF Init, AddersHold, OneLongSync, BatchesKnown, Batching, Working, Downloading
<1>9. BacktracksCounted
    <2>1. ASSUME NEW p \in Peers PROVE BacktrackSyncing(p) = {}
        BY <1>7 DEF BacktrackSyncing
    <2>2. Cardinality({}) = 0
        BY FS_EmptySet
    <2>3. \A p \in Peers : backtrack_syncing[p] = 0
        BY DEF Init
    <2>4. ASSUME NEW p \in Peers PROVE Cardinality(BacktrackSyncing(p)) = 0
        BY <2>1, <2>2
    <2> QED
        BY <2>3, <2>4 DEF BacktracksCounted
<1> QED
    BY <1>3, <1>4, <1>5, <1>6, <1>8, <1>9 DEF SyncInv, Shape

\* A step of a handler.
LEMMA HandlerStepKeeps ==
    ASSUME SyncInv, NEW h \in Handlers, HandlerStep(h)
    PROVE  SyncInv'
<1>1. CASE Asked(h) \/ Raised(h)
    BY <1>1, AskedKeeps, RaisedKeeps
<1>2. CASE BacktrackFails(h) \/ BacktrackConnects(h) \/ BacktrackGoesOn(h) \/ BacktrackTooDeep(h)
    BY <1>2, BacktrackKeeps
<1>3. CASE \/ RespondSkips(h) \/ RespondWaits(h) \/ RespondReturns(h) \/ RespondRaises(h)
           \/ RespondOrphan(h) \/ RespondNewPeak(h) \/ RespondAnnounces(h) \/ RespondEnds(h)
    BY <1>3, RespondKeeps
<1>4. CASE NeedsLongSync(h) \/ BatchRefused(h) \/ BatchBegins(h) \/ SyncRefused(h)
    BY <1>4, FarKeeps
<1>5. CASE BatchFirst(h)
    BY <1>5, BatchFirstKeeps
<1>6. CASE BatchFetch(h) \/ BatchReceived(h) \/ BatchAnnounces(h) \/ BatchEnds(h)
    BY <1>6, BatchKeeps
<1>7. CASE \E s \in Syncs : SyncStarts(h, s)
    BY <1>7, SyncStartsKeeps
<1> QED
    BY <1>1, <1>2, <1>3, <1>4, <1>5, <1>6, <1>7 DEF HandlerStep

\* A step of a long sync.
LEMMA SyncStepKeeps ==
    ASSUME SyncInv, NEW s \in Syncs, SyncStep(s)
    PROVE  SyncInv'
<1>1. CASE SyncSelectsPeak(s) \/ SyncGathers(s) \/ SyncGivesUp(s)
    BY <1>1, SelectKeeps
<1>2. CASE \/ SyncFindsNoPeak(s) \/ ProofArrives(s) \/ ProofFails(s) \/ ProofTooLate(s)
           \/ ProofHolds(s)
    BY <1>2, ProofKeeps
<1>3. CASE \/ NobodyToSyncFrom(s) \/ SyncRaises(s) \/ SyncStops(s)
           \/ SyncFromForkPoint(s) \/ FinishSync(s)
    BY <1>3, DownloadKeeps
<1>4. CASE \E p \in Peers : SyncFetchFails(s, p) \/ SyncBatchInvalid(s, p) \/ SyncBatchAdded(s, p)
    BY <1>4, FetchKeeps
<1> QED
    BY <1>1, <1>2, <1>3, <1>4 DEF SyncStep

\* Every step keeps the invariant.
LEMMA StepKeeps ==
    ASSUME SyncInv, [Next]_vars
    PROVE  SyncInv'
<1>1. CASE UNCHANGED vars
    <2> USE DEF SyncInv, Shape
    <2>1. UNCHANGED <<chain, network, mode, peaks, flags, lock, handler, sync, told>>
        BY <1>1 DEF vars
    <2>2. ChainShape' /\ NetworkShape' /\ PeaksShape' /\ told' \in BOOLEAN
        BY <2>1, Frames
    <2>3. LockShape' /\ AddersHold' /\ FlagsShape' /\ HandlerShape' /\ BatchesKnown' /\ SyncShape'
        BY <2>1 DEF LockShape, AddersHold, Holds, FlagsShape, flags, HandlerShape, BatchesKnown,
                    SyncShape
    <2>4. BacktracksCounted'
        BY <2>1, CountSame DEF flags
    <2>5. OneLongSync' /\ ModeShape'
        BY <2>1, SyncsStay
    <2> QED
        BY <2>1, <2>2, <2>3, <2>4, <2>5
<1>2. CASE Network
    BY <1>2, NetworkKeeps
<1>3. ASSUME NEW h \in Handlers, Message(h) \/ HandlerStep(h) PROVE SyncInv'
    BY <1>3, MessageKeeps, HandlerStepKeeps
<1>4. ASSUME NEW s \in Syncs, SyncStep(s) PROVE SyncInv'
    BY <1>4, SyncStepKeeps
<1> QED
    BY <1>1, <1>2, <1>3, <1>4 DEF Next

\* SyncInv is an inductive invariant of FullNodeSync.
THEOREM SyncInvariant == Spec => []SyncInv
<1>1. Init => SyncInv
    BY InitOK
<1>2. SyncInv /\ [Next]_vars => SyncInv'
    BY StepKeeps
<1> QED
    BY <1>1, <1>2, PTL DEF Spec

\* The type of every variable; in particular the counter of a peer's backtracks neither
\* goes below 0 nor beyond the number of handlers.
THEOREM TypeCorrect == Spec => []TypeOK
<1>1. ASSUME SyncInv PROVE TypeOK
    <2> USE <1>1 DEF SyncInv, Shape
    <2>1. ASSUME NEW p \in Peers PROVE backtrack_syncing[p] \in 0..Cardinality(Handlers)
        <3>1. BacktrackSyncing(p) \in SUBSET Handlers
            BY DEF BacktrackSyncing
        <3>2. /\ IsFiniteSet(BacktrackSyncing(p))
              /\ Cardinality(BacktrackSyncing(p)) <= Cardinality(Handlers)
            BY <3>1, Constants, FS_Subset
        <3>3. Cardinality(BacktrackSyncing(p)) \in Nat /\ Cardinality(Handlers) \in Nat
            BY <3>2, Constants, FS_CardinalityType
        <3> QED
            BY <3>2, <3>3 DEF BacktracksCounted
    <2>2. backtrack_syncing \in [Peers -> 0..Cardinality(Handlers)]
        BY <2>1 DEF FlagsShape
    <2> QED
        BY <2>2 DEF TypeOK, ChainShape, NetworkShape, ModeShape, PeaksShape, FlagsShape, LockShape,
                    HandlerShape, SyncShape
<1> QED
    BY <1>1, SyncInvariant, PTL

\* At most one _sync is before its _finish_sync, however many new_peak messages ask for
\* one, and long_sync and sync_mode say exactly whether there is one and whether it
\* downloads: no exception, timeout or lost connection leaves them set.
THEOREM OneLongSyncAtATime == Spec => []OneLongSync
BY SyncInvariant, PTL DEF SyncInv

\* Whoever adds blocks or announces the peak he has added holds blockchain.lock.
THEOREM AddersHoldTheLock == Spec => []AddersHold
BY SyncInvariant, PTL DEF SyncInv

\* SyncStore knows every short sync: a batch sync is in batch_syncing and is the only one
\* with its peer, and backtrack_syncing counts exactly the backtracks under way.
THEOREM ShortSyncsAreKnown == Spec => []ShortSyncsKnown
<1>1. ASSUME SyncInv PROVE ShortSyncsKnown
    <2> USE <1>1 DEF SyncInv, Shape
    <2>1. ASSUME NEW p \in Peers
          PROVE  /\ BatchSyncing(p) # {} => p \in batch_syncing
                 /\ Cardinality(BatchSyncing(p)) <= 1
                 /\ backtrack_syncing[p] = Cardinality(BacktrackSyncing(p))
        <3>1. \A h \in BatchSyncing(p) :
                 h \in Handlers /\ Batching(handler[h]) /\ handler[h].peer = p
            BY DEF BatchSyncing, Batching
        <3>2. BatchSyncing(p) # {} => p \in batch_syncing
            BY <3>1 DEF BatchesKnown
        <3>3. Cardinality(BatchSyncing(p)) <= 1
            <4>1. CASE BatchSyncing(p) = {}
                <5>1. Cardinality(BatchSyncing(p)) = 0
                    BY <4>1, FS_EmptySet
                <5> QED
                    BY <5>1
            <4>2. CASE BatchSyncing(p) # {}
                <5>1. PICK h \in BatchSyncing(p) : TRUE
                    BY <4>2
                <5>2. BatchSyncing(p) = {h}
                    BY <3>1, <5>1 DEF BatchesKnown
                <5>3. Cardinality(BatchSyncing(p)) = 1
                    BY <5>2, FS_Singleton
                <5> QED
                    BY <5>3
            <4> QED
                BY <4>1, <4>2
        <3> QED
            BY <3>2, <3>3 DEF BacktracksCounted
    <2> QED
        BY <2>1 DEF ShortSyncsKnown
<1> QED
    BY <1>1, SyncInvariant, PTL

-----------------------------------------------------------------------------
(* The chain under the syncs *)

\* A set of blocks and a peak as HeaviestChain keeps them: valid blocks, with every block
\* its chain down to a genesis block, and no block heavier than the peak.
ChainOK(S, P) ==
    /\ S \subseteq Rooted \cap HeaderValid \cap BodyValid
    /\ \A b \in S : Height[b] > 0 => Prev[b] \in S
    /\ IF P = NONE THEN S = {} ELSE P \in S /\ \A b \in S : Weight[b] <= Weight[P]
StoredChains == ChainOK(stored, peak)

\* From chain S with peak P to chain T with peak Q by one valid block whose parent is
\* stored, as receive_block adds it: it becomes the peak if it is the first or the heaviest.
Accepts(S, P, T, Q) ==
    \E b \in (Rooted \cap HeaderValid \cap BodyValid) \ S :
        /\ Height[b] > 0 => Prev[b] \in S
        /\ T = S \cup {b}
        /\ Q = IF P = NONE \/ Weight[b] > Weight[P] THEN b ELSE P

\* A step of the chain is made of such additions, one after the other.
OneByOne ==
    \E n \in Nat : \E S \in [0..n -> SUBSET Blocks] : \E P \in [0..n -> BlockOrNone] :
        /\ S[0] = stored /\ S[n] = stored' /\ P[0] = peak /\ P[n] = peak'
        /\ \A k \in 0..(n - 1) :
              \/ S[k + 1] = S[k] /\ P[k + 1] = P[k]
              \/ Accepts(S[k], P[k], S[k + 1], P[k + 1])

\* Header validation: a block weighs more than its parent, and something.
LEMMA HeaderWeights ==
    ASSUME NEW b \in HeaderValid
    PROVE  /\ Weight[b] \in Nat /\ Weight[b] > 0
           /\ Height[b] > 0 => Prev[b] \in Blocks /\ Weight[Prev[b]] < Weight[b]
<1>1. b \in Blocks /\ Weight[b] \in Nat /\ Height[b] \in Nat
    BY BlockAssumption DEF Heights
<1>2. CASE Height[b] = 0
    BY <1>1, <1>2, HeaderAssumption
<1>3. CASE Height[b] > 0
    <2>1. Prev[b] \in Blocks /\ Weight[b] > Weight[Prev[b]]
        BY <1>3, HeaderAssumption
    <2>2. Weight[Prev[b]] \in Nat
        BY <2>1, BlockAssumption
    <2> QED
        BY <1>1, <2>1, <2>2
<1> QED
    BY <1>1, <1>2, <1>3

\* With a block all of its ancestors are stored.
LEMMA StoredAncestors ==
    ASSUME NEW S, NEW P, ChainOK(S, P), NEW b \in S, NEW h \in 0..Height[b]
    PROVE  Ancestor[b][h] \in S
<1> DEFINE H == Height[b]
           Gaps == {d \in 0..H : Ancestor[b][H - d] \notin S}
<1>1. b \in Rooted /\ b \in Blocks /\ H \in Nat
    BY AncestorAssumption, BlockAssumption DEF ChainOK, Heights
<1> SUFFICES ASSUME Ancestor[b][h] \notin S PROVE FALSE
    OBVIOUS
<1>2. H - h \in Gaps /\ Gaps \subseteq Nat
    <2>1. H - h \in 0..H /\ H - (H - h) = h
        BY <1>1
    <2> QED
        BY <1>1, <2>1
<1>3. PICK d \in Gaps : \A e \in Gaps : d <= e
    <2> HIDE DEF Gaps
    <2> QED
        BY <1>2, LeastNatural
<1>4. d \in 0..H /\ Ancestor[b][H - d] \notin S
    BY <1>3
<1>5. d # 0
    <2>1. Ancestor[b][H] = b /\ H - 0 = H
        BY <1>1, AncestorAssumption
    <2> QED
        BY <1>4, <2>1
<1> DEFINE c == Ancestor[b][H - (d - 1)]
<1>6. d - 1 \in 0..H /\ ~(d <= d - 1) /\ H - (d - 1) \in 0..H /\ H - (d - 1) > 0
    BY <1>1, <1>4, <1>5
<1>7. c \in S
    BY <1>3, <1>6
<1>8. c \in Rooted /\ Height[c] = H - (d - 1)
    BY <1>1, <1>6, AncestorAssumption
<1>9. Prev[c] \in S
    BY <1>6, <1>7, <1>8 DEF ChainOK
<1>10. Prev[c] = Ancestor[c][Height[c] - 1] /\ Height[c] - 1 = H - d
    BY <1>1, <1>4, <1>6, <1>8, AncestorAssumption
<1>11. H - d \in 0..(H - (d - 1))
    BY <1>1, <1>4, <1>5
<1>12. Ancestor[c][H - d] = Ancestor[b][H - d]
    BY <1>1, <1>6, <1>11, AncestorAssumption
<1> QED
    BY <1>4, <1>9, <1>10, <1>12

\* One more block leaves such a chain, and the peak never loses weight.
LEMMA AcceptOK ==
    ASSUME NEW S, NEW P, NEW T, NEW Q, ChainOK(S, P), Accepts(S, P, T, Q)
    PROVE  /\ ChainOK(T, Q)
           /\ Q # NONE
           /\ P # NONE => Weight[P] <= Weight[Q]
<1>1. PICK b \in (Rooted \cap HeaderValid \cap BodyValid) \ S :
         /\ Height[b] > 0 => Prev[b] \in S
         /\ T = S \cup {b}
         /\ Q = IF P = NONE \/ Weight[b] > Weight[P] THEN b ELSE P
    BY DEF Accepts
<1>2. b # NONE /\ Weight[b] \in Nat
    BY <1>1, Constants
<1>3. \A a \in S : Weight[a] \in Nat
    BY Constants DEF ChainOK
<1>4. P # NONE => P \in S /\ Weight[P] \in Nat /\ \A a \in S : Weight[a] <= Weight[P]
    BY <1>3 DEF ChainOK
<1>5. Q # NONE /\ Q \in T /\ (P # NONE => Weight[P] <= Weight[Q])
    BY <1>1, <1>2, <1>4
<1>6. \A a \in T : Weight[a] <= Weight[Q]
    <2>1. CASE P = NONE
        <3>1. S = {}
            BY <2>1 DEF ChainOK
        <3> QED
            BY <1>1, <1>2, <2>1, <3>1
    <2>2. CASE P # NONE
        BY <1>1, <1>2, <1>3, <1>4, <2>2
    <2> QED
        BY <2>1, <2>2
<1>7. T \subseteq Rooted \cap HeaderValid \cap BodyValid
    BY <1>1 DEF ChainOK
<1>8. \A a \in T : Height[a] > 0 => Prev[a] \in T
    BY <1>1 DEF ChainOK
<1> QED
    BY <1>5, <1>6, <1>7, <1>8 DEF ChainOK

\* What the chain may do: blocks are never lost, and a peak is only replaced by a heavier one.
ChainGrows ==
    /\ stored \subseteq stored'
    /\ peak # NONE => peak' # NONE /\ (peak' = peak \/ Weight[peak'] > Weight[peak])

\* Additions one after the other leave such a chain.
LEMMA OneByOneKeeps ==
    ASSUME StoredChains, OneByOne
    PROVE  StoredChains' /\ ChainGrows
<1>1. PICK n \in Nat : \E S \in [0..n -> SUBSET Blocks] : \E P \in [0..n -> BlockOrNone] :
         /\ S[0] = stored /\ S[n] = stored' /\ P[0] = peak /\ P[n] = peak'
         /\ \A k \in 0..(n - 1) :
               \/ S[k + 1] = S[k] /\ P[k + 1] = P[k]
               \/ Accepts(S[k], P[k], S[k + 1], P[k + 1])
    BY DEF OneByOne
<1>2. PICK S \in [0..n -> SUBSET Blocks] : \E P \in [0..n -> BlockOrNone] :
         /\ S[0] = stored /\ S[n] = stored' /\ P[0] = peak /\ P[n] = peak'
         /\ \A k \in 0..(n - 1) :
               \/ S[k + 1] = S[k] /\ P[k + 1] = P[k]
               \/ Accepts(S[k], P[k], S[k + 1], P[k + 1])
    BY <1>1
<1>3. PICK P \in [0..n -> BlockOrNone] :
         /\ S[0] = stored /\ S[n] = stored' /\ P[0] = peak /\ P[n] = peak'
         /\ \A k \in 0..(n - 1) :
               \/ S[k + 1] = S[k] /\ P[k + 1] = P[k]
               \/ Accepts(S[k], P[k], S[k + 1], P[k + 1])
    BY <1>2
<1> DEFINE Good(k) == /\ ChainOK(S[k], P[k]) /\ stored \subseteq S[k]
                      /\ peak # NONE => P[k] # NONE /\ (P[k] = peak \/ Weight[P[k]] > Weight[peak])
           Bad == {k \in 0..n : ~Good(k)}
<1>4. Good(0)
    BY <1>3 DEF StoredChains
<1>5. ASSUME NEW k \in 0..(n - 1), Good(k) PROVE Good(k + 1)
    <2>1. CASE S[k + 1] = S[k] /\ P[k + 1] = P[k]
        BY <1>5, <2>1
    <2>2. CASE Accepts(S[k], P[k], S[k + 1], P[k + 1])
        <3>1. ChainOK(S[k + 1], P[k + 1]) /\ P[k + 1] # NONE
            BY <1>5, <2>2, AcceptOK
        <3>2. PICK b \in (Rooted \cap HeaderValid \cap BodyValid) \ S[k] :
                 /\ S[k + 1] = S[k] \cup {b}
                 /\ P[k + 1] = IF P[k] = NONE \/ Weight[b] > Weight[P[k]] THEN b ELSE P[k]
            BY <2>2 DEF Accepts
        <3>3. stored \subseteq S[k + 1]
            BY <1>5, <3>2
        <3>4. ASSUME peak # NONE PROVE P[k + 1] = peak \/ Weight[P[k + 1]] > Weight[peak]
            <4>1. P[k] # NONE /\ (P[k] = peak \/ Weight[P[k]] > Weight[peak])
                BY <1>5, <3>4
            <4>2. Weight[P[k]] \in Nat /\ Weight[b] \in Nat /\ Weight[peak] \in Nat
                BY <1>3, <1>5, <3>2, <3>4, <4>1, Constants DEF StoredChains, ChainOK
            <4> QED
                BY <3>2, <4>1, <4>2
        <3> QED
            BY <3>1, <3>3, <3>4
    <2> QED
        BY <1>3, <2>1, <2>2
<1>6. Bad = {}
    <2> SUFFICES ASSUME Bad # {} PROVE FALSE
        OBVIOUS
    <2>1. Bad \subseteq Nat
        BY <1>1
    <2>2. PICK m \in Bad : \A k \in Bad : m <= k
        <3> HIDE DEF Bad
        <3> QED
            BY <2>1, LeastNatural
    <2>3. m \in 0..n /\ ~Good(m) /\ m # 0
        BY <1>4, <2>2
    <2>4. m - 1 \in 0..(n - 1) /\ m - 1 \in 0..n /\ (m - 1) + 1 = m /\ ~(m <= m - 1)
        BY <1>1, <2>3
    <2>5. Good(m - 1)
        BY <2>2, <2>4
    <2> HIDE DEF Good
    <2>6. Good((m - 1) + 1)
        BY <1>5, <2>4, <2>5
    <2> QED
        BY <2>3, <2>4, <2>6
<1>7. Good(n)
    <2>1. n \in 0..n
        BY <1>1
    <2> QED
        BY <1>6, <2>1
<1> QED
    BY <1>3, <1>7 DEF StoredChains, ChainGrows

\* receive_block_batch adds the blocks of a batch one after the other.
LEMMA BatchOneByOne ==
    ASSUME StoredChains, NEW got, IsPath(got), ReceiveBlockBatch(got)
    PROVE  OneByOne
<1>1. PICK t \in Rooted : \E i, j \in Heights :
         j <= Height[t] /\ got = {Ancestor[t][h] : h \in i..j}
    BY DEF IsPath
<1>2. PICK i \in Heights, j \in Heights :
         j <= Height[t] /\ got = {Ancestor[t][h] : h \in i..j}
    BY <1>1
<1>3. /\ i \in Nat /\ j \in Nat /\ j <= MaxHeight /\ MaxHeight \in Nat
      /\ t \in Blocks /\ Height[t] \in Nat
    BY <1>2, Constants DEF Heights
<1>4. ASSUME NEW h \in i..j
      PROVE  /\ h \in Nat /\ h \in 0..Height[t] /\ Ancestor[t][h] \in Rooted
             /\ Ancestor[t][h] \in Blocks /\ Height[Ancestor[t][h]] = h
    <2>1. h \in 0..Height[t]
        BY <1>2, <1>3
    <2> QED
        BY <1>3, <2>1, Ancestors
<1> DEFINE A == Added(got)
<1>5. ASSUME NEW b \in got
      PROVE  b \in Rooted /\ b \in Blocks /\ Height[b] \in i..j /\ b = Ancestor[t][Height[b]]
    <2>1. PICK h \in i..j : b = Ancestor[t][h]
        BY <1>2
    <2> QED
        BY <1>4, <2>1
<1>6. ASSUME NEW b \in A
      PROVE  /\ b \in got /\ b \in ToValidate(got) /\ PreValidates(got)
             /\ b \in HeaderValid /\ b \in BodyValid
             /\ \E c \in got \ stored : Height[c] <= Height[b]
    <2>1. /\ b \in ToValidate(got) /\ PreValidates(got)
          /\ \A a \in ToValidate(got) : Height[a] <= Height[b] => a \in BodyValid
        BY DEF Added
    <2>2. b \in got /\ \E c \in got \ stored : Height[c] <= Height[b]
        BY <2>1 DEF ToValidate
    <2>3. Height[b] <= Height[b]
        BY <1>3, <1>5, <2>2
    <2> QED
        BY <2>1, <2>2, <2>3 DEF PreValidates
<1>7. ASSUME NEW b \in A PROVE b \notin stored
    <2> SUFFICES ASSUME b \in stored PROVE FALSE
        OBVIOUS
    <2>1. PICK c \in got \ stored : Height[c] <= Height[b]
        BY <1>6
    <2>2. /\ b \in Rooted /\ b = Ancestor[t][Height[b]] /\ Height[b] \in 0..Height[t]
          /\ c = Ancestor[t][Height[c]] /\ Height[c] \in 0..Height[b]
        BY <1>3, <1>4, <1>5, <1>6, <2>1
    <2>3. Ancestor[b][Height[c]] = c
        BY <2>2, AncestorAssumption
    <2>4. Ancestor[b][Height[c]] \in stored
        BY <2>2, StoredAncestors DEF StoredChains
    <2> QED
        BY <2>1, <2>3, <2>4
<1>8. ASSUME NEW b \in A, Height[b] > 0
      PROVE  Prev[b] \in stored \/ (Prev[b] \in A /\ Height[Prev[b]] < Height[b])
    <2>1. b \in Rooted /\ Height[b] \in Nat
        BY <1>3, <1>5, <1>6
    <2>2. Prev[b] \in stored \cup ToValidate(got)
        BY <1>6, <1>8 DEF PreValidates
    <2>3. Height[Prev[b]] = Height[b] - 1
        BY <1>8, <2>1, ParentChain
    <2>4. CASE Prev[b] \in ToValidate(got)
        <3>1. ASSUME NEW a \in ToValidate(got), Height[a] <= Height[Prev[b]] PROVE a \in BodyValid
            <4>1. Height[a] \in Nat
                BY <1>3, <1>5 DEF ToValidate
            <4>2. Height[a] <= Height[b]
                BY <2>1, <2>3, <3>1, <4>1
            <4> QED
                BY <4>2 DEF Added
        <3>2. Prev[b] \in A
            BY <1>6, <2>4, <3>1 DEF Added
        <3> QED
            BY <2>1, <2>3, <3>2
    <2> QED
        BY <2>2, <2>4
<1>9. ASSUME NEW a \in A, NEW b \in A, Height[a] < Height[b] PROVE Weight[a] < Weight[b]
    <2> DEFINE m == Height[a]
               k == Height[b]
    <2>1. /\ a \in got /\ b \in got /\ m \in i..j /\ k \in i..j /\ m < k
          /\ a = Ancestor[t][m] /\ b = Ancestor[t][k] /\ b \in Rooted /\ b \in HeaderValid
        BY <1>5, <1>6, <1>9
    <2>2. PICK c \in got \ stored : Height[c] <= Height[a]
        BY <1>6
    <2>3. Height[c] \in Nat
        BY <1>3, <1>5, <2>2
    <2> HIDE DEF m, k
    <2>4. m \in Heights /\ k - 1 \in m..j /\ k > 0 /\ k \in 0..Height[t] /\ k - 1 \in 0..k
        BY <1>3, <1>4, <2>1, Constants DEF Heights
    <2>5. ASSUME NEW h \in m..j PROVE Ancestor[t][h] \in HeaderValid
        <3>1. h \in i..j /\ m <= h /\ h \in Nat
            BY <1>3, <2>1
        <3>2. Ancestor[t][h] \in got /\ Height[c] <= Height[Ancestor[t][h]]
            BY <1>2, <1>3, <1>4, <2>1, <2>2, <2>3, <3>1 DEF m
        <3>3. Ancestor[t][h] \in ToValidate(got)
            BY <2>2, <3>2 DEF ToValidate
        <3> QED
            BY <1>6, <3>3 DEF PreValidates
    <2>6. Weight[Ancestor[t][m]] <= Weight[Ancestor[t][k - 1]]
        BY <1>2, <2>4, <2>5, WeightsGrow
    <2>7. Ancestor[t][k - 1] = Prev[b] /\ Weight[Prev[b]] < Weight[b] /\ Prev[b] \in Blocks
        <3>1. Ancestor[b][k - 1] = Ancestor[t][k - 1]
            BY <2>1, <2>4, AncestorAssumption
        <3>2. Ancestor[b][k - 1] = Prev[b]
            BY <2>1, <2>4, AncestorAssumption DEF k
        <3>3. Prev[b] \in Blocks /\ Weight[Prev[b]] < Weight[b]
            BY <2>1, <2>4, HeaderWeights DEF k
        <3> QED
            BY <3>1, <3>2, <3>3
    <2>8. Weight[a] \in Nat /\ Weight[b] \in Nat /\ Weight[Prev[b]] \in Nat
        BY <1>5, <2>1, <2>7, Constants
    <2> QED
        BY <2>1, <2>6, <2>7, <2>8
<1>10. ASSUME NEW a \in A, NEW b \in A, Height[a] = Height[b] PROVE a = b
    BY <1>5, <1>6, <1>10
<1> DEFINE n == MaxHeight + 1
           Below(k) == {b \in A : Height[b] < k}
           Heavier(k) == {b \in Below(k) : Weight[b] > PeakWeight}
           Best(H) == IF H = {} THEN peak
                      ELSE CHOOSE b \in H : \A a \in H : Weight[a] <= Weight[b]
           PeakAt(k) == Best(Heavier(k))
           S == [k \in 0..n |-> stored \cup Below(k)]
           P == [k \in 0..n |-> PeakAt(k)]
<1>11. ASSUME NEW b \in A PROVE Height[b] \in 0..MaxHeight /\ Weight[b] \in Nat /\ Weight[b] > 0
    <2>1. Height[b] \in 0..MaxHeight
        BY <1>3, <1>5, <1>6
    <2> QED
        BY <1>6, <2>1, HeaderWeights
<1>12. stored \subseteq Blocks /\ peak \in BlockOrNone /\ A \subseteq Blocks
    BY <1>5, <1>6, Constants DEF StoredChains, ChainOK, BlockOrNone
<1>13. PeakWeight \in Nat /\ (peak = NONE => PeakWeight = 0) /\ (peak # NONE => PeakWeight = Weight[peak])
    BY <1>12, Constants DEF PeakWeight, BlockOrNone
<1>14. ASSUME NEW k \in 0..n, Heavier(k) # {}
       PROVE  /\ PeakAt(k) \in Heavier(k)
              /\ \A a \in Heavier(k) : Weight[a] <= Weight[PeakAt(k)]
    <2>1. Heavier(k) \in SUBSET Blocks /\ Heavier(k) \subseteq A
        BY <1>12
    <2>2. PICK b \in Heavier(k) : \A a \in Heavier(k) : Height[a] <= Height[b]
        <3> HIDE DEF Heavier
        <3> QED
            BY <1>14, <2>1, HighestBlock
    <2>3. ASSUME NEW a \in Heavier(k) PROVE Weight[a] <= Weight[b]
        <3>1. a \in A /\ b \in A /\ Height[a] <= Height[b]
            BY <2>1, <2>2
        <3>2. Weight[a] \in Nat /\ Weight[b] \in Nat /\ Height[a] \in Nat /\ Height[b] \in Nat
            BY <1>11, <3>1
        <3>3. CASE Height[a] = Height[b]
            BY <1>10, <3>1, <3>2, <3>3
        <3>4. CASE Height[a] < Height[b]
            BY <1>9, <3>1, <3>2, <3>4
        <3> QED
            BY <3>1, <3>2, <3>3, <3>4
    <2>4. \E c \in Heavier(k) : \A a \in Heavier(k) : Weight[a] <= Weight[c]
        BY <2>2, <2>3
    <2> HIDE DEF Heavier
    <2> QED
        BY <1>14, <2>4
<1>15. /\ stored \cup Below(0) = stored /\ stored \cup Below(n) = stored'
       /\ PeakAt(0) = peak /\ PeakAt(n) = peak'
    <2>1. Below(0) = {}
        <3>1. \A b \in A : ~(Height[b] < 0)
            BY <1>11
        <3> QED
            BY <3>1
    <2>2. Below(n) = A
        <3>1. \A b \in A : Height[b] < n
            BY <1>3, <1>11
        <3> QED
            BY <3>1
    <2>3. PeakAt(0) = peak
        BY <2>1
    <2>4. PeakAt(n) = PeakAfter(got)
        <3>1. Heavier(n) = {b \in Added(got) : Weight[b] > PeakWeight}
            BY <2>2
        <3>2. PeakAfter(got) = Best({b \in Added(got) : Weight[b] > PeakWeight})
            BY DEF PeakAfter
        <3> HIDE DEF Best
        <3> QED
            BY <3>1, <3>2
    <2> QED
        BY <2>1, <2>2, <2>3, <2>4 DEF ReceiveBlockBatch
<1>16. ASSUME NEW k \in 0..(n - 1)
       PROVE  \/ stored \cup Below(k + 1) = stored \cup Below(k) /\ PeakAt(k + 1) = PeakAt(k)
              \/ Accepts(stored \cup Below(k), PeakAt(k), stored \cup Below(k + 1), PeakAt(k + 1))
    <2>0. k \in Nat /\ k \in 0..n /\ k + 1 \in 0..n
        BY <1>3
    <2>1. CASE \A b \in A : Height[b] # k
        <3>1. \A b \in A : Height[b] < k + 1 <=> Height[b] < k
            BY <1>11, <2>0, <2>1
        <3>2. Below(k + 1) = Below(k)
            BY <3>1
        <3> HIDE DEF Best, Below
        <3> QED
            BY <3>2
    <2>2. ASSUME NEW b \in A, Height[b] = k
          PROVE  Accepts(stored \cup Below(k), PeakAt(k), stored \cup Below(k + 1), PeakAt(k + 1))
        <3>1. Below(k + 1) = Below(k) \cup {b} /\ b \notin Below(k)
            <4>1. \A a \in A : Height[a] < k + 1 <=> Height[a] < k \/ a = b
                BY <1>10, <1>11, <2>0, <2>2
            <4>2. ~(Height[b] < k)
                BY <2>0, <2>2
            <4> QED
                BY <4>1, <4>2
        <3>2. b \in (Rooted \cap HeaderValid \cap BodyValid) \ (stored \cup Below(k))
            BY <1>5, <1>6, <1>7, <3>1
        <3>3. Height[b] > 0 => Prev[b] \in stored \cup Below(k)
            BY <1>8, <2>2
        <3>4. \A a \in Below(k) : Weight[a] < Weight[b] /\ Weight[a] \in Nat
            BY <1>9, <1>11, <2>2
        <3>5. Weight[b] \in Nat /\ Weight[b] > 0
            BY <1>11
        <3>6. PeakAt(k + 1) = IF PeakAt(k) = NONE \/ Weight[b] > Weight[PeakAt(k)] THEN b ELSE PeakAt(k)
            <4>1. CASE Weight[b] > PeakWeight
                <5>1. Heavier(k + 1) = Heavier(k) \cup {b}
                    BY <3>1, <4>1
                <5>2. Heavier(k + 1) # {} /\ b \in Heavier(k + 1)
                    BY <5>1
                <5>3. PeakAt(k + 1) \in Heavier(k + 1) /\ Weight[b] <= Weight[PeakAt(k + 1)]
                    BY <1>14, <2>0, <5>2
                <5>4. PeakAt(k + 1) = b
                    <6> HIDE DEF PeakAt
                    <6>1. PeakAt(k + 1) \in Below(k) \cup {b}
                        BY <5>1, <5>3
                    <6> QED
                        BY <3>4, <3>5, <5>3, <6>1
                <5>5. PeakAt(k) = NONE \/ Weight[b] > Weight[PeakAt(k)]
                    <6>1. CASE Heavier(k) = {}
                        BY <1>13, <4>1, <6>1
                    <6>2. CASE Heavier(k) # {}
                        <7>1. PeakAt(k) \in Below(k)
                            BY <1>14, <2>0, <6>2
                        <7> HIDE DEF PeakAt
                        <7> QED
                            BY <3>4, <3>5, <7>1
                    <6> QED
                        BY <6>1, <6>2
                <5> HIDE DEF PeakAt
                <5> QED
                    BY <5>4, <5>5
            <4>2. CASE ~(Weight[b] > PeakWeight)
                <5>1. Heavier(k + 1) = {} /\ Heavier(k) = {}
                    <6>1. ASSUME NEW a \in Below(k + 1) PROVE ~(Weight[a] > PeakWeight)
                        BY <1>13, <3>1, <3>4, <3>5, <4>2
                    <6> QED
                        BY <3>1, <6>1
                <5>2. PeakAt(k + 1) = peak /\ PeakAt(k) = peak
                    BY <5>1
                <5>3. peak # NONE /\ ~(Weight[b] > Weight[peak])
                    BY <1>13, <3>5, <4>2
                <5> HIDE DEF PeakAt
                <5> QED
                    BY <5>2, <5>3
            <4> QED
                BY <4>1, <4>2
        <3> HIDE DEF PeakAt, Below
        <3> QED
            BY <3>1, <3>2, <3>3, <3>6 DEF Accepts
    <2> QED
        BY <2>1, <2>2
<1>17. S \in [0..n -> SUBSET Blocks]
    BY <1>12
<1>18. P \in [0..n -> BlockOrNone]
    <2>1. ASSUME NEW k \in 0..n PROVE PeakAt(k) \in BlockOrNone
        <3>1. CASE Heavier(k) = {}
            BY <1>12, <3>1
        <3>2. CASE Heavier(k) # {}
            <4>1. PeakAt(k) \in A
                BY <1>14, <3>2
            <4> QED
                BY <1>12, <4>1 DEF BlockOrNone
        <3> QED
            BY <3>1, <3>2
    <2> HIDE DEF PeakAt
    <2> QED
        BY <2>1
<1>19. /\ n \in Nat
       /\ \A k \in 0..n : S[k] = stored \cup Below(k) /\ P[k] = PeakAt(k)
    BY <1>3
<1> HIDE DEF S, P, Below, PeakAt, Best, Heavier
<1>20. S[0] = stored /\ S[n] = stored' /\ P[0] = peak /\ P[n] = peak'
    <2>1. 0 \in 0..n /\ n \in 0..n
        BY <1>19
    <2> QED
        BY <1>15, <1>19, <2>1
<1>21. ASSUME NEW k \in 0..(n - 1)
       PROVE  \/ S[k + 1] = S[k] /\ P[k + 1] = P[k]
              \/ Accepts(S[k], P[k], S[k + 1], P[k + 1])
    <2>1. k \in 0..n /\ k + 1 \in 0..n
        BY <1>19
    <2> QED
        BY <1>16, <1>19, <2>1
<1> HIDE DEF n
<1> QED
    BY <1>17, <1>18, <1>19, <1>20, <1>21 DEF OneByOne

-----------------------------------------------------------------------------
(* Where blocks come from *)

\* The peaks that peers may have, the blocks on their chains, and with those of our own
\* timelord all blocks that the node may come to add.
Tips == UNION {PeerTips[p] : p \in Peers}
Offered == UNION {ChainOf(t) : t \in Tips}
Known == Offered \cup Infusable

\* Whatever the node holds it has from a peer or from its timelord.
TipsOffered == \A p \in Peers : tip[p] \in PeerTips[p]
PeaksOffered == \A p \in Peers : peer_to_peak[p] \in Tips \cup {NONE}
GotKnown == \A h \in Handlers : handler[h].got \subseteq Known
TargetsOffered == \A s \in Syncs : sync[s].block \in Tips \cup {NONE}
Sent == TipsOffered /\ PeaksOffered /\ GotKnown /\ TargetsOffered

\* These blocks have a chain.
LEMMA KnownRooted ==
    Tips \subseteq Rooted /\ Offered \subseteq Rooted /\ Known \subseteq Rooted
<1>1. Tips \subseteq Rooted
    BY SyncAssumption DEF Tips
<1>2. Offered \subseteq Rooted
    BY <1>1, Ancestors DEF Offered, ChainOf
<1> QED
    BY <1>1, <1>2, SyncAssumption DEF Known

\* The answers of a peer are on its chain.
LEMMA AnswersOffered ==
    ASSUME TipsOffered, NEW p \in Peers
    PROVE  /\ tip[p] \in Tips
           /\ \A height : \A a \in Answers(p, height) \ {NONE} : a \in Offered
           /\ \A first \in Nat : \A last : \A got \in BatchAnswers(p, first, last) :
                 last \in Nat => got \subseteq Offered
<1>1. tip[p] \in Tips /\ tip[p] \in Rooted
    BY KnownRooted DEF TipsOffered, Tips
<1>2. Height[tip[p]] \in Nat /\ ChainOf(tip[p]) \subseteq Offered
    BY <1>1, Constants DEF Offered, Heights
<1>3. ASSUME NEW height, NEW a \in Answers(p, height) \ {NONE} PROVE a \in Offered
    BY <1>2 DEF Answers, ChainOf
<1>4. ASSUME NEW first \in Nat, NEW last \in Nat, NEW got \in BatchAnswers(p, first, last)
      PROVE  got \subseteq Offered
    <2>1. CASE got = {}
        BY <2>1
    <2>2. CASE got # {}
        <3>1. last <= Height[tip[p]] /\ got = {Ancestor[tip[p]][h] : h \in first..last}
            BY <2>2 DEF BatchAnswers
        <3>2. \A h \in first..last : h \in 0..Height[tip[p]]
            BY <1>2, <3>1
        <3> QED
            BY <1>2, <3>1, <3>2 DEF ChainOf
    <2> QED
        BY <2>1, <2>2
<1> QED
    BY <1>1, <1>3, <1>4

\* The records in which handlers and syncs are left have no blocks.
LEMMA EmptyHanded ==
    ASSUME NEW h \in Handlers
    PROVE  /\ Free.got = {} /\ Serving(h).got = {} /\ Raising(h).got = {}
           /\ NoSync.block = NONE /\ Finishing.block = NONE
           /\ Finishing.pc = "finish" /\ NoSync.pc = "free"
<1>1. Free.got = {} /\ NoSync.block = NONE /\ NoSync.pc = "free"
    BY DEF Free, NoSync
<1>2. Finishing.block = NONE /\ Finishing.pc = "finish"
    BY DEF Finishing, NoSync
<1>3. Serving(h).got = {}
    BY DEF Serving, Free
<1>4. Raising(h).got = {}
    BY <1>1 DEF Raising, Serving, Free
<1> QED
    BY <1>1, <1>2, <1>3, <1>4

\* A handler drops blocks and takes offered ones.
HandlersTake == \A g \in Handlers : handler'[g].got \subseteq handler[g].got \cup Known

\* One handler goes on.
LEMMA OneTakes ==
    ASSUME HandlerShape, NEW h \in Handlers, NEW new, Handle(h, new),
           new.got \subseteq handler[h].got \cup Known
    PROVE  HandlersTake
<1>1. handler' = [handler EXCEPT ![h] = new]
    BY DEF Handle
<1>2. \A g \in Handlers : handler'[g] = IF g = h THEN new ELSE handler[g]
    BY <1>1 DEF HandlerShape
<1> QED
    BY <1>2 DEF HandlersTake

\* A connection closes.
LEMMA LosersTake ==
    ASSUME HandlerShape, NEW p, NEW g \in Handlers
    PROVE  HandlersWithout(p)[g].got = handler[g].got
<1>1. handler[g] \in HandlerType
    BY HandlerFacts
<1>2. [handler[g] EXCEPT !.open = FALSE].got = handler[g].got
    BY <1>1 DEF HandlerType
<1> QED
    BY <1>2 DEF HandlersWithout

\* The blocks of the handlers, through the steps of a handler.
LEMMA HandlerTakes ==
    ASSUME SyncInv, Sent, NEW h \in Handlers, HandlerStep(h)
    PROVE  HandlersTake
<1> USE DEF SyncInv, Shape, Sent
<1>1. HandlerOK(handler[h]) /\ handler[h] \in HandlerType
    BY HandlerFacts
<1>2. Free.got = {} /\ Serving(h).got = {} /\ Raising(h).got = {}
    BY EmptyHanded
<1>3. ASSUME Handle(h, Free) \/ Handle(h, Raising(h)) PROVE HandlersTake
    BY <1>2, <1>3, OneTakes
<1>4. /\ \A pc : [handler[h] EXCEPT !.pc = pc].got = handler[h].got
      /\ \A pc : [Free EXCEPT !.pc = pc].got = {}
    BY <1>1 DEF HandlerType, Free
<1>5. CASE Asked(h) \/ BatchEnds(h) \/ BatchRefused(h) \/ SyncRefused(h) \/ RespondEnds(h)
           \/ RespondRaises(h) \/ BacktrackFails(h) \/ \E s \in Syncs : SyncStarts(h, s)
    BY <1>3, <1>5 DEF Asked, BatchEnds, BatchRefused, SyncRefused, RespondEnds, RespondRaises,
                      BacktrackFails, SyncStarts
<1>6. CASE Raised(h)
    <2>1. CASE handler[h].open
        <3>1. handler' = [HandlersWithout(handler[h].peer) EXCEPT ![h] = Free]
            BY <1>6, <2>1 DEF Raised
        <3>2. \A g \in Handlers :
                 handler'[g] = IF g = h THEN Free ELSE HandlersWithout(handler[h].peer)[g]
            BY <3>1 DEF HandlersWithout
        <3> QED
            BY <1>2, <3>2, LosersTake DEF HandlersTake
    <2>2. CASE ~handler[h].open
        BY <1>3, <1>6, <2>2 DEF Raised
    <2> QED
        BY <2>1, <2>2
<1>7. CASE BacktrackConnects(h) \/ BacktrackGoesOn(h)
    <2>0. handler[h].pc = "backtrack"
        BY <1>7 DEF BacktrackConnects, BacktrackGoesOn, Backtracks
    <2>1. handler[h].peer \in Peers
        BY <1>1, <2>0 DEF HandlerOK, WithPeer
    <2>2. ASSUME NEW a \in AnswersTo(h, handler[h].curr) \ {NONE} PROVE a \in Known
        BY <2>1, AnswersOffered DEF AnswersTo, Known
    <2>3. CASE BacktrackConnects(h)
        <3>1. PICK a \in AnswersTo(h, handler[h].curr) \ {NONE} :
                 Handle(h, [Serving(h) EXCEPT !.pc = "respond", !.got = handler[h].got \cup {a}])
            BY <2>3 DEF BacktrackConnects
        <3>2. [Serving(h) EXCEPT !.pc = "respond", !.got = handler[h].got \cup {a}].got
                = handler[h].got \cup {a}
            BY DEF Serving, Free
        <3> QED
            BY <2>2, <3>1, <3>2, OneTakes
    <2>4. CASE BacktrackGoesOn(h)
        <3>1. PICK a \in AnswersTo(h, handler[h].curr) \ {NONE} :
                 Handle(h, [handler[h] EXCEPT !.curr = @ - 1, !.got = @ \cup {a}])
            BY <2>4 DEF BacktrackGoesOn
        <3>2. [handler[h] EXCEPT !.curr = @ - 1, !.got = @ \cup {a}].got = handler[h].got \cup {a}
            BY <1>1 DEF HandlerType
        <3> QED
            BY <2>2, <3>1, <3>2, OneTakes
    <2> QED
        BY <1>7, <2>3, <2>4
<1>8. CASE BacktrackTooDeep(h)
    <2>1. Handle(h, [handler[h] EXCEPT !.pc = "far", !.curr = 0, !.got = {}])
        BY <1>8 DEF BacktrackTooDeep
    <2>2. [handler[h] EXCEPT !.pc = "far", !.curr = 0, !.got = {}].got = {}
        BY <1>1 DEF HandlerType
    <2> QED
        BY <2>1, <2>2, OneTakes
<1>9. CASE RespondSkips(h) \/ RespondReturns(h) \/ RespondOrphan(h) \/ RespondAnnounces(h)
    <2>1. Handle(h, NextResponse(h))
        BY <1>9 DEF RespondSkips, RespondReturns, RespondOrphan, RespondAnnounces
    <2>2. NextResponse(h).got = handler[h].got \ {Responding(h)}
        BY <1>1 DEF NextResponse, HandlerType
    <2> QED
        BY <2>1, <2>2, OneTakes
<1>10. CASE RespondWaits(h) \/ RespondNewPeak(h)
    <2>1. PICK pc \in {"add", "post"} : Handle(h, [handler[h] EXCEPT !.pc = pc])
        BY <1>10 DEF RespondWaits, RespondNewPeak
    <2> QED
        BY <1>4, <2>1, OneTakes
<1>11. CASE NeedsLongSync(h)
    BY <1>4, <1>11, OneTakes DEF NeedsLongSync
<1>12. CASE BatchBegins(h)
    <2>1. PICK pc, curr : Handle(h, [handler[h] EXCEPT !.pc = pc, !.our = 0, !.curr = curr])
        BY <1>12 DEF BatchBegins
    <2>2. [handler[h] EXCEPT !.pc = pc, !.our = 0, !.curr = curr].got = handler[h].got
        BY <1>1 DEF HandlerType
    <2> QED
        BY <2>1, <2>2, OneTakes
<1>13. CASE BatchFirst(h)
    <2>1. \/ Handle(h, Raising(h))
          \/ Handle(h, [Free EXCEPT !.pc = "start"])
          \/ Handle(h, [handler[h] EXCEPT !.pc = "fetch"])
        BY <1>13 DEF BatchFirst
    <2> QED
        BY <1>3, <1>4, <2>1, OneTakes
<1>14. CASE BatchFetch(h)
    <2>1. PICK got \in BatchAnswers(handler[h].peer, handler[h].curr,
                                    BatchEnd(handler[h].curr, Height[handler[h].block])) :
             \/ Handle(h, Raising(h))
             \/ Handle(h, [handler[h] EXCEPT !.pc = "batch", !.got = got])
        BY <1>14 DEF BatchFetch
    <2>2. handler[h].peer \in Peers /\ handler[h].block \in Blocks /\ handler[h].curr \in Nat
        BY <1>1, <1>14, Constants DEF BatchFetch, HandlerOK, WithPeer, WithBlock, HandlerType
    <2>3. BatchEnd(handler[h].curr, Height[handler[h].block]) \in Nat
        BY <2>2, Constants DEF BatchEnd, Heights
    <2>4. got \subseteq Known
        BY <2>1, <2>2, <2>3, AnswersOffered DEF Known
    <2>5. [handler[h] EXCEPT !.pc = "batch", !.got = got].got = got
        BY <1>1 DEF HandlerType
    <2> QED
        BY <1>3, <2>1, <2>4, <2>5, OneTakes
<1>15. CASE BatchReceived(h) \/ BatchAnnounces(h)
    <2>1. \/ Handle(h, Raising(h)) \/ Handle(h, NextBatch(h))
          \/ Handle(h, [handler[h] EXCEPT !.pc = "batchpost"])
        BY <1>15 DEF BatchReceived, BatchAnnounces
    <2>2. NextBatch(h).got = {}
        BY <1>1 DEF NextBatch, HandlerType
    <2> QED
        BY <1>3, <1>4, <2>1, <2>2, OneTakes
<1> QED
    BY <1>5, <1>6, <1>7, <1>8, <1>9, <1>10, <1>11, <1>12, <1>13, <1>14, <1>15 DEF HandlerStep

\* What a step does to the peaks of the peers, and to each _sync task: the task downloads as
\* before, or it is (or ends) elsewhere, or it begins to download.
PeaksTold == \A p \in Peers : peer_to_peak'[p] \in {peer_to_peak[p], tip[p], NONE}
SyncAsBefore(r) ==
    /\ sync'[r].pc = sync[r].pc /\ sync'[r].block = sync[r].block
    /\ sync'[r].fork = sync[r].fork
    /\ sync'[r].curr \in {sync[r].curr, sync[r].curr + BATCH_SIZE}
SyncElsewhere(r) ==
    /\ sync'[r].pc \notin {"lock", "fetch"}
    /\ sync'[r].block \in {sync[r].block, NONE} \cup Tips
SyncsMove ==
    \A r \in Syncs : SyncAsBefore(r) \/ SyncElsewhere(r) \/ ProofHolds(r) \/ SyncFromForkPoint(r)

\* The syncs when they do not change, and when a connection closes.
LEMMA SyncsAsBefore ==
    ASSUME SyncShape, sync' = sync \/ \E p : sync' = SyncsWithout(p)
    PROVE  \A r \in Syncs : SyncAsBefore(r)
<1>1. CASE sync' = sync
    BY <1>1 DEF SyncAsBefore
<1>2. ASSUME NEW p, sync' = SyncsWithout(p), NEW r \in Syncs PROVE SyncAsBefore(r)
    <2>1. sync[r] \in SyncType
        BY SyncFacts
    <2>2. sync'[r] = [sync[r] EXCEPT !.peers = @ \ {p}, !.left = @ \ {p}]
        BY <1>2 DEF SyncsWithout
    <2> QED
        BY <2>1, <2>2 DEF SyncAsBefore, SyncType
<1> QED
    BY <1>1, <1>2

\* A peer is forgotten, or nothing is.
LEMMA ForgottenTold ==
    ASSUME PeaksShape, UNCHANGED peer_to_peak \/ \E p \in Peers : PeerDisconnected(p)
    PROVE  PeaksTold
BY DEF PeaksShape, PeerDisconnected, PeaksTold

\* The rest of what the steps of a handler do.
LEMMA HandlerFrames ==
    ASSUME SyncInv, NEW h \in Handlers, HandlerStep(h)
    PROVE  UNCHANGED tip /\ PeaksTold /\ SyncsMove
<1> USE DEF SyncInv, Shape
<1>1. ASSUME UNCHANGED <<tip, peer_to_peak, sync>>
      PROVE  UNCHANGED tip /\ PeaksTold /\ SyncsMove
    BY <1>1, SyncsAsBefore, ForgottenTold DEF SyncsMove
<1> USE DEF network, peaks
<1>2. CASE \/ Asked(h)
           \/ BacktrackFails(h) \/ BacktrackConnects(h) \/ BacktrackGoesOn(h) \/ BacktrackTooDeep(h)
    BY <1>1, <1>2 DEF Asked, BacktrackFails, BacktrackConnects, BacktrackGoesOn, BacktrackTooDeep
<1>3. CASE \/ RespondSkips(h) \/ RespondWaits(h) \/ RespondReturns(h) \/ RespondRaises(h)
           \/ RespondOrphan(h) \/ RespondNewPeak(h) \/ RespondAnnounces(h) \/ RespondEnds(h)
    BY <1>1, <1>3 DEF RespondSkips, RespondWaits, RespondReturns, RespondRaises, RespondOrphan,
                      RespondNewPeak, RespondAnnounces, RespondEnds
<1>4. CASE \/ NeedsLongSync(h) \/ BatchRefused(h) \/ BatchBegins(h) \/ BatchFirst(h)
           \/ BatchFetch(h) \/ BatchReceived(h) \/ BatchAnnounces(h) \/ BatchEnds(h) \/ SyncRefused(h)
    BY <1>1, <1>4 DEF NeedsLongSync, BatchRefused, BatchBegins, BatchFirst, BatchFetch,
                      BatchReceived, BatchAnnounces, BatchEnds, SyncRefused
<1>5. CASE Raised(h)
    <2>1. UNCHANGED tip
        BY <1>5 DEF Raised
    <2>2. handler[h].peer \in Peers
        BY <1>5 DEF Raised, HandlerShape, HandlerOK, WithPeer
    <2>3. /\ UNCHANGED peer_to_peak \/ PeerDisconnected(handler[h].peer)
          /\ sync' = sync \/ sync' = SyncsWithout(handler[h].peer)
        BY <1>5 DEF Raised
    <2> QED
        BY <2>1, <2>2, <2>3, SyncsAsBefore, ForgottenTold DEF SyncsMove
<1>6. ASSUME NEW s \in Syncs, SyncStarts(h, s) PROVE UNCHANGED tip /\ PeaksTold /\ SyncsMove
    <2>1. /\ UNCHANGED <<tip, peer_to_peak>>
          /\ sync' = [sync EXCEPT ![s] = [NoSync EXCEPT !.pc = "collect"]]
        BY <1>6 DEF SyncStarts
    <2>2. [NoSync EXCEPT !.pc = "collect"].pc = "collect" /\ [NoSync EXCEPT !.pc = "collect"].block = NONE
        BY DEF NoSync
    <2>3. ASSUME NEW r \in Syncs PROVE SyncAsBefore(r) \/ SyncElsewhere(r)
        <3>1. sync'[r] = IF r = s THEN [NoSync EXCEPT !.pc = "collect"] ELSE sync[r]
            BY <2>1 DEF SyncShape
        <3> QED
            BY <2>2, <3>1 DEF SyncAsBefore, SyncElsewhere
    <2> QED
        BY <2>1, <2>3, ForgottenTold DEF SyncsMove
<1> QED
    BY <1>2, <1>3, <1>4, <1>5, <1>6 DEF HandlerStep

\* A message arrives, or something happens in the network.
LEMMA MessageFrames ==
    ASSUME SyncInv, Sent, Network \/ \E h \in Handlers : Message(h)
    PROVE  /\ \A p \in Peers : tip'[p] \in PeerTips[p]
           /\ PeaksTold /\ SyncsMove /\ HandlersTake
<1> USE DEF SyncInv, Shape, Sent
<1>1. ASSUME UNCHANGED <<tip, sync>>
      PROVE  (\A p \in Peers : tip'[p] \in PeerTips[p]) /\ SyncsMove
    BY <1>1, SyncsAsBefore DEF TipsOffered, SyncsMove
<1>2. ASSUME UNCHANGED handler PROVE HandlersTake
    BY <1>2 DEF HandlersTake
<1>3. ASSUME NEW h \in Handlers, Message(h)
      PROVE  (\A p \in Peers : tip'[p] \in PeerTips[p]) /\ PeaksTold /\ SyncsMove /\ HandlersTake
    <2>1. CASE Infuse(h)
        <3>1. UNCHANGED <<tip, sync, peer_to_peak>>
            BY <2>1 DEF Infuse, network, peaks
        <3>2. PICK b \in Infusable : Handle(h, [Free EXCEPT !.pc = "respond", !.got = {b}])
            BY <2>1 DEF Infuse
        <3>3. [Free EXCEPT !.pc = "respond", !.got = {b}].got = {b}
            BY DEF Free
        <3>4. HandlersTake
            BY <3>2, <3>3, OneTakes DEF Known
        <3> QED
            BY <1>1, <3>1, <3>4, ForgottenTold
    <2>2. ASSUME NEW p \in Serves[h] \ {NONE},
                 \/ NewPeakIgnored(h, p) \/ NewPeakWhileSyncing(h, p)
                 \/ NewPeakNear(h, p) \/ NewPeakFar(h, p)
          PROVE  (\A q \in Peers : tip'[q] \in PeerTips[q]) /\ PeaksTold /\ SyncsMove /\ HandlersTake
        <3>1. p \in Peers
            BY <2>2, SyncAssumption
        <3>2. UNCHANGED <<tip, sync>> /\ PeerHasPeak(tip[p], p)
            BY <2>2 DEF NewPeakIgnored, NewPeakWhileSyncing, NewPeakNear, NewPeakFar, network
        <3>3. PeaksTold
            BY <3>1, <3>2 DEF PeerHasPeak, PeaksTold, PeaksShape
        <3>4. HandlersTake
            <4>1. CASE UNCHANGED handler
                BY <1>2, <4>1
            <4>2. CASE NewPeakWhileSyncing(h, p) /\ ~UNCHANGED handler
                <5>1. Handle(h, [Free EXCEPT !.pc = "ask", !.peer = p, !.block = target])
                    BY <4>2 DEF NewPeakWhileSyncing
                <5>2. [Free EXCEPT !.pc = "ask", !.peer = p, !.block = target].got = {}
                    BY DEF Free
                <5> QED
                    BY <5>1, <5>2, OneTakes
            <4>3. CASE NewPeakNear(h, p)
                <5>1. Handle(h, [Free EXCEPT !.pc = "backtrack", !.peer = p, !.block = tip[p],
                                             !.our = PeakHeight, !.curr = Height[tip[p]]])
                    BY <4>3 DEF NewPeakNear
                <5>2. [Free EXCEPT !.pc = "backtrack", !.peer = p, !.block = tip[p],
                                   !.our = PeakHeight, !.curr = Height[tip[p]]].got = {}
                    BY DEF Free
                <5> QED
                    BY <5>1, <5>2, OneTakes
            <4>4. CASE NewPeakFar(h, p)
                <5>1. Handle(h, [Free EXCEPT !.pc = "far", !.peer = p, !.block = tip[p],
                                             !.our = PeakHeight])
                    BY <4>4 DEF NewPeakFar
                <5>2. [Free EXCEPT !.pc = "far", !.peer = p, !.block = tip[p], !.our = PeakHeight].got = {}
                    BY DEF Free
                <5> QED
                    BY <5>1, <5>2, OneTakes
            <4> QED
                BY <2>2, <4>1, <4>2, <4>3, <4>4 DEF NewPeakIgnored
        <3> QED
            BY <1>1, <3>2, <3>3, <3>4
    <2> QED
        BY <1>3, <2>1, <2>2 DEF Message
<1>4. ASSUME NEW p \in Peers, Connect(p) \/ Disconnect(p) \/ PeerAdvances(p)
      PROVE  (\A q \in Peers : tip'[q] \in PeerTips[q]) /\ PeaksTold /\ SyncsMove /\ HandlersTake
    <2>1. CASE Connect(p)
        BY <1>1, <1>2, <2>1, ForgottenTold DEF Connect, peaks
    <2>2. CASE Disconnect(p)
        <3>1. /\ PeerDisconnected(p) /\ handler' = HandlersWithout(p)
              /\ sync' = SyncsWithout(p) /\ UNCHANGED tip
            BY <2>2 DEF Disconnect
        <3>2. HandlersTake
            BY <3>1, LosersTake DEF HandlersTake
        <3> QED
            BY <3>1, <3>2, SyncsAsBefore, ForgottenTold DEF SyncsMove, TipsOffered
    <2>3. CASE PeerAdvances(p)
        <3>1. UNCHANGED <<peer_to_peak, handler, sync>>
            BY <2>3 DEF PeerAdvances, peaks
        <3>2. \A q \in Peers : tip'[q] \in PeerTips[q]
            BY <2>3 DEF PeerAdvances, NetworkShape, TipsOffered
        <3> QED
            BY <1>2, <3>1, <3>2, SyncsAsBefore, ForgottenTold DEF SyncsMove
    <2> QED
        BY <1>4, <2>1, <2>2, <2>3
<1> QED
    BY <1>3, <1>4 DEF Network

\* A step of _sync task s.
LEMMA SyncFrames ==
    ASSUME SyncInv, Sent, NEW s \in Syncs, SyncStep(s)
    PROVE  UNCHANGED tip /\ PeaksTold /\ SyncsMove /\ HandlersTake
<1> USE DEF SyncInv, Shape, Sent
<1>1. sync[s] \in SyncType /\ SyncOK(sync[s])
    BY SyncFacts
<1>2. /\ Finishing.block = NONE /\ Finishing.pc = "finish"
      /\ NoSync.block = NONE /\ NoSync.pc = "free"
    BY DEF Finishing, NoSync
<1>3. ASSUME UNCHANGED handler PROVE HandlersTake
    BY <1>3 DEF HandlersTake
<1>4. ASSUME NEW p, handler' = HandlersWithout(p) PROVE HandlersTake
    BY <1>4, LosersTake DEF HandlersTake
\* Task s goes on with a new record, the others stay.
<1>5. ASSUME NEW new, sync' = [sync EXCEPT ![s] = new], new.pc \notin {"lock", "fetch"},
             new.block \in {sync[s].block, NONE} \cup Tips
      PROVE  SyncsMove
    <2>1. \A r \in Syncs : sync'[r] = IF r = s THEN new ELSE sync[r]
        BY <1>5 DEF SyncShape
    <2> QED
        BY <1>5, <2>1 DEF SyncsMove, SyncAsBefore, SyncElsewhere
<1>6. ASSUME NEW closed \in SUBSET Peers, SyncFails(s, closed)
      PROVE  UNCHANGED tip /\ PeaksTold /\ SyncsMove /\ HandlersTake
    <2>1. UNCHANGED tip
        BY <1>6 DEF SyncFails
    <2>2. CASE closed = {}
        <3>1. sync' = [sync EXCEPT ![s] = Finishing] /\ UNCHANGED <<peer_to_peak, handler>>
            BY <1>6, <2>2 DEF SyncFails, peaks
        <3> QED
            BY <1>2, <1>3, <1>5, <2>1, <3>1, ForgottenTold
    <2>3. CASE closed # {}
        <3>1. PICK p \in closed : /\ PeerDisconnected(p) /\ handler' = HandlersWithout(p)
                                  /\ sync' = [SyncsWithout(p) EXCEPT ![s] = Finishing]
            BY <1>6, <2>3 DEF SyncFails
        <3>2. p \in Peers
            BY <3>1
        <3>3. ASSUME NEW r \in Syncs PROVE SyncAsBefore(r) \/ SyncElsewhere(r)
            <4>1. sync'[r] = IF r = s THEN Finishing
                             ELSE [sync[r] EXCEPT !.peers = @ \ {p}, !.left = @ \ {p}]
                BY <3>1 DEF SyncsWithout
            <4>2. sync[r] \in SyncType
                BY SyncFacts
            <4> QED
                BY <1>2, <4>1, <4>2 DEF SyncAsBefore, SyncElsewhere, SyncType
        <3> QED
            BY <1>4, <2>1, <3>1, <3>2, <3>3, ForgottenTold DEF SyncsMove
    <2> QED
        BY <2>2, <2>3
<1>7. CASE SyncFindsNoPeak(s) \/ ProofFails(s) \/ ProofTooLate(s)
    <2>1. sync[s].peers \in SUBSET Peers
        BY <1>1 DEF SyncType
    <2>2. PICK closed \in SUBSET Peers : SyncFails(s, closed)
        BY <1>7, <2>1 DEF SyncFindsNoPeak, ProofFails, ProofTooLate
    <2> QED
        BY <1>6, <2>2
<1>8. CASE SyncSelectsPeak(s)
    <2>1. /\ UNCHANGED <<tip, peer_to_peak, handler>>
          /\ \E b \in HeaviestPeaks :
                sync' = [sync EXCEPT ![s] = [@ EXCEPT !.pc = "gather", !.block = b,
                                                      !.peers = connected]]
        BY <1>8 DEF SyncSelectsPeak, network, peaks
    <2>2. PICK b \in HeaviestPeaks :
             sync' = [sync EXCEPT ![s] = [@ EXCEPT !.pc = "gather", !.block = b, !.peers = connected]]
        BY <2>1
    <2>3. b \in Tips
        BY <2>2 DEF HeaviestPeaks, KnownPeaks, PeaksOffered
    <2> DEFINE new == [sync[s] EXCEPT !.pc = "gather", !.block = b, !.peers = connected]
    <2>4. sync' = [sync EXCEPT ![s] = new] /\ new.pc = "gather" /\ new.block = b
        BY <1>1, <2>2 DEF SyncType
    <2> HIDE DEF new
    <2> QED
        BY <1>3, <1>5, <2>1, <2>3, <2>4, ForgottenTold
<1>9. CASE SyncGathers(s)
    <2>1. UNCHANGED <<tip, peer_to_peak, handler>>
        BY <1>9 DEF SyncGathers, network
    <2>2. PICK p : sync' = [sync EXCEPT ![s] = [@ EXCEPT !.pc = "proof", !.peers = {p}]]
        BY <1>9 DEF SyncGathers
    <2> DEFINE new == [sync[s] EXCEPT !.pc = "proof", !.peers = {p}]
    <2>3. sync' = [sync EXCEPT ![s] = new] /\ new.pc = "proof" /\ new.block = sync[s].block
        BY <1>1, <2>2 DEF SyncType
    <2> HIDE DEF new
    <2> QED
        BY <1>3, <1>5, <2>1, <2>3, ForgottenTold
<1>10. CASE ProofArrives(s)
    <2>1. UNCHANGED <<tip, peer_to_peak, handler>> /\ sync' = [sync EXCEPT ![s].pc = "validate"]
        BY <1>10 DEF ProofArrives, network, peaks
    <2> DEFINE new == [sync[s] EXCEPT !.pc = "validate"]
    <2>2. sync' = [sync EXCEPT ![s] = new] /\ new.pc = "validate" /\ new.block = sync[s].block
        BY <1>1, <2>1 DEF SyncType
    <2> HIDE DEF new
    <2> QED
        BY <1>3, <1>5, <2>1, <2>2, ForgottenTold
<1>11. CASE SyncGivesUp(s) \/ NobodyToSyncFrom(s) \/ SyncRaises(s) \/ SyncStops(s)
    <2>1. UNCHANGED <<tip, peer_to_peak, handler>> /\ sync' = [sync EXCEPT ![s] = Finishing]
        BY <1>11 DEF SyncGivesUp, NobodyToSyncFrom, SyncRaises, SyncStops, SyncLeavesLock, network,
                     peaks
    <2> QED
        BY <1>2, <1>3, <1>5, <2>1, ForgottenTold
<1>12. CASE FinishSync(s)
    <2>1. UNCHANGED <<tip, peer_to_peak, handler>> /\ sync' = [sync EXCEPT ![s] = NoSync]
        BY <1>12 DEF FinishSync, network
    <2> QED
        BY <1>2, <1>3, <1>5, <2>1, ForgottenTold
<1>13. CASE ProofHolds(s) \/ SyncFromForkPoint(s)
    <2>1. UNCHANGED <<tip, peer_to_peak, handler>> /\ \E new : sync' = [sync EXCEPT ![s] = new]
        BY <1>13 DEF ProofHolds, SyncFromForkPoint, StartBatches, network, peaks
    <2>2. ASSUME NEW r \in Syncs, r # s PROVE SyncAsBefore(r)
        <3>1. sync'[r] = sync[r]
            BY <2>1, <2>2 DEF SyncShape
        <3> QED
            BY <3>1 DEF SyncAsBefore
    <2> QED
        BY <1>3, <1>13, <2>1, <2>2, ForgottenTold DEF SyncsMove
<1>14. ASSUME NEW p \in Peers,
              SyncFetchFails(s, p) \/ SyncBatchInvalid(s, p) \/ SyncBatchAdded(s, p)
       PROVE  UNCHANGED tip /\ PeaksTold /\ SyncsMove /\ HandlersTake
    <2>1. UNCHANGED tip
        BY <1>14 DEF SyncFetchFails, SyncBatchInvalid, SyncBatchAdded, network
    <2>2. PeaksTold
        BY <1>14, ForgottenTold DEF SyncFetchFails, SyncBatchInvalid, SyncBatchAdded, peaks
    <2>3. HandlersTake
        BY <1>3, <1>4, <1>14 DEF SyncFetchFails, SyncBatchInvalid, SyncBatchAdded
    <2>4. ASSUME NEW r \in Syncs PROVE SyncAsBefore(r)
        <3>1. sync[r] \in SyncType
            BY SyncFacts
        <3>2. CASE SyncFetchFails(s, p)
            <4>1. CASE sync' = SyncsWithout(p)
                BY <4>1, SyncsAsBefore
            <4>2. CASE sync' = [sync EXCEPT ![s].peers = @ \ {p}, ![s].left = @ \ {p}]
                <5>1. sync'[r] = IF r = s THEN [sync[r] EXCEPT !.peers = @ \ {p}, !.left = @ \ {p}]
                                 ELSE sync[r]
                    BY <1>1, <4>2 DEF SyncShape, SyncType
                <5> QED
                    BY <3>1, <5>1 DEF SyncAsBefore, SyncType
            <4> QED
                BY <3>2, <4>1, <4>2 DEF SyncFetchFails
        <3>3. CASE SyncBatchInvalid(s, p)
            <4>1. PICK got : sync' = [SyncsWithout(p) EXCEPT ![s].advanced = Advances(got)]
                BY <3>3 DEF SyncBatchInvalid
            <4> DEFINE old == SyncsWithout(p)
            <4>2. /\ old \in [Syncs -> SyncType]
                  /\ old[r] = [sync[r] EXCEPT !.peers = @ \ {p}, !.left = @ \ {p}]
                BY SyncsWithoutOK DEF SyncsWithout
            <4>3. /\ old[r].pc = sync[r].pc /\ old[r].block = sync[r].block
                  /\ old[r].fork = sync[r].fork /\ old[r].curr = sync[r].curr
                BY <3>1, <4>2 DEF SyncType
            <4>4. sync' = [old EXCEPT ![s].advanced = Advances(got)]
                BY <4>1
            <4> HIDE DEF old
            <4>5. sync'[r] = IF r = s THEN [old[r] EXCEPT !.advanced = Advances(got)] ELSE old[r]
                BY <4>2, <4>4
            <4> QED
                BY <4>2, <4>3, <4>5 DEF SyncAsBefore, SyncType
        <3>4. CASE SyncBatchAdded(s, p)
            <4>1. PICK peers, got :
                     sync' = [sync EXCEPT ![s] = [sync[s] EXCEPT !.curr = @ + BATCH_SIZE,
                                  !.peers = peers, !.left = peers, !.advanced = Advances(got)]]
                BY <3>4 DEF SyncBatchAdded
            <4>2. sync'[r] = IF r = s THEN [sync[s] EXCEPT !.curr = @ + BATCH_SIZE,
                                  !.peers = peers, !.left = peers, !.advanced = Advances(got)]
                             ELSE sync[r]
                BY <4>1 DEF SyncShape
            <4> QED
                BY <3>1, <4>2 DEF SyncAsBefore, SyncType
        <3> QED
            BY <1>14, <3>2, <3>3, <3>4
    <2> QED
        BY <2>1, <2>2, <2>3, <2>4 DEF SyncsMove
<1> QED
    BY <1>7, <1>8, <1>9, <1>10, <1>11, <1>12, <1>13, <1>14 DEF SyncStep

\* Whatever the node holds it has from a peer or from its timelord.
LEMMA SentKept ==
    ASSUME SyncInv, Sent, Next
    PROVE  Sent' /\ SyncsMove
<1> DEFINE Moves == (\A p \in Peers : tip'[p] \in PeerTips[p]) /\ PeaksTold /\ HandlersTake
<1>1. Moves /\ SyncsMove
    <2>1. CASE Network \/ \E h \in Handlers : Message(h)
        BY <2>1, MessageFrames
    <2>2. ASSUME NEW h \in Handlers, HandlerStep(h) PROVE Moves /\ SyncsMove
        BY <2>2, HandlerFrames, HandlerTakes DEF Sent, TipsOffered
    <2>3. ASSUME NEW s \in Syncs, SyncStep(s) PROVE Moves /\ SyncsMove
        BY <2>3, SyncFrames DEF Sent, TipsOffered
    <2> QED
        BY <2>1, <2>2, <2>3 DEF Next
<1>2. TipsOffered'
    BY <1>1 DEF TipsOffered
<1>3. PeaksOffered'
    BY <1>1 DEF Sent, TipsOffered, PeaksOffered, PeaksTold, Tips
<1>4. GotKnown'
    BY <1>1 DEF Sent, GotKnown, HandlersTake
<1>5. TargetsOffered'
    <2>1. ASSUME NEW r \in Syncs PROVE sync'[r].block \in {sync[r].block, NONE} \cup Tips
        <3>1. CASE SyncAsBefore(r) \/ SyncElsewhere(r)
            BY <3>1 DEF SyncAsBefore, SyncElsewhere
        <3>2. CASE ProofHolds(r) \/ SyncFromForkPoint(r)
            <4>1. sync[r] \in SyncType /\ sync \in [Syncs -> SyncType]
                BY SyncFacts DEF SyncInv, Shape, SyncShape
            <4>2. \/ \E fork : sync' = [sync EXCEPT ![r] = [@ EXCEPT !.pc = "lock", !.fork = fork]]
                  \/ \E fork : StartBatches(r, fork)
                BY <3>2 DEF ProofHolds, SyncFromForkPoint
            <4>3. sync'[r].block = sync[r].block
                BY <4>1, <4>2 DEF StartBatches, SyncType
            <4> QED
                BY <4>3
        <3> QED
            BY <1>1, <3>1, <3>2 DEF SyncsMove
    <2> QED
        BY <2>1 DEF Sent, TargetsOffered
<1> QED
    BY <1>1, <1>2, <1>3, <1>4, <1>5 DEF Sent

-----------------------------------------------------------------------------
(* The chain, through every step *)

\* Who changes the chain: respond_block and receive_block_batch, in a short or a long sync.
LEMMA WhoChangesChain ==
    ASSUME Next
    PROVE  \/ UNCHANGED chain
           \/ \E h \in Handlers : RespondOrphan(h) \/ RespondNewPeak(h) \/ BatchReceived(h)
           \/ \E s \in Syncs, p \in Peers : SyncBatchInvalid(s, p) \/ SyncBatchAdded(s, p)
<1>1. CASE Network \/ \E h \in Handlers : Message(h)
    BY <1>1 DEF Network, Connect, Disconnect, PeerAdvances, Message, Infuse, NewPeakIgnored,
                NewPeakWhileSyncing, NewPeakNear, NewPeakFar
<1>2. ASSUME NEW h \in Handlers, HandlerStep(h),
             ~RespondOrphan(h), ~RespondNewPeak(h), ~BatchReceived(h)
      PROVE  UNCHANGED chain
    <2>1. CASE \/ Asked(h) \/ Raised(h)
               \/ BacktrackFails(h) \/ BacktrackConnects(h) \/ BacktrackGoesOn(h) \/ BacktrackTooDeep(h)
        BY <2>1 DEF Asked, Raised, BacktrackFails, BacktrackConnects, BacktrackGoesOn, BacktrackTooDeep
    <2>2. CASE \/ RespondSkips(h) \/ RespondWaits(h) \/ RespondReturns(h) \/ RespondRaises(h)
               \/ RespondAnnounces(h) \/ RespondEnds(h)
        BY <2>2 DEF RespondSkips, RespondWaits, RespondReturns, RespondRaises, RespondAnnounces,
                    RespondEnds
    <2>3. CASE \/ NeedsLongSync(h) \/ BatchRefused(h) \/ BatchBegins(h) \/ BatchFirst(h)
               \/ BatchFetch(h) \/ BatchAnnounces(h) \/ BatchEnds(h)
               \/ SyncRefused(h) \/ \E s \in Syncs : SyncStarts(h, s)
        BY <2>3 DEF NeedsLongSync, BatchRefused, BatchBegins, BatchFirst, BatchFetch, BatchAnnounces,
                    BatchEnds, SyncRefused, SyncStarts
    <2> QED
        BY <1>2, <2>1, <2>2, <2>3 DEF HandlerStep
<1>3. ASSUME NEW s \in Syncs, SyncStep(s),
             \A p \in Peers : ~SyncBatchInvalid(s, p) /\ ~SyncBatchAdded(s, p)
      PROVE  UNCHANGED chain
    <2>1. CASE \/ SyncSelectsPeak(s) \/ SyncGathers(s) \/ SyncGivesUp(s) \/ ProofArrives(s)
               \/ SyncFindsNoPeak(s) \/ ProofFails(s) \/ ProofTooLate(s) \/ ProofHolds(s)
        BY <2>1 DEF SyncSelectsPeak, SyncGathers, SyncGivesUp, ProofArrives, SyncFindsNoPeak,
                    ProofFails, ProofTooLate, ProofHolds, SyncFails
    <2>2. CASE \/ NobodyToSyncFrom(s) \/ SyncFromForkPoint(s) \/ SyncRaises(s)
               \/ SyncStops(s) \/ FinishSync(s) \/ \E p \in Peers : SyncFetchFails(s, p)
        BY <2>2 DEF NobodyToSyncFrom, SyncFromForkPoint, SyncRaises, SyncStops, FinishSync,
                    SyncFetchFails
    <2> QED
        BY <1>3, <2>1, <2>2 DEF SyncStep
<1> QED
    BY <1>1, <1>2, <1>3 DEF Next

\* The steps that change the chain add blocks one after the other.
LEMMA ChainSteps ==
    ASSUME SyncInv, Sent, StoredChains, Next
    PROVE  UNCHANGED chain \/ OneByOne
<1> USE DEF SyncInv, Shape
<1>1. ASSUME NEW h \in Handlers, RespondOrphan(h) \/ RespondNewPeak(h) PROVE OneByOne
    <2> DEFINE b == Responding(h)
    <2>1. /\ handler[h].pc = "add" /\ Addable(b) /\ ValidBlock(b)
          /\ stored' = stored \cup {b}
          /\ \/ peak # NONE /\ Weight[b] <= Weight[peak] /\ peak' = peak
             \/ (peak = NONE \/ Weight[b] > Weight[peak]) /\ peak' = b
        BY <1>1 DEF RespondOrphan, RespondNewPeak
    <2>2. handler[h].got # {}
        BY <2>1, HandlerFacts DEF HandlerOK
    <2>3. b \in handler[h].got /\ b \in Blocks
        BY <2>2, RespondingTypes
    <2> HIDE DEF b
    <2>4. b \in Rooted
        BY <2>3, KnownRooted DEF Sent, GotKnown
    <2>5. b \in (Rooted \cap HeaderValid \cap BodyValid) \ stored /\ (Height[b] > 0 => Prev[b] \in stored)
        BY <2>1, <2>4 DEF Addable, ValidBlock
    <2>6. peak' = IF peak = NONE \/ Weight[b] > Weight[peak] THEN b ELSE peak
        <3>1. peak # NONE => Weight[peak] \in Nat /\ Weight[b] \in Nat
            BY <2>3, Constants DEF ChainShape, BlockOrNone
        <3> QED
            BY <2>1, <3>1
    <2>7. Accepts(stored, peak, stored', peak')
        BY <2>1, <2>5, <2>6 DEF Accepts
    <2>8. stored' \in SUBSET Blocks /\ peak' \in BlockOrNone
        BY <2>1, <2>3 DEF ChainShape, BlockOrNone
    <2> DEFINE S == [k \in 0..1 |-> IF k = 0 THEN stored ELSE stored']
               P == [k \in 0..1 |-> IF k = 0 THEN peak ELSE peak']
    <2>9. /\ S \in [0..1 -> SUBSET Blocks] /\ P \in [0..1 -> BlockOrNone]
          /\ S[0] = stored /\ S[1] = stored' /\ P[0] = peak /\ P[1] = peak'
        BY <2>8 DEF ChainShape
    <2> HIDE DEF S, P
    <2>10. \A k \in 0..(1 - 1) : Accepts(S[k], P[k], S[k + 1], P[k + 1])
        BY <2>7, <2>9
    <2> QED
        BY <2>9, <2>10 DEF OneByOne
<1>2. ASSUME NEW h \in Handlers, BatchReceived(h) PROVE OneByOne
    <2>1. handler[h].pc = "batch" /\ ReceiveBlockBatch(handler[h].got)
        BY <1>2 DEF BatchReceived
    <2>2. IsPath(handler[h].got)
        BY <2>1, HandlerFacts DEF HandlerOK
    <2> QED
        BY <2>1, <2>2, BatchOneByOne
<1>3. ASSUME NEW s \in Syncs, NEW p \in Peers, SyncBatchInvalid(s, p) \/ SyncBatchAdded(s, p)
      PROVE  OneByOne
    <2>1. /\ sync[s].pc = "fetch" /\ sync[s].curr < Height[sync[s].block]
          /\ \E got \in SyncAnswers(s, p) : ReceiveBlockBatch(got)
        BY <1>3 DEF SyncBatchInvalid, SyncBatchAdded
    <2>2. PICK got \in SyncAnswers(s, p) : ReceiveBlockBatch(got)
        BY <2>1
    <2>3. sync[s].block \in Blocks /\ sync[s].curr \in 0..(MaxHeight + BATCH_SIZE)
        BY <2>1, SyncFacts DEF SyncOK, SyncType
    <2>4. IsPath(got)
        <3>1. /\ got \in BatchAnswers(p, sync[s].curr, BatchEnd(sync[s].curr, Height[sync[s].block]))
              /\ got # {}
            BY <2>2 DEF SyncAnswers
        <3> QED
            BY <2>1, <2>3, <3>1, BatchAnswerTypes
    <2> QED
        BY <2>2, <2>4, BatchOneByOne
<1> QED
    BY <1>1, <1>2, <1>3, WhoChangesChain

\* The chain with which a node starts, and where its blocks come from then.
LEMMA ChainInit ==
    ASSUME Init
    PROVE  StoredChains /\ Sent
<1>1. Sent
    <2>1. Free.got = {} /\ NoSync.block = NONE
        BY DEF Free, NoSync
    <2> QED
        BY <2>1 DEF Init, Sent, TipsOffered, PeaksOffered, GotKnown, TargetsOffered
<1>2. CASE peak = NONE
    <2>1. stored = {}
        BY <1>2 DEF Init
    <2>2. ChainOK({}, NONE)
        BY DEF ChainOK
    <2> QED
        BY <1>1, <1>2, <2>1, <2>2 DEF StoredChains
<1>3. CASE peak # NONE
    <2>1. /\ peak \in Rooted /\ stored = ChainOf(peak)
          /\ \A h \in 0..Height[peak] : Ancestor[peak][h] \in HeaderValid \cap BodyValid
        BY <1>3, SyncAssumption DEF Init
    <2>2. Height[peak] \in Nat /\ Height[peak] \in Heights /\ Ancestor[peak][Height[peak]] = peak
        BY <2>1, Constants, AncestorAssumption DEF Heights
    <2>3. stored \subseteq Rooted \cap HeaderValid \cap BodyValid
        BY <2>1, Ancestors DEF ChainOf
    <2>4. peak \in stored
        BY <2>1, <2>2 DEF ChainOf
    <2>5. ASSUME NEW b \in stored, Height[b] > 0 PROVE Prev[b] \in stored
        <3>1. PICK h \in 0..Height[peak] : b = Ancestor[peak][h]
            BY <2>1 DEF ChainOf
        <3>2. b \in Rooted /\ Height[b] = h
            BY <2>1, <3>1, Ancestors
        <3>3. h - 1 \in 0..h /\ h - 1 \in 0..Height[peak]
            BY <2>2, <2>5, <3>2
        <3>4. Prev[b] = Ancestor[b][h - 1]
            BY <2>5, <3>2, AncestorAssumption
        <3>5. Ancestor[b][h - 1] = Ancestor[peak][h - 1]
            BY <2>1, <3>1, <3>3, AncestorAssumption
        <3> QED
            BY <2>1, <3>3, <3>4, <3>5 DEF ChainOf
    <2>6. ASSUME NEW b \in stored PROVE Weight[b] <= Weight[peak]
        <3>1. PICK h \in 0..Height[peak] : b = Ancestor[peak][h]
            BY <2>1 DEF ChainOf
        <3>2. /\ h \in Heights /\ Height[peak] \in h..Height[peak] /\ Height[peak] <= Height[peak]
              /\ \A k \in h..Height[peak] : k \in 0..Height[peak]
            BY <2>2, Constants DEF Heights
        <3>3. Weight[Ancestor[peak][h]] <= Weight[Ancestor[peak][Height[peak]]]
            BY <2>1, <2>2, <3>2, WeightsGrow
        <3> QED
            BY <2>2, <3>1, <3>3
    <2>7. IF peak = NONE THEN stored = {}
          ELSE peak \in stored /\ \A b \in stored : Weight[b] <= Weight[peak]
        BY <1>3, <2>4, <2>6
    <2>8. \A b \in stored : Height[b] > 0 => Prev[b] \in stored
        BY <2>5
    <2> QED
        BY <1>1, <2>3, <2>7, <2>8 DEF StoredChains, ChainOK
<1> QED
    BY <1>1, <1>2, <1>3

\* The chain keeps its shape.
LEMMA StoredChainsKept ==
    ASSUME SyncInv, Sent, StoredChains, [Next]_vars
    PROVE  /\ SyncInv' /\ Sent' /\ StoredChains'
           /\ UNCHANGED chain \/ (OneByOne /\ ChainGrows)
<1>1. SyncInv'
    BY StepKeeps
<1>2. CASE UNCHANGED vars
    <2>1. UNCHANGED <<stored, peak, tip, peer_to_peak, handler, sync>>
        BY <1>2 DEF vars, chain, network, peaks
    <2> QED
        BY <1>1, <2>1 DEF Sent, TipsOffered, PeaksOffered, GotKnown, TargetsOffered, StoredChains, chain
<1>3. CASE Next
    <2>1. Sent'
        BY <1>3, SentKept
    <2>2. CASE UNCHANGED chain
        BY <1>1, <2>1, <2>2 DEF StoredChains, chain
    <2>3. CASE OneByOne
        BY <1>1, <2>1, <2>3, OneByOneKeeps
    <2> QED
        BY <1>3, <2>2, <2>3, ChainSteps
<1> QED
    BY <1>2, <1>3

\* Every stored block is valid and has its whole chain stored, the peak among them is a
\* heaviest one, and what the node holds it was sent: short syncs, long syncs and blocks of
\* our timelord together keep what HeaviestChain promises.
THEOREM ChainAlwaysComplete == Spec => [](StoredChains /\ Sent)
<1>1. Init => SyncInv /\ Sent /\ StoredChains
    BY InitOK, ChainInit
<1>2. (SyncInv /\ Sent /\ StoredChains) /\ [Next]_vars => (SyncInv /\ Sent /\ StoredChains)'
    BY StoredChainsKept
<1> QED
    BY <1>1, <1>2, PTL DEF Spec

\* Every change of the chain, a batch of blocks included, is a sequence of single
\* additions as HeaviestChain makes them; no block is lost, and a peak gives way only to a
\* heavier one.
THEOREM ChainChangesBlockByBlock == Spec => [][OneByOne /\ ChainGrows]_chain
<1>1. SyncInv /\ Sent /\ StoredChains /\ [Next]_vars => [OneByOne /\ ChainGrows]_chain
    BY StoredChainsKept
<1> QED
    BY <1>1, SyncInvariant, ChainAlwaysComplete, PTL DEF Spec

-----------------------------------------------------------------------------
(* The fork point of a long sync *)

\* Valid chains begin with one genesis block: header validation accepts any block that
\* extends GENESIS_CHALLENGE, but a network has one.
OneGenesis == \A a, b \in HeaderValid : Height[a] = 0 /\ Height[b] = 0 => a = b

\* Whatever chains the peers have, they are parts of one.
TipsAgree == \A t, u \in Tips : t \in ChainOf(u) \/ u \in ChainOf(t)

\* What our own timelord finishes does not leave the chain of the peers deeper than the fork
\* point is put: a block of it that is heavier than the block of a peer's chain with summary
\* i + SES_BACK - 1 shares with that chain the block with summary i.
InfusedShallow ==
    \A x \in Infusable, t \in Tips : \A i \in Nat :
        /\ i + SES_BACK + 1 < Cardinality(SesHeights(t))
        /\ Weight[x] > Weight[Ancestor[t][SesHeight(t, i + SES_BACK - 1)]]
        => SesHeight(t, i) \in Common(x, t)

PeersAgree == OneGenesis /\ TipsAgree /\ InfusedShallow

\* A fork point at summary i of the chain of t: a summary at least as high is in our store.
Guarded(t, fork) ==
    \E i \in Nat :
        /\ i + SES_BACK + 1 < Cardinality(SesHeights(t))
        /\ fork = SesHeight(t, i)
        /\ Ancestor[t][SesHeight(t, i + SES_BACK - 1)] \in stored

\* What is known of a long sync that waits for the lock or downloads.
ForkOK(r) ==
    /\ r.block \in Tips /\ ChainOf(r.block) \subseteq HeaderValid
    /\ r.pc = "lock" => r.fork = 0 \/ Guarded(r.block, r.fork)
    /\ r.pc = "fetch" => r.fork <= r.curr
    /\ peak # NONE /\ r.fork <= Height[r.block] => r.fork \in Common(peak, r.block)
ForkInv == \A s \in Syncs : Downloading(s) => ForkOK(sync[s])

\* A block with a summary has a place among them.
LEMMA SesPlace ==
    ASSUME NEW t \in Rooted, NEW k \in Nat, k < Cardinality(SesHeights(t))
    PROVE  /\ SesHeight(t, k) \in SesHeights(t) /\ SesHeight(t, k) \in 0..Height[t]
           /\ Cardinality({i \in SesHeights(t) : i < SesHeight(t, k)}) = k
<1> DEFINE T == SesHeights(t)
<1>1. t \in Blocks /\ t # NONE /\ Height[t] \in Nat
    BY Constants DEF Heights
<1>2. T \subseteq 0..Height[t] /\ T \in SUBSET Nat /\ \A h \in T : h <= Height[t]
    BY <1>1 DEF SesHeights
<1>3. IsFiniteSet(T)
    BY <1>1, <1>2, FS_BoundedSetOfNaturals
<1>4. \E h \in T : Cardinality({i \in T : i < h}) = k
    <2> HIDE DEF T
    <2> QED
        BY <1>2, <1>3, KthElement DEF T
<1>5. SesHeight(t, k) \in T /\ Cardinality({i \in T : i < SesHeight(t, k)}) = k
    BY <1>4 DEF SesHeight
<1> QED
    BY <1>2, <1>5

\* Later summaries are higher.
LEMMA SesOrder ==
    ASSUME NEW t \in Rooted, NEW j \in Nat, NEW k \in Nat, j <= k, k < Cardinality(SesHeights(t))
    PROVE  SesHeight(t, j) <= SesHeight(t, k)
<1> DEFINE T == SesHeights(t)
           Below(x) == {i \in T : i < x}
           x == SesHeight(t, j)
           y == SesHeight(t, k)
<1>1. t \in Blocks /\ t # NONE /\ Height[t] \in Nat
    BY Constants DEF Heights
<1>2. T \in SUBSET Nat /\ \A h \in T : h <= Height[t]
    BY <1>1 DEF SesHeights
<1>3. IsFiniteSet(T) /\ Cardinality(T) \in Nat
    BY <1>1, <1>2, FS_BoundedSetOfNaturals, FS_CardinalityType
<1>4. x \in T /\ Cardinality(Below(x)) = j
    BY <1>3, SesPlace
<1>5. y \in T /\ Cardinality(Below(y)) = k
    BY SesPlace
<1> HIDE DEF T, x, y
<1>6. x \in Nat /\ y \in Nat
    BY <1>2, <1>4, <1>5
<1> SUFFICES ASSUME y < x PROVE FALSE
    BY <1>6 DEF x, y
<1>7. Below(y) \subseteq Below(x) /\ y \in Below(x) /\ y \notin Below(y)
    <2>1. \A i \in T : i \in Nat /\ (i < y => i < x)
        BY <1>2, <1>6
    <2>2. ~(y < y)
        BY <1>6
    <2> QED
        BY <1>5, <2>1, <2>2
<1>8. IsFiniteSet(Below(x))
    BY <1>3, FS_Subset
<1>9. Cardinality(Below(y)) <= Cardinality(Below(x)) /\ Cardinality(Below(y)) # Cardinality(Below(x))
    BY <1>7, <1>8, FS_Subset
<1> QED
    BY <1>4, <1>5, <1>9

\* An offered block and a peak of a peer have one chain, as far as both go.
LEMMA OnOneChain ==
    ASSUME TipsAgree, NEW b \in Offered, NEW t \in Tips, NEW h \in Nat,
           h <= Height[b], h <= Height[t]
    PROVE  Ancestor[b][h] = Ancestor[t][h]
<1>1. PICK u \in Tips : b \in ChainOf(u)
    BY DEF Offered
<1>2. PICK k \in 0..Height[u] : b = Ancestor[u][k]
    BY <1>1 DEF ChainOf
<1>3. u \in Rooted /\ t \in Rooted
    BY KnownRooted
<1>4. Height[u] \in Nat /\ Height[t] \in Nat
    BY <1>3, Constants DEF Heights
<1>5. Height[b] = k
    BY <1>2, <1>3, Ancestors
<1>6. h \in 0..k
    BY <1>4, <1>5
<1>7. Ancestor[b][h] = Ancestor[u][h]
    BY <1>2, <1>3, <1>6, AncestorAssumption
<1>8. CASE t \in ChainOf(u)
    <2>1. PICK m \in 0..Height[u] : t = Ancestor[u][m]
        BY <1>8 DEF ChainOf
    <2>2. Height[t] = m
        BY <1>3, <2>1, Ancestors
    <2>3. h \in 0..m
        BY <1>4, <2>2
    <2>4. Ancestor[t][h] = Ancestor[u][h]
        BY <1>3, <2>1, <2>3, AncestorAssumption
    <2> QED
        BY <1>7, <2>4
<1>9. CASE u \in ChainOf(t)
    <2>1. PICK m \in 0..Height[t] : u = Ancestor[t][m]
        BY <1>9 DEF ChainOf
    <2>2. Height[u] = m
        BY <1>3, <2>1, Ancestors
    <2>3. h \in 0..m
        BY <1>4, <1>6, <2>2
    <2>4. Ancestor[u][h] = Ancestor[t][h]
        BY <1>3, <2>1, <2>3, AncestorAssumption
    <2> QED
        BY <1>7, <2>4
<1> QED
    BY <1>1, <1>8, <1>9 DEF TipsAgree

\* Height 0 is common to our peak and to every chain that a weight proof has shown valid.
LEMMA GenesisCommon ==
    ASSUME OneGenesis, NEW S, NEW P, ChainOK(S, P), P # NONE,
           NEW t \in Rooted, ChainOf(t) \subseteq HeaderValid
    PROVE  0 \in Common(P, t)
<1>1. P \in S /\ P \in Rooted /\ S \subseteq HeaderValid
    BY DEF ChainOK
<1>2. Height[P] \in Nat /\ Height[t] \in Nat
    BY <1>1, Constants DEF Heights
<1>3. 0 \in 0..Height[P] /\ 0 \in 0..Height[t]
    BY <1>2
<1>4. Ancestor[P][0] \in S /\ Height[Ancestor[P][0]] = 0
    BY <1>1, <1>3, StoredAncestors, Ancestors
<1>5. Ancestor[t][0] \in HeaderValid /\ Height[Ancestor[t][0]] = 0
    BY <1>3, Ancestors DEF ChainOf
<1>6. Ancestor[P][0] = Ancestor[t][0]
    BY <1>1, <1>4, <1>5 DEF OneGenesis
<1> QED
    BY <1>2, <1>3, <1>6 DEF Common

\* A batch that a long sync receives is a part of a peer's chain from `curr` on.
LEMMA SyncAnswersOffered ==
    ASSUME SyncInv, Sent, NEW s \in Syncs, sync[s].pc = "fetch", NEW p \in Peers,
           NEW got \in SyncAnswers(s, p)
    PROVE  /\ sync[s].curr <= Height[sync[s].block]
           /\ got \subseteq Offered /\ got \subseteq Blocks
           /\ \A b \in got : sync[s].curr <= Height[b]
<1> USE DEF SyncInv, Shape
<1> DEFINE first == sync[s].curr
           H == Height[sync[s].block]
           last == BatchEnd(first, H)
<1>1. sync[s].block \in Blocks /\ first \in Nat /\ H \in Nat /\ BATCH_SIZE \in Nat
    BY SyncFacts, Constants DEF SyncOK, SyncType, Heights
<1>2. last \in Nat /\ last <= H
    BY <1>1 DEF BatchEnd
<1>3. got \in BatchAnswers(p, first, last) /\ got # {}
    BY DEF SyncAnswers
<1>4. tip[p] \in Rooted /\ Height[tip[p]] \in Nat
    BY Constants DEF NetworkShape, Heights
<1> HIDE DEF first, last, H
<1>5. last <= Height[tip[p]] /\ got = {Ancestor[tip[p]][h] : h \in first..last}
    BY <1>3 DEF BatchAnswers
<1>6. got \subseteq Offered
    BY <1>1, <1>2, <1>3, AnswersOffered DEF Sent
<1>7. ASSUME NEW b \in got PROVE first <= Height[b] /\ first <= last
    <2>1. PICK h \in first..last : b = Ancestor[tip[p]][h]
        BY <1>5
    <2>2. h \in 0..Height[tip[p]] /\ first <= h /\ first <= last
        BY <1>1, <1>2, <1>4, <1>5
    <2>3. Height[b] = h
        BY <1>4, <2>1, <2>2, Ancestors
    <2> QED
        BY <2>2, <2>3
<1>8. first <= H
    BY <1>1, <1>2, <1>3, <1>7
<1>9. got \subseteq Blocks
    BY <1>6, KnownRooted, Constants
<1> QED
    BY <1>6, <1>7, <1>8, <1>9 DEF first, H

\* Where a new peak comes from; while a long sync downloads, from its own batch.
LEMMA PeakMoves ==
    ASSUME SyncInv, Sent, Next, peak' # peak
    PROVE  /\ peak' \in Known
           /\ \A s \in Syncs : sync[s].pc = "fetch" =>
                 peak' \in Offered /\ sync[s].curr <= Height[peak']
<1> USE DEF SyncInv, Shape
<1>1. ASSUME NEW h \in Handlers, Holds(h), NEW s \in Syncs, sync[s].pc = "fetch" PROVE FALSE
    BY <1>1, Constants DEF AddersHold, Holds
<1>2. ASSUME NEW h \in Handlers, RespondNewPeak(h)
      PROVE  peak' \in Known /\ Holds(h)
    <2>1. handler[h].pc = "add" /\ Holds(h) /\ peak' = Responding(h)
        BY <1>2 DEF RespondNewPeak
    <2>2. handler[h].got # {}
        BY <2>1, HandlerFacts DEF HandlerOK
    <2> QED
        BY <2>1, <2>2, RespondingTypes DEF Sent, GotKnown
<1>3. ASSUME NEW h \in Handlers, BatchReceived(h)
      PROVE  peak' \in Known /\ Holds(h)
    <2>1. handler[h].pc = "batch" /\ Holds(h) /\ peak' = PeakAfter(handler[h].got)
        BY <1>3 DEF BatchReceived, ReceiveBlockBatch
    <2>2. IsPath(handler[h].got)
        BY <2>1, HandlerFacts DEF HandlerOK
    <2>3. peak' \in handler[h].got
        BY <2>1, <2>2, BatchShape
    <2> QED
        BY <2>1, <2>3 DEF Sent, GotKnown
<1>4. ASSUME NEW s \in Syncs, NEW p \in Peers, SyncBatchInvalid(s, p) \/ SyncBatchAdded(s, p)
      PROVE  /\ peak' \in Offered
             /\ \A r \in Syncs : sync[r].pc = "fetch" => sync[r].curr <= Height[peak']
    <2>1. sync[s].pc = "fetch" /\ sync[s].curr < Height[sync[s].block]
        BY <1>4 DEF SyncBatchInvalid, SyncBatchAdded
    <2>2. PICK got \in SyncAnswers(s, p) : peak' = PeakAfter(got)
        BY <1>4 DEF SyncBatchInvalid, SyncBatchAdded, ReceiveBlockBatch
    <2>3. sync[s].block \in Blocks /\ sync[s].curr \in 0..(MaxHeight + BATCH_SIZE)
        BY <2>1, SyncFacts DEF SyncOK, SyncType
    <2>4. IsPath(got)
        <3>1. /\ got \in BatchAnswers(p, sync[s].curr, BatchEnd(sync[s].curr, Height[sync[s].block]))
              /\ got # {}
            BY <2>2 DEF SyncAnswers
        <3> QED
            BY <2>1, <2>3, <3>1, BatchAnswerTypes
    <2>5. peak' \in got
        BY <2>2, <2>4, BatchShape
    <2>6. peak' \in Offered /\ sync[s].curr <= Height[peak']
        BY <2>1, <2>2, <2>5, SyncAnswersOffered
    <2>7. \A r \in Syncs : sync[r].pc = "fetch" => r = s
        BY <2>1 DEF AddersHold, Holds
    <2> QED
        BY <2>6, <2>7
<1>5. CASE UNCHANGED chain
    BY <1>5 DEF chain
<1>6. ASSUME NEW h \in Handlers, RespondOrphan(h) PROVE FALSE
    BY <1>6 DEF RespondOrphan
<1> QED
    BY <1>1, <1>2, <1>3, <1>4, <1>5, <1>6, WhoChangesChain DEF Known

\* While a long sync waits for the lock, a new peak has the fork point on its chain: it is
\* heavier than a block above the fork point.
LEMMA WaitKeepsFork ==
    ASSUME PeersAgree, StoredChains, StoredChains', ChainGrows, NEW t \in Tips,
           ChainOf(t) \subseteq HeaderValid, NEW fork, Guarded(t, fork), peak' # peak, peak' \in Known
    PROVE  fork \in Common(peak', t)
<1>1. PICK i \in Nat :
         /\ i + SES_BACK + 1 < Cardinality(SesHeights(t))
         /\ fork = SesHeight(t, i)
         /\ Ancestor[t][SesHeight(t, i + SES_BACK - 1)] \in stored
    BY DEF Guarded
<1> DEFINE top == SesHeight(t, i + SES_BACK - 1)
           a == Ancestor[t][top]
           b == peak'
<1>2. t \in Rooted /\ t \in Blocks /\ t # NONE /\ Height[t] \in Nat
    BY KnownRooted, Constants DEF Heights
<1>3. Cardinality(SesHeights(t)) \in Nat
    <2>1. SesHeights(t) \in SUBSET Nat /\ \A h \in SesHeights(t) : h <= Height[t]
        BY <1>2 DEF SesHeights
    <2> QED
        BY <1>2, <2>1, FS_BoundedSetOfNaturals, FS_CardinalityType
<1>4. /\ i + SES_BACK - 1 \in Nat /\ i <= i + SES_BACK - 1
      /\ i + SES_BACK - 1 < Cardinality(SesHeights(t)) /\ i < Cardinality(SesHeights(t))
    <2>1. SES_BACK \in Nat \ {0}
        BY SyncAssumption
    <2> QED
        BY <1>1, <1>3, <2>1
<1>5. fork \in 0..Height[t] /\ top \in 0..Height[t] /\ fork <= top
    BY <1>1, <1>2, <1>4, SesPlace, SesOrder
<1>6. peak # NONE /\ Weight[a] <= Weight[peak]
    BY <1>1 DEF StoredChains, ChainOK
<1>7. b # NONE /\ Weight[b] > Weight[peak]
    BY <1>6 DEF ChainGrows
<1>8. b \in Rooted /\ b \in Blocks /\ Height[b] \in Nat
    BY KnownRooted, Constants DEF Heights
<1>9. a \in Blocks /\ Weight[a] \in Nat /\ Weight[b] \in Nat /\ Weight[peak] \in Nat
    BY <1>1, <1>6, <1>8, Constants DEF StoredChains, ChainOK
<1>10. Weight[b] > Weight[a]
    BY <1>6, <1>7, <1>9
<1>11. CASE b \in Infusable
    BY <1>1, <1>10, <1>11 DEF PeersAgree, InfusedShallow
<1>12. CASE b \in Offered
    <2>1. fork <= Height[b]
        <3> SUFFICES ASSUME Height[b] < fork PROVE FALSE
            BY <1>5, <1>8
        <3>1. Height[b] <= Height[t] /\ Height[b] \in 0..Height[b] /\ Height[b] \in Heights
              /\ top \in Heights /\ top <= Height[t] /\ top \in Height[b]..top
            BY <1>2, <1>5, <1>8, Constants DEF Heights
        <3>2. Ancestor[t][Height[b]] = b
            BY <1>8, <1>12, <3>1, OnOneChain, AncestorAssumption DEF PeersAgree
        <3>3. \A h \in Height[b]..top : Ancestor[t][h] \in HeaderValid
            <4>1. \A h \in Height[b]..top : h \in 0..Height[t]
                BY <1>2, <1>5, <1>8
            <4> QED
                BY <4>1 DEF ChainOf
        <3>4. Weight[Ancestor[t][Height[b]]] <= Weight[a]
            BY <1>2, <3>1, <3>3, WeightsGrow
        <3> QED
            BY <1>9, <1>10, <3>2, <3>4
    <2>2. Ancestor[b][fork] = Ancestor[t][fork]
        BY <1>5, <1>12, <2>1, OnOneChain DEF PeersAgree
    <2> QED
        BY <1>5, <1>8, <2>1, <2>2 DEF Common
<1> QED
    BY <1>11, <1>12 DEF Known

\* The fork point that a weight proof yields is 0 or a summary that both chains have.
LEMMA ProofFork ==
    ASSUME StoredChains, NEW t \in Tips, NEW fork \in WeightProofForks(t), fork # 0
    PROVE  Guarded(t, fork) /\ peak # NONE /\ fork \in Common(peak, t)
<1>1. PICK k \in ForkPointIndexes(t) :
         fork = IF k > SES_BACK THEN SesHeight(peak, k - SES_BACK) ELSE 0
    BY DEF WeightProofForks
<1>2. k > SES_BACK /\ fork = SesHeight(peak, k - SES_BACK) /\ SES_BACK \in Nat \ {0}
    BY <1>1, SyncAssumption
<1>3. /\ k \in 0..(Cardinality(SesHeights(peak)) - 1) /\ k < Cardinality(SesHeights(t)) - 1
      /\ \A i \in 0..k : MaybeSameSummary(peak, t, i)
    BY <1>1, <1>2 DEF ForkPointIndexes
<1>4. t \in Rooted /\ t # NONE /\ Height[t] \in Nat
    BY KnownRooted, Constants DEF Heights
<1>5. peak # NONE
    <2> SUFFICES ASSUME peak = NONE PROVE FALSE
        OBVIOUS
    <2>1. Cardinality(SesHeights(peak)) = 0
        BY FS_EmptySet DEF SesHeights
    <2> QED
        BY <1>3, <2>1
<1>6. peak \in stored /\ peak \in Rooted /\ Height[peak] \in Nat
    BY <1>5, Constants DEF StoredChains, ChainOK, Heights
<1>7. ASSUME NEW b \in {peak, t} PROVE Cardinality(SesHeights(b)) \in Nat
    <2>1. b # NONE /\ Height[b] \in Nat
        BY <1>4, <1>5, <1>6
    <2>2. SesHeights(b) \in SUBSET Nat /\ \A h \in SesHeights(b) : h <= Height[b]
        BY <2>1 DEF SesHeights
    <2> QED
        BY <2>1, <2>2, FS_BoundedSetOfNaturals, FS_CardinalityType
<1>8. ASSUME NEW j \in Nat, j < k
      PROVE  /\ SesHeight(peak, j) = SesHeight(t, j) /\ SesHeight(t, j) \in Common(peak, t)
             /\ Ancestor[t][SesHeight(t, j)] \in stored
    <2>1. j + 1 \in 0..k /\ j + 1 # 0 /\ (j + 1) - 1 = j
        BY <1>3, <1>8
    <2>2. SameSummary(peak, t, j)
        BY <1>3, <2>1 DEF MaybeSameSummary
    <2>3. j < Cardinality(SesHeights(peak)) /\ j < Cardinality(SesHeights(t))
        BY <1>3, <1>7, <1>8
    <2>4. SesHeight(peak, j) \in 0..Height[peak] /\ SesHeight(t, j) \in 0..Height[t]
        BY <1>4, <1>6, <2>3, SesPlace
    <2>5. Ancestor[peak][SesHeight(peak, j)] = Ancestor[t][SesHeight(t, j)]
        BY <2>2 DEF SameSummary
    <2>6. SesHeight(peak, j) = SesHeight(t, j)
        BY <1>4, <1>6, <2>4, <2>5, Ancestors
    <2>7. Ancestor[peak][SesHeight(peak, j)] \in stored
        BY <1>6, <2>4, StoredAncestors DEF StoredChains
    <2>8. SesHeight(t, j) \in Common(peak, t)
        BY <1>4, <1>6, <2>4, <2>5, <2>6 DEF Common
    <2> QED
        BY <2>5, <2>6, <2>7, <2>8
<1> DEFINE i == k - SES_BACK
<1>9. /\ i \in Nat /\ i < k /\ k - 1 \in Nat /\ k - 1 < k /\ i + SES_BACK - 1 = k - 1
      /\ i + SES_BACK + 1 < Cardinality(SesHeights(t))
    BY <1>2, <1>3, <1>7
<1>10. fork = SesHeight(t, i) /\ fork \in Common(peak, t)
    BY <1>2, <1>8, <1>9
<1>11. Ancestor[t][SesHeight(t, i + SES_BACK - 1)] \in stored
    <2>1. Ancestor[t][SesHeight(t, k - 1)] \in stored
        BY <1>8, <1>9
    <2> QED
        BY <1>9, <2>1
<1> HIDE DEF i
<1> QED
    BY <1>5, <1>9, <1>10, <1>11 DEF Guarded

\* A long sync begins to wait for the lock.
LEMMA ProofHoldsFork ==
    ASSUME PeersAgree, SyncInv, Sent, StoredChains, NEW s \in Syncs, ProofHolds(s)
    PROVE  ForkOK(sync[s])'
<1> USE DEF SyncInv, Shape
<1>1. sync[s] \in SyncType /\ SyncOK(sync[s]) /\ sync \in [Syncs -> SyncType]
    BY SyncFacts DEF SyncShape
<1>2. /\ sync[s].pc = "validate" /\ ChainOf(sync[s].block) \subseteq HeaderValid
      /\ UNCHANGED <<stored, peak>>
    BY DEF ProofHolds, chain
<1>3. PICK fork \in WeightProofForks(sync[s].block) :
         sync' = [sync EXCEPT ![s] = [@ EXCEPT !.pc = "lock", !.fork = fork]]
    BY DEF ProofHolds
<1>4. sync'[s].pc = "lock" /\ sync'[s].fork = fork /\ sync'[s].block = sync[s].block
    BY <1>1, <1>3 DEF SyncType
<1> DEFINE t == sync[s].block
<1>5. t \in Tips /\ t \in Rooted
    <2>1. t # NONE
        BY <1>1, <1>2, Constants DEF SyncOK
    <2> QED
        BY <2>1, KnownRooted DEF Sent, TargetsOffered
<1>6. fork = 0 \/ Guarded(t, fork)
    BY <1>3, <1>5, ProofFork
<1>7. peak # NONE => fork \in Common(peak, t)
    <2>1. CASE fork = 0
        BY <1>2, <1>5, <2>1, GenesisCommon DEF PeersAgree, StoredChains
    <2>2. CASE fork # 0
        BY <1>3, <1>5, <2>2, ProofFork
    <2> QED
        BY <2>1, <2>2
<1>8. Guarded(t, fork) => Guarded(sync[s].block, sync[s].fork)'
    BY <1>2, <1>4 DEF Guarded
<1> QED
    BY <1>2, <1>4, <1>5, <1>6, <1>7, <1>8 DEF ForkOK

\* It begins to download, from the fork point of the proof or from our peak.
LEMMA DownloadFork ==
    ASSUME PeersAgree, SyncInv, Sent, StoredChains, ForkInv, NEW s \in Syncs, SyncFromForkPoint(s)
    PROVE  ForkOK(sync[s])'
<1> USE DEF SyncInv, Shape
<1>1. sync[s] \in SyncType /\ SyncOK(sync[s]) /\ sync \in [Syncs -> SyncType]
    BY SyncFacts DEF SyncShape
<1>2. sync[s].pc = "lock" /\ UNCHANGED <<stored, peak>>
    BY DEF SyncFromForkPoint, chain
<1> DEFINE t == sync[s].block
<1>3. /\ t \in Tips /\ ChainOf(t) \subseteq HeaderValid
      /\ peak # NONE /\ sync[s].fork <= Height[t] => sync[s].fork \in Common(peak, t)
    BY <1>2 DEF ForkInv, ForkOK, Downloading
<1>4. PICK fork : /\ StartBatches(s, fork)
                  /\ \/ fork = sync[s].fork
                     \/ /\ fork = PeakHeight /\ peak # NONE
                        /\ \E p \in PeersWithPeak(s) :
                              \E a \in Answers(p, PeakHeight + 1) \ {NONE} : Prev[a] = peak
    BY DEF SyncFromForkPoint, NoForkDetected
<1>5. /\ sync'[s].pc = "fetch" /\ sync'[s].fork = fork /\ sync'[s].curr = fork
      /\ sync'[s].block = t
    BY <1>1, <1>4 DEF StartBatches, SyncType
<1>6. ASSUME peak # NONE, fork <= Height[t] PROVE fork \in Common(peak, t)
    <2>1. CASE fork = sync[s].fork
        BY <1>3, <1>6, <2>1
    <2>2. CASE fork = PeakHeight /\ \E p \in PeersWithPeak(s) :
                  \E a \in Answers(p, PeakHeight + 1) \ {NONE} : Prev[a] = peak
        <3>1. fork = Height[peak] /\ peak \in Rooted /\ Height[peak] \in Nat
            BY <1>6, <2>2, Constants DEF PeakHeight, StoredChains, ChainOK, Heights
        <3>2. PICK p \in PeersWithPeak(s) :
                 \E a \in Answers(p, fork + 1) \ {NONE} : Prev[a] = peak
            BY <2>2
        <3>3. PICK a \in Answers(p, fork + 1) \ {NONE} : Prev[a] = peak
            BY <3>2
        <3>4. p \in Peers
            BY <3>2 DEF PeersWithPeak, NetworkShape
        <3>5. tip[p] \in Rooted /\ tip[p] \in Tips /\ Height[tip[p]] \in Nat
            BY <3>4, AnswersOffered, Constants DEF Sent, NetworkShape, Heights
        <3>6. fork + 1 \in 0..Height[tip[p]] /\ a = Ancestor[tip[p]][fork + 1]
            BY <3>3 DEF Answers
        <3>7. a \in Rooted /\ Height[a] = fork + 1
            BY <3>5, <3>6, Ancestors
        <3>8. peak = Ancestor[a][fork]
            <4>1. Height[a] > 0 /\ Height[a] - 1 = fork
                BY <3>1, <3>7
            <4>2. Ancestor[a][Height[a] - 1] = Prev[a]
                BY <3>7, <4>1, AncestorAssumption
            <4> QED
                BY <3>3, <4>1, <4>2
        <3>9. fork \in 0..(fork + 1) /\ fork \in 0..Height[tip[p]]
            BY <3>1, <3>5, <3>6
        <3>10. peak = Ancestor[tip[p]][fork]
            BY <3>5, <3>6, <3>8, <3>9, AncestorAssumption
        <3>11. peak \in Offered
            BY <3>5, <3>9, <3>10 DEF Offered, ChainOf
        <3>12. fork \in Nat /\ fork <= Height[peak] /\ fork \in 0..Height[peak]
            BY <3>1
        <3>13. Ancestor[peak][fork] = Ancestor[t][fork]
            BY <1>3, <1>6, <3>11, <3>12, OnOneChain DEF PeersAgree
        <3> QED
            BY <1>6, <3>12, <3>13 DEF Common
    <2> QED
        BY <1>4, <2>1, <2>2
<1>7. fork <= fork
    <2>1. fork \in Nat
        <3>1. sync[s].fork \in Nat
            BY <1>1 DEF SyncType, Heights
        <3>2. peak # NONE => PeakHeight \in Nat
            BY Constants DEF PeakHeight, StoredChains, ChainOK, Heights
        <3> QED
            BY <1>4, <3>1, <3>2
    <2> QED
        BY <2>1
<1> QED
    BY <1>2, <1>3, <1>5, <1>6, <1>7 DEF ForkOK

\* It waits or downloads as before, while the chain may grow.
LEMMA GoesOnFork ==
    ASSUME PeersAgree, SyncInv, Sent, StoredChains, StoredChains', ForkInv, Next,
           UNCHANGED chain \/ ChainGrows,
           NEW s \in Syncs, SyncAsBefore(s), Downloading(s)
    PROVE  ForkOK(sync[s])'
<1> USE DEF SyncInv, Shape
<1> DEFINE t == sync[s].block
           fork == sync[s].fork
<1>1. sync[s] \in SyncType /\ ForkOK(sync[s]) /\ sync[s].pc \in {"lock", "fetch"}
    BY SyncFacts DEF ForkInv, Downloading
<1>2. /\ sync'[s].pc = sync[s].pc /\ sync'[s].block = t /\ sync'[s].fork = fork
      /\ sync'[s].curr \in {sync[s].curr, sync[s].curr + BATCH_SIZE}
    BY DEF SyncAsBefore
<1>3. fork \in Nat /\ sync[s].curr \in Nat /\ BATCH_SIZE \in Nat
    BY <1>1, Constants DEF SyncType, Heights
<1>4. sync'[s].pc = "fetch" => sync'[s].fork <= sync'[s].curr
    BY <1>1, <1>2, <1>3 DEF ForkOK
<1>5. stored \subseteq stored'
    BY DEF ChainGrows, chain
<1>6. sync'[s].pc = "lock" => fork = 0 \/ Guarded(t, fork)
    BY <1>1, <1>2 DEF ForkOK
<1>7. Guarded(t, fork) => Guarded(sync[s].block, sync[s].fork)'
    BY <1>2, <1>5 DEF Guarded
<1>8. t \in Tips /\ ChainOf(t) \subseteq HeaderValid /\ t \in Rooted
    BY <1>1, KnownRooted DEF ForkOK
<1>9. ASSUME peak' # NONE, fork <= Height[t] PROVE fork \in Common(peak', t)
    <2>1. CASE peak' = peak
        BY <1>1, <1>9, <2>1 DEF ForkOK
    <2>2. CASE fork = 0
        BY <1>8, <1>9, <2>2, GenesisCommon DEF PeersAgree, StoredChains
    <2>3. CASE peak' # peak /\ fork # 0 /\ sync[s].pc = "lock"
        <3>1. ChainGrows
            BY <2>3 DEF chain
        <3>2. Guarded(t, fork)
            BY <1>1, <2>3 DEF ForkOK
        <3>3. peak' \in Known
            BY <2>3, PeakMoves
        <3> QED
            BY <1>8, <2>3, <3>1, <3>2, <3>3, WaitKeepsFork
    <2>4. CASE peak' # peak /\ sync[s].pc = "fetch"
        <3>1. peak' \in Offered /\ sync[s].curr <= Height[peak']
            BY <2>4, PeakMoves
        <3>2. Height[peak'] \in Nat
            BY <3>1, KnownRooted, Constants DEF Heights
        <3>3. fork <= Height[peak']
            BY <1>1, <1>3, <2>4, <3>1, <3>2 DEF ForkOK
        <3>4. Ancestor[peak'][fork] = Ancestor[t][fork]
            BY <1>3, <1>8, <1>9, <3>1, <3>3, OnOneChain DEF PeersAgree
        <3> QED
            BY <1>3, <1>9, <3>2, <3>3, <3>4 DEF Common
    <2> QED
        BY <1>1, <2>1, <2>2, <2>3, <2>4
<1> QED
    BY <1>2, <1>4, <1>6, <1>7, <1>8, <1>9 DEF ForkOK

\* The fork points, through every step.
LEMMA ForkInvKept ==
    ASSUME PeersAgree, SyncInv, Sent, StoredChains, ForkInv, [Next]_vars
    PROVE  ForkInv'
<1>1. CASE UNCHANGED vars
    BY <1>1 DEF vars, chain, ForkInv, ForkOK, Guarded, Downloading
<1>2. CASE Next
    <2>1. StoredChains' /\ (UNCHANGED chain \/ ChainGrows)
        BY StoredChainsKept
    <2>2. SyncsMove
        BY <1>2, SentKept
    <2>3. ASSUME NEW s \in Syncs, Downloading(s)' PROVE ForkOK(sync[s])'
        <3>1. CASE SyncAsBefore(s)
            <4>1. Downloading(s)
                BY <2>3, <3>1 DEF SyncAsBefore, Downloading
            <4> QED
                BY <1>2, <2>1, <3>1, <4>1, GoesOnFork
        <3>2. CASE SyncElsewhere(s)
            BY <2>3, <3>2 DEF SyncElsewhere, Downloading
        <3>3. CASE ProofHolds(s)
            BY <3>3, ProofHoldsFork
        <3>4. CASE SyncFromForkPoint(s)
            BY <3>4, DownloadFork
        <3> QED
            BY <2>2, <3>1, <3>2, <3>3, <3>4 DEF SyncsMove
    <2> QED
        BY <2>3 DEF ForkInv
<1> QED
    BY <1>1, <1>2

\* The fork point is common to our peak and the block that replaces it.
LEMMA ForkInvCommon ==
    ASSUME PeersAgree, SyncInv, Sent, StoredChains, ForkInv
    PROVE  ForkPointCommon
<1> USE DEF SyncInv, Shape
<1>1. ASSUME NEW s \in Syncs, sync[s].pc = "fetch", peak # NONE, NEW p \in sync[s].left,
             NEW got \in SyncAnswers(s, p), Advances(got)
      PROVE  LET heavier == {b \in Added(got) : Weight[b] > Weight[peak]}
                 first == CHOOSE b \in heavier : \A a \in heavier : Height[b] <= Height[a]
             IN  sync[s].fork \in Common(peak, first)
    <2> DEFINE heavier == {b \in Added(got) : Weight[b] > Weight[peak]}
               first == CHOOSE b \in heavier : \A a \in heavier : Height[b] <= Height[a]
               t == sync[s].block
               fork == sync[s].fork
    <2>1. sync[s] \in SyncType /\ p \in Peers
        BY SyncFacts DEF SyncType
    <2>2. /\ sync[s].curr <= Height[t] /\ got \subseteq Offered /\ got \subseteq Blocks
          /\ \A b \in got : sync[s].curr <= Height[b]
        BY <1>1, <2>1, SyncAnswersOffered
    <2>3. Added(got) \subseteq got
        BY DEF Added, ToValidate
    <2>4. heavier # {} /\ heavier \in SUBSET Blocks /\ heavier \subseteq got
        <3>1. heavier = {b \in Added(got) : Weight[b] > PeakWeight}
            BY <1>1 DEF PeakWeight
        <3>2. heavier # {}
            BY <1>1, <3>1 DEF Advances, PeakAfter
        <3> QED
            BY <2>2, <2>3, <3>2
    <2> HIDE DEF heavier
    <2>5. \E b \in heavier : \A a \in heavier : Height[b] <= Height[a]
        BY <2>4, LowestBlock
    <2>6. first \in heavier
        BY <2>5
    <2> HIDE DEF first
    <2>7. first \in Offered /\ sync[s].curr <= Height[first] /\ first \in Blocks
        BY <2>2, <2>4, <2>6
    <2>8. /\ t \in Tips /\ fork <= sync[s].curr
          /\ fork <= Height[t] => fork \in Common(peak, t)
        BY <1>1 DEF ForkInv, ForkOK, Downloading
    <2>9. fork \in Nat /\ sync[s].curr \in Nat /\ Height[t] \in Nat /\ Height[first] \in Nat
        BY <2>1, <2>7, <2>8, KnownRooted, Constants DEF SyncType, Heights
    <2>10. fork <= Height[t] /\ fork <= Height[first]
        BY <2>2, <2>7, <2>8, <2>9
    <2>11. Ancestor[first][fork] = Ancestor[t][fork]
        BY <2>7, <2>8, <2>9, <2>10, OnOneChain DEF PeersAgree
    <2>12. fork \in Common(peak, first)
        BY <2>8, <2>10, <2>11 DEF Common
    <2> QED
        BY <2>12 DEF first, heavier
<1> QED
    BY <1>1 DEF ForkPointCommon

\* When the chains of the peers are one chain, which our own timelord does not leave deeper
\* than the fork point is put, a long sync passes on a fork point that our peak and the block
\* that replaces it have in common, whatever was added between its weight proof and the lock.
THEOREM ForkPointAlwaysCommon ==
    ASSUME PeersAgree
    PROVE  Spec => []ForkPointCommon
<1>1. Init => ForkInv
    BY DEF Init, ForkInv, Downloading, NoSync
<1>2. SyncInv /\ Sent /\ StoredChains /\ ForkInv /\ [Next]_vars => ForkInv'
    BY ForkInvKept
<1>3. SyncInv /\ Sent /\ StoredChains /\ ForkInv => ForkPointCommon
    BY ForkInvCommon
<1> QED
    BY <1>1, <1>2, <1>3, SyncInvariant, ChainAlwaysComplete, PTL DEF Spec
=============================================================================
