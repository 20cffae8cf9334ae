---------------------------- MODULE FullNodeSync ----------------------------
(***************************************************************************)
(* How a full node catches up with its peers: new_peak, the two short syncs, *)
(* _sync and _finish_sync of full_node/full_node.py, respond_block around    *)
(* the chain, and full_node/sync_store.py.                                   *)
(*                                                                           *)
(* The chain is what HeaviestChain promises: `stored` and `peak`.  Handlers  *)
(* of messages and long syncs are tasks that interleave at every await, and  *)
(* exclude each other by blockchain.lock.  A request to a peer is answered   *)
(* from the chain the peer has by then, or not at all.                       *)
(***************************************************************************)
EXTENDS BlockTree, Sequences, FiniteSets

CONSTANTS
    Peers,           \* the full nodes we may be connected to
    PeerTips,        \* PeerTips[p]: the peaks that peer p may come to have
    StartPeaks,      \* the peaks with which our node may start; NONE: with no block
    Infusable,       \* the blocks that our own timelord may finish
    Handlers,        \* bound: message handlers that run at the same time
    Serves,          \* bound: whose messages each of them takes; NONE: our timelord
    Syncs,           \* bound: _sync tasks that run or finish at the same time
    SHORT_SYNC,      \* short_sync_blocks_behind_threshold
    BACKTRACK,       \* how far below our peak a backtrack sync goes (5)
    RECENT_BLOCKS,   \* WEIGHT_PROOF_RECENT_BLOCKS
    SYNC_BEHIND,     \* sync_blocks_behind_threshold
    BATCH_BACK,      \* how far below our peak a batch sync starts (6)
    BATCH_SIZE,      \* MAX_BLOCK_COUNT_PER_REQUESTS
    SES_BACK,        \* summaries between the last common one and the fork point (2)
    CLEAR_PERIOD,    \* peaks of such a height clear the sync information (1000)
    Malformed        \* may an answer be one that cannot be parsed

ASSUME SyncAssumption ==
    /\ PeerTips \in [Peers -> SUBSET Rooted]
    /\ StartPeaks \subseteq Rooted \cup {NONE}
    /\ \A b \in StartPeaks \ {NONE} : \A h \in 0..Height[b] :
          Ancestor[b][h] \in HeaderValid \cap BodyValid
    /\ Infusable \subseteq Rooted
    /\ NONE \notin Peers
    /\ IsFiniteSet(Handlers) /\ Handlers \cap Syncs = {}
    /\ Serves \in [Handlers -> SUBSET (Peers \cup {NONE})]
    /\ {SHORT_SYNC, BACKTRACK, RECENT_BLOCKS, SYNC_BEHIND, BATCH_BACK} \subseteq Nat
    /\ SES_BACK \in Nat \ {0}
    /\ BATCH_SIZE \in Nat \ {0}
    /\ CLEAR_PERIOD \in Nat \ {0}
    /\ Malformed \in BOOLEAN

VARIABLES
    stored,             \* blocks that contains_block knows
    peak,               \* get_peak(); NONE before the first block
    connected,          \* server.all_connections
    tip,                \* the peak of each peer's own chain
    sync_mode,          \* SyncStore.sync_mode
    long_sync,          \* SyncStore.long_sync
    target,             \* SyncStore.sync_target_header_hash
    peak_to_peer,       \* SyncStore.peak_to_peer; NONE where there is no key
    peer_to_peak,       \* SyncStore.peer_to_peak; NONE where there is no key
    peers_changed,      \* SyncStore.peers_changed.is_set()
    batch_syncing,      \* SyncStore.batch_syncing
    backtrack_syncing,  \* SyncStore.backtrack_syncing
    lock,               \* blockchain.lock: its holder and the tasks that wait
    handler,            \* the message handlers
    sync,               \* the _sync tasks
    told                \* were record and block of the last peak_post_processing one peak

chain == <<stored, peak>>
network == <<connected, tip>>
mode == <<sync_mode, long_sync, target>>
peaks == <<peak_to_peer, peer_to_peak, peers_changed>>
flags == <<batch_syncing, backtrack_syncing>>
vars == <<chain, network, mode, peaks, flags, lock, handler, sync, told>>

----------------------------------------------------------------------------
(* State                                                                    *)

\* peer: whom the handler serves, NONE for a block that our timelord infused; open: is
\* the connection it serves still open; block: the peak it was told of; our:
\* curr_peak_height, as it was then; curr: the height it asks for next; got: the blocks
\* it has received.
Free == [pc |-> "free", peer |-> NONE, open |-> TRUE, block |-> NONE, our |-> 0,
         curr |-> 0, got |-> {}]

\* block: heaviest_peak_hash; peers: the connections it works with that are still
\* open; left: those not yet asked for the batch; fork: fork_point_height; curr: the
\* first height of the batch; advanced: advanced_peak; record: the peak that
\* _finish_sync has read.
NoSync == [pc |-> "free", block |-> NONE, peers |-> {}, left |-> {}, fork |-> 0,
           curr |-> 0, advanced |-> FALSE, record |-> NONE]

ChainOf(b) == {Ancestor[b][h] : h \in 0..Height[b]}

Init ==
    /\ peak \in StartPeaks
    /\ stored = IF peak = NONE THEN {} ELSE ChainOf(peak)
    /\ connected = {}
    /\ tip \in [Peers -> Blocks]
    /\ \A p \in Peers : tip[p] \in PeerTips[p]
    /\ sync_mode = FALSE /\ long_sync = FALSE /\ target = NONE
    /\ peak_to_peer = [b \in Blocks |-> NONE]
    /\ peer_to_peak = [p \in Peers |-> NONE]
    /\ peers_changed = FALSE
    /\ batch_syncing = {}
    /\ backtrack_syncing = [p \in Peers |-> 0]
    /\ lock = <<>>
    /\ handler = [h \in Handlers |-> Free]
    /\ sync = [s \in Syncs |-> NoSync]
    /\ told = TRUE

PeakHeight == IF peak = NONE THEN 0 ELSE Height[peak]
PeakWeight == IF peak = NONE THEN 0 ELSE Weight[peak]

Holds(t) == lock # <<>> /\ Head(lock) = t
Acquire(t) == lock' = Append(lock, t)
Release == lock' = Tail(lock)

----------------------------------------------------------------------------
(* SyncStore                                                                *)

HaveBlock(b) == IF peak_to_peer[b] = NONE THEN {} ELSE peak_to_peer[b]

\* peer_has_block for each of several peers.
PeersHaveBlock(b, ps) ==
    /\ peak_to_peer' = [peak_to_peer EXCEPT ![b] = IF ps = {} THEN @ ELSE HaveBlock(b) \cup ps]
    /\ peers_changed' = (peers_changed \/ (ps # {} /\ b = target))

\* peer_has_block(..., new_peak=True)
PeerHasPeak(b, p) ==
    /\ PeersHaveBlock(b, {p})
    /\ peer_to_peak' = [peer_to_peak EXCEPT ![p] = b]

\* The peers whose peak get_peak_of_each_peer and get_heaviest_peak do not skip.
KnownPeaks == {p \in Peers : peer_to_peak[p] # NONE /\ peak_to_peer[peer_to_peak[p]] # NONE}

HeaviestPeaks ==
    {peer_to_peak[p] : p \in {q \in KnownPeaks :
        \A r \in KnownPeaks : Weight[peer_to_peak[r]] <= Weight[peer_to_peak[q]]}}

ClearSyncInfo == peak_to_peer' = [b \in Blocks |-> NONE]

PeerDisconnected(p) ==
    /\ peer_to_peak' = [peer_to_peak EXCEPT ![p] = NONE]
    /\ peak_to_peer' = [b \in Blocks |->
          IF peak_to_peer[b] = NONE THEN NONE ELSE peak_to_peer[b] \ {p}]
    /\ peers_changed' = TRUE

----------------------------------------------------------------------------
(* Peers                                                                    *)

Connect(p) ==
    /\ p \notin connected
    /\ connected' = connected \cup {p}
    /\ UNCHANGED <<chain, tip, mode, peaks, flags, lock, handler, sync, told>>

PeerAdvances(p) ==
    /\ \E b \in PeerTips[p] : Weight[b] > Weight[tip[p]] /\ tip' = [tip EXCEPT ![p] = b]
    /\ UNCHANGED <<chain, connected, mode, peaks, flags, lock, handler, sync, told>>

\* What a closed connection means to the tasks that use it.
HandlersWithout(p) ==
    [h \in Handlers |->
        IF handler[h].peer = p THEN [handler[h] EXCEPT !.open = FALSE] ELSE handler[h]]
SyncsWithout(p) ==
    [s \in Syncs |-> [sync[s] EXCEPT !.peers = @ \ {p}, !.left = @ \ {p}]]

Disconnect(p) ==
    /\ p \in connected
    /\ connected' = connected \ {p}
    /\ PeerDisconnected(p)
    /\ handler' = HandlersWithout(p)
    /\ sync' = SyncsWithout(p)
    /\ UNCHANGED <<chain, tip, mode, flags, lock, told>>

\* What a request for the block of a height brings over an open connection: nothing
\* (a timeout, a rejection), or the block on the chain the peer has now.
Answers(p, height) ==
    {NONE} \cup IF height \in 0..Height[tip[p]]
                THEN {Ancestor[tip[p]][height]} ELSE {}

\* A request for blocks brings all of them or none.
BatchAnswers(p, first, last) ==
    {{}} \cup IF last <= Height[tip[p]]
              THEN {{Ancestor[tip[p]][h] : h \in first..last}} ELSE {}

AnswersTo(h, height) ==
    IF handler[h].open THEN Answers(handler[h].peer, height) ELSE {NONE}

----------------------------------------------------------------------------
(* new_peak                                                                 *)

Interesting(b) == b \notin stored /\ PeakWeight <= Weight[b]

\* A handler that needs to know no more than whom it serves.
Serving(h) == [Free EXCEPT !.peer = handler[h].peer, !.open = handler[h].open]

Raising(h) == IF handler[h].peer = NONE THEN Free ELSE [Serving(h) EXCEPT !.pc = "raised"]

Handle(h, changes) == handler' = [handler EXCEPT ![h] = changes]

NewPeakIgnored(h, p) ==
    /\ handler[h].pc = "free" /\ p \in connected
    /\ ~Interesting(tip[p])
    /\ PeerHasPeak(tip[p], p)
    /\ UNCHANGED <<chain, network, mode, flags, lock, handler, sync, told>>

\* During a sync the peer is only asked for the block we are syncing to, unless we
\* know that it has it.
NewPeakWhileSyncing(h, p) ==
    /\ handler[h].pc = "free" /\ p \in connected
    /\ Interesting(tip[p])
    /\ sync_mode
    /\ PeerHasPeak(tip[p], p)
    /\ IF target # NONE /\ tip[p] # target /\ p \notin HaveBlock(target)
       THEN Handle(h, [Free EXCEPT !.pc = "ask", !.peer = p, !.block = target])
       ELSE UNCHANGED handler
    /\ UNCHANGED <<chain, network, mode, flags, lock, sync, told>>

NewPeakNear(h, p) ==
    /\ handler[h].pc = "free" /\ p \in connected
    /\ Interesting(tip[p])
    /\ ~sync_mode
    /\ Height[tip[p]] <= PeakHeight + SHORT_SYNC
    /\ PeerHasPeak(tip[p], p)
    /\ backtrack_syncing' = [backtrack_syncing EXCEPT ![p] = @ + 1]
    /\ Handle(h, [Free EXCEPT !.pc = "backtrack", !.peer = p, !.block = tip[p],
                              !.our = PeakHeight, !.curr = Height[tip[p]]])
    /\ UNCHANGED <<chain, network, mode, batch_syncing, lock, sync, told>>

NewPeakFar(h, p) ==
    /\ handler[h].pc = "free" /\ p \in connected
    /\ Interesting(tip[p])
    /\ ~sync_mode
    /\ Height[tip[p]] > PeakHeight + SHORT_SYNC
    /\ PeerHasPeak(tip[p], p)
    /\ Handle(h, [Free EXCEPT !.pc = "far", !.peer = p, !.block = tip[p], !.our = PeakHeight])
    /\ UNCHANGED <<chain, network, mode, flags, lock, sync, told>>

\* The answer is not compared with the target: any block of that height will do.
Asked(h) ==
    /\ handler[h].pc = "ask"
    /\ \/ /\ \E a \in AnswersTo(h, Height[handler[h].block]) :
                PeersHaveBlock(handler[h].block, IF a = NONE THEN {} ELSE {handler[h].peer})
          /\ Handle(h, Free)
       \/ /\ Malformed
          /\ Handle(h, Raising(h))
          /\ UNCHANGED <<peak_to_peer, peers_changed>>
    /\ UNCHANGED <<chain, network, mode, peer_to_peak, flags, lock, sync, told>>

\* An exception that leaves a handler closes the connection (api_call in server.py).
Raised(h) ==
    /\ handler[h].pc = "raised"
    /\ IF handler[h].open
       THEN /\ connected' = connected \ {handler[h].peer}
            /\ PeerDisconnected(handler[h].peer)
            /\ handler' = [HandlersWithout(handler[h].peer) EXCEPT ![h] = Free]
            /\ sync' = SyncsWithout(handler[h].peer)
       ELSE Handle(h, Free) /\ UNCHANGED <<connected, peaks, sync>>
    /\ UNCHANGED <<chain, tip, mode, flags, lock, told>>

----------------------------------------------------------------------------
(* short_sync_backtrack                                                     *)

\* Mutant: only a backtrack sync that ends well is counted down.
CountedWhenFound(h, raises) ==
    backtrack_syncing' = IF handler[h].peer = NONE \/ raises THEN backtrack_syncing
                         ELSE [backtrack_syncing EXCEPT ![handler[h].peer] = @ - 1]

\* Mutant: a backtrack sync that raises is counted down by both its handlers.
CountedTwice(h, raises) ==
    backtrack_syncing' = IF handler[h].peer = NONE THEN backtrack_syncing
                         ELSE [backtrack_syncing EXCEPT ![handler[h].peer] = IF raises THEN @ - 2 ELSE @ - 1]

\* The counter goes down on every way out; respond_block for a block of our own
\* timelord has none.
CountedDown(h, raises) ==
    backtrack_syncing' = IF handler[h].peer = NONE THEN backtrack_syncing
                         ELSE [backtrack_syncing EXCEPT ![handler[h].peer] = @ - 1]

\* The condition of the loop.
Backtracks(h) == handler[h].pc = "backtrack" /\ handler[h].curr > handler[h].our - BACKTRACK

BacktrackFails(h) ==
    /\ Backtracks(h)
    /\ CountedDown(h, TRUE)
    /\ Handle(h, Raising(h))
    /\ UNCHANGED <<chain, network, mode, peaks, batch_syncing, lock, sync, told>>

\* The block is connected to our chain: all blocks go through respond_block.
BacktrackConnects(h) ==
    /\ Backtracks(h)
    /\ \E a \in AnswersTo(h, handler[h].curr) \ {NONE} :
          /\ Prev[a] \in stored \/ handler[h].curr = 0
          /\ Handle(h, [Serving(h) EXCEPT !.pc = "respond", !.got = handler[h].got \cup {a}])
    /\ UNCHANGED <<chain, network, mode, peaks, flags, lock, sync, told>>

BacktrackGoesOn(h) ==
    /\ Backtracks(h)
    /\ \E a \in AnswersTo(h, handler[h].curr) \ {NONE} :
          /\ Prev[a] \notin stored /\ handler[h].curr > 0
          /\ Handle(h, [handler[h] EXCEPT !.curr = @ - 1, !.got = @ \cup {a}])
    /\ UNCHANGED <<chain, network, mode, peaks, flags, lock, sync, told>>

BacktrackTooDeep(h) ==
    /\ handler[h].pc = "backtrack" /\ ~Backtracks(h)
    /\ CountedDown(h, FALSE)
    /\ Handle(h, [handler[h] EXCEPT !.pc = "far", !.curr = 0, !.got = {}])
    /\ UNCHANGED <<chain, network, mode, peaks, batch_syncing, lock, sync, told>>

----------------------------------------------------------------------------
(* respond_block                                                            *)

\* A block that our own timelord has infused into the chain.
Infuse(h) ==
    /\ handler[h].pc = "free"
    /\ \E b \in Infusable \ stored :
          /\ Height[b] > 0 /\ Prev[b] \in stored
          /\ Handle(h, [Free EXCEPT !.pc = "respond", !.got = {b}])
    /\ UNCHANGED <<chain, network, mode, peaks, flags, lock, sync, told>>

\* The block of the lowest height is next.
Responding(h) ==
    CHOOSE b \in handler[h].got : \A a \in handler[h].got : Height[b] <= Height[a]
NextResponse(h) == [handler[h] EXCEPT !.pc = "respond", !.got = @ \ {Responding(h)}]

RespondSkips(h) ==
    /\ handler[h].pc = "respond" /\ handler[h].got # {}
    /\ sync_mode \/ Responding(h) \in stored
    /\ Handle(h, NextResponse(h))
    /\ UNCHANGED <<chain, network, mode, peaks, flags, lock, sync, told>>

RespondWaits(h) ==
    /\ handler[h].pc = "respond" /\ handler[h].got # {}
    /\ ~sync_mode /\ Responding(h) \notin stored
    /\ Handle(h, [handler[h] EXCEPT !.pc = "add"])
    /\ Acquire(h)
    /\ UNCHANGED <<chain, network, mode, peaks, flags, sync, told>>

\* Mutant: the early return leaves the lock taken.
RespondKeepsLock(h) ==
    /\ handler[h].pc = "add" /\ Holds(h)
    /\ LET b == Responding(h)
       IN  b \in stored \/ (Height[b] > 0 /\ Prev[b] \notin stored)
    /\ Handle(h, NextResponse(h))
    /\ UNCHANGED <<chain, network, mode, peaks, flags, lock, sync, told>>

\* With the lock: somebody else has added the block, or its parent is unknown.
RespondReturns(h) ==
    /\ handler[h].pc = "add" /\ Holds(h)
    /\ LET b == Responding(h)
       IN  b \in stored \/ (Height[b] > 0 /\ Prev[b] \notin stored)
    /\ Handle(h, NextResponse(h))
    /\ Release
    /\ UNCHANGED <<chain, network, mode, peaks, flags, sync, told>>

Addable(b) == b \notin stored /\ (Height[b] > 0 => Prev[b] \in stored)
ValidBlock(b) == b \in HeaderValid \cap BodyValid

\* An exception leaves short_sync_backtrack as well.
RespondRaises(h) ==
    /\ handler[h].pc = "add" /\ Holds(h)
    /\ Addable(Responding(h))
    /\ ~ValidBlock(Responding(h))
    /\ CountedDown(h, TRUE)
    /\ Handle(h, Raising(h))
    /\ Release
    /\ UNCHANGED <<chain, network, mode, peaks, batch_syncing, sync, told>>

\* The end of respond_block: every CLEAR_PERIOD blocks the sync information goes.
AfterAdding(newPeak) ==
    IF Height[newPeak] % CLEAR_PERIOD = 0 /\ ~sync_mode
    THEN ClearSyncInfo ELSE UNCHANGED peak_to_peer

RespondOrphan(h) ==
    /\ handler[h].pc = "add" /\ Holds(h)
    /\ LET b == Responding(h)
       IN  /\ Addable(b) /\ ValidBlock(b)
           /\ peak # NONE /\ Weight[b] <= Weight[peak]
           /\ stored' = stored \cup {b}
    /\ AfterAdding(peak)
    /\ Handle(h, NextResponse(h))
    /\ Release
    /\ UNCHANGED <<peak, network, mode, peer_to_peak, peers_changed, flags, sync, told>>

RespondNewPeak(h) ==
    /\ handler[h].pc = "add" /\ Holds(h)
    /\ LET b == Responding(h)
       IN  /\ Addable(b) /\ ValidBlock(b)
           /\ peak = NONE \/ Weight[b] > Weight[peak]
           /\ stored' = stored \cup {b}
           /\ peak' = b
    /\ Handle(h, [handler[h] EXCEPT !.pc = "post"])
    /\ UNCHANGED <<network, mode, peaks, flags, lock, sync, told>>

\* peak_post_processing(block, new_peak, ...)
RespondAnnounces(h) ==
    /\ handler[h].pc = "post"
    /\ told' = (Responding(h) = peak)
    /\ AfterAdding(peak)
    /\ Handle(h, NextResponse(h))
    /\ Release
    /\ UNCHANGED <<chain, network, mode, peer_to_peak, peers_changed, flags, sync>>

RespondEnds(h) ==
    /\ handler[h].pc = "respond" /\ handler[h].got = {}
    /\ CountedDown(h, FALSE)
    /\ Handle(h, Free)
    /\ UNCHANGED <<chain, network, mode, peaks, batch_syncing, lock, sync, told>>
----------------------------------------------------------------------------
(* short_sync_batch and the rest of new_peak                                *)

\* The first height: 0 at the start of the chain, some blocks below our peak later.
BatchStart(h) ==
    IF Height[handler[h].block] < RECENT_BLOCKS \/ handler[h].our < BATCH_BACK THEN 0
    ELSE handler[h].our - BATCH_BACK

TooFar(h) ==
    /\ Height[handler[h].block] >= RECENT_BLOCKS
    /\ Height[handler[h].block] >= handler[h].our + SYNC_BEHIND

NeedsLongSync(h) ==
    /\ handler[h].pc = "far"
    /\ TooFar(h)
    /\ Handle(h, [Free EXCEPT !.pc = "start"])
    /\ UNCHANGED <<chain, network, mode, peaks, flags, lock, sync, told>>

\* A sync from this peer is under way already.
BatchRefused(h) ==
    /\ handler[h].pc = "far"
    /\ ~TooFar(h)
    /\ backtrack_syncing[handler[h].peer] > 0 \/ handler[h].peer \in batch_syncing
    /\ Handle(h, Free)
    /\ UNCHANGED <<chain, network, mode, peaks, flags, lock, sync, told>>

\* _segment_task, which is cancelled here, builds weight proofs and shares no state.
BatchBegins(h) ==
    /\ handler[h].pc = "far"
    /\ ~TooFar(h)
    /\ backtrack_syncing[handler[h].peer] = 0 /\ handler[h].peer \notin batch_syncing
    /\ batch_syncing' = batch_syncing \cup {handler[h].peer}
    /\ Handle(h, [handler[h] EXCEPT !.pc = IF BatchStart(h) > 0 THEN "first" ELSE "fetch",
                                     !.our = 0, !.curr = BatchStart(h)])
    /\ UNCHANGED <<chain, network, mode, peaks, backtrack_syncing, lock, sync, told>>

NotBatchSyncing(h) == batch_syncing' = batch_syncing \ {handler[h].peer}

\* The first block is requested before the try statement begins: an exception in the
\* request itself leaves the peer in batch_syncing.
BatchFirst(h) ==
    /\ handler[h].pc = "first"
    /\ \/ \E a \in AnswersTo(h, handler[h].curr) :
             \/ /\ a = NONE
                /\ NotBatchSyncing(h)
                /\ Handle(h, Raising(h))
             \/ /\ a # NONE /\ Prev[a] \notin stored
                /\ NotBatchSyncing(h)
                /\ Handle(h, [Free EXCEPT !.pc = "start"])
             \/ /\ a # NONE /\ Prev[a] \in stored
                /\ Handle(h, [handler[h] EXCEPT !.pc = "fetch"])
                /\ UNCHANGED batch_syncing
       \/ /\ Malformed
          /\ Handle(h, Raising(h))
          /\ UNCHANGED batch_syncing
    /\ UNCHANGED <<chain, network, mode, peaks, backtrack_syncing, lock, sync, told>>

BatchEnd(first, last) == IF first + BATCH_SIZE < last THEN first + BATCH_SIZE ELSE last

BatchFetch(h) ==
    /\ handler[h].pc = "fetch"
    /\ handler[h].curr < Height[handler[h].block]
    /\ \E got \in BatchAnswers(handler[h].peer, handler[h].curr,
                                BatchEnd(handler[h].curr, Height[handler[h].block])) :
          /\ got # {} => handler[h].open
          /\ IF got = {}
             THEN /\ NotBatchSyncing(h)
                  /\ Handle(h, Raising(h))
                  /\ UNCHANGED lock
             ELSE /\ Handle(h, [handler[h] EXCEPT !.pc = "batch", !.got = got])
                  /\ Acquire(h)
                  /\ UNCHANGED batch_syncing
    /\ UNCHANGED <<chain, network, mode, peaks, backtrack_syncing, sync, told>>

\* receive_block_batch: the blocks from the first unknown one on are validated, and
\* received one after the other until one is refused.
ToValidate(blocks) == {b \in blocks : \E a \in blocks \ stored : Height[a] <= Height[b]}
PreValidates(blocks) ==
    /\ ToValidate(blocks) \subseteq HeaderValid
    /\ \A b \in ToValidate(blocks) :
          Height[b] > 0 => Prev[b] \in stored \cup ToValidate(blocks)
Added(blocks) ==
    {b \in ToValidate(blocks) :
        /\ PreValidates(blocks)
        /\ \A a \in ToValidate(blocks) : Height[a] <= Height[b] => a \in BodyValid}
Success(blocks) == Added(blocks) = ToValidate(blocks)
PeakAfter(blocks) ==
    LET heavier == {b \in Added(blocks) : Weight[b] > PeakWeight}
    IN  IF heavier = {} THEN peak
        ELSE CHOOSE b \in heavier : \A a \in heavier : Weight[a] <= Weight[b]
Advances(blocks) == PeakAfter(blocks) # peak
ReceiveBlockBatch(blocks) ==
    /\ stored' = stored \cup Added(blocks)
    /\ peak' = PeakAfter(blocks)

NextBatch(h) == [handler[h] EXCEPT !.pc = "fetch", !.curr = @ + BATCH_SIZE, !.got = {}]

BatchReceived(h) ==
    /\ handler[h].pc = "batch" /\ Holds(h)
    /\ ReceiveBlockBatch(handler[h].got)
    /\ \/ /\ ~Success(handler[h].got)
          /\ NotBatchSyncing(h)
          /\ Handle(h, Raising(h))
          /\ Release
       \/ /\ Success(handler[h].got)
          /\ ~Advances(handler[h].got)
          /\ Handle(h, NextBatch(h))
          /\ Release
          /\ UNCHANGED batch_syncing
       \/ /\ Success(handler[h].got)
          /\ Advances(handler[h].got)
          /\ Handle(h, [handler[h] EXCEPT !.pc = "batchpost"])
          /\ UNCHANGED <<batch_syncing, lock>>
    /\ UNCHANGED <<network, mode, peaks, backtrack_syncing, sync, told>>

BatchAnnounces(h) ==
    /\ handler[h].pc = "batchpost"
    /\ told' = TRUE
    /\ Handle(h, NextBatch(h))
    /\ Release
    /\ UNCHANGED <<chain, network, mode, peaks, flags, sync>>

BatchEnds(h) ==
    /\ handler[h].pc = "fetch"
    /\ handler[h].curr >= Height[handler[h].block]
    /\ NotBatchSyncing(h)
    /\ Handle(h, Free)
    /\ UNCHANGED <<chain, network, mode, peaks, backtrack_syncing, lock, sync, told>>
----------------------------------------------------------------------------
(* _sync                                                                    *)

\* The early returns of _sync; or, a bound, too many syncs are still finishing.
SyncRefused(h) ==
    /\ handler[h].pc = "start"
    /\ sync_mode \/ long_sync \/ \A s \in Syncs : sync[s].pc # "free"
    /\ Handle(h, Free)
    /\ UNCHANGED <<chain, network, mode, peaks, flags, lock, sync, told>>

SyncStarts(h, s) ==
    /\ handler[h].pc = "start"
    /\ ~sync_mode /\ ~long_sync
    /\ sync[s].pc = "free"
    /\ long_sync' = TRUE
    /\ sync' = [sync EXCEPT ![s] = [NoSync EXCEPT !.pc = "collect"]]
    /\ Handle(h, Free)
    /\ UNCHANGED <<chain, network, sync_mode, target, peaks, flags, lock, told>>

\* Mutant: sync mode ends only after a sync that succeeded.
LeavesLongSyncOnly ==
    /\ long_sync' = FALSE
    /\ UNCHANGED sync_mode

\* The flags that _finish_sync resets, whatever has happened before.
LeavesSyncMode ==
    /\ long_sync' = FALSE
    /\ sync_mode' = FALSE

\* The beginning of _finish_sync, up to its wait for the lock.
Finishing == [NoSync EXCEPT !.pc = "finish", !.record = peak]

\* An exception in _sync while it does not hold the lock; `closed` are the
\* connections that are closed on the way.
SyncFails(s, closed) ==
    /\ LeavesSyncMode
    /\ Acquire(s)
    /\ IF closed = {}
       THEN /\ sync' = [sync EXCEPT ![s] = Finishing]
            /\ UNCHANGED <<connected, peaks, handler>>
       ELSE \E p \in closed :
            /\ connected' = connected \ {p}
            /\ PeerDisconnected(p)
            /\ handler' = HandlersWithout(p)
            /\ sync' = [SyncsWithout(p) EXCEPT ![s] = Finishing]
    /\ UNCHANGED <<chain, tip, target, flags, told>>

\* No peak was collected, or get_heaviest_peak finds none and its assertion fails.
SyncFindsNoPeak(s) ==
    /\ sync[s].pc = "collect"
    /\ KnownPeaks = {}
    /\ SyncFails(s, {})

SyncSelectsPeak(s) ==
    /\ sync[s].pc = "collect"
    /\ \E b \in HeaviestPeaks :
          /\ target' = b
          /\ sync' = [sync EXCEPT ![s] = [@ EXCEPT !.pc = "gather", !.block = b,
                                                  !.peers = connected]]
    /\ UNCHANGED <<chain, network, sync_mode, long_sync, peaks, flags, lock, handler, told>>

\* The peers that may answer when all are asked for the block of the target's height.
Answering(s) == {p \in sync[s].peers : Height[sync[s].block] <= Height[tip[p]]}

\* One of those that are known to have the peak is asked for its weight proof.
SyncGathers(s) ==
    /\ sync[s].pc = "gather"
    /\ \E having \in SUBSET Answering(s) :
          /\ PeersHaveBlock(sync[s].block, having)
          /\ \E p \in (HaveBlock(sync[s].block) \cup having) \cap connected :
                sync' = [sync EXCEPT ![s] = [@ EXCEPT !.pc = "proof", !.peers = {p}]]
    /\ Weight[sync[s].block] > PeakWeight
    /\ UNCHANGED <<chain, network, mode, peer_to_peak, flags, lock, handler, told>>

\* Nobody has the peak (random.choice of an empty list), we have caught up, or an
\* answer cannot be parsed.
SyncGivesUp(s) ==
    /\ sync[s].pc = "gather"
    /\ \E having \in SUBSET Answering(s) :
          /\ PeersHaveBlock(sync[s].block, having)
          /\ \/ (HaveBlock(sync[s].block) \cup having) \cap connected = {}
             \/ Weight[sync[s].block] <= PeakWeight
             \/ Malformed /\ having = {}
    /\ LeavesSyncMode
    /\ Acquire(s)
    /\ sync' = [sync EXCEPT ![s] = Finishing]
    /\ UNCHANGED <<chain, network, target, peer_to_peak, flags, handler, told>>

ProofArrives(s) ==
    /\ sync[s].pc = "proof"
    /\ \E p \in sync[s].peers : sync[s].block \in ChainOf(tip[p])
    /\ Weight[sync[s].block] > PeakWeight
    /\ sync' = [sync EXCEPT ![s].pc = "validate"]
    /\ UNCHANGED <<chain, network, mode, peaks, flags, lock, handler, told>>

\* The proof does not come in time, is one for another peak, or does not hold.
ProofFails(s) ==
    /\ sync[s].pc \in {"proof", "validate"}
    /\ SyncFails(s, sync[s].peers)

\* Our own peak is heavier by now: nobody is to blame.
ProofTooLate(s) ==
    /\ sync[s].pc = "proof"
    /\ \E p \in sync[s].peers : sync[s].block \in ChainOf(tip[p])
    /\ Weight[sync[s].block] <= PeakWeight
    /\ SyncFails(s, {})

\* get_ses_heights: the heights of a chain that include a sub-epoch summary, and the
\* k-th of them.
SesHeights(b) == IF b = NONE THEN {} ELSE {h \in 0..Height[b] : HasSes[Ancestor[b][h]]}
SesHeight(b, k) ==
    CHOOSE h \in SesHeights(b) : Cardinality({i \in SesHeights(b) : i < h}) = k

\* Two summaries with the same index are surely identical when one block includes
\* both, and may be identical when that is so of the summaries before them.
SameSummary(a, b, k) == Ancestor[a][SesHeight(a, k)] = Ancestor[b][SesHeight(b, k)]
MaybeSameSummary(a, b, k) == k = 0 \/ SameSummary(a, b, k - 1)

\* get_fork_point: fork_point_index is the last of the matching summaries, the
\* weight proof's last one excepted.
ForkPointIndexes(b) ==
    LET compared == {k \in 0..(Cardinality(SesHeights(peak)) - 1) :
                        k < Cardinality(SesHeights(b)) - 1}
    IN  {0} \cup {k \in compared : \A i \in 0..k : MaybeSameSummary(peak, b, i)}

\* Mutant: the last matching summary itself is taken for the fork point.
LastCommonSummary(b) ==
    {IF k > SES_BACK THEN SesHeight(peak, k) ELSE 0 : k \in ForkPointIndexes(b)}

WeightProofForks(b) ==
    {IF k > SES_BACK THEN SesHeight(peak, k - SES_BACK) ELSE 0 : k \in ForkPointIndexes(b)}

ProofHolds(s) ==
    /\ sync[s].pc = "validate"
    /\ ChainOf(sync[s].block) \subseteq HeaderValid
    /\ \E fork \in WeightProofForks(sync[s].block) :
          sync' = [sync EXCEPT ![s] = [@ EXCEPT !.pc = "lock", !.fork = fork]]
    /\ sync_mode' = TRUE
    /\ Acquire(s)
    /\ UNCHANGED <<chain, network, long_sync, target, peaks, flags, handler, told>>

----------------------------------------------------------------------------
(* sync_from_fork_point, under the lock                                     *)

PeersWithPeak(s) == HaveBlock(sync[s].block) \cap connected

\* The end of the `async with` block and the beginning of _finish_sync.
SyncLeavesLock(s) ==
    /\ LeavesSyncMode
    /\ lock' = Append(Tail(lock), s)
    /\ sync' = [sync EXCEPT ![s] = Finishing]

NobodyToSyncFrom(s) ==
    /\ sync[s].pc = "lock" /\ Holds(s)
    /\ PeersWithPeak(s) = {}
    /\ SyncLeavesLock(s)
    /\ UNCHANGED <<chain, network, target, peaks, flags, handler, told>>

\* Does the fork point say that no fork was detected?
NoForkDetected(fork) ==
    LET n == Cardinality(SesHeights(peak))
    IN  peak # NONE /\ n > SES_BACK /\ fork = SesHeight(peak, n - 1 - SES_BACK)

StartBatches(s, fork) ==
    sync' = [sync EXCEPT ![s] = [@ EXCEPT !.pc = "fetch", !.fork = fork, !.curr = fork,
                                          !.peers = PeersWithPeak(s), !.left = PeersWithPeak(s)]]

\* One peer's block above our peak shows whether the peak itself is the fork point.
SyncFromForkPoint(s) ==
    /\ sync[s].pc = "lock" /\ Holds(s)
    /\ PeersWithPeak(s) # {}
    /\ \/ StartBatches(s, sync[s].fork)
       \/ /\ NoForkDetected(sync[s].fork)
          /\ \E p \in PeersWithPeak(s) :
                \E a \in Answers(p, PeakHeight + 1) \ {NONE} : Prev[a] = peak
          /\ StartBatches(s, PeakHeight)
    /\ UNCHANGED <<chain, network, mode, peaks, flags, lock, handler, told>>

\* The peer answers with nothing, and is dropped, or with a rejection.
SyncFetchFails(s, p) ==
    /\ sync[s].pc = "fetch" /\ p \in sync[s].left
    /\ sync[s].curr < Height[sync[s].block]
    /\ \/ /\ connected' = connected \ {p}
          /\ PeerDisconnected(p)
          /\ handler' = HandlersWithout(p)
          /\ sync' = SyncsWithout(p)
       \/ /\ sync' = [sync EXCEPT ![s].peers = @ \ {p}, ![s].left = @ \ {p}]
          /\ UNCHANGED <<connected, peaks, handler>>
    /\ UNCHANGED <<chain, tip, mode, flags, lock, told>>

\* An answer that cannot be parsed ends the sync.
SyncRaises(s) ==
    /\ Malformed /\ Holds(s)
    /\ \/ sync[s].pc = "lock" /\ NoForkDetected(sync[s].fork) /\ PeersWithPeak(s) # {}
       \/ sync[s].pc = "fetch" /\ sync[s].left # {} /\ sync[s].curr < Height[sync[s].block]
    /\ SyncLeavesLock(s)
    /\ UNCHANGED <<chain, network, target, peaks, flags, handler, told>>

SyncAnswers(s, p) ==
    BatchAnswers(p, sync[s].curr, BatchEnd(sync[s].curr, Height[sync[s].block])) \ {{}}

\* A batch that is not valid costs the peer its connection; some of its blocks may
\* have been added.
SyncBatchInvalid(s, p) ==
    /\ sync[s].pc = "fetch" /\ p \in sync[s].left
    /\ sync[s].curr < Height[sync[s].block]
    /\ \E got \in SyncAnswers(s, p) :
          /\ ~Success(got)
          /\ ReceiveBlockBatch(got)
          /\ sync' = [SyncsWithout(p) EXCEPT ![s].advanced = Advances(got)]
    /\ connected' = connected \ {p}
    /\ PeerDisconnected(p)
    /\ handler' = HandlersWithout(p)
    /\ UNCHANGED <<tip, mode, flags, lock, told>>

\* The list of peers is renewed after a batch if there was a change.
SyncBatchAdded(s, p) ==
    /\ sync[s].pc = "fetch" /\ p \in sync[s].left
    /\ sync[s].curr < Height[sync[s].block]
    /\ LET peers == IF peers_changed THEN PeersWithPeak(s) ELSE sync[s].peers
       IN  \E got \in SyncAnswers(s, p) :
              /\ Success(got)
              /\ ReceiveBlockBatch(got)
              /\ sync' = [sync EXCEPT ![s] = [sync[s] EXCEPT !.curr = @ + BATCH_SIZE,
                              !.peers = peers, !.left = peers, !.advanced = Advances(got)]]
    /\ peers_changed' = FALSE
    /\ UNCHANGED <<network, mode, peak_to_peer, peer_to_peak, flags, lock, handler, told>>

\* Mutant: a batch is tried until some peer has it.
SyncStopsAtEnd(s) ==
    /\ sync[s].pc = "fetch"
    /\ sync[s].curr >= Height[sync[s].block]
    /\ SyncLeavesLock(s)
    /\ UNCHANGED <<chain, network, target, peaks, flags, handler, told>>

\* All batches are added, or no peer is left to ask for this one.
SyncStops(s) ==
    /\ sync[s].pc = "fetch"
    /\ sync[s].curr >= Height[sync[s].block] \/ sync[s].left = {}
    /\ peers_changed' = (peers_changed /\ sync[s].curr >= Height[sync[s].block])
    /\ SyncLeavesLock(s)
    /\ UNCHANGED <<chain, network, target, peak_to_peer, peer_to_peak, flags, handler, told>>

----------------------------------------------------------------------------
(* _finish_sync                                                             *)

\* With the lock: the sync information goes, and the peak that was read before the
\* wait is post-processed with the block that is the peak now.
FinishSync(s) ==
    /\ sync[s].pc = "finish" /\ Holds(s)
    /\ ClearSyncInfo
    /\ told' = (sync[s].record \in {NONE, peak})
    /\ sync' = [sync EXCEPT ![s] = NoSync]
    /\ Release
    /\ UNCHANGED <<chain, network, mode, peer_to_peak, peers_changed, flags, handler>>
----------------------------------------------------------------------------
HandlerStep(h) ==
    \/ Asked(h) \/ Raised(h)
    \/ BacktrackFails(h) \/ BacktrackConnects(h) \/ BacktrackGoesOn(h) \/ BacktrackTooDeep(h)
    \/ RespondSkips(h) \/ RespondWaits(h) \/ RespondReturns(h) \/ RespondRaises(h)
    \/ RespondOrphan(h) \/ RespondNewPeak(h) \/ RespondAnnounces(h) \/ RespondEnds(h)
    \/ NeedsLongSync(h) \/ BatchRefused(h) \/ BatchBegins(h) \/ BatchFirst(h)
    \/ BatchFetch(h) \/ BatchReceived(h) \/ BatchAnnounces(h) \/ BatchEnds(h)
    \/ SyncRefused(h) \/ \E s \in Syncs : SyncStarts(h, s)

SyncStep(s) ==
    \/ SyncFindsNoPeak(s) \/ SyncSelectsPeak(s) \/ SyncGathers(s) \/ SyncGivesUp(s)
    \/ ProofArrives(s) \/ ProofFails(s) \/ ProofTooLate(s) \/ ProofHolds(s)
    \/ NobodyToSyncFrom(s) \/ SyncFromForkPoint(s) \/ SyncRaises(s)
    \/ SyncStops(s) \/ FinishSync(s)
    \/ \E p \in Peers :
          SyncFetchFails(s, p) \/ SyncBatchInvalid(s, p) \/ SyncBatchAdded(s, p)

Message(h) ==
    \/ NONE \in Serves[h] /\ Infuse(h)
    \/ \E p \in Serves[h] \ {NONE} :
          \/ NewPeakIgnored(h, p) \/ NewPeakWhileSyncing(h, p)
          \/ NewPeakNear(h, p) \/ NewPeakFar(h, p)

Network == \E p \in Peers : Connect(p) \/ Disconnect(p) \/ PeerAdvances(p)

Next ==
    \/ Network
    \/ \E h \in Handlers : Message(h) \/ HandlerStep(h)
    \/ \E s \in Syncs : SyncStep(s)

\* The event loop runs every task that can run, and every request ends by its
\* timeout; nothing is assumed of peers.
Fairness ==
    /\ \A h \in Handlers : WF_vars(HandlerStep(h))
    /\ \A s \in Syncs : WF_vars(SyncStep(s))

Spec == Init /\ [][Next]_vars /\ Fairness

----------------------------------------------------------------------------
(* Properties                                                               *)

BlockOrNone == Blocks \cup {NONE}
HandlerType ==
    [pc : {"free", "ask", "backtrack", "respond", "add", "post", "far", "first", "fetch",
           "batch", "batchpost", "start", "raised"},
     peer : Peers \cup {NONE}, open : BOOLEAN, block : BlockOrNone, our : Heights,
     curr : 0..(MaxHeight + BATCH_SIZE), got : SUBSET Blocks]
SyncType ==
    [pc : {"free", "collect", "gather", "proof", "validate", "lock", "fetch", "finish"},
     block : BlockOrNone, peers : SUBSET Peers, left : SUBSET Peers, fork : Heights,
     curr : 0..(MaxHeight + BATCH_SIZE), advanced : BOOLEAN, record : BlockOrNone]

\* The type of every variable.
TypeOK ==
    /\ stored \subseteq Blocks /\ peak \in BlockOrNone
    /\ connected \subseteq Peers /\ tip \in [Peers -> Blocks]
    /\ sync_mode \in BOOLEAN /\ long_sync \in BOOLEAN /\ target \in BlockOrNone
    /\ peak_to_peer \in [Blocks -> (SUBSET Peers) \cup {NONE}]
    /\ peer_to_peak \in [Peers -> BlockOrNone]
    /\ peers_changed \in BOOLEAN
    /\ batch_syncing \subseteq Peers
    /\ backtrack_syncing \in [Peers -> 0..Cardinality(Handlers)]
    /\ lock \in Seq(Handlers \cup Syncs)
    /\ handler \in [Handlers -> HandlerType]
    /\ sync \in [Syncs -> SyncType]
    /\ told \in BOOLEAN

Working(s) == sync[s].pc \in {"collect", "gather", "proof", "validate", "lock", "fetch"}
Downloading(s) == sync[s].pc \in {"lock", "fetch"}

\* "Ensure we are only syncing once": at most one _sync is before its _finish_sync;
\* long_sync says whether there is one, and sync_mode, which makes the node ignore
\* blocks, whether it downloads.
OneLongSync ==
    /\ \A s, r \in Syncs : Working(s) /\ Working(r) => s = r
    /\ long_sync <=> \E s \in Syncs : Working(s)
    /\ sync_mode <=> \E s \in Syncs : Downloading(s)

BatchSyncing(p) ==
    {h \in Handlers : handler[h].peer = p /\ handler[h].pc \in {"first", "fetch", "batch", "batchpost"}}
BacktrackSyncing(p) ==
    {h \in Handlers : handler[h].peer = p /\ handler[h].pc \in {"backtrack", "respond", "add", "post"}}

\* SyncStore knows every short sync that is under way: the counter of backtracks with
\* a peer is exact, and no two batch syncs work with one peer.
ShortSyncsKnown ==
    \A p \in Peers :
        /\ BatchSyncing(p) # {} => p \in batch_syncing
        /\ Cardinality(BatchSyncing(p)) <= 1
        /\ backtrack_syncing[p] = Cardinality(BacktrackSyncing(p))

\* batch_syncing is the set of nodes that we are batch syncing from: a peer that
\* stayed in it could never be batch synced from again.
OnlyBatchSyncing == \A p \in batch_syncing : BatchSyncing(p) # {}

\* "The fork point is the last block in common between the peak chain and the chain of
\* `block`" (block_body_validation.py): when a long sync receives the block that
\* becomes the peak, the fork point it passes on is a height at which the old peak and
\* that block have one ancestor, as Blockchain.tla assumes of it.
ForkPointCommon ==
    \A s \in Syncs : sync[s].pc = "fetch" /\ ~sync[s].advanced /\ peak # NONE =>
        \A p \in sync[s].left : \A got \in SyncAnswers(s, p) : Advances(got) =>
            LET heavier == {b \in Added(got) : Weight[b] > Weight[peak]}
                first == CHOOSE b \in heavier : \A a \in heavier : Height[b] <= Height[a]
            IN  Prev[first] # peak => sync[s].fork \in Common(peak, first)

\* peak_post_processing is given the record and the full block of one peak.
PostProcessesOnePeak == told

\* A long sync ends, whatever peers do or fail to do, and sync mode with it.
SyncEnds == long_sync ~> ~long_sync

\* Every message is handled to the end: nobody waits for the lock forever.
HandlersEnd == \A h \in Handlers : handler[h].pc # "free" ~> handler[h].pc = "free"
=============================================================================
