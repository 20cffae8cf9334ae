---------------------------- MODULE FullNodeStore ----------------------------
(***************************************************************************)
(* The finished sub-slots and signage points that a full node keeps from the *)
(* slot of its peak onwards: full_node/full_node_store.py, with the handlers *)
(* that fill it (respond_end_of_sub_slot, respond_signage_point) and the     *)
(* part of peak_post_processing that adapts it to a new peak.                *)
(*                                                                           *)
(* Time is total_iters.  An end of sub-slot or a signage point carries the   *)
(* reward chain challenge it was computed from: the last block infused       *)
(* before it, or the slot's beginning.  Messages are honest VDFs, computed   *)
(* by somebody who may not know the latest blocks; that a proof is valid is  *)
(* then that it starts from the expected challenge.  The handlers exclude    *)
(* each other by timelord_lock, but not the processing of a new peak.        *)
(***************************************************************************)
EXTENDS Integers, Sequences, FiniteSets, SequencesExt

CONSTANTS
    Blocks, Prev, Iters, Weight,   \* Iters: total_iters; Prev: NONE for the first block
    IpSlot,         \* the slot in which the block was infused: its EndOfSubSlotBundle
    SpSlot,         \* the slot before it, for an overflow block
    FirstInSubSlot, \* blocks that are the first of their sub-slot
    BlockSp,        \* the signage point of a block; NONE for index 0
    Slots,          \* EndOfSubSlotBundles
    CcPrev, CcHash, \* their challenge chain: challenge and hash
    Rc,             \* their reward chain challenge
    SlotStart,      \* total_iters where the slot begins that follows them
    SignagePoints,  \* records with cc, index and rc
    SUB_SLOT_ITERS, NUM_SPS,
    GENESIS,        \* GENESIS_CHALLENGE
    MaxWaiting,     \* bound: handlers that wait for timelord_lock
    Uncached,       \* blocks that have left the block store's cache of 1000 blocks
    Clearing,       \* blocks whose height is a multiple of 1000
    NONE

Challenges == Blocks \cup Slots \cup {GENESIS}
Indexes == 1..NUM_SPS - 1
INTERVAL == SUB_SLOT_ITERS \div NUM_SPS

ASSUME StoreAssumption ==
    /\ Prev \in [Blocks -> Blocks \cup {NONE}]
    /\ {Iters[b] : b \in Blocks} \cup {Weight[b] : b \in Blocks} \subseteq Nat
    /\ FirstInSubSlot \subseteq Blocks
    /\ \A b \in Blocks : IpSlot[b] \in Slots \cup {NONE} /\ SpSlot[b] \in Slots \cup {NONE}
    /\ \A b \in Blocks : Prev[b] # NONE => Iters[Prev[b]] < Iters[b] /\ Weight[Prev[b]] < Weight[b]
    /\ \A e \in Slots : Rc[e] \in Challenges
    /\ SignagePoints \subseteq [cc : {CcHash[e] : e \in Slots} \cup {GENESIS},
                                index : Indexes, rc : Challenges]
    /\ SUB_SLOT_ITERS \in Nat \ {0} /\ NUM_SPS \in Nat \ {0} /\ INTERVAL \in Nat \ {0}
    /\ NONE \notin Blocks \cup Slots
    /\ \A b \in Blocks : BlockSp[b] \in SignagePoints \cup {NONE}
    /\ Uncached \subseteq Blocks /\ Clearing \subseteq Blocks /\ MaxWaiting \in Nat

VARIABLES
    peak,                \* get_peak(); NONE before the first block
    fork,                \* the fork block of that peak, NONE if it extends the old one
    stored,              \* blocks that the chain has accepted
    post,                \* how far peak_post_processing is: "store", "clear" or "done"
    finished_sub_slots,  \* entries: the slot's beginning, its signage points, its total_iters
    future_eos_cache, future_sp_cache,
    waiting,             \* ends of sub-slot that wait for timelord_lock
    handler              \* the one that holds timelord_lock

chainVars == <<peak, fork, stored, post>>
storeVars == <<finished_sub_slots, future_eos_cache, future_sp_cache>>
vars == <<chainVars, storeVars, waiting, handler>>

Chain[b \in Blocks] == {b} \cup IF Prev[b] = NONE THEN {} ELSE Chain[Prev[b]]
Latest(bs) == CHOOSE b \in bs : \A a \in bs : Iters[a] <= Iters[b]

Free == [at |-> "free", item |-> NONE, peak |-> NONE]
NoSps == [i \in Indexes |-> NONE]
GenesisSubSlot == <<[eos |-> NONE, sps |-> NoSps, iters |-> 0]>>

Entries == [eos : Slots \cup {NONE}, sps : [Indexes -> Challenges \cup {NONE}], iters : Nat]

TypeOK ==
    /\ peak \in Blocks \cup {NONE} /\ fork \in Blocks \cup {NONE}
    /\ stored \subseteq Blocks /\ post \in {"store", "clear", "done"}
    /\ finished_sub_slots \in Seq(Entries) /\ Len(finished_sub_slots) >= 1
    /\ future_eos_cache \in [Challenges -> SUBSET Slots]
    /\ future_sp_cache \in [Challenges -> SUBSET SignagePoints]
    /\ waiting \subseteq Slots
    /\ handler.at \in {"free", "eos", "sp"} /\ handler.peak \in Blocks \cup {NONE}

Init ==
    /\ peak = NONE /\ fork = NONE /\ stored = {} /\ post = "done"
    /\ finished_sub_slots = GenesisSubSlot
    /\ future_eos_cache = [c \in Challenges |-> {}]
    /\ future_sp_cache = [c \in Challenges |-> {}]
    /\ waiting = {} /\ handler = Free

CcOf(entry) == IF entry.eos = NONE THEN GENESIS ELSE CcHash[entry.eos]
RcOf(entry) == IF entry.eos = NONE THEN GENESIS ELSE entry.eos

HasSubSlot(slots, cc) == \E i \in 1..Len(slots) : slots[i].eos # NONE /\ CcHash[slots[i].eos] = cc

-----------------------------------------------------------------------------
(* new_finished_sub_slot *)

PresentSlot(slots, e) == \E i \in 1..Len(slots) : slots[i].eos = e

PeakInLastSlot(slots, p) == p # NONE /\ Iters[p] > Last(slots).iters

Appends(slots, e) == CcPrev[e] = CcOf(Last(slots))

\* The slot depends on a block that is not the peak.
DependsOnOther(slots, e, p) ==
    ~PresentSlot(slots, e) /\ Appends(slots, e) /\ PeakInLastSlot(slots, p) /\ Rc[e] # p

\* Mutant: the reward chain challenge is taken from the message and not compared.
AddableFromAnywhere(slots, e, p) ==
    /\ ~PresentSlot(slots, e) /\ Appends(slots, e)
    /\ PeakInLastSlot(slots, p) \/ Rc[e] = RcOf(Last(slots))

\* Its VDFs start at the peak, or at the beginning of the slot if it is empty.
AddableSlot(slots, e, p) ==
    /\ ~PresentSlot(slots, e) /\ Appends(slots, e)
    /\ Rc[e] = IF PeakInLastSlot(slots, p) THEN p ELSE RcOf(Last(slots))

WithSlot(slots, e) ==
    Append(slots, [eos |-> e, sps |-> NoSps, iters |-> Last(slots).iters + SUB_SLOT_ITERS])

-----------------------------------------------------------------------------
(* new_signage_point *)

SlotIndexes(slots, sp) == {i \in 1..Len(slots) : CcOf(slots[i]) = sp.cc}
SlotIndex(slots, sp) == CHOOSE i \in SlotIndexes(slots, sp) : \A j \in SlotIndexes(slots, sp) : i <= j
SpIters(entry, index) == entry.iters + index * INTERVAL

\* The walk from the peak p down to the last block before the signage point; it ends at
\* the first block of a sub-slot, of whichever.
After(entry, index, p) == {b \in Chain[p] : Iters[b] > entry.iters /\ Iters[b] > SpIters(entry, index)}

FromStart(entry, index, p) ==
    \/ p = NONE
    \/ p # NONE /\ entry.iters > Iters[p]
    \/ p # NONE /\ After(entry, index, p) \cap FirstInSubSlot # {}

\* Only the first block of the chain has no parent and no finished sub-slot: block_record
\* raises for the signage points before it.
WalkRaises(entry, index, p) ==
    ~FromStart(entry, index, p) /\ After(entry, index, p) = Chain[p]

ExpectedRc(entry, index, p) ==
    IF FromStart(entry, index, p) THEN RcOf(entry)
    ELSE Latest(Chain[p] \ After(entry, index, p))

Raises(slots, sp, p) ==
    SlotIndexes(slots, sp) # {} /\ WalkRaises(slots[SlotIndex(slots, sp)], sp.index, p)

AddableSp(slots, sp, p) ==
    /\ SlotIndexes(slots, sp) # {}
    /\ ~Raises(slots, sp, p)
    /\ sp.rc = ExpectedRc(slots[SlotIndex(slots, sp)], sp.index, p)

WithSps(slots, sps) ==
    [i \in 1..Len(slots) |->
       [slots[i] EXCEPT !.sps = [k \in Indexes |->
          IF \E sp \in sps : sp.index = k /\ SlotIndex(slots, sp) = i
          THEN (CHOOSE sp \in sps : sp.index = k /\ SlotIndex(slots, sp) = i).rc
          ELSE slots[i].sps[k]]]]

\* have_newer_signage_point
HaveNewer(slots, sp) ==
    \E i \in SlotIndexes(slots, sp) :
        /\ \E k \in 1..sp.index - 1 : slots[i].sps[k] = sp.rc
        /\ slots[i].sps[sp.index] \notin {NONE, sp.rc}

HaveSp(slots, sp) == \E i \in SlotIndexes(slots, sp) : slots[i].sps[sp.index] = sp.rc

-----------------------------------------------------------------------------
(* new_peak *)

IpStart(b) == (Iters[b] \div SUB_SLOT_ITERS) * SUB_SLOT_ITERS
Overflow(b) == BlockSp[b] # NONE /\ BlockSp[b].cc # (IF IpSlot[b] = NONE THEN GENESIS ELSE CcHash[IpSlot[b]])
SpStart(b) == IF Overflow(b) THEN IpStart(b) - SUB_SLOT_ITERS ELSE IpStart(b)

\* What the hashes commit to and validate_unfinished_header_block checks.  A challenge
\* chain hash determines the slots before it, hence the time.  No infusion point falls on
\* the beginning of a slot (calculate_ip_iters).  A block's slots are those of its own
\* chain: an overflow block is in the slot after that of its signage point, which the last
\* block of its chain in there ends, and a block has finished sub-slots if its parent
\* is in an earlier one.
ASSUME SlotAssumption ==
    /\ \A e \in Slots :
          /\ SlotStart[e] \in Nat
          /\ CcPrev[e] = GENESIS => SlotStart[e] = SUB_SLOT_ITERS
          /\ \A f \in Slots : CcPrev[e] = CcHash[f] => SlotStart[e] = SlotStart[f] + SUB_SLOT_ITERS
    /\ \A b \in Blocks :
          /\ IpStart(b) < Iters[b]
          /\ IF IpSlot[b] = NONE THEN IpStart(b) = 0 ELSE IpStart(b) > 0 /\ SlotStart[IpSlot[b]] = IpStart(b)
          /\ b \in FirstInSubSlot <=> IF Prev[b] = NONE THEN IpSlot[b] # NONE ELSE Iters[Prev[b]] < IpStart(b)
          /\ ~Overflow(b) => SpSlot[b] = NONE
          /\ Overflow(b) =>
                LET inside == {a \in Chain[b] : Iters[a] > SpStart(b) /\ Iters[a] < IpStart(b)}
                    before == SpSlot[b] IN
                /\ IpSlot[b] # NONE
                /\ IF before = NONE THEN SpStart(b) = 0 ELSE SpStart(b) = SlotStart[before]
                /\ CcPrev[IpSlot[b]] = IF before = NONE THEN GENESIS ELSE CcHash[before]
                /\ Rc[IpSlot[b]] = IF inside # {} THEN Latest(inside)
                                   ELSE IF before = NONE THEN GENESIS ELSE before

\* Mutant: after a reorganization, too, the signage points before the peak stay.
KeptUntilPeak(slots, e, until) ==
    IF ~PresentSlot(slots, e) \/ e = NONE THEN NoSps
    ELSE LET i == CHOOSE i \in 1..Len(slots) : slots[i].eos = e
         IN  [k \in Indexes |->
                IF SpIters(slots[i], k) < Iters[peak] THEN slots[i].sps[k] ELSE NONE]

\* The signage points before the fork, or before the peak if there is none, stay valid.
KeptSps(slots, e, until) ==
    IF ~PresentSlot(slots, e) \/ e = NONE THEN NoSps
    ELSE LET i == CHOOSE i \in 1..Len(slots) : slots[i].eos = e
         IN  [k \in Indexes |->
                IF SpIters(slots[i], k) < Iters[until] THEN slots[i].sps[k] ELSE NONE]

\* Mutant: in the first sub-slot the slots are cleared and not initialized.
SlotsCleared(slots, b, until) ==
    IF IpSlot[b] = NONE THEN << >>
    ELSE <<[eos |-> IpSlot[b], sps |-> KeptSps(slots, IpSlot[b], until), iters |-> IpStart(b)]>>

SlotsOfPeak(slots, b, until) ==
    IF IpSlot[b] = NONE THEN GenesisSubSlot
    ELSE (IF SpSlot[b] # NONE \/ SpStart(b) = 0
          THEN <<[eos |-> SpSlot[b], sps |-> KeptSps(slots, SpSlot[b], until), iters |-> SpStart(b)]>>
          ELSE << >>)
         \o <<[eos |-> IpSlot[b], sps |-> KeptSps(slots, IpSlot[b], until), iters |-> IpStart(b)]>>

\* What was cached for this block: at most one end of sub-slot, and signage points.
WithFutureSlot(slots, b) ==
    {WithSlot(slots, e) : e \in {e \in future_eos_cache[b] : AddableSlot(slots, e, b)}}

SlotsWithFuture(slots, b) ==
    IF WithFutureSlot(slots, b) = {} THEN {slots} ELSE WithFutureSlot(slots, b)

FutureSps(slots, b) == {sp \in future_sp_cache[b] : AddableSp(slots, sp, b)}

AddToFutureSp(cache, sp) == [cache EXCEPT ![sp.rc] = @ \cup {sp}]

-----------------------------------------------------------------------------
(* The chain. *)

\* receive_block has stored a block that is no peak.
KeepAside(b) ==
    /\ post = "done" /\ b \notin stored /\ Prev[b] \in stored /\ Weight[b] <= Weight[peak]
    /\ stored' = stored \cup {b}
    /\ UNCHANGED <<peak, fork, post, storeVars, waiting, handler>>

\* receive_block has made a block the peak; blockchain.lock is held until the store and
\* everybody else know of it.
NewPeak(b) ==
    /\ post = "done" /\ b \notin stored
    /\ IF peak = NONE THEN Prev[b] = NONE ELSE Prev[b] \in stored /\ Weight[b] > Weight[peak]
    /\ stored' = stored \cup {b}
    /\ peak' = b
    /\ fork' = IF Prev[b] = peak THEN NONE ELSE Latest(Chain[b] \cap Chain[peak])
    /\ post' = "store"
    /\ UNCHANGED <<storeVars, waiting, handler>>

\* peak_post_processing: new_peak and the signage point of the block itself.
PeakPostProcessing ==
    LET own == BlockSp[peak]
        until == IF fork = NONE THEN peak ELSE fork IN
    /\ post = "store"
    /\ \E slots \in SlotsWithFuture(SlotsOfPeak(finished_sub_slots, peak, until), peak) :
          LET filled == WithSps(slots, FutureSps(slots, peak))
              popped == [future_sp_cache EXCEPT ![peak] = {}] IN
          IF own # NONE /\ AddableSp(filled, own, peak)
          THEN /\ finished_sub_slots' = WithSps(filled, {own})
               /\ future_sp_cache' = popped
          ELSE /\ finished_sub_slots' = filled
               /\ future_sp_cache' = IF own = NONE THEN popped ELSE AddToFutureSp(popped, own)
    /\ future_eos_cache' = [future_eos_cache EXCEPT ![peak] = {}]
    /\ post' = IF peak \in Clearing THEN "clear" ELSE "done"
    /\ UNCHANGED <<peak, fork, stored, waiting, handler>>

\* Its end for some peaks, after it has waited for the mempool and the peers:
\* clear_old_cache_entries, which drops the keys older than an hour.
ClearOldCacheEntries ==
    /\ post = "clear"
    /\ \E old \in SUBSET {c \in Challenges : future_eos_cache[c] \cup future_sp_cache[c] # {}} :
          /\ future_eos_cache' = [c \in Challenges |-> IF c \in old THEN {} ELSE future_eos_cache[c]]
          /\ future_sp_cache' = [c \in Challenges |-> IF c \in old THEN {} ELSE future_sp_cache[c]]
    /\ post' = "done"
    /\ UNCHANGED <<peak, fork, stored, finished_sub_slots, waiting, handler>>

-----------------------------------------------------------------------------
(* The handlers. *)

\* new_finished_sub_slot, called with the peak p.
NewFinishedSubSlot(e, p) ==
    /\ finished_sub_slots' = IF AddableSlot(finished_sub_slots, e, p)
                             THEN WithSlot(finished_sub_slots, e) ELSE finished_sub_slots
    /\ future_eos_cache' = IF DependsOnOther(finished_sub_slots, e, p)
                           THEN [future_eos_cache EXCEPT ![Rc[e]] = @ \cup {e}]
                           ELSE future_eos_cache

\* respond_end_of_sub_slot up to the lock.
RespondEndOfSubSlot(e) ==
    /\ ~HasSubSlot(finished_sub_slots, CcHash[e])
    /\ e \notin waiting /\ Cardinality(waiting) < MaxWaiting
    /\ waiting' = waiting \cup {e}
    /\ UNCHANGED <<chainVars, storeVars, handler>>

\* Without the slot before it, that one is requested instead.
PreviousMissing(e) ==
    /\ handler = Free /\ e \in waiting
    /\ ~HasSubSlot(finished_sub_slots, CcPrev[e]) /\ CcPrev[e] # GENESIS
    /\ waiting' = waiting \ {e}
    /\ UNCHANGED <<chainVars, storeVars, handler>>

\* With it, up to get_full_peak, which waits for the database unless it finds the block
\* in the cache.
EndOfSubSlotLocked(e) ==
    /\ handler = Free /\ e \in waiting
    /\ HasSubSlot(finished_sub_slots, CcPrev[e]) \/ CcPrev[e] = GENESIS
    /\ waiting' = waiting \ {e}
    /\ IF peak \in Uncached
       THEN /\ handler' = [at |-> "eos", item |-> e, peak |-> peak]
            /\ UNCHANGED storeVars
       ELSE NewFinishedSubSlot(e, peak) /\ UNCHANGED <<future_sp_cache, handler>>
    /\ UNCHANGED chainVars

\* The rest, with the peak that was read before.
EndOfSubSlotAdded ==
    /\ handler.at = "eos"
    /\ NewFinishedSubSlot(handler.item, handler.peak)
    /\ handler' = Free
    /\ UNCHANGED <<chainVars, future_sp_cache, waiting>>

\* respond_signage_point up to get_sp_and_ip_sub_slots.
RespondSignagePoint(sp) ==
    /\ handler = Free
    /\ ~HaveNewer(finished_sub_slots, sp) /\ ~HaveSp(finished_sub_slots, sp)
    /\ handler' = [at |-> "sp", item |-> sp, peak |-> NONE]
    /\ UNCHANGED <<chainVars, storeVars, waiting>>

\* new_signage_point, with the peak of this moment; it may raise.
SignagePointAdded ==
    LET sp == handler.item IN
    /\ handler.at = "sp"
    /\ IF AddableSp(finished_sub_slots, sp, peak)
       THEN finished_sub_slots' = WithSps(finished_sub_slots, {sp}) /\ UNCHANGED future_sp_cache
       ELSE /\ UNCHANGED finished_sub_slots
            /\ future_sp_cache' = IF Raises(finished_sub_slots, sp, peak) THEN future_sp_cache
                                  ELSE AddToFutureSp(future_sp_cache, sp)
    /\ handler' = Free
    /\ UNCHANGED <<chainVars, future_eos_cache, waiting>>

Next ==
    \/ \E b \in Blocks : KeepAside(b) \/ NewPeak(b)
    \/ PeakPostProcessing
    \/ ClearOldCacheEntries
    \/ \E e \in Slots : RespondEndOfSubSlot(e) \/ PreviousMissing(e) \/ EndOfSubSlotLocked(e)
    \/ EndOfSubSlotAdded
    \/ \E sp \in SignagePoints : RespondSignagePoint(sp)
    \/ SignagePointAdded

Spec == Init /\ [][Next]_vars

-----------------------------------------------------------------------------
(* Properties *)

\* The peak of a settled store, and its blocks between two times.
Settled == post # "store"
Infused(from, to) ==
    IF peak = NONE THEN {} ELSE {b \in Chain[peak] : Iters[b] > from /\ Iters[b] <= to}

\* The slots in the store are those of the peak's chain, each connected with the one before
\* it on the challenge chain, in time and on the reward chain: the first end of sub-slot
\* after the peak was computed from the peak, whichever messages of other chains came
\* before, between or after the peaks.  get_finished_sub_slots hands them to new blocks.
SlotsFollowPeak ==
    Settled => \A i \in 1..Len(finished_sub_slots) - 1 :
        LET entry == finished_sub_slots[i]
            next == finished_sub_slots[i + 1]
            inside == Infused(entry.iters, next.iters - 1) IN
        /\ CcPrev[next.eos] = CcOf(entry)
        /\ next.iters = entry.iters + SUB_SLOT_ITERS
        /\ Rc[next.eos] = IF inside = {} THEN RcOf(entry) ELSE Latest(inside)

\* From the slot of the peak on, a signage point in the store was computed from the last
\* block of the peak's chain before it: none of another fork, or older than the latest
\* blocks, survives a reorganization or slips in during one.
SpsFollowPeak ==
    Settled => \A i \in 1..Len(finished_sub_slots), k \in Indexes :
        LET entry == finished_sub_slots[i]
            before == Infused(entry.iters, SpIters(entry, k)) IN
        (peak = NONE \/ entry.iters + SUB_SLOT_ITERS > Iters[peak]) /\ entry.sps[k] # NONE
            => entry.sps[k] = IF before = {} THEN RcOf(entry) ELSE Latest(before)
=============================================================================
