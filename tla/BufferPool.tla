------------------------------ MODULE BufferPool -----------------------------
(***************************************************************************)
(* crates/galaxdb-storage/src/buffer_pool: one NUMA partition of the block *)
(* cache.  mod.rs routes point lookups to the hot set and scans to the     *)
(* scan buffer; clock_sweep.rs evicts from the scan buffer; rgabh.rs keeps *)
(* the heat of blocks that decides admission to the hot set.               *)
(*                                                                         *)
(* The hot set is the sequence LruCache implements, most recent first.     *)
(* Time passes in ticks in which short heat halves (short_decay = 1/2);    *)
(* long and training heat keep their value (decay 1, which the constants   *)
(* allow).  Heats are counted in units of 1/Unit so that they stay whole.  *)
(***************************************************************************)
EXTENDS Naturals, Sequences, SequencesExt, FiniteSetsExt

CONSTANTS
    Blocks,
    HotCapacity, ScanCapacity,
    MaxAccesses, MaxTicks   \* bounds

ASSUME BufferPoolConstants ==
    /\ HotCapacity \in Nat \ {0} /\ ScanCapacity \in Nat \ {0}
    /\ MaxAccesses \in Nat /\ MaxTicks \in Nat

Unit == 2 ^ (MaxTicks + 1)
MaxTracked == 4 * HotCapacity
EvictionSample == 8

VARIABLES
    adaptive,           \* made by new_adaptive rather than new
    hot,                \* keys of the hot set
    slot,               \* 1..ScanCapacity -> {} or {[key, referenced]}
    hand, freeList,
    heat,               \* tracked block -> [short, long, train]
    accesses, ticks,
    visits,             \* history: block -> accesses since it was last tracked
    pruned              \* history: blocks whose heat prune dropped while resident

bpVars == <<adaptive, hot, slot, hand, freeList, heat, accesses, ticks, visits, pruned>>

Slots == 1 .. ScanCapacity

BpInit ==
    /\ adaptive \in BOOLEAN
    /\ hot = <<>> /\ slot = [i \in Slots |-> {}] /\ hand = 1
    /\ freeList = [i \in Slots |-> ScanCapacity + 1 - i]
    /\ heat = <<>> /\ accesses = 0 /\ ticks = 0
    /\ visits = [b \in Blocks |-> 0] /\ pruned = {}

----------------------------------------------------------------------------
(* Heat                                                                    *)

HeatScore(h, b) ==
    IF b \in DOMAIN h THEN 2 * h[b].short + 4 * h[b].long + 3 * h[b].train ELSE 0

\* prune: the hottest three quarters of the cap stay; equals in any order.
PruneResults(h) ==
    LET target == (MaxTracked * 3) \div 4
    IN  IF Cardinality(DOMAIN h) <= MaxTracked THEN {h}
        ELSE {[b \in keep |-> h[b]] : keep \in
                {s \in kSubset(target, DOMAIN h) :
                    \A b \in s, d \in DOMAIN h \ s : HeatScore(h, b) >= HeatScore(h, d)}}

\* record_access: a new block's heat starts at one impulse.
Touched(b, train) ==
    LET old == IF b \in DOMAIN heat THEN heat[b] ELSE [short |-> 0, long |-> 0, train |-> 0]
        new == [short |-> old.short + Unit, long |-> old.long + Unit,
                train |-> old.train + (IF train THEN Unit ELSE 0)]
    IN  [d \in DOMAIN heat \cup {b} |-> IF d = b THEN new ELSE heat[d]]

HeatAfter(b, train) ==
    IF ~adaptive THEN {heat}
    ELSE IF b \in DOMAIN heat THEN {Touched(b, train)} ELSE PruneResults(Touched(b, train))

Recorded(b) ==
    /\ visits' = [d \in Blocks |-> IF d \notin DOMAIN heat' THEN 0
                                   ELSE visits[d] + (IF d = b THEN 1 ELSE 0)]
    /\ pruned' = (pruned \cup (DOMAIN heat \ DOMAIN heat')) \cap ToSet(hot')

----------------------------------------------------------------------------
(* The hot set                                                             *)

HotUsed(b) == <<b>> \o SelectSeq(hot, LAMBDA d : d # b)
HotPut(b) ==
    IF b \in ToSet(hot) THEN HotUsed(b)
    ELSE <<b>> \o (IF Len(hot) < HotCapacity THEN hot ELSE Front(hot))

\* The blocks of the sample from the stale end whose score is the lowest.
Victims(h) ==
    LET sample == {hot[i] : i \in {j \in DOMAIN hot : j > Len(hot) - EvictionSample}}
    IN  {v \in sample : \A d \in sample : HeatScore(h, v) <= HeatScore(h, d)}

\* The newcomer displaces the coldest of the sample whatever its own heat.
AdmitHotAlways(b, h) ==
    IF ~adaptive \/ b \in ToSet(hot) \/ Len(hot) < HotCapacity
    THEN hot' = HotPut(b) /\ heat' = h
    ELSE \E v \in Victims(h) :
         /\ hot' = <<b>> \o SelectSeq(hot, LAMBDA d : d # v)
         /\ heat' = [d \in DOMAIN h \ {v} |-> h[d]]

\* admit_hot: with the heat off, plain LRU; with it on and the hot set full,
\* the newcomer must be strictly hotter than the coldest of the sample.
AdmitHot(b, h) ==
    IF ~adaptive \/ b \in ToSet(hot) \/ Len(hot) < HotCapacity
    THEN hot' = HotPut(b) /\ heat' = h
    ELSE \E v \in Victims(h) :
         IF HeatScore(h, b) > HeatScore(h, v)
         THEN /\ hot' = <<b>> \o SelectSeq(hot, LAMBDA d : d # v)
              /\ heat' = [d \in DOMAIN h \ {v} |-> h[d]]
         ELSE hot' = hot /\ heat' = h

----------------------------------------------------------------------------
(* The scan buffer                                                         *)

Scanned == {e.key : e \in UNION {slot[i] : i \in Slots}}
SlotOf(b) == CHOOSE i \in Slots : \E e \in slot[i] : e.key = b
Entry(b) == {[key |-> b, referenced |-> TRUE]}

\* clock_sweep_evict: up to two passes of the hand, a second chance for
\* every referenced entry; protected entries are passed over.
Sweep(protected) ==
    LET step(s, i) ==
            IF s.free # <<>> THEN s
            ELSE LET e == CHOOSE e \in s.slot[s.hand] : TRUE
                     at == [s EXCEPT !.hand = (@ % ScanCapacity) + 1]
                 IN  IF e.key \in protected THEN at
                     ELSE IF e.referenced
                     THEN [at EXCEPT !.slot[s.hand] = {[e EXCEPT !.referenced = FALSE]}]
                     ELSE [at EXCEPT !.slot[s.hand] = {}, !.free = Append(@, s.hand)]
    IN  FoldLeft(step, [slot |-> slot, hand |-> hand, free |-> freeList],
                 [i \in 1 .. 2 * ScanCapacity |-> i])

\* put_with_constraint: nothing is inserted when the sweep freed nothing.
ScanPut(b, protected) ==
    IF b \in Scanned
    THEN slot' = [slot EXCEPT ![SlotOf(b)] = Entry(b)] /\ UNCHANGED <<hand, freeList>>
    ELSE LET s == Sweep(protected)
         IN  /\ hand' = s.hand
             /\ IF s.free = <<>> THEN slot' = s.slot /\ freeList' = s.free
                ELSE /\ slot' = [s.slot EXCEPT ![Last(s.free)] = Entry(b)]
                     /\ freeList' = Front(s.free)

----------------------------------------------------------------------------
(* The operations of the pool                                              *)

Access == accesses < MaxAccesses /\ accesses' = accesses + 1 /\ UNCHANGED ticks

PointHit(b) ==
    /\ Access /\ b \in ToSet(hot)
    /\ hot' = HotUsed(b)
    /\ \E h \in HeatAfter(b, FALSE) : heat' = h /\ Recorded(b)
    /\ UNCHANGED <<slot, hand, freeList>>

\* A block of the scan buffer is taken out and offered to the hot set; an
\* adaptive pool may turn it down, and then it is cached nowhere.
PointPromote(b) ==
    /\ Access /\ b \notin ToSet(hot) /\ b \in Scanned
    /\ slot' = [slot EXCEPT ![SlotOf(b)] = {}]
    /\ freeList' = Append(freeList, SlotOf(b)) /\ UNCHANGED hand
    /\ \E h \in HeatAfter(b, FALSE) : AdmitHot(b, h) /\ Recorded(b)

\* get_for_scan marks the scan buffer's copy, or uses the hot set's.
ScanHit(b) ==
    /\ Access /\ b \in Scanned \cup ToSet(hot)
    /\ IF b \in Scanned
       THEN slot' = [slot EXCEPT ![SlotOf(b)] = Entry(b)] /\ UNCHANGED hot
       ELSE hot' = HotUsed(b) /\ UNCHANGED slot
    /\ \E h \in HeatAfter(b, TRUE) : heat' = h /\ Recorded(b)
    /\ UNCHANGED <<hand, freeList>>

InsertPoint(b) ==
    /\ Access
    /\ \E h \in HeatAfter(b, FALSE) : AdmitHot(b, h) /\ Recorded(b)
    /\ UNCHANGED <<slot, hand, freeList>>

InsertScan(b) ==
    /\ Access /\ ScanPut(b, ToSet(hot)) /\ UNCHANGED hot
    /\ \E h \in HeatAfter(b, TRUE) : heat' = h /\ Recorded(b)

\* prefetch_tick with max = 1: the tracked block with the most short heat
\* that is not resident is loaded and offered to the hot set.
Prefetch(b) ==
    /\ adaptive /\ b \in DOMAIN heat \ ToSet(hot)
    /\ \A d \in DOMAIN heat \ ToSet(hot) : heat[d].short <= heat[b].short
    /\ Access /\ AdmitHot(b, heat) /\ UNCHANGED <<slot, hand, freeList>>
    /\ visits' = [d \in Blocks |-> IF d \in DOMAIN heat' THEN visits[d] ELSE 0]
    /\ pruned' = pruned \cap ToSet(hot')

BpTick ==
    /\ ticks < MaxTicks /\ ticks' = ticks + 1
    /\ heat' = [b \in DOMAIN heat |-> [heat[b] EXCEPT !.short = @ \div 2]]
    /\ UNCHANGED <<hot, slot, hand, freeList, accesses, visits, pruned>>

BpNext ==
    /\ UNCHANGED adaptive
    /\ \/ BpTick
       \/ \E b \in Blocks : \/ PointHit(b) \/ PointPromote(b) \/ ScanHit(b)
                            \/ InsertPoint(b) \/ InsertScan(b) \/ Prefetch(b)
BpSpec == BpInit /\ [][BpNext]_bpVars

----------------------------------------------------------------------------
(* Properties                                                              *)

\* A flood of blocks seen once does not displace the working set of an
\* adaptive pool: a resident block used twice or more leaves the hot set only
\* for a block that was used twice or more too, unless pruning dropped its
\* heat while it was resident.
FloodKeepsWorkingSetUnlessPruned ==
    [][adaptive => \A b \in ToSet(hot) \ ToSet(hot') :
          visits[b] >= 2 /\ b \notin pruned =>
              \A d \in ToSet(hot') \ ToSet(hot) : visits'[d] >= 2]_bpVars

============================================================================
