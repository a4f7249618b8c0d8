--------------------------- MODULE MemtableManager ---------------------------
(***************************************************************************)
(* crates/galaxdb-storage/src/memtable/mod.rs: MemtableManager::put with   *)
(* its back-pressure semaphore, seal_active, a flusher that peeks at the   *)
(* oldest sealed memtable and reports on_flush_complete, and get.          *)
(*                                                                         *)
(* A memtable is its number and its entries, oldest first; an entry is its *)
(* put.  Sizes are counted in entries of size EntrySize.  The tokio        *)
(* semaphore serves waiters first come, first served.                      *)
(***************************************************************************)
EXTENDS Naturals, Sequences, SequencesExt

CONSTANTS
    MemPuts,               \* puts, each made once, of
    KeyOf(_),           \* the key it writes
    EntrySize, SealThreshold, Limit     \* sizes; Limit is back_pressure_bytes

ASSUME MemtableConstants ==
    /\ EntrySize \in Nat \ {0} /\ SealThreshold \in Nat \ {0} /\ Limit \in Nat

VARIABLES
    activeMem,          \* entries of the active memtable
    sealedQueue,        \* the sealed ones, oldest first
    permits,            \* available permits of back_pressure
    waiting,            \* puts queued at the semaphore
    mPc,                \* MemPuts -> where the put is
    flushing,           \* the flusher has written the oldest sealed memtable
    flushedMem,         \* entries of the memtables flushed
    newest,             \* history: per key, the last entry put
    skipped             \* history: a seal found too few permits to consume

mmVars == <<activeMem, sealedQueue, permits, waiting, mPc, flushing, flushedMem, newest,
            skipped>>

MmInit ==
    /\ activeMem = <<>> /\ sealedQueue = <<>> /\ permits = Limit /\ waiting = <<>>
    /\ mPc = [p \in MemPuts |-> "idle"] /\ flushing = FALSE /\ flushedMem = {} /\ skipped = FALSE
    /\ newest = <<>>

MmGoto(p, l) == mPc' = [mPc EXCEPT ![p] = l]
Size(m) == Len(m) * EntrySize

\* acquire_many_owned queues the put up,
PutArrives(p) ==
    /\ mPc[p] = "idle"
    /\ waiting' = Append(waiting, p) /\ MmGoto(p, "wait")
    /\ UNCHANGED <<activeMem, sealedQueue, permits, flushing, flushedMem, newest, skipped>>

\* and the permits are given back as soon as they are there.
PutAdmitted(p) ==
    /\ waiting # <<>> /\ p = Head(waiting) /\ permits >= EntrySize
    /\ waiting' = Tail(waiting) /\ MmGoto(p, "put")
    /\ UNCHANGED <<activeMem, sealedQueue, permits, flushing, flushedMem, newest, skipped>>

\* Memtable::put, under the lock of `active'.
PutEntry(p) ==
    /\ mPc[p] = "put"
    /\ activeMem' = Append(activeMem, p)
    /\ newest' = [k \in DOMAIN newest \cup {KeyOf(p)} |-> IF k = KeyOf(p) THEN p ELSE newest[k]]
    /\ MmGoto(p, IF Size(activeMem') >= SealThreshold THEN "seal" ELSE "done")
    /\ UNCHANGED <<sealedQueue, permits, waiting, flushing, flushedMem, skipped>>

\* seal_active: whatever is active now is sealed, an empty memtable too; the
\* permits are consumed only if there are enough of them.
SealActive(p) ==
    /\ mPc[p] = "seal" /\ MmGoto(p, "done")
    /\ sealedQueue' = Append(sealedQueue, activeMem) /\ activeMem' = <<>>
    /\ IF permits >= Size(activeMem)
       THEN permits' = permits - Size(activeMem) /\ UNCHANGED skipped
       ELSE skipped' = TRUE /\ UNCHANGED permits
    /\ UNCHANGED <<waiting, flushing, flushedMem, newest>>

\* peek_sealed, and the SST is written.
MmFlushBegin ==
    /\ ~flushing /\ sealedQueue # <<>>
    /\ flushing' = TRUE /\ flushedMem' = flushedMem \cup ToSet(Head(sealedQueue))
    /\ UNCHANGED <<activeMem, sealedQueue, permits, waiting, mPc, newest, skipped>>

\* Permits for the entries the memtable was allowed, not for those it had.
OnFlushCompleteThreshold ==
    /\ flushing /\ flushing' = FALSE
    /\ sealedQueue' = Tail(sealedQueue) /\ permits' = permits + SealThreshold
    /\ UNCHANGED <<activeMem, waiting, mPc, flushedMem, newest, skipped>>

OnFlushComplete ==
    /\ flushing /\ flushing' = FALSE
    /\ sealedQueue' = Tail(sealedQueue) /\ permits' = permits + Size(Head(sealedQueue))
    /\ UNCHANGED <<activeMem, waiting, mPc, flushedMem, newest, skipped>>

PutStep(p) == PutAdmitted(p) \/ PutEntry(p) \/ SealActive(p)
MmNext == (\E p \in MemPuts : PutArrives(p) \/ PutStep(p)) \/ MmFlushBegin \/ OnFlushComplete

MmSpec ==
    /\ MmInit /\ [][MmNext]_mmVars
    /\ \A p \in MemPuts : WF_mmVars(PutStep(p))
    /\ WF_mmVars(MmFlushBegin \/ OnFlushComplete)

----------------------------------------------------------------------------
(* Properties                                                              *)

\* What is in no SST yet, oldest first.
Unflushed == FlattenSeq(sealedQueue) \o activeMem

\* get: the active memtable, then the sealed ones from the newest back.
GetEntry(k) ==
    LET of == SelectSeq(Unflushed, LAMBDA p : KeyOf(p) = k)
    IN  IF of = <<>> THEN {} ELSE {Last(of)}

\* Seals and flushes lose no row and no permit.  get returns the last entry
\* put for the key, whichever memtable it is in by now, or that entry is in
\* an SST; and the permits missing from the semaphore are the bytes sealed
\* and not yet flushed, unless a seal found too few permits and consumed
\* none: its flush then adds permits that were never taken.
RowsAndPermitsKeptUnlessSkipped ==
    /\ \A k \in DOMAIN newest : newest[k] \in flushedMem \/ GetEntry(k) = {newest[k]}
    /\ ~skipped => permits + Size(FlattenSeq(sealedQueue)) = Limit

\* A put that waits for back-pressure to ease is served in the end (a put is
\* made once).
PutServed == <>[](\A p \in MemPuts : mPc[p] \in {"idle", "done"})

============================================================================
