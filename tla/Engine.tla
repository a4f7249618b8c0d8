------------------------------- MODULE Engine -------------------------------
(***************************************************************************)
(* The storage engine of crates/galaxdb-storage/src/engine.rs: put_sync,   *)
(* put_batch_sync and delete_sync over the WAL, the active memtable and    *)
(* the primary index (ART); flush_memtable; runtime compaction with its    *)
(* MVCC garbage collection; a crash and Engine::new; and the three read    *)
(* paths, get, scan_all and scan_all_at.                                   *)
(*                                                                         *)
(* The WAL is what Wal.tla shows of it: an append is durable when it       *)
(* returns.  A value is told apart by the call that wrote it.  One flush   *)
(* or one compaction writes one SST file of one block.                     *)
(***************************************************************************)
EXTENDS Naturals, Sequences, FiniteSets

CONSTANTS
    NKeys,              \* keys, in key order
    WriteCalls,              \* write calls, each made at most once
    Kinds,              \* which of "put", "del", "batch" they make
    Trigger,            \* fewest SSTs a compaction runs on; 1 is force_compact
    OneWriterPerKey,    \* callers serialise writes to a key
    ExclusiveFlush,     \* flush_memtable runs with no write in flight
    MaxFlushes, MaxCompactions, MaxCrashes, MaxPins, MaxIoErrors     \* bounds

Keys == 1 .. NKeys

ASSUME EngineConstants ==
    /\ NKeys \in Nat /\ Trigger \in Nat /\ Kinds \subseteq {"put", "del", "batch"}
    /\ OneWriterPerKey \in BOOLEAN /\ ExclusiveFlush \in BOOLEAN
    /\ MaxFlushes \in Nat /\ MaxCompactions \in Nat /\ MaxCrashes \in Nat
    /\ MaxPins \in Nat /\ MaxIoErrors \in Nat

\* File numbers: a flush draws one for its block and one for its file.
Files == 1 .. 2 * MaxFlushes + MaxCompactions
Ids   == 1 .. 2 * (2 * MaxFlushes + MaxCompactions)

None == [kind |-> "none"]
InMemtable == [kind |-> "mem"]
InSst(s, i) == [kind |-> "sst", sst |-> s, row |-> i]

VARIABLES
    alive,
    wal,            \* records [kind, key, by], durable, in append order
    mem,            \* active memtable: Keys -> versions, most recent put first
    memNo,          \* which memtable is active
    art,            \* Keys -> location
    sstFiles,           \* Files -> {[rows]} when sst_<file>.pax exists, else {}
    registry,       \* Ids -> file number, 0 when not registered
    nextTs, nextSst, nextBlock,
    wpc, call,       \* per call: where it is; its kind, key, ts, memtable
    flush,          \* the flush in progress
    comp,           \* the compaction in progress
    pins,           \* timestamps pinned by version tags
    latest,         \* history: Keys -> the last write applied, {} for none
    flushes, compactions, crashes, ioErrors

memVars   == <<mem, memNo, art>>
sstVars   == <<sstFiles, registry, nextSst, nextBlock>>
callVars  == <<wpc, call>>
boundVars == <<flushes, compactions, crashes, ioErrors>>
engVars == <<alive, wal, memVars, sstVars, nextTs, callVars, flush, comp, pins, latest,
             boundVars>>

NoCall == [kind |-> "put", key |-> 0, ts |-> 0, mem |-> 0]
NoFlush == [st |-> "idle", keys |-> {}, sst |-> 0, file |-> 0]
NoComp == [st |-> "idle", ids |-> {}, paths |-> {}, rows |-> {}, tops |-> {}]

EngInit ==
    /\ alive = TRUE /\ wal = <<>>
    /\ mem = [k \in Keys |-> <<>>] /\ memNo = 1 /\ art = [k \in Keys |-> None]
    /\ sstFiles = [f \in Files |-> {}] /\ registry = [s \in Ids |-> 0]
    /\ nextTs = 1 /\ nextSst = 1 /\ nextBlock = 1
    /\ wpc = [c \in WriteCalls |-> "idle"] /\ call = [c \in WriteCalls |-> NoCall]
    /\ flush = NoFlush /\ comp = NoComp
    /\ pins = {} /\ latest = [k \in Keys |-> {}]
    /\ flushes = 0 /\ compactions = 0 /\ crashes = 0 /\ ioErrors = 0

CallGoto(c, l) == wpc' = [wpc EXCEPT ![c] = l]
CallAt(c, l) == alive /\ wpc[c] = l
Pending(c) == wpc[c] \notin {"idle", "done", "dead"}
\* No call that writes k has begun and not returned.
Settled(k) == \A c \in WriteCalls : Pending(c) => call[c].kind # "batch" /\ call[c].key # k

----------------------------------------------------------------------------
(* Files and rows                                                          *)

Version(t, c, d) == [ts |-> t, by |-> c, del |-> d]
Row(k, v) == [key |-> k, ts |-> v.ts, by |-> v.by, del |-> v.del]

Registered == {s \in Ids : registry[s] # 0}

\* The rows a registered SST gives a reader; none if its file is gone.
RowsOf(s) == UNION {d.rows : d \in sstFiles[registry[s]]}

\* Rows lie in a block in (key, timestamp) order.
Before(q, r) == q.key < r.key \/ (q.key = r.key /\ q.ts < r.ts)
RowAt(rows, i) == {r \in rows : Cardinality({q \in rows : Before(q, r)}) = i - 1}
RankIn(keys, k) == Cardinality({q \in keys : q <= k})

\* iter_all: the newest version of every key of the active memtable.
MemKeys == {k \in Keys : mem[k] # <<>>}
MemRows == {Row(k, mem[k][1]) : k \in MemKeys}

----------------------------------------------------------------------------
(* Reads                                                                   *)

\* get: the row found, as a set.  A memtable tombstone is no row; the row an
\* index entry points at in an SST is returned as it is, empty if deleted.
GetRows(k) ==
    CASE art[k].kind = "none" -> {}
      [] art[k].kind = "mem" -> {r \in MemRows : r.key = k /\ ~r.del}
      [] art[k].kind = "sst" ->
            IF art[k].sst \in Registered THEN RowAt(RowsOf(art[k].sst), art[k].row) ELSE {}

SstRows(k) == {r \in UNION {RowsOf(s) : s \in Registered} : r.key = k}

\* A scan that passes over tombstones.
ScanRowsLive(k) ==
    LET sst == {r \in SstRows(k) : ~r.del}
    IN  IF k \in MemKeys THEN {r \in {Row(k, mem[k][1])} : ~r.del}
        ELSE {r \in sst : \A q \in sst : q.ts <= r.ts}

\* scan_all: the memtable's newest version overrides the newest of the SSTs.
ScanRows(k) ==
    LET in == IF k \in MemKeys THEN {Row(k, mem[k][1])}
              ELSE {r \in SstRows(k) : \A q \in SstRows(k) : q.ts <= r.ts}
    IN  {r \in in : ~r.del}

\* scan_all_at over the SSTs, in the registry's arbitrary order: the newest
\* visible row, unless that is a tombstone, which only forgets the rows seen
\* before it.  The set of the answers there can be.
SstAt(k, t) ==
    LET seen == {r \in SstRows(k) : r.ts <= t}
        top  == {r \in seen : \A q \in seen : q.ts <= r.ts}
        after(r) == \E s \in Registered :
                       r \in RowsOf(s) /\ \A q \in RowsOf(s) \cap seen : q.ts <= r.ts
    IN  IF \E r \in top : r.del
        THEN {{}} \cup {{r} : r \in {q \in seen : ~q.del /\ after(q)}}
        ELSE {top}

\* scan_all_at: the first version of the memtable chain the snapshot admits
\* replaces the SSTs' answer unless that is newer.
MemAt(k, t) ==
    {i \in DOMAIN mem[k] : mem[k][i].ts <= t /\ \A j \in 1 .. i - 1 : mem[k][j].ts > t}
ScanAt(k, t) ==
    {LET over == {i \in MemAt(k, t) : \A r \in a : mem[k][i].ts >= r.ts}
     IN  IF over = {} THEN a ELSE {r \in {Row(k, mem[k][i]) : i \in over} : ~r.del}
       : a \in SstAt(k, t)}

----------------------------------------------------------------------------
(* put_sync, delete_sync, put_batch_sync                                   *)

CanStart(c, keys) ==
    /\ CallAt(c, "idle")
    /\ OneWriterPerKey => \A k \in keys : Settled(k)
    /\ ExclusiveFlush => flush.st = "idle"

\* The timestamp is drawn first; a delete of an unknown key returns at once.
Start(c, kind, k) ==
    /\ CanStart(c, {k}) /\ kind \in Kinds \ {"batch"}
    /\ IF kind = "del" /\ art[k].kind = "none"
       THEN CallGoto(c, "done") /\ UNCHANGED <<call, nextTs>>
       ELSE /\ call' = [call EXCEPT ![c] = [kind |-> kind, key |-> k, ts |-> nextTs, mem |-> 0]]
            /\ nextTs' = nextTs + 1
            /\ CallGoto(c, "started")
    /\ UNCHANGED <<alive, wal, memVars, sstVars, flush, comp, pins, latest, boundVars>>

\* A batch of all keys draws no timestamp yet.
StartBatch(c) ==
    /\ CanStart(c, Keys) /\ "batch" \in Kinds
    /\ call' = [call EXCEPT ![c] = [kind |-> "batch", key |-> 0, ts |-> 0, mem |-> 0]]
    /\ CallGoto(c, "started")
    /\ UNCHANGED <<alive, wal, memVars, sstVars, nextTs, flush, comp, pins, latest,
                   boundVars>>

Log(c) ==
    /\ CallAt(c, "started")
    /\ wal' = Append(wal, [kind |-> call[c].kind, key |-> call[c].key, by |-> c])
    /\ CallGoto(c, "logged")
    /\ UNCHANGED <<alive, memVars, sstVars, nextTs, call, flush, comp, pins, latest,
                   boundVars>>

\* The append fails: the call returns the error, its timestamp is spent.
LogFails(c) ==
    /\ CallAt(c, "started") /\ ioErrors < MaxIoErrors
    /\ ioErrors' = ioErrors + 1
    /\ CallGoto(c, "done")
    /\ UNCHANGED <<alive, wal, memVars, sstVars, nextTs, call, flush, comp, pins, latest,
                   flushes, compactions, crashes>>

\* memtable_mgr.active()
TakeActive(c) ==
    /\ CallAt(c, "logged")
    /\ call' = [call EXCEPT ![c].mem = memNo]
    /\ CallGoto(c, "holding")
    /\ UNCHANGED <<alive, wal, memVars, sstVars, nextTs, flush, comp, pins, latest,
                   boundVars>>

Prepend(k, v) == [mem EXCEPT ![k] = <<v>> \o @]

\* Memtable::put drops the write if the memtable was sealed meanwhile.
Apply(c) ==
    LET k == call[c].key
        d == call[c].kind = "del"
    IN  /\ CallAt(c, "holding") /\ call[c].kind # "batch"
        /\ mem' = IF call[c].mem = memNo THEN Prepend(k, Version(call[c].ts, c, d)) ELSE mem
        /\ latest' = [latest EXCEPT ![k] = {[by |-> c, del |-> d]}]
        /\ CallGoto(c, "applied")
        /\ UNCHANGED <<alive, wal, memNo, art, sstVars, nextTs, call, flush, comp, pins,
                       boundVars>>

Index(c) ==
    /\ CallAt(c, "applied")
    /\ art' = [art EXCEPT ![call[c].key] =
                  IF call[c].kind = "del" THEN None ELSE InMemtable]
    /\ CallGoto(c, "done")
    /\ UNCHANGED <<alive, wal, mem, memNo, sstVars, nextTs, call, flush, comp, pins,
                   latest, boundVars>>

\* put_batch_sync's loop: a timestamp, a put and an index entry per row.
ApplyBatch(c) ==
    /\ CallAt(c, "holding") /\ call[c].kind = "batch"
    /\ mem' = [k \in Keys |-> IF call[c].mem = memNo
                              THEN <<Version(nextTs + k - 1, c, FALSE)>> \o mem[k]
                              ELSE mem[k]]
    /\ art' = [k \in Keys |-> InMemtable]
    /\ nextTs' = nextTs + NKeys
    /\ latest' = [k \in Keys |-> {[by |-> c, del |-> FALSE]}]
    /\ CallGoto(c, "done")
    /\ UNCHANGED <<alive, wal, memNo, sstVars, call, flush, comp, pins, boundVars>>

----------------------------------------------------------------------------
(* flush_memtable                                                          *)

\* The keys are listed and the SST id drawn; an empty memtable returns.
FlushBegin ==
    /\ alive /\ flush.st = "idle" /\ flushes < MaxFlushes /\ MemKeys # {}
    /\ ExclusiveFlush => \A c \in WriteCalls : ~Pending(c)
    /\ flushes' = flushes + 1
    /\ flush' = [st |-> "begun", keys |-> MemKeys, sst |-> nextSst, file |-> 0]
    /\ nextSst' = nextSst + 1
    /\ UNCHANGED <<alive, wal, memVars, sstFiles, registry, nextBlock, nextTs, callVars, comp,
                   pins, latest, compactions, crashes, ioErrors>>

\* flush.rs lists the memtable again and writes the file without truncating
\* it: over a longer file the old footer stays and the blocks are unreadable.
FlushWrite ==
    LET f == nextBlock + 1
    IN  /\ alive /\ flush.st = "begun"
        /\ \E rows \in {MemRows} \cup {{} : d \in sstFiles[f]} :
              sstFiles' = [sstFiles EXCEPT ![f] = {[rows |-> rows]}]
        /\ flush' = [flush EXCEPT !.st = "written", !.file = f]
        /\ nextBlock' = nextBlock + 2
        /\ UNCHANGED <<alive, wal, memVars, registry, nextSst, nextTs, callVars, comp, pins,
                       latest, boundVars>>

\* Under the registry lock: the file is registered, and the i-th key listed
\* is pointed at the i-th row.
FlushInstall ==
    /\ alive /\ flush.st = "written"
    /\ registry' = [registry EXCEPT ![flush.sst] = flush.file]
    /\ art' = [k \in Keys |-> IF k \in flush.keys
                              THEN InSst(flush.sst, RankIn(flush.keys, k)) ELSE art[k]]
    /\ flush' = [flush EXCEPT !.st = "installed"]
    /\ UNCHANGED <<alive, wal, mem, memNo, sstFiles, nextSst, nextBlock, nextTs, callVars, comp,
                   pins, latest, boundVars>>

\* seal_active and on_flush_complete: a new memtable, the old one forgotten.
FlushSeal ==
    /\ alive /\ flush.st = "installed"
    /\ mem' = [k \in Keys |-> <<>>] /\ memNo' = memNo + 1
    /\ flush' = NoFlush
    /\ UNCHANGED <<alive, wal, art, sstVars, nextTs, callVars, comp, pins, latest,
                   boundVars>>

----------------------------------------------------------------------------
(* compact_inner, under the compaction lock                                *)

\* The input set is a copy of the registry.
CompactBegin ==
    /\ alive /\ comp.st = "idle" /\ compactions < MaxCompactions
    /\ Cardinality(Registered) >= Trigger /\ Registered # {}
    /\ compactions' = compactions + 1
    /\ comp' = [NoComp EXCEPT !.st = "begun", !.ids = Registered,
                              !.paths = {registry[s] : s \in Registered}]
    /\ UNCHANGED <<alive, wal, memVars, sstVars, nextTs, callVars, flush, pins, latest,
                   flushes, crashes, ioErrors>>

\* One version per key and timestamp.
Distinct(rows) ==
    {d \in SUBSET rows :
        /\ \A q, r \in d : q.key = r.key /\ q.ts = r.ts => q = r
        /\ \A r \in rows : \E q \in d : q.key = r.key /\ q.ts = r.ts}

Newest(rows) == {r \in rows : \A q \in rows : q.key = r.key => q.ts <= r.ts}

\* GC that does not look at the pins.
SurvivorsUnpinned(rows) == {r \in Newest(rows) : ~r.del}

\* MVCC GC: the latest version of each key, and the newest at or before each
\* pin; a key of which only a tombstone would be kept is dropped.
Survivors(rows) ==
    LET kept == Newest(rows) \cup UNION {Newest({r \in rows : r.ts <= p}) : p \in pins}
    IN  {r \in kept : \E q \in kept : q.key = r.key /\ (q \notin Newest(rows) \/ ~q.del)}

\* The inputs are read, then the pins; a missing file ends the compaction.
CompactRead ==
    /\ alive /\ comp.st = "begun"
    /\ IF \E f \in comp.paths : sstFiles[f] = {}
       THEN comp' = NoComp
       ELSE \E d \in Distinct(UNION {UNION {x.rows : x \in sstFiles[f]} : f \in comp.paths}) :
               comp' = [comp EXCEPT !.st = "read", !.rows = Survivors(d),
                                    !.tops = Newest(d) \cap Survivors(d)]
    /\ UNCHANGED <<alive, wal, memVars, sstVars, nextTs, callVars, flush, pins, latest,
                   boundVars>>

\* A relocation that does not look where the entry points now.
RelocatedAlways(k) == \E r \in comp.tops : r.key = k

\* relocate_if_points_to: only an entry that still points into an input.
Relocated(k) ==
    /\ \E r \in comp.tops : r.key = k
    /\ art[k].kind = "sst" /\ art[k].sst \in comp.ids

\* Under the registry lock: the output is written and registered, the index
\* relocated, the inputs forgotten.
CompactCommit ==
    LET f == nextBlock
        s == nextSst
        top(k) == CHOOSE r \in comp.tops : r.key = k
        row(k) == CHOOSE i \in 1 .. Cardinality(comp.rows) : RowAt(comp.rows, i) = {top(k)}
    IN  /\ alive /\ comp.st = "read"
        /\ IF comp.rows = {}
           THEN /\ registry' = [i \in Ids |-> IF i \in comp.ids THEN 0 ELSE registry[i]]
                /\ UNCHANGED <<sstFiles, art, nextSst, nextBlock>>
           ELSE /\ sstFiles' = [sstFiles EXCEPT ![f] = {[rows |-> comp.rows]}]
                /\ registry' = [i \in Ids |-> IF i = s THEN f
                                              ELSE IF i \in comp.ids THEN 0 ELSE registry[i]]
                /\ art' = [k \in Keys |-> IF Relocated(k) THEN InSst(s, row(k)) ELSE art[k]]
                /\ nextSst' = nextSst + 1 /\ nextBlock' = nextBlock + 1
        /\ comp' = [comp EXCEPT !.st = "unlinking"]
        /\ UNCHANGED <<alive, wal, mem, memNo, nextTs, callVars, flush, pins, latest,
                       boundVars>>

\* The input files are removed one by one.
CompactUnlink ==
    /\ alive /\ comp.st = "unlinking"
    /\ \E f \in comp.paths :
          /\ sstFiles' = [sstFiles EXCEPT ![f] = {}]
          /\ comp' = IF comp.paths = {f} THEN NoComp ELSE [comp EXCEPT !.paths = @ \ {f}]
    /\ UNCHANGED <<alive, wal, memVars, registry, nextSst, nextBlock, nextTs, callVars, flush,
                   pins, latest, boundVars>>

----------------------------------------------------------------------------
(* Version tags, a crash, Engine::new                                      *)

\* create_tag at latest_commit_ts.
CreateTag ==
    LET t == nextTs - 1
    IN  /\ alive /\ Cardinality(pins) < MaxPins /\ t \notin pins /\ t > 0
        /\ pins' = pins \cup {t}
        /\ UNCHANGED <<alive, wal, memVars, sstVars, nextTs, callVars, flush, comp, latest,
                       boundVars>>

\* Memory is lost, the tag catalog with it; the files and the WAL stay.
Crash ==
    /\ alive /\ crashes < MaxCrashes
    /\ crashes' = crashes + 1 /\ alive' = FALSE
    /\ wpc' = [c \in WriteCalls |-> IF Pending(c) THEN "dead" ELSE wpc[c]]
    /\ flush' = NoFlush /\ comp' = NoComp /\ pins' = {}
    /\ UNCHANGED <<wal, memVars, sstVars, nextTs, call, latest, flushes, compactions,
                   ioErrors>>

\* Replay applies record i at timestamp i.  A batch record is read as one row
\* under a key that is none of Keys.
Records(k) == {i \in DOMAIN wal : wal[i].key = k /\ wal[i].kind # "batch"}
\* A replay that puts the records in last to first.
ReplayedReversed(k) ==
    [j \in 1 .. Cardinality(Records(k)) |->
        LET i == CHOOSE i \in Records(k) : Cardinality({q \in Records(k) : q <= i}) = j
        IN  Version(i, wal[i].by, wal[i].kind = "del")]

ReplayedChain(k) ==
    [j \in 1 .. Cardinality(Records(k)) |->
        LET i == CHOOSE i \in Records(k) : Cardinality({q \in Records(k) : q >= i}) = j
        IN  Version(i, wal[i].by, wal[i].kind = "del")]

\* A call the crash cut off may or may not have been logged.
Unsure(k) == {c \in WriteCalls : wpc[c] = "dead" /\ (call[c].key = k \/ call[c].kind = "batch")}
LatestAfter(k) ==
    IF Unsure(k) = {} THEN latest[k]
    ELSE {[by |-> v.by, del |-> v.del] :
             v \in {ReplayedChain(k)[j] : j \in DOMAIN ReplayedChain(k) \cap {1}}}

ReplayedClock == 1 + Len(wal)

OnDisk == {f \in Files : sstFiles[f] # {}}

Restart ==
    /\ ~alive /\ alive' = TRUE
    /\ mem' = [k \in Keys |-> ReplayedChain(k)] /\ memNo' = memNo + 1
    /\ art' = [k \in Keys |-> IF Records(k) = {} THEN None ELSE InMemtable]
    /\ registry' = [s \in Ids |-> IF s \in OnDisk THEN s ELSE 0]
    /\ nextTs' = ReplayedClock /\ nextBlock' = 1
    /\ nextSst' = 1 + Cardinality({f \in Files : \E g \in OnDisk : f <= g})
    /\ latest' = [k \in Keys |-> LatestAfter(k)]
    /\ UNCHANGED <<wal, sstFiles, callVars, flush, comp, pins, boundVars>>

----------------------------------------------------------------------------
WriteStep(c) ==
    \/ \E kind \in {"put", "del"}, k \in Keys : Start(c, kind, k)
    \/ StartBatch(c) \/ Log(c) \/ LogFails(c) \/ TakeActive(c) \/ Apply(c) \/ Index(c)
    \/ ApplyBatch(c)

FlushStep == FlushBegin \/ FlushWrite \/ FlushInstall \/ FlushSeal
CompactStep == CompactBegin \/ CompactRead \/ CompactCommit \/ CompactUnlink

\* Every call has been made and no flush or compaction is left to run.
EngIdle ==
    /\ alive /\ \A c \in WriteCalls : wpc[c] \in {"done", "dead"}
    /\ flush.st = "idle" /\ comp.st = "idle"
    /\ UNCHANGED engVars

EngNext ==
    \/ \E c \in WriteCalls : WriteStep(c)
    \/ FlushStep \/ CompactStep \/ CreateTag \/ Crash \/ Restart \/ EngIdle

EngSpec == EngInit /\ [][EngNext]_engVars

----------------------------------------------------------------------------
(* Properties                                                              *)

Live(k) == {w \in latest[k] : ~w.del}
Writes(rows) == {[by |-> r.by, del |-> r.del] : r \in rows}

\* scan_all shows, for every key with no write in flight, exactly the last
\* write applied to it: through flushes, compactions and restarts no row is
\* lost, none that was overwritten or deleted comes back.
ScanLatest == alive => \A k \in Keys : Settled(k) => Writes(ScanRows(k)) = Live(k)

\* Scans and point reads agree with the writes: ScanLatest, and get of a key
\* that is not deleted finds the last write applied to it, so the index is
\* never left on an input of a compaction, on another key's row or on an
\* older version.
ReadsLatest ==
    /\ ScanLatest
    /\ alive => \A k \in Keys : Settled(k) /\ Live(k) # {} => Writes(GetRows(k)) = Live(k)

\* Compaction's commit gives no reader of a pinned snapshot an answer that
\* the inputs did not give: MVCC GC drops no version a pin resolves to.
CompactionKeepsPins ==
    [][CompactCommit => \A p \in pins, k \in Keys : ScanAt(k, p)' \subseteq ScanAt(k, p)]_engVars

============================================================================
