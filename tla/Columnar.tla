------------------------------- MODULE Columnar -------------------------------
(***************************************************************************)
(* How rows become SST files and come back: the flush pipeline of          *)
(* storage/src/flush.rs, the output of a compaction (build_run), the       *)
(* columnar layout of storage/src/columnar.rs, and the two readers of it,  *)
(* the point read through the index and Engine::scan_columnar with its     *)
(* zone-map pruning.                                                       *)
(*                                                                         *)
(* Keys 1 and 2 are rows of a table with one column that may be registered *)
(* as columnar, key 3 belongs to another table.  A row that its splitter   *)
(* cannot split (a value that is not of the column's type) is "bad".       *)
(* Writes, flushes and compactions race in Engine; here no write is in     *)
(* flight during a flush, and a compaction is one step.                    *)
(***************************************************************************)
EXTENDS Pax

CONSTANTS
    ColTypes,           \* the types the column may have
    RowsPerBlock,       \* max_rows_per_block
    BlocksPerSst,       \* blocks that reach sst_size_bytes
    Workers,            \* compaction_concurrency
    QuietFlush,         \* no compaction commits while a flush writes its files
    MaxClock, MaxSstId  \* bounds on writes and on the files they end in

ASSUME ColumnarConstants ==
    /\ ColTypes \subseteq ColumnTypes /\ QuietFlush \in BOOLEAN
    /\ RowsPerBlock \in Nat \ {0} /\ BlocksPerSst \in Nat \ {0} /\ Workers \in Nat \ {0}

RowIds == 1 .. 3
OfTable(k) == k <= 2
InMem == <<0, 0, 0>>
Nowhere == <<>>

VARIABLES
    colType, registered,
    memt,       \* RowIds -> {} or {the newest version}: [key, ts, kind, cell]
    ssts,       \* registered files: id -> sequence of blocks
    nextSstId,
    flushing,   \* {} or {[id, plan]}: a flush between its first id and its registration
    loc,        \* the primary index: RowIds -> <<sst id, block, row>>, InMem or Nowhere
    pinTs,      \* the timestamps that version tags pin
    clock, newest       \* history: RowIds -> {} or {the last version written}

colVars == <<colType, registered, memt, ssts, nextSstId, flushing, loc, pinTs, clock, newest>>

ColInit ==
    /\ colType \in ColTypes /\ registered = FALSE
    /\ memt = [k \in RowIds |-> {}] /\ ssts = <<>> /\ nextSstId = 1
    /\ flushing = {} /\ loc = [k \in RowIds |-> Nowhere] /\ pinTs \in {{}, {1}}
    /\ clock = 0 /\ newest = [k \in RowIds |-> {}]

\* A cell is {} for NULL, else its bytes; text has an empty value.
Cells == {{}} \cup {{v} : v \in IF colType = "text" THEN {<<>>, <<1>>} ELSE {<<1>>, <<Base - 1>>}}
PlaceholderBytes == IF colType = "text" THEN <<>> ELSE U64ToBytes(0, ByteSize(colType))

-----------------------------------------------------------------------------
(* Layout *)

RegOf(k) == registered /\ OfTable(k)

\* Where the block that holds row i starts: a block ends when it is full and
\* before a row of another registration than its first row's.
BlockStart(rows) ==
    LET start[i \in DOMAIN rows] ==
            IF i = 1 THEN 1
            ELSE LET s == start[i - 1]
                 IN  IF i - s >= RowsPerBlock \/ RegOf(rows[i].key) # RegOf(rows[s].key)
                     THEN i ELSE s
    IN  start

SplitIntoBlocks(rows) ==
    LET start == BlockStart(rows)
        first == SelectSeq([i \in DOMAIN rows |-> i], LAMBDA i : start[i] = i)
        end(b) == IF b = Len(first) THEN Len(rows) ELSE first[b + 1] - 1
    IN  [b \in DOMAIN first |-> SubSeq(rows, first[b], end(b))]

\* The data and validity columns of a block's rows.
ColumnarDataColumns(rows) ==
    [data |-> [i \in DOMAIN rows |-> IF rows[i].cell = {} THEN PlaceholderBytes
                                     ELSE CHOOSE v \in rows[i].cell : TRUE],
     valid |-> [i \in DOMAIN rows |-> rows[i].cell # {}]]

\* A columnar block of a registered table, unless a row cannot be split.
BuildBlock(rows) ==
    LET cols == ColumnarDataColumns(rows)
        columnar == RegOf(rows[1].key) /\ \A i \in DOMAIN rows : rows[i].kind # "bad"
    IN  [rows |-> rows, columnar |-> columnar,
         data |-> IF columnar THEN cols.data ELSE <<>>,
         valid |-> IF columnar THEN cols.valid ELSE <<>>,
         zone |-> ExtractZoneMap(colType, IF columnar THEN cols.data ELSE <<>>)]

\* Blocks packed into files, in order.
PackFiles(blocks) ==
    [f \in 1 .. (Len(blocks) + BlocksPerSst - 1) \div BlocksPerSst |->
        SubSeq(blocks, (f - 1) * BlocksPerSst + 1,
               IF f * BlocksPerSst < Len(blocks) THEN f * BlocksPerSst ELSE Len(blocks))]

\* Which rows each block of each file gets, and the blocks built from them.
PlanRun(rows) == PackFiles(SplitIntoBlocks(rows))
BuildRun(plan) == [f \in DOMAIN plan |-> [b \in DOMAIN plan[f] |-> BuildBlock(plan[f][b])]]

\* The places of k's rows, when the files are numbered from first.
Places(plan, first, k) ==
    UNION {UNION {{[at |-> <<first + f - 1, b, r>>, row |-> plan[f][b][r]] :
                        r \in {q \in DOMAIN plan[f][b] : plan[f][b][q].key = k}} :
                    b \in DOMAIN plan[f]} : f \in DOMAIN plan}

\* By key, then by timestamp.
RowsSorted(S) ==
    LET before(a, b) == a.key < b.key \/ (a.key = b.key /\ a.ts < b.ts)
    IN  [i \in 1 .. Cardinality(S) |->
            CHOOSE b \in S : Cardinality({a \in S : before(a, b)}) = i - 1]

-----------------------------------------------------------------------------
(* Actions *)

\* put or delete: the memtable's newest version, and the index.
PutVersion(k, kind, cell) ==
    /\ clock < MaxClock /\ flushing = {}
    /\ kind = "tomb" => loc[k] # Nowhere
    /\ LET v == [key |-> k, ts |-> clock + 1, kind |-> kind, cell |-> cell]
       IN  /\ memt' = [memt EXCEPT ![k] = {v}] /\ newest' = [newest EXCEPT ![k] = {v}]
           /\ loc' = [loc EXCEPT ![k] = IF kind = "tomb" THEN Nowhere ELSE InMem]
    /\ clock' = clock + 1
    /\ UNCHANGED <<colType, registered, ssts, nextSstId, flushing, pinTs>>

PutCells == \E k \in RowIds : OfTable(k) /\ \E c \in Cells : PutVersion(k, "row", c)
PutBad == \E k \in RowIds : OfTable(k) /\ PutVersion(k, "bad", {})
PutOther == \E k \in RowIds : ~ OfTable(k) /\ newest[k] = {} /\ PutVersion(k, "row", {})
DeleteRow == \E k \in RowIds : OfTable(k) /\ PutVersion(k, "tomb", {})

\* ALTER TABLE ... SET STORAGE, CREATE TABLE, DROP TABLE.
SetRegistered ==
    /\ registered' = ~ registered /\ flushing = {}
    /\ UNCHANGED <<colType, memt, ssts, nextSstId, flushing, loc, pinTs, clock, newest>>

\* flush_memtable draws the id of its first file and writes its files.
FlushFiles ==
    /\ flushing = {} /\ nextSstId <= MaxSstId /\ UNION {memt[k] : k \in RowIds} # {}
    /\ flushing' = {[id |-> nextSstId,
                     plan |-> PlanRun(RowsSorted(UNION {memt[k] : k \in RowIds}))]}
    /\ nextSstId' = nextSstId + 1
    /\ UNCHANGED <<colType, registered, memt, ssts, loc, pinTs, clock, newest>>

\* Registration draws an id for each further file; the index counts on from
\* the first.  Then the memtable is replaced.
FlushRegister ==
    \E f \in flushing :
        LET id(i) == IF i = 1 THEN f.id ELSE nextSstId + i - 2
            files == BuildRun(f.plan)
        IN  /\ ssts' = [s \in DOMAIN ssts \cup {id(i) : i \in DOMAIN f.plan} |->
                            IF s \in DOMAIN ssts THEN ssts[s]
                            ELSE files[CHOOSE i \in DOMAIN f.plan : id(i) = s]]
            /\ loc' = [k \in RowIds |->
                        IF memt[k] = {} THEN loc[k]
                        ELSE (CHOOSE p \in Places(f.plan, f.id, k) : TRUE).at]
            /\ nextSstId' = nextSstId + Len(f.plan) - 1
            /\ memt' = [k \in RowIds |-> {}] /\ flushing' = {}
            /\ UNCHANGED <<colType, registered, pinTs, clock, newest>>

RowsIn(files) == UNION {ToSet(b.rows) : b \in UNION {ToSet(files[s]) : s \in DOMAIN files}}

NewestIn(S) == CHOOSE v \in S : \A w \in S : w.ts <= v.ts

\* Per key the newest version and the newest one at or before each pin; a key
\* of which only a tombstone is left goes.
KeptRows(all) ==
    LET versions(k) == {v \in all : v.key = k}
        kept(k) == {NewestIn(versions(k))} \cup
                   {NewestIn({v \in versions(k) : v.ts <= p}) :
                        p \in {q \in pinTs : \E v \in versions(k) : v.ts <= q}}
    IN  UNION {kept(k) : k \in {j \in RowIds : versions(j) # {} /\
                                            \E v \in kept(j) : v.kind # "tomb"}}

\* The survivors in contiguous slices, one per worker, each built by itself.
Slices(rows) ==
    LET size == (Len(rows) + Workers - 1) \div Workers
        last(w) == IF w * size < Len(rows) THEN w * size ELSE Len(rows)
    IN  IF rows = <<>> THEN <<>>
        ELSE [w \in 1 .. (Len(rows) + size - 1) \div size |->
                SubSeq(rows, (w - 1) * size + 1, last(w))]

\* art_targets: the places of the newest version of k, in files numbered from first.
ArtTargets(all, plan, first, k) ==
    {p \in Places(plan, first, k) : p.row = NewestIn({v \in all : v.key = k})}

Compact ==
    /\ DOMAIN ssts # {} /\ nextSstId <= MaxSstId /\ (QuietFlush => flushing = {})
    /\ LET all == RowsIn(ssts)
           slices == Slices(RowsSorted(KeptRows(all)))
           plan == FlattenSeq([w \in DOMAIN slices |-> PlanRun(slices[w])])
           target == [k \in RowIds |-> ArtTargets(all, plan, nextSstId, k)]
           \* relocate_if_points_to: only an entry that names an input moves
           moves(k) == /\ loc[k] # Nowhere /\ loc[k] # InMem /\ target[k] # {}
                       /\ loc[k][1] \in DOMAIN ssts
       IN  /\ ssts' = [s \in nextSstId .. nextSstId + Len(plan) - 1 |->
                        BuildRun(plan)[s - nextSstId + 1]]
           /\ nextSstId' = nextSstId + Len(plan)
           /\ loc' = [k \in RowIds |->
                        IF moves(k) THEN (CHOOSE p \in target[k] : TRUE).at ELSE loc[k]]
    /\ UNCHANGED <<colType, registered, memt, flushing, pinTs, clock, newest>>

ColNext == \/ PutCells \/ PutBad \/ PutOther \/ DeleteRow \/ SetRegistered
           \/ FlushFiles \/ FlushRegister \/ Compact
ColSpec == ColInit /\ [][ColNext]_colVars

-----------------------------------------------------------------------------
(* Reads *)

\* read_value_from_raw_block at the place the index names: no look at the key.
PointRead(k) ==
    LET p == loc[k]
    IN  CASE p = Nowhere -> {}
          [] p = InMem -> memt[k]
          [] OTHER -> IF p[1] \in DOMAIN ssts /\ p[2] \in DOMAIN ssts[p[1]]
                         /\ p[3] \in DOMAIN ssts[p[1]][p[2]].rows
                      THEN {ssts[p[1]][p[2]].rows[p[3]]} ELSE {}

Matches(cell, op, value) ==
    \E v \in cell : Compares(op, ToComparableBytes(colType, v), ToComparableBytes(colType, value))

StagedUnlessPruned(block, op, value) ==
    IF block.columnar /\ ~ ZoneMapCanMatch(colType, block.zone, op, value) THEN {}
    ELSE {[key |-> r.key, ts |-> r.ts, cell |-> r.cell,
           out |-> IF r.kind = "tomb" THEN "tombstone" ELSE "cells"] :
            r \in {q \in ToSet(block.rows) : OfTable(q.key) /\ q.kind # "bad"}}

\* What one block stages for a scan with the predicate: [key, ts, out], where
\* out is the cell of a live row; a row that does not split stages nothing.
Staged(block, op, value) ==
    LET pruned == block.columnar /\ ~ ZoneMapCanMatch(colType, block.zone, op, value)
        out(i) == LET r == block.rows[i]
                  IN  CASE r.kind = "tomb" -> "tombstone"
                        [] pruned -> "excluded"
                        [] OTHER -> "cells"
        cell(i) == IF ~ block.columnar THEN block.rows[i].cell
                   ELSE IF block.valid[i] THEN {block.data[i]} ELSE {}
    IN  {[key |-> block.rows[i].key, ts |-> block.rows[i].ts, out |-> out(i), cell |-> cell(i)] :
            i \in {j \in DOMAIN block.rows :
                    OfTable(block.rows[j].key) /\ block.rows[j].kind # "bad"}}

StagedMem ==
    {[key |-> v.key, ts |-> v.ts, out |-> IF v.kind = "tomb" THEN "tombstone" ELSE "cells",
      cell |-> v.cell] : v \in {w \in UNION {memt[k] : k \in RowIds} :
                                    OfTable(w.key) /\ w.kind # "bad"}}

\* scan_columnar and the filter above it: <<key, cell>> of the rows that match.
ScanColumnar(op, value) ==
    LET staged == StagedMem \cup
            UNION {Staged(b, op, value) : b \in UNION {ToSet(ssts[s]) : s \in DOMAIN ssts}}
        winner(k) == NewestIn({v \in staged : v.key = k})
    IN  {<<k, winner(k).cell>> : k \in
            {j \in RowIds : /\ \E v \in staged : v.key = j
                            /\ winner(j).out = "cells" /\ Matches(winner(j).cell, op, value)}}

-----------------------------------------------------------------------------
(* Properties *)

(* A point read through the index gives the newest version of its row: the *)
(* place that a flush gives the index ("sst_ids were allocated             *)
(* sequentially during registration") and the one a compaction moves it to *)
(* hold the row of that key.                                               *)
PointReadFindsRow ==
    \A k \in RowIds : \A v \in newest[k] : v.kind # "tomb" => PointRead(k) = {v}

\* The newest version of k lies in a block whose text column has an empty value.
InEmptyZone(k) ==
    \E s \in DOMAIN ssts : \E b \in ToSet(ssts[s]) :
        b.columnar /\ b.zone.min = <<>> /\ ToSet(b.rows) \cap newest[k] # {}

(* A columnar scan with a predicate returns exactly the rows whose newest  *)
(* version matches it, from columnar and legacy blocks and the memtable,   *)
(* whatever was rewritten and whichever blocks their zone maps prune: a    *)
(* pruned version still hides older ones.  Not for a row whose newest      *)
(* version does not split (an older version shows), nor for a row in a     *)
(* block whose text column holds a NULL, a tombstone or an empty string    *)
(* (its empty minimum prunes the block for every predicate).               *)
ScanExactUnlessEmpty ==
    registered => \A op \in PruneOps : \A value \in UNION Cells :
        LET found == ScanColumnar(op, value)
        IN  \A k \in RowIds : \A v \in newest[k] :
                OfTable(k) /\ v.kind # "bad" /\ ~ InEmptyZone(k) =>
                    {x \in found : x[1] = k} =
                        IF v.kind = "row" /\ Matches(v.cell, op, value) THEN {<<k, v.cell>>} ELSE {}

(* Both readers of the SST files are exact.                                *)
SstReadsExactUnlessEmpty == PointReadFindsRow /\ ScanExactUnlessEmpty

===============================================================================
