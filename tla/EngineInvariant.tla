-------------------------- MODULE EngineInvariant ---------------------------
(***************************************************************************)
(* The inductive invariant of the storage engine and the proof that every  *)
(* step keeps it: for any number of keys, calls, flushes, compactions, tags*)
(* and append errors; with one writer to a key at a time, no write beside a*)
(* flush and no crash. What the proof needs to know of cardinalities is    *)
(* Ranked, which EngineProofs derives from the invariant.                  *)
(***************************************************************************)
EXTENDS Engine, TLAPS

\* The rows of a block, the versions of a memtable chain and the locations of
\* the index.
Rw == [key : Keys, ts : Nat, by : WriteCalls, del : BOOLEAN]
Ver == [ts : Nat, by : WriteCalls, del : BOOLEAN]
VerChains == Seq(Ver)
Locations == {None, InMemtable} \cup {InSst(s, i) : s \in Ids, i \in Nat}

\* The types, and no crash.
EngTypeOK ==
    /\ alive = TRUE /\ crashes = 0
    /\ mem \in [Keys -> VerChains] /\ memNo \in Nat
    /\ art \in [Keys -> Locations]
    /\ sstFiles \in [Files -> SUBSET [rows : SUBSET Rw]]
    /\ registry \in [Ids -> Files \cup {0}]
    /\ nextTs \in Nat /\ nextSst \in Nat \ {0} /\ nextBlock \in Nat \ {0}
    /\ wpc \in [WriteCalls -> {"idle", "started", "logged", "holding", "applied", "done"}]
    /\ call \in [WriteCalls -> [kind : {"put", "del", "batch"}, key : 0 .. NKeys, ts : Nat,
                                mem : Nat]]
    /\ flush \in [st : {"idle", "begun", "written", "installed"}, keys : SUBSET Keys,
                  sst : Nat, file : Nat]
    /\ comp \in [st : {"idle", "begun", "read", "unlinking"}, ids : SUBSET Ids,
                 paths : SUBSET Files, rows : SUBSET Rw, tops : SUBSET Rw]
    /\ latest \in [Keys -> SUBSET [by : WriteCalls, del : BOOLEAN]]
    /\ flushes \in 0 .. MaxFlushes /\ compactions \in 0 .. MaxCompactions

\* One writer to a key, and none beside a flush.
Alone ==
    /\ \A c \in WriteCalls : Pending(c) =>
          /\ flush.st = "idle"
          /\ call[c].kind # "batch" => call[c].key \in Keys
          /\ wpc[c] = "holding" => call[c].mem = memNo
          /\ wpc[c] = "applied" => call[c].kind # "batch"
    /\ \A c, d \in WriteCalls : Pending(c) /\ Pending(d) /\ c # d /\ Keys # {} =>
          call[c].kind # "batch" /\ call[c].key # call[d].key

\* Ids and block files are drawn in order and within the bounds, every
\* registered SST has a file of its own that holds one block, and no file is
\* ahead of the counter.
Filed ==
    /\ nextBlock + (IF flush.st = "begun" THEN 2 ELSE 0)
         + (IF comp.st \in {"begun", "read"} THEN 1 ELSE 0) <= 1 + 2 * flushes + compactions
    /\ nextSst + (IF comp.st \in {"begun", "read"} THEN 1 ELSE 0) <= 1 + flushes + compactions
    /\ \A s \in Registered :
          /\ s < nextSst /\ registry[s] < nextBlock
          /\ \E R \in SUBSET Rw : sstFiles[registry[s]] = {[rows |-> R]}
    /\ \A s, t \in Registered : registry[s] = registry[t] => s = t
    /\ \A f \in Files : f >= nextBlock => sstFiles[f] = {}

\* A flush in progress has the keys of the memtable; its SST is not yet
\* registered, and the file it has written holds the rows of the memtable.
Flushing ==
    /\ flush.st # "idle" => flush.keys = MemKeys
    /\ flush.st \in {"begun", "written"} =>
          flush.sst \in Ids /\ flush.sst < nextSst /\ registry[flush.sst] = 0
    /\ flush.st = "written" =>
          /\ flush.file \in Files /\ flush.file < nextBlock
          /\ sstFiles[flush.file] = {[rows |-> MemRows]}
          /\ \A s \in Registered : registry[s] # flush.file
          /\ flush.file \notin comp.paths

\* The inputs of a compaction stay registered until its commit, and no
\* registered SST is in a file that it removes afterwards.
Inputs ==
    /\ comp.st = "idle" => comp.paths = {}
    /\ comp.st \in {"begun", "read"} =>
          comp.ids \subseteq Registered /\ comp.paths = {registry[s] : s \in comp.ids}
    /\ comp.st = "unlinking" =>
          \A f \in comp.paths : f < nextBlock /\ \A s \in Registered : registry[s] # f

\* The rows that readers of the SSTs see, those of the inputs of the
\* compaction, and the newest of a key.
Seen == UNION {RowsOf(s) : s \in Registered}
Merged == UNION {RowsOf(s) : s \in comp.ids}
Top(R, r) == r \in R /\ \A q \in R : q.key = r.key => q.ts <= r.ts
Write(v) == [by |-> v.by, del |-> v.del]

\* The head of a memtable chain is newer than every flushed row of its key,
\* except its own once a flush has installed it.
KeyOrdered(k) ==
    /\ mem[k][1].ts < nextTs
    /\ \A r \in Seen : r.key = k =>
          r.ts < mem[k][1].ts \/ (flush.st = "installed" /\ r = Row(k, mem[k][1]))

\* The timestamp of a call that has not yet applied its write is newer than
\* what its key has.
CallOrdered(c) ==
    wpc[c] \in {"started", "logged", "holding"} /\ call[c].kind # "batch" =>
       /\ call[c].ts < nextTs
       /\ call[c].key \in MemKeys => mem[call[c].key][1].ts < call[c].ts
       /\ \A r \in Seen : r.key = call[c].key => r.ts < call[c].ts

\* No two flushed rows have a key and a timestamp in common.
SeenOrdered ==
    /\ \A r \in Seen : r.ts < nextTs
    /\ \A q, r \in Seen : q.key = r.key /\ q.ts = r.ts => q = r

\* Timestamps grow along the path of a row.
Ordered ==
    SeenOrdered /\ (\A k \in MemKeys : KeyOrdered(k)) /\ (\A c \in WriteCalls : CallOrdered(c))

\* The last write to a key is the head of its chain or, when the memtable does
\* not have it, the newest flushed row.
KeyCurrent(k) ==
    /\ k \in MemKeys => latest[k] = {Write(mem[k][1])}
    /\ k \notin MemKeys \/ flush.st = "installed" =>
          \/ \E r \in Seen : r.key = k /\ Top(Seen, r) /\ latest[k] = {Write(r)}
          \/ (\A r \in Seen : r.key # k) /\ Live(k) = {}
Current == \A k \in Keys : KeyCurrent(k)

\* The index entry of k names the place i of the SST s, where the row r lies,
\* the last write.
PointsAt(k, s, i, r) ==
    /\ art[k] = InSst(s, i) /\ RowAt(RowsOf(s), i) = {r}
    /\ r.key = k /\ Top(Seen, r) /\ latest[k] = {Write(r)}

\* The index entry of a live key names where its last write is.
KeyPointed(k) ==
    Live(k) # {} /\ (\A c \in WriteCalls : wpc[c] = "applied" => call[c].key # k) =>
       IF k \in MemKeys /\ flush.st # "installed" THEN art[k] = InMemtable
       ELSE \E s \in Registered, i \in Nat, r \in Rw : PointsAt(k, s, i, r)

\* A call between its put and its index entry.
CallApplied(c) ==
    wpc[c] = "applied" =>
       call[c].key \in MemKeys /\ (call[c].kind = "del" => Live(call[c].key) = {})

Pointed == (\A k \in Keys : KeyPointed(k)) /\ (\A c \in WriteCalls : CallApplied(c))

\* What the SSTs beside the inputs hold is newer than what the inputs hold;
\* the rows kept by the MVCC GC have the newest of every key that is not
\* deleted.
Merging ==
    /\ comp.st \in {"begun", "read"} =>
          \A s \in Registered \ comp.ids : \A r \in RowsOf(s), q \in Merged :
             q.key = r.key => q.ts < r.ts
    /\ comp.st = "read" =>
          /\ comp.rows \subseteq Merged
          /\ \A r \in Merged : Top(Merged, r) /\ ~r.del => r \in comp.rows
          /\ \A r \in comp.rows : \E q \in comp.rows : q.key = r.key /\ Top(Merged, q)
          /\ comp.tops = {r \in comp.rows : Top(Merged, r)}

\* The inductive invariant.
EngInv ==
    EngTypeOK /\ Alone /\ Filed /\ Flushing /\ Inputs /\ Ordered /\ Current /\ Pointed /\ Merging

\* Rows of which every key has a newest one.
Headed(R) == \A r \in R : \E q \in R : q.key = r.key /\ Top(R, q)

\* The places that flush and commit give rows: the position of a key among the
\* keys of the memtable is the place of its row in the block, and every row that
\* a commit points an index entry at has a place in the output.
Ranked ==
    /\ \A k \in MemKeys : /\ RankIn(MemKeys, k) \in Nat
                          /\ RowAt(MemRows, RankIn(MemKeys, k)) = {Row(k, mem[k][1])}
    /\ comp.st = "read" =>
          \A r \in comp.tops : \E i \in 1 .. Cardinality(comp.rows) : RowAt(comp.rows, i) = {r}
    /\ \A R \in SUBSET Seen : Headed(R)

-----------------------------------------------------------------------------
(* Facts that several steps need                                           *)

\* One writer to a key, no write beside a flush, no crash.
Undisturbed == OneWriterPerKey = TRUE /\ ExclusiveFlush = TRUE /\ MaxCrashes = 0

\* Memtable::put puts a version at the head of a chain.
LEMMA Prefixed ==
    ASSUME NEW m \in VerChains, NEW v \in Ver
    PROVE  <<v>> \o m \in VerChains /\ <<v>> \o m # <<>> /\ (<<v>> \o m)[1] = v
<1>1. <<v>> \in Seq(Ver) /\ m \in Seq(Ver) /\ Len(<<v>>) = 1 /\ <<v>>[1] = v /\ Len(m) \in Nat
  BY DEF VerChains
<1>2. <<v>> \o m \in Seq(Ver) /\ Len(<<v>> \o m) = 1 + Len(m)
  BY <1>1
<1>3. (<<v>> \o m)[1] = v
  BY <1>1
<1>4. <<v>> \o m # <<>>
  BY <1>1, <1>2
<1>5. QED
  BY <1>2, <1>3, <1>4, Zenon DEF VerChains

\* Timestamps are ordered.
LEMMA NoLater == \A a, b, c \in Nat : a <= b /\ b <= c => a <= c
  OBVIOUS

\* A key of the memtable has a version at the head of its chain.
LEMMA HeadIs ==
    ASSUME EngTypeOK
    PROVE  \A k \in MemKeys : k \in Keys /\ mem[k][1] \in Ver
<1> SUFFICES ASSUME NEW k \in MemKeys
             PROVE  k \in Keys /\ mem[k][1] \in Ver
  BY Zenon
<1>1. k \in Keys /\ mem[k] # <<>> /\ mem[k] \in Seq(Ver)
  BY Zenon DEF EngTypeOK, MemKeys, VerChains
<1> DEFINE m == mem[k]
<1>2. m # <<>> /\ m \in Seq(Ver)
  BY <1>1, Zenon
<1> HIDE DEF m
<1>3. m[1] \in Ver
  BY <1>2
<1>4. QED
  BY <1>1, <1>3, Zenon DEF m

\* A step that leaves the registry and the registered files alone leaves alone
\* what a scan reads in SSTs.
LEMMA FilesKept ==
    ASSUME UNCHANGED registry,
           \A s \in Registered : sstFiles'[registry[s]] = sstFiles[registry[s]]
    PROVE  /\ Registered' = Registered /\ Seen' = Seen
           /\ \A s \in Registered : RowsOf(s)' = RowsOf(s)
<1>1. Registered' = Registered
  BY Zenon DEF Registered
<1>2. \A s \in Registered : RowsOf(s)' = RowsOf(s)
  BY Zenon DEF RowsOf
<1>3. Seen' = Seen
  BY <1>1, <1>2, Zenon DEF Seen
<1>4. QED
  BY <1>1, <1>2, <1>3, Zenon

\* What a scan reads in SSTs are rows.
LEMMA RowsTyped ==
    ASSUME EngTypeOK, Filed
    PROVE  Seen \subseteq Rw /\ \A s \in Registered : RowsOf(s) \subseteq Rw
<1>1. ASSUME NEW s \in Registered
      PROVE  RowsOf(s) \subseteq Rw
  <2>1. PICK R \in SUBSET Rw : sstFiles[registry[s]] = {[rows |-> R]}
    BY Zenon DEF Filed
  <2>2. RowsOf(s) = R
    BY <2>1 DEF RowsOf
  <2>3. QED
    BY <2>2, Zenon
<1>2. QED
  BY <1>1, Zenon DEF Seen

\* A step of put_sync, delete_sync or put_batch_sync leaves flush, compaction
\* and the SSTs as they are.
LEMMA WriteFrame ==
    ASSUME EngInv, flush.st = "idle",
           UNCHANGED <<flushes, compactions, sstVars, flush, comp>>
    PROVE  /\ Filed' /\ Flushing' /\ Inputs' /\ Merging'
           /\ Registered' = Registered /\ Seen' = Seen
           /\ \A s \in Registered : RowsOf(s)' = RowsOf(s)
<1>1. /\ Registered' = Registered /\ Seen' = Seen
      /\ \A s \in Registered : RowsOf(s)' = RowsOf(s)
  BY FilesKept, Zenon DEF sstVars
<1>2. Filed'
  BY <1>1, Zenon DEF EngInv, Filed, sstVars
<1>3. Flushing'
  BY Zenon DEF Flushing
<1>4. Inputs'
  BY <1>1, Zenon DEF EngInv, Inputs, sstVars
<1>5. comp.st \in {"begun", "read"} => comp.ids \subseteq Registered /\ Merged' = Merged
  BY <1>1, Zenon DEF EngInv, Inputs, Merged
<1>6. Merging'
  BY <1>1, <1>5, Zenon DEF EngInv, Merging, Top
<1>7. QED
  BY <1>1, <1>2, <1>3, <1>4, <1>6, Zenon

\* The keys and rows of a memtable that does not change.
LEMMA MemKept ==
    ASSUME UNCHANGED mem
    PROVE  MemKeys' = MemKeys /\ MemRows' = MemRows
BY Zenon DEF MemKeys, MemRows

\* A step of a call that leaves the memtable, the index and the history alone.
LEMMA CallKeeps ==
    ASSUME EngInv, flush.st = "idle", EngTypeOK', Alone', NEW c \in WriteCalls,
           UNCHANGED <<flushes, compactions, sstVars, flush, comp, mem, art, latest>>,
           nextTs' >= nextTs,
           \A d \in WriteCalls \ {c} : wpc'[d] = wpc[d] /\ call'[d] = call[d],
           wpc[c] # "applied", wpc'[c] # "applied", CallOrdered(c)'
    PROVE  EngInv'
<1>1. /\ Filed' /\ Flushing' /\ Inputs' /\ Merging'
      /\ Registered' = Registered /\ Seen' = Seen
      /\ \A s \in Registered : RowsOf(s)' = RowsOf(s)
  BY WriteFrame, Zenon
<1>2. MemKeys' = MemKeys
  BY MemKept, Zenon
<1>3. nextTs \in Nat /\ nextTs' \in Nat
  BY Zenon DEF EngInv, EngTypeOK
<1>4. UNCHANGED mem /\ UNCHANGED art /\ UNCHANGED latest /\ UNCHANGED flush
  BY Zenon
<1>5. Ordered'
  <2>1. \A r \in Seen : r.ts \in Nat
    BY RowsTyped, Zenon DEF EngInv, Rw
  <2>2. \A k \in MemKeys : mem[k][1].ts \in Nat
    BY HeadIs, Zenon DEF EngInv, Ver
  <2>3. SeenOrdered'
    BY <1>1, <1>3, <2>1 DEF EngInv, Ordered, SeenOrdered
  <2>4. ASSUME NEW k \in MemKeys
        PROVE  KeyOrdered(k)'
    <3>1. KeyOrdered(k)
      BY Zenon DEF EngInv, Ordered
    <3>2. mem[k][1].ts < nextTs'
      BY <1>3, <2>2, <3>1 DEF KeyOrdered
    <3>3. QED
      BY <1>1, <1>4, <3>1, <3>2, Zenon DEF KeyOrdered
  <2>5. ASSUME NEW d \in WriteCalls \ {c}
        PROVE  CallOrdered(d)'
    <3>1. CallOrdered(d) /\ wpc'[d] = wpc[d] /\ call'[d] = call[d]
      BY Zenon DEF EngInv, Ordered
    <3>2. call[d].ts < nextTs => call[d].ts < nextTs'
      BY <1>3 DEF EngInv, EngTypeOK
    <3>3. QED
      BY <1>1, <1>2, <1>4, <3>1, <3>2, Zenon DEF CallOrdered
  <2>6. QED
    BY <1>2, <2>3, <2>4, <2>5, Zenon DEF Ordered
<1>6. \A k : Live(k)' = Live(k)
  BY <1>4, Zenon DEF Live
<1>7. Current'
  BY <1>1, <1>2, <1>4, <1>6, Zenon DEF EngInv, Current, KeyCurrent, Top
<1>8. Pointed'
  <2>1. \A d \in WriteCalls :
           /\ wpc'[d] = "applied" <=> wpc[d] = "applied"
           /\ wpc[d] = "applied" => call'[d] = call[d]
    BY Zenon
  <2>2. \A k, s, i, r : s \in Registered /\ PointsAt(k, s, i, r) => PointsAt(k, s, i, r)'
    BY <1>1, <1>4 DEF PointsAt, Top
  <2>3. ASSUME NEW k \in Keys
        PROVE  KeyPointed(k)'
    <3>1. KeyPointed(k)
      BY Zenon DEF EngInv, Pointed
    <3>2. QED
      BY <1>1, <1>2, <1>4, <1>6, <2>1, <2>2, <3>1, Zenon DEF KeyPointed
  <2>4. ASSUME NEW d \in WriteCalls
        PROVE  CallApplied(d)'
    <3>1. CallApplied(d)
      BY Zenon DEF EngInv, Pointed
    <3>2. QED
      BY <1>2, <1>4, <2>1, <3>1, Zenon DEF CallApplied, Live
  <2>5. QED
    BY <2>3, <2>4, Zenon DEF Pointed
<1>9. QED
  BY <1>1, <1>5, <1>7, <1>8, Zenon DEF EngInv

-----------------------------------------------------------------------------
(* put_sync, delete_sync, put_batch_sync                                   *)

\* A call starts when nothing writes its keys and no flush runs.
LEMMA StartsAlone ==
    ASSUME Undisturbed, NEW c, NEW S, CanStart(c, S)
    PROVE  wpc[c] = "idle" /\ flush.st = "idle" /\ \A k \in S : Settled(k)
BY Zenon DEF Undisturbed, CanStart, CallAt

\* Start of put_sync and delete_sync, which draws the timestamp, keeps the
\* invariant.
LEMMA StartKeeps ==
    ASSUME Undisturbed, EngInv, NEW c \in WriteCalls, NEW kind \in {"put", "del"}, NEW k \in Keys,
           Start(c, kind, k)
    PROVE  EngInv'
<1>1. wpc[c] = "idle" /\ flush.st = "idle" /\ Settled(k)
  BY StartsAlone, Zenon DEF Start
<1>2. UNCHANGED <<flushes, compactions, sstVars, flush, comp, mem, art, latest>>
  BY Zenon DEF Start, memVars, boundVars
<1>3. nextTs \in Nat /\ nextTs' \in Nat /\ nextTs' >= nextTs
  BY DEF Start, EngInv, EngTypeOK
<1>4. \A d \in WriteCalls \ {c} : wpc'[d] = wpc[d] /\ call'[d] = call[d]
  BY Zenon DEF Start, CallGoto, EngInv, EngTypeOK
<1>5. \/ wpc'[c] = "done"
      \/ /\ wpc'[c] = "started" /\ nextTs' = nextTs + 1
         /\ call'[c] = [kind |-> kind, key |-> k, ts |-> nextTs, mem |-> 0]
  BY Zenon DEF Start, CallGoto, EngInv, EngTypeOK
<1>6. EngTypeOK'
  <2>1. k \in 0 .. NKeys
    BY EngineConstants DEF Keys
  <2>2. call' \in [WriteCalls -> [kind : {"put", "del", "batch"}, key : 0 .. NKeys, ts : Nat,
                                  mem : Nat]]
    BY <2>1 DEF Start, EngInv, EngTypeOK
  <2>3. wpc' \in [WriteCalls -> {"idle", "started", "logged", "holding", "applied", "done"}]
    BY Zenon DEF Start, CallGoto, EngInv, EngTypeOK
  <2>4. QED
    BY <1>3, <2>2, <2>3, Zenon DEF Start, EngInv, EngTypeOK, memVars, sstVars, boundVars
<1>7. Alone'
  <2>1. UNCHANGED <<memNo, flush>>
    BY Zenon DEF Start, memVars
  <2>2. Alone
    BY Zenon DEF EngInv
  <2>3. \A d \in WriteCalls \ {c} : Pending(d)' <=> Pending(d)
    BY <1>4, Zenon DEF Pending
  <2>4. QED
    BY <1>1, <1>4, <1>5, <2>1, <2>2, <2>3 DEF Alone, Settled, Pending
<1>8. CallOrdered(c)'
  <2>1. CASE wpc'[c] = "done"
    BY <2>1, Zenon DEF CallOrdered
  <2>2. CASE wpc'[c] # "done"
    <3>1. call'[c].ts = nextTs /\ call'[c].key = k /\ nextTs' = nextTs + 1
      BY <1>5, <2>2
    <3>2. Seen' = Seen /\ MemKeys' = MemKeys
      BY <1>1, <1>2, WriteFrame, MemKept, Zenon
    <3>3. k \in MemKeys => mem[k][1].ts < nextTs
      BY Zenon DEF EngInv, Ordered, KeyOrdered
    <3>4. \A r \in Seen : r.ts < nextTs
      BY Zenon DEF EngInv, Ordered, SeenOrdered
    <3>5. nextTs < nextTs + 1
      BY <1>3
    <3>6. UNCHANGED mem
      BY <1>2, Zenon
    <3>7. QED
      BY <3>1, <3>2, <3>3, <3>4, <3>5, <3>6, Zenon DEF CallOrdered
  <2>3. QED
    BY <2>1, <2>2, Zenon
<1>9. wpc[c] # "applied" /\ wpc'[c] # "applied"
  BY <1>1, <1>5, Zenon
<1>10. QED
  BY <1>1, <1>2, <1>3, <1>4, <1>6, <1>7, <1>8, <1>9, CallKeeps, Zenon

\* Start of put_batch_sync keeps the invariant.
LEMMA StartBatchKeeps ==
    ASSUME Undisturbed, EngInv, NEW c \in WriteCalls, StartBatch(c)
    PROVE  EngInv'
<1>1. wpc[c] = "idle" /\ flush.st = "idle" /\ \A k \in Keys : Settled(k)
  BY StartsAlone, Zenon DEF StartBatch
<1>2. UNCHANGED <<flushes, compactions, sstVars, flush, comp, mem, art, latest>>
  BY Zenon DEF StartBatch, memVars, boundVars
<1>3. nextTs' >= nextTs
  BY DEF StartBatch, EngInv, EngTypeOK
<1>4. \A d \in WriteCalls \ {c} : wpc'[d] = wpc[d] /\ call'[d] = call[d]
  BY Zenon DEF StartBatch, CallGoto, EngInv, EngTypeOK
<1>5. wpc'[c] = "started" /\ call'[c].kind = "batch"
  BY Zenon DEF StartBatch, CallGoto, EngInv, EngTypeOK
<1>6. EngTypeOK'
  <2>1. 0 \in 0 .. NKeys
    BY EngineConstants
  <2>2. call' \in [WriteCalls -> [kind : {"put", "del", "batch"}, key : 0 .. NKeys, ts : Nat,
                                  mem : Nat]]
    BY <2>1, Zenon DEF StartBatch, EngInv, EngTypeOK
  <2>3. wpc' \in [WriteCalls -> {"idle", "started", "logged", "holding", "applied", "done"}]
    BY Zenon DEF StartBatch, CallGoto, EngInv, EngTypeOK
  <2>4. QED
    BY <1>3, <2>2, <2>3, Zenon DEF StartBatch, EngInv, EngTypeOK, memVars, sstVars, boundVars
<1>7. Alone'
  <2>1. UNCHANGED <<memNo, flush>>
    BY Zenon DEF StartBatch, memVars
  <2>2. Alone
    BY Zenon DEF EngInv
  <2>3. \A d \in WriteCalls \ {c} : Pending(d)' <=> Pending(d)
    BY <1>4, Zenon DEF Pending
  <2>4. Keys # {} => \A d \in WriteCalls : ~Pending(d)
    BY <1>1, <2>2, Zenon DEF Alone, Settled
  <2>5. QED
    BY <1>1, <1>4, <1>5, <2>1, <2>2, <2>3, <2>4, Zenon DEF Alone, Pending
<1>8. CallOrdered(c)'
  BY <1>5, Zenon DEF CallOrdered
<1>9. wpc[c] # "applied" /\ wpc'[c] # "applied"
  BY <1>1, <1>5, Zenon
<1>10. QED
  BY <1>1, <1>2, <1>3, <1>4, <1>6, <1>7, <1>8, <1>9, CallKeeps, Zenon

\* No flush runs beside a call that has begun.
LEMMA PendingAlone ==
    ASSUME EngInv, NEW c \in WriteCalls, wpc[c] \in {"started", "logged", "holding", "applied"}
    PROVE  flush.st = "idle" /\ Pending(c)
BY Zenon DEF EngInv, Alone, Pending

\* The appends to the WAL and the look at the active memtable.
LEMMA LogKeeps ==
    ASSUME EngInv, NEW c \in WriteCalls, Log(c) \/ LogFails(c) \/ TakeActive(c)
    PROVE  EngInv'
<1> DEFINE Kept == UNCHANGED <<alive, memVars, sstVars, nextTs, flush, comp, pins, latest,
                               flushes, compactions, crashes>>
<1>a. Kept /\ wpc[c] \in {"started", "logged"}
  BY Zenon DEF Log, LogFails, TakeActive, CallAt, boundVars
<1>b. PICK l \in {"logged", "holding", "done"} :
         /\ wpc' = [wpc EXCEPT ![c] = l]
         /\ call' = IF l = "holding" THEN [call EXCEPT ![c].mem = memNo] ELSE call
  <2>1. CASE Log(c)
    BY <2>1, Zenon DEF Log, CallGoto
  <2>2. CASE LogFails(c)
    BY <2>2, Zenon DEF LogFails, CallGoto
  <2>3. CASE TakeActive(c)
    BY <2>3, Zenon DEF TakeActive, CallGoto
  <2>4. QED
    BY <2>1, <2>2, <2>3, Zenon
<1>1. wpc[c] \in {"started", "logged"} /\ flush.st = "idle" /\ Pending(c)
  BY <1>a, PendingAlone, Zenon
<1>2. UNCHANGED <<flushes, compactions, sstVars, flush, comp, mem, art, latest>>
  BY <1>a, Zenon DEF memVars
<1>3. nextTs' = nextTs /\ nextTs' >= nextTs
  BY <1>a, <1>b DEF EngInv, EngTypeOK
<1>4. \A d \in WriteCalls \ {c} : wpc'[d] = wpc[d] /\ call'[d] = call[d]
  BY <1>a, <1>b, Zenon DEF EngInv, EngTypeOK
<1>5. /\ wpc'[c] \in {"logged", "holding", "done"}
      /\ call'[c].kind = call[c].kind /\ call'[c].key = call[c].key /\ call'[c].ts = call[c].ts
      /\ wpc'[c] = "holding" => call'[c].mem = memNo
  BY <1>a, <1>b DEF EngInv, EngTypeOK
<1>6. EngTypeOK'
  <2>1. call' \in [WriteCalls -> [kind : {"put", "del", "batch"}, key : 0 .. NKeys, ts : Nat,
                                  mem : Nat]]
    <3>1. /\ call \in [WriteCalls -> [kind : {"put", "del", "batch"}, key : 0 .. NKeys, ts : Nat,
                                      mem : Nat]]
          /\ memNo \in Nat
      BY Zenon DEF EngInv, EngTypeOK
    <3>2. CASE l = "holding"
      <4>1. call' = [call EXCEPT ![c].mem = memNo]
        BY <1>b, <3>2, Zenon
      <4>2. QED
        BY <3>1, <4>1
    <3>3. CASE l # "holding"
      BY <1>b, <3>1, <3>3, Zenon
    <3>4. QED
      BY <3>2, <3>3, Zenon
  <2>2. wpc' \in [WriteCalls -> {"idle", "started", "logged", "holding", "applied", "done"}]
    BY <1>a, <1>b, Zenon DEF EngInv, EngTypeOK
  <2>3. QED
    BY <1>a, <2>1, <2>2, Zenon DEF EngInv, EngTypeOK, memVars, sstVars
<1>7. Alone'
  <2>1. UNCHANGED <<memNo, flush>>
    BY <1>a, Zenon DEF memVars
  <2>2. Alone
    BY Zenon DEF EngInv
  <2>3. \A d \in WriteCalls \ {c} : Pending(d)' <=> Pending(d)
    BY <1>4, Zenon DEF Pending
  <2>4. QED
    BY <1>1, <1>4, <1>5, <2>1, <2>2, <2>3 DEF Alone, Pending
<1>8. CallOrdered(c)'
  <2>1. CallOrdered(c)
    BY Zenon DEF EngInv, Ordered
  <2>2. Seen' = Seen /\ MemKeys' = MemKeys /\ UNCHANGED mem
    BY <1>1, <1>2, WriteFrame, MemKept, Zenon
  <2>3. QED
    BY <1>1, <1>3, <1>5, <2>1, <2>2, Zenon DEF CallOrdered
<1>9. wpc[c] # "applied" /\ wpc'[c] # "applied"
  BY <1>1, <1>5, Zenon
<1>10. QED
  BY <1>1, <1>2, <1>3, <1>4, <1>6, <1>7, <1>8, <1>9, CallKeeps, Zenon

\* Memtable::put keeps the invariant: the write becomes the head of the chain.
LEMMA ApplyKeeps ==
    ASSUME EngInv, NEW c \in WriteCalls, Apply(c)
    PROVE  EngInv'
<1> DEFINE k == call[c].key
           d == call[c].kind = "del"
           v == Version(call[c].ts, c, d)
<1>1. wpc[c] = "holding" /\ call[c].kind # "batch" /\ call[c].mem = memNo
  BY Zenon DEF Apply, CallAt, EngInv, Alone, Pending
<1>2. flush.st = "idle" /\ Pending(c) /\ k \in Keys
  BY <1>1, PendingAlone, Zenon DEF EngInv, Alone
<1>3. UNCHANGED <<alive, memNo, art, sstVars, nextTs, call, flush, comp, flushes, compactions,
                  crashes>>
  BY Zenon DEF Apply, boundVars
<1>4. v \in Ver /\ v.ts = call[c].ts
  BY Zenon DEF Version, Ver, EngInv, EngTypeOK
<1>5. Write(v) = [by |-> c, del |-> d]
  BY Zenon DEF Version, Write
<1>6. mem \in [Keys -> VerChains] /\ call \in [WriteCalls -> [kind : {"put", "del", "batch"},
                                               key : 0 .. NKeys, ts : Nat, mem : Nat]]
  BY Zenon DEF EngInv, EngTypeOK
<1>7. mem' = [mem EXCEPT ![k] = <<v>> \o @]
  BY <1>1, Zenon DEF Apply, Prepend
<1>8. latest' = [latest EXCEPT ![k] = {Write(v)}]
  BY <1>5, Zenon DEF Apply
<1>9. wpc' = [wpc EXCEPT ![c] = "applied"]
  BY Zenon DEF Apply, CallGoto
<1>10. d \in BOOLEAN /\ [by |-> c, del |-> d] \in [by : WriteCalls, del : BOOLEAN]
  BY Zenon
<1>11. Write(v) \in [by : WriteCalls, del : BOOLEAN]
  BY <1>5, <1>10, Zenon
<1>12. latest' \in [Keys -> SUBSET [by : WriteCalls, del : BOOLEAN]]
  <2> DEFINE W == [by : WriteCalls, del : BOOLEAN]
             w == Write(v)
  <2>1. w \in W /\ latest \in [Keys -> SUBSET W] /\ latest' = [latest EXCEPT ![k] = {w}]
    BY <1>8, <1>11, Zenon DEF EngInv, EngTypeOK
  <2> HIDE DEF W, w
  <2>2. latest' \in [Keys -> SUBSET W]
    BY <2>1, Zenon
  <2>3. QED
    BY <2>2, Zenon DEF W
<1> HIDE DEF v, d
<1>13. mem[k] \in VerChains
  BY <1>2, <1>6, Zenon
<1>14. /\ mem' \in [Keys -> VerChains] /\ mem'[k] # <<>> /\ mem'[k][1] = v
       /\ \A j \in Keys \ {k} : mem'[j] = mem[j]
  <2> DEFINE m == <<v>> \o mem[k]
  <2>1. m \in VerChains /\ m # <<>> /\ m[1] = v
    BY <1>4, <1>13, Prefixed, Zenon
  <2>2. mem' = [mem EXCEPT ![k] = m]
    BY <1>7, Zenon
  <2> HIDE DEF m
  <2>3. QED
    BY <1>2, <1>6, <2>1, <2>2, Zenon
<1>15. MemKeys' = MemKeys \cup {k}
  BY <1>2, <1>14, Zenon DEF MemKeys
<1>16. /\ Filed' /\ Flushing' /\ Inputs' /\ Merging'
       /\ Registered' = Registered /\ Seen' = Seen
       /\ \A s \in Registered : RowsOf(s)' = RowsOf(s)
  BY <1>2, <1>3, WriteFrame, Zenon
<1>17. EngTypeOK'
  <2>1. wpc' \in [WriteCalls -> {"idle", "started", "logged", "holding", "applied", "done"}]
    BY <1>9, Zenon DEF EngInv, EngTypeOK
  <2>2. QED
    BY <1>3, <1>12, <1>14, <2>1, Zenon DEF EngInv, EngTypeOK, sstVars
<1>18. /\ wpc'[c] = "applied" /\ Pending(c)'
       /\ \A e \in WriteCalls \ {c} : wpc'[e] = wpc[e] /\ (Pending(e)' <=> Pending(e))
  BY <1>9, Zenon DEF EngInv, EngTypeOK, Pending
<1>19. \A e \in WriteCalls \ {c} : Pending(e) => call[e].kind # "batch" /\ call[e].key # k
  BY <1>2, Zenon DEF EngInv, Alone
<1>20. Alone'
  <2>1. Alone /\ UNCHANGED <<call, memNo, flush>>
    BY <1>3, Zenon DEF EngInv
  <2>2. QED
    BY <1>1, <1>2, <1>18, <2>1 DEF Alone
<1>21. Ordered'
  <2>1. SeenOrdered'
    BY <1>3, <1>16, Zenon DEF EngInv, Ordered, SeenOrdered
  <2>2. CallOrdered(c) /\ call[c].ts < nextTs /\ \A r \in Seen : r.key = k => r.ts < call[c].ts
    BY <1>1, Zenon DEF EngInv, Ordered, CallOrdered
  <2>3. ASSUME NEW j, j = k
        PROVE  KeyOrdered(j)'
    BY <1>3, <1>4, <1>14, <1>16, <2>2, <2>3, Zenon DEF KeyOrdered
  <2>4. ASSUME NEW j \in MemKeys \ {k}
        PROVE  KeyOrdered(j)'
    <3>1. mem'[j] = mem[j] /\ KeyOrdered(j)
      BY <1>14, Zenon DEF EngInv, Ordered, MemKeys
    <3>2. QED
      BY <1>3, <1>16, <3>1, Zenon DEF KeyOrdered
  <2>5. ASSUME NEW e \in WriteCalls
        PROVE  CallOrdered(e)'
    <3>1. CASE e = c
      BY <1>18, <3>1, Zenon DEF CallOrdered
    <3>2. CASE e # c
      <4>1. CallOrdered(e) /\ wpc'[e] = wpc[e] /\ UNCHANGED call /\ UNCHANGED nextTs
        BY <1>3, <1>18, <3>2, Zenon DEF EngInv, Ordered
      <4>2. wpc[e] \in {"started", "logged", "holding"} => call[e].key # k
        BY <1>19, <3>2, Zenon DEF Pending
      <4>3. \A j : j # k => (j \in MemKeys' <=> j \in MemKeys)
        BY <1>15, Zenon
      <4>4. \A j \in MemKeys : j # k => mem'[j] = mem[j]
        BY <1>14, Zenon DEF MemKeys
      <4>5. QED
        BY <1>16, <4>1, <4>2, <4>3, <4>4, Zenon DEF CallOrdered
    <3>3. QED
      BY <3>1, <3>2, Zenon
  <2>6. QED
    BY <1>15, <2>1, <2>3, <2>4, <2>5, Zenon DEF Ordered
<1>22. latest'[k] = {Write(v)} /\ \A j \in Keys \ {k} : latest'[j] = latest[j]
  <2> DEFINE w == Write(v)
  <2>1. latest' = [latest EXCEPT ![k] = {w}]
    BY <1>8, Zenon
  <2> HIDE DEF w
  <2>2. latest'[k] = {w} /\ \A j \in Keys \ {k} : latest'[j] = latest[j]
    BY <1>2, <2>1, Zenon DEF EngInv, EngTypeOK
  <2>3. QED
    BY <2>2, Zenon DEF w
<1>23. \A j \in Keys \ {k} : Live(j)' = Live(j)
  BY <1>22, Zenon DEF Live
<1>24. Current'
  <2>1. ASSUME NEW j \in Keys
        PROVE  KeyCurrent(j)'
    <3>1. CASE j = k
      BY <1>2, <1>3, <1>14, <1>15, <1>22, <3>1, Zenon DEF KeyCurrent
    <3>2. CASE j # k
      <4>1. KeyCurrent(j) /\ mem'[j] = mem[j] /\ latest'[j] = latest[j] /\ UNCHANGED flush
        BY <1>3, <1>14, <1>22, <3>2, Zenon DEF EngInv, Current
      <4>2. (j \in MemKeys' <=> j \in MemKeys) /\ Live(j)' = Live(j)
        BY <1>15, <1>23, <3>2, Zenon
      <4>3. QED
        BY <1>16, <4>1, <4>2, Zenon DEF KeyCurrent, Top
    <3>3. QED
      BY <3>1, <3>2, Zenon
  <2>2. QED
    BY <2>1, Zenon DEF Current
<1>25. Pointed'
  <2>1. ASSUME NEW j \in Keys
        PROVE  KeyPointed(j)'
    <3>1. CASE j = k
      BY <1>3, <1>18, <3>1, Zenon DEF KeyPointed
    <3>2. CASE j # k
      <4>1. KeyPointed(j) /\ latest'[j] = latest[j] /\ UNCHANGED <<flush, art, call>>
        BY <1>3, <1>22, <3>2, Zenon DEF EngInv, Pointed
      <4>2. (j \in MemKeys' <=> j \in MemKeys) /\ Live(j)' = Live(j)
        BY <1>15, <1>23, <3>2, Zenon
      <4>3. \A e \in WriteCalls : wpc[e] = "applied" => wpc'[e] = "applied"
        BY <1>18, Zenon
      <4>4. \A s, i, r : s \in Registered /\ PointsAt(j, s, i, r) => PointsAt(j, s, i, r)'
        BY <1>16, <4>1, Zenon DEF PointsAt, Top
      <4>5. QED
        BY <1>16, <4>1, <4>2, <4>3, <4>4, Zenon DEF KeyPointed
    <3>3. QED
      BY <3>1, <3>2, Zenon
  <2>2. ASSUME NEW e \in WriteCalls
        PROVE  CallApplied(e)'
    <3>1. CASE e = c
      <4>1. Write(v).del = d
        BY <1>5
      <4>2. call[c].kind = "del" => Live(k)' = {}
        BY <1>3, <1>22, <4>1, Zenon DEF Live, d
      <4>3. QED
        BY <1>3, <1>15, <3>1, <4>2, Zenon DEF CallApplied
    <3>2. CASE e # c
      <4>1. CallApplied(e) /\ wpc'[e] = wpc[e] /\ UNCHANGED call
        BY <1>3, <1>18, <3>2, Zenon DEF EngInv, Pointed
      <4>2. wpc[e] = "applied" => call[e].key # k
        BY <1>19, <3>2, Zenon DEF Pending
      <4>3. wpc[e] = "applied" => call[e].key \in MemKeys /\ call[e].key \in Keys
        BY <4>1, Zenon DEF CallApplied, MemKeys
      <4>4. wpc[e] = "applied" => Live(call[e].key)' = Live(call[e].key)
        BY <1>22, <4>1, <4>2, <4>3, Zenon DEF Live
      <4>5. QED
        BY <1>15, <4>1, <4>4, Zenon DEF CallApplied
    <3>3. QED
      BY <3>1, <3>2, Zenon
  <2>3. QED
    BY <2>1, <2>2, Zenon DEF Pointed
<1>26. QED
  BY <1>16, <1>17, <1>20, <1>21, <1>24, <1>25, Zenon DEF EngInv

\* The index entry that put_sync and delete_sync write last keeps the
\* invariant.
LEMMA IndexKeeps ==
    ASSUME EngInv, NEW c \in WriteCalls, Index(c)
    PROVE  EngInv'
<1> DEFINE k == call[c].key
<1>1. wpc[c] = "applied" /\ flush.st = "idle" /\ Pending(c)
  BY PendingAlone, Zenon DEF Index, CallAt
<1>2. call[c].kind # "batch" /\ k \in Keys /\ k \in MemKeys
      /\ (call[c].kind = "del" => Live(k) = {})
  BY <1>1, Zenon DEF EngInv, Alone, Pointed, CallApplied
<1>3. UNCHANGED <<alive, mem, memNo, sstVars, nextTs, call, flush, comp, latest, flushes,
                  compactions, crashes>>
  BY Zenon DEF Index, boundVars
<1>4. /\ wpc'[c] = "done"
      /\ \A e \in WriteCalls \ {c} : wpc'[e] = wpc[e] /\ (Pending(e)' <=> Pending(e))
  BY Zenon DEF Index, CallGoto, Pending, EngInv, EngTypeOK
<1>5. /\ art'[k] = IF call[c].kind = "del" THEN None ELSE InMemtable
      /\ \A j \in Keys \ {k} : art'[j] = art[j]
  BY <1>2, Zenon DEF Index, EngInv, EngTypeOK
<1>6. /\ Filed' /\ Flushing' /\ Inputs' /\ Merging'
      /\ Registered' = Registered /\ Seen' = Seen
      /\ \A s \in Registered : RowsOf(s)' = RowsOf(s)
  BY <1>1, <1>3, WriteFrame, Zenon
<1>7. MemKeys' = MemKeys
  BY <1>3, MemKept, Zenon
<1>8. EngTypeOK'
  <2>1. wpc' \in [WriteCalls -> {"idle", "started", "logged", "holding", "applied", "done"}]
    BY Zenon DEF Index, CallGoto, EngInv, EngTypeOK
  <2>2. None \in Locations /\ InMemtable \in Locations
    BY DEF Locations
  <2>3. PICK x \in Locations : art' = [art EXCEPT ![k] = x]
    BY <2>2, Zenon DEF Index
  <2>4. art' \in [Keys -> Locations]
    BY <2>3, Zenon DEF EngInv, EngTypeOK
  <2>5. QED
    BY <1>3, <2>1, <2>4, Zenon DEF EngInv, EngTypeOK, sstVars
<1>9. Alone'
  <2>1. Alone /\ UNCHANGED <<call, memNo, flush>>
    BY <1>3, Zenon DEF EngInv
  <2>2. ~Pending(c)'
    BY <1>4, Zenon DEF Pending
  <2>3. QED
    BY <1>4, <2>1, <2>2 DEF Alone
<1>10. Ordered'
  <2>1. UNCHANGED <<mem, nextTs, call, flush>> /\ Ordered
    BY <1>3, Zenon DEF EngInv
  <2>2. \A e \in WriteCalls : CallOrdered(e)'
    BY <1>4, <1>6, <1>7, <2>1, Zenon DEF Ordered, CallOrdered
  <2>3. \A j \in MemKeys : KeyOrdered(j)'
    BY <1>6, <2>1, Zenon DEF Ordered, KeyOrdered
  <2>4. SeenOrdered'
    BY <1>6, <2>1, Zenon DEF Ordered, SeenOrdered
  <2>5. QED
    BY <1>7, <2>2, <2>3, <2>4, Zenon DEF Ordered
<1>11. UNCHANGED <<latest, flush, mem, call>> /\ \A j : Live(j)' = Live(j)
  BY <1>3, Zenon DEF Live
<1>12. Current'
  BY <1>6, <1>7, <1>11, Zenon DEF EngInv, Current, KeyCurrent, Top
<1>13. Pointed'
  <2>1. ASSUME NEW j \in Keys
        PROVE  KeyPointed(j)'
    <3>1. CASE j = k
      <4>1. Live(k) # {} => art'[k] = InMemtable
        BY <1>2, <1>5, Zenon
      <4>2. flush.st # "installed"
        BY <1>1, Zenon
      <4>3. QED
        BY <1>2, <1>7, <1>11, <3>1, <4>1, <4>2, Zenon DEF KeyPointed
    <3>2. CASE j # k
      <4>1. KeyPointed(j) /\ art'[j] = art[j]
        BY <1>5, <3>2, Zenon DEF EngInv, Pointed
      <4>2. \A e \in WriteCalls : wpc[e] = "applied" => wpc'[e] = "applied" \/ call[e].key # j
        BY <1>4, <3>2, Zenon
      <4>3. \A s, i, r : s \in Registered /\ PointsAt(j, s, i, r) => PointsAt(j, s, i, r)'
        BY <1>6, <1>11, <4>1, Zenon DEF PointsAt, Top
      <4>4. QED
        BY <1>6, <1>7, <1>11, <4>1, <4>2, <4>3, Zenon DEF KeyPointed
    <3>3. QED
      BY <3>1, <3>2, Zenon
  <2>2. ASSUME NEW e \in WriteCalls
        PROVE  CallApplied(e)'
    <3>1. CallApplied(e)
      BY Zenon DEF EngInv, Pointed
    <3>2. wpc'[e] = "applied" => wpc[e] = "applied"
      BY <1>4, Zenon
    <3>3. QED
      BY <1>7, <1>11, <3>1, <3>2, Zenon DEF CallApplied, Live
  <2>3. QED
    BY <2>1, <2>2, Zenon DEF Pointed
<1>14. QED
  BY <1>6, <1>8, <1>9, <1>10, <1>12, <1>13, Zenon DEF EngInv

\* The loop of put_batch_sync keeps the invariant.
LEMMA ApplyBatchKeeps ==
    ASSUME EngInv, NEW c \in WriteCalls, ApplyBatch(c)
    PROVE  EngInv'
<1> DEFINE v(k) == Version(nextTs + k - 1, c, FALSE)
           w == [by |-> c, del |-> FALSE]
<1>1. wpc[c] = "holding" /\ call[c].kind = "batch" /\ call[c].mem = memNo
  BY Zenon DEF ApplyBatch, CallAt, EngInv, Alone, Pending
<1>2. flush.st = "idle" /\ Pending(c)
  BY <1>1, PendingAlone, Zenon
<1>3. UNCHANGED <<alive, memNo, sstVars, call, flush, comp, flushes, compactions, crashes>>
  BY Zenon DEF ApplyBatch, boundVars
<1>4. nextTs \in Nat /\ NKeys \in Nat /\ Keys = 1 .. NKeys /\ nextTs' = nextTs + NKeys
  BY EngineConstants, Zenon DEF ApplyBatch, Keys, EngInv, EngTypeOK
<1>5. \A k \in Keys : v(k) \in Ver /\ v(k).ts = nextTs + k - 1 /\ Write(v(k)) = w
  BY <1>4 DEF Version, Ver, Write
<1>6. w \in [by : WriteCalls, del : BOOLEAN] /\ ~w.del
  BY Zenon
<1>7. mem \in [Keys -> VerChains]
  BY Zenon DEF EngInv, EngTypeOK
<1>8. mem' = [k \in Keys |-> <<v(k)>> \o mem[k]]
  BY <1>1, Zenon DEF ApplyBatch
<1>9. latest' = [k \in Keys |-> {w}] /\ art' = [k \in Keys |-> InMemtable]
  BY Zenon DEF ApplyBatch
<1> HIDE DEF v, w
<1>10. ASSUME NEW k \in Keys
       PROVE  mem'[k] \in VerChains /\ mem'[k] # <<>> /\ mem'[k][1] = v(k)
  <2>1. mem[k] \in VerChains /\ v(k) \in Ver
    BY <1>5, <1>7, Zenon
  <2>2. <<v(k)>> \o mem[k] \in VerChains /\ <<v(k)>> \o mem[k] # <<>>
        /\ (<<v(k)>> \o mem[k])[1] = v(k)
    BY <2>1, Prefixed, Zenon
  <2>3. mem'[k] = <<v(k)>> \o mem[k]
    BY <1>8, Zenon
  <2>4. QED
    BY <2>2, <2>3, Zenon
<1>11. MemKeys' = Keys
  BY <1>10, Zenon DEF MemKeys
<1>12. /\ Filed' /\ Flushing' /\ Inputs' /\ Merging'
       /\ Registered' = Registered /\ Seen' = Seen
       /\ \A s \in Registered : RowsOf(s)' = RowsOf(s)
  BY <1>2, <1>3, WriteFrame, Zenon
<1>13. /\ wpc'[c] = "done" /\ ~Pending(c)'
       /\ \A e \in WriteCalls \ {c} : wpc'[e] = wpc[e] /\ (Pending(e)' <=> Pending(e))
  BY Zenon DEF ApplyBatch, CallGoto, Pending, EngInv, EngTypeOK
<1>14. EngTypeOK'
  <2>1. wpc' \in [WriteCalls -> {"idle", "started", "logged", "holding", "applied", "done"}]
    BY Zenon DEF ApplyBatch, CallGoto, EngInv, EngTypeOK
  <2>2. InMemtable \in Locations
    BY DEF Locations
  <2>3. art' \in [Keys -> Locations]
    BY <1>9, <2>2, Zenon
  <2>4. latest' \in [Keys -> SUBSET [by : WriteCalls, del : BOOLEAN]]
    BY <1>6, <1>9, Zenon
  <2>5. mem' \in [Keys -> VerChains]
    <3>1. \A k \in Keys : <<v(k)>> \o mem[k] \in VerChains
      BY <1>8, <1>10, Zenon
    <3>2. QED
      BY <1>8, <3>1, Zenon
  <2>6. nextTs' \in Nat
    BY <1>4
  <2>7. QED
    BY <1>3, <2>1, <2>3, <2>4, <2>5, <2>6, Zenon DEF EngInv, EngTypeOK, sstVars
<1>15. Alone'
  <2>1. Alone /\ UNCHANGED <<call, memNo, flush>>
    BY <1>3, Zenon DEF EngInv
  <2>2. QED
    BY <1>13, <2>1 DEF Alone
<1>16. \A e \in WriteCalls : ~Pending(e)' \/ call[e].kind = "batch"
  BY <1>1, <1>2, <1>13, Zenon DEF EngInv, Alone
<1>17. \A r \in Seen : r.ts \in Nat /\ r.ts < nextTs
  BY RowsTyped, Zenon DEF EngInv, Rw, Ordered, SeenOrdered
<1>18. Ordered'
  <2>1. SeenOrdered'
    BY <1>4, <1>12, <1>17 DEF EngInv, Ordered, SeenOrdered
  <2>2. ASSUME NEW k \in Keys
        PROVE  KeyOrdered(k)'
    <3>1. mem'[k][1].ts = nextTs + k - 1
      BY <1>5, <1>10, Zenon DEF v
    <3>2. QED
      BY <1>4, <1>12, <1>17, <3>1 DEF KeyOrdered
  <2>3. \A e \in WriteCalls : CallOrdered(e)'
    BY <1>3, <1>16, Zenon DEF CallOrdered, Pending
  <2>4. QED
    BY <1>11, <2>1, <2>2, <2>3, Zenon DEF Ordered
<1>19. Current'
  <2>1. \A k \in Keys : Write(v(k)) = w /\ latest'[k] = {w} /\ mem'[k][1] = v(k)
    BY <1>5, <1>9, <1>10, Zenon DEF v, w
  <2>2. flush'.st # "installed"
    BY <1>2, <1>3, Zenon
  <2>3. QED
    BY <1>11, <2>1, <2>2, Zenon DEF Current, KeyCurrent
<1>20. Pointed'
  <2>1. \A k \in Keys : art'[k] = InMemtable
    BY <1>9, Zenon
  <2>2. flush'.st # "installed"
    BY <1>2, <1>3, Zenon
  <2>3. \A e \in WriteCalls : wpc'[e] # "applied"
    <3>1. ASSUME NEW e \in WriteCalls, wpc'[e] = "applied"
          PROVE  FALSE
      <4>1. Pending(e)'
        BY <3>1, Zenon DEF Pending
      <4>2. Pending(e) /\ wpc[e] = "applied"
        BY <1>13, <3>1, <4>1, Zenon
      <4>3. call[e].kind # "batch"
        BY <4>2, Zenon DEF EngInv, Alone
      <4>4. QED
        BY <1>16, <4>1, <4>3, Zenon
    <3>2. QED
      BY <3>1, Zenon
  <2>4. QED
    BY <1>11, <2>1, <2>2, <2>3, Zenon DEF Pointed, KeyPointed, CallApplied
<1>21. QED
  BY <1>12, <1>14, <1>15, <1>18, <1>19, <1>20, Zenon DEF EngInv

-----------------------------------------------------------------------------
(* The first state, and what the invariant says of readers                 *)

\* A new engine has the invariant.
LEMMA EngStarts ==
    ASSUME EngInit
    PROVE  EngInv
<1>1. Registered = {} /\ Seen = {} /\ MemKeys = {}
  BY Zenon DEF EngInit, Registered, Seen, MemKeys
<1>2. EngTypeOK
  <2>1. <<>> \in VerChains /\ None \in Locations
    BY DEF VerChains, Locations
  <2>2. mem \in [Keys -> VerChains] /\ art \in [Keys -> Locations]
    BY <2>1, Zenon DEF EngInit
  <2>3. 0 \in 0 .. NKeys /\ 0 \in 0 .. MaxFlushes /\ 0 \in 0 .. MaxCompactions
    BY EngineConstants
  <2>4. flush \in [st : {"idle", "begun", "written", "installed"}, keys : SUBSET Keys,
                   sst : Nat, file : Nat]
    BY Zenon DEF EngInit, NoFlush
  <2>5. comp \in [st : {"idle", "begun", "read", "unlinking"}, ids : SUBSET Ids,
                  paths : SUBSET Files, rows : SUBSET Rw, tops : SUBSET Rw]
    BY Zenon DEF EngInit, NoComp
  <2>6. call \in [WriteCalls -> [kind : {"put", "del", "batch"}, key : 0 .. NKeys, ts : Nat,
                                 mem : Nat]]
    BY <2>3, Zenon DEF EngInit, NoCall
  <2>7. QED
    BY <2>2, <2>3, <2>4, <2>5, <2>6 DEF EngInit, EngTypeOK
<1>3. Alone
  BY Zenon DEF EngInit, Alone, Pending
<1>4. flush.st = "idle" /\ comp.st = "idle"
  BY Zenon DEF EngInit, NoFlush, NoComp
<1>5. Filed
  BY <1>1, <1>4 DEF EngInit, Filed
<1>6. Flushing /\ Inputs /\ Merging
  BY <1>4, Zenon DEF EngInit, NoComp, Flushing, Inputs, Merging
<1>7. Ordered
  BY <1>1, Zenon DEF EngInit, Ordered, SeenOrdered, CallOrdered
<1>8. \A k \in Keys : Live(k) = {}
  BY Zenon DEF EngInit, Live
<1>9. Current
  BY <1>1, <1>8, Zenon DEF Current, KeyCurrent
<1>10. Pointed
  BY <1>8, Zenon DEF EngInit, Pointed, KeyPointed, CallApplied
<1>11. QED
  BY <1>2, <1>3, <1>5, <1>6, <1>7, <1>9, <1>10, Zenon DEF EngInv

\* In a state of the invariant, get and the scans find the last write to every
\* key that no call is writing.
LEMMA InvReads ==
    ASSUME EngInv
    PROVE  ReadsLatest
<1> SUFFICES ASSUME NEW k \in Keys, Settled(k)
             PROVE  /\ Writes(ScanRows(k)) = Live(k)
                    /\ Live(k) # {} => Writes(GetRows(k)) = Live(k)
  BY Zenon DEF ReadsLatest, ScanLatest
<1> DEFINE m == mem[k][1]
           w == Row(k, m)
<1>1. KeyCurrent(k) /\ KeyPointed(k)
  BY Zenon DEF EngInv, Current, Pointed
<1>2. \A c \in WriteCalls : wpc[c] = "applied" => call[c].key # k
  BY Zenon DEF Settled, Pending
<1>3. \A r \in Seen : r.ts \in Nat
  BY RowsTyped, Zenon DEF EngInv, Rw
<1>4. SstRows(k) = {r \in Seen : r.key = k}
  BY Zenon DEF SstRows, Seen
<1>5. k \in MemKeys => Write(w) = Write(m) /\ w.key = k /\ (w.del = m.del)
  BY HeadIs, Zenon DEF EngInv, Row, Write, Ver
<1>6. \A x, r : latest[k] = {Write(r)} => Writes({y \in {r} : ~y.del}) = Live(k)
  <2>1. SUFFICES ASSUME NEW r, latest[k] = {Write(r)}
                 PROVE  Writes({y \in {r} : ~y.del}) = Live(k)
    BY Zenon
  <2>2. Write(r).del = r.del
    BY Zenon DEF Write
  <2>3. QED
    BY <2>1, <2>2, Zenon DEF Writes, Live, Write
<1>7. ASSUME NEW r \in Seen, r.key = k, Top(Seen, r), latest[k] = {Write(r)}
      PROVE  {q \in SstRows(k) : \A x \in SstRows(k) : x.ts <= q.ts} = {r}
  <2>1. \A q \in Seen : q.key = k /\ r.ts <= q.ts => q = r
    <3>1. \A q \in Seen : q.key = k /\ r.ts <= q.ts => q.ts = r.ts
      BY <1>3, <1>7 DEF Top
    <3>2. QED
      BY <1>7, <3>1, Zenon DEF EngInv, Ordered, SeenOrdered
  <2>2. QED
    BY <1>4, <1>7, <2>1, Zenon DEF Top
<1>8. Writes(ScanRows(k)) = Live(k)
  <2>1. CASE k \in MemKeys
    <3>1. latest[k] = {Write(w)}
      BY <1>1, <1>5, <2>1, Zenon DEF KeyCurrent
    <3>2. ScanRows(k) = {y \in {w} : ~y.del}
      BY <2>1, Zenon DEF ScanRows
    <3>3. QED
      BY <1>6, <3>1, <3>2, Zenon
  <2>2. CASE k \notin MemKeys /\ \E r \in Seen : r.key = k /\ Top(Seen, r) /\ latest[k] = {Write(r)}
    <3>1. PICK r \in Seen : r.key = k /\ Top(Seen, r) /\ latest[k] = {Write(r)}
      BY <2>2, Zenon
    <3>2. ScanRows(k) = {y \in {r} : ~y.del}
      BY <1>7, <2>2, <3>1, Zenon DEF ScanRows
    <3>3. QED
      BY <1>6, <3>1, <3>2, Zenon
  <2>3. CASE k \notin MemKeys /\ (\A r \in Seen : r.key # k) /\ Live(k) = {}
    <3>1. SstRows(k) = {}
      BY <1>4, <2>3, Zenon
    <3>2. ScanRows(k) = {}
      BY <2>3, <3>1, Zenon DEF ScanRows
    <3>3. QED
      BY <2>3, <3>2, Zenon DEF Writes
  <2>4. QED
    BY <1>1, <2>1, <2>2, <2>3, Zenon DEF KeyCurrent
<1>9. ASSUME Live(k) # {}
      PROVE  Writes(GetRows(k)) = Live(k)
  <2>1. CASE k \in MemKeys /\ flush.st # "installed"
    <3>1. art[k] = InMemtable
      BY <1>1, <1>2, <1>9, <2>1, Zenon DEF KeyPointed
    <3>2. art[k].kind = "mem"
      BY <3>1 DEF InMemtable
    <3>3. \A j \in MemKeys : Row(j, mem[j][1]).key = j
      BY Zenon DEF Row
    <3>4. {r \in MemRows : r.key = k /\ ~r.del} = {y \in {w} : ~y.del}
      <4>1. \A r : r \in MemRows <=> \E j \in MemKeys : r = Row(j, mem[j][1])
        BY Zenon DEF MemRows
      <4>2. w \in MemRows /\ w.key = k
        BY <2>1, <3>3, <4>1, Zenon
      <4>3. ASSUME NEW r \in MemRows, r.key = k
            PROVE  r = w
        <5>1. PICK j \in MemKeys : r = Row(j, mem[j][1])
          BY <4>1, Zenon
        <5>2. j = k
          BY <3>3, <4>3, <5>1, Zenon
        <5>3. QED
          BY <5>1, <5>2, Zenon
      <4> HIDE DEF w
      <4>4. QED
        BY <4>2, <4>3, Zenon
    <3>5. GetRows(k) = {y \in {w} : ~y.del}
      BY <3>2, <3>4, Zenon DEF GetRows
    <3>6. latest[k] = {Write(w)}
      BY <1>1, <1>5, <2>1, Zenon DEF KeyCurrent
    <3>7. QED
      BY <1>6, <3>5, <3>6, Zenon
  <2>2. CASE ~(k \in MemKeys /\ flush.st # "installed")
    <3>1. PICK s \in Registered, i \in Nat, r \in Rw : PointsAt(k, s, i, r)
      BY <1>1, <1>2, <1>9, <2>2, Zenon DEF KeyPointed
    <3>2. art[k].kind = "sst" /\ art[k].sst = s /\ art[k].row = i
      BY <3>1 DEF PointsAt, InSst
    <3>3. RowAt(RowsOf(s), i) = {r} /\ latest[k] = {Write(r)}
      BY <3>1, Zenon DEF PointsAt
    <3>4. GetRows(k) = {r}
      <4>1. art[k].kind # "none" /\ art[k].kind # "mem"
        BY <3>2, Zenon
      <4>2. QED
        BY <3>2, <3>3, <4>1, Zenon DEF GetRows
    <3>5. ~r.del
      <4>1. PICK x \in latest[k] : ~x.del
        BY <1>9, Zenon DEF Live
      <4>2. x = Write(r)
        BY <3>3, <4>1, Zenon
      <4>3. Write(r).del = r.del
        BY Zenon DEF Write
      <4>4. QED
        BY <4>1, <4>2, <4>3, Zenon
    <3>6. {y \in {r} : ~y.del} = {r}
      BY <3>5, Zenon
    <3>7. QED
      BY <1>6, <3>3, <3>4, <3>6, Zenon
  <2>3. QED
    BY <2>1, <2>2, Zenon
<1>10. QED
  BY <1>8, <1>9, Zenon

-----------------------------------------------------------------------------
(* flush_memtable                                                          *)

\* While a flush runs no call writes, and while a call writes no flush runs.
LEMMA Quiet ==
    ASSUME EngInv, flush.st # "idle"
    PROVE  \A c \in WriteCalls : wpc[c] \in {"idle", "done"}
BY Zenon DEF EngInv, EngTypeOK, Alone, Pending

\* What a step leaves alone when it changes neither what readers see nor the
\* memtable, the index and the calls.
LEMMA ViewKept ==
    ASSUME EngInv, Registered' = Registered, Seen' = Seen,
           \A s \in Registered : RowsOf(s)' = RowsOf(s),
           UNCHANGED <<mem, art, latest, wpc, call, nextTs>>,
           flush.st = "installed" <=> flush'.st = "installed"
    PROVE  MemKeys' = MemKeys /\ MemRows' = MemRows /\ Ordered' /\ Current' /\ Pointed'
<1>1. MemKeys' = MemKeys /\ MemRows' = MemRows
  BY MemKept, Zenon
<1>2. UNCHANGED mem /\ UNCHANGED wpc /\ UNCHANGED call /\ UNCHANGED nextTs
      /\ UNCHANGED art /\ UNCHANGED latest
  BY Zenon
<1>3. Ordered'
  <2>1. SeenOrdered /\ (\A k \in MemKeys : KeyOrdered(k)) /\ (\A c \in WriteCalls : CallOrdered(c))
    BY Zenon DEF EngInv, Ordered
  <2>2. SeenOrdered'
    BY <1>2, <2>1, Zenon DEF SeenOrdered
  <2>3. \A k \in MemKeys : KeyOrdered(k)'
    BY <1>2, <2>1, Zenon DEF KeyOrdered
  <2>4. \A c \in WriteCalls : CallOrdered(c)'
    BY <1>1, <1>2, <2>1, Zenon DEF CallOrdered
  <2>5. QED
    BY <1>1, <2>2, <2>3, <2>4, Zenon DEF Ordered
<1>4. \A k : Live(k)' = Live(k)
  BY <1>2, Zenon DEF Live
<1>5. Current'
  BY <1>1, <1>2, <1>4, Zenon DEF EngInv, Current, KeyCurrent, Top
<1>6. Pointed'
  <2>1. \A k, s, i, r : s \in Registered /\ PointsAt(k, s, i, r) => PointsAt(k, s, i, r)'
    BY <1>2 DEF PointsAt, Top
  <2>2. \A k \in Keys : KeyPointed(k)'
    BY <1>1, <1>2, <1>4, <2>1, Zenon DEF EngInv, Pointed, KeyPointed
  <2>3. \A c \in WriteCalls : CallApplied(c)'
    BY <1>1, <1>2, Zenon DEF EngInv, Pointed, CallApplied, Live
  <2>4. QED
    BY <2>2, <2>3, Zenon DEF Pointed
<1>7. QED
  BY <1>1, <1>3, <1>5, <1>6, Zenon

\* The inputs of a compaction do not change in a step that leaves them and the
\* registered SSTs alone.
LEMMA MergedKept ==
    ASSUME EngInv, Registered' = Registered,
           \A s \in Registered : RowsOf(s)' = RowsOf(s), UNCHANGED comp
    PROVE  Merging'
<1>1. comp.st \in {"begun", "read"} => comp.ids \subseteq Registered /\ Merged' = Merged
  BY Zenon DEF EngInv, Inputs, Merged
<1>2. QED
  BY <1>1, Zenon DEF EngInv, Merging, Top

\* The files that a compaction reads or removes are behind the counter.
LEMMA PathsBelow ==
    ASSUME EngInv
    PROVE  comp.paths \subseteq {g \in Files : g < nextBlock}
BY DEF EngInv, EngTypeOK, Inputs, Filed

\* flush_memtable lists the keys and draws the SST id: the invariant is kept.
LEMMA FlushBeginKeeps ==
    ASSUME Undisturbed, EngInv, FlushBegin
    PROVE  EngInv'
<1>1. /\ flush.st = "idle" /\ flushes < MaxFlushes /\ MemKeys # {}
      /\ flushes' = flushes + 1 /\ nextSst' = nextSst + 1
      /\ flush' = [st |-> "begun", keys |-> MemKeys, sst |-> nextSst, file |-> 0]
      /\ UNCHANGED <<alive, memVars, sstFiles, registry, nextBlock, nextTs, callVars, comp,
                     latest, compactions, crashes>>
  BY Zenon DEF FlushBegin
<1>2. \A c \in WriteCalls : ~Pending(c)
  BY Zenon DEF FlushBegin, Undisturbed
<1>3. /\ Registered' = Registered /\ Seen' = Seen
      /\ \A s \in Registered : RowsOf(s)' = RowsOf(s)
  BY <1>1, FilesKept, Zenon
<1>4. MemKeys' = MemKeys /\ MemRows' = MemRows /\ Ordered' /\ Current' /\ Pointed'
  <2>1. UNCHANGED <<mem, art, latest, wpc, call, nextTs>>
    BY <1>1, Zenon DEF memVars, callVars
  <2>2. flush.st # "installed" /\ flush'.st # "installed"
    BY <1>1, Zenon
  <2>3. QED
    BY <1>3, <2>1, <2>2, ViewKept, Zenon
<1>5. MemKeys \subseteq Keys /\ nextSst \in Nat \ {0} /\ flushes \in 0 .. MaxFlushes
      /\ compactions \in 0 .. MaxCompactions /\ nextBlock \in Nat
  BY Zenon DEF MemKeys, EngInv, EngTypeOK
<1>6. EngTypeOK'
  <2>1. flush' \in [st : {"idle", "begun", "written", "installed"}, keys : SUBSET Keys,
                    sst : Nat, file : Nat]
    BY <1>1, <1>5, Zenon
  <2>2. flushes' \in 0 .. MaxFlushes /\ nextSst' \in Nat \ {0}
    BY <1>1, <1>5, EngineConstants
  <2>3. QED
    BY <1>1, <2>1, <2>2, Zenon DEF EngInv, EngTypeOK, memVars, callVars
<1>7. flush'.st = "begun" /\ flush'.keys = MemKeys /\ flush'.sst = nextSst
  BY <1>1, Zenon
<1>8. Filed
  BY Zenon DEF EngInv
<1>9. Filed'
  <2>1. \A s \in Registered : s \in Nat
    BY DEF Registered, Ids
  <2>2. nextBlock' + 2 + (IF comp'.st \in {"begun", "read"} THEN 1 ELSE 0)
           <= 1 + 2 * flushes' + compactions'
    BY <1>1, <1>5, <1>8 DEF Filed
  <2>3. nextSst' + (IF comp'.st \in {"begun", "read"} THEN 1 ELSE 0)
           <= 1 + flushes' + compactions'
    BY <1>1, <1>5, <1>8 DEF Filed
  <2>4. \A s \in Registered : s < nextSst'
    BY <1>1, <1>5, <1>8, <2>1 DEF Filed
  <2>5. QED
    BY <1>1, <1>3, <1>7, <1>8, <2>2, <2>3, <2>4, Zenon DEF Filed
<1>10. Flushing'
  <2>1. nextSst <= flushes + compactions + 1
    BY <1>5, <1>8 DEF Filed
  <2>2. nextSst \in Ids
    BY <1>1, <1>5, <2>1, EngineConstants DEF Ids
  <2>3. registry[nextSst] = 0
    BY <1>5, <1>8, <2>2 DEF Filed, Registered
  <2>4. flush'.sst \in Ids /\ flush'.sst < nextSst' /\ registry'[flush'.sst] = 0
    BY <1>1, <1>5, <1>7, <2>2, <2>3
  <2>5. QED
    BY <1>4, <1>7, <2>4, Zenon DEF Flushing
<1>11. Inputs'
  BY <1>1, <1>3, Zenon DEF EngInv, Inputs
<1>12. Alone'
  <2>1. \A c \in WriteCalls : ~Pending(c)'
    BY <1>1, <1>2, Zenon DEF callVars, Pending
  <2>2. QED
    BY <2>1, Zenon DEF Alone
<1>13. Merging'
  BY <1>1, <1>3, MergedKept, Zenon
<1>14. QED
  BY <1>4, <1>6, <1>9, <1>10, <1>11, <1>12, <1>13, Zenon DEF EngInv

\* flush_memtable_inner writes a new file: the invariant is kept.
LEMMA FlushWriteKeeps ==
    ASSUME EngInv, FlushWrite
    PROVE  EngInv'
<1> DEFINE f == nextBlock + 1
<1>1. /\ flush.st = "begun" /\ nextBlock' = nextBlock + 2
      /\ flush' = [flush EXCEPT !.st = "written", !.file = f]
      /\ UNCHANGED <<alive, memVars, registry, nextSst, nextTs, callVars, comp, latest, boundVars>>
  BY Zenon DEF FlushWrite
<1>2. Filed /\ Flushing /\ EngTypeOK
  BY Zenon DEF EngInv
<1>3. nextBlock \in Nat \ {0} /\ flushes \in 0 .. MaxFlushes /\ compactions \in 0 .. MaxCompactions
  BY <1>2, Zenon DEF EngTypeOK
<1>4. f \in Nat /\ f \in Files /\ sstFiles[f] = {}
  <2>1. nextBlock + 2 <= 1 + 2 * flushes + compactions
    BY <1>1, <1>2, <1>3 DEF Filed
  <2>2. f \in Files
    BY <1>3, <2>1, EngineConstants DEF Files
  <2>3. QED
    BY <1>2, <1>3, <2>2 DEF Filed
<1>5. sstFiles' = [sstFiles EXCEPT ![f] = {[rows |-> MemRows]}]
  BY <1>4, Zenon DEF FlushWrite
<1>6. MemRows \in SUBSET Rw
  <2>1. \A k \in MemKeys : Row(k, mem[k][1]) \in Rw
    BY <1>2, HeadIs, Zenon DEF Row, Ver, Rw
  <2>2. QED
    BY <2>1, Zenon DEF MemRows
<1>7. /\ sstFiles'[f] = {[rows |-> MemRows]}
      /\ \A g \in Files \ {f} : sstFiles'[g] = sstFiles[g]
      /\ sstFiles' \in [Files -> SUBSET [rows : SUBSET Rw]]
  <2> DEFINE x == [rows |-> MemRows]
             X == [rows : SUBSET Rw]
  <2>1. x \in X /\ sstFiles \in [Files -> SUBSET X] /\ sstFiles' = [sstFiles EXCEPT ![f] = {x}]
    BY <1>2, <1>5, <1>6, Zenon DEF EngTypeOK
  <2> HIDE DEF x, X, f
  <2>2. /\ sstFiles'[f] = {x} /\ \A g \in Files \ {f} : sstFiles'[g] = sstFiles[g]
        /\ sstFiles' \in [Files -> SUBSET X]
    BY <1>4, <2>1, Zenon
  <2>3. QED
    BY <2>2, Zenon DEF x, X
<1>8. \A s \in Registered : registry[s] \in Files /\ registry[s] \in Nat /\ registry[s] < nextBlock
  BY <1>2 DEF EngTypeOK, Filed, Registered, Files
<1>9. \A s \in Registered : registry[s] # f
  BY <1>3, <1>8
<1>10. /\ Registered' = Registered /\ Seen' = Seen
       /\ \A s \in Registered : RowsOf(s)' = RowsOf(s)
  <2>1. \A s \in Registered : sstFiles'[registry[s]] = sstFiles[registry[s]]
    BY <1>7, <1>8, <1>9, Zenon
  <2>2. QED
    BY <1>1, <2>1, FilesKept, Zenon
<1>11. flush'.st = "written" /\ flush'.file = f /\ flush'.keys = flush.keys
       /\ flush'.sst = flush.sst
  BY <1>1, <1>2, Zenon DEF EngTypeOK
<1>12. MemKeys' = MemKeys /\ MemRows' = MemRows /\ Ordered' /\ Current' /\ Pointed'
  <2>1. UNCHANGED <<mem, art, latest, wpc, call, nextTs>>
    BY <1>1, Zenon DEF memVars, callVars
  <2>2. flush.st # "installed" /\ flush'.st # "installed"
    BY <1>1, <1>11, Zenon
  <2>3. QED
    BY <1>10, <2>1, <2>2, ViewKept, Zenon
<1>13. EngTypeOK'
  <2>1. flush' \in [st : {"idle", "begun", "written", "installed"}, keys : SUBSET Keys,
                    sst : Nat, file : Nat]
    BY <1>1, <1>2, <1>4, Zenon DEF EngTypeOK
  <2>2. nextBlock' \in Nat \ {0}
    BY <1>1, <1>3
  <2>3. QED
    BY <1>1, <1>2, <1>7, <2>1, <2>2, Zenon DEF EngTypeOK, memVars, callVars, boundVars
<1>14. Filed'
  <2>1. UNCHANGED <<flushes, compactions, comp, nextSst, registry>>
    BY <1>1, Zenon DEF boundVars
  <2>2. \A g \in Files : g >= nextBlock' => g >= nextBlock /\ g # f
    BY <1>1, <1>3 DEF Files
  <2>3. \A g \in Files : g >= nextBlock' => sstFiles'[g] = {}
    BY <1>2, <1>7, <2>2, Zenon DEF Filed
  <2>4. \A s \in Registered : /\ s < nextSst /\ registry[s] < nextBlock'
                              /\ \E R \in SUBSET Rw : sstFiles'[registry[s]] = {[rows |-> R]}
    <3>1. \A s \in Registered : registry[s] < nextBlock'
      BY <1>1, <1>3, <1>8
    <3>2. \A s \in Registered : sstFiles'[registry[s]] = sstFiles[registry[s]]
      BY <1>7, <1>8, <1>9, Zenon
    <3>3. QED
      BY <1>2, <3>1, <3>2 DEF Filed
  <2>5. nextBlock' + (IF comp.st \in {"begun",
     "read"} THEN 1 ELSE 0) <= 1 + 2 * flushes + compactions
    BY <1>1, <1>2, <1>3, Zenon DEF Filed
  <2>6. flush'.st # "begun" /\ nextBlock' + 0 = nextBlock'
    BY <1>1, <1>3, <1>11
  <2>7. QED
    BY <1>2, <1>10, <2>1, <2>3, <2>4, <2>5, <2>6, Zenon DEF Filed
<1>15. comp.paths \subseteq {g \in Files : g < nextBlock}
  BY PathsBelow, Zenon
<1>16. Flushing'
  <2>1. f < nextBlock' /\ \A g \in comp.paths : g # f
    BY <1>1, <1>3, <1>15 DEF Files
  <2>2. QED
    BY <1>1, <1>2, <1>4, <1>7, <1>9, <1>10, <1>11, <1>12, <2>1, Zenon DEF Flushing
<1>17. Inputs'
  <2>1. \A g \in comp.paths : g < nextBlock'
    BY <1>1, <1>3, <1>15 DEF Files
  <2>2. QED
    BY <1>1, <1>10, <2>1, Zenon DEF EngInv, Inputs
<1>18. Alone'
  BY <1>1, <1>11, Quiet, Zenon DEF Alone, Pending, callVars
<1>19. Merging'
  BY <1>1, <1>10, MergedKept, Zenon
<1>20. QED
  BY <1>12, <1>13, <1>14, <1>16, <1>17, <1>18, <1>19, Zenon DEF EngInv

\* seal_active and on_flush_complete: the memtable that is forgotten is in an
\* SST, so the invariant is kept.
LEMMA FlushSealKeeps ==
    ASSUME EngInv, FlushSeal
    PROVE  EngInv'
<1>1. /\ flush.st = "installed" /\ flush' = NoFlush
      /\ mem' = [k \in Keys |-> <<>>] /\ memNo' = memNo + 1
      /\ UNCHANGED <<alive, art, sstVars, nextTs, callVars, comp, latest, boundVars>>
  BY Zenon DEF FlushSeal
<1>2. flush'.st = "idle"
  BY <1>1, Zenon DEF NoFlush
<1>3. /\ Registered' = Registered /\ Seen' = Seen
      /\ \A s \in Registered : RowsOf(s)' = RowsOf(s)
  BY <1>1, FilesKept, Zenon DEF sstVars
<1>4. MemKeys' = {}
  BY <1>1, Zenon DEF MemKeys
<1>5. EngTypeOK'
  <2>1. <<>> \in VerChains
    BY DEF VerChains
  <2>2. mem' \in [Keys -> VerChains]
    BY <1>1, <2>1, Zenon
  <2>3. memNo' \in Nat
    BY <1>1 DEF EngInv, EngTypeOK
  <2>4. flush' \in [st : {"idle", "begun", "written", "installed"}, keys : SUBSET Keys,
                    sst : Nat, file : Nat]
    BY <1>1, Zenon DEF NoFlush
  <2>5. QED
    BY <1>1, <2>2, <2>3, <2>4, Zenon DEF EngInv, EngTypeOK, sstVars, callVars, boundVars
<1>6. \A c \in WriteCalls : wpc'[c] \in {"idle", "done"}
  BY <1>1, Quiet, Zenon DEF callVars
<1>7. Alone'
  BY <1>6, Zenon DEF Alone, Pending
<1>8. Filed'
  <2>1. UNCHANGED <<flushes, compactions, comp, sstFiles, registry, nextSst, nextBlock>>
    BY <1>1, Zenon DEF sstVars, boundVars
  <2>2. QED
    BY <1>1, <1>2, <1>3, <2>1, Zenon DEF EngInv, Filed
<1>9. Flushing'
  BY <1>2, Zenon DEF Flushing
<1>10. Inputs'
  BY <1>1, <1>3, Zenon DEF EngInv, Inputs, sstVars
<1>11. Ordered'
  <2>1. SeenOrdered'
    BY <1>1, <1>3, Zenon DEF EngInv, Ordered, SeenOrdered
  <2>2. \A c \in WriteCalls : CallOrdered(c)'
    BY <1>6, Zenon DEF CallOrdered
  <2>3. QED
    BY <1>4, <2>1, <2>2, Zenon DEF Ordered
<1>12. UNCHANGED art /\ UNCHANGED latest /\ UNCHANGED wpc /\ UNCHANGED call
       /\ \A k : Live(k)' = Live(k)
  BY <1>1, Zenon DEF Live, callVars
<1>13. Current'
  BY <1>1, <1>3, <1>4, <1>12, Zenon DEF EngInv, Current, KeyCurrent, Top
<1>14. Pointed'
  <2>1. \A k, s, i, r : s \in Registered /\ PointsAt(k, s, i, r) => PointsAt(k, s, i, r)'
    BY <1>3, <1>12 DEF PointsAt, Top
  <2>2. \A k \in Keys : KeyPointed(k)'
    BY <1>1, <1>3, <1>4, <1>12, <2>1, Zenon DEF EngInv, Pointed, KeyPointed
  <2>3. \A c \in WriteCalls : CallApplied(c)'
    BY <1>6, Zenon DEF CallApplied
  <2>4. QED
    BY <2>2, <2>3, Zenon DEF Pointed
<1>15. Merging'
  BY <1>1, <1>3, MergedKept, Zenon
<1>16. QED
  BY <1>5, <1>7, <1>8, <1>9, <1>10, <1>11, <1>13, <1>14, <1>15, Zenon DEF EngInv

\* The rows of a flush are the heads of the chains.
LEMMA MemRowsAre ==
    ASSUME EngInv
    PROVE  /\ MemRows \subseteq Rw
           /\ \A r \in MemRows : r.key \in MemKeys /\ r = Row(r.key, mem[r.key][1])
           /\ \A k \in MemKeys : LET r == Row(k, mem[k][1])
                                 IN  /\ r \in MemRows /\ r.key = k /\ r.ts = mem[k][1].ts
                                     /\ Write(r) = Write(mem[k][1])
<1>1. \A k \in MemKeys : LET r == Row(k, mem[k][1])
                         IN  /\ r \in Rw /\ r.key = k /\ r.ts = mem[k][1].ts
                             /\ Write(r) = Write(mem[k][1])
  BY HeadIs, Zenon DEF EngInv, Row, Rw, Ver, Write
<1>2. \A r \in MemRows : \E k \in MemKeys : r = Row(k, mem[k][1])
  BY Zenon DEF MemRows
<1>3. \A k \in MemKeys : Row(k, mem[k][1]) \in MemRows
  BY Zenon DEF MemRows
<1>4. ASSUME NEW r \in MemRows
      PROVE  r \in Rw /\ r.key \in MemKeys /\ r = Row(r.key, mem[r.key][1])
  <2>1. PICK k \in MemKeys : r = Row(k, mem[k][1])
    BY <1>2, Zenon
  <2>2. r.key = k
    BY <1>1, <2>1, Zenon
  <2>3. QED
    BY <1>1, <2>1, <2>2, Zenon
<1>5. QED
  BY <1>1, <1>3, <1>4, Zenon

\* flush_memtable registers the SST and points the i-th key at the i-th row:
\* the invariant is kept.
LEMMA FlushInstallKeeps ==
    ASSUME EngInv, Ranked, FlushInstall
    PROVE  EngInv'
<1> DEFINE n == flush.sst
           f == flush.file
<1>1. /\ flush.st = "written"
      /\ registry' = [registry EXCEPT ![n] = f]
      /\ art' = [k \in Keys |-> IF k \in flush.keys THEN InSst(n, RankIn(flush.keys, k))
                                ELSE art[k]]
      /\ flush' = [flush EXCEPT !.st = "installed"]
      /\ UNCHANGED <<alive, mem, memNo, sstFiles, nextSst, nextBlock, nextTs, callVars, comp,
                     latest, boundVars>>
  BY Zenon DEF FlushInstall
<1>2. Filed /\ Flushing /\ EngTypeOK
  BY Zenon DEF EngInv
<1>3. /\ flush.keys = MemKeys /\ n \in Ids /\ n < nextSst /\ registry[n] = 0
      /\ f \in Files /\ f < nextBlock /\ sstFiles[f] = {[rows |-> MemRows]}
      /\ \A s \in Registered : registry[s] # f
      /\ f \notin comp.paths
  BY <1>1, <1>2, Zenon DEF Flushing
<1>4. n \notin Registered /\ f # 0
  BY <1>3 DEF Registered, Files
<1>5. MemKeys' = MemKeys /\ MemRows' = MemRows
  BY <1>1, MemKept, Zenon
<1>6. registry'[n] = f /\ \A s \in Ids \ {n} : registry'[s] = registry[s]
  BY <1>1, <1>2, <1>3, Zenon DEF EngTypeOK
<1> HIDE DEF n, f
<1>7. Registered' = Registered \cup {n}
  BY <1>3, <1>4, <1>6, Zenon DEF Registered
<1>8. \A s \in Registered : s \in Ids \ {n} /\ registry'[s] = registry[s] /\ RowsOf(s)' = RowsOf(s)
  <2>1. \A s \in Registered : s \in Ids \ {n} /\ registry'[s] = registry[s]
    BY <1>4, <1>6, Zenon DEF Registered
  <2>2. UNCHANGED sstFiles
    BY <1>1, Zenon
  <2>3. QED
    BY <2>1, <2>2, Zenon DEF RowsOf
<1>9. \A s : s = n => RowsOf(s)' = MemRows
  <2>1. sstFiles'[registry'[n]] = {[rows |-> MemRows]}
    BY <1>1, <1>3, <1>6, Zenon
  <2> DEFINE x == [rows |-> MemRows]
  <2>2. x.rows = MemRows
    BY Zenon
  <2> HIDE DEF x
  <2>3. sstFiles'[registry'[n]] = {x}
    BY <2>1, Zenon DEF x
  <2>4. UNION {y.rows : y \in {x}} = x.rows
    BY Zenon
  <2>5. QED
    BY <2>2, <2>3, <2>4, Zenon DEF RowsOf
<1>10. Seen' = Seen \cup MemRows
  <2>1. Seen' \subseteq Seen \cup MemRows
    BY <1>7, <1>8, <1>9, Zenon DEF Seen
  <2>2. Seen \subseteq Seen'
    BY <1>7, <1>8, Zenon DEF Seen
  <2>3. MemRows \subseteq Seen'
    BY <1>7, <1>9, Zenon DEF Seen
  <2>4. QED
    BY <2>1, <2>2, <2>3, Zenon
<1>11. flush'.st = "installed" /\ flush'.keys = MemKeys
  BY <1>1, <1>2, <1>3, Zenon DEF EngTypeOK
<1>12. EngTypeOK'
  <2>1. flush' \in [st : {"idle", "begun", "written", "installed"}, keys : SUBSET Keys,
                    sst : Nat, file : Nat]
    BY <1>1, <1>2, Zenon DEF EngTypeOK
  <2>2. registry' \in [Ids -> Files \cup {0}]
    BY <1>1, <1>2, <1>3, Zenon DEF EngTypeOK
  <2>3. \A k \in MemKeys : RankIn(MemKeys, k) \in Nat
    BY Zenon DEF Ranked
  <2>4. \A k \in MemKeys : InSst(n, RankIn(MemKeys, k)) \in Locations
    BY <1>3, <2>3 DEF Locations
  <2>5. art' \in [Keys -> Locations]
    <3>1. \A k \in Keys : art[k] \in Locations
      BY <1>2, Zenon DEF EngTypeOK
    <3>2. QED
      BY <1>1, <1>3, <2>4, <3>1, Zenon DEF n
  <2>6. QED
    BY <1>1, <1>2, <2>1, <2>2, <2>5, Zenon DEF EngTypeOK, callVars, boundVars
<1>13. Filed'
  <2>1. UNCHANGED <<flushes, compactions, comp, sstFiles, nextSst, nextBlock>>
    BY <1>1, Zenon DEF boundVars
  <2>2. flush.st # "begun" /\ flush'.st # "begun"
    BY <1>1, <1>11, Zenon
  <2>3. \A s \in Registered' : /\ s < nextSst /\ registry'[s] < nextBlock
                               /\ \E R \in SUBSET Rw : sstFiles[registry'[s]] = {[rows |-> R]}
    <3>1. MemRows \in SUBSET Rw
      BY MemRowsAre, Zenon
    <3>2. QED
      BY <1>2, <1>3, <1>6, <1>7, <1>8, <3>1 DEF Filed
  <2>4. \A s, t \in Registered' : registry'[s] = registry'[t] => s = t
    BY <1>2, <1>3, <1>6, <1>7, <1>8 DEF Filed
  <2>5. QED
    BY <1>2, <2>1, <2>2, <2>3, <2>4, Zenon DEF Filed
<1>14. Flushing'
  BY <1>5, <1>11, Zenon DEF Flushing
<1>15. Inputs'
  <2>1. Inputs /\ UNCHANGED <<comp, nextBlock>>
    BY <1>1, Zenon DEF EngInv
  <2>2. comp.st \in {"begun",
     "read"} => {registry'[s] : s \in comp.ids} = {registry[s] : s \in comp.ids}
    BY <1>8, <2>1 DEF Inputs
  <2>3. QED
    BY <1>3, <1>6, <1>7, <1>8, <2>1, <2>2, Zenon DEF Inputs
<1>16. \A c \in WriteCalls : wpc'[c] \in {"idle", "done"}
  BY <1>1, Quiet, Zenon DEF callVars
<1>17. Alone'
  BY <1>16, Zenon DEF Alone, Pending
<1>18. \A r \in MemRows, q \in Seen : q.key = r.key => q.ts < r.ts
  <2>1. SUFFICES ASSUME NEW r \in MemRows, NEW q \in Seen, q.key = r.key
                 PROVE  q.ts < r.ts
    BY Zenon
  <2>2. r.key \in MemKeys /\ r = Row(r.key, mem[r.key][1]) /\ r.ts = mem[r.key][1].ts
    BY MemRowsAre, Zenon
  <2>3. KeyOrdered(r.key) /\ flush.st # "installed"
    BY <1>1, <2>2, Zenon DEF EngInv, Ordered
  <2>4. QED
    BY <2>1, <2>2, <2>3, Zenon DEF KeyOrdered
<1>19. Seen \subseteq Rw /\ MemRows \subseteq Rw /\ \A r \in Rw : r.ts \in Nat
  BY <1>2, RowsTyped, MemRowsAre, Zenon DEF Rw
<1>20. \A q, r \in MemRows : q.key = r.key => q = r
  BY MemRowsAre, Zenon
<1>21. SeenOrdered'
  <2>1. \A r \in MemRows : r.ts < nextTs
    BY MemRowsAre, SMTT(30) DEF EngInv, Ordered, KeyOrdered
  <2>2. SeenOrdered /\ UNCHANGED nextTs
    BY <1>1, Zenon DEF EngInv, Ordered
  <2>3. \A r \in MemRows, q \in Seen : q.key = r.key => q.ts # r.ts
    BY <1>18, <1>19
  <2>4. QED
    BY <1>10, <1>20, <2>1, <2>2, <2>3 DEF SeenOrdered
<1>22. Ordered'
  <2>1. ASSUME NEW k \in MemKeys
        PROVE  KeyOrdered(k)'
    <3>1. KeyOrdered(k) /\ UNCHANGED mem /\ UNCHANGED nextTs /\ flush.st # "installed"
      BY <1>1, Zenon DEF EngInv, Ordered
    <3>2. \A r \in MemRows : r.key = k => r = Row(k, mem[k][1])
      BY MemRowsAre, Zenon
    <3>3. QED
      BY <1>10, <1>11, <3>1, <3>2, Zenon DEF KeyOrdered
  <2>2. \A c \in WriteCalls : CallOrdered(c)'
    BY <1>16, Zenon DEF CallOrdered
  <2>3. QED
    BY <1>5, <1>21, <2>1, <2>2, Zenon DEF Ordered
<1>23. UNCHANGED latest /\ UNCHANGED mem /\ \A k : Live(k)' = Live(k)
  BY <1>1, Zenon DEF Live
<1>24. \A r \in Seen : Top(Seen, r) /\ r.key \notin MemKeys => Top(Seen', r)
  BY <1>10, MemRowsAre, Zenon DEF Top
<1>25. \A r \in MemRows : Top(Seen', r)
  BY <1>10, <1>18, <1>19, <1>20 DEF Top
<1>26. Current'
  <2>1. ASSUME NEW k \in Keys
        PROVE  KeyCurrent(k)'
    <3>1. KeyCurrent(k)
      BY Zenon DEF EngInv, Current
    <3>2. CASE k \in MemKeys
      <4>1. PICK r \in MemRows : r = Row(k, mem[k][1]) /\ r.key = k /\ Write(r) = Write(mem[k][1])
        BY <3>2, MemRowsAre, Zenon
      <4>2. latest[k] = {Write(r)}
        BY <3>1, <3>2, <4>1, Zenon DEF KeyCurrent
      <4>3. r \in Seen' /\ Top(Seen', r)
        BY <1>10, <1>25, Zenon
      <4>4. QED
        BY <1>23, <3>1, <3>2, <4>1, <4>2, <4>3, Zenon DEF KeyCurrent, Top
    <3>3. CASE k \notin MemKeys
      <4>1. \A r \in MemRows : r.key # k
        BY <3>3, MemRowsAre, Zenon
      <4>2. QED
        BY <1>5, <1>10, <1>23, <1>24, <3>1, <3>3, <4>1, Zenon DEF KeyCurrent
    <3>4. QED
      BY <3>2, <3>3, Zenon
  <2>2. QED
    BY <2>1, Zenon DEF Current
<1>27. Pointed'
  <2>1. ASSUME NEW k \in Keys, Live(k) # {}
        PROVE  \E s \in Registered', i \in Nat, r \in Rw : PointsAt(k, s, i, r)'
    <3>1. KeyCurrent(k) /\ KeyPointed(k)
      BY Zenon DEF EngInv, Current, Pointed
    <3>2. CASE k \in MemKeys
      <4>1. PICK r \in MemRows : r = Row(k, mem[k][1]) /\ r.key = k /\ Write(r) = Write(mem[k][1])
        BY <3>2, MemRowsAre, Zenon
      <4>2. PICK i \in Nat : i = RankIn(MemKeys, k) /\ RowAt(MemRows, i) = {r}
        BY <3>2, <4>1, Zenon DEF Ranked
      <4>3. PICK s : s = n
        BY Zenon
      <4>4. art'[k] = InSst(s, i)
        BY <1>1, <1>3, <3>2, <4>2, <4>3, Zenon DEF n
      <4>5. RowAt(RowsOf(s)', i) = {r}
        BY <1>9, <4>2, <4>3, Zenon
      <4>6. latest'[k] = {Write(r)}
        BY <1>23, <3>1, <3>2, <4>1, Zenon DEF KeyCurrent
      <4>7. PointsAt(k, s, i, r)'
        BY <1>25, <4>1, <4>4, <4>5, <4>6, Zenon DEF PointsAt
      <4>8. r \in Rw /\ s \in Registered'
        BY <1>7, <1>19, <4>3, Zenon
      <4>9. QED
        BY <4>7, <4>8, Zenon
    <3>3. CASE k \notin MemKeys
      <4>1. \A c \in WriteCalls : wpc[c] # "applied"
        BY <1>1, Quiet, Zenon
      <4>2. PICK s \in Registered, i \in Nat, r \in Rw : PointsAt(k, s, i, r)
        BY <2>1, <3>1, <3>3, <4>1, Zenon DEF KeyPointed
      <4>3. art'[k] = art[k]
        BY <1>1, <1>3, <3>3, Zenon
      <4>4. Top(Seen', r)
        <5>1. r \in Seen /\ r.key = k /\ Top(Seen, r)
          BY <4>2, Zenon DEF PointsAt, Top
        <5>2. QED
          BY <1>24, <3>3, <5>1, Zenon
      <4>5. PointsAt(k, s, i, r)'
        BY <1>8, <1>23, <4>2, <4>3, <4>4, Zenon DEF PointsAt
      <4>6. QED
        BY <1>7, <4>5, Zenon
    <3>4. QED
      BY <3>2, <3>3, Zenon
  <2>2. \A k \in Keys : KeyPointed(k)'
    BY <1>11, <1>23, <2>1, Zenon DEF KeyPointed
  <2>3. \A c \in WriteCalls : CallApplied(c)'
    BY <1>16, Zenon DEF CallApplied
  <2>4. QED
    BY <2>2, <2>3, Zenon DEF Pointed
<1>28. Merging'
  <2>1. UNCHANGED comp
    BY <1>1, Zenon
  <2>2. comp.st \in {"begun", "read"} =>
           comp.ids \subseteq Registered /\ Merged' = Merged /\ Merged \subseteq Seen
    <3>1. comp.st \in {"begun", "read"} => comp.ids \subseteq Registered
      BY Zenon DEF EngInv, Inputs
    <3>2. QED
      BY <1>8, <2>1, <3>1, Zenon DEF Merged, Seen
  <2>3. comp.st \in {"begun", "read"} =>
           \A s \in Registered' \ comp.ids : \A r \in RowsOf(s)', q \in Merged :
              q.key = r.key => q.ts < r.ts
    <3>1. SUFFICES ASSUME comp.st \in {"begun", "read"}, NEW s \in Registered' \ comp.ids,
                          NEW r \in RowsOf(s)', NEW q \in Merged, q.key = r.key
                   PROVE  q.ts < r.ts
      BY Zenon
    <3>2. CASE s = n
      BY <1>9, <1>18, <2>2, <3>1, <3>2, Zenon
    <3>3. CASE s # n
      <4>1. s \in Registered \ comp.ids /\ r \in RowsOf(s)
        BY <1>7, <1>8, <3>3, Zenon
      <4>2. QED
        BY <3>1, <4>1, Zenon DEF EngInv, Merging
    <3>4. QED
      BY <3>2, <3>3, Zenon
  <2>4. QED
    BY <2>1, <2>2, <2>3, Zenon DEF EngInv, Merging
<1>29. QED
  BY <1>12, <1>13, <1>14, <1>15, <1>17, <1>22, <1>26, <1>27, <1>28, Zenon DEF EngInv

-----------------------------------------------------------------------------
(* compact_inner                                                           *)

\* compact_inner copies the registry: what the SSTs have at that moment is
\* older than what a later flush adds.
LEMMA CompactBeginKeeps ==
    ASSUME EngInv, CompactBegin
    PROVE  EngInv'
<1> DEFINE P == {registry[s] : s \in Registered}
<1>1. /\ comp.st = "idle" /\ compactions < MaxCompactions /\ compactions' = compactions + 1
      /\ comp' = [NoComp EXCEPT !.st = "begun", !.ids = Registered, !.paths = P]
      /\ UNCHANGED <<alive, memVars, sstVars, nextTs, callVars, flush, latest, flushes, crashes>>
  BY Zenon DEF CompactBegin
<1>2. Filed /\ Flushing /\ EngTypeOK
  BY Zenon DEF EngInv
<1>3. Registered \subseteq Ids /\ P \subseteq Files
  BY <1>2 DEF EngTypeOK, Registered
<1> HIDE DEF P
<1>4. comp'.st = "begun" /\ comp'.ids = Registered /\ comp'.paths = P
  BY <1>1, Zenon DEF NoComp
<1>5. UNCHANGED <<sstFiles, registry, nextSst, nextBlock>>
  BY <1>1, Zenon DEF sstVars
<1>6. /\ Registered' = Registered /\ Seen' = Seen
      /\ \A s \in Registered : RowsOf(s)' = RowsOf(s)
  BY <1>5, FilesKept, Zenon
<1>7. MemKeys' = MemKeys /\ MemRows' = MemRows /\ Ordered' /\ Current' /\ Pointed'
  <2>1. UNCHANGED <<mem, art, latest, wpc, call, nextTs>> /\ UNCHANGED flush
    BY <1>1, Zenon DEF memVars, callVars
  <2>2. QED
    BY <1>6, <2>1, ViewKept, Zenon
<1>8. EngTypeOK'
  <2>1. comp' \in [st : {"idle", "begun", "read", "unlinking"}, ids : SUBSET Ids,
                   paths : SUBSET Files, rows : SUBSET Rw, tops : SUBSET Rw]
    BY <1>1, <1>3, Zenon DEF NoComp
  <2>2. compactions' \in 0 .. MaxCompactions
    BY <1>1, <1>2, EngineConstants DEF EngTypeOK
  <2>3. QED
    BY <1>1, <1>2, <2>1, <2>2, Zenon DEF EngTypeOK, memVars, sstVars, callVars
<1>9. Filed'
  <2>1. nextBlock \in Nat /\ nextSst \in Nat /\ flushes \in Nat /\ compactions \in Nat
    BY <1>2, EngineConstants DEF EngTypeOK
  <2>2. nextBlock' + (IF flush'.st = "begun" THEN 2 ELSE 0) + 1 <= 1 + 2 * flushes' + compactions'
    BY <1>1, <1>2, <1>5, <2>1 DEF Filed
  <2>3. nextSst' + 1 <= 1 + flushes' + compactions'
    BY <1>1, <1>2, <1>5, <2>1 DEF Filed
  <2>4. QED
    BY <1>2, <1>4, <1>5, <1>6, <2>2, <2>3, Zenon DEF Filed
<1>10. Flushing'
  BY <1>1, <1>2, <1>4, <1>5, <1>6, <1>7, Zenon DEF Flushing, P
<1>11. Inputs'
  BY <1>4, <1>5, <1>6, Zenon DEF Inputs, P
<1>12. Alone'
  BY <1>1, Zenon DEF EngInv, Alone, Pending, callVars, memVars
<1>13. Merging'
  BY <1>4, <1>6, Zenon DEF Merging
<1>14. QED
  BY <1>7, <1>8, <1>9, <1>10, <1>11, <1>12, <1>13, Zenon DEF EngInv

\* Removing an input file after the commit takes no row from a reader.
LEMMA CompactUnlinkKeeps ==
    ASSUME EngInv, CompactUnlink
    PROVE  EngInv'
<1>1. PICK f \in comp.paths :
         /\ sstFiles' = [sstFiles EXCEPT ![f] = {}]
         /\ comp' = IF comp.paths = {f} THEN NoComp ELSE [comp EXCEPT !.paths = @ \ {f}]
  BY Zenon DEF CompactUnlink
<1>2. /\ comp.st = "unlinking"
      /\ UNCHANGED <<alive, memVars, registry, nextSst, nextBlock, nextTs, callVars, flush, latest,
                     boundVars>>
  BY Zenon DEF CompactUnlink
<1>3. Filed /\ Flushing /\ Inputs /\ EngTypeOK
  BY Zenon DEF EngInv
<1>4. f \in Files /\ f < nextBlock /\ \A s \in Registered : registry[s] # f
  BY <1>2, <1>3, Zenon DEF Inputs, EngTypeOK
<1>5. /\ sstFiles'[f] = {} /\ \A g \in Files \ {f} : sstFiles'[g] = sstFiles[g]
      /\ sstFiles' \in [Files -> SUBSET [rows : SUBSET Rw]]
  <2> DEFINE X == [rows : SUBSET Rw]
  <2>1. sstFiles \in [Files -> SUBSET X]
    BY <1>3, Zenon DEF EngTypeOK
  <2> HIDE DEF X
  <2>2. /\ sstFiles'[f] = {} /\ \A g \in Files \ {f} : sstFiles'[g] = sstFiles[g]
        /\ sstFiles' \in [Files -> SUBSET X]
    BY <1>1, <1>4, <2>1, Zenon
  <2>3. QED
    BY <2>2, Zenon DEF X
<1>6. \A s \in Registered : registry[s] \in Files \ {f}
                            /\ sstFiles'[registry[s]] = sstFiles[registry[s]]
  BY <1>3, <1>4, <1>5, Zenon DEF EngTypeOK, Registered
<1>7. /\ Registered' = Registered /\ Seen' = Seen
      /\ \A s \in Registered : RowsOf(s)' = RowsOf(s)
  BY <1>2, <1>6, FilesKept, Zenon
<1>8. MemKeys' = MemKeys /\ MemRows' = MemRows /\ Ordered' /\ Current' /\ Pointed'
  <2>1. UNCHANGED <<mem, art, latest, wpc, call, nextTs>> /\ UNCHANGED flush
    BY <1>2, Zenon DEF memVars, callVars
  <2>2. QED
    BY <1>7, <2>1, ViewKept, Zenon
<1>9. /\ comp'.st \in {"idle", "unlinking"} /\ comp'.paths \subseteq comp.paths
      /\ comp'.st = "idle" => comp'.paths = {}
  BY <1>1, <1>2, <1>3, Zenon DEF NoComp, EngTypeOK
<1>10. EngTypeOK'
  <2>1. comp' \in [st : {"idle", "begun", "read", "unlinking"}, ids : SUBSET Ids,
                   paths : SUBSET Files, rows : SUBSET Rw, tops : SUBSET Rw]
    BY <1>1, <1>3, Zenon DEF NoComp, EngTypeOK
  <2>2. QED
    BY <1>2, <1>3, <1>5, <2>1, Zenon DEF EngTypeOK, memVars, boundVars, callVars
<1>11. Filed'
  <2>1. \A g \in Files : g >= nextBlock => sstFiles'[g] = {}
    BY <1>3, <1>5, Zenon DEF Filed
  <2>2. \A s \in Registered : \E R \in SUBSET Rw : sstFiles'[registry[s]] = {[rows |-> R]}
    BY <1>3, <1>6 DEF Filed
  <2>3. UNCHANGED <<flushes, compactions, flush, nextSst, nextBlock, registry>>
    BY <1>2, Zenon DEF boundVars
  <2>4. comp.st \notin {"begun", "read"} /\ comp'.st \notin {"begun", "read"}
    BY <1>2, <1>9, Zenon
  <2>5. QED
    BY <1>3, <1>7, <2>1, <2>2, <2>3, <2>4, Zenon DEF Filed
<1>12. Flushing'
  <2>1. UNCHANGED <<flush, nextSst, nextBlock, registry>>
    BY <1>2, Zenon
  <2>2. flush.st = "written" => flush.file \in Files \ {f} /\ flush.file \notin comp'.paths
    BY <1>3, <1>9, Zenon DEF Flushing
  <2>3. QED
    BY <1>3, <1>5, <1>7, <1>8, <2>1, <2>2, Zenon DEF Flushing
<1>13. Inputs'
  BY <1>2, <1>3, <1>7, <1>9, Zenon DEF Inputs
<1>14. Alone'
  BY <1>2, Zenon DEF EngInv, Alone, Pending, callVars, memVars
<1>15. Merging'
  BY <1>9, Zenon DEF Merging
<1>16. QED
  BY <1>8, <1>10, <1>11, <1>12, <1>13, <1>14, <1>15, Zenon DEF EngInv

\* What MVCC GC keeps: only rows of its inputs, the newest version of a key
\* unless that is a tombstone, and with any version of a key the newest.
LEMMA SurvivorsAre ==
    ASSUME NEW R, Headed(R)
    PROVE  /\ Survivors(R) \subseteq R
           /\ \A r \in R : Top(R, r) /\ ~r.del => r \in Survivors(R)
           /\ \A r \in Survivors(R) : \E q \in Survivors(R) : q.key = r.key /\ Top(R, q)
           /\ Newest(R) \cap Survivors(R) = {r \in Survivors(R) : Top(R, r)}
<1> DEFINE kept == Newest(R) \cup UNION {Newest({r \in R : r.ts <= p}) : p \in pins}
<1>1. \A r : r \in Newest(R) <=> Top(R, r)
  BY Zenon DEF Newest, Top
<1>2. kept \subseteq R /\ Newest(R) \subseteq kept
  BY Zenon DEF Newest
<1>3. \A r : r \in Survivors(R) <=>
         r \in kept /\ \E q \in kept : q.key = r.key /\ (q \notin Newest(R) \/ ~q.del)
  BY Zenon DEF Survivors
<1> HIDE DEF kept
<1>4. Survivors(R) \subseteq R
  BY <1>2, <1>3, Zenon
<1>5. ASSUME NEW r \in R, Top(R, r), ~r.del
      PROVE  r \in Survivors(R)
  BY <1>1, <1>2, <1>3, <1>5, Zenon
<1>6. ASSUME NEW r \in Survivors(R)
      PROVE  \E q \in Survivors(R) : q.key = r.key /\ Top(R, q)
  <2>1. r \in R
    BY <1>4, Zenon
  <2>2. PICK q \in R : q.key = r.key /\ Top(R, q)
    BY <2>1, Zenon DEF Headed
  <2>3. q \in kept
    BY <1>1, <1>2, <2>2, Zenon
  <2>4. PICK x \in kept : x.key = r.key /\ (x \notin Newest(R) \/ ~x.del)
    BY <1>3, Zenon
  <2>5. q \in Survivors(R)
    BY <1>3, <2>2, <2>3, <2>4, Zenon
  <2>6. QED
    BY <2>2, <2>5, Zenon
<1>7. Newest(R) \cap Survivors(R) = {r \in Survivors(R) : Top(R, r)}
  BY <1>1, Zenon
<1>8. QED
  BY <1>4, <1>5, <1>6, <1>7, Zenon

\* compact_inner reads its inputs and selects the rows to keep: the invariant
\* is kept, and the rows are those of the MVCC GC.
LEMMA CompactReadKeeps ==
    ASSUME EngInv, Ranked, CompactRead
    PROVE  /\ EngInv'
           /\ comp'.st = "read" /\ comp'.rows = Survivors(Merged) /\ Merged' = Merged
<1>1. /\ comp.st = "begun"
      /\ UNCHANGED <<alive, memVars, sstVars, nextTs, callVars, flush, latest, boundVars>>
  BY Zenon DEF CompactRead
<1>2. Filed /\ Flushing /\ Inputs /\ EngTypeOK /\ SeenOrdered /\ Merging
  BY Zenon DEF EngInv, Ordered
<1>3. comp.ids \subseteq Registered /\ comp.paths = {registry[s] : s \in comp.ids}
  BY <1>1, <1>2, Zenon DEF Inputs
<1>4. \A f \in comp.paths : sstFiles[f] # {}
  <2>1. \A s \in Registered : sstFiles[registry[s]] # {}
    BY <1>2, Zenon DEF Filed
  <2>2. QED
    BY <1>3, <2>1, Zenon
<1>5. UNION {UNION {x.rows : x \in sstFiles[f]} : f \in comp.paths} = Merged
  BY <1>3, Zenon DEF Merged, RowsOf
<1>6. Merged \subseteq Seen /\ Merged \in SUBSET Rw /\ nextTs \in Nat
      /\ \A r \in Merged : r.ts < nextTs
  <2>1. Merged \subseteq Seen
    BY <1>3, Zenon DEF Merged, Seen
  <2>2. Seen \subseteq Rw /\ nextTs \in Nat
    BY <1>2, RowsTyped, Zenon DEF EngTypeOK
  <2>3. QED
    BY <1>2, <2>1, <2>2, Zenon DEF SeenOrdered
<1>7. \A d \in Distinct(Merged) : d = Merged
  <2> SUFFICES ASSUME NEW d \in Distinct(Merged)
               PROVE  Merged \subseteq d
    BY Zenon DEF Distinct
  <2>1. d \subseteq Merged /\ \A r \in Merged : \E q \in d : q.key = r.key /\ q.ts = r.ts
    BY Zenon DEF Distinct
  <2>2. \A q, r \in Merged : q.key = r.key /\ q.ts = r.ts => q = r
    BY <1>2, <1>6, Zenon DEF SeenOrdered
  <2>3. QED
    BY <2>1, <2>2, Zenon
<1> DEFINE S == Survivors(Merged)
           T == Newest(Merged) \cap S
<1>8. comp' = [comp EXCEPT !.st = "read", !.rows = S, !.tops = T]
  <2>1. ~(\E f \in comp.paths : sstFiles[f] = {})
    BY <1>4, Zenon
  <2>2. PICK d \in Distinct(Merged) :
           comp' = [comp EXCEPT !.st = "read", !.rows = Survivors(d),
                                !.tops = Newest(d) \cap Survivors(d)]
    BY <1>5, <2>1, Zenon DEF CompactRead
  <2>3. d = Merged
    BY <1>7, Zenon
  <2>4. QED
    BY <2>2, <2>3, Zenon
<1>9. /\ S \subseteq Merged
      /\ \A r \in Merged : Top(Merged, r) /\ ~r.del => r \in S
      /\ \A r \in S : \E q \in S : q.key = r.key /\ Top(Merged, q)
      /\ T = {r \in S : Top(Merged, r)}
  BY <1>6, SurvivorsAre, Zenon DEF Ranked
<1> HIDE DEF S, T
<1>10. S \in SUBSET Rw /\ T \in SUBSET Rw
  BY <1>6, <1>9, Zenon
<1>11. /\ comp'.st = "read" /\ comp'.ids = comp.ids /\ comp'.paths = comp.paths
       /\ comp'.rows = S /\ comp'.tops = T
  BY <1>2, <1>8, Zenon DEF EngTypeOK
<1>12. UNCHANGED <<sstFiles, registry, nextSst, nextBlock>>
  BY <1>1, Zenon DEF sstVars
<1>13. /\ Registered' = Registered /\ Seen' = Seen
       /\ \A s \in Registered : RowsOf(s)' = RowsOf(s)
  BY <1>12, FilesKept, Zenon
<1>14. Merged' = Merged
  BY <1>3, <1>11, <1>13, Zenon DEF Merged
<1>15. MemKeys' = MemKeys /\ MemRows' = MemRows /\ Ordered' /\ Current' /\ Pointed'
  <2>1. UNCHANGED <<mem, art, latest, wpc, call, nextTs>> /\ UNCHANGED flush
    BY <1>1, Zenon DEF memVars, callVars
  <2>2. QED
    BY <1>13, <2>1, ViewKept, Zenon
<1>16. EngTypeOK'
  <2>1. comp' \in [st : {"idle", "begun", "read", "unlinking"}, ids : SUBSET Ids,
                   paths : SUBSET Files, rows : SUBSET Rw, tops : SUBSET Rw]
    BY <1>2, <1>8, <1>10, Zenon DEF EngTypeOK
  <2>2. QED
    BY <1>1, <1>2, <2>1, Zenon DEF EngTypeOK, memVars, sstVars, boundVars, callVars
<1>17. Filed'
  <2>1. UNCHANGED <<flushes, compactions, flush>>
    BY <1>1, Zenon DEF boundVars
  <2>2. comp.st \in {"begun", "read"} /\ comp'.st \in {"begun", "read"}
    BY <1>1, <1>11, Zenon
  <2>3. QED
    BY <1>2, <1>12, <1>13, <2>1, <2>2, Zenon DEF Filed
<1>18. Flushing'
  BY <1>1, <1>2, <1>11, <1>12, <1>13, <1>15, Zenon DEF Flushing
<1>19. Inputs'
  BY <1>3, <1>11, <1>12, <1>13, Zenon DEF Inputs
<1>20. Alone'
  BY <1>1, Zenon DEF EngInv, Alone, Pending, callVars, memVars
<1>21. Merging'
  <2>1. \A s \in Registered \ comp.ids : \A r \in RowsOf(s), q \in Merged :
           q.key = r.key => q.ts < r.ts
    BY <1>1, <1>2, Zenon DEF Merging
  <2>2. \A s \in Registered' \ comp'.ids : \A r \in RowsOf(s)', q \in Merged' :
           q.key = r.key => q.ts < r.ts
    BY <1>11, <1>13, <1>14, <2>1, Zenon
  <2>3. /\ comp'.rows \subseteq Merged'
        /\ \A r \in Merged' : Top(Merged', r) /\ ~r.del => r \in comp'.rows
        /\ \A r \in comp'.rows : \E q \in comp'.rows : q.key = r.key /\ Top(Merged', q)
        /\ comp'.tops = {r \in comp'.rows : Top(Merged', r)}
    BY <1>9, <1>11, <1>14, Zenon
  <2>4. QED
    BY <2>2, <2>3, Zenon DEF Merging
<1>22. QED
  BY <1>11, <1>14, <1>15, <1>16, <1>17, <1>18, <1>19, <1>20, <1>21, Zenon DEF EngInv, S

\* The rows of the SSTs that are no input of the compaction.
Beside == UNION {RowsOf(s) : s \in Registered \ comp.ids}

\* What holds between the selection of the rows and the commit: everything a
\* scan reads is in the inputs or in a newer SST, and the rows to point at are
\* the newest of the inputs.
LEMMA ReadHolds ==
    ASSUME EngInv, comp.st = "read"
    PROVE  /\ Seen = Beside \cup Merged /\ Seen \subseteq Rw
           /\ comp.ids \subseteq Registered /\ comp.paths = {registry[s] : s \in comp.ids}
           /\ \A r \in Beside, q \in Merged : q.key = r.key => q.ts < r.ts
           /\ comp.rows \subseteq Merged
           /\ \A r \in Merged : Top(Merged, r) /\ ~r.del => r \in comp.rows
           /\ \A r \in comp.rows : \E q \in comp.rows : q.key = r.key /\ Top(Merged, q)
           /\ comp.tops = {r \in comp.rows : Top(Merged, r)}
           /\ \A q, r \in Seen : q.key = r.key /\ q.ts = r.ts => q = r
           /\ \A q, r \in Merged : Top(Merged, q) /\ Top(Merged, r) /\ q.key = r.key => q = r
<1>1. comp.ids \subseteq Registered /\ comp.paths = {registry[s] : s \in comp.ids}
  BY Zenon DEF EngInv, Inputs
<1>2. Seen = Beside \cup Merged
  BY <1>1, Zenon DEF Seen, Beside, Merged
<1>3. Seen \subseteq Rw /\ \A r \in Seen : r.ts \in Nat
  BY RowsTyped, Zenon DEF EngInv, Rw
<1>4. /\ comp.rows \subseteq Merged
      /\ \A r \in Merged : Top(Merged, r) /\ ~r.del => r \in comp.rows
      /\ \A r \in comp.rows : \E q \in comp.rows : q.key = r.key /\ Top(Merged, q)
      /\ comp.tops = {r \in comp.rows : Top(Merged, r)}
  BY Zenon DEF EngInv, Merging
<1>5. \A s \in Registered \ comp.ids : \A r \in RowsOf(s),
   q \in Merged : q.key = r.key => q.ts < r.ts
  BY Zenon DEF EngInv, Merging
<1>6. \A r \in Beside, q \in Merged : q.key = r.key => q.ts < r.ts
  BY <1>5, Zenon DEF Beside
<1>7. \A q, r \in Seen : q.key = r.key /\ q.ts = r.ts => q = r
  BY Zenon DEF EngInv, Ordered, SeenOrdered
<1>8. ASSUME NEW q \in Merged, NEW r \in Merged, Top(Merged, q), Top(Merged, r), q.key = r.key
      PROVE  q = r
  <2>1. q \in Seen /\ r \in Seen
    BY <1>2, Zenon
  <2>2. q.ts <= r.ts /\ r.ts <= q.ts
    BY <1>8, Zenon DEF Top
  <2>3. q.ts = r.ts
    BY <1>3, <2>1, <2>2
  <2>4. QED
    BY <1>7, <1>8, <2>1, <2>3, Zenon
<1>9. QED
  BY <1>1, <1>2, <1>3, <1>4, <1>6, <1>7, <1>8, Zenon

\* The row that the commit points the entry of k at, and its place in the
\* output.
CommitTop(k) == CHOOSE r \in comp.tops : r.key = k
CommitRow(k) == CHOOSE i \in 1 .. Cardinality(comp.rows) : RowAt(comp.rows, i) = {CommitTop(k)}

\* The commit points an entry at the place of the newest row of its key.
LEMMA CommitRowIs ==
    ASSUME EngInv, Ranked, comp.st = "read", NEW r \in comp.tops
    PROVE  /\ CommitTop(r.key) = r /\ CommitRow(r.key) \in Nat
           /\ RowAt(comp.rows, CommitRow(r.key)) = {r}
<1> DEFINE t == CommitTop(r.key)
<1>1. t \in comp.tops /\ t.key = r.key
  BY Zenon DEF CommitTop
<1>2. t = r
  <2>1. \A x \in comp.tops : x \in Merged /\ Top(Merged, x)
    BY ReadHolds, Zenon
  <2> HIDE DEF t
  <2>2. t \in Merged /\ Top(Merged, t) /\ r \in Merged /\ Top(Merged, r)
    BY <1>1, <2>1, Zenon
  <2>3. QED
    BY <1>1, <2>2, ReadHolds, Zenon
<1>3. \E i \in 1 .. Cardinality(comp.rows) : RowAt(comp.rows, i) = {t}
  BY <1>2, Zenon DEF Ranked
<1>4. CommitRow(r.key) \in 1 .. Cardinality(comp.rows) /\ RowAt(comp.rows, CommitRow(r.key)) = {t}
  BY <1>3, Zenon DEF CommitRow
<1>5. CommitRow(r.key) \in Nat
  BY <1>4
<1>6. QED
  BY <1>2, <1>4, <1>5, Zenon

\* What a commit does, whether or not it has an output.
Committed ==
    /\ comp.st = "read" /\ comp'.st = "unlinking" /\ comp'.paths = comp.paths
    /\ Registered \ comp.ids \subseteq Registered'
    /\ \A s \in Registered \ comp.ids : RowsOf(s)' = RowsOf(s)
    /\ \A s \in Registered' : s \notin Registered \ comp.ids =>
          s = nextSst /\ s \in Ids /\ RowsOf(s)' = comp.rows
    /\ comp.rows # {} => nextSst \in Registered'
    /\ \A k \in Keys : art'[k] = IF comp.rows # {} /\ Relocated(k) THEN InSst(nextSst, CommitRow(k))
                                 ELSE art[k]

\* After a commit a scan reads the rows kept and those of the SSTs that were
\* no input.
LEMMA CommittedSeen ==
    ASSUME EngInv, Committed
    PROVE  Seen' = Beside \cup comp.rows
<1>1. Beside \subseteq Seen'
  BY Zenon DEF Committed, Beside, Seen
<1>2. comp.rows \subseteq Seen'
  <2>1. comp.rows # {} => nextSst \in Registered' /\ nextSst \notin Registered
    <3>1. nextSst \in Nat /\ \A s \in Registered : s \in Nat /\ s < nextSst
      BY DEF EngInv, EngTypeOK, Filed, Registered, Ids
    <3>2. QED
      BY <3>1 DEF Committed
  <2>2. PICK s : s = nextSst
    BY Zenon
  <2>3. comp.rows # {} => RowsOf(s)' = comp.rows /\ s \in Registered'
    BY <2>1, <2>2, Zenon DEF Committed
  <2>4. QED
    BY <2>3, Zenon DEF Seen
<1>3. ASSUME NEW s \in Registered'
      PROVE  RowsOf(s)' \subseteq Beside \cup comp.rows
  BY Zenon DEF Committed, Beside
<1>4. QED
  BY <1>1, <1>2, <1>3, Zenon DEF Seen

\* A commit keeps the last write of every key where a scan and the index find
\* it: the newest row of a key is kept unless it is a tombstone, in which case
\* the key is gone.
LEMMA CommittedKeeps ==
    ASSUME EngInv, Ranked, Committed, UNCHANGED <<mem, latest, wpc, call, nextTs, flush>>
    PROVE  Ordered' /\ Current' /\ Pointed'
<1>1. MemKeys' = MemKeys /\ MemRows' = MemRows
  BY MemKept, Zenon
<1>2. UNCHANGED mem /\ UNCHANGED latest /\ UNCHANGED wpc /\ UNCHANGED call /\ UNCHANGED nextTs
      /\ UNCHANGED flush /\ \A k : Live(k)' = Live(k)
  BY Zenon DEF Live
<1>3. comp.st = "read" /\ Seen = Beside \cup Merged /\ comp.rows \subseteq Merged
  BY ReadHolds, Zenon DEF Committed
<1>4. Seen' = Beside \cup comp.rows
  BY CommittedSeen, Zenon
<1>5. Seen' \subseteq Seen
  BY <1>3, <1>4, Zenon
<1>6. Ordered'
  <2>1. SeenOrdered /\ (\A k \in MemKeys : KeyOrdered(k)) /\ (\A c \in WriteCalls : CallOrdered(c))
    BY Zenon DEF EngInv, Ordered
  <2>2. SeenOrdered'
    BY <1>2, <1>5, <2>1, Zenon DEF SeenOrdered
  <2>3. \A k \in MemKeys : KeyOrdered(k)'
    BY <1>2, <1>5, <2>1, Zenon DEF KeyOrdered
  <2>4. \A c \in WriteCalls : CallOrdered(c)'
    BY <1>1, <1>2, <1>5, <2>1, Zenon DEF CallOrdered
  <2>5. QED
    BY <1>1, <2>2, <2>3, <2>4, Zenon DEF Ordered
<1>7. \A r \in Seen' : Top(Seen, r) => Top(Seen', r)
  BY <1>5, Zenon DEF Top
<1>8. \A r \in Merged : Top(Seen, r) => Top(Merged, r)
  BY <1>3, Zenon DEF Top
<1>9. \A r \in Seen : Top(Seen, r) /\ ~r.del => r \in Seen'
  BY <1>3, <1>4, <1>8, ReadHolds, Zenon
<1>10. ASSUME NEW r \in Seen, Top(Seen, r), r \notin Seen'
       PROVE  \A q \in Seen' : q.key # r.key
  <2>1. SUFFICES ASSUME NEW q \in Seen', q.key = r.key
                 PROVE  FALSE
    BY Zenon
  <2>2. r \in Merged /\ Top(Merged, r)
    BY <1>3, <1>4, <1>8, <1>10, Zenon
  <2>3. CASE q \in Beside
    <3>1. r.ts < q.ts /\ q.ts <= r.ts /\ q \in Seen
      BY <1>3, <1>10, <2>1, <2>2, <2>3, ReadHolds, Zenon DEF Top
    <3>2. q.ts \in Nat /\ r.ts \in Nat
      BY <3>1, RowsTyped, Zenon DEF EngInv, Rw
    <3>3. QED
      BY <3>1, <3>2
  <2>4. CASE q \in comp.rows
    <3>1. PICK t \in comp.rows : t.key = q.key /\ Top(Merged, t)
      BY <1>3, <2>4, ReadHolds, Zenon
    <3>2. t = r
      BY <1>3, <2>1, <2>2, <3>1, ReadHolds, Zenon
    <3>3. QED
      BY <1>4, <1>10, <3>1, <3>2, Zenon
  <2>5. QED
    BY <1>4, <2>3, <2>4, Zenon
<1>11. \A r : Write(r).del = r.del
  BY Zenon DEF Write
<1>12. Current'
  <2>1. ASSUME NEW k \in Keys
        PROVE  KeyCurrent(k)'
    <3>1. KeyCurrent(k)
      BY Zenon DEF EngInv, Current
    <3>2. ASSUME NEW r \in Seen, r.key = k, Top(Seen, r), latest[k] = {Write(r)}
          PROVE  \/ \E q \in Seen' : q.key = k /\ Top(Seen', q) /\ latest[k] = {Write(q)}
                 \/ (\A q \in Seen' : q.key # k) /\ Live(k) = {}
      <4>1. CASE r \in Seen'
        BY <1>7, <3>2, <4>1, Zenon
      <4>2. CASE r \notin Seen'
        <5>1. r.del
          BY <1>9, <3>2, <4>2, Zenon
        <5>2. Write(r).del
          BY <1>11, <5>1, Zenon
        <5>3. Live(k) = {}
          BY <3>2, <5>2, Zenon DEF Live
        <5>4. QED
          BY <1>10, <3>2, <4>2, <5>3, Zenon
      <4>3. QED
        BY <4>1, <4>2, Zenon
    <3>3. k \notin MemKeys \/ flush.st = "installed" =>
             \/ \E q \in Seen' : q.key = k /\ Top(Seen', q) /\ latest[k] = {Write(q)}
             \/ (\A q \in Seen' : q.key # k) /\ Live(k) = {}
      BY <1>5, <3>1, <3>2, Zenon DEF KeyCurrent
    <3>4. QED
      BY <1>1, <1>2, <3>1, <3>3, Zenon DEF KeyCurrent
  <2>2. QED
    BY <2>1, Zenon DEF Current
<1>13. Pointed'
  <2>1. ASSUME NEW k \in Keys, Live(k) # {}, NEW s \in Registered, NEW i \in Nat, NEW r \in Rw,
               PointsAt(k, s, i, r)
        PROVE  \E t \in Registered', j \in Nat, q \in Rw : PointsAt(k, t, j, q)'
    <3>1. /\ art[k] = InSst(s, i) /\ RowAt(RowsOf(s), i) = {r}
          /\ r.key = k /\ Top(Seen, r) /\ r \in Seen /\ latest[k] = {Write(r)}
      BY <2>1, Zenon DEF PointsAt, Top
    <3>2. ~r.del
      <4>1. PICK x \in latest[k] : ~x.del
        BY <2>1, Zenon DEF Live
      <4>2. x = Write(r)
        BY <3>1, <4>1, Zenon
      <4>3. QED
        BY <1>11, <4>1, <4>2, Zenon
    <3>3. Top(Seen', r)
      BY <1>7, <1>9, <3>1, <3>2, Zenon
    <3>4. r \in RowsOf(s)
      BY <3>1, Zenon DEF RowAt
    <3>5. art[k].kind = "sst" /\ art[k].sst = s
      BY <3>1 DEF InSst
    <3>6. CASE s \in comp.ids
      <4>1. r \in Merged
        BY <3>4, <3>6, Zenon DEF Merged
      <4>2. r \in comp.rows /\ r \in comp.tops
        BY <1>3, <1>8, <3>1, <3>2, <4>1, ReadHolds, Zenon
      <4>3. Relocated(k)
        BY <3>1, <3>5, <3>6, <4>2, Zenon DEF Relocated
      <4>4. PICK j \in Nat : j = CommitRow(k) /\ RowAt(comp.rows, j) = {r}
        BY <1>3, <3>1, <4>2, CommitRowIs, Zenon
      <4>5. PICK t : t = nextSst
        BY Zenon
      <4>6. t \in Registered' /\ art'[k] = InSst(t, j)
        BY <4>2, <4>3, <4>4, <4>5, Zenon DEF Committed
      <4>7. t \notin Registered
        <5>1. nextSst \in Nat /\ \A x \in Registered : x \in Nat /\ x < nextSst
          BY DEF EngInv, EngTypeOK, Filed, Registered, Ids
        <5>2. QED
          BY <4>5, <5>1
      <4>8. RowsOf(t)' = comp.rows
        BY <4>6, <4>7, Zenon DEF Committed
      <4>9. PointsAt(k, t, j, r)'
        BY <1>2, <3>1, <3>3, <4>4, <4>6, <4>8, Zenon DEF PointsAt
      <4>10. QED
        BY <4>6, <4>9, Zenon
    <3>7. CASE s \notin comp.ids
      <4>1. ~Relocated(k)
        BY <3>5, <3>7, Zenon DEF Relocated
      <4>2. s \in Registered' /\ RowsOf(s)' = RowsOf(s) /\ art'[k] = art[k]
        BY <3>7, <4>1, Zenon DEF Committed
      <4>3. PointsAt(k, s, i, r)'
        BY <1>2, <3>1, <3>3, <4>2, Zenon DEF PointsAt
      <4>4. QED
        BY <4>2, <4>3, Zenon
    <3>8. QED
      BY <3>6, <3>7, Zenon
  <2>2. ASSUME NEW k \in Keys
        PROVE  KeyPointed(k)'
    <3>1. KeyPointed(k)
      BY Zenon DEF EngInv, Pointed
    <3>2. art[k] = InMemtable => art'[k] = art[k]
      <4>1. art[k] = InMemtable => ~Relocated(k)
        BY DEF InMemtable, Relocated
      <4>2. QED
        BY <4>1, Zenon DEF Committed
    <3>3. QED
      BY <1>1, <1>2, <2>1, <3>1, <3>2, Zenon DEF KeyPointed
  <2>3. \A c \in WriteCalls : CallApplied(c)'
    BY <1>1, <1>2, Zenon DEF EngInv, Pointed, CallApplied, Live
  <2>4. QED
    BY <2>2, <2>3, Zenon DEF Pointed
<1>14. QED
  BY <1>6, <1>12, <1>13, Zenon

\* The assignments of the commit of compact_inner.
LEMMA CommitKept ==
    ASSUME CompactCommit
    PROVE  /\ comp.st = "read" /\ comp' = [comp EXCEPT !.st = "unlinking"]
           /\ UNCHANGED <<alive, mem, memNo, nextTs, callVars, flush, latest, boundVars>>
           /\ IF comp.rows = {}
              THEN /\ registry' = [i \in Ids |-> IF i \in comp.ids THEN 0 ELSE registry[i]]
                   /\ UNCHANGED <<sstFiles, art, nextSst, nextBlock>>
              ELSE /\ sstFiles' = [sstFiles EXCEPT ![nextBlock] = {[rows |-> comp.rows]}]
                   /\ registry' = [i \in Ids |-> IF i = nextSst THEN nextBlock
                                                 ELSE IF i \in comp.ids THEN 0 ELSE registry[i]]
                   /\ art' = [k \in Keys |-> IF Relocated(k) THEN InSst(nextSst, CommitRow(k))
                                             ELSE art[k]]
                   /\ nextSst' = nextSst + 1 /\ nextBlock' = nextBlock + 1
BY Zenon DEF CompactCommit, CommitRow, CommitTop

\* A commit of a compaction that keeps no row.
LEMMA CommitEmptyKeeps ==
    ASSUME EngInv, Ranked, CompactCommit, comp.rows = {}
    PROVE  Committed /\ EngInv'
<1>1. /\ comp.st = "read" /\ comp' = [comp EXCEPT !.st = "unlinking"]
      /\ registry' = [i \in Ids |-> IF i \in comp.ids THEN 0 ELSE registry[i]]
      /\ UNCHANGED <<alive, mem, memNo, nextTs, callVars, flush, latest, boundVars>>
      /\ UNCHANGED <<sstFiles, art, nextSst, nextBlock>>
  BY CommitKept, Zenon
<1>2. Filed /\ Flushing /\ Inputs /\ EngTypeOK
  BY Zenon DEF EngInv
<1>3. comp'.st = "unlinking" /\ comp'.paths = comp.paths
  BY <1>1, <1>2, Zenon DEF EngTypeOK
<1>4. Registered' = Registered \ comp.ids
      /\ \A s \in Registered \ comp.ids : registry'[s] = registry[s]
  BY <1>1, Zenon DEF Registered
<1>5. \A s \in Registered \ comp.ids : RowsOf(s)' = RowsOf(s)
  BY <1>1, <1>4, Zenon DEF RowsOf
<1>6. Committed
  BY <1>1, <1>3, <1>4, <1>5, Zenon DEF Committed
<1>7. Ordered' /\ Current' /\ Pointed'
  <2>1. UNCHANGED <<mem, latest, wpc, call, nextTs, flush>>
    BY <1>1, Zenon DEF callVars
  <2>2. QED
    BY <1>6, <2>1, CommittedKeeps, Zenon
<1>8. EngTypeOK'
  <2>1. comp' \in [st : {"idle", "begun", "read", "unlinking"}, ids : SUBSET Ids,
                   paths : SUBSET Files, rows : SUBSET Rw, tops : SUBSET Rw]
    BY <1>1, <1>2, Zenon DEF EngTypeOK
  <2>2. registry' \in [Ids -> Files \cup {0}]
    BY <1>1, <1>2, Zenon DEF EngTypeOK
  <2>3. QED
    BY <1>1, <1>2, <2>1, <2>2, Zenon DEF EngTypeOK, boundVars, callVars
<1>9. Filed'
  <2>1. UNCHANGED <<flushes, compactions, flush>>
    BY <1>1, Zenon DEF boundVars
  <2>2. nextBlock \in Nat /\ nextSst \in Nat /\ flushes \in Nat /\ compactions \in Nat
    BY <1>2, EngineConstants DEF EngTypeOK
  <2>3. /\ nextBlock + (IF flush.st = "begun" THEN 2 ELSE 0) + 0 <= 1 + 2 * flushes + compactions
        /\ nextSst + 0 <= 1 + flushes + compactions
    BY <1>1, <1>2, <2>2 DEF Filed
  <2>4. ASSUME NEW s \in Registered'
        PROVE  /\ s < nextSst /\ registry'[s] < nextBlock
               /\ \E R \in SUBSET Rw : sstFiles[registry'[s]] = {[rows |-> R]}
    <3>1. s \in Registered /\ registry'[s] = registry[s]
      BY <1>4, Zenon
    <3>2. QED
      BY <1>2, <3>1, Zenon DEF Filed
  <2>5. \A s, t \in Registered' : registry'[s] = registry'[t] => s = t
    BY <1>2, <1>4 DEF Filed
  <2>6. QED
    BY <1>1, <1>2, <1>3, <2>1, <2>3, <2>4, <2>5, Zenon DEF Filed
<1>10. MemKeys' = MemKeys /\ MemRows' = MemRows
  BY <1>1, MemKept, Zenon
<1>11. Flushing'
  <2>1. flush.st \in {"begun", "written"} => registry'[flush.sst] = 0
    BY <1>1, <1>2, Zenon DEF Flushing
  <2>2. flush.st = "written" => \A s \in Registered' : registry'[s] # flush.file
    BY <1>2, <1>4, Zenon DEF Flushing
  <2>3. QED
    BY <1>1, <1>2, <1>3, <1>10, <2>1, <2>2, Zenon DEF Flushing
<1>12. Inputs'
  <2>1. comp.paths \subseteq {g \in Files : g < nextBlock}
    BY PathsBelow, Zenon
  <2>2. comp.paths = {registry[s] : s \in comp.ids} /\ comp.ids \subseteq Registered
    BY <1>1, <1>2, Zenon DEF Inputs
  <2>3. \A f \in comp.paths : \A s \in Registered' : registry'[s] # f
    BY <1>2, <1>4, <2>2 DEF Filed
  <2>4. QED
    BY <1>1, <1>3, <2>1, <2>3, Zenon DEF Inputs
<1>13. Alone'
  BY <1>1, Zenon DEF EngInv, Alone, Pending, callVars
<1>14. Merging'
  BY <1>3, Zenon DEF Merging
<1>15. QED
  BY <1>6, <1>7, <1>8, <1>9, <1>11, <1>12, <1>13, <1>14, Zenon DEF EngInv

\* A commit that writes and registers an output.
LEMMA CommitKeeps ==
    ASSUME EngInv, Ranked, CompactCommit, comp.rows # {}
    PROVE  Committed /\ EngInv'
<1> DEFINE n == nextSst
           f == nextBlock
<1>1. /\ comp.st = "read" /\ comp' = [comp EXCEPT !.st = "unlinking"]
      /\ sstFiles' = [sstFiles EXCEPT ![f] = {[rows |-> comp.rows]}]
      /\ registry' = [i \in Ids |-> IF i = n THEN f ELSE IF i \in comp.ids THEN 0 ELSE registry[i]]
      /\ art' = [k \in Keys |-> IF Relocated(k) THEN InSst(n, CommitRow(k)) ELSE art[k]]
      /\ nextSst' = n + 1 /\ nextBlock' = f + 1
      /\ UNCHANGED <<alive, mem, memNo, nextTs, callVars, flush, latest, boundVars>>
  BY CommitKept, Zenon
<1>2. Filed /\ Flushing /\ Inputs /\ EngTypeOK
  BY Zenon DEF EngInv
<1>3. comp'.st = "unlinking" /\ comp'.paths = comp.paths
  BY <1>1, <1>2, Zenon DEF EngTypeOK
<1>4. /\ n \in Nat \ {0} /\ f \in Nat \ {0} /\ flushes \in 0 .. MaxFlushes
      /\ compactions \in 0 .. MaxCompactions
  BY <1>2, Zenon DEF EngTypeOK
<1>5. f \in Files /\ n \in Ids
  <2>1. f + 1 <= 1 + 2 * flushes + compactions /\ n + 1 <= 1 + flushes + compactions
    BY <1>1, <1>2, <1>4 DEF Filed
  <2>2. QED
    BY <1>4, <2>1, EngineConstants DEF Files, Ids
<1>6. comp.rows \in SUBSET Rw
  BY <1>2, Zenon DEF EngTypeOK
<1>7. /\ sstFiles'[f] = {[rows |-> comp.rows]} /\ \A g \in Files \ {f} : sstFiles'[g] = sstFiles[g]
      /\ sstFiles' \in [Files -> SUBSET [rows : SUBSET Rw]]
  <2> DEFINE x == [rows |-> comp.rows]
             X == [rows : SUBSET Rw]
  <2>1. x \in X /\ sstFiles \in [Files -> SUBSET X] /\ sstFiles' = [sstFiles EXCEPT ![f] = {x}]
    BY <1>1, <1>2, <1>6, Zenon DEF EngTypeOK
  <2> HIDE DEF x, X, f
  <2>2. /\ sstFiles'[f] = {x} /\ \A g \in Files \ {f} : sstFiles'[g] = sstFiles[g]
        /\ sstFiles' \in [Files -> SUBSET X]
    BY <1>5, <2>1, Zenon
  <2>3. QED
    BY <2>2, Zenon DEF x, X
<1>8. \A s \in Registered : s \in Ids /\ s \in Nat /\ s < n /\ registry[s] \in Files \ {f}
                            /\ registry[s] < f
  <2>1. \A s \in Registered : s \in Ids /\ registry[s] \in Files /\ s < n /\ registry[s] < f
    BY <1>2, Zenon DEF EngTypeOK, Filed, Registered
  <2>2. QED
    BY <1>4, <2>1 DEF Ids, Files
<1>9. n \notin Registered /\ f # 0
  BY <1>4, <1>8
<1>10. /\ registry'[n] = f /\ \A s \in Registered \ comp.ids : registry'[s] = registry[s]
       /\ \A s \in Ids : s # n /\ registry[s] = 0 => registry'[s] = 0
       /\ \A s \in comp.ids : s \in Ids /\ s # n => registry'[s] = 0
  BY <1>1, <1>5, <1>8, <1>9, Zenon
<1> HIDE DEF n, f
<1>11. Registered' = (Registered \ comp.ids) \cup {n}
  <2>1. \A s \in Ids : s # n /\ s \notin Registered \ comp.ids => registry'[s] = 0
    BY <1>10, Zenon DEF Registered
  <2>2. \A s \in Registered \ comp.ids : registry'[s] # 0 /\ s \in Ids
    BY <1>10, Zenon DEF Registered
  <2>3. \A s : s \in Registered' <=> s \in Ids /\ registry'[s] # 0
    BY Zenon DEF Registered
  <2>4. QED
    BY <1>5, <1>9, <1>10, <2>1, <2>2, <2>3, Zenon
<1>12. \A s \in Registered \ comp.ids : RowsOf(s)' = RowsOf(s)
  BY <1>7, <1>8, <1>10, Zenon DEF RowsOf
<1>13. \A s : s = n => RowsOf(s)' = comp.rows
  <2> DEFINE x == [rows |-> comp.rows]
  <2>1. x.rows = comp.rows /\ sstFiles'[registry'[n]] = {x}
    BY <1>7, <1>10, Zenon
  <2> HIDE DEF x
  <2>2. UNION {y.rows : y \in {x}} = x.rows
    BY Zenon
  <2>3. QED
    BY <2>1, <2>2, Zenon DEF RowsOf
<1>14. Committed
  <2>1. \A s \in Registered' : s \notin Registered \ comp.ids =>
           s = nextSst /\ s \in Ids /\ RowsOf(s)' = comp.rows
    BY <1>5, <1>11, <1>13, Zenon DEF n
  <2>2. \A k \in Keys : art'[k] = IF comp.rows # {} /\ Relocated(k)
                                  THEN InSst(nextSst, CommitRow(k)) ELSE art[k]
    BY <1>1, Zenon DEF n
  <2>3. Registered \ comp.ids \subseteq Registered' /\ nextSst \in Registered'
    BY <1>11, Zenon DEF n
  <2>4. QED
    BY <1>1, <1>3, <1>12, <2>1, <2>2, <2>3, Zenon DEF Committed
<1>15. Ordered' /\ Current' /\ Pointed'
  <2>1. UNCHANGED <<mem, latest, wpc, call, nextTs, flush>>
    BY <1>1, Zenon DEF callVars
  <2>2. QED
    BY <1>14, <2>1, CommittedKeeps, Zenon
<1>16. EngTypeOK'
  <2>1. comp' \in [st : {"idle", "begun", "read", "unlinking"}, ids : SUBSET Ids,
                   paths : SUBSET Files, rows : SUBSET Rw, tops : SUBSET Rw]
    BY <1>1, <1>2, Zenon DEF EngTypeOK
  <2>2. registry' \in [Ids -> Files \cup {0}]
    BY <1>1, <1>2, <1>5, Zenon DEF EngTypeOK
  <2>3. nextSst' \in Nat \ {0} /\ nextBlock' \in Nat \ {0}
    BY <1>1, <1>4
  <2>4. ASSUME NEW k \in Keys, Relocated(k)
        PROVE  InSst(n, CommitRow(k)) \in Locations
    <3>1. PICK r \in comp.tops : r.key = k
      BY <2>4, Zenon DEF Relocated
    <3>2. CommitRow(k) \in Nat
      BY <1>1, <3>1, CommitRowIs, Zenon
    <3>3. QED
      BY <1>5, <3>2 DEF Locations
  <2>5. art' \in [Keys -> Locations]
    <3>1. \A k \in Keys : art[k] \in Locations
      BY <1>2, Zenon DEF EngTypeOK
    <3>2. QED
      BY <1>1, <2>4, <3>1, Zenon DEF n
  <2>6. QED
    BY <1>1, <1>2, <1>7, <2>1, <2>2, <2>3, <2>5, Zenon DEF EngTypeOK, boundVars, callVars
<1>17. Filed'
  <2>1. UNCHANGED <<flushes, compactions, flush>> /\ nextSst' = n + 1 /\ nextBlock' = f + 1
    BY <1>1, Zenon DEF boundVars
  <2>2. /\ nextBlock' + (IF flush.st = "begun" THEN 2 ELSE 0) + 0 <= 1 + 2 * flushes + compactions
        /\ nextSst' + 0 <= 1 + flushes + compactions
    BY <1>1, <1>2, <1>4, <2>1 DEF Filed, n, f
  <2>3. ASSUME NEW s \in Registered'
        PROVE  /\ s < nextSst' /\ registry'[s] < nextBlock'
               /\ \E R \in SUBSET Rw : sstFiles'[registry'[s]] = {[rows |-> R]}
    <3>1. CASE s = n
      <4>1. n < nextSst' /\ f < nextBlock'
        BY <1>4, <2>1
      <4>2. registry'[s] = f /\ sstFiles'[f] = {[rows |-> comp.rows]}
        BY <1>7, <1>10, <3>1, Zenon
      <4>3. QED
        BY <1>6, <3>1, <4>1, <4>2, Zenon
    <3>2. CASE s # n
      <4>1. s \in Registered \ comp.ids
        BY <1>11, <3>2, Zenon
      <4>2. /\ s < nextSst' /\ registry'[s] < nextBlock' /\ registry'[s] = registry[s]
            /\ registry[s] \in Files \ {f}
        BY <1>4, <1>8, <1>10, <2>1, <4>1 DEF Files
      <4>3. \E R \in SUBSET Rw : sstFiles[registry[s]] = {[rows |-> R]}
        BY <1>2, <4>1, Zenon DEF Filed
      <4>4. QED
        BY <1>7, <4>2, <4>3, Zenon
    <3>3. QED
      BY <3>1, <3>2, Zenon
  <2>4. \A s, t \in Registered' : registry'[s] = registry'[t] => s = t
    BY <1>2, <1>8, <1>10, <1>11 DEF Filed
  <2>5. \A g \in Files : g >= nextBlock' => sstFiles'[g] = {}
    <3>1. \A g \in Files : g >= nextBlock' => g >= f /\ g # f
      BY <1>4, <2>1 DEF Files
    <3>2. QED
      BY <1>2, <1>7, <3>1, Zenon DEF Filed, f
  <2>6. QED
    BY <1>3, <2>1, <2>2, <2>3, <2>4, <2>5, Zenon DEF Filed
<1>18. MemKeys' = MemKeys /\ MemRows' = MemRows
  BY <1>1, MemKept, Zenon
<1>19. Flushing'
  <2>1. flush.st \in {"begun", "written"} =>
           flush.sst \in Ids /\ flush.sst < n /\ registry[flush.sst] = 0 /\ flush.sst \in Nat
    BY <1>2, Zenon DEF Flushing, n, EngTypeOK
  <2>2. flush.st \in {"begun", "written"} => flush.sst < nextSst' /\ registry'[flush.sst] = 0
    BY <1>1, <1>4, <1>10, <2>1
  <2>3. flush.st = "written" =>
           /\ flush.file \in Files /\ flush.file < f /\ flush.file \notin comp.paths
           /\ sstFiles[flush.file] = {[rows |-> MemRows]} /\ flush.file \in Nat
           /\ \A s \in Registered : registry[s] # flush.file
    BY <1>2, Zenon DEF Flushing, f, EngTypeOK
  <2>4. flush.st = "written" =>
           /\ flush.file < nextBlock' /\ sstFiles'[flush.file] = sstFiles[flush.file]
           /\ \A s \in Registered' : registry'[s] # flush.file
    BY <1>1, <1>4, <1>7, <1>10, <1>11, <2>3
  <2>5. UNCHANGED flush /\ comp'.paths = comp.paths /\ flush.st # "idle" => flush.keys = MemKeys
    BY <1>1, <1>2, <1>3, Zenon DEF Flushing
  <2>6. QED
    BY <1>1, <1>2, <1>3, <1>18, <2>1, <2>2, <2>3, <2>4 DEF Flushing
<1>20. Inputs'
  <2>1. comp.paths \subseteq {g \in Files : g < f}
    BY PathsBelow, Zenon DEF f
  <2>2. comp.paths = {registry[s] : s \in comp.ids} /\ comp.ids \subseteq Registered
    BY <1>1, <1>2, Zenon DEF Inputs
  <2>3. \A g \in comp.paths : \A s \in Registered' : registry'[s] # g
    <3>1. \A s \in Registered \ comp.ids, t \in comp.ids : registry[s] # registry[t]
      BY <1>2, <2>2, Zenon DEF Filed
    <3>2. \A t \in comp.ids : registry[t] # f
      BY <1>8, <2>2, Zenon
    <3>3. QED
      BY <1>10, <1>11, <2>2, <3>1, <3>2
  <2>4. \A g \in comp.paths : g < nextBlock'
    BY <1>1, <1>4, <2>1 DEF Files
  <2>5. QED
    BY <1>3, <2>3, <2>4, Zenon DEF Inputs
<1>21. Alone'
  BY <1>1, Zenon DEF EngInv, Alone, Pending, callVars
<1>22. Merging'
  BY <1>3, Zenon DEF Merging
<1>23. QED
  BY <1>14, <1>15, <1>16, <1>17, <1>19, <1>20, <1>21, <1>22, Zenon DEF EngInv

\* A step that changes nothing but the tags.
LEMMA TagKeeps ==
    ASSUME EngInv, UNCHANGED <<alive, memVars, sstVars, nextTs, callVars, flush, comp, latest,
                               boundVars>>
    PROVE  EngInv'
<1>1. UNCHANGED <<sstFiles, registry, nextSst, nextBlock, flush, comp, flushes, compactions>>
  BY Zenon DEF sstVars, boundVars
<1>2. /\ Registered' = Registered /\ Seen' = Seen
      /\ \A s \in Registered : RowsOf(s)' = RowsOf(s)
  BY <1>1, FilesKept, Zenon
<1>3. MemKeys' = MemKeys /\ MemRows' = MemRows /\ Ordered' /\ Current' /\ Pointed'
  <2>1. UNCHANGED <<mem, art, latest, wpc, call, nextTs>> /\ UNCHANGED flush
    BY Zenon DEF memVars, callVars
  <2>2. QED
    BY <1>2, <2>1, ViewKept, Zenon
<1>4. EngTypeOK'
  BY Zenon DEF EngInv, EngTypeOK, memVars, sstVars, boundVars, callVars
<1>5. Filed' /\ Inputs'
  BY <1>1, <1>2 DEF EngInv, Filed, Inputs
<1>6. Flushing'
  BY <1>1, <1>2, <1>3, Zenon DEF EngInv, Flushing
<1>7. Alone'
  BY <1>1, Zenon DEF EngInv, Alone, Pending, callVars, memVars
<1>8. Merging'
  BY <1>1, <1>2, MergedKept, Zenon
<1>9. QED
  BY <1>3, <1>4, <1>5, <1>6, <1>7, <1>8, Zenon DEF EngInv

\* Without crashes the engine neither stops nor restarts.
LEMMA NoCrash ==
    ASSUME Undisturbed, EngInv
    PROVE  ~Crash /\ ~Restart
<1>1. alive = TRUE /\ crashes = 0 /\ MaxCrashes = 0
  BY Zenon DEF EngInv, EngTypeOK, Undisturbed
<1>2. ~(crashes < MaxCrashes)
  BY <1>1
<1>3. QED
  BY <1>1, <1>2, Zenon DEF Crash, Restart

\* Every step of the engine keeps the invariant.
LEMMA EngStep ==
    ASSUME Undisturbed, EngInv, Ranked, [EngNext]_engVars
    PROVE  EngInv'
<1>1. ASSUME NEW c \in WriteCalls, WriteStep(c)
      PROVE  EngInv'
  BY <1>1, StartKeeps, StartBatchKeeps, LogKeeps, ApplyKeeps, IndexKeeps, ApplyBatchKeeps, Zenon
     DEF WriteStep
<1>2. CASE FlushStep
  BY <1>2, FlushBeginKeeps, FlushWriteKeeps, FlushInstallKeeps, FlushSealKeeps, Zenon DEF FlushStep
<1>3. CASE CompactStep
  BY <1>3, CompactBeginKeeps, CompactReadKeeps, CommitEmptyKeeps, CommitKeeps, CompactUnlinkKeeps,
     Zenon DEF CompactStep
<1>4. CASE CreateTag
  BY <1>4, TagKeeps, Zenon DEF CreateTag
<1>5. CASE EngIdle \/ UNCHANGED engVars
  <2>1. UNCHANGED <<alive, memVars, sstVars, nextTs, callVars, flush, comp, latest, boundVars>>
    BY <1>5, Zenon DEF EngIdle, engVars
  <2>2. QED
    BY <2>1, TagKeeps, Zenon
<1>6. ~Crash /\ ~Restart
  BY NoCrash, Zenon
<1>7. QED
  BY <1>1, <1>2, <1>3, <1>4, <1>5, <1>6, Zenon DEF EngNext

-----------------------------------------------------------------------------
(* Version tags                                                            *)

\* Of the inputs of a compaction, the newest row at every tag is kept, unless
\* that is a tombstone and the key is dropped altogether.
Pinned ==
    /\ pins \subseteq Nat
    /\ comp.st = "read" =>
          \A p \in pins : \A r \in Merged :
             Top({x \in Merged : x.ts <= p}, r) =>
                r \in comp.rows \/ (r.del /\ \A q \in comp.rows : q.key # r.key)

\* The inputs of a compaction in progress do not change.
LEMMA InputsStay ==
    ASSUME EngInv, comp.st = "read", \A s \in Registered : registry'[s] = registry[s],
           \A s \in Registered : sstFiles'[registry[s]] = sstFiles[registry[s]], UNCHANGED comp
    PROVE  Merged' = Merged
<1>1. comp.ids \subseteq Registered
  BY Zenon DEF EngInv, Inputs
<1>2. \A s \in comp.ids : RowsOf(s)' = RowsOf(s)
  BY <1>1, Zenon DEF RowsOf
<1>3. QED
  BY <1>2, Zenon DEF Merged

\* Neither its inputs nor the tags change in a step that is none of
\* compaction's and creates no tag.
LEMMA OtherStep ==
    ASSUME Undisturbed, EngInv, EngNext, ~CompactStep, ~CreateTag
    PROVE  UNCHANGED <<comp, pins>> /\ (comp.st = "read" => Merged' = Merged)
<1>1. CASE UNCHANGED <<comp, pins, sstFiles, registry>>
  BY <1>1, InputsStay, Zenon
<1>2. CASE \E c \in WriteCalls : WriteStep(c)
  <2>1. UNCHANGED <<comp, pins, sstFiles, registry>>
    BY <1>2, Zenon DEF WriteStep, Start, StartBatch, Log, LogFails, TakeActive, Apply, Index,
       ApplyBatch, sstVars
  <2>2. QED
    BY <1>1, <2>1, Zenon
<1>3. CASE FlushBegin \/ FlushSeal \/ EngIdle
  <2>1. UNCHANGED <<comp, pins, sstFiles, registry>>
    BY <1>3, Zenon DEF FlushBegin, FlushSeal, EngIdle, engVars, sstVars
  <2>2. QED
    BY <1>1, <2>1, Zenon
<1>4. CASE FlushWrite
  <2>1. /\ UNCHANGED <<comp, pins, registry>>
        /\ \E x : sstFiles' = [sstFiles EXCEPT ![nextBlock + 1] = {x}]
    BY <1>4, Zenon DEF FlushWrite
  <2>2. PICK x : sstFiles' = [sstFiles EXCEPT ![nextBlock + 1] = {x}]
    BY <2>1, Zenon
  <2>3. \A s \in Registered : registry[s] \in Files /\ registry[s] # nextBlock + 1
    BY DEF EngInv, EngTypeOK, Filed, Registered, Files
  <2>4. \A s \in Registered : sstFiles'[registry[s]] = sstFiles[registry[s]]
    BY <2>2, <2>3, Zenon DEF EngInv, EngTypeOK
  <2>5. QED
    BY <2>1, <2>4, InputsStay, Zenon
<1>5. CASE FlushInstall
  <2>1. /\ UNCHANGED <<comp, pins, sstFiles>> /\ flush.st = "written"
        /\ registry' = [registry EXCEPT ![flush.sst] = flush.file]
    BY <1>5, Zenon DEF FlushInstall
  <2>2. \A s \in Registered : s \in Ids /\ s # flush.sst
    BY <2>1, Zenon DEF EngInv, Flushing, Registered
  <2>3. \A s \in Registered : registry'[s] = registry[s]
    BY <2>1, <2>2, Zenon DEF EngInv, EngTypeOK
  <2>4. QED
    BY <2>1, <2>3, InputsStay, Zenon
<1>6. QED
  BY <1>2, <1>3, <1>4, <1>5, NoCrash, Zenon DEF EngNext, FlushStep

\* The MVCC GC of compact_inner keeps the newest row at every tag that it
\* reads.
LEMMA PinsRead ==
    ASSUME EngInv, Ranked, Pinned, CompactRead
    PROVE  Pinned'
<1>1. comp.st = "begun" /\ UNCHANGED pins /\ pins \subseteq Nat
  BY Zenon DEF CompactRead, Pinned
<1>2. /\ comp'.rows = Survivors(Merged) /\ comp'.st = "read" /\ Merged' = Merged
  BY CompactReadKeeps, Zenon
<1>3. ASSUME NEW p \in pins, NEW r \in Merged, Top({x \in Merged : x.ts <= p}, r),
             r \notin Survivors(Merged)
      PROVE  r.del /\ \A q \in Survivors(Merged) : q.key # r.key
  <2> DEFINE R == Merged
             kept == Newest(R) \cup UNION {Newest({x \in R : x.ts <= q}) : q \in pins}
  <2>1. \A x : x \in Survivors(R) <=>
           x \in kept /\ \E q \in kept : q.key = x.key /\ (q \notin Newest(R) \/ ~q.del)
    BY Zenon DEF Survivors
  <2>2. r \in kept
    <3>1. r \in Newest({x \in R : x.ts <= p})
      BY <1>3, Zenon DEF Newest, Top
    <3>2. QED
      BY <3>1, Zenon
  <2> HIDE DEF kept
  <2>3. QED
    BY <1>3, <2>1, <2>2, Zenon
<1>4. \A p \in pins' : \A r \in Merged' :
         Top({x \in Merged' : x.ts <= p}, r) =>
            r \in comp'.rows \/ (r.del /\ \A q \in comp'.rows : q.key # r.key)
  BY <1>1, <1>2, <1>3, Zenon
<1>5. QED
  BY <1>1, <1>4, Zenon DEF Pinned

\* create_tag, while a compaction has selected its rows: the new tag is at the
\* latest timestamp, where the newest row of a key is the newest of all, which
\* is kept.
LEMMA PinsTag ==
    ASSUME EngInv, Pinned, CreateTag
    PROVE  Pinned'
<1> DEFINE t == nextTs - 1
<1>1. pins' = pins \cup {t} /\ t > 0 /\ UNCHANGED <<sstVars, comp>> /\ pins \subseteq Nat
  BY Zenon DEF CreateTag, Pinned
<1>2. nextTs \in Nat /\ t \in Nat
  BY <1>1 DEF EngInv, EngTypeOK
<1>3. pins' \subseteq Nat
  BY <1>1, <1>2, Zenon
<1>4. ASSUME comp.st = "read"
      PROVE  /\ Merged' = Merged /\ Merged \subseteq Seen
             /\ \A r \in Merged : r.ts <= t
  <2>1. UNCHANGED <<sstFiles, registry>> /\ UNCHANGED comp
    BY <1>1, Zenon DEF sstVars
  <2>2. Merged' = Merged
    BY <1>4, <2>1, InputsStay, Zenon
  <2>3. Merged \subseteq Seen
    BY <1>4, ReadHolds, Zenon
  <2>4. \A r \in Seen : r.ts \in Nat /\ r.ts < nextTs
    BY RowsTyped, Zenon DEF EngInv, Rw, Ordered, SeenOrdered
  <2>5. QED
    BY <1>2, <2>2, <2>3, <2>4
<1>5. ASSUME comp.st = "read", NEW p \in pins', NEW r \in Merged, Top({x \in Merged : x.ts <= p}, r)
      PROVE  r \in comp.rows \/ (r.del /\ \A q \in comp.rows : q.key # r.key)
  <2>1. CASE p \in pins
    BY <1>5, <2>1, Zenon DEF Pinned
  <2>2. CASE p = t
    <3>1. {x \in Merged : x.ts <= p} = Merged
      BY <1>4, <1>5, <2>2, Zenon
    <3>2. Top(Merged, r)
      BY <1>5, <3>1, Zenon
    <3>3. r.del \/ r \in comp.rows
      BY <1>5, <3>2, ReadHolds, Zenon
    <3>4. ASSUME NEW q \in comp.rows, q.key = r.key
          PROVE  r \in comp.rows
      <4>1. PICK u \in comp.rows : u.key = q.key /\ Top(Merged, u)
        BY <1>5, ReadHolds, Zenon
      <4>2. u \in Merged
        BY <1>5, <4>1, ReadHolds, Zenon
      <4>3. u = r
        BY <1>5, <3>2, <3>4, <4>1, <4>2, ReadHolds, Zenon
      <4>4. QED
        BY <4>1, <4>3, Zenon
    <3>5. QED
      BY <3>3, <3>4, Zenon
  <2>3. QED
    BY <1>1, <2>1, <2>2, Zenon
<1>6. UNCHANGED comp
  BY <1>1, Zenon
<1>7. QED
  BY <1>3, <1>4, <1>5, <1>6, Zenon DEF Pinned

\* Every step of the engine keeps the pinned rows.
LEMMA PinsStep ==
    ASSUME Undisturbed, EngInv, Ranked, Pinned, [EngNext]_engVars
    PROVE  Pinned'
<1>1. CASE CreateTag
  BY <1>1, PinsTag, Zenon
<1>2. CASE CompactRead
  BY <1>2, PinsRead, Zenon
<1>3. CASE CompactBegin \/ CompactCommit \/ CompactUnlink
  <2>1. UNCHANGED pins
    BY <1>3, Zenon DEF CompactBegin, CompactCommit, CompactUnlink
  <2>2. comp'.st # "read"
    <3>1. CASE CompactBegin
      BY <3>1, Zenon DEF CompactBegin, NoComp
    <3>2. CASE CompactCommit
      BY <3>2, CommitKept, Zenon DEF EngInv, EngTypeOK
    <3>3. CASE CompactUnlink
      BY <3>3 DEF CompactUnlink, NoComp, EngInv, EngTypeOK
    <3>4. QED
      BY <1>3, <3>1, <3>2, <3>3, Zenon
  <2>3. QED
    BY <2>1, <2>2, Zenon DEF Pinned
<1>4. CASE UNCHANGED engVars
  <2>1. UNCHANGED <<comp, pins, sstFiles, registry>>
    BY <1>4, Zenon DEF engVars, sstVars
  <2>2. Merged' = Merged
    BY <2>1, Zenon DEF Merged, RowsOf
  <2>3. QED
    BY <2>1, <2>2, Zenon DEF Pinned
<1>5. CASE EngNext /\ ~CompactStep /\ ~CreateTag
  BY <1>5, OtherStep, Zenon DEF Pinned
<1>6. QED
  BY <1>1, <1>2, <1>3, <1>4, <1>5, Zenon DEF CompactStep

\* The rows of k that a snapshot at t reads in the SSTs, and the newest.
Visible(R, k, t) == {r \in {q \in R : q.key = k} : r.ts <= t}
Newer(R) == {r \in R : \A q \in R : q.ts <= r.ts}
Last(k, t, r) ==
    \E s \in Registered : r \in RowsOf(s) /\ \A q \in RowsOf(s) \cap Visible(Seen, k,
       t) : q.ts <= r.ts

\* What scan_all_at can answer from the SSTs, in terms of the newest visible
\* row.
LEMMA SstAtIs ==
    ASSUME NEW k, NEW t
    PROVE  SstAt(k, t) = IF \E r \in Newer(Visible(Seen, k, t)) : r.del
                         THEN {{}} \cup {{r} : r \in {q \in Visible(Seen, k, t) :
                                                         ~q.del /\ Last(k, t, q)}}
                         ELSE {Newer(Visible(Seen, k, t))}
BY Zenon DEF SstAt, SstRows, Seen, Visible, Newer, Last

\* What a scan at a tag can answer from the SSTs after a commit it could
\* answer before: the newest visible row is kept, or it is a tombstone and the
\* key is gone.
LEMMA CommitSst ==
    ASSUME EngInv, Ranked, Pinned, Committed, NEW p \in pins, NEW k \in Keys
    PROVE  SstAt(k, p)' \subseteq SstAt(k, p)
<1> DEFINE V == Visible(Seen, k, p)
           W == Visible(Seen', k, p)
<1>1. comp.st = "read" /\ Seen = Beside \cup Merged /\ comp.rows \subseteq Merged
      /\ Seen \subseteq Rw
      /\ Seen' = Beside \cup comp.rows /\ p \in Nat
  BY ReadHolds, CommittedSeen, Zenon DEF Committed, Pinned
<1>2. \A r : r \in V <=> r \in Seen /\ r.key = k /\ r.ts <= p
  BY Zenon DEF Visible
<1>3. \A r : r \in W <=> r \in Seen' /\ r.key = k /\ r.ts <= p
  BY Zenon DEF Visible
<1> HIDE DEF V, W
<1>4. W \subseteq V
  BY <1>1, <1>2, <1>3, Zenon
<1>5. \A r \in Seen : r.ts \in Nat
  BY <1>1, Zenon DEF Rw
<1>6. \A r \in Beside, q \in Merged : q.key = r.key => q.ts < r.ts
  BY <1>1, ReadHolds, Zenon
<1>7. ASSUME NEW r \in Merged, r.key = k, r.ts <= p,
             \A q \in Merged : q.key = k /\ q.ts <= p => q.ts <= r.ts
      PROVE  r \in comp.rows \/ (r.del /\ \A q \in comp.rows : q.key # k)
  <2>1. Top({x \in Merged : x.ts <= p}, r)
    BY <1>7, Zenon DEF Top
  <2>2. QED
    BY <1>1, <1>7, <2>1, Zenon DEF Pinned
<1>8. ASSUME NEW r \in Newer(V)
      PROVE  r \in W \/ (r.del /\ W = {})
  <2>1. r \in Seen /\ r.key = k /\ r.ts <= p /\ \A q \in V : q.ts <= r.ts
    BY <1>2, Zenon DEF Newer
  <2>2. CASE r \in Beside
    BY <1>1, <1>3, <2>1, <2>2, Zenon
  <2>3. CASE r \notin Beside
    <3>1. r \in Merged
      BY <1>1, <2>1, <2>3, Zenon
    <3>2. \A q \in Merged : q.key = k /\ q.ts <= p => q.ts <= r.ts
      BY <1>1, <1>2, <2>1, Zenon
    <3>3. \A q \in Beside : ~(q.key = k /\ q.ts <= p)
      <4>1. SUFFICES ASSUME NEW q \in Beside, q.key = k, q.ts <= p
                     PROVE  FALSE
        BY Zenon
      <4>2. q.ts <= r.ts /\ r.ts < q.ts /\ q \in Seen
        BY <1>1, <1>2, <1>6, <2>1, <3>1, <4>1, Zenon
      <4>3. QED
        BY <1>5, <2>1, <4>2
    <3>4. r \in comp.rows \/ (r.del /\ \A q \in comp.rows : q.key # k)
      BY <1>7, <2>1, <3>1, <3>2, Zenon
    <3>5. QED
      BY <1>1, <1>3, <2>1, <3>3, <3>4, Zenon
  <2>4. QED
    BY <2>2, <2>3, Zenon
<1>9. \A q, r \in Newer(V) : q = r
  <2>1. SUFFICES ASSUME NEW q \in Newer(V), NEW r \in Newer(V)
                 PROVE  q = r
    BY Zenon
  <2>2. q \in Seen /\ r \in Seen /\ q.key = r.key /\ q.ts <= r.ts /\ r.ts <= q.ts
    BY <1>2, Zenon DEF Newer
  <2>3. q.ts = r.ts
    BY <1>5, <2>2
  <2>4. QED
    BY <1>1, <2>2, <2>3, ReadHolds, Zenon
<1>10. V # {} => Newer(V) # {}
  <2>1. SUFFICES ASSUME NEW v \in V
                 PROVE  \E r \in V : \A q \in V : q.ts <= r.ts
    BY Zenon DEF Newer
  <2>2. V \in SUBSET Seen
    BY <1>2, Zenon
  <2>3. PICK r \in V : r.key = v.key /\ Top(V, r)
    BY <2>2, Zenon DEF Ranked, Headed
  <2>4. \A q \in V : q.ts <= r.ts
    BY <1>2, <2>3, Zenon DEF Top
  <2>5. QED
    BY <2>4, Zenon
<1>11. ASSUME NEW q \in W, Last(k, p, q)'
       PROVE  Last(k, p, q)
  <2>1. PICK s \in Registered' :
           q \in RowsOf(s)' /\ \A x \in RowsOf(s)' \cap W : x.ts <= q.ts
    BY <1>11, Zenon DEF Last, W
  <2>2. CASE s \in Registered \ comp.ids
    <3>1. RowsOf(s)' = RowsOf(s) /\ RowsOf(s) \subseteq Beside
      BY <2>2, Zenon DEF Committed, Beside
    <3>2. RowsOf(s) \cap V \subseteq W
      BY <1>1, <1>2, <1>3, <3>1, Zenon
    <3>3. QED
      BY <2>1, <2>2, <3>1, <3>2, Zenon DEF Last, V
  <2>3. CASE s \notin Registered \ comp.ids
    <3>1. RowsOf(s)' = comp.rows
      BY <2>3, Zenon DEF Committed
    <3>2. q \in comp.rows /\ q \in Merged
      BY <1>1, <2>1, <3>1, Zenon
    <3>3. PICK m \in comp.ids : q \in RowsOf(m)
      BY <3>2, Zenon DEF Merged
    <3>4. m \in Registered /\ RowsOf(m) \subseteq Merged
      <4>1. comp.ids \subseteq Registered
        BY <1>1, ReadHolds, Zenon
      <4>2. QED
        BY <3>3, <4>1, Zenon DEF Merged
    <3>5. q.key = k /\ q.ts <= p
      BY <1>3, Zenon
    <3> DEFINE M == {x \in Merged : x.ts <= p}
    <3>6. PICK t \in M : t.key = q.key /\ Top(M, t)
      <4>1. M \in SUBSET Seen /\ q \in M
        BY <1>1, <3>2, <3>5, Zenon
      <4> HIDE DEF M
      <4>2. QED
        BY <4>1, Zenon DEF Ranked, Headed
    <3>7. t \in Merged /\ t.key = k /\ t.ts <= p
          /\ \A x \in Merged : x.key = k /\ x.ts <= p => x.ts <= t.ts
      BY <3>5, <3>6, Zenon DEF Top
    <3>8. t \in comp.rows
      BY <1>7, <3>2, <3>5, <3>7, Zenon
    <3>9. t.ts <= q.ts
      BY <1>1, <1>3, <2>1, <3>1, <3>7, <3>8, Zenon
    <3>10. \A x \in RowsOf(m) \cap V : x \in Seen /\ x.ts <= t.ts
      BY <1>2, <3>4, <3>7, Zenon
    <3>11. q \in Seen /\ t \in Seen
      BY <1>1, <3>2, <3>7, Zenon
    <3>12. ASSUME NEW x \in RowsOf(m) \cap V PROVE x.ts <= q.ts
      <4>1. x.ts \in Nat /\ t.ts \in Nat /\ q.ts \in Nat /\ x.ts <= t.ts
        BY <1>5, <3>10, <3>11, Zenon
      <4>2. QED
        BY <3>9, <4>1, NoLater, Zenon
    <3>13. QED
      BY <3>3, <3>4, <3>12, Zenon DEF Last, V
  <2>4. QED
    BY <2>2, <2>3, Zenon
<1> DEFINE A(X) == {{}} \cup {{r} : r \in {q \in X : ~q.del /\ Last(k, p, q)}}
           C(X) == {{}} \cup {{r} : r \in {q \in X : ~q.del /\ Last(k, p, q)'}}
<1>12. SstAt(k, p) = IF \E r \in Newer(V) : r.del THEN A(V) ELSE {Newer(V)}
  BY SstAtIs, Zenon DEF V
<1>13. SstAt(k, p)' = IF \E r \in Newer(W) : r.del THEN C(W) ELSE {Newer(W)}
  BY Zenon DEF SstAt, SstRows, Seen, Visible, Newer, Last, W
<1>14. C(W) \subseteq A(V)
  BY <1>4, <1>11, Zenon
<1>15. {} \in A(V)
  BY Zenon
<1> HIDE DEF A, C
<1>16. CASE W = {}
  <2>1. Newer(W) = {}
    BY <1>16, Zenon DEF Newer
  <2>2. SstAt(k, p)' = {{}}
    BY <1>13, <2>1, Zenon
  <2>3. CASE V = {}
    <3>1. Newer(V) = {}
      BY <2>3, Zenon DEF Newer
    <3>2. QED
      BY <1>12, <2>2, <3>1, Zenon
  <2>4. CASE V # {}
    <3>1. \E r \in Newer(V) : r.del
      BY <1>8, <1>10, <1>16, <2>4, Zenon
    <3>2. QED
      BY <1>12, <1>15, <2>2, <3>1, Zenon
  <2>5. QED
    BY <2>3, <2>4, Zenon
<1>17. CASE W # {}
  <2>1. PICK r \in Newer(V) : r \in W
    BY <1>4, <1>8, <1>10, <1>17, Zenon
  <2>2. Newer(V) = {r}
    BY <1>9, Zenon
  <2>3. r \in Newer(W)
    BY <1>4, <2>1, Zenon DEF Newer
  <2>4. \A q \in Newer(W) : q \in Newer(V)
    <3>1. SUFFICES ASSUME NEW q \in Newer(W)
                   PROVE  \A x \in V : x.ts <= q.ts
      BY <1>4, Zenon DEF Newer
    <3>2. r.ts <= q.ts /\ q \in Seen /\ r \in Seen
      BY <1>2, <1>4, <2>1, Zenon DEF Newer
    <3>3. \A x \in V : x \in Seen /\ x.ts <= r.ts
      BY <1>2, Zenon DEF Newer
    <3>4. QED
      BY <1>5, <3>2, <3>3
  <2>5. Newer(W) = Newer(V)
    BY <1>9, <2>2, <2>3, <2>4, Zenon
  <2>6. QED
    BY <1>12, <1>13, <1>14, <2>5, Zenon
<1>18. QED
  BY <1>16, <1>17, Zenon

\* The same of scan_all_at as a whole, since a commit leaves the memtable
\* alone.
LEMMA CommitPins ==
    ASSUME EngInv, Ranked, Pinned, CompactCommit, NEW p \in pins, NEW k \in Keys
    PROVE  ScanAt(k, p)' \subseteq ScanAt(k, p)
<1> DEFINE O(a) == {i \in MemAt(k, p) : \A r \in a : mem[k][i].ts >= r.ts}
           G(a) == IF O(a) = {} THEN a ELSE {r \in {Row(k, mem[k][i]) : i \in O(a)} : ~r.del}
<1>1. Committed
  BY CommitEmptyKeeps, CommitKeeps, Zenon
<1>2. SstAt(k, p)' \subseteq SstAt(k, p)
  BY <1>1, CommitSst, Zenon
<1>3. UNCHANGED mem
  BY CommitKept, Zenon
<1>4. MemAt(k, p)' = MemAt(k, p)
  BY <1>3, Zenon DEF MemAt
<1>5. ScanAt(k, p) = {G(a) : a \in SstAt(k, p)}
  BY Zenon DEF ScanAt
<1>6. ScanAt(k, p)' = {G(a) : a \in SstAt(k, p)'}
  <2> DEFINE P(a) == {i \in MemAt(k, p)' : \A r \in a : mem'[k][i].ts >= r.ts}
             H(a) == IF P(a) = {} THEN a ELSE {r \in {Row(k, mem'[k][i]) : i \in P(a)} : ~r.del}
  <2>1. ScanAt(k, p)' = {H(a) : a \in SstAt(k, p)'}
    BY Zenon DEF ScanAt
  <2>2. \A a : H(a) = G(a)
    BY <1>3, <1>4, Zenon
  <2> HIDE DEF G, H
  <2>3. QED
    BY <2>1, <2>2, Zenon
<1> HIDE DEF G
<1>7. QED
  BY <1>2, <1>5, <1>6, Zenon

=============================================================================
