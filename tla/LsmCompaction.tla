---------------------------- MODULE LsmCompaction ----------------------------
(***************************************************************************)
(* crates/galaxdb-storage/src/compaction/mod.rs: the levelled compaction   *)
(* library.  A tree of levels of sorted runs, the trigger that picks a     *)
(* level, the k-way merge of its runs, the MVCC garbage collection of the  *)
(* merged versions, and the split of the result into files of the next     *)
(* level.  A version is [key, ts] and has size one.                        *)
(***************************************************************************)
EXTENDS Naturals, Sequences, SequencesExt, FiniteSetsExt

CONSTANTS
    LsmKeys,            \* a set of numbers, compared as the keys' bytes are
    BottomLevel, L0Threshold, SizeRatio, SstRows,
    MaxVersions         \* bound on the versions written

ASSUME LsmConstants ==
    /\ LsmKeys \subseteq Nat /\ BottomLevel \in Nat \ {0} /\ L0Threshold \in Nat \ {0}
    /\ SizeRatio \in Nat \ {0} /\ SstRows \in Nat \ {0} /\ MaxVersions \in Nat

Levels == 0 .. BottomLevel

VARIABLES
    tree,               \* level -> sequence of files, each a sorted run
    lsmTs,              \* the last timestamp written
    newest,             \* history: key -> its newest timestamp, 0 if none
    oldestUsed          \* history: the oldest snapshot of the compaction just
                        \* made, 0 after a flush

lsmVars == <<tree, lsmTs, newest, oldestUsed>>

LsmInit ==
    /\ tree = [l \in Levels |-> <<>>] /\ lsmTs = 0 /\ newest = [k \in LsmKeys |-> 0]
    /\ oldestUsed = 0

\* (key ASC, timestamp DESC), the order of runs and of the merge heap.
Before(a, b) == a.key < b.key \/ (a.key = b.key /\ a.ts > b.ts)

Rows(files) == UNION {ToSet(files[i]) : i \in DOMAIN files}
LevelSize(l) == FoldLeft(LAMBDA n, f : n + Len(f), 0, tree[l])

\* add_sst keeps a level in the order of the files' first keys.
AddSst(files, f) ==
    LET p == Cardinality({i \in DOMAIN files : files[i][1].key < f[1].key})
    IN  InsertAt(files, p + 1, f)

----------------------------------------------------------------------------
(* CompactionTrigger::check                                                *)

Full(l) ==
    LET next == LevelSize(l + 1)
    IN  LevelSize(l) > 0 /\ LevelSize(l) >= IF next > 0 THEN next \div SizeRatio ELSE SstRows

Triggered(l) ==
    IF Len(tree[0]) >= L0Threshold THEN l = 0
    ELSE /\ l \in 1 .. BottomLevel - 1 /\ Full(l)
         /\ \A m \in 1 .. l - 1 : ~Full(m)

----------------------------------------------------------------------------
(* MergeIterator, MvccGarbageCollector and split_into_ssts                 *)

\* The heap holds the head of every run that is not exhausted; the first in
\* order is popped and its run advanced.
Merge(runs) ==
    LET total == FoldLeft(LAMBDA n, r : n + Len(r), 0, runs)
        m[n \in 0 .. total] ==
            IF n = 0 THEN [out |-> <<>>, at |-> [r \in DOMAIN runs |-> 1]]
            ELSE LET s == m[n - 1]
                     open == {r \in DOMAIN runs : s.at[r] <= Len(runs[r])}
                     top == CHOOSE r \in open : \A q \in open \ {r} :
                                ~Before(runs[q][s.at[q]], runs[r][s.at[r]])
                 IN  [out |-> Append(s.out, runs[top][s.at[top]]),
                      at |-> [s.at EXCEPT ![top] = @ + 1]]
    IN  m[total].out

NoSnapshot == MaxVersions + 1

ShouldKeepAfter(ts, isLatest, oldest, tags) == isLatest \/ ts > oldest \/ ts \in tags

\* The latest version of a key, versions at or after the oldest active
\* snapshot, and versions whose very timestamp a tag pins.
ShouldKeep(ts, isLatest, oldest, tags) == isLatest \/ ts >= oldest \/ ts \in tags

GcApply(run, oldest, tags) ==
    LET first(i) == i = 1 \/ run[i].key # run[i-1].key
        keep == {i \in DOMAIN run : ShouldKeep(run[i].ts, first(i), oldest, tags)}
        kept == SetToSortSeq(keep, <)
    IN  [j \in DOMAIN kept |-> run[kept[j]]]

\* Files of at most SstRows versions, in order.
SplitIntoSsts(run) ==
    [g \in 1 .. (Len(run) + SstRows - 1) \div SstRows |->
        SubSeq(run, (g - 1) * SstRows + 1, Min({g * SstRows, Len(run)}))]

----------------------------------------------------------------------------
(* Operations                                                              *)

\* A flush adds a run of new versions, one for each of some keys, to level 0.
FlushRun(ks) ==
    LET keys == SetToSortSeq(ks, <)
        run == [i \in DOMAIN keys |-> [key |-> keys[i], ts |-> lsmTs + i]]
    IN  /\ ks # {} /\ lsmTs + Cardinality(ks) <= MaxVersions
        /\ oldestUsed' = 0 /\ lsmTs' = lsmTs + Cardinality(ks)
        /\ tree' = [tree EXCEPT ![0] = AddSst(@, run)]
        /\ newest' = [k \in LsmKeys |-> IF k \in ks THEN CHOOSE t \in 1 .. MaxVersions :
                          [key |-> k, ts |-> t] \in ToSet(run) ELSE newest[k]]

\* maybe_compact and compact: the whole level is merged into the next.
MaybeCompact(l, oldest, tags) ==
    LET merged == GcApply(Merge(tree[l]), oldest, tags)
    IN  /\ Triggered(l)
        /\ tree' = [tree EXCEPT ![l] = <<>>, ![l+1] = FoldLeft(AddSst, @, SplitIntoSsts(merged))]
        /\ oldestUsed' = oldest /\ UNCHANGED <<lsmTs, newest>>

LsmNext ==
    \/ \E ks \in SUBSET LsmKeys : FlushRun(ks)
    \/ \E l \in 0 .. BottomLevel - 1, o \in 1 .. NoSnapshot, p \in 0 .. MaxVersions :
          MaybeCompact(l, o, {p} \ {0})
LsmSpec == LsmInit /\ [][LsmNext]_lsmVars

----------------------------------------------------------------------------
(* Properties                                                              *)

Versions(l, k) == {r.ts : r \in {r \in Rows(tree[l]) : r.key = k}}

ReadAt(l, k, t) == LET v == {s \in Versions(l, k) : s <= t} IN IF v = {} THEN 0 ELSE Max(v)

\* Garbage collection changes no read of the compacted level at a time at or
\* after the oldest active snapshot, unless what that read sees was written
\* before the snapshot: the version current when the snapshot was taken is
\* not kept once a newer one exists.
GcKeepsReadsUnlessOlder ==
    [][\A l \in 0 .. BottomLevel - 1 : tree[l] # <<>> /\ tree'[l] = <<>> =>
          \A k \in LsmKeys, t \in oldestUsed' .. MaxVersions :
              ReadAt(l, k, t) >= oldestUsed' => ReadAt(l, k, t) \in Versions(l + 1, k)']_lsmVars

============================================================================
