------------------------------- MODULE BlobLog -------------------------------
(***************************************************************************)
(* crates/galaxdb-storage/src/blob_log/mod.rs: content-addressed storage   *)
(* of large values in files, one per writer queue, with reference counts   *)
(* and a garbage collection that moves the live values of a file to a new  *)
(* one.  Each lock is taken and released in a step of its own.             *)
(*                                                                         *)
(* A value stands for its hash and for its bytes; an entry takes one unit  *)
(* of space.  A writer keeps its file open: when the file is unlinked, it  *)
(* goes on appending to a file no reader can open.                         *)
(***************************************************************************)
EXTENDS Naturals, Sequences, FiniteSets

CONSTANTS
    BlobWrites,         \* calls of write, each made once
    BlobValues,
    Queues,             \* num_queues; queue q writes file q
    MaxGcs              \* bound on run_gc calls

ASSUME BlobConstants == Queues \in Nat \ {0} /\ MaxGcs \in Nat

QueueFiles == 0 .. Queues - 1
BlobFiles == 0 .. Queues + MaxGcs * Cardinality(BlobWrites)
Ref(f, o) == [file |-> f, off |-> o]

VARIABLES
    entries,            \* BlobFiles -> sequence of values in the file's inode
    linked,             \* the files that have a name in blob_dir
    index,              \* value -> ref, a partial function
    liveRefs,           \* ref -> count, a partial function
    nextWriter, nextFileId,
    bPc, bCall,         \* per write: where it is; its value and its ref
    gc,                 \* the collection in progress
    gcs,
    held,               \* history: write -> the value its caller still needs
    moved,              \* history: refs whose value a collection moved
    orphans,            \* history: refs appended to a file already unlinked
    stale,              \* history: refs a deduplicated write took from an
                        \* index entry whose file was already unlinked
    gcOverlap           \* history: a write or mark_dead ran inside a collection

blobVars == <<entries, linked, index, liveRefs, nextWriter, nextFileId, bPc, bCall, gc, gcs,
              held, moved, orphans, stale, gcOverlap>>
blobHist == <<held, moved, orphans, stale, gcOverlap>>
blobStore == <<entries, linked, nextFileId>>

NoGc == [st |-> "idle", todo |-> {}, file |-> 0, live |-> {}, new |-> {}]

BlobInit ==
    /\ entries = [f \in BlobFiles |-> <<>>] /\ linked = QueueFiles
    /\ index = <<>> /\ liveRefs = <<>> /\ nextWriter = 0 /\ nextFileId = Queues
    /\ bPc = [w \in BlobWrites |-> "idle"] /\ bCall = [w \in BlobWrites |-> {}]
    /\ gc = NoGc /\ gcs = 0
    /\ held = <<>> /\ moved = {} /\ orphans = {} /\ stale = {} /\ gcOverlap = FALSE

BGoto(w, l) == bPc' = [bPc EXCEPT ![w] = l]
With(fn, x, y) == [z \in DOMAIN fn \cup {x} |-> IF z = x THEN y ELSE fn[z]]
Without(fn, xs) == [z \in DOMAIN fn \ xs |-> fn[z]]
Count(r) == IF r \in DOMAIN liveRefs THEN liveRefs[r] ELSE 0

\* read: the file is opened by name, the entry's header and checksum checked.
Readable(r, v) ==
    r.file \in linked /\ r.off \in DOMAIN entries[r.file] /\ entries[r.file][r.off] = v

GcRuns == gc.st # "idle"

----------------------------------------------------------------------------
(* write                                                                   *)

\* A value already indexed is counted once more, under both locks.
WriteDedup(w, v) ==
    /\ bPc[w] = "idle"
    /\ gcOverlap' = (gcOverlap \/ GcRuns)
    /\ IF v \in DOMAIN index
       THEN /\ liveRefs' = With(liveRefs, index[v], Count(index[v]) + 1)
            /\ bCall' = [bCall EXCEPT ![w] = {[val |-> v, ref |-> index[v]]}]
            /\ stale' = IF index[v].file \in linked THEN stale ELSE stale \cup {index[v]}
            /\ BGoto(w, "done") /\ held' = With(held, w, v)
       ELSE /\ bCall' = [bCall EXCEPT ![w] = {[val |-> v, ref |-> Ref(0, 0)]}]
            /\ BGoto(w, "append") /\ UNCHANGED <<liveRefs, held, stale>>
    /\ UNCHANGED <<blobStore, index, nextWriter, gc, gcs, moved, orphans>>

\* The next queue's writer appends the entry to the file it has open.
WriteAppend(w) ==
    LET f == nextWriter % Queues
        r == Ref(f, Len(entries[f]) + 1)
    IN  /\ bPc[w] = "append" /\ BGoto(w, "index")
        /\ nextWriter' = nextWriter + 1
        /\ \E c \in bCall[w] :
              /\ entries' = [entries EXCEPT ![f] = Append(@, c.val)]
              /\ bCall' = [bCall EXCEPT ![w] = {[c EXCEPT !.ref = r]}]
        /\ orphans' = IF f \in linked THEN orphans ELSE orphans \cup {r}
        /\ gcOverlap' = (gcOverlap \/ GcRuns)
        /\ UNCHANGED <<linked, index, liveRefs, nextFileId, gc, gcs, held, moved, stale>>

WriteIndex(w) ==
    /\ bPc[w] = "index" /\ BGoto(w, "live")
    /\ \E c \in bCall[w] : index' = With(index, c.val, c.ref)
    /\ gcOverlap' = (gcOverlap \/ GcRuns)
    /\ UNCHANGED <<blobStore, liveRefs, nextWriter, bCall, gc, gcs, held, moved, orphans, stale>>

WriteLive(w) ==
    /\ bPc[w] = "live" /\ BGoto(w, "done")
    /\ \E c \in bCall[w] : /\ liveRefs' = With(liveRefs, c.ref, Count(c.ref) + 1)
                           /\ held' = With(held, w, c.val)
    /\ gcOverlap' = (gcOverlap \/ GcRuns)
    /\ UNCHANGED <<blobStore, index, nextWriter, bCall, gc, gcs, moved, orphans, stale>>

\* mark_dead with the reference the write returned; a reference that is not
\* counted, because its value was moved, changes nothing.
MarkDead(w) ==
    /\ w \in DOMAIN held
    /\ held' = Without(held, {w})
    /\ \E c \in bCall[w] :
          liveRefs' = IF Count(c.ref) <= 1 THEN Without(liveRefs, {c.ref})
                      ELSE With(liveRefs, c.ref, Count(c.ref) - 1)
    /\ gcOverlap' = (gcOverlap \/ GcRuns)
    /\ UNCHANGED <<blobStore, index, nextWriter, bPc, bCall, gc, gcs, moved, orphans, stale>>

----------------------------------------------------------------------------
(* run_gc                                                                  *)

LiveIn(f) == {r \in DOMAIN liveRefs : r.file = f}

\* collect_file_stats: the files more than half of whose space is dead.
NeedsGc == {f \in linked : 2 * Cardinality(LiveIn(f)) < Len(entries[f])}

GcBegin ==
    /\ ~GcRuns /\ gcs < MaxGcs /\ NeedsGc # {}
    /\ gcs' = gcs + 1
    /\ gc' = [NoGc EXCEPT !.st = "next", !.todo = NeedsGc]
    /\ gcOverlap' = (gcOverlap \/ \E w \in BlobWrites : bPc[w] \notin {"idle", "done"})
    /\ UNCHANGED <<blobStore, index, liveRefs, nextWriter, bPc, bCall, held, moved, orphans, stale>>

\* The next file: the references that are live in it.
GcFile(f) ==
    /\ gc.st = "next" /\ f \in gc.todo
    /\ gc' = [gc EXCEPT !.todo = @ \ {f}, !.file = f, !.live = LiveIn(f), !.new = {},
                        !.st = IF LiveIn(f) = {} THEN "unlink" ELSE "copy"]
    /\ UNCHANGED <<blobStore, index, liveRefs, nextWriter, bPc, bCall, gcs, blobHist>>

\* The live values are copied into a new file in some order; one that cannot
\* be read is left out.
GcCopy ==
    LET good == {r \in gc.live : r.file \in linked /\ r.off \in DOMAIN entries[r.file]}
        at(r) == Cardinality({q \in good : q.off <= r.off})
    IN  /\ gc.st = "copy"
        /\ linked' = linked \cup {nextFileId} /\ nextFileId' = nextFileId + 1
        /\ entries' = [entries EXCEPT ![nextFileId] =
              [i \in 1 .. Cardinality(good) |->
                  entries[gc.file][(CHOOSE r \in good : at(r) = i).off]]]
        /\ gc' = [gc EXCEPT !.st = "switch",
                            !.new = {[old |-> r, new |-> Ref(nextFileId, at(r))] : r \in good}]
        /\ UNCHANGED <<index, liveRefs, nextWriter, bPc, bCall, gcs, blobHist>>

Olds == {m.old : m \in gc.new}
News == {m.new : m \in gc.new}
OldOf(n) == (CHOOSE m \in gc.new : m.new = n).old
Switched == {entries[n.file][n.off] : n \in News}

\* The reference counts are moved, the index is left as it was.
GcSwitchLiveOnly ==
    /\ gc.st = "switch" /\ gc' = [gc EXCEPT !.st = "unlink"]
    /\ liveRefs' = [r \in (DOMAIN liveRefs \ Olds) \cup News |->
          IF r \in News THEN (IF OldOf(r) \in DOMAIN liveRefs THEN liveRefs[OldOf(r)] ELSE 1)
          ELSE liveRefs[r]]
    /\ moved' = moved \cup Olds
    /\ UNCHANGED <<blobStore, index, nextWriter, bPc, bCall, gcs, held, orphans, stale, gcOverlap>>

\* Index and counts move together; a count that is gone meanwhile counts 1.
GcSwitch ==
    /\ gc.st = "switch" /\ gc' = [gc EXCEPT !.st = "unlink"]
    /\ index' = [v \in DOMAIN index \cup Switched |->
          IF v \in Switched THEN CHOOSE n \in News : entries[n.file][n.off] = v ELSE index[v]]
    /\ liveRefs' = [r \in (DOMAIN liveRefs \ Olds) \cup News |->
          IF r \in News THEN (IF OldOf(r) \in DOMAIN liveRefs THEN liveRefs[OldOf(r)] ELSE 1)
          ELSE liveRefs[r]]
    /\ moved' = moved \cup Olds
    /\ UNCHANGED <<blobStore, nextWriter, bPc, bCall, gcs, held, orphans, stale, gcOverlap>>

GcUnlink ==
    /\ gc.st = "unlink"
    /\ linked' = linked \ {gc.file}
    /\ gc' = [gc EXCEPT !.st = IF gc.live = {} THEN "forget"
                               ELSE IF gc.todo = {} THEN "idle" ELSE "next"]
    /\ UNCHANGED <<entries, nextFileId, index, liveRefs, nextWriter, bPc, bCall, gcs, blobHist>>

\* A file deleted with nothing live in it leaves no entry in the index.
GcForget ==
    /\ gc.st = "forget"
    /\ index' = Without(index, {v \in DOMAIN index : index[v].file = gc.file})
    /\ gc' = [gc EXCEPT !.st = IF gc.todo = {} THEN "idle" ELSE "next"]
    /\ UNCHANGED <<blobStore, liveRefs, nextWriter, bPc, bCall, gcs, blobHist>>

BlobWriteStep(w) ==
    (\E v \in BlobValues : WriteDedup(w, v)) \/ WriteAppend(w) \/ WriteIndex(w) \/ WriteLive(w)
GcStep == GcBegin \/ (\E f \in BlobFiles : GcFile(f)) \/ GcCopy \/ GcSwitch \/ GcUnlink \/ GcForget

BlobNext == (\E w \in BlobWrites : BlobWriteStep(w) \/ MarkDead(w)) \/ GcStep
BlobSpec == BlobInit /\ [][BlobNext]_blobVars

----------------------------------------------------------------------------
(* Properties                                                              *)

Quiet == ~gcOverlap /\ ~GcRuns /\ \A w \in BlobWrites : bPc[w] \in {"idle", "done"}

Now(w, c) == IF c.ref \in moved /\ held[w] \in DOMAIN index THEN index[held[w]] ELSE c.ref

\* A value a caller still needs reads back, from the reference its write
\* returned or, once a collection has moved it, from the index, unless a
\* write ran inside a collection, the entry was appended to a queue's file
\* that a collection had unlinked under its writer, or the write was
\* deduplicated against an index entry that a collection left behind.
HeldReadableUnlessOrphaned ==
    Quiet => \A w \in DOMAIN held : \A c \in bCall[w] :
        Now(w, c) \in orphans \cup stale \/ Readable(Now(w, c), held[w])

============================================================================
