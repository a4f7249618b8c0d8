-------------------------------- MODULE Wal --------------------------------
(***************************************************************************)
(* The write-ahead log of crates/galaxdb-storage/src/wal: one              *)
(* pre-allocated file, an insert lock, a flush lock, inline group commit,  *)
(* checkpoints, truncation and recovery.                                   *)
(*                                                                         *)
(* Offsets are counted in records: a slot of the file holds one record,    *)
(* and slot i is the bytes [offset i-1, offset i).  The superblock is left *)
(* out, so WAL_HEADER_SIZE is offset 0.  `cache' is the file as the        *)
(* process sees it (the page cache), `disk' is what survives a power loss, *)
(* and `dirty' are the slots the kernel still has to write back.           *)
(***************************************************************************)
EXTENDS Naturals, FiniteSets

CONSTANTS
    Puts,        \* append / append_sync calls, each made at most once
    Ckpts,       \* write_checkpoint calls, each made at most once
    Truncs,      \* truncate_to_checkpoint calls, each made at most once
    NSlots,      \* records the modelled file can hold
    Chunk,       \* slots one pre-allocation adds (preallocate_bytes)
    MaxLosses,   \* bound: power losses
    MaxKills,    \* bound: process deaths that leave the page cache intact
    MaxErrors    \* bound: I/O errors returned by write_all / sync_data / rewrite

Calls == Puts \cup Ckpts

ASSUME WalConstants ==
    /\ NSlots \in Nat /\ Chunk \in Nat \ {0}
    /\ MaxLosses \in Nat /\ MaxKills \in Nat /\ MaxErrors \in Nat
    /\ Puts \cap Ckpts = {} /\ Calls \cap Truncs = {}

Slots == 1 .. NSlots

\* A slot is zero-filled, holds a damaged record, or holds a valid record.
Zero == [kind |-> "zero"]
Torn == [kind |-> "torn"]
Record(c, s) == [kind |-> "record", call |-> c, seq |-> s]
Contents == {Zero, Torn} \cup [kind : {"record"}, call : Calls, seq : Nat]

NoCheckpoint == [set |-> FALSE, offset |-> 0]
Checkpoints == [set : BOOLEAN, offset : Nat]
Free == {}                           \* a lock nobody holds; {c} is held by c

VARIABLES
    cache, disk, dirty,
    cut,            \* a set_len(0) that no sync has followed yet
    fileLen,        \* WriteState.file_len
    cursor,         \* position of the write fd
    writeOffset,    \* WriteState.write_offset and its atomic copy
    flushOffset,    \* flush_offset
    nextSeqNo,
    lastCheckpoint,
    writeLock,      \* holder of write_state, across steps (truncation only)
    syncLock,       \* holder of sync_file
    pc,             \* where each call is
    reg,            \* per call: its seq_no, my_end, target or captured offset
    up,             \* a process has the log open
    acked,          \* puts that returned Ok
    covered,        \* history: <<p, k>> when put p preceded the record of
                    \* checkpoint k as that was written
    losses, kills, errors

fileVars == <<cache, disk, dirty, cut, fileLen, cursor>>
offVars  == <<writeOffset, flushOffset, nextSeqNo, lastCheckpoint>>
lockVars == <<writeLock, syncLock>>
histVars == <<acked, covered>>
bounds   == <<losses, kills, errors>>
vars == <<fileVars, offVars, lockVars, pc, reg, up, histVars, bounds>>

Registers == [seq : Nat, end : Nat, target : Nat, off : Nat]
InitReg == [seq |-> 0, end |-> 0, target |-> 0, off |-> 0]

Init ==
    /\ cache = [i \in Slots |-> Zero] /\ disk = cache /\ dirty = {} /\ cut = FALSE
    /\ fileLen = Chunk /\ cursor = 0
    /\ writeOffset = 0 /\ flushOffset = 0 /\ nextSeqNo = 1
    /\ lastCheckpoint = NoCheckpoint
    /\ writeLock = Free /\ syncLock = Free
    /\ pc = [c \in Calls \cup Truncs |-> "idle"]
    /\ reg = [c \in Calls \cup Truncs |-> InitReg]
    /\ up = TRUE /\ acked = {} /\ covered = {}
    /\ losses = 0 /\ kills = 0 /\ errors = 0

Goto(c, l) == pc' = [pc EXCEPT ![c] = l]
At(c, l) == up /\ pc[c] = l
CanFail == errors < MaxErrors /\ errors' = errors + 1

----------------------------------------------------------------------------
(* Reading the file                                                        *)

\* deserialize gets as far as slot i: no zero or damaged slot up to there.
Readable(f, i) == \A j \in 1 .. i : f[j].kind = "record"

\* scan_logical_end: the readable records end at n.
IsLogicalEnd(f, n) ==
    /\ n \in 0 .. NSlots /\ Readable(f, n)
    /\ n < NSlots => f[n + 1].kind # "record"

\* recover_wal: what is replayed is what follows the last checkpoint.
Replayed(f) ==
    {c \in Calls : \E i \in Slots :
        /\ Readable(f, i) /\ f[i].call = c
        /\ \A k \in i .. NSlots : Readable(f, k) => f[k].call \notin Ckpts}

----------------------------------------------------------------------------
(* do_append, one step per point where another thread can intervene        *)

\* The disk once the slots in s have been written back.
Flushed(s) == [i \in Slots |-> IF i \in s THEN cache[i] ELSE disk[i]]

\* write_checkpoint reads current_size() before it appends its record.
ReadSize(c) ==
    /\ c \in Ckpts /\ At(c, "idle")
    /\ reg' = [reg EXCEPT ![c].off = flushOffset]
    /\ Goto(c, "sized")
    /\ UNCHANGED <<fileVars, offVars, lockVars, up, histVars, bounds>>

AllocSeq(c) ==
    /\ At(c, IF c \in Ckpts THEN "sized" ELSE "idle")
    /\ reg' = [reg EXCEPT ![c].seq = nextSeqNo]
    /\ nextSeqNo' = nextSeqNo + 1
    /\ Goto(c, "insert")
    /\ UNCHANGED <<fileVars, writeOffset, flushOffset, lastCheckpoint,
                   lockVars, up, histVars, bounds>>

\* The insert phase runs under write_state.  A full file is first extended
\* and synced as a whole, which leaves the cursor at write_offset.
Insert(c) ==
    LET grow == writeOffset + 1 > fileLen
        at   == IF grow THEN writeOffset ELSE cursor
        base == IF grow THEN {} ELSE dirty
    IN  /\ At(c, "insert") /\ writeLock = Free /\ at < NSlots
        /\ disk' = IF grow THEN Flushed(dirty) ELSE disk
        /\ fileLen' = IF grow THEN fileLen + Chunk ELSE fileLen
        /\ cache' = [i \in Slots |->
                        IF i = at + 1 THEN Record(c, reg[c].seq)
                        ELSE IF grow /\ i > fileLen THEN Zero ELSE cache[i]]
        /\ dirty' = base \cup {at + 1}
        /\ cursor' = at + 1
        /\ writeOffset' = writeOffset + 1
        /\ reg' = [reg EXCEPT ![c].end = writeOffset + 1]
        /\ covered' = covered \cup
               {x \in Puts \X Ckpts :
                   /\ x[2] = c
                   /\ \E i \in Slots : /\ i <= writeOffset
                                      /\ cache[i].kind = "record" /\ cache[i].call = x[1]}
        /\ Goto(c, "inserted")
        /\ cut' = (cut /\ ~grow)
        /\ UNCHANGED <<flushOffset, nextSeqNo, lastCheckpoint, lockVars, up,
                       acked, bounds>>

\* write_all failed part-way: the fd has moved over a damaged record,
\* write_offset has not.
InsertFails(c) ==
    /\ At(c, "insert") /\ writeLock = Free /\ writeOffset < fileLen
    /\ cursor < NSlots /\ CanFail
    /\ cache' = [cache EXCEPT ![cursor + 1] = Torn]
    /\ dirty' = dirty \cup {cursor + 1}
    /\ cursor' = cursor + 1
    /\ Goto(c, "failed")
    /\ UNCHANGED <<disk, cut, fileLen, offVars, lockVars, reg, up, histVars,
                   losses, kills>>

\* An append returns; write_checkpoint still has last_checkpoint to set.
Return(c) ==
    /\ Goto(c, IF c \in Ckpts THEN "appended" ELSE "done")
    /\ acked' = IF c \in Puts THEN acked \cup {c} ELSE acked

\* A committer that compares flush_offset with where its record starts.
CheckFlushedStart(c) ==
    /\ At(c, "inserted")
    /\ IF flushOffset + 1 < reg[c].end
       THEN Goto(c, "lock") /\ UNCHANGED acked
       ELSE Return(c)
    /\ UNCHANGED <<fileVars, offVars, lockVars, reg, up, covered, bounds>>

CheckFlushed(c) ==
    /\ At(c, "inserted")
    /\ IF flushOffset < reg[c].end
       THEN Goto(c, "lock") /\ UNCHANGED acked
       ELSE Return(c)
    /\ UNCHANGED <<fileVars, offVars, lockVars, reg, up, covered, bounds>>

\* A committer that waits for somebody else's sync instead of making its own.
LockSyncWaits(c) ==
    /\ At(c, "lock") /\ syncLock = Free
    /\ IF flushOffset < reg[c].end
       THEN Goto(c, "inserted") /\ UNCHANGED acked
       ELSE Return(c)
    /\ UNCHANGED <<fileVars, offVars, lockVars, reg, up, covered, bounds>>

LockSync(c) ==
    /\ At(c, "lock") /\ syncLock = Free
    /\ IF flushOffset < reg[c].end
       THEN syncLock' = {c} /\ Goto(c, "locked") /\ UNCHANGED acked
       ELSE Return(c) /\ UNCHANGED syncLock
    /\ UNCHANGED <<fileVars, offVars, writeLock, reg, up, covered, bounds>>

LoadTarget(c) ==
    /\ At(c, "locked")
    /\ reg' = [reg EXCEPT ![c].target = writeOffset]
    /\ Goto(c, "loaded")
    /\ UNCHANGED <<fileVars, offVars, lockVars, up, histVars, bounds>>

\* Everything the kernel still holds dirty reaches the disk.
SyncData(c) ==
    /\ At(c, "loaded")
    /\ disk' = Flushed(dirty)
    /\ dirty' = {} /\ cut' = FALSE
    /\ Goto(c, "synced")
    /\ UNCHANGED <<cache, fileLen, cursor, offVars, lockVars, reg, up, histVars,
                   bounds>>

\* A failed fdatasync marks the pages clean although some were not written.
SyncFails(c) ==
    /\ At(c, "loaded") /\ CanFail
    /\ \E written \in SUBSET dirty : disk' = Flushed(written)
    /\ dirty' = {}
    /\ syncLock' = Free
    /\ Goto(c, "failed")
    /\ UNCHANGED <<cache, cut, fileLen, cursor, offVars, writeLock, reg, up,
                   histVars, losses, kills>>

StoreFlush(c) ==
    /\ At(c, "synced")
    /\ flushOffset' = reg[c].target
    /\ syncLock' = Free
    /\ Return(c)
    /\ UNCHANGED <<fileVars, writeOffset, nextSeqNo, lastCheckpoint, writeLock,
                   reg, up, covered, bounds>>

\* The end of write_checkpoint: last_checkpoint has a lock of its own.
SetCheckpoint(c) ==
    /\ At(c, "appended")
    /\ lastCheckpoint' = [set |-> TRUE, offset |-> reg[c].off]
    /\ Goto(c, "done")
    /\ UNCHANGED <<fileVars, writeOffset, flushOffset, nextSeqNo, lockVars, reg,
                   up, histVars, bounds>>

----------------------------------------------------------------------------
(* truncate_to_checkpoint                                                  *)

CloneCheckpoint(t) ==
    /\ At(t, "idle") /\ t \in Truncs
    /\ IF lastCheckpoint.set
       THEN /\ reg' = [reg EXCEPT ![t].off = lastCheckpoint.offset]
            /\ Goto(t, "cloned")
       ELSE Goto(t, "done") /\ UNCHANGED reg
    /\ UNCHANGED <<fileVars, offVars, lockVars, up, histVars, bounds>>

TakeWriteLock(t) ==
    /\ At(t, "cloned") /\ writeLock = Free
    /\ writeLock' = {t}
    /\ Goto(t, "haveWrite")
    /\ UNCHANGED <<fileVars, offVars, syncLock, reg, up, histVars, bounds>>

\* The rewrite keeps one record too few.
KeptShort(t) ==
    IF writeOffset > reg[t].off + 1 THEN writeOffset - reg[t].off - 1 ELSE 0

Kept(t) == IF writeOffset > reg[t].off THEN writeOffset - reg[t].off ELSE 0

\* Under both locks: the bytes from the captured offset on are read back,
\* the file is cut to nothing and rewritten.  Nothing is synced yet.
Rewrite(t) ==
    /\ At(t, "haveWrite") /\ syncLock = Free
    /\ syncLock' = {t}
    /\ cache' = [i \in Slots |-> IF i <= Kept(t) THEN cache[i + reg[t].off] ELSE Zero]
    /\ dirty' = Slots /\ cut' = TRUE
    /\ reg' = [reg EXCEPT ![t].end = Kept(t)]
    /\ Goto(t, "rewritten")
    /\ UNCHANGED <<disk, fileLen, cursor, offVars, writeLock, up, histVars, bounds>>

\* sync_all, then both offsets are reset and the locks released.
TruncSync(t) ==
    LET newEnd == reg[t].end
    IN  /\ At(t, "rewritten")
        /\ disk' = cache /\ dirty' = {} /\ cut' = FALSE
        /\ cursor' = newEnd
        /\ fileLen' = IF newEnd > Chunk THEN newEnd ELSE Chunk
        /\ writeOffset' = newEnd /\ flushOffset' = newEnd
        /\ writeLock' = Free /\ syncLock' = Free
        /\ Goto(t, "shifted")
        /\ UNCHANGED <<cache, nextSeqNo, lastCheckpoint, reg, up, histVars, bounds>>

\* The rewrite failed after set_len(0): the locks are released, the offsets
\* are not reset, and only a part of the kept records is in the file.
TruncFails(t) ==
    /\ At(t, "rewritten") /\ CanFail
    /\ \E n \in 0 .. reg[t].end :
         /\ cache' = [i \in Slots |-> IF i <= n THEN cache[i] ELSE Zero]
         /\ cursor' = n
    /\ writeLock' = Free /\ syncLock' = Free
    /\ Goto(t, "failed")
    /\ UNCHANGED <<disk, dirty, cut, fileLen, offVars, reg, up, histVars, losses,
                   kills>>

FixOffset(t) ==
    /\ At(t, "shifted")
    /\ lastCheckpoint' = [lastCheckpoint EXCEPT !.offset = 0]
    /\ Goto(t, "done")
    /\ UNCHANGED <<fileVars, writeOffset, flushOffset, nextSeqNo, lockVars, reg,
                   up, histVars, bounds>>

----------------------------------------------------------------------------
(* Death and recovery                                                      *)

InFlight(c) == pc[c] \notin {"idle", "done", "failed", "dead"}

Die ==
    /\ up /\ up' = FALSE
    /\ pc' = [c \in DOMAIN pc |-> IF InFlight(c) THEN "dead" ELSE pc[c]]
    /\ writeLock' = Free /\ syncLock' = Free
    /\ UNCHANGED <<fileLen, cursor, offVars, reg, histVars, errors>>

\* The process dies, the machine does not: the page cache survives.
Kill ==
    /\ kills < MaxKills /\ kills' = kills + 1
    /\ Die
    /\ UNCHANGED <<cache, disk, dirty, cut, losses>>

\* Each dirty slot reached the disk, did not, or reached it in part; behind
\* an unsynced set_len(0) either the old file is still there or zeros are.
PowerLoss ==
    /\ losses < MaxLosses /\ losses' = losses + 1
    /\ Die
    /\ \/ cut /\ disk' = disk
       \/ \E fate \in [dirty -> {"new", "old", "torn"}] :
            disk' = [i \in Slots |->
                IF i \notin dirty THEN disk[i]
                ELSE CASE fate[i] = "new" -> cache[i]
                       [] fate[i] = "torn" -> Torn
                       [] fate[i] = "old" -> IF cut THEN Zero ELSE disk[i]]
    /\ cache' = disk' /\ dirty' = {} /\ cut' = FALSE
    /\ UNCHANGED kills

\* WalWriter::new on an existing file; nothing behind the logical end is
\* cleared and nothing is synced unless the file has to be extended.
Open ==
    /\ ~up /\ up' = TRUE
    /\ \E n \in 0 .. NSlots :
         /\ IsLogicalEnd(cache, n)
         /\ cursor' = n /\ writeOffset' = n /\ flushOffset' = n
    /\ nextSeqNo' = 1
    /\ lastCheckpoint' = NoCheckpoint
    /\ UNCHANGED <<cache, disk, dirty, cut, fileLen, lockVars, pc, reg, histVars,
                   bounds>>

\* Every call has ended and nothing more can happen.
Quiescent ==
    /\ up /\ \A c \in DOMAIN pc : pc[c] \in {"done", "failed", "dead"}
    /\ UNCHANGED vars

CallStep(c) ==
    \/ ReadSize(c) \/ AllocSeq(c) \/ Insert(c) \/ InsertFails(c)
    \/ CheckFlushed(c) \/ LockSync(c) \/ LoadTarget(c) \/ SyncData(c)
    \/ SyncFails(c) \/ StoreFlush(c) \/ SetCheckpoint(c)
TruncStep(t) ==
    \/ CloneCheckpoint(t) \/ TakeWriteLock(t) \/ Rewrite(t) \/ TruncSync(t)
    \/ TruncFails(t) \/ FixOffset(t)

Next ==
    \/ \E c \in Calls : CallStep(c)
    \/ \E t \in Truncs : TruncStep(t)
    \/ Kill \/ PowerLoss \/ Open \/ Quiescent

Spec == Init /\ [][Next]_vars

\* Threads keep running: a call that can take its next step does.  I/O
\* errors and deaths are never owed.
CallProgress(c) ==
    \/ ReadSize(c) \/ AllocSeq(c) \/ Insert(c) \/ CheckFlushed(c) \/ LockSync(c)
    \/ LoadTarget(c) \/ SyncData(c) \/ StoreFlush(c) \/ SetCheckpoint(c)
TruncProgress(t) ==
    \/ CloneCheckpoint(t) \/ TakeWriteLock(t) \/ Rewrite(t) \/ TruncSync(t)
    \/ FixOffset(t)
FairSpec ==
    /\ Spec /\ WF_vars(Open)
    /\ \A c \in Calls : WF_vars(CallProgress(c))
    /\ \A t \in Truncs : WF_vars(TruncProgress(t))

----------------------------------------------------------------------------
(* Properties                                                              *)

Labels == {"idle", "sized", "insert", "inserted", "lock", "locked", "loaded",
           "synced", "appended", "cloned", "haveWrite", "rewritten", "shifted",
           "done", "failed", "dead"}

\* The writer's fields, the file and the calls have their types.
TypeOK ==
    /\ cache \in [Slots -> Contents] /\ disk \in [Slots -> Contents]
    /\ dirty \subseteq Slots /\ cut \in BOOLEAN
    /\ fileLen \in Nat /\ cursor \in 0 .. NSlots
    /\ writeOffset \in Nat /\ flushOffset \in Nat /\ nextSeqNo \in Nat
    /\ lastCheckpoint \in Checkpoints
    /\ writeLock \subseteq Truncs /\ syncLock \subseteq Calls \cup Truncs
    /\ pc \in [Calls \cup Truncs -> Labels]
    /\ reg \in [Calls \cup Truncs -> Registers]
    /\ up \in BOOLEAN /\ acked \subseteq Puts /\ covered \subseteq Puts \X Ckpts
    /\ losses \in Nat /\ kills \in Nat /\ errors \in Nat

\* recover_wal reads the record of a checkpoint that covers p.
Checkpointed(f, p) ==
    \E i \in Slots : Readable(f, i) /\ <<p, f[i].call>> \in covered

\* "Durable on return" (append, append_sync): once do_append has returned Ok,
\* a power loss at any later moment leaves a file from which recover_wal
\* replays the record, unless it reads a checkpoint that covers it there.
DurableOnReturn == \A p \in acked : p \in Replayed(disk) \/ Checkpointed(disk, p)

\* flush_offset never covers bytes that no sync has made durable, so a
\* committer that skips its fdatasync because of it is right to do so.
FlushOffsetDurable ==
    up /\ ~cut => \A i \in 1 .. flushOffset : disk[i] = cache[i]

\* Every call that has begun ends (each is made once): no error path, death or
\* truncation leaves a lock held that another committer waits for.
CallsEnd == <>[](\A c \in Calls \cup Truncs : ~InFlight(c))

============================================================================
