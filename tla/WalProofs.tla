----------------------------- MODULE WalProofs -----------------------------
(* Proofs about Wal, for any number of calls, slots and power losses.      *)
EXTENDS Wal, TLAPS

----------------------------------------------------------------------------
(* Type correctness, when no I/O call fails                                *)

\* The write position is where the fd is, inside the file; a truncation in
\* progress has computed an end inside the file.
Position ==
    /\ errors = 0 /\ cursor = writeOffset
    /\ \A t \in Truncs : pc[t] = "rewritten" => reg[t].end <= NSlots

TypeInv == TypeOK /\ Position

\* The registers of a call keep their type when one of them is set.
LEMMA RegUpdate ==
    ASSUME reg \in [Calls \cup Truncs -> Registers],
           NEW c \in Calls \cup Truncs, NEW n \in Nat
    PROVE  /\ [reg EXCEPT ![c].seq = n] \in [Calls \cup Truncs -> Registers]
           /\ [reg EXCEPT ![c].end = n] \in [Calls \cup Truncs -> Registers]
           /\ [reg EXCEPT ![c].target = n] \in [Calls \cup Truncs -> Registers]
           /\ [reg EXCEPT ![c].off = n] \in [Calls \cup Truncs -> Registers]
  BY Zenon DEF Registers

\* Writing slots back keeps the disk a file.
LEMMA FlushedType ==
    ASSUME cache \in [Slots -> Contents], disk \in [Slots -> Contents], NEW s
    PROVE  Flushed(s) \in [Slots -> Contents]
  BY Zenon DEF Flushed

\* The writer starts with its types.
LEMMA WalInitTypes == Init => TypeInv
<1> SUFFICES ASSUME Init PROVE TypeInv
  BY Zenon
<1>1. cache \in [Slots -> Contents] /\ disk \in [Slots -> Contents]
  BY Zenon DEF Init, Contents
<1>2. InitReg \in Registers /\ NoCheckpoint \in Checkpoints
  BY Zenon DEF InitReg, Registers, NoCheckpoint, Checkpoints
<1>3. pc \in [Calls \cup Truncs -> Labels] /\ reg \in [Calls \cup Truncs -> Registers]
  BY <1>2, Zenon DEF Init, Labels
<1>4. \A t \in Truncs : pc[t] # "rewritten"
  BY Zenon DEF Init
<1>5. /\ fileLen \in Nat /\ cursor \in 0 .. NSlots /\ cursor = writeOffset
      /\ writeOffset \in Nat /\ flushOffset \in Nat /\ nextSeqNo \in Nat
      /\ losses \in Nat /\ kills \in Nat /\ errors \in Nat /\ errors = 0
  BY WalConstants DEF Init
<1>6. /\ dirty \subseteq Slots /\ cut \in BOOLEAN /\ lastCheckpoint \in Checkpoints
      /\ writeLock \subseteq Truncs /\ syncLock \subseteq Calls \cup Truncs
      /\ up \in BOOLEAN /\ acked \subseteq Puts /\ covered \subseteq Puts \X Ckpts
  BY <1>2, Zenon DEF Init, Free
<1> QED
  BY <1>1, <1>3, <1>4, <1>5, <1>6, Zenon DEF TypeInv, TypeOK, Position

\* One step of an append keeps the types.
LEMMA CallTypes ==
    ASSUME TypeInv, MaxErrors = 0, NEW c \in Calls, CallStep(c)
    PROVE  TypeInv'
<1> USE WalConstants DEF TypeInv, TypeOK, Position, Goto, At, Labels, fileVars, offVars,
        lockVars, histVars, bounds, Free
<1> c \in Calls \cup Truncs /\ c \notin Truncs
  BY Zenon
<1>1. CASE ReadSize(c)
  BY <1>1, RegUpdate, Zenon DEF ReadSize
<1>2. CASE AllocSeq(c)
  <2>1. reg' \in [Calls \cup Truncs -> Registers]
    BY <1>2, RegUpdate, Zenon DEF AllocSeq
  <2>2. \A t \in Truncs : pc'[t] = "rewritten" => reg'[t].end <= NSlots
    BY <1>2, Zenon DEF AllocSeq
  <2> QED
    BY <1>2, <2>1, <2>2 DEF AllocSeq
<1>3. CASE Insert(c)
  <2> DEFINE grow == writeOffset + 1 > fileLen
             at   == IF grow THEN writeOffset ELSE cursor
  <2>1. at = writeOffset /\ at + 1 \in Slots
    BY <1>3 DEF Insert, Slots
  <2>2. disk' \in [Slots -> Contents]
    BY <1>3, FlushedType, Zenon DEF Insert
  <2>3. cache' \in [Slots -> Contents]
    <3>1. Zero \in Contents /\ Record(c, reg[c].seq) \in Contents
      BY Zenon DEF Contents, Record, Registers
    <3> QED
      BY <1>3, <3>1, Zenon DEF Insert
  <2>4. dirty' \subseteq Slots /\ cut' \in BOOLEAN /\ fileLen' \in Nat
    BY <1>3, <2>1 DEF Insert
  <2>5. cursor' = writeOffset' /\ cursor' \in 0 .. NSlots /\ writeOffset' \in Nat
    BY <1>3, <2>1 DEF Insert, Slots
  <2>6. reg' \in [Calls \cup Truncs -> Registers]
    <3>1. reg' = [reg EXCEPT ![c].end = writeOffset + 1] /\ writeOffset + 1 \in Nat
      BY <1>3 DEF Insert
    <3> QED
      BY <3>1, RegUpdate, Zenon
  <2>7. covered' \subseteq Puts \X Ckpts
    BY <1>3, Zenon DEF Insert
  <2>8. pc' \in [Calls \cup Truncs -> Labels]
    BY <1>3, Zenon DEF Insert
  <2>9. \A t \in Truncs : pc'[t] = "rewritten" => reg'[t].end <= NSlots
    BY <1>3, Zenon DEF Insert
  <2> QED
    BY <1>3, <2>2, <2>3, <2>4, <2>5, <2>6, <2>7, <2>8, <2>9, Zenon DEF Insert
<1>4. CASE InsertFails(c)
  BY <1>4 DEF InsertFails, CanFail
<1>5. CASE CheckFlushed(c)
  BY <1>5 DEF CheckFlushed, Return
<1>6. CASE LockSync(c)
  BY <1>6 DEF LockSync, Return
<1>7. CASE LoadTarget(c)
  BY <1>7, RegUpdate, Zenon DEF LoadTarget
<1>8. CASE SyncData(c)
  BY <1>8, FlushedType, Zenon DEF SyncData
<1>9. CASE SyncFails(c)
  BY <1>9 DEF SyncFails, CanFail
<1>10. CASE StoreFlush(c)
  BY <1>10, Zenon DEF StoreFlush, Return, Registers
<1>11. CASE SetCheckpoint(c)
  <2>1. lastCheckpoint' \in Checkpoints
    BY <1>11, Zenon DEF SetCheckpoint, Checkpoints, Registers
  <2> QED
    BY <1>11, <2>1, Zenon DEF SetCheckpoint
<1> QED
  BY <1>1, <1>2, <1>3, <1>4, <1>5, <1>6, <1>7, <1>8, <1>9, <1>10, <1>11, Zenon DEF CallStep

\* One step of a truncation keeps the types.
LEMMA TruncTypes ==
    ASSUME TypeInv, MaxErrors = 0, NEW t \in Truncs, TruncStep(t)
    PROVE  TypeInv'
<1> USE WalConstants DEF TypeInv, TypeOK, Position, Goto, At, Labels, fileVars, offVars,
        lockVars, histVars, bounds, Free
<1> t \in Calls \cup Truncs
  BY Zenon
<1>1. CASE CloneCheckpoint(t)
  <2>1. lastCheckpoint.offset \in Nat
    BY Zenon DEF Checkpoints
  <2>2. reg' \in [Calls \cup Truncs -> Registers]
    <3>1. reg' = reg \/ \E n \in Nat : reg' = [reg EXCEPT ![t].off = n]
      BY <1>1, <2>1, Zenon DEF CloneCheckpoint
    <3>2. ASSUME NEW n \in Nat, reg' = [reg EXCEPT ![t].off = n]
          PROVE  reg' \in [Calls \cup Truncs -> Registers]
      BY <3>2, RegUpdate, Zenon
    <3> QED
      BY <3>1, <3>2, Zenon
  <2>3. \A u \in Truncs : pc'[u] = "rewritten" => reg'[u].end <= NSlots
    BY <1>1 DEF CloneCheckpoint
  <2>4. pc' \in [Calls \cup Truncs -> Labels]
    BY <1>1 DEF CloneCheckpoint
  <2> QED
    BY <1>1, <2>2, <2>3, <2>4, Zenon DEF CloneCheckpoint
<1>2. CASE TakeWriteLock(t)
  BY <1>2, Zenon DEF TakeWriteLock
<1>3. CASE Rewrite(t)
  <2>1. Kept(t) \in Nat /\ Kept(t) <= NSlots
    BY DEF Kept, Registers
  <2>2. \A i \in Slots : i <= Kept(t) => i + reg[t].off \in Slots
    BY DEF Kept, Slots, Registers
  <2>3. cache' \in [Slots -> Contents]
    BY <1>3, <2>2, Zenon DEF Rewrite, Contents, Zero
  <2>4. reg' \in [Calls \cup Truncs -> Registers]
    BY <1>3, <2>1, RegUpdate, Zenon DEF Rewrite
  <2>5. \A u \in Truncs : pc'[u] = "rewritten" => reg'[u].end <= NSlots
    BY <1>3, <2>1 DEF Rewrite
  <2> QED
    BY <1>3, <2>3, <2>4, <2>5, Zenon DEF Rewrite
<1>4. CASE TruncSync(t)
  <2>1. reg[t].end \in 0 .. NSlots /\ reg[t].end \in Nat
    BY <1>4 DEF TruncSync, Registers
  <2>2. fileLen' \in Nat /\ cursor' = writeOffset' /\ cursor' \in 0 .. NSlots
        /\ writeOffset' \in Nat /\ flushOffset' \in Nat
    BY <1>4, <2>1, Zenon DEF TruncSync
  <2>3. \A u \in Truncs : pc'[u] = "rewritten" => reg'[u].end <= NSlots
    BY <1>4, Zenon DEF TruncSync
  <2> QED
    BY <1>4, <2>2, <2>3, Zenon DEF TruncSync
<1>5. CASE TruncFails(t)
  BY <1>5 DEF TruncFails, CanFail
<1>6. CASE FixOffset(t)
  BY <1>6, Zenon DEF FixOffset, Checkpoints
<1> QED
  BY <1>1, <1>2, <1>3, <1>4, <1>5, <1>6, Zenon DEF TruncStep

\* Death and recovery keep the types: the disk a power loss leaves is a file.
LEMMA DeathTypes ==
    ASSUME TypeInv, MaxErrors = 0, Kill \/ PowerLoss \/ Open
    PROVE  TypeInv'
<1> USE WalConstants DEF TypeInv, TypeOK, Position, Labels, fileVars, offVars,
        lockVars, histVars, bounds, Free
<1>1. ASSUME Die
      PROVE  /\ pc' \in [Calls \cup Truncs -> Labels] /\ up' \in BOOLEAN
             /\ writeLock' = {} /\ syncLock' = {}
             /\ \A t \in Truncs : pc'[t] # "rewritten"
             /\ UNCHANGED <<fileLen, cursor, writeOffset, flushOffset, nextSeqNo,
                            lastCheckpoint, reg, acked, covered, errors>>
  BY <1>1, Zenon DEF Die, InFlight
<1>2. CASE Kill
  BY <1>1, <1>2 DEF Kill
<1>3. CASE PowerLoss
  <2>1. disk' \in [Slots -> Contents]
    <3>1. CASE disk' = disk
      BY <3>1, Zenon
    <3>2. ASSUME NEW fate \in [dirty -> {"new", "old", "torn"}],
                 disk' = [i \in Slots |->
                    IF i \notin dirty THEN disk[i]
                    ELSE CASE fate[i] = "new" -> cache[i]
                           [] fate[i] = "torn" -> Torn
                           [] fate[i] = "old" -> IF cut THEN Zero ELSE disk[i]]
          PROVE  disk' \in [Slots -> Contents]
      <4>1. Zero \in Contents /\ Torn \in Contents
        BY Zenon DEF Contents
      <4>2. ASSUME NEW i \in Slots PROVE disk'[i] \in Contents
        <5>1. CASE i \notin dirty
          BY <3>2, <5>1, Zenon
        <5>2. CASE i \in dirty
          <6>1. fate[i] \in {"new", "old", "torn"}
            BY <5>2, Zenon
          <6> QED
            BY <3>2, <5>2, <4>1, <6>1, Zenon
        <5> QED
          BY <5>1, <5>2, Zenon
      <4> QED
        BY <3>2, <4>2, Zenon
    <3> QED
      BY <1>3, <3>1, <3>2, Zenon DEF PowerLoss
  <2>2. cache' \in [Slots -> Contents] /\ dirty' = {} /\ cut' = FALSE
        /\ losses' \in Nat /\ kills' \in Nat /\ Die
    BY <1>3, <2>1 DEF PowerLoss
  <2> QED
    BY <1>1, <2>1, <2>2, Zenon
<1>4. CASE Open
  BY <1>4 DEF Open, IsLogicalEnd, NoCheckpoint, Checkpoints
<1> QED
  BY <1>2, <1>3, <1>4, Zenon

\* When no I/O call fails the writer's fields, the file and the calls keep
\* their types, whatever truncations, deaths and power losses happen.
THEOREM WalTypes == ASSUME MaxErrors = 0 PROVE Spec => []TypeOK
<1>1. TypeInv /\ [Next]_vars => TypeInv'
  <2> SUFFICES ASSUME TypeInv, [Next]_vars PROVE TypeInv'
    BY Zenon
  <2>1. CASE UNCHANGED vars
    BY <2>1, Zenon DEF TypeInv, TypeOK, Position, vars, fileVars, offVars, lockVars, histVars,
                       bounds
  <2> QED
    BY <2>1, CallTypes, TruncTypes, DeathTypes, Zenon DEF Next, Quiescent
<1>2. TypeInv => TypeOK
  BY Zenon DEF TypeInv
<1> QED
  BY <1>1, <1>2, WalInitTypes, PTL DEF Spec

----------------------------------------------------------------------------
(* Durability, as the engine uses the log: it writes no checkpoint and     *)
(* truncates nothing.  No I/O call fails and the process dies only with    *)
(* the machine; power losses are unlimited.                                *)

EngineUse == Ckpts = {} /\ Truncs = {} /\ MaxErrors = 0 /\ MaxKills = 0

\* The file: nothing lies beyond its length, clean slots are on the disk,
\* and a log nobody has open is clean.
FileInv ==
    /\ cut = FALSE /\ writeLock = {}
    /\ \A i \in Slots : i > fileLen => cache[i] = Zero /\ disk[i] = Zero
    /\ \A i \in Slots : i \notin dirty => disk[i] = cache[i]
    /\ \A i \in dirty : i <= fileLen
    /\ ~up => dirty = {}

\* The offsets: records up to write_offset, clean ones up to flush_offset.
OffsetInv ==
    up => /\ flushOffset <= writeOffset /\ writeOffset <= fileLen
          /\ \A i \in Slots : i <= writeOffset => cache[i].kind = "record"
          /\ \A i \in dirty : i > flushOffset

\* The flush lock: its holder alone is between lock and store, and the offset
\* it will publish is covered by its sync and never behind flush_offset.
SyncInv ==
    up => \A c \in Calls :
        /\ pc[c] \in {"locked", "loaded", "synced"} => syncLock = {c}
        /\ pc[c] \in {"loaded", "synced"} =>
              /\ reg[c].target <= writeOffset /\ flushOffset <= reg[c].target
              /\ reg[c].end <= reg[c].target
        /\ pc[c] = "synced" => \A i \in dirty : i > reg[c].target

\* A call that has inserted its record finds it in the slot it remembers.
CallInv ==
    up => \A c \in Calls :
        pc[c] \in {"inserted", "lock", "locked", "loaded", "synced"} =>
            /\ reg[c].end \in Slots /\ reg[c].end <= writeOffset
            /\ cache[reg[c].end].kind = "record" /\ cache[reg[c].end].call = c

\* An acknowledged put is on the disk, behind readable records only, and at
\* or before flush_offset while the log is open.
AckedInv ==
    \A p \in acked : \E i \in Slots :
        /\ Readable(disk, i) /\ disk[i].call = p
        /\ up => i <= flushOffset

\* No call survives the process.
ClosedInv == ~up => \A c \in Calls : ~InFlight(c)

WalInv ==
    /\ TypeInv /\ FileInv /\ OffsetInv /\ SyncInv /\ CallInv /\ AckedInv /\ ClosedInv

\* The log starts in the invariant.
LEMMA WalInitInv == ASSUME EngineUse PROVE Init => WalInv
<1> SUFFICES ASSUME Init PROVE WalInv
  BY Zenon
<1>1. TypeInv
  BY WalInitTypes, Zenon
<1>2. FileInv
  BY Zenon DEF Init, FileInv, Free
<1>3. OffsetInv
  BY WalConstants DEF Init, OffsetInv, Slots
<1>4. SyncInv /\ CallInv /\ AckedInv
  BY Zenon DEF Init, SyncInv, CallInv, AckedInv
<1>5. ClosedInv
  BY Zenon DEF Init, ClosedInv
<1> QED
  BY <1>1, <1>2, <1>3, <1>4, <1>5, Zenon DEF WalInv

\* Steps that touch neither the file nor the offsets nor an in-flight sync.
LEMMA AllocInv ==
    ASSUME WalInv, EngineUse, NEW c \in Calls, AllocSeq(c)
    PROVE  FileInv' /\ OffsetInv' /\ SyncInv' /\ CallInv' /\ AckedInv'
<1> USE DEF WalInv, AllocSeq, At, Goto, fileVars, lockVars, histVars, bounds
<1>1. FileInv' /\ OffsetInv'
  BY Zenon DEF FileInv, OffsetInv
<1>2. \A d \in Calls : pc'[d] \in {"inserted", "lock", "locked", "loaded", "synced"} =>
         pc'[d] = pc[d] /\ reg'[d].end = reg[d].end /\ reg'[d].target = reg[d].target
  BY Zenon DEF TypeInv, TypeOK, Registers
<1>3. SyncInv' /\ CallInv'
  BY <1>2 DEF SyncInv, CallInv
<1>4. AckedInv'
  BY Zenon DEF AckedInv, Readable
<1> QED
  BY <1>1, <1>3, <1>4, Zenon

\* The insert phase puts the record right behind the last one; extending the
\* file writes back everything that was dirty.
LEMMA InsertInv ==
    ASSUME WalInv, EngineUse, NEW c \in Calls, Insert(c)
    PROVE  FileInv' /\ OffsetInv' /\ SyncInv' /\ CallInv' /\ AckedInv'
<1> USE DEF WalInv, At, Goto, lockVars, bounds
<1> DEFINE grow == writeOffset + 1 > fileLen
           new  == writeOffset + 1
<1>0. /\ writeOffset \in Nat /\ fileLen \in Nat /\ flushOffset \in Nat /\ NSlots \in Nat
      /\ Chunk \in Nat \ {0} /\ cursor = writeOffset /\ new \in Slots
      /\ writeOffset <= fileLen /\ flushOffset <= writeOffset
      /\ cache \in [Slots -> Contents] /\ disk \in [Slots -> Contents] /\ dirty \subseteq Slots
  <2>1. /\ writeOffset \in Nat /\ fileLen \in Nat /\ flushOffset \in Nat
        /\ cache \in [Slots -> Contents] /\ disk \in [Slots -> Contents] /\ dirty \subseteq Slots
    BY Zenon DEF TypeInv, TypeOK
  <2>2. up /\ (grow \/ cursor < NSlots) /\ (grow => writeOffset < NSlots)
    BY Zenon DEF Insert
  <2>3. cursor = writeOffset /\ writeOffset <= fileLen /\ flushOffset <= writeOffset
    BY <2>2, Zenon DEF TypeInv, Position, OffsetInv
  <2>4. NSlots \in Nat /\ Chunk \in Nat \ {0}
    BY WalConstants, Zenon
  <2>5. new \in Slots
    BY <2>1, <2>2, <2>3, <2>4 DEF Slots
  <2> QED
    BY <2>1, <2>3, <2>4, <2>5, Zenon
<1>1. /\ disk' = (IF grow THEN Flushed(dirty) ELSE disk)
      /\ fileLen' = (IF grow THEN fileLen + Chunk ELSE fileLen)
      /\ cache' = [i \in Slots |-> IF i = new THEN Record(c, reg[c].seq)
                                   ELSE IF grow /\ i > fileLen THEN Zero ELSE cache[i]]
      /\ dirty' = (IF grow THEN {} ELSE dirty) \cup {new}
      /\ writeOffset' = new /\ reg' = [reg EXCEPT ![c].end = new]
      /\ pc' = [pc EXCEPT ![c] = "inserted"] /\ up /\ up' = up /\ pc[c] = "insert"
      /\ cut' = (cut /\ ~grow)
      /\ UNCHANGED <<flushOffset, writeLock, syncLock, acked>>
  BY <1>0, Zenon DEF Insert
<1>2. new <= fileLen' /\ (\A i \in Slots : i > fileLen' => i > fileLen /\ i # new)
  BY <1>0, <1>1 DEF Slots
<1>3. \A i \in Slots : i <= writeOffset => cache'[i] = cache[i]
  BY <1>0, <1>1 DEF Slots
<1>4. \A i \in Slots : i # new => cache'[i] = cache[i]
  BY <1>0, <1>1, Zenon DEF FileInv
<1>5. \A i \in Slots : disk'[i] = IF grow THEN cache[i] ELSE disk[i]
  BY <1>0, <1>1, Zenon DEF FileInv, Flushed
<1>6. FileInv'
  <2>1. \A i \in Slots : i > fileLen' => cache'[i] = Zero /\ disk'[i] = Zero
    BY <1>2, <1>4, <1>5, Zenon DEF FileInv
  <2>2. \A i \in Slots : i \notin dirty' => disk'[i] = cache'[i]
    BY <1>1, <1>4, <1>5, Zenon DEF FileInv
  <2>3. \A i \in dirty' : i <= fileLen'
    BY <1>0, <1>1, <1>2, Zenon DEF FileInv, Slots
  <2> QED
    BY <1>1, <2>1, <2>2, <2>3, Zenon DEF FileInv
<1>7. OffsetInv'
  <2>1. cache'[new].kind = "record"
    BY <1>0, <1>1, Zenon DEF Record
  <2>2. \A i \in Slots : i <= writeOffset' => cache'[i].kind = "record"
    BY <1>0, <1>1, <1>3, <2>1 DEF OffsetInv, Slots
  <2>3. \A i \in dirty' : i > flushOffset'
    BY <1>0, <1>1 DEF OffsetInv
  <2> QED
    BY <1>0, <1>1, <1>2, <2>2, <2>3 DEF OffsetInv
<1>8. \A d \in Calls : d # c => pc'[d] = pc[d] /\ reg'[d] = reg[d]
  BY <1>1, Zenon DEF TypeInv, TypeOK
<1>9. pc'[c] = "inserted" /\ reg'[c].end = new
  BY <1>1, Zenon DEF TypeInv, TypeOK, Registers
<1>10. SyncInv'
  <2> SUFFICES ASSUME NEW d \in Calls
               PROVE  /\ pc'[d] \in {"locked", "loaded", "synced"} => syncLock' = {d}
                      /\ pc'[d] \in {"loaded", "synced"} =>
                            /\ reg'[d].target <= writeOffset' /\ flushOffset' <= reg'[d].target
                            /\ reg'[d].end <= reg'[d].target
                      /\ pc'[d] = "synced" => \A i \in dirty' : i > reg'[d].target
    BY Zenon DEF SyncInv
  <2>1. CASE d = c
    BY <2>1, <1>9, Zenon
  <2>2. CASE d # c
    <3>1. pc'[d] = pc[d] /\ reg'[d] = reg[d] /\ reg[d].target \in Nat
      BY <2>2, <1>8, Zenon DEF TypeInv, TypeOK, Registers
    <3> QED
      BY <3>1, <1>0, <1>1 DEF SyncInv
  <2> QED
    BY <2>1, <2>2, Zenon
<1>11. CallInv'
  <2> SUFFICES ASSUME NEW d \in Calls,
                      pc'[d] \in {"inserted", "lock", "locked", "loaded", "synced"}
               PROVE  /\ reg'[d].end \in Slots /\ reg'[d].end <= writeOffset'
                      /\ cache'[reg'[d].end].kind = "record" /\ cache'[reg'[d].end].call = d
    BY Zenon DEF CallInv
  <2>1. CASE d = c
    BY <2>1, <1>0, <1>1, <1>9 DEF Record
  <2>2. CASE d # c
    <3>1. /\ reg[d].end \in Slots /\ reg[d].end <= writeOffset
          /\ cache[reg[d].end].kind = "record" /\ cache[reg[d].end].call = d
      BY <2>2, <1>1, <1>8, Zenon DEF CallInv
    <3>2. reg'[d].end = reg[d].end /\ reg[d].end <= writeOffset'
      BY <2>2, <3>1, <1>0, <1>1, <1>8 DEF Slots
    <3> QED
      BY <3>1, <3>2, <1>3, Zenon
  <2> QED
    BY <2>1, <2>2, Zenon
<1>12. AckedInv'
  <2> SUFFICES ASSUME NEW p \in acked
               PROVE  \E i \in Slots : /\ Readable(disk', i) /\ disk'[i].call = p
                                       /\ i <= flushOffset'
    BY <1>1, Zenon DEF AckedInv, Readable
  <2>1. PICK i \in Slots : Readable(disk, i) /\ disk[i].call = p /\ i <= flushOffset
    BY <1>1, Zenon DEF AckedInv
  <2>2. \A j \in Slots : j <= i => disk'[j] = disk[j]
    BY <2>1, <1>0, <1>5 DEF FileInv, OffsetInv, Slots
  <2>3. \A j \in 1 .. i : j \in Slots /\ j <= i
    BY <1>0 DEF Slots
  <2> QED
    BY <2>1, <2>2, <2>3, <1>0, <1>1 DEF Readable, Slots
<1> QED
  BY <1>6, <1>7, <1>10, <1>11, <1>12, Zenon

\* A put whose record lies at or before flush_offset may be acknowledged.
LEMMA AckInv ==
    ASSUME WalInv, EngineUse, NEW c \in Calls, up,
           pc[c] \in {"inserted", "lock", "locked", "loaded", "synced"},
           NEW n \in Nat, reg[c].end <= n, n <= writeOffset, \A i \in dirty : i > n
    PROVE  \E i \in Slots : Readable(disk, i) /\ disk[i].call = c /\ i <= n
<1> DEFINE e == reg[c].end
<1>1. /\ e \in Slots /\ e <= writeOffset
      /\ cache[e].kind = "record" /\ cache[e].call = c
  BY Zenon DEF WalInv, CallInv
<1>2. \A j \in 1 .. e : j \in Slots /\ j <= writeOffset /\ j \notin dirty
  BY <1>1, WalConstants DEF WalInv, TypeInv, TypeOK, Slots
<1>3. \A j \in 1 .. e : disk[j] = cache[j] /\ cache[j].kind = "record"
  BY <1>2, Zenon DEF WalInv, FileInv, OffsetInv
<1>4. e \in 1 .. e
  BY <1>1, WalConstants DEF Slots
<1>5. Readable(disk, e) /\ disk[e].call = c
  BY <1>1, <1>3, <1>4, Zenon DEF Readable
<1> QED
  BY <1>1, <1>5, Zenon

\* Acknowledging a durable put, with flush_offset unchanged.
LEMMA ReturnInv ==
    ASSUME WalInv, EngineUse, NEW c \in Calls, up, UNCHANGED <<fileVars, offVars, reg, up>>,
           writeLock' = writeLock,
           pc[c] \in {"inserted", "lock"}, flushOffset >= reg[c].end, Return(c),
           syncLock' = syncLock
    PROVE  FileInv' /\ OffsetInv' /\ SyncInv' /\ CallInv' /\ AckedInv'
<1> USE DEF WalInv, fileVars, offVars
<1>1. FileInv' /\ OffsetInv'
  BY Zenon DEF FileInv, OffsetInv
<1>2. c \in Puts /\ pc' = [pc EXCEPT ![c] = "done"] /\ acked' = acked \cup {c}
  BY Zenon DEF EngineUse, Return, Goto, Calls
<1>3. \A d \in Calls : pc'[d] = pc[d] \/ pc'[d] = "done"
  BY <1>2, Zenon DEF TypeInv, TypeOK
<1>4. SyncInv' /\ CallInv'
  BY <1>3, Zenon DEF SyncInv, CallInv
<1>5. \E i \in Slots : Readable(disk, i) /\ disk[i].call = c /\ i <= flushOffset
  <2>1. /\ flushOffset \in Nat /\ reg[c].end <= flushOffset /\ flushOffset <= writeOffset
        /\ \A i \in dirty : i > flushOffset
    BY Zenon DEF TypeInv, TypeOK, OffsetInv, Registers
  <2> QED
    BY <2>1, AckInv, Zenon
<1>6. AckedInv'
  BY <1>2, <1>5, Zenon DEF AckedInv, Readable
<1> QED
  BY <1>1, <1>4, <1>6, Zenon

\* The fast path and the re-check under the flush lock.
LEMMA CheckInv ==
    ASSUME WalInv, EngineUse, NEW c \in Calls, CheckFlushed(c) \/ LockSync(c) \/ LoadTarget(c)
    PROVE  FileInv' /\ OffsetInv' /\ SyncInv' /\ CallInv' /\ AckedInv'
<1> USE DEF At, lockVars, bounds
<1>1. flushOffset \in Nat /\ writeOffset \in Nat /\ reg[c].end \in Nat /\ c \in Calls \cup Truncs
  BY Zenon DEF WalInv, TypeInv, TypeOK, Registers
<1>2. CASE CheckFlushed(c)
  <2>1. CASE flushOffset < reg[c].end
    <3>1. pc' = [pc EXCEPT ![c] = "lock"] /\ pc[c] = "inserted"
          /\ UNCHANGED <<fileVars, offVars, lockVars, reg, up, acked>>
      BY <1>2, <2>1, Zenon DEF CheckFlushed, Goto
    <3>2. \A d \in Calls : pc'[d] = pc[d] \/ (d = c /\ pc'[d] = "lock")
      BY <3>1, Zenon DEF WalInv, TypeInv, TypeOK
    <3> QED
      BY <3>1, <3>2 DEF WalInv, FileInv, OffsetInv, SyncInv, CallInv, AckedInv, Readable,
                        fileVars, offVars
  <2>2. CASE ~(flushOffset < reg[c].end)
    BY <1>1, <1>2, <2>2, ReturnInv, SMTT(30) DEF CheckFlushed
  <2> QED
    BY <2>1, <2>2, Zenon
<1>3. CASE LockSync(c)
  <2>1. CASE flushOffset < reg[c].end
    <3>1. pc' = [pc EXCEPT ![c] = "locked"] /\ pc[c] = "lock" /\ up
          /\ syncLock = {} /\ syncLock' = {c}
          /\ UNCHANGED <<fileVars, offVars, writeLock, reg, up, acked>>
      BY <1>3, <2>1, Zenon DEF LockSync, Goto, Free
    <3>2. \A d \in Calls : (pc'[d] = pc[d] /\ d # c) \/ (d = c /\ pc'[d] = "locked")
      BY <3>1, Zenon DEF WalInv, TypeInv, TypeOK
    <3>3. \A d \in Calls : pc[d] \notin {"locked", "loaded", "synced"}
      BY <3>1, Zenon DEF WalInv, SyncInv
    <3>4. SyncInv'
      BY <3>1, <3>2, <3>3, Zenon DEF SyncInv
    <3>5. CallInv'
      BY <3>1, <3>2, Zenon DEF WalInv, CallInv, fileVars, offVars
    <3> QED
      BY <3>1, <3>4, <3>5, Zenon DEF WalInv, FileInv, OffsetInv, AckedInv, Readable, fileVars,
                                     offVars
  <2>2. CASE ~(flushOffset < reg[c].end)
    BY <1>1, <1>3, <2>2, ReturnInv DEF LockSync
  <2> QED
    BY <2>1, <2>2, Zenon
<1>4. CASE LoadTarget(c)
  <2>1. pc' = [pc EXCEPT ![c] = "loaded"] /\ pc[c] = "locked" /\ up
        /\ reg' = [reg EXCEPT ![c].target = writeOffset]
        /\ UNCHANGED <<fileVars, offVars, lockVars, up, acked>>
    BY <1>4, Zenon DEF LoadTarget, Goto, histVars
  <2>2. \A d \in Calls : d # c => pc'[d] = pc[d] /\ reg'[d] = reg[d]
    BY <2>1, Zenon DEF WalInv, TypeInv, TypeOK
  <2>3. pc'[c] = "loaded" /\ reg'[c].target = writeOffset /\ reg'[c].end = reg[c].end
    BY <2>1, Zenon DEF WalInv, TypeInv, TypeOK, Registers
  <2>4. SyncInv'
    <3>1. syncLock = {c} /\ flushOffset <= writeOffset /\ reg[c].end <= writeOffset
      BY <2>1, Zenon DEF WalInv, SyncInv, OffsetInv, CallInv
    <3> QED
      BY <1>1, <2>1, <2>2, <2>3, <3>1 DEF WalInv, SyncInv, fileVars, offVars
  <2>5. CallInv'
    BY <2>1, <2>2, <2>3 DEF WalInv, CallInv, fileVars, offVars
  <2> QED
    BY <2>1, <2>4, <2>5, Zenon DEF WalInv, FileInv, OffsetInv, AckedInv, Readable, fileVars, offVars
<1> QED
  BY <1>2, <1>3, <1>4, Zenon

\* The sync makes every slot clean; the store publishes the offset that was
\* loaded before it.
LEMMA SyncStoreInv ==
    ASSUME WalInv, EngineUse, NEW c \in Calls, SyncData(c) \/ StoreFlush(c)
    PROVE  FileInv' /\ OffsetInv' /\ SyncInv' /\ CallInv' /\ AckedInv'
<1> USE DEF At, Goto, lockVars, bounds
<1>1. flushOffset \in Nat /\ writeOffset \in Nat /\ reg[c].target \in Nat
      /\ reg[c].end \in Nat /\ c \in Calls \cup Truncs
  BY Zenon DEF WalInv, TypeInv, TypeOK, Registers
<1>2. CASE SyncData(c)
  <2>1. pc' = [pc EXCEPT ![c] = "synced"] /\ pc[c] = "loaded" /\ up
        /\ disk' = Flushed(dirty) /\ dirty' = {} /\ cut' = FALSE
        /\ UNCHANGED <<cache, fileLen, cursor, offVars, lockVars, reg, up, acked>>
    BY <1>2, Zenon DEF SyncData, histVars
  <2>2. \A j \in Slots : disk'[j] = cache[j]
    BY <2>1, Zenon DEF WalInv, FileInv, Flushed
  <2>3. FileInv' /\ OffsetInv'
    BY <2>1, <2>2, Zenon DEF WalInv, FileInv, OffsetInv, offVars
  <2>4. \A d \in Calls : (d # c /\ pc'[d] = pc[d]) \/ (d = c /\ pc'[d] = "synced")
    BY <2>1, Zenon DEF WalInv, TypeInv, TypeOK
  <2>5. SyncInv' /\ CallInv'
    BY <2>1, <2>4, Zenon DEF WalInv, SyncInv, CallInv, offVars
  <2>6. AckedInv'
    <3> SUFFICES ASSUME NEW p \in acked
                 PROVE  \E i \in Slots : Readable(disk', i) /\ disk'[i].call = p
                                         /\ i <= flushOffset
      BY <2>1, Zenon DEF AckedInv, Readable, offVars
    <3>1. PICK i \in Slots : Readable(disk, i) /\ disk[i].call = p /\ i <= flushOffset
      BY <2>1, Zenon DEF WalInv, AckedInv
    <3>2. \A j \in 1 .. i : j \in Slots /\ j <= flushOffset
      BY <1>1, <3>1, WalConstants DEF Slots
    <3>3. \A j \in 1 .. i : disk[j] = disk'[j]
      BY <1>1, <2>1, <2>2, <3>2, WalConstants DEF WalInv, FileInv, OffsetInv, Slots
    <3>4. i \in 1 .. i
      BY WalConstants DEF Slots
    <3> QED
      BY <3>1, <3>3, <3>4, Zenon DEF Readable
  <2> QED
    BY <2>3, <2>5, <2>6, Zenon
<1>3. CASE StoreFlush(c)
  <2>1. pc' = [pc EXCEPT ![c] = "done"] /\ pc[c] = "synced" /\ up
        /\ flushOffset' = reg[c].target /\ syncLock' = {} /\ acked' = acked \cup {c}
        /\ UNCHANGED <<fileVars, writeOffset, writeLock, reg, up>>
    BY <1>3, Zenon DEF StoreFlush, Return, EngineUse, Calls, Free
  <2>2. /\ syncLock = {c} /\ reg[c].target <= writeOffset /\ flushOffset <= reg[c].target
        /\ reg[c].end <= reg[c].target /\ \A i \in dirty : i > reg[c].target
    BY <2>1, Zenon DEF WalInv, SyncInv
  <2>3. FileInv' /\ OffsetInv'
    BY <2>1, <2>2, Zenon DEF WalInv, FileInv, OffsetInv, fileVars
  <2>4. \A d \in Calls : (d # c /\ pc'[d] = pc[d]) \/ (d = c /\ pc'[d] = "done")
    BY <2>1, Zenon DEF WalInv, TypeInv, TypeOK
  <2>5. \A d \in Calls : d # c => pc[d] \notin {"locked", "loaded", "synced"}
    BY <2>1, <2>2, Zenon DEF WalInv, SyncInv
  <2>6. SyncInv'
    BY <2>1, <2>4, <2>5, Zenon DEF SyncInv
  <2>7. CallInv'
    BY <2>1, <2>4, Zenon DEF WalInv, CallInv, fileVars
  <2>8. \E i \in Slots : Readable(disk, i) /\ disk[i].call = c /\ i <= reg[c].target
    BY <1>1, <2>1, <2>2, AckInv
  <2>9. \A p \in acked : \E i \in Slots : Readable(disk, i) /\ disk[i].call = p
                                           /\ i <= reg[c].target
    <3> SUFFICES ASSUME NEW p \in acked
                 PROVE  \E i \in Slots : /\ Readable(disk, i) /\ disk[i].call = p
                                         /\ i <= reg[c].target
      BY Zenon
    <3>1. PICK i \in Slots : Readable(disk, i) /\ disk[i].call = p /\ i <= flushOffset
      BY <2>1, Zenon DEF WalInv, AckedInv
    <3>2. i \in Nat /\ flushOffset \in Nat /\ reg[c].target \in Nat
      BY <1>1, WalConstants DEF Slots
    <3> QED
      BY <2>2, <3>1, <3>2
  <2>10. AckedInv'
    BY <2>1, <2>8, <2>9, Zenon DEF AckedInv, Readable, fileVars
  <2> QED
    BY <2>3, <2>6, <2>7, <2>10, Zenon
<1> QED
  BY <1>2, <1>3, Zenon

\* A power loss can only change dirty slots, and those lie behind
\* flush_offset; the log is then closed and clean.
LEMMA PowerLossInv ==
    ASSUME WalInv, EngineUse, PowerLoss
    PROVE  FileInv' /\ OffsetInv' /\ SyncInv' /\ CallInv' /\ AckedInv'
<1>1. /\ up /\ up' = FALSE /\ cache' = disk' /\ dirty' = {} /\ cut' = FALSE
      /\ writeLock' = {} /\ UNCHANGED <<fileLen, acked>>
  BY Zenon DEF PowerLoss, Die, Free, histVars
<1>2. OffsetInv' /\ SyncInv' /\ CallInv'
  BY <1>1, Zenon DEF OffsetInv, SyncInv, CallInv
<1>3. PICK fate \in [dirty -> {"new", "old", "torn"}] :
        disk' = [i \in Slots |->
                    IF i \notin dirty THEN disk[i]
                    ELSE CASE fate[i] = "new" -> cache[i]
                           [] fate[i] = "torn" -> Torn
                           [] fate[i] = "old" -> IF cut THEN Zero ELSE disk[i]]
  BY Zenon DEF PowerLoss, WalInv, FileInv
<1>4. \A i \in Slots : i \notin dirty => disk'[i] = disk[i]
  BY <1>3, Zenon
<1>5. \A i \in Slots : i > fileLen => i \notin dirty
  BY WalConstants DEF WalInv, TypeInv, TypeOK, FileInv, Slots
<1>6. FileInv'
  BY <1>1, <1>4, <1>5, Zenon DEF WalInv, FileInv
<1>7. AckedInv'
  <2> SUFFICES ASSUME NEW p \in acked
               PROVE  \E i \in Slots : Readable(disk', i) /\ disk'[i].call = p
    BY <1>1, Zenon DEF AckedInv, Readable
  <2>1. PICK i \in Slots : Readable(disk, i) /\ disk[i].call = p /\ i <= flushOffset
    BY <1>1, Zenon DEF WalInv, AckedInv
  <2>2. \A j \in 1 .. i : j \in Slots /\ j \notin dirty
    BY <1>1, <2>1, WalConstants DEF WalInv, TypeInv, TypeOK, OffsetInv, Slots
  <2>3. i \in 1 .. i
    BY WalConstants DEF Slots
  <2> QED
    BY <1>4, <2>1, <2>2, <2>3, Zenon DEF Readable
<1> QED
  BY <1>2, <1>6, <1>7, Zenon

\* Reopening finds the end of the readable records, which lies at or behind
\* every acknowledged one.
LEMMA OpenInv ==
    ASSUME WalInv, EngineUse, Open
    PROVE  FileInv' /\ OffsetInv' /\ SyncInv' /\ CallInv' /\ AckedInv'
<1>1. PICK n \in 0 .. NSlots : IsLogicalEnd(cache, n) /\ writeOffset' = n /\ flushOffset' = n
  BY Zenon DEF Open
<1>2. /\ ~up /\ up' /\ dirty = {}
      /\ UNCHANGED <<cache, disk, dirty, cut, fileLen, writeLock, pc, reg, acked>>
  BY Zenon DEF Open, WalInv, FileInv, lockVars, histVars
<1>3. \A c \in Calls : pc[c] \in {"idle", "done", "failed", "dead"}
  BY <1>2, Zenon DEF WalInv, ClosedInv, InFlight
<1>4. FileInv'
  BY <1>2, Zenon DEF WalInv, FileInv
<1>5. \A i \in Slots : i <= n => cache[i].kind = "record"
  BY <1>1, WalConstants DEF IsLogicalEnd, Readable, Slots
<1>6. n <= fileLen
  <2> SUFFICES ASSUME n > fileLen PROVE FALSE
    BY <1>1, WalConstants DEF WalInv, TypeInv, TypeOK
  <2>1. n \in Slots
    BY WalConstants DEF WalInv, TypeInv, TypeOK, Slots
  <2> QED
    BY <1>5, <2>1 DEF WalInv, FileInv, Zero
<1>7. OffsetInv'
  BY <1>1, <1>2, <1>5, <1>6 DEF OffsetInv
<1>8. SyncInv' /\ CallInv'
  BY <1>2, <1>3, Zenon DEF SyncInv, CallInv
<1>9. AckedInv'
  <2> SUFFICES ASSUME NEW p \in acked
               PROVE  \E i \in Slots : Readable(disk, i) /\ disk[i].call = p /\ i <= n
    BY <1>1, <1>2, Zenon DEF AckedInv, Readable
  <2>1. PICK i \in Slots : Readable(disk, i) /\ disk[i].call = p
    BY Zenon DEF WalInv, AckedInv
  <2>2. \A j \in Slots : disk[j] = cache[j]
    BY <1>2, Zenon DEF WalInv, FileInv
  <2>3. i <= n
    <3> SUFFICES ASSUME i > n PROVE FALSE
      BY WalConstants DEF Slots
    <3>1. n + 1 \in 1 .. i /\ n + 1 \in Slots /\ n < NSlots
      BY WalConstants DEF Slots
    <3> QED
      BY <1>1, <2>1, <2>2, <3>1, Zenon DEF IsLogicalEnd, Readable
  <2> QED
    BY <2>1, <2>3, Zenon
<1> QED
  BY <1>4, <1>7, <1>8, <1>9, Zenon

\* The invariant is inductive in the engine's use of the log.
LEMMA WalStepInv ==
    ASSUME EngineUse
    PROVE  WalInv /\ [Next]_vars => WalInv'
<1> SUFFICES ASSUME WalInv, [Next]_vars PROVE WalInv'
  BY Zenon
<1>1. TypeInv'
  <2>1. CASE UNCHANGED vars
    BY <2>1, Zenon DEF WalInv, TypeInv, TypeOK, Position, vars, fileVars, offVars, lockVars,
                       histVars,
                bounds
  <2> QED
    BY <2>1, CallTypes, TruncTypes, DeathTypes, Zenon DEF WalInv, EngineUse, Next, Quiescent
<1>2. ASSUME UNCHANGED vars
      PROVE  FileInv' /\ OffsetInv' /\ SyncInv' /\ CallInv' /\ AckedInv'
  <2> USE <1>2 DEF WalInv, vars, fileVars, offVars, lockVars, histVars
  <2>1. FileInv' /\ OffsetInv'
    BY Zenon DEF FileInv, OffsetInv
  <2>2. SyncInv' /\ CallInv'
    BY Zenon DEF SyncInv, CallInv
  <2>3. AckedInv'
    BY Zenon DEF AckedInv, Readable
  <2> QED
    BY <2>1, <2>2, <2>3, Zenon
<1>3. ASSUME NEW c \in Calls, CallStep(c)
      PROVE  FileInv' /\ OffsetInv' /\ SyncInv' /\ CallInv' /\ AckedInv'
  <2>1. c \notin Ckpts /\ ~ReadSize(c)
    BY Zenon DEF EngineUse, ReadSize
  <2>2. ~InsertFails(c) /\ ~SyncFails(c)
    <3>1. errors = 0 /\ MaxErrors = 0
      BY Zenon DEF EngineUse, WalInv, TypeInv, Position
    <3>2. ~CanFail
      BY <3>1 DEF CanFail
    <3> QED
      BY <3>2, Zenon DEF InsertFails, SyncFails
  <2>3. CASE SetCheckpoint(c)
    <3>1. \A d \in Calls : pc'[d] = pc[d] \/ pc'[d] = "done"
      BY <2>3, Zenon DEF SetCheckpoint, Goto, WalInv, TypeInv, TypeOK
    <3> QED
      BY <2>3, <3>1, SMTT(30) DEF SetCheckpoint, WalInv, FileInv, OffsetInv, SyncInv, CallInv,
                                  AckedInv,
                        Readable, fileVars, lockVars, histVars
  <2> QED
    BY <1>3, <2>1, <2>2, <2>3, AllocInv, InsertInv, CheckInv, SyncStoreInv, Zenon DEF CallStep
<1>4. ~Kill
  BY DEF EngineUse, Kill, WalInv, TypeInv, TypeOK
<1>5. ClosedInv'
  <2>1. ASSUME NEW c \in Calls, CallStep(c) PROVE up'
    BY <2>1 DEF CallStep, ReadSize, AllocSeq, Insert, InsertFails, CheckFlushed, LockSync,
                LoadTarget, SyncData, SyncFails, StoreFlush, SetCheckpoint, At
  <2>2. ASSUME PowerLoss PROVE ClosedInv'
    BY <2>2, Zenon DEF PowerLoss, Die, InFlight, ClosedInv, WalInv, TypeInv, TypeOK
  <2>3. ASSUME Open PROVE ClosedInv'
    BY <2>3, Zenon DEF Open, ClosedInv
  <2>4. ASSUME UNCHANGED vars PROVE ClosedInv'
    BY <2>4, Zenon DEF ClosedInv, WalInv, InFlight, vars
  <2> QED
    BY <1>4, <2>1, <2>2, <2>3, <2>4, Zenon DEF Next, Quiescent, EngineUse, ClosedInv
<1> QED
  BY <1>1, <1>2, <1>3, <1>4, <1>5, PowerLossInv, OpenInv, Zenon DEF Next, Quiescent, EngineUse,
                                                                    WalInv

\* "Durable on return": whatever power losses and reopenings follow, recovery
\* replays every put that append or append_sync acknowledged.
THEOREM WalDurable == ASSUME EngineUse PROVE Spec => []DurableOnReturn
<1>1. WalInv => DurableOnReturn
  BY Zenon DEF WalInv, AckedInv, DurableOnReturn, Replayed, EngineUse, TypeInv, TypeOK, Calls
<1> QED
  BY <1>1, WalInitInv, WalStepInv, PTL DEF Spec

\* The shortcut of group commit is sound: what lies before flush_offset has
\* reached the disk, so a committer that finds its record there may return
\* without a sync of its own.
THEOREM WalFlushed == ASSUME EngineUse PROVE Spec => []FlushOffsetDurable
<1>1. WalInv => FlushOffsetDurable
  BY WalConstants DEF WalInv, FileInv, OffsetInv, FlushOffsetDurable, TypeInv, TypeOK, Position,
                      Slots
<1> QED
  BY <1>1, WalInitInv, WalStepInv, PTL DEF Spec

============================================================================
