----------------------- MODULE TransactionsProofs ---------------------------
(***************************************************************************)
(* Proofs about TransactionManager, for any set of transactions and keys,  *)
(* and about Transactions, for any set of transactions, any number of rows *)
(* and any mixture of isolation levels. CertInv is the part of the         *)
(* invariant of the manager that Transactions needs; the part on locks does*)
(* not hold there, since a write set has the sentinel of the table, which  *)
(* no transaction locks.                                                   *)
(***************************************************************************)
EXTENDS Transactions, TLAPS

-----------------------------------------------------------------------------
(* TransactionManager                                                      *)

\* Timestamps come from one counter: begin and commit timestamps lie below
\* it, and no two transactions share one.
Clock ==
    /\ \A t \in Txns : beginTs[t] < nextTimestamp /\ commitTs[t] < nextTimestamp
    /\ \A t \in Txns : (tpc[t] = "idle") <=> (beginTs[t] = 0)
    /\ \A t, u \in Txns : beginTs[t] # 0 /\ beginTs[t] = beginTs[u] => t = u
    /\ \A t, u \in Txns : commitTs[t] # 0 /\ commitTs[t] = commitTs[u] => t = u

\* Only a transaction that has begun has read or written, and only one that
\* was certified has a commit timestamp.
Phases ==
    \A t \in Txns :
        /\ tpc[t] \in {"idle", "allocated"} => writes[t] = {} /\ reads[t] = {}
        /\ commitTs[t] # 0 <=> tpc[t] \in {"certified", "released", "committed"}

\* The keys in the write set of a running transaction are locked by it.
LocksMatch == \A t \in Txns : Holding(t) => \A k \in writes[t] : writeLocks[k] = beginTs[t]

\* Between register and drop the begin timestamp is an active snapshot.
SnapshotHeld ==
    \A t \in Txns :
        tpc[t] \in {"active", "certified", "released", "failed", "aborting"} =>
            beginTs[t] \in activeSnapshots

\* While a transaction is inside begin, and no commit came in between, its
\* timestamp is the newest; once it is active the ring has every write set
\* committed after it began.
RingComplete ==
    \A t \in Txns \ raced, u \in Txns :
        /\ tpc[t] = "allocated" => commitTs[u] < beginTs[t]
        /\ tpc[t] = "active" /\ commitTs[u] > beginTs[t] /\ writes[u] # {} =>
                [ts |-> commitTs[u], keys |-> writes[u]] \in committedWrites

\* What the certifier rests on, and the lock table with it.
CertInv ==
    /\ TmTypeOK /\ Clock /\ Phases /\ SnapshotHeld /\ RingComplete
    /\ NoFalseNegativeUnlessRaced

TmInv == CertInv /\ LocksMatch /\ LocksHaveOwner

----------------------------------------------------------------------------

\* The manager starts in the inductive invariant.
LEMMA TmInitInv == TmInit => TmInv
BY DEF TmInit, TmInv, CertInv, TmTypeOK, TmLabels, Clock, Phases, LocksMatch, LocksHaveOwner,
       SnapshotHeld, RingComplete, NoFalseNegativeUnlessRaced, MissedConflict, Holding,
       Unlocked

\* begin, first step: the fresh timestamp is above every other one.
LEMMA BeginAllocCert ==
    ASSUME CertInv, NEW t \in Txns, BeginAlloc(t)
    PROVE  CertInv'
<1> USE DEF CertInv, BeginAlloc, Move, mgrVars, argVars
<1>1. TmTypeOK'
  BY DEF TmTypeOK, TmLabels
<1>2. Clock'
  BY DEF TmTypeOK, Clock
<1>3. Phases'
  BY Zenon DEF TmTypeOK, Phases
<1>4. SnapshotHeld'
  BY Zenon DEF TmTypeOK, SnapshotHeld
<1>5. RingComplete'
  BY Zenon DEF TmTypeOK, Clock, RingComplete
<1>6. NoFalseNegativeUnlessRaced'
  BY Zenon DEF TmTypeOK, Phases, NoFalseNegativeUnlessRaced, MissedConflict
<1> QED
  BY <1>1, <1>2, <1>3, <1>4, <1>5, <1>6, Zenon

\* begin, second step: without a commit in between nothing is missing from
\* the ring when the snapshot becomes active.
LEMMA BeginRegisterCert ==
    ASSUME CertInv, NEW t \in Txns, BeginRegister(t)
    PROVE  CertInv'
<1> USE DEF CertInv, BeginRegister, Move, mgrVars, argVars
<1>1. TmTypeOK'
  BY Zenon DEF TmTypeOK, TmLabels
<1>2. Clock'
  BY Zenon DEF TmTypeOK, Clock
<1>3. Phases'
  BY Zenon DEF TmTypeOK, Phases
<1>4. SnapshotHeld'
  BY Zenon DEF TmTypeOK, SnapshotHeld
<1>5. RingComplete'
  BY DEF TmTypeOK, Clock, RingComplete
<1>6. NoFalseNegativeUnlessRaced'
  BY Zenon DEF TmTypeOK, NoFalseNegativeUnlessRaced, MissedConflict
<1> QED
  BY <1>1, <1>2, <1>3, <1>4, <1>5, <1>6, Zenon

\* Neither step of begin touches the lock table.
LEMMA BeginLocks ==
    ASSUME TmInv, NEW t \in Txns, BeginAlloc(t) \/ BeginRegister(t)
    PROVE  LocksMatch' /\ LocksHaveOwner'
<1>1. writeLocks' = writeLocks /\ writes' = writes
  BY Zenon DEF BeginAlloc, BeginRegister, argVars
<1>2. \A u \in Txns : Holding(u) => Holding(u)' /\ beginTs'[u] = beginTs[u]
  BY Zenon DEF TmInv, CertInv, TmTypeOK, BeginAlloc, BeginRegister, Move, Holding
<1>3. \A u \in Txns : Holding(u)' => Holding(u) \/ writes[u] = {}
  BY Zenon DEF TmInv, CertInv, TmTypeOK, Phases, BeginAlloc, BeginRegister, Move, Holding
<1> QED
  BY <1>1, <1>2, <1>3 DEF TmInv, LocksMatch, LocksHaveOwner

\* An active transaction may change its write set, and a lock may be granted,
\* without the certifier's state noticing.
LEMMA WritesCert ==
    ASSUME CertInv, NEW t \in Txns, tpc[t] = "active", NEW W \in SUBSET Keys,
           writes' = [writes EXCEPT ![t] = W], writeLocks' \in [Keys -> Nat],
           UNCHANGED <<nextTimestamp, activeSnapshots, committedWrites, tpc, beginTs, commitTs,
                       serializable, reads, raced>>
    PROVE  CertInv'
<1> USE DEF CertInv
<1>1. TmTypeOK'
  BY Zenon DEF TmTypeOK, TmLabels
<1>2. Clock' /\ Phases' /\ SnapshotHeld'
  BY DEF TmTypeOK, Clock, Phases, SnapshotHeld
<1>3. commitTs[t] = 0
  BY Zenon DEF TmTypeOK, Phases
<1>4. RingComplete'
  BY <1>3 DEF TmTypeOK, Clock, RingComplete
<1>5. NoFalseNegativeUnlessRaced'
  BY <1>3, Zenon DEF TmTypeOK, NoFalseNegativeUnlessRaced, MissedConflict
<1> QED
  BY <1>1, <1>2, <1>4, <1>5, Zenon

\* A granted lock was free or the transaction's own, so no other running
\* transaction loses it.
LEMMA AcquireInv ==
    ASSUME TmInv, NEW t \in Txns, NEW k \in Keys, AcquireWriteLock(t, k)
    PROVE  TmInv'
<1> USE DEF TmInv, CertInv, AcquireWriteLock, AcquireLock, LockGranted, Unlocked
<1>1. CertInv'
  <2>1. writes[t] \cup {k} \in SUBSET Keys /\ writeLocks' \in [Keys -> Nat]
    BY Zenon DEF TmTypeOK
  <2> QED
    BY <2>1, WritesCert, Zenon
<1>2. LocksMatch'
  <2> SUFFICES ASSUME NEW u \in Txns, Holding(u)', NEW j \in writes'[u]
               PROVE  writeLocks'[j] = beginTs'[u]
    BY Zenon DEF LocksMatch
  <2>1. CASE u = t
    BY <2>1, Zenon DEF TmTypeOK, LocksMatch, Holding
  <2>2. CASE u # t
    <3>1. j \in writes[u] /\ Holding(u) /\ writeLocks[j] = beginTs[u]
      BY <2>2, Zenon DEF TmTypeOK, LocksMatch, Holding
    <3>2. beginTs[u] # 0 /\ beginTs[u] # beginTs[t]
      BY <2>2, <3>1, Zenon DEF TmTypeOK, Clock, Holding
    <3> QED
      BY <3>1, <3>2, Zenon DEF TmTypeOK
  <2> QED
    BY <2>1, <2>2, Zenon
<1>3. LocksHaveOwner'
  BY Zenon DEF TmTypeOK, LocksHaveOwner, Holding
<1> QED
  BY <1>1, <1>2, <1>3, Zenon

\* record_read only grows the read set of a transaction not yet certified.
LEMMA RecordReadCert ==
    ASSUME CertInv, NEW t \in Txns, NEW k \in Keys, RecordRead(t, k)
    PROVE  CertInv'
<1> USE DEF CertInv, RecordRead, mgrVars
<1>1. TmTypeOK'
  BY Zenon DEF TmTypeOK, TmLabels
<1>2. Clock' /\ Phases' /\ SnapshotHeld'
  BY Zenon DEF TmTypeOK, Clock, Phases, SnapshotHeld
<1>3. RingComplete'
  BY Zenon DEF RingComplete
<1>4. NoFalseNegativeUnlessRaced'
  <2>1. commitTs[t] = 0
    BY Zenon DEF TmTypeOK, Phases
  <2> QED
    BY <2>1, Zenon DEF TmTypeOK, NoFalseNegativeUnlessRaced, MissedConflict
<1> QED
  BY <1>1, <1>2, <1>3, <1>4, Zenon

\* Certification: whatever the transaction read and a later committer wrote
\* would still be in the ring, so a passed check has missed nothing; pruning
\* drops no entry that an active transaction can still conflict with.
LEMMA CertifyCert ==
    ASSUME CertInv, NEW t \in Txns, Certify(t)
    PROVE  CertInv'
<1> USE DEF CertInv, Certify, Move, argVars
<1>1. TmTypeOK'
  BY DEF TmTypeOK, TmLabels, Pruned
<1>2. Clock'
  BY DEF TmTypeOK, Clock
<1>3. Phases'
  BY Zenon DEF TmTypeOK, Phases
<1>4. SnapshotHeld'
  BY Zenon DEF TmTypeOK, SnapshotHeld
<1>5. RingComplete'
  <2> SUFFICES ASSUME NEW u \in Txns \ raced', NEW v \in Txns
               PROVE  /\ tpc'[u] = "allocated" => commitTs'[v] < beginTs'[u]
                      /\ tpc'[u] = "active" /\ commitTs'[v] > beginTs'[u]
                         /\ writes'[v] # {} =>
                            [ts |-> commitTs'[v], keys |-> writes'[v]] \in committedWrites'
    BY Zenon DEF RingComplete
  <2>1. tpc'[u] # "allocated"
    BY Zenon DEF TmTypeOK
  <2>2. ASSUME tpc'[u] = "active", commitTs'[v] > beginTs'[u], writes'[v] # {}
        PROVE  [ts |-> commitTs'[v], keys |-> writes'[v]] \in committedWrites'
    <3> DEFINE e == [ts |-> commitTs'[v], keys |-> writes'[v]]
               ring == IF writes[t] = {} THEN committedWrites
                       ELSE committedWrites \cup
                            {[ts |-> nextTimestamp, keys |-> writes[t]]}
    <3>1. u # t /\ tpc[u] = "active" /\ u \notin raced
      BY <2>2, Zenon DEF TmTypeOK
    <3>2. beginTs[u] \in activeSnapshots
      BY <3>1, Zenon DEF SnapshotHeld
    <3>3. e \in ring
      <4>1. CASE v = t
        BY <4>1, <2>2, Zenon DEF TmTypeOK
      <4>2. CASE v # t
        BY <4>2, <2>2, <3>1, Zenon DEF TmTypeOK, RingComplete
      <4> QED
        BY <4>1, <4>2, Zenon
    <3>4. e.ts > beginTs[u]
      BY <2>2, Zenon
    <3>5. committedWrites' = Pruned(ring)
      BY Zenon
    <3> QED
      BY <3>2, <3>3, <3>4, <3>5, Zenon DEF Pruned
  <2> QED
    BY <2>1, <2>2, Zenon
<1>6. NoFalseNegativeUnlessRaced'
  <2> SUFFICES ASSUME NEW u \in Txns \ raced', NEW v \in Txns, MissedConflict(u, v)'
               PROVE  FALSE
    BY Zenon DEF NoFalseNegativeUnlessRaced
  <2>1. CASE u = t
    <3>1. v # t
      BY <2>1 DEF TmTypeOK, MissedConflict
    <3>2. commitTs[v] > beginTs[t] /\ writes[v] \cap reads[t] # {} /\ serializable[t]
      BY <2>1, <3>1, Zenon DEF TmTypeOK, MissedConflict
    <3>3. [ts |-> commitTs[v], keys |-> writes[v]] \in committedWrites
      BY <2>1, <3>2, Zenon DEF TmTypeOK, RingComplete
    <3> QED
      BY <3>2, <3>3, Zenon DEF Conflict
  <2>2. CASE u # t
    <3>1. CASE v = t
      BY <2>2, <3>1 DEF TmTypeOK, Clock, MissedConflict
    <3>2. CASE v # t
      BY <2>2, <3>2, Zenon DEF TmTypeOK, NoFalseNegativeUnlessRaced, MissedConflict
    <3> QED
      BY <3>1, <3>2, Zenon
  <2> QED
    BY <2>1, <2>2, Zenon
<1> QED
  BY <1>1, <1>2, <1>3, <1>4, <1>5, <1>6, Zenon

\* The early return of a failed certification changes nothing but the phase.
LEMMA CertifyFailsCert ==
    ASSUME CertInv, NEW t \in Txns, CertifyFails(t)
    PROVE  CertInv'
<1> USE DEF CertInv, CertifyFails, Move, mgrVars, argVars
<1>1. TmTypeOK'
  BY Zenon DEF TmTypeOK, TmLabels
<1>2. Clock' /\ Phases' /\ SnapshotHeld'
  BY DEF TmTypeOK, Clock, Phases, SnapshotHeld
<1>3. RingComplete'
  BY Zenon DEF TmTypeOK, RingComplete
<1>4. NoFalseNegativeUnlessRaced'
  BY Zenon DEF NoFalseNegativeUnlessRaced, MissedConflict
<1> QED
  BY <1>1, <1>2, <1>3, <1>4, Zenon

\* Reads and both outcomes of the certification leave the locks alone.
LEMMA CertifyLocks ==
    ASSUME TmInv, NEW t \in Txns,
           (\E k \in Keys : RecordRead(t, k)) \/ Certify(t) \/ CertifyFails(t)
    PROVE  LocksMatch' /\ LocksHaveOwner'
<1>1. writeLocks' = writeLocks /\ writes' = writes /\ beginTs' = beginTs
  BY Zenon DEF RecordRead, Certify, CertifyFails, mgrVars, argVars
<1>2. \A u \in Txns : Holding(u)' <=> Holding(u)
  BY Zenon DEF TmInv, CertInv, TmTypeOK, RecordRead, Certify, CertifyFails, Move, Holding
<1> QED
  BY <1>1, <1>2, Zenon DEF TmInv, LocksMatch, LocksHaveOwner

\* The steps of commit and abort that end a transaction for the certifier.
LEMMA ReleaseCert ==
    ASSUME CertInv, NEW t \in Txns, CommitRelease(t) \/ AbortRelease(t)
    PROVE  CertInv'
<1> USE DEF CertInv
<1>0. PICK from \in {"active", "failed", "certified"}, to \in {"released", "aborting"} :
         /\ ReleaseLocks(t, from, to)
         /\ (from = "certified") <=> (to = "released")
  BY Zenon DEF CommitRelease, AbortRelease
<1> USE <1>0 DEF ReleaseLocks, Move, argVars, LocksWithout, Unlocked
<1>1. TmTypeOK'
  BY Zenon DEF TmTypeOK, TmLabels
<1>2. Clock' /\ Phases' /\ SnapshotHeld'
  BY DEF TmTypeOK, Clock, Phases, SnapshotHeld
<1>3. RingComplete'
  BY Zenon DEF TmTypeOK, RingComplete
<1>4. NoFalseNegativeUnlessRaced'
  BY Zenon DEF NoFalseNegativeUnlessRaced, MissedConflict
<1> QED
  BY <1>1, <1>2, <1>3, <1>4, Zenon

\* release_write_locks takes away the locks of the ending transaction and of
\* nobody else, on the commit and on the abort path.
LEMMA ReleaseLocksInv ==
    ASSUME TmInv, NEW t \in Txns, CommitRelease(t) \/ AbortRelease(t)
    PROVE  LocksMatch' /\ LocksHaveOwner'
<1> USE DEF TmInv, CertInv
<1>0. PICK from \in {"active", "failed", "certified"}, to \in {"released", "aborting"} :
         /\ ReleaseLocks(t, from, to)
         /\ (from = "certified") <=> (to = "released")
  BY Zenon DEF CommitRelease, AbortRelease
<1> USE <1>0 DEF ReleaseLocks, Move, argVars, LocksWithout, Unlocked
<1>1. LocksMatch'
  <2> SUFFICES ASSUME NEW u \in Txns, Holding(u)', NEW j \in writes'[u]
               PROVE  writeLocks'[j] = beginTs'[u]
    BY Zenon DEF LocksMatch
  <2>1. u # t /\ Holding(u) /\ writeLocks[j] = beginTs[u]
    BY Zenon DEF TmTypeOK, LocksMatch, Holding
  <2>2. beginTs[u] # beginTs[t]
    BY <2>1, Zenon DEF TmTypeOK, Clock, Holding
  <2> QED
    BY <2>1, <2>2, Zenon DEF TmTypeOK
<1>2. LocksHaveOwner'
  <2> SUFFICES ASSUME NEW k \in Keys, writeLocks'[k] # 0
               PROVE  \E u \in Txns : Holding(u)' /\ beginTs'[u] = writeLocks'[k]
    BY Zenon DEF LocksHaveOwner
  <2>1. writeLocks[k] = writeLocks'[k] /\ writeLocks[k] # beginTs[t]
    BY Zenon DEF TmTypeOK
  <2>2. PICK u \in Txns : Holding(u) /\ beginTs[u] = writeLocks[k]
    BY <2>1, Zenon DEF LocksHaveOwner
  <2> QED
    BY <2>1, <2>2, Zenon DEF TmTypeOK, Holding
<1> QED
  BY <1>1, <1>2, Zenon

\* Dropping a snapshot leaves those of the other transactions: begin
\* timestamps are never shared.
LEMMA DropCert ==
    ASSUME CertInv, NEW t \in Txns, CommitDrop(t) \/ AbortDrop(t)
    PROVE  CertInv'
<1> USE DEF CertInv
<1>0. PICK from \in {"released", "aborting"}, to \in {"committed", "aborted"} :
         /\ DropSnapshot(t, from, to)
         /\ (from = "released") <=> (to = "committed")
  BY Zenon DEF CommitDrop, AbortDrop
<1> USE <1>0 DEF DropSnapshot, Move, argVars
<1>1. TmTypeOK'
  BY Zenon DEF TmTypeOK, TmLabels
<1>2. Clock' /\ Phases'
  BY DEF TmTypeOK, Clock, Phases
<1>3. SnapshotHeld'
  BY Zenon DEF TmTypeOK, Clock, SnapshotHeld
<1>4. RingComplete'
  BY Zenon DEF TmTypeOK, RingComplete
<1>5. NoFalseNegativeUnlessRaced'
  BY Zenon DEF NoFalseNegativeUnlessRaced, MissedConflict
<1> QED
  BY <1>1, <1>2, <1>3, <1>4, <1>5, Zenon

\* By then the transaction has no locks.
LEMMA DropLocks ==
    ASSUME TmInv, NEW t \in Txns, CommitDrop(t) \/ AbortDrop(t)
    PROVE  LocksMatch' /\ LocksHaveOwner'
<1>1. writeLocks' = writeLocks /\ writes' = writes /\ beginTs' = beginTs
  BY Zenon DEF CommitDrop, AbortDrop, DropSnapshot, argVars
<1>2. \A u \in Txns : Holding(u)' <=> Holding(u)
  BY Zenon DEF TmInv, CertInv, TmTypeOK, CommitDrop, AbortDrop, DropSnapshot, Move, Holding
<1> QED
  BY <1>1, <1>2, Zenon DEF TmInv, LocksMatch, LocksHaveOwner

\* TmInv is inductive.
LEMMA TmStepInv == TmInv /\ [TmNext]_tmVars => TmInv'
<1> SUFFICES ASSUME TmInv, [TmNext]_tmVars
             PROVE  TmInv'
  BY Zenon
<1>1. CASE UNCHANGED tmVars
  BY <1>1 DEF tmVars, mgrVars, argVars, TmInv, CertInv, TmTypeOK, Clock, Phases, LocksMatch,
              LocksHaveOwner, SnapshotHeld, RingComplete, NoFalseNegativeUnlessRaced,
              MissedConflict, Holding
<1>2. ASSUME NEW t \in Txns, TmStep(t)
      PROVE  TmInv'
  <2>1. CertInv
    BY Zenon DEF TmInv
  <2>2. CASE \E k \in Keys : AcquireWriteLock(t, k)
    BY <2>2, AcquireInv, Zenon
  <2>3. CASE ~\E k \in Keys : AcquireWriteLock(t, k)
    <3>1. CertInv'
      BY <1>2, <2>1, <2>3, BeginAllocCert, BeginRegisterCert, RecordReadCert, CertifyCert,
         CertifyFailsCert, ReleaseCert, DropCert, Zenon DEF TmStep
    <3>2. LocksMatch' /\ LocksHaveOwner'
      BY <1>2, <2>3, BeginLocks, CertifyLocks, ReleaseLocksInv, DropLocks, Zenon DEF TmStep
    <3> QED
      BY <3>1, <3>2, Zenon DEF TmInv
  <2> QED
    BY <2>2, <2>3, Zenon
<1> QED
  BY <1>1, <1>2, Zenon DEF TmNext, TmDone

\* Every reachable state of the manager satisfies the inductive invariant.
THEOREM TmInvariant == TmSpec => []TmInv
  BY TmInitInv, TmStepInv, PTL DEF TmSpec

\* The tables of the transaction manager keep their types.
THEOREM TmTypes == TmSpec => []TmTypeOK
  BY TmInvariant, PTL DEF TmInv, CertInv

\* "Write-write conflicts are detected": transactions that have not released
\* their locks never share a key of their write sets.
THEOREM WritersExcludeAlways == TmSpec => []WritersExclude
<1>1. TmInv => WritersExclude
  BY DEF TmInv, CertInv, TmTypeOK, Clock, LocksMatch, WritersExclude, Holding
<1> QED
  BY <1>1, TmInvariant, PTL

\* No write lock outlives its transaction.
THEOREM LocksHaveOwnerAlways == TmSpec => []LocksHaveOwner
  BY TmInvariant, PTL DEF TmInv, CertInv

\* The certifier's pruned ring is enough for every transaction whose begin
\* was not interrupted by a commit: it misses none of their conflicts.
THEOREM NoFalseNegativeAlways == TmSpec => []NoFalseNegativeUnlessRaced
  BY TmInvariant, PTL DEF TmInv, CertInv

-----------------------------------------------------------------------------
(* Transactions                                                            *)

Version == [ts : Nat, by : Txns, del : BOOLEAN]
Buffers == [Rows -> {"none", "put", "del"}]
Versions(r) == {chain[r][i] : i \in DOMAIN chain[r]}

TxTypeOK ==
    /\ engineTs \in Nat \ {0} /\ chain \in [Rows -> Seq(Version)]
    /\ readTs \in [Txns -> Nat \cup {-1}] /\ buffer \in [Txns -> Buffers]
    /\ savepoints \in [Txns -> Seq([name : Names, buf : Buffers])]
    /\ todo \in [Txns -> SUBSET Rows] /\ putTs \in [Txns -> Nat]
    /\ mixed \subseteq Txns /\ seen \in [Txns -> SUBSET [Rows -> SUBSET Txns]]
    /\ errors \in Nat

\* A handle before its begin is empty, and its snapshot has been drawn.
Began(t) ==
    /\ tpc[t] # "idle" => readTs[t] # -1
    /\ readTs[t] < engineTs
    /\ tpc[t] \in {"idle", "allocated"} => seen[t] = {} /\ buffer[t] = Empty
\* The manager's sets follow from what the handle buffered and scanned.
Told(t) ==
    /\ tpc[t] = "active" \/ commitTs[t] # 0 => writes[t] = WriteKeys(buffer[t])
    /\ serializable[t] /\ seen[t] # {} => Table \in reads[t]
\* A transaction that applies rows is certified, and the timestamp of its put
\* has been drawn.
Applies(t) ==
    /\ putTs[t] < engineTs
    /\ putTs[t] # 0 => todo[t] # {}
    /\ todo[t] # {} => commitTs[t] # 0
    /\ \A r \in todo[t] : buffer[t][r] # "none"
Handles ==
    /\ raced \subseteq mixed
    /\ \A t \in Txns : Began(t) /\ Told(t) /\ Applies(t)

\* A version in the engine comes from a certified transaction, which told the
\* certifier of the table, and has a timestamp that was drawn.
Chains ==
    \A r \in Rows : \A v \in Versions(r) :
        v.ts < engineTs /\ commitTs[v.by] # 0 /\ Table \in writes[v.by]

\* u was done before t took its snapshot, which has all its versions.
Before(t, u) ==
    /\ tpc[u] = "committed" /\ todo[u] = {}
    /\ \A r \in Rows : \A v \in Versions(r) : v.by = u => v.ts <= readTs[t]
\* u was certified after t began, and its versions are past the snapshot.
After(t, u) ==
    /\ ~Beginning(t) /\ beginTs[t] < commitTs[u]
    /\ putTs[u] # 0 => putTs[u] > readTs[t]
    /\ \A r \in Rows : \A v \in Versions(r) : v.by = u => v.ts > readTs[t]
\* There is nothing between for a begin with no commit in progress.
Sides ==
    \A t \in Txns \ mixed, u \in Txns :
        readTs[t] # -1 /\ commitTs[u] # 0 => Before(t, u) \/ After(t, u)

\* Without an engine error every row put is in the engine or still to do.
Applied ==
    errors = 0 => \A u \in Txns, r \in Rows :
        commitTs[u] # 0 /\ buffer[u][r] = "put" =>
            r \in todo[u] \/ \E v \in Versions(r) : v.by = u

\* What a transaction's scans returned is what its next one would return.
SeenNow == \A t \in Txns \ mixed : seen[t] \subseteq {[r \in Rows |-> SnapshotRow(t, r)]}

TxInv == CertInv /\ TxTypeOK /\ Handles /\ Chains /\ Sides /\ Applied /\ SeenNow

----------------------------------------------------------------------------
\* What is left of a stack of savepoints.
LEMMA StackPart ==
    ASSUME NEW S, NEW s \in Seq(S), NEW i \in DOMAIN s
    PROVE  s[i] \in S /\ SubSeq(s, 1, i) \in Seq(S) /\ SubSeq(s, 1, i - 1) \in Seq(S)
<1>1. i \in 1 .. Len(s) /\ Len(s) \in Nat /\ \A j \in 1 .. Len(s) : s[j] \in S
  OBVIOUS
<1>2. SubSeq(s, 1, i) \in Seq(S)
  BY <1>1
<1>3. SubSeq(s, 1, i - 1) \in Seq(S)
  BY <1>1
<1> QED
  BY <1>1, <1>2, <1>3, Zenon

\* One more savepoint.
LEMMA StackPush ==
    ASSUME NEW S, NEW s \in Seq(S), NEW e \in S
    PROVE  Append(s, e) \in Seq(S)
OBVIOUS

\* The elements of a chain are versions.
LEMMA VersionType ==
    ASSUME TxTypeOK, NEW r \in Rows, NEW v \in Versions(r)
    PROVE  v \in Version /\ v.ts \in Nat /\ v.by \in Txns
<1>1. chain[r] \in Seq(Version)
  BY Zenon DEF TxTypeOK
<1>2. PICK i \in DOMAIN chain[r] : v = chain[r][i]
  BY Zenon DEF Versions
<1>3. v \in Version
  BY <1>1, <1>2
<1> QED
  BY <1>3, Zenon DEF Version

\* A version put in front of a chain is one more version; the others stay.
LEMMA PutFront ==
    ASSUME NEW s \in Seq(Version), NEW v \in Version
    PROVE  /\ <<v>> \o s \in Seq(Version)
           /\ DOMAIN (<<v>> \o s) = 1 .. Len(s) + 1 /\ DOMAIN s = 1 .. Len(s)
           /\ (<<v>> \o s)[1] = v
           /\ \A j \in 1 .. Len(s) : (<<v>> \o s)[j + 1] = s[j]
OBVIOUS

\* A version past the snapshot does not change what the snapshot shows.
LEMMA FrontUnseen ==
    ASSUME TxTypeOK, NEW t \in Txns, NEW r \in Rows, NEW v \in Version, v.ts > readTs[t],
           chain'[r] = <<v>> \o chain[r], readTs'[t] = readTs[t]
    PROVE  SnapshotRow(t, r)' = SnapshotRow(t, r)
<1> DEFINE s == chain[r]
           f == <<v>> \o s
           Shown(c,
              j) == c[j].ts <= readTs[t] /\ ~c[j].del /\ \A k \in 1 .. j - 1 : c[k].ts > readTs[t]
<1>1. s \in Seq(Version) /\ Len(s) \in Nat
  BY DEF TxTypeOK
<1>2. /\ DOMAIN f = 1 .. Len(s) + 1 /\ DOMAIN s = 1 .. Len(s) /\ f[1] = v
      /\ \A j \in 1 .. Len(s) : f[j + 1] = s[j]
  BY <1>1, PutFront, Zenon
<1>3. SnapshotRow(t, r) = {s[j].by : j \in {i \in DOMAIN s : Shown(s, i)}}
  BY Zenon DEF SnapshotRow
<1>4. SnapshotRow(t, r)' = {f[j].by : j \in {i \in DOMAIN f : Shown(f, i)}}
  BY Zenon DEF SnapshotRow
<1> HIDE DEF f, s
<1>5. readTs[t] \in Int /\ v.ts \in Int
  BY DEF TxTypeOK, Version
<1>6. ~Shown(f, 1)
  BY <1>2, <1>5
<1>7. ASSUME NEW j \in 1 .. Len(s) PROVE Shown(f, j + 1) <=> Shown(s, j)
  <2>1. f[j + 1] = s[j] /\ j \in Nat
    BY <1>2
  <2>2. ASSUME Shown(f, j + 1) PROVE Shown(s, j)
    <3>1. ASSUME NEW k \in 1 .. j - 1 PROVE s[k].ts > readTs[t]
      <4>1. k + 1 \in 1 .. (j + 1) - 1 /\ k \in 1 .. Len(s)
        BY <1>1
      <4>2. f[k + 1].ts > readTs[t]
        BY <2>2, <4>1, Zenon
      <4> QED
        BY <1>2, <4>1, <4>2, Zenon
    <3> QED
      BY <2>1, <2>2, <3>1, Zenon
  <2>3. ASSUME Shown(s, j) PROVE Shown(f, j + 1)
    <3>1. ASSUME NEW k \in 1 .. (j + 1) - 1 PROVE f[k].ts > readTs[t]
      <4>1. CASE k = 1
        BY <1>2, <4>1, Zenon
      <4>2. CASE k # 1
        <5>1. k - 1 \in 1 .. j - 1 /\ k - 1 \in 1 .. Len(s) /\ (k - 1) + 1 = k
          BY <1>1, <4>2
        <5>2. f[(k - 1) + 1] = s[k - 1]
          BY <1>2, <5>1, Zenon
        <5> QED
          BY <2>3, <5>1, <5>2, Zenon
      <4> QED
        BY <4>1, <4>2, Zenon
    <3> QED
      BY <2>1, <2>3, <3>1, Zenon
  <2> QED
    BY <2>2, <2>3, Zenon
<1> HIDE DEF Shown
<1>8. \A j \in DOMAIN f : Shown(f, j) => \E i \in DOMAIN s : Shown(s, i) /\ s[i].by = f[j].by
  <2> SUFFICES ASSUME NEW j \in DOMAIN f, Shown(f, j)
               PROVE  \E i \in DOMAIN s : Shown(s, i) /\ s[i].by = f[j].by
    BY Zenon
  <2>1. j # 1 /\ j \in 1 .. Len(s) + 1
    BY <1>2, <1>6, Zenon
  <2>2. j - 1 \in 1 .. Len(s) /\ (j - 1) + 1 = j
    BY <1>1, <2>1
  <2>3. Shown(s, j - 1) /\ s[j - 1] = f[j]
    BY <1>2, <1>7, <2>2, Zenon
  <2> QED
    BY <1>2, <2>2, <2>3, Zenon
<1>9. \A i \in DOMAIN s : Shown(s, i) => \E j \in DOMAIN f : Shown(f, j) /\ s[i].by = f[j].by
  <2> SUFFICES ASSUME NEW i \in DOMAIN s, Shown(s, i)
               PROVE  \E j \in DOMAIN f : Shown(f, j) /\ s[i].by = f[j].by
    BY Zenon
  <2>1. i + 1 \in DOMAIN f /\ Shown(f, i + 1) /\ f[i + 1] = s[i]
    BY <1>1, <1>2, <1>7
  <2> QED
    BY <2>1, Zenon
<1> QED
  BY <1>3, <1>4, <1>8, <1>9

----------------------------------------------------------------------------
\* The program starts in the invariant.
LEMMA TxInitInv == TxInit => TxInv
<1> SUFFICES ASSUME TxInit PROVE TxInv
  BY Zenon
<1>1. CertInv
  BY TmInitInv, Zenon DEF TxInit, TmInv
<1>2. TxTypeOK
  BY DEF TxInit, TxTypeOK, Buffers, Empty
<1>3. Handles
  BY DEF TxInit, TmInit, Handles, Began, Told, Applies
<1>4. Chains /\ Sides /\ Applied /\ SeenNow
  BY DEF TxInit, TmInit, Chains, Sides, Applied, SeenNow, Versions
<1> QED
  BY <1>1, <1>2, <1>3, <1>4, Zenon DEF TxInv

\* Nothing the certifier looks at has changed.
LEMMA CertSame == CertInv /\ UNCHANGED tmVars => CertInv'
BY SMTT(30) DEF tmVars, mgrVars, argVars, CertInv, TmTypeOK, Clock, Phases, SnapshotHeld,
                RingComplete,
       NoFalseNegativeUnlessRaced, MissedConflict

\* A step that applies nothing, certifies nobody and takes no snapshot keeps
\* what ties the transactions to the engine.
LEMMA QuietStep ==
    ASSUME TxInv,
           UNCHANGED <<engineTs, chain, readTs, todo, putTs, mixed, errors, commitTs>>,
           \A u \in Txns : tpc[u] = "committed" => tpc'[u] = "committed",
           \A t \in Txns : /\ Beginning(t)' => Beginning(t)
                           /\ readTs[t] # -1 /\ ~Beginning(t) => beginTs'[t] = beginTs[t],
           \A u \in Txns : commitTs[u] # 0 => buffer'[u] = buffer[u] /\ writes'[u] = writes[u],
           \A t \in Txns : seen'[t] \subseteq seen[t] \cup {[r \in Rows |-> SnapshotRow(t, r)]}
    PROVE  Chains' /\ Sides' /\ Applied' /\ SeenNow'
<1>1. \A r \in Rows : Versions(r)' = Versions(r)
  BY Zenon DEF Versions
<1>2. Chains'
  <2> SUFFICES ASSUME NEW r \in Rows, NEW v \in Versions(r)
               PROVE  v.ts < engineTs /\ commitTs[v.by] # 0 /\ Table \in writes'[v.by]
    BY <1>1, Zenon DEF Chains
  <2>1. v.by \in Txns
    BY VersionType, Zenon DEF TxInv
  <2> QED
    BY <2>1, Zenon DEF TxInv, Chains
<1>3. Sides'
  <2> SUFFICES ASSUME NEW t \in Txns \ mixed, NEW u \in Txns, readTs[t] # -1, commitTs[u] # 0
               PROVE  Before(t, u)' \/ After(t, u)'
    BY Zenon DEF Sides
  <2>1. CASE Before(t, u)
    BY <1>1, <2>1, Zenon DEF Before
  <2>2. CASE After(t, u)
    BY <1>1, <2>2, Zenon DEF After
  <2> QED
    BY <2>1, <2>2, Zenon DEF TxInv, Sides
<1>4. Applied'
  <2> SUFFICES ASSUME errors' = 0, NEW u \in Txns, NEW q \in Rows, commitTs'[u] # 0,
                      buffer'[u][q] = "put"
               PROVE  q \in todo'[u] \/ \E v \in Versions(q)' : v.by = u
    BY Zenon DEF Applied
  <2>1. errors = 0 /\ commitTs[u] # 0 /\ buffer[u][q] = "put"
    BY Zenon
  <2>2. q \in todo[u] \/ \E v \in Versions(q) : v.by = u
    BY <2>1, Zenon DEF TxInv, Applied
  <2> QED
    BY <1>1, <2>2, Zenon
<1>5. SeenNow'
  <2>1. \A t \in Txns, r \in Rows : SnapshotRow(t, r)' = SnapshotRow(t, r)
    BY DEF SnapshotRow
  <2> QED
    BY <2>1 DEF TxInv, SeenNow
<1> QED
  BY <1>2, <1>3, <1>4, <1>5, Zenon

----------------------------------------------------------------------------
\* latest_commit_ts: with no commit in progress it is past all versions there
\* are, and before all that are to come.
LEMMA ReadClockInv ==
    ASSUME TxInv, NEW t \in Txns, ReadClock(t)
    PROVE  TxInv'
<1> USE DEF ReadClock, engineVars
<1>1. CertInv'
  BY CertSame, Zenon DEF TxInv
<1>2. TxTypeOK'
  <2>1. engineTs - 1 \in Nat \cup {-1} /\ mixed' \subseteq Txns
    BY DEF TxInv, TxTypeOK
  <2> QED
    BY <2>1, Zenon DEF TxInv, TxTypeOK
<1>3. UNCHANGED <<tpc, beginTs, commitTs, writes, reads, serializable, raced>>
  BY Zenon DEF tmVars, mgrVars, argVars
<1>4. Handles'
  <2> SUFFICES ASSUME NEW u \in Txns PROVE Began(u)' /\ Told(u)' /\ Applies(u)'
    BY <1>3, Zenon DEF TxInv, Handles
  <2>1. Began(u) /\ Told(u) /\ Applies(u)
    BY Zenon DEF TxInv, Handles
  <2>2. tpc[u] # "idle" => readTs'[u] # -1
    BY <2>1, Zenon DEF TxInv, TxTypeOK, Began
  <2>3. readTs'[u] < engineTs
    BY <2>1 DEF TxInv, TxTypeOK, Began
  <2> QED
    BY <1>3, <2>1, <2>2, <2>3, Zenon DEF Began, Told, Applies
<1>5. \A r \in Rows : Versions(r)' = Versions(r)
  BY Zenon DEF Versions
<1>6. Chains' /\ Applied'
  <2>1. Chains'
    BY <1>3, <1>5, Zenon DEF TxInv, Chains
  <2>2. Applied'
    <3> SUFFICES ASSUME errors' = 0, NEW u \in Txns, NEW q \in Rows, commitTs'[u] # 0,
                        buffer'[u][q] = "put"
                 PROVE  q \in todo'[u] \/ \E v \in Versions(q)' : v.by = u
      BY Zenon DEF Applied
    <3>1. q \in todo[u] \/ \E v \in Versions(q) : v.by = u
      BY <1>3, Zenon DEF TxInv, Applied
    <3> QED
      BY <1>5, <3>1, Zenon
  <2> QED
    BY <2>1, <2>2, Zenon
<1>7. Sides'
  <2> SUFFICES ASSUME NEW w \in Txns \ mixed', NEW u \in Txns, readTs'[w] # -1, commitTs[u] # 0
               PROVE  Before(w, u)' \/ After(w, u)'
    BY <1>3, Zenon DEF Sides
  <2>1. CASE w = t
    <3>1. ~Committing(u)
      BY <2>1, Zenon DEF TxInv, TxTypeOK
    <3>2. tpc[u] = "committed" /\ todo[u] = {}
      BY <3>1, Zenon DEF Committing, TxInv, CertInv, Phases
    <3>3. readTs'[w] = engineTs - 1
      BY <2>1, Zenon DEF TxInv, TxTypeOK
    <3>4. \A r \in Rows : \A v \in Versions(r) : v.ts <= engineTs - 1
      <4> SUFFICES ASSUME NEW r \in Rows, NEW v \in Versions(r) PROVE v.ts <= engineTs - 1
        BY Zenon
      <4>1. v.ts \in Nat /\ engineTs \in Nat
        BY VersionType, Zenon DEF TxInv, TxTypeOK
      <4>2. v.ts < engineTs
        BY Zenon DEF TxInv, Chains
      <4> QED
        BY <4>1, <4>2
    <3> QED
      BY <1>3, <1>5, <3>2, <3>3, <3>4, Zenon DEF Before
  <2>2. CASE w # t
    <3>1. readTs'[w] = readTs[w] /\ w \notin mixed
      BY <2>2, Zenon DEF TxInv, TxTypeOK
    <3>2. Before(w, u) \/ After(w, u)
      BY <3>1, Zenon DEF TxInv, Sides
    <3> QED
      BY <1>3, <1>5, <3>1, <3>2, Zenon DEF Before, After, Beginning
  <2> QED
    BY <2>1, <2>2, Zenon
<1>8. SeenNow'
  <2> SUFFICES ASSUME NEW w \in Txns \ mixed'
               PROVE  seen[w] \subseteq {[r \in Rows |-> SnapshotRow(w, r)']}
    BY Zenon DEF SeenNow
  <2>1. CASE w = t
    BY <2>1, Zenon DEF TxInv, Handles, Began
  <2>2. CASE w # t
    <3>1. readTs'[w] = readTs[w] /\ w \notin mixed
      BY <2>2, Zenon DEF TxInv, TxTypeOK
    <3>2. \A r \in Rows : SnapshotRow(w, r)' = SnapshotRow(w, r)
      BY <3>1, Zenon DEF SnapshotRow
    <3> QED
      BY <3>1, <3>2 DEF TxInv, SeenNow
  <2> QED
    BY <2>1, <2>2, Zenon
<1> QED
  BY <1>1, <1>2, <1>4, <1>6, <1>7, <1>8, Zenon DEF TxInv

\* The manager's begin, either step.
LEMMA BeginInv ==
    ASSUME TxInv, NEW t \in Txns, Begin(t)
    PROVE  TxInv'
<1> USE DEF Begin, engineVars, handleVars
<1>1. CertInv'
  BY BeginAllocCert, BeginRegisterCert, Zenon DEF TxInv
<1>2. TxTypeOK'
  BY Zenon DEF TxInv, TxTypeOK
<1>3. UNCHANGED <<commitTs, writes, reads, serializable, raced>>
  BY Zenon DEF BeginAlloc, BeginRegister, argVars
<1>4. /\ tpc[t] \in {"idle", "allocated"} /\ tpc'[t] \in {"allocated", "active"}
      /\ \A u \in Txns : u # t => tpc'[u] = tpc[u] /\ beginTs'[u] = beginTs[u]
  BY Zenon DEF BeginAlloc, BeginRegister, Move, TxInv, CertInv, TmTypeOK
<1>5. Handles'
  <2>1. tpc'[t] # "idle" /\ readTs[t] # -1
    BY <1>4, Zenon
  <2>2. writes[t] = {} /\ buffer[t] = Empty /\ seen[t] = {} /\ commitTs[t] = 0
    BY <1>4, Zenon DEF TxInv, CertInv, Phases, Handles, Began
  <2>3. WriteKeys(Empty) = {}
    BY Zenon DEF WriteKeys, Empty
  <2> SUFFICES ASSUME NEW u \in Txns PROVE Began(u)' /\ Told(u)' /\ Applies(u)'
    BY <1>3, Zenon DEF TxInv, Handles
  <2>4. Began(u) /\ Told(u) /\ Applies(u)
    BY Zenon DEF TxInv, Handles
  <2>5. CASE u = t
    BY <1>3, <1>4, <2>1, <2>2, <2>3, <2>4, <2>5, Zenon DEF Began, Told, Applies
  <2>6. CASE u # t
    BY <1>3, <1>4, <2>4, <2>6, Zenon DEF Began, Told, Applies
  <2> QED
    BY <2>5, <2>6, Zenon
<1>6. Chains' /\ Sides' /\ Applied' /\ SeenNow'
  BY <1>3, <1>4, QuietStep, Zenon DEF Beginning
<1> QED
  BY <1>1, <1>2, <1>5, <1>6, Zenon DEF TxInv

\* An INSERT, UPDATE or DELETE: the row is locked and buffered.
LEMMA BufferWriteInv ==
    ASSUME TxInv, NEW t \in Txns, NEW r \in Rows, NEW op, BufferWrite(t, r, op)
    PROVE  TxInv'
<1> DEFINE W == WriteKeys(buffer'[t])
<1>1. tpc[t] = "active" /\ commitTs[t] = 0
  BY Zenon DEF BufferWrite, AcquireLock, TxInv, CertInv, Phases
<1>2. buffer' \in [Txns -> Buffers] /\ \A u \in Txns : u # t => buffer'[u] = buffer[u]
  BY Zenon DEF BufferWrite, TxInv, TxTypeOK, Buffers
<1>3. W \in SUBSET Keys
  BY TxConstants, Zenon DEF WriteKeys
<1>4. writes' = [writes EXCEPT ![t] = W]
  BY Zenon DEF BufferWrite
<1> HIDE DEF W
<1>5. UNCHANGED <<nextTimestamp, activeSnapshots, committedWrites, tpc, beginTs, commitTs,
                  serializable, reads, raced>>
  BY Zenon DEF BufferWrite, AcquireLock
<1>6. CertInv'
  <2>1. writeLocks' \in [Keys -> Nat]
    BY Zenon DEF BufferWrite, AcquireLock, TxInv, CertInv, TmTypeOK
  <2> QED
    BY <1>1, <1>3, <1>4, <1>5, <2>1, WritesCert, Zenon DEF TxInv
<1>7. UNCHANGED <<engineTs, chain, readTs, savepoints, seen, todo, putTs, mixed, errors>>
  BY Zenon DEF BufferWrite, engineVars
<1>8. TxTypeOK'
  BY <1>2, <1>7, Zenon DEF TxInv, TxTypeOK
<1>9. /\ writes'[t] = WriteKeys(buffer'[t])
      /\ \A u \in Txns : u # t => writes'[u] = writes[u]
  BY <1>4, Zenon DEF W, TxInv, CertInv, TmTypeOK
<1>10. todo[t] = {}
  BY <1>1, Zenon DEF TxInv, Handles, Applies
<1>11. Handles'
  <2> SUFFICES ASSUME NEW u \in Txns PROVE Began(u)' /\ Told(u)' /\ Applies(u)'
    BY <1>5, <1>7, Zenon DEF TxInv, Handles
  <2>1. Began(u) /\ Told(u) /\ Applies(u)
    BY Zenon DEF TxInv, Handles
  <2>2. CASE u = t
    <3>1. Began(u)' /\ Told(u)'
      BY <1>1, <1>5, <1>7, <1>9, <2>1, <2>2, Zenon DEF Began, Told
    <3>2. Applies(u)'
      BY <1>5, <1>7, <1>10, <2>1, <2>2, Zenon DEF Applies
    <3> QED
      BY <3>1, <3>2, Zenon
  <2>3. CASE u # t
    BY <1>2, <1>5, <1>7, <1>9, <2>1, <2>3, Zenon DEF Began, Told, Applies
  <2> QED
    BY <2>2, <2>3, Zenon
<1>12. Chains' /\ Sides' /\ Applied' /\ SeenNow'
  BY <1>1, <1>2, <1>5, <1>7, <1>9, QuietStep, Zenon DEF Beginning
<1> QED
  BY <1>6, <1>8, <1>11, <1>12, Zenon DEF TxInv

\* ROLLBACK TO: the buffer and the write set go back, the locks stay.
LEMMA RollbackToInv ==
    ASSUME TxInv, NEW t \in Txns, NEW n \in Names, RollbackTo(t, n)
    PROVE  TxInv'
<1> DEFINE W == WriteKeys(buffer'[t])
           Saved == [name : Names, buf : Buffers]
<1>1. tpc[t] = "active" /\ commitTs[t] = 0
  BY Zenon DEF RollbackTo, Open, TxInv, CertInv, Phases
<1>2. PICK i \in DOMAIN savepoints[t] :
        /\ buffer' = [buffer EXCEPT ![t] = savepoints[t][i].buf]
        /\ savepoints' = [savepoints EXCEPT ![t] = SubSeq(savepoints[t], 1, i)]
  BY Zenon DEF RollbackTo, SetSavepoints
<1>3. savepoints[t] \in Seq(Saved)
  BY Zenon DEF TxInv, TxTypeOK
<1>4. savepoints[t][i].buf \in Buffers /\ SubSeq(savepoints[t], 1, i) \in Seq(Saved)
  <2> HIDE DEF Saved
  <2>1. savepoints[t][i] \in Saved /\ SubSeq(savepoints[t], 1, i) \in Seq(Saved)
    BY <1>3, StackPart, Zenon
  <2> QED
    BY <2>1, Zenon DEF Saved
<1>5. /\ buffer' \in [Txns -> Buffers] /\ \A u \in Txns : u # t => buffer'[u] = buffer[u]
      /\ savepoints' \in [Txns -> Seq(Saved)]
  BY <1>2, <1>4, Zenon DEF TxInv, TxTypeOK
<1>6. W \in SUBSET Keys
  BY TxConstants, Zenon DEF WriteKeys
<1>7. writes' = [writes EXCEPT ![t] = W]
  BY Zenon DEF RollbackTo
<1> HIDE DEF W
<1>8. UNCHANGED <<nextTimestamp, activeSnapshots, writeLocks, committedWrites, tpc, beginTs,
                  commitTs, serializable, reads, raced>>
  BY Zenon DEF RollbackTo, mgrVars
<1>9. CertInv'
  <2>1. writeLocks' \in [Keys -> Nat]
    BY <1>8, Zenon DEF TxInv, CertInv, TmTypeOK
  <2> QED
    BY <1>1, <1>6, <1>7, <1>8, <2>1, WritesCert, Zenon DEF TxInv
<1>10. UNCHANGED <<engineTs, chain, readTs, seen, todo, putTs, mixed, errors>>
  BY Zenon DEF RollbackTo, engineVars
<1>11. TxTypeOK'
  BY <1>5, <1>10, Zenon DEF TxInv, TxTypeOK
<1>12. /\ writes'[t] = WriteKeys(buffer'[t])
       /\ \A u \in Txns : u # t => writes'[u] = writes[u]
  BY <1>7, Zenon DEF W, TxInv, CertInv, TmTypeOK
<1>13. todo[t] = {}
  BY <1>1, Zenon DEF TxInv, Handles, Applies
<1>14. Handles'
  <2> SUFFICES ASSUME NEW u \in Txns PROVE Began(u)' /\ Told(u)' /\ Applies(u)'
    BY <1>8, <1>10, Zenon DEF TxInv, Handles
  <2>1. Began(u) /\ Told(u) /\ Applies(u)
    BY Zenon DEF TxInv, Handles
  <2>2. CASE u = t
    <3>1. Began(u)' /\ Told(u)'
      BY <1>1, <1>8, <1>10, <1>12, <2>1, <2>2, Zenon DEF Began, Told
    <3>2. Applies(u)'
      BY <1>8, <1>10, <1>13, <2>1, <2>2, Zenon DEF Applies
    <3> QED
      BY <3>1, <3>2, Zenon
  <2>3. CASE u # t
    BY <1>5, <1>8, <1>10, <1>12, <2>1, <2>3, Zenon DEF Began, Told, Applies
  <2> QED
    BY <2>2, <2>3, Zenon
<1>15. Chains' /\ Sides' /\ Applied' /\ SeenNow'
  BY <1>1, <1>5, <1>8, <1>10, <1>12, QuietStep, Zenon DEF Beginning
<1> QED
  BY <1>9, <1>11, <1>14, <1>15, Zenon DEF TxInv

\* SAVEPOINT, RELEASE, a failed statement, a lost connection: the handle and
\* the session change, the manager and the engine do not.
LEMMA SessionInv ==
    ASSUME TxInv, savepoints' \in [Txns -> Seq([name : Names, buf : Buffers])],
           UNCHANGED <<tmVars, engineVars, readTs, buffer, seen, todo, putTs, mixed, errors>>
    PROVE  TxInv'
<1>1. CertInv'
  BY CertSame, Zenon DEF TxInv
<1>2. UNCHANGED <<tpc, beginTs, commitTs, writes, reads, serializable, raced, engineTs, chain>>
  BY Zenon DEF tmVars, mgrVars, argVars, engineVars
<1>3. TxTypeOK'
  BY <1>2, Zenon DEF TxInv, TxTypeOK
<1>4. Handles'
  BY <1>2, Zenon DEF TxInv, Handles, Began, Told, Applies
<1>5. Chains' /\ Sides' /\ Applied' /\ SeenNow'
  BY <1>2, QuietStep, Zenon DEF Beginning
<1> QED
  BY <1>1, <1>3, <1>4, <1>5, Zenon DEF TxInv

\* SELECT: the snapshot's rows; a serializable transaction leaves its mark.
LEMMA ScanInv ==
    ASSUME TxInv, NEW t \in Txns, Scan(t)
    PROVE  TxInv'
<1> DEFINE now == [r \in Rows |-> SnapshotRow(t, r)]
<1>1. Table \in Keys /\ tpc[t] = "active"
  BY TxConstants, Zenon DEF Scan, Accepts, Open
<1>2. CertInv'
  BY <1>1, CertSame, RecordReadCert, Zenon DEF Scan, TxInv
<1>3. /\ UNCHANGED <<tpc, beginTs, commitTs, writes, serializable, raced>>
      /\ UNCHANGED <<engineTs, chain, readTs, buffer, savepoints, todo, putTs, mixed, errors>>
  BY Zenon DEF Scan, RecordRead, tmVars, mgrVars, argVars, engineVars
<1>4. now \in [Rows -> SUBSET Txns]
  <2> SUFFICES ASSUME NEW r \in Rows PROVE SnapshotRow(t, r) \subseteq Txns
    BY Zenon
  <2>1. \A j \in DOMAIN chain[r] : chain[r][j].by \in Txns
    BY VersionType, Zenon DEF TxInv, Versions
  <2> QED
    BY <2>1, Zenon DEF SnapshotRow
<1>5. seen' = [seen EXCEPT ![t] = @ \cup {now}]
  BY Zenon DEF Scan
<1> HIDE DEF now
<1>6. TxTypeOK'
  BY <1>3, <1>4, <1>5, Zenon DEF TxInv, TxTypeOK
<1>7. \A u \in Txns : serializable[u] /\ seen'[u] # {} => Table \in reads'[u]
  BY <1>5 DEF Scan, RecordRead, tmVars, argVars, TxInv, TxTypeOK, Handles, Told, CertInv, TmTypeOK
<1>8. \A u \in Txns : u # t => seen'[u] = seen[u]
  BY <1>5, Zenon DEF TxInv, TxTypeOK
<1>9. Handles'
  <2> SUFFICES ASSUME NEW u \in Txns PROVE Began(u)' /\ Told(u)' /\ Applies(u)'
    BY <1>3, Zenon DEF TxInv, Handles
  <2>1. Began(u) /\ Told(u) /\ Applies(u)
    BY Zenon DEF TxInv, Handles
  <2>2. Began(u)'
    BY <1>1, <1>3, <1>8, <2>1, Zenon DEF Began
  <2> QED
    BY <1>3, <1>7, <2>1, <2>2, Zenon DEF Told, Applies
<1>10. \A w \in Txns : seen'[w] \subseteq seen[w] \cup {[r \in Rows |-> SnapshotRow(w, r)]}
  BY <1>5, Zenon DEF now, TxInv, TxTypeOK
<1>11. Chains' /\ Sides' /\ Applied' /\ SeenNow'
  BY <1>3, <1>10, QuietStep, Zenon DEF Beginning
<1> QED
  BY <1>2, <1>6, <1>9, <1>11, Zenon DEF TxInv

----------------------------------------------------------------------------
\* A certification after everybody's begin, or beside one that is marked.
LEMMA CommitCertifyInv ==
    ASSUME TxInv, NEW t \in Txns, CommitCertify(t)
    PROVE  TxInv'
<1>1. CertInv'
  BY CertifyCert, Zenon DEF CommitCertify, TxInv
<1>2. /\ tpc[t] = "active" /\ tpc'[t] = "certified" /\ commitTs'[t] = nextTimestamp
      /\ nextTimestamp # 0 /\ commitTs[t] = 0
      /\ \A u \in Txns : u # t => tpc'[u] = tpc[u] /\ commitTs'[u] = commitTs[u]
      /\ UNCHANGED <<beginTs, writes, reads, serializable>>
      /\ raced' = raced \cup {u \in Txns : tpc[u] = "allocated"}
  BY Zenon DEF CommitCertify, Certify, Move, argVars, TxInv, CertInv, TmTypeOK, Phases
<1>3. UNCHANGED <<engineTs, chain, readTs, buffer, savepoints, seen, putTs, errors>>
  BY Zenon DEF CommitCertify, engineVars, handleVars
<1>4. /\ todo'[t] = {r \in Rows : buffer[t][r] # "none"} /\ todo' \in [Txns -> SUBSET Rows]
      /\ \A u \in Txns : u # t => todo'[u] = todo[u]
  BY Zenon DEF CommitCertify, TxInv, TxTypeOK
<1>5. mixed' = mixed \cup {u \in Txns : Beginning(u)}
  BY Zenon DEF CommitCertify
<1>6. TxTypeOK'
  BY <1>3, <1>4, <1>5, Zenon DEF TxInv, TxTypeOK
<1>7. raced' \subseteq mixed'
  BY <1>2, <1>5, Zenon DEF TxInv, Handles, Began, Beginning
<1>8. putTs[t] = 0
  BY <1>2, Zenon DEF TxInv, Handles, Applies
<1>9. Handles'
  <2> SUFFICES ASSUME NEW u \in Txns PROVE Began(u)' /\ Told(u)' /\ Applies(u)'
    BY <1>7, Zenon DEF TxInv, Handles
  <2>1. Began(u) /\ Told(u) /\ Applies(u)
    BY Zenon DEF TxInv, Handles
  <2>2. CASE u = t
    BY <1>2, <1>3, <1>4, <1>8, <2>1, <2>2, Zenon DEF Began, Told, Applies
  <2>3. CASE u # t
    BY <1>2, <1>3, <1>4, <2>1, <2>3, Zenon DEF Began, Told, Applies
  <2> QED
    BY <2>2, <2>3, Zenon
<1>10. \A r \in Rows : Versions(r)' = Versions(r)
  BY <1>3, Zenon DEF Versions
<1>11. \A r \in Rows : \A v \in Versions(r) : v.by \in Txns \ {t}
  BY <1>2, VersionType, Zenon DEF TxInv, Chains
<1>12. Chains'
  <2> SUFFICES ASSUME NEW r \in Rows, NEW v \in Versions(r)
               PROVE  v.ts < engineTs /\ commitTs'[v.by] # 0 /\ Table \in writes[v.by]
    BY <1>2, <1>3, <1>10, Zenon DEF Chains
  <2>1. commitTs'[v.by] = commitTs[v.by]
    BY <1>2, <1>11, Zenon
  <2> QED
    BY <2>1, Zenon DEF TxInv, Chains
<1>13. Sides'
  <2> SUFFICES ASSUME NEW w \in Txns \ mixed', NEW u \in Txns, readTs[w] # -1, commitTs'[u] # 0
               PROVE  Before(w, u)' \/ After(w, u)'
    BY <1>3, Zenon DEF Sides
  <2>1. ~Beginning(w) /\ w \notin mixed
    BY <1>5, Zenon
  <2>2. ~Beginning(w)'
    BY <1>2, <1>3, <2>1, Zenon DEF Beginning
  <2>3. CASE u = t
    <3>1. beginTs[w] < nextTimestamp
      BY Zenon DEF TxInv, CertInv, Clock
    <3> QED
      BY <1>2, <1>3, <1>8, <1>10, <1>11, <2>2, <2>3, <3>1, Zenon DEF After
  <2>4. CASE u # t
    <3>1. Before(w, u) \/ After(w, u)
      BY <1>2, <2>1, <2>4, Zenon DEF TxInv, Sides
    <3> QED
      BY <1>2, <1>3, <1>4, <1>10, <2>2, <2>4, <3>1, Zenon DEF Before, After
  <2> QED
    BY <2>3, <2>4, Zenon
<1>14. Applied'
  <2> SUFFICES ASSUME errors = 0, NEW u \in Txns, NEW r \in Rows, commitTs'[u] # 0,
                      buffer[u][r] = "put"
               PROVE  r \in todo'[u] \/ \E v \in Versions(r) : v.by = u
    BY <1>3, <1>10 DEF Applied
  <2>1. CASE u = t
    BY <1>4, <2>1, Zenon
  <2>2. CASE u # t
    BY <1>2, <1>4, <2>2, Zenon DEF TxInv, Applied
  <2> QED
    BY <2>1, <2>2, Zenon
<1>15. SeenNow'
  <2>1. \A w \in Txns, r \in Rows : SnapshotRow(w, r)' = SnapshotRow(w, r)
    BY <1>3 DEF SnapshotRow
  <2> QED
    BY <1>3, <1>5, <2>1 DEF TxInv, SeenNow
<1> QED
  BY <1>1, <1>6, <1>9, <1>12, <1>13, <1>14, <1>15, Zenon DEF TxInv

\* The other steps of the manager's commit and abort: the phase changes, and
\* a rolled back transaction forgets its buffer.
LEMMA EndInv ==
    ASSUME TxInv, NEW t \in Txns,
           CommitFails(t) \/ CommitFinish(t) \/ Rollback(t) \/ RollbackFinish(t)
    PROVE  TxInv'
<1>1. CertInv'
  BY CertifyFailsCert, ReleaseCert, DropCert, Zenon
     DEF CommitFails, CommitFinish, Rollback, RollbackFinish, TxInv
<1>2. /\ UNCHANGED <<beginTs, commitTs, writes, reads, serializable, raced>>
      /\ UNCHANGED <<engineTs, chain, readTs, seen, todo, putTs, mixed, errors>>
  BY Zenon DEF CommitFails, CommitFinish, Rollback, RollbackFinish, CertifyFails, CommitRelease,
         CommitDrop, AbortRelease, AbortDrop, ReleaseLocks, DropSnapshot, Move, argVars, mgrVars,
         engineVars, handleVars
<1>3. /\ tpc[t] \in {"active", "certified", "released", "failed", "aborting"}
      /\ tpc'[t] \in {"failed", "released", "committed", "aborting", "aborted"}
      /\ \A u \in Txns : u # t => tpc'[u] = tpc[u]
  BY Zenon DEF CommitFails, CommitFinish, Rollback, RollbackFinish, CertifyFails, CommitRelease,
         CommitDrop, AbortRelease, AbortDrop, ReleaseLocks, DropSnapshot, Move, TxInv, CertInv,
         TmTypeOK
<1>4. \/ UNCHANGED <<buffer, savepoints>>
      \/ /\ tpc[t] \in {"active", "failed"} /\ buffer' = [buffer EXCEPT ![t] = Empty]
         /\ savepoints' = [savepoints EXCEPT ![t] = <<>>]
  BY Zenon DEF CommitFails, CommitFinish, Rollback, RollbackFinish, handleVars, SetSavepoints,
         AbortRelease, ReleaseLocks, Move
<1>5. TxTypeOK'
  <2>1. Empty \in Buffers /\ <<>> \in Seq([name : Names, buf : Buffers])
    BY DEF Empty, Buffers
  <2>2. buffer \in [Txns -> Buffers] /\ savepoints \in [Txns -> Seq([name : Names, buf : Buffers])]
    BY Zenon DEF TxInv, TxTypeOK
  <2>3. buffer' \in [Txns -> Buffers]
    BY <1>4, <2>1, <2>2, Zenon
  <2>4. savepoints' \in [Txns -> Seq([name : Names, buf : Buffers])]
    BY <1>4, <2>1, <2>2, Zenon
  <2> QED
    BY <1>2, <2>3, <2>4, Zenon DEF TxInv, TxTypeOK
<1>6. \A u \in Txns : commitTs[u] # 0 \/ u # t => buffer'[u] = buffer[u]
  BY <1>4, Zenon DEF TxInv, TxTypeOK, CertInv, Phases
<1>7. Handles'
  <2> SUFFICES ASSUME NEW u \in Txns PROVE Began(u)' /\ Told(u)' /\ Applies(u)'
    BY <1>2, Zenon DEF TxInv, Handles
  <2>1. Began(u) /\ Told(u) /\ Applies(u)
    BY Zenon DEF TxInv, Handles
  <2>2. Began(u)'
    BY <1>2, <1>3, <1>6, <2>1, Zenon DEF Began
  <2>3. Told(u)'
    BY <1>2, <1>3, <1>6, <2>1, Zenon DEF Told
  <2>4. Applies(u)'
    BY <1>2, <1>6, <2>1, Zenon DEF Applies
  <2> QED
    BY <2>2, <2>3, <2>4, Zenon
<1>8. Chains' /\ Sides' /\ Applied' /\ SeenNow'
  BY <1>2, <1>3, <1>6, QuietStep, Zenon DEF Beginning
<1> QED
  BY <1>1, <1>5, <1>7, <1>8, Zenon DEF TxInv

-----------------------------------------------------------------------------
(* The apply loop of commit_transaction                                    *)

\* While a transaction has rows to apply, whoever sees all or nothing of it
\* sees nothing.
LEMMA Applying ==
    ASSUME TxInv, NEW t \in Txns, todo[t] # {}
    PROVE  /\ commitTs[t] # 0 /\ Table \in writes[t]
           /\ \A w \in Txns \ mixed : readTs[w] # -1 => After(w, t)
<1>1. commitTs[t] # 0 /\ writes[t] = WriteKeys(buffer[t])
  BY Zenon DEF TxInv, Handles, Told, Applies
<1>2. PICK r \in todo[t] : r \in Rows /\ buffer[t][r] # "none"
  BY Zenon DEF TxInv, TxTypeOK, Handles, Applies
<1>3. Table \in writes[t]
  BY <1>1, <1>2, Zenon DEF WriteKeys
<1>4. \A w \in Txns : ~Before(w, t)
  BY Zenon DEF Before
<1> QED
  BY <1>1, <1>3, <1>4, Zenon DEF TxInv, Sides

\* put_sync draws its timestamp past every snapshot there is.
LEMMA ApplyAllocInv ==
    ASSUME TxInv, NEW t \in Txns, ApplyAlloc(t)
    PROVE  TxInv'
<1>1. putTs[t] = 0 /\ tpc[t] = "committed"
  BY Zenon DEF ApplyAlloc
<1>2. /\ UNCHANGED <<tpc, beginTs, commitTs, writes, reads, serializable, raced>>
      /\ UNCHANGED <<chain, readTs, buffer, savepoints, seen, mixed, errors>> /\ UNCHANGED tmVars
  BY Zenon DEF ApplyAlloc, tmVars, argVars, handleVars
<1>3. CertInv'
  BY <1>2, CertSame, Zenon DEF TxInv
<1>4. PICK r \in Rows :
        /\ r \in todo[t]
        /\ \/ /\ buffer[t][r] = "del" /\ todo' = [todo EXCEPT ![t] = @ \ {r}]
              /\ UNCHANGED <<engineTs, putTs>>
           \/ /\ putTs' = [putTs EXCEPT ![t] = engineTs] /\ engineTs' = engineTs + 1
              /\ todo' = todo
  BY Zenon DEF ApplyAlloc, NextRow
<1>5. todo[t] # {}
  BY <1>4, Zenon
<1>6. /\ todo' \in [Txns -> SUBSET Rows] /\ todo'[t] \subseteq todo[t]
      /\ \A q \in todo[t] : buffer[t][q] = "put" => q \in todo'[t]
      /\ \A u \in Txns : u # t => todo'[u] = todo[u] /\ putTs'[u] = putTs[u]
      /\ putTs' \in [Txns -> Nat] /\ putTs'[t] \in {0, engineTs} /\ putTs'[t] < engineTs'
      /\ putTs'[t] # 0 => todo'[t] # {}
      /\ engineTs' \in Nat \ {0} /\ engineTs <= engineTs'
  <2>1. engineTs \in Nat \ {0} /\ todo \in [Txns -> SUBSET Rows] /\ putTs \in [Txns -> Nat]
    BY Zenon DEF TxInv, TxTypeOK
  <2>2. CASE /\ buffer[t][r] = "del" /\ todo' = [todo EXCEPT ![t] = @ \ {r}]
             /\ UNCHANGED <<engineTs, putTs>>
    <3>1. todo' \in [Txns -> SUBSET Rows] /\ todo'[t] = todo[t] \ {r}
      BY <2>1, <2>2, Zenon
    <3> QED
      BY <1>1, <1>4, <2>1, <2>2, <3>1
  <2>3. CASE /\ putTs' = [putTs EXCEPT ![t] = engineTs] /\ engineTs' = engineTs + 1
             /\ todo' = todo
    BY <1>1, <1>4, <2>1, <2>3
  <2> QED
    BY <1>4, <2>2, <2>3, Zenon
<1>7. TxTypeOK'
  BY <1>2, <1>6, Zenon DEF TxInv, TxTypeOK
<1>8. Handles'
  <2> SUFFICES ASSUME NEW u \in Txns PROVE Began(u)' /\ Told(u)' /\ Applies(u)'
    BY <1>2, Zenon DEF TxInv, Handles
  <2>1. Began(u) /\ Told(u) /\ Applies(u)
    BY Zenon DEF TxInv, Handles
  <2>2. /\ readTs[u] \in Int /\ putTs[u] \in Int /\ engineTs \in Int /\ engineTs' \in Int
        /\ engineTs <= engineTs'
    BY <1>6 DEF TxInv, TxTypeOK
  <2>3. readTs[u] < engineTs'
    BY <2>1, <2>2 DEF Began
  <2>4. Began(u)'
    BY <1>2, <2>1, <2>3, Zenon DEF Began
  <2>5. Told(u)'
    BY <1>2, <2>1, Zenon DEF Told
  <2>6. putTs'[u] < engineTs'
    BY <1>6, <2>1, <2>2 DEF Applies
  <2>7. CASE u = t
    <3>1. commitTs[t] # 0 /\ \A q \in todo[t] : buffer[t][q] # "none"
      BY <1>5, <2>1, <2>7, Zenon DEF Applies
    <3> QED
      BY <1>2, <1>6, <2>4, <2>5, <2>6, <2>7, <3>1, Zenon DEF Applies
  <2>8. CASE u # t
    BY <1>2, <1>6, <2>1, <2>4, <2>5, <2>6, <2>8, Zenon DEF Applies
  <2> QED
    BY <2>7, <2>8, Zenon
<1>9. \A q \in Rows : Versions(q)' = Versions(q)
  BY <1>2, Zenon DEF Versions
<1>10. Chains'
  <2> SUFFICES ASSUME NEW q \in Rows, NEW v \in Versions(q)
               PROVE  v.ts < engineTs' /\ commitTs[v.by] # 0 /\ Table \in writes[v.by]
    BY <1>2, <1>9, Zenon DEF Chains
  <2>1. v.ts \in Nat /\ v.ts < engineTs /\ engineTs \in Nat
    BY VersionType, Zenon DEF TxInv, TxTypeOK, Chains
  <2> QED
    BY <1>6, <2>1 DEF TxInv, Chains
<1>11. Sides'
  <2> SUFFICES ASSUME NEW w \in Txns \ mixed, NEW u \in Txns, readTs[w] # -1, commitTs[u] # 0
               PROVE  Before(w, u)' \/ After(w, u)'
    BY <1>2, Zenon DEF Sides
  <2>1. Beginning(w)' <=> Beginning(w)
    BY <1>2, Zenon DEF Beginning
  <2>2. CASE u = t
    <3>1. After(w, t)
      BY <1>5, Applying, Zenon
    <3>2. readTs[w] < engineTs
      BY Zenon DEF TxInv, Handles, Began
    <3>3. putTs'[t] # 0 => putTs'[t] > readTs[w]
      BY <1>6, <3>2, Zenon DEF TxInv, TxTypeOK
    <3> QED
      BY <1>2, <1>9, <2>1, <2>2, <3>1, <3>3, Zenon DEF After
  <2>3. CASE u # t
    BY <1>2, <1>6, <1>9, <2>1, <2>3 DEF TxInv, Sides, Before, After
  <2> QED
    BY <2>2, <2>3, Zenon
<1>12. Applied'
  <2> SUFFICES ASSUME errors = 0, NEW u \in Txns, NEW q \in Rows, commitTs[u] # 0,
                      buffer[u][q] = "put"
               PROVE  q \in todo'[u] \/ \E v \in Versions(q) : v.by = u
    BY <1>2, <1>9, Zenon DEF Applied
  <2>1. q \in todo[u] \/ \E v \in Versions(q) : v.by = u
    BY Zenon DEF TxInv, Applied
  <2> QED
    BY <1>6, <2>1, Zenon
<1>13. SeenNow'
  <2>1. \A w \in Txns, q \in Rows : SnapshotRow(w, q)' = SnapshotRow(w, q)
    BY <1>2 DEF SnapshotRow
  <2> QED
    BY <1>2, <2>1 DEF TxInv, SeenNow
<1> QED
  BY <1>3, <1>7, <1>8, <1>10, <1>11, <1>12, <1>13, Zenon DEF TxInv

\* The version reaches the memtable: no snapshot that stands shows it.
LEMMA ApplyPutInv ==
    ASSUME TxInv, NEW t \in Txns, ApplyPut(t)
    PROVE  TxInv'
<1>1. putTs[t] # 0 /\ tpc[t] = "committed"
  BY Zenon DEF ApplyPut
<1>2. /\ UNCHANGED <<tpc, beginTs, commitTs, writes, reads, serializable, raced>>
      /\ UNCHANGED <<engineTs, readTs, buffer, savepoints, seen, mixed, errors>> /\ UNCHANGED tmVars
  BY Zenon DEF ApplyPut, tmVars, argVars, handleVars
<1>3. PICK r \in Rows : \E n :
        /\ r \in todo[t] /\ n = [ts |-> putTs[t], by |-> t, del |-> buffer[t][r] = "del"]
        /\ chain' = [chain EXCEPT ![r] = <<n>> \o @] /\ todo' = [todo EXCEPT ![t] = @ \ {r}]
  BY Zenon DEF ApplyPut, NextRow
<1>4. PICK new :
        /\ r \in todo[t] /\ new = [ts |-> putTs[t], by |-> t, del |-> buffer[t][r] = "del"]
        /\ chain' = [chain EXCEPT ![r] = <<new>> \o @] /\ todo' = [todo EXCEPT ![t] = @ \ {r}]
  BY <1>3, Zenon
<1>5. putTs' = [putTs EXCEPT ![t] = 0] /\ todo[t] # {}
  BY <1>4, Zenon DEF ApplyPut
<1>6. new \in Version /\ new.ts = putTs[t] /\ new.by = t
  BY <1>4, Zenon DEF TxInv, TxTypeOK, Version
<1>7. CertInv'
  BY <1>2, CertSame, Zenon DEF TxInv
<1>8. chain[r] \in Seq(Version) /\ chain'[r] = <<new>> \o chain[r]
  BY <1>4, Zenon DEF TxInv, TxTypeOK
<1>9. \A q \in Rows : q # r => chain'[q] = chain[q]
  BY <1>4, Zenon DEF TxInv, TxTypeOK
<1>10. chain' \in [Rows -> Seq(Version)]
  <2>1. <<new>> \o chain[r] \in Seq(Version)
    BY <1>6, <1>8, PutFront, Zenon
  <2> QED
    BY <1>4, <2>1, Zenon DEF TxInv, TxTypeOK
<1>11. /\ todo' \in [Txns -> SUBSET Rows] /\ todo'[t] = todo[t] \ {r}
       /\ \A u \in Txns : u # t => todo'[u] = todo[u] /\ putTs'[u] = putTs[u]
       /\ putTs' \in [Txns -> Nat] /\ putTs'[t] = 0
  BY <1>4, <1>5, Zenon DEF TxInv, TxTypeOK
<1>12. TxTypeOK'
  BY <1>2, <1>10, <1>11, Zenon DEF TxInv, TxTypeOK
<1>13. commitTs[t] # 0 /\ Table \in writes[t] /\ putTs[t] < engineTs
  BY <1>5, Applying, Zenon DEF TxInv, Handles, Applies
<1>14. Handles'
  <2>1. 0 < engineTs
    BY DEF TxInv, TxTypeOK
  <2> SUFFICES ASSUME NEW u \in Txns PROVE Began(u)' /\ Told(u)' /\ Applies(u)'
    BY <1>2, Zenon DEF TxInv, Handles
  <2>2. Began(u) /\ Told(u) /\ Applies(u)
    BY Zenon DEF TxInv, Handles
  <2>3. CASE u = t
    BY <1>2, <1>11, <1>13, <2>1, <2>2, <2>3, Zenon DEF Began, Told, Applies
  <2>4. CASE u # t
    BY <1>2, <1>11, <2>2, <2>4, Zenon DEF Began, Told, Applies
  <2> QED
    BY <2>3, <2>4, Zenon
<1>15. Versions(r)' = Versions(r) \cup {new} /\ \A q \in Rows : q # r => Versions(q)' = Versions(q)
  <2>1. /\ DOMAIN chain'[r] = 1 .. Len(chain[r]) + 1 /\ DOMAIN chain[r] = 1 .. Len(chain[r])
        /\ chain'[r][1] = new /\ Len(chain[r]) \in Nat
        /\ \A j \in 1 .. Len(chain[r]) : chain'[r][j + 1] = chain[r][j]
    <3>1. Len(chain[r]) \in Nat
      BY <1>8
    <3> QED
      BY <1>6, <1>8, <3>1, PutFront
  <2>2. ASSUME NEW i \in DOMAIN chain'[r] PROVE chain'[r][i] \in Versions(r) \cup {new}
    <3>1. CASE i = 1
      BY <2>1, <3>1, Zenon
    <3>2. CASE i # 1
      <4>1. i - 1 \in 1 .. Len(chain[r]) /\ (i - 1) + 1 = i
        BY <2>1, <3>2
      <4>2. chain'[r][i] = chain[r][i - 1]
        BY <2>1, <4>1, Zenon
      <4> QED
        BY <2>1, <4>1, <4>2, Zenon DEF Versions
    <3> QED
      BY <3>1, <3>2, Zenon
  <2>3. ASSUME NEW j \in DOMAIN chain[r] PROVE chain[r][j] \in Versions(r)'
    <3>1. j + 1 \in DOMAIN chain'[r] /\ chain'[r][j + 1] = chain[r][j]
      BY <2>1
    <3> QED
      BY <3>1, Zenon DEF Versions
  <2>4. new \in Versions(r)'
    <3>1. 1 \in DOMAIN chain'[r]
      BY <2>1
    <3> QED
      BY <2>1, <3>1, Zenon DEF Versions
  <2>5. Versions(r)' \subseteq Versions(r) \cup {new}
    BY <2>2, Zenon DEF Versions
  <2>6. Versions(r) \subseteq Versions(r)'
    BY <2>3, Zenon DEF Versions
  <2>7. \A q \in Rows : q # r => Versions(q)' = Versions(q)
    BY <1>9, Zenon DEF Versions
  <2> QED
    BY <2>4, <2>5, <2>6, <2>7, Zenon
<1>16. \A q \in Rows : /\ Versions(q)' \subseteq Versions(q) \cup {new}
                      /\ Versions(q) \subseteq Versions(q)'
  BY <1>15, Zenon
<1>17. Chains'
  BY <1>2, <1>6, <1>13, <1>16, Zenon DEF TxInv, Chains
<1>18. \A w \in Txns \ mixed : readTs[w] # -1 => After(w, t)
  BY <1>5, Applying, Zenon
<1>19. Sides'
  <2> SUFFICES ASSUME NEW w \in Txns \ mixed, NEW u \in Txns, readTs[w] # -1, commitTs[u] # 0
               PROVE  Before(w, u)' \/ After(w, u)'
    BY <1>2, Zenon DEF Sides
  <2>1. Beginning(w)' <=> Beginning(w)
    BY <1>2, Zenon DEF Beginning
  <2>2. CASE u = t
    <3>1. After(w, t) /\ new.ts > readTs[w]
      BY <1>1, <1>6, <1>18, Zenon DEF After
    <3> QED
      BY <1>2, <1>11, <1>16, <2>1, <2>2, <3>1, Zenon DEF After
  <2>3. CASE u # t
    <3>1. Before(w, u) \/ After(w, u)
      BY Zenon DEF TxInv, Sides
    <3>2. CASE Before(w, u)
      BY <1>2, <1>6, <1>11, <1>16, <2>3, <3>2, Zenon DEF Before
    <3>3. CASE After(w, u)
      BY <1>2, <1>6, <1>11, <1>16, <2>1, <2>3, <3>3, Zenon DEF After
    <3> QED
      BY <3>1, <3>2, <3>3, Zenon
  <2> QED
    BY <2>2, <2>3, Zenon
<1>20. Applied'
  <2> SUFFICES ASSUME errors = 0, NEW u \in Txns, NEW q \in Rows, commitTs[u] # 0,
                      buffer[u][q] = "put"
               PROVE  q \in todo'[u] \/ \E v \in Versions(q)' : v.by = u
    BY <1>2, Zenon DEF Applied
  <2>1. q \in todo[u] \/ \E v \in Versions(q) : v.by = u
    BY Zenon DEF TxInv, Applied
  <2>2. CASE u = t /\ q = r
    BY <1>6, <1>15, <2>2, Zenon
  <2>3. CASE ~(u = t /\ q = r)
    BY <1>11, <1>16, <2>1, <2>3, Zenon
  <2> QED
    BY <2>2, <2>3, Zenon
<1>21. SeenNow'
  <2> SUFFICES ASSUME NEW w \in Txns \ mixed, seen[w] # {}
               PROVE  seen[w] \subseteq {[q \in Rows |-> SnapshotRow(w, q)']}
    BY <1>2, Zenon DEF SeenNow
  <2>1. readTs[w] # -1
    BY Zenon DEF TxInv, Handles, Began
  <2>2. new.ts > readTs[w]
    BY <1>1, <1>6, <1>18, <2>1, Zenon DEF After
  <2>3. SnapshotRow(w, r)' = SnapshotRow(w, r)
    BY <1>4, <1>2, <1>6, <1>8, <2>2, FrontUnseen, Zenon DEF TxInv
  <2>4. \A q \in Rows : q # r => SnapshotRow(w, q)' = SnapshotRow(w, q)
    BY <1>2, <1>9, Zenon DEF SnapshotRow
  <2>5. \A q \in Rows : SnapshotRow(w, q)' = SnapshotRow(w, q)
    BY <2>3, <2>4, Zenon
  <2> QED
    BY <2>5, Zenon DEF TxInv, SeenNow
<1> QED
  BY <1>7, <1>12, <1>14, <1>17, <1>19, <1>20, <1>21, Zenon DEF TxInv

\* An engine error ends the apply loop; the rest of the rows is lost.
LEMMA ApplyFailsInv ==
    ASSUME TxInv, NEW t \in Txns, ApplyFails(t)
    PROVE  TxInv'
<1>1. putTs[t] # 0 /\ todo[t] # {} /\ tpc[t] = "committed"
  BY Zenon DEF ApplyFails, TxInv, Handles, Applies
<1>2. /\ UNCHANGED <<tpc, beginTs, commitTs, writes, reads, serializable, raced>>
      /\ UNCHANGED <<engineTs, chain, readTs, buffer, savepoints, seen, mixed>> /\ UNCHANGED tmVars
  BY Zenon DEF ApplyFails, tmVars, argVars, handleVars, engineVars
<1>3. /\ todo' \in [Txns -> SUBSET Rows] /\ todo'[t] = {}
      /\ \A u \in Txns : u # t => todo'[u] = todo[u] /\ putTs'[u] = putTs[u]
      /\ putTs' \in [Txns -> Nat] /\ putTs'[t] = 0 /\ errors' \in Nat /\ errors' # 0
  BY DEF ApplyFails, TxInv, TxTypeOK
<1>4. CertInv'
  BY <1>2, CertSame, Zenon DEF TxInv
<1>5. TxTypeOK'
  BY <1>2, <1>3, Zenon DEF TxInv, TxTypeOK
<1>6. Handles'
  <2>1. 0 < engineTs
    BY DEF TxInv, TxTypeOK
  <2> SUFFICES ASSUME NEW u \in Txns PROVE Began(u)' /\ Told(u)' /\ Applies(u)'
    BY <1>2, Zenon DEF TxInv, Handles
  <2>2. Began(u) /\ Told(u) /\ Applies(u)
    BY Zenon DEF TxInv, Handles
  <2>3. CASE u = t
    BY <1>2, <1>3, <2>1, <2>2, <2>3, Zenon DEF Began, Told, Applies
  <2>4. CASE u # t
    BY <1>2, <1>3, <2>2, <2>4, Zenon DEF Began, Told, Applies
  <2> QED
    BY <2>3, <2>4, Zenon
<1>7. \A q \in Rows : Versions(q)' = Versions(q)
  BY <1>2, Zenon DEF Versions
<1>8. Chains' /\ Applied'
  <2>1. Chains'
    BY <1>2, <1>7, Zenon DEF TxInv, Chains
  <2>2. Applied'
    BY <1>3, Zenon DEF Applied
  <2> QED
    BY <2>1, <2>2, Zenon
<1>9. Sides'
  <2> SUFFICES ASSUME NEW w \in Txns \ mixed, NEW u \in Txns, readTs[w] # -1, commitTs[u] # 0
               PROVE  Before(w, u)' \/ After(w, u)'
    BY <1>2, Zenon DEF Sides
  <2>1. Beginning(w)' <=> Beginning(w)
    BY <1>2, Zenon DEF Beginning
  <2>2. CASE u = t
    <3>1. After(w, t)
      BY <1>1, Applying, Zenon
    <3> QED
      BY <1>2, <1>3, <1>7, <2>1, <2>2, <3>1, Zenon DEF After
  <2>3. CASE u # t
    BY <1>2, <1>3, <1>7, <2>1, <2>3, Zenon DEF TxInv, Sides, Before, After
  <2> QED
    BY <2>2, <2>3, Zenon
<1>10. SeenNow'
  <2>1. \A w \in Txns, q \in Rows : SnapshotRow(w, q)' = SnapshotRow(w, q)
    BY <1>2 DEF SnapshotRow
  <2> QED
    BY <1>2, <2>1 DEF TxInv, SeenNow
<1> QED
  BY <1>4, <1>5, <1>6, <1>8, <1>9, <1>10, Zenon DEF TxInv

----------------------------------------------------------------------------
\* TxInv is inductive.
LEMMA TxStepInv == TxInv /\ [TxNext]_txVars => TxInv'
<1> SUFFICES ASSUME TxInv, [TxNext]_txVars PROVE TxInv'
  BY Zenon
<1>1. CASE UNCHANGED txVars
  BY <1>1, SessionInv, Zenon DEF txVars, handleVars, TxInv, TxTypeOK
<1>2. ASSUME NEW t \in Txns, TxStep(t) PROVE TxInv'
  <2>1. savepoints[t] \in Seq([name : Names, buf : Buffers]) /\ buffer[t] \in Buffers
    BY Zenon DEF TxInv, TxTypeOK
  <2>2. ASSUME NEW n \in Names, Savepoint(t, n) PROVE TxInv'
    <3>1. Append(savepoints[t], [name |-> n, buf |-> buffer[t]]) \in Seq([name : Names,
       buf : Buffers])
      BY <2>1, StackPush, Zenon
    <3>2. savepoints' \in [Txns -> Seq([name : Names, buf : Buffers])]
      BY <2>2, <3>1, Zenon DEF Savepoint, SetSavepoints, TxInv, TxTypeOK
    <3> QED
      BY <2>2, <3>2, SessionInv, Zenon DEF Savepoint
  <2>3. ASSUME NEW n \in Names, Release(t, n) PROVE TxInv'
    <3>1. PICK i \in DOMAIN savepoints[t] : SetSavepoints(t, SubSeq(savepoints[t], 1, i - 1))
      BY <2>3, Zenon DEF Release
    <3>2. SubSeq(savepoints[t], 1, i - 1) \in Seq([name : Names, buf : Buffers])
      BY <2>1, StackPart, Zenon
    <3>3. savepoints' \in [Txns -> Seq([name : Names, buf : Buffers])]
      BY <3>1, <3>2, Zenon DEF SetSavepoints, TxInv, TxTypeOK
    <3> QED
      BY <2>3, <3>3, SessionInv, Zenon DEF Release
  <2>4. ASSUME NEW r \in Rows, NEW op, StatementFails(t, r, op) PROVE TxInv'
    BY <2>4, SessionInv, Zenon DEF StatementFails, TxInv, TxTypeOK
  <2>5. CASE Disconnect(t)
    BY <2>5, SessionInv, Zenon DEF Disconnect, handleVars, TxInv, TxTypeOK
  <2> QED
    BY <1>2, <2>2, <2>3, <2>4, <2>5, ReadClockInv, BeginInv, ScanInv, BufferWriteInv,
       RollbackToInv, CommitCertifyInv, EndInv, ApplyAllocInv, ApplyPutInv, ApplyFailsInv, Zenon
       DEF TxStep
<1> QED
  BY <1>1, <1>2, Zenon DEF TxNext, TxDone

\* Every reachable state satisfies the inductive invariant.
THEOREM TxInvariant == TxSpec => []TxInv
  BY TxInitInv, TxStepInv, PTL DEF TxSpec

\* "a transaction that fails ... never persists": a version in the engine was
\* put by a transaction that commit_serializable let pass.
THEOREM OnlyCertifiedPersistAlways == TxSpec => []OnlyCertifiedPersist
<1>1. TxInv => OnlyCertifiedPersist
  BY Zenon DEF TxInv, Chains, Versions, OnlyCertifiedPersist
<1> QED
  BY <1>1, TxInvariant, PTL

\* "no non-repeatable reads": the scans of a transaction that began with no
\* commit in progress all return the same rows.
THEOREM SnapshotStable == TxSpec => []SnapshotStableUnlessMixed
<1>1. TxInv => SnapshotStableUnlessMixed
  BY Zenon DEF TxInv, SeenNow, SnapshotStableUnlessMixed
<1> QED
  BY <1>1, TxInvariant, PTL

\* "Applied atomically at COMMIT": a transaction that began with no commit in
\* progress sees every row another one put, or none, while no engine write
\* has failed.
THEOREM Atomic == TxSpec => []AtomicUnlessMixed
<1>1. TxInv => AtomicUnlessMixed
  <2> SUFFICES ASSUME TxInv, errors = 0, NEW t \in Txns \ mixed, NEW u \in Txns, Open(t),
                      commitTs[u] # 0
               PROVE  LET puts == {r \in Rows : buffer[u][r] = "put"}
                      IN  {r \in puts : Sees(t, u, r)} \in {{}, puts}
    BY Zenon DEF AtomicUnlessMixed
  <2>1. readTs[t] # -1
    BY Zenon DEF Open, TxInv, Handles, Began
  <2>2. CASE Before(t, u)
    <3>1. ASSUME NEW r \in Rows, buffer[u][r] = "put" PROVE Sees(t, u, r)
      <4>1. PICK v \in Versions(r) : v.by = u
        BY <2>2, <3>1, Zenon DEF Before, TxInv, Applied
      <4>2. v.ts <= readTs[t]
        BY <2>2, <4>1, Zenon DEF Before
      <4> QED
        BY <4>1, <4>2, Zenon DEF Versions, Sees
    <3> QED
      BY <3>1, Zenon
  <2>3. CASE After(t, u)
    <3>1. ASSUME NEW r \in Rows, Sees(t, u, r) PROVE FALSE
      <4>1. PICK v \in Versions(r) : v.by = u /\ v.ts <= readTs[t]
        BY <3>1, Zenon DEF Versions, Sees
      <4>2. v.ts > readTs[t]
        BY <2>3, <4>1, Zenon DEF After
      <4>3. v.ts \in Nat
        BY VersionType, Zenon DEF TxInv
      <4>4. readTs[t] \in Nat \cup {-1}
        BY Zenon DEF TxInv, TxTypeOK
      <4> QED
        BY <4>1, <4>2, <4>3, <4>4
    <3> QED
      BY <3>1, Zenon
  <2> QED
    BY <2>1, <2>2, <2>3, Zenon DEF TxInv, Sides
<1> QED
  BY <1>1, TxInvariant, PTL

\* "a write-skew (rw-antidependency into a concurrent committer) aborts": two
\* serializable transactions that began with no commit in progress, both
\* scanned the table and each missed what the other wrote are not both
\* certified.
THEOREM NoWriteSkew == TxSpec => []NoWriteSkewUnlessMixed
<1>1. ASSUME TxInv, NEW t \in Txns \ mixed, NEW u \in Txns, Misses(t, u), seen[t] # {}
      PROVE  beginTs[t] < commitTs[u] /\ commitTs[u] # 0 /\ Table \in writes[u]
  <2>1. PICK r \in Rows : \E v \in Versions(r) : v.by = u /\ v.ts > readTs[t]
    BY <1>1, Zenon DEF Misses, Versions
  <2>2. PICK v \in Versions(r) : v.by = u /\ v.ts > readTs[t]
    BY <2>1, Zenon
  <2>3. commitTs[u] # 0 /\ Table \in writes[u]
    BY <1>1, <2>2, Zenon DEF TxInv, Chains
  <2>4. ~Before(t, u)
    <3>1. v.ts \in Nat
      BY <1>1, VersionType, Zenon DEF TxInv
    <3>2. readTs[t] \in Nat \cup {-1}
      BY <1>1, Zenon DEF TxInv, TxTypeOK
    <3> QED
      BY <2>2, <3>1, <3>2 DEF Before
  <2>5. readTs[t] # -1
    BY <1>1, Zenon DEF TxInv, Handles, Began
  <2> QED
    BY <1>1, <2>3, <2>4, <2>5, Zenon DEF TxInv, Sides, After
<1>2. TxInv => NoWriteSkewUnlessMixed
  <2> SUFFICES ASSUME TxInv, NEW t \in Txns \ mixed, NEW u \in Txns \ mixed, t # u,
                      serializable[t], serializable[u], seen[t] # {}, seen[u] # {},
                      Misses(t, u), Misses(u, t)
               PROVE  FALSE
    BY Zenon DEF NoWriteSkewUnlessMixed
  <2>1. /\ beginTs[t] < commitTs[u] /\ commitTs[u] # 0 /\ Table \in writes[u]
        /\ beginTs[u] < commitTs[t] /\ commitTs[t] # 0 /\ Table \in writes[t]
    BY <1>1, Zenon
  <2>2. Table \in reads[t] /\ Table \in reads[u] /\ t \notin raced /\ u \notin raced
    BY Zenon DEF TxInv, Handles, Told
  <2>3. ~MissedConflict(t, u) /\ ~MissedConflict(u, t)
    BY <2>2, Zenon DEF TxInv, CertInv, NoFalseNegativeUnlessRaced
  <2>4. ~(commitTs[u] < commitTs[t]) /\ ~(commitTs[t] < commitTs[u])
    BY <2>1, <2>2, <2>3, Zenon DEF MissedConflict
  <2>5. commitTs[t] = commitTs[u]
    BY <2>4 DEF TxInv, CertInv, TmTypeOK
  <2> QED
    BY <2>1, <2>5, Zenon DEF TxInv, CertInv, Clock
<1> QED
  BY <1>2, TxInvariant, PTL

=============================================================================
