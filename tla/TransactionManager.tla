------------------------- MODULE TransactionManager -------------------------
(***************************************************************************)
(* The transaction manager of crates/galaxdb-sql/src/transaction.rs: one   *)
(* counter for begin and commit timestamps, the set of active snapshots,   *)
(* the write-lock table and the ring of committed write sets that the      *)
(* serializability certifier reads.  Each of the four has a lock (or is    *)
(* atomic) of its own, so an operation that touches several is several     *)
(* steps.                                                                  *)
(***************************************************************************)
EXTENDS Naturals, FiniteSets

CONSTANTS
    Txns,       \* transactions, each run at most once
    Keys        \* storage keys (and table sentinels) they read and write

Unlocked == 0   \* timestamps start at 1

VARIABLES
    nextTimestamp,
    activeSnapshots,
    writeLocks,         \* Keys -> owner's begin timestamp, or Unlocked
    committedWrites,    \* {[ts, keys]}
    tpc,                \* where each transaction is
    beginTs, commitTs,  \* the timestamps it was given
    serializable,       \* runs at SERIALIZABLE (SSI) isolation
    reads, writes,      \* the key sets it hands to commit_serializable
    raced               \* history: another transaction was certified while
                        \* this one was inside begin

mgrVars  == <<nextTimestamp, activeSnapshots, writeLocks, committedWrites>>
argVars  == <<serializable, reads, writes>>
tmVars   == <<mgrVars, tpc, beginTs, commitTs, argVars, raced>>

TmInit ==
    /\ nextTimestamp = 1 /\ activeSnapshots = {}
    /\ writeLocks = [k \in Keys |-> Unlocked]
    /\ committedWrites = {}
    /\ tpc = [t \in Txns |-> "idle"]
    /\ beginTs = [t \in Txns |-> 0] /\ commitTs = [t \in Txns |-> 0]
    /\ serializable \in [Txns -> BOOLEAN]
    /\ reads = [t \in Txns |-> {}] /\ writes = [t \in Txns |-> {}]
    /\ raced = {}

Move(t, from, to) == tpc[t] = from /\ tpc' = [tpc EXCEPT ![t] = to]

----------------------------------------------------------------------------
(* begin                                                                   *)

BeginAlloc(t) ==
    /\ Move(t, "idle", "allocated")
    /\ beginTs' = [beginTs EXCEPT ![t] = nextTimestamp]
    /\ nextTimestamp' = nextTimestamp + 1
    /\ UNCHANGED <<activeSnapshots, writeLocks, committedWrites, commitTs, argVars,
                   raced>>

BeginRegister(t) ==
    /\ Move(t, "allocated", "active")
    /\ activeSnapshots' = activeSnapshots \cup {beginTs[t]}
    /\ UNCHANGED <<nextTimestamp, writeLocks, committedWrites, beginTs, commitTs,
                   argVars, raced>>

----------------------------------------------------------------------------
(* The transaction's statements                                            *)

\* acquire_write_lock: an unlocked key, or one the transaction has already.
LockGranted(t, k) == writeLocks[k] \in {Unlocked, beginTs[t]}

\* A refused lock changes nothing here: the caller gets WriteConflict.  A
\* granted one lets the caller add to its write set.
AcquireLock(t, k) ==
    /\ tpc[t] = "active" /\ LockGranted(t, k)
    /\ writeLocks' = [writeLocks EXCEPT ![k] = beginTs[t]]
    /\ UNCHANGED <<nextTimestamp, activeSnapshots, committedWrites, tpc, beginTs,
                   commitTs, serializable, reads, raced>>

AcquireWriteLock(t, k) ==
    AcquireLock(t, k) /\ writes' = [writes EXCEPT ![t] = @ \cup {k}]

\* record_read does nothing below SERIALIZABLE.
RecordRead(t, k) ==
    /\ tpc[t] = "active" /\ serializable[t]
    /\ reads' = [reads EXCEPT ![t] = @ \cup {k}]
    /\ UNCHANGED <<mgrVars, tpc, beginTs, commitTs, serializable, writes, raced>>

----------------------------------------------------------------------------
(* commit_serializable                                                     *)

\* The comparison of the two timestamps the wrong way round.
ConflictOlder(t) ==
    /\ serializable[t]
    /\ \E c \in committedWrites : c.ts < beginTs[t] /\ c.keys \cap reads[t] # {}

\* A key the transaction read was written by a later committer.
Conflict(t) ==
    /\ serializable[t]
    /\ \E c \in committedWrites : c.ts > beginTs[t] /\ c.keys \cap reads[t] # {}

\* Pruning against the newest active snapshot.
PrunedNewest(ring) ==
    {c \in ring : /\ activeSnapshots # {}
                  /\ \A o \in activeSnapshots : c.ts > o}

\* retain(cts > oldest active snapshot); everything goes if there is none.
Pruned(ring) ==
    {c \in ring : /\ activeSnapshots # {}
                  /\ \E o \in activeSnapshots : c.ts > o}

\* Check, timestamp, push and prune run under the committed-ring lock.
Certify(t) ==
    /\ ~Conflict(t)
    /\ Move(t, "active", "certified")
    /\ commitTs' = [commitTs EXCEPT ![t] = nextTimestamp]
    /\ nextTimestamp' = nextTimestamp + 1
    /\ committedWrites' = Pruned(IF writes[t] = {} THEN committedWrites
                                 ELSE committedWrites \cup
                                      {[ts |-> nextTimestamp, keys |-> writes[t]]})
    /\ raced' = raced \cup {u \in Txns : tpc[u] = "allocated"}
    /\ UNCHANGED <<activeSnapshots, writeLocks, beginTs, argVars>>

\* The early return keeps the locks and the snapshot.
CertifyFails(t) ==
    /\ Conflict(t)
    /\ Move(t, "active", "failed")
    /\ UNCHANGED <<mgrVars, beginTs, commitTs, argVars, raced>>

\* A release that keeps the locks.
LocksKept(ts) == [k \in Keys |-> IF ts = 0 THEN Unlocked ELSE writeLocks[k]]

\* release_write_locks drops every lock the begin timestamp owns.
LocksWithout(ts) == [k \in Keys |-> IF writeLocks[k] = ts THEN Unlocked ELSE writeLocks[k]]

ReleaseLocks(t, from, to) ==
    /\ Move(t, from, to)
    /\ writeLocks' = LocksWithout(beginTs[t])
    /\ UNCHANGED <<nextTimestamp, activeSnapshots, committedWrites, beginTs, commitTs,
                   argVars, raced>>

DropSnapshot(t, from, to) ==
    /\ Move(t, from, to)
    /\ activeSnapshots' = activeSnapshots \ {beginTs[t]}
    /\ UNCHANGED <<nextTimestamp, writeLocks, committedWrites, beginTs, commitTs,
                   argVars, raced>>

CommitRelease(t) == ReleaseLocks(t, "certified", "released")
CommitDrop(t)    == DropSnapshot(t, "released", "committed")

\* abort, called on an active transaction or after a failed certification.
AbortRelease(t) == \E from \in {"active", "failed"} : ReleaseLocks(t, from, "aborting")
AbortDrop(t)    == DropSnapshot(t, "aborting", "aborted")

----------------------------------------------------------------------------

TmStep(t) ==
    \/ BeginAlloc(t) \/ BeginRegister(t)
    \/ \E k \in Keys : AcquireWriteLock(t, k) \/ RecordRead(t, k)
    \/ Certify(t) \/ CertifyFails(t) \/ CommitRelease(t) \/ CommitDrop(t)
    \/ AbortRelease(t) \/ AbortDrop(t)

TmDone == (\A t \in Txns : tpc[t] \in {"committed", "aborted"}) /\ UNCHANGED tmVars

TmNext == (\E t \in Txns : TmStep(t)) \/ TmDone

TmSpec == TmInit /\ [][TmNext]_tmVars

----------------------------------------------------------------------------
(* Properties                                                              *)

TmLabels == {"idle", "allocated", "active", "certified", "released", "committed",
             "failed", "aborting", "aborted"}

\* The manager's tables and the transactions' arguments have their types.
TmTypeOK ==
    /\ nextTimestamp \in Nat \ {0} /\ activeSnapshots \subseteq Nat
    /\ writeLocks \in [Keys -> Nat]
    /\ committedWrites \subseteq [ts : Nat, keys : SUBSET Keys]
    /\ tpc \in [Txns -> TmLabels]
    /\ beginTs \in [Txns -> Nat] /\ commitTs \in [Txns -> Nat]
    /\ serializable \in [Txns -> BOOLEAN]
    /\ reads \in [Txns -> SUBSET Keys] /\ writes \in [Txns -> SUBSET Keys]
    /\ raced \subseteq Txns

\* The transaction may still hold write locks.
Holding(t) == tpc[t] \in {"active", "certified", "failed"}

\* "Write-write conflicts are detected": two transactions that have not
\* released their locks never have a key in both their write sets.
WritersExclude ==
    \A t, u \in Txns : t # u /\ Holding(t) /\ Holding(u) => writes[t] \cap writes[u] = {}

\* No lock outlives its transaction: whatever commit or abort path it took,
\* the owner of every lock in the table is a transaction that still runs.
LocksHaveOwner ==
    \A k \in Keys : writeLocks[k] # Unlocked =>
        \E t \in Txns : Holding(t) /\ beginTs[t] = writeLocks[k]

\* u committed a write to something t read, after t began and before t did.
MissedConflict(t, u) ==
    /\ serializable[t] /\ commitTs[t] # 0 /\ commitTs[u] # 0
    /\ beginTs[t] < commitTs[u] /\ commitTs[u] < commitTs[t]
    /\ writes[u] \cap reads[t] # {}

\* "never a false negative" (commit_serializable), for every transaction whose
\* begin ran without a commit between its two steps: none of these is
\* certified over an rw-antidependency into a transaction that committed after
\* it began, whatever the pruning of the ring has dropped meanwhile.
NoFalseNegativeUnlessRaced == \A t \in Txns \ raced, u \in Txns : ~MissedConflict(t, u)

=============================================================================
