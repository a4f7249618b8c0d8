---------------------------- MODULE Transactions ----------------------------
(***************************************************************************)
(* Explicit transactions end to end: Database::begin_transaction,          *)
(* execute_in_txn, commit_transaction and rollback_transaction of          *)
(* crates/galaxdb-embedded/src/lib.rs, the TxnHandle and the DML of        *)
(* crates/galaxdb-sql/src/executor.rs, the transaction-control handler of  *)
(* crates/galaxdb-server/src/lib.rs, over the TransactionManager and the   *)
(* version chains of the engine's memtable.                                *)
(*                                                                         *)
(* The rows are those of one table; Table stands for its SIREAD sentinel.  *)
(* A row's value is told apart by the transaction that wrote it.           *)
(***************************************************************************)
EXTENDS TransactionManager, Integers, Sequences

CONSTANTS
    NRows,          \* rows of the table, in key order
    Table,          \* siread_sentinel(table)
    Isolation,      \* isolation levels in use: TRUE is SERIALIZABLE
    Names,          \* savepoint names
    MaxSavepoints,  \* bound: savepoints a transaction keeps
    MaxErrors,      \* bound: engine writes that return an error
    MaxDrops        \* bound: connections that go away inside a transaction

Rows == 1 .. NRows

ASSUME TxConstants ==
    /\ NRows \in Nat /\ Keys = Rows \cup {Table} /\ Isolation \subseteq BOOLEAN
    /\ MaxSavepoints \in Nat /\ MaxErrors \in Nat /\ MaxDrops \in Nat

VARIABLES
    engineTs,       \* Engine.next_timestamp
    chain,          \* Rows -> versions [ts, by, del], most recent put first
    art,            \* rows the primary index knows
    readTs,         \* TxnHandle.read_ts, -1 until begin_transaction has read it
    buffer,         \* TxnHandle.writes: Rows -> "none", "put" or "del"
    savepoints,     \* TxnHandle.savepoints
    txnFailed,      \* the connection's txn_failed
    todo, putTs,    \* rows commit_transaction still has to apply; the
                    \* timestamp of the one being applied (0: none)
    mixed,          \* history: transactions whose begin_transaction overlapped
                    \* the certification or the apply loop of another
    gone,           \* transactions whose connection went away
    seen,           \* history: the snapshots a transaction's scans returned
    errors

handleVars == <<readTs, buffer, savepoints, txnFailed, seen>>
engineVars == <<engineTs, chain, art>>
txVars == <<tmVars, engineVars, handleVars, todo, putTs, mixed, gone, errors>>

Empty == [r \in Rows |-> "none"]

TxInit ==
    /\ TmInit /\ serializable \in [Txns -> Isolation]
    /\ engineTs = 1 /\ chain = [r \in Rows |-> <<>>] /\ art = {}
    /\ readTs = [t \in Txns |-> -1]
    /\ buffer = [t \in Txns |-> Empty]
    /\ savepoints = [t \in Txns |-> <<>>]
    /\ txnFailed = {} /\ todo = [t \in Txns |-> {}] /\ putTs = [t \in Txns |-> 0]
    /\ mixed = {} /\ gone = {} /\ seen = [t \in Txns |-> {}] /\ errors = 0

----------------------------------------------------------------------------
(* Reading at the snapshot                                                 *)

\* VersionedValue::get_at: the first version of the chain that is not newer
\* than the snapshot, as the set of its writer; empty for none or a tombstone.
SnapshotRow(t, r) ==
    {chain[r][i].by : i \in {j \in DOMAIN chain[r] :
        /\ chain[r][j].ts <= readTs[t] /\ ~chain[r][j].del
        /\ \A k \in 1 .. j - 1 : chain[r][k].ts > readTs[t]}}

\* ctx_table_rows: the snapshot with the transaction's own writes on top.
Exists(t, r) ==
    \/ buffer[t][r] = "put"
    \/ buffer[t][r] = "none" /\ SnapshotRow(t, r) # {}

----------------------------------------------------------------------------
(* begin_transaction                                                       *)

\* Certified, and not done with the apply loop.
Committing(u) == tpc[u] \in {"certified", "released"} \/ todo[u] # {}
\* Inside begin_transaction.
Beginning(t) == readTs[t] # -1 /\ tpc[t] \in {"idle", "allocated"}

\* A snapshot one past the last commit, the timestamp the next put gets.
ReadClockNext(t) ==
    /\ tpc[t] = "idle" /\ readTs[t] = -1
    /\ readTs' = [readTs EXCEPT ![t] = engineTs]
    /\ mixed' = IF \E u \in Txns : Committing(u) THEN mixed \cup {t} ELSE mixed
    /\ UNCHANGED <<tmVars, engineVars, buffer, savepoints, txnFailed, seen, todo,
                   putTs, gone, errors>>

\* A snapshot that leaves out the last commit.
ReadClockStale(t) ==
    /\ tpc[t] = "idle" /\ readTs[t] = -1
    /\ readTs' = [readTs EXCEPT ![t] = IF engineTs > 1 THEN engineTs - 2 ELSE 0]
    /\ mixed' = IF \E u \in Txns : Committing(u) THEN mixed \cup {t} ELSE mixed
    /\ UNCHANGED <<tmVars, engineVars, buffer, savepoints, txnFailed, seen, todo,
                   putTs, gone, errors>>

\* read_ts is latest_commit_ts, the last timestamp any put has drawn.
ReadClock(t) ==
    /\ tpc[t] = "idle" /\ readTs[t] = -1
    /\ readTs' = [readTs EXCEPT ![t] = engineTs - 1]
    /\ mixed' = IF \E u \in Txns : Committing(u) THEN mixed \cup {t} ELSE mixed
    /\ UNCHANGED <<tmVars, engineVars, buffer, savepoints, txnFailed, seen, todo,
                   putTs, gone, errors>>

Begin(t) ==
    /\ readTs[t] # -1
    /\ BeginAlloc(t) \/ BeginRegister(t)
    /\ UNCHANGED <<engineVars, handleVars, todo, putTs, mixed, gone, errors>>

----------------------------------------------------------------------------
(* Statements: execute_in_txn on one row                                   *)

Open(t)   == tpc[t] = "active" /\ t \notin gone
Accepts(t) == Open(t) /\ t \notin txnFailed

\* exec_insert wants the row absent, exec_update and exec_delete only find
\* rows that exist.
Wanted(t, r, op) == IF op = "insert" THEN ~Exists(t, r) ELSE Exists(t, r)

\* commit_transaction's write_keys.
WriteKeys(buf) ==
    LET rows == {r \in Rows : buf[r] # "none"}
    IN  rows \cup (IF rows = {} THEN {} ELSE {Table})

BufferWrite(t, r, op) ==
    /\ Accepts(t) /\ Wanted(t, r, op)
    /\ AcquireLock(t, r)
    /\ buffer' = [buffer EXCEPT ![t][r] = IF op = "delete" THEN "del" ELSE "put"]
    /\ writes' = [writes EXCEPT ![t] = WriteKeys(buffer'[t])]
    /\ UNCHANGED <<engineVars, readTs, savepoints, txnFailed, seen, todo, putTs,
                   mixed, gone, errors>>

\* WriteConflict (40001), or UniqueViolation (23505): the session fails the
\* transaction.
StatementFails(t, r, op) ==
    /\ Accepts(t)
    /\ IF Wanted(t, r, op) THEN ~LockGranted(t, r) ELSE op = "insert"
    /\ txnFailed' = txnFailed \cup {t}
    /\ UNCHANGED <<tmVars, engineVars, readTs, buffer, savepoints, seen, todo,
                   putTs, mixed, gone, errors>>

\* exec_scan: the snapshot's rows, and the SIREAD sentinel when SERIALIZABLE.
Scan(t) ==
    /\ Accepts(t)
    /\ IF serializable[t] THEN RecordRead(t, Table) ELSE UNCHANGED tmVars
    /\ seen' = [seen EXCEPT ![t] = @ \cup {[r \in Rows |-> SnapshotRow(t, r)]}]
    /\ UNCHANGED <<engineVars, readTs, buffer, savepoints, txnFailed, todo, putTs,
                   mixed, gone, errors>>

----------------------------------------------------------------------------
(* Savepoints                                                              *)

SetSavepoints(t, s) == savepoints' = [savepoints EXCEPT ![t] = s]

Savepoint(t, n) ==
    /\ Open(t) /\ Len(savepoints[t]) < MaxSavepoints
    /\ SetSavepoints(t, Append(savepoints[t], [name |-> n, buf |-> buffer[t]]))
    /\ UNCHANGED <<tmVars, engineVars, readTs, buffer, txnFailed, seen, todo, putTs,
                   mixed, gone, errors>>

\* rposition: the topmost savepoint of that name.
IsTop(t, n, i) ==
    /\ i \in DOMAIN savepoints[t] /\ savepoints[t][i].name = n
    /\ \A j \in i + 1 .. Len(savepoints[t]) : savepoints[t][j].name # n

\* The buffer goes back, the locks stay; the transaction is usable again.
RollbackTo(t, n) ==
    /\ Open(t)
    /\ \E i \in DOMAIN savepoints[t] :
         /\ IsTop(t, n, i)
         /\ buffer' = [buffer EXCEPT ![t] = savepoints[t][i].buf]
         /\ SetSavepoints(t, SubSeq(savepoints[t], 1, i))
    /\ writes' = [writes EXCEPT ![t] = WriteKeys(buffer'[t])]
    /\ txnFailed' = txnFailed \ {t}
    /\ UNCHANGED <<mgrVars, tpc, beginTs, commitTs, serializable, reads, raced,
                   engineVars, readTs, seen, todo, putTs, mixed, gone, errors>>

Release(t, n) ==
    /\ Open(t)
    /\ \E i \in DOMAIN savepoints[t] :
         IsTop(t, n, i) /\ SetSavepoints(t, SubSeq(savepoints[t], 1, i - 1))
    /\ UNCHANGED <<tmVars, engineVars, readTs, buffer, txnFailed, seen, todo, putTs,
                   mixed, gone, errors>>

----------------------------------------------------------------------------
(* commit_transaction                                                      *)

CommitCertify(t) ==
    /\ Accepts(t)
    /\ Certify(t)
    /\ todo' = [todo EXCEPT ![t] = {r \in Rows : buffer[t][r] # "none"}]
    /\ mixed' = mixed \cup {u \in Txns : Beginning(u)}
    /\ UNCHANGED <<engineVars, handleVars, putTs, gone, errors>>

\* A certification failure that is reported and not acted on.
CommitFailsApplies(t) ==
    /\ Accepts(t) /\ Conflict(t)
    /\ Move(t, "active", "committed")
    /\ todo' = [todo EXCEPT ![t] = {r \in Rows : buffer[t][r] # "none"}]
    /\ mixed' = mixed \cup {u \in Txns : Beginning(u)}
    /\ UNCHANGED <<mgrVars, beginTs, commitTs, argVars, raced, engineVars, handleVars,
                   putTs, gone, errors>>

\* 40001; the handle is left to its owner, who rolls it back (embedded use).
CommitFails(t) ==
    /\ Accepts(t) /\ CertifyFails(t)
    /\ UNCHANGED <<engineVars, handleVars, todo, putTs, mixed, gone, errors>>

CommitFinish(t) ==
    /\ CommitRelease(t) \/ CommitDrop(t)
    /\ UNCHANGED <<engineVars, handleVars, todo, putTs, mixed, gone, errors>>

\* The loop takes the rows in key order.
NextRow(t, r) == r \in todo[t] /\ \A q \in todo[t] : r <= q

\* put_sync / delete_sync up to the memtable: the timestamp is taken, the WAL
\* record written.  A delete of a row the index does not know is nothing.
ApplyAlloc(t) ==
    /\ tpc[t] = "committed" /\ putTs[t] = 0
    /\ \E r \in Rows :
         /\ NextRow(t, r)
         /\ IF buffer[t][r] = "del" /\ r \notin art
            THEN todo' = [todo EXCEPT ![t] = @ \ {r}] /\ UNCHANGED <<engineTs, putTs>>
            ELSE /\ putTs' = [putTs EXCEPT ![t] = engineTs]
                 /\ engineTs' = engineTs + 1
                 /\ UNCHANGED todo
    /\ UNCHANGED <<tmVars, chain, art, handleVars, mixed, gone, errors>>

\* The version goes to the front of the chain whatever its timestamp.
ApplyPut(t) ==
    /\ tpc[t] = "committed" /\ putTs[t] # 0
    /\ \E r \in Rows :
         LET del == buffer[t][r] = "del"
         IN  /\ NextRow(t, r)
             /\ chain' = [chain EXCEPT ![r] = <<[ts |-> putTs[t], by |-> t, del |-> del]>> \o @]
             /\ art' = IF del THEN art \ {r} ELSE art \cup {r}
             /\ todo' = [todo EXCEPT ![t] = @ \ {r}]
    /\ putTs' = [putTs EXCEPT ![t] = 0]
    /\ UNCHANGED <<tmVars, engineTs, handleVars, mixed, gone, errors>>

\* The WAL append fails: commit_transaction returns and applies nothing more.
ApplyFails(t) ==
    /\ tpc[t] = "committed" /\ putTs[t] # 0
    /\ errors < MaxErrors /\ errors' = errors + 1
    /\ todo' = [todo EXCEPT ![t] = {}] /\ putTs' = [putTs EXCEPT ![t] = 0]
    /\ UNCHANGED <<tmVars, engineVars, handleVars, mixed, gone>>

----------------------------------------------------------------------------
(* rollback_transaction, and COMMIT of a failed transaction                *)

Rollback(t) ==
    /\ t \notin gone /\ AbortRelease(t)
    /\ buffer' = [buffer EXCEPT ![t] = Empty]
    /\ SetSavepoints(t, <<>>)
    /\ txnFailed' = txnFailed \ {t}
    /\ UNCHANGED <<engineVars, readTs, seen, todo, putTs, mixed, gone, errors>>

RollbackFinish(t) ==
    /\ AbortDrop(t)
    /\ UNCHANGED <<engineVars, handleVars, todo, putTs, mixed, gone, errors>>

\* The connection ends: the handle is dropped, the manager is not told.
Disconnect(t) ==
    /\ Open(t) /\ Cardinality(gone) < MaxDrops
    /\ gone' = gone \cup {t}
    /\ UNCHANGED <<tmVars, engineVars, handleVars, todo, putTs, mixed, errors>>

----------------------------------------------------------------------------

TxStep(t) ==
    \/ ReadClock(t) \/ Begin(t) \/ Scan(t)
    \/ \E r \in Rows, op \in {"insert", "update", "delete"} :
          BufferWrite(t, r, op) \/ StatementFails(t, r, op)
    \/ \E n \in Names : Savepoint(t, n) \/ RollbackTo(t, n) \/ Release(t, n)
    \/ CommitCertify(t) \/ CommitFails(t) \/ CommitFinish(t)
    \/ ApplyAlloc(t) \/ ApplyPut(t) \/ ApplyFails(t)
    \/ Rollback(t) \/ RollbackFinish(t) \/ Disconnect(t)

Ended(t) ==
    \/ tpc[t] = "committed" /\ todo[t] = {}
    \/ tpc[t] = "aborted" \/ t \in gone

TxDone == (\A t \in Txns : Ended(t)) /\ UNCHANGED txVars

TxNext == (\E t \in Txns : TxStep(t)) \/ TxDone

TxSpec == TxInit /\ [][TxNext]_txVars

----------------------------------------------------------------------------
(* Properties                                                              *)

\* "a transaction that fails ... never persists": every version in the engine
\* was written by a transaction that was certified.
OnlyCertifiedPersist ==
    \A r \in Rows : \A i \in DOMAIN chain[r] : commitTs[chain[r][i].by] # 0

\* u put row r at a timestamp that t's snapshot admits, or does not admit.
Sees(t, u, r) == \E i \in DOMAIN chain[r] : chain[r][i].by = u /\ chain[r][i].ts <= readTs[t]
Misses(t, u) == \E r \in Rows : \E i \in DOMAIN chain[r] :
                   chain[r][i].by = u /\ chain[r][i].ts > readTs[t]

\* "no non-repeatable reads": all scans of a transaction return the same rows,
\* if no commit was in progress while begin_transaction ran.  (The snapshot is
\* the last timestamp drawn; one drawn by a put still on its way to the
\* memtable becomes visible when it lands.)
SnapshotStableUnlessMixed == \A t \in Txns \ mixed : \A a, b \in seen[t] : a = b

\* "Applied atomically at COMMIT": a transaction that began with no commit in
\* progress, and before any engine error, sees all puts of another one or none.
AtomicUnlessMixed ==
    errors = 0 => \A t \in Txns \ mixed, u \in Txns : Open(t) /\ commitTs[u] # 0 =>
        LET puts == {r \in Rows : buffer[u][r] = "put"}
        IN  {r \in puts : Sees(t, u, r)} \in {{}, puts}

\* "a write-skew (rw-antidependency into a concurrent committer) aborts with
\* SQLSTATE 40001": of two serializable transactions that both scanned the table
\* and each missed what the other wrote, not both are certified, if both began
\* with no commit in progress.
NoWriteSkewUnlessMixed ==
    \A t, u \in Txns \ mixed :
        /\ t # u /\ serializable[t] /\ serializable[u]
        /\ seen[t] # {} /\ seen[u] # {}
        => ~(Misses(t, u) /\ Misses(u, t))

Wrote(t, r) == commitTs[t] # 0 /\ buffer[t][r] # "none"

\* "Second writer -> SQLSTATE 40001": of two transactions that ran at the same
\* time and wrote the same row, one was not certified.
SecondWriterAborted ==
    \A t, u \in Txns : t # u /\ (\E r \in Rows : Wrote(t, r) /\ Wrote(u, r)) =>
        \/ commitTs[t] < beginTs[u] \/ commitTs[u] < beginTs[t]

=============================================================================
