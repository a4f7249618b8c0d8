------------------------------ MODULE MCStorage ------------------------------
(* The storage library's components for TLC, with the primary index and    *)
(* the transaction manager above it.  They share no state here             *)
(* (Transactions puts the manager under its callers): each behaviour runs  *)
(* the one that `part` names and leaves the others alone.                  *)
EXTENDS BlobLog, LruCache, BufferPool, LsmCompaction, DiskFull, LatencyMonitor, ArtIndex,
        TransactionManager, TLC

VARIABLE part

storageVars == <<part, blobVars, lru, bpVars, lsmVars, dfVars, latVars, artVars, tmVars>>

\* Keys of one byte that fill a node, keys that share a prefix, and a key
\* that continues another with the byte 0.
IndexKeys == {<<2>>, <<3>>, <<4>>, <<5>>, <<1, 1, 1>>, <<1, 1, 2>>, <<1, 2>>, <<2, 0>>}

\* At most two keys are in an SST at a time.
FewInSsts == Cardinality({k \in DOMAIN rows : rows[k] # 0}) <= 2
\* At most one of the three transactions does not commit.
FewAborts == Cardinality({t \in Txns : tpc[t] \in {"failed", "aborting", "aborted"}}) <= 1

StorageInit ==
    /\ part \in {"blob", "lru", "pool", "lsm", "disk", "latency", "index", "certify"}
    /\ BlobInit /\ LruInit /\ BpInit /\ LsmInit /\ DfInit /\ LatInit /\ ArtInit /\ TmInit
    /\ part # "pool" => adaptive
    /\ Cardinality({t \in Txns : ~serializable[t]}) = IF part = "certify" THEN 1 ELSE 0

StorageNext ==
    /\ UNCHANGED part
    /\ \/ /\ part = "blob" /\ BlobNext
          /\ UNCHANGED <<lru, bpVars, lsmVars, dfVars, latVars, artVars, tmVars>>
       \/ /\ part = "lru" /\ LruNext
          /\ UNCHANGED <<blobVars, bpVars, lsmVars, dfVars, latVars, artVars, tmVars>>
       \/ /\ part = "pool" /\ BpNext
          /\ UNCHANGED <<blobVars, lru, lsmVars, dfVars, latVars, artVars, tmVars>>
       \/ /\ part = "lsm" /\ LsmNext
          /\ UNCHANGED <<blobVars, lru, bpVars, dfVars, latVars, artVars, tmVars>>
       \/ /\ part = "disk" /\ DfNext
          /\ UNCHANGED <<blobVars, lru, bpVars, lsmVars, latVars, artVars, tmVars>>
       \/ /\ part = "latency" /\ LatNext
          /\ UNCHANGED <<blobVars, lru, bpVars, lsmVars, dfVars, artVars, tmVars>>
       \/ /\ part = "index" /\ ArtNext /\ FewInSsts'
          /\ UNCHANGED <<blobVars, lru, bpVars, lsmVars, dfVars, latVars, tmVars>>
       \/ /\ part = "certify" /\ TmNext /\ FewAborts'
          /\ UNCHANGED <<blobVars, lru, bpVars, lsmVars, dfVars, latVars, artVars>>

StorageSpec == StorageInit /\ [][StorageNext]_storageVars

\* The writes, the transactions, and most of the keys and blocks, are the
\* same model values in the cfg: one small group serves four components.
StorageSymmetry == Permutations(BlobWrites)

==============================================================================
