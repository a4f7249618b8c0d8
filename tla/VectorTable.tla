----------------------------- MODULE VectorTable -----------------------------
(***************************************************************************)
(* The vector side of a table with an embedding column (galaxdb-embedded   *)
(* EmbeddedVectorBackend): the delta buffer and the re-rank map that       *)
(* follow INSERT and DELETE, the semantic cache in front of the search,    *)
(* the snapshot file written on flush and reconciled on open.              *)
(*                                                                         *)
(* The vector of a row stands for the text it was embedded from; a query   *)
(* text matches the vectors of that text.  A search holds the read lock of *)
(* the index map from before the embedding to after the cache store, a     *)
(* write to the index takes the write lock.                                *)
(***************************************************************************)
EXTENDS Naturals, FiniteSets

CONSTANTS Writers, Searchers, Docs, Phrases, NoText, MaxCached, MaxWrites

ASSUME VectorConstants == NoText \notin Phrases

VARIABLES text,      \* durable rows: key -> text of the embedding column
          delta,     \* DeltaBuffer.vectors, the entries of each row id
          tomb,      \* DeltaBuffer.tombstones
          vector,    \* vectors and key_to_row_id
          snapshot,  \* the vidx file
          cacheOn, cache,
          write, search,
          writes,
          adrift,    \* keys a known deviation separated from their vector
          open

vtvars == <<text, delta, tomb, vector, snapshot, cacheOn, cache, write, search,
            writes, adrift, open>>

NoWrite == [pc |-> "idle"]
NoSearch == [pc |-> "idle"]
Nothing == [d \in Docs |-> NoText]

VtInit == /\ text = Nothing /\ delta = [d \in Docs |-> {}] /\ tomb = {}
          /\ vector = Nothing /\ snapshot = Nothing
          /\ cacheOn = FALSE /\ cache = {}
          /\ write = [w \in Writers |-> NoWrite]
          /\ search = [s \in Searchers |-> NoSearch]
          /\ writes = 0 /\ adrift = {} /\ open = TRUE

Busy(d) == \E w \in Writers : write[w].pc # "idle" /\ write[w].doc = d

ReadLocked == \E s \in Searchers : search[s].pc # "idle"

SetWrite(w, st) == write' = [write EXCEPT ![w] = st]

(* A statement's durable write of the row; a statement that overlaps       *)
(* another one on the same key may leave the vector behind.                *)
PutText(w, d, t, pc) ==
  /\ open /\ write[w].pc = "idle" /\ writes < MaxWrites
  /\ writes' = writes + 1
  /\ text' = [text EXCEPT ![d] = t]
  /\ SetWrite(w, [pc |-> pc, doc |-> d, phrase |-> t])
  /\ UNCHANGED <<delta, tomb, vector, snapshot, cacheOn, cache, search, open>>

(* exec_insert up to the embedding hook. *)
InsertDoc(w, d, t) ==
  /\ text[d] = NoText
  /\ PutText(w, d, t, "embed")
  /\ adrift' = IF Busy(d) THEN adrift \cup {d} ELSE adrift

(* BULK INSERT and COPY replace a row without removing its old vector. *)
UpsertDoc(w, d, t) ==
  /\ text[d] # NoText
  /\ PutText(w, d, t, "embed")
  /\ adrift' = IF Busy(d) \/ text[d] # t THEN adrift \cup {d} ELSE adrift

(* on_row_inserted, the sidecar call: it answers, or it fails and the row  *)
(* stays without a vector (the request goes to the manager's backlog).     *)
EmbedDoc(w) ==
  /\ write[w].pc = "embed"
  /\ \/ SetWrite(w, [write[w] EXCEPT !.pc = "add"]) /\ UNCHANGED adrift
     \/ SetWrite(w, NoWrite) /\ adrift' = adrift \cup {write[w].doc}
  /\ UNCHANGED <<text, delta, tomb, vector, snapshot, cacheOn, cache, search,
                 writes, open>>

(* on_row_inserted under the write lock; DeltaBuffer::insert appends. *)
AddVectorKeepingCache(w) ==
  /\ write[w].pc = "add" /\ ~ReadLocked
  /\ LET d == write[w].doc IN
       /\ delta' = [delta EXCEPT ![d] = @ \cup {write[w].phrase}]
       /\ tomb' = tomb \ {d}
       /\ vector' = [vector EXCEPT ![d] = write[w].phrase]
  /\ SetWrite(w, NoWrite)
  /\ UNCHANGED <<text, snapshot, cacheOn, cache, search, writes, adrift, open>>

AddVector(w) ==
  /\ write[w].pc = "add" /\ ~ReadLocked
  /\ LET d == write[w].doc IN
       /\ delta' = [delta EXCEPT ![d] = @ \cup {write[w].phrase}]
       /\ tomb' = tomb \ {d}
       /\ vector' = [vector EXCEPT ![d] = write[w].phrase]
  /\ cache' = {}
  /\ SetWrite(w, NoWrite)
  /\ UNCHANGED <<text, snapshot, cacheOn, search, writes, adrift, open>>

DeleteDoc(w, d) ==
  /\ text[d] # NoText
  /\ PutText(w, d, NoText, "unmap")
  /\ adrift' = IF Busy(d) THEN adrift \cup {d} ELSE adrift

(* on_row_deleted, the lookup of the row id: no vector, nothing to do. *)
UnmapDoc(w) ==
  /\ write[w].pc = "unmap"
  /\ SetWrite(w, IF vector[write[w].doc] = NoText THEN NoWrite
                 ELSE [write[w] EXCEPT !.pc = "tombstone"])
  /\ UNCHANGED <<text, delta, tomb, vector, snapshot, cacheOn, cache, search,
                 writes, adrift, open>>

(* on_row_deleted under the write lock. *)
TombstoneDocKeeping(w) ==
  /\ write[w].pc = "tombstone" /\ ~ReadLocked
  /\ vector' = [vector EXCEPT ![write[w].doc] = NoText]
  /\ cache' = {}
  /\ SetWrite(w, NoWrite)
  /\ UNCHANGED <<text, delta, tomb, snapshot, cacheOn, search, writes, adrift, open>>

TombstoneDoc(w) ==
  /\ write[w].pc = "tombstone" /\ ~ReadLocked
  /\ LET d == write[w].doc IN
       /\ tomb' = tomb \cup {d}
       /\ delta' = [delta EXCEPT ![d] = {}]
       /\ vector' = [vector EXCEPT ![d] = NoText]
  /\ cache' = {}
  /\ SetWrite(w, NoWrite)
  /\ UNCHANGED <<text, snapshot, cacheOn, search, writes, adrift, open>>

(* execute_semantic_match over the delta buffer (the base graph is empty). *)
Found(q) == {d \in Docs \ tomb : q \in delta[d]}

SetSearch(s, st) == /\ search' = [search EXCEPT ![s] = st]
                    /\ UNCHANGED <<text, delta, tomb, vector, snapshot, cacheOn,
                                   write, writes, adrift, open>>

(* semantic_search: the read guard and the embedding of the query. *)
SearchBegin(s, q) ==
  /\ open /\ search[s].pc = "idle"
  /\ SetSearch(s, [pc |-> "lookup", phrase |-> q])
  /\ UNCHANGED cache

(* SemanticCache::lookup: expired entries go first, a hit ends the search. *)
SearchLookup(s) ==
  /\ search[s].pc = "lookup"
  /\ \E kept \in SUBSET cache :
       /\ cache' = IF cacheOn THEN kept ELSE cache
       /\ SetSearch(s, IF cacheOn /\ \E e \in kept : e.phrase = search[s].phrase
                       THEN NoSearch ELSE [search[s] EXCEPT !.pc = "run"])

SearchRun(s) ==
  /\ search[s].pc = "run"
  /\ SetSearch(s, [pc |-> "store", phrase |-> search[s].phrase,
                   found |-> Found(search[s].phrase)])
  /\ UNCHANGED cache

(* SemanticCache::store: at the limit one entry makes room. *)
SearchStore(s) ==
  /\ search[s].pc = "store"
  /\ IF ~cacheOn THEN UNCHANGED cache
     ELSE \E out \in IF Cardinality(cache) >= MaxCached THEN {{e} : e \in cache} ELSE {{}} :
            cache' = (cache \ out) \cup
                       {[phrase |-> search[s].phrase, found |-> search[s].found]}
  /\ SetSearch(s, NoSearch)

(* CREATE and DROP SEMANTIC CACHE, under the database's write lock. *)
AllIdle == ~ReadLocked /\ \A w \in Writers : write[w].pc = "idle"

ConfigureCache(on) ==
  /\ open /\ AllIdle
  /\ cacheOn' = on /\ cache' = {}
  /\ UNCHANGED <<text, delta, tomb, vector, snapshot, write, search, writes,
                 adrift, open>>

(* flush: persist_vector_indexes after the memtable flush, read lock held. *)
PersistIndex ==
  /\ open /\ snapshot # vector
  /\ snapshot' = vector
  /\ UNCHANGED <<text, delta, tomb, vector, cacheOn, cache, write, search, writes, adrift, open>>

(* The process ends; Drop persists the snapshot first, a crash does not. *)
CloseDatabase(gracefully) ==
  /\ open
  /\ gracefully => AllIdle
  /\ open' = FALSE
  /\ snapshot' = IF gracefully THEN vector ELSE snapshot
  /\ write' = [w \in Writers |-> NoWrite]
  /\ search' = [s \in Searchers |-> NoSearch]
  /\ UNCHANGED <<text, delta, tomb, vector, cacheOn, cache, writes, adrift>>

(* rebuild_vector_indexes: a row the snapshot covers keeps the persisted   *)
(* vector, any other is embedded; the result is persisted; the cache comes *)
(* back configured and empty.                                              *)
Rebuilt(d) == IF text[d] = NoText THEN NoText
              ELSE IF snapshot[d] # NoText THEN snapshot[d] ELSE text[d]

Stale(d) == text[d] # NoText /\ Rebuilt(d) # text[d]

Reopen ==
  /\ ~open /\ open' = TRUE
  /\ vector' = [d \in Docs |-> Rebuilt(d)]
  /\ delta' = [d \in Docs |-> {Rebuilt(d)} \ {NoText}]
  /\ tomb' = {}
  /\ snapshot' = vector'
  /\ cache' = {}
  /\ adrift' = {d \in Docs : Stale(d)}
  /\ UNCHANGED <<text, cacheOn, write, search, writes>>

VtNext ==
  \/ \E w \in Writers, d \in Docs, t \in Phrases : InsertDoc(w, d, t) \/ UpsertDoc(w, d, t)
  \/ \E w \in Writers, d \in Docs : DeleteDoc(w, d)
  \/ \E w \in Writers : EmbedDoc(w) \/ AddVector(w) \/ UnmapDoc(w) \/ TombstoneDoc(w)
  \/ \E s \in Searchers, q \in Phrases : SearchBegin(s, q)
  \/ \E s \in Searchers : SearchLookup(s) \/ SearchRun(s) \/ SearchStore(s)
  \/ \E b \in BOOLEAN : ConfigureCache(b) \/ CloseDatabase(b)
  \/ PersistIndex \/ Reopen

VtSpec == VtInit /\ [][VtNext]_vtvars

Certain == {d \in Docs \ adrift : ~Busy(d)}

(* Every row can be found under its own text and under no other, and no    *)
(* deleted row can be found, unless one of the known deviations separated  *)
(* the two: an embedding that failed, two statements on one key at once, a *)
(* BULK INSERT over an existing row, or a snapshot older than the row.  A  *)
(* restart repairs all but the last (on_row_inserted, on_row_deleted,      *)
(* rebuild_vector_indexes).                                                *)
VectorsFollowRowsUnlessAdrift ==
  open => \A d \in Certain :
            /\ vector[d] = text[d]
            /\ {q \in Phrases : d \in Found(q)} = {text[d]} \ {NoText}

(* A cached result is what the search would return now: the read lock held *)
(* across search and store, and the invalidation under the write lock,     *)
(* leave no room for a result computed before a write to be stored after   *)
(* it (SemanticCache, semantic_search).                                    *)
CachedResultCurrent ==
  open => \A e \in cache : e.found = Found(e.phrase)

=============================================================================
