-------------------------- MODULE ServerProofs ------------------------------
(***************************************************************************)
(* Proofs about the server and what it keeps beside the rows: the tracker  *)
(* of fresh and stale embeddings, for any finite set of rows and any set of*)
(* model versions and concurrent changes; encryption at rest, for any      *)
(* finite set of rows and any number of providers, master keys, files,     *)
(* modules and reopenings; the connections, for any finite set of them, any*)
(* limit and any number of role statements of other sessions; and a        *)
(* session, for any statements, portals and errors.                        *)
(***************************************************************************)
EXTENDS WireServer, WireSession, EmbeddingTracker, Encryption, FiniteSetTheorems, TLAPS

-----------------------------------------------------------------------------
(* EmbeddingTracker                                                        *)

\* The state's types.
EtTypeOK ==
  /\ DOMAIN meta \subseteq TrackedRows
  /\ meta \in [DOMAIN meta -> [version : ModelVersions \cup {NoVersion}, stale : BOOLEAN]]
  /\ currentModel \in ModelVersions \cup {NoVersion}
  /\ DOMAIN changing = Changers

\* A row that counts as fresh has an embedding of the current model or of one
\* that a change under way has replaced and will mark stale.
FreshCovered ==
  \A r \in DOMAIN meta \ late : ~meta[r].stale =>
    /\ meta[r].version # NoVersion
    /\ \/ meta[r].version = currentModel
       \/ \E c \in Changers : meta[r].version \in changing[c]

EtInv == EtTypeOK /\ FreshCovered

\* An empty tracker satisfies the invariant.
LEMMA EtInitInv == EtInit => EtInv
BY Zenon DEF EtInit, EtInv, EtTypeOK, FreshCovered

\* Every operation keeps it: a version leaves `changing' only when its rows
\* have been marked.
LEMMA EtStepInv == EtInv /\ [EtNext]_etvars => EtInv'
<1> SUFFICES ASSUME EtInv, [EtNext]_etvars PROVE EtInv'
  BY Zenon
<1> USE DEF EtInv, EtTypeOK, FreshCovered
<1>1. CASE UNCHANGED etvars
  BY <1>1, Zenon DEF etvars
<1>2. ASSUME NEW r \in TrackedRows, OnInsert(r) PROVE EtInv'
  BY <1>2, Zenon DEF OnInsert, SetMeta, NewPending
<1>3. ASSUME NEW r \in TrackedRows, OnDelete(r) PROVE EtInv'
  BY <1>3, Zenon DEF OnDelete
<1>4. ASSUME NEW r \in TrackedRows, NEW v \in ModelVersions, OnEmbeddingComplete(r, v)
      PROVE  EtInv'
  BY <1>4, TrackerConstants, Zenon DEF OnEmbeddingComplete, SetMeta, Completed
<1>5. ASSUME NEW c \in Changers, NEW v \in ModelVersions, ChangeVersion(c, v) PROVE EtInv'
  <2>1. EtTypeOK'
    BY <1>5, Zenon DEF ChangeVersion
  <2>2. FreshCovered'
    BY <1>5, Zenon DEF ChangeVersion
  <2>3. QED
    BY <2>1, <2>2, Zenon
<1>6. ASSUME NEW c \in Changers, MarkStale(c) PROVE EtInv'
  <2>1. EtTypeOK'
    BY <1>6, Zenon DEF MarkStale
  <2>2. ASSUME NEW r \in DOMAIN meta \ late, ~meta'[r].stale
        PROVE  meta[r].version \notin changing[c] /\ meta'[r] = meta[r]
    BY <1>6, <2>2, Zenon DEF MarkStale
  <2>3. DOMAIN meta' = DOMAIN meta /\ late' = late /\ currentModel' = currentModel
        /\ \A d \in Changers : d # c => changing'[d] = changing[d]
    BY <1>6, Zenon DEF MarkStale
  <2>4. FreshCovered'
    BY <2>2, <2>3
  <2>5. QED
    BY <2>1, <2>4, Zenon
<1>7. QED
  BY <1>1, <1>2, <1>3, <1>4, <1>5, <1>6, Zenon DEF EtNext

\* What health_report does not count as stale is a subset of the rows that
\* have an embedding of the current model and of the late ones.
LEMMA FreshCounted ==
  ASSUME EtTypeOK,
         \A r \in DOMAIN meta \ late : ~meta[r].stale => meta[r].version = currentModel,
         late \subseteq TrackedRows
  PROVE  HealthReport.total - HealthReport.stale
           <= Cardinality({r \in DOMAIN meta : meta[r].version = currentModel} \cup late)
<1> DEFINE Stale == {r \in DOMAIN meta : meta[r].stale}
           Current == {r \in DOMAIN meta : meta[r].version = currentModel} \cup late
<1>1. IsFiniteSet(DOMAIN meta) /\ IsFiniteSet(Current)
  <2>1. Current \subseteq TrackedRows
    BY Zenon DEF EtTypeOK
  <2>2. QED
    BY <2>1, FS_Subset, TrackerConstants, Zenon DEF EtTypeOK
<1>2. Cardinality(DOMAIN meta \ Stale) = Cardinality(DOMAIN meta) - Cardinality(Stale)
  <2>1. Cardinality(DOMAIN meta \ Stale)
          = Cardinality(DOMAIN meta) - Cardinality(DOMAIN meta \cap Stale)
    BY <1>1, FS_Difference, Zenon
  <2>2. DOMAIN meta \cap Stale = Stale
    BY Zenon
  <2>3. QED
    BY <2>1, <2>2, Zenon
<1>3. DOMAIN meta \ Stale \subseteq Current
  BY Zenon
<1>4. Cardinality(DOMAIN meta \ Stale) <= Cardinality(Current)
  BY <1>1, <1>3, FS_Subset, Zenon
<1>5. QED
  BY <1>2, <1>4, Zenon DEF HealthReport

\* For any number of rows, versions and changes: once no change is under way
\* a fresh row has an embedding of the current model, unless it came late,
\* and health_report counts no more rows than that as fresh.
THEOREM FreshIsCurrent == EtSpec => []FreshIsCurrentUnlessLate
<1>1. EtInit => late \subseteq TrackedRows
  BY Zenon DEF EtInit
<1>2. late \subseteq TrackedRows /\ [EtNext]_etvars => (late \subseteq TrackedRows)'
  BY Zenon DEF EtNext, etvars, OnInsert, OnDelete, OnEmbeddingComplete, ChangeVersion, MarkStale
<1>3. EtInv /\ late \subseteq TrackedRows => FreshIsCurrentUnlessLate
  BY FreshCounted, Zenon DEF EtInv, FreshCovered, FreshIsCurrentUnlessLate
<1>4. QED
  BY <1>1, <1>2, <1>3, EtInitInv, EtStepInv, PTL DEF EtSpec

-----------------------------------------------------------------------------
(* Encryption                                                              *)

Module == [dek : Nat \ {0}, prefix : NoncePrefixes, counter : Nat]
File == [no : Nat \ {0}, rows : SUBSET SealKeys, dek : Nat]

\* The state's types; files are numbered apart and below the next number.
EncTypeOK ==
    /\ tde \in SUBSET Module /\ \A m, n \in tde : m = n
    /\ \A b \in wrapped : b.dek \in Nat
    /\ sealed \in SUBSET File /\ \A f, g \in sealed : f.no = g.no => f = g
    /\ fileNo \in Nat /\ \A f \in sealed : f.no <= fileNo
    /\ \A f \in sealed : f.no \in DOMAIN flagged /\ flagged[f.no] \in BOOLEAN
    /\ memRows \in SUBSET SealKeys /\ place \in [SealKeys -> Nat]
    /\ drawn \in Nat
    /\ repeated \in BOOLEAN /\ nonceReused \in BOOLEAN /\ rekeyed \in BOOLEAN

\* A file that opens now and goes on opening while the data key stays.
Readable(f) ==
    /\ flagged[f.no] => \E m \in tde : m.dek = f.dek
    /\ ~flagged[f.no] => f.dek = 0

\* A row is in the memtable or in a readable file, never looked for in both.
RowsHeld ==
    /\ \A k \in memRows : place[k] = 0
    /\ ~rekeyed => \A k \in SealKeys : place[k] # 0 =>
           \E f \in sealed : f.no = place[k] /\ k \in f.rows /\ Readable(f)

\* The nonces used with the key and prefix of the module are below its counter.
NoncesBelow ==
    ~repeated =>
        /\ ~nonceReused
        /\ \A m \in tde, n \in spent :
               n.dek = m.dek /\ n.prefix = m.prefix => n.no \in Nat /\ n.no < m.counter

EncInv == EncTypeOK /\ RowsHeld /\ NoncesBelow

----------------------------------------------------------------------------
\* Every provider hands out the key that was drawn, or material of the wrong
\* length, together with a blob that holds it (generate_data_key).
LEMMA GeneratedKey ==
    ASSUME NEW p \in Providers, NEW d \in Nat, NEW answer \in Answers,
           NEW r \in generate_data_key(p, d, answer)
    PROVE  r.dek \in {0, d} /\ r.blob.dek \in {0, d}
<1>1. ASSUME NEW k \in Reply(answer, d) PROVE k \in {0, d}
  BY <1>1, Zenon DEF Reply, Answers
<1>2. p.kind \in {"local", "env", "command", "vault", "aws", "gcp", "azure"}
  BY EncryptionConstants, Zenon DEF Providers
<1>3. \E k \in {0, d} : r = DataKey(p, k)
  BY <1>1, <1>2, Zenon DEF generate_data_key, LocalGenerate, CommandGenerate, VaultGenerate,
                    AwsGenerate, GcpGenerate, AzureGenerate
<1>4. QED
  BY <1>3 DEF DataKey, Wrap

\* A provider opens a blob to the key in it or to material of the wrong
\* length (decrypt_data_key).
LEMMA DecryptedKey ==
    ASSUME NEW p \in Providers, NEW b, NEW answer \in Answers,
           NEW d \in decrypt_data_key(p, b, answer)
    PROVE  d \in {0, b.dek}
<1>1. ASSUME NEW k \in Reply(answer, b.dek) PROVE k \in {0, b.dek}
  BY <1>1, Zenon DEF Reply, Answers
<1>2. p.kind \in {"local", "env", "command", "vault", "aws", "gcp", "azure"}
  BY EncryptionConstants, Zenon DEF Providers
<1>3. QED
  BY <1>1, <1>2, Zenon DEF decrypt_data_key, LocalDecrypt, CommandDecrypt, VaultDecrypt,
                    AwsDecrypt, GcpDecrypt, AzureDecrypt

\* A module seals n blocks with n nonces.
LEMMA NoncesApart ==
    ASSUME NEW m \in Module, NEW n \in Nat
    PROVE  Cardinality(NextNonces(m, n)) = n
<1> DEFINE Nonce(i) == [dek |-> m.dek, prefix |-> m.prefix, no |-> m.counter + i - 1]
           f == [i \in 1 .. n |-> Nonce(i)]
<1>1. f \in Surjection(1 .. n, NextNonces(m, n))
  BY Zenon DEF Surjection, NextNonces
<1>2. \A i, j \in 1 .. n : f[i] = f[j] => i = j
  <2> SUFFICES ASSUME NEW i \in 1 .. n, NEW j \in 1 .. n, f[i] = f[j] PROVE i = j
    BY Zenon
  <2>1. Nonce(i).no = Nonce(j).no
    BY Zenon
  <2>2. QED
    BY <2>1 DEF Module
<1>3. f \in Injection(1 .. n, NextNonces(m, n))
  BY <1>1, <1>2, Zenon DEF Injection, Surjection, IsInjective
<1>4. IsFiniteSet(1 .. n) /\ Cardinality(1 .. n) = n
  BY FS_Interval
<1>5. QED
  BY <1>1, <1>3, <1>4, FS_Surjection, Zenon

----------------------------------------------------------------------------
\* The state before the first module and the first row.
LEMMA EncInitInv == EncInit => EncInv
<1> SUFFICES ASSUME EncInit PROVE EncInv
  BY Zenon
<1>1. EncTypeOK
  BY Zenon DEF EncInit, EncTypeOK
<1>2. RowsHeld /\ NoncesBelow
  BY Zenon DEF EncInit, RowsHeld, NoncesBelow
<1>3. QED
  BY <1>1, <1>2, Zenon DEF EncInv

\* The file a flush or a compaction writes: it can be read, and so can what
\* is kept; its nonces are new.
LEMMA SealedFile ==
    ASSUME EncInv, NEW rows \in SUBSET SealKeys, NEW kept \in SUBSET sealed,
           NEW flag, flag = (tde # {}), SealFile(rows, flag, kept)
    PROVE  /\ tde' \in SUBSET Module /\ \A m, n \in tde' : m = n
           /\ sealed' \in SUBSET File /\ \A f, g \in sealed' : f.no = g.no => f = g
           /\ fileNo' = fileNo + 1 /\ \A f \in sealed' : f.no <= fileNo'
           /\ \A f \in sealed' : f.no \in DOMAIN flagged' /\ flagged'[f.no] \in BOOLEAN
           /\ nonceReused' \in BOOLEAN
           /\ kept \subseteq sealed' /\ \A f \in kept : Readable(f) => Readable(f)'
           /\ \E f \in sealed' : f.no = fileNo + 1 /\ f.rows = rows /\ Readable(f)'
           /\ NoncesBelow'
<1> DEFINE no == fileNo + 1
           n == Cardinality(rows)
           under == IF tde = {} THEN 0 ELSE (CHOOSE m \in tde : TRUE).dek
           fresh == UNION {NextNonces(m, n) : m \in tde}
           new == [no |-> no, rows |-> rows, dek |-> under]
<1>1. /\ fileNo' = no /\ sealed' = kept \cup {new}
      /\ flagged' = [i \in {f.no : f \in kept} \cup {no} |-> IF i = no THEN flag ELSE flagged[i]]
      /\ tde' = {[m EXCEPT !.counter = @ + n] : m \in tde}
      /\ spent' = spent \cup fresh
      /\ nonceReused' = (nonceReused \/ fresh \cap spent # {}
                                     \/ (tde # {} /\ Cardinality(fresh) < n))
      /\ repeated' = repeated
  BY Zenon DEF SealFile
<1>2. n \in Nat
  BY EncryptionConstants, FS_Subset, FS_CardinalityType, Zenon
<1>3. under \in Nat /\ (tde # {} => \E m \in tde : under = m.dek)
  BY Zenon DEF EncInv, EncTypeOK, Module
<1>4. tde' \in SUBSET Module /\ \A m, o \in tde' : m = o
  BY <1>1, <1>2 DEF EncInv, EncTypeOK, Module
<1>5. new \in File /\ sealed' \in SUBSET File
  BY <1>1, <1>3 DEF EncInv, EncTypeOK, File
<1>6. \A f \in kept : f.no \in Nat /\ f.no < no
  BY DEF EncInv, EncTypeOK, File
<1>7. \A f, g \in sealed' : f.no = g.no => f = g
  BY <1>1, <1>6 DEF EncInv, EncTypeOK
<1>8. \A f \in sealed' : f.no <= fileNo'
  BY <1>1, <1>6 DEF EncInv, EncTypeOK
<1>9. \A f \in kept : f.no \in DOMAIN flagged' /\ flagged'[f.no] = flagged[f.no]
  BY <1>1, <1>6
<1>10. \A f \in sealed' : f.no \in DOMAIN flagged' /\ flagged'[f.no] \in BOOLEAN
  <2>1. flag \in BOOLEAN /\ \A f \in kept : flagged[f.no] \in BOOLEAN
    BY Zenon DEF EncInv, EncTypeOK
  <2>2. no \in DOMAIN flagged' /\ flagged'[no] = flag
    BY <1>1, Zenon
  <2>3. ASSUME NEW f \in kept PROVE f.no \in DOMAIN flagged' /\ flagged'[f.no] \in BOOLEAN
    <3>1. flagged[f.no] \in BOOLEAN
      BY <2>1, Zenon
    <3>2. flagged'[f.no] = flagged[f.no] /\ f.no \in DOMAIN flagged'
      BY <1>9, Zenon
    <3>3. QED
      BY <3>1, <3>2, Zenon
  <2>4. new.no \in DOMAIN flagged' /\ flagged'[new.no] \in BOOLEAN
    <3>1. new.no = no
      BY Zenon
    <3> HIDE DEF new, no
    <3>2. QED
      BY <2>1, <2>2, <3>1, Zenon
  <2> HIDE DEF new
  <2>5. QED
    BY <1>1, <2>3, <2>4, Zenon
<1> HIDE DEF n
<1>11. ASSUME NEW m \in tde PROVE \E o \in tde' : o.dek = m.dek
  <2> DEFINE o == [m EXCEPT !.counter = @ + n]
  <2>1. o \in tde'
    BY <1>1, Zenon
  <2>2. o.dek = m.dek
    BY Zenon DEF EncInv, EncTypeOK, Module
  <2>3. QED
    BY <2>1, <2>2, Zenon
<1>12. ASSUME NEW f \in kept, Readable(f) PROVE Readable(f)'
  <2>1. flagged[f.no] \in BOOLEAN
    BY Zenon DEF EncInv, EncTypeOK
  <2>2. QED
    BY <1>9, <1>12, <1>11, <2>1, Zenon DEF Readable
<1>13. ASSUME NEW f, f = new PROVE Readable(f)'
  <2>1. f.no = no /\ f.dek = under /\ flagged'[f.no] = flag
    BY <1>1, <1>13, Zenon
  <2>2. tde # {} => \E o \in tde' : o.dek = under
    BY <1>3, <1>11, Zenon
  <2>3. tde = {} => under = 0
    BY Zenon
  <2>4. QED
    BY <2>1, <2>2, <2>3, Zenon DEF Readable
<1>14. nonceReused' \in BOOLEAN
  BY <1>1, Zenon DEF EncInv, EncTypeOK
<1>15. NoncesBelow'
  <2> SUFFICES ASSUME ~repeated
               PROVE  /\ ~nonceReused'
                      /\ \A m \in tde', o \in spent' :
                           o.dek = m.dek /\ o.prefix = m.prefix =>
                               o.no \in Nat /\ o.no < m.counter
    BY <1>1, Zenon DEF NoncesBelow
  <2>1. CASE tde = {}
    BY <1>1, <2>1, Zenon DEF EncInv, NoncesBelow
  <2>2. ASSUME NEW m \in tde, tde = {m}
        PROVE  /\ ~nonceReused'
               /\ \A l \in tde', o \in spent' :
                    o.dek = l.dek /\ o.prefix = l.prefix => o.no \in Nat /\ o.no < l.counter
    <3>1. m \in Module
      BY Zenon DEF EncInv, EncTypeOK
    <3>2. fresh = NextNonces(m, n)
      BY <2>2, Zenon
    <3>3. \A o \in fresh : o.dek = m.dek /\ o.prefix = m.prefix
                           /\ o.no \in Nat /\ o.no >= m.counter /\ o.no < m.counter + n
      BY <1>2, <3>1, <3>2 DEF NextNonces, Module
    <3>4. \A o \in spent : o.dek = m.dek /\ o.prefix = m.prefix =>
                               o.no \in Nat /\ o.no < m.counter
      BY Zenon DEF EncInv, NoncesBelow
    <3>5. fresh \cap spent = {}
      BY <3>1, <3>3, <3>4 DEF Module
    <3>6. Cardinality(fresh) = n
      BY <1>2, <3>1, <3>2, NoncesApart, Zenon
    <3>7. ~nonceReused'
      <4>1. ~nonceReused
        BY Zenon DEF EncInv, NoncesBelow
      <4>2. ~(Cardinality(fresh) < n)
        BY <1>2, <3>6
      <4> HIDE DEF fresh
      <4>3. QED
        BY <1>1, <3>5, <4>1, <4>2, Zenon
    <3>8. tde' = {[m EXCEPT !.counter = @ + n]}
      BY <1>1, <2>2, Zenon
    <3>9. ASSUME NEW l \in tde', NEW o \in spent', o.dek = l.dek, o.prefix = l.prefix
          PROVE  o.no \in Nat /\ o.no < l.counter
      <4>1. l.dek = m.dek /\ l.prefix = m.prefix /\ l.counter = m.counter + n
        BY <3>1, <3>8, Zenon DEF Module
      <4>2. QED
        BY <1>1, <1>2, <3>1, <3>3, <3>4, <3>9, <4>1 DEF Module
    <3>10. QED
      BY <3>7, <3>9, Zenon
  <2>3. QED
    BY <2>1, <2>2 DEF EncInv, EncTypeOK
<1>16. \E f \in sealed' : f.no = fileNo + 1 /\ f.rows = rows /\ Readable(f)'
  <2>1. PICK f \in sealed' : f = new
    BY <1>1, Zenon
  <2>2. QED
    BY <1>13, <2>1, Zenon
<1>17. QED
  BY <1>16, <1>1, <1>4, <1>5, <1>7, <1>8, <1>10, <1>12, <1>13, <1>14, <1>15, Zenon

\* A readable file gives its rows, whether there is a module or not.
LEMMA ReadableOpens ==
    ASSUME NEW f, flagged[f.no] \in BOOLEAN, Readable(f)
    PROVE  OpenBlock(f) = "rows"
BY Zenon DEF Readable, OpenBlock

----------------------------------------------------------------------------
\* put: the row is in the memtable, wherever it was.
LEMMA PutRowInv ==
    ASSUME EncInv, NEW k \in SealKeys, PutRow(k)
    PROVE  EncInv'
<1>1. EncTypeOK'
  BY Zenon DEF EncInv, EncTypeOK, PutRow
<1>2. NoncesBelow'
  BY Zenon DEF EncInv, NoncesBelow, PutRow
<1>3. \A f : Readable(f)' <=> Readable(f)
  BY Zenon DEF Readable, PutRow
<1>4. RowsHeld'
  BY <1>3 DEF EncInv, EncTypeOK, RowsHeld, PutRow
<1>5. QED
  BY <1>1, <1>2, <1>4, Zenon DEF EncInv

\* flush_memtable: the memtable's rows move to the new file.
LEMMA FlushInv ==
    ASSUME EncInv, FlushSealed
    PROVE  EncInv'
<1> DEFINE flag == tde # {}
<1>1. memRows \in SUBSET SealKeys /\ sealed \in SUBSET sealed /\ SealFile(memRows, flag, sealed)
  BY Zenon DEF FlushSealed, EncInv, EncTypeOK
<1>2. flag = (tde # {})
  BY Zenon
<1> HIDE DEF flag
<1>3. /\ tde' \in SUBSET Module /\ \A m, n \in tde' : m = n
      /\ sealed' \in SUBSET File /\ \A f, g \in sealed' : f.no = g.no => f = g
      /\ fileNo' = fileNo + 1 /\ \A f \in sealed' : f.no <= fileNo'
      /\ \A f \in sealed' : f.no \in DOMAIN flagged' /\ flagged'[f.no] \in BOOLEAN
      /\ nonceReused' \in BOOLEAN
      /\ sealed \subseteq sealed' /\ \A f \in sealed : Readable(f) => Readable(f)'
      /\ \E f \in sealed' : f.no = fileNo + 1 /\ f.rows = memRows /\ Readable(f)'
      /\ NoncesBelow'
  BY <1>1, <1>2, SealedFile, Zenon
<1>4. UNCHANGED <<wrapped, drawn, repeated, rekeyed>>
  BY <1>1, Zenon DEF SealFile
<1>5. /\ place' = [k \in SealKeys |-> IF k \in memRows THEN fileNo + 1 ELSE place[k]]
      /\ memRows' = {}
  BY Zenon DEF FlushSealed
<1>6. EncTypeOK'
  BY <1>3, <1>4, <1>5 DEF EncInv, EncTypeOK
<1>7. RowsHeld'
  BY <1>3, <1>4, <1>5, Zenon DEF EncInv, EncTypeOK, RowsHeld
<1>8. QED
  BY <1>3, <1>6, <1>7, Zenon DEF EncInv

\* compact_inner: what can be read moves to the one output file.
LEMMA CompactInv ==
    ASSUME EncInv, CompactSealed
    PROVE  EncInv'
<1> DEFINE opened == {g \in sealed : OpenBlock(g) = "rows"}
           moved == UNION {f.rows : f \in opened}
           flag == tde # {}
<1>1. moved \in SUBSET SealKeys
  BY DEF EncInv, EncTypeOK, File
<1>2. ~rekeyed => \A k \in SealKeys : place[k] # 0 => k \in moved
  BY ReadableOpens DEF EncInv, EncTypeOK, RowsHeld
<1>3. CASE moved = {}
  <2>1. /\ sealed' = {} /\ memRows' = memRows
        /\ UNCHANGED <<tde, wrapped, drawn, fileNo, spent, repeated, nonceReused, rekeyed, place>>
    BY <1>3, Zenon DEF CompactSealed
  <2>2. EncTypeOK'
    BY <2>1, Zenon DEF EncInv, EncTypeOK
  <2>3. RowsHeld'
    BY <1>2, <1>3, <2>1, Zenon DEF EncInv, RowsHeld
  <2>4. NoncesBelow'
    BY <2>1, Zenon DEF EncInv, NoncesBelow
  <2>5. QED
    BY <2>2, <2>3, <2>4, Zenon DEF EncInv
<1>4. CASE moved # {}
  <2>1. /\ SealFile(moved, flag, {}) /\ memRows' = memRows
        /\ place' = [k \in SealKeys |->
                        IF place[k] # 0 /\ k \in moved THEN fileNo + 1 ELSE place[k]]
    BY <1>4, Zenon DEF CompactSealed, CompactFlag
  <2>2. {} \in SUBSET sealed /\ flag = (tde # {})
    BY Zenon
  <2> HIDE DEF moved, flag
  <2>3. /\ tde' \in SUBSET Module /\ \A m, n \in tde' : m = n
        /\ sealed' \in SUBSET File /\ \A f, g \in sealed' : f.no = g.no => f = g
        /\ fileNo' = fileNo + 1 /\ \A f \in sealed' : f.no <= fileNo'
        /\ \A f \in sealed' : f.no \in DOMAIN flagged' /\ flagged'[f.no] \in BOOLEAN
        /\ nonceReused' \in BOOLEAN
        /\ \E f \in sealed' : f.no = fileNo + 1 /\ f.rows = moved /\ Readable(f)'
        /\ NoncesBelow'
    BY <1>1, <2>1, <2>2, SealedFile, Zenon
  <2>4. UNCHANGED <<wrapped, drawn, repeated, rekeyed>>
    BY <2>1, Zenon DEF SealFile
  <2>5. EncTypeOK'
    BY <2>1, <2>3, <2>4 DEF EncInv, EncTypeOK
  <2>6. RowsHeld'
    BY <1>2, <2>1, <2>3, <2>4, Zenon DEF EncInv, EncTypeOK, RowsHeld
  <2>7. QED
    BY <2>3, <2>5, <2>6, Zenon DEF EncInv
<1>5. QED
  BY <1>3, <1>4, Zenon

\* Engine::new: the WAL brings every row back to the memtable.
LEMMA ReopenInv ==
    ASSUME EncInv, Reopen
    PROVE  EncInv'
<1>1. EncTypeOK'
  BY Zenon DEF EncInv, EncTypeOK, Reopen
<1>2. RowsHeld'
  <2>1. memRows' \in SUBSET SealKeys /\ \A k \in SealKeys : place'[k] = 0
    BY Zenon DEF EncInv, EncTypeOK, Reopen
  <2>2. QED
    BY <2>1, Zenon DEF RowsHeld
<1>3. NoncesBelow'
  BY Zenon DEF EncInv, NoncesBelow, Reopen
<1>4. QED
  BY <1>1, <1>2, <1>3, Zenon DEF EncInv

\* enable_tde: the module of the same data key opens what the last one
\* sealed; its prefix is new to the key, or the draw was a repetition.
LEMMA InstallInv ==
    ASSUME EncInv, NEW d \in Nat \ {0}, NEW b, b.dek \in Nat, NEW x \in NoncePrefixes,
           Install(d, b, x), drawn' \in Nat
    PROVE  EncInv'
<1> DEFINE new == [dek |-> d, prefix |-> x, counter |-> 0]
           again == \E n \in spent : n.dek = d /\ n.prefix = x
           other == \E m \in tde : m.dek # d
<1>1. /\ tde' = {new} /\ wrapped' = {b}
      /\ repeated' = (repeated \/ again) /\ rekeyed' = (rekeyed \/ other)
      /\ UNCHANGED <<sealed, flagged, memRows, place, fileNo, spent, nonceReused>>
  BY Zenon DEF Install
<1>2. new \in Module
  BY Zenon DEF Module
<1>3. EncTypeOK'
  <2>1. tde' \in SUBSET Module /\ (\A m, n \in tde' : m = n) /\ \A c \in wrapped' : c.dek \in Nat
    BY <1>1, <1>2, Zenon
  <2>2. repeated' \in BOOLEAN /\ rekeyed' \in BOOLEAN
    BY <1>1, Zenon
  <2>3. QED
    BY <1>1, <2>1, <2>2, Zenon DEF EncInv, EncTypeOK
<1>4. ASSUME ~rekeyed', NEW f \in sealed, Readable(f) PROVE Readable(f)'
  <2>1. ~other /\ flagged[f.no] \in BOOLEAN
    BY <1>1, <1>4, Zenon DEF EncInv, EncTypeOK
  <2>2. new.dek = d
    BY Zenon
  <2>3. QED
    BY <1>1, <1>4, <2>1, <2>2, Zenon DEF Readable
<1>5. RowsHeld'
  <2>1. ~rekeyed' => ~rekeyed
    BY <1>1, Zenon
  <2>2. QED
    BY <1>1, <1>4, <2>1, Zenon DEF EncInv, RowsHeld
<1>6. NoncesBelow'
  <2>1. ~repeated' => ~repeated /\ ~again
    BY <1>1, Zenon
  <2>2. new.dek = d /\ new.prefix = x
    BY Zenon
  <2>3. QED
    BY <1>1, <2>1, <2>2 DEF EncInv, NoncesBelow
<1>7. QED
  BY <1>3, <1>5, <1>6, Zenon DEF EncInv

\* AegisTdeModule::new and from_encrypted_key, with any provider and answer.
LEMMA ModuleInv ==
    ASSUME EncInv, NEW p \in Providers, NEW config \in BOOLEAN, NEW answer \in Answers,
           NEW x \in NoncePrefixes,
           \/ NewModule(p, config, answer, x)
           \/ \E b \in wrapped : FromEncryptedKey(p, config, answer, b, x)
    PROVE  EncInv'
<1>1. drawn + 1 \in Nat \ {0}
  BY DEF EncInv, EncTypeOK
<1>2. CASE NewModule(p, config, answer, x)
  <2>1. PICK r \in generate_data_key(p, drawn + 1, answer) :
             r.dek # 0 /\ Install(r.dek, r.blob, x)
    BY <1>2, Zenon DEF NewModule
  <2>2. r.dek \in Nat \ {0} /\ r.blob.dek \in Nat
    <3>1. drawn + 1 \in Nat
      BY <1>1, Zenon
    <3>2. r.dek \in {0, drawn + 1} /\ r.blob.dek \in {0, drawn + 1}
      BY <2>1, <3>1, GeneratedKey, Zenon
    <3>3. r.dek # 0
      BY <2>1, Zenon
    <3>4. QED
      BY <3>1, <3>2, <3>3
  <2>3. drawn' \in Nat
    BY <1>1, <1>2, Zenon DEF NewModule
  <2>4. QED
    BY <2>1, <2>2, <2>3, InstallInv, Zenon
<1>3. ASSUME NEW b \in wrapped, FromEncryptedKey(p, config, answer, b, x) PROVE EncInv'
  <2>1. PICK d \in decrypt_data_key(p, b, answer) : d # 0 /\ Install(d, b, x)
    BY <1>3, Zenon DEF FromEncryptedKey
  <2>2. b.dek \in Nat
    BY Zenon DEF EncInv, EncTypeOK
  <2>3. d \in Nat \ {0}
    BY <2>1, <2>2, DecryptedKey, Zenon
  <2>4. drawn' \in Nat
    BY <1>1, <1>3, Zenon DEF FromEncryptedKey
  <2>5. QED
    BY <2>1, <2>2, <2>3, <2>4, InstallInv, Zenon
<1>4. QED
  BY <1>2, <1>3, Zenon

\* Every step keeps the invariant.
LEMMA EncStepInv == EncInv /\ [EncNext]_encVars => EncInv'
<1> SUFFICES ASSUME EncInv, [EncNext]_encVars PROVE EncInv'
  BY Zenon
<1>1. CASE UNCHANGED encVars
  <2>1. EncTypeOK' /\ NoncesBelow'
    BY <1>1, Zenon DEF encVars, EncInv, EncTypeOK, NoncesBelow
  <2>2. RowsHeld'
    BY <1>1, Zenon DEF encVars, EncInv, RowsHeld, Readable
  <2>3. QED
    BY <2>1, <2>2, Zenon DEF EncInv
<1>2. CASE EncNext
  BY <1>2, PutRowInv, FlushInv, CompactInv, ReopenInv, ModuleInv, Zenon DEF EncNext
<1>3. QED
  BY <1>1, <1>2, Zenon

\* The invariant is strong enough: a held row is found, and nonces that stay
\* below the counter are not used twice.
LEMMA EncInvEnough == EncInv => SealedRowsReadUnlessRekeyed
<1> SUFFICES ASSUME EncInv PROVE SealedRowsReadUnlessRekeyed
  BY Zenon
<1>1. ASSUME ~rekeyed, NEW k \in Written PROVE GetSealed(k)
  <2>1. CASE place[k] = 0
    BY <2>1, Zenon DEF Written, GetSealed
  <2>2. CASE place[k] # 0
    <3>1. k \in SealKeys
      BY Zenon DEF Written, EncInv, EncTypeOK
    <3>2. PICK f \in sealed : f.no = place[k] /\ k \in f.rows /\ Readable(f)
      BY <1>1, <2>2, <3>1, Zenon DEF EncInv, RowsHeld
    <3>3. OpenBlock(f) = "rows"
      BY <3>2, ReadableOpens DEF EncInv, EncTypeOK
    <3>4. QED
      BY <3>2, <3>3, Zenon DEF GetSealed
  <2>3. QED
    BY <2>1, <2>2, Zenon
<1>2. repeated \/ ~nonceReused
  BY Zenon DEF EncInv, NoncesBelow
<1>3. QED
  BY <1>1, <1>2, Zenon DEF SealedRowsReadUnlessRekeyed

\* get returns every row that was put, through flushes, compactions and
\* reopenings, with and without a module, unless enable_tde replaced a module
\* by one of another data key; and no nonce is used twice with a data key,
\* unless a module drew a prefix that had been drawn for it.
THEOREM SealedRowsRead == EncSpec => []SealedRowsReadUnlessRekeyed
<1>1. EncInit => EncInv
  BY EncInitInv, Zenon
<1>2. EncInv /\ [EncNext]_encVars => EncInv'
  BY EncStepInv, Zenon
<1>3. EncInv => SealedRowsReadUnlessRekeyed
  BY EncInvEnough, Zenon
<1>4. QED
  BY <1>1, <1>2, <1>3, PTL DEF EncSpec

-----------------------------------------------------------------------------
(* WireServer                                                              *)

Places == {"new", "rejected", "closed", "prologue", "startup", "round1", "round2", "ready"}

\* The state's types.
WsTypeOK ==
    /\ conn \in [Conns -> Places]
    /\ accepting \in Int /\ closing \in [Conns -> Int] /\ active \in Nat /\ gauge \in Int
    /\ gaugeRaced \in BOOLEAN
    /\ DOMAIN session = Conns

\* The counter counts the tasks that run.
Counted == active = Cardinality(Live) /\ active <= MaxConnections

\* Unless two updates of the gauge were in flight at once, one at most is,
\* and it carries the counter; with none in flight the gauge shows it.
OneUpdate ==
    ~gaugeRaced =>
        /\ accepting # -1 => accepting = active /\ \A d \in Conns : closing[d] = -1
        /\ \A c \in Conns : closing[c] # -1 =>
               closing[c] = active /\ \A d \in Conns \ {c} : closing[d] = -1
        /\ accepting = -1 /\ (\A c \in Conns : closing[c] = -1) => gauge = active

\* With tls_mode require nothing past the prologue runs outside TLS.
Secured ==
    tlsMode = "require" =>
        \A c \in Conns : conn[c] \in {"startup", "round1", "round2", "ready"} => c \in tls

WsInv == WsTypeOK /\ Counted /\ OneUpdate /\ Secured

----------------------------------------------------------------------------
\* A step of one connection changes the set of running tasks by that one.
LEMMA LiveStep ==
    ASSUME WsTypeOK, NEW c \in Conns, NEW from, NEW to \in Places, Step(c, from, to)
    PROVE  /\ IsFiniteSet(Live)
           /\ conn' \in [Conns -> Places]
           /\ c \notin Live /\ to \notin {"new", "rejected", "closed"} =>
                  Cardinality(Live') = Cardinality(Live) + 1
           /\ c \in Live /\ to \in {"new", "rejected", "closed"} =>
                  Cardinality(Live') = Cardinality(Live) - 1 /\ Cardinality(Live) > 0
           /\ (c \in Live <=> to \notin {"new", "rejected", "closed"}) => Live' = Live
<1>1. IsFiniteSet(Live)
  BY FS_Subset, WireServerConstants, Zenon DEF Live
<1>2. conn' = [conn EXCEPT ![c] = to] /\ conn' \in [Conns -> Places]
  BY Zenon DEF Step, WsTypeOK
<1>3. ASSUME c \notin Live, to \notin {"new", "rejected", "closed"}
      PROVE  Cardinality(Live') = Cardinality(Live) + 1
  <2>1. Live' = Live \cup {c}
    BY <1>2, <1>3, Zenon DEF Live, WsTypeOK
  <2>2. QED
    BY <1>1, <1>3, <2>1, FS_AddElement, Zenon
<1>4. ASSUME c \in Live, to \in {"new", "rejected", "closed"}
      PROVE  Cardinality(Live') = Cardinality(Live) - 1 /\ Cardinality(Live) > 0
  <2>1. Live' = Live \ {c}
    BY <1>2, <1>4, Zenon DEF Live, WsTypeOK
  <2>2. Cardinality(Live') = Cardinality(Live) - 1
    BY <1>1, <1>4, <2>1, FS_RemoveElement, Zenon
  <2>3. Cardinality(Live) \in Nat /\ Cardinality(Live) # 0
    BY <1>1, <1>4, FS_CardinalityType, FS_EmptySet, Zenon
  <2>4. QED
    BY <2>2, <2>3
<1>5. ASSUME c \in Live <=> to \notin {"new", "rejected", "closed"}
      PROVE  Live' = Live
  BY <1>2, <1>5, Zenon DEF Live, WsTypeOK
<1>6. QED
  BY <1>1, <1>2, <1>3, <1>4, <1>5, Zenon

\* The end of a task keeps the counts.
LEMMA EndCounts ==
    ASSUME WsInv, NEW c \in Conns, c \in Live, End(c, conn[c])
    PROVE  /\ Counted' /\ OneUpdate'
           /\ conn' = [conn EXCEPT ![c] = "closed"] /\ conn' \in [Conns -> Places]
           /\ accepting' \in Int /\ closing' \in [Conns -> Int] /\ active' \in Nat
           /\ gauge' \in Int /\ gaugeRaced' \in BOOLEAN
<1>1. Step(c, conn[c], "closed")
  BY Zenon DEF End
<1>2. /\ Cardinality(Live') = Cardinality(Live) - 1 /\ Cardinality(Live) > 0
      /\ conn' \in [Conns -> Places]
  BY <1>1, LiveStep, Zenon DEF Places, WsInv
<1>3. Counted' /\ active' \in Nat
  BY <1>2, WireServerConstants DEF Counted, End, WsInv, WsTypeOK
<1>4. OneUpdate'
  <2>1. ~gaugeRaced' => accepting = -1 /\ \A d \in Conns : closing[d] = -1
    BY Zenon DEF End
  <2>2. accepting' = accepting /\ closing' = [closing EXCEPT ![c] = active']
    BY Zenon DEF End
  <2>3. QED
    BY <1>3, <2>1, <2>2 DEF OneUpdate, WsInv, WsTypeOK
<1>5. gaugeRaced' \in BOOLEAN
  BY Zenon DEF End, WsInv, WsTypeOK
<1>6. QED
  BY <1>1, <1>2, <1>3, <1>4, <1>5 DEF End, Step, WsInv, WsTypeOK

\* The server starts in the invariant.
LEMMA WsInitInv == WsInit => WsInv
<1> SUFFICES ASSUME WsInit PROVE WsInv
  BY Zenon
<1>1. Live = {}
  BY Zenon DEF WsInit, Live
<1>2. WsTypeOK
  <2>1. conn \in [Conns -> Places] /\ DOMAIN session = Conns
    BY Zenon DEF WsInit, Places
  <2>2. accepting \in Int /\ closing \in [Conns -> Int] /\ active \in Nat /\ gauge \in Int
    BY DEF WsInit
  <2>3. gaugeRaced \in BOOLEAN
    BY Zenon DEF WsInit
  <2>4. QED
    BY <2>1, <2>2, <2>3, Zenon DEF WsTypeOK
<1>3. Counted
  BY <1>1, FS_EmptySet, WireServerConstants DEF WsInit, Counted
<1>4. OneUpdate /\ Secured
  BY Zenon DEF WsInit, OneUpdate, Secured
<1>5. QED
  BY <1>2, <1>3, <1>4, Zenon DEF WsInv

\* A step that moves a connection on and leaves the counters alone.
LEMMA MoveOn ==
    ASSUME WsInv, NEW c \in Conns, NEW from, NEW to, Step(c, from, to),
           UNCHANGED countVars,
           \/ from = "new" /\ to = "rejected"
           \/ /\ from \in {"prologue", "startup", "round1", "round2"}
              /\ to \in {"startup", "round1", "round2", "ready"}
    PROVE  /\ Counted' /\ OneUpdate'
           /\ conn' = [conn EXCEPT ![c] = to] /\ conn' \in [Conns -> Places]
           /\ accepting' \in Int /\ closing' \in [Conns -> Int] /\ active' \in Nat
           /\ gauge' \in Int /\ gaugeRaced' \in BOOLEAN
<1>1. to \in Places /\ conn[c] = from
  BY Zenon DEF Places, Step
<1>2. c \in Live <=> to \notin {"new", "rejected", "closed"}
  BY <1>1, Zenon DEF Live
<1>3. Live' = Live /\ conn' \in [Conns -> Places]
  BY <1>1, <1>2, LiveStep, Zenon DEF WsInv
<1>4. Counted' /\ OneUpdate'
  BY <1>3, Zenon DEF Counted, OneUpdate, countVars, WsInv
<1>5. QED
  BY <1>3, <1>4, Zenon DEF Step, countVars, WsInv, WsTypeOK

\* Every step keeps the invariant.
LEMMA WsStepInv == WsInv /\ [WsNext]_wsVars => WsInv'
<1> SUFFICES ASSUME WsInv, [WsNext]_wsVars PROVE WsInv'
  BY Zenon
<1> USE DEF Fixed, loginVars, roleVars
<1>1. CASE UNCHANGED wsVars
  BY <1>1, Zenon DEF wsVars, countVars, WsInv, WsTypeOK, Counted, Live, OneUpdate, Secured
<1>2. ASSUME NEW c \in Conns, Accept(c) PROVE WsInv'
  <2>1. CASE active >= MaxConnections
    BY <1>2, <2>1, MoveOn DEF Accept, WsInv, WsTypeOK, Secured
  <2>2. CASE ~(active >= MaxConnections)
    <3>1. /\ Step(c, "new", "prologue") /\ active' = active + 1 /\ accepting' = active'
          /\ accepting = -1 /\ UNCHANGED <<closing, gauge, tls, tlsMode, session>>
      BY <1>2, <2>2, Zenon DEF Accept
    <3>2. gaugeRaced' \in BOOLEAN
      BY <1>2, <2>2, Zenon DEF Accept, WsInv, WsTypeOK
    <3>3. ~gaugeRaced' => \A d \in Conns : closing[d] = -1
      BY <1>2, <2>2, Zenon DEF Accept
    <3>4. /\ Cardinality(Live') = Cardinality(Live) + 1 /\ conn' \in [Conns -> Places]
      <4>1. c \notin Live
        BY <3>1, Zenon DEF Live, Step
      <4>2. QED
        BY <3>1, <4>1, LiveStep, Zenon DEF Places, WsInv
    <3>5. WsTypeOK' /\ Counted' /\ Secured'
      BY <2>2, <3>1, <3>2, <3>4, WireServerConstants
      DEF WsInv, WsTypeOK, Counted, Secured, Step
    <3>6. OneUpdate'
      BY <3>1, <3>3, <3>5 DEF OneUpdate, WsTypeOK
    <3>7. QED
      BY <3>5, <3>6, Zenon DEF WsInv
  <2>3. QED
    BY <2>1, <2>2, Zenon
<1>3. CASE AcceptGauge
  BY <1>3 DEF AcceptGauge, WsInv, WsTypeOK, Counted, Live, OneUpdate, Secured
<1>4. ASSUME NEW c \in Conns, CloseGauge(c) PROVE WsInv'
  BY <1>4 DEF CloseGauge, WsInv, WsTypeOK, Counted, Live, OneUpdate, Secured
<1>5. ASSUME NEW c \in Conns, NEW from \in {"prologue", "startup", "round1", "round2", "ready"},
             End(c, from), UNCHANGED <<tls, tlsMode>>, DOMAIN session' = Conns
      PROVE  WsInv'
  <2>1. conn[c] = from /\ c \in Live
    BY <1>5, Zenon DEF End, Step, Live
  <2>2. QED
    BY <1>5, <2>1, EndCounts, Zenon DEF WsInv, WsTypeOK, Secured
<1>6. ASSUME NEW c \in Conns, Hangup(c) PROVE WsInv'
  BY <1>5, <1>6, Zenon DEF Hangup, WsInv, WsTypeOK, Places
<1>7. ASSUME NEW c \in Conns, SslRequest(c) PROVE WsInv'
  BY <1>7, MoveOn DEF SslRequest, WsInv, WsTypeOK, Secured
<1>8. ASSUME NEW c \in Conns, StartupHead(c) PROVE WsInv'
  <2>1. CASE StartupHeadAllowed(c) /\ Step(c, "prologue", "startup") /\ UNCHANGED countVars
    BY <1>8, <2>1, MoveOn, Zenon DEF StartupHead, StartupHeadAllowed, WsInv, WsTypeOK, Secured
  <2>2. CASE End(c, "prologue")
    BY <1>5, <1>8, <2>2, Zenon DEF StartupHead, WsInv, WsTypeOK
  <2>3. QED
    BY <1>8, <2>1, <2>2, Zenon DEF StartupHead
<1>9. ASSUME NEW c \in Conns, Startup(c) PROVE WsInv'
  <2>1. CASE Step(c, "startup", "round1") /\ UNCHANGED countVars
    BY <1>9, <2>1, MoveOn, Zenon DEF Startup, Step, WsInv, WsTypeOK, Secured
  <2>2. CASE End(c, "startup")
    BY <1>5, <1>9, <2>2, Zenon DEF Startup, WsInv, WsTypeOK
  <2>3. QED
    BY <1>9, <2>1, <2>2, Zenon DEF Startup
<1>10. ASSUME NEW c \in Conns, TrustedLocal(c) PROVE WsInv'
  BY <1>10, MoveOn, Zenon DEF TrustedLocal, Step, WsInv, WsTypeOK, Secured
<1>11. ASSUME NEW c \in Conns, Round1(c) PROVE WsInv'
  <2>1. CASE Step(c, "round1", "round2") /\ UNCHANGED countVars
    BY <1>11, <2>1, MoveOn, Zenon DEF Round1, Step, WsInv, WsTypeOK, Secured
  <2>2. CASE End(c, "round1")
    BY <1>5, <1>11, <2>2, Zenon DEF Round1, WsInv, WsTypeOK
  <2>3. QED
    BY <1>11, <2>1, <2>2, Zenon DEF Round1
<1>12. ASSUME NEW c \in Conns, Round2(c) PROVE WsInv'
  <2>1. DOMAIN session' = Conns
    BY <1>12, Zenon DEF Round2, WsInv, WsTypeOK
  <2>2. CASE Step(c, "round2", "ready") /\ UNCHANGED countVars
    BY <1>12, <2>1, <2>2, MoveOn, Zenon DEF Round2, Step, WsInv, WsTypeOK, Secured
  <2>3. CASE End(c, "round2")
    BY <1>5, <1>12, <2>1, <2>3, Zenon DEF Round2
  <2>4. QED
    BY <1>12, <2>2, <2>3, Zenon DEF Round2
<1>13. CASE RoleStatement
  BY <1>13, Zenon DEF RoleStatement, countVars, WsInv, WsTypeOK, Counted, Live, OneUpdate, Secured
<1>14. QED
  BY <1>1, <1>2, <1>3, <1>4, <1>6, <1>7, <1>8, <1>9, <1>10, <1>11, <1>12, <1>13, Zenon DEF WsNext

\* For any number of connections, any limit and any role statements between
\* the two rounds of a login: the server counts its connections exactly, up
\* to max_connections, starts sessions only inside TLS when it is required,
\* and lets in only who knows the password the role then has.
THEOREM Admits == WsSpec => AdmitsAsConfigured
<1>1. WsInv => ConnectionsCounted
  BY Zenon DEF WsInv, Counted, OneUpdate, ConnectionsCounted
<1> DEFINE Admitted ==
      \A c \in Conns : session'[c] # session[c] =>
          /\ catalog[role[c]] = knows[c]
          /\ tlsMode = "require" => c \in tls
<1>2. WsInv /\ [WsNext]_wsVars => [Admitted]_wsVars
  <2> SUFFICES ASSUME WsInv, WsNext PROVE Admitted
    BY Zenon
  <2>1. ASSUME NEW c \in Conns, Round2(c) PROVE Admitted
    BY <2>1, Zenon DEF Round2, Step, Verified, WsInv, WsTypeOK, Secured
  <2>2. CASE session' = session
    BY <2>2, Zenon
  <2>3. QED
    BY <2>1, <2>2, Zenon DEF WsNext, Accept, CloseGauge, Hangup, SslRequest, StartupHead, Startup,
       TrustedLocal, Round1, AcceptGauge, RoleStatement, loginVars
<1>3. QED
  BY <1>1, <1>2, WsInitInv, WsStepInv, PTL DEF WsSpec, AdmitsAsConfigured

----------------------------------------------------------------------------
\* A role with a grant exists, or its cascade is under way or was cut short.
GrantsInv ==
    /\ DOMAIN catalog = RoleNames /\ grants \subseteq RoleNames
    /\ \A r \in grants : catalog[r] # NoRole \/ r \in orphaned \/ r = cascade

\* For any roles and statements, a role that does not exist holds no grant,
\* unless the engine failed a delete of drop_role's cascade.
THEOREM GrantsHaveRole == WsSpec => []GrantsHaveRoleUnlessCut
<1>1. WsInit => GrantsInv
  BY Zenon DEF WsInit, GrantsInv
<1>2. GrantsInv /\ [WsNext]_wsVars => GrantsInv'
  <2> SUFFICES ASSUME GrantsInv, [WsNext]_wsVars PROVE GrantsInv'
    BY Zenon
  <2>1. CASE UNCHANGED roleVars
    BY <2>1, Zenon DEF roleVars, GrantsInv
  <2>2. CASE RoleStatement
    <3>1. ASSUME NEW r \in RoleNames, NEW p \in Passwords \cup {NoPassword}, CreateRole(r, p)
          PROVE  GrantsInv'
      BY <3>1, WireServerConstants, Zenon DEF CreateRole, Changing, GrantsInv
    <3>2. ASSUME NEW r \in RoleNames, NEW p \in Passwords, AlterRolePassword(r, p)
          PROVE  GrantsInv'
      BY <3>2, WireServerConstants, Zenon DEF AlterRolePassword, Changing, GrantsInv
    <3>3. ASSUME NEW r \in RoleNames, Grant(r) PROVE GrantsInv'
      BY <3>3, Zenon DEF Grant, Changing, GrantsInv
    <3>4. ASSUME NEW r \in RoleNames, DropRole(r) PROVE GrantsInv'
      BY <3>4, WireServerConstants, Zenon DEF DropRole, Changing, GrantsInv
    <3>5. CASE DropGrants
      BY <3>5, WireServerConstants, Zenon DEF DropGrants, GrantsInv
    <3>6. QED
      BY <2>2, <3>1, <3>2, <3>3, <3>4, <3>5, Zenon DEF RoleStatement
  <2>3. QED
    BY <2>1, <2>2, Zenon DEF WsNext, wsVars, Accept, CloseGauge, Hangup, SslRequest, StartupHead,
       Startup, TrustedLocal, Round1, Round2, AcceptGauge
<1>3. GrantsInv => GrantsHaveRoleUnlessCut
  BY WireServerConstants, Zenon DEF GrantsInv, GrantsHaveRoleUnlessCut
<1>4. QED
  BY <1>1, <1>2, <1>3, PTL DEF WsSpec

-----------------------------------------------------------------------------
(* WireSession                                                             *)

\* The state's types: executions are numbered, and the history is about
\* numbers that have been given out.
SessTypeOK ==
    /\ runs \in Nat /\ copying \in 0 .. runs
    /\ db \subseteq 1 .. runs /\ committed \subseteq 1 .. runs
    /\ discarded \subseteq 1 .. runs /\ mine \subseteq 1 .. runs

\* A savepoint holds what the ones below it hold, the write set all of them.
Stack(s, top) ==
    /\ s \in Seq(SUBSET Nat)
    /\ \A i, j \in 1 .. Len(s) : i <= j => s[i] \subseteq s[j]
    /\ \A i \in 1 .. Len(s) : s[i] \subseteq top

\* What the block in progress has run is neither discarded nor, but for COPY,
\* in the engine, and a COPY under way has written nothing yet.
Undecided ==
    /\ buffer \subseteq mine /\ (~inTxn => mine = {})
    /\ mine \cap discarded = {} /\ mine \cap db \subseteq copied
    /\ copying # 0 => copying \notin discarded \cup mine

SessInv == SessTypeOK /\ Stack(saves, buffer) /\ Undecided /\ BlockAllOrNothingUnlessCopy

\* A portal whose statement was not replaced still has the text that was bound
\* and, once described, the columns announced.
PortalsHold ==
    /\ prepared \in [SessionNames -> [text : Texts \cup {"none"}, schema : Nat]]
    /\ DOMAIN client = SessionNames /\ DOMAIN bound = SessionNames
    /\ \A s \in SessionNames : prepared[s].text = client[s]
    /\ portals \in [SessionNames -> [statement : SessionNames \cup {"none"}]]
    /\ DOMAIN described = SessionNames
    /\ schema \in Nat
    /\ \A p \in SessionNames \ replaced : portals[p] # NoPortal =>
          /\ PortalStatement(p).text = bound[p]
          /\ described[p] # 0 => described[p] = PortalStatement(p).schema /\ bound[p] = "read"

----------------------------------------------------------------------------
\* An empty stack.
LEMMA StackEmpty == Stack(<<>>, {})
BY DEF Stack

\* A new connection satisfies both invariants.
LEMMA SessInitInv == SessInit => SessInv /\ PortalsHold
<1> SUFFICES ASSUME SessInit PROVE SessInv /\ PortalsHold
  BY Zenon
<1>1. SessInv
  BY StackEmpty DEF SessInit, SessInv, SessTypeOK, Undecided, BlockAllOrNothingUnlessCopy
<1>2. PortalsHold
  BY Zenon DEF SessInit, PortalsHold, NoStmt, NoPortal, Texts
<1>3. QED
  BY <1>1, <1>2, Zenon

\* What SAVEPOINT, ROLLBACK TO and RELEASE make of the stack.
LEMMA StackSteps ==
    ASSUME NEW s, NEW top, Stack(s, top)
    PROVE  /\ \A more : top \subseteq more => Stack(s, more)
           /\ top \subseteq Nat => Stack(Append(s, top), top)
           /\ \A i \in 1 .. Len(s) :
                 Stack(SubSeq(s, 1, i), s[i]) /\ Stack(SubSeq(s, 1, i - 1), top)
<1>1. \A more : top \subseteq more => Stack(s, more)
  BY Zenon DEF Stack
<1>2. top \subseteq Nat => Stack(Append(s, top), top)
  BY DEF Stack
<1>3. ASSUME NEW i \in 1 .. Len(s)
      PROVE  Stack(SubSeq(s, 1, i), s[i]) /\ Stack(SubSeq(s, 1, i - 1), top)
  <2>1. /\ SubSeq(s, 1, i) \in Seq(SUBSET Nat) /\ Len(SubSeq(s, 1, i)) = i
        /\ \A j \in 1 .. i : SubSeq(s, 1, i)[j] = s[j]
    BY <1>3 DEF Stack
  <2>2. /\ SubSeq(s, 1, i - 1) \in Seq(SUBSET Nat) /\ Len(SubSeq(s, 1, i - 1)) = i - 1
        /\ \A j \in 1 .. i - 1 : SubSeq(s, 1, i - 1)[j] = s[j]
    BY <1>3 DEF Stack
  <2>3. Stack(SubSeq(s, 1, i), s[i])
    <3>1. i \in Nat /\ \A j, k \in 1 .. i : j \in 1 .. Len(s) /\ (j <= k => s[j] \subseteq s[k])
      BY <1>3 DEF Stack
    <3>2. \A j \in 1 .. i : s[j] \subseteq s[i]
      BY <3>1
    <3>3. QED
      BY <2>1, <3>1, <3>2, Zenon DEF Stack
  <2>4. Stack(SubSeq(s, 1, i - 1), top)
    <3>1. \A j, k \in 1 .. i - 1 : /\ j \in 1 .. Len(s) /\ s[j] \subseteq top
                                   /\ j <= k => s[j] \subseteq s[k]
      BY <1>3 DEF Stack
    <3>2. QED
      BY <2>2, <3>1, Zenon DEF Stack
  <2>5. QED
    BY <2>3, <2>4, Zenon
<1>4. QED
  BY <1>1, <1>2, <1>3, Zenon

\* Transaction control keeps the block's invariant.
LEMMA ControlInv == SessInv /\ Control => SessInv'
<1> SUFFICES ASSUME SessInv, Control PROVE SessInv'
  BY Zenon
<1> USE DEF SessInv, SessTypeOK, Undecided, BlockAllOrNothingUnlessCopy
<1>0. UNCHANGED <<copying, copied, runs>> /\ (copying = 0 \/ ~Reading)
  BY Zenon DEF Control, Reading
<1>1. CASE Begin
  BY <1>0, <1>1, StackEmpty, Zenon DEF Begin
<1>2. CASE CommitBlock
  BY <1>0, <1>2, StackEmpty, Zenon DEF CommitBlock, EndBlock
<1>3. CASE RollbackBlock
  BY <1>0, <1>3, StackEmpty, Zenon DEF RollbackBlock, EndBlock
<1>4. CASE Savepoint
  <2>1. buffer \subseteq Nat /\ saves' = Append(saves, buffer) /\ buffer' = buffer
    BY <1>4 DEF Savepoint
  <2>2. Stack(saves', buffer')
    BY <2>1, StackSteps, Zenon
  <2>3. QED
    BY <1>0, <1>4, <2>2, Zenon DEF Savepoint
<1>5. CASE RollbackTo
  <2>1. PICK i \in DOMAIN saves :
           /\ buffer' = saves[i] /\ saves' = SubSeq(saves, 1, i) /\ txnFailed' = FALSE
           /\ discarded' = discarded \cup (mine \ saves[i])
           /\ mine' = saves[i]
    BY <1>5, Zenon DEF RollbackTo
  <2>2. i \in 1 .. Len(saves) /\ saves[i] \subseteq buffer
    BY <2>1 DEF Stack
  <2>3. Stack(saves', buffer')
    BY <2>1, <2>2, StackSteps, Zenon
  <2>4. QED
    BY <1>0, <1>5, <2>1, <2>2, <2>3, Zenon DEF RollbackTo
<1>6. CASE ReleaseSavepoint
  <2>1. PICK i \in DOMAIN saves : saves' = SubSeq(saves, 1, i - 1)
    BY <1>6, Zenon DEF ReleaseSavepoint
  <2>2. i \in 1 .. Len(saves)
    BY <2>1 DEF Stack
  <2>3. Stack(saves', buffer)
    BY <2>1, <2>2, StackSteps, Zenon
  <2>4. QED
    BY <1>0, <1>6, <2>3, Zenon DEF ReleaseSavepoint
<1>7. QED
  BY <1>1, <1>2, <1>3, <1>4, <1>5, <1>6, Zenon DEF Control

\* So does a statement, whatever becomes of it.
LEMMA RunInv ==
    ASSUME SessInv, NEW text, Reading, Run(text), UNCHANGED <<copying, copied>>
    PROVE  SessInv'
<1> USE DEF SessInv, SessTypeOK, Undecided, BlockAllOrNothingUnlessCopy
<1>0. copying = 0 /\ runs + 1 \notin 1 .. runs /\ 1 .. runs \subseteq 1 .. runs + 1
      /\ runs + 1 \in 1 .. runs + 1
  BY DEF Reading
<1>1. CASE RunInTxn(text)
  <2>0. UNCHANGED <<inTxn, saves, committed, discarded, db>> /\ inTxn
    BY <1>1, Zenon DEF RunInTxn
  <2>1. CASE UNCHANGED <<runs, mine, buffer>>
    BY <1>0, <2>0, <2>1, Zenon
  <2>2. CASE runs' = runs + 1 /\ mine' = mine \cup {runs'}
             /\ buffer' \in {buffer, buffer \cup {runs'}}
    <3>1. Stack(saves', buffer')
      BY <2>0, <2>2, StackSteps, Zenon
    <3>2. SessTypeOK'
      BY <1>0, <2>0, <2>2
    <3>3. Undecided'
      BY <1>0, <2>0, <2>2
    <3>4. QED
      BY <2>0, <3>1, <3>2, <3>3, Zenon
  <2>3. QED
    BY <1>1, <2>1, <2>2, Zenon DEF RunInTxn, Number
<1>2. CASE RunAutocommit(text)
  <2>0. UNCHANGED <<inTxn, buffer, saves, mine, discarded>> /\ ~inTxn
    BY <1>2, Zenon DEF RunAutocommit
  <2>1. CASE UNCHANGED <<runs, db, committed>>
    BY <1>0, <2>0, <2>1, Zenon
  <2>2. CASE runs' = runs + 1 /\ db' = db \cup {runs'}
             /\ committed' \in {committed, committed \cup {runs'}}
    BY <1>0, <2>0, <2>2
  <2>3. CASE runs' = runs + 1 /\ UNCHANGED <<db, committed>>
    BY <1>0, <2>0, <2>3
  <2>4. QED
    BY <1>2, <2>1, <2>2, <2>3, Zenon DEF RunAutocommit, Number
<1>3. QED
  BY <1>1, <1>2, Zenon DEF Run

\* And COPY, from its number to its end.
LEMMA CopyInv ==
    ASSUME SessInv, \/ Reading /\ CopyStart /\ UNCHANGED <<blockVars, copied, db>>
                    \/ CopyEnd
    PROVE  SessInv'
<1> USE DEF SessInv, SessTypeOK, Undecided, BlockAllOrNothingUnlessCopy
<1>1. CASE Reading /\ CopyStart /\ UNCHANGED <<blockVars, copied, db>>
  BY <1>1 DEF CopyStart, Number, blockVars
<1>2. CASE CopyEnd
  <2>1. copying \in 1 .. runs /\ copying' = 0 /\ runs' = runs
    BY <1>2, SMTT(30) DEF CopyEnd
  <2>2. UNCHANGED <<inTxn, txnFailed, buffer, saves, committed, discarded>>
    BY <1>2, Zenon DEF CopyEnd
  <2>3. CASE db' = db \cup {copying} /\ copied' = copied \cup {copying}
             /\ mine' = (IF inTxn THEN mine \cup {copying} ELSE mine)
    BY <2>1, <2>2, <2>3
  <2>4. CASE UNCHANGED <<db, copied, mine>>
    BY <2>1, <2>2, <2>4
  <2>5. QED
    BY <1>2, <2>3, <2>4, Zenon DEF CopyEnd
<1>3. QED
  BY <1>1, <1>2, Zenon

\* Every step of a session keeps the invariant.
LEMMA SessStepInv == SessInv /\ [SessNext]_sessVars => SessInv'
<1> SUFFICES ASSUME SessInv, [SessNext]_sessVars PROVE SessInv'
  BY Zenon
<1>1. CASE UNCHANGED <<blockVars, copying, copied, db, runs>>
  BY <1>1, Zenon DEF blockVars, SessInv, SessTypeOK, Stack, Undecided, BlockAllOrNothingUnlessCopy
<1>2. CASE UNCHANGED sessVars
  BY <1>1, <1>2, Zenon DEF sessVars
<1>3. CASE Control
  BY <1>3, ControlInv, Zenon
<1>4. CASE SimpleQuery
  BY <1>4, RunInv, Zenon DEF SimpleQuery
<1>5. CASE SimpleCopy \/ CopyEnd
  BY <1>5, CopyInv, Zenon DEF SimpleCopy
<1>6. CASE Terminate \/ Alter
  BY <1>1, <1>6, Zenon DEF Terminate, Alter
<1>7. ASSUME NEW p \in SessionNames, Execute(p) PROVE SessInv'
  BY <1>7, RunInv, CopyInv, Zenon DEF Execute
<1>8. ASSUME NEW p \in SessionNames,
             \/ Parse(p) \/ DescribePortal(p) \/ CloseStatement(p) \/ ClosePortal(p)
             \/ \E s \in SessionNames : Bind(p, s)
      PROVE  SessInv'
  BY <1>1, <1>8, Zenon DEF Parse, DescribePortal, CloseStatement, ClosePortal, Bind
<1>9. QED
  BY <1>2, <1>3, <1>4, <1>5, <1>6, <1>7, <1>8, Zenon DEF SessNext

\* For any number of statements, savepoints and errors, what the client was told
\* is committed is in the engine, and nothing of a failed statement or of a
\* block or savepoint rolled back is, unless COPY put it there (the query loop
\* of server/src/lib.rs).
THEOREM BlockAllOrNothing == SessSpec => []BlockAllOrNothingUnlessCopy
<1>1. SessInv => BlockAllOrNothingUnlessCopy
  BY Zenon DEF SessInv
<1>2. QED
  BY <1>1, SessInitInv, SessStepInv, PTL DEF SessSpec

\* Every step of a session keeps what the portals hold.
LEMMA PortalsStep == PortalsHold /\ [SessNext]_sessVars => PortalsHold'
<1> SUFFICES ASSUME PortalsHold, [SessNext]_sessVars PROVE PortalsHold'
  BY Zenon
<1> USE DEF PortalsHold, PortalStatement
<1>1. CASE UNCHANGED <<nameVars, schema>>
  BY <1>1, Zenon DEF nameVars
<1>2. CASE UNCHANGED sessVars \/ Control \/ SimpleQuery \/ SimpleCopy \/ CopyEnd \/ Terminate
           \/ \E p \in SessionNames : Execute(p)
  BY <1>1, <1>2, Zenon DEF sessVars, Control, SimpleQuery, SimpleCopy, CopyEnd, Terminate, Execute
<1>3. CASE Alter
  <2>1. schema \in Nat => schema + 1 \in Nat
    OBVIOUS
  <2>2. schema' \in Nat
    BY <1>3, <2>1, Zenon DEF Alter
  <2>3. QED
    BY <1>3, <2>2, Zenon DEF Alter, nameVars
<1>4. ASSUME NEW s \in SessionNames, Parse(s) PROVE PortalsHold'
  <2>1. PICK text \in Texts :
            /\ prepared' = [prepared EXCEPT ![s] = [text |-> text, schema |-> schema]]
            /\ client' = [client EXCEPT ![s] = text]
    BY <1>4, Zenon DEF Parse, Store
  <2>2. /\ replaced' = replaced \cup {p \in SessionNames : portals[p].statement = s}
        /\ UNCHANGED <<portals, bound, described, schema>>
    BY <1>4, Zenon DEF Parse
  <2>3. /\ prepared' \in [SessionNames -> [text : Texts \cup {"none"}, schema : Nat]]
        /\ DOMAIN client' = SessionNames
        /\ \A t \in SessionNames : prepared'[t].text = client'[t]
    BY <2>1, Zenon
  <2>4. \A p \in SessionNames \ replaced' : portals[p] # NoPortal =>
           portals[p].statement \in SessionNames \ {s}
    BY <2>2, Zenon DEF NoPortal
  <2>5. \A p \in SessionNames \ replaced' : portals[p] # NoPortal =>
           prepared'[portals[p].statement] = prepared[portals[p].statement]
    BY <2>1, <2>4, Zenon
  <2>6. QED
    BY <2>2, <2>3, <2>5
<1>5. ASSUME NEW p \in SessionNames, NEW s \in SessionNames, Bind(p, s) PROVE PortalsHold'
  BY <1>5, Zenon DEF Bind, NoPortal
<1>6. ASSUME NEW p \in SessionNames, DescribePortal(p) PROVE PortalsHold'
  BY <1>6, Zenon DEF DescribePortal, NoPortal
<1>7. ASSUME NEW s \in SessionNames, CloseStatement(s) PROVE PortalsHold'
  <2>1. /\ prepared' = [prepared EXCEPT ![s] = NoStmt]
        /\ client' = [client EXCEPT ![s] = "none"]
        /\ replaced' = replaced \cup {p \in SessionNames : portals[p].statement = s}
        /\ UNCHANGED <<portals, bound, described, schema>>
    BY <1>7, Zenon DEF CloseStatement
  <2>2. NoStmt \in [text : Texts \cup {"none"}, schema : Nat] /\ NoStmt.text = "none"
    BY DEF NoStmt
  <2>3. /\ prepared' \in [SessionNames -> [text : Texts \cup {"none"}, schema : Nat]]
        /\ DOMAIN client' = SessionNames
        /\ \A t \in SessionNames : prepared'[t].text = client'[t]
    BY <2>1, <2>2, Zenon
  <2>4. \A p \in SessionNames \ replaced' : portals[p] # NoPortal =>
           portals[p].statement \in SessionNames \ {s}
    BY <2>1, Zenon DEF NoPortal
  <2>5. \A p \in SessionNames \ replaced' : portals[p] # NoPortal =>
           prepared'[portals[p].statement] = prepared[portals[p].statement]
    BY <2>1, <2>4, Zenon
  <2>6. QED
    BY <2>1, <2>3, <2>5
<1>8. ASSUME NEW p \in SessionNames, ClosePortal(p) PROVE PortalsHold'
  BY <1>8, Zenon DEF ClosePortal, NoPortal
<1>9. QED
  BY <1>2, <1>3, <1>4, <1>5, <1>6, <1>7, <1>8, Zenon DEF SessNext

\* For any names of statements and portals, Execute runs the text the portal was
\* bound to and returns the columns Describe announced, unless the statement was
\* parsed again or closed since, or the table altered (the extended protocol of
\* server/src/lib.rs).
THEOREM ExecuteRunsBound == SessSpec => []ExecuteRunsBoundUnlessReplaced
<1>1. PortalsHold => ExecuteRunsBoundUnlessReplaced
  BY Zenon DEF PortalsHold, PortalStatement, ExecuteRunsBoundUnlessReplaced
<1>2. QED
  BY <1>1, SessInitInv, PortalsStep, PTL DEF SessSpec

=============================================================================
