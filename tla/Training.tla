------------------------------ MODULE Training ------------------------------
(***************************************************************************)
(* Version tags, AT VERSION reads and training exports: the tag catalog    *)
(* (versioning/src/tags.rs, merkle.rs), CREATE VERSION TAG, the exporter   *)
(* (export.rs) with its quantisers (vector/src/quantizer.rs) and           *)
(* Database::training_dataset with its lineage table.                      *)
(*                                                                         *)
(* One table with a text column, an integer column and the embedding of    *)
(* the text.  training_dataset holds the database exclusively: only the    *)
(* compaction worker and the death of the process fall between its steps.  *)
(* A word of the text column is a number, and its vector has the one       *)
(* coordinate of that number.  Timestamps of other tables are left out.    *)
(***************************************************************************)
EXTENDS Integers, Sequences, FiniteSets, FiniteSetsExt

CONSTANTS
    TrainKeys,      \* primary keys
    WordVectors,    \* the words, numbers other than 0
    TagNames,       \* sequences of characters
    PathChars,      \* the characters a path component keeps
    SqMax,          \* 255: the largest SQ8 code
    MaxTrainTs,     \* bounds: commits,
    MaxTrainOps     \* and tags, exports and restarts together

Precisions == {"float32", "sq8", "rabitq"}

ASSUME TrainingConstants ==
    /\ WordVectors \subseteq Int /\ 0 \notin WordVectors
    /\ \E low, high \in WordVectors : \A w \in WordVectors : low <= w /\ w <= high
    /\ "_" \in PathChars /\ SqMax \in Nat \ {0}
    /\ MaxTrainTs \in Nat /\ MaxTrainOps \in Nat

VARIABLES
    versions,       \* TrainKeys -> set of [ts, row]; row is {} for a tombstone
    trainTs,        \* latest_commit_ts
    vectors,        \* TrainKeys -> the vector of the index, a set of at most one
    tagCatalog,     \* set of tags; rows and vecs remember the creation, gone the
                    \* keys deleted since
    exporting,      \* the running training_dataset, a set of at most one
    datasets,       \* the directories of training_exports/
    lineage,        \* rows of _galaxdb_training_exports: id -> row
    nextLineage,    \* LINEAGE_ROW_ID
    recorded,       \* history: the rows this process recorded
    trainOps        \* counted against MaxTrainOps

trainVars == <<versions, trainTs, vectors, tagCatalog, exporting, datasets, lineage, nextLineage,
               recorded, trainOps>>

TrainInit ==
    /\ versions = [k \in TrainKeys |-> {}] /\ trainTs = 0
    /\ vectors = [k \in TrainKeys |-> {}] /\ tagCatalog = {} /\ exporting = {}
    /\ datasets = {} /\ lineage = {} /\ nextLineage = 1 /\ recorded = {}
    /\ trainOps = 0

-----------------------------------------------------------------------------
(* Rows *)

NewestOf(vs) == {v \in vs : \A w \in vs : w.ts <= v.ts}

\* The row of a key visible at a timestamp, a set of at most one.
RowAt(k, ts) == UNION {v.row : v \in NewestOf({w \in versions[k] : w.ts <= ts})}

\* scan_all_at: the key-row pairs visible at a timestamp.
ScanAllAt(ts) == UNION {{<<k, r>> : r \in RowAt(k, ts)} : k \in TrainKeys}

Live(k) == RowAt(k, trainTs) # {}

PutTrain(k, row, vec) ==
    /\ exporting = {} /\ trainTs < MaxTrainTs
    /\ trainTs' = trainTs + 1
    /\ versions' = [versions EXCEPT ![k] = @ \cup {[ts |-> trainTs', row |-> row]}]
    /\ vectors' = [vectors EXCEPT ![k] = vec]
    /\ tagCatalog' = IF row # {} THEN tagCatalog
                     ELSE {[t EXCEPT !.gone = @ \cup {k}] : t \in tagCatalog}
    /\ UNCHANGED <<exporting, datasets, lineage, nextLineage, recorded,
                   trainOps>>

\* An insert embeds the word, or does not when the sidecar is away.
InsertTrain ==
    \E k \in TrainKeys, w \in WordVectors, embedded \in BOOLEAN :
        /\ ~Live(k)
        /\ PutTrain(k, {[word |-> w, note |-> {}]}, IF embedded THEN {w} ELSE {})

\* The source of an embedding is immutable: an update sets the integer.
UpdateTrain ==
    \E k \in TrainKeys : \E r \in RowAt(k, trainTs) :
        PutTrain(k, {[r EXCEPT !.note = {1}]}, vectors[k])

DeleteTrain == \E k \in TrainKeys : Live(k) /\ PutTrain(k, {}, {})

\* MVCC GC: per key the newest version and the newest at or before each pin.
PinnedTimestamps == {t.ts : t \in tagCatalog}

CompactTrain ==
    LET kept(k) == NewestOf(versions[k]) \cup
                   UNION {NewestOf({v \in versions[k] : v.ts <= p}) : p \in PinnedTimestamps}
        left(k) == IF \E v \in kept(k) : v.row # {} THEN kept(k) ELSE {}
    IN  /\ versions' = [k \in TrainKeys |-> left(k)]
        /\ UNCHANGED <<trainTs, vectors, tagCatalog, exporting, datasets, lineage, nextLineage,
                       recorded, trainOps>>

-----------------------------------------------------------------------------
(* Tags *)

\* The sorted checksums of the rows of a snapshot, hashed; a hash without
\* collisions is the set of the rows.
MerkleRoot(ts) == ScanAllAt(ts)

CreateTagAt(name, training, precision) ==
    /\ trainOps < MaxTrainOps /\ trainOps' = trainOps + 1
    /\ exporting = {} /\ \A t \in tagCatalog : t.name # name
    /\ tagCatalog' = tagCatalog \cup
           {[name |-> name, ts |-> trainTs, root |-> MerkleRoot(trainTs), training |-> training,
             precision |-> precision, rows |-> ScanAllAt(trainTs), vecs |-> vectors, gone |-> {}]}
    /\ UNCHANGED <<versions, trainTs, vectors, exporting, datasets, lineage, nextLineage, recorded>>

\* The Merkle DAG is never committed to: the tag pins latest_commit_ts.
CreateVersionTag ==
    \E name \in TagNames, training \in BOOLEAN, precision \in Precisions :
        (training \/ precision = "float32") /\ CreateTagAt(name, training, precision)

CreateTrainingSnapshot == \E name \in TagNames : CreateTagAt(name, TRUE, "float32")

\* The timestamps a version reference resolves to, none for an unknown tag.
ResolveTag(name) == {t.ts : t \in {u \in tagCatalog : u.name = name}}

\* SELECT * AT VERSION 'name'; the answer is an error where ResolveTag is {}.
FullScanAtVersion(name) == UNION {ScanAllAt(ts) : ts \in ResolveTag(name)}

-----------------------------------------------------------------------------
(* The export pipeline *)

Field(kind, val) == [kind |-> kind, val |-> val]

\* An integer that is NULL is exported as 0.
ProjectRow(row) ==
    <<Field("Utf8", row.word),
      Field("Int64", IF row.note = {} THEN 0 ELSE CHOOSE n \in row.note : TRUE)>>

ArrowSchema(precision) ==
    <<"Utf8", "Int64", IF precision = "float32" THEN "Embedding" ELSE "Binary">>

\* read_blocks: the table at the tag's timestamp, each row with the vector its
\* key has in the index, or NULL.
ReadBlocks(ts, vecs) ==
    {[key |-> r[1],
      fields |-> Append(ProjectRow(r[2]),
                        IF vecs[r[1]] = {} THEN Field("Null", 0)
                        ELSE Field("Embedding", CHOOSE v \in vecs[r[1]] : TRUE))] :
     r \in ScanAllAt(ts)}

EmbeddingsOf(rows) == {r.fields[3].val : r \in {s \in rows : s.fields[3].kind = "Embedding"}}

\* round((v - min) / range * SqMax), the range being 1 where it would be 0.
Sq8Quantize(v, vs) ==
    LET range == IF Max(vs) = Min(vs) THEN 1 ELSE Max(vs) - Min(vs)
    IN  (2 * (v - Min(vs)) * SqMax + range) \div (2 * range)

\* The sign of the rotated vector; in one dimension the rotation, drawn from
\* the seed, is its sign.
RabitqQuantize(v) == IF v > 0 THEN 1 ELSE 0

\* Calibration that sees one row at a time.
QuantiseAlone(f, vs, precision) ==
    IF f.kind # "Embedding" \/ precision = "float32" THEN f
    ELSE Field("Binary", IF precision = "sq8" THEN Sq8Quantize(f.val, {f.val})
                         ELSE RabitqQuantize(f.val))

Quantise(f, vs, precision) ==
    IF f.kind # "Embedding" \/ precision = "float32" THEN f
    ELSE Field("Binary", IF precision = "sq8" THEN Sq8Quantize(f.val, vs)
                         ELSE RabitqQuantize(f.val))

ApplyPrecision(rows, precision) ==
    {[r EXCEPT !.fields[3] = Quantise(@, EmbeddingsOf(rows), precision)] : r \in rows}

\* An embedding goes to a list of floats, or, to be quantised, to a binary
\* column; rows have the columns of the schema.
PrecisionFits(rows, precision, schema) ==
    \A r \in rows :
        /\ DOMAIN r.fields = DOMAIN schema
        /\ \A c \in DOMAIN schema : r.fields[c].kind = "Embedding" =>
               schema[c] = IF precision = "float32" THEN "Embedding" ELSE "Binary"

\* build_column_array: a NULL fits any column.
FitsSchema(rows, schema) ==
    \A r \in rows : \A c \in DOMAIN schema : r.fields[c].kind \in {schema[c], "Null"}

\* The rows in key order, hashed; a hash without collisions is the rows.
ContentHash(rows) == rows

SanitizeTag(name) ==
    [i \in DOMAIN name |-> IF name[i] \in PathChars THEN name[i] ELSE "_"]

OutputPath(t) == <<SanitizeTag(t.name), t.ts>>

-----------------------------------------------------------------------------
(* training_dataset *)

\* The tag is resolved, the vectors are copied, an earlier dataset goes.
ExportStart ==
    \E t \in tagCatalog :
        /\ exporting = {} /\ t.training
        /\ trainOps < MaxTrainOps /\ trainOps' = trainOps + 1
        /\ exporting' = {[stage |-> "write", tag |-> t, vecs |-> vectors, hash |-> {}]}
        /\ datasets' = {d \in datasets : d.path # OutputPath(t)}
        /\ UNCHANGED <<versions, trainTs, vectors, tagCatalog, lineage, nextLineage, recorded>>

\* LanceExporter::export; no rows, or rows that do not fit the schema, end it.
ExportWrite ==
    \E e \in exporting :
        LET read == ReadBlocks(e.tag.ts, e.vecs)
            schema == ArrowSchema(e.tag.precision)
            rows == ApplyPrecision(read, e.tag.precision)
            fails == \/ read = {}
                     \/ ~PrecisionFits(read, e.tag.precision, schema) \/ ~FitsSchema(rows, schema)
        IN
        /\ e.stage = "write"
        /\ exporting' = IF fails THEN {}
                        ELSE {[e EXCEPT !.stage = "record", !.hash = ContentHash(rows)]}
        /\ datasets' = IF fails THEN datasets
                       ELSE datasets \cup
                              {[path |-> OutputPath(e.tag), rows |-> rows, of |-> e.tag]}
        /\ UNCHANGED <<versions, trainTs, vectors, tagCatalog, lineage, nextLineage, recorded,
                   trainOps>>

LineageRow(e) ==
    [tag |-> e.tag.name, precision |-> e.tag.precision, count |-> Cardinality(e.hash),
     hash |-> e.hash]

PutLineage(id, row) == {l \in lineage : l.id # id} \cup {[id |-> id, row |-> row]}

\* A counter that is not advanced.
ExportRecordSameId ==
    \E e \in exporting :
        /\ e.stage = "record"
        /\ lineage' = PutLineage(nextLineage, LineageRow(e))
        /\ recorded' = recorded \cup {[id |-> Cardinality(recorded) + 1, row |-> LineageRow(e),
                                       path |-> OutputPath(e.tag)]}
        /\ exporting' = {} /\ UNCHANGED nextLineage
        /\ UNCHANGED <<versions, trainTs, vectors, tagCatalog, datasets, trainOps>>

\* The buffered lineage row is put under the next id.
ExportRecord ==
    \E e \in exporting :
        /\ e.stage = "record"
        /\ lineage' = PutLineage(nextLineage, LineageRow(e))
        /\ recorded' = recorded \cup {[id |-> nextLineage, row |-> LineageRow(e),
                                       path |-> OutputPath(e.tag)]}
        /\ nextLineage' = nextLineage + 1
        /\ exporting' = {}
        /\ UNCHANGED <<versions, trainTs, vectors, tagCatalog, datasets, trainOps>>

\* The process dies, or closes, and opens the database again: tags, pins and
\* the counter live in memory.
ReopenTrain ==
    /\ trainOps < MaxTrainOps /\ trainOps' = trainOps + 1
    /\ tagCatalog' = {} /\ exporting' = {} /\ nextLineage' = 1 /\ recorded' = {}
    /\ UNCHANGED <<versions, trainTs, vectors, datasets, lineage>>

TrainNext ==
    \/ InsertTrain \/ UpdateTrain \/ DeleteTrain \/ CompactTrain
    \/ CreateVersionTag \/ CreateTrainingSnapshot
    \/ ExportStart \/ ExportWrite \/ ExportRecord \/ ReopenTrain

TrainSpec == TrainInit /\ [][TrainNext]_trainVars

-----------------------------------------------------------------------------
(* Properties *)

\* What a dataset of the tag t holds: the tag's rows, a NULL integer as 0 ...
HoldsRowsOf(d, t) ==
    {<<x.key, <<x.fields[1], x.fields[2]>>>> : x \in d.rows} =
    {<<r[1], ProjectRow(r[2])>> : r \in t.rows}

\* ... and a field for the vector v of a row: v itself, its sign, or the nearest
\* of the codes that span all the vectors of the tag's rows.
VectorsOf(t) == UNION {t.vecs[r[1]] : r \in t.rows}
NearestCode(code, v, all) ==
    LET span == Max(all) - Min(all)
    IN  2 * (code * span - (v - Min(all)) * SqMax) \in -span .. span
HoldsVector(f, v, t) ==
    CASE t.precision = "float32" -> f = Field("Embedding", v)
      [] t.precision = "rabitq" -> f = Field("Binary", IF v > 0 THEN 1 ELSE 0)
      [] OTHER -> f.kind = "Binary" /\ NearestCode(f.val, v, VectorsOf(t))
HoldsVectorsOf(d, t) ==
    \A x \in d.rows :
        IF t.vecs[x.key] = {} THEN x.fields[3].kind = "Null"
        ELSE \A v \in t.vecs[x.key] : HoldsVector(x.fields[3], v, t)

\* A tag is a snapshot: whatever is written, compacted or exported after it,
\* AT VERSION returns the rows of its creation, the rows its root certifies;
\* and a dataset exported from it holds exactly these rows, NULL integers as
\* 0, with the vectors they had at the creation: as they are, as the nearest
\* of the codes that span all of them, or as their sign.  The exporter takes
\* the vectors from the index as it is: not those of the tag when a row was
\* deleted, and perhaps inserted again, since.
TagIsSnapshotUnlessRevectored ==
    /\ \A t \in tagCatalog :
           FullScanAtVersion(t.name) = t.rows /\ MerkleRoot(t.ts) = t.root
    /\ \A d \in datasets : HoldsRowsOf(d, d.of) /\ (d.of.gone # {} \/ HoldsVectorsOf(d, d.of))

\* The audit trail of a process is permanent, and leads to what was exported:
\* each lineage row it recorded stays as it was, and the directory of the last
\* one of a path holds the rows of its content hash.  The ids start again at 1
\* in the next process, whose rows replace the earlier ones.
LineageLeadsToDataset ==
    \A l \in recorded :
        /\ [id |-> l.id, row |-> l.row] \in lineage
        /\ \/ \E m \in recorded : m.path = l.path /\ m.id > l.id
           \/ \E e \in exporting : OutputPath(e.tag) = l.path
           \/ \E d \in datasets : d.path = l.path /\ ContentHash(d.rows) = l.row.hash

=============================================================================
