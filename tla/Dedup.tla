-------------------------------- MODULE Dedup --------------------------------
(***************************************************************************)
(* Near-duplicate detection: MinHash signatures (versioning/src/           *)
(* minhash.rs), their grouping by banding and union-find                   *)
(* (dedup_grouping.rs), and the two filters that keep one row of each      *)
(* group, WHERE NOT DUPLICATE of the executor and the one of the exporter. *)
(*                                                                         *)
(* The grouping walks a hash map of buckets, whose order the program does  *)
(* not choose: one step handles one bucket, any of those left.             *)
(***************************************************************************)
EXTENDS Integers, Sequences, SequencesExt, FiniteSets, FiniteSetsExt

CONSTANTS
    DedupTexts,         \* sequences of characters, which are 1, 2, ...
    Coeffs,             \* the pairs <<a, b>> that MinHashDedup::new draws
    Prime,              \* MERSENNE_61
    SlotRange,          \* 2^32: a slot keeps the low bits of a minimum
    RowsPerBand,
    Copies,             \* rows to group
    HashWidth           \* bits of a group id: u64

NumHashes == Len(Coeffs)
Bands == NumHashes \div RowsPerBand
Rows == 1 .. Copies

ASSUME DedupConstants ==
    /\ RowsPerBand > 0 /\ Bands * RowsPerBand = NumHashes /\ Copies < 2 ^ HashWidth
    /\ \A c \in ToSet(Coeffs) : c[1] \in 1 .. Prime - 1 /\ c[2] \in 0 .. Prime - 1

VARIABLES
    docText,    \* Rows -> a text; row i is the i-th of the input
    docKey,     \* Rows -> its primary key, a permutation of Rows
    bucketsLeft,
    ufParent, ufRank

dedupVars == <<docText, docKey, bucketsLeft, ufParent, ufRank>>

-----------------------------------------------------------------------------
(* Signatures *)

\* xxh3_64 of the bytes of a window; any hash without collisions.
Xxh3Window(w) == w[1] * 9 + w[2] * 3 + w[3]

\* Trigrams; a shorter text is padded with the character 0.
ShingleHashes(chars) ==
    IF Len(chars) < 3 THEN {Xxh3Window([i \in 1 .. 3 |-> IF i <= Len(chars) THEN chars[i] ELSE 0])}
    ELSE {Xxh3Window(SubSeq(chars, i, i + 2)) : i \in 1 .. Len(chars) - 2}

UniversalHash(x, a, b) == (a * (x % Prime) + b) % Prime

Signature(chars) ==
    [i \in 1 .. NumHashes |->
        IF chars = <<>> THEN SlotRange - 1
        ELSE Min({UniversalHash(x, Coeffs[i][1], Coeffs[i][2]) : x \in ShingleHashes(chars)})
                % SlotRange]

SignatureOf == [chars \in DedupTexts |-> Signature(chars)]

\* jaccard_estimate >= NEAR_DUPLICATE_JACCARD_THRESHOLD, 0.8.
NearDuplicate(s, t) == 10 * Cardinality({i \in 1 .. NumHashes : s[i] = t[i]}) >= 8 * NumHashes

\* A band hash stands for the slots of its band.
BandHash(s, band) == SubSeq(s, (band - 1) * RowsPerBand + 1, band * RowsPerBand)

-----------------------------------------------------------------------------
(* Grouping *)

\* The buckets of two rows or more: each the ascending rows of one band hash.
Buckets(texts) ==
    LET sig == [i \in Rows |-> SignatureOf[texts[i]]]
        members(band, h) == {i \in Rows : BandHash(sig[i], band) = h}
        all == UNION {{<<band, members(band, BandHash(sig[i], band))>> : i \in Rows} :
                        band \in 1 .. Bands}
    IN  {b \in all : Cardinality(b[2]) >= 2}

Root(parent, x) ==
    LET root[y \in Rows] == IF parent[y] = y THEN y ELSE root[parent[y]] IN root[x]

\* find: every row on the way to the root is made to point at it.
Find(uf, x) ==
    LET root == Root(uf.parent, x)
        onPath[y \in Rows] == IF y = root THEN {y} ELSE {y} \cup onPath[uf.parent[y]]
    IN  [uf EXCEPT !.parent = [y \in Rows |-> IF y \in onPath[x] THEN root ELSE uf.parent[y]]]

UnionChildren(uf, a, b) == [uf EXCEPT !.parent[b] = a]

\* The components of a and b become one, by rank.
Union(uf, a, b) ==
    LET ra == Root(uf.parent, a)  rb == Root(uf.parent, b)
    IN  IF ra = rb THEN uf
        ELSE IF uf.rank[ra] < uf.rank[rb] THEN [uf EXCEPT !.parent[ra] = rb]
        ELSE IF uf.rank[ra] > uf.rank[rb] THEN [uf EXCEPT !.parent[rb] = ra]
        ELSE [uf EXCEPT !.parent[rb] = ra, !.rank[ra] = @ + 1]

\* One pair of a bucket: skipped when already together, else verified.
ComparePair(uf, a, b) ==
    LET found == Find(Find(uf, a), b)
    IN  IF Root(uf.parent, a) = Root(uf.parent, b) THEN found
        ELSE IF NearDuplicate(SignatureOf[docText[a]], SignatureOf[docText[b]])
             THEN Union(found, a, b) ELSE found

\* The pairs of a bucket in the order of its two loops.
PairsOf(bucket) ==
    LET member == SetToSortSeq(bucket, <)
        n == Len(member)
    IN  FlattenSeq([i \in 1 .. n |-> [j \in 1 .. n - i |-> <<member[i], member[i + j]>>]])

DedupInit ==
    /\ docText \in [Rows -> DedupTexts]
    /\ docKey \in {f \in [Rows -> Rows] : \A i, j \in Rows : f[i] = f[j] => i = j}
    /\ bucketsLeft = Buckets(docText)
    /\ ufParent = [i \in Rows |-> i] /\ ufRank = [i \in Rows |-> 0]

GroupBucket ==
    \E bucket \in bucketsLeft :
        LET uf == FoldLeft(LAMBDA u, p : ComparePair(u, p[1], p[2]),
                           [parent |-> ufParent, rank |-> ufRank], PairsOf(bucket[2]))
        IN  /\ ufParent' = uf.parent /\ ufRank' = uf.rank
            /\ bucketsLeft' = bucketsLeft \ {bucket}
            /\ UNCHANGED <<docText, docKey>>

DedupNext == GroupBucket
DedupSpec == DedupInit /\ [][DedupNext]_dedupVars

\* xxh3_64 of the smallest key of the component, over the whole u64 range.
GroupId(key) == (key * (2 ^ (HashWidth - 1) - 1)) % 2 ^ HashWidth

\* {} for a row alone in its component, else {its group id}.
Assignment(i) ==
    LET members == {j \in Rows : Root(ufParent, j) = Root(ufParent, i)}
    IN  IF Cardinality(members) < 2 THEN {} ELSE {GroupId(Min({docKey[j] : j \in members}))}

-----------------------------------------------------------------------------
(* The filters *)

\* apply_dedup_filter: the rows with no group, and the smallest key of each.
ApplyDedupFilter(groupOf, rows) ==
    {i \in rows : groupOf[i] # {} =>
        \A j \in rows : groupOf[j] = groupOf[i] => docKey[i] <= docKey[j]}

\* The column as stored and read back: a decimal that fits i64 is an integer,
\* a larger one stays text.
GroupColumn(group) ==
    CASE group = {} -> <<"null", 0>>
      [] \E g \in group : g < 2 ^ (HashWidth - 1) -> <<"integer", CHOOSE g \in group : TRUE>>
      [] OTHER -> <<"text", CHOOSE g \in group : TRUE>>

\* row_group_id: text is parsed as u64 and reinterpreted as i64.
RowGroupId(column) ==
    CASE column[1] = "null" -> {}
      [] column[1] = "integer" -> {column[2]}
      [] OTHER -> {column[2] - 2 ^ HashWidth}

\* apply_not_duplicate_pass, over the rows that the rest of the WHERE kept.
ApplyNotDuplicatePass(rows) ==
    LET groupOf == [i \in Rows |-> RowGroupId(GroupColumn(Assignment(i)))]
    IN  {i \in rows : groupOf[i] # {} =>
            \A j \in rows : groupOf[j] = groupOf[i] => docKey[i] <= docKey[j]}

-----------------------------------------------------------------------------
(* Properties *)

\* The rows that a chain of near-duplicate pairs links to i, bands apart.
Component(i) ==
    LET near(S) == S \cup {k \in Rows : \E j \in S :
                              NearDuplicate(SignatureOf[docText[j]], SignatureOf[docText[k]])}
        reach[n \in 0 .. Copies] == IF n = 0 THEN {i} ELSE near(reach[n - 1])
    IN  reach[Copies]

(* Grouping finds every chain of near-duplicates, whatever the order of    *)
(* the rows and of the buckets: banding misses no pair over the threshold  *)
(* (fewer slots disagree than there are bands), union-find joins exactly   *)
(* the chains, and the exporter and WHERE NOT DUPLICATE both keep the row  *)
(* with the smallest key of each, group ids above i64::MAX included.       *)
DedupKeepsOnePerChain ==
    LET kept == {i \in Rows : docKey[i] = Min({docKey[j] : j \in Component(i)})}
    IN  /\ \A i, j \in Rows : Root(ufParent, i) = Root(ufParent, j) => j \in Component(i)
        /\ bucketsLeft = {} =>
            /\ ApplyDedupFilter([i \in Rows |-> Assignment(i)], Rows) = kept
            /\ ApplyNotDuplicatePass(Rows) = kept

==============================================================================
