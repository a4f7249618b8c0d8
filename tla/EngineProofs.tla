---------------------------- MODULE EngineProofs ----------------------------
(***************************************************************************)
(* The two theorems about the storage engine, from the invariant of        *)
(* EngineInvariant, and the facts about finite sets they need: the places  *)
(* of rows in a block, for any number of rows.                             *)
(***************************************************************************)
EXTENDS EngineInvariant, FiniteSetTheorems

\* Rows that a block can hold: no two of a key and a timestamp.
Rows(R) ==
    /\ R \subseteq Rw
    /\ \A q, r \in R : q.key = r.key /\ q.ts = r.ts => q = r

\* A set of rows below a timestamp is finite.
LEMMA RowsFinite ==
    ASSUME NEW R, Rows(R), NEW t \in Nat, \A r \in R : r.ts < t
    PROVE  IsFiniteSet(R)
<1> DEFINE P == Keys \X (0 .. t)
           f == [r \in R |-> <<r.key, r.ts>>]
<1>1. IsFiniteSet(Keys) /\ IsFiniteSet(0 .. t)
  BY EngineConstants, FS_Interval DEF Keys
<1>2. IsFiniteSet(P)
  BY <1>1, FS_Product, Zenon
<1>3. f \in [R -> P]
  BY DEF Rows, Rw
<1>4. \A q, r \in R : f[q] = f[r] => q = r
  BY Zenon DEF Rows
<1>5. f \in Injection(R, P)
  BY <1>3, <1>4, Zenon DEF Injection, IsInjective
<1>6. QED
  BY <1>2, <1>5, FS_Injection, Zenon

\* A row lies at the place that the number of rows before it gives.
LEMMA RowRank ==
    ASSUME NEW R, Rows(R), IsFiniteSet(R), NEW r \in R
    PROVE  /\ RowAt(R, Cardinality({q \in R : Before(q, r)}) + 1) = {r}
           /\ Cardinality({q \in R : Before(q, r)}) + 1 \in 1 .. Cardinality(R)
<1> DEFINE B(x) == {q \in R : Before(q, x)}
<1>1. \A x \in R : B(x) \subseteq R /\ IsFiniteSet(B(x)) /\ Cardinality(B(x)) \in Nat
  <2> SUFFICES ASSUME NEW x \in R
               PROVE  B(x) \subseteq R /\ IsFiniteSet(B(x)) /\ Cardinality(B(x)) \in Nat
    BY Zenon
  <2>1. B(x) \in SUBSET R
    BY Zenon
  <2>2. QED
    BY <2>1, FS_Subset, FS_CardinalityType, Zenon
<1>2. \A x \in R : x.key \in Nat /\ x.ts \in Nat
  BY EngineConstants DEF Rows, Rw, Keys
<1>3. \A x, y \in R : Before(x, y) => B(x) \subseteq B(y) /\ x \in B(y) /\ x \notin B(x)
  BY <1>2 DEF Before
<1>4. \A x, y \in R : Before(x, y) => Cardinality(B(x)) # Cardinality(B(y))
  <2> SUFFICES ASSUME NEW x \in R, NEW y \in R, Before(x, y)
               PROVE  Cardinality(B(x)) # Cardinality(B(y))
    BY Zenon
  <2> HIDE DEF B
  <2>1. B(x) \in SUBSET B(y) /\ B(x) # B(y)
    BY <1>3, Zenon
  <2>2. QED
    BY <1>1, <2>1, FS_Subset, Zenon
<1>5. \A x \in R : x # r => Before(x, r) \/ Before(r, x)
  BY <1>2 DEF Before, Rows
<1>6. \A x \in R : Cardinality(B(x)) = (Cardinality(B(r)) + 1) - 1 => x = r
  <2> HIDE DEF B
  <2>1. \A x \in R : Cardinality(B(x)) = Cardinality(B(r)) => x = r
    BY <1>4, <1>5, Zenon
  <2>2. (Cardinality(B(r)) + 1) - 1 = Cardinality(B(r))
    BY <1>1
  <2>3. QED
    BY <2>1, <2>2, Zenon
<1>7. Cardinality(B(r)) = (Cardinality(B(r)) + 1) - 1
  <2> HIDE DEF B
  <2>1. QED
    BY <1>1
<1>8. RowAt(R, Cardinality(B(r)) + 1) = {r}
  BY <1>6, <1>7, Zenon DEF RowAt
<1>9. Cardinality(B(r)) + 1 \in 1 .. Cardinality(R)
  <2>1. B(r) \in SUBSET R /\ r \notin B(r) /\ B(r) # R
    BY <1>2 DEF Before
  <2> HIDE DEF B
  <2>2. Cardinality(B(r)) <= Cardinality(R) /\ Cardinality(B(r)) # Cardinality(R)
    BY <2>1, FS_Subset, Zenon
  <2>3. Cardinality(R) \in Nat
    BY FS_CardinalityType, Zenon
  <2>4. QED
    BY <1>1, <2>2, <2>3
<1>10. QED
  BY <1>8, <1>9, Zenon

\* The row of a key has, among one row of each key, the place of its key.
LEMMA FlushRank ==
    ASSUME NEW S \in SUBSET Keys, NEW v, \A k \in S : v[k] \in Ver, NEW k \in S
    PROVE  RowAt({Row(j, v[j]) : j \in S}, RankIn(S, k)) = {Row(k, v[k])}
<1> DEFINE R == {Row(j, v[j]) : j \in S}
           r == Row(k, v[k])
           B == {q \in R : Before(q, r)}
           L == {j \in S : j < k}
           f == [j \in L |-> Row(j, v[j])]
<1>1. IsFiniteSet(S) /\ S \subseteq Nat
  <2>1. IsFiniteSet(Keys) /\ Keys \subseteq Nat
    BY EngineConstants, FS_Interval DEF Keys
  <2>2. QED
    BY <2>1, FS_Subset, Zenon
<1>2. \A j \in S : Row(j, v[j]).key = j /\ Row(j, v[j]) \in Rw
  BY Zenon DEF Row, Ver, Rw
<1>3. Rows(R)
  BY <1>2 DEF Rows
<1>4. IsFiniteSet(R)
  <2> DEFINE g == [j \in S |-> Row(j, v[j])]
  <2>1. g \in Surjection(S, R)
    BY Zenon DEF Surjection
  <2>2. QED
    BY <1>1, <2>1, FS_Surjection, Zenon
<1>5. r \in R
  BY Zenon
<1>6. IsFiniteSet(L) /\ Cardinality(L) \in Nat
  <2>1. L \in SUBSET S
    BY Zenon
  <2>2. QED
    BY <1>1, <2>1, FS_Subset, FS_CardinalityType, Zenon
<1>7. \A j \in S : Before(Row(j, v[j]), r) <=> j < k
  <2>1. \A j \in S : j \in Nat /\ Row(j, v[j]).key = j /\ Row(j, v[j]).ts \in Nat
    BY <1>1, <1>2, Zenon DEF Rw
  <2> HIDE DEF r
  <2>2. r.key = k /\ r.ts \in Nat /\ r = Row(k, v[k])
    BY <2>1, Zenon DEF r
  <2>3. QED
    BY <2>1, <2>2 DEF Before
<1>8. B = {Row(j, v[j]) : j \in L}
  BY <1>7, Zenon
<1>9. f \in Bijection(L, B)
  <2>1. f \in [L -> B]
    BY <1>8, Zenon
  <2>2. \A i, j \in L : f[i] = f[j] => i = j
    BY <1>2, Zenon
  <2>3. \A b \in B : \E j \in L : f[j] = b
    BY <1>8, Zenon
  <2>4. QED
    BY <2>1, <2>2, <2>3, Zenon DEF Bijection, Injection, IsInjective, Surjection
<1>10. Cardinality(B) = Cardinality(L)
  BY <1>6, <1>9, FS_Bijection, Zenon DEF ExistsBijection
<1>11. {j \in S : j <= k} = L \cup {k} /\ k \notin L
  <2>1. \A j \in S : (j <= k <=> j < k \/ j = k) /\ ~(k < k)
    BY <1>1
  <2>2. QED
    BY <2>1, Zenon
<1> HIDE DEF L, B, R, r
<1>12. RankIn(S, k) = Cardinality(L) + 1
  BY <1>6, <1>11, FS_AddElement, Zenon DEF RankIn
<1>13. RowAt(R, Cardinality(B) + 1) = {r}
  BY <1>3, <1>4, <1>5, RowRank, Zenon DEF B
<1>14. QED
  BY <1>10, <1>12, <1>13, Zenon DEF R, r

\* The i-th key of the memtable has the i-th row of the block that a flush
\* writes.
LEMMA MemRank ==
    ASSUME EngTypeOK
    PROVE  \A k \in MemKeys : /\ RankIn(MemKeys, k) \in Nat
                              /\ RowAt(MemRows, RankIn(MemKeys, k)) = {Row(k, mem[k][1])}
<1> SUFFICES ASSUME NEW k \in MemKeys
             PROVE  /\ RankIn(MemKeys, k) \in Nat
                    /\ RowAt(MemRows, RankIn(MemKeys, k)) = {Row(k, mem[k][1])}
  BY Zenon
<1> DEFINE v == [j \in MemKeys |-> mem[j][1]]
<1>1. MemKeys \subseteq Keys /\ \A j \in MemKeys : v[j] = mem[j][1] /\ v[j] \in Ver
  BY HeadIs, Zenon
<1>2. MemRows = {Row(j, v[j]) : j \in MemKeys}
  BY <1>1, Zenon DEF MemRows
<1> HIDE DEF v
<1>3. RowAt({Row(j, v[j]) : j \in MemKeys}, RankIn(MemKeys, k)) = {Row(k, v[k])}
  <2>1. \A j \in MemKeys : v[j] \in Ver
    BY <1>1, Zenon
  <2>2. MemKeys \in SUBSET Keys
    BY <1>1, Zenon
  <2>3. QED
    BY <2>1, <2>2, FlushRank, Zenon
<1>4. RankIn(MemKeys, k) \in Nat
  <2>1. IsFiniteSet(Keys)
    BY EngineConstants, FS_Interval DEF Keys
  <2>2. {q \in MemKeys : q <= k} \in SUBSET Keys
    BY <1>1, Zenon
  <2>3. QED
    BY <2>1, <2>2, FS_Subset, FS_CardinalityType, Zenon DEF RankIn
<1>5. QED
  BY <1>1, <1>2, <1>3, <1>4, Zenon

\* A set of naturals has a least element.
LEMMA LeastNatural ==
    ASSUME NEW D \in SUBSET Nat, D # {}
    PROVE  \E d \in D : \A e \in D : d <= e
<1>1. PICK d \in D : \A e \in D : <<e, d>> \notin OpToRel(<, Nat)
  BY NatLessThanWellFounded, WFMin, Zenon
<1>2. \A e \in D : ~(e < d)
  BY <1>1, Zenon DEF OpToRel
<1>3. QED
  BY <1>2

\* A key that has rows has a newest one.
LEMMA TopExists ==
    ASSUME NEW R \in SUBSET Rw, NEW t \in Nat, \A r \in R : r.ts < t, NEW r \in R
    PROVE  \E q \in R : q.key = r.key /\ Top(R, q)
<1> DEFINE D == {t - q.ts : q \in {x \in R : x.key = r.key}}
<1>1. \A q \in R : q.ts \in Nat /\ t - q.ts \in Nat
  BY DEF Rw
<1>2. D \in SUBSET Nat
  BY <1>1, Zenon
<1>3. t - r.ts \in D
  BY Zenon
<1>4. PICK d \in D : \A e \in D : d <= e
  <2> HIDE DEF D
  <2>1. QED
    BY <1>2, <1>3, LeastNatural, Zenon
<1>5. PICK q \in R : q.key = r.key /\ d = t - q.ts
  BY <1>4, Zenon
<1>6. \A x \in R : x.key = r.key => t - q.ts <= t - x.ts
  BY <1>4, <1>5, Zenon
<1>7. \A x \in R : x.key = r.key => x.ts <= q.ts
  BY <1>1, <1>6
<1>8. QED
  BY <1>5, <1>7, Zenon DEF Top

\* Every row to be pointed at has a place in the output.
LEMMA CommitRank ==
    ASSUME EngInv, comp.st = "read", NEW r \in comp.tops
    PROVE  \E i \in 1 .. Cardinality(comp.rows) : RowAt(comp.rows, i) = {r}
<1>1. r \in comp.rows /\ Rows(comp.rows) /\ \A q \in comp.rows : q.ts < nextTs
  BY ReadHolds, Zenon DEF Rows, EngInv, Ordered, SeenOrdered
<1>2. nextTs \in Nat
  BY Zenon DEF EngInv, EngTypeOK
<1>3. IsFiniteSet(comp.rows)
  BY <1>1, <1>2, RowsFinite, Zenon
<1>4. QED
  BY <1>1, <1>3, RowRank, Zenon

\* In a state of the invariant the places that flush_memtable and the commit
\* of compact_inner put in the index are those of the rows.
LEMMA InvRanked ==
    ASSUME EngInv
    PROVE  Ranked
<1>1. nextTs \in Nat /\ EngTypeOK /\ \A r \in Seen : r.ts < nextTs
  BY Zenon DEF EngInv, EngTypeOK, Ordered, SeenOrdered
<1>2. Seen \subseteq Rw
  BY RowsTyped, Zenon DEF EngInv
<1>3. ASSUME NEW R \in SUBSET Seen, NEW r \in R
      PROVE  \E q \in R : q.key = r.key /\ Top(R, q)
  <2>1. R \in SUBSET Rw /\ \A q \in R : q.ts < nextTs
    BY <1>1, <1>2, Zenon
  <2>2. QED
    BY <1>1, <2>1, TopExists, Zenon
<1>4. QED
  BY <1>1, <1>3, MemRank, CommitRank, Zenon DEF Ranked, Headed

\* get and scans find the last write applied to every key that no call is
\* writing, whatever flushes and compactions do in between: the index is never
\* left on an input of a compaction, on the row of another key or on an older
\* version (get, scan_all, flush_memtable, compact_inner). For any number of keys,
\* calls, flushes, compactions and append errors.
THEOREM EngineReadsLatest ==
    ASSUME OneWriterPerKey, ExclusiveFlush, MaxCrashes = 0
    PROVE  EngSpec => []ReadsLatest
<1>1. Undisturbed
  BY EngineConstants, Zenon DEF Undisturbed
<1>2. EngInit => EngInv
  BY EngStarts, Zenon
<1>3. EngInv /\ [EngNext]_engVars => EngInv'
  BY <1>1, InvRanked, EngStep, Zenon
<1>4. EngInv => ReadsLatest
  BY InvReads, Zenon
<1>5. QED
  BY <1>2, <1>3, <1>4, PTL DEF EngSpec

\* A commit of compact_inner gives no reader of a tag an answer that it could
\* not have had before: the MVCC GC drops no version that a tag resolves to.
THEOREM EngineKeepsPins ==
    ASSUME OneWriterPerKey, ExclusiveFlush, MaxCrashes = 0
    PROVE  EngSpec => CompactionKeepsPins
<1> DEFINE Inv == EngInv /\ Pinned
<1>1. Undisturbed
  BY EngineConstants, Zenon DEF Undisturbed
<1>2. EngInit => Inv
  <2>1. EngInit => Pinned
    BY Zenon DEF EngInit, Pinned, NoComp
  <2>2. QED
    BY <2>1, EngStarts, Zenon
<1>3. Inv /\ [EngNext]_engVars => Inv'
  BY <1>1, InvRanked, EngStep, PinsStep, Zenon
<1>4. Inv /\ [EngNext]_engVars =>
         [CompactCommit => \A p \in pins, k \in Keys : ScanAt(k, p)' \subseteq ScanAt(k, p)]_engVars
  BY InvRanked, CommitPins, Zenon
<1> HIDE DEF Inv
<1>5. QED
  BY <1>2, <1>3, <1>4, PTL DEF EngSpec, CompactionKeepsPins

=============================================================================
