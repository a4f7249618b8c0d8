-------------------------------- MODULE Pax ---------------------------------
(***************************************************************************)
(* A PAX block, crates/galaxdb-storage/src/pax: columns compressed one by  *)
(* one, their zone maps, the serialized form, and the two readers of it:   *)
(* PaxBlock::deserialize with read_column and read_column_row, and         *)
(* read_value_from_raw_block, which walks the header by itself.            *)
(*                                                                         *)
(* A value is a sequence of bytes of ByteBits bits, a 64-bit word is       *)
(* WordBytes of them.  A serialized block is a sequence of fields: a field *)
(* that the code writes in 1, 2, 4 or 8 bytes is one element, so offsets   *)
(* count elements.                                                         *)
(***************************************************************************)
EXTENDS Integers, Sequences, SequencesExt, FiniteSets

CONSTANTS ByteBits, WordBytes

ASSUME PaxConstants == ByteBits \in Nat \ {0} /\ WordBytes \in Nat \ {0}

Base == 2 ^ ByteBits
Word == Base ^ WordBytes

NoValue == [err |-> TRUE]       \* Err: no byte sequence equals it

-----------------------------------------------------------------------------
(* Column types: the 1-byte and the 8-byte ones stand for all widths.      *)

TypeByte == [int8 |-> 0, int64 |-> 3, uint64 |-> 7, float64 |-> 9, text |-> 10,
             blob |-> 11, boolean |-> 13, embedding |-> 14]
ColumnTypes == DOMAIN TypeByte
Dims == 1                       \* of the embedding column: one word
Signed(t) == t \in {"int8", "int64"}
IsFixedWidth(t) == t \in {"int8", "int64", "uint64", "float64", "boolean"}
ByteSize(t) == IF t \in {"int8", "boolean"} THEN 1 ELSE WordBytes   \* fixed or embedding
ForColumnType(t) == CASE IsFixedWidth(t) -> "fastpfor"
                      [] t \in {"text", "blob"} -> "zstd"
                      [] OTHER -> "none"
CodecByte == [none |-> 0, fastpfor |-> 1, zstd |-> 2]

\* Little-endian number of a value, and a value of n bytes of a number.
BytesToU64(v) ==
    LET low[i \in 0 .. Len(v)] == IF i = 0 THEN 0 ELSE low[i - 1] + v[i] * Base ^ (i - 1)
    IN  low[Len(v)]
U64ToBytes(x, n) == [i \in 1 .. n |-> (x \div Base ^ (i - 1)) % Base]

-----------------------------------------------------------------------------
(* codec.rs *)

LengthPrefixed(vs) == FlattenSeq([i \in DOMAIN vs |-> <<Len(vs[i])>> \o vs[i]])

\* Where the n-th length-prefixed value of data starts (its length field).
PrefixAt(data, n) ==
    LET at[i \in 0 .. n] == IF i = 0 THEN 1 ELSE at[i - 1] + 1 + data[at[i - 1]] IN at[n]
ValueAt(data, p) == SubSeq(data, p + 1, p + data[p])

DecompressNone(data, count) == [r \in 1 .. count |-> ValueAt(data, PrefixAt(data, r - 1))]
DecompressNoneSingleRow(data, row) == ValueAt(data, PrefixAt(data, row))

\* zstd: one opaque element that only decode_all opens.
ZstdEncodeAll(raw) == [zstd |-> raw]
CompressZstd(vs) == LET raw == LengthPrefixed(vs) IN <<Len(raw), ZstdEncodeAll(raw)>>
DecompressZstd(data, count) == DecompressNone(data[2].zstd, count)

\* Zigzag of the word x read as a signed number, and its inverse as a word.
ZigzagEncode(x) == IF x < Word \div 2 THEN 2 * x ELSE 2 * (Word - x) - 1
ZigzagDecodeShifted(z) == IF z % 2 = 0 THEN z \div 2 ELSE (Word - z \div 2) % Word
ZigzagDecode(z) == IF z % 2 = 0 THEN z \div 2 ELSE (Word - (z + 1) \div 2) % Word

Delta(t, x, y) == LET d == (y - x + Word) % Word IN IF Signed(t) THEN ZigzagEncode(d) ELSE d
Undelta(t, x, z) == (x + (IF Signed(t) THEN ZigzagDecode(z) ELSE z)) % Word

\* Bits needed by the largest of the words: 64 - leading_zeros.
MaxBits(ds) ==
    CHOOSE n \in 0 .. ByteBits * WordBytes :
        /\ \A i \in DOMAIN ds : ds[i] < 2 ^ n
        /\ n > 0 => \E i \in DOMAIN ds : ds[i] >= 2 ^ (n - 1)

\* Words packed low bits first into the fewest bytes, and one word out of them.
BitpackEncode(ds, bits) ==
    LET packed == FoldSeq(LAMBDA d, acc : d + 2 ^ bits * acc, 0, ds)
    IN  U64ToBytes(packed, (Len(ds) * bits + ByteBits - 1) \div ByteBits)
BitpackDecode(data, bits, count) ==
    [i \in 1 .. count |-> (BytesToU64(data) \div 2 ^ (bits * (i - 1))) % 2 ^ bits]

CompressFastpfor(t, vs) ==
    LET xs == [i \in DOMAIN vs |-> BytesToU64(vs[i])]
        ds == [i \in 1 .. Len(vs) - 1 |-> Delta(t, xs[i], xs[i + 1])]
        bits == MaxBits(ds)
        packed == BitpackEncode(ds, bits)
    IN  IF vs = <<>> THEN <<ByteSize(t)>>
        ELSE <<ByteSize(t)>> \o vs[1] \o <<bits>>
             \o (IF bits > 0 THEN <<Len(packed)>> \o packed ELSE <<>>)

DecompressFastpfor(t, data, count) ==
    LET width == data[1]
        bitsAt == 2 + width
        bits == data[bitsAt]
        ds == IF bits = 0 THEN [i \in 1 .. count - 1 |-> 0]
              ELSE BitpackDecode(SubSeq(data, bitsAt + 2, bitsAt + 1 + data[bitsAt + 1]),
                                 bits, count - 1)
        xs[i \in 1 .. count] ==
            IF i = 1 THEN BytesToU64(SubSeq(data, 2, 1 + width))
            ELSE Undelta(t, xs[i - 1], ds[i - 1])
    IN  IF count = 0 THEN <<>> ELSE [i \in 1 .. count |-> U64ToBytes(xs[i], ByteSize(t))]

Compress(t, codec, vs) ==
    CASE codec = "none" -> LengthPrefixed(vs)
      [] codec = "fastpfor" -> CompressFastpfor(t, vs)
      [] codec = "zstd" -> CompressZstd(vs)
Decompress(t, codec, data, count) ==
    CASE codec = "none" -> DecompressNone(data, count)
      [] codec = "fastpfor" -> DecompressFastpfor(t, data, count)
      [] codec = "zstd" -> DecompressZstd(data, count)

-----------------------------------------------------------------------------
(* Zone maps: the least and the greatest value of a column, in the order   *)
(* of their comparable bytes.                                              *)

BigEndian(x, n) == Reverse(U64ToBytes(x, n))

ToComparableBytes(t, v) ==
    LET n == Len(v)  full == Base ^ n  half == full \div 2  x == BytesToU64(v)
    IN  CASE Signed(t) /\ n = ByteSize(t) -> BigEndian((x + half) % full, n)
          [] t = "uint64" /\ n = WordBytes -> BigEndian(x, n)
          [] t = "float64" /\ n = WordBytes ->
                BigEndian(IF x >= half THEN full - 1 - x ELSE x + half, n)
          [] OTHER -> v

\* Lexicographic order of byte sequences.
BytesLess(a, b) ==
    \E i \in 1 .. Len(b) : /\ \A j \in 1 .. i - 1 : j <= Len(a) /\ a[j] = b[j]
                           /\ i > Len(a) \/ a[i] < b[i]
BytesLeq(a, b) == a = b \/ BytesLess(a, b)

ExtractZoneMap(t, vs) ==
    LET leq(v, w) == BytesLeq(ToComparableBytes(t, v), ToComparableBytes(t, w))
    IN  IF vs = <<>> THEN [min |-> <<>>, max |-> <<>>]
        ELSE [min |-> CHOOSE v \in ToSet(vs) : \A w \in ToSet(vs) : leq(v, w),
              max |-> CHOOSE v \in ToSet(vs) : \A w \in ToSet(vs) : leq(w, v)]

PruneOps == {"eq", "ne", "lt", "le", "gt", "ge"}

\* Does `a op b` hold in the order of the comparable bytes?
Compares(op, a, b) == CASE op = "eq" -> a = b
                        [] op = "ne" -> a # b
                        [] op = "lt" -> BytesLess(a, b)
                        [] op = "le" -> BytesLeq(a, b)
                        [] op = "gt" -> BytesLess(b, a)
                        [] op = "ge" -> BytesLeq(b, a)

ZoneMapCanMatch(t, zone, op, value) ==
    LET lo == ToComparableBytes(t, zone.min)
        hi == ToComparableBytes(t, zone.max)
        v == ToComparableBytes(t, value)
    IN  /\ zone.min # <<>> /\ zone.max # <<>>
        /\ CASE op = "eq" -> BytesLeq(lo, v) /\ BytesLeq(v, hi)
             [] op \in {"gt", "ge"} -> Compares(op, hi, v)
             [] op \in {"lt", "le"} -> Compares(op, lo, v)
             [] op = "ne" -> ~ (lo = hi /\ lo = v)

-----------------------------------------------------------------------------
(* The block: a sequence of columns [type, codec, values] of equal length. *)

PaxMagic == 71
PaxFormatVersion == 1

\* write_with_codecs refuses no columns and columns of different lengths.
Writable(cols) == cols # <<>> /\ \A c \in DOMAIN cols : Len(cols[c].values) = Len(cols[1].values)

RowOffsets(cols) ==
    LET size(r) == FoldSeq(LAMBDA c, acc : Len(c.values[r]) + acc, 0, cols)
        at[r \in 1 .. Len(cols[1].values)] == IF r = 1 THEN 0 ELSE at[r - 1] + size(r - 1)
    IN  [r \in 1 .. Len(cols[1].values) |-> at[r]]

\* Each column's chunk and where it starts in the column data.
Chunks(cols) == [c \in DOMAIN cols |-> Compress(cols[c].type, cols[c].codec, cols[c].values)]
ChunkOffset(chunks, c) ==
    FoldSeq(LAMBDA d, acc : Len(d) + acc, 0, SubSeq(chunks, 1, c - 1))

SerializeDescriptor(cols, c) ==
    LET col == cols[c]  zone == ExtractZoneMap(col.type, col.values)  chunks == Chunks(cols)
    IN  <<TypeByte[col.type]>> \o (IF col.type = "embedding" THEN <<Dims>> ELSE <<>>)
        \o <<CodecByte[col.codec], ChunkOffset(chunks, c), Len(chunks[c])>>
        \o <<Len(zone.min)>> \o zone.min \o <<Len(zone.max)>> \o zone.max

SerializeHeader(id, ts, cols) ==
    <<PaxMagic, PaxFormatVersion, id, Len(cols[1].values), ts, Len(cols)>>
    \o FlattenSeq([c \in DOMAIN cols |-> SerializeDescriptor(cols, c)])

\* XXH3-64 taken as collision free.
Xxh3(fields) == [xxh |-> fields]

Serialize(id, ts, cols) ==
    LET body == SerializeHeader(id, ts, cols) \o FlattenSeq(Chunks(cols)) \o RowOffsets(cols)
    IN  Append(body, Xxh3(body))

ChecksumHolds(data) == data # <<>> /\ Last(data) = Xxh3(Front(data))

Named(table, byte) == CHOOSE n \in DOMAIN table : table[n] = byte
Known(table, byte) == \E n \in DOMAIN table : table[n] = byte

\* The descriptor that starts at p, and where the next one starts.
DescriptorAt(data, p) ==
    LET q == IF data[p] = TypeByte.embedding THEN p + 2 ELSE p + 1
        m == q + 4 + data[q + 3]
    IN  [type |-> Named(TypeByte, data[p]), codec |-> Named(CodecByte, data[q]),
         offset |-> data[q + 1], len |-> data[q + 2],
         zone |-> [min |-> SubSeq(data, q + 4, m - 1), max |-> SubSeq(data, m + 1, m + data[m])],
         next |-> m + 1 + data[m]]

DeserializeHeader(data) ==
    LET desc[c \in 1 .. data[6]] == DescriptorAt(data, IF c = 1 THEN 7 ELSE desc[c - 1].next)
    IN  desc

\* Ok(block) or NoValue; a block is its descriptors and its column data.
Deserialize(data) ==
    IF ~ ChecksumHolds(data) \/ data[1] # PaxMagic \/ data[2] # PaxFormatVersion THEN NoValue
    ELSE LET desc == DeserializeHeader(data)
             start == IF data[6] = 0 THEN 7 ELSE desc[data[6]].next
             len == FoldSeq(LAMBDA d, acc : d.len + acc, 0, desc)
         IN  IF start + len + data[4] > Len(data) THEN NoValue
             ELSE [rows |-> data[4], ts |-> data[5], desc |-> desc,
                   data |-> SubSeq(data, start, start + len - 1)]

ChunkOf(block, c) == LET d == block.desc[c] IN SubSeq(block.data, d.offset + 1, d.offset + d.len)

ReadColumn(block, c) ==
    IF c \notin DOMAIN block.desc THEN NoValue
    ELSE Decompress(block.desc[c].type, block.desc[c].codec, ChunkOf(block, c), block.rows)

\* Rows are numbered from 0, as row_offset is.
ReadColumnRow(block, c, row) ==
    IF c \notin DOMAIN block.desc \/ row >= block.rows THEN NoValue
    ELSE IF block.desc[c].codec = "none" THEN DecompressNoneSingleRow(ChunkOf(block, c), row)
    ELSE ReadColumn(block, c)[row + 1]

\* The header walk of read_value_from_raw_block: no magic, version or type check.
RawSkip(data, p) ==
    LET q == IF data[p] = TypeByte.embedding THEN p + 2 ELSE p + 1
        m == q + 4 + data[q + 3]
    IN  [codec |-> data[q], offset |-> data[q + 1], len |-> data[q + 2], next |-> m + 1 + data[m]]

ReadValueFromRawBlock(data, c, row) ==
    IF ~ ChecksumHolds(data) \/ c > data[6] \/ row >= data[4] THEN NoValue
    ELSE LET walk[i \in 1 .. data[6]] == RawSkip(data, IF i = 1 THEN 7 ELSE walk[i - 1].next)
             start == walk[data[6]].next + walk[c].offset
             chunk == SubSeq(data, start, start + walk[c].len - 1)
         IN  IF ~ Known(CodecByte, walk[c].codec) THEN NoValue
             ELSE IF walk[c].codec = CodecByte.none THEN DecompressNoneSingleRow(chunk, row)
             ELSE Decompress("blob", Named(CodecByte, walk[c].codec), chunk, data[4])[row + 1]

-----------------------------------------------------------------------------
(* sst.rs: a file is its blocks, the index of (offset, length) and the     *)
(* footer.  Offsets count from 0.                                          *)

SstMagic == 83
SstMagicV2 == 86
SstFormatVersion == 1

SerializeWithFooter(index, at) ==
    <<Len(index)>> \o FlattenSeq([i \in DOMAIN index |-> <<index[i].offset, index[i].len>>])
    \o <<at, Len(index), SstFormatVersion, SstMagicV2>>

SstFile(blocks) ==
    LET data == FlattenSeq(blocks)
    IN  data \o SerializeWithFooter(
            [i \in DOMAIN blocks |-> [offset |-> ChunkOffset(blocks, i), len |-> Len(blocks[i])]],
            Len(data))

\* <<index offset, block count, footer size>>, or NoValue.
ParseFooter(file) ==
    LET n == Len(file)
    IN  CASE n >= 4 /\ Last(file) = SstMagicV2 ->
                IF file[n - 1] = SstFormatVersion THEN <<file[n - 3], file[n - 2], 4>> ELSE NoValue
          [] n >= 3 /\ Last(file) = SstMagic -> <<file[n - 2], file[n - 1], 3>>
          [] OTHER -> NoValue

FromFileData(file) ==
    LET f == ParseFooter(file)
        entry(i) == LET p == f[1] + 2 * i IN [offset |-> file[p], len |-> file[p + 1]]
    IN  IF f = NoValue THEN NoValue
        ELSE IF f[1] + 1 + 2 * f[2] > Len(file) - f[3] THEN NoValue
        ELSE [i \in 1 .. f[2] |-> entry(i)]

BlockAt(file, e) == SubSeq(file, e.offset + 1, e.offset + e.len)

=============================================================================
