------------------------------ MODULE PaxBlock ------------------------------
(***************************************************************************)
(* A PAX block is filled row by row, written, perhaps damaged on disk, and *)
(* read.  Its columns are the ones every SST block has, key, value and row *)
(* timestamp, and the data and validity columns of a columnar table.       *)
(***************************************************************************)
EXTENDS Pax

CONSTANTS Layouts,      \* sequences of column types of the columnar table
          MaxPaxRows

VARIABLES layout, paxRows,      \* the rows, each a sequence of values
          paxBytes,             \* the serialized block, <<>> before the write
          damaged               \* history: it changed on disk

paxVars == <<layout, paxRows, paxBytes, damaged>>

PaxInit == layout \in Layouts /\ paxRows = <<>> /\ paxBytes = <<>> /\ damaged = FALSE

\* flush.rs: key zstd, value none, ts none, then (data, validity) pairs.
ColumnType(c) == IF c <= 3 \/ c % 2 = 1 THEN "blob" ELSE layout[(c - 2) \div 2]
ColumnCodec(c) == IF c = 1 THEN "zstd" ELSE IF c <= 3 THEN "none"
                  ELSE ForColumnType(ColumnType(c))
ColumnCount == 3 + 2 * Len(layout)

Columns ==
    [c \in 1 .. ColumnCount |->
        [type |-> ColumnType(c), codec |-> ColumnCodec(c),
         values |-> [r \in DOMAIN paxRows |-> paxRows[r][c]]]]

\* The values a cell of type t may have; numbers take them all.
Samples(t) == CASE t \in {"text", "blob"} -> {<<>>, <<2, 1>>}
                [] t = "boolean" -> {<<0>>, <<1>>}
                [] t = "embedding" -> {<<1, 2>>}
                [] OTHER -> [1 .. ByteSize(t) -> 0 .. Base - 1]

\* The first row is a tombstone, whose value is empty.
AddRow ==
    /\ paxBytes = <<>> /\ Len(paxRows) < MaxPaxRows
    /\ \E data \in
            {f \in [DOMAIN layout -> UNION {Samples(t) : t \in ColumnTypes}] :
                \A i \in DOMAIN layout : f[i] \in Samples(layout[i])} :
        LET cell(c) == CASE c = 1 -> U64ToBytes(Len(paxRows), Len(paxRows) + 1)
                         [] c = 2 -> SubSeq(<<2, 1>>, 1, Len(paxRows))
                         [] c = 3 -> U64ToBytes(Len(paxRows), WordBytes)
                         [] c > 3 /\ c % 2 = 0 -> data[(c - 2) \div 2]
                         [] OTHER -> <<1>>
        IN  paxRows' = Append(paxRows, [c \in 1 .. ColumnCount |-> cell(c)])
    /\ UNCHANGED <<layout, paxBytes, damaged>>

\* A block is written from at least one row.
WriteBlock ==
    /\ paxBytes = <<>> /\ paxRows # <<>> /\ Writable(Columns)
    /\ paxBytes' = Serialize(1, Len(paxRows), Columns)
    /\ UNCHANGED <<layout, paxRows, damaged>>

\* One field changes on disk, or the tail is lost and other bytes end the block.
Damage ==
    /\ paxBytes # <<>> /\ ~ damaged /\ damaged' = TRUE
    /\ \/ \E i \in {1, Len(paxBytes) - 1} : paxBytes' = [paxBytes EXCEPT ![i] = Base + 99]
       \/ paxBytes' = Append(SubSeq(paxBytes, 1, Len(paxBytes) - 2), Xxh3(<<>>))
    /\ UNCHANGED <<layout, paxRows>>

PaxNext == AddRow \/ WriteBlock \/ Damage
PaxSpec == PaxInit /\ [][PaxNext]_paxVars

(* What a block holds can be read back by every reader: for the block as   *)
(* it was written, deserialize with read_column and read_column_row give   *)
(* every value of every column, and read_value_from_raw_block, with its    *)
(* own walk of the header, gives every value of a column that is not       *)
(* bit-packed; its zone maps bound the values.  A block that differs from  *)
(* what was written in one field, or lost its tail, is refused by both.    *)
(* In a file, and in a file with the footer of the first versions, the     *)
(* block index finds every block.                                          *)
BlockReadsBack ==
    paxBytes # <<>> =>
        IF ~ damaged
        THEN LET block == Deserialize(paxBytes)
                 file == SstFile(<<paxBytes, paxBytes>>)
                 legacy == SubSeq(file, 1, Len(file) - 2) \o <<SstMagic>>
             IN  /\ block # NoValue
                 /\ \A f \in {file, legacy} : \A i \in 1 .. 2 :
                        BlockAt(f, FromFileData(f)[i]) = paxBytes
                 /\ \A c \in 1 .. ColumnCount :
                    /\ ReadColumn(block, c) = Columns[c].values
                    /\ \A r \in DOMAIN paxRows :
                        /\ ReadColumnRow(block, c, r - 1) = paxRows[r][c]
                        /\ ColumnCodec(c) # "fastpfor" =>
                            ReadValueFromRawBlock(paxBytes, c, r - 1) = paxRows[r][c]
                        /\ \A op \in {"eq", "le", "ge"} : paxRows[r][c] # <<>> =>
                            \/ \E q \in DOMAIN paxRows : paxRows[q][c] = <<>>
                            \/ ZoneMapCanMatch(ColumnType(c), block.desc[c].zone, op, paxRows[r][c])
        ELSE /\ Deserialize(paxBytes) = NoValue
             /\ ReadValueFromRawBlock(paxBytes, 2, 0) = NoValue

=============================================================================
