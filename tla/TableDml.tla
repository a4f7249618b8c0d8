------------------------------ MODULE TableDml ------------------------------
(***************************************************************************)
(* Autocommit DML on one table and the upkeep of its secondary index       *)
(* (galaxdb-sql executor.rs and secondary_index.rs).  DML statements run   *)
(* concurrently under the database's read lock, CREATE and DROP INDEX run  *)
(* alone under its write lock.  Each engine call is durable when it        *)
(* returns, so a crash loses the statements in progress and nothing else.  *)
(*                                                                         *)
(* A column value is <<tag, n>>: the tag is the rank of the type tag in    *)
(* the index encoding (NULL < float < integer < text).                     *)
(***************************************************************************)
EXTENDS Naturals, FiniteSets

CONSTANTS Statements, RowKeys, Given, MaxStarts

VARIABLES row,      \* primary key -> stored column value
          indexed,  \* the index definition exists
          entry,    \* index entries: <<value, primary key>>
          stmt,     \* what each statement has left to do
          starts,
          loose     \* keys whose entry a known deviation may have lost

dmlvars == <<row, indexed, entry, stmt, starts, loose>>

Tag(name) == CASE name = "null" -> 0 [] name = "float" -> 1
               [] name = "int" -> 2 [] name = "text" -> 3

NoRow == <<9, 0>>
Null == <<Tag("null"), 0>>
Num(n) == <<Tag("int"), n>>
Text(n) == <<Tag("text"), n>>

(* encode_row then decode_row: a value comes back with the type its text   *)
(* looks like, so the text '1' and the float 1.0 come back as the integer. *)
Stored(v) == IF v[1] \in {Tag("float"), Tag("text")} THEN Num(v[2]) ELSE v

(* The byte order of encode_index_value. *)
EncodedLeq(a, b) == a[1] < b[1] \/ (a[1] = b[1] /\ a[2] <= b[2])

Idle == [op |-> "idle", todo |-> {}, cur |-> {}, new |-> Null]

DmlInit == /\ row = [k \in RowKeys |-> NoRow]
           /\ indexed \in BOOLEAN
           /\ entry = {}
           /\ stmt = [s \in Statements |-> Idle]
           /\ starts = 0
           /\ loose = {}

(* The keys statement s is still going to write, or to reindex. *)
Pending(s) == {t[1] : t \in stmt[s].todo}

Present == {k \in RowKeys : row[k] # NoRow}

DdlRuns == \E s \in Statements : stmt[s].op \in {"create", "drop"}

(* A statement begins with the rows it scanned; the keys another statement *)
(* is still working on are no longer certain to keep their index entry.    *)
BeginDml(s, op, todo, new) ==
  /\ stmt[s].op = "idle" /\ ~DdlRuns /\ starts < MaxStarts
  /\ starts' = starts + 1
  /\ stmt' = [stmt EXCEPT ![s] = [op |-> op, todo |-> todo, cur |-> {}, new |-> new]]
  /\ loose' = loose \cup ({t[1] : t \in todo} \cap
                            UNION {Pending(t) : t \in Statements \ {s}})
  /\ UNCHANGED <<row, indexed, entry>>

Continue(s, op, todo) ==
  stmt' = [stmt EXCEPT ![s] = IF todo = {} THEN Idle
                              ELSE [@ EXCEPT !.op = op, !.todo = todo]]

PutRow(k, v) == row' = [row EXCEPT ![k] = v]

Insert(s, k, v) == row[k] = NoRow /\ BeginDml(s, "insert", {<<k, v>>}, v)

InsertPut(s) ==
  /\ stmt[s].op = "insert"
  /\ \E t \in stmt[s].todo : PutRow(t[1], Stored(stmt[s].new))
  /\ Continue(s, "index", stmt[s].todo)
  /\ UNCHANGED <<indexed, entry, starts, loose>>

(* exec_bulk_insert and COPY: no uniqueness check, one batch of puts, then *)
(* the entries row by row.                                                 *)
BulkInsert(s, ks, v) == BeginDml(s, "bulk", {<<k, v>> : k \in ks}, v)

BulkPut(s) ==
  /\ stmt[s].op = "bulk"
  /\ row' = [k \in RowKeys |-> IF k \in Pending(s) THEN Stored(stmt[s].new) ELSE row[k]]
  /\ Continue(s, "index", stmt[s].todo)
  /\ UNCHANGED <<indexed, entry, starts, loose>>

(* on_row_inserted, for the rows of INSERT and BULK INSERT: the value is   *)
(* encoded as the statement gave it, before the row codec.                 *)
IndexInserted(s) ==
  /\ stmt[s].op = "index"
  /\ \E t \in stmt[s].todo :
       /\ entry' = IF indexed THEN entry \cup {<<stmt[s].new, t[1]>>} ELSE entry
       /\ loose' = IF stmt[s].new = Stored(stmt[s].new) THEN loose ELSE loose \cup {t[1]}
       /\ Continue(s, "index", stmt[s].todo \ {t})
  /\ UNCHANGED <<row, indexed, starts>>

(* exec_update SET column = v WHERE column = w: each matching row of the   *)
(* scan is put, then on_row_updated removes the old entry and adds the new.*)
Update(s, w, v) ==
  /\ \E k \in RowKeys : row[k] = w
  /\ BeginDml(s, "update", {<<k, w>> : k \in {q \in RowKeys : row[q] = w}}, v)

UpdatePut(s) ==
  /\ stmt[s].op = "update"
  /\ \E t \in stmt[s].todo :
       /\ PutRow(t[1], Stored(stmt[s].new))
       /\ stmt' = [stmt EXCEPT ![s].cur = {t},
                               ![s].op = IF indexed /\ t[2] # stmt[s].new
                                         THEN "unindex" ELSE "moved"]
  /\ UNCHANGED <<indexed, entry, starts, loose>>

UpdateUnindex(s) ==
  /\ stmt[s].op = "unindex"
  /\ entry' = entry \ {<<t[2], t[1]>> : t \in stmt[s].cur}
  /\ stmt' = [stmt EXCEPT ![s].op = "reindex"]
  /\ UNCHANGED <<row, indexed, starts, loose>>

UpdateReindexKept(s) ==
  /\ stmt[s].op = "reindex"
  /\ stmt' = [stmt EXCEPT ![s].op = "moved"]
  /\ UNCHANGED <<row, indexed, entry, starts, loose>>

UpdateReindex(s) ==
  /\ stmt[s].op = "reindex"
  /\ \E t \in stmt[s].cur :
       /\ entry' = entry \cup {<<stmt[s].new, t[1]>>}
       /\ loose' = IF stmt[s].new = Stored(stmt[s].new) THEN loose ELSE loose \cup {t[1]}
  /\ stmt' = [stmt EXCEPT ![s].op = "moved"]
  /\ UNCHANGED <<row, indexed, starts>>

UpdateNext(s) ==
  /\ stmt[s].op = "moved"
  /\ Continue(s, "update", stmt[s].todo \ stmt[s].cur)
  /\ UNCHANGED <<row, indexed, entry, starts, loose>>

(* exec_delete WHERE column = w: every doomed key is deleted, then the     *)
(* entries of the rows as they were scanned are removed.                   *)
Delete(s, w) ==
  /\ \E k \in RowKeys : row[k] = w
  /\ BeginDml(s, "delete", {<<k, w>> : k \in {q \in RowKeys : row[q] = w}}, w)

DeleteRows(s) ==
  /\ stmt[s].op = "delete"
  /\ row' = [k \in RowKeys |-> IF k \in Pending(s) THEN NoRow ELSE row[k]]
  /\ Continue(s, "erase", stmt[s].todo)
  /\ UNCHANGED <<indexed, entry, starts, loose>>

EraseEntries(s) ==
  /\ stmt[s].op = "erase"
  /\ \E t \in stmt[s].todo :
       /\ entry' = IF indexed THEN entry \ {<<t[2], t[1]>>} ELSE entry
       /\ Continue(s, "erase", stmt[s].todo \ {t})
  /\ UNCHANGED <<row, indexed, starts, loose>>

(* commit_transaction puts and deletes the buffered rows without the hooks.*)
CommitBuffered(k, v) ==
  /\ ~DdlRuns /\ starts < MaxStarts
  /\ starts' = starts + 1
  /\ PutRow(k, v)
  /\ loose' = loose \cup {k}
  /\ UNCHANGED <<indexed, entry, stmt>>

BeginDdl ==
  /\ \A t \in Statements : stmt[t].op = "idle"
  /\ starts < MaxStarts
  /\ starts' = starts + 1

(* exec_create_index: the definition, then build_from_table.  The index    *)
(* then covers every row, whatever had loosened it.                        *)
CreateIndex(s) ==
  /\ ~indexed /\ BeginDdl
  /\ Continue(s, "create", {<<k, row[k]>> : k \in Present})
  /\ indexed' = TRUE
  /\ loose' = {}
  /\ UNCHANGED <<row, entry>>

BuildEntry(s) ==
  /\ stmt[s].op = "create"
  /\ \E t \in stmt[s].todo :
       /\ entry' = entry \cup {<<t[2], t[1]>>}
       /\ Continue(s, "create", stmt[s].todo \ {t})
  /\ UNCHANGED <<row, indexed, starts, loose>>

(* drop_index: every entry, then the definition. *)
DropIndex(s) ==
  /\ indexed /\ BeginDdl
  /\ stmt' = [stmt EXCEPT ![s].op = "drop", ![s].todo = {<<e[2], e[1]>> : e \in entry}]
  /\ UNCHANGED <<row, indexed, entry, loose>>

DropEntry(s) ==
  /\ stmt[s].op = "drop"
  /\ \E t \in stmt[s].todo :
       /\ entry' = entry \ {<<t[2], t[1]>>}
       /\ stmt' = [stmt EXCEPT ![s].todo = @ \ {t}]
  /\ UNCHANGED <<row, indexed, starts, loose>>

DropDefinition(s) ==
  /\ stmt[s].op = "drop" /\ stmt[s].todo = {}
  /\ indexed' = FALSE
  /\ stmt' = [stmt EXCEPT ![s] = Idle]
  /\ UNCHANGED <<row, entry, starts, loose>>

(* The process dies.  The keys of unfinished statements, and every key of  *)
(* an index that was being dropped, may have lost their entry.             *)
DmlCrash ==
  /\ \E s \in Statements : stmt[s].op # "idle"
  /\ stmt' = [s \in Statements |-> Idle]
  /\ loose' = IF \E s \in Statements : stmt[s].op = "drop" THEN RowKeys
              ELSE loose \cup UNION {Pending(s) : s \in Statements}
  /\ UNCHANGED <<row, indexed, entry, starts>>

DmlStep(s) ==
  \/ \E k \in RowKeys, v \in Given : Insert(s, k, v)
  \/ \E ks \in SUBSET RowKeys \ {{}}, v \in Given : BulkInsert(s, ks, v)
  \/ \E w \in {Stored(v) : v \in Given}, v \in Given : Update(s, w, v)
  \/ \E w \in {Stored(v) : v \in Given} : Delete(s, w)
  \/ InsertPut(s) \/ BulkPut(s) \/ IndexInserted(s)
  \/ UpdatePut(s) \/ UpdateUnindex(s) \/ UpdateReindex(s) \/ UpdateNext(s)
  \/ DeleteRows(s) \/ EraseEntries(s)
  \/ CreateIndex(s) \/ BuildEntry(s)
  \/ DropIndex(s) \/ DropEntry(s) \/ DropDefinition(s)

DmlNext == \/ \E s \in Statements : DmlStep(s)
           \/ \E k \in RowKeys, v \in {Stored(g) : g \in Given} \cup {NoRow} :
                CommitBuffered(k, v)
           \/ DmlCrash

DmlSpec == DmlInit /\ [][DmlNext]_dmlvars

(***************************************************************************)
(* Reads: exec_full_scan through the index or over the whole table.        *)
(***************************************************************************)
Compare(op, a, b) == CASE op = "lt" -> a < b [] op = "le" -> a <= b
                       [] op = "gt" -> a > b [] op = "ge" -> a >= b

(* filter_matches: equality is on the typed value, order is numeric. *)
Matches(v, p) == IF p.op = "eq" THEN v = p.lit
                 ELSE v[1] # Tag("null") /\ Compare(p.op, v[2], p.lit[2])

(* index_pk_set with lookup_eq and lookup_range: NULLs are not in a range, *)
(* the bound is inclusive and is compared in the byte encoding.            *)
IndexPks(p) ==
  {e[2] : e \in {x \in entry :
     CASE p.op = "eq" -> x[1] = p.lit
       [] p.op \in {"gt", "ge"} -> x[1] # Null /\ EncodedLeq(p.lit, x[1])
       [] p.op \in {"lt", "le"} -> x[1] # Null /\ EncodedLeq(x[1], p.lit)}}

ScannedKeys(p) == {k \in Present : Matches(row[k], p)}

IndexedKeys(p) == {k \in IndexPks(p) \cap Present : Matches(row[k], p)}

Predicates == [op : {"eq", "lt", "le", "gt", "ge"}, lit : {v \in Given : Stored(v) = v /\ v # Null}]

(* A read through the index returns what a full scan would return: never a *)
(* row that does not match, and every matching row but those a statement   *)
(* in progress is working on and those whose entry was lost to one of the  *)
(* known deviations: two statements on the same row at once, a row written *)
(* by an explicit transaction, a crash inside a statement, or a value that *)
(* the row codec gives back with another type.  (exec_full_scan's index    *)
(* access path, on_row_inserted/updated/deleted, build_from_table.)        *)
IndexAnswersScanUnlessLoose ==
  indexed /\ ~DdlRuns => \A p \in Predicates :
    /\ IndexedKeys(p) \subseteq ScannedKeys(p)
    /\ ScannedKeys(p) \ (loose \cup UNION {Pending(s) : s \in Statements})
         \subseteq IndexedKeys(p)

=============================================================================
