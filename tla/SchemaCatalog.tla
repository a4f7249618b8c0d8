---------------------------- MODULE SchemaCatalog ----------------------------
(***************************************************************************)
(* The schema of a table in its four places: the in-memory Catalog, the    *)
(* record catalog_store.rs keeps in the engine, the columnar splitter      *)
(* registered with the engine, and the layout of the table's blocks on     *)
(* disk.  DDL runs under the database's exclusive lock, one step per call  *)
(* that can fail; the compaction worker and a crash come between any two.  *)
(***************************************************************************)
EXTENDS Naturals, FiniteSets

CONSTANTS
  SchemaTables,
  Encodable,      \* the tables all of whose column types the splitter knows
  MaxCatalogFaults \* failed writes, failed rewrites and crashes

ASSUME SchemaConstants == Encodable \subseteq SchemaTables /\ MaxCatalogFaults \in Nat

VARIABLES
  memCatalog, \* Database.catalog: "none" or the table's storage mode
  record,     \* its durable entry: "newer" is one of a later format
  splitters,  \* Engine.columnar: the tables with a splitter
  onDisk,     \* the layouts of the table's blocks
  ddl,        \* the statement being executed
  merge,      \* the running compaction: the splitters it works with
  dbState,    \* "down", "opening" or "open"
  catalogFaults,
  apart,      \* history: tables a failed statement or a query left apart
  rewritten   \* history: tables whose ALTER rewrote their blocks

schemaVars == <<memCatalog, record, splitters, onDisk, ddl, merge, dbState,
                catalogFaults, apart, rewritten>>

NoDdl == [op |-> "none"]
NoMerge == [on |-> FALSE]
Modes == {"columnar", "legacy"}

SchemaInit ==
  /\ memCatalog = [t \in SchemaTables |-> "none"]
  /\ record \in [SchemaTables -> {"none", "newer"}]
  /\ splitters = {} /\ apart = {} /\ rewritten = {}
  /\ onDisk = [t \in SchemaTables |-> {}]
  /\ ddl = NoDdl /\ merge = NoMerge
  /\ dbState = "down" /\ catalogFaults = 0

Ready == dbState = "open" /\ ddl = NoDdl

\* A splitter for a columnar table whose column types are all known.
RegisterColumnarIfEnabled(t, mode) ==
  IF mode = "columnar" /\ t \in Encodable THEN splitters \cup {t} ELSE splitters

LayoutWith(regs, t) == IF t \in regs THEN "columnar" ELSE "legacy"

---------------------------------------------------------------------------
(* CREATE TABLE: register, persist, publish. *)
CreateTable(t) ==
  /\ Ready /\ memCatalog[t] = "none"
  /\ splitters' = RegisterColumnarIfEnabled(t, "columnar")
  /\ ddl' = [op |-> "create", tab |-> t, mode |-> "columnar", step |-> "persist"]
  /\ UNCHANGED <<memCatalog, record, onDisk, merge, dbState, catalogFaults, apart,
                 rewritten>>

(* DROP TABLE: unregister, remove, publish; the rows stay. *)
DropTable(t) ==
  /\ Ready /\ memCatalog[t] # "none"
  /\ splitters' = splitters \ {t}
  /\ ddl' = [op |-> "drop", tab |-> t, mode |-> "none", step |-> "persist"]
  /\ UNCHANGED <<memCatalog, record, onDisk, merge, dbState, catalogFaults, apart,
                 rewritten>>

(* ALTER TABLE ... SET STORAGE: (un)register, persist, rewrite, publish. *)
AlterTableSetStorage(t, mode) ==
  /\ Ready /\ memCatalog[t] # "none"
  /\ mode = "columnar" => t \in Encodable
  /\ splitters' = IF mode = "columnar" THEN splitters \cup {t} ELSE splitters \ {t}
  /\ ddl' = [op |-> "alter", tab |-> t, mode |-> mode, step |-> "persist"]
  /\ rewritten' = rewritten \ {t}
  /\ UNCHANGED <<memCatalog, record, onDisk, merge, dbState, catalogFaults, apart>>

\* persist_table_entry and remove_table_entry: durable when they return.
PersistTableEntry ==
  /\ ddl.op # "none" /\ ddl.step = "persist"
  /\ ddl' = [ddl EXCEPT !.step = IF ddl.op = "alter" THEN "rewrite" ELSE "publish"]
  /\ record' = [record EXCEPT ![ddl.tab] = ddl.mode]
  /\ UNCHANGED <<memCatalog, splitters, onDisk, merge, dbState, catalogFaults, apart,
                 rewritten>>

\* An error drops the context with its copy of the catalog.  What the log got
\* of a write that failed may still be read at the next open.
PersistFails ==
  /\ ddl.op # "none" /\ ddl.step = "persist"
  /\ catalogFaults < MaxCatalogFaults
  /\ catalogFaults' = catalogFaults + 1
  /\ ddl' = NoDdl
  /\ record' \in {record, [record EXCEPT ![ddl.tab] = ddl.mode]}
  /\ apart' = apart \cup {ddl.tab}
  /\ rewritten' = rewritten \ {ddl.tab}
  /\ UNCHANGED <<memCatalog, splitters, onDisk, merge, dbState>>

Merged(regs, later, disk) ==
  [t \in SchemaTables |->
     later[t] \cup (IF disk[t] = {} THEN {} ELSE {LayoutWith(regs, t)})]

NoneLater == [t \in SchemaTables |-> {}]

\* A mutant: the rewrite does not wait for a merge under way.
ForceCompactUnlocked ==
  /\ ddl.op # "none" /\ ddl.step = "rewrite"
  /\ onDisk' = Merged(splitters, NoneLater, onDisk)
  /\ ddl' = [ddl EXCEPT !.step = "publish"]
  /\ UNCHANGED <<memCatalog, record, splitters, merge, dbState, catalogFaults, apart,
                 rewritten>>

\* force_compact waits for the compaction lock.
ForceCompact ==
  /\ ddl.op # "none" /\ ddl.step = "rewrite" /\ ~merge.on
  /\ onDisk' = Merged(splitters, NoneLater, onDisk)
  /\ ddl' = [ddl EXCEPT !.step = "publish"]
  /\ UNCHANGED <<memCatalog, record, splitters, merge, dbState, catalogFaults, apart,
                 rewritten>>

RewriteFails ==
  /\ ddl.op # "none" /\ ddl.step = "rewrite" /\ ~merge.on
  /\ catalogFaults < MaxCatalogFaults
  /\ catalogFaults' = catalogFaults + 1
  /\ ddl' = NoDdl
  /\ apart' = apart \cup {ddl.tab}
  /\ UNCHANGED <<memCatalog, record, splitters, onDisk, merge, dbState, rewritten>>

\* dispatch takes the context's catalog back.
Publish ==
  /\ ddl.op # "none" /\ ddl.step = "publish"
  /\ memCatalog' = [memCatalog EXCEPT ![ddl.tab] = ddl.mode]
  /\ apart' = apart \ {ddl.tab}
  /\ rewritten' = IF ddl.op = "alter" THEN rewritten \cup {ddl.tab} ELSE rewritten \ {ddl.tab}
  /\ ddl' = NoDdl
  /\ UNCHANGED <<record, splitters, onDisk, merge, dbState, catalogFaults>>

---------------------------------------------------------------------------
(* Rows, flushes, queries and the compaction worker. *)
\* flush_memtable, of a BACKUP, with the splitters of the moment.  Rows of a
\* dropped table stay in the memtable like any other.
FlushRows(t) ==
  /\ Ready
  /\ memCatalog[t] # "none" \/ onDisk[t] # {}
  /\ onDisk' = [onDisk EXCEPT ![t] = @ \cup {LayoutWith(splitters, t)}]
  /\ merge' = IF merge.on
              THEN [merge EXCEPT !.later[t] = @ \cup {LayoutWith(splitters, t)}] ELSE merge
  /\ UNCHANGED <<memCatalog, record, splitters, ddl, dbState, catalogFaults, apart, rewritten>>

\* run_analytical_sql_blocking registers what it reads, whatever its mode.
AnalyticalScan(t) ==
  /\ Ready /\ memCatalog[t] # "none" /\ t \in Encodable
  /\ splitters' = splitters \cup {t}
  /\ apart' = IF t \in splitters THEN apart ELSE apart \cup {t}
  /\ rewritten' = IF t \in splitters THEN rewritten ELSE rewritten \ {t}
  /\ UNCHANGED <<memCatalog, record, onDisk, ddl, merge, dbState, catalogFaults>>

\* maybe_compact holds the compaction lock, and the splitters it read.
CompactBegin ==
  /\ dbState # "down" /\ ~merge.on
  /\ merge' = [on |-> TRUE, regs |-> splitters, later |-> NoneLater,
               early |-> dbState = "opening"]
  /\ UNCHANGED <<memCatalog, record, splitters, onDisk, ddl, dbState, catalogFaults,
                 apart, rewritten>>

CompactCommit ==
  /\ merge.on
  /\ onDisk' = Merged(merge.regs, merge.later, onDisk)
  /\ merge' = NoMerge
  /\ rewritten' = IF merge.early THEN {} ELSE rewritten
  /\ UNCHANGED <<memCatalog, record, splitters, ddl, dbState, catalogFaults, apart>>

---------------------------------------------------------------------------
(* Crash and open. *)
CatalogCrash ==
  /\ dbState # "down" /\ catalogFaults < MaxCatalogFaults
  /\ catalogFaults' = catalogFaults + 1
  /\ dbState' = "down" /\ ddl' = NoDdl /\ merge' = NoMerge
  /\ memCatalog' = [t \in SchemaTables |-> "none"]
  /\ splitters' = {} /\ apart' = {}
  /\ rewritten' = IF ddl = NoDdl THEN rewritten ELSE rewritten \ {ddl.tab}
  /\ UNCHANGED <<record, onDisk>>

\* Engine::new and start_background_compaction: no splitter is registered yet.
OpenEngine ==
  /\ dbState = "down" /\ dbState' = "opening"
  /\ UNCHANGED <<memCatalog, record, splitters, onDisk, ddl, merge, catalogFaults,
                 apart, rewritten>>

\* A record of a later format refuses the open.
LoadAll ==
  /\ dbState = "opening"
  /\ IF \E t \in SchemaTables : record[t] = "newer"
     THEN dbState' = "down" /\ merge' = NoMerge /\ UNCHANGED <<memCatalog, splitters>>
     ELSE /\ dbState' = "open"
          /\ memCatalog' = record
          /\ splitters' = {t \in Encodable : record[t] = "columnar"}
          /\ UNCHANGED merge
  /\ UNCHANGED <<record, onDisk, ddl, catalogFaults, apart, rewritten>>

SchemaNext ==
  \/ \E t \in SchemaTables :
       \/ CreateTable(t) \/ DropTable(t) \/ FlushRows(t) \/ AnalyticalScan(t)
       \/ \E mode \in Modes : AlterTableSetStorage(t, mode)
  \/ PersistTableEntry \/ PersistFails \/ ForceCompact \/ RewriteFails \/ Publish
  \/ CompactBegin \/ CompactCommit
  \/ CatalogCrash \/ OpenEngine \/ LoadAll

SchemaSpec == SchemaInit /\ [][SchemaNext]_schemaVars

---------------------------------------------------------------------------
(* Between statements the in-memory catalog is the persisted one, through  *)
(* every crash and reopen, and a table has a splitter exactly when its     *)
(* mode asks for one; a table whose ALTER ... SET STORAGE succeeded has    *)
(* all its blocks in that layout as long as no rows are flushed by a later *)
(* mode, whatever merge was running meanwhile.  Not claimed for a table    *)
(* whose last DDL failed half-way (memory keeps the old entry, the record  *)
(* or the splitter is already the new one), for a legacy table an          *)
(* analytical query has registered, and for layouts after a merge that     *)
(* began before open had registered the splitters.                         *)
SchemaAgreesUnlessHalfDone ==
  Ready =>
    \A t \in SchemaTables \ apart :
      /\ memCatalog[t] = record[t]
      /\ (t \in splitters) <=> (memCatalog[t] = "columnar" /\ t \in Encodable)
      /\ t \in rewritten => onDisk[t] \subseteq {LayoutWith(splitters, t)}
=============================================================================
