------------------------- MODULE DatabaseProofs -----------------------------
(***************************************************************************)
(* Proofs about the schema catalog, for any set of tables and any number of*)
(* failures and crashes; vector tables, for any rows and phrases; and      *)
(* training, whose version tag stays the snapshot it was created from,     *)
(* whose dataset holds the rows of the tag and their vectors, and whose    *)
(* lineage table leads to the datasets.                                    *)
(***************************************************************************)
EXTENDS SchemaCatalog, VectorTable, Training, WellFoundedInduction, TLAPS

\* What handing out ids in order rests on: a counter only grows.
LEMMA Counting ==
    /\ \A a \in Nat : a + 1 \in Nat /\ a < a + 1
    /\ \A a, b \in Nat : a < b => a # b /\ a < b + 1
OBVIOUS

-----------------------------------------------------------------------------
(* SchemaCatalog                                                           *)

Layouts == {"columnar", "legacy"}
Entries == {"none", "newer"} \cup Modes
Statement == [op : {"create", "drop", "alter"}, tab : SchemaTables,
              mode : {"none"} \cup Modes, step : {"persist", "rewrite", "publish"}]
Merging == [on : {TRUE}, regs : SUBSET Encodable,
            later : [SchemaTables -> SUBSET Layouts], early : BOOLEAN]

\* The state's types.
ScTypeOK ==
  /\ memCatalog \in [SchemaTables -> Entries] /\ record \in [SchemaTables -> Entries]
  /\ splitters \subseteq Encodable
  /\ onDisk \in [SchemaTables -> SUBSET Layouts]
  /\ ddl = NoDdl \/ ddl \in Statement
  /\ merge = NoMerge \/ merge \in Merging
  /\ dbState \in {"down", "opening", "open"}
  /\ apart \subseteq SchemaTables /\ rewritten \subseteq SchemaTables

\* The statement in progress is about table t.
InDdl(t) == ddl # NoDdl /\ ddl.tab = t

\* The durable record asks for a splitter.
Wanted(t) == record[t] = "columnar" /\ t \in Encodable

WantedLayout(t) == IF Wanted(t) THEN "columnar" ELSE "legacy"

\* A closed database has no splitter and no statement; the worker runs only
\* once the engine is open.
Closed ==
  /\ dbState # "open" => ddl = NoDdl /\ splitters = {} /\ apart = {}
  /\ dbState = "down" => merge = NoMerge

\* A table no statement is about, and none has left apart, agrees.
Agree ==
  dbState = "open" =>
    \A t \in SchemaTables \ apart :
      ~InDdl(t) => memCatalog[t] = record[t] /\ (t \in splitters <=> Wanted(t))

\* How far the statement in progress has come.
Progress ==
  ddl # NoDdl =>
    /\ ddl.tab \in splitters <=> (ddl.mode = "columnar" /\ ddl.tab \in Encodable)
    /\ ddl.step # "persist" => record[ddl.tab] = ddl.mode
    /\ ddl.step = "rewrite" => ddl.op = "alter"
    /\ ddl.op = "alter" => ddl.tab \notin rewritten

\* The tables whose blocks all have the layout the record asks for.
Settled(t) ==
  \/ t \in rewritten /\ ~InDdl(t)
  \/ InDdl(t) /\ ddl.op = "alter" /\ ddl.step = "publish"

\* Their blocks, and what the merge under way will make of them: a merge that
\* began before the splitters were registered takes them all back.
Layout ==
  /\ apart \cap rewritten = {}
  /\ merge # NoMerge => \A t \in SchemaTables : merge.later[t] \subseteq onDisk[t]
  /\ \A t \in SchemaTables : Settled(t) =>
       /\ onDisk[t] \subseteq {WantedLayout(t)}
       /\ merge # NoMerge /\ ~merge.early => (t \in merge.regs <=> Wanted(t))
       /\ InDdl(t) /\ merge # NoMerge => ~merge.early

ScInv == ScTypeOK /\ Closed /\ Agree /\ Progress /\ Layout

----------------------------------------------------------------------------
\* A database that has never been opened satisfies the invariant.
LEMMA ScInitInv == SchemaInit => ScInv
<1> USE DEF SchemaInit
<1>1. SchemaInit => ScTypeOK
  BY Zenon DEF ScTypeOK, Entries, Modes, Layouts
<1>2. SchemaInit => Closed /\ Agree /\ Progress /\ Layout
  BY Zenon DEF Closed, Agree, Progress, Layout, Settled, InDdl
<1>3. QED
  BY <1>1, <1>2, Zenon DEF ScInv

\* What the guards on ddl and merge say of a state of the invariant.
LEMMA Shapes ==
  ASSUME ScTypeOK
  PROVE  /\ ddl.op # "none" <=> ddl # NoDdl
         /\ ddl # NoDdl => ddl \in Statement
         /\ merge.on <=> merge # NoMerge
         /\ merge # NoMerge => merge \in Merging
<1>1. ddl = NoDdl => ddl.op = "none"
  BY DEF NoDdl
<1>2. ddl \in Statement => ddl.op # "none"
  BY Zenon DEF Statement
<1>3. merge = NoMerge => merge.on = FALSE
  BY DEF NoMerge
<1>4. merge \in Merging => merge.on = TRUE
  BY Zenon DEF Merging
<1>5. QED
  BY <1>1, <1>2, <1>3, <1>4, Zenon DEF ScTypeOK

\* Every step keeps it.
LEMMA ScStepInv == ScInv /\ [SchemaNext]_schemaVars => ScInv'
<1> SUFFICES ASSUME ScInv, [SchemaNext]_schemaVars PROVE ScInv'
  BY Zenon
<1> USE SchemaConstants, Shapes DEF ScInv
<1>1. CASE UNCHANGED schemaVars
  BY <1>1 DEF schemaVars, ScTypeOK, Closed, Agree, Progress, Layout, Settled, InDdl,
                        Wanted,
              WantedLayout
<1>2. ASSUME NEW t \in SchemaTables, CreateTable(t) PROVE ScInv'
  <2>1. ScTypeOK'
    BY <1>2, Zenon DEF ScTypeOK, CreateTable, NoDdl, RegisterColumnarIfEnabled, Ready,
                       Statement, Merging, Entries, Modes, Layouts
  <2>2. Closed'
    BY <1>2, Zenon DEF ScTypeOK, Closed, CreateTable, NoDdl, RegisterColumnarIfEnabled, Ready
  <2>3. Agree'
    BY <1>2, Zenon DEF ScTypeOK, Closed, Agree, Progress, InDdl, Wanted, CreateTable, NoDdl,
                RegisterColumnarIfEnabled, Ready, Statement, Modes
  <2>4. Progress'
    BY <1>2, Zenon DEF ScTypeOK, Closed, Agree, Progress, InDdl, Wanted, CreateTable, NoDdl,
                RegisterColumnarIfEnabled, Ready, Statement, Modes
  <2>5. Layout'
    BY <1>2, Zenon DEF ScTypeOK, Closed, Agree, Progress, Layout, Settled, InDdl, Wanted,
      WantedLayout, CreateTable, NoDdl, RegisterColumnarIfEnabled, Ready, Statement, Merging, Modes
  <2>6. QED
    BY <2>1, <2>2, <2>3, <2>4, <2>5, Zenon
<1>3. ASSUME NEW t \in SchemaTables, DropTable(t) PROVE ScInv'
  <2>1. ScTypeOK'
    BY <1>3, Zenon DEF ScTypeOK, DropTable, Ready, Statement, Merging, Entries, Modes, Layouts
  <2>2. Closed'
    BY <1>3, Zenon DEF ScTypeOK, Closed, DropTable, Ready
  <2>3. Agree'
    BY <1>3 DEF ScTypeOK, Closed, Agree, Progress, InDdl, Wanted, DropTable, Ready, Statement,
                Modes
  <2>4. Progress'
    BY <1>3, Zenon DEF ScTypeOK, Closed, Agree, Progress, InDdl, Wanted, DropTable, Ready,
                       Statement,
                Modes
  <2>5. Layout'
    BY <1>3, Zenon DEF ScTypeOK, Closed, Agree, Progress, Layout, Settled, InDdl, Wanted,
      WantedLayout, DropTable, Ready, Statement, Merging, Modes
  <2>6. QED
    BY <2>1, <2>2, <2>3, <2>4, <2>5, Zenon
<1>4. ASSUME NEW t \in SchemaTables, FlushRows(t) PROVE ScInv'
  <2>1. ScTypeOK'
    BY <1>4, Zenon DEF ScTypeOK, FlushRows, Ready, LayoutWith, Statement, Merging, Entries,
                       Modes, Layouts
  <2>2. Closed'
    BY <1>4, Zenon DEF ScTypeOK, Closed, FlushRows, Ready, LayoutWith
  <2>3. Agree'
    BY <1>4, Zenon DEF ScTypeOK, Closed, Agree, Progress, InDdl, Wanted, FlushRows, Ready,
                LayoutWith, Statement, Modes
  <2>4. Progress'
    BY <1>4, Zenon DEF ScTypeOK, Closed, Agree, Progress, InDdl, Wanted, FlushRows, Ready,
                LayoutWith, Statement, Modes
  <2>5. Layout'
    <3>1. ddl = NoDdl /\ ddl' = NoDdl /\ dbState = "open"
      BY <1>4, Zenon DEF FlushRows, Ready
    <3>2. \A u \in SchemaTables : Settled(u)' => Settled(u) /\ u \in rewritten
      BY <1>4, <3>1, Zenon DEF Settled, InDdl, FlushRows
    <3>3. Settled(t) => LayoutWith(splitters, t) = WantedLayout(t)
      BY <3>1, Zenon DEF Settled, InDdl, Agree, Layout, LayoutWith, WantedLayout
    <3>4. \A u \in SchemaTables :
            onDisk'[u] = IF u = t THEN onDisk[u] \cup {LayoutWith(splitters, t)} ELSE onDisk[u]
      BY <1>4, Zenon DEF ScTypeOK, FlushRows
    <3>5. merge # NoMerge =>
            /\ merge'.regs = merge.regs /\ merge'.early = merge.early
            /\ merge'.later = [merge.later EXCEPT ![t] = @ \cup {LayoutWith(splitters, t)}]
      BY <1>4, Zenon DEF FlushRows, Merging
    <3>6. merge' # NoMerge => merge # NoMerge
      BY <1>4, Zenon DEF FlushRows
    <3>7. merge' # NoMerge => \A u \in SchemaTables : merge'.later[u] \subseteq onDisk'[u]
      <4> SUFFICES ASSUME merge # NoMerge, NEW u \in SchemaTables
                   PROVE  merge'.later[u] \subseteq onDisk'[u]
        BY <3>6, Zenon
      <4>1. merge.later \in [SchemaTables -> SUBSET Layouts]
        BY Zenon DEF Merging
      <4>2. merge.later[u] \subseteq onDisk[u]
        BY Zenon DEF Layout
      <4>3. QED
        BY <3>4, <3>5, <4>1, <4>2, Zenon
    <3>8. QED
      BY <1>4, <3>1, <3>2, <3>3, <3>4, <3>5, <3>6, <3>7
      DEF Layout, InDdl, Wanted, WantedLayout, FlushRows
  <2>6. QED
    BY <2>1, <2>2, <2>3, <2>4, <2>5, Zenon
<1>5. ASSUME NEW t \in SchemaTables, AnalyticalScan(t) PROVE ScInv'
  <2>1. ScTypeOK'
    BY <1>5, Zenon DEF ScTypeOK, AnalyticalScan, Ready, Statement, Merging, Entries, Modes,
                       Layouts
  <2>2. Closed'
    BY <1>5, Zenon DEF ScTypeOK, Closed, AnalyticalScan, Ready
  <2>3. Agree'
    BY <1>5, Zenon DEF ScTypeOK, Closed, Agree, Progress, InDdl, Wanted, AnalyticalScan, Ready,
                Statement, Modes
  <2>4. Progress'
    BY <1>5, Zenon DEF ScTypeOK, Closed, Agree, Progress, InDdl, Wanted, AnalyticalScan, Ready,
                Statement, Modes
  <2>5. Layout'
    BY <1>5 DEF ScTypeOK, Closed, Agree, Progress, Layout, Settled, InDdl, Wanted,
      WantedLayout, AnalyticalScan, Ready, Statement, Merging, Modes
  <2>6. QED
    BY <2>1, <2>2, <2>3, <2>4, <2>5, Zenon
<1>6. ASSUME NEW t \in SchemaTables, NEW mode \in Modes, AlterTableSetStorage(t, mode) PROVE ScInv'
  <2>1. ScTypeOK'
    BY <1>6, Zenon DEF ScTypeOK, AlterTableSetStorage, Ready, Statement, Merging, Entries,
                       Modes, Layouts
  <2>2. Closed'
    BY <1>6, Zenon DEF ScTypeOK, Closed, AlterTableSetStorage, Ready
  <2>3. Agree'
    BY <1>6, SMTT(30) DEF ScTypeOK, Closed, Agree, Progress, InDdl, Wanted, AlterTableSetStorage,
                          Ready,
                Statement, Modes
  <2>4. Progress'
    BY <1>6, Zenon DEF ScTypeOK, Closed, Agree, Progress, InDdl, Wanted, AlterTableSetStorage,
                       Ready,
                Statement, Modes
  <2>5. Layout'
    BY <1>6 DEF ScTypeOK, Closed, Agree, Progress, Layout, Settled, InDdl, Wanted,
      WantedLayout, AlterTableSetStorage, Ready, Statement, Merging, Modes
  <2>6. QED
    BY <2>1, <2>2, <2>3, <2>4, <2>5, Zenon
<1>7. ASSUME PersistTableEntry PROVE ScInv'
  <2>0. /\ ddl \in Statement /\ ddl' \in Statement /\ ddl # NoDdl /\ ddl' # NoDdl
        /\ ddl'.tab = ddl.tab /\ ddl'.op = ddl.op /\ ddl'.mode = ddl.mode
        /\ ddl'.step = IF ddl.op = "alter" THEN "rewrite" ELSE "publish"
    BY <1>7, Zenon DEF ScTypeOK, PersistTableEntry, Statement, NoDdl
  <2>1. ScTypeOK'
    BY <1>7, Zenon DEF ScTypeOK, PersistTableEntry, Statement, Merging, Entries, Modes, Layouts
  <2>2. Closed'
    BY <1>7, Zenon DEF ScTypeOK, Closed, PersistTableEntry
  <2>3. Agree'
    BY <1>7, <2>0 DEF ScTypeOK, Agree, InDdl, Wanted, PersistTableEntry, Statement
  <2>4. Progress'
    BY <1>7, Zenon DEF ScTypeOK, Closed, Agree, Progress, InDdl, Wanted, PersistTableEntry,
                Statement, Modes
  <2>5. Layout'
    <3>1. \A t \in SchemaTables : Settled(t)' => Settled(t) /\ ~InDdl(t) /\ ~InDdl(t)'
      BY <1>7, <2>0 DEF Settled, InDdl, PersistTableEntry
    <3>2. \A t \in SchemaTables : ~InDdl(t) => record'[t] = record[t]
      BY <1>7, <2>0, Zenon DEF ScTypeOK, InDdl, PersistTableEntry
    <3>3. QED
      BY <1>7, <3>1, <3>2, Zenon DEF Layout, Wanted, WantedLayout, PersistTableEntry
  <2>6. QED
    BY <2>1, <2>2, <2>3, <2>4, <2>5, Zenon
<1>8. ASSUME PersistFails PROVE ScInv'
  <2>0. ddl \in Statement /\ ddl # NoDdl
    BY <1>8, Zenon DEF PersistFails
  <2>1. ScTypeOK'
    <3>1. ddl.mode \in Entries /\ ddl.tab \in SchemaTables
      BY <2>0, Zenon DEF Statement, Entries
    <3>2. record' \in [SchemaTables -> Entries]
      BY <1>8, <3>1, Zenon DEF ScTypeOK, PersistFails
    <3>3. QED
      BY <1>8, <3>1, <3>2, Zenon DEF ScTypeOK, PersistFails
  <2>2. Closed'
    BY <1>8, Zenon DEF ScTypeOK, Closed, PersistFails
  <2>3. Agree'
    BY <1>8 DEF ScTypeOK, Closed, Agree, Progress, InDdl, Wanted, PersistFails, Statement, Modes
  <2>4. Progress'
    BY <1>8, Zenon DEF ScTypeOK, Closed, Agree, Progress, InDdl, Wanted, PersistFails, Statement,
                       Modes
  <2>5. Layout'
    BY <1>8, SMTT(30) DEF ScTypeOK, Closed, Agree, Progress, Layout, Settled, InDdl, Wanted,
      WantedLayout, PersistFails, Statement, Merging, Modes
  <2>6. QED
    BY <2>1, <2>2, <2>3, <2>4, <2>5, Zenon
<1>9. ASSUME ForceCompact PROVE ScInv'
  <2>0. /\ ddl \in Statement /\ ddl' \in Statement /\ ddl # NoDdl /\ ddl' # NoDdl
        /\ ddl'.tab = ddl.tab /\ ddl'.op = ddl.op /\ ddl'.mode = ddl.mode
        /\ ddl.step = "rewrite" /\ ddl'.step = "publish"
    BY <1>9, Zenon DEF ScTypeOK, ForceCompact, Statement, NoDdl
  <2>1. ScTypeOK'
    BY <1>9, Zenon DEF ScTypeOK, ForceCompact, Merged, NoneLater, LayoutWith, Statement,
                       Merging, Entries, Modes, Layouts
  <2>2. Closed'
    BY <1>9, Zenon DEF ScTypeOK, Closed, ForceCompact, Merged, NoneLater, LayoutWith
  <2>3. Agree'
    BY <1>9, <2>0, Zenon DEF Agree, InDdl, Wanted, ForceCompact
  <2>4. Progress'
    BY <1>9, Zenon DEF ScTypeOK, Closed, Agree, Progress, InDdl, Wanted, ForceCompact, Merged,
                NoneLater, LayoutWith, Statement, Modes
  <2>5. Layout'
    <3>1. merge = NoMerge /\ merge' = NoMerge
      BY <1>9, Zenon DEF ForceCompact
    <3>2. \A t \in SchemaTables : onDisk'[t] \subseteq {LayoutWith(splitters, t)}
      BY <1>9, Zenon DEF ForceCompact, Merged, NoneLater
    <3>3. \A t \in SchemaTables : Settled(t)' => (t \in splitters <=> Wanted(t))
      <4> SUFFICES ASSUME NEW t \in SchemaTables, Settled(t)'
                   PROVE  t \in splitters <=> Wanted(t)
        BY Zenon
      <4>1. CASE t = ddl.tab
        BY <4>1, <2>0, Zenon DEF Progress, Wanted
      <4>2. CASE t # ddl.tab
        <5>1. t \in rewritten /\ ~InDdl(t) /\ dbState = "open"
          BY <1>9, <4>2, <2>0, Zenon DEF Settled, InDdl, Closed, ForceCompact
        <5>2. QED
          BY <5>1, Zenon DEF Agree, Layout
      <4>3. QED
        BY <4>1, <4>2, Zenon
    <3>4. QED
      BY <1>9, <3>1, <3>2, <3>3, Zenon DEF Layout, Wanted, WantedLayout, LayoutWith, ForceCompact
  <2>6. QED
    BY <2>1, <2>2, <2>3, <2>4, <2>5, Zenon
<1>10. ASSUME RewriteFails PROVE ScInv'
  <2>1. ScTypeOK'
    BY <1>10, Zenon DEF ScTypeOK, RewriteFails, Statement, Merging, Entries, Modes, Layouts
  <2>2. Closed'
    BY <1>10, Zenon DEF ScTypeOK, Closed, RewriteFails
  <2>3. Agree'
    BY <1>10, Zenon DEF ScTypeOK, Closed, Agree, Progress, InDdl, Wanted, RewriteFails, Statement,
                 Modes
  <2>4. Progress'
    BY <1>10, Zenon DEF ScTypeOK, Closed, Agree, Progress, InDdl, Wanted, RewriteFails, Statement,
                 Modes
  <2>5. Layout'
    <3>1. merge = NoMerge /\ merge' = NoMerge /\ ddl' = NoDdl
      BY <1>10, Zenon DEF RewriteFails
    <3>2. ddl # NoDdl /\ ddl.tab \notin rewritten
      BY <1>10, Zenon DEF Progress, RewriteFails
    <3>3. \A t \in SchemaTables : Settled(t)' => Settled(t)
      BY <1>10, <3>1, <3>2, Zenon DEF Settled, InDdl, RewriteFails
    <3>4. QED
      BY <1>10, <3>1, <3>2, <3>3, Zenon DEF Layout, InDdl, Wanted, WantedLayout, RewriteFails
  <2>6. QED
    BY <2>1, <2>2, <2>3, <2>4, <2>5, Zenon
<1>11. ASSUME Publish PROVE ScInv'
  <2>1. ScTypeOK'
    BY <1>11, Zenon DEF ScTypeOK, Publish, Statement, Merging, Entries, Modes, Layouts
  <2>2. Closed'
    BY <1>11, Zenon DEF ScTypeOK, Closed, Publish
  <2>3. Agree'
    BY <1>11 DEF ScTypeOK, Closed, Agree, Progress, InDdl, Wanted, Publish, Statement, Modes
  <2>4. Progress'
    BY <1>11, Zenon DEF ScTypeOK, Closed, Agree, Progress, InDdl, Wanted, Publish, Statement, Modes
  <2>5. Layout'
    <3>1. ddl \in Statement /\ ddl # NoDdl /\ ddl' = NoDdl
      BY <1>11, Zenon DEF Publish
    <3>2. \A t \in SchemaTables : Settled(t)' => Settled(t) /\ ~InDdl(t)'
      BY <1>11, <3>1, Zenon DEF Settled, InDdl, Publish
    <3>3. (apart \cap rewritten = {})'
      BY <1>11, Zenon DEF Layout, Publish
    <3>4. QED
      BY <1>11, <3>2, <3>3, Zenon DEF Layout, Wanted, WantedLayout, Publish
  <2>6. QED
    BY <2>1, <2>2, <2>3, <2>4, <2>5, Zenon
<1>12. ASSUME CompactBegin PROVE ScInv'
  <2>1. ScTypeOK'
    BY <1>12, Zenon DEF ScTypeOK, CompactBegin, NoneLater, Statement, Merging, Entries, Modes,
                        Layouts
  <2>2. Closed'
    BY <1>12, Zenon DEF ScTypeOK, Closed, CompactBegin, NoneLater
  <2>3. Agree'
    BY <1>12, Zenon DEF ScTypeOK, Closed, Agree, Progress, InDdl, Wanted, CompactBegin, NoneLater,
                 Statement, Modes
  <2>4. Progress'
    BY <1>12, Zenon DEF ScTypeOK, Closed, Agree, Progress, InDdl, Wanted, CompactBegin, NoneLater,
                 Statement, Modes
  <2>5. Layout'
    <3>1. /\ merge' # NoMerge /\ merge'.regs = splitters /\ merge'.later = NoneLater
          /\ merge'.early <=> dbState = "opening"
      BY <1>12, Zenon DEF CompactBegin, NoMerge
    <3>2. \A t \in SchemaTables : Settled(t)' => Settled(t)
      BY <1>12, Zenon DEF Settled, InDdl, CompactBegin
    <3>3. \A t \in SchemaTables : Settled(t) /\ dbState = "open" => (t \in splitters <=> Wanted(t))
      BY Zenon DEF Settled, InDdl, Agree, Progress, Layout, Wanted
    <3>4. dbState \in {"opening", "open"} /\ (ddl # NoDdl => dbState = "open")
      BY <1>12, Zenon DEF CompactBegin, Closed, ScTypeOK
    <3>5. QED
      BY <1>12, <3>1, <3>2, <3>3, <3>4, Zenon
         DEF Layout, InDdl, Wanted, WantedLayout, NoneLater, CompactBegin
  <2>6. QED
    BY <2>1, <2>2, <2>3, <2>4, <2>5, Zenon
<1>13. ASSUME CompactCommit PROVE ScInv'
  <2>1. ScTypeOK'
    BY <1>13, Zenon DEF ScTypeOK, CompactCommit, Merged, LayoutWith, Statement, Merging,
                        Entries, Modes, Layouts
  <2>2. Closed'
    BY <1>13, Zenon DEF ScTypeOK, Closed, CompactCommit, Merged, LayoutWith
  <2>3. Agree'
    BY <1>13, Zenon DEF ScTypeOK, Closed, Agree, Progress, InDdl, Wanted, CompactCommit, Merged,
                 LayoutWith, Statement, Modes
  <2>4. Progress'
    BY <1>13, Zenon DEF ScTypeOK, Closed, Agree, Progress, InDdl, Wanted, CompactCommit, Merged,
                 LayoutWith, Statement, Modes
  <2>5. Layout'
    BY <1>13, ZenonT(60) DEF ScTypeOK, Closed, Agree, Progress, Layout, Settled, InDdl, Wanted,
      WantedLayout, CompactCommit, Merged, LayoutWith, Statement, Merging, Modes
  <2>6. QED
    BY <2>1, <2>2, <2>3, <2>4, <2>5, Zenon
<1>14. ASSUME CatalogCrash PROVE ScInv'
  <2>1. ScTypeOK'
    BY <1>14, Zenon DEF ScTypeOK, CatalogCrash, Statement, Merging, Entries, Modes, Layouts
  <2>2. Closed'
    BY <1>14, Zenon DEF ScTypeOK, Closed, CatalogCrash
  <2>3. Agree'
    BY <1>14, Zenon DEF ScTypeOK, Closed, Agree, Progress, InDdl, Wanted, CatalogCrash, Statement,
                 Modes
  <2>4. Progress'
    BY <1>14, Zenon DEF ScTypeOK, Closed, Agree, Progress, InDdl, Wanted, CatalogCrash, Statement,
                 Modes
  <2>5. Layout'
    BY <1>14 DEF ScTypeOK, Closed, Agree, Progress, Layout, Settled, InDdl, Wanted,
      WantedLayout, CatalogCrash, Statement, Merging, Modes
  <2>6. QED
    BY <2>1, <2>2, <2>3, <2>4, <2>5, Zenon
<1>15. ASSUME OpenEngine PROVE ScInv'
  <2>1. ScTypeOK'
    BY <1>15, Zenon DEF ScTypeOK, OpenEngine, Statement, Merging, Entries, Modes, Layouts
  <2>2. Closed'
    BY <1>15, Zenon DEF ScTypeOK, Closed, OpenEngine
  <2>3. Agree'
    BY <1>15, Zenon DEF ScTypeOK, Closed, Agree, Progress, InDdl, Wanted, OpenEngine, Statement,
                        Modes
  <2>4. Progress'
    BY <1>15, Zenon DEF ScTypeOK, Closed, Agree, Progress, InDdl, Wanted, OpenEngine, Statement,
                        Modes
  <2>5. Layout'
    BY <1>15, Zenon DEF ScTypeOK, Closed, Agree, Progress, Layout, Settled, InDdl, Wanted,
      WantedLayout, OpenEngine, Statement, Merging, Modes
  <2>6. QED
    BY <2>1, <2>2, <2>3, <2>4, <2>5, Zenon
<1>16. ASSUME LoadAll PROVE ScInv'
  <2>1. ScTypeOK'
    BY <1>16, ZenonT(60) DEF ScTypeOK, LoadAll, Statement, Merging, Entries, Modes, Layouts
  <2>2. Closed'
    BY <1>16, Zenon DEF ScTypeOK, Closed, LoadAll
  <2>3. Agree'
    BY <1>16, Zenon DEF ScTypeOK, Closed, Agree, Progress, InDdl, Wanted, LoadAll, Statement, Modes
  <2>4. Progress'
    BY <1>16, Zenon DEF ScTypeOK, Closed, Agree, Progress, InDdl, Wanted, LoadAll, Statement, Modes
  <2>5. Layout'
    BY <1>16, Zenon DEF ScTypeOK, Closed, Agree, Progress, Layout, Settled, InDdl, Wanted,
      WantedLayout, LoadAll, Statement, Merging, Modes
  <2>6. QED
    BY <2>1, <2>2, <2>3, <2>4, <2>5, Zenon
<1>17. QED
  BY <1>1, <1>2, <1>3, <1>4, <1>5, <1>6, <1>7, <1>8, <1>9, <1>10, <1>11, <1>12, <1>13,
     <1>14, <1>15, <1>16, Zenon
     DEF SchemaNext

\* For any set of tables, and through any number of failed writes, failed
\* rewrites and crashes: between statements the catalog in memory, its durable
\* record, the splitters and the layout of rewritten blocks agree, for every
\* table no failed statement or analytical query has left apart (executor.rs,
\* catalog_store.rs, Database::open).
THEOREM SchemaAgrees == SchemaSpec => []SchemaAgreesUnlessHalfDone
<1>1. ScInv => SchemaAgreesUnlessHalfDone
  BY Zenon DEF ScInv, Agree, Layout, Settled, InDdl, Wanted, WantedLayout, LayoutWith, Ready,
         SchemaAgreesUnlessHalfDone
<1>2. QED
  BY <1>1, ScInitInv, ScStepInv, PTL DEF SchemaSpec

-----------------------------------------------------------------------------
(* VectorTable                                                             *)

VtWriting == [pc : {"embed", "add", "unmap", "tombstone"}, doc : Docs,
              phrase : Phrases \cup {NoText}]

\* The state's types; a closed database runs no statement and no search.
VtTypeOK ==
  /\ text \in [Docs -> Phrases \cup {NoText}]
  /\ DOMAIN delta = Docs /\ DOMAIN vector = Docs
  /\ write \in [Writers -> VtWriting \cup {NoWrite}]
  /\ DOMAIN search = Searchers
  /\ ~open => AllIdle

\* A result that is found and not stored yet, or stored, is what the search
\* would return now.
Current ==
  /\ \A s \in Searchers : search[s].pc = "store" => search[s].found = Found(search[s].phrase)
  /\ \A e \in cache : e.found = Found(e.phrase)

\* The vectors of a row that no statement is changing.
Follows(d) ==
  /\ vector[d] = text[d] /\ delta[d] = {text[d]} \ {NoText}
  /\ text[d] # NoText => d \notin tomb
\* The vectors of a row while the statement of writer w is changing them.
Catching(w, d) ==
  /\ write[w].pc \in {"embed", "add"} =>
       /\ write[w].phrase = text[d] /\ text[d] # NoText
       /\ delta[d] \subseteq {text[d]}
  /\ write[w].pc \in {"unmap", "tombstone"} =>
       /\ text[d] = NoText
       /\ delta[d] = {vector[d]} \ {NoText}

\* A row that is not adrift has one statement on it at most, and its vectors
\* are as far as that statement has come.
Followed ==
  open => \A d \in Docs \ adrift :
    /\ ~Busy(d) => Follows(d)
    /\ \A w \in Writers : write[w].pc # "idle" /\ write[w].doc = d =>
         /\ Catching(w, d)
         /\ \A v \in Writers \ {w} : write[v].pc = "idle" \/ write[v].doc # d

VtInv == VtTypeOK /\ Current /\ Followed

----------------------------------------------------------------------------
\* An empty table satisfies the invariant.
LEMMA VtInitInv == VtInit => VtInv
BY DEF VtInit, VtInv, VtTypeOK, Current, Followed, Follows, Catching, Nothing, NoWrite, NoSearch,
       AllIdle, ReadLocked, Busy

\* A durable write of a row: the vectors are behind, unless the row is adrift.
LEMMA PutInv ==
  ASSUME VtInv, NEW w \in Writers, NEW d \in Docs, NEW t \in Phrases \cup {NoText},
         NEW pc \in {"embed", "unmap"}, PutText(w, d, t, pc),
         pc = "embed" <=> t # NoText,
         adrift \subseteq adrift', Busy(d) => d \in adrift',
         d \notin adrift' => t = text[d] \/ t = NoText \/ text[d] = NoText
  PROVE  VtInv'
<1> USE DEF PutText, SetWrite
<1>1. write[w] = NoWrite /\ open
  BY Zenon DEF VtInv, VtTypeOK, VtWriting, NoWrite
<1>2. write' = [write EXCEPT ![w] = [pc |-> pc, doc |-> d, phrase |-> t]]
      /\ text' = [text EXCEPT ![d] = t]
      /\ UNCHANGED <<delta, tomb, vector, cache, search, open>>
  BY Zenon
<1>3. VtTypeOK'
  BY <1>1, <1>2 DEF VtInv, VtTypeOK, VtWriting
<1>4. Current'
  BY <1>2 DEF VtInv, Current, Found
<1>5. ASSUME NEW e \in Docs \ adrift'
      PROVE  /\ ~Busy(e)' => Follows(e)'
             /\ \A u \in Writers : write'[u].pc # "idle" /\ write'[u].doc = e =>
                  /\ Catching(u, e)'
                  /\ \A v \in Writers \ {u} : write'[v].pc = "idle" \/ write'[v].doc # e
  <2>1. CASE e = d
    <3>1. ~Busy(d) /\ Follows(d)
      BY <1>1, <2>1, Zenon DEF VtInv, Followed
    <3>2. \A v \in Writers \ {w} : write'[v].pc = "idle" \/ write'[v].doc # d
      BY <1>2, <3>1, Zenon DEF Busy, VtInv, VtTypeOK
    <3>3. write'[w] = [pc |-> pc, doc |-> d, phrase |-> t]
      BY <1>2, Zenon DEF VtInv, VtTypeOK
    <3>4. Catching(w, d)'
      BY <1>2, <2>1, <3>1, <3>3, SMTT(30) DEF Catching, Follows, VtInv, VtTypeOK
    <3>5. Busy(d)'
      BY <3>3 DEF Busy
    <3>6. QED
      BY <2>1, <3>2, <3>3, <3>4, <3>5, Zenon
  <2>2. CASE e # d
    <3>1. \A u \in Writers : u # w => write'[u] = write[u]
      BY <1>2, Zenon DEF VtInv, VtTypeOK
    <3>2. write'[w].doc # e /\ text'[e] = text[e]
      BY <1>2, <2>2 DEF VtInv, VtTypeOK
    <3>3. Busy(e)' <=> Busy(e)
      BY <1>1, <3>1, <3>2, Zenon DEF Busy, NoWrite
    <3>4. e \notin adrift
      BY Zenon
    <3>5. QED
      BY <1>1, <1>2, <3>1, <3>2, <3>3, <3>4, SMTT(30) DEF VtInv, Followed, Follows, Catching,
                                                          NoWrite
  <2>3. QED
    BY <2>1, <2>2, Zenon
<1>6. QED
  BY <1>3, <1>4, <1>5, Zenon DEF VtInv, Followed

\* A step of the statement of w on the row d that moves it on or ends it.
LEMMA WriteStepInv ==
  ASSUME VtInv, NEW w \in Writers, EmbedDoc(w) \/ AddVector(w) \/ UnmapDoc(w) \/ TombstoneDoc(w)
  PROVE  VtInv'
<1>1. write[w] \in VtWriting /\ open
  BY DEF VtInv, VtTypeOK, EmbedDoc, AddVector, UnmapDoc, TombstoneDoc, NoWrite, VtWriting, AllIdle
<1>9. PICK d \in Docs : d = write[w].doc
  BY <1>1, Zenon DEF VtWriting
<1>2. /\ UNCHANGED <<text, search, open>> /\ adrift \subseteq adrift'
      /\ \/ write' = [write EXCEPT ![w] = NoWrite]
         \/ write' = [write EXCEPT ![w] = [write[w] EXCEPT !.pc = "add"]] /\ write[w].pc = "embed"
            /\ UNCHANGED <<delta, tomb, vector, cache>>
         \/ write' = [write EXCEPT ![w] = [write[w] EXCEPT !.pc = "tombstone"]]
            /\ write[w].pc = "unmap" /\ UNCHANGED <<delta, tomb, vector, cache>>
  BY Zenon DEF EmbedDoc, AddVector, UnmapDoc, TombstoneDoc, SetWrite
<1>3. VtTypeOK'
  <2>1. write' \in [Writers -> VtWriting \cup {NoWrite}]
    BY <1>1, <1>2 DEF VtInv, VtTypeOK, VtWriting
  <2>2. DOMAIN delta' = Docs /\ DOMAIN vector' = Docs
    BY Zenon DEF EmbedDoc, AddVector, UnmapDoc, TombstoneDoc, VtInv, VtTypeOK
  <2>3. QED
    BY <1>1, <1>2, <2>1, <2>2, Zenon DEF VtInv, VtTypeOK
<1>4. Current'
  <2>1. CASE UNCHANGED <<delta, tomb, cache>>
    BY <1>2, <2>1, Zenon DEF VtInv, Current, Found
  <2>2. CASE cache' = {} /\ ~ReadLocked
    BY <1>2, <2>2, Zenon DEF VtInv, Current, ReadLocked
  <2>3. QED
    BY <2>1, <2>2, Zenon DEF EmbedDoc, AddVector, UnmapDoc, TombstoneDoc
<1>5. /\ \A e \in Docs \ {d} : delta'[e] = delta[e] /\ vector'[e] = vector[e]
      /\ \A e \in Docs \ {d} : e \in tomb' <=> e \in tomb
  BY <1>1, <1>9, Zenon DEF EmbedDoc, AddVector, UnmapDoc, TombstoneDoc, VtInv, VtTypeOK
<1>6. \A u \in Writers : u # w => write'[u] = write[u]
  BY <1>2, Zenon DEF VtInv, VtTypeOK
<1>7. ASSUME NEW e \in Docs \ adrift'
      PROVE  /\ ~Busy(e)' => Follows(e)'
             /\ \A u \in Writers : write'[u].pc # "idle" /\ write'[u].doc = e =>
                  /\ Catching(u, e)'
                  /\ \A v \in Writers \ {u} : write'[v].pc = "idle" \/ write'[v].doc # e
  <2>1. CASE e # d
    <3>1. write'[w].pc = "idle" \/ write'[w].doc # e
      BY <1>1, <1>9, <1>2, <2>1 DEF NoWrite, VtWriting, VtInv, VtTypeOK
    <3>2. Busy(e)' <=> Busy(e)
      BY <1>6, <1>9, <2>1, <3>1, Zenon DEF Busy
    <3>3. QED
      BY <1>1, <1>9, <1>2, <1>5, <1>6, <2>1, <3>1, <3>2 DEF VtInv, Followed, Follows, Catching
  <2>2. CASE e = d
    <3>0. write[w].pc # "idle"
      BY <1>1, Zenon DEF VtWriting
    <3>1. Catching(w, d) /\ \A v \in Writers \ {w} : write[v].pc = "idle" \/ write[v].doc # d
      BY <1>1, <1>9, <1>2, <2>2, <3>0, Zenon DEF VtInv, Followed
    <3>2. CASE EmbedDoc(w)
      <4>1. write' = [write EXCEPT ![w] = [write[w] EXCEPT !.pc = "add"]] /\ write[w].pc = "embed"
            /\ UNCHANGED <<text, delta, tomb, vector>>
        BY <1>9, <2>2, <3>2, Zenon DEF EmbedDoc, SetWrite
      <4>2. write'[w] = [write[w] EXCEPT !.pc = "add"]
        BY <4>1, Zenon DEF VtInv, VtTypeOK
      <4>3. write'[w].pc = "add" /\ write'[w].doc = d /\ write'[w].phrase = write[w].phrase
        BY <1>1, <1>9, <4>2, Zenon DEF VtWriting
      <4>4. QED
        BY <1>6, <1>9, <2>2, <3>1, <4>1, <4>3 DEF Busy, Catching
    <3>3. CASE AddVector(w)
      <4>1. write'[w] = NoWrite
        BY <3>3, Zenon DEF AddVector, SetWrite, VtInv, VtTypeOK
      <4>2. \A u \in Writers : write'[u].pc = "idle" \/ write'[u].doc # d
        BY <1>6, <1>9, <3>1, <4>1 DEF NoWrite
      <4>3. Follows(d)'
        BY <1>1, <1>9, <3>1, <3>3, Zenon DEF AddVector, Follows, Catching, VtInv, VtTypeOK
      <4>4. QED
        BY <2>2, <4>2, <4>3, Zenon
    <3>4. CASE UnmapDoc(w)
      <4>1. UNCHANGED <<text, delta, tomb, vector>> /\ write[w].pc = "unmap"
        BY <3>4, Zenon DEF UnmapDoc
      <4>2. CASE vector[d] = NoText
        <5>1. write'[w] = NoWrite
          BY <1>9, <3>4, <4>2, Zenon DEF UnmapDoc, SetWrite, VtInv, VtTypeOK
        <5>2. \A u \in Writers : write'[u].pc = "idle" \/ write'[u].doc # d
          BY <1>6, <1>9, <3>1, <5>1 DEF NoWrite
        <5>3. Follows(d)'
          BY <1>9, <3>1, <4>1, <4>2, Zenon DEF Follows, Catching
        <5>4. QED
          BY <2>2, <5>2, <5>3, Zenon
      <4>3. CASE vector[d] # NoText
        <5>1. write'[w] = [write[w] EXCEPT !.pc = "tombstone"]
          BY <1>9, <3>4, <4>3, Zenon DEF UnmapDoc, SetWrite, VtInv, VtTypeOK
        <5>2. write'[w].pc = "tombstone" /\ write'[w].doc = d
          BY <1>1, <1>9, <5>1, Zenon DEF VtWriting
        <5>3. QED
          BY <1>6, <1>9, <2>2, <3>1, <4>1, <5>2, SMTT(30) DEF Busy, Catching
      <4>4. QED
        BY <4>2, <4>3, Zenon
    <3>5. CASE TombstoneDoc(w)
      <4>1. write'[w] = NoWrite
        BY <3>5, Zenon DEF TombstoneDoc, SetWrite, VtInv, VtTypeOK
      <4>2. \A u \in Writers : write'[u].pc = "idle" \/ write'[u].doc # d
        BY <1>6, <1>9, <3>1, <4>1 DEF NoWrite
      <4>3. Follows(d)'
        BY <1>1, <1>9, <3>1, <3>5, Zenon DEF TombstoneDoc, Follows, Catching, VtInv, VtTypeOK
      <4>4. QED
        BY <2>2, <4>2, <4>3, Zenon
    <3>6. QED
      BY <3>2, <3>3, <3>4, <3>5, Zenon
  <2>3. QED
    BY <2>1, <2>2, Zenon
<1>8. QED
  BY <1>3, <1>4, <1>7, Zenon DEF VtInv, Followed

\* A search reads the vectors and changes none.
LEMMA SearchInv ==
  ASSUME VtInv, NEW s \in Searchers,
         (\E q \in Phrases : SearchBegin(s, q)) \/ SearchLookup(s) \/ SearchRun(s) \/ SearchStore(s)
  PROVE  VtInv'
<1>1. UNCHANGED <<text, delta, tomb, vector, write, adrift, open>>
      /\ DOMAIN search' = Searchers /\ \A o \in Searchers : o # s => search'[o] = search[o]
  BY Zenon DEF SearchBegin, SearchLookup, SearchRun, SearchStore, SetSearch, VtInv, VtTypeOK
<1>2. open
  BY Zenon DEF SearchBegin, SearchLookup, SearchRun, SearchStore, VtInv, VtTypeOK, AllIdle,
     ReadLocked
<1>3. Current'
  <2>1. CASE \E q \in Phrases : SearchBegin(s, q)
    BY <1>1, <2>1 DEF SearchBegin, SetSearch, VtInv, VtTypeOK, Current, Found
  <2>2. CASE SearchLookup(s)
    <3>1. cache' \subseteq cache
      BY <2>2, Zenon DEF SearchLookup
    <3>2. search'[s].pc # "store"
      BY <2>2 DEF SearchLookup, SetSearch, NoSearch, VtInv, VtTypeOK
    <3>3. QED
      BY <1>1, <3>1, <3>2 DEF VtInv, Current, Found
  <2>3. CASE SearchRun(s)
    BY <1>1, <2>3 DEF SearchRun, SetSearch, VtInv, VtTypeOK, Current, Found
  <2>4. CASE SearchStore(s)
    <3>1. cache' \subseteq cache \cup {[phrase |-> search[s].phrase, found |-> search[s].found]}
      BY <2>4, Zenon DEF SearchStore
    <3>2. search'[s].pc # "store" /\ search[s].pc = "store"
      BY <2>4, Zenon DEF SearchStore, SetSearch, NoSearch, VtInv, VtTypeOK
    <3>3. QED
      BY <1>1, <3>1, <3>2, SMTT(30) DEF VtInv, Current, Found
  <2>5. QED
    BY <2>1, <2>2, <2>3, <2>4, Zenon
<1>4. QED
  BY <1>1, <1>2, <1>3, SMTT(30) DEF VtInv, VtTypeOK, Followed, Follows, Catching, Busy

\* A restart embeds what the snapshot does not cover.
LEMMA ReopenInv == VtInv /\ Reopen => VtInv'
<1> SUFFICES ASSUME VtInv, Reopen PROVE VtInv'
  BY Zenon
<1>1. AllIdle /\ UNCHANGED <<text, write, search>> /\ open'
  BY Zenon DEF Reopen, VtInv, VtTypeOK
<1>2. VtTypeOK'
  BY <1>1, Zenon DEF VtInv, VtTypeOK, Reopen
<1>3. Current'
  BY <1>1, Zenon DEF VtInv, Current, Reopen, AllIdle, ReadLocked
<1>4. \A d \in Docs \ adrift' : Follows(d)'
  BY <1>1, Zenon DEF Reopen, Follows, Stale, Rebuilt
<1>5. QED
  BY <1>1, <1>2, <1>3, <1>4, Zenon DEF VtInv, Followed, AllIdle

\* Every step keeps the invariant.
LEMMA VtStepInv == VtInv /\ [VtNext]_vtvars => VtInv'
<1> SUFFICES ASSUME VtInv, [VtNext]_vtvars PROVE VtInv'
  BY Zenon
<1>1. CASE UNCHANGED <<text, delta, tomb, vector, cache, write, search, adrift, open>>
  BY <1>1, SMTT(30) DEF VtInv, VtTypeOK, Current, Found, Followed, Follows, Catching, Busy, AllIdle,
     ReadLocked
<1>2. CASE UNCHANGED vtvars \/ PersistIndex
  BY <1>1, <1>2, Zenon DEF vtvars, PersistIndex
<1>3. ASSUME NEW w \in Writers, NEW d \in Docs, NEW t \in Phrases, InsertDoc(w, d, t) PROVE VtInv'
  BY <1>3, PutInv, VectorConstants, Zenon DEF InsertDoc
<1>4. ASSUME NEW w \in Writers, NEW d \in Docs, NEW t \in Phrases, UpsertDoc(w, d, t) PROVE VtInv'
  BY <1>4, PutInv, VectorConstants, Zenon DEF UpsertDoc
<1>5. ASSUME NEW w \in Writers, NEW d \in Docs, DeleteDoc(w, d) PROVE VtInv'
  BY <1>5, PutInv, Zenon DEF DeleteDoc
<1>6. ASSUME NEW b \in BOOLEAN, ConfigureCache(b) PROVE VtInv'
  BY <1>6, Zenon DEF ConfigureCache, VtInv, VtTypeOK, Current, Found, Followed, Follows, Catching,
                     Busy,
              AllIdle, ReadLocked
<1>7. ASSUME NEW b \in BOOLEAN, CloseDatabase(b) PROVE VtInv'
  BY <1>7, Zenon DEF CloseDatabase, VtInv, VtTypeOK, Current, Found, Followed, AllIdle, ReadLocked,
              NoWrite, NoSearch
<1>8. QED
  BY <1>2, <1>3, <1>4, <1>5, <1>6, <1>7, WriteStepInv, SearchInv, ReopenInv, Zenon DEF VtNext

\* For any rows, phrases and searchers, a result in the semantic cache is the
\* one the search would compute now (SemanticCache, semantic_search).
THEOREM CachedIsCurrent == VtSpec => []CachedResultCurrent
<1>1. VtInv => CachedResultCurrent
  BY Zenon DEF VtInv, Current, CachedResultCurrent
<1>2. QED
  BY <1>1, VtInitInv, VtStepInv, PTL DEF VtSpec

\* For any rows and texts, a row that no statement is at work on is found under
\* its own text and no other, and a deleted one not at all, unless an embedding
\* failed, two statements met on the key, a BULK INSERT replaced the row or the
\* snapshot is older than it (on_row_inserted, on_row_deleted,
\* rebuild_vector_indexes).
THEOREM VectorsFollowRows == VtSpec => []VectorsFollowRowsUnlessAdrift
<1>1. VtInv => VectorsFollowRowsUnlessAdrift
  BY DEF VtInv, VtTypeOK, Followed, Follows, VectorsFollowRowsUnlessAdrift, Certain, Found
<1>2. QED
  BY <1>1, VtInitInv, VtStepInv, PTL DEF VtSpec

-----------------------------------------------------------------------------
(* Training                                                                *)

-----------------------------------------------------------------------------
(* Integers                                                                *)

\* A set of naturals has a least element.
LEMMA LeastNatural ==
    ASSUME NEW D \in SUBSET Nat, D # {}
    PROVE  \E d \in D : \A e \in D : d <= e
<1>1. PICK d \in D : \A e \in D : <<e, d>> \notin OpToRel(<, Nat)
  BY NatLessThanWellFounded, WFMin, Zenon
<1>2. \A e \in D : ~(e < d)
  BY <1>1, Zenon DEF OpToRel
<1>3. QED
  BY <1>2

\* A bounded set of integers has a greatest and a least element.
LEMMA Extremes ==
    ASSUME NEW S \in SUBSET Int, S # {}, NEW low \in Int, NEW high \in Int,
           \A x \in S : low <= x /\ x <= high
    PROVE  /\ Max(S) \in S /\ \A y \in S : y <= Max(S)
           /\ Min(S) \in S /\ \A y \in S : Min(S) <= y
<1>1. \E x \in S : \A y \in S : x >= y
  <2> DEFINE D == {high - x : x \in S}
  <2>1. D \subseteq Nat
    OBVIOUS
  <2>2. D # {}
    BY Zenon
  <2> HIDE DEF D
  <2>3. PICK d \in D : \A e \in D : d <= e
    BY <2>1, <2>2, LeastNatural, Zenon
  <2>4. PICK x \in S : d = high - x
    BY Zenon DEF D
  <2>5. \A y \in S : high - y \in D
    BY Zenon DEF D
  <2>6. QED
    BY <2>3, <2>4, <2>5
<1>2. \E x \in S : \A y \in S : x =< y
  <2> DEFINE D == {x - low : x \in S}
  <2>1. D \subseteq Nat
    OBVIOUS
  <2>2. D # {}
    BY Zenon
  <2> HIDE DEF D
  <2>3. PICK d \in D : \A e \in D : d <= e
    BY <2>1, <2>2, LeastNatural, Zenon
  <2>4. PICK x \in S : d = x - low
    BY Zenon DEF D
  <2>5. \A y \in S : y - low \in D
    BY Zenon DEF D
  <2>6. QED
    BY <2>3, <2>4, <2>5
<1>3. Max(S) \in S /\ \A y \in S : Max(S) >= y
  BY <1>1, Zenon DEF Max
<1>4. Min(S) \in S /\ \A y \in S : Min(S) =< y
  BY <1>2, Zenon DEF Min
<1>5. QED
  BY <1>3, <1>4, Zenon

\* Division rounds down.
LEMMA DivBounds ==
    ASSUME NEW x \in Int, NEW n \in Nat \ {0}
    PROVE  /\ x \div n \in Int
           /\ n * (x \div n) <= x /\ x < n * (x \div n) + n
  OBVIOUS

\* The code Sq8Quantize gives a vector is the nearest of the codes that span
\* the vectors it was calibrated with (vector/src/quantizer.rs).
LEMMA Sq8Nearest ==
    ASSUME NEW vs \in SUBSET WordVectors, NEW v \in vs
    PROVE  NearestCode(Sq8Quantize(v, vs), v, vs)
<1> DEFINE lo == Min(vs)
           hi == Max(vs)
           range == IF hi = lo THEN 1 ELSE hi - lo
           code == (2 * (v - lo) * SqMax + range) \div (2 * range)
<1>1. lo \in Int /\ hi \in Int /\ lo <= v /\ v <= hi /\ v \in Int /\ SqMax \in Nat
  <2>1. SqMax \in Nat /\ vs \in SUBSET Int /\ vs # {}
    BY TrainingConstants, Zenon
  <2>2. PICK low \in Int, high \in Int : \A w \in vs : low <= w /\ w <= high
    BY TrainingConstants, Zenon
  <2>3. /\ hi \in vs /\ \A y \in vs : y <= hi
        /\ lo \in vs /\ \A y \in vs : lo <= y
    BY <2>1, <2>2, Extremes, Zenon
  <2>4. QED
    BY <2>1, <2>3, Zenon
<1>2. code = Sq8Quantize(v, vs)
  BY Zenon DEF Sq8Quantize
<1>3. PICK a \in Int : a = (v - lo) * SqMax
  BY <1>1
<1>4. range \in Nat \ {0} /\ 2 * range \in Nat \ {0}
  BY <1>1
<1>5. 2 * (v - lo) * SqMax + range = 2 * a + range /\ 2 * a + range \in Int
  BY <1>1, <1>3, <1>4
<1>6. /\ code \in Int
      /\ (2 * range) * code <= 2 * a + range /\ 2 * a + range < (2 * range) * code + 2 * range
  <2> HIDE DEF range
  <2>1. (2 * a + range) \div (2 * range) = code
    BY <1>5, Zenon
  <2>2. QED
    BY <1>4, <1>5, <2>1, DivBounds, Zenon
<1>7. CASE hi = lo
  <2>1. a = 0 
    BY <1>1, <1>3, <1>7
  <2>2. range = 1 /\ hi - lo = 0
    BY <1>1, <1>7
  <2>3. code = 0
    <3> HIDE DEF range, code
    <3> QED BY <1>6, <2>1, <2>2
  <2>4. QED
    <3>1. 2 * (0 * (hi - lo) - (v - lo) * SqMax) \in -(hi - lo) .. (hi - lo)
      BY <1>3, <2>1, <2>2
    <3>2. QED
      BY <1>2, <2>3, <3>1, Zenon DEF NearestCode
<1>8. CASE hi # lo
  <2>1. range = hi - lo
    BY <1>8, Zenon
  <2>2. (2 * range) * code = 2 * (code * range) /\ code * range \in Int
    <3> HIDE DEF range, code
    <3> QED BY <1>4, <1>6
  <2>3. 2 * (code * range - a) \in -range .. range
    <3> HIDE DEF range, code
    <3>1. PICK p \in Int : p = code * range
      BY <2>2, Zenon
    <3>2. QED
      BY <1>4, <1>6, <2>2, <3>1
  <2>4. QED
    BY <1>2, <1>3, <2>1, <2>3, Zenon DEF NearestCode
<1>9. QED
  BY <1>7, <1>8, Zenon

-----------------------------------------------------------------------------
(* The inductive invariant, and what scans read                            *)

VectorSets == {{}} \cup {{w} : w \in WordVectors}

\* The shape of the state.  Every version is older than the last commit.
TrTypeOK ==
    /\ trainTs \in Nat /\ DOMAIN versions = TrainKeys
    /\ \A k \in TrainKeys : \A v \in versions[k] : v.ts \in Nat /\ v.ts <= trainTs
    /\ vectors \in [TrainKeys -> VectorSets]

\* A tag reads back what it was created from, and vouches for the vector of
\* each of its rows that was not deleted since.
Vouched(t) ==
    \A r \in t.rows : r[1] \in t.gone \/ (Live(r[1]) /\ vectors[r[1]] = t.vecs[r[1]])
TagOK(t) ==
    /\ DOMAIN t = {"name", "ts", "root", "training", "precision", "rows", "vecs", "gone"}
    /\ t.ts \in Nat /\ t.ts <= trainTs /\ t.precision \in Precisions
    /\ t.vecs \in [TrainKeys -> VectorSets]
    /\ ScanAllAt(t.ts) = t.rows /\ t.root = t.rows
    /\ Vouched(t)
Tagged ==
    /\ \A t \in tagCatalog : TagOK(t)
    /\ \A t, u \in tagCatalog : t.name = u.name => t = u

\* A running export works on a tag of the catalog and the vectors of now.
Exporting ==
    \A e \in exporting :
        DOMAIN e = {"stage", "tag", "vecs", "hash"} /\ e.tag \in tagCatalog /\ e.vecs = vectors

Exported ==
    \A d \in datasets : HoldsRowsOf(d, d.of) /\ (d.of.gone # {} \/ HoldsVectorsOf(d, d.of))

TrInv == TrTypeOK /\ Tagged /\ Exporting /\ Exported

----------------------------------------------------------------------------
\* A set of versions that is not empty has a newest one.
LEMMA NewestExists ==
    ASSUME TrTypeOK, NEW k \in TrainKeys, NEW V \in SUBSET versions[k], V # {}
    PROVE  NewestOf(V) # {}
<1> DEFINE T == {v.ts : v \in V}
<1>1. T \in SUBSET Int /\ T # {} /\ trainTs \in Int /\ \A x \in T : 0 <= x /\ x <= trainTs
  BY DEF TrTypeOK
<1>2. Max(T) \in T /\ \A x \in T : x <= Max(T)
  <2>1. PICK zero \in Int : zero = 0
    OBVIOUS
  <2>2. QED
    BY <1>1, <2>1, Extremes, Zenon
<1>3. PICK v \in V : v.ts = Max(T)
  BY <1>2, Zenon
<1>4. \A w \in V : w.ts <= v.ts
  BY <1>2, <1>3, Zenon
<1>5. QED
  BY <1>4, Zenon DEF NewestOf

\* What a scan returns, row by row.
LEMMA ScanRows ==
    ASSUME NEW ts, NEW k \in TrainKeys, NEW r \in RowAt(k, ts)
    PROVE  <<k, r>> \in ScanAllAt(ts)
  BY DEF ScanAllAt

\* What a row that scan_all_at returns is.
LEMMA ScanKeys ==
    ASSUME NEW ts, NEW r \in ScanAllAt(ts)
    PROVE  r[1] \in TrainKeys /\ r[2] \in RowAt(r[1], ts) /\ r = <<r[1], r[2]>>
  BY DEF ScanAllAt

\* A write leaves every earlier snapshot as it was.
LEMMA PutKeepsRows ==
    ASSUME TrTypeOK, NEW k \in TrainKeys, NEW row, NEW vec, PutTrain(k, row, vec),
           NEW j \in TrainKeys, NEW ts \in Nat, ts <= trainTs
    PROVE  RowAt(j, ts)' = RowAt(j, ts)
<1>1. {w \in versions'[j] : w.ts <= ts} = {w \in versions[j] : w.ts <= ts}
  BY DEF TrTypeOK, PutTrain
<1>2. QED
  BY <1>1, Zenon DEF RowAt

\* It decides what its own key reads, and no other.
LEMMA PutRow ==
    ASSUME TrTypeOK, NEW k \in TrainKeys, NEW row, NEW vec, PutTrain(k, row, vec),
           NEW j \in TrainKeys
    PROVE  /\ j # k => RowAt(j, trainTs)' = RowAt(j, trainTs)
           /\ j = k => RowAt(j, trainTs)' = row
<1>1. CASE j # k
  <2>1. {w \in versions'[j] : w.ts <= trainTs'} = {w \in versions[j] : w.ts <= trainTs}
    BY <1>1 DEF TrTypeOK, PutTrain
  <2>2. QED
    BY <1>1, <2>1, Zenon DEF RowAt
<1>2. CASE j = k
  <2> DEFINE n == [ts |-> trainTs', row |-> row]
  <2>1. versions'[k] = versions[k] \cup {n} /\ trainTs' = trainTs + 1
    BY Zenon DEF TrTypeOK, PutTrain
  <2>2. NewestOf({w \in versions'[k] : w.ts <= trainTs'}) = {n}
    <3>1. n.ts = trainTs' /\ \A w \in versions[k] : w.ts <= trainTs' /\ ~(trainTs' <= w.ts)
      BY <2>1 DEF TrTypeOK
    <3>2. {w \in versions'[k] : w.ts <= trainTs'} = versions[k] \cup {n}
      BY <2>1, <3>1 DEF TrTypeOK
    <3>3. \A v \in versions[k] \cup {n} :
              (\A w \in versions[k] \cup {n} : w.ts <= v.ts) <=> v = n
      <4>1. n.ts <= n.ts
        BY <2>1, <3>1 DEF TrTypeOK
      <4> HIDE DEF n
      <4>2. QED
        BY <3>1, <4>1, Zenon
    <3>4. QED
      BY <3>2, <3>3, Zenon DEF NewestOf
  <2>3. QED
    <3>1. RowAt(k, trainTs)' = UNION {v.row : v \in {n}}
      BY <2>2, Zenon DEF RowAt
    <3>2. UNION {v.row : v \in {n}} = n.row /\ n.row = row
      BY Zenon
    <3>3. QED
      BY <1>2, <3>1, <3>2, Zenon
<1>3. QED
  BY <1>1, <1>2, Zenon

\* The versions CompactTrain keeps of a key that is not deleted altogether.
Kept(k) == NewestOf(versions[k]) \cup
           UNION {NewestOf({v \in versions[k] : v.ts <= p}) : p \in PinnedTimestamps}

\* The collection of old versions keeps what a pinned timestamp, or the last
\* commit, reads (compact_inner, engine.rs).
LEMMA CompactKeepsRows ==
    ASSUME TrTypeOK, CompactTrain, NEW k \in TrainKeys, NEW ts \in PinnedTimestamps \cup {trainTs},
           ts \in Nat
    PROVE  RowAt(k, ts)' = RowAt(k, ts)
<1> DEFINE Old == {w \in versions[k] : w.ts <= ts}
           New == {w \in Kept(k) : w.ts <= ts}
<1>1. versions'[k] = IF \E v \in Kept(k) : v.row # {} THEN Kept(k) ELSE {}
  BY Zenon DEF CompactTrain, Kept
<1>2. Kept(k) \subseteq versions[k] /\ New \subseteq Old
  BY Zenon DEF Kept, NewestOf
<1>3. NewestOf(Old) \subseteq New
  <2>1. CASE ts \in PinnedTimestamps
    BY <2>1 DEF Kept, NewestOf
  <2>2. CASE ts = trainTs
    <3>1. Old = versions[k]
      BY <2>2, Zenon DEF TrTypeOK
    <3>2. QED
      BY <3>1, Zenon DEF Kept, NewestOf
  <2>3. QED
    BY <2>1, <2>2, Zenon
<1>4. NewestOf(New) = NewestOf(Old)
  <2>1. CASE Old = {}
    BY <1>2, <2>1, Zenon
  <2>2. CASE Old # {}
    <3>1. PICK n \in NewestOf(Old) : TRUE
      BY <2>2, NewestExists, Zenon
    <3>2. n \in New /\ \A w \in Old : w.ts <= n.ts /\ w.ts \in Nat
      BY <1>3, <3>1, Zenon DEF NewestOf, TrTypeOK
    <3>3. NewestOf(New) \subseteq NewestOf(Old)
      BY <1>2, <3>2 DEF NewestOf
    <3>4. NewestOf(Old) \subseteq NewestOf(New)
      BY <1>2, <1>3, <3>2, Zenon DEF NewestOf
    <3>5. QED
      BY <3>3, <3>4, Zenon
  <2>3. QED
    BY <2>1, <2>2, Zenon
<1>5. CASE \E v \in Kept(k) : v.row # {}
  <2>1. {w \in versions'[k] : w.ts <= ts} = New
    BY <1>1, <1>5, Zenon
  <2>2. QED
    BY <1>4, <2>1, Zenon DEF RowAt
<1>6. CASE ~\E v \in Kept(k) : v.row # {}
  <2>1. {w \in versions'[k] : w.ts <= ts} = {}
    BY <1>1, <1>6, Zenon
  <2>2. RowAt(k, ts)' = {}
    BY <2>1, Zenon DEF RowAt, NewestOf
  <2>3. RowAt(k, ts) = {}
    BY <1>3, <1>6, Zenon DEF RowAt
  <2>4. QED
    BY <2>2, <2>3, Zenon
<1>7. QED
  BY <1>5, <1>6, Zenon

-----------------------------------------------------------------------------
(* Writes, compaction and tags                                             *)

\* A step that leaves the tag's snapshot, and the present of each of its rows,
\* as they were.
LEMMA TagKept ==
    ASSUME NEW t, TagOK(t), trainTs' \in Nat, trainTs <= trainTs', trainTs \in Nat,
           \A k \in TrainKeys : RowAt(k, t.ts)' = RowAt(k, t.ts),
           \A k \in TrainKeys : Live(k) => Live(k)' \/ k \in t.gone,
           \A k \in TrainKeys : Live(k) => vectors'[k] = vectors[k] \/ k \in t.gone
    PROVE  TagOK(t)'
<1>1. ScanAllAt(t.ts)' = ScanAllAt(t.ts)
  BY DEF ScanAllAt
<1>2. \A r \in t.rows : r[1] \in TrainKeys
  BY ScanKeys, Zenon DEF TagOK
<1>3. Vouched(t)'
  BY <1>2 DEF TagOK, Vouched
<1>4. QED
  BY <1>1, <1>3 DEF TagOK

\* A step that touches neither rows nor vectors.
LEMMA TagStays ==
    ASSUME NEW t, TagOK(t), UNCHANGED <<versions, trainTs, vectors>>
    PROVE  TagOK(t)'
<1>1. \A k, ts : RowAt(k, ts)' = RowAt(k, ts)
  BY Zenon DEF RowAt
<1>2. \A k : Live(k)' <=> Live(k)
  BY <1>1, Zenon DEF Live
<1>3. ScanAllAt(t.ts)' = ScanAllAt(t.ts)
  BY <1>1 DEF ScanAllAt
<1>4. Vouched(t)'
  <2>1. Vouched(t)
    BY Zenon DEF TagOK
  <2>2. QED
    BY <1>2, <2>1, Zenon DEF Vouched
<1>5. QED
  BY <1>3, <1>4, Zenon DEF TagOK

\* A write of a row, or of a tombstone, that keeps the vector of a row that
\* stays (insert, update and delete).
LEMMA SnapshotPutInv ==
    ASSUME TrInv, NEW k \in TrainKeys, NEW row, NEW vec \in VectorSets, PutTrain(k, row, vec),
           row # {} => ~Live(k) \/ vec = vectors[k]
    PROVE  TrInv'
<1>0. TrTypeOK /\ trainTs \in Nat /\ trainTs' = trainTs + 1 /\ exporting = {} /\ exporting' = {}
      /\ datasets' = datasets /\ vectors' = [vectors EXCEPT ![k] = vec]
      /\ vectors \in [TrainKeys -> VectorSets]
  BY Zenon DEF TrInv, TrTypeOK, PutTrain
<1>1. TrTypeOK'
  <2>1. \A j \in TrainKeys : \A v \in versions'[j] :
            v \in versions[j] \/ v = [ts |-> trainTs', row |-> row]
    BY Zenon DEF PutTrain, TrInv, TrTypeOK
  <2>2. DOMAIN versions' = TrainKeys
    BY Zenon DEF PutTrain, TrInv, TrTypeOK
  <2>3. \A j \in TrainKeys : \A v \in versions'[j] : v.ts \in Nat /\ v.ts <= trainTs'
    BY <1>0, <2>1 DEF TrTypeOK
  <2>4. vectors' \in [TrainKeys -> VectorSets]
    BY <1>0, Zenon
  <2>5. trainTs' \in Nat /\ trainTs <= trainTs'
    BY <1>0
  <2>6. QED
    BY <2>2, <2>3, <2>4, <2>5, Zenon DEF TrTypeOK
<1>2. ASSUME NEW t, TagOK(t), row = {} => k \in t.gone PROVE TagOK(t)'
  <2>1. \A j \in TrainKeys : RowAt(j, t.ts)' = RowAt(j, t.ts)
    BY <1>0, <1>2, PutKeepsRows, Zenon DEF TagOK
  <2>2. ASSUME NEW j \in TrainKeys, Live(j) PROVE Live(j)' \/ j \in t.gone
    BY <1>0, <1>2, <2>2, PutRow, Zenon DEF Live
  <2>3. ASSUME NEW j \in TrainKeys, Live(j) PROVE vectors'[j] = vectors[j] \/ j \in t.gone
    BY <1>0, <1>2, <2>3, Zenon
  <2>4. trainTs' \in Nat /\ trainTs <= trainTs'
    BY <1>0
  <2>5. QED
    BY <1>0, <1>2, <2>1, <2>2, <2>3, <2>4, TagKept, Zenon
<1>3. CASE row # {}
  <2>1. tagCatalog' = tagCatalog
    BY <1>3, Zenon DEF PutTrain
  <2>2. Tagged'
    BY <1>2, <1>3, <2>1, Zenon DEF TrInv, Tagged
  <2>3. QED
    BY <1>0, <1>1, <2>2, Zenon DEF TrInv, Exporting, Exported
<1>4. CASE row = {}
  <2> DEFINE G(t) == [t EXCEPT !.gone = @ \cup {k}]
  <2>1. tagCatalog' = {G(t) : t \in tagCatalog}
    BY <1>4, Zenon DEF PutTrain
  <2>2. ASSUME NEW t \in tagCatalog PROVE TagOK(G(t))' /\ G(t).name = t.name
    <3>1. TagOK(t) /\ DOMAIN G(t) = DOMAIN t
      BY Zenon DEF TrInv, Tagged
    <3>2. /\ G(t).name = t.name /\ G(t).ts = t.ts /\ G(t).root = t.root
          /\ G(t).precision = t.precision /\ G(t).rows = t.rows /\ G(t).vecs = t.vecs
          /\ G(t).gone = t.gone \cup {k}
      BY <3>1, Zenon DEF TagOK
    <3> HIDE DEF G
    <3>3. TagOK(G(t)) /\ k \in G(t).gone
      BY <3>1, <3>2, Zenon DEF TagOK, Vouched
    <3>4. QED
      BY <1>2, <3>2, <3>3, Zenon
  <2>3. ASSUME NEW u \in tagCatalog', NEW v \in tagCatalog', u.name = v.name PROVE u = v
    <3> HIDE DEF G
    <3>1. PICK t \in tagCatalog : u = G(t)
      BY <2>1, Zenon
    <3>2. PICK s \in tagCatalog : v = G(s)
      BY <2>1, Zenon
    <3>3. t = s
      BY <2>2, <2>3, <3>1, <3>2 DEF TrInv, Tagged
    <3>4. QED
      BY <3>1, <3>2, <3>3, Zenon
  <2>4. Tagged'
    <3> HIDE DEF G
    <3>1. \A u \in tagCatalog' : TagOK(u)'
      BY <2>1, <2>2, Zenon
    <3>2. QED
      BY <2>3, <3>1, Zenon DEF Tagged
  <2>5. QED
    BY <1>0, <1>1, <2>4, Zenon DEF TrInv, Exporting, Exported
<1>5. QED
  BY <1>3, <1>4, Zenon

\* The collection of old versions.
LEMMA CompactInv ==
    ASSUME TrInv, CompactTrain
    PROVE  TrInv'
<1>0. TrTypeOK /\ trainTs \in Nat
      /\ UNCHANGED <<trainTs, vectors, tagCatalog, exporting, datasets>>
  BY Zenon DEF TrInv, TrTypeOK, CompactTrain
<1>1. \A k \in TrainKeys : versions'[k] \subseteq versions[k]
  BY Zenon DEF CompactTrain, NewestOf
<1>2. TrTypeOK'
  <2>1. DOMAIN versions' = TrainKeys
    BY Zenon DEF CompactTrain
  <2>2. QED
    BY <1>0, <1>1, <2>1, Zenon DEF TrTypeOK
<1>3. ASSUME NEW t \in tagCatalog PROVE TagOK(t)'
  <2>1. TagOK(t) /\ t.ts \in PinnedTimestamps /\ t.ts \in Nat
    BY Zenon DEF TrInv, Tagged, TagOK, PinnedTimestamps
  <2>2. \A k \in TrainKeys : RowAt(k, t.ts)' = RowAt(k, t.ts)
    BY <1>0, <2>1, CompactKeepsRows, Zenon
  <2>3. \A k \in TrainKeys : RowAt(k, trainTs)' = RowAt(k, trainTs)
    <3>1. \A k \in TrainKeys : \A n \in PinnedTimestamps \cup {trainTs} :
              n \in Nat => RowAt(k, n)' = RowAt(k, n)
      BY <1>0, CompactKeepsRows, Zenon
    <3>2. PICK n : n = trainTs 
      BY Zenon
    <3>3. \A k \in TrainKeys : RowAt(k, n)' = RowAt(k, n)
      BY <1>0, <3>1, <3>2, Zenon
    <3>4. QED
      BY <1>0, <3>2, <3>3, Zenon DEF RowAt
  <2>4. QED
    BY <1>0, <2>1, <2>2, <2>3, TagKept DEF Live
<1>4. Tagged'
  BY <1>0, <1>3, Zenon DEF TrInv, Tagged
<1>5. QED
  BY <1>0, <1>2, <1>4, Zenon DEF TrInv, Exporting, Exported

\* CREATE VERSION TAG and CREATE TRAINING SNAPSHOT.
LEMMA TagInv ==
    ASSUME TrInv, NEW name, NEW training, NEW precision \in Precisions,
           CreateTagAt(name, training, precision)
    PROVE  TrInv'
<1> DEFINE n == [name |-> name, ts |-> trainTs, root |-> MerkleRoot(trainTs),
                 training |-> training, precision |-> precision, rows |-> ScanAllAt(trainTs),
                 vecs |-> vectors, gone |-> {}]
<1>0. /\ UNCHANGED <<versions, trainTs, vectors, exporting, datasets>> /\ exporting = {}
      /\ tagCatalog' = tagCatalog \cup {n} /\ \A t \in tagCatalog : t.name # name
  BY Zenon DEF CreateTagAt
<1>1. ASSUME NEW t, TagOK(t) PROVE TagOK(t)'
  BY <1>0, <1>1, TagStays, Zenon
<1>2. TagOK(n)
  <2>1. Vouched(n)
    BY ScanKeys, Zenon DEF Vouched, Live
  <2>2. /\ DOMAIN n = {"name", "ts", "root", "training", "precision", "rows", "vecs", "gone"}
        /\ n.ts = trainTs /\ n.precision = precision /\ n.vecs = vectors
        /\ n.rows = ScanAllAt(trainTs) /\ n.root = n.rows
    BY Zenon DEF MerkleRoot
  <2>3. trainTs \in Nat /\ vectors \in [TrainKeys -> VectorSets]
    BY Zenon DEF TrInv, TrTypeOK
  <2>4. trainTs <= trainTs
    BY <2>3
  <2> HIDE DEF n
  <2>5. QED
    BY <2>1, <2>2, <2>3, <2>4, Zenon DEF TagOK
<1>3. Tagged'
  <2>1. \A u \in tagCatalog' : TagOK(u)'
    BY <1>0, <1>1, <1>2, Zenon DEF TrInv, Tagged
  <2>2. \A u, v \in tagCatalog' : u.name = v.name => u = v
    BY <1>0 DEF TrInv, Tagged
  <2>3. QED
    BY <2>1, <2>2, Zenon DEF Tagged
<1>4. TrTypeOK'
  BY <1>0, Zenon DEF TrInv, TrTypeOK
<1>5. QED
  BY <1>0, <1>3, <1>4, Zenon DEF TrInv, Exporting, Exported

-----------------------------------------------------------------------------
(* What an export writes                                                   *)

\* The third field of an exported row, before it is quantised.
Third(vec) == IF vec = {} THEN Field("Null", 0) ELSE Field("Embedding", CHOOSE v \in vec : TRUE)

\* An exported row: the projected columns, and the vector's.
ReadRow(r, vecs) == [key |-> r[1], fields |-> Append(ProjectRow(r[2]), Third(vecs[r[1]]))]
OutRow(r, f) == [key |-> r[1], fields |-> <<ProjectRow(r[2])[1], ProjectRow(r[2])[2], f>>]

\* The vector is appended to the projected columns.
LEMMA ThreeFields ==
    ASSUME NEW a, NEW b, NEW c
    PROVE  Append(<<a, b>>, c) = <<a, b, c>>
<1> DEFINE S == {a, b, c}
           s == Append(<<a, b>>, c)
<1>1. <<a, b>> \in Seq(S) /\ Len(<<a, b>>) = 2
  OBVIOUS
<1>2. s \in Seq(S) /\ Len(s) = 3 /\ s[1] = a /\ s[2] = b /\ s[3] = c
  BY <1>1
<1> HIDE DEF s
<1>3. s = <<a, b, c>>
  BY <1>2
<1>4. QED
  BY <1>3, Zenon DEF s

\* The fields of an exported row.
LEMMA OutRowFields ==
    ASSUME NEW r, NEW f
    PROVE  /\ OutRow(r, f).key = r[1] /\ OutRow(r, f).fields[3] = f
           /\ <<OutRow(r, f).fields[1], OutRow(r, f).fields[2]>> = ProjectRow(r[2])
           /\ OutRow(r, f).fields[1].kind = "Utf8" /\ OutRow(r, f).fields[2].kind = "Int64"
           /\ DOMAIN OutRow(r, f).fields = 1..3
<1> DEFINE a == Field("Utf8", r[2].word)
           b == Field("Int64", IF r[2].note = {} THEN 0 ELSE CHOOSE n \in r[2].note : TRUE)
<1>0. a.kind = "Utf8" /\ b.kind = "Int64"
  BY Zenon DEF Field
<1>1. ProjectRow(r[2]) = <<a, b>>
  BY Zenon DEF ProjectRow
<1> HIDE DEF a, b
<1>2. OutRow(r, f).key = r[1] /\ OutRow(r, f).fields = <<a, b, f>>
  BY <1>1 DEF OutRow
<1>3. QED
  BY <1>0, <1>1, <1>2

\* The same of a row that is known to be one.
LEMMA OutRowIs ==
    ASSUME NEW x, NEW r, NEW f, x = OutRow(r, f)
    PROVE  /\ x.key = r[1] /\ x.fields[3] = f
           /\ x.fields[1].kind = "Utf8" /\ x.fields[2].kind = "Int64"
           /\ DOMAIN x.fields = 1..3
  BY OutRowFields

\* The vector's field, or NULL.
LEMMA ThirdIs ==
    ASSUME NEW vec
    PROVE  /\ vec = {} => Third(vec).kind = "Null"
           /\ vec # {} => Third(vec).kind = "Embedding" /\ Third(vec).val \in vec
  BY DEF Third, Field

\* A row that read_blocks returns.
LEMMA ReadRowFields ==
    ASSUME NEW r, NEW vecs
    PROVE  ReadRow(r, vecs) = OutRow(r, Third(vecs[r[1]]))
<1>1. PICK a, b : ProjectRow(r[2]) = <<a, b>>
  BY Zenon DEF ProjectRow
<1>2. QED
  BY <1>1, ThreeFields DEF ReadRow, OutRow

\* What the exporter reads, and what it writes.
LEMMA ReadIs ==
    ASSUME NEW ts, NEW vecs
    PROVE  ReadBlocks(ts, vecs) = {OutRow(r, Third(vecs[r[1]])) : r \in ScanAllAt(ts)}
<1>1. ReadBlocks(ts, vecs) = {ReadRow(r, vecs) : r \in ScanAllAt(ts)}
  BY Zenon DEF ReadBlocks, ReadRow, Third
<1>2. QED
  BY <1>1, ReadRowFields, Zenon

Code(vec, all, precision) == Quantise(Third(vec), all, precision)

\* The rows of a dataset: what was read, with the vectors quantised.
LEMMA WrittenIs ==
    ASSUME NEW ts, NEW vecs, NEW precision
    PROVE  LET read == ReadBlocks(ts, vecs)
           IN  ApplyPrecision(read, precision) =
                   {OutRow(r, Code(vecs[r[1]], EmbeddingsOf(read), precision)) :
                    r \in ScanAllAt(ts)}
<1> DEFINE read == ReadBlocks(ts, vecs)
           all == EmbeddingsOf(read)
           Q(x) == [x EXCEPT !.fields[3] = Quantise(@, all, precision)]
<1>1. \A r : Q(OutRow(r, Third(vecs[r[1]])))
               = OutRow(r, Code(vecs[r[1]], all, precision))
  <2> SUFFICES ASSUME NEW r
               PROVE  Q(OutRow(r, Third(vecs[r[1]]))) = OutRow(r, Code(vecs[r[1]], all, precision))
    BY Zenon
  <2>1. PICK a, b, f : /\ OutRow(r, f) = [key |-> r[1], fields |-> <<a, b, f>>]
                       /\ f = Third(vecs[r[1]])
    BY Zenon DEF OutRow
  <2>2. OutRow(r, Quantise(f, all, precision)) =
          [key |-> r[1], fields |-> <<a, b, Quantise(f, all, precision)>>]
    BY <2>1, Zenon DEF OutRow
  <2>3. QED
    BY <2>1, <2>2 DEF Code
<1>2. ApplyPrecision(read, precision) = {Q(x) : x \in read}
  BY Zenon DEF ApplyPrecision
<1> HIDE DEF Q
<1>3. read = {OutRow(r, Third(vecs[r[1]])) : r \in ScanAllAt(ts)}
  BY ReadIs, Zenon
<1>4. QED
  <2> HIDE DEF read, all
  <2>1. {Q(x) : x \in read} = {Q(OutRow(r, Third(vecs[r[1]]))) : r \in ScanAllAt(ts)}
    BY <1>3, Zenon
  <2>2. {Q(OutRow(r, Third(vecs[r[1]]))) : r \in ScanAllAt(ts)} =
          {OutRow(r, Code(vecs[r[1]], all, precision)) : r \in ScanAllAt(ts)}
    BY <1>1, Zenon
  <2>3. QED
    BY <1>2, <2>1, <2>2, Zenon DEF read, all

\* The vectors a quantiser is calibrated with are those of the tag's rows.
LEMMA EmbeddingsAre ==
    ASSUME NEW ts, NEW vecs \in [TrainKeys -> VectorSets]
    PROVE  EmbeddingsOf(ReadBlocks(ts, vecs)) = UNION {vecs[r[1]] : r \in ScanAllAt(ts)}
<1> DEFINE read == ReadBlocks(ts, vecs)
<1>1. \A r \in ScanAllAt(ts) : r[1] \in TrainKeys
  BY ScanKeys, Zenon
<1>2. ASSUME NEW w \in EmbeddingsOf(read) PROVE w \in UNION {vecs[r[1]] : r \in ScanAllAt(ts)}
  <2>1. PICK x \in read : x.fields[3].kind = "Embedding" /\ w = x.fields[3].val
    BY <1>2, Zenon DEF EmbeddingsOf
  <2>2. PICK r \in ScanAllAt(ts) : x = OutRow(r, Third(vecs[r[1]]))
    BY ReadIs, Zenon
  <2>3. x.fields[3] = Third(vecs[r[1]])
    BY <2>2, OutRowIs
  <2>4. w \in vecs[r[1]]
    BY <2>1, <2>3, ThirdIs
  <2>5. QED
    BY <2>4, Zenon
<1>3. ASSUME NEW r \in ScanAllAt(ts), NEW w \in vecs[r[1]] PROVE w \in EmbeddingsOf(read)
  <2>1. vecs[r[1]] = {w}
    BY <1>1, <1>3 DEF VectorSets
  <2>2. Third(vecs[r[1]]) = Field("Embedding", w)
    BY <2>1, Zenon DEF Third
  <2>3. OutRow(r, Field("Embedding", w)) \in read
    BY <2>2, ReadIs, Zenon
  <2> DEFINE x == OutRow(r, Field("Embedding", w))
  <2>4. x.fields[3].kind = "Embedding" /\ x.fields[3].val = w
    <3>1. x.fields[3] = Field("Embedding", w)
      BY OutRowIs
    <3> HIDE DEF x
    <3>2. QED
      BY <3>1 DEF Field
  <2> HIDE DEF x
  <2>5. QED
    BY <2>3, <2>4, Zenon DEF EmbeddingsOf, x
<1>4. QED
  BY <1>2, <1>3, Zenon

\* The rows always fit the schema of their precision: an export fails only
\* when there is nothing to export.
LEMMA AlwaysFits ==
    ASSUME NEW ts, NEW vecs, NEW precision \in Precisions
    PROVE  LET read == ReadBlocks(ts, vecs)
               schema == ArrowSchema(precision)
           IN  /\ PrecisionFits(read, precision, schema)
               /\ FitsSchema(ApplyPrecision(read, precision), schema)
               /\ read = {} <=> ScanAllAt(ts) = {}
<1> DEFINE read == ReadBlocks(ts, vecs)
           schema == ArrowSchema(precision)
           last == IF precision = "float32" THEN "Embedding" ELSE "Binary"
<1>1. /\ DOMAIN schema = 1..3 /\ schema[1] = "Utf8" /\ schema[2] = "Int64" /\ schema[3] = last
  BY DEF ArrowSchema
<1>2. PrecisionFits(read, precision, schema)
  <2>1. \A x \in read : \E r, f : x = OutRow(r, f)
    BY ReadIs, Zenon
  <2>2. ASSUME NEW x \in read
        PROVE  DOMAIN x.fields = 1..3 /\ x.fields[1].kind = "Utf8" /\ x.fields[2].kind = "Int64"
    <3>1. PICK r, f : x = OutRow(r, f)
      BY <2>1, Zenon
    <3>2. QED
      BY <3>1, OutRowIs, Zenon
  <2>3. QED
    BY <1>1, <2>2 DEF PrecisionFits
<1>3. FitsSchema(ApplyPrecision(read, precision), schema)
  <2>1. ASSUME NEW x \in ApplyPrecision(read, precision)
        PROVE  /\ x.fields[1].kind = "Utf8" /\ x.fields[2].kind = "Int64"
               /\ x.fields[3].kind \in {last, "Null"}
    <3>1. PICK r : x = OutRow(r, Code(vecs[r[1]], EmbeddingsOf(read), precision))
      BY WrittenIs
    <3>2. Code(vecs[r[1]], EmbeddingsOf(read), precision).kind \in {last, "Null"}
      BY Zenon DEF Code, Quantise, Third, Field
    <3> DEFINE f == Code(vecs[r[1]], EmbeddingsOf(read), precision)
    <3> HIDE DEF f
    <3>3. x = OutRow(r, f) /\ f.kind \in {last, "Null"}
      BY <3>1, <3>2, Zenon DEF f
    <3>4. x.fields[1].kind = "Utf8" /\ x.fields[2].kind = "Int64" /\ x.fields[3] = f
      BY <3>3, OutRowIs
    <3>5. QED
      BY <3>3, <3>4, Zenon
  <2>2. ASSUME NEW c \in DOMAIN schema PROVE c = 1 \/ c = 2 \/ c = 3
    BY <1>1
  <2>3. QED
    BY <1>1, <2>1, <2>2, Zenon DEF FitsSchema
<1>4. read = {} <=> ScanAllAt(ts) = {}
  BY ReadIs, Zenon
<1>5. QED
  BY <1>2, <1>3, <1>4, Zenon

-----------------------------------------------------------------------------
(* The steps of an export; a tag is a snapshot                             *)

\* A field of an exported row stands for the row's vector.
LEMMA CodeHolds ==
    ASSUME NEW t, t.precision \in Precisions, NEW vec \in VectorSets, NEW v \in vec,
           VectorsOf(t) \subseteq WordVectors, v \in VectorsOf(t)
    PROVE  HoldsVector(Code(vec, VectorsOf(t), t.precision), v, t)
<1> DEFINE all == VectorsOf(t)
<1>1. vec = {v} /\ Third(vec) = Field("Embedding", v)
  BY DEF VectorSets, Third
<1>2. Field("Embedding", v).kind = "Embedding" /\ Field("Embedding", v).val = v
  BY Zenon DEF Field
<1>3. CASE t.precision = "float32"
  BY <1>1, <1>3, Zenon DEF Code, Quantise, HoldsVector
<1>4. CASE t.precision = "rabitq"
  <2>1. Code(vec, all, t.precision) = Field("Binary", RabitqQuantize(v))
    BY <1>1, <1>2, <1>4, Zenon DEF Code, Quantise
  <2>2. QED
    BY <1>4, <2>1, Zenon DEF HoldsVector, RabitqQuantize
<1>5. CASE t.precision = "sq8"
  <2>1. Code(vec, all, t.precision) = Field("Binary", Sq8Quantize(v, all))
    BY <1>1, <1>2, <1>5, Zenon DEF Code, Quantise
  <2>2. NearestCode(Sq8Quantize(v, all), v, all)
    BY Sq8Nearest, Zenon
  <2>3. QED
    BY <1>5, <2>1, <2>2 DEF HoldsVector, Field
<1>6. QED
  BY <1>3, <1>4, <1>5, Zenon DEF Precisions

\* What the exporter writes for a tag of the catalog holds the tag's rows and,
\* where no row of it was deleted, their vectors.
LEMMA DatasetHolds ==
    ASSUME NEW t, TagOK(t), TrTypeOK, NEW d,
           d.rows = ApplyPrecision(ReadBlocks(t.ts, vectors), t.precision)
    PROVE  HoldsRowsOf(d, t) /\ (t.gone # {} \/ HoldsVectorsOf(d, t))
<1> DEFINE all == EmbeddingsOf(ReadBlocks(t.ts, vectors))
           F(r) == Code(vectors[r[1]], all, t.precision)
<1>1. ScanAllAt(t.ts) = t.rows /\ d.rows = {OutRow(r, F(r)) : r \in t.rows}
  <2>1. ScanAllAt(t.ts) = t.rows
    BY Zenon DEF TagOK
  <2>2. d.rows = {OutRow(r, F(r)) : r \in ScanAllAt(t.ts)}
    BY WrittenIs
  <2>3. QED
    BY <2>1, <2>2, Zenon
<1>2. \A r \in t.rows : r[1] \in TrainKeys
  BY <1>1, ScanKeys, Zenon
<1> HIDE DEF F
<1>3. HoldsRowsOf(d, t)
  <2> DEFINE Row(x) == <<x.key, <<x.fields[1], x.fields[2]>>>>
  <2>1. ASSUME NEW r PROVE Row(OutRow(r, F(r))) = <<r[1], ProjectRow(r[2])>>
    BY OutRowFields
  <2>2. HoldsRowsOf(d, t) <=> {Row(x) : x \in d.rows} = {<<r[1], ProjectRow(r[2])>> : r \in t.rows}
    BY Zenon DEF HoldsRowsOf
  <2> HIDE DEF Row
  <2>3. {Row(x) : x \in d.rows} = {Row(OutRow(r, F(r))) : r \in t.rows}
    BY <1>1, Zenon
  <2>4. {Row(OutRow(r, F(r))) : r \in t.rows} = {<<r[1], ProjectRow(r[2])>> : r \in t.rows}
    BY <2>1, Zenon
  <2>5. QED
    BY <2>2, <2>3, <2>4, Zenon
<1>4. ASSUME t.gone = {} PROVE HoldsVectorsOf(d, t)
  <2>1. \A r \in t.rows : vectors[r[1]] = t.vecs[r[1]]
    BY <1>4, Zenon DEF TagOK, Vouched
  <2>2. all = VectorsOf(t)
    <3>1. all = UNION {vectors[r[1]] : r \in t.rows}
      BY <1>1, EmbeddingsAre, Zenon DEF TrTypeOK
    <3> HIDE DEF all
    <3>2. QED
      BY <2>1, <3>1, Zenon DEF VectorsOf
  <2>3. VectorsOf(t) \subseteq WordVectors
    BY <1>2, <2>1 DEF VectorsOf, VectorSets, TrTypeOK
  <2> HIDE DEF all
  <2>4. ASSUME NEW r \in t.rows
        PROVE  IF t.vecs[r[1]] = {} THEN F(r).kind = "Null"
               ELSE \A v \in t.vecs[r[1]] : HoldsVector(F(r), v, t)
    <3>1. vectors[r[1]] \in VectorSets /\ vectors[r[1]] = t.vecs[r[1]]
      BY <1>2, <2>1, Zenon DEF TrTypeOK
    <3>2. CASE t.vecs[r[1]] = {}
      BY <3>1, <3>2, Zenon DEF F, Code, Third, Quantise, Field
    <3>3. ASSUME NEW v \in t.vecs[r[1]] PROVE HoldsVector(F(r), v, t)
      <4>1. v \in VectorsOf(t)
        BY <3>3, Zenon DEF VectorsOf
      <4>2. t.precision \in Precisions
        BY Zenon DEF TagOK
      <4>3. QED
        BY <2>2, <2>3, <3>1, <4>1, <4>2, CodeHolds, Zenon DEF F
    <3>4. QED
      BY <3>2, <3>3, Zenon
  <2>5. ASSUME NEW x \in d.rows
        PROVE  IF t.vecs[x.key] = {} THEN x.fields[3].kind = "Null"
               ELSE \A v \in t.vecs[x.key] : HoldsVector(x.fields[3], v, t)
    <3>1. PICK r \in t.rows : x = OutRow(r, F(r))
      BY <1>1, Zenon
    <3>2. x.key = r[1] /\ x.fields[3] = F(r)
      BY <3>1, OutRowIs
    <3>3. QED
      BY <2>4, <3>2, Zenon
  <2>6. QED
    BY <2>5, Zenon DEF HoldsVectorsOf
<1>5. QED
  BY <1>3, <1>4, Zenon

\* A database opens without tags, exports and datasets.
LEMMA TrInitInv == TrainInit => TrInv
  BY DEF TrainInit, TrInv, TrTypeOK, VectorSets, Tagged, Exporting, Exported

\* The steps of training_dataset, and the restart.
LEMMA ExportInv ==
    ASSUME TrInv, ExportStart \/ ExportWrite \/ ExportRecord \/ ReopenTrain
    PROVE  TrInv'
<1>1. UNCHANGED <<versions, trainTs, vectors>> /\ (tagCatalog' = tagCatalog \/ tagCatalog' = {})
  BY Zenon DEF ExportStart, ExportWrite, ExportRecord, ReopenTrain
<1>2. TrTypeOK'
  BY <1>1, Zenon DEF TrInv, TrTypeOK
<1>3. Tagged'
  <2>1. ASSUME NEW t \in tagCatalog PROVE TagOK(t)'
    <3>1. TagOK(t)
      BY Zenon DEF TrInv, Tagged
    <3>2. QED
      BY <1>1, <3>1, TagStays, Zenon
  <2>2. QED
    BY <1>1, <2>1, Zenon DEF TrInv, Tagged
<1>4. CASE ExportStart
  <2>1. PICK t \in tagCatalog :
          /\ exporting' = {[stage |-> "write", tag |-> t, vecs |-> vectors, hash |-> {}]}
          /\ datasets' \subseteq datasets /\ UNCHANGED <<vectors, tagCatalog>>
    BY <1>4, Zenon DEF ExportStart
  <2> DEFINE e == [stage |-> "write", tag |-> t, vecs |-> vectors, hash |-> {}]
  <2>2. exporting' = {e} /\ e.tag = t /\ e.vecs = vectors
        /\ DOMAIN e = {"stage", "tag", "vecs", "hash"}
    BY <2>1, Zenon
  <2> HIDE DEF e
  <2>3. Exporting'
    BY <2>1, <2>2, Zenon DEF Exporting
  <2>4. Exported'
    BY <2>1, Zenon DEF TrInv, Exported
  <2>5. QED
    BY <1>2, <1>3, <2>3, <2>4, Zenon DEF TrInv
<1>5. CASE ExportWrite
  <2>1. PICK e \in exporting :
          LET read == ReadBlocks(e.tag.ts, e.vecs)
              rows == ApplyPrecision(read, e.tag.precision)
          IN  /\ \/ exporting' = {} /\ datasets' = datasets
                 \/ /\ exporting' = {[e EXCEPT !.stage = "record", !.hash = ContentHash(rows)]}
                    /\ datasets' = datasets \cup
                                     {[path |-> OutputPath(e.tag), rows |-> rows, of |-> e.tag]}
              /\ UNCHANGED <<vectors, tagCatalog>>
    BY <1>5, Zenon DEF ExportWrite
  <2>2. e.tag \in tagCatalog /\ e.vecs = vectors /\ TagOK(e.tag)
        /\ DOMAIN e = {"stage", "tag", "vecs", "hash"}
    BY Zenon DEF TrInv, Exporting, Tagged
  <2> DEFINE rows == ApplyPrecision(ReadBlocks(e.tag.ts, vectors), e.tag.precision)
             d == [path |-> OutputPath(e.tag), rows |-> rows, of |-> e.tag]
             f == [e EXCEPT !.stage = "record", !.hash = ContentHash(rows)]
  <2>3. \/ exporting' = {} /\ datasets' = datasets
        \/ exporting' = {f} /\ datasets' = datasets \cup {d}
    BY <2>1, <2>2, Zenon
  <2>4. f.tag = e.tag /\ f.vecs = e.vecs /\ DOMAIN f = DOMAIN e
    BY <2>2, Zenon
  <2>5. HoldsRowsOf(d, d.of) /\ (d.of.gone # {} \/ HoldsVectorsOf(d, d.of))
    BY <2>2, DatasetHolds, Zenon DEF TrInv
  <2> HIDE DEF d, f
  <2>6. Exporting'
    BY <2>1, <2>2, <2>3, <2>4, Zenon DEF Exporting
  <2>7. Exported'
    BY <2>3, <2>5, Zenon DEF TrInv, Exported
  <2>8. QED
    BY <1>2, <1>3, <2>6, <2>7, Zenon DEF TrInv
<1>6. CASE ExportRecord \/ ReopenTrain
  <2>1. Exporting' /\ Exported'
    BY <1>6, Zenon DEF ExportRecord, ReopenTrain, TrInv, Exporting, Exported
  <2>2. QED
    BY <1>2, <1>3, <2>1, Zenon DEF TrInv
<1>7. QED
  BY <1>4, <1>5, <1>6, Zenon

\* Every step keeps the invariant.
LEMMA TrStepInv == TrInv /\ [TrainNext]_trainVars => TrInv'
<1> SUFFICES ASSUME TrInv, [TrainNext]_trainVars PROVE TrInv'
  BY Zenon
<1>1. CASE InsertTrain
  <2>1. PICK k \in TrainKeys, w \in WordVectors, embedded \in BOOLEAN :
          ~Live(k) /\ PutTrain(k, {[word |-> w, note |-> {}]}, IF embedded THEN {w} ELSE {})
    BY <1>1, Zenon DEF InsertTrain
  <2>2. (IF embedded THEN {w} ELSE {}) \in VectorSets
    BY Zenon DEF VectorSets
  <2>3. QED
    BY <2>1, <2>2, SnapshotPutInv, Zenon
<1>2. CASE UpdateTrain
  <2>1. PICK k \in TrainKeys : \E row : PutTrain(k, row, vectors[k])
    BY <1>2, Zenon DEF UpdateTrain
  <2>2. vectors[k] \in VectorSets
    BY Zenon DEF TrInv, TrTypeOK
  <2>3. QED
    BY <2>1, <2>2, SnapshotPutInv, Zenon
<1>3. CASE DeleteTrain
  BY <1>3, SnapshotPutInv, Zenon DEF DeleteTrain, VectorSets
<1>4. CASE CreateVersionTag \/ CreateTrainingSnapshot
  BY <1>4, TagInv, Zenon DEF CreateVersionTag, CreateTrainingSnapshot, Precisions
<1>5. CASE UNCHANGED trainVars
  <2>1. TrTypeOK' /\ Exporting' /\ Exported'
    BY <1>5, Zenon DEF trainVars, TrInv, TrTypeOK, Exporting, Exported
  <2>2. ASSUME NEW t, TagOK(t) PROVE TagOK(t)'
    BY <1>5, <2>2, TagStays, Zenon DEF trainVars
  <2>3. Tagged'
    BY <1>5, <2>2, Zenon DEF trainVars, TrInv, Tagged
  <2>4. QED
    BY <2>1, <2>3, Zenon DEF TrInv
<1>6. QED
  BY <1>1, <1>2, <1>3, <1>4, <1>5, CompactInv, ExportInv, Zenon DEF TrainNext

\* A tag is a snapshot, and a dataset exported from it holds its rows and, when
\* none of them was deleted since, its vectors: whatever is written, compacted
\* and exported in between (tags.rs, compact_inner, export.rs).
THEOREM TagIsSnapshot == TrainSpec => []TagIsSnapshotUnlessRevectored
<1>1. TrInv => TagIsSnapshotUnlessRevectored
  <2> SUFFICES ASSUME TrInv PROVE TagIsSnapshotUnlessRevectored
    BY Zenon
  <2>1. ASSUME NEW t \in tagCatalog
        PROVE  FullScanAtVersion(t.name) = t.rows /\ MerkleRoot(t.ts) = t.root
    <3>1. TagOK(t)
      BY Zenon DEF TrInv, Tagged
    <3>2. {u \in tagCatalog : u.name = t.name} = {t}
      BY Zenon DEF TrInv, Tagged
    <3>3. FullScanAtVersion(t.name) = ScanAllAt(t.ts)
      BY <3>2, Zenon DEF FullScanAtVersion, ResolveTag
    <3>4. QED
      BY <3>1, <3>3, Zenon DEF TagOK, MerkleRoot
  <2>2. QED
    BY <2>1, Zenon DEF TrInv, Exported, TagIsSnapshotUnlessRevectored
<1>2. QED
  BY <1>1, TrInitInv, TrStepInv, PTL DEF TrainSpec

-----------------------------------------------------------------------------
(* The audit trail                                                         *)

\* The directory of a lineage row: replaced since by the export of a later row,
\* about to be, or still as it was.
Leads(l) ==
    \/ \E m \in recorded : m.path = l.path /\ m.id > l.id
    \/ \E e \in exporting : OutputPath(e.tag) = l.path
    \/ \E d \in datasets : d.path = l.path /\ ContentHash(d.rows) = l.row.hash

\* Ids are handed out in order; a recorded path is that of a tag with rows, so
\* that an export to it cannot fail; and an export about to be recorded has
\* written its dataset.
Recorded ==
    /\ nextLineage \in Nat
    /\ \A l \in recorded :
           /\ l.id \in Nat /\ l.id < nextLineage
           /\ [id |-> l.id, row |-> l.row] \in lineage
           /\ \E t \in tagCatalog : t.ts = l.path[2] /\ t.rows # {}
           /\ Leads(l)
    /\ \A e, f \in exporting : e = f
    /\ \A e \in exporting :
           e.stage = "record" =>
               /\ e.tag.rows # {}
               /\ \E d \in datasets : d.path = OutputPath(e.tag) /\ ContentHash(d.rows) = e.hash

----------------------------------------------------------------------------
\* A step that only adds tags, or marks rows of them as deleted.
LEMMA RecordedKept ==
    ASSUME Recorded, UNCHANGED <<exporting, datasets, lineage, nextLineage, recorded>>,
           \A t \in tagCatalog : \E u \in tagCatalog' : u.ts = t.ts /\ u.rows = t.rows
    PROVE  Recorded'
<1>1. ASSUME NEW l \in recorded
      PROVE  (\E t \in tagCatalog' : t.ts = l.path[2] /\ t.rows # {}) /\ Leads(l)'
  <2>1. PICK t \in tagCatalog : t.ts = l.path[2] /\ t.rows # {}
    BY Zenon DEF Recorded
  <2>2. PICK u \in tagCatalog' : u.ts = t.ts /\ u.rows = t.rows
    BY <2>1, Zenon
  <2>3. Leads(l)'
    BY Zenon DEF Recorded, Leads
  <2>4. QED
    BY <2>1, <2>2, <2>3, Zenon
<1>2. QED
  BY <1>1, Zenon DEF Recorded

\* A write leaves the tags what the audit trail needs of them.
LEMMA PutRecorded ==
    ASSUME TrInv, Recorded, NEW k \in TrainKeys, NEW row, NEW vec, PutTrain(k, row, vec)
    PROVE  Recorded'
<1>1. CASE row # {}
  BY <1>1, RecordedKept, Zenon DEF PutTrain
<1>2. CASE row = {}
  <2> DEFINE G(t) == [t EXCEPT !.gone = @ \cup {k}]
  <2>1. tagCatalog' = {G(t) : t \in tagCatalog}
    BY <1>2, Zenon DEF PutTrain
  <2>2. ASSUME NEW t \in tagCatalog PROVE G(t).ts = t.ts /\ G(t).rows = t.rows
    BY Zenon DEF TrInv, Tagged, TagOK
  <2> HIDE DEF G
  <2>3. \A t \in tagCatalog : \E u \in tagCatalog' : u.ts = t.ts /\ u.rows = t.rows
    BY <2>1, <2>2, Zenon
  <2>4. QED
    BY <2>3, RecordedKept, Zenon DEF PutTrain
<1>3. QED
  BY <1>1, <1>2, Zenon

\* training_dataset removes an earlier dataset of the same path.
LEMMA ExportStartRecorded ==
    ASSUME Recorded, ExportStart
    PROVE  Recorded'
<1>1. PICK t \in tagCatalog :
        /\ exporting = {}
        /\ exporting' = {[stage |-> "write", tag |-> t, vecs |-> vectors, hash |-> {}]}
        /\ datasets' = {d \in datasets : d.path # OutputPath(t)}
        /\ UNCHANGED <<tagCatalog, lineage, nextLineage, recorded>>
  BY Zenon DEF ExportStart
<1>2. ASSUME NEW l \in recorded PROVE Leads(l)'
  <2>1. CASE l.path = OutputPath(t)
    BY <1>1, <2>1, Zenon DEF Leads
  <2>2. CASE l.path # OutputPath(t)
    BY <1>1, <2>2, Zenon DEF Leads, Recorded
  <2>3. QED
    BY <2>1, <2>2, Zenon
<1>3. \A g, h \in exporting' : g = h
  BY <1>1, Zenon
<1>4. \A g \in exporting' : g.stage # "record"
  <2> DEFINE w == [stage |-> "write", tag |-> t, vecs |-> vectors, hash |-> {}]
  <2>1. w.stage = "write"
    BY Zenon
  <2>2. exporting' = {w}
    BY <1>1, Zenon
  <2> HIDE DEF w
  <2>3. QED
    BY <2>1, <2>2, Zenon
<1>5. QED
  BY <1>1, <1>2, <1>3, <1>4, Zenon DEF Recorded

\* The export to a path that was recorded before cannot fail: it has rows, and
\* rows fit their schema.
LEMMA ExportWriteRecorded ==
    ASSUME TrInv, Recorded, ExportWrite
    PROVE  Recorded'
<1>1. PICK e \in exporting :
        LET read == ReadBlocks(e.tag.ts, e.vecs)
            schema == ArrowSchema(e.tag.precision)
            rows == ApplyPrecision(read, e.tag.precision)
            fails == \/ read = {}
                     \/ ~PrecisionFits(read, e.tag.precision, schema) \/ ~FitsSchema(rows, schema)
        IN
        /\ exporting' = IF fails THEN {}
                        ELSE {[e EXCEPT !.stage = "record", !.hash = ContentHash(rows)]}
        /\ datasets' = IF fails THEN datasets
                       ELSE datasets \cup
                              {[path |-> OutputPath(e.tag), rows |-> rows, of |-> e.tag]}
        /\ UNCHANGED <<tagCatalog, lineage, nextLineage, recorded>>
  BY Zenon DEF ExportWrite
<1> DEFINE rows == ApplyPrecision(ReadBlocks(e.tag.ts, e.vecs), e.tag.precision)
           d == [path |-> OutputPath(e.tag), rows |-> rows, of |-> e.tag]
           f == [e EXCEPT !.stage = "record", !.hash = ContentHash(rows)]
<1>2. /\ DOMAIN e = {"stage", "tag", "vecs", "hash"} /\ e.tag \in tagCatalog
      /\ e.tag.precision \in Precisions /\ ScanAllAt(e.tag.ts) = e.tag.rows
      /\ \A t \in tagCatalog : ScanAllAt(t.ts) = t.rows
  BY Zenon DEF TrInv, Exporting, Tagged, TagOK
<1>3. IF e.tag.rows = {} THEN exporting' = {} /\ datasets' = datasets
      ELSE exporting' = {f} /\ datasets' = datasets \cup {d}
  BY <1>1, <1>2, AlwaysFits, Zenon
<1>4. f.tag = e.tag /\ f.hash = ContentHash(rows) /\ d.path = OutputPath(e.tag) /\ d.rows = rows
  BY <1>2, Zenon
<1> HIDE DEF d, f, rows
<1>5. ASSUME NEW l \in recorded PROVE Leads(l)'
  <2>1. CASE \E g \in exporting : OutputPath(g.tag) = l.path
    <3>1. OutputPath(e.tag) = l.path /\ e.tag.ts = l.path[2]
      <4>1. OutputPath(e.tag) = l.path
        BY <2>1, Zenon DEF Recorded
      <4>2. OutputPath(e.tag)[2] = e.tag.ts
        BY Zenon DEF OutputPath
      <4>3. QED
        BY <4>1, <4>2, Zenon
    <3>2. e.tag.rows # {}
      <4>1. PICK t \in tagCatalog : t.ts = l.path[2] /\ t.rows # {}
        BY Zenon DEF Recorded
      <4>2. QED
        BY <1>2, <3>1, <4>1, Zenon
    <3>3. QED
      BY <1>3, <1>4, <3>1, <3>2, Zenon DEF Leads
  <2>2. CASE ~\E g \in exporting : OutputPath(g.tag) = l.path
    BY <1>1, <1>3, <2>2, Zenon DEF Leads, Recorded
  <2>3. QED
    BY <2>1, <2>2, Zenon
<1>6. \A g, h \in exporting' : g = h
  BY <1>3, Zenon
<1>7. \A g \in exporting' :
        /\ g.tag.rows # {}
        /\ \E c \in datasets' : c.path = OutputPath(g.tag) /\ ContentHash(c.rows) = g.hash
  BY <1>3, <1>4, Zenon
<1>8. QED
  BY <1>1, <1>5, <1>6, <1>7, Zenon DEF Recorded

\* The lineage row takes an id no recorded row has.
LEMMA ExportRecordRecorded ==
    ASSUME TrInv, Recorded, ExportRecord
    PROVE  Recorded'
<1>1. PICK e \in exporting :
        /\ e.stage = "record"
        /\ lineage' = PutLineage(nextLineage, LineageRow(e))
        /\ recorded' = recorded \cup {[id |-> nextLineage, row |-> LineageRow(e),
                                       path |-> OutputPath(e.tag)]}
        /\ nextLineage' = nextLineage + 1 /\ exporting' = {}
        /\ UNCHANGED <<tagCatalog, datasets>>
  BY Zenon DEF ExportRecord
<1>0. PICK n : n = [id |-> nextLineage, row |-> LineageRow(e), path |-> OutputPath(e.tag)]
  BY Zenon
<1>2. /\ n.id = nextLineage /\ n.row = LineageRow(e) /\ n.path = OutputPath(e.tag)
      /\ n.row.hash = e.hash /\ n.path[2] = e.tag.ts /\ nextLineage \in Nat
      /\ recorded' = recorded \cup {n}
  BY <1>0, <1>1, Zenon DEF LineageRow, OutputPath, Recorded
<1>3. /\ [id |-> n.id, row |-> n.row] \in lineage'
      /\ \A l \in recorded : [id |-> l.id, row |-> l.row] \in lineage'
  <2>1. lineage' = {l \in lineage : l.id # n.id} \cup {[id |-> n.id, row |-> n.row]}
    BY <1>1, <1>2, Zenon DEF PutLineage
  <2>2. ASSUME NEW l \in recorded PROVE [id |-> l.id, row |-> l.row] \in lineage'
    <3>1. [id |-> l.id, row |-> l.row] \in lineage /\ l.id < nextLineage /\ l.id \in Nat
      BY Zenon DEF Recorded
    <3>2. l.id # n.id
      BY <1>2, <3>1, Counting, Zenon
    <3> DEFINE m == [id |-> l.id, row |-> l.row]
    <3>3. m.id = l.id
      BY Zenon
    <3>4. QED
      BY <2>1, <3>1, <3>2, <3>3, Zenon
  <2>3. QED
    BY <2>1, <2>2, Zenon
<1>4. Leads(n)' /\ \E t \in tagCatalog : t.ts = n.path[2] /\ t.rows # {}
  <2>1. \E d \in datasets : d.path = OutputPath(e.tag) /\ ContentHash(d.rows) = e.hash
    BY <1>1, Zenon DEF Recorded
  <2>2. e.tag \in tagCatalog /\ e.tag.rows # {}
    BY <1>1, Zenon DEF Recorded, TrInv, Exporting
  <2>3. QED
    <3>1. \E d \in datasets' : d.path = n.path /\ ContentHash(d.rows) = n.row.hash
      BY <1>1, <1>2, <2>1, Zenon
    <3>2. Leads(n)'
      BY <3>1, Zenon DEF Leads, ContentHash
    <3>3. QED
      BY <1>2, <2>2, <3>2, Zenon
<1>5. ASSUME NEW l \in recorded PROVE Leads(l)'
  <2>1. l.id < nextLineage /\ l.id \in Nat
    BY Zenon DEF Recorded
  <2>2. CASE \E g \in exporting : OutputPath(g.tag) = l.path
    <3>1. n.path = l.path /\ n.id > l.id /\ n \in recorded'
      BY <1>2, <2>1, <2>2, Zenon DEF Recorded
    <3>2. QED
      BY <3>1, Zenon DEF Leads
  <2>3. CASE ~\E g \in exporting : OutputPath(g.tag) = l.path
    BY <1>1, <1>2, <2>3, Zenon DEF Leads, Recorded
  <2>4. QED
    BY <2>2, <2>3, Zenon
<1>6. QED
  <2>0. nextLineage' \in Nat /\ nextLineage < nextLineage' /\ exporting' = {}
    BY <1>1, <1>2, Counting, Zenon
  <2>1. ASSUME NEW l \in recorded'
        PROVE  /\ l.id \in Nat /\ l.id < nextLineage'
               /\ \E t \in tagCatalog' : t.ts = l.path[2] /\ t.rows # {}
    <3>1. CASE l = n
      BY <1>1, <1>2, <1>4, <2>0, <3>1, Zenon
    <3>2. CASE l \in recorded
      <4>1. /\ l.id \in Nat /\ l.id < nextLineage
            /\ \E t \in tagCatalog : t.ts = l.path[2] /\ t.rows # {}
        BY <3>2, Zenon DEF Recorded
      <4>2. l.id < nextLineage'
        BY <1>1, <1>2, <4>1, Counting, Zenon
      <4>3. QED
        BY <1>1, <4>1, <4>2, Zenon
    <3>3. QED
      BY <1>2, <3>1, <3>2, Zenon
  <2>2. \A l \in recorded' : Leads(l)' /\ [id |-> l.id, row |-> l.row] \in lineage'
    BY <1>2, <1>3, <1>4, <1>5, Zenon
  <2>3. QED
    BY <2>0, <2>1, <2>2, Zenon DEF Recorded

\* Every step keeps the audit trail.
LEMMA RecordedStep == TrInv /\ Recorded /\ [TrainNext]_trainVars => Recorded'
<1> SUFFICES ASSUME TrInv, Recorded, [TrainNext]_trainVars PROVE Recorded'
  BY Zenon
<1>1. CASE InsertTrain \/ UpdateTrain \/ DeleteTrain
  <2>1. \E k \in TrainKeys : \E row, vec : PutTrain(k, row, vec)
    BY <1>1, Zenon DEF InsertTrain, UpdateTrain, DeleteTrain
  <2>2. QED
    BY <2>1, PutRecorded, Zenon
<1>2. CASE CreateVersionTag \/ CreateTrainingSnapshot \/ CompactTrain \/ UNCHANGED trainVars
  <2>1. /\ UNCHANGED <<exporting, datasets, lineage, nextLineage, recorded>>
        /\ tagCatalog \subseteq tagCatalog'
    BY <1>2, Zenon DEF CreateVersionTag, CreateTrainingSnapshot, CreateTagAt, CompactTrain,
                       trainVars
  <2>2. QED
    BY <2>1, RecordedKept, Zenon
<1>3. CASE ReopenTrain
  BY <1>3, Zenon DEF ReopenTrain, Recorded
<1>4. QED
  BY <1>1, <1>2, <1>3, ExportStartRecorded, ExportWriteRecorded, ExportRecordRecorded,
     Zenon DEF TrainNext

\* The audit trail of a process is permanent and leads to what was exported
\* (Database::training_dataset and its lineage table).
THEOREM LineageLeads == TrainSpec => []LineageLeadsToDataset
<1>1. TrainInit => Recorded
  <2>1. TrainInit => nextLineage = 1 /\ recorded = {} /\ exporting = {}
    BY Zenon DEF TrainInit
  <2>2. 1 \in Nat
    OBVIOUS
  <2>3. QED
    BY <2>1, <2>2, Zenon DEF Recorded
<1>2. Recorded => LineageLeadsToDataset
  BY Zenon DEF Recorded, Leads, LineageLeadsToDataset
<1>3. QED
  BY <1>1, <1>2, TrInitInv, TrStepInv, RecordedStep, PTL DEF TrainSpec

=============================================================================
