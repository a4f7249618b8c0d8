------------------------------- MODULE Backup -------------------------------
(***************************************************************************)
(* BACKUP TO and RESTORE FROM: exec_backup and exec_restore of             *)
(* crates/galaxdb-sql/src/executor.rs, backup_to, copy_backup_files,       *)
(* validate_backup and restore_from of galaxdb-storage's engine.rs, and    *)
(* the object stores of galaxdb-backup.                                    *)
(*                                                                         *)
(* The statement holds the database's lock, so no row is written while it  *)
(* runs; the compaction worker does not take that lock.  A directory or a  *)
(* store holds `log`, the records of wal.log ({} when there is none), and  *)
(* `ssts`, from file number to rows, Damaged when a block is bad.          *)
(*                                                                         *)
(* The last part is the calendar arithmetic that dates signed requests:    *)
(* format_amz_time and format_rfc1123 of crates/galaxdb-backup/src/sign.rs *)
(* and now_amz_time of crates/galaxdb-crypto/src/cloud_kms.rs.  A clock    *)
(* ticks day by day and carries the calendar beside the day count the code *)
(* starts from.                                                            *)
(***************************************************************************)
EXTENDS Integers, Sequences, FiniteSets, FiniteSetsExt

CONSTANTS
    BackupKeys, Targets,    \* Targets \subseteq {"dir", "s3", "gs", "az"}
    PageLimit,              \* objects in one page of a store's listing
    MaxWrites, MaxHomeFiles, MaxBackups, MaxMerges, MaxDamage     \* bounds

ASSUME BackupConstants ==
    /\ Targets \subseteq {"dir", "s3", "gs", "az"} /\ PageLimit \in Nat
    /\ {MaxWrites, MaxHomeFiles, MaxBackups, MaxMerges, MaxDamage} \subseteq Nat

Empty == [log |-> {}, ssts |-> <<>>]

VARIABLES
    target,         \* what BACKUP TO names
    home,           \* the engine's data directory
    unflushed,      \* keys in the memtable
    merge,          \* the compaction worker's inputs, {} when idle
    nextFile,
    stage,          \* the staging directory
    store,          \* the backup: a directory or a bucket
    step,           \* the statement running and how far it is
    todo,           \* files it has still to copy or move
    puts, backups, merges, damage,
    saved,          \* history: the log at the last BACKUP that succeeded, {} for none
    mixed, clipped, crowded     \* history

stateVars == <<home, unflushed, merge, nextFile>>
moveVars  == <<stage, store, step, todo>>
limitVars == <<puts, backups, merges, damage>>
pastVars  == <<saved, mixed, clipped, crowded>>
backupVars == <<target, stateVars, moveVars, limitVars, pastVars>>

BackupInit ==
    /\ target \in Targets
    /\ home = [Empty EXCEPT !.log = {<<>>}] /\ unflushed = {} /\ merge = {} /\ nextFile = 1
    /\ stage = Empty /\ store = Empty /\ step = "idle" /\ todo = {}
    /\ puts = 0 /\ backups = 0 /\ merges = 0 /\ damage = 0
    /\ saved = {} /\ mixed = FALSE /\ clipped = FALSE /\ crowded = FALSE

----------------------------------------------------------------------------
(* Directories                                                             *)

WalLog == 0
\* A file set without the log.
NamesSsts(d) == DOMAIN d.ssts
Names(d) == {WalLog : l \in d.log} \cup DOMAIN d.ssts

\* Files of `from` copied over the files of those names in `to`.
WithFiles(to, from, ns) ==
    [log  |-> IF WalLog \in ns THEN from.log ELSE to.log,
     ssts |-> [m \in DOMAIN to.ssts \cup (ns \ {WalLog}) |->
                 IF m \in ns THEN from.ssts[m] ELSE to.ssts[m]]]
WithoutFiles(d, ns) == [d EXCEPT !.ssts = [m \in DOMAIN d.ssts \ ns |-> d.ssts[m]]]

Row(k, i, v) == [key |-> k, ts |-> i, val |-> v]
Damaged == {Row("damaged", 0, 0)}

\* The last record of key k in a log: its position, 0 for none.
LastOf(log, k) == Max({0} \cup {i \in DOMAIN log : log[i].key = k})
RowsOf(log, ks) == {Row(k, LastOf(log, k), log[LastOf(log, k)].val) : k \in ks}

\* What an engine opened on directory d reads for k, 0 for no row: the
\* replayed log overrides the SSTs, among which the newest row counts.
Reads(d, k) ==
    LET log  == IF d.log = {} THEN <<>> ELSE CHOOSE l \in d.log : TRUE
        rows == {r \in UNION {d.ssts[n] : n \in DOMAIN d.ssts} : r.key = k}
    IN  IF LastOf(log, k) > 0 THEN log[LastOf(log, k)].val
        ELSE IF rows = {} THEN 0
        ELSE (CHOOSE r \in rows : \A q \in rows : q.ts <= r.ts).val

Log == CHOOSE l \in home.log : TRUE

----------------------------------------------------------------------------
(* The engine: a put or delete, and the compaction worker                  *)

\* The value is the record's number, 0 for a delete.
Write(k, del) ==
    /\ step = "idle" /\ puts < MaxWrites
    /\ puts' = puts + 1
    /\ home' = [home EXCEPT !.log =
                   {Append(Log, [key |-> k, val |-> IF del THEN 0 ELSE puts + 1])}]
    /\ unflushed' = unflushed \cup {k}
    /\ UNCHANGED <<target, merge, nextFile, moveVars, backups, merges, damage, pastVars>>

\* flush_memtable
Flushed ==
    IF unflushed = {} THEN home
    ELSE [home EXCEPT !.ssts = [m \in DOMAIN home.ssts \cup {nextFile} |->
                                  IF m = nextFile THEN RowsOf(Log, unflushed) ELSE home.ssts[m]]]

FlushNow ==
    /\ step = "idle" /\ unflushed # {} /\ nextFile < MaxHomeFiles
    /\ home' = Flushed /\ unflushed' = {} /\ nextFile' = nextFile + 1
    /\ UNCHANGED <<target, merge, moveVars, limitVars, pastVars>>

\* The worker registers its output, then unlinks the inputs.
MergeWrite ==
    LET rows == UNION {home.ssts[n] : n \in DOMAIN home.ssts}
        live == {r \in rows : r.val # 0 /\ \A q \in rows : q.key = r.key => q.ts <= r.ts}
    IN  /\ merge = {} /\ merges < MaxMerges /\ Cardinality(DOMAIN home.ssts) > 1
        /\ step # "restored"
        /\ merges' = merges + 1 /\ merge' = DOMAIN home.ssts
        /\ home' = IF live = {} THEN home
                   ELSE [home EXCEPT !.ssts = [m \in DOMAIN home.ssts \cup {nextFile} |->
                                                 IF m = nextFile THEN live ELSE home.ssts[m]]]
        /\ nextFile' = IF live = {} THEN nextFile ELSE nextFile + 1
        /\ UNCHANGED <<target, unflushed, moveVars, puts, backups, damage, pastVars>>

MergeUnlink ==
    /\ merge # {} /\ step # "restored"
    /\ \E n \in merge : home' = WithoutFiles(home, {n}) /\ merge' = merge \ {n}
    /\ UNCHANGED <<target, unflushed, nextFile, moveVars, limitVars, pastVars>>

----------------------------------------------------------------------------
(* BACKUP TO                                                               *)

\* exec_backup, backup_to: the memtable is flushed and the directory listed;
\* a store gets its files by way of an empty staging directory.
BackupBegin ==
    /\ step = "idle" /\ backups < MaxBackups
    /\ backups' = backups + 1
    /\ home' = Flushed /\ unflushed' = {}
    /\ nextFile' = IF unflushed = {} THEN nextFile ELSE nextFile + 1
    /\ todo' = Names(Flushed) /\ stage' = Empty /\ step' = "copy"
    /\ UNCHANGED <<target, merge, store, puts, merges, damage, pastVars>>

Failed == step' = "idle" /\ todo' = {} /\ stage' = Empty

\* copy_backup_files: a listed file that is gone ends the statement, what it
\* copied stays.
CopyFile(n) ==
    /\ step = "copy" /\ n \in todo
    /\ IF n \notin Names(home)
       THEN Failed /\ UNCHANGED store
       ELSE /\ todo' = todo \ {n} /\ UNCHANGED step
            /\ IF target = "dir" THEN store' = WithFiles(store, home, {n}) /\ UNCHANGED stage
               ELSE stage' = WithFiles(stage, home, {n}) /\ UNCHANGED store
    /\ mixed' = (mixed \/ (target = "dir" /\ step' = "idle"))
    /\ UNCHANGED <<target, stateVars, limitVars, saved, clipped, crowded>>

CopyDone ==
    /\ step = "copy" /\ todo = {}
    /\ IF target = "dir" THEN step' = "saved" /\ UNCHANGED todo
       ELSE step' = "upload" /\ todo' = Names(stage)
    /\ UNCHANGED <<target, stateVars, stage, store, limitVars, pastVars>>

\* ObjectStore::put of each store, under bucket and prefix.
S3Put(from, ns) == WithFiles(store, from, ns)
GcsPut(from, ns) == WithFiles(store, from, ns)
AzurePut(from, ns) == WithFiles(store, from, ns)
StorePut(from, ns) ==
    CASE target = "s3" -> S3Put(from, ns)
      [] target = "gs" -> GcsPut(from, ns)
      [] target = "az" -> AzurePut(from, ns)

\* upload_dir: put replaces the object of that name.  Nobody else
\* looks at the store meanwhile, so the puts are one step; they stop at the
\* first that fails, in a directory order that may be any.
Upload(ns) ==
    /\ step = "upload" /\ ns \subseteq todo
    /\ store' = StorePut(stage, ns)
    /\ IF ns = todo THEN step' = "saved" /\ todo' = {} /\ UNCHANGED <<stage, mixed>>
       ELSE Failed /\ mixed' = (mixed \/ store # Empty)
    /\ UNCHANGED <<target, stateVars, limitVars, saved, clipped, crowded>>

BackupEnd ==
    /\ step = "saved"
    /\ step' = "idle" /\ stage' = Empty /\ saved' = home.log /\ mixed' = FALSE
    /\ UNCHANGED <<target, stateVars, store, todo, limitVars, clipped, crowded>>

\* A stored SST is damaged.
DamageObject(n) ==
    /\ step = "idle" /\ backups = MaxBackups /\ damage < MaxDamage /\ n \in DOMAIN store.ssts
    /\ damage' = damage + 1 /\ store' = [store EXCEPT !.ssts[n] = Damaged]
    /\ UNCHANGED <<target, stateVars, stage, step, todo, puts, backups, merges,
                   pastVars>>

----------------------------------------------------------------------------
(* RESTORE FROM                                                            *)

\* A store lists its objects in name order, "sst_*" before "wal.log", and
\* the listing is not continued past its first page.
FirstPage(ns) ==
    {n \in ns : Cardinality({m \in ns : m # WalLog /\ (n = WalLog \/ m < n)}) < PageLimit}
S3Fetch == WithFiles(Empty, store, FirstPage(Names(store)))
GcsFetch == WithFiles(Empty, store, FirstPage(Names(store)))
AzureFetch == WithFiles(Empty, store, FirstPage(Names(store)))
\* download_dir; a local directory is read in place.
Download ==
    CASE target = "dir" -> store
      [] target = "s3" -> S3Fetch
      [] target = "gs" -> GcsFetch
      [] target = "az" -> AzureFetch

DownloadFails ==
    /\ step = "idle" /\ saved # {} /\ target # "dir"
    /\ UNCHANGED backupVars

\* validate_backup: every block of every SST is parsed and its checksum
\* compared; the log is not looked at.
Valid(d) == \A n \in DOMAIN d.ssts : d.ssts[n] # Damaged

\* restore_from: the files are copied over those of the data directory, or
\* of a new engine's when the operator restores there.  Until the engine is
\* opened again nothing depends on how far the copying is.
Restore(new) ==
    LET into == IF new THEN Empty ELSE home
    IN  /\ step = "idle" /\ saved # {} /\ Valid(Download)
        /\ home' = WithFiles(into, Download, Names(Download))
        /\ step' = "restored"
        /\ clipped' = (Names(Download) # Names(store))
        /\ crowded' = (DOMAIN into.ssts \ Names(Download) # {})
        /\ UNCHANGED <<target, unflushed, merge, nextFile, stage, store, todo, limitVars, saved,
                       mixed>>

RestoreRefused ==
    /\ step = "idle" /\ saved # {} /\ ~Valid(Download)
    /\ UNCHANGED backupVars

BackupNext ==
    \/ \E k \in BackupKeys, del \in BOOLEAN : Write(k, del)
    \/ FlushNow \/ MergeWrite \/ MergeUnlink
    \/ BackupBegin \/ CopyDone \/ BackupEnd
    \/ \E n \in 0 .. nextFile : CopyFile(n) \/ DamageObject(n)
    \/ \E ns \in SUBSET todo : Upload(ns)
    \/ \E new \in BOOLEAN : Restore(new)
    \/ DownloadFails \/ RestoreRefused

BackupSpec == BackupInit /\ [][BackupNext]_backupVars

----------------------------------------------------------------------------
(* Properties                                                              *)

\* An engine reopened after RESTORE FROM reads, for every key, what the
\* database held at the last BACKUP TO that succeeded, whatever the
\* compaction worker did while files were copied and whatever older files
\* the target still holds: unless a later BACKUP failed half way and left
\* some of its files there, the store's listing had a second page, or the
\* data directory held other SSTs.  And no data directory ever holds a
\* damaged SST: RESTORE FROM checks every block of the backup before it
\* copies the first file.
RestoreIsBackupUnlessMixed ==
    /\ step = "restored" /\ ~mixed /\ ~clipped /\ ~crowded =>
         \A k \in BackupKeys : Reads(home, k) = Reads([Empty EXCEPT !.log = saved], k)
    /\ \A n \in DOMAIN home.ssts : home.ssts[n] # Damaged

----------------------------------------------------------------------------
(* The dates of signed requests                                            *)

CONSTANT Days       \* bound: how long the clock runs

ASSUME DateConstants == Days \in Nat

VARIABLE today      \* the date, the weekday, and the days since 1970

\* Thursday the first of January 1970.
DateInit == today = [y |-> 1970, m |-> 1, d |-> 1, day |-> 0, dow |-> 4]

----------------------------------------------------------------------------
(* The calendar, by its rules                                              *)

Leap(y) == y % 4 = 0 /\ (y % 100 # 0 \/ y % 400 = 0)
MonthDays(y, m) ==
    CASE m = 2 -> IF Leap(y) THEN 29 ELSE 28
      [] m \in {4, 6, 9, 11} -> 30
      [] OTHER -> 31

Midnight ==
    /\ today.day < Days
    /\ today' = [y   |-> IF today.m = 12 /\ today.d = 31 THEN today.y + 1 ELSE today.y,
                 m   |-> IF today.d < MonthDays(today.y, today.m) THEN today.m
                         ELSE (today.m % 12) + 1,
                 d   |-> IF today.d < MonthDays(today.y, today.m) THEN today.d + 1 ELSE 1,
                 day |-> today.day + 1,
                 dow |-> (today.dow + 1) % 7]

DateNext == Midnight
DateSpec == DateInit /\ [][DateNext]_today

----------------------------------------------------------------------------
(* The code's arithmetic.  Eras are 400 years from the first of March.     *)

\* An era boundary off by one day.
EraEarly(z) == (IF z >= 0 THEN z ELSE z - 146096) \div 146096
Era(z) == (IF z >= 0 THEN z ELSE z - 146096) \div 146097
YearOfEra(doe) == (doe - (doe \div 1460) + (doe \div 36524) - (doe \div 146096)) \div 365

\* Year, month and day of a number of days since 1970.
Civil(days) ==
    LET z   == days + 719468
        doe == z - Era(z) * 146097
        yoe == YearOfEra(doe)
        doy == doe - (365 * yoe + (yoe \div 4) - (yoe \div 100))
        mp  == (5 * doy + 2) \div 153
        m   == IF mp < 10 THEN mp + 3 ELSE mp - 9
    IN  [y |-> yoe + Era(z) * 400 + (IF m <= 2 THEN 1 ELSE 0),
         m |-> m,
         d |-> doy - ((153 * mp + 2) \div 5) + 1]

\* The weekday, Sunday 0.
Weekday(days) == ((((days % 7) + 7) % 7) + 4) % 7

\* On every day the date and the weekday the code computes from the day count
\* are the calendar's: over leap years, centuries and the era's end.
CivilIsCalendar ==
    /\ Civil(today.day) = [y |-> today.y, m |-> today.m, d |-> today.d]
    /\ Weekday(today.day) = today.dow

=============================================================================
