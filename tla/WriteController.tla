--------------------------- MODULE WriteController ---------------------------
(***************************************************************************)
(* Write admission: crates/galaxdb-storage/src/write_controller/mod.rs     *)
(* with the parts of engine.rs that drive it: admit_write, the tail of     *)
(* flush_memtable, refresh_compaction_backlog and the background worker of *)
(* start_background_compaction.                                            *)
(*                                                                         *)
(* A row is one byte.  A compaction leaves the live bytes in files of at   *)
(* most SstSize; which rows survive is Engine.tla's subject.               *)
(***************************************************************************)
EXTENDS Naturals, FiniteSets, Bags, FiniteSetsExt

CONSTANTS
    Writes,                 \* writes, each made once
    SoftLimit, HardLimit, MaxDelay,     \* WriteControllerConfig
    L0Trigger, SstSize,     \* l0_compaction_trigger, sst_size_bytes
    FlushAt                 \* rows in the memtable when its owner flushes it

ASSUME WriteControllerConstants ==
    /\ SoftLimit \in Nat /\ HardLimit \in Nat /\ SoftLimit < HardLimit /\ MaxDelay \in Nat
    /\ L0Trigger \in Nat \ {0} /\ SstSize \in Nat \ {0} /\ FlushAt \in Nat \ {0}

VARIABLES
    pending,            \* pending_compaction_bytes
    ssts,               \* the registered files: a bag of sizes
    liveBytes,          \* bytes a compaction would leave of them
    fresh, over,        \* rows of the memtable: new keys, overwrites
    wPc,                \* Writes -> where the write is
    fl, flSum,          \* the flush in progress; the backlog it summed up
    worker, workSum,    \* the background worker; the backlog it summed up
    wake                \* compaction_wake

wcVars == <<pending, ssts, liveBytes, fresh, over, wPc, fl, flSum, worker, workSum, wake>>

WcInit ==
    /\ pending = 0 /\ ssts = EmptyBag /\ liveBytes = 0 /\ fresh = 0 /\ over = 0
    /\ wPc = [w \in Writes |-> "idle"]
    /\ fl = "idle" /\ flSum = 0 /\ worker = "wait" /\ workSum = 0 /\ wake = FALSE

TotalBytes == SumSet({s * CopiesIn(s, ssts) : s \in BagToSet(ssts)})

\* refresh_compaction_backlog: no backlog up to the trigger, else every byte.
Backlog == IF BagCardinality(ssts) <= L0Trigger THEN 0 ELSE TotalBytes

\* compute_slowdown_factor and check_write
Delay(p) ==
    IF p <= SoftLimit THEN 0
    ELSE ((p - SoftLimit) * MaxDelay) \div (HardLimit - SoftLimit)
CheckWrite(p) ==
    IF p < SoftLimit THEN "proceed"
    ELSE IF p >= HardLimit THEN "block"
    ELSE IF Delay(p) = 0 THEN "proceed" ELSE "delay"

----------------------------------------------------------------------------
(* put_sync: admit_write, then the write                                   *)

WriteArrives(w) ==
    /\ wPc[w] = "idle" /\ wPc' = [wPc EXCEPT ![w] = "admit"]
    /\ UNCHANGED <<pending, ssts, liveBytes, fresh, over, fl, flSum, worker, workSum, wake>>

\* A blocked writer sleeps 1 ms and looks again; a delayed one sleeps and goes.
Admit(w) ==
    /\ wPc[w] = "admit" /\ CheckWrite(pending) # "block"
    /\ wPc' = [wPc EXCEPT ![w] = IF CheckWrite(pending) = "delay" THEN "sleep" ELSE "go"]
    /\ UNCHANGED <<pending, ssts, liveBytes, fresh, over, fl, flSum, worker, workSum, wake>>

SleepOver(w) ==
    /\ wPc[w] = "sleep" /\ wPc' = [wPc EXCEPT ![w] = "go"]
    /\ UNCHANGED <<pending, ssts, liveBytes, fresh, over, fl, flSum, worker, workSum, wake>>

\* The row is of a new key or overwrites one.
PutRow(w, new) ==
    /\ wPc[w] = "go" /\ (~new => liveBytes + fresh > 0)
    /\ fresh' = fresh + (IF new THEN 1 ELSE 0) /\ over' = over + (IF new THEN 0 ELSE 1)
    /\ wPc' = [wPc EXCEPT ![w] = "done"]
    /\ UNCHANGED <<pending, ssts, liveBytes, fl, flSum, worker, workSum, wake>>

----------------------------------------------------------------------------
(* flush_memtable: a file more, the worker signalled, the backlog published *)

WcFlush ==
    /\ fl = "idle" /\ fresh + over >= FlushAt
    /\ ssts' = ssts (+) SetToBag({fresh + over})
    /\ liveBytes' = liveBytes + fresh /\ fresh' = 0 /\ over' = 0
    /\ wake' = TRUE /\ fl' = "sum"
    /\ UNCHANGED <<pending, wPc, flSum, worker, workSum>>

FlushSums ==
    /\ fl = "sum" /\ flSum' = Backlog /\ fl' = "publish"
    /\ UNCHANGED <<pending, ssts, liveBytes, fresh, over, wPc, worker, workSum, wake>>

FlushPublishes ==
    /\ fl = "publish" /\ pending' = flSum /\ fl' = "idle" /\ flSum' = 0
    /\ UNCHANGED <<ssts, liveBytes, fresh, over, wPc, worker, workSum, wake>>

----------------------------------------------------------------------------
(* The background worker                                                   *)

\* The wait ends with the signal or after 500 ms.
WorkerWakes ==
    /\ worker = "wait"
    /\ worker' = "compact" /\ wake' = FALSE
    /\ UNCHANGED <<pending, ssts, liveBytes, fresh, over, wPc, fl, flSum, workSum>>

\* The live bytes in as few files as the target size allows.
Rewritten ==
    [s \in ({SstSize} \cap 1 .. liveBytes) \cup ({liveBytes % SstSize} \ {0}) |->
        IF s = SstSize THEN liveBytes \div SstSize ELSE 1]

\* maybe_compact: two files at least are merged, once the trigger is reached.
MaybeCompact ==
    /\ worker = "compact"
    /\ ssts' = IF BagCardinality(ssts) >= L0Trigger /\ BagCardinality(ssts) >= 2
               THEN Rewritten ELSE ssts
    /\ worker' = "sum"
    /\ UNCHANGED <<pending, liveBytes, fresh, over, wPc, fl, flSum, workSum, wake>>

WorkerSums ==
    /\ worker = "sum" /\ workSum' = Backlog /\ worker' = "publish"
    /\ UNCHANGED <<pending, ssts, liveBytes, fresh, over, wPc, fl, flSum, wake>>

WorkerPublishes ==
    /\ worker = "publish" /\ pending' = workSum /\ workSum' = 0 /\ worker' = "wait"
    /\ UNCHANGED <<ssts, liveBytes, fresh, over, wPc, fl, flSum, wake>>

----------------------------------------------------------------------------
WriteStep(w) == Admit(w) \/ SleepOver(w) \/ \E new \in BOOLEAN : PutRow(w, new)
WcFlushStep == WcFlush \/ FlushSums \/ FlushPublishes
WorkerStep == WorkerWakes \/ MaybeCompact \/ WorkerSums \/ WorkerPublishes

WcNext == (\E w \in Writes : WriteArrives(w) \/ WriteStep(w)) \/ WcFlushStep \/ WorkerStep

\* Threads are scheduled; the worker's wait times out.
WcSpec ==
    /\ WcInit /\ [][WcNext]_wcVars
    /\ \A w \in Writes : WF_wcVars(WriteStep(w))
    /\ WF_wcVars(WcFlushStep) /\ WF_wcVars(WorkerStep)

----------------------------------------------------------------------------
(* Properties                                                              *)

\* The live data fills more files than the trigger allows.
Large == liveBytes > L0Trigger * SstSize

\* The same, as long as the live data, which only grows here, fits in as many
\* files as the trigger.
WriterAdmittedUnlessLarge == <>[](Large \/ \A w \in Writes : wPc[w] \in {"idle", "done"})

============================================================================
