------------------------------- MODULE DiskFull -------------------------------
(***************************************************************************)
(* crates/galaxdb-storage/src/disk_full/mod.rs: threads that hit a full    *)
(* disk delete the reserve file and block writes; an operator recovers by  *)
(* writing the reserve file again.  File operations can fail, the creation *)
(* of the reserve half way.                                                *)
(***************************************************************************)
EXTENDS Naturals, FiniteSets

CONSTANTS
    Handlers,           \* calls of handle_disk_full
    Recoveries,         \* calls of recover
    MaxFaults           \* bound on failing file operations

ASSUME DiskFullConstants == MaxFaults \in Nat /\ Handlers \cap Recoveries = {}

DfCalls == Handlers \cup Recoveries

VARIABLES
    reserve,            \* the reserve file: "none", "part" or "whole"
    diskFull, gauge,    \* disk_full, galaxdb_disk_full
    dfPc, dfFaults,
    dfOverlap           \* history: a call began while another was in progress

dfVars == <<reserve, diskFull, gauge, dfPc, dfFaults, dfOverlap>>

\* init fails unless the whole reserve file can be written.
DfInit ==
    /\ reserve = "whole" /\ diskFull = FALSE /\ gauge = 0
    /\ dfPc = [c \in DfCalls |-> "idle"] /\ dfFaults = 0 /\ dfOverlap = FALSE

DfGoto(c, l) == dfPc' = [dfPc EXCEPT ![c] = l]
DfBusy(c) == dfPc[c] \notin {"idle", "done"}

\* Both functions return at once in the wrong mode.
DfBegin(c) ==
    /\ dfPc[c] = "idle"
    /\ dfOverlap' = (dfOverlap \/ \E d \in DfCalls : DfBusy(d))
    /\ DfGoto(c, IF diskFull = (c \in Recoveries) THEN "file" ELSE "done")
    /\ UNCHANGED <<reserve, diskFull, gauge, dfFaults>>

\* The reserve file is deleted if it exists.
DeleteReserve(c) ==
    /\ c \in Handlers /\ dfPc[c] = "file"
    /\ reserve' = "none" /\ DfGoto(c, "flag")
    /\ UNCHANGED <<diskFull, gauge, dfFaults, dfOverlap>>

DeleteFails(c) ==
    /\ c \in Handlers /\ dfPc[c] = "file" /\ reserve # "none" /\ dfFaults < MaxFaults
    /\ dfFaults' = dfFaults + 1 /\ DfGoto(c, "done")
    /\ UNCHANGED <<reserve, diskFull, gauge, dfOverlap>>

CreateReserve(c) ==
    /\ c \in Recoveries /\ dfPc[c] = "file"
    /\ reserve' = "whole" /\ DfGoto(c, "flag")
    /\ UNCHANGED <<diskFull, gauge, dfFaults, dfOverlap>>

\* A recovery that goes on when the reserve could not be written.
CreateFailsIgnored(c) ==
    /\ c \in Recoveries /\ dfPc[c] = "file" /\ dfFaults < MaxFaults
    /\ reserve' \in {reserve, "part"}
    /\ dfFaults' = dfFaults + 1 /\ DfGoto(c, "flag")
    /\ UNCHANGED <<diskFull, gauge, dfOverlap>>

\* The file cannot be created, or is cut short by the full disk.
CreateFails(c) ==
    /\ c \in Recoveries /\ dfPc[c] = "file" /\ dfFaults < MaxFaults
    /\ reserve' \in {reserve, "part"}
    /\ dfFaults' = dfFaults + 1 /\ DfGoto(c, "done")
    /\ UNCHANGED <<diskFull, gauge, dfOverlap>>

SetFlag(c) ==
    /\ dfPc[c] = "flag"
    /\ diskFull' = (c \in Handlers) /\ DfGoto(c, "gauge")
    /\ UNCHANGED <<reserve, gauge, dfFaults, dfOverlap>>

SetGauge(c) ==
    /\ dfPc[c] = "gauge"
    /\ gauge' = (IF c \in Handlers THEN 1 ELSE 0) /\ DfGoto(c, "done")
    /\ UNCHANGED <<reserve, diskFull, dfFaults, dfOverlap>>

DfNext ==
    \E c \in DfCalls :
        \/ DfBegin(c) \/ DeleteReserve(c) \/ DeleteFails(c) \/ CreateReserve(c)
        \/ CreateFails(c) \/ SetFlag(c) \/ SetGauge(c)

DfSpec == DfInit /\ [][DfNext]_dfVars

----------------------------------------------------------------------------
\* Writes are accepted only with the whole reserve file in place, through
\* failing deletions and creations and any number of disk-full events, unless
\* two calls overlapped: a handler that began before a recovery can delete
\* the file the recovery wrote and have its flag cleared by it.
ReserveBehindWritesUnlessOverlap ==
    ~dfOverlap /\ (\A c \in DfCalls : ~DfBusy(c)) => (~diskFull => reserve = "whole")

============================================================================
