--------------------------- MODULE MCBackpressure ---------------------------
(* What makes writers wait, for TLC: the rate limiter, the write           *)
(* controller, the memtable manager and the log's locks.  They share no    *)
(* state: each behaviour runs the one that `part` names.  The fairness of  *)
(* a component is asked for only where it is the one that runs.            *)
EXTENDS RateLimiter, WriteController, MemtableManager, Wal

VARIABLE part

pressureVars == <<part, rlVars, wcVars, mmVars, vars>>

KeyOfPut(p) == p % 2

PressureInit ==
    /\ part \in {"limiter", "admission", "memtable", "log"}
    /\ RlInit /\ WcInit /\ MmInit /\ Init

RunLimiter(A) == part = "limiter" /\ A /\ UNCHANGED <<part, wcVars, mmVars, vars>>
RunAdmission(A) == part = "admission" /\ A /\ UNCHANGED <<part, rlVars, mmVars, vars>>
RunMemtable(A) == part = "memtable" /\ A /\ UNCHANGED <<part, rlVars, wcVars, vars>>
RunLog(A) == part = "log" /\ A /\ UNCHANGED <<part, rlVars, wcVars, mmVars>>

PressureNext ==
    \/ part = "limiter" /\ RlNext /\ UNCHANGED <<part, wcVars, mmVars, vars>>
    \/ part = "admission" /\ WcNext /\ UNCHANGED <<part, rlVars, mmVars, vars>>
    \/ part = "memtable" /\ MmNext /\ UNCHANGED <<part, rlVars, wcVars, vars>>
    \/ part = "log" /\ Next /\ UNCHANGED <<part, rlVars, wcVars, mmVars>>

LimiterFair ==
    /\ WF_pressureVars(RunLimiter(RlTick))
    /\ \A c \in Acquires :
          WF_pressureVars(RunLimiter(PassGate(c) \/ TryAcquire(c) \/ ConsumeAfterWait(c)))
    /\ \A c \in Adjusts : WF_pressureVars(RunLimiter(AdjustStep(c)))
    /\ \A c \in Calibrations : WF_pressureVars(RunLimiter(CalibrateStep(c)))

AdmissionFair ==
    /\ \A w \in Writes : WF_pressureVars(RunAdmission(WriteStep(w)))
    /\ WF_pressureVars(RunAdmission(WcFlushStep)) /\ WF_pressureVars(RunAdmission(WorkerStep))

MemtableFair ==
    /\ \A p \in MemPuts : WF_pressureVars(RunMemtable(PutStep(p)))
    /\ WF_pressureVars(RunMemtable(MmFlushBegin \/ OnFlushComplete))

LogFair ==
    /\ WF_pressureVars(RunLog(Open))
    /\ \A c \in Calls : WF_pressureVars(RunLog(CallProgress(c)))
    /\ \A t \in Truncs : WF_pressureVars(RunLog(TruncProgress(t)))

PressureSpec ==
    /\ PressureInit /\ [][PressureNext]_pressureVars
    /\ LimiterFair /\ AdmissionFair /\ MemtableFair /\ LogFair

\* Whoever waits is served: flush I/O for its tokens, a writer for the
\* compaction backlog to fall (while the live data fits), a put for memtable
\* permits, and a committer, a checkpoint or a truncation for the log's locks.
WaitersServed == FlushGetsTokens /\ WriterAdmittedUnlessLarge /\ PutServed /\ CallsEnd

=============================================================================
