----------------------------- MODULE RateLimiter -----------------------------
(***************************************************************************)
(* crates/galaxdb-storage/src/rate_limiter/mod.rs: a token bucket that     *)
(* background and flush I/O draws from, with the ceiling lowered and       *)
(* restored from latency reports, which may say anything (LatencyMonitor   *)
(* says when they ask for throttling), a calibration, and the flush        *)
(* pre-emption flag.  Mutexes and atomics are separate steps.              *)
(*                                                                         *)
(* Time advances in ticks of 1/TicksPerSecond s; tokens are counted in     *)
(* bytes/TicksPerSecond, so that one tick adds `rate' of them.             *)
(***************************************************************************)
EXTENDS Integers, FiniteSets

CONSTANTS
    Flushes, Backgrounds,   \* acquisitions, by priority, each made once
    Adjusts,                \* calls of adjust_from_latency
    Calibrations,           \* calls of calibrate
    Bytes,                  \* what an acquisition asks for
    Bandwidths,             \* measured bandwidths
    TicksPerSecond,
    MaxIdle                 \* refills after more ticks than this are the same

Acquires == Flushes \cup Backgrounds
RlCalls == Acquires \cup Adjusts \cup Calibrations
Nobody == "nobody"

ASSUME RateConstants ==
    /\ Bytes \in Nat \ {0} /\ Bandwidths \subseteq Nat \ {0}
    /\ TicksPerSecond \in Nat \ {0} /\ MaxIdle \in Nat \ {0}
    /\ Nobody \notin RlCalls /\ Adjusts \cap Calibrations = {}
    /\ Acquires \cap (Adjusts \cup Calibrations) = {}

VARIABLES
    available, rate, capacity,  \* TokenBucket
    idle,               \* ticks since last_refill
    maxRate, ceiling,   \* max_rate, current_ceiling
    throttled,          \* is_throttled
    preempted,          \* flush_preempted
    bucketLock, flagLock,   \* who holds the mutexes of bucket and is_throttled
    rlPc, left,         \* per call: where it is; ticks it still sleeps
    seen,               \* per adjust or calibrate: the flag reported; the rate read or set
    overlap             \* history: a calibration overlapped an adjustment

bucketVars == <<available, rate, capacity, idle>>
ceilVars == <<maxRate, ceiling, throttled>>
rlVars == <<bucketVars, ceilVars, preempted, bucketLock, flagLock, rlPc, left, seen, overlap>>

\* calibration_fraction 0.70, throttle_reduction_fraction 0.30
Calibrated(bw) == (bw * 70) \div 100
Lowered(r) == r - (r * 30) \div 100

RlInit ==
    /\ \E bw \in Bandwidths :
          /\ rate = Calibrated(bw) /\ maxRate = rate /\ ceiling = rate
          /\ capacity = rate * TicksPerSecond /\ available = capacity
    /\ idle = 0 /\ throttled = FALSE /\ preempted = FALSE
    /\ bucketLock = Nobody /\ flagLock = Nobody
    /\ rlPc = [c \in RlCalls |-> "idle"] /\ left = [c \in RlCalls |-> 0]
    /\ seen = [c \in Adjusts \cup Calibrations |-> [slow |-> FALSE, max |-> 0]] /\ overlap = FALSE

RlGoto(c, l) == rlPc' = [rlPc EXCEPT ![c] = l]
RlBusy(c) == rlPc[c] \notin {"idle", "done"}
Lesser(a, b) == IF a <= b THEN a ELSE b
Greater(a, b) == IF a >= b THEN a ELSE b

RlTick ==
    /\ idle' = Lesser(idle + 1, MaxIdle)
    /\ left' = [c \in RlCalls |-> Greater(left[c] - 1, 0)]
    /\ UNCHANGED <<available, rate, capacity, ceilVars, preempted, bucketLock, flagLock,
                   rlPc, seen, overlap>>

----------------------------------------------------------------------------
(* TokenBucket                                                             *)

Refilled == Lesser(available + rate * idle, capacity)

SetRate(r) ==
    /\ rate' = r /\ capacity' = r * TicksPerSecond
    /\ available' = Lesser(available, r * TicksPerSecond)
    /\ UNCHANGED idle

Needed == Bytes * TicksPerSecond

\* Ticks until the deficit is refilled, a started tick counting as a whole one,
\* and at most a second.
WaitTicks(have) ==
    IF rate = 0 THEN TicksPerSecond
    ELSE Lesser(((Needed - have) + rate - 1) \div rate, TicksPerSecond)

----------------------------------------------------------------------------
(* acquire_with_priority                                                   *)

AcquireBegin(c) ==
    /\ c \in Acquires /\ rlPc[c] = "idle"
    /\ RlGoto(c, "gate")
    /\ UNCHANGED <<bucketVars, ceilVars, preempted, bucketLock, flagLock, left, seen,
                   overlap>>

\* Background I/O polls the pre-emption flag; flush I/O passes.
PassGate(c) ==
    /\ c \in Acquires /\ rlPc[c] = "gate"
    /\ c \in Backgrounds => ~preempted
    /\ RlGoto(c, "try")
    /\ UNCHANGED <<bucketVars, ceilVars, preempted, bucketLock, flagLock, left, seen,
                   overlap>>

TryAcquire(c) ==
    /\ c \in Acquires /\ rlPc[c] = "try" /\ bucketLock = Nobody
    /\ idle' = 0
    /\ IF Refilled >= Needed
       THEN available' = Refilled - Needed /\ RlGoto(c, "done") /\ UNCHANGED left
       ELSE /\ available' = Refilled
            /\ left' = [left EXCEPT ![c] = WaitTicks(Refilled)]
            /\ RlGoto(c, "sleep")
    /\ UNCHANGED <<rate, capacity, ceilVars, preempted, bucketLock, flagLock, seen, overlap>>

\* consume_after_wait: whatever is there, the bytes are taken off.
ConsumeAfterWait(c) ==
    /\ c \in Acquires /\ rlPc[c] = "sleep" /\ left[c] = 0 /\ bucketLock = Nobody
    /\ available' = Refilled - Needed /\ idle' = 0
    /\ RlGoto(c, "done")
    /\ UNCHANGED <<rate, capacity, ceilVars, preempted, bucketLock, flagLock, left, seen,
                   overlap>>

\* engage_flush_preemption, release_flush_preemption
SetPreemption(on) ==
    /\ preempted # on /\ preempted' = on
    /\ UNCHANGED <<bucketVars, ceilVars, bucketLock, flagLock, rlPc, left, seen, overlap>>

----------------------------------------------------------------------------
(* adjust_from_latency: lower_ceiling or restore_ceiling                   *)

\* The report says should_throttle or not.
AdjustBegin(c, slow) ==
    /\ c \in Adjusts /\ rlPc[c] = "idle"
    /\ seen' = [seen EXCEPT ![c].slow = slow]
    /\ RlGoto(c, "flag")
    /\ overlap' = (overlap \/ \E k \in Calibrations : RlBusy(k))
    /\ UNCHANGED <<bucketVars, ceilVars, preempted, bucketLock, flagLock, left>>

\* restore_ceiling takes the bucket's lock first, lower_ceiling the flag's.
AdjustLockBucketFirst(c) ==
    /\ c \in Adjusts /\ rlPc[c] = "flag"
    /\ IF seen[c].slow \/ bucketLock = c
       THEN /\ flagLock = Nobody /\ flagLock' = c /\ RlGoto(c, "ceiling")
            /\ seen' = [seen EXCEPT ![c].max = maxRate] /\ UNCHANGED bucketLock
       ELSE bucketLock = Nobody /\ bucketLock' = c /\ UNCHANGED <<flagLock, seen, rlPc>>
    /\ UNCHANGED <<bucketVars, ceilVars, preempted, left, overlap>>

\* Returns with the lock released when there is nothing to change.
AdjustLockFlag(c) ==
    /\ c \in Adjusts /\ rlPc[c] = "flag" /\ flagLock = Nobody
    /\ IF throttled = seen[c].slow
       THEN RlGoto(c, "done") /\ UNCHANGED <<flagLock, seen>>
       ELSE /\ flagLock' = c
            /\ seen' = [seen EXCEPT ![c].max = maxRate]
            /\ RlGoto(c, "ceiling")
    /\ UNCHANGED <<bucketVars, ceilVars, preempted, bucketLock, left, overlap>>

NewCeiling(c) == IF seen[c].slow THEN Lowered(seen[c].max) ELSE seen[c].max

AdjustCeiling(c) ==
    /\ c \in Adjusts /\ rlPc[c] = "ceiling"
    /\ ceiling' = NewCeiling(c)
    /\ RlGoto(c, "bucket")
    /\ UNCHANGED <<bucketVars, maxRate, throttled, preempted, bucketLock, flagLock, left,
                   seen, overlap>>

AdjustBucket(c) ==
    /\ c \in Adjusts /\ rlPc[c] = "bucket" /\ bucketLock \in {Nobody, c}
    /\ SetRate(NewCeiling(c)) /\ bucketLock' = Nobody
    /\ throttled' = seen[c].slow /\ flagLock' = Nobody
    /\ RlGoto(c, "done")
    /\ UNCHANGED <<maxRate, ceiling, preempted, left, seen, overlap>>

----------------------------------------------------------------------------
(* calibrate                                                               *)

CalibrateMax(c, bw) ==
    /\ c \in Calibrations /\ rlPc[c] = "idle"
    /\ maxRate' = Calibrated(bw)
    /\ seen' = [seen EXCEPT ![c].max = Calibrated(bw)]
    /\ RlGoto(c, "ceiling")
    /\ overlap' = (overlap \/ \E a \in Adjusts \cup Calibrations : RlBusy(a))
    /\ UNCHANGED <<bucketVars, ceiling, throttled, preempted, bucketLock, flagLock, left>>

CalibrateCeiling(c) ==
    /\ c \in Calibrations /\ rlPc[c] = "ceiling"
    /\ ceiling' = seen[c].max
    /\ RlGoto(c, "bucket")
    /\ UNCHANGED <<bucketVars, maxRate, throttled, preempted, bucketLock, flagLock, left,
                   seen, overlap>>

\* The bucket's lock is kept to the end of the function,
CalibrateBucket(c) ==
    /\ c \in Calibrations /\ rlPc[c] = "bucket" /\ bucketLock = Nobody
    /\ bucketLock' = c
    /\ SetRate(seen[c].max)
    /\ RlGoto(c, "flag")
    /\ UNCHANGED <<ceilVars, preempted, flagLock, left, seen, overlap>>

\* where the flag's lock is taken as well.
CalibrateFlag(c) ==
    /\ c \in Calibrations /\ rlPc[c] = "flag" /\ flagLock = Nobody
    /\ throttled' = FALSE /\ bucketLock' = Nobody
    /\ RlGoto(c, "done")
    /\ UNCHANGED <<bucketVars, maxRate, ceiling, preempted, flagLock, left, seen, overlap>>

----------------------------------------------------------------------------
AcquireStep(c) == AcquireBegin(c) \/ PassGate(c) \/ TryAcquire(c) \/ ConsumeAfterWait(c)
AdjustStep(c) ==
    \/ \E slow \in BOOLEAN : AdjustBegin(c, slow)
    \/ AdjustLockFlag(c) \/ AdjustCeiling(c) \/ AdjustBucket(c)
CalibrateStep(c) ==
    \/ \E bw \in Bandwidths : CalibrateMax(c, bw)
    \/ CalibrateCeiling(c) \/ CalibrateBucket(c) \/ CalibrateFlag(c)

RlNext ==
    \/ RlTick \/ \E on \in BOOLEAN : SetPreemption(on)
    \/ \E c \in Acquires : AcquireStep(c)
    \/ \E c \in Adjusts : AdjustStep(c)
    \/ \E c \in Calibrations : CalibrateStep(c)

RlSpec == RlInit /\ [][RlNext]_rlVars

----------------------------------------------------------------------------
(* Properties                                                              *)

\* A call that waits for a mutex another call holds.
WaitsFor(c, d) ==
    \/ c # d /\ bucketLock = d /\ rlPc[c] \in {"try", "bucket"}
    \/ c # d /\ flagLock = d /\ rlPc[c] = "flag"

\* Only a calibration disturbs the limiter's other calls.  No two calls wait
\* for each other's mutex, except that calibrate, which takes the bucket's
\* and then the flag's, can meet an adjustment, which takes them the other
\* way round.  Between calls the bucket runs at the published ceiling, and
\* that is the calibrated rate, or 30% less while the throttled flag is set,
\* unless a calibration overlapped an adjustment, which had read the old rate.
AdjustmentsAgreeUnlessCalibrating ==
    /\ \A c, d \in RlCalls : WaitsFor(c, d) /\ WaitsFor(d, c) => {c, d} \cap Calibrations # {}
    /\ (\A c \in Adjusts \cup Calibrations : ~RlBusy(c)) /\ ~overlap =>
          /\ rate = ceiling
          /\ ceiling = IF throttled THEN Lowered(maxRate) ELSE maxRate

\* Flush I/O gets its tokens whatever the pre-emption flag does and however
\* often background I/O takes them, unless a calibration is deadlocked.
FlushGetsTokens ==
    \A c \in Flushes : rlPc[c] = "gate" ~> (rlPc[c] = "done" \/ \E k \in Calibrations : RlBusy(k))

============================================================================
