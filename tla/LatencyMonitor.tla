---------------------------- MODULE LatencyMonitor ----------------------------
(***************************************************************************)
(* crates/galaxdb-io/src/latency.rs: I/O threads record latencies; the     *)
(* first of them to find 100 ms gone rotates the window, compares its P99  *)
(* with 1.5 times the idle baseline and counts the windows in a row that   *)
(* exceed it.  The rate limiter reads should_throttle.                     *)
(*                                                                         *)
(* Fewer than 100 samples are taken in a window, so that the P99 is the    *)
(* largest.  The background queue's samples feed only a metric and are     *)
(* left out.                                                               *)
(***************************************************************************)
EXTENDS Naturals, Sequences, FiniteSetsExt

CONSTANTS
    Recorders,          \* I/O threads
    Latencies,          \* the latencies they measure
    Baseline,           \* hp_idle_baseline_us after calibration
    MaxWindows          \* bound on the windows of a behaviour

ASSUME LatencyConstants ==
    /\ Latencies \subseteq Nat \ {0} /\ Baseline \in Nat /\ MaxWindows \in Nat

VARIABLES
    hp,                 \* hp_samples: the latencies of the current window
    due,                \* 100 ms have passed since window_start
    calibrated,         \* baseline_calibrated
    consecutive,        \* consecutive_exceeded
    recPc,              \* Recorders -> "idle", "pushed" or "rotating"
    elapsed,            \* windows that have passed
    verdicts            \* history: per rotation with samples, "slow" or "fast"

latVars == <<hp, due, calibrated, consecutive, recPc, elapsed, verdicts>>

LatInit ==
    /\ hp = {} /\ due = FALSE /\ calibrated = FALSE /\ consecutive = 0
    /\ recPc = [r \in Recorders |-> "idle"] /\ elapsed = 0 /\ verdicts = <<>>

SetIdleBaseline ==
    /\ ~calibrated /\ calibrated' = TRUE
    /\ UNCHANGED <<hp, due, consecutive, recPc, elapsed, verdicts>>

WindowPasses ==
    /\ ~due /\ elapsed < MaxWindows
    /\ due' = TRUE /\ elapsed' = elapsed + 1
    /\ UNCHANGED <<hp, calibrated, consecutive, recPc, verdicts>>

\* record: the sample is pushed,
Record(r, l) ==
    /\ recPc[r] = "idle" /\ elapsed < MaxWindows
    /\ hp' = hp \cup {l}
    /\ recPc' = [recPc EXCEPT ![r] = "pushed"]
    /\ UNCHANGED <<due, calibrated, consecutive, elapsed, verdicts>>

\* and the window looked at, without its lock for long.
MaybeRotate(r) ==
    /\ recPc[r] = "pushed"
    /\ recPc' = [recPc EXCEPT ![r] = IF due THEN "rotating" ELSE "idle"]
    /\ UNCHANGED <<hp, due, calibrated, consecutive, elapsed, verdicts>>

P99(samples) == IF samples = {} THEN 0 ELSE Max(samples)
Slow(p99) == p99 > Baseline + Baseline \div 2
Verdict(p99) == IF Slow(p99) THEN "slow" ELSE "fast"
\* The window says nothing before calibration or without a sample.
Judged(p99) == calibrated /\ Baseline > 0 /\ p99 > 0

\* A rotation that does not look again under the lock.
RotateWindowOnce(r) ==
    LET p99 == P99(hp)
    IN  /\ recPc[r] = "rotating"
        /\ recPc' = [recPc EXCEPT ![r] = "idle"]
        /\ hp' = {} /\ due' = FALSE
        /\ consecutive' = IF ~Judged(p99) THEN consecutive
                          ELSE IF Slow(p99) THEN consecutive + 1 ELSE 0
        /\ verdicts' = Append(verdicts, Verdict(p99))
        /\ UNCHANGED <<calibrated, elapsed>>

\* rotate_window: under the window lock, and only if the window is still due.
RotateWindow(r) ==
    LET p99 == P99(hp)
    IN  /\ recPc[r] = "rotating"
        /\ recPc' = [recPc EXCEPT ![r] = "idle"]
        /\ IF due
           THEN /\ hp' = {} /\ due' = FALSE
                /\ consecutive' = IF ~Judged(p99) THEN consecutive
                                  ELSE IF Slow(p99) THEN consecutive + 1 ELSE 0
                /\ verdicts' = IF Judged(p99) THEN Append(verdicts, Verdict(p99)) ELSE verdicts
           ELSE UNCHANGED <<hp, due, consecutive, verdicts>>
        /\ UNCHANGED <<calibrated, elapsed>>

ShouldThrottle == consecutive >= 3

LatNext ==
    \/ SetIdleBaseline \/ WindowPasses
    \/ \E r \in Recorders :
          (\E l \in Latencies : Record(r, l)) \/ MaybeRotate(r) \/ RotateWindow(r)

LatSpec == LatInit /\ [][LatNext]_latVars

----------------------------------------------------------------------------
\* report() asks for throttling only when the last three windows that had
\* high-priority samples each exceeded the threshold, and as many windows
\* have really passed: two recorders that both find a window due close it
\* once.
ThrottleJustified ==
    /\ Len(verdicts) <= elapsed
    /\ ShouldThrottle => /\ Len(verdicts) >= 3
                         /\ \A i \in Len(verdicts) - 2 .. Len(verdicts) : verdicts[i] = "slow"

============================================================================
