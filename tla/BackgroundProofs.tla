-------------------------- MODULE BackgroundProofs --------------------------
(***************************************************************************)
(* Proofs about the work beside the statements: the disk-full sequence, for*)
(* any number of handlers, recoveries and failing file operations; the     *)
(* latency monitor; the rate limiter of the background work, for any number*)
(* of concurrent calls; and the sidecar's manager, for any number of       *)
(* requests and supervisors.                                               *)
(***************************************************************************)
EXTENDS DiskFull, LatencyMonitor, RateLimiter, Sidecar, TLAPS


-----------------------------------------------------------------------------
(* DiskFull                                                                *)

DfLabels == {"idle", "file", "flag", "gauge", "done"}

\* The state's types.
DfTypeOK ==
    /\ reserve \in {"none", "part", "whole"} /\ diskFull \in BOOLEAN
    /\ dfPc \in [DfCalls -> DfLabels] /\ dfOverlap \in BOOLEAN

\* What holds of the file and the flag while the call c is at each step.
AtStep(c) ==
    /\ c \in Handlers /\ dfPc[c] \in {"file", "flag"} => ~diskFull
    /\ c \in Handlers /\ dfPc[c] = "file" => reserve = "whole"
    /\ c \in Handlers /\ dfPc[c] = "gauge" => diskFull
    /\ c \in Recoveries /\ dfPc[c] \in {"file", "flag"} => diskFull
    /\ c \in Recoveries /\ dfPc[c] = "flag" => reserve = "whole"
    /\ c \in Recoveries /\ dfPc[c] = "gauge" => ~diskFull /\ reserve = "whole"

\* While no two calls have overlapped one call at most is in progress, and
\* the file and the flag are where its steps have left them.
DfInv ==
    /\ DfTypeOK
    /\ ~dfOverlap =>
         /\ \A c, d \in DfCalls : DfBusy(c) /\ DfBusy(d) => c = d
         /\ \A c \in DfCalls : AtStep(c)
         /\ (\A c \in DfCalls : ~DfBusy(c)) => (diskFull \/ reserve = "whole")

\* A fresh handler satisfies the invariant (init).
LEMMA DfInvInit == DfInit => DfInv
BY Zenon DEF DfInit, DfInv, DfTypeOK, DfLabels, AtStep, DfBusy

\* The flag a call sets: raised by handle_disk_full, cleared by recover.
LEMMA FlagSet ==
    ASSUME NEW c, SetFlag(c)
    PROVE  /\ c \in Handlers => diskFull' = TRUE
           /\ c \notin Handlers => diskFull' = FALSE
<1>1. diskFull' = (c \in Handlers)
  BY Zenon DEF SetFlag
<1>2. CASE c \in Handlers
  BY <1>1, <1>2, Zenon
<1>3. CASE c \notin Handlers
  <2>1. (c \in Handlers) = FALSE
    BY <1>3
  <2>2. QED
    BY <1>1, <2>1, <1>3, Zenon
<1>4. QED
  BY <1>2, <1>3, Zenon

\* Every step of handle_disk_full and recover keeps it.
LEMMA DfInvStep == DfInv /\ [DfNext]_dfVars => DfInv'
<1> SUFFICES ASSUME DfInv, [DfNext]_dfVars PROVE DfInv'
  BY Zenon
<1> USE DEF DfInv, DfTypeOK, DfLabels, AtStep, DfBusy, DfGoto, DfCalls
<1>1. CASE UNCHANGED dfVars
  BY <1>1, Zenon DEF dfVars
<1>2. ASSUME NEW c \in DfCalls, DfBegin(c) PROVE DfInv'
  BY <1>2, DiskFullConstants, Zenon DEF DfBegin
<1>3. ASSUME NEW c \in DfCalls, DeleteReserve(c) PROVE DfInv'
  BY <1>3, DiskFullConstants, Zenon DEF DeleteReserve
<1>4. ASSUME NEW c \in DfCalls, DeleteFails(c) PROVE DfInv'
  BY <1>4, DiskFullConstants, Zenon DEF DeleteFails
<1>5. ASSUME NEW c \in DfCalls, CreateReserve(c) PROVE DfInv'
  BY <1>5, DiskFullConstants, Zenon DEF CreateReserve
<1>6. ASSUME NEW c \in DfCalls, CreateFails(c) PROVE DfInv'
  BY <1>6, DiskFullConstants, Zenon DEF CreateFails
<1>7. ASSUME NEW c \in DfCalls, SetFlag(c) PROVE DfInv'
  <2>1. CASE c \in Handlers
    <3>1. c \notin Recoveries
      BY <2>1, DiskFullConstants, Zenon
    <3>2. diskFull' = TRUE
      BY <1>7, <2>1, FlagSet, Zenon
    <3>3. QED
      BY <1>7, <2>1, <3>1, <3>2, Zenon DEF SetFlag
  <2>2. CASE c \in Recoveries
    <3>1. c \notin Handlers
      BY <2>2, DiskFullConstants, Zenon
    <3>2. diskFull' = FALSE
      BY <1>7, <3>1, FlagSet, Zenon
    <3>3. QED
      BY <1>7, <2>2, <3>1, <3>2, Zenon DEF SetFlag
  <2>3. QED
    BY <2>1, <2>2, Zenon
<1>8. ASSUME NEW c \in DfCalls, SetGauge(c) PROVE DfInv'
  BY <1>8, DiskFullConstants, Zenon DEF SetGauge
<1>9. QED
  BY <1>1, <1>2, <1>3, <1>4, <1>5, <1>6, <1>7, <1>8, Zenon DEF DfNext

\* For any number of calls and failing file operations, writes are accepted
\* only with the whole reserve file in place, unless two calls overlapped
\* (handle_disk_full, recover).
THEOREM ReserveBehindWrites == DfSpec => []ReserveBehindWritesUnlessOverlap
<1>1. DfInv => ReserveBehindWritesUnlessOverlap
  BY Zenon DEF DfInv, ReserveBehindWritesUnlessOverlap
<1>2. QED
  BY <1>1, DfInvInit, DfInvStep, PTL DEF DfSpec

-----------------------------------------------------------------------------
(* LatencyMonitor                                                          *)

\* The rotations that were judged, with the one that is due, are no more than
\* the windows that have passed; the counter is the number of slow ones at
\* the end.
LatInv ==
    /\ verdicts \in Seq({"slow", "fast"}) /\ consecutive \in Nat /\ elapsed \in Nat
    /\ Len(verdicts) <= elapsed /\ (due => Len(verdicts) < elapsed)
    /\ consecutive <= Len(verdicts)
    /\ \A i \in Len(verdicts) - consecutive + 1 .. Len(verdicts) : verdicts[i] = "slow"

\* A new monitor satisfies it.
LEMMA LatInitInv == LatInit => LatInv
BY DEF LatInit, LatInv

\* A verdict appended by rotate_window.
LEMMA JudgedInv ==
    ASSUME LatInv, NEW v \in {"slow", "fast"}, verdicts' = Append(verdicts, v),
           consecutive' = IF v = "slow" THEN consecutive + 1 ELSE 0
    PROVE  /\ verdicts' \in Seq({"slow", "fast"}) /\ consecutive' \in Nat
           /\ Len(verdicts') = Len(verdicts) + 1 /\ consecutive' <= Len(verdicts')
           /\ \A i \in Len(verdicts') - consecutive' + 1 .. Len(verdicts') : verdicts'[i] = "slow"
<1>1. /\ verdicts' \in Seq({"slow", "fast"}) /\ Len(verdicts') = Len(verdicts) + 1
      /\ verdicts'[Len(verdicts) + 1] = v
      /\ \A i \in 1 .. Len(verdicts) : verdicts'[i] = verdicts[i]
  BY DEF LatInv
<1>2. CASE v = "slow"
  BY <1>1, <1>2 DEF LatInv
<1>3. CASE v = "fast"
  BY <1>1, <1>3 DEF LatInv
<1>4. QED
  BY <1>2, <1>3, Zenon

\* Every step keeps it: two recorders that find a window due close it once.
LEMMA LatStepInv == LatInv /\ [LatNext]_latVars => LatInv'
<1> SUFFICES ASSUME LatInv, [LatNext]_latVars PROVE LatInv'
  BY Zenon
<1>1. CASE UNCHANGED <<due, consecutive, elapsed, verdicts>>
  BY <1>1, Zenon DEF LatInv
<1>2. CASE UNCHANGED latVars \/ SetIdleBaseline
  BY <1>1, <1>2, Zenon DEF latVars, SetIdleBaseline
<1>3. CASE WindowPasses
  BY <1>3 DEF WindowPasses, LatInv
<1>4. ASSUME NEW r \in Recorders, (\E l \in Latencies : Record(r, l)) \/ MaybeRotate(r)
      PROVE  LatInv'
  BY <1>1, <1>4, Zenon DEF Record, MaybeRotate
<1>5. ASSUME NEW r \in Recorders, RotateWindow(r) PROVE LatInv'
  <2>1. CASE ~due
    BY <1>1, <1>5, <2>1, Zenon DEF RotateWindow
  <2>2. CASE due /\ ~Judged(P99(hp))
    BY <1>5, <2>2, Zenon DEF RotateWindow, LatInv
  <2>3. CASE due /\ Judged(P99(hp))
    <3>1. Verdict(P99(hp)) \in {"slow", "fast"} /\ (Slow(P99(hp)) <=> Verdict(P99(hp)) = "slow")
      BY Zenon DEF Verdict
    <3>2. /\ verdicts' = Append(verdicts, Verdict(P99(hp)))
          /\ consecutive' = IF Verdict(P99(hp)) = "slow" THEN consecutive + 1 ELSE 0
          /\ due' = FALSE /\ elapsed' = elapsed
      BY <1>5, <2>3, <3>1, Zenon DEF RotateWindow
    <3>3. Len(verdicts) < elapsed
      BY <2>3, Zenon DEF LatInv
    <3>4. QED
      BY <3>1, <3>2, <3>3, JudgedInv DEF LatInv
  <2>4. QED
    BY <2>1, <2>2, <2>3, Zenon
<1>6. QED
  BY <1>2, <1>3, <1>4, <1>5, Zenon DEF LatNext

\* For any number of recorders and latencies, report() asks for throttling only
\* after three slow windows in a row, and no more windows are closed than have
\* passed (LatencyMonitor, io/src/latency.rs).
THEOREM Throttles == LatSpec => []ThrottleJustified
<1>1. LatInv => ThrottleJustified
  <2> SUFFICES ASSUME LatInv PROVE ThrottleJustified
    BY Zenon
  <2>1. ShouldThrottle => Len(verdicts) >= 3
                /\ \A i \in Len(verdicts) - 2 .. Len(verdicts) : verdicts[i] = "slow"
    BY DEF LatInv, ShouldThrottle
  <2>2. QED
    BY <2>1, Zenon DEF LatInv, ThrottleJustified
<1>2. QED
  BY <1>1, LatInitInv, LatStepInv, PTL DEF LatSpec

-----------------------------------------------------------------------------
(* RateLimiter                                                             *)

Expected == IF throttled THEN Lowered(maxRate) ELSE maxRate
Adjusters == Adjusts \cup Calibrations

\* The state's types; only a calibration keeps the bucket's mutex between two
\* steps, and the flag's is held by the adjustment that changes the ceiling.
Held ==
    /\ DOMAIN rlPc = RlCalls /\ seen \in [Adjusters -> [slow : BOOLEAN, max : Int]]
    /\ maxRate \in Int
    /\ bucketLock \in {Nobody} \cup Calibrations
    /\ flagLock \in {Nobody} \cup Adjusts
    /\ \A c \in Adjusts : rlPc[c] \in {"ceiling", "bucket"} <=> flagLock = c
    /\ \A c \in Adjusters : rlPc[c] \in {"idle", "flag", "ceiling", "bucket", "done"}

\* A calibration runs alone.
Alone ==
    \A k \in Calibrations : RlBusy(k) => \A a \in Adjusters \ {k} : ~RlBusy(a)

\* How far the adjustment c, or the calibration k, has come.
Adjusting(c) ==
    /\ seen[c].max = maxRate
    /\ rlPc[c] = "ceiling" => rate = ceiling /\ ceiling = Expected
    /\ rlPc[c] = "bucket" => ceiling = NewCeiling(c)
Calibrating(k) ==
    /\ seen[k].max = maxRate
    /\ rlPc[k] \in {"bucket", "flag"} => ceiling = maxRate
    /\ rlPc[k] = "flag" => rate = maxRate

Rested ==
    /\ Alone
    /\ \A c \in Adjusts : flagLock = c => Adjusting(c)
    /\ \A k \in Calibrations : RlBusy(k) => Calibrating(k)
    /\ flagLock = Nobody /\ (\A k \in Calibrations : ~RlBusy(k)) =>
           rate = ceiling /\ ceiling = Expected

RlInv == Held /\ (overlap \/ Rested)

----------------------------------------------------------------------------
\* The limiter starts with the rate of its calibration.
LEMMA RlInitInv == RlInit => RlInv
<1> SUFFICES ASSUME RlInit PROVE RlInv
  BY Zenon
<1>1. PICK bw \in Bandwidths :
          /\ rate = Calibrated(bw) /\ maxRate = rate /\ ceiling = rate
          /\ capacity = rate * TicksPerSecond /\ available = capacity
  BY Zenon DEF RlInit
<1>2. maxRate \in Int
  BY <1>1, RateConstants DEF Calibrated
<1>3. Held
  BY <1>2, RateConstants DEF RlInit, Held, Adjusters, RlCalls
<1>4. Rested
  BY <1>1, RateConstants, Zenon DEF RlInit, Rested, Alone, RlBusy, Adjusters, RlCalls, Expected
<1>5. QED
  BY <1>3, <1>4, Zenon DEF RlInv

\* lower_ceiling and restore_ceiling, step by step.
LEMMA AdjustInv ==
    ASSUME RlInv, NEW c \in Adjusts, AdjustStep(c)
    PROVE  RlInv'
<1> USE RateConstants DEF RlCalls, Adjusters, RlGoto
<1>0. c \in RlCalls /\ c \in Adjusters /\ c \notin Calibrations /\ c # Nobody
      /\ DOMAIN rlPc = RlCalls
  BY Zenon DEF RlInv, Held
<1>1. ASSUME NEW slow \in BOOLEAN, AdjustBegin(c, slow) PROVE RlInv'
  <2>1. Held'
    BY <1>0, <1>1 DEF AdjustBegin, RlInv, Held, ceilVars
  <2>2. ~overlap' => Rested'
    BY <1>0, <1>1, ZenonT(60) DEF AdjustBegin, RlInv, Held, Rested, Alone, RlBusy, Adjusting,
                Calibrating, Expected, NewCeiling, ceilVars, bucketVars
  <2>3. QED
    BY <2>1, <2>2, Zenon DEF RlInv
<1>2. CASE AdjustLockFlag(c)
  <2>1. Held'
    BY <1>0, <1>2 DEF AdjustLockFlag, RlInv, Held, ceilVars
  <2>2. ~overlap' => Rested'
    BY <1>0, <1>2 DEF AdjustLockFlag, RlInv, Held, Rested, Alone, RlBusy, Adjusting, Calibrating,
                Expected, NewCeiling, ceilVars, bucketVars
  <2>3. QED
    BY <2>1, <2>2, Zenon DEF RlInv
<1>3. CASE AdjustCeiling(c)
  <2>1. Held'
    BY <1>0, <1>3, Zenon DEF AdjustCeiling, RlInv, Held
  <2>2. ~overlap' => Rested'
    BY <1>0, <1>3 DEF AdjustCeiling, RlInv, Held, Rested, Alone, RlBusy, Adjusting, Calibrating,
                Expected, NewCeiling, bucketVars
  <2>3. QED
    BY <2>1, <2>2, Zenon DEF RlInv
<1>4. CASE AdjustBucket(c)
  <2>1. Held'
    BY <1>0, <1>4, Zenon DEF AdjustBucket, RlInv, Held
  <2>2. ~overlap' => Rested'
    BY <1>0, <1>4 DEF AdjustBucket, SetRate, RlInv, Held, Rested, Alone, RlBusy, Adjusting,
                Calibrating, Expected, NewCeiling
  <2>3. QED
    BY <2>1, <2>2, Zenon DEF RlInv
<1>5. QED
  BY <1>1, <1>2, <1>3, <1>4, Zenon DEF AdjustStep

\* calibrate, step by step.
LEMMA CalibrateInv ==
    ASSUME RlInv, NEW c \in Calibrations, CalibrateStep(c)
    PROVE  RlInv'
<1> USE RateConstants DEF RlCalls, Adjusters, RlGoto
<1>0. c \in RlCalls /\ c \in Adjusters /\ c \notin Adjusts /\ c # Nobody
      /\ DOMAIN rlPc = RlCalls
  BY Zenon DEF RlInv, Held
<1>1. ASSUME NEW bw \in Bandwidths, CalibrateMax(c, bw) PROVE RlInv'
  <2>0. Calibrated(bw) \in Int
    BY DEF Calibrated
  <2>1. Held'
    BY <1>0, <1>1, <2>0, Zenon DEF CalibrateMax, RlInv, Held
  <2>2. ~overlap' => Rested'
    BY <1>0, <1>1, <2>0, ZenonT(60) DEF CalibrateMax, RlInv, Held, Rested, Alone, RlBusy, Adjusting,
                Calibrating, Expected, NewCeiling, bucketVars
  <2>3. QED
    BY <2>1, <2>2, Zenon DEF RlInv
<1>2. CASE CalibrateCeiling(c)
  <2>1. Held'
    BY <1>0, <1>2, Zenon DEF CalibrateCeiling, RlInv, Held
  <2>2. ~overlap' => Rested'
    BY <1>0, <1>2 DEF CalibrateCeiling, RlInv, Held, Rested, Alone, RlBusy, Adjusting, Calibrating,
                Expected, NewCeiling, bucketVars
  <2>3. QED
    BY <2>1, <2>2, Zenon DEF RlInv
<1>3. CASE CalibrateBucket(c)
  <2>1. Held'
    BY <1>0, <1>3, Zenon DEF CalibrateBucket, RlInv, Held, ceilVars
  <2>2. ~overlap' => Rested'
    BY <1>0, <1>3, Zenon DEF CalibrateBucket, SetRate, RlInv, Held, Rested, Alone, RlBusy,
                             Adjusting,
                Calibrating, Expected, NewCeiling, ceilVars
  <2>3. QED
    BY <2>1, <2>2, Zenon DEF RlInv
<1>4. CASE CalibrateFlag(c)
  <2>1. Held'
    BY <1>0, <1>4, Zenon DEF CalibrateFlag, RlInv, Held
  <2>2. ~overlap' => Rested'
    BY <1>0, <1>4, Zenon DEF CalibrateFlag, RlInv, Held, Rested, Alone, RlBusy, Adjusting,
                Calibrating, Expected, NewCeiling, bucketVars
  <2>3. QED
    BY <2>1, <2>2, Zenon DEF RlInv
<1>5. QED
  BY <1>1, <1>2, <1>3, <1>4, Zenon DEF CalibrateStep

\* Every step of the limiter keeps the invariant.
LEMMA RlStepInv == RlInv /\ [RlNext]_rlVars => RlInv'
<1> SUFFICES ASSUME RlInv, [RlNext]_rlVars PROVE RlInv'
  BY Zenon
<1>1. CASE /\ UNCHANGED <<ceilVars, rate, bucketLock, flagLock, seen, overlap>>
           /\ DOMAIN rlPc' = RlCalls /\ \A c \in Adjusters : rlPc'[c] = rlPc[c]
  <2>1. Held'
    BY <1>1, Zenon DEF RlInv, Held, Adjusters, ceilVars
  <2>2. ~overlap' => Rested'
    BY <1>1, Zenon DEF RlInv, Rested, Alone, RlBusy, Adjusters, Adjusting, Calibrating, Expected,
                NewCeiling, ceilVars
  <2>3. QED
    BY <2>1, <2>2, Zenon DEF RlInv
<1>2. CASE UNCHANGED rlVars \/ RlTick \/ \E on \in BOOLEAN : SetPreemption(on)
  BY <1>1, <1>2, Zenon DEF rlVars, RlTick, SetPreemption, RlInv, Held, bucketVars
<1>3. ASSUME NEW c \in Acquires, AcquireStep(c) PROVE RlInv'
  <2>1. c \in RlCalls /\ c \notin Adjusters
    BY RateConstants, Zenon DEF RlCalls, Adjusters
  <2>2. UNCHANGED <<ceilVars, rate, bucketLock, flagLock, seen, overlap>>
    BY <1>3, Zenon DEF AcquireStep, AcquireBegin, PassGate, TryAcquire, ConsumeAfterWait, bucketVars
  <2>3. \E l : rlPc' = [rlPc EXCEPT ![c] = l]
    BY <1>3, Zenon DEF AcquireStep, AcquireBegin, PassGate, TryAcquire, ConsumeAfterWait, RlGoto
  <2>4. DOMAIN rlPc' = RlCalls /\ \A d \in Adjusters : rlPc'[d] = rlPc[d]
    BY <2>1, <2>3 DEF RlInv, Held
  <2>5. QED
    BY <1>1, <2>2, <2>4, Zenon
<1>4. QED
  BY <1>2, <1>3, AdjustInv, CalibrateInv, Zenon DEF RlNext

\* Adjustments of the ceiling deadlock with no one but a calibration, and leave
\* the bucket's rate, the ceiling and the flag in agreement, unless one of them
\* ran during a calibration (storage/src/rate_limiter).
THEOREM AdjustmentsAgree == RlSpec => []AdjustmentsAgreeUnlessCalibrating
<1>1. RlInv => AdjustmentsAgreeUnlessCalibrating
  <2> SUFFICES ASSUME RlInv PROVE AdjustmentsAgreeUnlessCalibrating
    BY Zenon
  <2>1. ASSUME NEW c \in RlCalls, NEW d \in RlCalls, WaitsFor(c, d), WaitsFor(d, c)
        PROVE  {c, d} \cap Calibrations # {}
    BY <2>1, RateConstants DEF RlInv, Held, WaitsFor
  <2>2. ASSUME \A c \in Adjusts \cup Calibrations : ~RlBusy(c), ~overlap
        PROVE  rate = ceiling /\ ceiling = IF throttled THEN Lowered(maxRate) ELSE maxRate
    <3>1. flagLock = Nobody
      BY <2>2, Zenon DEF RlInv, Held, RlBusy
    <3>2. QED
      BY <2>2, <3>1, Zenon DEF RlInv, Rested, Expected
  <2>3. QED
    BY <2>1, <2>2, Zenon DEF AdjustmentsAgreeUnlessCalibrating
<1>2. QED
  BY <1>1, RlInitInv, RlStepInv, PTL DEF RlSpec

-----------------------------------------------------------------------------
(* Sidecar                                                                 *)

Active == {"gaugeIn", "full", "send", "gaugeOut"}

SdTypeOK ==
    /\ DOMAIN call = Requests /\ DOMAIN sup = Supervisors
    /\ \A r \in Requests :
           call[r].pc = "gaugeIn" => call[r] = [pc |-> "gaugeIn", seen |-> call[r].seen]
    /\ backlog \in Seq(Requests)

\* The backlog holds the requests embed gave up on and no drain has sent, each
\* once.
Waiting(r) == call[r].pc = "done" /\ r \notin answered /\ r \notin redone
Kept ==
    /\ \A i, j \in 1..Len(backlog) : backlog[i] = backlog[j] => i = j
    /\ \A i \in 1..Len(backlog) : Waiting(backlog[i])
    /\ \A r \in Requests : Waiting(r) => \E i \in 1..Len(backlog) : backlog[i] = r
    /\ \A r \in Requests : r \in redone \cup answered => call[r].pc = "done"
    
\* While no two gauge writes have crossed, no call is over capacity, and a call
\* that is alone accounts for the count and the gauge.
Sole(r) == call[r].pc \in Active /\ \A o \in Requests \ {r} : call[o].pc \notin Active
Gauged ==
    ~raced =>
      /\ \A r \in Requests : call[r].pc # "full"
      /\ \A r \in Requests : Sole(r) =>
           \/ call[r].pc = "gaugeIn" /\ call[r].seen = 0 /\ inFlight = 1
           \/ call[r].pc = "send" /\ inFlight = 1
           \/ call[r].pc = "gaugeOut" /\ call[r].after = 0 /\ inFlight = 0
      /\ (\A r \in Requests : call[r].pc \notin Active) => depth = 0 /\ inFlight = 0

\* After a stop nothing runs, and nothing is on its way to start it again.
Halted ==
    /\ \A m \in Supervisors : sup[m] = "stopping" => shutdown
    /\ stopped => shutdown
    /\ stopped /\ ~revived =>
         child = "none" /\ \A m \in Supervisors : sup[m] \notin {"kill", "backoff"}

SdInv == SdTypeOK /\ Kept /\ Gauged /\ Halted

----------------------------------------------------------------------------
\* The manager starts with nothing running.
LEMMA SdInitInv == ScInit => SdInv
  BY DEF ScInit, SdInv, SdTypeOK, Kept, Waiting, Gauged, Sole, Active, Halted

\* A step of a call that has not ended, and that gets its answer if it ends here.
LEMMA CallKept ==
    ASSUME SdInv, NEW r \in Requests, NEW c, call[r].pc # "done", call' = [call EXCEPT ![r] = c],
           c.pc = "gaugeIn" => c = [pc |-> "gaugeIn", seen |-> c.seen],
           \/ c.pc # "done" /\ answered' = answered
           \/ c.pc = "done" /\ answered' = answered \cup {r},
           UNCHANGED <<backlog, redone, sup>>
    PROVE  SdTypeOK' /\ Kept'
<1>1. SdTypeOK /\ Kept /\ DOMAIN call = Requests /\ backlog \in Seq(Requests)
  BY Zenon DEF SdInv, SdTypeOK
<1>2. call'[r] = c /\ DOMAIN call' = Requests /\ \A o \in Requests \ {r} : call'[o] = call[o]
  BY <1>1, Zenon
<1>3. SdTypeOK'
  BY <1>1, <1>2, Zenon DEF SdTypeOK
<1>4. r \notin answered /\ r \notin redone
  BY <1>1, Zenon DEF Kept
<1>5. \A o \in Requests : Waiting(o)' <=> Waiting(o)
  BY <1>2, <1>4, Zenon DEF Waiting
<1>6. \A i \in 1..Len(backlog) : backlog[i] \in Requests
  BY <1>1
<1>7. ASSUME NEW o \in Requests, o \in redone' \cup answered' PROVE call'[o].pc = "done"
  <2>1. CASE o = r
    BY <1>2, <1>4, <1>7, <2>1, Zenon
  <2>2. CASE o # r
    BY <1>1, <1>2, <1>7, <2>2, Zenon DEF Kept
  <2>3. QED
    BY <2>1, <2>2, Zenon
<1>8. Kept'
  <2>1. \A i \in 1..Len(backlog) : Waiting(backlog[i])'
    BY <1>1, <1>5, <1>6, Zenon DEF Kept
  <2>2. \A o \in Requests : Waiting(o)' => \E i \in 1..Len(backlog) : backlog[i] = o
    BY <1>1, <1>5, Zenon DEF Kept
  <2>3. QED
    BY <1>1, <1>7, <2>1, <2>2, Zenon DEF Kept
<1>9. QED
  BY <1>3, <1>8, Zenon

\* embed, step by step.
LEMMA CallsInv ==
    ASSUME SdInv, NEW r \in Requests,
           \/ EmbedCheck(r) \/ AddToBacklog(r) \/ CountIn(r) \/ GaugeIn(r)
           \/ OverCapacity(r) \/ SendEmbedRequest(r) \/ GaugeOut(r)
    PROVE  SdInv'
<1> USE SidecarConstants DEF SetCall, manager
<1>0. DOMAIN call = Requests /\ backlog \in Seq(Requests)
  BY Zenon DEF SdInv, SdTypeOK
<1>1. Halted'
  BY Zenon DEF SdInv, Halted, EmbedCheck, AddToBacklog, CountIn, GaugeIn, OverCapacity,
               SendEmbedRequest,
         GaugeOut
<1>2. CASE EmbedCheck(r)
  <2>1. SdTypeOK' /\ Kept'
    BY <1>2, CallKept, Zenon DEF EmbedCheck
  <2>2. Gauged'
    BY <1>0, <1>2 DEF EmbedCheck, SdInv, Gauged, Sole, Active
  <2>3. QED
    BY <1>1, <2>1, <2>2, Zenon DEF SdInv
<1>3. CASE AddToBacklog(r)
  <2>1. SdTypeOK'
    BY <1>0, <1>3 DEF AddToBacklog, SdInv, SdTypeOK
  <2>2. Gauged'
    BY <1>0, <1>3 DEF AddToBacklog, SdInv, Gauged, Sole, Active
  <2>3. /\ backlog' \in Seq(Requests) /\ Len(backlog') = Len(backlog) + 1
        /\ \A i \in 1..Len(backlog) : backlog'[i] = backlog[i] /\ backlog[i] \in Requests
        /\ backlog'[Len(backlog) + 1] = r
    BY <1>0, <1>3, SMTT(30) DEF AddToBacklog
  <2>4. r \notin answered /\ r \notin redone /\ ~Waiting(r)
    BY <1>3, Zenon DEF AddToBacklog, SdInv, Kept, Waiting
  <2>5. \A o \in Requests : Waiting(o)' <=> (Waiting(o) \/ o = r)
    BY <1>0, <1>3, <2>4, Zenon DEF AddToBacklog, Waiting
  <2>6. Kept'
    <3>0. /\ \A i, j \in 1..Len(backlog) : backlog[i] = backlog[j] => i = j
          /\ \A i \in 1..Len(backlog) : Waiting(backlog[i])
          /\ \A o \in Requests : Waiting(o) => \E i \in 1..Len(backlog) : backlog[i] = o
      BY Zenon DEF SdInv, Kept
    <3>1. Len(backlog) \in Nat
      BY <1>0
    <3>2. \A i \in 1..Len(backlog) : backlog[i] # r
      BY <2>4, Zenon DEF SdInv, Kept
    <3>3. \A i, j \in 1..Len(backlog') : backlog'[i] = backlog'[j] => i = j
      <4>1. \A i \in 1..Len(backlog') : i \in 1..Len(backlog) \/ i = Len(backlog) + 1
        BY <2>3, <3>1
      <4>2. QED
        BY <2>3, <3>0, <3>2, <4>1, Zenon
    <3>4. \A i \in 1..Len(backlog') : Waiting(backlog[i])' 
      BY <2>3, <2>5, <3>0, <3>1
    <3>5. \A o \in Requests : Waiting(o)' => \E i \in 1..Len(backlog') : backlog'[i] = o
      BY <2>3, <2>5, <3>0, <3>1
    <3>6. \A o \in Requests : o \in redone' \cup answered' => call'[o].pc = "done"
      BY <1>0, <1>3, Zenon DEF SdInv, Kept, AddToBacklog
    <3>7. QED
      BY <3>3, <3>4, <3>5, <3>6, Zenon DEF Kept
  <2>7. QED
    BY <1>1, <2>1, <2>2, <2>6, Zenon DEF SdInv
<1>4. CASE CountIn(r)
  <2>1. SdTypeOK' /\ Kept'
    BY <1>4, CallKept, Zenon DEF CountIn
  <2>2. Gauged'
    BY <1>0, <1>4 DEF CountIn, SdInv, Gauged, Sole, Active
  <2>3. QED
    BY <1>1, <2>1, <2>2, Zenon DEF SdInv
<1>5. CASE GaugeIn(r)
  <2>1. SdTypeOK' /\ Kept'
    BY <1>5, CallKept, Zenon DEF GaugeIn, SdInv, SdTypeOK
  <2>2. Gauged'
    <3>1. ~raced' => ~raced /\ ~Overlapping(r)
      BY <1>5, Zenon DEF GaugeIn
    <3>2. /\ call[r].pc = "gaugeIn" /\ call[r] = [pc |-> "gaugeIn", seen |-> call[r].seen]
          /\ inFlight' = inFlight
      BY <1>5, Zenon DEF GaugeIn, SdInv, SdTypeOK
    <3>3. ASSUME ~raced'
          PROVE  /\ Sole(r) /\ ~raced /\ inFlight = 1 /\ call[r].seen = 0
                 /\ call'[r].pc = "send" /\ \A o \in Requests \ {r} : call'[o] = call[o]
      <4>1. Sole(r)
        BY <3>1, <3>2, <3>3, Zenon DEF Sole, Active, Overlapping
      <4>2. ~raced /\ inFlight = 1 /\ call[r].seen = 0
        BY <3>1, <3>2, <3>3, <4>1, Zenon DEF SdInv, Gauged
      <4>3. QED
        <5>1. ~(call[r].seen >= MaxInFlight)
          BY <4>2
        <5>2. call' = [call EXCEPT ![r] = [call[r] EXCEPT !.pc = "send"]]
          BY <1>5, <5>1, Zenon DEF GaugeIn
        <5>3. call'[r].pc = "send" /\ \A o \in Requests \ {r} : call'[o] = call[o]
          BY <1>0, <3>2, <5>2, Zenon
        <5>4. QED
          BY <4>1, <4>2, <5>3, Zenon
    <3>4. QED
      BY <1>0, <3>2, <3>3 DEF SdInv, Gauged, Sole, Active
  <2>3. QED
    BY <1>1, <2>1, <2>2, Zenon DEF SdInv
<1>6. CASE OverCapacity(r)
  <2>1. SdTypeOK' /\ Kept'
    BY <1>6, CallKept, Zenon DEF OverCapacity
  <2>2. Gauged'
    BY <1>0, <1>6, Zenon DEF OverCapacity, SdInv, Gauged
  <2>3. QED
    BY <1>1, <2>1, <2>2, Zenon DEF SdInv
<1>7. CASE SendEmbedRequest(r)
  <2>1. SdTypeOK' /\ Kept'
    BY <1>7, CallKept, Zenon DEF SendEmbedRequest
  <2>2. Gauged'
    <3>1. PICK c : /\ call' = [call EXCEPT ![r] = c] /\ c.pc = "gaugeOut"
                   /\ c.after = inFlight - 1 /\ inFlight' = inFlight - 1
      BY <1>7, Zenon DEF SendEmbedRequest
    <3>2. call'[r] = c /\ \A o \in Requests \ {r} : call'[o] = call[o]
      BY <1>0, <3>1, Zenon
    <3>3. raced' = raced /\ call[r].pc = "send" /\ r \in Requests
      BY <1>7, Zenon DEF SendEmbedRequest
    <3>4. ASSUME ~raced, NEW o \in Requests, Sole(o)'
          PROVE  o = r /\ c.after = 0 /\ inFlight' = 0
      <4>1. o = r
        BY <3>1, <3>2, <3>4, Zenon DEF Sole, Active
      <4>2. Sole(r)
        BY <3>2, <3>3, <3>4, <4>1, Zenon DEF Sole, Active
      <4>3. inFlight = 1
        BY <3>3, <3>4, <4>2, Zenon DEF SdInv, Gauged
      <4>4. inFlight - 1 = 0
        BY <4>3
      <4>5. QED
        BY <3>1, <4>1, <4>4, Zenon
    <3>5. ~raced' => \A o \in Requests : call'[o].pc # "full"
      BY <3>1, <3>2, <3>3, Zenon DEF SdInv, Gauged
    <3>6. ~\A o \in Requests : call'[o].pc \notin Active
      BY <3>1, <3>2, <3>3, Zenon DEF Active
    <3>7. QED
      BY <3>1, <3>2, <3>3, <3>4, <3>5, <3>6, Zenon DEF Gauged
  <2>3. QED
    BY <1>1, <2>1, <2>2, Zenon DEF SdInv
<1>8. CASE GaugeOut(r)
  <2>1. SdTypeOK' /\ Kept'
    BY <1>8, CallKept, Zenon DEF GaugeOut
  <2>2. Gauged'
    <3>1. ~raced' => ~raced /\ ~Overlapping(r)
      BY <1>8, Zenon DEF GaugeOut
    <3>0. call[r].pc = "gaugeOut" /\ inFlight' = inFlight /\ depth' = call[r].after
      BY <1>8, Zenon DEF GaugeOut
    <3>2. call'[r].pc \in {"done", "park"} /\ \A o \in Requests \ {r} : call'[o] = call[o]
      <4>1. PICK pc \in {"done", "park"} : call' = [call EXCEPT ![r] = [pc |-> pc]]
        BY <1>8, Zenon DEF GaugeOut
      <4> DEFINE e == [pc |-> pc]
      <4>2. e.pc = pc /\ call'[r] = e /\ \A o \in Requests \ {r} : call'[o] = call[o]
        BY <1>0, <4>1, Zenon
      <4> HIDE DEF e
      <4>3. QED
        BY <4>1, <4>2, Zenon
    <3>3. ASSUME ~raced'
          PROVE  Sole(r) /\ ~raced /\ inFlight' = 0 /\ depth' = 0
      <4>1. Sole(r)
        BY <3>0, <3>1, <3>3, Zenon DEF Sole, Active, Overlapping
      <4>2. QED
        BY <3>0, <3>1, <3>3, <4>1, Zenon DEF SdInv, Gauged
    <3>4. ASSUME ~raced', NEW o \in Requests PROVE call'[o].pc \notin Active
      <4>1. CASE o = r
        BY <3>2, <4>1, Zenon DEF Active
      <4>2. CASE o # r
        BY <3>2, <3>3, <3>4, <4>2, Zenon DEF Sole
      <4>3. QED
        BY <4>1, <4>2, Zenon
    <3>5. QED
      BY <3>3, <3>4, Zenon DEF Gauged, Sole, Active
  <2>3. QED
    BY <1>1, <2>1, <2>2, Zenon DEF SdInv
<1>9. QED
  BY <1>2, <1>3, <1>4, <1>5, <1>6, <1>7, <1>8, Zenon

\* A supervisor's step other than a drain's send leaves the calls alone.
Supervises ==
    UNCHANGED <<inFlight, depth, call, answered, backlog, redone, raced>>

\* A supervisor's step other than a drain's send keeps what is about the calls.
LEMMA SupervisesInv ==
    ASSUME SdInv, Supervises, DOMAIN sup' = Supervisors, Halted'
    PROVE  SdInv'
<1>1. SdTypeOK'
  BY Zenon DEF Supervises, SdInv, SdTypeOK
<1>2. Kept'
  BY Zenon DEF Supervises, SdInv, Kept, Waiting
<1>3. Gauged'
  BY Zenon DEF Supervises, SdInv, Gauged, Sole
<1>4. QED
  BY <1>1, <1>2, <1>3, Zenon DEF SdInv

\* start, stop, restart, the heartbeats and the ends of a drain.
LEMMA SupervisorInv ==
    ASSUME SdInv, NEW m \in Supervisors,
           \/ StartSidecar(m) \/ StartCounters(m) \/ Stop(m) \/ StopChild(m)
           \/ RestartSidecar(m) \/ RestartKill(m) \/ RestartStart(m)
           \/ RecordMissedHeartbeat(m) \/ Degrade(m) \/ RecordHeartbeat(m) \/ Recover(m)
           \/ DrainBegin(m) \/ DrainEnd(m)
    PROVE  SdInv'
<1>0. DOMAIN sup = Supervisors
  BY Zenon DEF SdInv, SdTypeOK
<1>1. Supervises /\ \E pc : sup' = [sup EXCEPT ![m] = pc]
  <2>1. CASE \/ StartSidecar(m) \/ StartCounters(m) \/ StopChild(m)
             \/ RestartKill(m) \/ RestartStart(m) \/ Degrade(m) \/ Recover(m) \/ DrainEnd(m)
    BY <2>1, Zenon DEF StartSidecar, StartCounters, StopChild, RestartKill, RestartStart, Degrade,
       Recover, DrainEnd, Spawn, SetSup, Supervises
  <2>2. CASE \/ Stop(m) \/ RestartSidecar(m) \/ RecordMissedHeartbeat(m) \/ RecordHeartbeat(m)
             \/ DrainBegin(m)
    BY <2>2, Zenon DEF Stop, RestartSidecar, RecordMissedHeartbeat, RecordHeartbeat, DrainBegin,
       Begins, SetSup, Supervises
  <2>3. QED
    BY <2>1, <2>2, Zenon
<1>2. DOMAIN sup' = Supervisors
  BY <1>0, <1>1, Zenon
<1>3. ASSUME StartSidecar(m) \/ StartCounters(m) \/ RestartStart(m) PROVE Halted'
  <2>1. UNCHANGED <<shutdown, stopped>>
    BY <1>3, Zenon DEF StartSidecar, StartCounters, RestartStart
  <2>2. \E pc \in {"idle", "started"} : sup' = [sup EXCEPT ![m] = pc]
    BY <1>3, Zenon DEF StartSidecar, StartCounters, RestartStart, Spawn, SetSup
  <2>3. ASSUME stopped, ~revived' PROVE ~revived /\ (child' = child \/ sup[m] = "backoff")
    <3>1. CASE StartSidecar(m)
      BY <2>3, <3>1, Zenon DEF StartSidecar
    <3>2. CASE StartCounters(m) \/ RestartStart(m)
      <4>1. revived' = revived /\ (child' = child \/ sup[m] = "backoff")
        BY <3>2, Zenon DEF StartCounters, RestartStart
      <4>2. QED
        BY <2>3, <4>1, Zenon
    <3>3. QED
      BY <1>3, <3>1, <3>2, Zenon
  <2>4. QED
    BY <1>0, <2>1, <2>2, <2>3, Zenon DEF SdInv, Halted
<1>4. ASSUME Stop(m) \/ StopChild(m) PROVE Halted'
  <2>1. CASE Stop(m)
    BY <1>0, <2>1, Zenon DEF SdInv, Halted, Stop, Begins, SetSup
  <2>2. CASE StopChild(m)
    <3>1. /\ shutdown' = shutdown /\ shutdown /\ child' = "none"
          /\ sup' = [sup EXCEPT ![m] = "idle"]
      BY <2>2, Zenon DEF StopChild, SdInv, Halted, SetSup
    <3>2. ~revived' => \A o \in Supervisors : sup[o] \notin {"kill", "backoff"}
      BY <2>2, Zenon DEF StopChild
    <3>3. QED
      BY <1>0, <3>1, <3>2, Zenon DEF SdInv, Halted
  <2>3. QED
    BY <1>4, <2>1, <2>2, Zenon
<1>5. ASSUME RestartSidecar(m) \/ RestartKill(m) PROVE Halted'
  BY <1>0, <1>5, SMTT(30) DEF SdInv, Halted, RestartSidecar, RestartKill, Begins, SetSup
<1>6. ASSUME \/ RecordMissedHeartbeat(m) \/ Degrade(m) \/ RecordHeartbeat(m) \/ Recover(m)
             \/ DrainBegin(m) \/ DrainEnd(m)
      PROVE  Halted'
  <2>1. /\ UNCHANGED <<child, shutdown, stopped, revived>>
        /\ \E pc : /\ sup' = [sup EXCEPT ![m] = pc] 
                   /\ pc \in {"idle", "degrade", "recover", "draining"}
    BY <1>6, Zenon DEF RecordMissedHeartbeat, Degrade, RecordHeartbeat, Recover, DrainBegin,
                DrainEnd, Begins, SetSup, manager
  <2>2. QED
    BY <1>0, <2>1, Zenon DEF SdInv, Halted
<1>7. QED
  BY <1>1, <1>2, <1>3, <1>4, <1>5, <1>6, SupervisesInv, Zenon

\* drain_backlog sends the oldest request, or gives up.
LEMMA DrainSendInv ==
    ASSUME SdInv, NEW m \in Supervisors, DrainSend(m)
    PROVE  SdInv'
<1>0. DOMAIN sup = Supervisors /\ DOMAIN call = Requests /\ backlog \in Seq(Requests)
      /\ backlog # << >>
  BY Zenon DEF SdInv, SdTypeOK, DrainSend
<1>1. Halted' /\ DOMAIN sup' = Supervisors
  BY <1>0, Zenon DEF SdInv, Halted, DrainSend, SetSup, manager
<1>2. CASE UNCHANGED <<backlog, redone>>
  BY <1>1, <1>2, SupervisesInv, Zenon DEF DrainSend, SetSup, Supervises
<1>3. CASE backlog' = Tail(backlog) /\ redone' = redone \cup {Head(backlog)}
  <2>1. SdTypeOK' /\ Gauged' /\ UNCHANGED <<call, answered>>
    BY <1>0, <1>1, <1>3 DEF SdInv, SdTypeOK, Gauged, Sole, DrainSend, SetSup
  <2>2. /\ Len(backlog) \in Nat \ {0} /\ Len(backlog') = Len(backlog) - 1
        /\ \A i \in 1..Len(backlog') : backlog'[i] = backlog[i + 1]
        /\ \A i \in 1..Len(backlog) : backlog[i] \in Requests
        /\ redone' = redone \cup {backlog[1]}
    BY <1>0, <1>3
  <2>3. \A r \in Requests : Waiting(r)' <=> Waiting(r) /\ r # backlog[1]
    BY <2>1, <2>2, Zenon DEF Waiting
  <2>0. /\ \A i, j \in 1..Len(backlog) : backlog[i] = backlog[j] => i = j
        /\ \A i \in 1..Len(backlog) : Waiting(backlog[i])
    BY Zenon DEF SdInv, Kept
  <2>4. \A i, j \in 1..Len(backlog') : backlog'[i] = backlog'[j] => i = j
    BY <2>0, <2>2
  <2>5. \A i \in 1..Len(backlog') : backlog'[i] # backlog[1]
    BY <2>0, <2>2
  <2>6. \A i \in 1..Len(backlog') : Waiting(backlog[i])'
    BY <2>0, <2>2, <2>3, <2>5
  <2>7. ASSUME NEW r \in Requests, Waiting(r)' PROVE \E i \in 1..Len(backlog') : backlog'[i] = r
    <3>1. PICK i \in 1..Len(backlog) : backlog[i] = r
      BY <2>3, <2>7, Zenon DEF SdInv, Kept
    <3>2. i - 1 \in 1..Len(backlog') /\ backlog'[i - 1] = r
      BY <2>2, <2>3, <2>7, <3>1
    <3>3. QED
      BY <3>2, Zenon
  <2>8. \A r \in Requests : r \in redone' \cup answered' => call'[r].pc = "done"
    BY <2>1, <2>2 DEF SdInv, Kept, Waiting
  <2>9. QED
    BY <1>1, <2>1, <2>4, <2>6, <2>7, <2>8, Zenon DEF SdInv, Kept
<1>4. QED
  BY <1>2, <1>3, Zenon DEF DrainSend

\* Every step of the manager keeps the invariant.
LEMMA SdStepInv == SdInv /\ [ScNext]_scvars => SdInv'
<1> SUFFICES ASSUME SdInv, [ScNext]_scvars PROVE SdInv'
  BY Zenon
<1>1. CASE ChildMoves
  <2>1. Halted'
    BY <1>1, Zenon DEF ChildMoves, SdInv, Halted
  <2>2. QED
    BY <1>1, <2>1, SupervisesInv, Zenon DEF ChildMoves, Supervises, SdInv, SdTypeOK
<1>2. CASE UNCHANGED scvars
  <2>1. Halted'
    BY <1>2, Zenon DEF scvars, SdInv, Halted
  <2>2. QED
    BY <1>2, <2>1, SupervisesInv, Zenon DEF scvars, Supervises, SdInv, SdTypeOK
<1>3. QED
  BY <1>1, <1>2, CallsInv, SupervisorInv, DrainSendInv, Zenon DEF ScNext

\* For any number of calls and supervisors, a request that was given up on is in
\* the backlog until a drain sends it, the gauge returns to zero unless the
\* writes of two calls crossed, and after stop no process runs unless it was
\* started again or a restart was in its back-off (sidecar/src/manager.rs).
THEOREM KeepsTrack == ScSpec => []KeepsTrackUnlessRaced
<1>1. SdInv => KeepsTrackUnlessRaced
  <2> SUFFICES ASSUME SdInv PROVE KeepsTrackUnlessRaced
    BY Zenon
  <2>1. DOMAIN backlog = 1..Len(backlog)
    BY DEF SdInv, SdTypeOK
  <2>2. IsInjective(backlog)
    BY <2>1, Zenon DEF SdInv, Kept, IsInjective
  <2>3. \A r \in Requests : r \in Range(backlog) <=> \E i \in 1..Len(backlog) : backlog[i] = r
    BY <2>1, Zenon DEF Range
  <2>4. ASSUME NEW r \in Requests, call[r].pc = "done", r \notin answered
        PROVE  (r \in Range(backlog)) # (r \in redone)
    <3>1. CASE r \in redone
      BY <2>3, <3>1, Zenon DEF SdInv, Kept, Waiting
    <3>2. CASE r \notin redone
      BY <2>3, <2>4, <3>2, Zenon DEF SdInv, Kept, Waiting
    <3>3. QED
      BY <3>1, <3>2, Zenon
  <2>5. (~raced /\ \A r \in Requests : call[r].pc \in {"new", "park", "done"})
          => depth = 0 /\ inFlight = 0
    BY Zenon DEF SdInv, Gauged, Active
  <2>6. (stopped /\ ~revived) => child = "none"
    BY Zenon DEF SdInv, Halted
  <2>7. QED
    BY <2>2, <2>4, <2>5, <2>6, Zenon DEF KeepsTrackUnlessRaced
<1>2. QED
  BY <1>1, SdInitInv, SdStepInv, PTL DEF ScSpec

=============================================================================
