------------------------------- MODULE Engine -------------------------------
(***************************************************************************)
(* The per-interval algorithm of a load phase (internal/engine engine.go,  *)
(* stability.go, stats.go stddev): flow ramp, drain intervals, goodput and *)
(* responsiveness stability, the lower bound, and the final summary as     *)
(* loadPhase turns it into a direction's figures.                          *)
(*                                                                         *)
(* Interval holds the engine's mutex, so it is one action.  Arithmetic is  *)
(* exact: goodputs are integers, moving averages are stored times Scale,   *)
(* and a comparison of a standard deviation is one of the variances.       *)
(***************************************************************************)
EXTENDS LatencyStats, Settings

CONSTANTS
  Options,       \* the options a caller may give: MaxFlows, Stability
  Dirs,          \* of "download" and "upload"
  Scale,         \* a common multiple of 1..MAD
  Unit,          \* a common multiple of the elapsed times
  Observations,  \* what an interval may report: bytes, elapsed, foreign, self
  MaxIntervals   \* bound of the model

Fraction == Int \X (Nat \ {0})
StabilityParams ==
  [MovingAverageDistance : Int, Interval : Int, TrimmedMeanPercent : Int, StdDevTolerance : Fraction,
   InitialFlows : Int, FlowIncrement : Int, MaxProbesPerSecond : Int, ProbeCapacityPercent : Fraction,
   SendBufferBytes : Int, RampGainTolerance : Fraction, ChangeTolerance : Fraction]

ASSUME EngineAssumption ==
  /\ Options \subseteq [MaxFlows : Int, Stability : StabilityParams]
  /\ Defaults \in StabilityParams /\ Usable(Defaults)
  /\ DefaultMaxFlows \in Nat \ {0} /\ DefaultUploadSendBuffer \in Nat
  /\ Scale \in Nat \ {0} /\ Unit \in Nat \ {0} /\ MaxIntervals \in Nat
  /\ \A o \in Observations :
       o.bytes \in Nat /\ o.elapsed \in Int /\ (o.elapsed > 0 => Unit % o.elapsed = 0)

ASSUME SamplesAssumption ==
  \A o \in Observations : o.foreign \in Seq(LatencySample) /\ o.self \in Seq(LatencySample)

VARIABLES
  sp, maxFlows,   \* the parameters of the engine
  intervals,      \* completed intervals
  raw,            \* tp.raw, and holdG, which is reset and extended with it
  holdIdx,        \* interval numbers of raw
  rp,             \* rp.raw
  peak,
  goodputStable,
  steadyFrom,
  lb,             \* the lower bound: value, first interval and rpm, 0 when there is none
  samples,        \* foreign and self samples of each completed interval
  addedInto,
  awaitGain,
  beforeAdd,
  rampDone,
  drainCredit,
  stopped,
  flows,          \* load flows the I/O layer has opened
  payload,        \* bytes the load flows have moved
  drain,          \* Decision.Drain of the last interval
  goodputs,       \* history: the goodput of each interval, or Drained
  lastDrop,       \* history: the interval at which tracking last restarted
  result          \* the direction's figures, once the phase has ended

ramp == <<addedInto, awaitGain, beforeAdd, rampDone, drainCredit, flows>>
vars == <<sp, maxFlows, intervals, raw, holdIdx, rp, peak, goodputStable, steadyFrom, lb, samples, ramp,
          stopped, payload, drain, goodputs, lastDrop, result>>

NoBound == [bps |-> 0, start |-> 0, rpm |-> 0]
NoResult == [throughput |-> -1]
Drained == -1

MAD == sp.MovingAverageDistance
SdtNum == sp.StdDevTolerance[1]
SdtDen == sp.StdDevTolerance[2]

(***************************************************************************)
(* Tracker.                                                                *)
(***************************************************************************)
Trailing(s, n) == SubSeq(s, AtLeast(Len(s) - n, 0) + 1, Len(s))

\* stddev(s) < StdDevTolerance * (r / q), for r > 0.
Steady(s, r, q) ==
  LET n == Len(s)
      squares == Sum([i \in 1..n |-> s[i] * s[i]])
  IN (n * squares - Sum(s) * Sum(s)) * SdtDen * SdtDen * q * q
       < SdtNum * SdtNum * r * r * n * n

\* The moving average after the i-th value, times Scale.
Average(s, i) ==
  LET w == Trailing(SubSeq(s, 1, i), MAD) IN Sum(w) * (Scale \div Len(w))
Current(s) == IF s = <<>> THEN 0 ELSE Average(s, Len(s))

\* Stable of the goodput tracker, judged on its moving averages.
StableSeries(s) ==
  /\ Len(s) >= MAD /\ Current(s) > 0
  /\ Steady([i \in 1..MAD |-> Average(s, Len(s) - MAD + i)], Current(s), 1)

\* Stable of the windowed tracker, judged on the values themselves.
StableWindowed(s) ==
  /\ Len(s) >= MAD /\ s[Len(s)] > 0
  /\ Steady(Trailing(s, MAD), s[Len(s)], 1)

(***************************************************************************)
(* New, and the flows opened before the first interval.                    *)
(***************************************************************************)
InitialFlows(p, max) == AtMost(p.InitialFlows, max)

Init ==
  /\ \E o \in Options, dir \in Dirs :
       sp = PhaseParams(o, dir) /\ maxFlows = withDefaults(o).MaxFlows
  /\ intervals = 0 /\ raw = <<>> /\ holdIdx = <<>> /\ rp = <<>> /\ peak = 0
  /\ goodputStable = FALSE /\ steadyFrom = 0 /\ lb = NoBound /\ samples = <<>>
  /\ addedInto = InitialFlows(sp, maxFlows) /\ awaitGain = FALSE /\ beforeAdd = 0 /\ rampDone = FALSE
  /\ drainCredit = addedInto * sp.SendBufferBytes
  /\ stopped = FALSE /\ flows = addedInto /\ payload = 0 /\ drain = FALSE
  /\ goodputs = <<>> /\ lastDrop = 0 /\ result = NoResult

(***************************************************************************)
(* Interval: what the observation is worth.                                *)
(***************************************************************************)
Goodput(o) == o.bytes * (Unit \div (IF o.elapsed <= 0 THEN sp.Interval ELSE o.elapsed))

Drains(o) == drainCredit > 0 /\ drainCredit * SdtDen > SdtNum * o.bytes
Holds(o) == ~Drains(o) /\ addedInto = 0

\* A drop below the moving average beyond tolerance.
Drops(o) ==
  /\ Holds(o) /\ Len(raw) >= MAD
  /\ Goodput(o) * Scale * sp.ChangeTolerance[2]
       < (sp.ChangeTolerance[2] - sp.ChangeTolerance[1]) * Current(raw)

\* The samples of the intervals of w, one after the other.
Flatten(w) ==
  [foreign |-> FlattenSeq([i \in 1..Len(w) |-> w[i].foreign]),
   self |-> FlattenSeq([i \in 1..Len(w) |-> w[i].self])]
RPM(w) == Responsiveness(w.foreign, w.self, sp.TrimmedMeanPercent).total

\* No drain interval between the intervals first..last.
AnyGap(first, last) == TRUE
Consecutive(first, last) == last - first = MAD - 1

updateBound(s, idx, old) ==
  LET g == Trailing(s, MAD) first == idx[Len(idx) - MAD + 1] IN
  IF /\ Len(s) >= MAD /\ Consecutive(first, idx[Len(idx)])
     /\ Sum(g) > 0 /\ Steady(g, Sum(g), MAD)
  THEN [bps |-> Min(ToSet(g)), start |-> first,
        rpm |-> RPM(Flatten(SubSeq(samples', first, idx[Len(idx)])))]
  ELSE old

\* A measured interval; a drop forgets every earlier one.
Measure(o) ==
  /\ peak' = AtLeast(peak, Goodput(o))
  /\ raw' = Append(IF Drops(o) THEN <<>> ELSE raw, Goodput(o))
  /\ holdIdx' = Append(IF Drops(o) THEN <<>> ELSE holdIdx, intervals + 1)
  /\ lb' = updateBound(raw', holdIdx', IF Drops(o) THEN NoBound ELSE lb)
  /\ lastDrop' = IF Drops(o) THEN intervals + 1 ELSE lastDrop

\* The start of the steady window after a drop, forgotten or not.
StartKept(o) == steadyFrom
StartAfter(o) == IF Drops(o) THEN 0 ELSE steadyFrom

\* Goodput stability is latched until the next drop.
Latch(o) ==
  LET was == goodputStable /\ ~Drops(o) IN
  /\ goodputStable' = (was \/ StableSeries(raw'))
  /\ steadyFrom' = IF goodputStable' /\ ~was /\ StartAfter(o) = 0 THEN intervals + 1 ELSE StartAfter(o)

(***************************************************************************)
(* Interval: responsiveness, the end of the phase and the ramp.            *)
(***************************************************************************)
window(n) == Flatten(Trailing(samples', n))

Respond ==
  LET cur == RPM(window(MAD)) IN
  rp' = IF (goodputStable' \/ rampDone) /\ cur > 0 THEN Append(rp, cur) ELSE rp

Converged == goodputStable' /\ StableWindowed(rp')

\* RampGainTolerance: the step before bought too little.
NoGain(g) ==
  /\ awaitGain /\ ~Negative(sp.RampGainTolerance) /\ beforeAdd > 0
  /\ (g - beforeAdd) * sp.RampGainTolerance[2] < sp.RampGainTolerance[1] * beforeAdd

\* Double the flows, by at least FlowIncrement and up to maxFlows.
Add == AtMost(AtLeast(flows, sp.FlowIncrement), maxFlows - flows)

\* The decision waits for a measured interval; the cap ends the ramp at once.
AlwaysDecides(o) == TRUE
Decides(o) == ~Drains(o)

Ramp(o) ==
  LET over == rampDone \/ flows >= maxFlows
      noGain == Decides(o) /\ ~over /\ NoGain(Goodput(o))
      add == Decides(o) /\ ~over /\ ~noGain
  IN /\ rampDone' = (over \/ noGain)
     /\ awaitGain' = (add \/ (awaitGain /\ (Drains(o) \/ over)))
     /\ addedInto' = IF add THEN Add ELSE 0
     /\ beforeAdd' = IF add THEN Goodput(o) ELSE beforeAdd
     /\ drainCredit' = IF add THEN Add * sp.SendBufferBytes ELSE 0
     /\ flows' = IF add THEN flows + Add ELSE flows

\* The converged phase stops before the ramp is looked at.
Converge ==
  /\ addedInto' = 0 /\ drainCredit' = 0
  /\ UNCHANGED <<awaitGain, beforeAdd, rampDone, flows>>

EndInterval(o) ==
  /\ result = NoResult /\ ~stopped /\ intervals < MaxIntervals
  /\ intervals' = intervals + 1
  /\ payload' = payload + o.bytes
  /\ samples' = Append(samples, [foreign |-> o.foreign, self |-> o.self])
  /\ drain' = Drains(o)
  /\ goodputs' = Append(goodputs, IF Drains(o) THEN Drained ELSE Goodput(o))
  /\ IF Drains(o) THEN UNCHANGED <<peak, raw, holdIdx, lb, lastDrop>> ELSE Measure(o)
  /\ Latch(o)
  /\ Respond
  /\ stopped' = Converged
  /\ IF Converged THEN Converge ELSE Ramp(o)
  /\ UNCHANGED <<sp, maxFlows, result>>

(***************************************************************************)
(* Summary, and what loadPhase reports: bytes moved in the interval the    *)
(* phase ended in, with its samples, come on top.                          *)
(***************************************************************************)
\* The first interval of the working-conditions window.
WindowFrom ==
  LET trailing == AtLeast(intervals - MAD + 1, 1) IN
  IF goodputStable /\ steadyFrom > 0 /\ steadyFrom < trailing THEN steadyFrom ELSE trailing

NeverEmpty(w) == FALSE
Empty(w) == w.foreign = <<>> /\ w.self = <<>>

\* The latencies loadPhase summarises, as Loaded.Combined.
Combined(w) == durationsOf(w.foreign \o w.self, LAMBDA x : x.HTTP)

Summary(o, mean) ==
  LET w == window(intervals - WindowFrom + 1)
      all == window(intervals)
      used == IF Empty(w) THEN [foreign |-> all.foreign \o o.foreign, self |-> all.self \o o.self] ELSE w
  IN [throughput |-> IF intervals = 0 THEN mean ELSE Current(raw), stable |-> StableSeries(raw),
      from |-> IF Empty(w) THEN 1 ELSE WindowFrom, used |-> used,
      rpm |-> RPM(used),
      Foreign |-> ComputeLatencyStats(used.foreign), Self |-> ComputeLatencyStats(used.self),
      Stages |-> ComputeStages(used.foreign), Combined |-> statsOf(Combined(used))]

\* The phase may end in any interval: converged, capped, out of time, failed.
EndPhase(o) ==
  /\ result = NoResult
  /\ payload' = payload + o.bytes
  /\ UNCHANGED samples
  /\ result' = Summary(o, payload')
  /\ UNCHANGED <<sp, maxFlows, intervals, raw, holdIdx, rp, peak, goodputStable, steadyFrom, lb, ramp,
                 stopped, drain, goodputs, lastDrop>>

Next == \E o \in Observations : EndInterval(o) \/ EndPhase(o)

Spec == Init /\ [][Next]_vars
-----------------------------------------------------------------------------
TypeOK ==
  /\ Usable(sp) /\ maxFlows \in Nat \ {0}
  /\ intervals \in 0..MaxIntervals
  /\ raw \in Seq(Nat) /\ holdIdx \in Seq(1..MaxIntervals) /\ Len(holdIdx) = Len(raw)
  /\ rp \in Seq(Nat) /\ peak \in Nat /\ goodputStable \in BOOLEAN
  /\ steadyFrom \in 0..MaxIntervals
  /\ lb \in [bps : Nat, start : 0..MaxIntervals, rpm : Nat]
  /\ addedInto \in Nat /\ awaitGain \in BOOLEAN /\ beforeAdd \in Nat
  /\ rampDone \in BOOLEAN /\ drainCredit \in Nat /\ stopped \in BOOLEAN
  /\ flows \in Nat /\ payload \in Nat /\ drain \in BOOLEAN
  /\ goodputs \in Seq(Nat \cup {Drained}) /\ lastDrop \in 0..MaxIntervals

\* The intervals measured since tracking last restarted.
MeasuredSinceDrop == {i \in AtLeast(lastDrop, 1)..intervals : goodputs[i] # Drained}

\* LOAD-13: a window of MAD consecutive measured intervals since the last
\* drop whose goodputs are within tolerance of their mean.
Sustained(start) ==
  LET g == SubSeq(goodputs, start, start + MAD - 1) IN
  /\ start..start + MAD - 1 \subseteq MeasuredSinceDrop
  /\ Sum(g) > 0 /\ Steady(g, Sum(g), MAD)

\* RPM by the draft's definition.
RefRPM(w) ==
  LET tm(q, f(_)) == TM(durationsOf(q, f), sp.TrimmedMeanPercent)
      http(x) == x.HTTP
  IN totalRPM(rpm(foreignRTT(tm(w.foreign, LAMBDA x : x.Connect), tm(w.foreign, TLSPerRTT), tm(w.foreign, http))),
              rpm(tm(w.self, http)))

\* LOAD-13: the lower bound is the lowest goodput of the latest such window,
\* with the responsiveness of that window, and there is one exactly when such
\* a window formed.
LowerBoundSound ==
  LET starts == {i \in 1..intervals : Sustained(i)} IN
  IF starts = {} THEN lb = NoBound
  ELSE LET last == lb.start + MAD - 1 IN
       /\ lb.start = Max(starts)
       /\ lb.bps = Min({goodputs[i] : i \in lb.start..last})
       /\ lb.rpm = RefRPM(Flatten(SubSeq(samples, lb.start, last)))

\* LOAD-3, LOAD-12 and INV-1: flows are added only on a measured interval, at
\* most doubling, never beyond MaxFlows and never again once the ramp is over.
RampSteps ==
  [][flows' # flows =>
       /\ ~drain' /\ ~rampDone /\ flows' <= maxFlows
       /\ flows' <= AtLeast(2 * flows, flows + sp.FlowIncrement)]_vars

\* LOAD-14 and LOAD-5: the working-conditions window starts where goodput was
\* found stable after the last drop, with MAD measured intervals to show for
\* it, and the phase converges only on such a window and MAD responsiveness
\* figures.
EvidenceSinceDrop ==
  /\ IF goodputStable
     THEN Cardinality({i \in MeasuredSinceDrop : i <= steadyFrom}) >= MAD
     ELSE steadyFrom = 0
  /\ stopped => goodputStable /\ Len(rp) >= MAD

\* LOAD-14 and INV-3: a phase with samples reports responsiveness from some of
\* them, over no fewer than the last MAD intervals.
SummaryUsesSamples ==
  result # NoResult =>
    /\ (\E i \in 1..intervals : samples[i].foreign # <<>> \/ samples[i].self # <<>>) => result.rpm > 0
    /\ result.from <= AtLeast(intervals - MAD + 1, 1)

\* LOAD-5 and LAT-7: the rates reported are those of the draft's trimmed means,
\* whatever the order in which concurrent probes filed their samples.
RPMByDefinition == result # NoResult => result.rpm = RefRPM(result.used)

\* LAT-7 and LAT-8: a percentile is reported exactly when the samples make it an
\* order statistic other than the maximum, and then it is the nearest rank.
PercentilesAreRanks ==
  result # NoResult =>
    LET d == Combined(result.used) IN
    d # <<>> => \A p \in Percentiles :
      IF HasRank(Len(d), p) THEN NearestRank(d, p, result.Combined.P[p]) ELSE result.Combined.P[p] = 0

\* INV-3, "A result never implies 'not measured' with a zero": a throughput of
\* zero comes from a measured interval, or nothing was moved.
ZeroMeansMeasured == result # NoResult /\ result.throughput = 0 => raw # <<>> \/ payload = 0
=============================================================================
