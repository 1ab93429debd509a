------------------------------ MODULE Settings ------------------------------
(***************************************************************************)
(* Options and defaults: options.go withDefaults, stability.go             *)
(* WithDefaults, the converters between the two parameter types, and the   *)
(* send buffer loadPhase fills in.  Fractions are pairs <<num, den>> with  *)
(* a positive denominator.  The default values are parameters.             *)
(***************************************************************************)
EXTENDS Integers

CONSTANTS
  Defaults,                \* DefaultStabilityParams()
  DefaultMaxFlows,
  DefaultUploadSendBuffer

Positive(q) == q[1] > 0
Negative(q) == q[1] < 0

\* What the engine needs of its parameters.
Usable(p) ==
  /\ p.MovingAverageDistance > 0 /\ p.Interval > 0 /\ p.TrimmedMeanPercent \in 1..100
  /\ Positive(p.StdDevTolerance) /\ Positive(p.ChangeTolerance)
  /\ p.InitialFlows > 0 /\ p.FlowIncrement > 0
  /\ p.MaxProbesPerSecond > 0 /\ Positive(p.ProbeCapacityPercent)
  /\ p.SendBufferBytes >= 0 /\ p.RampGainTolerance[1] # 0

Or(good, x, default) == IF good THEN x ELSE default

\* StabilityParams.WithDefaults
WithDefaults(p) ==
  LET d == Defaults IN
  [MovingAverageDistance |-> Or(p.MovingAverageDistance > 0, p.MovingAverageDistance, d.MovingAverageDistance),
   Interval              |-> Or(p.Interval > 0, p.Interval, d.Interval),
   TrimmedMeanPercent    |-> Or(p.TrimmedMeanPercent \in 1..100, p.TrimmedMeanPercent, d.TrimmedMeanPercent),
   StdDevTolerance       |-> Or(Positive(p.StdDevTolerance), p.StdDevTolerance, d.StdDevTolerance),
   InitialFlows          |-> Or(p.InitialFlows > 0, p.InitialFlows, d.InitialFlows),
   FlowIncrement         |-> Or(p.FlowIncrement > 0, p.FlowIncrement, d.FlowIncrement),
   MaxProbesPerSecond    |-> Or(p.MaxProbesPerSecond > 0, p.MaxProbesPerSecond, d.MaxProbesPerSecond),
   ProbeCapacityPercent  |-> Or(Positive(p.ProbeCapacityPercent), p.ProbeCapacityPercent, d.ProbeCapacityPercent),
   SendBufferBytes       |-> Or(p.SendBufferBytes >= 0, p.SendBufferBytes, 0),
   RampGainTolerance     |-> Or(p.RampGainTolerance[1] # 0, p.RampGainTolerance, d.RampGainTolerance),
   ChangeTolerance       |-> Or(Positive(p.ChangeTolerance), p.ChangeTolerance, d.ChangeTolerance)]

\* Options.withDefaults, of the fields a load phase uses.
withDefaults(o) ==
  [o EXCEPT !.MaxFlows = Or(@ > 0, @, DefaultMaxFlows), !.Stability = WithDefaults(@)]

\* The parameters loadPhase gives the engine; New defaults them once more.
PhaseParams(o, dir) ==
  LET p == withDefaults(o).Stability IN
  WithDefaults(
    IF dir = "upload" /\ p.SendBufferBytes = 0
    THEN [p EXCEPT !.SendBufferBytes = DefaultUploadSendBuffer] ELSE p)
=============================================================================
