------------------------------ MODULE MCEngine ------------------------------
(* The engine on small instances; the cfg files choose among these values.  *)
EXTENDS Engine

\* A small engine in place of the draft's defaults.
SmallDefaults ==
  [MovingAverageDistance |-> 2, Interval |-> 1, TrimmedMeanPercent |-> 70, StdDevTolerance |-> <<1, 5>>,
   InitialFlows |-> 1, FlowIncrement |-> 1, MaxProbesPerSecond |-> 100, ProbeCapacityPercent |-> <<1, 20>>,
   SendBufferBytes |-> 0, RampGainTolerance |-> <<1, 10>>, ChangeTolerance |-> <<1, 4>>]

Unset ==
  [MovingAverageDistance |-> 0, Interval |-> 0, TrimmedMeanPercent |-> 0, StdDevTolerance |-> <<0, 1>>,
   InitialFlows |-> 0, FlowIncrement |-> 0, MaxProbesPerSecond |-> 0, ProbeCapacityPercent |-> <<0, 1>>,
   SendBufferBytes |-> 0, RampGainTolerance |-> <<0, 1>>, ChangeTolerance |-> <<0, 1>>]

\* Every option at its default, and a ramp that never stops for lack of gain.
BothOptions ==
  {[MaxFlows |-> 0, Stability |-> Unset],
   [MaxFlows |-> 3, Stability |-> [Unset EXCEPT !.RampGainTolerance = <<-1, 1>>, !.InitialFlows = 4]]}
DefaultOptions == {[MaxFlows |-> 0, Stability |-> Unset]}

Fresh(rtt) == [Total |-> 3 * rtt, DNS |-> 0, Connect |-> rtt, TLS |-> 2 * rtt, TLSRTTs |-> 2,
               TTFB |-> rtt, HTTP |-> rtt, Staged |-> TRUE]
OnFlow(rtt) == [Fresh(rtt) EXCEPT !.Total = rtt, !.Connect = 0, !.TLS = 0, !.TLSRTTs = 0, !.TTFB = 0, !.Staged = FALSE]

Seen(b, e, f, s) == [bytes |-> b, elapsed |-> e, foreign |-> f, self |-> s]

\* Goodputs that gain, hold, sag within and drop beyond tolerance.
LoadObservations == {Seen(b, 1, <<Fresh(2)>>, <<OnFlow(2)>>) : b \in {0, 4, 5, 8}}

\* The same, slower probes, an interval without samples, and a late tick.
MixedObservations ==
  LoadObservations \cup
    {Seen(5, 1, <<Fresh(6)>>, <<OnFlow(4), OnFlow(1)>>), Seen(5, 1, <<>>, <<>>), Seen(8, 2, <<Fresh(4)>>, <<>>)}
=============================================================================
