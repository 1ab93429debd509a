---------------------------- MODULE EngineProofs ----------------------------
(***************************************************************************)
(* Proofs about the engine, for every option a caller may give and every   *)
(* sequence of observations: what the defaults repair, the cap on flows,   *)
(* how the ramp may step, what Interval tracks since the last drop, where  *)
(* the working-conditions window may start, which window the lower bound   *)
(* is of, and that the figures of a phase are what the draft defines:      *)
(* sortedCopy sorts, percentile takes the nearest rank, trimmedMean is     *)
(* TM(d), and responsiveness is reported whenever a sample was seen.       *)
(***************************************************************************)
EXTENDS Engine, FiniteSetTheorems, WellFoundedInduction, TLAPS

(***************************************************************************)
(* Defaults.                                                               *)
(***************************************************************************)
\* Whatever the caller's parameters, the defaulted ones are usable.
LEMMA DefaultedUsable ==
  ASSUME NEW p \in StabilityParams
  PROVE  WithDefaults(p) \in StabilityParams /\ Usable(WithDefaults(p))
<1>1. WithDefaults(p) \in StabilityParams
  BY EngineAssumption DEF WithDefaults, Or, StabilityParams, Fraction, Positive
<1>2. Usable(WithDefaults(p))
  BY EngineAssumption DEF WithDefaults, Or, StabilityParams, Fraction, Usable, Positive
<1> QED
  BY <1>1, <1>2

\* The defaults leave usable parameters alone, field by field.
LEMMA UsableKept ==
  ASSUME NEW p \in StabilityParams, Usable(p)
  PROVE  WithDefaults(p) = p
BY DEF WithDefaults, Or, Usable, StabilityParams

\* The parameters of a phase, before the engine defaults them again.
LEMMA PhaseParamsFacts ==
  ASSUME NEW o \in Options, NEW dir
  PROVE  /\ withDefaults(o).MaxFlows \in Nat \ {0}
         /\ PhaseParams(o, dir) \in StabilityParams /\ Usable(PhaseParams(o, dir))
<1> DEFINE p == withDefaults(o).Stability
           q == IF dir = "upload" /\ p.SendBufferBytes = 0
                THEN [p EXCEPT !.SendBufferBytes = DefaultUploadSendBuffer] ELSE p
<1>1. o.MaxFlows \in Int /\ o.Stability \in StabilityParams /\ DOMAIN o = {"MaxFlows", "Stability"}
  BY EngineAssumption
<1>2. withDefaults(o).MaxFlows \in Nat \ {0} /\ p = WithDefaults(o.Stability)
  BY <1>1, EngineAssumption DEF withDefaults, Or
<1>3. p \in StabilityParams
  BY <1>1, <1>2, DefaultedUsable
<1>4. q \in StabilityParams
  BY <1>3, EngineAssumption DEF StabilityParams
<1>5. PhaseParams(o, dir) = WithDefaults(q)
  BY DEF PhaseParams
<1> QED
  BY <1>2, <1>4, <1>5, DefaultedUsable

\* StabilityParams.WithDefaults: any parameters become usable ones, and a
\* second defaulting (New's, after withDefaults') changes nothing, so what the
\* caller reads back from the result is what the engine ran with.
THEOREM DefaultsAreRepairs ==
  \A p \in StabilityParams :
    /\ Usable(WithDefaults(p))
    /\ WithDefaults(WithDefaults(p)) = WithDefaults(p)
BY DefaultedUsable, UsableKept

(***************************************************************************)
(* The ramp.                                                               *)
(***************************************************************************)
FlowInv ==
  /\ sp \in StabilityParams /\ Usable(sp)
  /\ maxFlows \in Nat \ {0} /\ flows \in 0..maxFlows

\* The next step of the ramp stays below the cap and at most doubles.
LEMMA AddFacts ==
  ASSUME FlowInv, flows < maxFlows
  PROVE  /\ Add \in Nat /\ flows + Add <= maxFlows
         /\ flows + Add <= AtLeast(2 * flows, flows + sp.FlowIncrement)
<1>1. sp.FlowIncrement \in Int /\ sp.FlowIncrement > 0
  BY DEF FlowInv, StabilityParams, Usable
<1> QED
  BY <1>1 DEF FlowInv, Add, AtMost, AtLeast

\* An interval either leaves the flows alone or takes one step of an open
\* ramp, on a measured interval.
LEMMA IntervalStep ==
  ASSUME FlowInv, NEW o \in Observations, EndInterval(o)
  PROVE  \/ flows' = flows
         \/ ~drain' /\ ~rampDone /\ flows < maxFlows /\ flows' = flows + Add
<1>1. CASE Converged
  BY <1>1 DEF EndInterval, Converge
<1>2. CASE ~Converged
  <2>1. Ramp(o) /\ drain' = Drains(o)
    BY <1>2 DEF EndInterval
  <2>2. Drains(o) \in BOOLEAN
    BY DEF Drains
  <2>3. CASE Decides(o) /\ ~rampDone /\ ~(flows >= maxFlows) /\ ~NoGain(Goodput(o))
    BY <2>1, <2>3 DEF Ramp, FlowInv, Decides
  <2>4. CASE ~(Decides(o) /\ ~rampDone /\ ~(flows >= maxFlows) /\ ~NoGain(Goodput(o)))
    BY <2>1, <2>4 DEF Ramp
  <2> QED
    BY <2>3, <2>4
<1> QED
  BY <1>1, <1>2

\* Every step of the specification, as seen by the flows.
LEMMA FlowStep ==
  ASSUME FlowInv, [Next]_vars
  PROVE  /\ sp' = sp /\ maxFlows' = maxFlows
         /\ \/ flows' = flows
            \/ ~drain' /\ ~rampDone /\ flows < maxFlows /\ flows' = flows + Add
<1>1. ASSUME NEW o \in Observations, EndPhase(o)
      PROVE  UNCHANGED <<sp, maxFlows, flows>>
  BY <1>1 DEF EndPhase, ramp
<1>2. ASSUME UNCHANGED vars PROVE UNCHANGED <<sp, maxFlows, flows>>
  BY <1>2 DEF vars, ramp
<1>3. ASSUME NEW o \in Observations, EndInterval(o) PROVE UNCHANGED <<sp, maxFlows>>
  BY <1>3 DEF EndInterval
<1> QED
  BY <1>1, <1>2, <1>3, IntervalStep DEF Next

\* The flows opened before the first interval are within the cap.
LEMMA InitFlows == Init => FlowInv
<1> SUFFICES ASSUME Init PROVE FlowInv
  OBVIOUS
<1>1. /\ sp \in StabilityParams /\ Usable(sp) /\ maxFlows \in Nat \ {0}
      /\ flows = InitialFlows(sp, maxFlows)
  BY PhaseParamsFacts DEF Init
<1>2. sp.InitialFlows \in Int /\ sp.InitialFlows > 0
  BY <1>1 DEF StabilityParams, Usable
<1> QED
  BY <1>1, <1>2 DEF FlowInv, InitialFlows, AtMost

\* No step takes them beyond it.
LEMMA FlowKeeps == ASSUME FlowInv, [Next]_vars PROVE FlowInv'
BY FlowStep, AddFacts DEF FlowInv, Usable

\* The flow count stays within the cap in every reachable state.
LEMMA FlowInvariance == Spec => []FlowInv
BY InitFlows, FlowKeeps, PTL DEF Spec

\* LOAD-3, LOAD-12 and INV-1: the ramp steps on measured intervals only, at
\* most doubling, never beyond MaxFlows and never after it is over.
THEOREM RampIsOrderly == Spec => RampSteps
<1>1. FlowInv /\ [Next]_vars =>
        [flows' # flows =>
           /\ ~drain' /\ ~rampDone /\ flows' <= maxFlows
           /\ flows' <= AtLeast(2 * flows, flows + sp.FlowIncrement)]_vars
  BY FlowStep, AddFacts
<1> QED
  BY <1>1, FlowInvariance, PTL DEF Spec, RampSteps

(***************************************************************************)
(* Tracking.                                                               *)
(***************************************************************************)
SampleSets == {[foreign |-> o.foreign, self |-> o.self] : o \in Observations}

HistoryOK ==
  /\ intervals \in Nat /\ lastDrop \in 0..intervals
  /\ goodputs \in Seq(Nat \cup {Drained}) /\ Len(goodputs) = intervals
  /\ samples \in Seq(SampleSets) /\ Len(samples) = intervals
  /\ raw \in Seq(Nat) /\ holdIdx \in Seq(Nat) /\ Len(holdIdx) = Len(raw)

\* The intervals of holdIdx are those measured since the last drop, in order,
\* and raw has their goodputs.
HoldSound ==
  /\ \A i \in 1..Len(holdIdx) :
       holdIdx[i] \in MeasuredSinceDrop /\ raw[i] = goodputs[holdIdx[i]]
  /\ \A i, j \in 1..Len(holdIdx) : i < j => holdIdx[j] - holdIdx[i] >= j - i
  /\ \A j \in Nat :
       intervals > 0 /\ intervals - j..intervals \subseteq MeasuredSinceDrop
         => j < Len(holdIdx) /\ holdIdx[Len(holdIdx) - j] = intervals - j
  /\ IsFiniteSet(MeasuredSinceDrop) /\ Cardinality(MeasuredSinceDrop) = Len(holdIdx)

\* The window starts at an interval tracked as stable.
StartSound ==
  /\ steadyFrom \in 0..intervals /\ goodputStable \in BOOLEAN
  /\ IF goodputStable
     THEN Cardinality({i \in MeasuredSinceDrop : i <= steadyFrom}) >= MAD
     ELSE steadyFrom = 0
  /\ stopped => goodputStable /\ Len(rp) >= MAD

TrackInv == FlowInv /\ HistoryOK /\ HoldSound

\* A goodput is a natural number, and so never the mark of a drain interval.
LEMMA GoodputFacts ==
  ASSUME FlowInv, NEW o \in Observations
  PROVE  Goodput(o) \in Nat /\ Goodput(o) # Drained
<1>1. PICK d : d = IF o.elapsed <= 0 THEN sp.Interval ELSE o.elapsed
  OBVIOUS
<1>2. d \in Nat \ {0}
  BY <1>1, EngineAssumption DEF FlowInv, Usable, StabilityParams
<1>3. PICK b \in Nat : b = o.bytes
  BY EngineAssumption
<1>4. Unit \div d \in Nat
  BY <1>2, EngineAssumption
<1>5. b * (Unit \div d) \in Nat
  BY <1>4
<1> QED
  BY <1>1, <1>3, <1>5 DEF Goodput, Drained

\* The tracked part of an interval: nothing is measured in a drain interval;
\* a measured one extends the tracking, from nothing after a drop.
LEMMA TrackedInterval ==
  ASSUME TrackInv, NEW o \in Observations, EndInterval(o)
  PROVE  /\ intervals' = intervals + 1 /\ UNCHANGED sp
         /\ samples' = Append(samples, [foreign |-> o.foreign, self |-> o.self])
         /\ \/ /\ Drains(o) /\ ~Drops(o) /\ goodputs' = Append(goodputs, Drained)
               /\ UNCHANGED <<raw, holdIdx, lb, lastDrop>>
            \/ /\ ~Drains(o) /\ ~Drops(o) /\ goodputs' = Append(goodputs, Goodput(o))
               /\ raw' = Append(raw, Goodput(o)) /\ holdIdx' = Append(holdIdx, intervals + 1)
               /\ lastDrop' = lastDrop /\ lb' = updateBound(raw', holdIdx', lb)
            \/ /\ ~Drains(o) /\ Drops(o) /\ goodputs' = Append(goodputs, Goodput(o))
               /\ raw' = Append(<<>>, Goodput(o)) /\ holdIdx' = Append(<<>>, intervals + 1)
               /\ lastDrop' = intervals + 1 /\ lb' = updateBound(raw', holdIdx', NoBound)
<1>1. CASE Drains(o)
  BY <1>1 DEF EndInterval, Drops, Holds
<1>2. CASE ~Drains(o)
  <2>1. Measure(o) /\ goodputs' = Append(goodputs, Goodput(o)) /\ intervals' = intervals + 1 /\ UNCHANGED sp
        /\ samples' = Append(samples, [foreign |-> o.foreign, self |-> o.self])
    BY <1>2 DEF EndInterval
  <2>2. CASE Drops(o)
    BY <1>2, <2>1, <2>2 DEF Measure
  <2>3. CASE ~Drops(o)
    BY <1>2, <2>1, <2>3 DEF Measure
  <2> QED
    BY <2>2, <2>3
<1> QED
  BY <1>1, <1>2

\* What is measured after an interval.
LEMMA MeasuredAfter ==
  ASSUME TrackInv, intervals' = intervals + 1,
         NEW g \in Nat \cup {Drained}, goodputs' = Append(goodputs, g)
  PROVE  /\ \A i \in 1..intervals : goodputs'[i] = goodputs[i]
         /\ goodputs'[intervals + 1] = g
         /\ MeasuredSinceDrop \subseteq 1..intervals
         /\ lastDrop' = lastDrop =>
              MeasuredSinceDrop' = IF g = Drained THEN MeasuredSinceDrop
                                   ELSE MeasuredSinceDrop \cup {intervals + 1}
         /\ lastDrop' = intervals + 1 /\ g # Drained => MeasuredSinceDrop' = {intervals + 1}
<1>1. /\ \A i \in 1..intervals : goodputs'[i] = goodputs[i]
      /\ goodputs'[intervals + 1] = g
  BY DEF TrackInv, HistoryOK
<1>2. intervals \in Nat /\ lastDrop \in 0..intervals
  BY DEF TrackInv, HistoryOK
<1>3. \A i : i \in MeasuredSinceDrop <=> i \in 1..intervals /\ i >= lastDrop /\ goodputs[i] # Drained
  BY <1>2 DEF MeasuredSinceDrop, AtLeast
<1>4. ASSUME lastDrop' \in 0..(intervals + 1)
      PROVE  \A i : i \in MeasuredSinceDrop' <=>
                      i \in 1..(intervals + 1) /\ i >= lastDrop' /\ goodputs'[i] # Drained
  <2>1. PICK l \in 0..(intervals + 1) : l = lastDrop'
    BY <1>4
  <2>2. MeasuredSinceDrop' = {i \in AtLeast(l, 1)..(intervals + 1) : goodputs'[i] # Drained}
    BY <2>1 DEF MeasuredSinceDrop
  <2>3. \A i : i \in AtLeast(l, 1)..(intervals + 1) <=> i \in 1..(intervals + 1) /\ i >= l
    BY <1>2 DEF AtLeast
  <2> QED
    BY <2>1, <2>2, <2>3
<1>5. \A i : i \in 1..(intervals + 1) <=> i \in 1..intervals \/ i = intervals + 1
  BY <1>2
<1>6. ASSUME lastDrop' = lastDrop
      PROVE  MeasuredSinceDrop' = IF g = Drained THEN MeasuredSinceDrop
                                  ELSE MeasuredSinceDrop \cup {intervals + 1}
  <2>1. \A i : i \in MeasuredSinceDrop' <=>
                 i \in MeasuredSinceDrop \/ (i = intervals + 1 /\ g # Drained)
    <3>1. lastDrop' \in 0..(intervals + 1) /\ intervals + 1 >= lastDrop
      BY <1>2, <1>6
    <3> QED
      BY <1>1, <1>3, <1>4, <1>5, <1>6, <3>1
  <2> QED
    BY <2>1
<1>7. ASSUME lastDrop' = intervals + 1, g # Drained
      PROVE  MeasuredSinceDrop' = {intervals + 1}
  <2>1. lastDrop' \in 0..(intervals + 1) /\ intervals + 1 >= lastDrop' /\ \A i \in 1..intervals : ~(i >= lastDrop')
    BY <1>2, <1>7
  <2> QED
    BY <1>1, <1>4, <1>5, <1>7, <2>1
<1>8. MeasuredSinceDrop \subseteq 1..intervals
  BY <1>3
<1> QED
  BY <1>1, <1>6, <1>7, <1>8

\* The elements of a longer sequence.
LEMMA Appended ==
  ASSUME NEW S, NEW s \in Seq(S), NEW x \in S
  PROVE  /\ Append(s, x) \in Seq(S) /\ Len(Append(s, x)) = Len(s) + 1 /\ Len(s) \in Nat
         /\ \A i \in 1..Len(s) : Append(s, x)[i] = s[i]
         /\ Append(s, x)[Len(s) + 1] = x
OBVIOUS

\* The histories grow with the intervals.
LEMMA HistoryKeeps ==
  ASSUME TrackInv, NEW o \in Observations, EndInterval(o)
  PROVE  HistoryOK'
<1>1. Goodput(o) \in Nat /\ [foreign |-> o.foreign, self |-> o.self] \in SampleSets
  BY GoodputFacts DEF TrackInv, SampleSets
<1>2. PICK g \in Nat : g = Goodput(o)
  BY <1>1
<1>3. PICK s \in SampleSets : s = [foreign |-> o.foreign, self |-> o.self]
  BY <1>1
<1>4. samples' \in Seq(SampleSets) /\ Len(samples') = intervals' /\ intervals' \in Nat /\ intervals' = intervals + 1
  <2>1. samples' = Append(samples, s) /\ intervals' = intervals + 1
    BY <1>3, TrackedInterval
  <2>2. intervals \in Nat /\ samples \in Seq(SampleSets) /\ Len(samples) = intervals
    BY DEF TrackInv, HistoryOK
  <2> QED
    BY <2>1, <2>2, Appended
<1>5. goodputs' \in Seq(Nat \cup {Drained}) /\ Len(goodputs') = intervals' /\ lastDrop' \in 0..intervals'
  <2>1. PICK h \in Nat \cup {Drained} : goodputs' = Append(goodputs, h)
    BY <1>2, TrackedInterval
  <2>2. lastDrop' = lastDrop \/ lastDrop' = intervals + 1
    BY TrackedInterval
  <2>3. /\ intervals \in Nat /\ goodputs \in Seq(Nat \cup {Drained}) /\ Len(goodputs) = intervals
        /\ lastDrop \in 0..intervals
    BY DEF TrackInv, HistoryOK
  <2> QED
    BY <1>4, <2>1, <2>2, <2>3, Appended
<1>6. raw' \in Seq(Nat) /\ holdIdx' \in Seq(Nat) /\ Len(holdIdx') = Len(raw')
  <2>1. CASE UNCHANGED <<raw, holdIdx>>
    BY <2>1 DEF TrackInv, HistoryOK
  <2>2. CASE raw' = Append(raw, g) /\ holdIdx' = Append(holdIdx, intervals + 1)
    BY <2>2 DEF TrackInv, HistoryOK
  <2>3. CASE raw' = Append(<<>>, g) /\ holdIdx' = Append(<<>>, intervals + 1)
    BY <2>3 DEF TrackInv, HistoryOK
  <2> QED
    BY <1>2, <2>1, <2>2, <2>3, TrackedInterval
<1> QED
  BY <1>4, <1>5, <1>6 DEF HistoryOK

\* The intervals tracked stay those measured since the last drop, in order.
LEMMA HoldKeeps ==
  ASSUME TrackInv, NEW o \in Observations, EndInterval(o)
  PROVE  HoldSound'
<1>1. Goodput(o) \in Nat /\ Goodput(o) # Drained
  BY GoodputFacts DEF TrackInv
<1>2. PICK g : g = Goodput(o)
  OBVIOUS
<1>3. PICK L \in Nat : L = Len(holdIdx)
  BY DEF TrackInv, HistoryOK
<1>4. PICK n \in Nat : n = intervals + 1
  BY DEF TrackInv, HistoryOK
<1>5. /\ raw \in Seq(Nat) /\ holdIdx \in Seq(Nat) /\ Len(raw) = L /\ intervals \in Nat /\ intervals = n - 1
      /\ \A i \in 1..L : holdIdx[i] \in Nat
  <2>1. raw \in Seq(Nat) /\ holdIdx \in Seq(Nat) /\ Len(raw) = Len(holdIdx) /\ intervals \in Nat
    BY DEF TrackInv, HistoryOK
  <2>2. \A i \in 1..Len(holdIdx) : holdIdx[i] \in Nat
    BY <2>1
  <2> QED
    BY <1>3, <1>4, <2>1, <2>2
<1>6. /\ \A i \in 1..L : holdIdx[i] \in MeasuredSinceDrop /\ raw[i] = goodputs[holdIdx[i]]
      /\ \A i, j \in 1..L : i < j => holdIdx[j] - holdIdx[i] >= j - i
      /\ \A j \in Nat : n - 1 > 0 /\ n - 1 - j..n - 1 \subseteq MeasuredSinceDrop
                          => j < L /\ holdIdx[L - j] = n - 1 - j
      /\ IsFiniteSet(MeasuredSinceDrop) /\ Cardinality(MeasuredSinceDrop) = L
  BY <1>3, <1>5 DEF TrackInv, HoldSound
<1>7. intervals' = n
  BY <1>4, TrackedInterval
<1>8. CASE /\ Drains(o) /\ goodputs' = Append(goodputs, Drained)
           /\ UNCHANGED <<raw, holdIdx, lastDrop>>
  <2>1. /\ \A i \in 1..n - 1 : goodputs'[i] = goodputs[i]
        /\ MeasuredSinceDrop \subseteq 1..n - 1 /\ MeasuredSinceDrop' = MeasuredSinceDrop
    BY <1>4, <1>5, <1>7, <1>8, MeasuredAfter
  <2>2. \A i \in 1..L : holdIdx'[i] \in MeasuredSinceDrop' /\ raw'[i] = goodputs'[holdIdx'[i]]
    BY <1>6, <1>8, <2>1
  <2>3. \A j \in Nat : ~(n - j..n \subseteq MeasuredSinceDrop')
    <3>1. \A j \in Nat : n \in n - j..n
      OBVIOUS
    <3>2. n \notin 1..n - 1
      OBVIOUS
    <3> QED
      BY <2>1, <3>1, <3>2
  <2> QED
    BY <1>3, <1>6, <1>7, <1>8, <2>1, <2>2, <2>3 DEF HoldSound
<1>9. CASE /\ goodputs' = Append(goodputs, g) /\ raw' = Append(raw, g)
           /\ holdIdx' = Append(holdIdx, intervals + 1) /\ lastDrop' = lastDrop
  <2>1. /\ \A i \in 1..n - 1 : goodputs'[i] = goodputs[i]
        /\ goodputs'[n] = g
        /\ MeasuredSinceDrop \subseteq 1..n - 1 /\ MeasuredSinceDrop' = MeasuredSinceDrop \cup {n}
    BY <1>1, <1>2, <1>4, <1>5, <1>7, <1>9, MeasuredAfter
  <2>2. /\ Len(holdIdx') = L + 1 /\ holdIdx'[L + 1] = n /\ raw'[L + 1] = g
        /\ \A i \in 1..L : holdIdx'[i] = holdIdx[i] /\ raw'[i] = raw[i]
    BY <1>3, <1>4, <1>5, <1>9
  <2>3. \A i \in 1..(L + 1) : i \in 1..L \/ i = L + 1
    OBVIOUS
  <2>4. \A i \in 1..(L + 1) : holdIdx'[i] \in MeasuredSinceDrop' /\ raw'[i] = goodputs'[holdIdx'[i]]
    <3>1. ASSUME NEW i \in 1..L PROVE holdIdx'[i] \in MeasuredSinceDrop' /\ raw'[i] = goodputs'[holdIdx'[i]]
      <4>1. holdIdx'[i] = holdIdx[i] /\ raw'[i] = raw[i] /\ holdIdx[i] \in MeasuredSinceDrop
            /\ raw[i] = goodputs[holdIdx[i]]
        BY <1>6, <2>2
      <4> QED
        BY <2>1, <4>1
    <3> QED
      BY <2>1, <2>2, <2>3, <3>1
  <2>5. ASSUME NEW i \in 1..(L + 1), NEW j \in 1..(L + 1), i < j
        PROVE  holdIdx'[j] - holdIdx'[i] >= j - i
    <3>1. CASE j \in 1..L
      <4>1. i \in 1..L /\ i < j
        BY <2>5, <3>1
      <4>2. holdIdx[j] - holdIdx[i] >= j - i
        BY <1>6, <3>1, <4>1
      <4>3. holdIdx'[j] = holdIdx[j] /\ holdIdx'[i] = holdIdx[i]
        BY <2>2, <3>1, <4>1
      <4> QED
        BY <4>2, <4>3
    <3>2. CASE j = L + 1
      <4>1. i \in 1..L /\ L \in 1..L
        BY <2>5, <3>2
      <4>2. holdIdx[L] \in 1..n - 1 /\ holdIdx[i] \in 1..n - 1
        BY <1>6, <2>1, <4>1
      <4>3. holdIdx[L] - holdIdx[i] >= L - i
        <5>1. i < L => holdIdx[L] - holdIdx[i] >= L - i
          BY <1>6, <4>1
        <5>2. \A x \in Int : x - x = 0
          OBVIOUS
        <5> QED
          BY <4>1, <4>2, <5>1, <5>2
      <4>4. PICK x \in 1..n - 1, y \in 1..n - 1 : x = holdIdx[L] /\ y = holdIdx[i]
        BY <4>2
      <4>5. n - y >= L + 1 - i
        BY <4>1, <4>3, <4>4
      <4>6. holdIdx'[j] = n /\ holdIdx'[i] = y
        BY <2>2, <3>2, <4>1, <4>4
      <4> QED
        BY <3>2, <4>5, <4>6
    <3> QED
      BY <2>3, <3>1, <3>2
  <2>6. ASSUME NEW j \in Nat, n - j..n \subseteq MeasuredSinceDrop'
        PROVE  j < L + 1 /\ holdIdx'[L + 1 - j] = n - j
    <3>1. CASE j = 0
      BY <2>2, <3>1
    <3>2. CASE j > 0
      <4>1. PICK k \in Nat : k = j - 1
        BY <3>2
      <4>2. n - 1 - k..n - 1 \subseteq MeasuredSinceDrop
        <5>1. \A x \in n - 1 - k..n - 1 : x \in n - j..n /\ x # n
          BY <4>1
        <5> QED
          BY <2>1, <2>6, <5>1
      <4>3. n - 1 > 0
        <5>1. n - 1 \in n - 1 - k..n - 1
          OBVIOUS
        <5> QED
          BY <2>1, <4>2, <5>1
      <4>4. k < L /\ holdIdx[L - k] = n - 1 - k
        BY <1>6, <4>2, <4>3
      <4>5. L + 1 - j = L - k /\ L - k \in 1..L /\ n - j = n - 1 - k
        BY <4>1, <4>4
      <4> QED
        <5>1. holdIdx'[L - k] = holdIdx[L - k]
          BY <2>2, <4>5
        <5> QED
          BY <4>1, <4>4, <4>5, <5>1
    <3> QED
      BY <3>1, <3>2
  <2>7. IsFiniteSet(MeasuredSinceDrop') /\ Cardinality(MeasuredSinceDrop') = L + 1
    <3>1. n \notin MeasuredSinceDrop
      <4>1. n \notin 1..n - 1
        OBVIOUS
      <4> QED
        BY <2>1, <4>1
    <3> QED
      BY <1>6, <2>1, <3>1, FS_AddElement
  <2> QED
    BY <1>7, <2>2, <2>4, <2>5, <2>6, <2>7 DEF HoldSound
<1>10. CASE /\ goodputs' = Append(goodputs, g) /\ raw' = Append(<<>>, g)
            /\ holdIdx' = Append(<<>>, intervals + 1) /\ lastDrop' = intervals + 1
  <2>1. /\ goodputs'[n] = g /\ MeasuredSinceDrop' = {n}
    BY <1>1, <1>2, <1>4, <1>5, <1>7, <1>10, MeasuredAfter
  <2>2. Len(holdIdx') = 1 /\ holdIdx'[1] = n /\ raw'[1] = g
    BY <1>4, <1>10
  <2>3. \A i \in 1..1 : i = 1
    OBVIOUS
  <2>4. ASSUME NEW j \in Nat, n - j..n \subseteq MeasuredSinceDrop'
        PROVE  j < 1 /\ holdIdx'[1 - j] = n - j
    <3>1. n - j \in n - j..n
      OBVIOUS
    <3>2. j = 0
      BY <2>1, <2>4, <3>1
    <3> QED
      BY <2>2, <3>2
  <2>5. IsFiniteSet(MeasuredSinceDrop') /\ Cardinality(MeasuredSinceDrop') = 1
    BY <2>1, FS_Singleton
  <2>6. \A i \in 1..1 : holdIdx'[i] \in MeasuredSinceDrop' /\ raw'[i] = goodputs'[holdIdx'[i]]
    BY <2>1, <2>2, <2>3
  <2>7. \A i, j \in 1..1 : ~(i < j)
    OBVIOUS
  <2> QED
    BY <1>7, <2>2, <2>4, <2>5, <2>6, <2>7 DEF HoldSound
<1> QED
  BY <1>2, <1>8, <1>9, <1>10, TrackedInterval

\* A window starts only where enough has been measured since the last drop.
LEMMA StartKeeps ==
  ASSUME TrackInv, StartSound, NEW o \in Observations, EndInterval(o)
  PROVE  StartSound'
<1>1. HistoryOK' /\ HoldSound' /\ intervals' = intervals + 1 /\ UNCHANGED sp /\ MAD' = MAD
  BY HistoryKeeps, HoldKeeps, TrackedInterval DEF MAD
<1>2. PICK was \in BOOLEAN : was = (goodputStable /\ ~Drops(o))
  OBVIOUS
<1>3. /\ goodputStable' = (was \/ StableSeries(raw'))
      /\ steadyFrom' = IF goodputStable' /\ ~was /\ StartAfter(o) = 0 THEN intervals + 1 ELSE StartAfter(o)
      /\ stopped' = Converged
  BY <1>2 DEF EndInterval, Latch
<1>4. ~was => StartAfter(o) = 0
  BY <1>2 DEF StartAfter, StartSound
<1>5. goodputStable' \in BOOLEAN
  BY <1>3 DEF StableSeries
<1>6. intervals \in Nat /\ steadyFrom \in 0..intervals
  BY DEF StartSound, TrackInv, HistoryOK
<1>7. CASE was
  <2>1. ~Drops(o) /\ goodputStable /\ goodputStable' /\ steadyFrom' = steadyFrom
    BY <1>2, <1>3, <1>7 DEF StartAfter
  <2>2. PICK g \in Nat \cup {Drained} : goodputs' = Append(goodputs, g)
    BY TrackedInterval, GoodputFacts DEF TrackInv
  <2>3. lastDrop' = lastDrop
    BY <2>1, TrackedInterval
  <2>4. MeasuredSinceDrop' = MeasuredSinceDrop \/ MeasuredSinceDrop' = MeasuredSinceDrop \cup {intervals + 1}
    BY <1>1, <2>2, <2>3, MeasuredAfter
  <2>5. ~(intervals + 1 <= steadyFrom)
    BY <1>6
  <2>6. {i \in MeasuredSinceDrop' : i <= steadyFrom} = {i \in MeasuredSinceDrop : i <= steadyFrom}
    BY <2>4, <2>5
  <2>7. Cardinality({i \in MeasuredSinceDrop : i <= steadyFrom}) >= MAD
    BY <2>1 DEF StartSound
  <2>8. Cardinality({i \in MeasuredSinceDrop' : i <= steadyFrom'}) >= MAD'
    BY <1>1, <2>1, <2>6, <2>7
  <2>9. steadyFrom' \in 0..intervals'
    BY <1>1, <1>6, <2>1
  <2>10. stopped' => Len(rp') >= MAD'
    BY <1>1, <1>3 DEF Converged, StableWindowed
  <2> QED
    BY <1>5, <2>1, <2>8, <2>9, <2>10 DEF StartSound
<1>8. CASE ~was /\ StableSeries(raw')
  <2>1. goodputStable' /\ steadyFrom' = intervals + 1
    BY <1>3, <1>4, <1>8
  <2>2. Len(raw') >= MAD /\ Len(raw') = Cardinality(MeasuredSinceDrop')
    BY <1>1, <1>8 DEF StableSeries, HistoryOK, HoldSound
  <2>3. MeasuredSinceDrop' \subseteq 1..intervals + 1
    <3>1. PICK g \in Nat \cup {Drained} :
            /\ goodputs' = Append(goodputs, g)
            /\ lastDrop' = lastDrop \/ (lastDrop' = intervals + 1 /\ g # Drained)
      BY TrackedInterval, GoodputFacts DEF TrackInv
    <3>2. /\ MeasuredSinceDrop \subseteq 1..intervals
          /\ lastDrop' = lastDrop => MeasuredSinceDrop' \subseteq MeasuredSinceDrop \cup {intervals + 1}
          /\ lastDrop' = intervals + 1 /\ g # Drained => MeasuredSinceDrop' = {intervals + 1}
      BY <1>1, <3>1, MeasuredAfter
    <3>4. intervals + 1 \in 1..intervals + 1 /\ 1..intervals \subseteq 1..intervals + 1
      BY <1>6
    <3> QED
      BY <3>1, <3>2, <3>4
  <2>4. {i \in MeasuredSinceDrop' : i <= steadyFrom'} = MeasuredSinceDrop'
    <3>1. \A i \in 1..intervals + 1 : i <= intervals + 1
      BY <1>6
    <3> QED
      BY <2>1, <2>3, <3>1
  <2>5. Cardinality({i \in MeasuredSinceDrop' : i <= steadyFrom'}) >= MAD'
    BY <1>1, <2>2, <2>4
  <2>6. steadyFrom' \in 0..intervals'
    BY <1>1, <1>6, <2>1
  <2>7. stopped' => Len(rp') >= MAD'
    BY <1>1, <1>3 DEF Converged, StableWindowed
  <2> QED
    BY <1>5, <2>1, <2>5, <2>6, <2>7 DEF StartSound
<1>9. CASE ~was /\ ~StableSeries(raw')
  BY <1>1, <1>3, <1>4, <1>5, <1>6, <1>9 DEF StartSound, Converged
<1> QED
  BY <1>7, <1>8, <1>9

\* The tracked part of the state, which the end of the phase leaves alone.
tracked == <<sp, maxFlows, intervals, raw, holdIdx, rp, goodputStable, steadyFrom, lb, samples, flows,
             stopped, goodputs, lastDrop>>

\* It does.
LEMMA EndKeepsTracked ==
  ASSUME (\E o \in Observations : EndPhase(o)) \/ UNCHANGED vars
  PROVE  UNCHANGED tracked
BY DEF EndPhase, vars, ramp, tracked

\* All of it in every reachable state.
LEMMA TrackInvariance == Spec => [](TrackInv /\ StartSound)
<1>1. Init => FlowInv
  BY InitFlows
<1>2. Init => HistoryOK /\ StartSound
  <2> SUFFICES ASSUME Init PROVE HistoryOK /\ StartSound
    OBVIOUS
  <2>1. /\ intervals = 0 /\ raw = <<>> /\ holdIdx = <<>> /\ goodputs = <<>> /\ samples = <<>>
        /\ goodputStable \in BOOLEAN /\ ~goodputStable /\ steadyFrom = 0 /\ ~stopped /\ lastDrop = 0
    BY DEF Init
  <2>2. HistoryOK
    BY <2>1 DEF HistoryOK
  <2>3. StartSound
    BY <2>1 DEF StartSound
  <2> QED
    BY <2>2, <2>3
<1>3. Init => HoldSound
  <2> SUFFICES ASSUME Init PROVE HoldSound
    OBVIOUS
  <2>1. intervals = 0 /\ holdIdx = <<>> /\ Len(holdIdx) = 0 /\ lastDrop = 0
    BY DEF Init
  <2>2. MeasuredSinceDrop = {}
    BY <2>1 DEF MeasuredSinceDrop, AtLeast
  <2> QED
    BY <2>1, <2>2, FS_EmptySet DEF HoldSound
<1>4. ASSUME TrackInv, StartSound, [Next]_vars PROVE (TrackInv /\ StartSound)'
  <2>1. FlowInv'
    BY <1>4, FlowKeeps DEF TrackInv
  <2>2. ASSUME NEW o \in Observations, EndInterval(o) PROVE (HistoryOK /\ HoldSound /\ StartSound)'
    BY <1>4, <2>2, HistoryKeeps, HoldKeeps, StartKeeps
  <2>3. ASSUME UNCHANGED tracked PROVE (HistoryOK /\ HoldSound /\ StartSound)'
    BY <1>4, <2>3 DEF TrackInv, tracked, HistoryOK, HoldSound, StartSound, MeasuredSinceDrop, MAD, SampleSets
  <2> QED
    BY <1>4, <2>1, <2>2, <2>3, EndKeepsTracked DEF Next, TrackInv
<1> QED
  BY <1>1, <1>2, <1>3, <1>4, PTL DEF Spec, TrackInv

(***************************************************************************)
(* LOAD-14 and LOAD-5: the working-conditions window starts where goodput  *)
(* was found stable after the last drop, on MAD measured intervals, and    *)
(* the phase converges only there, with MAD responsiveness figures.  The   *)
(* drain intervals between leave no trace in what Interval tracks.         *)
(***************************************************************************)
THEOREM EvidenceIsRecent == Spec => []EvidenceSinceDrop
<1>1. StartSound => EvidenceSinceDrop
  BY DEF StartSound, EvidenceSinceDrop
<1> QED
  BY <1>1, TrackInvariance, PTL

(***************************************************************************)
(* The lower bound.                                                        *)
(***************************************************************************)
\* The goodputs from an interval on, and whether they are level.
Window(i) == SubSeq(goodputs, i, i + MAD - 1)
Level(g) == Sum(g) > 0 /\ Steady(g, Sum(g), MAD)

Starts == {i \in 1..intervals : Sustained(i)}

\* The bound that the window starting at s gives.
BoundOf(s) ==
  [bps |-> Min({goodputs[i] : i \in s..s + MAD - 1}), start |-> s,
   rpm |-> RPM(Flatten(SubSeq(samples, s, s + MAD - 1)))]

\* LOAD-13, as LowerBoundSound has it, with the rate as Responsiveness computes
\* it: the bound is that of the latest sustained window, and there is none
\* exactly when there is no such window.
LatestBound ==
  IF Starts = {} THEN lb = NoBound
  ELSE \E s \in Starts : (\A t \in Starts : t <= s) /\ lb = BoundOf(s)

\* A part of a sequence, element by element.
LEMMA Parts ==
  ASSUME NEW S, NEW s \in Seq(S), NEW a \in Nat \ {0}, NEW b \in Nat, b <= Len(s), a <= b
  PROVE  /\ SubSeq(s, a, b) \in Seq(S) /\ Len(SubSeq(s, a, b)) = b - a + 1
         /\ \A i \in 1..(b - a + 1) : SubSeq(s, a, b)[i] = s[a + i - 1]
OBVIOUS

\* Two sequences with the same elements are one.
LEMMA Extensional ==
  ASSUME NEW S, NEW p \in Seq(S), NEW T, NEW q \in Seq(T), NEW n \in Nat, Len(p) = n, Len(q) = n,
         \A i \in 1..n : p[i] = q[i]
  PROVE  p = q
<1>1. p = [i \in 1..n |-> p[i]]
  OBVIOUS
<1>2. q = [i \in 1..n |-> q[i]]
  OBVIOUS
<1>3. [i \in 1..n |-> p[i]] = [i \in 1..n |-> q[i]]
  OBVIOUS
<1> QED
  BY <1>1, <1>2, <1>3

\* Element by element the same, part of s from a and part of t from c.
Agree(s, a, t, c, n) == \A i \in 1..n : s[a + i - 1] = t[c + i - 1]

\* Two parts with the same elements are one sequence.
LEMMA SameParts ==
  ASSUME NEW S, NEW s \in Seq(S), NEW t \in Seq(S),
         NEW a \in Nat \ {0}, NEW b \in Nat, b <= Len(s), a <= b,
         NEW c \in Nat \ {0}, NEW d \in Nat, d <= Len(t), c <= d,
         NEW n \in Nat, n = b - a + 1, n = d - c + 1, Agree(s, a, t, c, n)
  PROVE  SubSeq(s, a, b) = SubSeq(t, c, d)
<1>1. PICK p \in Seq(S) : p = SubSeq(s, a, b)
  BY Parts
<1>2. PICK q \in Seq(S) : q = SubSeq(t, c, d)
  BY Parts
<1>3. /\ Len(p) = b - a + 1 /\ \A i \in 1..(b - a + 1) : p[i] = s[a + i - 1]
      /\ Len(q) = d - c + 1 /\ \A i \in 1..(d - c + 1) : q[i] = t[c + i - 1]
  BY <1>1, <1>2, Parts
<1>4. \A i \in 1..n : p[i] = q[i]
  BY <1>3 DEF Agree
<1>5. Len(p) = n /\ Len(q) = n
  BY <1>3
<1>6. p = q
  BY <1>4, <1>5, Extensional
<1> QED
  BY <1>1, <1>2, <1>6

\* What was appended does not show in an earlier part.
LEMMA EarlierPart ==
  ASSUME NEW S, NEW s \in Seq(S), NEW x \in S, NEW a \in Nat \ {0}, NEW b \in Nat, b <= Len(s), a <= b
  PROVE  SubSeq(Append(s, x), a, b) = SubSeq(s, a, b)
<1>1. PICK t \in Seq(S) : t = Append(s, x)
  BY Appended
<1>2. Len(t) = Len(s) + 1 /\ Len(s) \in Nat /\ \A i \in 1..Len(s) : t[i] = s[i]
  BY <1>1, Appended
<1>3. \A i \in 1..(b - a + 1) : a + i - 1 \in 1..Len(s)
  BY <1>2
<1>6. PICK n \in Nat : n = b - a + 1
  OBVIOUS
<1>4. Agree(t, a, s, a, n)
  BY <1>2, <1>3, <1>6 DEF Agree
<1>5. SubSeq(t, a, b) = SubSeq(s, a, b)
  <2>1. b <= Len(t)
    BY <1>2
  <2> QED
    BY <1>4, <1>6, <2>1, SameParts
<1> QED
  BY <1>1, <1>5

\* The elements of a part.
LEMMA PartElements ==
  ASSUME NEW S, NEW s \in Seq(S), NEW a \in Nat \ {0}, NEW b \in Nat, b <= Len(s), a <= b
  PROVE  ToSet(SubSeq(s, a, b)) = {s[i] : i \in a..b}
<1>1. PICK p \in Seq(S) : p = SubSeq(s, a, b)
  BY Parts
<1>2. DOMAIN p = 1..(b - a + 1) /\ \A i \in 1..(b - a + 1) : p[i] = s[a + i - 1]
  BY <1>1, Parts
<1>3. \A x \in ToSet(p) : x \in {s[i] : i \in a..b}
  <2>1. \A i \in 1..(b - a + 1) : a + i - 1 \in a..b
    OBVIOUS
  <2> QED
    BY <1>2, <2>1 DEF ToSet
<1>4. \A i \in a..b : s[i] \in ToSet(p)
  <2> SUFFICES ASSUME NEW i \in a..b PROVE s[i] \in ToSet(p)
    OBVIOUS
  <2>1. PICK k \in 1..(b - a + 1) : a + k - 1 = i
    <3>1. i - a + 1 \in 1..(b - a + 1) /\ a + (i - a + 1) - 1 = i
      OBVIOUS
    <3> QED
      BY <3>1
  <2> QED
    BY <1>2, <2>1 DEF ToSet
<1> QED
  BY <1>1, <1>3, <1>4

\* What HoldSound says once interval n is measured, of the L intervals in hi.
InOrder(n, L, M, hi) ==
  /\ M \subseteq 1..n /\ hi[L] = n
  /\ \A i \in 1..L : hi[i] \in M
  /\ \A i, j \in 1..L : i < j => hi[j] - hi[i] >= j - i

Values(L, hi, rw, gp) == \A i \in 1..L : rw[i] = gp[hi[i]]
Backwards(n, L, M, hi) == \A j \in Nat : n - j..n \subseteq M => j < L /\ hi[L - j] = n - j

\* From position f on, hi counts up to n.
Lockstep(n, L, f, hi) == \A k \in f..L : hi[k] = n - (L - k)

\* If the last m of them span m intervals, they are consecutive.
LEMMA Squeeze ==
  ASSUME NEW n \in Nat, NEW L \in Nat, NEW M, NEW hi, InOrder(n, L, M, hi)
  PROVE  \A f \in 1..L : n - hi[f] = L - f =>
           \A k \in f..L : hi[k] = n - (L - k) /\ hi[k] \in M
<1> SUFFICES ASSUME NEW f \in 1..L, NEW k \in f..L, n - hi[f] = L - f
             PROVE  hi[k] = n - (L - k) /\ hi[k] \in M
  OBVIOUS
<1>1. k \in 1..L /\ L \in 1..L
  OBVIOUS
<1>2. hi[f] \in M /\ hi[k] \in M /\ M \subseteq 1..n /\ hi[L] = n
  BY <1>1 DEF InOrder
<1>3. PICK x \in 1..n, y \in 1..n : x = hi[k] /\ y = hi[f]
  BY <1>2
<1>4. /\ k # f => x - y >= k - f
      /\ k # L => n - x >= L - k
  BY <1>1, <1>2, <1>3 DEF InOrder
<1>5. (k = f => x = y) /\ (k = L => x = n) /\ n - y = L - f
  BY <1>2, <1>3
<1>6. x = n - (L - k)
  BY <1>4, <1>5
<1> QED
  BY <1>2, <1>3, <1>6

\* The last m values tracked belong to consecutive intervals exactly when the
\* last m intervals were all measured since the last drop.
LEMMA LastWindow ==
  ASSUME NEW n \in Nat, NEW L \in Nat, NEW M, NEW hi, InOrder(n, L, M, hi), Backwards(n, L, M, hi),
         NEW m \in Nat \ {0}, NEW f \in Int, f = n - m + 1, NEW p \in Int, p = L - m + 1
  PROVE  /\ f..n \subseteq M => p >= 1 /\ hi[p] = f
         /\ p >= 1 /\ n - hi[p] = m - 1 =>
              f \in 1..n /\ hi[p] = f /\ f..n \subseteq M /\ Lockstep(n, L, p, hi)
<1>1. ASSUME f..n \subseteq M
      PROVE  p >= 1 /\ hi[p] = f
  <2>1. PICK j \in Nat : j = m - 1
    OBVIOUS
  <2>2. n - j = f /\ L - j = p
    BY <2>1
  <2>3. j < L /\ hi[L - j] = n - j
    BY <1>1, <2>2 DEF Backwards
  <2> QED
    BY <2>1, <2>2, <2>3
<1>2. \A k \in 1..L : n - hi[k] = L - k => \A i \in k..L : hi[i] = n - (L - i) /\ hi[i] \in M
  BY Squeeze
<1>3. M \subseteq 1..n
  BY DEF InOrder
<1>4. ASSUME p >= 1, n - hi[p] = m - 1
      PROVE  f \in 1..n /\ hi[p] = f /\ f..n \subseteq M /\ Lockstep(n, L, p, hi)
  <2>1. p \in 1..L /\ n - hi[p] = L - p
    BY <1>4
  <2>2. \A i \in p..L : hi[i] = n - (L - i) /\ hi[i] \in M
    BY <1>2, <2>1
  <2>3. p \in p..L /\ n - (L - p) = f
    BY <2>1
  <2>4. f \in 1..n /\ hi[p] = f
    BY <1>3, <2>2, <2>3
  <2>5. f..n \subseteq M
    <3> SUFFICES ASSUME NEW x \in f..n PROVE x \in M
      OBVIOUS
    <3>1. L - (n - x) \in p..L /\ n - (L - (L - (n - x))) = x
      BY <2>1
    <3>2. hi[L - (n - x)] = n - (L - (L - (n - x))) /\ hi[L - (n - x)] \in M
      BY <2>2, <3>1
    <3> QED
      BY <3>1, <3>2
  <2> QED
    BY <2>2, <2>4, <2>5 DEF Lockstep
<1> QED
  BY <1>1, <1>4

\* Their values are then the goodputs of those intervals.
LEMMA LastValues ==
  ASSUME NEW S, NEW n \in Nat, NEW gp \in Seq(S), Len(gp) = n,
         NEW rw \in Seq(S), NEW L \in Nat, Len(rw) = L, NEW hi, Values(L, hi, rw, gp),
         NEW m \in Nat \ {0}, NEW f \in 1..n, f = n - m + 1, NEW p \in 1..L, p = L - m + 1,
         Lockstep(n, L, p, hi)
  PROVE  Trailing(rw, m) = SubSeq(gp, f, n)
<1>1. PICK l \in Nat : l = L - p + 1 /\ l = n - f + 1
  OBVIOUS
<1>2. Agree(rw, p, gp, f, l)
  <2> SUFFICES ASSUME NEW i \in 1..l PROVE rw[p + i - 1] = gp[f + i - 1]
    BY DEF Agree
  <2>1. PICK k \in p..L : k = p + i - 1
    <3>1. p + i - 1 \in p..L
      BY <1>1
    <3> QED
      BY <3>1
  <2>2. k \in 1..L /\ n - (L - k) = f + i - 1
    BY <2>1
  <2>3. rw[k] = gp[hi[k]] /\ hi[k] = n - (L - k)
    BY <2>1, <2>2 DEF Values, Lockstep
  <2> QED
    BY <2>1, <2>2, <2>3
<1>3. SubSeq(rw, p, L) = SubSeq(gp, f, n)
  <2> SUFFICES ASSUME NEW s \in Seq(S), NEW t \in Seq(S), NEW d \in Nat,
                      s = rw, t = gp, d = n
               PROVE  SubSeq(s, p, L) = SubSeq(t, f, d)
    OBVIOUS
  <2>1. /\ p <= L /\ L <= Len(s) /\ d <= Len(t) /\ f <= d /\ p \in Nat \ {0} /\ f \in Nat \ {0}
        /\ l = L - p + 1 /\ l = d - f + 1 /\ Agree(s, p, t, f, l)
    BY <1>1, <1>2
  <2> QED
    BY <2>1, SameParts
<1>4. AtLeast(L - m, 0) + 1 = p
  BY DEF AtLeast
<1> QED
  BY <1>3, <1>4 DEF Trailing

\* What is tracked of n intervals, their goodputs gp, of which those of M were
\* measured since the last drop.
Tracks(S, n, gp, L, rw, hi, M) ==
  /\ n \in Nat /\ gp \in Seq(S) /\ Len(gp) = n
  /\ L \in Nat /\ rw \in Seq(S) /\ Len(rw) = L
  /\ InOrder(n, L, M, hi) /\ Backwards(n, L, M, hi) /\ Values(L, hi, rw, gp)

\* The last m of n start at f.
From(n, m, f) == f = n - m + 1

\* The last m values tracked, from p on, and the window of m intervals that ends
\* in interval n, from f on.
WindowIs(n, gp, rw, hi, M, m, f, p) ==
  /\ f..n \subseteq M <=> p >= 1 /\ n - hi[p] = m - 1
  /\ f..n \subseteq M =>
       /\ f \in 1..n /\ hi[p] = f /\ Trailing(rw, m) = SubSeq(gp, f, n)
       /\ ToSet(Trailing(rw, m)) = {gp[i] : i \in f..n}

\* They are the same.
LEMMA WindowFound ==
  ASSUME NEW S, NEW n, NEW gp, NEW L, NEW rw, NEW hi, NEW M, Tracks(S, n, gp, L, rw, hi, M),
         NEW m \in Nat \ {0}, NEW f \in Int, From(n, m, f), NEW p \in Int, From(L, m, p)
  PROVE  WindowIs(n, gp, rw, hi, M, m, f, p)
<1> USE DEF Tracks, From
<1>1. /\ f..n \subseteq M => p >= 1 /\ hi[p] = f
      /\ p >= 1 /\ n - hi[p] = m - 1 =>
           f \in 1..n /\ hi[p] = f /\ f..n \subseteq M /\ Lockstep(n, L, p, hi)
  BY LastWindow
<1>2. n - f = m - 1
  OBVIOUS
<1>3. f..n \subseteq M <=> p >= 1 /\ n - hi[p] = m - 1
  BY <1>1, <1>2
<1>4. ASSUME f..n \subseteq M
      PROVE  /\ f \in 1..n /\ hi[p] = f /\ Trailing(rw, m) = SubSeq(gp, f, n)
             /\ ToSet(Trailing(rw, m)) = {gp[i] : i \in f..n}
  <2>1. f \in 1..n /\ hi[p] = f /\ Lockstep(n, L, p, hi)
    BY <1>1, <1>3, <1>4
  <2>2. p \in 1..L
    BY <1>3, <1>4
  <2>3. Trailing(rw, m) = SubSeq(gp, f, n)
    BY <2>1, <2>2, LastValues
  <2>4. ToSet(SubSeq(gp, f, n)) = {gp[i] : i \in f..n}
    <3>1. f \in Nat \ {0} /\ n <= Len(gp) /\ f <= n
      BY <2>1
    <3> QED
      BY <3>1, PartElements
  <2> QED
    BY <2>1, <2>3, <2>4
<1> QED
  BY <1>3, <1>4 DEF WindowIs

\* The parameters never change, nor what is computed from them.
LEMMA SameParameters ==
  ASSUME UNCHANGED sp
  PROVE  /\ MAD' = MAD
         /\ \A g : Level(g)' <=> Level(g)
         /\ \A w : RPM(w)' = RPM(w)
BY DEF MAD, Level, Steady, SdtNum, SdtDen, RPM

\* The windows before the last interval are what they were.
LEMMA EarlierWindow ==
  ASSUME TrackInv, NEW o \in Observations, EndInterval(o),
         NEW s \in Nat \ {0}, s + MAD - 1 <= intervals
  PROVE  BoundOf(s)' = BoundOf(s) /\ Window(s)' = Window(s) /\ (Level(Window(s))' <=> Level(Window(s)))
<1>1. PICK g \in Nat \cup {Drained} : goodputs' = Append(goodputs, g)
  BY TrackedInterval, GoodputFacts DEF TrackInv
<1>2. PICK x \in SampleSets : samples' = Append(samples, x)
  <2>1. [foreign |-> o.foreign, self |-> o.self] \in SampleSets
    BY DEF SampleSets
  <2> QED
    BY <2>1, TrackedInterval
<1>3. PICK b \in Nat : b = s + MAD - 1 /\ s <= b /\ b <= intervals
  BY DEF TrackInv, FlowInv, Usable, StabilityParams, MAD
<1>4. /\ UNCHANGED sp /\ intervals' = intervals + 1 /\ intervals \in Nat
      /\ goodputs \in Seq(Nat \cup {Drained}) /\ b <= Len(goodputs)
      /\ samples \in Seq(SampleSets) /\ b <= Len(samples)
  BY <1>3, TrackedInterval DEF TrackInv, HistoryOK
<1>5. SubSeq(goodputs', s, b) = SubSeq(goodputs, s, b) /\ SubSeq(samples', s, b) = SubSeq(samples, s, b)
  BY <1>1, <1>2, <1>3, <1>4, EarlierPart
<1>6. MAD' = MAD /\ \A w : RPM(w)' = RPM(w) /\ (Level(w)' <=> Level(w))
  BY <1>4, SameParameters
<1>7. \A i \in s..b : goodputs'[i] = goodputs[i]
  <2>1. s..b \subseteq 1..intervals
    BY <1>3, <1>4
  <2>2. \A i \in 1..intervals : goodputs'[i] = goodputs[i]
    BY <1>1, <1>4, MeasuredAfter
  <2> QED
    BY <2>1, <2>2
<1>8. Window(s)' = Window(s)
  BY <1>3, <1>5, <1>6 DEF Window
<1>9. Level(Window(s))' <=> Level(Window(s))
  <2>1. PICK w : w = Window(s)
    OBVIOUS
  <2>2. Level(Window(s))' <=> Level(w)'
    BY <1>8, <2>1 DEF Level, Steady
  <2> QED
    BY <1>6, <2>1, <2>2
<1>10. BoundOf(s)' = BoundOf(s)
  <2>1. {goodputs'[i] : i \in s..b} = {goodputs[i] : i \in s..b}
    BY <1>7
  <2>2. BoundOf(s)' = [bps |-> Min({goodputs'[i] : i \in s..b}), start |-> s,
                       rpm |-> RPM(Flatten(SubSeq(samples', s, b)))]
    BY <1>3, <1>4, <1>6 DEF BoundOf, RPM
  <2>3. BoundOf(s) = [bps |-> Min({goodputs[i] : i \in s..b}), start |-> s,
                      rpm |-> RPM(Flatten(SubSeq(samples, s, b)))]
    BY <1>3 DEF BoundOf
  <2> QED
    BY <1>5, <2>1, <2>2, <2>3
<1> QED
  BY <1>8, <1>9, <1>10

\* The sustained windows lie within the intervals measured.
LEMMA SustainedIs ==
  \A i : Sustained(i) <=> i..i + MAD - 1 \subseteq MeasuredSinceDrop /\ Level(Window(i))
BY DEF Sustained, Level, Window

\* A sustained window ends within them too.
LEMMA StartsWithin ==
  ASSUME NEW n \in Nat, MeasuredSinceDrop \subseteq 1..n, NEW m \in Nat \ {0}, m = MAD,
         NEW i \in Nat, Sustained(i)
  PROVE  i \in 1..n /\ i + m - 1 <= n
<1>1. i..i + m - 1 \subseteq 1..n
  BY SustainedIs
<1>2. i \in i..i + m - 1 /\ i + m - 1 \in i..i + m - 1
  OBVIOUS
<1>3. i \in 1..n /\ i + m - 1 \in 1..n
  BY <1>1, <1>2
<1> QED
  BY <1>3

\* What was measured is within the intervals, before and after one of them.
LEMMA MeasuredWithin ==
  ASSUME TrackInv, NEW o \in Observations, EndInterval(o)
  PROVE  /\ intervals \in Nat /\ intervals' = intervals + 1
         /\ MeasuredSinceDrop \subseteq 1..intervals /\ MeasuredSinceDrop' \subseteq 1..intervals + 1
         /\ lastDrop' = lastDrop =>
              /\ MeasuredSinceDrop \subseteq MeasuredSinceDrop'
              /\ MeasuredSinceDrop' \subseteq MeasuredSinceDrop \cup {intervals + 1}
              /\ Drains(o) => MeasuredSinceDrop' = MeasuredSinceDrop
         /\ lastDrop' # lastDrop => MeasuredSinceDrop' = {intervals + 1} /\ ~Drains(o)
<1>1. intervals \in Nat /\ intervals' = intervals + 1 /\ intervals + 1 \in 1..intervals + 1
  <2>1. intervals \in Nat
    BY DEF TrackInv, HistoryOK
  <2>2. intervals' = intervals + 1
    BY TrackedInterval
  <2> QED
    BY <2>1, <2>2
<1>2. PICK g \in Nat \cup {Drained} :
        /\ goodputs' = Append(goodputs, g) /\ (Drains(o) <=> g = Drained)
        /\ lastDrop' = lastDrop \/ (lastDrop' = intervals + 1 /\ g # Drained)
  <2>1. PICK h \in Nat : h = Goodput(o) /\ h # Drained
    BY GoodputFacts DEF TrackInv
  <2>2. CASE Drains(o)
    BY <2>2, TrackedInterval
  <2>3. CASE ~Drains(o)
    <3>1. goodputs' = Append(goodputs, h) /\ (lastDrop' = lastDrop \/ lastDrop' = intervals + 1)
      BY <2>1, <2>3, TrackedInterval
    <3> QED
      BY <2>1, <2>3, <3>1
  <2> QED
    BY <2>2, <2>3
<1>3. /\ MeasuredSinceDrop \subseteq 1..intervals
      /\ lastDrop' = lastDrop =>
           MeasuredSinceDrop' = IF g = Drained THEN MeasuredSinceDrop
                                ELSE MeasuredSinceDrop \cup {intervals + 1}
      /\ lastDrop' = intervals + 1 /\ g # Drained => MeasuredSinceDrop' = {intervals + 1}
  BY <1>1, <1>2, MeasuredAfter
<1>4. 1..intervals \subseteq 1..intervals + 1
  BY <1>1
<1> QED
  BY <1>1, <1>2, <1>3, <1>4

\* Without a drop the windows before the last interval stay sustained or not.
LEMMA EarlierSustained ==
  ASSUME TrackInv, NEW o \in Observations, EndInterval(o), lastDrop' = lastDrop,
         NEW s \in Nat \ {0}, s + MAD - 1 <= intervals
  PROVE  Sustained(s)' <=> Sustained(s)
<1>1. MAD' = MAD
  BY TrackedInterval, SameParameters
<1>2. Level(Window(s))' <=> Level(Window(s))
  BY EarlierWindow
<1>3. PICK b \in Int : b = s + MAD - 1 /\ b <= intervals
  BY DEF TrackInv, FlowInv, Usable, StabilityParams, MAD
<1>4. intervals + 1 \notin s..b
  BY <1>3, MeasuredWithin
<1>5. s..b \subseteq MeasuredSinceDrop' <=> s..b \subseteq MeasuredSinceDrop
  BY <1>4, MeasuredWithin
<1>6. Sustained(s) <=> s..b \subseteq MeasuredSinceDrop /\ Level(Window(s))
  BY <1>3, SustainedIs
<1>7. Sustained(s)' <=> s..b \subseteq MeasuredSinceDrop' /\ Level(Window(s))'
  BY <1>1, <1>3 DEF Sustained, Level, Window
<1> QED
  BY <1>2, <1>5, <1>6, <1>7

\* A measured interval is the last one tracked.
LEMMA LastTracked ==
  ASSUME TrackInv, NEW o \in Observations, EndInterval(o), ~Drains(o)
  PROVE  Len(holdIdx') > 0 /\ holdIdx'[Len(holdIdx')] = intervals + 1
<1>1. holdIdx \in Seq(Nat) /\ <<>> \in Seq(Nat) /\ intervals + 1 \in Nat
  BY DEF TrackInv, HistoryOK
<1>2. PICK h \in Seq(Nat) : holdIdx' = Append(h, intervals + 1)
  BY <1>1, TrackedInterval
<1> QED
  BY <1>1, <1>2, Appended

\* A measured interval takes the bound from the window that ends in it, if that
\* one is sustained.
LEMMA NewWindow ==
  ASSUME TrackInv, NEW o \in Observations, EndInterval(o), ~Drains(o), NEW old
  PROVE  \A n \in Nat, m \in Nat \ {0}, f \in Int :
           n = intervals + 1 /\ m = MAD /\ f = n - m + 1 /\ lb' = updateBound(raw', holdIdx', old) =>
             IF Sustained(f)' THEN f \in 1..n /\ lb' = BoundOf(f)' ELSE lb' = old
<1>0. SUFFICES ASSUME NEW n \in Nat, NEW m \in Nat \ {0}, NEW f \in Int,
                      n = intervals + 1, m = MAD, f = n - m + 1, lb' = updateBound(raw', holdIdx', old)
               PROVE  IF Sustained(f)' THEN f \in 1..n /\ lb' = BoundOf(f)' ELSE lb' = old
  OBVIOUS
<1>1. HistoryOK' /\ HoldSound' /\ intervals' = n /\ UNCHANGED sp /\ MAD' = m
  BY <1>0, HistoryKeeps, HoldKeeps, TrackedInterval, SameParameters
<1> DEFINE Marks == Nat \cup {Drained}
<1>2. PICK rw \in Seq(Marks), hi \in Seq(Nat), gp \in Seq(Marks), M \in SUBSET Int :
        rw = raw' /\ hi = holdIdx' /\ gp = goodputs' /\ M = MeasuredSinceDrop'
  <2>1. \A s \in Seq(Nat) : s \in Seq(Marks)
    OBVIOUS
  <2>2. MeasuredSinceDrop' \subseteq 1..intervals + 1 /\ intervals \in Nat
    BY MeasuredWithin
  <2>3. MeasuredSinceDrop' \in SUBSET Int
    BY <2>2
  <2> QED
    BY <1>1, <2>1, <2>3 DEF HistoryOK
<1> HIDE DEF Marks
<1>3. PICK L \in Nat : L = Len(rw) /\ L = Len(hi) /\ Len(gp) = n
  BY <1>0, <1>1, <1>2 DEF HistoryOK
<1>4. L > 0 /\ hi[L] = n
  BY <1>0, <1>2, <1>3, LastTracked
<1>5. M \subseteq 1..n
  BY <1>0, <1>2, MeasuredWithin
<1>6. InOrder(n, L, M, hi) /\ Backwards(n, L, M, hi) /\ Values(L, hi, rw, gp)
  <2>1. /\ \A i \in 1..L : hi[i] \in M /\ rw[i] = gp[hi[i]]
        /\ \A i, j \in 1..L : i < j => hi[j] - hi[i] >= j - i
        /\ \A j \in Nat : n > 0 /\ n - j..n \subseteq M => j < L /\ hi[L - j] = n - j
    BY <1>1, <1>2, <1>3 DEF HoldSound
  <2>2. InOrder(n, L, M, hi)
    BY <1>4, <1>5, <2>1 DEF InOrder
  <2>3. Values(L, hi, rw, gp)
    BY <2>1 DEF Values
  <2>4. n > 0
    BY <1>0 DEF TrackInv, HistoryOK
  <2>5. Backwards(n, L, M, hi)
    BY <2>1, <2>4 DEF Backwards
  <2> QED
    BY <2>2, <2>3, <2>5
<1>7. PICK p \in Int : p = L - m + 1
  OBVIOUS
<1>8. WindowIs(n, gp, rw, hi, M, m, f, p)
  <2>1. Tracks(Marks, n, gp, L, rw, hi, M)
    BY <1>3, <1>6 DEF Tracks
  <2>2. From(n, m, f) /\ From(L, m, p)
    BY <1>0, <1>7 DEF From
  <2> QED
    BY <2>1, <2>2, WindowFound
<1>9. PICK B : B = [bps |-> Min(ToSet(Trailing(rw, m))), start |-> hi[p],
                    rpm |-> RPM(Flatten(SubSeq(samples', hi[p], n)))]
  OBVIOUS
<1>10. lb' = IF p >= 1 /\ n - hi[p] = m - 1 /\ Level(Trailing(rw, m)) THEN B ELSE old
  <2>1. L >= m <=> p >= 1
    BY <1>7
  <2> QED
    BY <1>0, <1>2, <1>3, <1>4, <1>7, <1>9, <2>1 DEF updateBound, Consecutive, Level
<1>11. f + m - 1 = n
  BY <1>0
<1>12. Sustained(f)' <=> f..n \subseteq M /\ Level(SubSeq(gp, f, n))
  <2>1. Sustained(f)' <=> f..n \subseteq M /\ Level(SubSeq(gp, f, n))'
    BY <1>1, <1>2, <1>11 DEF Sustained, Level
  <2>2. PICK g : g = SubSeq(gp, f, n)
    OBVIOUS
  <2>3. Level(g)' <=> Level(g)
    BY <1>1, SameParameters
  <2> QED
    BY <2>1, <2>2, <2>3
<1>13. ASSUME f..n \subseteq M PROVE B = BoundOf(f)'
  <2>1. hi[p] = f /\ ToSet(Trailing(rw, m)) = {gp[i] : i \in f..n}
    BY <1>8, <1>13 DEF WindowIs
  <2>3. BoundOf(f)' = [bps |-> Min({gp[i] : i \in f..n}), start |-> f,
                       rpm |-> RPM(Flatten(SubSeq(samples', f, n)))]
    BY <1>1, <1>2, <1>11 DEF BoundOf, RPM
  <2> QED
    BY <1>9, <2>1, <2>3
<1> QED
  BY <1>8, <1>10, <1>12, <1>13 DEF WindowIs

\* After an interval, windows start no later than the one that ends in it, and
\* the earlier ones are those that were there, unless goodput dropped.
LEMMA StartsAfter ==
  ASSUME TrackInv, NEW o \in Observations, EndInterval(o)
  PROVE  \A n \in Nat, m \in Nat \ {0}, f \in Int : n = intervals + 1 /\ m = MAD /\ f = n - m + 1 =>
           /\ \A i \in Starts' : i <= f
           /\ f \in Starts' <=> Sustained(f)'
           /\ lastDrop' = lastDrop =>
                \A i : i \in Starts' /\ i # f <=> i \in Starts
           /\ lastDrop' # lastDrop => \A i \in Starts' : i = f
<1>0. SUFFICES ASSUME NEW n \in Nat, NEW m \in Nat \ {0}, NEW f \in Int,
                      n = intervals + 1, m = MAD, f = n - m + 1
               PROVE  /\ \A i \in Starts' : i <= f
                      /\ f \in Starts' <=> Sustained(f)'
                      /\ lastDrop' = lastDrop =>
                           \A i : i \in Starts' /\ i # f <=> i \in Starts
                      /\ lastDrop' # lastDrop => \A i \in Starts' : i = f
  OBVIOUS
<1>1. /\ intervals \in Nat /\ intervals' = n /\ MAD' = m
      /\ MeasuredSinceDrop \subseteq 1..intervals /\ MeasuredSinceDrop' \subseteq 1..n
  BY <1>0, MeasuredWithin, TrackedInterval, SameParameters
<1>2. \A i : i \in Starts <=> i \in 1..intervals /\ Sustained(i)
  BY DEF Starts
<1>3. \A i : i \in Starts' <=> i \in 1..n /\ Sustained(i)'
  BY <1>1 DEF Starts
<1>4. \A i \in Int : Sustained(i)' => i..i + m - 1 \subseteq MeasuredSinceDrop'
  BY <1>1 DEF Sustained
<1>5. \A i \in Int : Sustained(i)' => i \in 1..n /\ i <= f
  <2> SUFFICES ASSUME NEW i \in Int, Sustained(i)' PROVE i \in 1..n /\ i <= f
    OBVIOUS
  <2>1. i \in i..i + m - 1 /\ i + m - 1 \in i..i + m - 1
    OBVIOUS
  <2>2. i \in 1..n /\ i + m - 1 \in 1..n
    BY <1>1, <1>4, <2>1
  <2> QED
    BY <1>0, <2>2
<1>6. \A i \in Starts : i \in Nat \ {0} /\ i < f
  <2> SUFFICES ASSUME NEW i \in Starts PROVE i \in Nat \ {0} /\ i < f
    OBVIOUS
  <2>1. i \in Nat \ {0} /\ Sustained(i)
    BY <1>2
  <2>2. PICK k \in Nat : k = intervals
    BY <1>1
  <2>3. i + m - 1 <= k
    BY <1>0, <1>1, <2>1, <2>2, StartsWithin
  <2> QED
    BY <1>0, <2>1, <2>2, <2>3
<1>7. ASSUME lastDrop' = lastDrop, NEW i \in Nat \ {0}, i < f
      PROVE  i \in Starts' <=> i \in Starts
  <2>1. PICK k \in Nat : k = intervals
    BY <1>1
  <2>2. i + m - 1 <= k /\ i \in 1..k /\ i \in 1..n
    BY <1>0, <1>7, <2>1
  <2>3. Sustained(i)' <=> Sustained(i)
    BY <1>0, <1>7, <2>1, <2>2, EarlierSustained
  <2> QED
    BY <1>2, <1>3, <2>1, <2>2, <2>3
<1>8. \A i \in Starts' : i \in Nat \ {0} /\ i <= f
  BY <1>3, <1>5
<1>9. ASSUME lastDrop' = lastDrop
      PROVE  \A i : i \in Starts' /\ i # f <=> i \in Starts
  BY <1>6, <1>7, <1>8, <1>9
<1>10. ASSUME lastDrop' # lastDrop, NEW i \in Starts'
       PROVE  i = f
  <2>1. i \in Int /\ Sustained(i)' /\ MeasuredSinceDrop' = {n}
    BY <1>0, <1>3, <1>10, MeasuredWithin
  <2>2. i \in i..i + m - 1 /\ i + m - 1 \in i..i + m - 1
    BY <2>1
  <2>3. i = n /\ i + m - 1 = n
    BY <1>4, <2>1, <2>2
  <2> QED
    BY <1>0, <2>1, <2>3
<1>11. f \in Starts' <=> Sustained(f)'
  BY <1>3, <1>5
<1> QED
  BY <1>8, <1>9, <1>10, <1>11

\* Every interval leaves the bound that of the latest window.
LEMMA BoundKeeps ==
  ASSUME TrackInv, LatestBound, NEW o \in Observations, EndInterval(o)
  PROVE  LatestBound'
<1>1. PICK n \in Nat, m \in Nat \ {0}, f \in Int : n = intervals + 1 /\ m = MAD /\ f = n - m + 1
  <2>1. intervals + 1 \in Nat /\ MAD \in Nat \ {0}
    BY DEF TrackInv, FlowInv, HistoryOK, Usable, StabilityParams, MAD
  <2>2. \A n \in Nat, m \in Nat \ {0} : n - m + 1 \in Int
    OBVIOUS
  <2> QED
    BY <2>1, <2>2
<1>2. /\ \A i \in Starts' : i <= f
      /\ f \in Starts' <=> Sustained(f)'
      /\ lastDrop' = lastDrop => \A i : i \in Starts' /\ i # f <=> i \in Starts
      /\ lastDrop' # lastDrop => \A i \in Starts' : i = f
  BY <1>1, StartsAfter
<1>3. CASE Sustained(f)'
  <2>1. ~Drains(o)
    <3>1. CASE Drains(o)
      <4>1. MeasuredSinceDrop' = MeasuredSinceDrop /\ MeasuredSinceDrop \subseteq 1..intervals /\ MAD' = MAD
        BY <3>1, MeasuredWithin, TrackedInterval, SameParameters
      <4>2. f..f + m - 1 \subseteq 1..intervals
        BY <1>1, <1>3, <4>1 DEF Sustained
      <4>3. n \in f..f + m - 1
        BY <1>1
      <4>4. n \notin 1..intervals
        BY <1>1, MeasuredWithin
      <4> QED
        BY <4>2, <4>3, <4>4
    <3> QED
      BY <3>1
  <2>2. \E old : lb' = updateBound(raw', holdIdx', old)
    BY <2>1, TrackedInterval
  <2>3. lb' = BoundOf(f)'
    BY <1>1, <1>3, <2>1, <2>2, NewWindow
  <2>4. f \in Starts' /\ Starts' # {}
    BY <1>2, <1>3
  <2> QED
    BY <1>2, <2>3, <2>4 DEF LatestBound
<1>4. CASE ~Sustained(f)' /\ lastDrop' = lastDrop
  <2>1. lb' = lb
    <3>1. CASE Drains(o)
      BY <3>1, TrackedInterval
    <3>2. CASE ~Drains(o) /\ ~Drops(o)
      <4>1. lb' = updateBound(raw', holdIdx', lb)
        BY <3>2, TrackedInterval
      <4> QED
        BY <1>1, <1>4, <3>2, <4>1, NewWindow
    <3>3. CASE ~Drains(o) /\ Drops(o)
      <4>1. lastDrop' = n
        BY <1>1, <3>3, TrackedInterval
      <4>2. lastDrop \in 0..intervals /\ intervals \in Nat
        BY DEF TrackInv, HistoryOK
      <4> QED
        BY <1>1, <1>4, <4>1, <4>2
    <3> QED
      BY <3>1, <3>2, <3>3
  <2>2. Starts' = Starts
    BY <1>2, <1>4
  <2>3. \A s \in Starts : BoundOf(s)' = BoundOf(s)
    <3> SUFFICES ASSUME NEW s \in Starts PROVE BoundOf(s)' = BoundOf(s)
      OBVIOUS
    <3>1. intervals \in Nat /\ MeasuredSinceDrop \subseteq 1..intervals
      BY MeasuredWithin
    <3>2. s \in Nat \ {0} /\ Sustained(s)
      BY <3>1 DEF Starts
    <3>3. s + MAD - 1 <= intervals
      BY <1>1, <3>1, <3>2, StartsWithin
    <3> QED
      BY <3>2, <3>3, EarlierWindow
  <2> QED
    BY <2>1, <2>2, <2>3 DEF LatestBound, NoBound
<1>5. CASE ~Sustained(f)' /\ lastDrop' # lastDrop
  <2>1. ~Drains(o) /\ lb' = updateBound(raw', holdIdx', NoBound)
    BY <1>5, TrackedInterval
  <2>2. lb' = NoBound
    BY <1>1, <1>5, <2>1, NewWindow
  <2>3. Starts' = {}
    BY <1>2, <1>5
  <2> QED
    BY <2>2, <2>3 DEF LatestBound, NoBound
<1> QED
  BY <1>3, <1>4, <1>5

(***************************************************************************)
(* LOAD-13: at every moment the lower bound is that of the latest window   *)
(* of MovingAverageDistance consecutive measured intervals with goodputs   *)
(* within tolerance since the last drop, and there is none exactly when    *)
(* there is no such window.  updateBound sees only the last values of      *)
(* holdG and their holdIdx: that is enough, with drain intervals between   *)
(* them and drops that restart them.                                       *)
(***************************************************************************)
THEOREM LowerBoundIsLatest == Spec => []LatestBound
<1>1. ASSUME Init PROVE LatestBound
  <2>1. intervals = 0 /\ lb = NoBound
    BY <1>1 DEF Init
  <2>2. Starts = {}
    BY <2>1 DEF Starts
  <2> QED
    BY <2>1, <2>2 DEF LatestBound
<1>2. ASSUME LatestBound, UNCHANGED tracked PROVE LatestBound'
  <2>1. /\ UNCHANGED <<sp, intervals, goodputs, lastDrop, samples>> /\ lb' = lb
        /\ MAD' = MAD /\ MeasuredSinceDrop' = MeasuredSinceDrop
    BY <1>2 DEF tracked, MeasuredSinceDrop, MAD
  <2>2. \A s : Sustained(s)' <=> Sustained(s)
    BY <2>1 DEF Sustained, Steady, SdtNum, SdtDen
  <2>3. Starts' = Starts
    BY <2>1, <2>2 DEF Starts
  <2>4. \A s : BoundOf(s)' = BoundOf(s)
    BY <2>1 DEF BoundOf, RPM
  <2> QED
    BY <1>2, <2>1, <2>3, <2>4 DEF LatestBound, NoBound
<1>3. ASSUME TrackInv, LatestBound, [Next]_vars PROVE LatestBound'
  <2>1. ASSUME NEW o \in Observations, EndInterval(o) PROVE LatestBound'
    BY <1>3, <2>1, BoundKeeps
  <2> QED
    BY <1>2, <1>3, <2>1, EndKeepsTracked DEF Next
<1>4. Init => LatestBound
  BY <1>1
<1>5. TrackInv /\ LatestBound /\ [Next]_vars => LatestBound'
  BY <1>3
<1>6. Spec => []TrackInv
  BY TrackInvariance, PTL
<1> QED
  BY <1>4, <1>5, <1>6, PTL DEF Spec

(***************************************************************************)
(* Sorting.                                                                *)
(***************************************************************************)
\* Every nonempty set of natural numbers has a least element: the proofs by
\* induction on the amount of data take the least counterexample.
LEMMA LeastNumber ==
  ASSUME NEW T \in SUBSET Nat, T # {}
  PROVE  \E x \in T : \A y \in T : x <= y
<1> DEFINE less == {ss \in Nat \X Nat : ss[1] < ss[2]}
<1>1. IsWellFoundedOn(less, Nat)
  BY NatLessThanWellFounded DEF OpToRel
<1> HIDE DEF less
<1>2. PICK x \in T : \A y \in T : ~ (<<y, x>> \in less)
  BY <1>1, WFMin
<1>3. ASSUME NEW y \in T, y < x PROVE FALSE
  <2>1. <<y, x>> \in less
    BY <1>3 DEF less
  <2> QED
    BY <1>2, <2>1
<1> QED
  BY <1>3

\* The same for a family of subsets of a finite set: some member of it leaves
\* the family whichever element is taken out.
LEMMA LeastSubset ==
  ASSUME NEW S, IsFiniteSet(S), NEW P, P \subseteq SUBSET S, P # {}
  PROVE  \E U \in P : IsFiniteSet(U) /\ \A x \in U : U \ {x} \notin P
<1> DEFINE sizes == {Cardinality(U) : U \in P}
<1>1. \A U \in P : IsFiniteSet(U) /\ Cardinality(U) \in Nat
  BY FS_Subset, FS_CardinalityType
<1>2. sizes \in SUBSET Nat /\ sizes # {}
  BY <1>1
<1>3. PICK k \in sizes : \A j \in sizes : k <= j
  <2> HIDE DEF sizes
  <2> QED
    BY <1>2, LeastNumber
<1>4. PICK U \in P : Cardinality(U) = k
  OBVIOUS
<1>5. ASSUME NEW x \in U, U \ {x} \in P PROVE FALSE
  <2>1. Cardinality(U \ {x}) = k - 1
    BY <1>1, <1>4, <1>5, FS_RemoveElement
  <2>2. k - 1 \in sizes /\ k \in Nat
    BY <1>2, <1>5, <2>1
  <2> HIDE DEF sizes
  <2>3. k <= k - 1
    BY <1>3, <2>2
  <2> QED
    BY <2>2, <2>3
<1> QED
  BY <1>1, <1>5

\* An interval from 1.
LEMMA UpToCount ==
  ASSUME NEW n \in Nat
  PROVE  IsFiniteSet(1..n) /\ Cardinality(1..n) = n
<1>1. IsFiniteSet(1..n) /\ Cardinality(1..n) = IF 1 > n THEN 0 ELSE n - 1 + 1
  BY FS_Interval
<1> QED
  BY <1>1

\* The values sorting puts no later than the i-th.
UpTo(d, i) == {j \in 1..Len(d) : d[j] < d[i] \/ (d[j] = d[i] /\ j <= i)}

\* Sorting gives every value a position of its own, in the order of the values.
LEMMA Positions ==
  ASSUME NEW d \in Seq(Int)
  PROVE  /\ \A i \in 1..Len(d) : position(d, i) \in 1..Len(d)
         /\ \A i, j \in 1..Len(d) : position(d, i) < position(d, j) => d[i] <= d[j]
         /\ \A i, j \in 1..Len(d) : position(d, i) = position(d, j) => i = j
         /\ \A k \in 1..Len(d) : \E i \in 1..Len(d) : position(d, i) = k
<1> DEFINE n == Len(d)
           at == [i \in 1..n |-> position(d, i)]
<1>1. n \in Nat /\ \A i \in 1..n : d[i] \in Int
  OBVIOUS
<1>2. IsFiniteSet(1..n) /\ Cardinality(1..n) = n
  BY <1>1, UpToCount
<1>3. \A i \in 1..n : position(d, i) = Cardinality(UpTo(d, i))
  BY DEF position, UpTo
<1> HIDE DEF n
<1>4. ASSUME NEW i \in 1..n PROVE position(d, i) \in 1..n /\ IsFiniteSet(UpTo(d, i))
  <2>1. UpTo(d, i) \in SUBSET (1..n)
    BY DEF UpTo, n
  <2>2. IsFiniteSet(UpTo(d, i)) /\ Cardinality(UpTo(d, i)) <= n
    BY <1>2, <2>1, FS_Subset
  <2>3. i \in UpTo(d, i)
    BY <1>1 DEF UpTo, n
  <2>4. Cardinality(UpTo(d, i)) \in Nat /\ Cardinality(UpTo(d, i)) # 0
    BY <2>2, <2>3, FS_CardinalityType, FS_EmptySet
  <2> QED
    BY <1>1, <1>3, <2>2, <2>4
<1>5. ASSUME NEW i \in 1..n, NEW j \in 1..n, d[i] < d[j] \/ (d[i] = d[j] /\ i < j)
      PROVE  position(d, i) < position(d, j)
  <2>1. UpTo(d, i) \in SUBSET UpTo(d, j)
    BY <1>1, <1>5 DEF UpTo, n
  <2>2. j \in UpTo(d, j) /\ j \notin UpTo(d, i)
    BY <1>1, <1>5 DEF UpTo, n
  <2>3. IsFiniteSet(UpTo(d, j)) /\ UpTo(d, i) # UpTo(d, j)
    BY <1>4, <2>2
  <2>4. Cardinality(UpTo(d, i)) <= Cardinality(UpTo(d, j)) /\ Cardinality(UpTo(d, i)) # Cardinality(UpTo(d, j))
    BY <2>1, <2>3, FS_Subset
  <2>5. position(d, i) \in Int /\ position(d, j) \in Int
    BY <1>1, <1>4
  <2> QED
    BY <1>3, <2>4, <2>5
<1>6. \A i, j \in 1..n : position(d, i) < position(d, j) => d[i] <= d[j]
  <2> SUFFICES ASSUME NEW i \in 1..n, NEW j \in 1..n, position(d, i) < position(d, j), ~(d[i] <= d[j]) PROVE FALSE
    OBVIOUS
  <2>1. position(d, j) < position(d, i)
    BY <1>1, <1>5
  <2> QED
    BY <1>1, <1>4, <2>1
<1>7. \A i, j \in 1..n : position(d, i) = position(d, j) => i = j
  <2> SUFFICES ASSUME NEW i \in 1..n, NEW j \in 1..n, position(d, i) = position(d, j), i # j PROVE FALSE
    OBVIOUS
  <2>1. position(d, i) < position(d, j) \/ position(d, j) < position(d, i)
    BY <1>1, <1>5
  <2> QED
    BY <1>1, <1>4, <2>1
<1>8. at \in Injection(1..n, 1..n)
  BY <1>4, <1>7 DEF Injection, IsInjective
<1>9. at \in Surjection(1..n, 1..n)
  BY <1>2, <1>8, FS_Injection
<1>10. \A k \in 1..n : \E i \in 1..n : position(d, i) = k
  BY <1>9 DEF Surjection
<1> QED
  BY <1>4, <1>6, <1>7, <1>10 DEF n

\* b takes the places of s to those of d, one to one, and s is in order.
Sorts(b, s, d) ==
  /\ s \in Seq(Int) /\ Len(s) = Len(d)
  /\ b \in Bijection(1..Len(d), 1..Len(d))
  /\ \A k \in 1..Len(d) : s[k] = d[b[k]]
  /\ \A k, l \in 1..Len(d) : k <= l => s[k] <= s[l]

\* sortedCopy sorts.
LEMMA SortedCopySorts ==
  ASSUME NEW d \in Seq(Int)
  PROVE  \E b : Sorts(b, sortedCopy(d), d)
<1> DEFINE n == Len(d)
           b == [k \in 1..n |-> CHOOSE i \in 1..n : position(d, i) = k]
           s == [k \in 1..n |-> d[CHOOSE i \in 1..n : position(d, i) = k]]
<1>1. sortedCopy(d) = s
  <2>1. <<>> \o d = d
    OBVIOUS
  <2> QED
    BY <2>1 DEF sortedCopy
<1>2. n \in Nat /\ \A i \in 1..n : d[i] \in Int
  OBVIOUS
<1>3. \A k \in 1..n : b[k] \in 1..n /\ position(d, b[k]) = k
  BY Positions
<1>4. \A k \in 1..n : s[k] = d[b[k]]
  OBVIOUS
<1>5. s \in Seq(Int) /\ Len(s) = n
  BY <1>2, <1>3, <1>4
<1>6. b \in Bijection(1..n, 1..n)
  <2>1. b \in [1..n -> 1..n] /\ IsInjective(b)
    BY <1>3 DEF IsInjective
  <2>2. \A i \in 1..n : \E k \in 1..n : b[k] = i
    <3> SUFFICES ASSUME NEW i \in 1..n PROVE \E k \in 1..n : b[k] = i
      OBVIOUS
    <3>1. position(d, i) \in 1..n
      BY Positions
    <3>2. b[position(d, i)] = i
      BY <1>3, <3>1, Positions
    <3> QED
      BY <3>1, <3>2
  <2> QED
    BY <2>1, <2>2 DEF Bijection, Injection, Surjection
<1>7. \A k, l \in 1..n : k <= l => s[k] <= s[l]
  <2> SUFFICES ASSUME NEW k \in 1..n, NEW l \in 1..n, k <= l PROVE s[k] <= s[l]
    OBVIOUS
  <2>1. s[k] = d[b[k]] /\ s[l] = d[b[l]] /\ s[k] \in Int
    BY <1>2, <1>3, <1>4
  <2>2. CASE k = l
    BY <2>1, <2>2
  <2>3. CASE k < l
    <3>1. position(d, b[k]) < position(d, b[l]) /\ b[k] \in 1..n /\ b[l] \in 1..n
      BY <1>3, <2>3
    <3>2. PICK i \in 1..n, j \in 1..n : i = b[k] /\ j = b[l]
      BY <3>1
    <3>3. position(d, i) < position(d, j)
      BY <3>1, <3>2
    <3> HIDE DEF b, s
    <3>4. d[i] <= d[j]
      BY <3>3, Positions
    <3> QED
      BY <2>1, <3>2, <3>4
  <2> QED
    BY <1>2, <2>2, <2>3
<1> HIDE DEF b, s
<1>8. Sorts(b, s, d)
  BY <1>4, <1>5, <1>6, <1>7 DEF Sorts
<1> QED
  BY <1>1, <1>8

(***************************************************************************)
(* Ranks and percentiles.                                                  *)
(***************************************************************************)
\* percentile takes the least rank that covers p percent of the values.
LEMMA RankCovers ==
  ASSUME NEW n \in Nat \ {0}, NEW p \in 1..100
  PROVE  rank(n, p) \in 1..n /\ 100 * rank(n, p) >= p * n /\ 100 * (rank(n, p) - 1) < p * n
<1>1. PICK q \in Int : q = p * n
  OBVIOUS
<1>2. 0 < q /\ q <= 100 * n
  BY <1>1
<1>3. PICK r \in Int : r = (q + 99) \div 100
  OBVIOUS
<1>4. 100 * r >= q /\ 100 * (r - 1) < q /\ r >= 1 /\ r <= n
  BY <1>2, <1>3
<1>5. rank(n, p) = r
  BY <1>1, <1>3, <1>4 DEF rank, AtMost, AtLeast
<1> QED
  BY <1>1, <1>4, <1>5

\* LAT-7 and LAT-8: percentile takes the least rank that covers p percent of
\* the samples, and percentileMinSamples asks for exactly as many samples as
\* make that rank fall short of the last one.
THEOREM RanksCover ==
  \A n \in Nat \ {0}, p \in Percentiles :
    /\ rank(n, p) \in 1..n /\ 100 * rank(n, p) >= p * n /\ 100 * (rank(n, p) - 1) < p * n
    /\ n >= percentileMinSamples(p) <=> HasRank(n, p)
<1> SUFFICES ASSUME NEW n \in Nat \ {0}, NEW p \in Percentiles
             PROVE  /\ /\ rank(n, p) \in 1..n
                       /\ 100 * rank(n, p) >= p * n /\ 100 * (rank(n, p) - 1) < p * n
                    /\ n >= percentileMinSamples(p) <=> HasRank(n, p)
  OBVIOUS
<1>1. p \in {80, 90, 95, 99}
  BY DEF Percentiles
<1>2. rank(n, p) \in 1..n /\ 100 * rank(n, p) >= p * n /\ 100 * (rank(n, p) - 1) < p * n
  <2>1. p \in 1..100
    BY <1>1
  <2> QED
    BY <2>1, RankCovers
<1>3. n >= percentileMinSamples(p) <=> 100 * (n - 1) >= p * n
  BY <1>1 DEF percentileMinSamples
<1>4. HasRank(n, p) <=> 100 * (n - 1) >= p * n
  <2>1. ASSUME 100 * (n - 1) >= p * n PROVE HasRank(n, p)
    <3>1. n - 1 \in 1..(n - 1)
      BY <1>1, <2>1
    <3> QED
      BY <2>1, <3>1 DEF HasRank
  <2>2. ASSUME HasRank(n, p) PROVE 100 * (n - 1) >= p * n
    BY <1>1, <2>2 DEF HasRank
  <2> QED
    BY <2>1, <2>2
<1> QED
  BY <1>2, <1>3, <1>4

\* The places of d that the first r places of s come from.
From1(b, r) == {b[k] : k \in 1..r}

\* There are r of them.
LEMMA PrefixCount ==
  ASSUME NEW n \in Nat, NEW b \in Bijection(1..n, 1..n), NEW r \in 0..n
  PROVE  From1(b, r) \subseteq 1..n /\ IsFiniteSet(From1(b, r)) /\ Cardinality(From1(b, r)) = r
<1> DEFINE f == [k \in 1..r |-> b[k]]
<1>1. 1..r \subseteq 1..n /\ r \in Nat /\ b \in [1..n -> 1..n]
      /\ \A k, l \in 1..n : b[k] = b[l] => k = l
  BY DEF Bijection, Injection, IsInjective
<1>2. f \in Bijection(1..r, From1(b, r))
  <2>1. f \in [1..r -> From1(b, r)] /\ \A y \in From1(b, r) : \E k \in 1..r : f[k] = y
    BY DEF From1
  <2>2. IsInjective(f)
    BY <1>1 DEF IsInjective
  <2> QED
    BY <2>1, <2>2 DEF Bijection, Injection, Surjection
<1>3. IsFiniteSet(1..r) /\ Cardinality(1..r) = r
  BY <1>1, UpToCount
<1>4. From1(b, r) \subseteq 1..n
  BY <1>1 DEF From1
<1>5. ExistsBijection(1..r, From1(b, r))
  BY <1>2 DEF ExistsBijection
<1> QED
  BY <1>3, <1>4, <1>5, FS_Bijection

\* How many values are at most x, and how many are below it.
NotAbove(d, x) == Cardinality({i \in 1..Len(d) : d[i] <= x})
Below(d, x) == Cardinality({i \in 1..Len(d) : d[i] < x})

\* At least r values do not exceed the r-th of the sorted ones, and fewer than
\* r are below it.
LEMMA OrderStatistic ==
  ASSUME NEW d \in Seq(Int), NEW b, NEW s, Sorts(b, s, d), NEW r \in 1..Len(d)
  PROVE  /\ \E i \in 1..Len(d) : d[i] = s[r]
         /\ NotAbove(d, s[r]) \in Nat /\ NotAbove(d, s[r]) >= r
         /\ Below(d, s[r]) \in Nat /\ Below(d, s[r]) < r
<1> DEFINE n == Len(d)
           le == {i \in 1..n : d[i] <= s[r]}
           lt == {i \in 1..n : d[i] < s[r]}
<1>1. n \in Nat /\ \A i \in 1..n : d[i] \in Int
  OBVIOUS
<1>2. /\ b \in Bijection(1..n, 1..n)
      /\ \A k \in 1..n : s[k] = d[b[k]]
      /\ \A k, l \in 1..n : k <= l => s[k] <= s[l]
  BY DEF Sorts
<1>3. b \in [1..n -> 1..n] /\ \A i \in 1..n : \E k \in 1..n : b[k] = i
  BY <1>2 DEF Bijection, Injection, Surjection
<1> HIDE DEF n
<1>a. r \in 1..n
  BY DEF n
<1>4. IsFiniteSet(1..n)
  BY <1>1, UpToCount
<1>5. IsFiniteSet(le) /\ Cardinality(le) \in Nat
  <2>1. le \in SUBSET (1..n)
    OBVIOUS
  <2> QED
    BY <1>4, <2>1, FS_Subset, FS_CardinalityType
<1>6. Cardinality(le) >= r
  <2>1. From1(b, r) \in SUBSET le
    <3> SUFFICES ASSUME NEW k \in 1..r PROVE b[k] \in le
      BY DEF From1
    <3>1. k \in 1..n /\ k <= r
      BY <1>1, <1>a
    <3>2. b[k] \in 1..n /\ s[k] = d[b[k]] /\ s[k] <= s[r]
      BY <1>2, <1>3, <1>a, <3>1
    <3> QED
      BY <3>2
  <2>2. r \in 0..n
    BY <1>a, <1>1
  <2>3. Cardinality(From1(b, r)) = r
    BY <1>1, <1>2, <2>2, PrefixCount
  <2>4. Cardinality(From1(b, r)) <= Cardinality(le)
    BY <1>5, <2>1, FS_Subset
  <2> QED
    BY <1>1, <1>5, <1>a, <2>3, <2>4
<1>7. IsFiniteSet(lt) /\ Cardinality(lt) \in Nat
  <2>1. lt \in SUBSET (1..n)
    OBVIOUS
  <2> QED
    BY <1>4, <2>1, FS_Subset, FS_CardinalityType
<1>8. Cardinality(lt) < r
  <2>1. lt \in SUBSET From1(b, r - 1)
    <3> SUFFICES ASSUME NEW i \in 1..n, d[i] < s[r] PROVE i \in From1(b, r - 1)
      OBVIOUS
    <3>1. PICK k \in 1..n : b[k] = i
      BY <1>3
    <3>2. s[k] = d[i] /\ s[r] = d[b[r]] /\ b[r] \in 1..n
      BY <1>2, <1>3, <1>a, <3>1
    <3>3. ~(r <= k)
      BY <1>1, <1>2, <1>a, <3>2
    <3>4. k \in 1..(r - 1)
      BY <1>1, <1>a, <3>3
    <3> QED
      BY <3>1, <3>4 DEF From1
  <2>2. r - 1 \in 0..n
    BY <1>a, <1>1
  <2>3. IsFiniteSet(From1(b, r - 1)) /\ Cardinality(From1(b, r - 1)) = r - 1
    BY <1>1, <1>2, <2>2, PrefixCount
  <2>4. Cardinality(lt) <= Cardinality(From1(b, r - 1))
    BY <2>1, <2>3, FS_Subset
  <2> QED
    BY <1>1, <1>7, <1>a, <2>3, <2>4
<1>9. \E i \in 1..n : d[i] = s[r]
  BY <1>2, <1>3, <1>a
<1> QED
  BY <1>5, <1>6, <1>7, <1>8, <1>9 DEF n, NotAbove, Below

\* What percentile returns is the nearest rank.
LEMMA PercentileIsNearestRank ==
  ASSUME NEW d \in Seq(Int), d # <<>>, NEW p \in 1..100
  PROVE  NearestRank(d, p, percentile(sortedCopy(d), p))
<1>1. PICK b : Sorts(b, sortedCopy(d), d)
  BY SortedCopySorts
<1>2. PICK s \in Seq(Int) : s = sortedCopy(d) /\ Sorts(b, s, d) /\ Len(s) = Len(d)
  BY <1>1 DEF Sorts
<1>3. PICK n \in Nat \ {0} : n = Len(d)
  OBVIOUS
<1>4. PICK r \in 1..n : r = rank(n, p) /\ 100 * r >= p * n /\ 100 * (r - 1) < p * n
  BY RankCovers
<1>5. percentile(s, p) = s[r]
  BY <1>2, <1>3, <1>4 DEF percentile
<1>6. PICK c \in Nat, e \in Nat :
        c = NotAbove(d, s[r]) /\ c >= r /\ e = Below(d, s[r]) /\ e < r /\ \E i \in 1..Len(d) : d[i] = s[r]
  <2>1. Sorts(b, s, d) /\ r \in 1..Len(d)
    BY <1>2, <1>3
  <2>2. /\ NotAbove(d, s[r]) \in Nat /\ NotAbove(d, s[r]) >= r /\ Below(d, s[r]) \in Nat /\ Below(d, s[r]) < r
        /\ \E i \in 1..Len(d) : d[i] = s[r]
    BY <2>1, OrderStatistic
  <2> QED
    BY <2>2
<1>7. PICK q \in Int : q = p * n
  BY <1>3
<1>8. 100 * c >= q /\ 100 * e < q
  <2>1. 100 * r >= q /\ 100 * (r - 1) < q /\ c >= r /\ e < r /\ r \in Int
    BY <1>4, <1>6, <1>7
  <2> QED
    BY <2>1
<1> QED
  BY <1>2, <1>3, <1>5, <1>6, <1>7, <1>8 DEF NearestRank, NotAbove, Below

\* There is only one.
LEMMA NearestRankUnique ==
  ASSUME NEW d \in Seq(Int), NEW p \in 1..100, NEW x, NEW y, NearestRank(d, p, x), NearestRank(d, p, y)
  PROVE  x = y
<1>1. PICK n \in Nat : n = Len(d)
  OBVIOUS
<1>2. x \in Int /\ y \in Int /\ p * n \in Int
  BY <1>1 DEF NearestRank
<1>3. ASSUME NEW u \in Int, NEW v \in Int, NearestRank(d, p, u), NearestRank(d, p, v), u < v PROVE FALSE
  <2> DEFINE le == {i \in 1..n : d[i] <= u}
             lt == {i \in 1..n : d[i] < v}
  <2>1. 100 * Cardinality(le) >= p * n /\ 100 * Cardinality(lt) < p * n
    BY <1>1, <1>3 DEF NearestRank
  <2>2. le \in SUBSET lt /\ lt \in SUBSET (1..n)
    BY <1>1, <1>3
  <2>3. IsFiniteSet(lt)
    BY <1>1, <2>2, UpToCount, FS_Subset
  <2>4. Cardinality(le) <= Cardinality(lt) /\ Cardinality(le) \in Nat /\ Cardinality(lt) \in Nat
    BY <2>2, <2>3, FS_Subset, FS_CardinalityType
  <2> HIDE DEF le, lt
  <2> QED
    BY <1>2, <2>1, <2>4
<1> QED
  BY <1>2, <1>3

(***************************************************************************)
(* Sums.                                                                   *)
(***************************************************************************)
\* The sum of f over a set of indices.
SumOver(f, S) == MapThenSumSet(LAMBDA i : f[i], S)

\* The index a sum over s takes out next.
Chosen(s) == CHOOSE x \in s : TRUE

\* g is the table of the sums of f over the sets of D.
Table(f, D, g) == g = [s \in D |-> IF s = {} THEN 0 ELSE f[Chosen(s)] + g[s \ {Chosen(s)}]]

\* g is such a table for all of S.
TableOf(f, S, g) == Table(f, SUBSET S, g)

\* A sum over a sequence is one over its places.
LEMMA SumOfSequence ==
  ASSUME NEW s
  PROVE  Sum(s) = SumOver(s, DOMAIN s)
BY DEF Sum, FoldSeq, FoldFunction, FoldFunctionOnSet, MapThenSumSet, SumOver, MapThenFoldSet

\* A sum is looked up in the table over all subsets.
LEMMA SumIsTabled ==
  ASSUME NEW f, NEW S
  PROVE  SumOver(f, S) = (CHOOSE g : TableOf(f, S, g))[S]
BY DEF MapThenSumSet, SumOver, MapThenFoldSet, Table, TableOf, Chosen

\* What is left of a finite set without its chosen element.
LEMMA ChosenFacts ==
  ASSUME NEW S, IsFiniteSet(S), S # {}
  PROVE  /\ Chosen(S) \in S /\ IsFiniteSet(S \ {Chosen(S)})
         /\ Cardinality(S) \in Nat /\ Cardinality(S \ {Chosen(S)}) \in Nat
         /\ Cardinality(S) = Cardinality(S \ {Chosen(S)}) + 1
<1>1. Chosen(S) \in S
  BY DEF Chosen
<1>2. IsFiniteSet(S \ {Chosen(S)}) /\ Cardinality(S \ {Chosen(S)}) = Cardinality(S) - 1
  BY <1>1, FS_RemoveElement
<1>3. Cardinality(S) \in Nat /\ Cardinality(S \ {Chosen(S)}) \in Nat
  BY <1>2, FS_CardinalityType
<1> QED
  BY <1>1, <1>2, <1>3

\* There is such a table: one for the sets of up to k + 1 elements extends one
\* for the sets of up to k.
LEMMA TableExists ==
  ASSUME NEW f, NEW S, IsFiniteSet(S)
  PROVE  \E g : TableOf(f, S, g)
<1> DEFINE Small(k) == {s \in SUBSET S : Cardinality(s) <= k}
           None == {k \in Nat : ~ \E g : Table(f, Small(k), g)}
           Extended(g, k) == [s \in Small(k) |-> IF s = {} THEN 0 ELSE f[Chosen(s)] + g[s \ {Chosen(s)}]]
<1>1. \A s \in SUBSET S : IsFiniteSet(s) /\ Cardinality(s) \in Nat /\ Cardinality(s) <= Cardinality(S)
  BY FS_Subset, FS_CardinalityType
<1>2. Cardinality(S) \in Nat /\ Small(Cardinality(S)) = SUBSET S
  BY <1>1, FS_CardinalityType
<1>3. ASSUME NEW k \in Nat, NEW s \in Small(k + 1), s # {}
      PROVE  s \ {Chosen(s)} \in Small(k)
  <2>1. IsFiniteSet(s) /\ Cardinality(s) <= k + 1 /\ s \in SUBSET S
    BY <1>1, <1>3
  <2>2. PICK c \in Nat : c = Cardinality(s \ {Chosen(s)}) /\ Cardinality(s) = c + 1
    BY <1>3, <2>1, ChosenFacts
  <2>3. c <= k
    BY <2>1, <2>2
  <2> QED
    BY <2>1, <2>2, <2>3
<1>4. 0 \notin None
  <2>1. ASSUME NEW s \in Small(0) PROVE s = {}
    BY <1>1, <2>1, FS_EmptySet
  <2>2. Table(f, Small(0), [s \in Small(0) |-> 0])
    BY <2>1 DEF Table
  <2> QED
    BY <2>2
<1>5. ASSUME NEW k \in Nat, k \notin None PROVE k + 1 \notin None
  <2>1. PICK g : Table(f, Small(k), g)
    BY <1>5
  <2>2. ASSUME NEW t \in Small(k) PROVE Extended(g, k + 1)[t] = g[t]
    <3>1. t \in Small(k + 1)
      BY <1>1, <2>2
    <3>2. g[t] = IF t = {} THEN 0 ELSE f[Chosen(t)] + g[t \ {Chosen(t)}]
      BY <2>1, <2>2 DEF Table
    <3> QED
      BY <3>1, <3>2
  <2>3. \A s \in Small(k + 1) : s # {} => Extended(g, k + 1)[s \ {Chosen(s)}] = g[s \ {Chosen(s)}]
    BY <1>3, <2>2
  <2>4. Table(f, Small(k + 1), Extended(g, k + 1))
    BY <2>3 DEF Table
  <2> HIDE DEF Small, Extended
  <2>5. \E h : Table(f, Small(k + 1), h)
    BY <2>4
  <2> QED
    BY <2>5
<1> HIDE DEF None
<1>6. ASSUME None # {} PROVE FALSE
  <2>1. None \in SUBSET Nat
    BY DEF None
  <2>2. PICK k \in None : \A j \in None : k <= j
    BY <1>6, <2>1, LeastNumber
  <2>3. k # 0 /\ k \in Nat
    BY <1>4, <2>1
  <2>4. k - 1 \in Nat /\ k - 1 \notin None /\ k - 1 + 1 = k
    BY <2>2, <2>3, <2>1
  <2> QED
    BY <1>5, <2>4
<1> QED
  BY <1>2, <1>6 DEF None, TableOf

\* Tables agree on the sets they share.
LEMMA TablesAgree ==
  ASSUME NEW f, NEW S, NEW T, IsFiniteSet(T), T \subseteq S,
         NEW g, TableOf(f, S, g), NEW h, TableOf(f, T, h)
  PROVE  g[T] = h[T]
<1> DEFINE Differ == {U \in SUBSET T : g[U] # h[U]}
<1>1. ASSUME Differ # {} PROVE FALSE
  <2>1. PICK U \in Differ : IsFiniteSet(U) /\ \A x \in U : U \ {x} \notin Differ
    <3>1. Differ \subseteq SUBSET T
      OBVIOUS
    <3> HIDE DEF Differ
    <3> QED
      BY <1>1, <3>1, LeastSubset
  <2>2. /\ g[U] = IF U = {} THEN 0 ELSE f[Chosen(U)] + g[U \ {Chosen(U)}]
        /\ h[U] = IF U = {} THEN 0 ELSE f[Chosen(U)] + h[U \ {Chosen(U)}]
    BY DEF Table, TableOf
  <2>3. U # {} /\ U \ {Chosen(U)} \in Differ
    BY <2>2
  <2> QED
    BY <2>1, <2>3, ChosenFacts
<1> QED
  BY <1>1

\* A sum over a finite set, and the table it is looked up in.
LEMMA SumTable ==
  ASSUME NEW f, NEW S, IsFiniteSet(S)
  PROVE  \E g : TableOf(f, S, g) /\ SumOver(f, S) = g[S]
BY SumIsTabled, TableExists

\* The equation of a sum.
LEMMA SumEquation ==
  ASSUME NEW f, NEW S, IsFiniteSet(S)
  PROVE  SumOver(f, S) = IF S = {} THEN 0 ELSE f[Chosen(S)] + SumOver(f, S \ {Chosen(S)})
<1>1. PICK g : TableOf(f, S, g) /\ SumOver(f, S) = g[S]
  BY SumTable
<1>2. g[S] = IF S = {} THEN 0 ELSE f[Chosen(S)] + g[S \ {Chosen(S)}]
  BY <1>1 DEF Table, TableOf
<1>3. ASSUME S # {} PROVE SumOver(f, S \ {Chosen(S)}) = g[S \ {Chosen(S)}]
  <2>1. PICK V : V = S \ {Chosen(S)} /\ IsFiniteSet(V) /\ V \subseteq S
    BY <1>3, ChosenFacts
  <2>2. PICK h : TableOf(f, V, h) /\ SumOver(f, V) = h[V]
    BY <2>1, SumTable
  <2>3. g[V] = h[V]
    BY <1>1, <2>1, <2>2, TablesAgree
  <2> QED
    BY <2>1, <2>2, <2>3
<1> QED
  BY <1>1, <1>2, <1>3

\* f has an integer for every index of S.
Valued(f, S) == \A x \in S : f[x] \in Int

\* A sum of integers is one.
LEMMA SumInt ==
  ASSUME NEW f, NEW S, IsFiniteSet(S), Valued(f, S)
  PROVE  SumOver(f, S) \in Int
<1> DEFINE Bad == {U \in SUBSET S : SumOver(f, U) \notin Int}
<1>1. ASSUME Bad # {} PROVE FALSE
  <2>1. PICK U \in Bad : IsFiniteSet(U) /\ \A x \in U : U \ {x} \notin Bad
    <3>1. Bad \subseteq SUBSET S
      OBVIOUS
    <3> HIDE DEF Bad
    <3> QED
      BY <1>1, <3>1, LeastSubset
  <2>2. SumOver(f, U) = IF U = {} THEN 0 ELSE f[Chosen(U)] + SumOver(f, U \ {Chosen(U)})
    BY <2>1, SumEquation
  <2>3. CASE U # {}
    <3>1. Chosen(U) \in U
      BY <2>1, <2>3, ChosenFacts
    <3>2. f[Chosen(U)] \in Int /\ SumOver(f, U \ {Chosen(U)}) \in Int
      BY <2>1, <3>1 DEF Valued
    <3> QED
      BY <2>2, <2>3, <3>2
  <2> QED
    BY <2>2, <2>3
<1> QED
  BY <1>1

\* Whichever index is taken out first.
LEMMA SumTake ==
  ASSUME NEW f, NEW S, IsFiniteSet(S), Valued(f, S), NEW x \in S
  PROVE  SumOver(f, S) = f[x] + SumOver(f, S \ {x})
<1> DEFINE Bad == {U \in SUBSET S : \E y \in U : SumOver(f, U) # f[y] + SumOver(f, U \ {y})}
<1>1. ASSUME Bad # {} PROVE FALSE
  <2>1. PICK U \in Bad : IsFiniteSet(U) /\ \A y \in U : U \ {y} \notin Bad
    <3>1. Bad \subseteq SUBSET S
      OBVIOUS
    <3> HIDE DEF Bad
    <3> QED
      BY <1>1, <3>1, LeastSubset
  <2>2. PICK y \in U : SumOver(f, U) # f[y] + SumOver(f, U \ {y})
    OBVIOUS
  <2>3. PICK c \in U : SumOver(f, U) = f[c] + SumOver(f, U \ {c})
    <3>1. U # {} /\ Chosen(U) \in U
      BY <2>1, <2>2, ChosenFacts
    <3>2. SumOver(f, U) = f[Chosen(U)] + SumOver(f, U \ {Chosen(U)})
      BY <2>1, <3>1, SumEquation
    <3> HIDE DEF Bad
    <3> QED
      BY <3>1, <3>2
  <2>4. y # c
    BY <2>2, <2>3
  <2>5. SumOver(f, U \ {c}) = f[y] + SumOver(f, (U \ {c}) \ {y})
    BY <2>1, <2>4
  <2>6. SumOver(f, U \ {y}) = f[c] + SumOver(f, (U \ {y}) \ {c})
    BY <2>1, <2>4
  <2>7. PICK V : V = (U \ {c}) \ {y} /\ V = (U \ {y}) \ {c} /\ V \subseteq S
    OBVIOUS
  <2>8. IsFiniteSet(V) /\ Valued(f, V) /\ f[c] \in Int /\ f[y] \in Int
    BY <2>7, FS_Subset DEF Valued
  <2>9. PICK w \in Int : w = SumOver(f, V)
    BY <2>8, SumInt
  <2>10. SumOver(f, U) = f[c] + (f[y] + w) /\ SumOver(f, U \ {y}) = f[c] + w
    BY <2>3, <2>5, <2>6, <2>7, <2>9
  <2>11. f[c] + (f[y] + w) = f[y] + (f[c] + w)
    BY <2>8, <2>9
  <2> HIDE DEF Bad
  <2> QED
    BY <2>2, <2>10, <2>11
<1> QED
  BY <1>1

\* The values of f on the places b takes those of U to.
Image(b, U) == {b[x] : x \in U}

\* The same values in another order have the same sum.
LEMMA SumSame ==
  ASSUME NEW S, NEW T, IsFiniteSet(S), IsFiniteSet(T), NEW b \in Injection(S, T),
         NEW f, Valued(f, T), NEW g, \A x \in S : g[x] = f[b[x]]
  PROVE  SumOver(g, S) = SumOver(f, Image(b, S))
<1> DEFINE Bad == {U \in SUBSET S : SumOver(g, U) # SumOver(f, Image(b, U))}
<1>1. b \in [S -> T] /\ \A x, y \in S : b[x] = b[y] => x = y
  BY DEF Injection, IsInjective
<1>2. ASSUME Bad # {} PROVE FALSE
  <2>1. PICK U \in Bad : IsFiniteSet(U) /\ \A x \in U : U \ {x} \notin Bad
    <3>1. Bad \subseteq SUBSET S
      OBVIOUS
    <3> HIDE DEF Bad
    <3> QED
      BY <1>2, <3>1, LeastSubset
  <2>2. U \subseteq S /\ SumOver(g, U) # SumOver(f, Image(b, U))
    OBVIOUS
  <2>3. CASE U = {}
    <3>1. Image(b, U) = {}
      BY <2>3 DEF Image
    <3> QED
      BY <2>2, <2>3, <3>1, FS_EmptySet, SumEquation
  <2>4. CASE U # {}
    <3>1. PICK c \in U : SumOver(g, U) = g[c] + SumOver(g, U \ {c})
      BY <2>1, <2>4, SumEquation, ChosenFacts
    <3>2. SumOver(g, U \ {c}) = SumOver(f, Image(b, U \ {c}))
      BY <2>1
    <3>3. Image(b, U) \subseteq T /\ b[c] \in Image(b, U) /\ Image(b, U \ {c}) = Image(b, U) \ {b[c]}
      BY <1>1, <2>2 DEF Image
    <3>4. IsFiniteSet(Image(b, U)) /\ Valued(f, Image(b, U))
      BY <3>3, FS_Subset DEF Valued
    <3>5. SumOver(f, Image(b, U)) = f[b[c]] + SumOver(f, Image(b, U) \ {b[c]})
      BY <3>3, <3>4, SumTake
    <3> QED
      BY <2>2, <3>1, <3>2, <3>3, <3>5
  <2> QED
    BY <2>3, <2>4
<1> QED
  BY <1>2

\* A sum of positive values up to m.
LEMMA SumBounds ==
  ASSUME NEW f, NEW S, IsFiniteSet(S), NEW l \in Nat, NEW m \in Nat, \A x \in S : f[x] \in l..m
  PROVE  Cardinality(S) \in Nat /\ l * Cardinality(S) <= SumOver(f, S) /\ SumOver(f, S) <= m * Cardinality(S)
<1> DEFINE Within(U) == l * Cardinality(U) <= SumOver(f, U) /\ SumOver(f, U) <= m * Cardinality(U)
           Bad == {U \in SUBSET S : ~ Within(U)}
<1>1. ASSUME Bad # {} PROVE FALSE
  <2>1. PICK U \in Bad : IsFiniteSet(U) /\ \A x \in U : U \ {x} \notin Bad
    <3>1. Bad \subseteq SUBSET S
      OBVIOUS
    <3> HIDE DEF Bad
    <3> QED
      BY <1>1, <3>1, LeastSubset
  <2>2. U \subseteq S /\ ~ Within(U)
    OBVIOUS
  <2>3. CASE U = {}
    <3>1. Cardinality(U) = 0 /\ SumOver(f, U) = 0
      BY <2>3, FS_EmptySet, SumEquation
    <3> QED
      BY <2>2, <3>1
  <2>4. CASE U # {}
    <3>1. PICK c \in U : c = Chosen(U) /\ SumOver(f, U) = f[c] + SumOver(f, U \ {c})
      BY <2>1, <2>4, SumEquation, ChosenFacts
    <3>2. Within(U \ {c})
      BY <2>1
    <3>3. PICK k \in Nat : k = Cardinality(U \ {c}) /\ Cardinality(U) = k + 1 /\ IsFiniteSet(U \ {c})
      BY <2>1, <2>4, <3>1, ChosenFacts
    <3>4. PICK v \in l..m : v = f[c]
      BY <2>2
    <3>5. Valued(f, U \ {c})
      BY <2>2 DEF Valued
    <3>6. PICK s \in Int : s = SumOver(f, U \ {c})
      BY <3>3, <3>5, SumInt
    <3>7. l * k <= s /\ s <= m * k
      BY <3>2, <3>3, <3>6
    <3>8. PICK a \in Int, z \in Int : a = l * k /\ z = m * k
      OBVIOUS
    <3>9. l * (k + 1) = a + l /\ m * (k + 1) = z + m
      BY <3>8
    <3>10. l * (k + 1) <= v + s /\ v + s <= m * (k + 1)
      BY <3>7, <3>8, <3>9
    <3> QED
      BY <2>2, <3>1, <3>3, <3>4, <3>6, <3>10
  <2> QED
    BY <2>3, <2>4
<1>2. Cardinality(S) \in Nat
  BY FS_CardinalityType
<1> QED
  BY <1>1, <1>2

(***************************************************************************)
(* The trimmed mean.                                                       *)
(***************************************************************************)
\* The least element of a set of natural numbers.
LEMMA MinFacts ==
  ASSUME NEW T \in SUBSET Nat, T # {}
  PROVE  Min(T) \in T /\ \A y \in T : Min(T) <= y
BY LeastNumber DEF Min

\* The first values of s, up to the last of those that are at most cut.
KeptOf(s, cut) ==
  LET above == {i \in 1..Len(s) : s[i] > cut}
      kept == IF above # {} THEN Min(above) ELSE 0
  IN IF kept = 0 THEN s ELSE SubSeq(s, 1, kept - 1)

\* trimmedMean stops at the first value above the percentile.
LEMMA TrimmedMeanKeeps ==
  ASSUME NEW d, NEW p
  PROVE  trimmedMean(d, p) = meanDuration(KeptOf(sortedCopy(d), percentile(sortedCopy(d), p)))
BY DEF trimmedMean, SelectInSeq, KeptOf

\* q is the first k values of s, which are all that are at most cut.
Keeps(q, s, cut, k) ==
  /\ k \in 1..Len(s) /\ q \in Seq(Int) /\ Len(q) = k
  /\ \A i \in 1..k : q[i] = s[i]
  /\ \A i \in 1..Len(s) : s[i] <= cut <=> i <= k

\* In sorted values these are all that are at most cut.
LEMMA KeptFacts ==
  ASSUME NEW s \in Seq(Int), \A i, j \in 1..Len(s) : i <= j => s[i] <= s[j],
         NEW cut \in Int, NEW r \in 1..Len(s), s[r] <= cut
  PROVE  \E k : Keeps(KeptOf(s, cut), s, cut, k)
<1> DEFINE above == {i \in 1..Len(s) : s[i] > cut}
<1>1. PICK n \in Nat \ {0} : n = Len(s)
  OBVIOUS
<1>2. \A i \in 1..n : s[i] \in Int
  BY <1>1
<1>a. KeptOf(s, cut) = IF above # {} /\ Min(above) # 0 THEN SubSeq(s, 1, Min(above) - 1) ELSE s
  BY DEF KeptOf
<1>3. CASE above = {}
  <2>1. KeptOf(s, cut) = s
    BY <1>3, <1>a
  <2>2. \A i \in 1..n : s[i] <= cut
    <3>1. ASSUME NEW i \in 1..n, ~(s[i] <= cut) PROVE i \in above
      BY <1>1, <1>2, <3>1
    <3> QED
      BY <1>3, <3>1
  <2>3. Keeps(s, s, cut, n)
    BY <1>1, <2>2 DEF Keeps
  <2> QED
    BY <2>1, <2>3
<1>4. CASE above # {}
  <2>1. PICK m : m = Min(above) /\ m \in above /\ \A i \in above : m <= i
    <3>1. above \in SUBSET Nat
      OBVIOUS
    <3> HIDE DEF above
    <3> QED
      BY <1>4, <3>1, MinFacts
  <2>b. m \in 1..n /\ s[m] > cut
    BY <1>1, <2>1
  <2>2. PICK k \in Int : k = m - 1 /\ m \in 1..n /\ s[m] > cut
    BY <2>b
  <2>3. \A i \in 1..n : s[i] <= cut <=> i <= k
    <3>1. ASSUME NEW i \in 1..n, s[i] <= cut, ~(i <= k) PROVE FALSE
      <4>1. m <= i
        BY <2>2, <3>1
      <4>2. s[m] <= s[i]
        BY <1>1, <2>2, <4>1
      <4> QED
        BY <1>2, <2>2, <3>1, <4>2
    <3>2. ASSUME NEW i \in 1..n, i <= k, ~(s[i] <= cut) PROVE FALSE
      <4>1. i \in above
        BY <1>1, <1>2, <3>2
      <4>2. m <= i
        BY <2>1, <4>1
      <4> QED
        BY <2>2, <3>2, <4>2
    <3> QED
      BY <3>1, <3>2
  <2>4. k \in 1..n
    BY <1>1, <2>2, <2>3
  <2>5. KeptOf(s, cut) = SubSeq(s, 1, k)
    <3>1. m # 0 /\ k = m - 1 /\ m = Min(above)
      BY <2>1, <2>2
    <3> HIDE DEF above
    <3> QED
      BY <1>4, <1>a, <3>1
  <2>6. /\ SubSeq(s, 1, k) \in Seq(Int) /\ Len(SubSeq(s, 1, k)) = k
        /\ \A i \in 1..k : SubSeq(s, 1, k)[i] = s[i]
    BY <1>1, <2>4
  <2>7. Keeps(SubSeq(s, 1, k), s, cut, k)
    BY <1>1, <2>3, <2>4, <2>6 DEF Keeps
  <2> QED
    BY <2>5, <2>7
<1> QED
  BY <1>3, <1>4

\* The mean over a sequence.
LEMMA MeanIs ==
  ASSUME NEW q, NEW k \in Nat \ {0}, q \in Seq(Int), Len(q) = k
  PROVE  meanDuration(q) = SumOver(q, 1..k) \div k
<1>1. q # <<>> /\ DOMAIN q = 1..k
  OBVIOUS
<1> QED
  BY <1>1, SumOfSequence DEF meanDuration

\* LAT-7: trimmedMean is TM(d), for any durations in any order: summing the
\* sorted copy up to the first value above the percentile loses none of those
\* the definition averages.
THEOREM TrimmedMeanIsTM ==
  ASSUME NEW d \in Seq(Int), NEW p \in 1..100
  PROVE  trimmedMean(d, p) = TM(d, p)
<1>0. PICK b : Sorts(b, sortedCopy(d), d)
  BY SortedCopySorts
<1>1. PICK s \in Seq(Int) : s = sortedCopy(d) /\ Sorts(b, s, d) /\ Len(s) = Len(d)
  BY <1>0 DEF Sorts
<1>2. CASE d = <<>>
  <2>1. s = <<>>
    BY <1>1, <1>2
  <2>2. KeptOf(s, percentile(s, p)) = <<>>
    BY <2>1 DEF KeptOf
  <2> QED
    BY <1>1, <1>2, <2>2, TrimmedMeanKeeps DEF meanDuration, TM
<1>3. CASE d # <<>>
  <2>1. PICK n \in Nat \ {0} : n = Len(d)
    BY <1>3
  <2>2. PICK r \in 1..n : percentile(s, p) = s[r]
    BY <1>1, <1>3, <2>1, RankCovers DEF percentile
  <2>3. PICK cut \in Int : cut = s[r]
    BY <1>1, <2>1
  <2>4. NearestRank(d, p, cut)
    BY <1>1, <1>3, <2>2, <2>3, PercentileIsNearestRank
  <2>5. PICK low : low = {i \in 1..n : d[i] <= cut}
    OBVIOUS
  <2>6. TM(d, p) = SumOver(d, low) \div Cardinality(low)
    <3>1. cut \in ToSet(d)
      BY <2>4 DEF NearestRank, ToSet
    <3>2. cut = CHOOSE x \in ToSet(d) : NearestRank(d, p, x)
      BY <2>4, <3>1, NearestRankUnique
    <3> QED
      BY <1>3, <2>1, <2>5, <3>2 DEF TM, SumOver
  <2>q. PICK q : q = KeptOf(s, cut)
    OBVIOUS
  <2>7. PICK k \in 1..n :
          /\ q \in Seq(Int) /\ Len(q) = k
          /\ \A i \in 1..k : q[i] = s[i]
          /\ \A i \in 1..n : s[i] <= cut <=> i <= k
    <3>1. s[r] <= cut /\ r \in 1..Len(s) /\ \A i, j \in 1..Len(s) : i <= j => s[i] <= s[j]
      BY <1>1, <2>1, <2>3 DEF Sorts
    <3>2. \E k : Keeps(KeptOf(s, cut), s, cut, k)
      BY <3>1, KeptFacts
    <3>3. PICK k : Keeps(q, s, cut, k)
      BY <2>q, <3>2
    <3> QED
      BY <1>1, <2>1, <3>3 DEF Keeps
  <2>8. /\ b \in [1..n -> 1..n] /\ \A i, j \in 1..n : b[i] = b[j] => i = j
        /\ b \in Bijection(1..n, 1..n) /\ \A i \in 1..n : \E j \in 1..n : b[j] = i
        /\ \A i \in 1..n : s[i] = d[b[i]]
    BY <1>1, <2>1 DEF Sorts, Bijection, Injection, Surjection, IsInjective
  <2>9. PICK c : c = [i \in 1..k |-> b[i]]
    OBVIOUS
  <2>10. c \in Injection(1..k, 1..n) /\ \A i \in 1..k : q[i] = d[c[i]]
    <3>1. 1..k \subseteq 1..n
      OBVIOUS
    <3>2. \A i \in 1..k : c[i] = b[i] /\ i \in 1..n
      BY <2>9, <3>1
    <3>3. c \in [1..k -> 1..n]
      BY <2>8, <2>9, <3>1
    <3>4. \A i, j \in 1..k : c[i] = c[j] => i = j
      BY <2>8, <3>2
    <3>5. IsInjective(c)
      <4>1. DOMAIN c = 1..k
        BY <3>3
      <4> QED
        BY <3>4, <4>1 DEF IsInjective
    <3>6. \A i \in 1..k : q[i] = s[i] /\ s[i] = d[b[i]]
      BY <2>7, <2>8, <3>2
    <3> QED
      BY <3>2, <3>3, <3>5, <3>6 DEF Injection
  <2>11. Image(c, 1..k) = low /\ From1(b, k) = low
    <3>1. \A i \in 1..k : c[i] = b[i] /\ i \in 1..n /\ i <= k
      BY <2>9
    <3>2. Image(c, 1..k) = From1(b, k)
      BY <3>1 DEF Image, From1
    <3>3. ASSUME NEW i \in 1..k PROVE b[i] \in low
      BY <2>5, <2>7, <2>8, <3>1
    <3>4. ASSUME NEW j \in low PROVE \E i \in 1..k : b[i] = j
      <4>1. PICK i \in 1..n : b[i] = j
        BY <2>5, <2>8
      <4>2. s[i] <= cut
        BY <2>5, <2>8, <4>1
      <4>3. i \in 1..k
        BY <2>7, <4>2
      <4> QED
        BY <4>1, <4>3
    <3> QED
      BY <3>2, <3>3, <3>4 DEF From1
  <2>12. Cardinality(low) = k
    BY <2>7, <2>8, <2>11, PrefixCount
  <2>13. SumOver(q, 1..k) = SumOver(d, low)
    <3>1. IsFiniteSet(1..k) /\ IsFiniteSet(1..n)
      BY UpToCount
    <3>2. Valued(d, 1..n)
      BY <2>1 DEF Valued
    <3>3. SumOver(q, 1..k) = SumOver(d, Image(c, 1..k))
      BY <2>10, <3>1, <3>2, SumSame
    <3> QED
      BY <2>11, <3>3
  <2>14. meanDuration(q) = SumOver(q, 1..k) \div k
    BY <2>7, MeanIs
  <2> QED
    BY <1>1, <2>2, <2>3, <2>6, <2>7, <2>q, <2>12, <2>13, <2>14, TrimmedMeanKeeps
<1> QED
  BY <1>2, <1>3

(***************************************************************************)
(* Samples of several intervals.                                           *)
(***************************************************************************)
\* g is the table of the sequences of s put together up to each place.
Joined(s, g) == g = [i \in 1..Len(s) |-> IF i = 1 THEN s[i] ELSE g[i - 1] \o s[i]]

\* FlattenSeq is looked up in such a table.
LEMMA FlattenIsJoined ==
  ASSUME NEW s, Len(s) # 0
  PROVE  FlattenSeq(s) = (CHOOSE g : Joined(s, g))[Len(s)]
BY DEF FlattenSeq, Joined

\* There is one: the sequences up to each place put together are sequences, and
\* have something in them from the first place on whose sequence does.
LEMMA JoinedExists ==
  ASSUME NEW s, NEW n \in Nat, Len(s) = n
  PROVE  \E g : Joined(s, g)
<1> DEFINE Up(k, g) == g = [i \in 1..k |-> IF i = 1 THEN s[i] ELSE g[i - 1] \o s[i]]
           None == {k \in Nat : ~ \E g : Up(k, g)}
           Longer(g, k) == [i \in 1..(k + 1) |-> IF i <= k THEN g[i] ELSE IF i = 1 THEN s[i] ELSE g[i - 1] \o s[i]]
<1>1. 0 \notin None
  <2>1. Up(0, [i \in 1..0 |-> 0])
    OBVIOUS
  <2> QED
    BY <2>1
<1>2. ASSUME NEW k \in Nat, k \notin None PROVE k + 1 \notin None
  <2>1. PICK g : Up(k, g)
    BY <1>2
  <2>2. PICK h : h = Longer(g, k)
    OBVIOUS
  <2>3. \A i \in 1..k : h[i] = g[i] /\ g[i] = IF i = 1 THEN s[i] ELSE g[i - 1] \o s[i]
    <3>1. \A i \in 1..k : g[i] = IF i = 1 THEN s[i] ELSE g[i - 1] \o s[i]
      BY <2>1
    <3>2. \A i \in 1..k : i \in 1..(k + 1) /\ i <= k
      OBVIOUS
    <3> HIDE DEF Up
    <3> QED
      BY <2>2, <3>1, <3>2
  <2>4. \A i \in 1..(k + 1) : h[i] = IF i = 1 THEN s[i] ELSE h[i - 1] \o s[i]
    <3> SUFFICES ASSUME NEW i \in 1..(k + 1) PROVE h[i] = IF i = 1 THEN s[i] ELSE h[i - 1] \o s[i]
      OBVIOUS
    <3>1. i = 1 \/ i - 1 \in 1..k
      OBVIOUS
    <3>2. CASE i \in 1..k
      BY <2>3, <3>1, <3>2
    <3>3. CASE i = k + 1
      BY <2>2, <2>3, <3>1, <3>3
    <3> QED
      BY <3>2, <3>3
  <2>5. h = [i \in 1..(k + 1) |-> h[i]]
    BY <2>2
  <2>6. Up(k + 1, h)
    BY <2>4, <2>5
  <2> HIDE DEF Up
  <2> QED
    BY <2>6
<1> HIDE DEF None
<1>3. ASSUME None # {} PROVE FALSE
  <2>1. None \in SUBSET Nat
    BY DEF None
  <2>2. PICK k \in None : \A j \in None : k <= j
    BY <1>3, <2>1, LeastNumber
  <2>3. k # 0 /\ k \in Nat
    BY <1>1, <2>1
  <2>4. k - 1 \in Nat /\ k - 1 \notin None /\ k - 1 + 1 = k
    BY <2>2, <2>3, <2>1
  <2> QED
    BY <1>2, <2>4
<1> QED
  BY <1>3 DEF None, Joined

\* The sequences put together make one of their elements, which is empty only
\* if all of them are.
LEMMA FlattenFacts ==
  ASSUME NEW S, NEW s \in Seq(Seq(S))
  PROVE  /\ FlattenSeq(s) \in Seq(S)
         /\ \A i \in 1..Len(s) : s[i] # <<>> => FlattenSeq(s) # <<>>
<1>1. PICK n \in Nat : n = Len(s) /\ \A i \in 1..n : s[i] \in Seq(S)
  OBVIOUS
<1>2. CASE n = 0
  <2>1. s = <<>> /\ Len(s) = 0
    <3>1. PICK T : T = Seq(S)
      OBVIOUS
    <3>2. s \in Seq(T) /\ Len(s) = 0
      BY <1>1, <1>2, <3>1
    <3>3. \A t \in Seq(T) : Len(t) = 0 => t = <<>>
      OBVIOUS
    <3> QED
      BY <3>2, <3>3
  <2>2. FlattenSeq(s) = s
    BY <1>1, <1>2 DEF FlattenSeq
  <2>3. <<>> \in Seq(S) /\ \A i \in 1..Len(s) : FALSE
    BY <2>1
  <2> QED
    BY <2>1, <2>2, <2>3
<1>3. CASE n # 0
  <2>1. PICK g : Joined(s, g) /\ FlattenSeq(s) = g[n]
    BY <1>1, <1>3, FlattenIsJoined, JoinedExists
  <2> DEFINE Good(k) == g[k] \in Seq(S) /\ \A i \in 1..k : s[i] # <<>> => g[k] # <<>>
             Bad == {k \in 1..n : ~ Good(k)}
  <2>2. \A k \in 1..n : g[k] = IF k = 1 THEN s[k] ELSE g[k - 1] \o s[k]
    BY <1>1, <2>1 DEF Joined
  <2>3. ASSUME NEW k \in 1..n, k = 1 \/ Good(k - 1) PROVE Good(k)
    <3>1. CASE k = 1
      <4>1. g[k] = s[k] /\ s[k] \in Seq(S) /\ \A i \in 1..k : i = k
        BY <1>1, <2>2, <3>1
      <4> QED
        BY <4>1
    <3>2. CASE k # 1
      <4>1. PICK a \in Seq(S), z \in Seq(S) : a = g[k - 1] /\ z = s[k] /\ g[k] = a \o z
        BY <1>1, <2>2, <2>3, <3>2
      <4>2. a \o z \in Seq(S) /\ (a # <<>> => a \o z # <<>>) /\ (z # <<>> => a \o z # <<>>)
        OBVIOUS
      <4>3. \A i \in 1..k : i = k \/ i \in 1..(k - 1)
        OBVIOUS
      <4>4. \A i \in 1..(k - 1) : s[i] # <<>> => a # <<>>
        BY <2>3, <3>2, <4>1
      <4> QED
        BY <4>1, <4>2, <4>3, <4>4
    <3> QED
      BY <3>1, <3>2
  <2> HIDE DEF Good
  <2>4. ASSUME Bad # {} PROVE FALSE
    <3>1. Bad \in SUBSET Nat
      BY <1>1
    <3>2. PICK k \in Bad : \A j \in Bad : k <= j
      <4> HIDE DEF Bad
      <4> QED
        BY <2>4, <3>1, LeastNumber
    <3>3. k = 1 \/ (k - 1 \in 1..n /\ ~(k <= k - 1))
      BY <1>1
    <3>4. k = 1 \/ Good(k - 1)
      BY <3>2, <3>3
    <3> QED
      BY <2>3, <3>4
  <2>5. Good(n)
    BY <1>1, <1>3, <2>4
  <2> QED
    BY <1>1, <2>1, <2>5 DEF Good
<1> QED
  BY <1>2, <1>3

(***************************************************************************)
(* What the samples of a phase amount to.                                  *)
(***************************************************************************)
\* Every sample the observations bring is one of F or, on a load flow, of L.
Brings(F, L) == \A o \in Observations : o.foreign \in Seq(F) /\ o.self \in Seq(L)

Windows(F, L) == [foreign : Seq(F), self : Seq(L)]

\* The samples of some intervals are of the same kinds, and there are some if
\* one of the intervals has any.
LEMMA FlattenWindow ==
  ASSUME NEW F, NEW L, Brings(F, L), NEW w \in Seq(SampleSets)
  PROVE  /\ Flatten(w) \in Windows(F, L)
         /\ \A i \in 1..Len(w) : ~ Empty(w[i]) => ~ Empty(Flatten(w))
<1>1. PICK n \in Nat : n = Len(w)
  OBVIOUS
<1>2. \A i \in 1..n : w[i].foreign \in Seq(F) /\ w[i].self \in Seq(L)
  BY <1>1 DEF SampleSets, Brings
<1>3. PICK f, s : f = [i \in 1..n |-> w[i].foreign] /\ s = [i \in 1..n |-> w[i].self]
  OBVIOUS
<1>4. f \in Seq(Seq(F)) /\ Len(f) = n /\ \A i \in 1..n : f[i] = w[i].foreign
  <2>1. PICK T : T = Seq(F)
    OBVIOUS
  <2>2. f \in Seq(T) /\ Len(f) = n
    BY <1>2, <1>3, <2>1
  <2> QED
    BY <1>3, <2>1, <2>2
<1>5. s \in Seq(Seq(L)) /\ Len(s) = n /\ \A i \in 1..n : s[i] = w[i].self
  <2>1. PICK T : T = Seq(L)
    OBVIOUS
  <2>2. s \in Seq(T) /\ Len(s) = n
    BY <1>2, <1>3, <2>1
  <2> QED
    BY <1>3, <2>1, <2>2
<1>6. Flatten(w) = [foreign |-> FlattenSeq(f), self |-> FlattenSeq(s)]
  BY <1>1, <1>3 DEF Flatten
<1>7. FlattenSeq(f) \in Seq(F) /\ \A i \in 1..n : f[i] # <<>> => FlattenSeq(f) # <<>>
  BY <1>4, FlattenFacts
<1>8. FlattenSeq(s) \in Seq(L) /\ \A i \in 1..n : s[i] # <<>> => FlattenSeq(s) # <<>>
  BY <1>5, FlattenFacts
<1>9. PICK a, z : a = FlattenSeq(f) /\ z = FlattenSeq(s)
  OBVIOUS
<1>10. Flatten(w) = [foreign |-> a, self |-> z] /\ a \in Seq(F) /\ z \in Seq(L)
  BY <1>6, <1>7, <1>8, <1>9
<1>11. ASSUME NEW i \in 1..n, ~ Empty(w[i]) PROVE ~ Empty(Flatten(w))
  <2>1. w[i].foreign # <<>> \/ w[i].self # <<>>
    BY <1>11 DEF Empty
  <2>2. a # <<>> \/ z # <<>>
    BY <1>4, <1>5, <1>7, <1>8, <1>9, <2>1
  <2> QED
    BY <1>10, <2>2 DEF Empty
<1> QED
  BY <1>1, <1>10, <1>11 DEF Windows

\* The samples are latency samples.
LEMMA BringsSamples == Brings(LatencySample, LatencySample)
BY SamplesAssumption DEF Brings

\* A trimmed mean over samples is the one by definition.
LEMMA TrimmedMeanOfSamples ==
  ASSUME NEW q \in Seq(LatencySample), NEW p \in 1..100
  PROVE  /\ trimmedMean(durationsOf(q, LAMBDA x : x.Connect), p) = TM(durationsOf(q, LAMBDA x : x.Connect), p)
         /\ trimmedMean(durationsOf(q, LAMBDA x : x.HTTP), p) = TM(durationsOf(q, LAMBDA x : x.HTTP), p)
         /\ trimmedMean(durationsOf(q, TLSPerRTT), p) = TM(durationsOf(q, TLSPerRTT), p)
<1>1. PICK n \in Nat : n = Len(q) /\ \A i \in 1..n : q[i] \in LatencySample
  OBVIOUS
<1>2. \A x \in LatencySample : x.Connect \in Int /\ x.HTTP \in Int /\ TLSPerRTT(x) \in Int
  BY DEF LatencySample, TLSPerRTT
<1>3. durationsOf(q, LAMBDA x : x.Connect) \in Seq(Int)
  BY <1>1, <1>2 DEF durationsOf
<1>4. durationsOf(q, LAMBDA x : x.HTTP) \in Seq(Int)
  BY <1>1, <1>2 DEF durationsOf
<1>5. durationsOf(q, TLSPerRTT) \in Seq(Int)
  BY <1>1, <1>2 DEF durationsOf
<1>6. \A d \in Seq(Int) : trimmedMean(d, p) = TM(d, p)
  BY TrimmedMeanIsTM
<1> QED
  BY <1>3, <1>4, <1>5, <1>6

\* The responsiveness of samples is that of the draft's definition.
LEMMA RPMIsByDefinition ==
  ASSUME FlowInv, NEW w \in Windows(LatencySample, LatencySample)
  PROVE  RPM(w) = RefRPM(w)
<1>1. PICK p \in 1..100 : p = sp.TrimmedMeanPercent
  BY DEF FlowInv, Usable
<1>2. w.foreign \in Seq(LatencySample) /\ w.self \in Seq(LatencySample)
  BY DEF Windows
<1> QED
  BY <1>1, <1>2, TrimmedMeanOfSamples DEF RPM, RefRPM, Responsiveness

(***************************************************************************)
(* What a phase reports.                                                   *)
(***************************************************************************)
\* Some completed interval has samples.
Sampled == \E i \in 1..intervals : ~ Empty(samples[i])

\* The figures are those of the samples used, of which there are some if any
\* interval has one; the window goes back to the last MAD intervals at least.
Reported(F, L) ==
  result # NoResult =>
    /\ result.used \in Windows(F, L)
    /\ result.rpm = RPM(result.used)
    /\ result.Combined = statsOf(Combined(result.used))
    /\ Sampled => ~ Empty(result.used)
    /\ result.from <= AtLeast(intervals - MAD + 1, 1)

\* The last k of n elements.
LEMMA TrailingFacts ==
  ASSUME NEW S, NEW q \in Seq(S), NEW n \in Nat, Len(q) = n, NEW k \in Nat
  PROVE  Trailing(q, k) \in Seq(S) /\ (k = n => Trailing(q, k) = q)
<1>1. PICK a \in 1..n + 1 : a = AtLeast(n - k, 0) + 1 /\ (k = n => a = 1)
  <2>1. AtLeast(n - k, 0) + 1 \in 1..n + 1 /\ (k = n => AtLeast(n - k, 0) + 1 = 1)
    BY DEF AtLeast
  <2> QED
    BY <2>1
<1>a. Trailing(q, k) = SubSeq(q, a, n)
  BY <1>1 DEF Trailing
<1>2. SubSeq(q, a, n) \in Seq(S)
  OBVIOUS
<1>3. ASSUME k = n PROVE SubSeq(q, a, n) = q
  BY <1>1, <1>3
<1> QED
  BY <1>a, <1>2, <1>3

\* The window starts at an interval, or before the first one.
LEMMA WindowStarts ==
  ASSUME TrackInv, StartSound
  PROVE  WindowFrom \in 1..intervals + 1 /\ WindowFrom <= AtLeast(intervals - MAD + 1, 1)
<1>1. PICK n \in Nat, m \in Nat \ {0} : n = intervals /\ m = MAD
  <2>1. intervals \in Nat /\ MAD \in Nat \ {0}
    BY DEF TrackInv, HistoryOK, FlowInv, Usable, StabilityParams, MAD
  <2> QED
    BY <2>1
<1>2. PICK t \in 1..n + 1 : t = AtLeast(intervals - MAD + 1, 1)
  <2>1. AtLeast(n - m + 1, 1) \in 1..n + 1
    BY DEF AtLeast
  <2> QED
    BY <1>1, <2>1
<1>3. WindowFrom = IF goodputStable /\ steadyFrom > 0 /\ steadyFrom < t THEN steadyFrom ELSE t
  BY <1>2 DEF WindowFrom
<1>4. steadyFrom \in 0..n
  BY <1>1 DEF StartSound
<1>5. CASE goodputStable /\ steadyFrom > 0 /\ steadyFrom < t
  <2>1. WindowFrom = steadyFrom
    BY <1>3, <1>5
  <2> QED
    BY <1>1, <1>2, <1>4, <1>5, <2>1
<1>6. CASE ~(goodputStable /\ steadyFrom > 0 /\ steadyFrom < t)
  <2>1. WindowFrom = t
    BY <1>3, <1>6
  <2> QED
    BY <1>1, <1>2, <2>1
<1> QED
  BY <1>5, <1>6

\* The end of a phase reports them.
LEMMA EndReports ==
  ASSUME NEW F, NEW L, Brings(F, L), TrackInv, StartSound, NEW o \in Observations, EndPhase(o)
  PROVE  Reported(F, L)'
<1>1. PICK n \in Nat, k \in Int : n = intervals /\ k = n - WindowFrom + 1 /\ k \in 0..n
  <2>1. intervals \in Nat /\ WindowFrom \in 1..intervals + 1
    BY WindowStarts DEF TrackInv, HistoryOK
  <2> QED
    BY <2>1
<1>2. /\ UNCHANGED <<sp, intervals, samples>> /\ MAD' = MAD
      /\ result' = Summary(o, payload')
  BY DEF EndPhase, MAD
<1>3. PICK q \in Seq(SampleSets) : q = samples /\ q = samples' /\ Len(q) = n
  BY <1>1, <1>2 DEF TrackInv, HistoryOK
<1>4. PICK w \in Windows(F, L) : w = window(k)
  <2>1. Trailing(q, k) \in Seq(SampleSets)
    BY <1>1, <1>3, TrailingFacts
  <2>2. Flatten(Trailing(q, k)) \in Windows(F, L)
    BY <2>1, FlattenWindow
  <2> QED
    BY <1>3, <2>2 DEF window
<1>5. PICK all \in Windows(F, L) : all = window(n) /\ (Sampled => ~ Empty(all))
  <2>1. Trailing(q, n) = q
    BY <1>1, <1>3, TrailingFacts
  <2>2. Flatten(q) \in Windows(F, L) /\ \A i \in 1..n : ~ Empty(q[i]) => ~ Empty(Flatten(q))
    BY <1>3, FlattenWindow
  <2>3. window(n) = Flatten(q)
    BY <1>3, <2>1 DEF window
  <2> QED
    BY <1>1, <1>3, <2>2, <2>3 DEF Sampled
<1>6. PICK f, s : f = all.foreign \o o.foreign /\ s = all.self \o o.self
  OBVIOUS
<1>7. f \in Seq(F) /\ s \in Seq(L) /\ (~ Empty(all) => f # <<>> \/ s # <<>>)
  <2>1. PICK a \in Seq(F), b \in Seq(L), c \in Seq(F), d \in Seq(L) :
          a = all.foreign /\ b = all.self /\ c = o.foreign /\ d = o.self
    BY DEF Windows, Brings
  <2>2. a \o c \in Seq(F) /\ b \o d \in Seq(L) /\ (a # <<>> => a \o c # <<>>) /\ (b # <<>> => b \o d # <<>>)
    OBVIOUS
  <2> QED
    BY <1>6, <2>1, <2>2 DEF Empty
<1>8. PICK used : used = IF Empty(w) THEN [foreign |-> f, self |-> s] ELSE w
  OBVIOUS
<1>9. used \in Windows(F, L) /\ (Sampled => ~ Empty(used))
  <2>1. CASE Empty(w)
    <3>1. used = [foreign |-> f, self |-> s]
      BY <1>8, <2>1
    <3> QED
      BY <1>5, <1>7, <3>1 DEF Windows, Empty
  <2>2. CASE ~ Empty(w)
    BY <1>8, <2>2
  <2> QED
    BY <2>1, <2>2
<1>10. /\ result'.used = used /\ result'.rpm = RPM(used) /\ result'.Combined = statsOf(Combined(used))
       /\ result'.from = IF Empty(w) THEN 1 ELSE WindowFrom
  BY <1>1, <1>2, <1>4, <1>5, <1>6, <1>8 DEF Summary
<1>11. Sampled' <=> Sampled
  BY <1>2 DEF Sampled
<1>12. result'.from <= AtLeast(intervals - MAD + 1, 1)
  <2>1. PICK t \in Nat \ {0} : t = AtLeast(intervals - MAD + 1, 1)
    BY DEF AtLeast, TrackInv, HistoryOK, FlowInv, Usable, StabilityParams, MAD
  <2>2. WindowFrom <= t
    BY <2>1, WindowStarts
  <2> QED
    BY <1>10, <2>1, <2>2
<1>13. RPM(result.used)' = RPM(used)
  BY <1>2, <1>10 DEF RPM
<1> QED
  BY <1>2, <1>9, <1>10, <1>11, <1>12, <1>13 DEF Reported

\* Nothing else changes them.
LEMMA ReportKeeps ==
  ASSUME NEW F, NEW L, Brings(F, L), TrackInv, StartSound, Reported(F, L), [Next]_vars
  PROVE  Reported(F, L)'
<1>1. ASSUME NEW o \in Observations, EndInterval(o) PROVE Reported(F, L)'
  <2>1. result' = NoResult
    BY <1>1 DEF EndInterval
  <2> QED
    BY <2>1 DEF Reported
<1>2. ASSUME UNCHANGED vars PROVE Reported(F, L)'
  BY <1>2 DEF vars, Reported, Sampled, RPM, MAD
<1> QED
  BY <1>1, <1>2, EndReports DEF Next

\* What is reported of latency samples, in every reachable state.
LEMMA ReportInvariance == Spec => [](FlowInv /\ Reported(LatencySample, LatencySample))
<1>1. Init => Reported(LatencySample, LatencySample)
  BY DEF Init, Reported
<1>2. /\ TrackInv /\ StartSound /\ Reported(LatencySample, LatencySample) /\ [Next]_vars
      => Reported(LatencySample, LatencySample)'
  BY BringsSamples, ReportKeeps
<1> QED
  BY <1>1, <1>2, TrackInvariance, PTL DEF Spec, TrackInv

\* LOAD-5 and LAT-7: the rates a phase reports are those of the draft's trimmed
\* means, whatever the number of samples, their values and their order; that
\* trimmedMean stops at the first sorted value above the percentile loses none.
THEOREM RatesAreByDefinition == Spec => []RPMByDefinition
<1>1. FlowInv /\ Reported(LatencySample, LatencySample) => RPMByDefinition
  BY RPMIsByDefinition DEF Reported, RPMByDefinition
<1> QED
  BY <1>1, ReportInvariance, PTL

\* The percentiles of the latencies of samples.
LEMMA PercentilesOfSamples ==
  ASSUME NEW d \in Seq(Int), d # <<>>, NEW p \in Percentiles
  PROVE  IF HasRank(Len(d), p) THEN NearestRank(d, p, statsOf(d).P[p]) ELSE statsOf(d).P[p] = 0
<1>1. PICK n \in Nat \ {0} : n = Len(d)
  OBVIOUS
<1>2. n >= percentileMinSamples(p) <=> HasRank(n, p)
  BY RanksCover
<1>3. statsOf(d).P[p] = IF n >= percentileMinSamples(p) THEN percentile(sortedCopy(d), p) ELSE 0
  BY <1>1 DEF statsOf
<1>4. NearestRank(d, p, percentile(sortedCopy(d), p))
  <2>1. p \in 1..100
    BY DEF Percentiles
  <2> QED
    BY <2>1, PercentileIsNearestRank
<1> QED
  BY <1>1, <1>2, <1>3, <1>4

\* LAT-7 and LAT-8: the percentiles a phase reports are nearest ranks of the
\* samples' latencies, and are there exactly when they are not the maximum by
\* default.
THEOREM PercentilesAreOrderStatistics == Spec => []PercentilesAreRanks
<1>1. ASSUME NEW w \in Windows(LatencySample, LatencySample) PROVE Combined(w) \in Seq(Int)
  <2>1. PICK f \in Seq(LatencySample), s \in Seq(LatencySample) : f = w.foreign /\ s = w.self
    BY DEF Windows
  <2>2. PICK q \in Seq(LatencySample) : q = w.foreign \o w.self
    <3>1. f \o s \in Seq(LatencySample)
      OBVIOUS
    <3> QED
      BY <2>1, <3>1
  <2>3. \A x \in LatencySample : x.HTTP \in Int
    BY DEF LatencySample
  <2>4. durationsOf(q, LAMBDA x : x.HTTP) \in Seq(Int)
    BY <2>3 DEF durationsOf
  <2> QED
    BY <2>2, <2>4 DEF Combined
<1>2. ASSUME Reported(LatencySample, LatencySample) PROVE PercentilesAreRanks
  <2> SUFFICES ASSUME result # NoResult, Combined(result.used) # <<>>, NEW p \in Percentiles
               PROVE  IF HasRank(Len(Combined(result.used)), p)
                      THEN NearestRank(Combined(result.used), p, result.Combined.P[p]) ELSE result.Combined.P[p] = 0
    BY DEF PercentilesAreRanks
  <2>1. PICK d \in Seq(Int) : d = Combined(result.used) /\ result.Combined = statsOf(d)
    BY <1>1, <1>2 DEF Reported
  <2> QED
    BY <2>1, PercentilesOfSamples
<1>3. FlowInv /\ Reported(LatencySample, LatencySample) => PercentilesAreRanks
  BY <1>2
<1> QED
  BY <1>3, ReportInvariance, PTL

\* LOAD-13: at every moment the lower bound is the lowest goodput of the latest
\* sustained window since the last drop, with the responsiveness, by the draft's
\* definition, of that window's samples, and there is one exactly when there is
\* such a window.
THEOREM LowerBoundIsSound == Spec => []LowerBoundSound
<1>1. ASSUME TrackInv, LatestBound PROVE LowerBoundSound
  <2>1. CASE Starts = {}
    BY <1>1, <2>1 DEF LatestBound, LowerBoundSound, Starts
  <2>2. CASE Starts # {}
    <3>1. PICK s \in Starts : (\A t \in Starts : t <= s) /\ lb = BoundOf(s)
      BY <1>1, <2>2 DEF LatestBound
    <3>2. PICK n \in Nat, m \in Nat \ {0} : n = intervals /\ m = MAD
      <4>1. intervals \in Nat /\ MAD \in Nat \ {0}
        BY <1>1 DEF TrackInv, HistoryOK, FlowInv, Usable, StabilityParams, MAD
      <4> QED
        BY <4>1
    <3>3. Starts \subseteq 1..n /\ s \in Nat \ {0} /\ Sustained(s)
      BY <3>2 DEF Starts
    <3>4. s = Max(Starts)
      <4>1. \A x \in Starts : (\A t \in Starts : x >= t) => x = s
        BY <3>1, <3>3
      <4>2. \A t \in Starts : s >= t
        BY <3>1, <3>3
      <4> QED
        BY <3>1, <4>1, <4>2 DEF Max
    <3>5. PICK b \in Nat : b = s + MAD - 1 /\ b <= n /\ s <= b
      <4>1. MeasuredSinceDrop \subseteq 1..n
        BY <1>1, <3>2 DEF TrackInv, HistoryOK, MeasuredSinceDrop, AtLeast
      <4>2. s + m - 1 <= n
        BY <3>2, <3>3, <4>1, StartsWithin
      <4> QED
        BY <3>2, <3>3, <4>2
    <3>6. SubSeq(samples, s, b) \in Seq(SampleSets)
      <4>1. samples \in Seq(SampleSets) /\ Len(samples) = n
        BY <1>1, <3>2 DEF TrackInv, HistoryOK
      <4> QED
        BY <3>3, <3>5, <4>1, Parts
    <3>7. Flatten(SubSeq(samples, s, b)) \in Windows(LatencySample, LatencySample)
      BY <3>6, BringsSamples, FlattenWindow
    <3>8. RPM(Flatten(SubSeq(samples, s, b))) = RefRPM(Flatten(SubSeq(samples, s, b)))
      BY <1>1, <3>7, RPMIsByDefinition DEF TrackInv
    <3>9. /\ lb.start = s /\ lb.bps = Min({goodputs[i] : i \in s..b})
          /\ lb.rpm = RefRPM(Flatten(SubSeq(samples, s, b)))
      BY <3>1, <3>5, <3>8 DEF BoundOf
    <3> QED
      BY <2>2, <3>4, <3>5, <3>9 DEF LowerBoundSound, Starts
  <2> QED
    BY <2>1, <2>2
<1>2. TrackInv /\ LatestBound => LowerBoundSound
  BY <1>1
<1> QED
  BY <1>2, LowerBoundIsLatest, TrackInvariance, PTL

\* A quotient is between the factors that bound its numerator.
LEMMA QuotientBounds ==
  ASSUME NEW s \in Int, NEW c \in Nat \ {0}, NEW l \in Nat, NEW m \in Nat, l * c <= s, s <= m * c
  PROVE  s \div c \in l..m
<1>1. PICK k \in Int, r \in 0..c - 1 : k = s \div c /\ s = c * k + r
  BY SMTT(30)
<1>2. ASSUME k < l PROVE FALSE
  <2>1. PICK e \in Nat : l = k + 1 + e
    <3>1. l - k - 1 \in Nat /\ l = k + 1 + (l - k - 1)
      BY <1>2
    <3> QED
      BY <3>1
  <2>2. l * c = c * k + c + e * c
    BY <2>1
  <2>3. e * c >= 0
    OBVIOUS
  <2> QED
    BY <1>1, <2>2, <2>3
<1>3. ASSUME k > m PROVE FALSE
  <2>1. PICK e \in Nat : k = m + 1 + e
    <3>1. k - m - 1 \in Nat /\ k = m + 1 + (k - m - 1)
      BY <1>3
    <3> QED
      BY <3>1
  <2>2. c * k = m * c + c + e * c
    BY <2>1
  <2>3. e * c >= 0
    OBVIOUS
  <2> QED
    BY <1>1, <2>2, <2>3
<1> QED
  BY <1>1, <1>2, <1>3

\* All of d lies between l and m.
Between(d, l, m) == \A i \in 1..Len(d) : d[i] \in l..m

\* A trimmed mean is a mean of some of the values.
LEMMA TrimmedMeanIsMean ==
  ASSUME NEW d \in Seq(Int), d # <<>>, NEW p \in 1..100
  PROVE  \E low : /\ low \subseteq 1..Len(d) /\ IsFiniteSet(low) /\ Cardinality(low) \in Nat \ {0}
                  /\ Valued(d, low) /\ trimmedMean(d, p) = SumOver(d, low) \div Cardinality(low)
<1>1. PICK n \in Nat \ {0} : n = Len(d)
  OBVIOUS
<1>2. PICK cut : cut = CHOOSE x \in ToSet(d) : NearestRank(d, p, x)
  OBVIOUS
<1>3. cut \in ToSet(d)
  <2>1. PICK x : NearestRank(d, p, x)
    BY PercentileIsNearestRank
  <2>2. x \in ToSet(d)
    BY <2>1 DEF NearestRank, ToSet
  <2> QED
    BY <1>2, <2>1, <2>2
<1>4. PICK low : low = {i \in 1..n : d[i] <= cut}
  OBVIOUS
<1>5. low \in SUBSET (1..n) /\ low # {}
  <2>1. PICK i \in 1..n : d[i] = cut
    BY <1>1, <1>3 DEF ToSet
  <2>2. d[i] \in Int
    BY <1>1
  <2> QED
    BY <1>4, <2>1, <2>2
<1>6. IsFiniteSet(low)
  BY <1>1, <1>5, UpToCount, FS_Subset
<1>7. Cardinality(low) \in Nat \ {0}
  BY <1>5, <1>6, FS_EmptySet, FS_CardinalityType
<1>8. Valued(d, low)
  BY <1>1, <1>5 DEF Valued
<1>9. TM(d, p) = SumOver(d, low) \div Cardinality(low)
  BY <1>1, <1>2, <1>4 DEF TM, SumOver
<1>10. trimmedMean(d, p) = SumOver(d, low) \div Cardinality(low)
  BY <1>9, TrimmedMeanIsTM
<1> QED
  BY <1>1, <1>5, <1>6, <1>7, <1>8, <1>10

\* A trimmed mean is a number, and of no values it is 0.
LEMMA TrimmedMeanInt ==
  ASSUME NEW d \in Seq(Int), NEW p \in 1..100
  PROVE  trimmedMean(d, p) \in Int /\ (d = <<>> => trimmedMean(d, p) = 0)
<1>1. CASE d = <<>>
  <2>1. trimmedMean(d, p) = TM(d, p)
    BY TrimmedMeanIsTM
  <2> QED
    BY <1>1, <2>1 DEF TM
<1>2. CASE d # <<>>
  <2>1. PICK low : /\ IsFiniteSet(low) /\ Cardinality(low) \in Nat \ {0}
                   /\ Valued(d, low) /\ trimmedMean(d, p) = SumOver(d, low) \div Cardinality(low)
    BY <1>2, TrimmedMeanIsMean
  <2>2. SumOver(d, low) \in Int
    BY <2>1, SumInt
  <2> QED
    BY <1>2, <2>1, <2>2
<1> QED
  BY <1>1, <1>2

\* A trimmed mean lies between the values it is of.
LEMMA TrimmedMeanBetween ==
  ASSUME NEW d \in Seq(Int), d # <<>>, NEW p \in 1..100, NEW l \in Nat, NEW m \in Nat, Between(d, l, m)
  PROVE  trimmedMean(d, p) \in l..m
<1>1. PICK low : /\ low \subseteq 1..Len(d) /\ IsFiniteSet(low) /\ Cardinality(low) \in Nat \ {0}
                 /\ Valued(d, low) /\ trimmedMean(d, p) = SumOver(d, low) \div Cardinality(low)
  BY TrimmedMeanIsMean
<1>2. PICK c \in Nat \ {0} : c = Cardinality(low)
  BY <1>1
<1>3. PICK s \in Int : s = SumOver(d, low)
  BY <1>1, SumInt
<1>4. \A x \in low : d[x] \in l..m
  BY <1>1 DEF Between
<1>5. l * c <= s /\ s <= m * c
  BY <1>1, <1>2, <1>3, <1>4, SumBounds
<1> QED
  BY <1>1, <1>2, <1>3, <1>5, QuotientBounds

(***************************************************************************)
(* What the clock gives: every round trip on the network takes time, and   *)
(* none takes longer than a minute, the longest whose rate is not zero     *)
(* when rates are whole numbers.                                           *)
(***************************************************************************)
FreshSamples ==
  {x \in LatencySample : x.Connect \in 1..Minute /\ TLSPerRTT(x) \in 0..Minute /\ x.HTTP \in 1..Minute}
FlowSamples == {x \in LatencySample : x.HTTP \in 1..Minute}

\* A rate of round trips within a minute.
LEMMA RateIsPositive ==
  ASSUME NEW rtt \in 1..Minute
  PROVE  rpm(rtt) \in Nat \ {0}
<1>1. PICK k \in Int : k = Minute \div rtt
  BY MinuteAssumption
<1>2. k >= 1
  BY <1>1, MinuteAssumption
<1> QED
  BY <1>1, <1>2 DEF rpm

\* The responsiveness of such samples, of either kind or of both.
LEMMA ResponsivenessIsPositive ==
  ASSUME FlowInv, NEW w \in Windows(FreshSamples, FlowSamples), ~ Empty(w)
  PROVE  RPM(w) > 0
<1>1. PICK p \in 1..100 : p = sp.TrimmedMeanPercent
  BY DEF FlowInv, Usable
<1>2. PICK f \in Seq(FreshSamples), s \in Seq(FlowSamples) : f = w.foreign /\ s = w.self /\ (f # <<>> \/ s # <<>>)
  BY DEF Windows, Empty
<1>3. PICK tcp, tls, http, own :
        /\ tcp = trimmedMean(durationsOf(f, LAMBDA x : x.Connect), p)
        /\ tls = trimmedMean(durationsOf(f, TLSPerRTT), p)
        /\ http = trimmedMean(durationsOf(f, LAMBDA x : x.HTTP), p)
        /\ own = trimmedMean(durationsOf(s, LAMBDA x : x.HTTP), p)
  OBVIOUS
<1>4. RPM(w) = totalRPM(rpm(foreignRTT(tcp, tls, http)), rpm(own))
  BY <1>1, <1>2, <1>3 DEF RPM, Responsiveness
<1>5. Minute \in Nat \ {0}
  BY MinuteAssumption
<1>6. trimmedMean(<<>>, p) = 0
  <2>1. <<>> \in Seq(Int)
    OBVIOUS
  <2> QED
    BY <2>1, TrimmedMeanInt
<1>7. ASSUME f # <<>> PROVE rpm(foreignRTT(tcp, tls, http)) \in Nat \ {0}
  <2>1. PICK n \in Nat \ {0} : n = Len(f) /\ \A i \in 1..n : f[i] \in FreshSamples
    BY <1>7
  <2>2. tcp \in 1..Minute
    <3>1. PICK d : d = durationsOf(f, LAMBDA x : x.Connect)
      OBVIOUS
    <3>2. d \in Seq(Int) /\ d # <<>> /\ Between(d, 1, Minute)
      BY <2>1, <3>1 DEF durationsOf, Between, FreshSamples
    <3> QED
      BY <1>3, <1>5, <3>1, <3>2, TrimmedMeanBetween
  <2>3. tls \in 0..Minute
    <3>1. PICK d : d = durationsOf(f, TLSPerRTT)
      OBVIOUS
    <3>2. d = [i \in 1..n |-> TLSPerRTT(f[i])]
      BY <2>1, <3>1 DEF durationsOf
    <3>3. \A i \in 1..n : TLSPerRTT(f[i]) \in 0..Minute
      BY <2>1 DEF FreshSamples
    <3>4. d \in Seq(Int) /\ d # <<>> /\ Between(d, 0, Minute)
      BY <3>2, <3>3 DEF Between
    <3> QED
      BY <1>3, <1>5, <3>1, <3>4, TrimmedMeanBetween
  <2>4. http \in 1..Minute
    <3>1. PICK d : d = durationsOf(f, LAMBDA x : x.HTTP)
      OBVIOUS
    <3>2. d \in Seq(Int) /\ d # <<>> /\ Between(d, 1, Minute)
      BY <2>1, <3>1 DEF durationsOf, Between, FreshSamples
    <3> QED
      BY <1>3, <1>5, <3>1, <3>2, TrimmedMeanBetween
  <2>5. foreignRTT(tcp, tls, http) \in 1..Minute
    BY <1>5, <2>2, <2>3, <2>4 DEF foreignRTT
  <2> QED
    BY <2>5, RateIsPositive
<1>8. ASSUME f = <<>> PROVE rpm(foreignRTT(tcp, tls, http)) = 0
  <2>1. /\ durationsOf(f, LAMBDA x : x.Connect) = <<>> /\ durationsOf(f, TLSPerRTT) = <<>>
        /\ durationsOf(f, LAMBDA x : x.HTTP) = <<>>
    BY <1>8 DEF durationsOf
  <2>2. tcp = 0 /\ tls = 0 /\ http = 0
    BY <1>3, <1>6, <2>1
  <2> QED
    BY <2>2 DEF rpm, foreignRTT
<1>9. ASSUME s # <<>> PROVE rpm(own) \in Nat \ {0}
  <2>1. PICK n \in Nat \ {0} : n = Len(s) /\ \A i \in 1..n : s[i] \in FlowSamples
    BY <1>9
  <2>2. PICK d : d = durationsOf(s, LAMBDA x : x.HTTP)
    OBVIOUS
  <2>3. d \in Seq(Int) /\ d # <<>> /\ Between(d, 1, Minute)
    BY <2>1, <2>2 DEF durationsOf, Between, FlowSamples
  <2>4. own \in 1..Minute
    BY <1>3, <1>5, <2>2, <2>3, TrimmedMeanBetween
  <2> QED
    BY <2>4, RateIsPositive
<1>10. ASSUME s = <<>> PROVE rpm(own) = 0
  <2>1. durationsOf(s, LAMBDA x : x.HTTP) = <<>>
    BY <1>10 DEF durationsOf
  <2>2. own = 0
    BY <1>3, <1>6, <2>1
  <2> QED
    BY <2>2 DEF rpm
<1>11. PICK fr \in Nat, sr \in Nat :
         fr = rpm(foreignRTT(tcp, tls, http)) /\ sr = rpm(own) /\ (fr > 0 \/ sr > 0)
  BY <1>2, <1>7, <1>8, <1>9, <1>10
<1>12. totalRPM(fr, sr) > 0
  BY <1>11 DEF totalRPM
<1> QED
  BY <1>4, <1>11, <1>12

(***************************************************************************)
(* LOAD-14 and INV-3: a phase that has seen one sample in a completed      *)
(* interval reports responsiveness, from no fewer than the last MAD        *)
(* intervals: the window falls back to all samples when it has none, and   *)
(* one missing series leaves the other as the total.                       *)
(***************************************************************************)
THEOREM SummaryIsGrounded == Brings(FreshSamples, FlowSamples) => (Spec => []SummaryUsesSamples)
<1> SUFFICES ASSUME Brings(FreshSamples, FlowSamples) PROVE Spec => []SummaryUsesSamples
  OBVIOUS
<1>1. Init => Reported(FreshSamples, FlowSamples)
  BY DEF Init, Reported
<1>2. /\ TrackInv /\ StartSound /\ Reported(FreshSamples, FlowSamples) /\ [Next]_vars
      => Reported(FreshSamples, FlowSamples)'
  BY ReportKeeps
<1>3. FlowInv /\ Reported(FreshSamples, FlowSamples) => SummaryUsesSamples
  <2> SUFFICES ASSUME FlowInv, Reported(FreshSamples, FlowSamples), result # NoResult
               PROVE  /\ Sampled => result.rpm > 0
                      /\ result.from <= AtLeast(intervals - MAD + 1, 1)
    BY DEF SummaryUsesSamples, Sampled, Empty
  <2> QED
    BY ResponsivenessIsPositive DEF Reported
<1> QED
  BY <1>1, <1>2, <1>3, TrackInvariance, PTL DEF Spec, TrackInv

(***************************************************************************)
(* Types.                                                                  *)
(***************************************************************************)
\* The variables no invariant above bounds.
OthersOK ==
  /\ intervals <= MaxIntervals /\ rp \in Seq(Nat) /\ peak \in Nat
  /\ addedInto \in Nat /\ awaitGain \in BOOLEAN /\ beforeAdd \in Nat
  /\ rampDone \in BOOLEAN /\ drainCredit \in Nat
  /\ stopped \in BOOLEAN /\ payload \in Nat /\ drain \in BOOLEAN

\* The responsiveness of samples is a natural number.
LEMMA RPMInNat ==
  ASSUME FlowInv, NEW w \in Windows(LatencySample, LatencySample)
  PROVE  RPM(w) \in Nat
<1>1. PICK p \in 1..100 : p = sp.TrimmedMeanPercent
  BY DEF FlowInv, Usable
<1>2. PICK f \in Seq(LatencySample), s \in Seq(LatencySample) : f = w.foreign /\ s = w.self
  BY DEF Windows
<1>3. PICK d1, d2, d3, d4 :
        /\ d1 = durationsOf(f, LAMBDA x : x.Connect) /\ d2 = durationsOf(f, TLSPerRTT)
        /\ d3 = durationsOf(f, LAMBDA x : x.HTTP) /\ d4 = durationsOf(s, LAMBDA x : x.HTTP)
  OBVIOUS
<1>4. d1 \in Seq(Int) /\ d2 \in Seq(Int) /\ d3 \in Seq(Int) /\ d4 \in Seq(Int)
  <2>1. \A x \in LatencySample : x.Connect \in Int /\ x.HTTP \in Int /\ TLSPerRTT(x) \in Int
    BY DEF LatencySample, TLSPerRTT
  <2>2. d1 \in Seq(Int) /\ d2 \in Seq(Int)
    BY <1>3, <2>1 DEF durationsOf
  <2>3. d3 \in Seq(Int) /\ d4 \in Seq(Int)
    BY <1>3, <2>1 DEF durationsOf
  <2> QED
    BY <2>2, <2>3
<1>5. PICK tcp \in Int, tls \in Int, http \in Int, own \in Int :
        /\ tcp = trimmedMean(d1, p) /\ tls = trimmedMean(d2, p)
        /\ http = trimmedMean(d3, p) /\ own = trimmedMean(d4, p)
  BY <1>4, TrimmedMeanInt
<1>6. RPM(w) = totalRPM(rpm(foreignRTT(tcp, tls, http)), rpm(own))
  BY <1>1, <1>2, <1>3, <1>5 DEF RPM, Responsiveness
<1>7. foreignRTT(tcp, tls, http) \in Int
  BY DEF foreignRTT
<1>8. \A rtt \in Int : rpm(rtt) \in Nat
  BY MinuteAssumption DEF rpm
<1>9. PICK fr \in Nat, sr \in Nat : fr = rpm(foreignRTT(tcp, tls, http)) /\ sr = rpm(own)
  BY <1>7, <1>8
<1>10. totalRPM(fr, sr) \in Nat
  BY DEF totalRPM
<1> QED
  BY <1>6, <1>9, <1>10

\* A responsiveness figure, where there is one, is a natural number.
LEMMA RespondKeeps ==
  ASSUME TrackInv, rp \in Seq(Nat), NEW o \in Observations, EndInterval(o)
  PROVE  rp' \in Seq(Nat)
<1>1. PICK m \in Nat : m = MAD
  BY DEF TrackInv, FlowInv, Usable, StabilityParams, MAD
<1>2. PICK q \in Seq(SampleSets), n \in Nat : q = samples' /\ Len(q) = n
  BY HistoryKeeps DEF HistoryOK
<1>3. PICK w \in Windows(LatencySample, LatencySample) : w = window(m)
  <2>1. Trailing(q, m) \in Seq(SampleSets)
    BY <1>2, TrailingFacts
  <2>2. Flatten(Trailing(q, m)) \in Windows(LatencySample, LatencySample)
    BY <2>1, BringsSamples, FlattenWindow
  <2> QED
    BY <1>2, <2>2 DEF window
<1>4. PICK cur \in Nat : cur = RPM(window(MAD))
  BY <1>1, <1>3, RPMInNat DEF TrackInv
<1>5. rp' = rp \/ rp' = Append(rp, cur)
  <2>1. Respond
    BY DEF EndInterval
  <2> QED
    BY <1>4, <2>1 DEF Respond
<1> QED
  BY <1>5

\* The ramp, in any interval.
LEMMA RampKeeps ==
  ASSUME TrackInv, OthersOK, NEW o \in Observations, EndInterval(o)
  PROVE  addedInto' \in Nat /\ awaitGain' \in BOOLEAN /\ beforeAdd' \in Nat /\ rampDone' \in BOOLEAN /\ drainCredit' \in Nat
<1>1. CASE Converged
  BY <1>1 DEF EndInterval, Converge, OthersOK
<1>2. CASE ~Converged
  <2>1. Ramp(o)
    BY <1>2 DEF EndInterval
  <2>2. PICK g \in Nat : g = Goodput(o)
    BY GoodputFacts DEF TrackInv
  <2>3. PICK b \in Nat : b = sp.SendBufferBytes
    BY DEF TrackInv, FlowInv, Usable, StabilityParams
  <2>4. PICK over \in BOOLEAN, add \in BOOLEAN :
          /\ over <=> (rampDone \/ flows >= maxFlows)
          /\ add <=> (Decides(o) /\ ~over /\ ~NoGain(g))
    OBVIOUS
  <2>5. /\ awaitGain' \in BOOLEAN /\ rampDone' \in BOOLEAN
        /\ addedInto' = IF add THEN Add ELSE 0
        /\ beforeAdd' = IF add THEN g ELSE beforeAdd
        /\ drainCredit' = IF add THEN Add * b ELSE 0
    BY <2>1, <2>2, <2>3, <2>4 DEF Ramp
  <2>6. ASSUME add PROVE Add \in Nat
    <3>1. flows < maxFlows
      BY <2>4, <2>6 DEF TrackInv, FlowInv
    <3> QED
      BY <3>1, AddFacts DEF TrackInv
  <2>7. ASSUME add PROVE Add * b \in Nat
    <3>1. PICK a \in Nat : a = Add
      BY <2>6, <2>7
    <3>2. a * b \in Nat
      OBVIOUS
    <3> QED
      BY <3>1, <3>2
  <2> QED
    BY <2>2, <2>5, <2>6, <2>7 DEF OthersOK
<1> QED
  BY <1>1, <1>2

\* Everything else an interval changes.
LEMMA OthersKeep ==
  ASSUME TrackInv, OthersOK, [Next]_vars
  PROVE  OthersOK'
<1>1. ASSUME NEW o \in Observations, EndInterval(o) PROVE OthersOK'
  <2>1. intervals' <= MaxIntervals
    BY <1>1, EngineAssumption DEF EndInterval, TrackInv, HistoryOK
  <2>2. rp' \in Seq(Nat)
    BY <1>1, RespondKeeps DEF OthersOK
  <2>3. peak' \in Nat
    <3>1. peak' = peak \/ peak' = AtLeast(peak, Goodput(o))
      BY <1>1 DEF EndInterval, Measure
    <3>2. Goodput(o) \in Nat
      BY GoodputFacts DEF TrackInv
    <3> QED
      BY <3>1, <3>2 DEF OthersOK, AtLeast
  <2>4. stopped' \in BOOLEAN
    BY <1>1 DEF EndInterval, Converged
  <2>5. drain' \in BOOLEAN
    BY <1>1 DEF EndInterval, Drains
  <2>6. payload' \in Nat
    BY <1>1, EngineAssumption DEF EndInterval, OthersOK
  <2> QED
    BY <1>1, <2>1, <2>2, <2>3, <2>4, <2>5, <2>6, RampKeeps DEF OthersOK
<1>2. ASSUME NEW o \in Observations, EndPhase(o) PROVE OthersOK'
  <2>1. payload' \in Nat
    BY <1>2, EngineAssumption DEF EndPhase, OthersOK
  <2> QED
    BY <1>2, <2>1 DEF EndPhase, ramp, OthersOK
<1>3. ASSUME UNCHANGED vars PROVE OthersOK'
  BY <1>3 DEF vars, ramp, OthersOK
<1> QED
  BY <1>1, <1>2, <1>3 DEF Next

\* The bound of a sustained window is made of numbers.
LEMMA BoundTypes ==
  ASSUME TrackInv, LatestBound, intervals <= MaxIntervals
  PROVE  lb \in [bps : Nat, start : 0..MaxIntervals, rpm : Nat]
<1>0. MaxIntervals \in Nat
  BY EngineAssumption
<1>1. CASE Starts = {}
  BY <1>0, <1>1 DEF LatestBound, NoBound
<1>2. CASE Starts # {}
  <2>1. PICK s \in Starts : lb = BoundOf(s)
    BY <1>2 DEF LatestBound
  <2>2. PICK n \in Nat, m \in Nat \ {0} : n = intervals /\ m = MAD
    <3>1. intervals \in Nat /\ MAD \in Nat \ {0}
      BY DEF TrackInv, HistoryOK, FlowInv, Usable, StabilityParams, MAD
    <3> QED
      BY <3>1
  <2>3. s \in 1..n /\ Sustained(s)
    BY <2>2 DEF Starts
  <2>4. PICK b \in Nat : b = s + MAD - 1 /\ b <= n /\ s <= b
    <3>1. MeasuredSinceDrop \subseteq 1..n
      BY <2>2 DEF TrackInv, HistoryOK, MeasuredSinceDrop, AtLeast
    <3>2. s + m - 1 <= n
      BY <2>2, <2>3, <3>1, StartsWithin
    <3> QED
      BY <2>2, <2>3, <3>2
  <2>5. lb.bps \in Nat
    <3>1. PICK T : T = {goodputs[i] : i \in s..b}
      OBVIOUS
    <3>2. s..b \subseteq MeasuredSinceDrop
      BY <2>3, <2>4 DEF Sustained
    <3>3. \A i \in s..b : goodputs[i] \in Nat \cup {Drained} /\ goodputs[i] # Drained
      BY <2>2, <2>3, <2>4, <3>2 DEF TrackInv, HistoryOK, MeasuredSinceDrop
    <3>4. T \in SUBSET Nat /\ T # {}
      BY <2>3, <2>4, <3>1, <3>3
    <3>5. Min(T) \in Nat
      BY <3>4, MinFacts
    <3> QED
      BY <2>1, <2>4, <3>1, <3>5 DEF BoundOf
  <2>6. lb.rpm \in Nat
    <3>1. samples \in Seq(SampleSets) /\ Len(samples) = n
      BY <2>2 DEF TrackInv, HistoryOK
    <3>2. SubSeq(samples, s, b) \in Seq(SampleSets)
      BY <2>3, <2>4, <3>1, Parts
    <3>3. Flatten(SubSeq(samples, s, b)) \in Windows(LatencySample, LatencySample)
      BY <3>2, BringsSamples, FlattenWindow
    <3>4. RPM(Flatten(SubSeq(samples, s, b))) \in Nat
      BY <3>3, RPMInNat DEF TrackInv
    <3> QED
      BY <2>1, <2>4, <3>4 DEF BoundOf
  <2>7. s \in 0..MaxIntervals
    BY <1>0, <2>2, <2>3
  <2>8. lb = [bps |-> lb.bps, start |-> s, rpm |-> lb.rpm]
    BY <2>1 DEF BoundOf
  <2> QED
    BY <2>5, <2>6, <2>7, <2>8
<1> QED
  BY <1>1, <1>2

(***************************************************************************)
(* Type correctness of the engine: numbers stay numbers through the ramp,  *)
(* the tracker and the trimmed means, and the bound and the window point   *)
(* at intervals of the phase.                                              *)
(***************************************************************************)
THEOREM EngineTypes == Spec => []TypeOK
<1>1. ASSUME Init PROVE OthersOK
  <2>1. PICK n \in Nat : n = AtMost(sp.InitialFlows, maxFlows)
    BY <1>1, PhaseParamsFacts DEF Init, AtMost, Usable, StabilityParams
  <2>2. PICK b \in Nat : b = sp.SendBufferBytes
    BY <1>1, PhaseParamsFacts DEF Init, Usable, StabilityParams
  <2>3. n * b \in Nat
    OBVIOUS
  <2>4. addedInto = n /\ drainCredit = n * b
    BY <1>1, <2>1, <2>2 DEF Init, InitialFlows
  <2>5. /\ awaitGain \in BOOLEAN /\ rampDone \in BOOLEAN /\ stopped \in BOOLEAN /\ drain \in BOOLEAN
        /\ beforeAdd = 0 /\ peak = 0 /\ payload = 0 /\ intervals = 0 /\ rp = <<>>
    BY <1>1 DEF Init
  <2>6. rp \in Seq(Nat) /\ intervals <= MaxIntervals
    BY <2>5, EngineAssumption
  <2> QED
    BY <2>3, <2>4, <2>5, <2>6 DEF OthersOK
<1>2. ASSUME TrackInv, StartSound, LatestBound, OthersOK PROVE TypeOK
  <2>1. lb \in [bps : Nat, start : 0..MaxIntervals, rpm : Nat]
    BY <1>2, BoundTypes DEF OthersOK
  <2>2. PICK n \in Nat : n = intervals /\ n <= MaxIntervals /\ MaxIntervals \in Nat
    BY <1>2, EngineAssumption DEF TrackInv, HistoryOK, OthersOK
  <2>3. holdIdx \in Seq(1..MaxIntervals) /\ Len(holdIdx) = Len(raw)
    <3>1. MeasuredSinceDrop \subseteq 1..MaxIntervals
      BY <1>2, <2>2 DEF TrackInv, HistoryOK, MeasuredSinceDrop, AtLeast
    <3>2. \A i \in 1..Len(holdIdx) : holdIdx[i] \in 1..MaxIntervals
      BY <1>2, <3>1 DEF TrackInv, HoldSound
    <3>3. holdIdx \in Seq(Nat) /\ Len(holdIdx) = Len(raw)
      BY <1>2 DEF TrackInv, HistoryOK
    <3>4. \A S : \A h \in Seq(Nat) : (\A i \in 1..Len(h) : h[i] \in S) => h \in Seq(S)
      OBVIOUS
    <3> QED
      BY <3>2, <3>3, <3>4
  <2>4. steadyFrom \in 0..MaxIntervals /\ lastDrop \in 0..MaxIntervals /\ intervals \in 0..MaxIntervals
    BY <1>2, <2>2 DEF TrackInv, HistoryOK, StartSound
  <2> QED
    BY <1>2, <2>1, <2>3, <2>4 DEF TypeOK, TrackInv, FlowInv, HistoryOK, StartSound, OthersOK
<1>3. Init => OthersOK
  BY <1>1
<1>4. TrackInv /\ OthersOK /\ [Next]_vars => OthersOK'
  BY OthersKeep
<1>5. TrackInv /\ StartSound /\ LatestBound /\ OthersOK => TypeOK
  BY <1>2
<1> QED
  BY <1>3, <1>4, <1>5, TrackInvariance, LowerBoundIsLatest, PTL DEF Spec
=============================================================================
