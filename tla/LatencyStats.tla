---------------------------- MODULE LatencyStats ----------------------------
(***************************************************************************)
(* Latency statistics and responsiveness (internal/engine/stats.go) as     *)
(* operators on sequences of samples.  Durations are numbers of clock      *)
(* units; a conversion back to a duration truncates.  Minute, the          *)
(* numerator of a rate in round trips per minute, is a common multiple of  *)
(* the round trips, so that rates are exact.                               *)
(***************************************************************************)
EXTENDS Integers, Sequences, FiniteSets, SequencesExt, FiniteSetsExt

CONSTANT Minute
ASSUME MinuteAssumption == Minute \in Nat \ {0}

\* The struct of the same name.
LatencySample ==
  [Total : Int, DNS : Int, Connect : Int, TLS : Int, TLSRTTs : Int, TTFB : Int, HTTP : Int, Staged : BOOLEAN]

Percentiles == {80, 90, 95, 99}

Sum(s) == FoldSeq(LAMBDA x, y : x + y, 0, s)
AtMost(x, y) == IF x < y THEN x ELSE y
AtLeast(x, y) == IF x > y THEN x ELSE y

\* LatencySample.TLSPerRTT
TLSPerRTT(x) == IF x.TLSRTTs <= 0 THEN 0 ELSE x.TLS \div x.TLSRTTs

durationsOf(samples, f(_)) == [i \in 1..Len(samples) |-> f(samples[i])]
unsortedCopy(d) == d

\* Where sorting puts the i-th value; equal values cannot be told apart.
position(d, i) == Cardinality({j \in 1..Len(d) : d[j] < d[i] \/ (d[j] = d[i] /\ j <= i)})
sortedCopy(d) ==
  LET c == <<>> \o d IN [k \in 1..Len(c) |-> c[CHOOSE i \in 1..Len(c) : position(c, i) = k]]

\* The nearest rank, from 1.
rank(n, p) == AtMost(AtLeast((p * n + 99) \div 100, 1), n)
percentile(sorted, p) == IF sorted = <<>> THEN 0 ELSE sorted[rank(Len(sorted), p)]

meanDuration(d) == IF d = <<>> THEN 0 ELSE Sum(d) \div Len(d)

medianDuration(sorted) ==
  LET n == Len(sorted) IN
  IF n = 0 THEN 0
  ELSE IF n % 2 = 1 THEN sorted[(n + 1) \div 2]
  ELSE (sorted[n \div 2] + sorted[(n \div 2) + 1]) \div 2

\* The mean of what is at or below the percentile: a prefix of the sorted data.
trimmedMean(d, p) ==
  LET sorted == sortedCopy(d)
      kept == SelectInSeq(sorted, LAMBDA v : v > percentile(sorted, p))
  IN meanDuration(IF kept = 0 THEN sorted ELSE SubSeq(sorted, 1, kept - 1))

(***************************************************************************)
(* LatencyStats: 0 in a percentile's field means there are too few samples.*)
(***************************************************************************)
percentileMinSamplesShort(p) == CASE p = 80 -> 4 [] p = 90 -> 10 [] p = 95 -> 20 [] p = 99 -> 100
percentileMinSamples(p) == CASE p = 80 -> 5 [] p = 90 -> 10 [] p = 95 -> 20 [] p = 99 -> 100

NoStats == [Samples |-> 0]
statsOf(d) ==
  LET sorted == sortedCopy(d)
      n == Len(d)
      mean == meanDuration(d)
  IN IF d = <<>> THEN NoStats ELSE
     [Samples |-> n, Min |-> sorted[1], Median |-> medianDuration(sorted), Mean |-> mean, Max |-> sorted[n],
      P |-> [p \in Percentiles |-> IF n >= percentileMinSamples(p) THEN percentile(sorted, p) ELSE 0],
      Jitter |-> meanDuration([i \in 1..n |-> AtLeast(d[i] - mean, mean - d[i])])]

\* The medians of the stages, over the samples of fresh connections.
ComputeStages(samples) ==
  LET staged == SelectSeq(samples, LAMBDA x : x.Staged)
      med(f(_)) == medianDuration(sortedCopy(durationsOf(staged, f)))
  IN [DNS |-> med(LAMBDA x : x.DNS), Connect |-> med(LAMBDA x : x.Connect),
      TLS |-> med(LAMBDA x : x.TLS), TLSPerRTT |-> med(TLSPerRTT), TTFB |-> med(LAMBDA x : x.TTFB)]

ComputeLatencyStats(samples) == statsOf(durationsOf(samples, LAMBDA x : x.Total))

(***************************************************************************)
(* Responsiveness: the draft's round trips per minute.                     *)
(***************************************************************************)
rpm(rtt) == IF rtt <= 0 THEN 0 ELSE Minute \div rtt

foreignRTT(tcp, tls, http) == IF tls > 0 THEN (tcp + tls + http) \div 3 ELSE (tcp + http) \div 2

\* With one series missing, or without a rate, the other is the total.
totalRPM(f, s) ==
  IF f > 0 /\ s > 0 THEN (f + s) \div 2 ELSE IF f > 0 THEN f ELSE s

Responsiveness(foreign, self, tmp) ==
  LET tm(samples, f(_)) == trimmedMean(durationsOf(samples, f), tmp)
      HTTP(x) == x.HTTP
      tls == tm(foreign, TLSPerRTT)
      frpm == rpm(foreignRTT(tm(foreign, LAMBDA x : x.Connect), tls, tm(foreign, HTTP)))
      srpm == rpm(tm(self, HTTP))
  IN [total |-> totalRPM(frpm, srpm), foreign |-> frpm, self |-> srpm]
-----------------------------------------------------------------------------
(***************************************************************************)
(* Reference definitions, without sorting.                                 *)
(***************************************************************************)
\* x is the nearest-rank p-th percentile of d: the least value that p percent
\* of d do not exceed.
NearestRank(d, p, x) ==
  LET n == Len(d) IN
  /\ \E i \in 1..n : d[i] = x
  /\ 100 * Cardinality({i \in 1..n : d[i] <= x}) >= p * n
  /\ 100 * Cardinality({i \in 1..n : d[i] < x}) < p * n

\* Some rank below the last covers p percent, so that the percentile is an
\* order statistic and not the maximum by default.
HasRank(n, p) == \E r \in 1..(n - 1) : 100 * r >= p * n

\* The draft's TM(d): the mean of the values up to the p-th percentile.
TM(d, p) ==
  LET cut == CHOOSE x \in ToSet(d) : NearestRank(d, p, x)
      low == {i \in 1..Len(d) : d[i] <= cut}
  IN IF d = <<>> THEN 0 ELSE MapThenSumSet(LAMBDA i : d[i], low) \div Cardinality(low)
=============================================================================
