----------------------------- MODULE DataHealth -----------------------------
(***************************************************************************)
(* The data health check (tools/data_health_check.py), from which the      *)
(* grids of the settings are chosen: how often a day's quotes cross a      *)
(* threshold, which threshold a number of signals takes, and how many      *)
(* messages come in a burst.  Ratios are fractions, compared exactly; the  *)
(* code compares floats.  The arrays of the code count from 0 and begin    *)
(* with the first warmed-up row; so do the sequences here, from 1.         *)
(***************************************************************************)
EXTENDS EodStrategies, SequencesExt, FiniteSets

Magnitude(n) == IF n < 0 THEN -n ELSE n
AtLeast(a, b) == a.num * b.den >= b.num * a.den
CountAtLeast(ratios, thresh) ==
  Cardinality({i \in DOMAIN ratios : AtLeast(ratios[i], thresh)})

\* |mid[lookback:] - mid[:-lookback]| / mid[lookback:]
MomentumRatio(mids, lookback) ==
  [i \in 1 .. Len(mids) - lookback |->
     [num |-> Magnitude(mids[i + lookback] - mids[i]), den |-> mids[i + lookback]]]

\* A zero before the running sums.
PrefixSums(mids) == [i \in 1 .. Len(mids) + 1 |-> SumFunctionOnSet(mids, 1 .. i - 1)]

\* Variant: the window ends with the current tick.
MeanReversionDeviationNow(mids, window) ==
  LET prefix == PrefixSums(mids)
  IN  [i \in 1 .. Len(mids) - window |->
         LET sum == prefix[i + window + 1] - prefix[i + 1]
         IN  [num |-> Magnitude(mids[i + window] * window - sum), den |-> sum]]
\* |mid - average| / average over the window before the tick, as a difference
\* of prefix sums: prefix[window:-1] - prefix[:-window - 1].
MeanReversionDeviation(mids, window) ==
  LET prefix == PrefixSums(mids)
  IN  [i \in 1 .. Len(mids) - window |->
         LET sum == prefix[i + window] - prefix[i]
         IN  [num |-> Magnitude(mids[i + window] * window - sum), den |-> sum]]

\* np.partition(ratios, index)[index]: no more than index rows are below it, and
\* with those that equal it there are more.
Partitioned(ratios, index) ==
  CHOOSE r \in Range(ratios) :
    /\ Cardinality({i \in DOMAIN ratios : ~AtLeast(ratios[i], r)}) <= index
    /\ Cardinality({i \in DOMAIN ratios : AtLeast(r, ratios[i])}) > index

\* Variant: one row too far up.
ThresholdForTargetStrict(ratios, target) ==
  LET wanted == Min({target, Len(ratios)})
  IN  Partitioned(ratios, Min({Len(ratios) - 1, Len(ratios) - wanted + 1}))
\* The target-th largest.
ThresholdForTarget(ratios, target) ==
  LET wanted == Min({target, Len(ratios)})
  IN  Partitioned(ratios, Len(ratios) - wanted)

Largest(counts) == CHOOSE n \in counts : \A k \in counts : k <= n

\* Variant: the event itself is not counted.
RollingPeakShort(times, window) ==
  Largest({i - Cardinality({j \in DOMAIN times : times[j] < times[i] - window}) - 1
             : i \in DOMAIN times})
\* Events in the window that ends at an event, both ends included.
RollingPeak(times, window) ==
  Largest({i - Cardinality({j \in DOMAIN times : times[j] < times[i] - window})
             : i \in DOMAIN times})

\* Events in a second of the clock.
FixedPeak(times, second) ==
  Largest({Cardinality({j \in DOMAIN times : times[j] \div second = times[i] \div second})
             : i \in DOMAIN times})
============================================================================
