--------------------------- MODULE EodStrategies ---------------------------
(***************************************************************************)
(* The strategy kernels of the end-of-day backtest (strategies.py): the    *)
(* signal at tick t as a function of all quotes of the day.  Thresholds    *)
(* and the position scalar are fractions, so comparisons are exact; the    *)
(* code compares floats.                                                   *)
(***************************************************************************)
EXTENDS Integers, Sequences, FiniteSetsExt

Hold     == [side |-> "HOLD", qty |-> 0, price |-> 0]
Fraction == [num : Nat, den : Nat \ {0}]

\* Half cents: the sum of the two prices, not their mean.
MidHalfCents(q) == q.bid + q.ask

WholeShares(lot, scalar) == (lot * scalar.num) % scalar.den = 0
OrderQuantity(lot, scalar) == (lot * scalar.num) \div scalar.den

Aggressive(side, q, qty) ==
  IF side = "HOLD" THEN Hold
  ELSE [side |-> side, qty |-> qty, price |-> IF side = "BUY" THEN q.ask ELSE q.bid]

MomentumSide(day, t, lookback, thresh) ==
  LET mid   == MidHalfCents(day[t])
      delta == mid - MidHalfCents(day[t - lookback])
  IN  IF t <= lookback THEN "HOLD"
      ELSE IF delta * thresh.den >= thresh.num * mid THEN "BUY"
      ELSE IF delta * thresh.den <= -(thresh.num * mid) THEN "SELL"
      ELSE "HOLD"

HistoricalSum(day, t, window) ==
  LET mid == [i \in (t - window) .. (t - 1) |-> MidHalfCents(day[i])]
  IN  SumFunctionOnSet(mid, (t - window) .. (t - 1))

\* The deviation (mid - sum / window) / (sum / window) against the threshold.
MeanReversionSide(day, t, window, thresh) ==
  LET sum == HistoricalSum(day, t, window)
      dev == MidHalfCents(day[t]) * window - sum
  IN  IF t <= window THEN "HOLD"
      ELSE IF dev * thresh.den >= thresh.num * sum THEN "SELL"
      ELSE IF dev * thresh.den <= -(thresh.num * sum) THEN "BUY"
      ELSE "HOLD"
============================================================================
