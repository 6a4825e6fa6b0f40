------------------------------ MODULE MCSweep ------------------------------
(* Grids of up to four candidates, two versions of the settings, and       *)
(* backtests that trade, tie, are refused and do not trade.                *)
EXTENDS EodDay

MCRingSize == 4
MCCeiling  == [limit \in Limits |-> 3]

Half == <<0, "half">>

MCSetting(lookbacks, in_flight) ==
  [base_lot |-> 2, min_trades |-> 1, max_drawdown |-> 1,
   grids |->
     [momentum |-> [lookback |-> lookbacks, entry_thresh |-> <<Half>>,
                    pos_scalar |-> <<Half, Whole(1)>>],
      mean_reversion |-> [pos_scalar |-> <<Whole(1)>>, window |-> <<Whole(2), Whole(3)>>,
                          dev_thresh |-> <<Half>>],
      defensive |-> [pos_scalar |-> <<Half>>, spread_floor |-> <<Whole(1)>>]],
   risk_limits |-> [[limit \in Limits |-> 2] EXCEPT !["max_in_flight"] = in_flight]]

MCSettings == {MCSetting(<<Whole(1), Whole(2)>>, 1), MCSetting(<<Whole(3)>>, 3)}

MCOutcome(sharpe, accepted, rejected) ==
  [sharpe |-> sharpe, accepted |-> accepted, rejected |-> rejected,
   signals |-> accepted + rejected, fills |-> accepted, drawdown |-> 0,
   maxima |-> [limit \in Limits |-> 1]]

MCOutcomes == {MCOutcome(None, 0, 1), MCOutcome(None, 1, 0),
               MCOutcome(1, 1, 0), MCOutcome(2, 2, 1)}

\* Up to seven days of closes, with windows of two returns, whose deviation is
\* |r2 - r1|; in some a close is missing, and the sixth bar is never whole.
\* Sweeps follow in a market that has all three labels.
MCMarkets == [1 .. 7 -> {2, 4}] \cup [1 .. 5 -> {2, 3, 4}] \cup
             {[m EXCEPT ![4] = NaN] : m \in [1 .. 7 -> {2, 4}]}
MCVolatility(c) == [num |-> Distance(c[3] * c[1], c[2] * c[2]), den |-> c[2] * c[1]]
MCPartial == {6}
MCSweptMarkets == {<<2, 4, 4, 2, 2>>}
============================================================================
