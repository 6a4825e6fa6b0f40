---------------------------- MODULE StrategyDay ----------------------------
(***************************************************************************)
(* A day of the strategy engine beside the data health check of the same   *)
(* quotes: the check counts threshold crossings with array arithmetic, the *)
(* engine signals tick by tick from its ring.                              *)
(***************************************************************************)
EXTENDS StrategyEngine, DataHealth

VARIABLE signalled     (* history: ticks on which an order was returned     *)

day_vars == <<vars, signalled>>

DayInit == Init /\ signalled = 0

\* A tick of the day, for whatever position the caller passes.
DayTick(q, pos) ==
  /\ EngineTick(q, pos)
  /\ signalled' = IF decision'.side = "HOLD" THEN signalled ELSE signalled + 1

----------------------------------------------------------------------------
mids == [t \in DOMAIN history |-> MidHalfCents(history[t])]

\* The crossings the health check reports for a pair of parameters are the
\* orders the live core asks for with them over the same day, cold start and
\* wraparounds of the ring included.
HealthCountsSignals ==
  /\ active_strategy_id = 0 =>
       signalled = CountAtLeast(MomentumRatio(mids, LookbackTicks), EntryThresh)
  /\ active_strategy_id = 1 =>
       signalled = CountAtLeast(MeanReversionDeviation(mids, Window), DevThresh)

\* A threshold suggested for a number of signals gives the backtest at least
\* that many on the same day, or one for every warmed-up tick; more only where
\* rows tie.
SuggestionMeetsTarget ==
  LET ratios == MomentumRatio(mids, LookbackTicks)
      Suggested(target) == ThresholdForTarget(ratios, target)
      SignalsWith(thresh) ==
        Cardinality({t \in LookbackTicks + 1 .. Ticks :
                       MomentumSide(history, t, LookbackTicks, thresh) # "HOLD"})
  IN  \A target \in 1 .. Ticks : ratios # <<>> =>
        /\ SignalsWith(Suggested(target)) >= Min({target, Len(ratios)})
        /\ Cardinality({i \in DOMAIN ratios : ~AtLeast(Suggested(target), ratios[i])}) < target
============================================================================
