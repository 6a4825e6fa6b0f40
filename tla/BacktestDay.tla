---------------------------- MODULE BacktestDay ----------------------------
(***************************************************************************)
(* A day of the backtest with its arrays: the loop of Backtest fills the   *)
(* equity curve, and calculate_metrics reads it when the loop has ended.   *)
(* The data health check reads the same timing file.                       *)
(***************************************************************************)
EXTENDS Backtest, Metrics

Health == INSTANCE DataHealth

VARIABLES
  time_ns,             (* the times of the snapshots begun                  *)
  equity_half_cents    (* the curve up to the latest mark                   *)

day_vars == <<vars, time_ns, equity_half_cents>>

DayInit == Init /\ time_ns = <<>> /\ equity_half_cents = <<>>

NextRow(gap, m, s) == /\ NextSnapshot(gap, m, s)
                      /\ time_ns' = Append(time_ns, now')
                      /\ UNCHANGED equity_half_cents

MarkRow == /\ MarkToMarket
           /\ equity_half_cents' = Append(equity_half_cents, equity')
           /\ UNCHANGED time_ns

\* Variant: the settled result stays out of the curve.
LastRowKept == UNCHANGED equity_half_cents
LastRow     == equity_half_cents' = [equity_half_cents EXCEPT ![Snapshots] = equity']

CloseCurve == /\ CloseDay
              /\ LastRow
              /\ UNCHANGED time_ns

LoopStep == /\ EvictAcceptance \/ RiskCheck \/ HoldSignal \/ FillMatured \/ SettleOne
            /\ UNCHANGED <<time_ns, equity_half_cents>>

DayNext == \/ \E gap \in Gaps, m \in Mids, s \in Signals : NextRow(gap, m, s)
           \/ MarkRow
           \/ CloseCurve
           \/ LoopStep

DaySpec == DayInit /\ [][DayNext]_day_vars

----------------------------------------------------------------------------
(* Properties.                                                             *)

minute_pnl == MinutePnl(time_ns, equity_half_cents)
total_pnl  == equity

\* The minutes that are ranked are the whole profit of the day, settlement
\* included, and of that profit only what comes after the session's end is
\* missing; on a day without a fill every minute is flat, so the ratio would be
\* undefined even if fills were not counted.
MinutesAddUp ==
  pc = "done" =>
    LET counted == Searchsorted(time_ns, SessionEnd)
        sum     == SumFunctionOnSet(minute_pnl, DOMAIN minute_pnl)
    IN  /\ counted = Snapshots => sum = total_pnl
        /\ counted \in 1 .. Snapshots - 1 => sum = equity_half_cents[counted]
        /\ counted = 0 => sum = 0
        /\ counted = 0 \/ counts.fills = 0 => ~SharpeDefined(minute_pnl, 1)

\* The drawdown is the worst fall from any earlier level, the zero the day
\* starts from included, to any later one; so it is no less than what the day
\* has lost.
DrawdownIsWorstFall ==
  pc = "done" =>
    LET level == [i \in 0 .. Snapshots |-> IF i = 0 THEN 0 ELSE equity_half_cents[i]]
        rows  == 0 .. Snapshots
        falls == {level[p[1]] - level[p[2]] : p \in {q \in rows \X rows : q[1] <= q[2]}}
    IN  /\ MaximumDrawdown(equity_half_cents) \in falls
        /\ \A fall \in falls : fall <= MaximumDrawdown(equity_half_cents)
        /\ MaximumDrawdown(equity_half_cents) >= -total_pnl

\* The sweep ranks and the operator is shown what the books made of the day.
MetricsAgree == MinutesAddUp /\ DrawdownIsWorstFall

\* The burst the health check reports bounds what the rate limit can ever see:
\* no strategy has more orders accepted in one window, and no second of the
\* clock holds more messages than the rolling second.
BurstBoundsRate ==
  pc = "done" =>
    /\ maxima.order_rate <= Health!RollingPeak(time_ns, RateWindow)
    /\ Health!FixedPeak(time_ns, RateWindow) <= Health!RollingPeak(time_ns, RateWindow)
============================================================================
