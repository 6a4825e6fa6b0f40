------------------------------ MODULE Metrics ------------------------------
(***************************************************************************)
(* What the sweep reads off the equity curve of a backtest                 *)
(* (backtest/metrics.py): the profit of every minute of the session, whose *)
(* Sharpe ratio ranks the candidates, and the drawdown.  times and curve   *)
(* are the arrays time_ns and equity_half_cents.  The ratio itself is      *)
(* float arithmetic; here only whether it is defined.                      *)
(***************************************************************************)
EXTENDS Integers, Sequences, SequencesExt, FiniteSets

CONSTANTS
  SessionStart,    (* SESSION_START_NS                                     *)
  MinuteLength,    (* MINUTE_NS                                            *)
  Minutes          (* MINUTES_PER_SESSION                                  *)

ASSUME SessionAssumption == /\ SessionStart \in Nat
                            /\ MinuteLength \in Nat \ {0} /\ Minutes \in Nat \ {0}

MinuteEnd(k) == SessionStart + k * MinuteLength
SessionEnd   == MinuteEnd(Minutes)

\* searchsorted(times, t, side="right"): the times are in order.
Searchsorted(times, t) == Cardinality({i \in DOMAIN times : times[i] <= t})

\* The equity at the end of each minute is carried through gaps, and is zero
\* before the first snapshot.
MinuteEquity(times, curve) ==
  [k \in 1 .. Minutes |-> LET last == Searchsorted(times, MinuteEnd(k))
                          IN  IF last = 0 THEN 0 ELSE curve[last]]

MinutePnl(times, curve) ==
  LET at_end == MinuteEquity(times, curve)
  IN  [k \in 1 .. Minutes |-> at_end[k] - (IF k = 1 THEN 0 ELSE at_end[k - 1])]

\* annualized_sharpe is not None: a fill, and minutes that differ.
SharpeDefined(minute_pnl, fills) ==
  fills # 0 /\ \E j, k \in DOMAIN minute_pnl : minute_pnl[j] # minute_pnl[k]

Higher(a, b) == IF a > b THEN a ELSE b

\* Variant: the lowest level is taken wherever it comes, before the peak or after.
MaximumDrawdownSpread(curve) ==
  LET run == FoldLeft(LAMBDA r, e : [peak |-> Higher(r.peak, e), low |-> -Higher(-r.low, -e)],
                      [peak |-> 0, low |-> 0], curve)
  IN  run.peak - run.low
\* A running peak, and the largest distance below it.
MaximumDrawdown(curve) ==
  FoldLeft(LAMBDA run, e : LET peak == Higher(run.peak, e)
                           IN  [peak |-> peak, fall |-> Higher(run.fall, peak - e)],
           [peak |-> 0, fall |-> 0], curve).fall
============================================================================
