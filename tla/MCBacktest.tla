---------------------------- MODULE MCBacktest ----------------------------
(* A short day: lots of one and two shares each way, a price whose double  *)
(* lot breaks the notional limit, and a sell below the buy price.  The     *)
(* session is three minutes of four time units; a day may begin before it  *)
(* and end after it.                                                       *)
EXTENDS BacktestDay

Order1(side, quantity, price) ==
  [side |-> side, quantity |-> quantity, price |-> price]

MCSignals == {Hold, Order1("BUY", 1, 200), Order1("BUY", 2, 100),
              Order1("BUY", 2, 200), Order1("SELL", 2, 100)}
============================================================================
