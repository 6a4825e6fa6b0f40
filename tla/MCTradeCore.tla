--------------------------- MODULE MCTradeCore ---------------------------
(* A small instance of TradeCore: lots of one and two shares each way, a   *)
(* price that breaks the notional limit with two shares but not with one,  *)
(* and HOLD.                                                               *)
EXTENDS TradeCore

Order1(side, qty, price) == [side |-> side, qty |-> qty, price |-> price]

MCDecisions == {Hold,
                Order1("BUY", 1, 100), Order1("BUY", 2, 100),
                Order1("SELL", 1, 100), Order1("SELL", 2, 200)}
============================================================================
