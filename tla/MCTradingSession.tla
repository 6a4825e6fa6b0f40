-------------------------- MODULE MCTradingSession --------------------------
(* Lots of two shares and a limit of three, so that one order more in the   *)
(* same direction is refused; three quotes whose mid prices rise and fall   *)
(* by the threshold and by more, one of them too dear for the notional      *)
(* limit; a table of two for a fill delay of several ticks; and a ring of   *)
(* three, which six ticks fill twice.                                       *)
EXTENDS TradingSession

MCQuote(bid, ask) == [bid |-> bid, ask |-> ask]
MCQuotes    == {MCQuote(90, 110), MCQuote(100, 150), MCQuote(70, 90)}
MCFifth     == [num |-> 1, den |-> 5]
MCOne       == [num |-> 1, den |-> 1]
============================================================================
