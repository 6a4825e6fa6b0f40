--------------------------- MODULE TradingSession ---------------------------
(***************************************************************************)
(* A session of the trading core with its real strategies: the main loop   *)
(* of TradeCore, in which the decision of a tick is the one that           *)
(* StrategyEngine returns for the snapshot and the settled position        *)
(* (main.c).  The strategy is that of the config for the whole session.    *)
(***************************************************************************)
EXTENDS StrategyDay, Functions

CONSTANTS
  TableSize, FillDelay, TickGap, MaxTicks, MaxDelay,
  MaxPosition, MaxNotional                   (* as in TradeCore            *)

ASSUME SessionAssumption == /\ TableSize \in Nat \ {0}
                            /\ FillDelay \in Nat \ {0}
                            /\ {MaxTicks, TickGap, MaxDelay} \subseteq Nat
                            /\ {MaxPosition, MaxNotional} \subseteq Nat

VARIABLES
  pc, clock, emitted, order_id, settled,
  orders, in_flight_order_count, in_flight_net_shares,
  now, idx, sent, filled,                    (* as in TradeCore            *)
  sent_tick                (* history: the tick each packet was sent in    *)

\* What a strategy may return for these quotes.
QuotePrices       == {q.bid : q \in Quotes} \cup {q.ask : q \in Quotes}
StrategyDecisions ==
  {Hold} \cup [side : {"BUY", "SELL"}, qty : {LotQty}, price : QuotePrices]

Core == INSTANCE TradeCore WITH Decisions <- StrategyDecisions

table        == <<orders, in_flight_order_count, in_flight_net_shares>>
engine       == <<active_strategy_id, rollingState, history, signalled>>
session_vars == <<pc, clock, emitted, decision, order_id, settled, table, now,
                  idx, sent, filled, engine, sent_tick>>

SessionInit == /\ Core!Init
               /\ DayInit
               /\ sent_tick = <<>>

\* strategy_engine_tick, called with the settled position, whatever is in
\* flight.
SessionTick == /\ pc = "strategy"
               /\ \E q \in Quotes : DayTick(q, settled)
               /\ pc' = IF decision'.side = "HOLD" THEN "clean" ELSE "risk"
               /\ UNCHANGED <<clock, emitted, order_id, settled, table, now,
                              idx, sent, filled, sent_tick>>

SessionSend == /\ Core!ExecuteOrder
               /\ sent_tick' = Append(sent_tick, Len(history))
               /\ UNCHANGED engine

\* The calls that neither the strategy nor the order writer is part of.
CoreStep == /\ \/ Core!FeedExhausted \/ Core!GetSnapshot
               \/ Core!RiskReject \/ Core!RiskApprove
               \/ Core!InsertOrder \/ Core!TableFull
               \/ Core!CleanStart \/ Core!FillSlot \/ Core!SkipSlot
            /\ UNCHANGED <<engine, sent_tick>>

SessionNext == SessionTick \/ SessionSend \/ CoreStep

SessionSpec == SessionInit /\ [][SessionNext]_session_vars

----------------------------------------------------------------------------
(* Properties.                                                             *)

\* What the health check says of the day so far, after each of its ticks, is
\* what the strategies did on it.
HealthAgrees == pc = "poll" => HealthCountsSignals /\ SuggestionMeetsTarget

Quoted(side, q, sell, buy) ==
  IF side = "HOLD" THEN Hold
  ELSE [side |-> side, qty |-> OrderQuantity(BaseLot, PosScalar),
        price |-> IF side = "SELL" THEN sell ELSE buy]

\* The order that the backtest's signal at tick t stands for, priced as the
\* live strategy prices it: momentum takes the other side's quote, mean
\* reversion offers its own, the defensive strategy opens nothing.
SignalAt(t) ==
  LET q == history[t]
  IN  CASE active_strategy_id = 0 ->
             Quoted(MomentumSide(history, t, LookbackTicks, EntryThresh),
                    q, q.bid, q.ask)
        [] active_strategy_id = 1 ->
             Quoted(MeanReversionSide(history, t, Window, DevThresh),
                    q, q.ask, q.bid)
        [] active_strategy_id = 2 -> Hold

PacketsBefore(t)    == {k \in 1 .. Len(sent) : sent_tick[k] < t}
SharesSentBefore(t) == SumFunctionOnSet(Core!PacketShares, PacketsBefore(t))

\* Within the notional limit, and within the position limit or no further past
\* it, after everything sent so far has filled.
Admissible(d, held) ==
  LET after == held + Core!SignedShares(d.side, d.qty)
  IN  /\ d.side # "HOLD"
      /\ Core!OrderNotionalCad(d) <= MaxNotional
      /\ AbsVal(after) <= MaxPosition \/ AbsVal(after) <= AbsVal(held)

PacketOf(id, d) == [order_id |-> id, side |-> d.side,
                    qty |-> d.qty, price |-> d.price]

\* Each packet is the signal of one tick, under the next ID, at most one for a
\* tick and in order.
PacketsAreSignals ==
  /\ Len(sent) = Len(sent_tick)
  /\ \A k \in 1 .. Len(sent) :
       /\ sent_tick[k] \in 1 .. Ticks
       /\ \A j \in 1 .. k - 1 : sent_tick[j] < sent_tick[k]
       /\ sent[k] = PacketOf(k, SignalAt(sent_tick[k]))

SentIffAdmissible(t) ==
  t \in Range(sent_tick) <=> Admissible(SignalAt(t), SharesSentBefore(t))

SignalsAreSent == \A t \in 1 .. Ticks : SentIffAdmissible(t)

\* A session sends the backtest's signals on the quotes it saw, each but those
\* that the limits refuse when all orders sent before it count as filled: what
\* is traded depends on the quotes alone, never on how the clock ran, what had
\* filled or which slots were free, although strategy and risk guard are handed
\* a settled position that lags behind.  With the defensive strategy nothing is
\* sent at all ("Suppress entries", src/README.md:465).
SendsWhatBacktestSignals ==
  pc = "poll" => PacketsAreSignals /\ SignalsAreSent
============================================================================
