--------------------------- MODULE StrategyEngine ---------------------------
(***************************************************************************)
(* The strategies of the PS trading core (strategy_engine.c): three pure   *)
(* decisions over the current quote and a ring of the latest mid prices,   *)
(* and the update of that ring, which comes after the decision.            *)
(***************************************************************************)
EXTENDS EodStrategies

CONSTANTS
  RingSize,        (* RING_SIZE                                            *)
  LookbackTicks, EntryThresh,    (* momentum                               *)
  Window, DevThresh,             (* mean reversion                         *)
  SpreadFloor,                   (* defensive                              *)
  BaseLot, PosScalar,
  Quotes           (* the snapshots the feed may show                      *)

Quote == [bid : Nat \ {0}, ask : Nat \ {0}]

\* What load_config lets through, and the quotes the feed produces.
ASSUME RingAssumption   == RingSize \in Nat \ {0, 1}
ASSUME ParamsAssumption == /\ LookbackTicks \in 1 .. RingSize - 1
                           /\ Window \in 1 .. RingSize - 1
                           /\ EntryThresh \in Fraction /\ EntryThresh.num > 0
                           /\ DevThresh \in Fraction /\ DevThresh.num > 0
                           /\ SpreadFloor \in Int
                           /\ BaseLot \in Nat \ {0}
                           /\ PosScalar \in Fraction /\ PosScalar.num > 0
ASSUME FeedAssumption   == Quotes \subseteq Quote

VARIABLES active_strategy_id, mid_ring, write_idx, count,
          history,     (* history: every quote so far                      *)
          decision     (* what the last tick returned                      *)

rollingState == <<mid_ring, write_idx, count>>
vars == <<active_strategy_id, rollingState, history, decision>>

----------------------------------------------------------------------------
AbsVal(n) == IF n < 0 THEN -n ELSE n

\* Variant: the ring is indexed one tick too far back.
RingIndexOff(back) == (write_idx - back - 1 + RingSize) % RingSize
RingIndex(back) == (write_idx - back + RingSize) % RingSize
Past(back)      == mid_ring[RingIndex(back)]

\* A float product converted to int loses its fraction.
LotQty == (BaseLot * PosScalar.num) \div PosScalar.den

Decide(side, qty, price) == [side |-> side, qty |-> qty, price |-> price]

Momentum(q) ==
  LET mid_now == MidHalfCents(q)
      delta   == mid_now - Past(LookbackTicks)
  IN  IF count < LookbackTicks THEN Hold
      ELSE IF delta * EntryThresh.den >= EntryThresh.num * mid_now
           THEN Decide("BUY", LotQty, q.ask)
      ELSE IF delta * EntryThresh.den <= -(EntryThresh.num * mid_now)
           THEN Decide("SELL", LotQty, q.bid)
      ELSE Hold

\* The quantity factor MIN(1, |dev| / dev_thresh) is 1 wherever an order is
\* returned.
MeanReversion(q) ==
  LET sum == SumFunctionOnSet([k \in 1 .. Window |-> Past(k)], 1 .. Window)
      dev == MidHalfCents(q) * Window - sum
  IN  IF count < Window THEN Hold
      ELSE IF dev * DevThresh.den >= DevThresh.num * sum
           THEN Decide("SELL", LotQty, q.ask)
      ELSE IF dev * DevThresh.den <= -(DevThresh.num * sum)
           THEN Decide("BUY", LotQty, q.bid)
      ELSE Hold

DefensiveQty(pos) == Min({AbsVal(pos), LotQty})

Defensive(q, pos) ==
  IF pos = 0 \/ q.ask - q.bid < SpreadFloor THEN Hold
  ELSE IF pos > 0 THEN Decide("SELL", DefensiveQty(pos), q.bid)
                  ELSE Decide("BUY", DefensiveQty(pos), q.ask)

StrategyTable(id, q, pos) == CASE id = 0 -> Momentum(q)
                               [] id = 1 -> MeanReversion(q)
                               [] id = 2 -> Defensive(q, pos)

NextCount == IF count < RingSize THEN count + 1 ELSE count

NextWriteIdx == (write_idx + 1) % RingSize

UpdateRollingState(mid) == /\ mid_ring' = [mid_ring EXCEPT ![write_idx] = mid]
                           /\ write_idx' = NextWriteIdx
                           /\ count' = NextCount

Init == /\ active_strategy_id \in 0 .. 2
        /\ mid_ring = [i \in 0 .. RingSize - 1 |-> 0]
        /\ write_idx = 0
        /\ count = 0
        /\ history = <<>>
        /\ decision = Hold

\* strategy_engine_tick: the decision sees the ring without this tick.
EngineTick(q, pos) == /\ decision' = StrategyTable(active_strategy_id, q, pos)
                      /\ UpdateRollingState(MidHalfCents(q))
                      /\ history' = Append(history, q)
                      /\ UNCHANGED active_strategy_id

----------------------------------------------------------------------------
(* Properties.                                                             *)

Ticks == Len(history)

\* The ring is the latest part of the day: what lies k slots behind the write
\* index is the mid price of k ticks ago, across any number of wraparounds, and
\* the counter says how far back that goes.
RingHoldsLatest ==
  /\ count = Min({Ticks, RingSize})
  /\ \A k \in 1 .. count : Past(k) = MidHalfCents(history[Ticks + 1 - k])

\* Live trading decides as the backtest that chose its parameters: momentum
\* returns the backtest's signal, with quantity and price, and mean reversion
\* trades in the same direction (its prices differ, as strategies.py says).
DecidesAsBacktest ==
  Ticks > 0 =>
    /\ active_strategy_id = 0 =>
         decision = Aggressive(MomentumSide(history, Ticks, LookbackTicks, EntryThresh),
                               history[Ticks], OrderQuantity(BaseLot, PosScalar))
    /\ active_strategy_id = 1 =>
         decision.side = MeanReversionSide(history, Ticks, Window, DevThresh)

\* The live core's ring is the history, and its decisions are the backtest's.
LiveFollowsHistory == RingHoldsLatest /\ DecidesAsBacktest
============================================================================
