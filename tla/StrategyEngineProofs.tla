------------------------ MODULE StrategyEngineProofs ------------------------
(***************************************************************************)
(* Proofs about the live strategies, for every ring size, parameter set    *)
(* and length of session: the ring holds the latest of the history, so     *)
(* that the core decides as the backtest does, the health check counts the *)
(* orders it asks for, and a session sends the backtest's signals.         *)
(***************************************************************************)
EXTENDS TradingSession, Folding, TLAPS

\* A slot behind the write index, without the modulo.
LEMMA RingIndexIs ==
  ASSUME NEW w \in 0 .. RingSize - 1, NEW k \in 1 .. RingSize
  PROVE  (w - k + RingSize) % RingSize = IF w >= k THEN w - k ELSE w - k + RingSize
<1>1. RingSize \in Nat /\ RingSize > 1
  BY RingAssumption
<1>2. \A x \in 0 .. RingSize - 1 : x % RingSize = x
  BY <1>1
<1>3. \A x \in 0 .. RingSize - 1 : (x + RingSize) % RingSize = x
  BY <1>1
<1>4. CASE w >= k
  <2>1. w - k \in 0 .. RingSize - 1 /\ w - k + RingSize = (w - k) + RingSize
    BY <1>1, <1>4
  <2>2. QED
    BY <1>3, <1>4, <2>1
<1>5. CASE w < k
  <2>1. w - k + RingSize \in 0 .. RingSize - 1
    BY <1>1, <1>5
  <2>2. QED
    BY <1>1, <1>2, <1>5, <2>1
<1>6. QED
  BY <1>1, <1>4, <1>5

\* The write index after a tick, without the modulo.
LEMMA NextIndexIs ==
  ASSUME NEW w \in 0 .. RingSize - 1
  PROVE  (w + 1) % RingSize = IF w = RingSize - 1 THEN 0 ELSE w + 1
<1>1. RingSize \in Nat /\ RingSize > 1
  BY RingAssumption
<1>2. \A x \in 0 .. RingSize - 1 : x % RingSize = x
  BY <1>1
<1>3. RingSize % RingSize = 0
  BY <1>1
<1>4. QED
  BY <1>1, <1>2, <1>3

LEMMA MinOfTwo ==
  ASSUME NEW a \in Nat, NEW b \in Nat
  PROVE  Min({a, b}) = IF a <= b THEN a ELSE b
  BY DEF Min

LEMMA MidType ==
  ASSUME NEW q \in Quotes
  PROVE  MidHalfCents(q) \in Nat
  BY FeedAssumption DEF MidHalfCents, Quote

----------------------------------------------------------------------------
(* The part of the type invariant the ring needs, with the ring itself.    *)
RingTypes == /\ mid_ring \in [0 .. RingSize - 1 -> Nat]
             /\ write_idx \in 0 .. RingSize - 1
             /\ count \in 0 .. RingSize
             /\ history \in Seq(Quotes)

RingInv == RingTypes /\ RingHoldsLatest

\* One tick: what was k slots back is k + 1 slots back, and the slot just
\* written is one slot back.
LEMMA TickKeepsRing ==
  ASSUME RingInv, NEW q \in Quotes, NEW pos, EngineTick(q, pos)
  PROVE  RingInv'
<1>1. /\ mid_ring' = [mid_ring EXCEPT ![write_idx] = MidHalfCents(q)]
      /\ write_idx' = NextWriteIdx
      /\ count' = NextCount
      /\ history' = Append(history, q)
  BY DEF EngineTick, UpdateRollingState
<1>2. /\ RingSize \in Nat /\ RingSize > 1
      /\ mid_ring \in [0 .. RingSize - 1 -> Nat]
      /\ write_idx \in 0 .. RingSize - 1
      /\ count \in 0 .. RingSize
      /\ history \in Seq(Quotes)
      /\ Len(history) \in Nat
  BY RingAssumption DEF RingInv, RingTypes
<1>3. /\ count = IF Len(history) <= RingSize THEN Len(history) ELSE RingSize
      /\ \A k \in 1 .. count :
           Past(k) = MidHalfCents(history[Len(history) + 1 - k])
  BY <1>2, MinOfTwo DEF RingInv, RingHoldsLatest, Ticks
<1>4. write_idx' = IF write_idx = RingSize - 1 THEN 0 ELSE write_idx + 1
  BY <1>1, <1>2, NextIndexIs DEF NextWriteIdx
<1>5. /\ write_idx' \in 0 .. RingSize - 1
      /\ count' \in 0 .. RingSize
      /\ count' = IF Len(history) + 1 <= RingSize THEN Len(history) + 1 ELSE RingSize
      /\ count' <= count + 1
  BY <1>1, <1>2, <1>3, <1>4 DEF NextCount
<1>6. /\ history' \in Seq(Quotes)
      /\ Len(history') = Len(history) + 1
      /\ history'[Len(history) + 1] = q
      /\ \A n \in 1 .. Len(history) : history'[n] = history[n]
  BY <1>1, <1>2
<1>7. mid_ring' \in [0 .. RingSize - 1 -> Nat]
  BY <1>1, <1>2, MidType
<1>8. ASSUME NEW k \in 1 .. count'
      PROVE  Past(k)' = MidHalfCents(history'[Len(history') + 1 - k])
  <2>1. k \in 1 .. RingSize
    BY <1>2, <1>5
  <2>2. Past(k)' = mid_ring'[IF write_idx' >= k THEN write_idx' - k
                             ELSE write_idx' - k + RingSize]
    BY <1>5, <2>1, RingIndexIs DEF Past, RingIndex
  <2>3. CASE k = 1
    <3>1. (IF write_idx' >= k THEN write_idx' - k ELSE write_idx' - k + RingSize)
            = write_idx
      BY <1>2, <1>4, <2>3
    <3>2. mid_ring'[write_idx] = MidHalfCents(q)
      BY <1>1, <1>2
    <3>3. Len(history') + 1 - k = Len(history) + 1
      BY <1>2, <1>6, <2>3
    <3>4. QED
      BY <1>6, <2>2, <3>1, <3>2, <3>3
  <2>4. CASE k > 1
    <3> DEFINE j == k - 1
               slot == IF write_idx >= j THEN write_idx - j
                       ELSE write_idx - j + RingSize
    <3>1. j \in 1 .. count /\ j \in 1 .. RingSize - 1 /\ j \in 1 .. RingSize
      BY <1>2, <1>5, <2>1, <2>4
    <3>2. /\ (IF write_idx' >= k THEN write_idx' - k ELSE write_idx' - k + RingSize)
                = slot
          /\ slot \in 0 .. RingSize - 1
          /\ slot # write_idx
      BY <1>2, <1>4, <2>1, <2>4, <3>1
    <3>3. Past(j) = mid_ring[slot]
      BY <1>2, <3>1, RingIndexIs DEF Past, RingIndex
    <3>4. mid_ring'[slot] = mid_ring[slot]
      BY <1>1, <1>2, <3>2
    <3>5. Past(j) = MidHalfCents(history[Len(history) + 1 - j])
      BY <1>3, <3>1
    <3>a. Len(history) \in Nat /\ Len(history') = Len(history) + 1
      BY <1>2, <1>6
    <3>b. count <= Len(history) /\ count \in Nat
      BY <1>2, <1>3
    <3>6. /\ Len(history') + 1 - k = Len(history) + 1 - j
          /\ Len(history) + 1 - j \in 1 .. Len(history)
      BY <2>1, <2>4, <3>1, <3>a, <3>b
    <3>7. history'[Len(history') + 1 - k] = history[Len(history) + 1 - j]
      BY <1>6, <3>6
    <3>8. QED
      BY <2>2, <3>2, <3>3, <3>4, <3>5, <3>7
  <2>5. QED
    BY <2>1, <2>3, <2>4
<1>9. count' = Min({Len(history'), RingSize})
  <2>1. Len(history') \in Nat /\ RingSize \in Nat
    BY <1>2, <1>6
  <2>2. Min({Len(history'), RingSize})
          = IF Len(history') <= RingSize THEN Len(history') ELSE RingSize
    BY <2>1, MinOfTwo
  <2>3. QED
    BY <1>5, <1>6, <2>2
<1>10. RingHoldsLatest'
  <2>1. Ticks' = Len(history')
    BY DEF Ticks
  <2>2. \A k \in 1 .. count' :
          Past(k)' = MidHalfCents(history'[Ticks' + 1 - k])
    BY <1>8, <2>1
  <2>3. count' = Min({Ticks', RingSize})
    BY <1>9, <2>1
  <2>4. QED
    BY <2>2, <2>3, Zenon DEF RingHoldsLatest
<1>11. QED
  BY <1>5, <1>6, <1>7, <1>10 DEF RingInv, RingTypes

LEMMA RingInit == Init => RingInv
<1> SUFFICES ASSUME Init PROVE RingInv
  OBVIOUS
<1>1. RingSize \in Nat /\ RingSize > 1
  BY RingAssumption
<1>2. RingTypes
  BY <1>1 DEF Init, RingTypes
<1>3. count = 0 /\ Len(history) = 0
  BY DEF Init
<1>4. QED
  BY <1>1, <1>2, <1>3, MinOfTwo DEF RingInv, RingHoldsLatest, Ticks

----------------------------------------------------------------------------
(* The lot, in whole shares.                                               *)

LEMMA LotIsNat == LotQty \in Nat
<1>1. BaseLot \in Nat /\ PosScalar.num \in Int /\ PosScalar.num > 0 /\ PosScalar.den \in Nat \ {0}
  BY ParamsAssumption DEF Fraction
<1>2. \A a, b \in Nat : a * b \in Nat
  OBVIOUS
<1>3. BaseLot * PosScalar.num \in Nat
  BY <1>1, <1>2
<1>4. \A a \in Nat, b \in Nat \ {0} : a \div b \in Nat
  OBVIOUS
<1>. QED
  BY <1>1, <1>3, <1>4, Zenon DEF LotQty

----------------------------------------------------------------------------
(* Live trading and the backtest.                                          *)

\* What the ring says of the past, in terms of the day as the backtest has it.
LEMMA RingIsPast ==
  ASSUME RingInv, NEW q \in Quotes, NEW k \in 1 .. RingSize - 1, k <= Len(history)
  PROVE  /\ Past(k) \in Nat
         /\ Past(k) = MidHalfCents(Append(history, q)[Len(history) + 1 - k])
<1>1. /\ RingSize \in Nat /\ history \in Seq(Quotes) /\ Len(history) \in Nat
      /\ count = Min({Len(history), RingSize})
      /\ \A j \in 1 .. count : Past(j) = MidHalfCents(history[Len(history) + 1 - j])
  <2>1. RingSize \in Nat /\ history \in Seq(Quotes) /\ Len(history) \in Nat
    BY RingAssumption DEF RingInv, RingTypes
  <2>2. /\ count = Min({Len(history), RingSize})
        /\ \A j \in 1 .. count : Past(j) = MidHalfCents(history[Len(history) + 1 - j])
    BY Zenon DEF RingInv, RingHoldsLatest, Ticks
  <2> QED
    BY <2>1, <2>2
<1>2. k \in 1 .. count
  BY <1>1, MinOfTwo
<1>3. Len(history) + 1 - k \in 1 .. Len(history)
  BY <1>1
<1>4. /\ Append(history, q)[Len(history) + 1 - k] = history[Len(history) + 1 - k]
      /\ history[Len(history) + 1 - k] \in Quotes
  BY <1>1, <1>3
<1> QED
  BY <1>1, <1>2, <1>4, MidType

LEMMA ColdStart ==
  ASSUME RingInv, NEW k \in 1 .. RingSize - 1
  PROVE  /\ Len(history) \in Nat
         /\ count < k <=> Len(history) < k
<1>1. /\ RingSize \in Nat /\ Len(history) \in Nat
      /\ count = Min({Len(history), RingSize})
  BY RingAssumption DEF RingInv, RingTypes, RingHoldsLatest, Ticks
<1> QED
  BY <1>1, MinOfTwo

LEMMA MomentumAgrees ==
  ASSUME RingInv, NEW q \in Quotes
  PROVE  LET day == Append(history, q)
             t   == Len(history) + 1
         IN  Momentum(q) = Aggressive(MomentumSide(day, t, LookbackTicks, EntryThresh),
                                      q, OrderQuantity(BaseLot, PosScalar))
<1> DEFINE day == Append(history, q)
           t   == Len(history) + 1
           L   == LookbackTicks
           mid == MidHalfCents(q)
<1>1. L \in 1 .. RingSize - 1 /\ Len(history) \in Nat
      /\ (count < L <=> Len(history) < L)
  BY ParamsAssumption, ColdStart
<1>2. L \in Nat /\ (count < L <=> t <= L)
  BY <1>1, RingAssumption
<1>3. day[t] = q
  BY DEF RingInv, RingTypes
<1>4. LotQty = OrderQuantity(BaseLot, PosScalar)
  BY DEF LotQty, OrderQuantity
<1>5. CASE t <= L
  <2>1. MomentumSide(day, t, L, EntryThresh) = "HOLD"
    BY <1>5 DEF MomentumSide
  <2>2. Momentum(q) = Hold
    BY <1>2, <1>5 DEF Momentum
  <2> QED
    BY <2>1, <2>2 DEF Aggressive
<1>6. CASE ~(t <= L)
  <2>1. Past(L) = MidHalfCents(day[t - L])
    BY <1>1, <1>2, <1>6, RingIsPast
  <2> DEFINE delta == mid - Past(L)
             up   == delta * EntryThresh.den >= EntryThresh.num * mid
             down == delta * EntryThresh.den <= -(EntryThresh.num * mid)
  <2>2. Momentum(q) = IF up THEN Decide("BUY", LotQty, q.ask)
                      ELSE IF down THEN Decide("SELL", LotQty, q.bid) ELSE Hold
    BY <1>2, <1>6 DEF Momentum
  <2>3. MomentumSide(day, t, L, EntryThresh)
          = IF up THEN "BUY" ELSE IF down THEN "SELL" ELSE "HOLD"
    BY <1>3, <1>6, <2>1 DEF MomentumSide
  <2> HIDE DEF up, down
  <2> QED
    BY <1>4, <2>2, <2>3 DEF Aggressive, Decide
<1> QED
  BY <1>5, <1>6

LEMMA MeanReversionAgrees ==
  ASSUME RingInv, NEW q \in Quotes
  PROVE  MeanReversion(q).side =
           MeanReversionSide(Append(history, q), Len(history) + 1, Window, DevThresh)
<1> DEFINE day == Append(history, q)
           t   == Len(history) + 1
           W   == Window
<1>1. W \in 1 .. RingSize - 1 /\ Len(history) \in Nat
      /\ (count < W <=> Len(history) < W)
  BY ParamsAssumption, ColdStart
<1>2. W \in Nat /\ (count < W <=> t <= W)
  BY <1>1, RingAssumption
<1>3. day[t] = q
  BY DEF RingInv, RingTypes
<1>5. CASE t <= W
  <2>1. MeanReversionSide(day, t, W, DevThresh) = "HOLD"
    BY <1>5 DEF MeanReversionSide
  <2>2. MeanReversion(q) = Hold
    BY <1>2, <1>5 DEF MeanReversion
  <2> QED
    BY <2>1, <2>2 DEF Hold
<1>6. CASE ~(t <= W)
  <2> DEFINE past == [k \in 1 .. W |-> Past(k)]
             halves == [i \in (t - W) .. (t - 1) |-> MidHalfCents(day[i])]
  <2>1. \A k \in 1 .. W : halves[t - k] \in Int /\ past[k] = halves[t - k]
    <3>1. ASSUME NEW k \in 1 .. W
          PROVE  halves[t - k] \in Int /\ past[k] = halves[t - k]
      <4>1. k \in 1 .. RingSize - 1 /\ k <= Len(history) /\ t - k \in (t - W) .. (t - 1)
        BY <1>1, <1>2, <1>6, RingAssumption
      <4>2. Past(k) \in Nat /\ Past(k) = MidHalfCents(day[t - k])
        BY <4>1, RingIsPast
      <4> QED
        BY <4>1, <4>2
    <3> QED
      BY <3>1
  <2>2. SumFunctionOnSet(past, 1 .. W) = SumFunctionOnSet(halves, t - W .. t - 1)
    <3>1. t \in Int
      BY <1>1
    <3> HIDE DEF past, halves, t, W
    <3> QED
      BY <1>2, <2>1, <3>1, SumBackwards
  <2> DEFINE sum == SumFunctionOnSet(past, 1 .. W)
             dev == MidHalfCents(q) * W - sum
             up   == dev * DevThresh.den >= DevThresh.num * sum
             down == dev * DevThresh.den <= -(DevThresh.num * sum)
  <2>3. MeanReversion(q) = IF up THEN Decide("SELL", LotQty, q.ask)
                           ELSE IF down THEN Decide("BUY", LotQty, q.bid) ELSE Hold
    BY <1>2, <1>6 DEF MeanReversion
  <2>4. HistoricalSum(day, t, W) = sum
    BY <2>2 DEF HistoricalSum
  <2>5. MeanReversionSide(day, t, W, DevThresh)
          = IF up THEN "SELL" ELSE IF down THEN "BUY" ELSE "HOLD"
    BY <1>3, <1>6, <2>4 DEF MeanReversionSide
  <2> HIDE DEF up, down
  <2> QED
    BY <2>3, <2>5 DEF Decide, Hold
<1> QED
  BY <1>5, <1>6

LEMMA DecidesInit == Init => DecidesAsBacktest
<1>1. Init => Len(history) = 0
  BY DEF Init
<1> QED
  BY <1>1 DEF DecidesAsBacktest, Ticks

LEMMA DecidesNext ==
  ASSUME RingInv, NEW q \in Quotes, NEW pos, EngineTick(q, pos)
  PROVE  DecidesAsBacktest'
<1>1. /\ decision' = StrategyTable(active_strategy_id, q, pos)
      /\ history' = Append(history, q)
      /\ active_strategy_id' = active_strategy_id
  BY DEF EngineTick
<1>2. /\ Ticks' = Len(history) + 1
      /\ history'[Ticks'] = q
  BY <1>1 DEF Ticks, RingInv, RingTypes
<1>3. ASSUME active_strategy_id = 0
      PROVE  decision' = Aggressive(MomentumSide(history', Ticks', LookbackTicks, EntryThresh),
                           history'[Ticks'], OrderQuantity(BaseLot, PosScalar))
  <2>1. decision' = Momentum(q)
    BY <1>1, <1>3 DEF StrategyTable
  <2> QED
    BY <1>1, <1>2, <2>1, MomentumAgrees
<1>4. ASSUME active_strategy_id = 1
      PROVE  decision'.side = MeanReversionSide(history', Ticks', Window, DevThresh)
  <2>1. decision' = MeanReversion(q)
    BY <1>1, <1>4 DEF StrategyTable
  <2> QED
    BY <1>1, <1>2, <2>1, MeanReversionAgrees
<1> QED
  BY <1>1, <1>3, <1>4 DEF DecidesAsBacktest

\* A step of the session is a tick of the engine, or leaves the day alone.
LEMMA SessionMoves ==
  ASSUME [SessionNext]_session_vars
  PROVE  (\E q \in Quotes : DayTick(q, settled)) \/ UNCHANGED day_vars
<1>1. CASE SessionTick
  BY <1>1 DEF SessionTick
<1>2. CASE SessionSend
  BY <1>2 DEF SessionSend, Core!ExecuteOrder, engine, day_vars, vars, rollingState
<1>3. CASE CoreStep
  <2>1. decision' = decision
    BY <1>3
    DEF CoreStep, Core!FeedExhausted, Core!GetSnapshot, Core!RiskReject,
        Core!RiskApprove, Core!InsertOrder, Core!TableFull, Core!CleanStart,
        Core!FillSlot, Core!SkipSlot, Core!NextSlot
  <2> QED
    BY <1>3, <2>1 DEF CoreStep, engine, day_vars, vars, rollingState
<1>4. CASE UNCHANGED session_vars
  BY <1>4 DEF session_vars, engine, day_vars, vars, rollingState
<1> QED
  BY <1>1, <1>2, <1>3, <1>4 DEF SessionNext

LiveInv == RingInv /\ DecidesAsBacktest

LEMMA LiveNext ==
  ASSUME LiveInv, [SessionNext]_session_vars
  PROVE  LiveInv'
<1>1. CASE \E q \in Quotes : DayTick(q, settled)
  BY <1>1, TickKeepsRing, DecidesNext DEF LiveInv, DayTick
<1>2. CASE UNCHANGED day_vars
  <2>1. /\ active_strategy_id' = active_strategy_id /\ mid_ring' = mid_ring
        /\ write_idx' = write_idx /\ count' = count
        /\ history' = history /\ decision' = decision
    BY <1>2 DEF day_vars, vars, rollingState
  <2>2. RingInv'
    BY <2>1 DEF LiveInv, RingInv, RingTypes, RingHoldsLatest, Ticks, Past, RingIndex
  <2>3. DecidesAsBacktest'
    BY <2>1 DEF LiveInv, DecidesAsBacktest, Ticks
  <2> QED
    BY <2>2, <2>3 DEF LiveInv
<1> QED
  BY <1>1, <1>2, SessionMoves

\* Whatever the day, the ring and its wraparounds show the live strategies what
\* the arrays show the backtest, so they decide alike.
THEOREM LiveIsBacktest == SessionSpec => []LiveFollowsHistory
<1>1. SessionInit => LiveInv
  BY RingInit, DecidesInit DEF SessionInit, DayInit, LiveInv
<1>2. LiveInv /\ [SessionNext]_session_vars => LiveInv'
  BY LiveNext
<1>3. LiveInv => LiveFollowsHistory
  BY DEF LiveInv, RingInv, LiveFollowsHistory
<1> QED
  BY <1>1, <1>2, <1>3, PTL DEF SessionSpec

----------------------------------------------------------------------------
(* The health check.                                                       *)

\* A threshold crossing, on whichever side.
LEMMA CrossingSides ==
  ASSUME NEW d \in Int, NEW m \in Nat, NEW thresh \in Fraction
  PROVE  (d * thresh.den >= thresh.num * m \/ d * thresh.den <= -(thresh.num * m))
           <=> Magnitude(d) * thresh.den >= thresh.num * m
<1>1. thresh.num \in Nat /\ thresh.den \in Nat \ {0}
  BY DEF Fraction
<1> DEFINE x == d * thresh.den
           y == thresh.num * m
<1>2. x \in Int /\ y \in Nat
  BY <1>1
<1>3. (-d) * thresh.den = -x
  BY <1>1
<1>4. d >= 0 => x >= 0
  BY <1>1
<1>5. d < 0 => x <= 0
  BY <1>1
<1>6. Magnitude(d) * thresh.den = IF d < 0 THEN -x ELSE x
  BY <1>3 DEF Magnitude
<1> HIDE DEF x, y
<1>7. (x >= y \/ x <= -y) <=> (IF d < 0 THEN -x ELSE x) >= y
  BY <1>2, <1>4, <1>5
<1> QED
  BY <1>6, <1>7 DEF x, y

Day == Seq(Quotes)

LEMMA DayShape ==
  ASSUME NEW day \in Day
  PROVE  /\ Len(day) \in Nat /\ DOMAIN day = 1 .. Len(day)
         /\ \A t \in 1 .. Len(day) : day[t] \in Quotes /\ MidHalfCents(day[t]) \in Nat
<1>1. Len(day) \in Nat /\ DOMAIN day = 1 .. Len(day)
  BY DEF Day
<1>2. \A t \in 1 .. Len(day) : day[t] \in Quotes
  BY DEF Day
<1> QED
  BY <1>1, <1>2, MidType

MidsOf(day) == [t \in DOMAIN day |-> MidHalfCents(day[t])]

LEMMA MidsShape ==
  ASSUME NEW day \in Day
  PROVE  /\ Len(MidsOf(day)) = Len(day)
         /\ \A t \in 1 .. Len(day) : /\ MidsOf(day)[t] = MidHalfCents(day[t])
                                     /\ MidsOf(day)[t] \in Nat
<1>1. /\ Len(day) \in Nat /\ DOMAIN day = 1 .. Len(day)
      /\ \A t \in 1 .. Len(day) : MidHalfCents(day[t]) \in Nat
  BY DayShape
<1>2. MidsOf(day) = [t \in 1 .. Len(day) |-> MidHalfCents(day[t])]
  BY <1>1 DEF MidsOf
<1>3. DOMAIN MidsOf(day) = 1 .. Len(day) /\ MidsOf(day) \in Seq(Nat)
  BY <1>1, <1>2
<1>4. Len(MidsOf(day)) = Len(day)
  BY <1>1, <1>3
<1> QED
  BY <1>1, <1>2, <1>4

\* A row of the health check crosses exactly when the strategy signals on the
\* tick it belongs to.
MomentumRows(day, lookback) == MomentumRatio(MidsOf(day), lookback)
LEMMA MomentumRow ==
  ASSUME NEW day \in Day, NEW L \in Nat \ {0}, NEW thresh \in Fraction,
         NEW t \in L + 1 .. Len(day)
  PROVE  LET row == MomentumRows(day, L)[t - L]
         IN  /\ row.num \in Nat /\ row.den = MidHalfCents(day[t])
             /\ MomentumSide(day, t, L, thresh) # "HOLD" <=> AtLeast(row, thresh)
<1> DEFINE mid == MidHalfCents(day[t])
           d   == mid - MidHalfCents(day[t - L])
           row == MomentumRows(day, L)[t - L]
<1>1. /\ Len(day) \in Nat /\ t \in 1 .. Len(day) /\ t - L \in 1 .. Len(day)
      /\ t - L \in 1 .. Len(day) - L /\ (t - L) + L = t /\ ~(t <= L)
  BY DayShape
<1>2. mid \in Nat /\ MidHalfCents(day[t - L]) \in Nat
  BY <1>1, DayShape
<1>3. row = [num |-> Magnitude(d), den |-> mid]
  <2>1. row = [num |-> Magnitude(MidsOf(day)[t] - MidsOf(day)[t - L]), den |-> MidsOf(day)[t]]
    BY <1>1, MidsShape DEF MomentumRows, MomentumRatio
  <2> QED
    BY <1>1, <2>1, MidsShape
<1>4. d \in Int
  BY <1>2
<1>5. MomentumSide(day, t, L, thresh) # "HOLD"
        <=> (d * thresh.den >= thresh.num * mid \/ d * thresh.den <= -(thresh.num * mid))
  BY <1>1 DEF MomentumSide
<1> HIDE DEF mid, d, row
<1>6. AtLeast(row, thresh) <=> Magnitude(d) * thresh.den >= thresh.num * mid
  BY <1>3 DEF AtLeast
<1>7. Magnitude(d) \in Nat
  BY <1>4 DEF Magnitude
<1> QED
  BY <1>2, <1>3, <1>4, <1>5, <1>6, <1>7, CrossingSides DEF mid, row

MeanReversionRows(day, window) == MeanReversionDeviation(MidsOf(day), window)
LEMMA MeanReversionRow ==
  ASSUME NEW day \in Day, NEW W \in Nat \ {0}, NEW thresh \in Fraction,
         NEW t \in W + 1 .. Len(day)
  PROVE  MeanReversionSide(day, t, W, thresh) # "HOLD"
           <=> AtLeast(MeanReversionRows(day, W)[t - W], thresh)
<1> DEFINE mid == MidHalfCents(day[t])
           at  == MidsOf(day)
           sum == HistoricalSum(day, t, W)
           d   == mid * W - sum
           row == MeanReversionRows(day, W)[t - W]
           a   == t - W - 1
<1>1. /\ Len(day) \in Nat /\ t \in 1 .. Len(day) /\ ~(t <= W)
      /\ t - W \in 1 .. Len(day) - W /\ (t - W) + W = t
      /\ t \in 1 .. Len(day) + 1 /\ t - W \in 1 .. Len(day) + 1
      /\ a \in Nat /\ a + 1 = t - W /\ a + W = t - 1 /\ (t - W) - 1 = a
  BY DayShape
<1>2. mid \in Nat
  BY <1>1, DayShape
<1>3. Len(at) = Len(day) /\ \A i \in 1 .. Len(day) : at[i] = MidHalfCents(day[i]) /\ at[i] \in Nat
  BY MidsShape
<1>4. sum = SumFunctionOnSet(at, t - W .. t - 1) /\ sum \in Nat
  <2> DEFINE v == [i \in (t - W) .. (t - 1) |-> MidHalfCents(day[i])]
  <2>1. \A i \in t - W .. t - 1 : i \in 1 .. Len(day)
    BY <1>1
  <2>2. \A i \in t - W .. t - 1 : v[i] = at[i] /\ at[i] \in Nat
    BY <1>3, <2>1
  <2>3. IsFiniteSet(t - W .. t - 1)
    BY <1>1, FS_Interval
  <2>4. sum = SumFunctionOnSet(v, t - W .. t - 1)
    BY DEF HistoricalSum
  <2> HIDE DEF v, sum, at
  <2>5. sum = SumFunctionOnSet(at, t - W .. t - 1)
    BY <2>2, <2>3, <2>4, SumSame DEF Weighs
  <2>6. SumFunctionOnSet(at, t - W .. t - 1) \in Nat
    BY <2>2, <2>3, SumNat
  <2> QED
    BY <2>5, <2>6
<1>5. PrefixSums(at)[t] - PrefixSums(at)[t - W] = sum
  <2>1. /\ PrefixSums(at)[t] = SumFunctionOnSet(at, 1 .. a + W)
        /\ PrefixSums(at)[t - W] = SumFunctionOnSet(at, 1 .. a)
    <3> HIDE DEF at
    <3> QED
      BY <1>1, <1>3 DEF PrefixSums
  <2>2. Weighs(at, 1 .. a + W)
    <3>1. \A i \in 1 .. a + W : i \in 1 .. Len(day)
      BY <1>1
    <3> HIDE DEF at
    <3> QED
      BY <1>3, <3>1 DEF Weighs
  <2>3. /\ SumFunctionOnSet(at, 1 .. a) \in Int
        /\ SumFunctionOnSet(at, a + 1 .. a + W) \in Int
        /\ SumFunctionOnSet(at, 1 .. a + W)
             = SumFunctionOnSet(at, 1 .. a) + SumFunctionOnSet(at, a + 1 .. a + W)
    <3> HIDE DEF at, a
    <3> QED
      BY <1>1, <2>2, SumSplit
  <2>4. sum = SumFunctionOnSet(at, a + 1 .. a + W)
    BY <1>1, <1>4
  <2> HIDE DEF at, sum
  <2> QED
    BY <2>1, <2>3, <2>4
<1>6. row = [num |-> Magnitude(d), den |-> sum]
  <2> DEFINE s(i) == PrefixSums(at)[i + W] - PrefixSums(at)[i]
  <2>1. row = [num |-> Magnitude(at[(t - W) + W] * W - s(t - W)), den |-> s(t - W)]
    <3> HIDE DEF at
    <3> QED
      BY <1>1, <1>3 DEF MeanReversionRows, MeanReversionDeviation, at
  <2>2. s(t - W) = sum /\ at[(t - W) + W] = mid
    BY <1>1, <1>3, <1>5
  <2> HIDE DEF s, at, sum
  <2> QED
    BY <2>1, <2>2
<1>7. MeanReversionSide(day, t, W, thresh) # "HOLD"
        <=> (d * thresh.den >= thresh.num * sum \/ d * thresh.den <= -(thresh.num * sum))
  BY <1>1 DEF MeanReversionSide
<1> HIDE DEF mid, sum, row
<1>8. d \in Int
  BY <1>2, <1>4
<1> HIDE DEF d
<1>9. AtLeast(row, thresh) <=> Magnitude(d) * thresh.den >= thresh.num * sum
  BY <1>6 DEF AtLeast
<1> QED
  BY <1>4, <1>7, <1>8, <1>9, CrossingSides DEF row

\* The rows that cross, of rows 1 .. n.
Crossing(rows, n, thresh) == {i \in 1 .. n : AtLeast(rows[i], thresh)}

\* The warmed-up ticks of a day on which a strategy with this side signals.
LEMMA CountShape ==
  ASSUME NEW day \in Day, NEW back \in Nat \ {0}, NEW thresh
  PROVE  /\ CountAtLeast(MomentumRows(day, back), thresh)
              = Cardinality(Crossing(MomentumRows(day, back), Len(day) - back, thresh))
         /\ CountAtLeast(MeanReversionRows(day, back), thresh)
              = Cardinality(Crossing(MeanReversionRows(day, back), Len(day) - back, thresh))
<1>1. /\ DOMAIN MomentumRows(day, back) = 1 .. Len(day) - back
      /\ DOMAIN MeanReversionRows(day, back) = 1 .. Len(day) - back
  BY MidsShape DEF MomentumRows, MomentumRatio, MeanReversionRows, MeanReversionDeviation
<1> QED
  BY <1>1 DEF CountAtLeast, Crossing

LEMMA CrossingsCount ==
  ASSUME NEW n \in Int, NEW rows, NEW thresh
  PROVE  /\ Crossing(rows, n, thresh) \subseteq 1 .. n
         /\ IsFiniteSet(Crossing(rows, n, thresh))
         /\ Cardinality(Crossing(rows, n, thresh)) \in Nat
<1> DEFINE C == Crossing(rows, n, thresh)
<1>1. C \subseteq 1 .. n
  BY DEF Crossing
<1>2. IsFiniteSet(1 .. n)
  BY FS_Interval
<1> HIDE DEF C
<1>3. IsFiniteSet(C) /\ Cardinality(C) \in Nat
  BY <1>1, <1>2, FS_Subset, FS_CardinalityType
<1> QED
  BY <1>1, <1>3 DEF C

\* One row more.
LEMMA CrossingNext ==
  ASSUME NEW n \in Int, NEW rows, NEW more, NEW thresh,
         \A i \in 1 .. n : more[i] = rows[i]
  PROVE  /\ n + 1 < 1 => Cardinality(Crossing(more, n + 1, thresh)) = Cardinality(Crossing(rows, n, thresh))
         /\ n + 1 >= 1 =>
              Cardinality(Crossing(more, n + 1, thresh)) =
                Cardinality(Crossing(rows, n, thresh))
                  + (IF AtLeast(more[n + 1], thresh) THEN 1 ELSE 0)
<1>1. CASE n + 1 < 1
  <2>1. Crossing(more, n + 1, thresh) = {} /\ Crossing(rows, n, thresh) = {}
    BY <1>1 DEF Crossing
  <2> QED
    BY <1>1, <2>1
<1>2. CASE n + 1 >= 1
  <2>1. n \in Nat /\ 1 .. n + 1 = (1 .. n) \cup {n + 1} /\ n + 1 \notin 1 .. n
    BY <1>2
  <2> DEFINE C == Crossing(rows, n, thresh)
  <2>2. C \subseteq 1 .. n /\ IsFiniteSet(C) /\ Cardinality(C) \in Nat
    BY CrossingsCount
  <2>3. Crossing(more, n + 1, thresh)
          = IF AtLeast(more[n + 1], thresh) THEN C \cup {n + 1} ELSE C
    BY <2>1 DEF Crossing
  <2> HIDE DEF C
  <2>4. n + 1 \notin C /\ Cardinality(C \cup {n + 1}) = Cardinality(C) + 1
    BY <2>1, <2>2, FS_AddElement
  <2> QED
    BY <1>2, <2>2, <2>3, <2>4 DEF C
<1> QED
  BY <1>1, <1>2

\* A tick more leaves the earlier rows as they were.
LEMMA RowsStay ==
  ASSUME NEW day \in Day, NEW q \in Quotes, NEW back \in Nat \ {0},
         NEW i \in 1 .. Len(day) - back
  PROVE  /\ MomentumRows(Append(day, q), back)[i] = MomentumRows(day, back)[i]
         /\ MeanReversionRows(Append(day, q), back)[i] = MeanReversionRows(day, back)[i]
<1> DEFINE more == Append(day, q)
           at   == MidsOf(day)
           next == MidsOf(more)
<1>1. /\ more \in Day /\ Len(more) = Len(day) + 1 /\ Len(day) \in Nat
      /\ \A t \in 1 .. Len(day) : more[t] = day[t]
  BY DEF Day
<1>2. /\ Len(next) = Len(day) + 1 /\ Len(at) = Len(day)
      /\ \A t \in 1 .. Len(day) : next[t] = at[t] /\ at[t] \in Nat
  <2>1. /\ Len(next) = Len(more) /\ Len(at) = Len(day)
        /\ \A t \in 1 .. Len(more) : next[t] = MidHalfCents(more[t])
        /\ \A t \in 1 .. Len(day) : at[t] = MidHalfCents(day[t]) /\ at[t] \in Nat
    <3> HIDE DEF more
    <3> QED
      BY <1>1, MidsShape
  <2>2. \A t \in 1 .. Len(day) : t \in 1 .. Len(more)
    BY <1>1
  <2> HIDE DEF at, next, more
  <2> QED
    BY <1>1, <2>1, <2>2
<1>3. /\ i \in 1 .. Len(day) /\ i + back \in 1 .. Len(day)
      /\ i \in 1 .. Len(next) - back /\ i \in 1 .. Len(at) - back
      /\ i \in 1 .. Len(next) + 1 /\ i + back \in 1 .. Len(next) + 1
      /\ i \in 1 .. Len(at) + 1 /\ i + back \in 1 .. Len(at) + 1
  BY <1>1, <1>2
<1>4. MomentumRows(more, back)[i] = MomentumRows(day, back)[i]
  <2> HIDE DEF at, next
  <2>1. MomentumRatio(next, back)[i] = MomentumRatio(at, back)[i]
    BY <1>2, <1>3 DEF MomentumRatio
  <2> QED
    BY <2>1 DEF MomentumRows, at, next
<1>5. ASSUME NEW k \in Nat, k <= Len(day)
      PROVE  SumFunctionOnSet(next, 1 .. k) = SumFunctionOnSet(at, 1 .. k)
  <2>1. \A t \in 1 .. k : next[t] = at[t] /\ at[t] \in Int
    BY <1>1, <1>2, <1>5
  <2>2. IsFiniteSet(1 .. k)
    BY FS_Interval
  <2> HIDE DEF at, next
  <2> QED
    BY <2>1, <2>2, SumSame DEF Weighs
<1>6. /\ PrefixSums(next)[i] = PrefixSums(at)[i]
      /\ PrefixSums(next)[i + back] = PrefixSums(at)[i + back]
  <2>1. /\ i - 1 \in Nat /\ i - 1 <= Len(day)
        /\ i + back - 1 \in Nat /\ i + back - 1 <= Len(day)
    BY <1>1, <1>3
  <2> HIDE DEF at, next
  <2> QED
    BY <1>3, <1>5, <2>1 DEF PrefixSums
<1>7. MeanReversionRows(more, back)[i] = MeanReversionRows(day, back)[i]
  <2> HIDE DEF at, next
  <2>1. MeanReversionDeviation(next, back)[i] = MeanReversionDeviation(at, back)[i]
    BY <1>2, <1>3, <1>6 DEF MeanReversionDeviation
  <2> QED
    BY <2>1 DEF MeanReversionRows, at, next
<1> QED
  BY <1>4, <1>7

\* What the health check counts grows with the signals of the strategy.
LEMMA CountNext ==
  ASSUME NEW day \in Day, NEW q \in Quotes, NEW back \in Nat \ {0}, NEW thresh \in Fraction
  PROVE  LET more == Append(day, q)
             t    == Len(day) + 1
         IN  /\ CountAtLeast(MomentumRows(more, back), thresh) =
                  CountAtLeast(MomentumRows(day, back), thresh)
                    + (IF MomentumSide(more, t, back, thresh) = "HOLD" THEN 0 ELSE 1)
             /\ CountAtLeast(MeanReversionRows(more, back), thresh) =
                  CountAtLeast(MeanReversionRows(day, back), thresh)
                    + (IF MeanReversionSide(more, t, back, thresh) = "HOLD" THEN 0 ELSE 1)
<1> DEFINE more == Append(day, q)
           t    == Len(day) + 1
           n    == Len(day) - back
<1>1. /\ more \in Day /\ Len(more) = t /\ Len(day) \in Nat
      /\ n \in Int /\ Len(more) - back = n + 1 /\ t - back = n + 1
      /\ n + 1 < 1 <=> t <= back
      /\ n + 1 >= 1 <=> t \in back + 1 .. Len(more)
  BY DEF Day
<1>2. ASSUME NEW rows, NEW wider, NEW side,
             \A i \in 1 .. n : wider[i] = rows[i],
             t <= back => side = "HOLD",
             t \in back + 1 .. Len(more) => (side # "HOLD" <=> AtLeast(wider[t - back], thresh))
      PROVE  Cardinality(Crossing(wider, n + 1, thresh)) =
               Cardinality(Crossing(rows, n, thresh)) + (IF side = "HOLD" THEN 0 ELSE 1)
  <2>1. Cardinality(Crossing(rows, n, thresh)) \in Nat
    BY <1>1, CrossingsCount
  <2>2. n + 1 < 1 \/ n + 1 >= 1
    BY <1>1
  <2> HIDE DEF n, t, more
  <2>3. CASE n + 1 < 1
    <3>1. Cardinality(Crossing(wider, n + 1, thresh)) = Cardinality(Crossing(rows, n, thresh))
      <4>1. n \in Int /\ \A i \in 1 .. n : wider[i] = rows[i]
        BY <1>1, <1>2
      <4> QED
        BY <2>3, <4>1, CrossingNext
    <3>2. side = "HOLD"
      BY <1>1, <1>2, <2>3
    <3> QED
      BY <2>1, <3>1, <3>2
  <2>4. CASE n + 1 >= 1
    <3>1. Cardinality(Crossing(wider, n + 1, thresh)) =
            Cardinality(Crossing(rows, n, thresh))
              + (IF AtLeast(wider[n + 1], thresh) THEN 1 ELSE 0)
      BY <1>1, <1>2, <2>4, CrossingNext
    <3>2. side # "HOLD" <=> AtLeast(wider[n + 1], thresh)
      BY <1>1, <1>2, <2>4
    <3> QED
      BY <3>1, <3>2
  <2> QED
    BY <2>2, <2>3, <2>4
<1>3. Cardinality(Crossing(MomentumRows(more, back), n + 1, thresh)) =
        Cardinality(Crossing(MomentumRows(day, back), n, thresh))
          + (IF MomentumSide(more, t, back, thresh) = "HOLD" THEN 0 ELSE 1)
  <2>1. \A i \in 1 .. n : MomentumRows(more, back)[i] = MomentumRows(day, back)[i]
    BY RowsStay
  <2>2. t <= back => MomentumSide(more, t, back, thresh) = "HOLD"
    BY DEF MomentumSide
  <2>3. t \in back + 1 .. Len(more) =>
          (MomentumSide(more, t, back, thresh) # "HOLD"
             <=> AtLeast(MomentumRows(more, back)[t - back], thresh))
    BY <1>1, MomentumRow
  <2> DEFINE rows == MomentumRows(day, back)
             wider == MomentumRows(more, back)
             side == MomentumSide(more, t, back, thresh)
  <2> HIDE DEF n, t, more, rows, wider, side
  <2> QED
    BY <1>2, <2>1, <2>2, <2>3 DEF rows, wider, side
<1>4. Cardinality(Crossing(MeanReversionRows(more, back), n + 1, thresh)) =
        Cardinality(Crossing(MeanReversionRows(day, back), n, thresh))
          + (IF MeanReversionSide(more, t, back, thresh) = "HOLD" THEN 0 ELSE 1)
  <2>1. \A i \in 1 .. n : MeanReversionRows(more, back)[i] = MeanReversionRows(day, back)[i]
    BY RowsStay
  <2>2. t <= back => MeanReversionSide(more, t, back, thresh) = "HOLD"
    BY DEF MeanReversionSide
  <2>3. t \in back + 1 .. Len(more) =>
          (MeanReversionSide(more, t, back, thresh) # "HOLD"
             <=> AtLeast(MeanReversionRows(more, back)[t - back], thresh))
    BY <1>1, MeanReversionRow
  <2> HIDE DEF n, t, more
  <2> QED
    BY <1>2, <2>1, <2>2, <2>3
<1>5. /\ CountAtLeast(MomentumRows(more, back), thresh)
           = Cardinality(Crossing(MomentumRows(more, back), n + 1, thresh))
      /\ CountAtLeast(MeanReversionRows(more, back), thresh)
           = Cardinality(Crossing(MeanReversionRows(more, back), n + 1, thresh))
  <2>1. back \in Nat \ {0} /\ more \in Day /\ Len(more) - back = n + 1
    BY <1>1
  <2> HIDE DEF more, n
  <2> QED
    BY <2>1, CountShape
<1>6. /\ CountAtLeast(MomentumRows(day, back), thresh)
           = Cardinality(Crossing(MomentumRows(day, back), n, thresh))
      /\ CountAtLeast(MeanReversionRows(day, back), thresh)
           = Cardinality(Crossing(MeanReversionRows(day, back), n, thresh))
  BY CountShape
<1> QED
  BY <1>3, <1>4, <1>5, <1>6

LEMMA MidsAre == mids = MidsOf(history)
  BY DEF mids, MidsOf

LEMMA Parameters ==
  /\ LookbackTicks \in Nat \ {0} /\ EntryThresh \in Fraction
  /\ Window \in Nat \ {0} /\ DevThresh \in Fraction
  BY RingAssumption, ParamsAssumption

LEMMA HealthInit == DayInit => HealthCountsSignals
<1> SUFFICES ASSUME DayInit PROVE HealthCountsSignals
  OBVIOUS
<1>1. history = <<>> /\ signalled = 0
  BY DEF DayInit, Init
<1>2. history \in Day /\ Len(history) = 0
  BY <1>1 DEF Day
<1>3. ASSUME NEW rows, NEW back \in Nat \ {0}, NEW thresh
      PROVE  Cardinality(Crossing(rows, 0 - back, thresh)) = 0
  <2>1. Crossing(rows, 0 - back, thresh) = {}
    BY DEF Crossing
  <2> QED
    BY <2>1, FS_EmptySet
<1>4. /\ CountAtLeast(MomentumRows(history, LookbackTicks), EntryThresh) = 0
      /\ CountAtLeast(MeanReversionRows(history, Window), DevThresh) = 0
  <2>1. LookbackTicks \in Nat \ {0} /\ Window \in Nat \ {0}
    BY Parameters
  <2>2. /\ CountAtLeast(MomentumRows(history, LookbackTicks), EntryThresh)
            = Cardinality(Crossing(MomentumRows(history, LookbackTicks),
                                   0 - LookbackTicks, EntryThresh))
        /\ CountAtLeast(MeanReversionRows(history, Window), DevThresh)
            = Cardinality(Crossing(MeanReversionRows(history, Window), 0 - Window, DevThresh))
    BY <1>2, <2>1, CountShape
  <2> QED
    BY <1>3, <2>1, <2>2
<1> QED
  BY <1>1, <1>4, MidsAre DEF HealthCountsSignals, MomentumRows, MeanReversionRows

LEMMA HealthNext ==
  ASSUME RingInv, DecidesAsBacktest', HealthCountsSignals,
         [SessionNext]_session_vars
  PROVE  HealthCountsSignals'
<1>1. CASE UNCHANGED day_vars
  BY <1>1 DEF day_vars, vars, HealthCountsSignals, mids
<1>2. CASE \E q \in Quotes : DayTick(q, settled)
  <2>1. PICK q \in Quotes : history' = Append(history, q)
    BY <1>2 DEF DayTick, EngineTick
  <2>2. /\ active_strategy_id' = active_strategy_id
        /\ signalled' = IF decision'.side = "HOLD" THEN signalled ELSE signalled + 1
    BY <1>2 DEF DayTick, EngineTick
  <2>3. history \in Day /\ history' \in Day /\ Ticks' = Len(history) + 1
        /\ Ticks' > 0
    BY <2>1 DEF RingInv, RingTypes, Day, Ticks
  <2>4. mids' = MidsOf(history')
    BY DEF mids, MidsOf
  <2>5. ASSUME active_strategy_id = 0
        PROVE  signalled' = CountAtLeast(MomentumRatio(mids', LookbackTicks), EntryThresh)
    <3>1. decision'.side = MomentumSide(history', Ticks', LookbackTicks, EntryThresh)
      BY <2>2, <2>3, <2>5 DEF DecidesAsBacktest, Aggressive, Hold
    <3>2. signalled = CountAtLeast(MomentumRows(history, LookbackTicks), EntryThresh)
      BY <2>5, MidsAre DEF HealthCountsSignals, MomentumRows
    <3>3. CountAtLeast(MomentumRows(history', LookbackTicks), EntryThresh) =
            signalled + (IF decision'.side = "HOLD" THEN 0 ELSE 1)
      BY <2>1, <2>3, <3>1, <3>2, Parameters, CountNext
    <3>4. signalled \in Nat
      <4>1. signalled = Cardinality(Crossing(MomentumRows(history, LookbackTicks),
                                             Len(history) - LookbackTicks, EntryThresh))
        BY <2>3, <3>2, Parameters, CountShape
      <4>2. Len(history) - LookbackTicks \in Int
        BY <2>3, Parameters, DayShape
      <4> QED
        BY <4>1, <4>2, CrossingsCount
    <3> QED
      BY <2>2, <2>4, <3>3, <3>4 DEF MomentumRows
  <2>6. ASSUME active_strategy_id = 1
        PROVE  signalled' = CountAtLeast(MeanReversionDeviation(mids', Window), DevThresh)
    <3>1. decision'.side = MeanReversionSide(history', Ticks', Window, DevThresh)
      BY <2>2, <2>3, <2>6 DEF DecidesAsBacktest
    <3>2. signalled = CountAtLeast(MeanReversionRows(history, Window), DevThresh)
      BY <2>6, MidsAre DEF HealthCountsSignals, MeanReversionRows
    <3>3. CountAtLeast(MeanReversionRows(history', Window), DevThresh) =
            signalled + (IF decision'.side = "HOLD" THEN 0 ELSE 1)
      BY <2>1, <2>3, <3>1, <3>2, Parameters, CountNext
    <3>4. signalled \in Nat
      <4>1. signalled = Cardinality(Crossing(MeanReversionRows(history, Window),
                                             Len(history) - Window, DevThresh))
        BY <2>3, <3>2, Parameters, CountShape
      <4>2. Len(history) - Window \in Int
        BY <2>3, Parameters, DayShape
      <4> QED
        BY <4>1, <4>2, CrossingsCount
    <3> QED
      BY <2>2, <2>4, <3>3, <3>4 DEF MeanReversionRows
  <2> QED
    BY <2>2, <2>5, <2>6 DEF HealthCountsSignals
<1> QED
  BY <1>1, <1>2, SessionMoves

----------------------------------------------------------------------------
(* The suggested threshold.                                                *)

\* Fractions are ordered by their values.
LEMMA RatiosAreOrdered ==
  ASSUME NEW a \in Fraction, NEW b \in Fraction, NEW c \in Fraction
  PROVE  /\ AtLeast(a, b) \/ AtLeast(b, a)
         /\ AtLeast(a, b) /\ AtLeast(b, c) => AtLeast(a, c)
<1> DEFINE an == a.num  bn == b.num  cn == c.num
           ad == a.den  bd == b.den  cd == c.den
<1>1. /\ an \in Nat /\ bn \in Nat /\ cn \in Nat
      /\ ad \in Nat \ {0} /\ bd \in Nat \ {0} /\ cd \in Nat \ {0}
  BY DEF Fraction
<1>2. /\ AtLeast(a, b) <=> an * bd >= bn * ad
      /\ AtLeast(b, a) <=> bn * ad >= an * bd
      /\ AtLeast(b, c) <=> bn * cd >= cn * bd
      /\ AtLeast(a, c) <=> an * cd >= cn * ad
  BY DEF AtLeast
<1> HIDE DEF an, bn, cn, ad, bd, cd
<1>3. ASSUME an * bd >= bn * ad, bn * cd >= cn * bd
      PROVE  an * cd >= cn * ad
  <2>1. \A x, y, m \in Nat : x >= y => x * m >= y * m
    OBVIOUS
  <2>2. /\ an * bd \in Nat /\ bn * ad \in Nat /\ bn * cd \in Nat /\ cn * bd \in Nat
        /\ an * cd \in Nat /\ cn * ad \in Nat
    BY <1>1
  <2>3. (an * bd) * cd >= (bn * ad) * cd /\ (bn * cd) * ad >= (cn * bd) * ad
    BY <1>1, <1>3, <2>1, <2>2
  <2>4. /\ (an * bd) * cd = (an * cd) * bd
        /\ (bn * ad) * cd = (bn * cd) * ad
        /\ (cn * bd) * ad = (cn * ad) * bd
    BY <1>1
  <2>5. (an * cd) * bd >= (cn * ad) * bd
    BY <1>1, <2>2, <2>3, <2>4
  <2>6. \A x, y \in Nat, m \in Nat \ {0} : x * m >= y * m => x >= y
    OBVIOUS
  <2> QED
    BY <1>1, <2>2, <2>5, <2>6
<1> QED
  BY <1>1, <1>2, <1>3

\* The rows of a table, and those up to one of them.
Table(n) == [1 .. n -> Fraction]
UpTo(rows, r) == {i \in DOMAIN rows : AtLeast(r, rows[i])}
Below(rows, r) == {i \in DOMAIN rows : ~AtLeast(rows[i], r)}
Rank(rows, i) == Cardinality(UpTo(rows, rows[i]))

LEMMA RanksAgree ==
  ASSUME NEW n \in Nat, NEW rows \in Table(n), NEW i \in 1 .. n, NEW j \in 1 .. n
  PROVE  /\ Rank(rows, i) \in 0 .. n
         /\ AtLeast(rows[i], rows[j]) <=> Rank(rows, j) <= Rank(rows, i)
<1>1. /\ DOMAIN rows = 1 .. n /\ IsFiniteSet(1 .. n) /\ Cardinality(1 .. n) = n
      /\ \A k \in 1 .. n : rows[k] \in Fraction
  BY FS_Interval DEF Table
<1> DEFINE low(k) == UpTo(rows, rows[k])
<1>2. ASSUME NEW k \in 1 .. n
      PROVE  /\ low(k) \subseteq 1 .. n /\ IsFiniteSet(low(k)) /\ k \in low(k)
             /\ Cardinality(low(k)) \in 0 .. n
  <2>1. low(k) \subseteq 1 .. n
    BY <1>1 DEF UpTo
  <2>2. k \in low(k)
    BY <1>1, RatiosAreOrdered DEF UpTo
  <2> HIDE DEF low
  <2>3. IsFiniteSet(low(k)) /\ Cardinality(low(k)) <= n /\ Cardinality(low(k)) \in Nat
    BY <1>1, <2>1, FS_Subset, FS_CardinalityType
  <2> QED
    BY <2>1, <2>2, <2>3
<1>3. ASSUME AtLeast(rows[i], rows[j])  PROVE Rank(rows, j) <= Rank(rows, i)
  <2>1. low(j) \subseteq low(i)
    <3>1. ASSUME NEW k \in low(j)  PROVE k \in low(i)
      <4>1. k \in 1 .. n /\ AtLeast(rows[j], rows[k])
        BY <1>1, <3>1 DEF UpTo
      <4>2. AtLeast(rows[i], rows[k])
        BY <1>1, <1>3, <4>1, RatiosAreOrdered
      <4> QED
        BY <1>1, <4>1, <4>2 DEF UpTo
    <3> QED
      BY <3>1
  <2>2. IsFiniteSet(low(i))
    BY <1>2
  <2> QED
    BY <2>1, <2>2, FS_Subset DEF Rank
<1>4. ASSUME ~AtLeast(rows[i], rows[j])  PROVE Rank(rows, i) < Rank(rows, j)
  <2>1. AtLeast(rows[j], rows[i])
    BY <1>1, <1>4, RatiosAreOrdered
  <2>2. low(i) \subseteq low(j)
    <3>1. ASSUME NEW k \in low(i)  PROVE k \in low(j)
      <4>1. k \in 1 .. n /\ AtLeast(rows[i], rows[k])
        BY <1>1, <3>1 DEF UpTo
      <4>2. AtLeast(rows[j], rows[k])
        BY <1>1, <2>1, <4>1, RatiosAreOrdered
      <4> QED
        BY <1>1, <4>1, <4>2 DEF UpTo
    <3> QED
      BY <3>1
  <2>3. j \in low(j) /\ j \notin low(i) /\ IsFiniteSet(low(j)) /\ IsFiniteSet(low(i))
    BY <1>2, <1>4 DEF UpTo
  <2> HIDE DEF low
  <2>4. Cardinality(low(i)) < Cardinality(low(j))
    <3>1. low(i) # low(j)
      BY <2>3
    <3>2. Cardinality(low(i)) <= Cardinality(low(j)) /\ Cardinality(low(i)) # Cardinality(low(j))
      BY <2>2, <2>3, <3>1, FS_Subset
    <3>3. Cardinality(low(i)) \in Nat /\ Cardinality(low(j)) \in Nat
      BY <2>3, FS_CardinalityType
    <3> QED
      BY <3>2, <3>3
  <2> QED
    BY <2>4 DEF Rank, low
<1>5. Rank(rows, i) \in 0 .. n /\ Rank(rows, j) \in 0 .. n
  BY <1>2 DEF Rank
<1> QED
  BY <1>3, <1>4, <1>5

\* There is a row with at most index rows below it and more up to it: the
\* lowest of those that have more than index rows up to them.
LEMMA PartitionExists ==
  ASSUME NEW n \in Nat \ {0}, NEW rows \in Table(n), NEW index \in 0 .. n - 1
  PROVE  \E k \in 1 .. n : /\ Cardinality(Below(rows, rows[k])) <= index
                           /\ Cardinality(UpTo(rows, rows[k])) > index
<1>1. /\ DOMAIN rows = 1 .. n /\ IsFiniteSet(1 .. n) /\ Cardinality(1 .. n) = n
      /\ \A k \in 1 .. n : rows[k] \in Fraction
  BY FS_Interval DEF Table
<1> DEFINE rank(k) == Rank(rows, k)
<1>2. \A i, j \in 1 .. n : /\ rank(i) \in 0 .. n
                           /\ AtLeast(rows[i], rows[j]) <=> rank(j) <= rank(i)
  BY RanksAgree
<1> HIDE DEF rank
<1>3. ASSUME NEW S \in SUBSET (1 .. n), S # {}
      PROVE  \E h \in S : \A i \in S : rank(i) <= rank(h)
  <2> DEFINE ranks == {rank(i) : i \in S}
  <2>1. ranks \subseteq 0 .. n /\ ranks # {}
    BY <1>2, <1>3
  <2>2. Max(ranks) \in ranks /\ \A m \in ranks : m <= Max(ranks)
    <3> HIDE DEF ranks
    <3> QED
      BY <2>1, MaxShape
  <2> QED
    BY <2>2
<1> DEFINE Cand == {k \in 1 .. n : rank(k) > index}
<1>4. Cand # {}
  <2>1. 1 .. n # {}
    OBVIOUS
  <2>2. PICK h \in 1 .. n : \A i \in 1 .. n : rank(i) <= rank(h)
    BY <1>3, <2>1
  <2>3. UpTo(rows, rows[h]) = 1 .. n
    BY <1>1, <1>2, <2>2 DEF UpTo
  <2>4. rank(h) = n
    BY <1>1, <2>3 DEF rank, Rank
  <2> QED
    BY <2>4
<1>5. PICK k \in Cand : \A i \in Cand : rank(k) <= rank(i)
  <2> DEFINE ranks == {rank(i) : i \in Cand}
  <2>1. ranks \subseteq Nat /\ ranks # {}
    BY <1>2, <1>4
  <2>2. \E m \in ranks : \A l \in ranks : m <= l
    <3> HIDE DEF ranks
    <3> QED
      BY <2>1, Least
  <2> QED
    BY <2>2
<1>6. Cardinality(UpTo(rows, rows[k])) > index
  BY <1>5 DEF rank, Rank
<1>7. Cardinality(Below(rows, rows[k])) <= index
  <2> DEFINE B == Below(rows, rows[k])
  <2>1. B \subseteq 1 .. n /\ \A i \in B : rank(i) < rank(k)
    BY <1>1, <1>2 DEF Below
  <2>2. CASE B = {}
    BY <2>2, FS_EmptySet
  <2>3. CASE B # {}
    <3>1. PICK h \in B : \A i \in B : rank(i) <= rank(h)
      <4> HIDE DEF B
      <4> QED
        BY <1>3, <2>1, <2>3
    <3>2. h \in 1 .. n /\ rank(h) <= index
      BY <1>2, <1>5, <2>1, <3>1
    <3>3. B \subseteq UpTo(rows, rows[h])
      BY <1>1, <1>2, <2>1, <3>1 DEF UpTo
    <3>4. IsFiniteSet(UpTo(rows, rows[h]))
      BY <1>1, FS_Subset DEF UpTo
    <3>5. Cardinality(B) <= rank(h) /\ Cardinality(B) \in Nat
      <4> HIDE DEF B
      <4>1. IsFiniteSet(B) /\ Cardinality(B) <= Cardinality(UpTo(rows, rows[h]))
        BY <3>3, <3>4, FS_Subset
      <4> QED
        BY <4>1, FS_CardinalityType DEF rank, Rank
    <3> QED
      BY <1>2, <3>2, <3>5
  <2> QED
    BY <2>2, <2>3
<1> QED
  BY <1>5, <1>6, <1>7

\* What np.partition promises of the row it returns.
LEMMA PartitionedIs ==
  ASSUME NEW n \in Nat \ {0}, NEW rows \in Table(n), NEW index \in 0 .. n - 1
  PROVE  LET r == Partitioned(rows, index)
         IN  /\ r \in Fraction
             /\ Cardinality(Below(rows, r)) <= index
             /\ Cardinality(UpTo(rows, r)) > index
<1> DEFINE Fits(r) == /\ Cardinality(Below(rows, r)) <= index
                      /\ Cardinality(UpTo(rows, r)) > index
           Rows == {rows[i] : i \in DOMAIN rows}
<1>1. DOMAIN rows = 1 .. n /\ Rows \subseteq Fraction
  BY DEF Table
<1>2. \E r \in Rows : Fits(r)
  <2>1. PICK k \in 1 .. n : Fits(rows[k])
    BY PartitionExists
  <2> QED
    BY <1>1, <2>1
<1>3. Partitioned(rows, index) = CHOOSE r \in Rows : Fits(r)
  BY DEF Partitioned, Range, Below, UpTo
<1> HIDE DEF Fits, Rows
<1>4. Partitioned(rows, index) \in Rows /\ Fits(Partitioned(rows, index))
  BY <1>2, <1>3, Zenon
<1> QED
  BY <1>1, <1>4 DEF Fits

\* The suggested threshold is reached by as many rows as are wanted, and
\* passed by fewer.
LEMMA ThresholdIsReached ==
  ASSUME NEW n \in Nat \ {0}, NEW rows \in Table(n), NEW target \in Nat \ {0},
         Len(rows) = n
  PROVE  LET thresh == ThresholdForTarget(rows, target)
         IN  /\ thresh \in Fraction
             /\ CountAtLeast(rows, thresh) >= Min({target, n})
             /\ Cardinality({i \in DOMAIN rows : ~AtLeast(thresh, rows[i])}) < target
<1> DEFINE wanted == Min({target, n})
           thresh == ThresholdForTarget(rows, target)
           over   == {i \in DOMAIN rows : ~AtLeast(thresh, rows[i])}
           reach  == {i \in DOMAIN rows : AtLeast(rows[i], thresh)}
<1>1. wanted \in 1 .. n /\ wanted <= target /\ n - wanted \in 0 .. n - 1
  BY MinOfTwo
<1>2. thresh = Partitioned(rows, n - wanted)
  BY DEF ThresholdForTarget
<1>3. /\ thresh \in Fraction
      /\ Cardinality(Below(rows, thresh)) <= n - wanted
      /\ Cardinality(UpTo(rows, thresh)) > n - wanted
  <2> HIDE DEF wanted, thresh
  <2> QED
    BY <1>1, <1>2, PartitionedIs
<1>4. DOMAIN rows = 1 .. n /\ IsFiniteSet(1 .. n) /\ Cardinality(1 .. n) = n
  BY FS_Interval DEF Table
<1> HIDE DEF wanted, thresh
<1>5. ASSUME NEW A, A \subseteq 1 .. n
      PROVE  /\ Cardinality((1 .. n) \ A) = n - Cardinality(A)
             /\ Cardinality(A) \in Nat
  <2>1. IsFiniteSet(A)
    BY <1>4, <1>5, FS_Subset
  <2>2. Cardinality((1 .. n) \ A) = Cardinality(1 .. n) - Cardinality((1 .. n) \cap A)
    BY <1>4, FS_Difference
  <2>3. (1 .. n) \cap A = A
    BY <1>5
  <2> QED
    BY <1>4, <2>1, <2>2, <2>3, FS_CardinalityType
<1>6. /\ reach = (1 .. n) \ Below(rows, thresh) /\ Below(rows, thresh) \subseteq 1 .. n
      /\ over = (1 .. n) \ UpTo(rows, thresh) /\ UpTo(rows, thresh) \subseteq 1 .. n
  BY <1>4 DEF Below, UpTo
<1>7. CountAtLeast(rows, thresh) = Cardinality(reach)
  BY DEF CountAtLeast
<1> HIDE DEF reach, over
<1>8. /\ Cardinality(reach) = n - Cardinality(Below(rows, thresh))
      /\ Cardinality(over) = n - Cardinality(UpTo(rows, thresh))
      /\ Cardinality(Below(rows, thresh)) \in Nat /\ Cardinality(UpTo(rows, thresh)) \in Nat
  BY <1>5, <1>6
<1>9. Cardinality(reach) >= wanted /\ Cardinality(over) < target
  BY <1>1, <1>3, <1>8
<1> QED
  BY <1>3, <1>7, <1>9 DEF wanted, thresh, over

\* The signals of a day are the rows that cross.
LEMMA SignalsAreRows ==
  ASSUME NEW day \in Day, NEW L \in Nat \ {0}, NEW thresh \in Fraction
  PROVE  Cardinality({t \in L + 1 .. Len(day) : MomentumSide(day, t, L, thresh) # "HOLD"})
           = CountAtLeast(MomentumRows(day, L), thresh)
<1> DEFINE n == Len(day) - L
           rows == MomentumRows(day, L)
           S == Crossing(rows, n, thresh)
           T == {t \in L + 1 .. Len(day) : MomentumSide(day, t, L, thresh) # "HOLD"}
           f == [i \in S |-> i + L]
<1>1. Len(day) \in Nat /\ n \in Int
  BY DayShape
<1>2. \A t \in L + 1 .. Len(day) : t \in T <=> t - L \in S
  <2>1. ASSUME NEW t \in L + 1 .. Len(day)
        PROVE  /\ MomentumSide(day, t, L, thresh) # "HOLD" <=> AtLeast(rows[t - L], thresh)
               /\ t - L \in 1 .. n
    BY <1>1, MomentumRow
  <2> QED
    BY <2>1 DEF Crossing
<1>3. S \subseteq 1 .. n /\ T \subseteq L + 1 .. Len(day)
  BY DEF Crossing
<1>4. IsFiniteSet(S)
  <2>1. IsFiniteSet(1 .. n)
    BY <1>1, FS_Interval
  <2> HIDE DEF S
  <2> QED
    BY <1>3, <2>1, FS_Subset
<1>5. Cardinality(T) = Cardinality(S)
  <2> HIDE DEF S, T
  <2>1. \A i \in S : i + L \in L + 1 .. Len(day) /\ (i + L) - L = i
    BY <1>1, <1>3
  <2>2. f \in [S -> T]
    BY <1>2, <2>1
  <2>3. \A i, j \in S : f[i] = f[j] => i = j
    BY <1>1, <1>3
  <2>4. \A t \in T : \E i \in S : f[i] = t
    <3>1. ASSUME NEW t \in T  PROVE t - L \in S /\ (t - L) + L = t
      BY <1>1, <1>2, <1>3
    <3> QED
      BY <3>1
  <2>5. f \in Bijection(S, T)
    BY <2>2, <2>3, <2>4 DEF Bijection, Injection, Surjection, IsInjective
  <2> QED
    BY <1>4, <2>5, FS_Bijection DEF ExistsBijection
<1> QED
  BY <1>5, CountShape

LEMMA SuggestionHolds == RingInv => SuggestionMeetsTarget
<1> SUFFICES ASSUME RingInv, NEW target \in 1 .. Ticks,
                    MomentumRatio(mids, LookbackTicks) # <<>>
             PROVE  LET ratios == MomentumRatio(mids, LookbackTicks)
                        thresh == ThresholdForTarget(ratios, target)
                    IN  /\ Cardinality({t \in LookbackTicks + 1 .. Ticks :
                             MomentumSide(history, t, LookbackTicks, thresh) # "HOLD"})
                               >= Min({target, Len(ratios)})
                        /\ Cardinality({i \in DOMAIN ratios : ~AtLeast(thresh, ratios[i])})
                               < target
  BY DEF SuggestionMeetsTarget
<1> DEFINE L    == LookbackTicks
           rows == MomentumRows(history, L)
           n    == Len(history) - L
           thresh == ThresholdForTarget(rows, target)
<1>1. /\ history \in Day /\ Ticks = Len(history) /\ Len(history) \in Nat
      /\ L \in Nat \ {0} /\ n \in Int /\ target \in Nat \ {0}
  BY Parameters, DayShape DEF RingInv, RingTypes, Day, Ticks
<1>2. rows = MomentumRatio(mids, L)
  BY MidsAre DEF MomentumRows
<1>3. rows = [i \in 1 .. n |-> rows[i]]
  BY <1>1, MidsShape DEF MomentumRows, MomentumRatio
<1>4. n \in Nat \ {0}
  <2>1. CASE n < 1
    <3>1. 1 .. n = {}
      BY <1>1, <2>1
    <3>2. rows = <<>>
      <4> HIDE DEF rows, n
      <4> QED
        BY <1>3, <3>1
    <3> QED
      BY <1>2, <3>2
  <2> QED
    BY <1>1, <2>1
<1>5. ASSUME NEW i \in 1 .. n  PROVE rows[i] \in Fraction
  <2>1. i + L \in L + 1 .. Len(history) /\ (i + L) - L = i
    BY <1>1, <1>5
  <2>2. MidHalfCents(history[i + L]) \in Nat \ {0}
    <3>1. i + L \in 1 .. Len(history)
      BY <1>1, <2>1
    <3>2. history[i + L] \in Quotes
      BY <1>1, <3>1, DayShape
    <3> QED
      BY <3>2, FeedAssumption DEF MidHalfCents, Quote
  <2>3. rows[i].num \in Nat /\ rows[i].den = MidHalfCents(history[i + L])
    <3>1. rows[(i + L) - L].num \in Nat
          /\ rows[(i + L) - L].den = MidHalfCents(history[i + L])
      BY <1>1, <2>1, Parameters, MomentumRow
    <3> QED
      BY <2>1, <3>1
  <2>4. rows[i] = [num |-> rows[i].num, den |-> rows[i].den]
    BY <1>1, MidsShape DEF MomentumRows, MomentumRatio
  <2> HIDE DEF rows
  <2> QED
    BY <2>2, <2>3, <2>4 DEF Fraction
<1>6. rows \in Table(n) /\ Len(rows) = n
  <2> HIDE DEF rows, n
  <2>1. rows \in [1 .. n -> Fraction]
    BY <1>3, <1>5
  <2>2. DOMAIN rows = 1 .. n /\ rows \in Seq(Fraction)
    BY <1>4, <2>1
  <2> QED
    BY <1>4, <2>1, <2>2 DEF Table
<1>7. /\ thresh \in Fraction
      /\ CountAtLeast(rows, thresh) >= Min({target, n})
      /\ Cardinality({i \in DOMAIN rows : ~AtLeast(thresh, rows[i])}) < target
  <2> HIDE DEF rows, n
  <2> QED
    BY <1>1, <1>4, <1>6, ThresholdIsReached
<1>8. Cardinality({t \in L + 1 .. Len(history) : MomentumSide(history, t, L, thresh) # "HOLD"})
        = CountAtLeast(rows, thresh)
  <2> HIDE DEF thresh
  <2> QED
    BY <1>1, <1>7, SignalsAreRows
<1> HIDE DEF rows, n
<1> QED
  BY <1>1, <1>2, <1>6, <1>7, <1>8

\* What the health check says of a grid is what the strategies do on it: the
\* crossings it counts are the orders of the live core, and a threshold it
\* suggests gives the wanted number of signals, whatever the day and however
\* many rows tie.
THEOREM HealthIsTrue == SessionSpec => []HealthAgrees
<1>1. SessionInit => LiveInv /\ HealthCountsSignals
  BY RingInit, DecidesInit, HealthInit DEF SessionInit, DayInit, LiveInv
<1>2. LiveInv /\ HealthCountsSignals /\ [SessionNext]_session_vars
        => (LiveInv /\ HealthCountsSignals)'
  BY LiveNext, HealthNext DEF LiveInv
<1>3. LiveInv /\ HealthCountsSignals => HealthAgrees
  BY SuggestionHolds DEF LiveInv, HealthAgrees
<1> QED
  BY <1>1, <1>2, <1>3, PTL DEF SessionSpec

----------------------------------------------------------------------------
(* A session sends the signals of the backtest.                            *)

\* A later tick leaves the signals of the earlier ones as they were.
LEMMA SidesStay ==
  ASSUME NEW day \in Day, NEW q \in Quotes, NEW t \in 1 .. Len(day),
         NEW back \in Nat \ {0}, NEW thresh
  PROVE  /\ Append(day, q)[t] = day[t]
         /\ MomentumSide(Append(day, q), t, back, thresh)
              = MomentumSide(day, t, back, thresh)
         /\ MeanReversionSide(Append(day, q), t, back, thresh)
              = MeanReversionSide(day, t, back, thresh)
<1> DEFINE more == Append(day, q)
<1>1. /\ Len(day) \in Nat
      /\ \A i \in 1 .. Len(day) : more[i] = day[i] /\ MidHalfCents(day[i]) \in Int
  BY MidType DEF Day
<1>2. CASE t <= back
  BY <1>1, <1>2 DEF MomentumSide, MeanReversionSide
<1>3. CASE ~(t <= back)
  <2>1. /\ t - back \in 1 .. Len(day)
        /\ \A i \in t - back .. t - 1 : i \in 1 .. Len(day)
    BY <1>1, <1>3
  <2> DEFINE v == [i \in (t - back) .. (t - 1) |-> MidHalfCents(more[i])]
             w == [i \in (t - back) .. (t - 1) |-> MidHalfCents(day[i])]
  <2>2. v = w
    BY <1>1, <2>1
  <2>3. HistoricalSum(more, t, back) = HistoricalSum(day, t, back)
    BY <2>2 DEF HistoricalSum
  <2> HIDE DEF more
  <2>4. MomentumSide(more, t, back, thresh) = MomentumSide(day, t, back, thresh)
    BY <1>1, <2>1 DEF MomentumSide
  <2>5. MeanReversionSide(more, t, back, thresh)
          = MeanReversionSide(day, t, back, thresh)
    BY <1>1, <2>3 DEF MeanReversionSide
  <2> QED
    BY <1>1, <2>4, <2>5 DEF more
<1> QED
  BY <1>2, <1>3

LEMMA SignalStays ==
  ASSUME history \in Day, NEW q \in Quotes, history' = Append(history, q),
         active_strategy_id' = active_strategy_id, NEW t \in 1 .. Ticks
  PROVE  SignalAt(t)' = SignalAt(t)
<1>1. /\ LookbackTicks \in Nat \ {0} /\ Window \in Nat \ {0}
  BY ParamsAssumption, RingAssumption
<1>2. /\ history'[t] = history[t]
      /\ MomentumSide(history', t, LookbackTicks, EntryThresh)
           = MomentumSide(history, t, LookbackTicks, EntryThresh)
      /\ MeanReversionSide(history', t, Window, DevThresh)
           = MeanReversionSide(history, t, Window, DevThresh)
  BY <1>1, SidesStay DEF Ticks
<1> QED
  BY <1>2 DEF SignalAt

\* What the engine returns is a decision, and the backtest's signal.
LEMMA EngineDecides ==
  ASSUME NEW q \in Quotes, NEW id \in 0 .. 2
  PROVE  LET d == StrategyTable(id, q, 0)
         IN  /\ d \in Core!Decision
             /\ id = 1 => \/ d = Hold
                          \/ d = Decide("SELL", LotQty, q.ask)
                          \/ d = Decide("BUY", LotQty, q.bid)
             /\ id = 2 => d = Hold
<1>1. LotQty \in Nat /\ q.bid \in Nat /\ q.ask \in Nat
  BY LotIsNat, FeedAssumption DEF Quote
<1>2. \/ Momentum(q) = Hold
      \/ Momentum(q) = Decide("BUY", LotQty, q.ask)
      \/ Momentum(q) = Decide("SELL", LotQty, q.bid)
  BY DEF Momentum
<1>3. \/ MeanReversion(q) = Hold
      \/ MeanReversion(q) = Decide("SELL", LotQty, q.ask)
      \/ MeanReversion(q) = Decide("BUY", LotQty, q.bid)
  BY DEF MeanReversion
<1>4. Defensive(q, 0) = Hold
  BY DEF Defensive
<1>5. /\ Hold \in Core!Decision
      /\ \A side \in {"BUY", "SELL"}, price \in {q.bid, q.ask} :
           Decide(side, LotQty, price) \in Core!Decision
  BY <1>1 DEF Hold, Decide, Core!Decision, Core!Side
<1>6. CASE id = 0
  BY <1>2, <1>5, <1>6 DEF StrategyTable
<1>7. CASE id = 1
  BY <1>3, <1>5, <1>7 DEF StrategyTable
<1>8. CASE id = 2
  BY <1>4, <1>5, <1>8 DEF StrategyTable
<1> QED
  BY <1>6, <1>7, <1>8

LEMMA SideRange ==
  ASSUME NEW day, NEW t, NEW back, NEW thresh
  PROVE  MomentumSide(day, t, back, thresh) \in {"HOLD", "BUY", "SELL"}
  BY DEF MomentumSide

LEMMA EngineSignals ==
  ASSUME RingInv, active_strategy_id \in 0 .. 2, NEW q \in Quotes,
         EngineTick(q, settled), active_strategy_id = 2 => settled = 0
  PROVE  decision' \in Core!Decision /\ decision' = SignalAt(Ticks)'
<1> DEFINE t == Len(history')
<1>1. /\ decision' = StrategyTable(active_strategy_id, q, settled)
      /\ history' = Append(history, q)
      /\ active_strategy_id' = active_strategy_id
  BY DEF EngineTick
<1>2. t = Len(history) + 1 /\ history'[t] = q /\ Ticks' = t
  BY <1>1 DEF RingInv, RingTypes, Ticks
<1>3. LotQty = OrderQuantity(BaseLot, PosScalar)
  BY DEF LotQty, OrderQuantity
<1>4. decision' = StrategyTable(active_strategy_id, q, 0)
  BY <1>1 DEF StrategyTable
<1>5. CASE active_strategy_id = 0
  <2> DEFINE side == MomentumSide(history', t, LookbackTicks, EntryThresh)
  <2>1. decision' = Aggressive(side, q, OrderQuantity(BaseLot, PosScalar))
    <3>1. decision' = Momentum(q)
      BY <1>1, <1>5 DEF StrategyTable
    <3> QED
      BY <1>1, <1>2, <3>1, MomentumAgrees
  <2>2. SignalAt(Ticks)' = Quoted(side, q, q.bid, q.ask)
    BY <1>1, <1>2, <1>5 DEF SignalAt
  <2>3. side \in {"HOLD", "BUY", "SELL"}
    BY SideRange
  <2> HIDE DEF side
  <2>4. decision' = SignalAt(Ticks)'
    BY <2>1, <2>2, <2>3 DEF Aggressive, Quoted
  <2> QED
    BY <1>4, <2>4, EngineDecides
<1>6. CASE active_strategy_id = 1
  <2> DEFINE side == MeanReversionSide(history', t, Window, DevThresh)
  <2>1. decision'.side = side
    <3>1. decision' = MeanReversion(q)
      BY <1>1, <1>6 DEF StrategyTable
    <3> QED
      BY <1>1, <1>2, <3>1, MeanReversionAgrees
  <2>2. SignalAt(Ticks)' = Quoted(side, q, q.ask, q.bid)
    BY <1>1, <1>2, <1>6 DEF SignalAt
  <2>3. \/ decision' = Hold
        \/ decision' = Decide("SELL", LotQty, q.ask)
        \/ decision' = Decide("BUY", LotQty, q.bid)
    BY <1>4, <1>6, EngineDecides
  <2> HIDE DEF side
  <2>4. decision' = SignalAt(Ticks)'
    BY <1>3, <2>1, <2>2, <2>3 DEF Hold, Decide, Quoted
  <2> QED
    BY <1>4, <2>4, EngineDecides
<1>7. CASE active_strategy_id = 2
  <2>1. SignalAt(Ticks)' = Hold
    BY <1>1, <1>7 DEF SignalAt
  <2> QED
    BY <1>4, <1>7, <2>1, EngineDecides
<1> QED
  BY <1>5, <1>6, <1>7

Waiting  == {"risk", "insert", "execute", "fatal"}
Numbered == {"insert", "execute", "fatal"}

SessionTypes ==
  /\ active_strategy_id \in 0 .. 2
  /\ clock \in Nat
  /\ decision \in Core!Decision
  /\ order_id \in Nat
  /\ settled \in Int /\ in_flight_net_shares \in Int
  /\ orders \in [Core!Slots -> Core!Order]
  /\ pc = "slot" => idx \in Core!Slots
  /\ sent \in Seq(Core!Packet)
  /\ sent_tick \in Seq(Nat)

\* Whatever has filled, settled and pending shares together are those of the
\* packets and of the order about to be sent.
ExposureIsSent ==
  Core!Exposure = SumFunctionOnSet(Core!PacketShares, 1 .. Len(sent)) + Core!AboutToSend

\* The defensive strategy starts without a position and so never opens one.
DefensiveIsIdle ==
  active_strategy_id = 2 =>
    settled = 0 /\ pc \notin Waiting /\ \A i \in Core!Slots : ~Core!InFlight(i)

\* Until it is sent or refused, the decision is the latest tick's signal, and
\* between guard and writer it is admissible.
DecisionInv ==
  /\ pc \in Waiting => /\ Ticks > 0 /\ decision = SignalAt(Ticks)
                       /\ decision.side # "HOLD"
  /\ pc \in {"insert", "execute"} => Admissible(decision, SharesSentBefore(Ticks))

\* All earlier ticks have been decided, and their packets sent.
PacketInv ==
  /\ PacketsAreSignals
  /\ order_id = IF pc \in Numbered THEN Len(sent) + 1 ELSE Len(sent)
  /\ pc \in Waiting => \A k \in 1 .. Len(sent) : sent_tick[k] < Ticks
  /\ \A t \in 1 .. Ticks : (pc \in Waiting => t < Ticks) => SentIffAdmissible(t)

SessionInv == /\ RingInv /\ SessionTypes /\ ExposureIsSent
              /\ DefensiveIsIdle /\ DecisionInv /\ PacketInv

LEMMA SharesType ==
  ASSUME NEW side, NEW qty \in Nat PROVE Core!SignedShares(side, qty) \in Int
  BY DEF Core!SignedShares

LEMMA SentWeighs ==
  ASSUME SessionTypes, NEW S, S \subseteq 1 .. Len(sent)
  PROVE  /\ Len(sent) \in Nat
         /\ IsFiniteSet(S)
         /\ Weighs(Core!PacketShares, S)
         /\ SumFunctionOnSet(Core!PacketShares, S) \in Int
<1>1. Len(sent) \in Nat /\ \A k \in 1 .. Len(sent) : sent[k] \in Core!Packet
  BY DEF SessionTypes
<1>2. \A k \in 1 .. Len(sent) : Core!PacketShares[k] \in Int
  BY <1>1, SharesType DEF Core!PacketShares, Core!Packet
<1>3. IsFiniteSet(S)
  <2>1. IsFiniteSet(1 .. Len(sent))
    BY <1>1, FS_Interval
  <2> QED
    BY <2>1, FS_Subset
<1>4. Weighs(Core!PacketShares, S)
  BY <1>2 DEF Weighs
<1> QED
  BY <1>1, <1>3, <1>4, SumTake

LEMMA StoryStays ==
  ASSUME history' = history, active_strategy_id' = active_strategy_id,
         sent' = sent, sent_tick' = sent_tick
  PROVE  /\ Ticks' = Ticks /\ Len(sent)' = Len(sent)
         /\ \A t : /\ SignalAt(t)' = SignalAt(t)
                   /\ SharesSentBefore(t)' = SharesSentBefore(t)
                   /\ SentIffAdmissible(t)' <=> SentIffAdmissible(t)
         /\ PacketsAreSignals' <=> PacketsAreSignals
<1>1. Ticks' = Ticks
  BY DEF Ticks
<1>2. \A t : SignalAt(t)' = SignalAt(t)
  BY DEF SignalAt
<1>3. \A t : SharesSentBefore(t)' = SharesSentBefore(t)
  BY DEF SharesSentBefore, PacketsBefore, Core!PacketShares
<1>4. \A t : SentIffAdmissible(t)' <=> SentIffAdmissible(t)
  BY <1>2, <1>3 DEF SentIffAdmissible
<1>5. PacketsAreSignals' <=> PacketsAreSignals
  BY <1>1, <1>2 DEF PacketsAreSignals
<1> QED
  BY <1>1, <1>2, <1>3, <1>4, <1>5

\* The risk guard approves exactly the admissible decisions.
LEMMA GuardAdmits ==
  ASSUME SessionInv, pc = "risk"
  PROVE  Core!RiskOk(decision) <=> Admissible(decision, SharesSentBefore(Ticks))
<1>1. decision.side # "HOLD" /\ \A k \in 1 .. Len(sent) : sent_tick[k] < Ticks
  BY DEF SessionInv, DecisionInv, PacketInv, Waiting
<1>2. PacketsBefore(Ticks) = 1 .. Len(sent)
  BY <1>1 DEF PacketsBefore
<1>3. SumFunctionOnSet(Core!PacketShares, 1 .. Len(sent)) \in Int
  BY SentWeighs DEF SessionInv
<1>4. Core!Exposure = SharesSentBefore(Ticks)
  BY <1>2, <1>3 DEF SessionInv, ExposureIsSent, Core!AboutToSend, SharesSentBefore
<1> DEFINE shares == Core!SignedShares(decision.side, decision.qty)
           held   == SharesSentBefore(Ticks)
<1>5. shares \in Int /\ held \in Int /\ MaxPosition \in Nat /\ MaxNotional \in Nat
      /\ Core!OrderNotionalCad(decision) \in Int
  <2>1. decision.qty \in Nat /\ decision.price \in Nat
    BY DEF SessionInv, SessionTypes, Core!Decision
  <2>2. \A a, b \in Nat : (a * b) \div 100 \in Int
    OBVIOUS
  <2>3. Core!OrderNotionalCad(decision) \in Int
    BY <2>1, <2>2 DEF Core!OrderNotionalCad
  <2>4. MaxPosition \in Nat /\ MaxNotional \in Nat
    BY SessionAssumption
  <2> QED
    BY <1>2, <1>3, <2>1, <2>3, <2>4, SharesType DEF SharesSentBefore
<1>6. Core!NextExposure(decision) = held + shares
  BY <1>4 DEF Core!NextExposure
<1> HIDE DEF shares, held
<1>7. AbsVal(held) \in Int /\ AbsVal(held + shares) \in Int
      /\ Core!AbsVal(held) = AbsVal(held)
      /\ Core!AbsVal(held + shares) = AbsVal(held + shares)
  BY <1>5 DEF AbsVal, Core!AbsVal
<1>8. Core!RiskOk(decision)
        <=> /\ ~(Core!OrderNotionalCad(decision) > MaxNotional)
            /\ ~(AbsVal(held + shares) > MaxPosition
                 /\ AbsVal(held + shares) > AbsVal(held))
  BY <1>4, <1>6, <1>7
  DEF Core!RiskOk, Core!BreachesNotional, Core!BreachesPosition, held
<1>9. Admissible(decision, held)
        <=> /\ Core!OrderNotionalCad(decision) <= MaxNotional
            /\ \/ AbsVal(held + shares) <= MaxPosition
               \/ AbsVal(held + shares) <= AbsVal(held)
  BY <1>1 DEF Admissible, shares
<1> QED
  BY <1>5, <1>7, <1>8, <1>9 DEF held

LEMMA SessionStarts == SessionInit => SessionInv
<1> SUFFICES ASSUME SessionInit PROVE SessionInv
  OBVIOUS
<1>1. /\ RingInv /\ active_strategy_id \in 0 .. 2 /\ history = <<>> /\ decision = Hold
      /\ Core!Init /\ sent_tick = <<>>
  BY RingInit DEF SessionInit, DayInit, Init
<1>2. /\ pc = "poll" /\ clock = 0 /\ order_id = 0 /\ settled = 0
      /\ in_flight_net_shares = 0 /\ sent = <<>>
      /\ orders = [i \in Core!Slots |-> Core!EmptySlot]
  BY <1>1 DEF Core!Init
<1>3. Core!EmptySlot \in Core!Order /\ Hold \in Core!Decision
      /\ Core!EmptySlot.state # "IN_FLIGHT"
  BY DEF Core!EmptySlot, Core!Order, Core!Decision, Core!Side, Hold
<1>4. SessionTypes
  BY <1>1, <1>2, <1>3 DEF SessionTypes
<1>5. Len(sent) = 0 /\ Len(sent_tick) = 0 /\ Ticks = 0 /\ 1 .. 0 = {}
  BY <1>1, <1>2 DEF Ticks
<1>6. ExposureIsSent
  BY <1>2, <1>5, SumEmpty DEF ExposureIsSent, Core!Exposure, Core!AboutToSend
<1>7. DefensiveIsIdle
  BY <1>2, <1>3 DEF DefensiveIsIdle, Waiting, Core!InFlight
<1>8. DecisionInv /\ PacketInv
  BY <1>2, <1>5 DEF DecisionInv, PacketInv, PacketsAreSignals, Waiting, Numbered
<1> QED
  BY <1>1, <1>4, <1>6, <1>7, <1>8 DEF SessionInv

\* The tick: a new signal, and the earlier ones as they were.
LEMMA SessionTicks ==
  ASSUME SessionInv, SessionTick
  PROVE  SessionInv'
<1>1. PICK q \in Quotes : EngineTick(q, settled)
  BY DEF SessionTick, DayTick
<1>2. /\ pc = "strategy" /\ pc' = IF decision'.side = "HOLD" THEN "clean" ELSE "risk"
      /\ clock' = clock /\ order_id' = order_id /\ settled' = settled
      /\ orders' = orders /\ in_flight_net_shares' = in_flight_net_shares
      /\ idx' = idx /\ sent' = sent /\ sent_tick' = sent_tick
  BY DEF SessionTick, table
<1>3. /\ RingInv /\ SessionTypes /\ ExposureIsSent
      /\ DefensiveIsIdle /\ DecisionInv /\ PacketInv
  BY DEF SessionInv
<1>4. /\ active_strategy_id' = active_strategy_id /\ history' = Append(history, q)
      /\ history \in Day /\ Ticks \in Nat /\ Ticks' = Ticks + 1
  BY <1>1, <1>3 DEF EngineTick, RingInv, RingTypes, Day, Ticks
<1>5. decision' \in Core!Decision /\ decision' = SignalAt(Ticks)'
  BY <1>1, <1>3, EngineSignals DEF DefensiveIsIdle, SessionTypes
<1>6. RingInv'
  BY <1>1, <1>3, TickKeepsRing
<1>7. SessionTypes'
  BY <1>2, <1>3, <1>4, <1>5 DEF SessionTypes
<1>8. ExposureIsSent'
  BY <1>2, <1>3
  DEF ExposureIsSent, Core!Exposure, Core!AboutToSend, Core!PacketShares
<1>9. DefensiveIsIdle'
  <2>1. active_strategy_id' = 2 => SignalAt(Ticks)' = Hold
    BY DEF SignalAt
  <2>2. active_strategy_id' = 2 => pc' = "clean"
    BY <1>2, <1>5, <2>1 DEF Hold
  <2> QED
    BY <1>2, <1>3, <1>4, <2>2 DEF DefensiveIsIdle, Waiting, Core!InFlight
<1>10. DecisionInv'
  BY <1>2, <1>4, <1>5 DEF DecisionInv, Waiting
<1>11. \A t \in 1 .. Ticks : SignalAt(t)' = SignalAt(t)
  BY <1>4, SignalStays
<1>12. \A t : SharesSentBefore(t)' = SharesSentBefore(t)
  BY <1>2 DEF SharesSentBefore, PacketsBefore, Core!PacketShares
<1>13. PacketsAreSignals'
  <2>1. \A k \in 1 .. Len(sent) : sent_tick[k] \in 1 .. Ticks
    BY <1>3 DEF PacketInv, PacketsAreSignals
  <2>2. \A t \in 1 .. Ticks : t \in 1 .. Ticks'
    BY <1>4
  <2> QED
    BY <1>2, <1>3, <1>11, <2>1, <2>2 DEF PacketInv, PacketsAreSignals
<1>14. \A t \in 1 .. Ticks : SentIffAdmissible(t)'
  <2>1. \A t \in 1 .. Ticks : SentIffAdmissible(t)
    BY <1>2, <1>3 DEF PacketInv, Waiting
  <2> QED
    BY <1>2, <1>11, <1>12, <2>1 DEF SentIffAdmissible
<1>15. \A k \in 1 .. Len(sent) : sent_tick[k] < Ticks'
  BY <1>3, <1>4 DEF PacketInv, PacketsAreSignals
<1>16. decision'.side = "HOLD" => SentIffAdmissible(Ticks)'
  <2>1. Ticks' \notin Range(sent_tick')
    <3>1. DOMAIN sent_tick = 1 .. Len(sent)
      BY <1>3 DEF PacketInv, PacketsAreSignals, SessionTypes
    <3>2. \A k \in DOMAIN sent_tick : sent_tick[k] # Ticks'
      <4>1. \A k \in 1 .. Len(sent) : sent_tick[k] \in Int
        BY <1>3 DEF PacketInv, PacketsAreSignals
      <4> QED
        BY <1>4, <1>15, <3>1, <4>1
    <3> QED
      BY <1>2, <3>2 DEF Range
  <2> QED
    BY <1>5, <2>1 DEF SentIffAdmissible, Admissible
<1>17. PacketInv'
  <2>1. \A t \in 1 .. Ticks' : (pc' \in Waiting => t < Ticks') => SentIffAdmissible(t)'
    <3>1. SUFFICES ASSUME NEW t \in 1 .. Ticks', pc' \in Waiting => t < Ticks'
                   PROVE  SentIffAdmissible(t)'
      OBVIOUS
    <3>2. CASE t \in 1 .. Ticks
      BY <1>14, <3>2
    <3>3. CASE t \notin 1 .. Ticks
      <4>1. t = Ticks'
        BY <1>4, <3>3
      <4>2. decision'.side = "HOLD"
        BY <1>2, <1>4, <3>1, <4>1 DEF Waiting
      <4> QED
        BY <1>16, <4>1, <4>2
    <3> QED
      BY <3>2, <3>3
  <2>2. order_id' = IF pc' \in Numbered THEN Len(sent') + 1 ELSE Len(sent')
    BY <1>2, <1>3 DEF PacketInv, Numbered
  <2> QED
    BY <1>2, <1>13, <1>15, <2>1, <2>2 DEF PacketInv
<1> QED
  BY <1>6, <1>7, <1>8, <1>9, <1>10, <1>17 DEF SessionInv

\* The order writer: the packet is the latest tick's signal, and the sums over
\* the packets before it are the same.
LEMMA SessionSends ==
  ASSUME SessionInv, SessionSend
  PROVE  SessionInv'
<1> DEFINE n == Len(sent)
<1>1. /\ pc = "execute" /\ pc' = "clean" /\ clock' = clock /\ decision' = decision
      /\ order_id' = order_id /\ settled' = settled /\ orders' = orders
      /\ in_flight_net_shares' = in_flight_net_shares
      /\ sent' = Append(sent, PacketOf(order_id, decision))
      /\ sent_tick' = Append(sent_tick, Ticks)
      /\ active_strategy_id' = active_strategy_id /\ history' = history
      /\ mid_ring' = mid_ring /\ write_idx' = write_idx /\ count' = count
  BY DEF SessionSend, Core!ExecuteOrder, Core!table, Core!EncodeOrder, PacketOf,
         engine, rollingState, Ticks
<1>2. /\ RingInv /\ SessionTypes /\ ExposureIsSent
      /\ DefensiveIsIdle /\ DecisionInv /\ PacketInv
  BY DEF SessionInv
<1>3. /\ Ticks > 0 /\ decision = SignalAt(Ticks) /\ order_id = n + 1
      /\ Admissible(decision, SharesSentBefore(Ticks))
      /\ \A k \in 1 .. n : sent_tick[k] < Ticks
      /\ PacketsAreSignals
  BY <1>1, <1>2 DEF DecisionInv, PacketInv, Waiting, Numbered
<1>4. /\ n \in Nat /\ sent \in Seq(Core!Packet) /\ sent_tick \in Seq(Nat)
      /\ Len(sent_tick) = n /\ Ticks \in Nat /\ Ticks' = Ticks
      /\ PacketOf(order_id, decision) \in Core!Packet
  <2>1. PacketOf(order_id, decision) \in Core!Packet
    BY <1>2 DEF SessionTypes, PacketOf, Core!Packet, Core!Decision
  <2>2. history \in Seq(Quotes)
    BY <1>2 DEF RingInv, RingTypes
  <2> QED
    BY <1>1, <1>2, <1>3, <2>1, <2>2 DEF SessionTypes, PacketsAreSignals, Ticks
<1>5. /\ Len(sent') = n + 1 /\ Len(sent_tick') = n + 1
      /\ sent' \in Seq(Core!Packet) /\ sent_tick' \in Seq(Nat)
      /\ \A k \in 1 .. n : sent'[k] = sent[k] /\ sent_tick'[k] = sent_tick[k]
      /\ sent'[n + 1] = PacketOf(order_id, decision) /\ sent_tick'[n + 1] = Ticks
      /\ 1 .. n + 1 = (1 .. n) \cup {n + 1} /\ n + 1 \notin 1 .. n
  BY <1>1, <1>4
<1>6. RingInv'
  BY <1>1, <1>2 DEF RingInv, RingTypes, RingHoldsLatest, Ticks, Past, RingIndex
<1>7. SessionTypes'
  BY <1>1, <1>2, <1>5 DEF SessionTypes
<1>8. /\ \A k \in 1 .. n : Core!PacketShares'[k] = Core!PacketShares[k]
      /\ Core!PacketShares'[n + 1] = Core!SignedShares(decision.side, decision.qty)
  BY <1>5 DEF Core!PacketShares, PacketOf
<1>9. ASSUME NEW S, S \subseteq 1 .. n
      PROVE  SumFunctionOnSet(Core!PacketShares', S)
               = SumFunctionOnSet(Core!PacketShares, S)
  <2>1. IsFiniteSet(S) /\ Weighs(Core!PacketShares, S)
    BY <1>2, <1>9, SentWeighs
  <2> QED
    BY <1>8, <1>9, <2>1, SumSame
<1>10. ExposureIsSent'
  <2> DEFINE shares == Core!SignedShares(decision.side, decision.qty)
             before == SumFunctionOnSet(Core!PacketShares, 1 .. n)
  <2>1. shares \in Int /\ before \in Int
    <3>1. decision.qty \in Nat
      BY <1>2 DEF SessionTypes, Core!Decision
    <3> QED
      BY <1>2, <3>1, SharesType, SentWeighs
  <2>2. SumFunctionOnSet(Core!PacketShares', (1 .. n) \cup {n + 1})
          = Core!PacketShares'[n + 1] + SumFunctionOnSet(Core!PacketShares', 1 .. n)
    <3>1. \A k \in 1 .. n : Core!PacketShares[k] \in Int
      BY <1>2, SentWeighs DEF Weighs
    <3>2. Weighs(Core!PacketShares', (1 .. n) \cup {n + 1})
      BY <1>8, <2>1, <3>1 DEF Weighs
    <3>3. IsFiniteSet(1 .. n)
      BY <1>2, SentWeighs
    <3> QED
      BY <1>5, <3>2, <3>3, SumAdd
  <2>3. SumFunctionOnSet(Core!PacketShares', 1 .. n) = before
    BY <1>9
  <2>4. Core!Exposure = before + shares
    BY <1>1, <1>2 DEF ExposureIsSent, Core!AboutToSend
  <2>5. Core!Exposure' = Core!Exposure
    BY <1>1 DEF Core!Exposure
  <2>6. Core!AboutToSend' = 0
    BY <1>1 DEF Core!AboutToSend
  <2>7. SumFunctionOnSet(Core!PacketShares', 1 .. Len(sent')) = shares + before
    BY <1>5, <1>8, <2>2, <2>3
  <2> HIDE DEF shares, before
  <2> QED
    BY <2>1, <2>4, <2>5, <2>6, <2>7 DEF ExposureIsSent
<1>11. DefensiveIsIdle'
  BY <1>1, <1>2 DEF DefensiveIsIdle, Waiting
<1>12. DecisionInv'
  BY <1>1 DEF DecisionInv, Waiting
<1>13. \A t : SignalAt(t)' = SignalAt(t)
  BY <1>1 DEF SignalAt
<1>14. ASSUME NEW t \in 1 .. Ticks
       PROVE  SharesSentBefore(t)' = SharesSentBefore(t)
  <2>1. PacketsBefore(t)' = PacketsBefore(t) /\ PacketsBefore(t) \subseteq 1 .. n
    <3>1. \A k \in 1 .. n + 1 : sent_tick'[k] < t <=> (k \in 1 .. n /\ sent_tick[k] < t)
      BY <1>4, <1>5
    <3> QED
      BY <1>5, <3>1 DEF PacketsBefore
  <2> QED
    BY <1>9, <2>1 DEF SharesSentBefore
<1>15. PacketsAreSignals'
  <2>1. \A k \in 1 .. n : /\ sent_tick[k] \in 1 .. Ticks
                          /\ \A j \in 1 .. k - 1 : sent_tick[j] < sent_tick[k]
                          /\ sent[k] = PacketOf(k, SignalAt(sent_tick[k]))
    BY <1>3 DEF PacketsAreSignals
  <2>2. ASSUME NEW k \in 1 .. n
        PROVE  /\ sent_tick'[k] \in 1 .. Ticks'
               /\ \A j \in 1 .. k - 1 : sent_tick'[j] < sent_tick'[k]
               /\ sent'[k] = PacketOf(k, SignalAt(sent_tick[k])')
    <3>1. \A j \in 1 .. k - 1 : j \in 1 .. n
      BY <1>4
    <3> QED
      BY <1>4, <1>5, <1>13, <2>1, <3>1
  <2>3. ASSUME NEW k, k = n + 1
        PROVE  /\ sent_tick'[k] \in 1 .. Ticks'
               /\ \A j \in 1 .. k - 1 : sent_tick'[j] < sent_tick'[k]
               /\ sent'[k] = PacketOf(k, SignalAt(sent_tick[k])')
    <3>1. Ticks \in 1 .. Ticks' /\ k - 1 = n /\ sent_tick'[k] = Ticks
      BY <1>3, <1>4, <1>5, <2>3
    <3>2. \A j \in 1 .. n : sent_tick'[j] < Ticks
      BY <1>3, <1>5
    <3>3. SignalAt(sent_tick[k])' = decision
      BY <1>3, <1>13, <3>1
    <3>4. sent'[k] = PacketOf(k, decision)
      BY <1>3, <1>5, <2>3
    <3> QED
      BY <3>1, <3>2, <3>3, <3>4
  <2> QED
    BY <1>4, <1>5, <2>2, <2>3 DEF PacketsAreSignals
<1>16. \A t \in 1 .. Ticks : SentIffAdmissible(t)'
  <2>1. Range(sent_tick') = Range(sent_tick) \cup {Ticks}
    <3>1. DOMAIN sent_tick' = (1 .. n) \cup {n + 1} /\ DOMAIN sent_tick = 1 .. n
      BY <1>4, <1>5
    <3> QED
      BY <1>5, <3>1 DEF Range
  <2>2. ASSUME NEW t \in 1 .. Ticks, t < Ticks  PROVE SentIffAdmissible(t)'
    <3>1. SentIffAdmissible(t)
      BY <1>2, <2>2 DEF PacketInv
    <3>2. t \in Range(sent_tick') <=> t \in Range(sent_tick)
      BY <1>4, <2>1, <2>2
    <3> QED
      BY <1>13, <1>14, <3>1, <3>2 DEF SentIffAdmissible
  <2>3. Ticks \in 1 .. Ticks
    BY <1>3, <1>4
  <2>4. \A t : t = Ticks => SentIffAdmissible(t)'
    BY <1>3, <1>13, <1>14, <2>1, <2>3 DEF SentIffAdmissible
  <2> QED
    BY <1>4, <2>2, <2>4
<1>17. PacketInv'
  BY <1>1, <1>3, <1>4, <1>5, <1>15, <1>16 DEF PacketInv, Waiting, Numbered
<1> QED
  BY <1>6, <1>7, <1>10, <1>11, <1>12, <1>17 DEF SessionInv

\* The other calls move shares between the table and the settled position, or
\* refuse and approve what the guard is asked.
LEMMA CoreKeepsTypes ==
  ASSUME SessionTypes, CoreStep
  PROVE  SessionTypes'
<1> USE SessionAssumption DEF SessionTypes
<1>1. /\ active_strategy_id' = active_strategy_id /\ sent_tick' = sent_tick
  BY DEF CoreStep, engine
<1>2. CASE Core!FeedExhausted
  BY <1>1, <1>2 DEF Core!FeedExhausted, Core!table, Core!sweep
<1>3. CASE Core!GetSnapshot
  BY <1>1, <1>3 DEF Core!GetSnapshot, Core!Elapse, Core!table, Core!sweep
<1>4. CASE Core!RiskReject
  BY <1>1, <1>4 DEF Core!RiskReject, Core!table, Core!sweep
<1>5. CASE Core!RiskApprove
  BY <1>1, <1>5 DEF Core!RiskApprove, Core!table, Core!sweep
<1>6. CASE Core!InsertOrder
  <2>1. clock' \in Nat /\ decision' = decision /\ order_id' = order_id
        /\ settled' = settled /\ sent' = sent /\ pc' = "execute"
    BY <1>6 DEF Core!InsertOrder, Core!Elapse
  <2>2. orders' \in [Core!Slots -> Core!Order]
    <3>1. PICK i \in Core!EmptySlots :
            orders' = [orders EXCEPT ![i] =
                        [order_id |-> order_id, side |-> decision.side,
                         qty |-> decision.qty, price |-> decision.price,
                         submit_timestamp |-> clock', state |-> "IN_FLIGHT"]]
      BY <1>6 DEF Core!InsertOrder, Core!SubmitTime
    <3>2. [order_id |-> order_id, side |-> decision.side,
           qty |-> decision.qty, price |-> decision.price,
           submit_timestamp |-> clock', state |-> "IN_FLIGHT"] \in Core!Order
      BY <2>1 DEF Core!Order, Core!Decision
    <3> QED
      BY <3>1, <3>2
  <2>3. in_flight_net_shares' \in Int
    <3>1. decision.qty \in Nat
      BY DEF Core!Decision
    <3>2. Core!SignedShares(decision.side, decision.qty) \in Int
      BY <3>1, SharesType
    <3> QED
      BY <1>6, <3>2 DEF Core!InsertOrder
  <2> QED
    BY <1>1, <2>1, <2>2, <2>3
<1>7. CASE Core!TableFull
  BY <1>1, <1>7 DEF Core!TableFull, Core!table, Core!sweep
<1>8. CASE Core!CleanStart
  BY <1>1, <1>8 DEF Core!CleanStart, Core!Elapse, Core!table, Core!Slots
<1>9. CASE Core!FillSlot
  <2>1. idx \in Core!Slots /\ orders[idx] \in Core!Order
    BY <1>9 DEF Core!FillSlot
  <2>2. Core!SignedShares(orders[idx].side, orders[idx].qty) \in Int
    BY <2>1, SharesType DEF Core!Order
  <2>3. settled' \in Int /\ in_flight_net_shares' \in Int
    BY <1>9, <2>2 DEF Core!FillSlot, Core!MoveShares
  <2>4. orders' \in [Core!Slots -> Core!Order]
    BY <1>9, <2>1 DEF Core!FillSlot, Core!Order
  <2>5. pc' = "slot" => idx' \in Core!Slots
    BY <1>9, <2>1 DEF Core!FillSlot, Core!NextSlot, Core!Slots
  <2> QED
    BY <1>1, <1>9, <2>3, <2>4, <2>5 DEF Core!FillSlot, Core!NextSlot
<1>10. CASE Core!SkipSlot
  BY <1>1, <1>10 DEF Core!SkipSlot, Core!NextSlot, Core!table, Core!Slots
<1> QED
  BY <1>2, <1>3, <1>4, <1>5, <1>6, <1>7, <1>8, <1>9, <1>10 DEF CoreStep

LEMMA CoreKeepsExposure ==
  ASSUME SessionTypes, ExposureIsSent, CoreStep
  PROVE  ExposureIsSent'
<1>1. /\ settled \in Int /\ in_flight_net_shares \in Int
      /\ SumFunctionOnSet(Core!PacketShares, 1 .. Len(sent)) \in Int
  BY SentWeighs DEF SessionTypes
<1>2. CASE Core!InsertOrder
  <2> DEFINE shares == Core!SignedShares(decision.side, decision.qty)
  <2>1. /\ settled' = settled /\ in_flight_net_shares' = in_flight_net_shares + shares
        /\ sent' = sent /\ decision' = decision /\ pc = "insert" /\ pc' = "execute"
    BY <1>2 DEF Core!InsertOrder
  <2>2. shares \in Int
    BY SharesType DEF SessionTypes, Core!Decision
  <2>3. Core!AboutToSend = 0 /\ Core!AboutToSend' = shares
        /\ Core!PacketShares' = Core!PacketShares
    BY <2>1 DEF Core!AboutToSend, Core!PacketShares
  <2> HIDE DEF shares
  <2> QED
    BY <1>1, <2>1, <2>2, <2>3 DEF ExposureIsSent, Core!Exposure
<1>3. CASE Core!FillSlot
  <2> DEFINE shares == Core!SignedShares(orders[idx].side, orders[idx].qty)
  <2>1. /\ settled' = settled + shares
        /\ in_flight_net_shares' = in_flight_net_shares - shares
        /\ sent' = sent /\ pc = "slot" /\ pc' \in {"slot", "poll"}
    BY <1>3 DEF Core!FillSlot, Core!MoveShares, Core!NextSlot
  <2>2. shares \in Int
    <3>1. orders[idx].qty \in Nat
      BY <2>1 DEF SessionTypes, Core!Order
    <3> QED
      BY <3>1, SharesType
  <2>3. Core!AboutToSend = 0 /\ Core!AboutToSend' = 0
        /\ Core!PacketShares' = Core!PacketShares
    BY <2>1 DEF Core!AboutToSend, Core!PacketShares
  <2> HIDE DEF shares
  <2> QED
    BY <1>1, <2>1, <2>2, <2>3 DEF ExposureIsSent, Core!Exposure
<1>4. CASE ~Core!InsertOrder /\ ~Core!FillSlot
  <2>1. /\ settled' = settled /\ in_flight_net_shares' = in_flight_net_shares
        /\ sent' = sent /\ Core!AboutToSend' = Core!AboutToSend
    BY <1>4
    DEF CoreStep, Core!FeedExhausted, Core!GetSnapshot, Core!RiskReject,
        Core!RiskApprove, Core!TableFull, Core!CleanStart, Core!SkipSlot,
        Core!NextSlot, Core!table, Core!AboutToSend
  <2> QED
    BY <2>1 DEF ExposureIsSent, Core!Exposure, Core!PacketShares
<1> QED
  BY <1>2, <1>3, <1>4

\* The phases of the loop as far as the story of the packets depends on them.
LEMMA CorePhases ==
  ASSUME CoreStep, SessionTypes
  PROVE  \/ /\ pc \notin Waiting /\ pc' \notin Waiting /\ order_id' = order_id
         \/ /\ pc = "risk" /\ pc' = "clean" /\ order_id' = order_id
            /\ ~Core!RiskOk(decision)
         \/ /\ pc = "risk" /\ pc' = "insert" /\ order_id' = order_id + 1
            /\ Core!RiskOk(decision)
         \/ /\ pc = "insert" /\ pc' \in {"execute", "fatal"} /\ order_id' = order_id
<1> USE DEF Waiting
<1>1. CASE Core!FeedExhausted
  BY <1>1 DEF Core!FeedExhausted
<1>2. CASE Core!GetSnapshot
  BY <1>2 DEF Core!GetSnapshot
<1>3. CASE Core!RiskReject \/ Core!RiskApprove
  BY <1>3 DEF Core!RiskReject, Core!RiskApprove
<1>4. CASE Core!InsertOrder \/ Core!TableFull
  BY <1>4 DEF Core!InsertOrder, Core!TableFull
<1>5. CASE Core!CleanStart
  BY <1>5 DEF Core!CleanStart
<1>6. CASE Core!FillSlot \/ Core!SkipSlot
  BY <1>6 DEF Core!FillSlot, Core!SkipSlot, Core!NextSlot
<1> QED
  BY <1>1, <1>2, <1>3, <1>4, <1>5, <1>6 DEF CoreStep

LEMMA SessionWorks ==
  ASSUME SessionInv, CoreStep
  PROVE  SessionInv'
<1>1. /\ RingInv /\ SessionTypes /\ ExposureIsSent
      /\ DefensiveIsIdle /\ DecisionInv /\ PacketInv
  BY DEF SessionInv
<1>2. /\ active_strategy_id' = active_strategy_id /\ mid_ring' = mid_ring
      /\ write_idx' = write_idx /\ count' = count /\ history' = history
      /\ sent_tick' = sent_tick
  BY DEF CoreStep, engine, rollingState
<1>3. sent' = sent /\ decision' = decision
  BY DEF CoreStep, Core!FeedExhausted, Core!GetSnapshot, Core!RiskReject,
     Core!RiskApprove, Core!InsertOrder, Core!TableFull, Core!CleanStart,
     Core!FillSlot, Core!SkipSlot, Core!NextSlot
<1>4. RingInv'
  BY <1>1, <1>2 DEF RingInv, RingTypes, RingHoldsLatest, Ticks, Past, RingIndex
<1>5. DefensiveIsIdle'
  <2> SUFFICES ASSUME active_strategy_id = 2
               PROVE  /\ settled' = 0 /\ pc' \notin Waiting
                      /\ \A i \in Core!Slots : ~Core!InFlight(i)'
    BY <1>2 DEF DefensiveIsIdle
  <2>1. /\ settled = 0 /\ pc \notin Waiting
        /\ \A i \in Core!Slots : ~Core!InFlight(i)
    BY <1>1 DEF DefensiveIsIdle
  <2>2. ~Core!RiskReject /\ ~Core!RiskApprove /\ ~Core!InsertOrder /\ ~Core!TableFull
    BY <2>1 DEF Waiting, Core!RiskReject, Core!RiskApprove, Core!InsertOrder,
       Core!TableFull
  <2>3. ~Core!FillSlot
    BY <1>1, <2>1 DEF Core!FillSlot, Core!Due, SessionTypes
  <2>4. settled' = settled /\ orders' = orders
    BY <2>2, <2>3
    DEF CoreStep, Core!FeedExhausted, Core!GetSnapshot, Core!CleanStart,
        Core!SkipSlot, Core!table
  <2>5. pc' \notin Waiting
    BY <1>1, <2>1, CorePhases DEF Waiting
  <2> QED
    BY <2>1, <2>4, <2>5 DEF Core!InFlight
<1>6. /\ Ticks' = Ticks /\ Len(sent') = Len(sent)
      /\ \A t : /\ SignalAt(t)' = SignalAt(t)
                /\ SharesSentBefore(t)' = SharesSentBefore(t)
                /\ SentIffAdmissible(t)' <=> SentIffAdmissible(t)
      /\ PacketsAreSignals'
  BY <1>1, <1>2, <1>3, StoryStays DEF PacketInv
<1>7. SignalAt(Ticks)' = SignalAt(Ticks)
      /\ SharesSentBefore(Ticks)' = SharesSentBefore(Ticks)
  BY <1>6
<1>8. pc = "risk" =>
        (Core!RiskOk(decision) <=> Admissible(decision, SharesSentBefore(Ticks)))
  BY GuardAdmits
<1>9. DecisionInv'
  BY <1>1, <1>3, <1>6, <1>7, <1>8, CorePhases DEF DecisionInv, Waiting
<1>10. PacketInv'
  <2>1. order_id' = IF pc' \in Numbered THEN Len(sent') + 1 ELSE Len(sent')
    BY <1>1, <1>6, CorePhases DEF PacketInv, Waiting, Numbered, SessionTypes
  <2>2. pc' \in Waiting => \A k \in 1 .. Len(sent') : sent_tick'[k] < Ticks'
    BY <1>1, <1>2, <1>6, CorePhases DEF PacketInv, Waiting
  <2>3. ASSUME NEW t \in 1 .. Ticks', pc' \in Waiting => t < Ticks'
        PROVE  SentIffAdmissible(t)'
    <3>1. CASE pc \in Waiting => t < Ticks
      BY <1>1, <1>6, <2>3, <3>1 DEF PacketInv
    <3>2. CASE ~(pc \in Waiting => t < Ticks)
      <4>1. pc = "risk" /\ ~Core!RiskOk(decision)
        BY <1>1, <1>6, <2>3, <3>2, CorePhases DEF Waiting
      <4>2. t = Ticks
        <5>1. Ticks \in Nat
          BY <1>1 DEF RingInv, RingTypes, Ticks
        <5> QED
          BY <1>6, <2>3, <3>2, <5>1
      <4>3. ~Admissible(SignalAt(Ticks), SharesSentBefore(Ticks))
        BY <1>1, <1>8, <4>1 DEF DecisionInv, Waiting
      <4>4. Ticks \notin Range(sent_tick)
        <5>1. DOMAIN sent_tick = 1 .. Len(sent)
          BY <1>1 DEF PacketInv, PacketsAreSignals, SessionTypes
        <5>2. \A k \in 1 .. Len(sent) : sent_tick[k] < Ticks /\ sent_tick[k] \in Int
          BY <1>1, <4>1 DEF PacketInv, PacketsAreSignals, Waiting
        <5>3. \A k \in DOMAIN sent_tick : sent_tick[k] # Ticks
          BY <1>1, <5>1, <5>2 DEF RingInv, RingTypes, Ticks
        <5> QED
          BY <5>3 DEF Range
      <4> QED
        BY <1>6, <4>2, <4>3, <4>4 DEF SentIffAdmissible
    <3> QED
      BY <3>1, <3>2
  <2> QED
    BY <1>6, <2>1, <2>2, <2>3 DEF PacketInv
<1> QED
  BY <1>1, <1>4, <1>5, <1>9, <1>10, CoreKeepsTypes, CoreKeepsExposure DEF SessionInv

\* For every table, fill delay, limit, ring and day: what has filled, and when,
\* makes no difference to what is sent, because settled and pending shares
\* together are always those of the packets.
THEOREM SessionSendsSignals == SessionSpec => []SendsWhatBacktestSignals
<1>1. SessionInv /\ [SessionNext]_session_vars => SessionInv'
  <2> SUFFICES ASSUME SessionInv, [SessionNext]_session_vars PROVE SessionInv'
    OBVIOUS
  <2>1. CASE UNCHANGED session_vars
    <3>1. /\ pc' = pc /\ clock' = clock /\ decision' = decision /\ order_id' = order_id
          /\ settled' = settled /\ orders' = orders /\ idx' = idx
          /\ in_flight_net_shares' = in_flight_net_shares
          /\ active_strategy_id' = active_strategy_id /\ mid_ring' = mid_ring
          /\ write_idx' = write_idx /\ count' = count /\ history' = history
          /\ sent' = sent /\ sent_tick' = sent_tick
      BY <2>1 DEF session_vars, table, engine, rollingState
    <3>2. RingInv' /\ SessionTypes'
      BY <3>1 DEF SessionInv, RingInv, RingTypes, RingHoldsLatest, Ticks, Past,
         RingIndex, SessionTypes
    <3>3. ExposureIsSent' /\ DefensiveIsIdle'
      BY <3>1 DEF SessionInv, ExposureIsSent, DefensiveIsIdle, Core!Exposure,
         Core!AboutToSend, Core!PacketShares, Core!InFlight
    <3>4. /\ Ticks' = Ticks /\ Len(sent') = Len(sent)
          /\ \A t : /\ SignalAt(t)' = SignalAt(t)
                    /\ SharesSentBefore(t)' = SharesSentBefore(t)
                    /\ SentIffAdmissible(t)' <=> SentIffAdmissible(t)
          /\ PacketsAreSignals'
      BY <3>1, StoryStays DEF SessionInv, PacketInv
    <3>5. DecisionInv'
      BY <3>1, <3>4 DEF SessionInv, DecisionInv
    <3>6. PacketInv'
      BY <3>1, <3>4 DEF SessionInv, PacketInv
    <3> QED
      BY <3>2, <3>3, <3>5, <3>6 DEF SessionInv
  <2>2. CASE SessionNext
    BY <2>2, SessionTicks, SessionSends, SessionWorks DEF SessionNext
  <2> QED
    BY <2>1, <2>2
<1>2. SessionInv => SendsWhatBacktestSignals
  BY DEF SessionInv, PacketInv, SendsWhatBacktestSignals, SignalsAreSent, Waiting
<1> QED
  BY <1>1, <1>2, SessionStarts, PTL DEF SessionSpec
===============================================================================
