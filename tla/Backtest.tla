------------------------------ MODULE Backtest ------------------------------
(***************************************************************************)
(* The execution simulation of the end-of-day pipeline: one pass over the  *)
(* snapshots of a day, in which a strategy's signal is checked against the *)
(* four risk limits, an accepted order waits FillDelay in a first-in       *)
(* first-out queue, and everything still waiting at the end of the day is  *)
(* settled (backtest/engine.py, backtest/risk.py).                         *)
(*                                                                         *)
(* pc names the part of the loop body that runs next.  The signal of a     *)
(* snapshot is any member of Signals (modules EodStrategies and            *)
(* StrategyEngine model how it is computed); its time is any step on from  *)
(* the one before, as load_snapshots lets through.  Prices are cents and   *)
(* equity is half-cents, as in the code.                                   *)
(***************************************************************************)
EXTENDS Integers, Sequences, SequencesExt, FiniteSets

CONSTANTS
  Snapshots,       (* len(snapshots)                                       *)
  Gaps,            (* BOUND: the time between two snapshots                *)
  Signals,         (* what a strategy may signal                           *)
  Mids,            (* mid_half_cents of a snapshot                         *)
  FillDelay,       (* FILL_DELAY_NS                                        *)
  RateWindow,      (* RATE_WINDOW_NS                                       *)
  MaxNotional, MaxPosition, MaxOrderRate, MaxInFlight,  (* RiskLimits      *)
  MaxLot           (* BOUND: the largest quantity a strategy signals       *)

Side   == {"HOLD", "BUY", "SELL"}
Signal == [side : {"BUY", "SELL"}, quantity : Nat \ {0}, price : Nat \ {0}]
Hold   == [side |-> "HOLD", quantity |-> 0, price |-> 0]

ASSUME DayAssumption    == Snapshots \in Nat \ {0}
ASSUME GapAssumption    == Gaps \subseteq Nat /\ Mids \subseteq Nat
ASSUME SignalAssumption == /\ Signals \subseteq Signal \cup {Hold}
                           /\ MaxLot \in Nat
                           /\ \A s \in Signals : s.quantity <= MaxLot
ASSUME DelayAssumption  == FillDelay \in Nat /\ RateWindow \in Nat \ {0}
ASSUME RiskAssumption   == /\ MaxNotional \in Nat /\ MaxPosition \in Nat
                           /\ MaxOrderRate \in Nat /\ MaxInFlight \in Nat \ {0}

VARIABLES
  pc,              (* "next", "signal", "fill", "settle" or "done"           *)
  index,           (* snapshots begun                                      *)
  now,             (* now_ns                                               *)
  mid,             (* mid_half_cents of this snapshot                      *)
  signal,          (* the signal of this snapshot                          *)
  in_flight,       (* accepted orders not filled, oldest first             *)
  accepted_times,  (* acceptance times inside the rate window              *)
  position,
  cash,            (* cash_cents                                           *)
  equity,          (* equity_half_cents of the latest snapshot             *)
  counts,          (* signals, accepted, rejected, fills                   *)
  maxima,          (* the largest position, queue and rate seen            *)
  log              (* history: every order accepted, in order              *)

books == <<position, cash, equity>>
vars  == <<pc, index, now, mid, signal, in_flight, accepted_times, books,
           counts, maxima, log>>

Order == [submit_time : Nat, side : Side, quantity : Nat, price : Nat]

----------------------------------------------------------------------------
(* check_risk                                                              *)

AbsVal(n) == IF n < 0 THEN -n ELSE n
Larger(a, b) == IF a > b THEN a ELSE b

SignedQuantity(o) == IF o.side = "BUY" THEN o.quantity ELSE -o.quantity

\* What the orders of a sequence add to the position and to the cash.
Shares(s)    == [i \in DOMAIN s |-> SignedQuantity(s[i])]
Payments(s)  == [i \in DOMAIN s |-> SignedQuantity(s[i]) * s[i].price]
NetShares(s) == SumFunctionOnSet(Shares(s), DOMAIN s)
NetCash(s)   == -SumFunctionOnSet(Payments(s), DOMAIN s)

OrderNotional(o) == (o.quantity * o.price) \div 100

\* Variant: a limit may be passed by the order that reaches it.
PositionBreachedLate(o) == AbsVal(position) > MaxPosition
\* The orders still in flight are left out of the position.
PositionBreached(o) == AbsVal(position + SignedQuantity(o)) > MaxPosition

RateBreached(o) == Len(accepted_times) + 1 > MaxOrderRate

\* RiskDecision.reasons
RejectionReasons(o) ==
  {r \in {"NOTIONAL", "POSITION", "ORDER_RATE", "IN_FLIGHT"} :
     \/ r = "NOTIONAL"   /\ OrderNotional(o) > MaxNotional
     \/ r = "POSITION"   /\ PositionBreached(o)
     \/ r = "ORDER_RATE" /\ RateBreached(o)
     \/ r = "IN_FLIGHT"  /\ Len(in_flight) + 1 > MaxInFlight}

----------------------------------------------------------------------------
Init == /\ pc = "next"
        /\ index = 0
        /\ now = 0
        /\ mid = 0
        /\ signal = Hold
        /\ in_flight = <<>>
        /\ accepted_times = <<>>
        /\ position = 0 /\ cash = 0 /\ equity = 0
        /\ counts = [signals |-> 0, accepted |-> 0, rejected |-> 0, fills |-> 0]
        /\ maxima = [position |-> 0, in_flight |-> 0, order_rate |-> 0]
        /\ log = <<>>

\* The next snapshot is read.
NextSnapshot(gap, m, s) ==
  /\ pc = "next"
  /\ index < Snapshots
  /\ index' = index + 1
  /\ now' = now + gap
  /\ mid' = m
  /\ signal' = s
  /\ pc' = "signal"
  /\ UNCHANGED <<in_flight, accepted_times, books, counts, maxima, log>>

\* Variant: an acceptance leaves the window one time unit early.
ExpiredEarly == accepted_times # <<>> /\ Head(accepted_times) <= now - RateWindow + 1
\* An acceptance exactly one window ago no longer counts.
Expired      == accepted_times # <<>> /\ Head(accepted_times) <= now - RateWindow

\* The rate window moves up to the snapshot's time.
EvictAcceptance == /\ pc = "signal"
                   /\ Expired
                   /\ accepted_times' = Tail(accepted_times)
                   /\ UNCHANGED <<pc, index, now, mid, signal, in_flight, books,
                                  counts, maxima, log>>

\* Variant: the quantity is stored with its sign.
AcceptedSigned == [submit_time |-> now, side |-> signal.side,
                   quantity |-> SignedQuantity(signal), price |-> signal.price]
Accepted == [submit_time |-> now, side |-> signal.side,
             quantity |-> signal.quantity, price |-> signal.price]

Accept ==
  /\ in_flight' = Append(in_flight, Accepted)
  /\ accepted_times' = Append(accepted_times, now)
  /\ log' = Append(log, Accepted)
  /\ counts' = [counts EXCEPT !.signals = @ + 1, !.accepted = @ + 1]
  /\ maxima' = [maxima EXCEPT !.in_flight  = Larger(@, Len(in_flight')),
                              !.order_rate = Larger(@, Len(accepted_times'))]

Reject ==
  /\ counts' = [counts EXCEPT !.signals = @ + 1, !.rejected = @ + 1]
  /\ UNCHANGED <<in_flight, accepted_times, maxima, log>>

\* The signal is counted, checked, and accepted or rejected.
RiskCheck == /\ pc = "signal"
             /\ ~Expired
             /\ signal # Hold
             /\ IF RejectionReasons(signal) = {} THEN Accept ELSE Reject
             /\ pc' = "fill"
             /\ UNCHANGED <<index, now, mid, signal, books>>

HoldSignal == /\ pc = "signal"
              /\ ~Expired
              /\ signal = Hold
              /\ pc' = "fill"
              /\ UNCHANGED <<index, now, mid, signal, in_flight, accepted_times,
                             books, counts, maxima, log>>

\* Variant: the newest order is the one filled.
FillOrderNewest ==
  LET o == Last(in_flight)
  IN  /\ in_flight' = Front(in_flight)
      /\ position' = position + SignedQuantity(o)
      /\ cash' = cash - SignedQuantity(o) * o.price
      /\ counts' = [counts EXCEPT !.fills = @ + 1]
      /\ maxima' = [maxima EXCEPT !.position = Larger(@, AbsVal(position'))]
\* Variant: an order is filled at the latest signal's price.
FillOrderAtLatest ==
  LET o == Head(in_flight)
  IN  /\ in_flight' = Tail(in_flight)
      /\ position' = position + SignedQuantity(o)
      /\ cash' = cash - SignedQuantity(o) * signal.price
      /\ counts' = [counts EXCEPT !.fills = @ + 1]
      /\ maxima' = [maxima EXCEPT !.position = Larger(@, AbsVal(position'))]
\* fill_order(in_flight.popleft()): at the price it was submitted at.
FillOrder ==
  LET o == Head(in_flight)
  IN  /\ in_flight' = Tail(in_flight)
      /\ position' = position + SignedQuantity(o)
      /\ cash' = cash - SignedQuantity(o) * o.price
      /\ counts' = [counts EXCEPT !.fills = @ + 1]
      /\ maxima' = [maxima EXCEPT !.position = Larger(@, AbsVal(position'))]

\* Variant: the delay is on the wrong side, so that an order fills at once.
MaturedAtOnce == in_flight # <<>> /\ Head(in_flight).submit_time <= now + FillDelay
Matured == in_flight # <<>> /\ Head(in_flight).submit_time + FillDelay <= now

FillMatured == /\ pc = "fill"
               /\ Matured
               /\ FillOrder
               /\ UNCHANGED <<pc, index, now, mid, signal, accepted_times,
                              equity, log>>

\* Equity is marked once every matured order is in the position.
MarkToMarket == /\ pc = "fill"
                /\ ~Matured
                /\ equity' = 2 * cash + position * mid
                /\ pc' = IF index = Snapshots THEN "settle" ELSE "next"
                /\ UNCHANGED <<index, now, mid, signal, in_flight,
                               accepted_times, position, cash, counts, maxima,
                               log>>

\* End of day: whatever is in flight is filled, matured or not.
SettleOne == /\ pc = "settle"
             /\ in_flight # <<>>
             /\ FillOrder
             /\ UNCHANGED <<pc, index, now, mid, signal, accepted_times,
                            equity, log>>

\* The day's last equity is overwritten with the settled result.
CloseDay == /\ pc = "settle"
            /\ in_flight = <<>>
            /\ equity' = 2 * cash + position * mid
            /\ pc' = "done"
            /\ UNCHANGED <<index, now, mid, signal, in_flight, accepted_times,
                           position, cash, counts, maxima, log>>

Next == \/ \E gap \in Gaps, m \in Mids, s \in Signals : NextSnapshot(gap, m, s)
        \/ EvictAcceptance
        \/ RiskCheck
        \/ HoldSignal
        \/ FillMatured
        \/ MarkToMarket
        \/ SettleOne
        \/ CloseDay

Spec == Init /\ [][Next]_vars

----------------------------------------------------------------------------
(* Type correctness of the loop's locals.                                  *)
TypeOK == /\ pc \in {"next", "signal", "fill", "settle", "done"}
          /\ index \in 0 .. Snapshots
          /\ now \in Nat /\ mid \in Nat
          /\ signal \in Signals \cup {Hold}
          /\ in_flight \in Seq(Order)
          /\ accepted_times \in Seq(Nat)
          /\ position \in Int /\ cash \in Int /\ equity \in Int
          /\ counts \in [signals : Nat, accepted : Nat, rejected : Nat, fills : Nat]
          /\ maxima \in [position : Nat, in_flight : Nat, order_rate : Nat]
          /\ log \in Seq(Order)

\* The order of the log that filled last is log[counts.fills]: the queue is
\* what follows it, so fills happen in submission order, none is skipped and
\* none happens twice; at the end of the day all have filled.
EveryOrderSettles ==
  /\ counts.fills <= Len(log)
  /\ in_flight = SubSeq(log, counts.fills + 1, Len(log))
  /\ pc = "done" => counts.fills = counts.accepted

\* Position and cash are exactly what the filled orders make them, and the
\* day's result values them at the last mid price: profit is neither made nor
\* lost in the queue.
BooksFollowFills ==
  LET filled == SubSeq(log, 1, counts.fills)
  IN  /\ position = NetShares(filled)
      /\ cash = NetCash(filled)
      /\ pc = "done" => equity = 2 * NetCash(log) + NetShares(log) * mid

\* No window of RateWindow time units, wherever it starts, holds more than
\* MaxOrderRate accepted orders.
RateNeverExceeded ==
  \A i \in 1 .. Len(log) :
    Cardinality({j \in 1 .. Len(log) :
                   /\ log[j].submit_time > log[i].submit_time - RateWindow
                   /\ log[j].submit_time <= log[i].submit_time}) <= MaxOrderRate

\* Once a snapshot has been marked, no order that had to be filled by then is
\* still waiting.
NoneOverdue ==
  pc = "next" =>
    \A i \in 1 .. Len(in_flight) : in_flight[i].submit_time + FillDelay > now

\* The position check leaves the orders in flight out, so the limit can be
\* passed, but never by more than the other orders of one full queue.
OvershootBounded ==
  AbsVal(position) <= MaxPosition + (MaxInFlight - 1) * MaxLot

\* A backtest is a portfolio as the trading core is one (TradeCore), but the limit
\* it keeps is wider by the orders the check leaves out: nothing else tells their
\* fills apart, for settling at the end of the day is waiting for the last delay.
WaitingOrder(i) == [id |-> counts.fills + i, shares |-> SignedQuantity(in_flight[i]),
                    at |-> in_flight[i].submit_time]
P == INSTANCE Portfolio WITH
       Limit <- MaxPosition + (MaxInFlight - 1) * MaxLot, Delay <- FillDelay,
       Lots <- {SignedQuantity(s) : s \in Signals},
       time <- IF pc \in {"settle", "done"} THEN now + FillDelay ELSE now,
       exposure <- position + NetShares(in_flight),
       pending <- {WaitingOrder(i) : i \in DOMAIN in_flight},
       last_id <- counts.accepted
ImplementsPortfolio == P!Spec

============================================================================
