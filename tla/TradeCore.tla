----------------------------- MODULE TradeCore -----------------------------
(***************************************************************************)
(* The main loop of the PS trading core: poll a snapshot, run the          *)
(* strategy, check the decision against the risk limits, put an approved   *)
(* order into the in-flight table, hand it to the order writer, and sweep  *)
(* the table for orders whose modelled fill delay has elapsed              *)
(* (main.c, order_table.c, risk_guard.c, order_execution.c,                *)
(* market_data.c).                                                         *)
(*                                                                         *)
(* The loop is one thread; pc names the call it is about to make.  The     *)
(* sweep is modelled slot by slot, as the for loop runs, with the clock    *)
(* read once before the first slot.  The strategy is any choice from       *)
(* Decisions (module StrategyEngine models how it chooses).                *)
(***************************************************************************)
EXTENDS Integers, Sequences, FiniteSets, FiniteSetsExt

CONSTANTS
  TableSize,     (* ORDER_TABLE_SIZE                                       *)
  FillDelay,     (* FILL_DELAY_SEC, in ticks of the model's clock          *)
  TickGap,       (* MARKET_DATA_TICK_MS: nanosleep lasts at least this     *)
  MaxTicks,      (* MARKET_DATA_MAX_TICKS                                  *)
  MaxDelay,      (* BOUND: how far the clock runs on between two reads     *)
  MaxPosition,   (* RiskParams.max_position_shares                         *)
  MaxNotional,   (* RiskParams.max_notional_cad, dollars                   *)
  Decisions      (* what strategy_engine_tick may return                   *)

Side == {"HOLD", "BUY", "SELL"}
Decision == [side : Side, qty : Nat, price : Nat]

ASSUME TableAssumption    == TableSize \in Nat \ {0}
ASSUME TimeAssumption     == /\ FillDelay \in Nat \ {0}
                             /\ TickGap \in Nat
                             /\ MaxDelay \in Nat
                             /\ MaxTicks \in Nat
ASSUME LimitAssumption    == /\ MaxPosition \in Nat
                             /\ MaxNotional \in Nat
ASSUME DecisionAssumption == Decisions \subseteq Decision

VARIABLES
  pc,                      (* the call main() makes next                   *)
  clock,                   (* CLOCK_MONOTONIC                              *)
  emitted,                 (* snapshots handed out so far                  *)
  decision,                (* this tick's Decision                         *)
  order_id,                (* the last order ID given out                  *)
  settled,                 (* settled_position_shares                      *)
  orders,                  (* order_table.orders                           *)
  in_flight_order_count,   (* order_table.in_flight_order_count            *)
  in_flight_net_shares,    (* order_table.in_flight_net_shares             *)
  now,                     (* the sweep's one reading of the clock         *)
  idx,                     (* the slot the sweep looks at next             *)
  sent,                    (* history: the packets execute_order emitted   *)
  filled                   (* history: the order IDs that have filled      *)

table  == <<orders, in_flight_order_count, in_flight_net_shares>>
sweep  == <<now, idx>>
vars   == <<pc, clock, emitted, decision, order_id, settled, table, sweep,
            sent, filled>>

Slots     == 0 .. TableSize - 1
PcValues  == {"poll", "strategy", "risk", "insert", "execute", "clean",
              "slot", "exited", "fatal"}
Packet    == [order_id : Nat, side : Side, qty : Nat, price : Nat]
Order     == [order_id : Nat, side : Side, qty : Nat, price : Nat,
              submit_timestamp : Nat, state : {"EMPTY", "IN_FLIGHT"}]
Hold      == [side |-> "HOLD", qty |-> 0, price |-> 0]
EmptySlot == [order_id |-> 0, side |-> "HOLD", qty |-> 0, price |-> 0,
              submit_timestamp |-> 0, state |-> "EMPTY"]

----------------------------------------------------------------------------
(* The operators of risk_guard.c and order_table.c.                        *)

AbsVal(n) == IF n < 0 THEN -n ELSE n

SignedShares(side, qty) == IF side = "BUY" THEN qty ELSE -qty

OrderNotionalCad(d) == (d.qty * d.price) \div 100

Exposure == settled + in_flight_net_shares

NextExposure(d) == Exposure + SignedShares(d.side, d.qty)

BreachesNotional(d) == OrderNotionalCad(d) > MaxNotional

\* Variant: the limit compares the settled position only.
BreachesPositionSettledOnly(d) ==
  AbsVal(settled + SignedShares(d.side, d.qty)) > MaxPosition
\* Only an order that makes the exposure larger is refused.
BreachesPosition(d) == /\ AbsVal(NextExposure(d)) > MaxPosition
                       /\ AbsVal(NextExposure(d)) > AbsVal(Exposure)

\* The rate and in-flight limits have reason codes but no check.
RiskOk(d) == ~BreachesNotional(d) /\ ~BreachesPosition(d)

InFlight(i) == orders[i].state = "IN_FLIGHT"

Due(i)      == InFlight(i) /\ now - orders[i].submit_timestamp >= FillDelay

\* Variant: the slot is picked by order ID and its state is not looked at.
SlotById   == {order_id % TableSize}
EmptySlots == {i \in Slots : ~InFlight(i)}

\* Variant: the tick budget is off by one.
FeedOpenOneMore == emitted <= MaxTicks
FeedOpen        == emitted < MaxTicks

\* Time goes by, by an amount the program does not control.
Elapse(least) == \E d \in least .. least + MaxDelay : clock' = clock + d

----------------------------------------------------------------------------
Init == /\ pc = "poll"
        /\ clock = 0
        /\ emitted = 0
        /\ decision = Hold
        /\ order_id = 0
        /\ settled = 0
        /\ orders = [i \in Slots |-> EmptySlot]
        /\ in_flight_order_count = 0
        /\ in_flight_net_shares = 0
        /\ now = 0
        /\ idx = 0
        /\ sent = <<>>
        /\ filled = {}

\* get_snapshot_from_market_data: the feed is exhausted and the process exits.
FeedExhausted == /\ pc = "poll"
                 /\ ~FeedOpen
                 /\ pc' = "exited"
                 /\ UNCHANGED <<clock, emitted, decision, order_id, settled,
                                table, sweep, sent, filled>>

\* get_snapshot_from_market_data: sleep one tick gap, then hand out a snapshot.
GetSnapshot == /\ pc = "poll"
               /\ FeedOpen
               /\ Elapse(TickGap)
               /\ emitted' = emitted + 1
               /\ pc' = "strategy"
               /\ UNCHANGED <<decision, order_id, settled, table, sweep,
                              sent, filled>>

\* strategy_engine_tick: a HOLD skips the risk guard and the order path.
StrategyTick == /\ pc = "strategy"
                /\ \E d \in Decisions :
                     /\ decision' = d
                     /\ pc' = IF d.side = "HOLD" THEN "clean" ELSE "risk"
                /\ UNCHANGED <<clock, emitted, order_id, settled, table,
                               sweep, sent, filled>>

\* risk_guard_check refuses the decision; report_reject only logs.
RiskReject == /\ pc = "risk"
              /\ ~RiskOk(decision)
              /\ pc' = "clean"
              /\ UNCHANGED <<clock, emitted, decision, order_id, settled,
                             table, sweep, sent, filled>>

\* risk_guard_check approves: the order gets the next ID.
RiskApprove == /\ pc = "risk"
               /\ RiskOk(decision)
               /\ order_id' = order_id + 1
               /\ pc' = "insert"
               /\ UNCHANGED <<clock, emitted, decision, settled, table,
                              sweep, sent, filled>>

\* Variant: the order is stamped with the clock reading of the last sweep.
SubmitTimeStale == now
SubmitTime      == clock'

\* insert_order_into_table: the first empty slot takes the order.
InsertOrder ==
  /\ pc = "insert"
  /\ Elapse(0)
  /\ \E i \in EmptySlots :
       /\ \A j \in EmptySlots : i <= j
       /\ orders' = [orders EXCEPT ![i] =
                       [order_id |-> order_id, side |-> decision.side,
                        qty |-> decision.qty, price |-> decision.price,
                        submit_timestamp |-> SubmitTime, state |-> "IN_FLIGHT"]]
  /\ in_flight_order_count' = in_flight_order_count + 1
  /\ in_flight_net_shares' =
       in_flight_net_shares + SignedShares(decision.side, decision.qty)
  /\ pc' = "execute"
  /\ UNCHANGED <<emitted, decision, order_id, settled, sweep, sent, filled>>

\* insert_order_into_table finds no empty slot: main() exits with FATAL.
TableFull == /\ pc = "insert"
             /\ EmptySlots = {}
             /\ pc' = "fatal"
             /\ UNCHANGED <<clock, emitted, decision, order_id, settled,
                            table, sweep, sent, filled>>

\* encode_order
EncodeOrder(d) == [order_id |-> order_id, side |-> d.side,
                   qty |-> d.qty, price |-> d.price]

\* execute_order: the packet leaves.
ExecuteOrder == /\ pc = "execute"
                /\ sent' = Append(sent, EncodeOrder(decision))
                /\ pc' = "clean"
                /\ UNCHANGED <<clock, emitted, decision, order_id, settled,
                               table, sweep, filled>>

\* clean_order_in_table: read the clock once, start at slot 0.
CleanStart == /\ pc = "clean"
              /\ Elapse(0)
              /\ now' = clock'
              /\ idx' = 0
              /\ pc' = "slot"
              /\ UNCHANGED <<emitted, decision, order_id, settled, table,
                             sent, filled>>

\* Variants: the clock is read again for every slot; the index stays where it
\* is.
NextSlotRereadingClock ==
  /\ idx' = idx + 1
  /\ pc' = IF idx + 1 = TableSize THEN "poll" ELSE "slot"
  /\ Elapse(0)
  /\ now' = clock'
  /\ UNCHANGED <<emitted, decision, order_id, sent>>
NextSlotStuck == /\ idx' = idx
                 /\ pc' = "slot"
                 /\ UNCHANGED <<clock, emitted, decision, order_id, now, sent>>
NextSlot == /\ idx' = idx + 1
            /\ pc' = IF idx + 1 = TableSize THEN "poll" ELSE "slot"
            /\ UNCHANGED <<clock, emitted, decision, order_id, now, sent>>

\* Shares move from pending to settled.  Variant: they stay pending as well.
MoveSharesKeeping(shares) == /\ settled' = settled + shares
                             /\ UNCHANGED in_flight_net_shares
MoveShares(shares)        == /\ settled' = settled + shares
                             /\ in_flight_net_shares' =
                                  in_flight_net_shares - shares

\* clean_order_in_table, one iteration: the order in this slot fills.
FillSlot ==
  /\ pc = "slot"
  /\ Due(idx)
  /\ MoveShares(SignedShares(orders[idx].side, orders[idx].qty))
  /\ orders' = [orders EXCEPT ![idx].state = "EMPTY"]
  /\ in_flight_order_count' = in_flight_order_count - 1
  /\ filled' = filled \cup {orders[idx].order_id}
  /\ NextSlot

\* clean_order_in_table, one iteration: nothing to fill in this slot.
SkipSlot == /\ pc = "slot"
            /\ ~Due(idx)
            /\ NextSlot
            /\ UNCHANGED <<settled, table, filled>>

Next == \/ FeedExhausted \/ GetSnapshot \/ StrategyTick
        \/ RiskReject \/ RiskApprove
        \/ InsertOrder \/ TableFull \/ ExecuteOrder
        \/ CleanStart \/ FillSlot \/ SkipSlot

\* The loop is the only thread of its core and never waits on anything.
Fairness == WF_vars(Next)

Spec == Init /\ [][Next]_vars /\ Fairness

----------------------------------------------------------------------------
(* Properties.                                                             *)

InFlightSlots == {i \in Slots : InFlight(i)}
InFlightIds   == {orders[i].order_id : i \in InFlightSlots}

\* IDs given to orders that reached the table.
LastInserted == IF pc \in {"insert", "fatal"} THEN order_id - 1 ELSE order_id
Inserted     == 1 .. LastInserted

\* Every variable has its type, and the ID, sweep and clock counters stay in
\* step with each other.
TypeOK == /\ pc \in PcValues
          /\ clock \in Nat
          /\ emitted \in 0 .. MaxTicks
          /\ decision \in Decision
          /\ order_id \in Nat
          /\ pc = "insert" => order_id > 0
          /\ settled \in Int
          /\ orders \in [Slots -> Order]
          /\ in_flight_order_count \in Int
          /\ in_flight_net_shares \in Int
          /\ now \in 0 .. clock
          /\ idx \in 0 .. TableSize
          /\ pc = "slot" => idx \in Slots
          /\ sent \in Seq(Packet)
          /\ filled \in SUBSET Nat

\* Whatever the strategy asks for and whenever fills arrive, also half-way
\* through a sweep, settled plus pending shares stay within the position limit
\* (risk_guard_check with the two moves of clean_order_in_table).
ExposureBounded == AbsVal(Exposure) <= MaxPosition

\* At the top of the loop the settled position alone is within the limit too.
\* It holds only because every sweep fills a prefix of the orders submitted.
SettledBounded == pc = "poll" => AbsVal(settled) <= MaxPosition

CountAgrees == in_flight_order_count = Cardinality(InFlightSlots)
SlotShares  == [i \in Slots |-> SignedShares(orders[i].side, orders[i].qty)]
NetAgrees   == in_flight_net_shares =
                 SumFunctionOnSet(SlotShares, InFlightSlots)
\* The two running totals of the table agree with its slots: no insert or fill
\* is counted twice, missed, or counted with the wrong sign.
TotalsAgree == CountAgrees /\ NetAgrees

\* Every order that entered the table is either in exactly one slot or filled,
\* never both and never neither, however slots are reused (FS12: no corruption
\* and no loss).
NoOrderLost ==
  /\ InFlightIds \cup filled = Inserted
  /\ InFlightIds \cap filled = {}
  /\ \A i, j \in InFlightSlots :
       orders[i].order_id = orders[j].order_id => i = j

\* Between sweeps the filled orders are the oldest ones: an order never fills
\* in an earlier sweep than one submitted before it, although the sweep goes by
\* slot and slots are reused out of order.
FillsFollowSubmission ==
  pc = "poll" => \A f \in filled, p \in InFlightIds : f < p

\* A sweep leaves no order behind that had reached the fill delay when the
\* sweep read the clock.
NoOverdueOrder ==
  pc = "poll" =>
    \A i \in InFlightSlots : now - orders[i].submit_timestamp < FillDelay

\* The packets sent are the orders inserted, once each and in ID order, and a
\* slot in flight still holds what was sent under its ID.
Corresponds(o, p) == /\ o.side = p.side
                     /\ o.qty = p.qty
                     /\ o.price = p.price
WireMatchesTable ==
  pc = "poll" =>
    /\ Len(sent) = order_id
    /\ \A k \in 1 .. Len(sent) : sent[k].order_id = k
    /\ \A i \in InFlightSlots : Corresponds(orders[i], sent[orders[i].order_id])

\* No order fills before its delay is over, and none leaves the table in any
\* way but by filling.
LeavesOnlyByFilling ==
  [][\A i \in Slots : InFlight(i) /\ ~InFlight(i)' =>
       /\ clock - orders[i].submit_timestamp >= FillDelay
       /\ orders[i].order_id \in filled']_vars

\* The core implements the abstract portfolio: filling a slot is the portfolio's
\* Fill, inserting an order its Accept, every other step a Tick or a stutter.
PendingOrder(i) == [id |-> orders[i].order_id,
                    shares |-> SignedShares(orders[i].side, orders[i].qty),
                    at |-> orders[i].submit_timestamp]
P == INSTANCE Portfolio WITH
       Limit <- MaxPosition, Delay <- FillDelay,
       Lots <- {SignedShares(d.side, d.qty) : d \in Decisions},
       time <- clock, position <- settled, exposure <- Exposure,
       pending <- {PendingOrder(i) : i \in InFlightSlots},
       last_id <- LastInserted
ImplementsPortfolio == P!Spec

\* A tick that was started is completed: main() comes back to the poll, or has
\* stopped on a full table.
TickCompletes == pc = "strategy" ~> pc \in {"poll", "fatal"}

----------------------------------------------------------------------------
(* Inductive strengthenings used by TradeCoreProofs.                       *)

\* The decision at the risk guard came from the strategy, and an approved one
\* is still within the limit when it is inserted.
ExposureInv == /\ ExposureBounded
               /\ pc \in {"risk", "insert"} => decision \in Decisions
               /\ pc = "insert" => AbsVal(NextExposure(decision)) <= MaxPosition

\* Orders in the table are stamped in the order of their IDs.
AgeInv == /\ \A i \in InFlightSlots : orders[i].submit_timestamp <= clock
          /\ \A i, j \in InFlightSlots :
               orders[i].order_id < orders[j].order_id =>
                 orders[i].submit_timestamp <= orders[j].submit_timestamp

\* Half-way through a sweep, the slots already visited hold nothing due, and an
\* order older than one already filled is due and still to be visited.
SweepInv == /\ pc \in {"slot", "poll"} =>
                 \A i \in InFlightSlots : (pc = "slot" => i < idx) => ~Due(i)
            /\ \A f \in filled, i \in InFlightSlots :
                 \/ f < orders[i].order_id
                 \/ pc = "slot" /\ idx <= i /\ Due(i)

LedgerInv == NoOrderLost /\ AgeInv /\ SweepInv

\* The packet of an order follows its insertion, and the decision is still the
\* one that was inserted.
WireInv == /\ Len(sent) = IF pc \in {"insert", "fatal", "execute"}
                          THEN order_id - 1 ELSE order_id
           /\ \A k \in 1 .. Len(sent) : sent[k].order_id = k
           /\ \A i \in InFlightSlots :
                \/ /\ orders[i].order_id \in 1 .. Len(sent)
                   /\ Corresponds(orders[i], sent[orders[i].order_id])
                \/ /\ pc = "execute" /\ orders[i].order_id = order_id
                   /\ Corresponds(orders[i], decision)

\* The packets as a history of the position: the settled shares are those of
\* the filled packets, the exposure those of all packets and of the order about
\* to be sent, and the exposure was within the limit after every packet.
PacketShares == [k \in 1 .. Len(sent) |->
                   SignedShares(sent[k].side, sent[k].qty)]
AboutToSend  == IF pc = "execute" THEN SignedShares(decision.side, decision.qty)
                                  ELSE 0
PrefixInv ==
  /\ filled \subseteq 1 .. Len(sent)
  /\ settled = SumFunctionOnSet(PacketShares, filled)
  /\ Exposure = SumFunctionOnSet(PacketShares, 1 .. Len(sent)) + AboutToSend
  /\ \A m \in 0 .. Len(sent) :
       AbsVal(SumFunctionOnSet(PacketShares, 1 .. m)) <= MaxPosition

============================================================================
