-------------------------- MODULE TradeCoreProofs --------------------------
(***************************************************************************)
(* Proofs about TradeCore, for every table size, fill delay, limit, set of *)
(* decisions and length of session.                                        *)
(***************************************************************************)
EXTENDS TradeCore, Folding

USE DEF Side

\* The definitions every step of the loop is made of.
LEMMA SlotsFinite == IsFiniteSet(Slots)
  BY FS_Interval, TableAssumption DEF Slots

\* A signed amount of a type-correct order is an integer.
LEMMA SignedSharesType ==
  ASSUME NEW side \in Side, NEW qty \in Nat
  PROVE  SignedShares(side, qty) \in Int
  BY DEF SignedShares

----------------------------------------------------------------------------
\* Every variable keeps its type through every call of the loop.
THEOREM TypeCorrect == Spec => []TypeOK
<1>1. Init => TypeOK
  BY TableAssumption, TimeAssumption
  DEF Init, TypeOK, PcValues, Decision, Hold, Order, EmptySlot, Slots
<1>2. TypeOK /\ [Next]_vars => TypeOK'
  <2> SUFFICES ASSUME TypeOK, [Next]_vars
               PROVE  TypeOK'
    OBVIOUS
  <2> USE TableAssumption, TimeAssumption, DecisionAssumption
      DEF TypeOK, PcValues
  <2>1. CASE FeedExhausted
    BY <2>1 DEF FeedExhausted, table, sweep
  <2>2. CASE GetSnapshot
    BY <2>2 DEF GetSnapshot, FeedOpen, Elapse, table, sweep
  <2>3. CASE StrategyTick
    BY <2>3 DEF StrategyTick, table, sweep
  <2>4. CASE RiskReject
    BY <2>4 DEF RiskReject, table, sweep
  <2>5. CASE RiskApprove
    BY <2>5 DEF RiskApprove, table, sweep
  <2>6. CASE InsertOrder
    <3>1. clock' \in Nat /\ clock' >= clock
      BY <2>6 DEF InsertOrder, Elapse
    <3>2. orders' \in [Slots -> Order]
      BY <2>6, <3>1 DEF InsertOrder, EmptySlots, Order, Decision, SubmitTime
    <3>3. SignedShares(decision.side, decision.qty) \in Int
      BY SignedSharesType DEF Decision
    <3>4. /\ in_flight_order_count' \in Int
          /\ in_flight_net_shares' \in Int
      BY <2>6, <3>3 DEF InsertOrder
    <3>5. /\ pc' = "execute"
          /\ emitted' = emitted /\ decision' = decision
          /\ order_id' = order_id /\ settled' = settled
          /\ now' = now /\ idx' = idx /\ sent' = sent /\ filled' = filled
      BY <2>6 DEF InsertOrder, sweep
    <3>6. now' \in 0 .. clock'
      BY <3>1, <3>5
    <3>7. QED
      BY <3>1, <3>2, <3>4, <3>5, <3>6
  <2>7. CASE TableFull
    BY <2>7 DEF TableFull, table, sweep
  <2>8. CASE ExecuteOrder
    BY <2>8 DEF ExecuteOrder, EncodeOrder, table, sweep, Packet, Decision
  <2>9. CASE CleanStart
    BY <2>9 DEF CleanStart, Elapse, table, Slots
  <2>10. CASE FillSlot
    <3>1. idx \in Slots /\ orders[idx] \in Order
      BY <2>10 DEF FillSlot
    <3>2. SignedShares(orders[idx].side, orders[idx].qty) \in Int
      BY <3>1, SignedSharesType DEF Order
    <3>3. settled' \in Int /\ in_flight_net_shares' \in Int
      <4>. DEFINE shares == SignedShares(orders[idx].side, orders[idx].qty)
      <4>1. settled' = settled + shares /\ in_flight_net_shares' = in_flight_net_shares - shares
        BY <2>10, Zenon DEF FillSlot, MoveShares
      <4>2. settled \in Int /\ in_flight_net_shares \in Int /\ shares \in Int
        BY <3>2, Zenon
      <4>. HIDE DEF shares
      <4>. QED
        BY <4>1, <4>2
    <3>4. orders' \in [Slots -> Order] /\ filled' \in SUBSET Nat
      BY <2>10, <3>1 DEF FillSlot, Order
    <3>5. /\ pc' \in {"slot", "poll"}
          /\ idx' \in 0 .. TableSize
          /\ pc' = "slot" => idx' \in Slots
      <4>1. /\ idx' = idx + 1
            /\ pc' = IF idx + 1 = TableSize THEN "poll" ELSE "slot"
        BY <2>10 DEF FillSlot, NextSlot
      <4>2. idx \in 0 .. TableSize - 1 /\ TableSize \in Nat
        BY <3>1 DEF Slots
      <4>3. QED
        BY <4>1, <4>2 DEF Slots
    <3>6. /\ in_flight_order_count' \in Int
          /\ UNCHANGED <<clock, emitted, decision, order_id, now, sent>>
      BY <2>10 DEF FillSlot, NextSlot
    <3>7. QED
      BY <3>3, <3>4, <3>5, <3>6
  <2>11. CASE SkipSlot
    BY <2>11 DEF SkipSlot, NextSlot, table, Slots
  <2>12. CASE UNCHANGED vars
    BY <2>12 DEF vars, table, sweep
  <2>13. QED
    BY <2>1, <2>2, <2>3, <2>4, <2>5, <2>6, <2>7, <2>8, <2>9, <2>10, <2>11,
       <2>12 DEF Next
<1>3. QED
  BY <1>1, <1>2, PTL DEF Spec

----------------------------------------------------------------------------
\* The exposure limit: no accepted order and no fill, in whatever order they
\* come, takes settled plus pending shares past max_position_shares.
LEMMA ExposureStep ==
  ASSUME TypeOK, TypeOK', ExposureInv, [Next]_vars
  PROVE  ExposureInv'
<1> USE LimitAssumption, DecisionAssumption
    DEF ExposureInv, ExposureBounded, Exposure, NextExposure, TypeOK, Decision
<1>1. CASE FeedExhausted
  BY <1>1 DEF FeedExhausted, table
<1>2. CASE GetSnapshot
  BY <1>2 DEF GetSnapshot, table
<1>3. CASE StrategyTick
  BY <1>3 DEF StrategyTick, table
<1>4. CASE RiskReject
  BY <1>4 DEF RiskReject, table
<1>5. CASE RiskApprove
  <2> USE <1>5 DEF RiskApprove, table
  <2>1. ~BreachesPosition(decision)
    BY DEF RiskOk
  <2>2. SignedShares(decision.side, decision.qty) \in Int
    BY SignedSharesType
  <2>3. AbsVal(NextExposure(decision)) <= MaxPosition
    BY <2>1, <2>2 DEF BreachesPosition, AbsVal
  <2>4. QED
    BY <2>3
<1>6. CASE InsertOrder
  <2>1. SignedShares(decision.side, decision.qty) \in Int
    BY SignedSharesType
  <2>2. settled' + in_flight_net_shares' = NextExposure(decision)
    BY <1>6, <2>1 DEF InsertOrder
  <2>3. AbsVal(NextExposure(decision)) <= MaxPosition
    BY <1>6 DEF InsertOrder
  <2>4. AbsVal(settled' + in_flight_net_shares') <= MaxPosition
    BY <2>2, <2>3
  <2>5. pc' = "execute"
    BY <1>6 DEF InsertOrder
  <2>6. QED
    BY <2>4, <2>5
<1>7. CASE TableFull
  BY <1>7 DEF TableFull, table
<1>8. CASE ExecuteOrder
  BY <1>8 DEF ExecuteOrder, table
<1>9. CASE CleanStart
  BY <1>9 DEF CleanStart, table
<1>10. CASE FillSlot
  <2> DEFINE shares == SignedShares(orders[idx].side, orders[idx].qty)
  <2>1. shares \in Int
    BY <1>10, SignedSharesType DEF Order, FillSlot
  <2>2. MoveShares(shares)
    BY <1>10 DEF FillSlot
  <2> HIDE DEF shares
  <2>3. settled' + in_flight_net_shares' = settled + in_flight_net_shares
    BY <2>1, <2>2 DEF MoveShares
  <2>4. pc' \in {"slot", "poll"}
    BY <1>10 DEF FillSlot, NextSlot
  <2>5. QED
    BY <2>3, <2>4
<1>11. CASE SkipSlot
  BY <1>11 DEF SkipSlot, NextSlot, table
<1>12. CASE UNCHANGED vars
  BY <1>12 DEF vars, table
<1>13. QED
  BY <1>1, <1>2, <1>3, <1>4, <1>5, <1>6, <1>7, <1>8, <1>9, <1>10, <1>11,
     <1>12 DEF Next

THEOREM ExposureSafe == Spec => []ExposureBounded
<1>1. Init => ExposureInv
  BY LimitAssumption DEF Init, ExposureInv, ExposureBounded, Exposure, AbsVal
<1>2. TypeOK /\ TypeOK' /\ ExposureInv /\ [Next]_vars => ExposureInv'
  BY ExposureStep
<1>3. ExposureInv => ExposureBounded
  BY DEF ExposureInv
<1>4. QED
  BY <1>1, <1>2, <1>3, TypeCorrect, PTL DEF Spec

----------------------------------------------------------------------------
\* The order counter always equals the number of slots in flight.
LEMMA CountStep ==
  ASSUME TypeOK, CountAgrees, [Next]_vars
  PROVE  CountAgrees'
<1> USE DEF CountAgrees, InFlightSlots, InFlight
<1>0. IsFiniteSet(InFlightSlots)
  BY SlotsFinite, FS_Subset
<1>1. CASE InsertOrder
  <2> USE <1>1 DEF InsertOrder, EmptySlots
  <2>1. PICK i \in Slots \ InFlightSlots :
          orders' = [orders EXCEPT ![i] =
                       [order_id |-> order_id, side |-> decision.side,
                        qty |-> decision.qty, price |-> decision.price,
                        submit_timestamp |-> SubmitTime,
                        state |-> "IN_FLIGHT"]]
    OBVIOUS
  <2>2. InFlightSlots' = InFlightSlots \cup {i}
    BY <2>1 DEF TypeOK
  <2>3. Cardinality(InFlightSlots') = Cardinality(InFlightSlots) + 1
    BY <1>0, <2>1, <2>2, FS_AddElement
  <2>4. QED
    BY <2>3
<1>2. CASE FillSlot
  <2> USE <1>2 DEF FillSlot
  <2>1. idx \in InFlightSlots
    BY DEF Due, TypeOK
  <2>2. InFlightSlots' = InFlightSlots \ {idx}
    BY <2>1 DEF TypeOK, Order
  <2>3. Cardinality(InFlightSlots') = Cardinality(InFlightSlots) - 1
    BY <1>0, <2>1, <2>2, FS_RemoveElement
  <2>4. QED
    BY <2>3
<1>3. CASE UNCHANGED table
  BY <1>3 DEF table
<1>4. [Next]_vars => InsertOrder \/ FillSlot \/ UNCHANGED table
  BY DEF Next, vars, FeedExhausted, GetSnapshot, StrategyTick, RiskReject,
         RiskApprove, TableFull, ExecuteOrder, CleanStart, SkipSlot, table
<1>5. QED
  BY <1>1, <1>2, <1>3, <1>4

THEOREM CountCorrect == Spec => []CountAgrees
<1>1. Init => CountAgrees
  <2>1. Init => InFlightSlots = {}
    BY DEF Init, InFlightSlots, InFlight, EmptySlot
  <2>2. QED
    BY <2>1, FS_EmptySet DEF Init, CountAgrees
<1>2. TypeOK /\ CountAgrees /\ [Next]_vars => CountAgrees'
  BY CountStep
<1>3. QED
  BY <1>1, <1>2, TypeCorrect, PTL DEF Spec

\* Every slot has a whole number of shares.
LEMMA SlotWeighs == TypeOK => Weighs(SlotShares, Slots)
  BY SignedSharesType DEF TypeOK, Order, SlotShares, Weighs

\* The pending shares always equal the signed sum over the slots in flight.
LEMMA NetStep ==
  ASSUME TypeOK, TypeOK', NetAgrees, [Next]_vars
  PROVE  NetAgrees'
<1>0. IsFiniteSet(InFlightSlots) /\ InFlightSlots \subseteq Slots
  BY SlotsFinite, FS_Subset DEF InFlightSlots
<1>a. Weighs(SlotShares, InFlightSlots)
  BY <1>0, SlotWeighs DEF Weighs
<1>1. CASE InsertOrder
  <2>. DEFINE shares == SignedShares(decision.side, decision.qty)
  <2>1. PICK i \in Slots \ InFlightSlots :
          orders' = [orders EXCEPT ![i] =
                       [order_id |-> order_id, side |-> decision.side,
                        qty |-> decision.qty, price |-> decision.price,
                        submit_timestamp |-> SubmitTime,
                        state |-> "IN_FLIGHT"]]
    BY <1>1 DEF InsertOrder, EmptySlots, InFlightSlots
  <2>2. InFlightSlots' = InFlightSlots \cup {i}
    BY <2>1 DEF TypeOK, InFlightSlots, InFlight
  <2>3. /\ SlotShares'[i] = shares
        /\ \A j \in InFlightSlots : SlotShares'[j] = SlotShares[j]
    BY <2>1 DEF TypeOK, SlotShares, InFlightSlots
  <2>4. SumFunctionOnSet(SlotShares', InFlightSlots) =
          SumFunctionOnSet(SlotShares, InFlightSlots)
    BY <1>0, <1>a, <2>3, SumSame
  <2>5. Weighs(SlotShares', InFlightSlots \cup {i})
    <3>1. shares \in Int
      BY SignedSharesType DEF TypeOK, Decision
    <3>. QED
      BY <1>a, <2>3, <3>1 DEF Weighs
  <2>6. SumFunctionOnSet(SlotShares', InFlightSlots \cup {i}) =
          shares + SumFunctionOnSet(SlotShares', InFlightSlots)
    BY <1>0, <2>1, <2>3, <2>5, SumAdd
  <2>7. /\ in_flight_net_shares' = in_flight_net_shares + shares
        /\ in_flight_net_shares \in Int /\ shares \in Int
    BY <1>1, SignedSharesType DEF InsertOrder, TypeOK, Decision
  <2>. HIDE DEF shares
  <2>. QED
    BY <2>2, <2>4, <2>6, <2>7 DEF NetAgrees
<1>2. CASE FillSlot
  <2>. DEFINE shares == SignedShares(orders[idx].side, orders[idx].qty)
  <2>1. /\ idx \in InFlightSlots /\ InFlightSlots' = InFlightSlots \ {idx}
        /\ SlotShares' = SlotShares /\ SlotShares[idx] = shares
    <3>1. /\ idx \in InFlightSlots
          /\ orders' = [orders EXCEPT ![idx].state = "EMPTY"]
      BY <1>2 DEF FillSlot, Due, TypeOK, InFlightSlots
    <3>2. InFlightSlots' = InFlightSlots \ {idx}
      BY <3>1 DEF TypeOK, Order, InFlightSlots, InFlight
    <3>3. \A i \in Slots : /\ orders'[i].side = orders[i].side
                           /\ orders'[i].qty = orders[i].qty
      BY <3>1 DEF TypeOK, Order
    <3>4. SlotShares' = SlotShares
      BY <3>3 DEF SlotShares
    <3>. QED
      BY <3>1, <3>2, <3>4 DEF SlotShares, InFlightSlots
  <2>2. /\ SumFunctionOnSet(SlotShares, InFlightSlots) =
             shares + SumFunctionOnSet(SlotShares, InFlightSlots \ {idx})
        /\ SumFunctionOnSet(SlotShares, InFlightSlots \ {idx}) \in Int
    <3>1. IsFiniteSet(InFlightSlots \ {idx})
      BY <1>0, FS_Subset
    <3>2. Weighs(SlotShares, InFlightSlots \ {idx})
      BY <1>a DEF Weighs
    <3>. QED
      BY <1>0, <1>a, <2>1, <3>1, <3>2, SumTake
  <2>3. in_flight_net_shares' = in_flight_net_shares - shares
    BY <1>2 DEF FillSlot, MoveShares
  <2>4. shares \in Int
    BY <1>a, <2>1 DEF Weighs
  <2>. HIDE DEF shares
  <2>. QED
    BY <2>1, <2>2, <2>3, <2>4 DEF NetAgrees
<1>3. CASE UNCHANGED table
  BY <1>3 DEF table, NetAgrees, SlotShares, InFlightSlots, InFlight
<1>4. [Next]_vars => InsertOrder \/ FillSlot \/ UNCHANGED table
  BY DEF Next, vars, FeedExhausted, GetSnapshot, StrategyTick, RiskReject,
         RiskApprove, TableFull, ExecuteOrder, CleanStart, SkipSlot, table
<1>5. QED
  BY <1>1, <1>2, <1>3, <1>4

\* Both running totals of the table always agree with its slots, whatever the
\* size of the table and of the orders (insert_order_into_table and
\* clean_order_in_table add and take away the same amounts).
THEOREM TotalsCorrect == Spec => []TotalsAgree
<1>1. Init => NetAgrees
  <2>1. Init => InFlightSlots = {}
    BY DEF Init, InFlightSlots, InFlight, EmptySlot
  <2>2. QED
    BY <2>1, SumEmpty DEF Init, NetAgrees
<1>2. TypeOK /\ TypeOK' /\ NetAgrees /\ [Next]_vars => NetAgrees'
  BY NetStep
<1>3. CountAgrees /\ NetAgrees => TotalsAgree
  BY DEF TotalsAgree
<1>4. QED
  BY <1>1, <1>2, <1>3, TypeCorrect, CountCorrect, PTL DEF Spec

----------------------------------------------------------------------------
\* The table as a ledger: orders are neither lost nor duplicated, they are
\* stamped in ID order, and each sweep fills the oldest ones.

\* Steps that touch neither the table nor the ledger of fills.
LEMMA LedgerQuietStep ==
  ASSUME TypeOK, TypeOK', LedgerInv,
         UNCHANGED <<table, filled>>,
         LastInserted' = LastInserted,
         clock' >= clock,
         pc # "slot", pc' \notin {"slot", "poll"}
  PROVE  LedgerInv'
<1> USE DEF LedgerInv, table, InFlightSlots, InFlightIds, InFlight, TypeOK
<1>1. NoOrderLost'
  BY DEF NoOrderLost, Inserted
<1>2. AgeInv'
  BY DEF AgeInv, Order
<1>3. SweepInv'
  BY DEF SweepInv
<1>4. QED
  BY <1>1, <1>2, <1>3

LEMMA LedgerInsert ==
  ASSUME TypeOK, TypeOK', LedgerInv, InsertOrder
  PROVE  LedgerInv'
<1> DEFINE entry == [order_id |-> order_id, side |-> decision.side,
                     qty |-> decision.qty, price |-> decision.price,
                     submit_timestamp |-> clock', state |-> "IN_FLIGHT"]
<1>1. PICK i \in EmptySlots : orders' = [orders EXCEPT ![i] = entry]
  BY DEF InsertOrder, SubmitTime
<1>2. /\ i \in Slots /\ i \notin InFlightSlots
      /\ orders'[i] = entry
      /\ \A j \in Slots \ {i} : orders'[j] = orders[j]
  BY <1>1 DEF EmptySlots, InFlightSlots, TypeOK
<1>3. InFlightSlots' = InFlightSlots \cup {i}
  BY <1>2 DEF InFlightSlots, InFlight
<1>4. InFlightIds' = InFlightIds \cup {order_id}
  BY <1>2, <1>3 DEF InFlightIds, InFlightSlots
<1>5. /\ Inserted = 1 .. order_id - 1
      /\ Inserted' = 1 .. order_id
      /\ order_id \in Nat
      /\ filled' = filled
  BY DEF InsertOrder, Inserted, LastInserted, TypeOK
<1>6. InFlightIds \cup filled = 1 .. order_id - 1
  BY <1>5 DEF LedgerInv, NoOrderLost
<1>7. order_id >= 1
  BY DEF InsertOrder, TypeOK
<1>8. NoOrderLost'
  <2>1. InFlightIds' \cup filled' = Inserted'
    BY <1>4, <1>5, <1>6, <1>7
  <2>2. InFlightIds' \cap filled' = {}
    BY <1>4, <1>5, <1>6 DEF LedgerInv, NoOrderLost
  <2>3. \A j, k \in InFlightSlots' :
          orders'[j].order_id = orders'[k].order_id => j = k
    BY <1>2, <1>3, <1>5, <1>6 DEF LedgerInv, NoOrderLost, InFlightIds, InFlightSlots
  <2>4. QED
    BY <2>1, <2>2, <2>3 DEF NoOrderLost
<1>9. AgeInv'
  <2>1. clock' >= clock /\ clock' \in Nat /\ clock \in Nat
    BY DEF InsertOrder, Elapse, TypeOK
  <2>2. \A j \in InFlightSlots :
          orders[j].submit_timestamp \in Nat /\ orders[j].order_id \in Nat
    BY DEF TypeOK, Order, InFlightSlots
  <2>3. \A j \in InFlightSlots : orders[j].order_id \in InFlightIds
    BY DEF InFlightIds
  <2>4. \A j \in InFlightSlots : orders[j].order_id < order_id
    BY <1>5, <1>6, <2>3
  <2>5. \A j \in InFlightSlots' : orders'[j].submit_timestamp <= clock'
    BY <1>2, <1>3, <2>1, <2>2 DEF LedgerInv, AgeInv, InFlightSlots
  <2>6. ASSUME NEW j \in InFlightSlots', NEW k \in InFlightSlots',
               orders'[j].order_id < orders'[k].order_id
        PROVE  orders'[j].submit_timestamp <= orders'[k].submit_timestamp
    <3>1. CASE k = i
      BY <3>1, <1>2, <2>5
    <3>2. CASE k # i /\ j = i
      BY <3>2, <1>2, <1>3, <2>2, <2>4, <2>6, <1>5 DEF InFlightSlots
    <3>3. CASE k # i /\ j # i
      BY <3>3, <1>2, <1>3, <2>6 DEF LedgerInv, AgeInv, InFlightSlots
    <3>4. QED
      BY <3>1, <3>2, <3>3
  <2>7. QED
    BY <2>5, <2>6 DEF AgeInv
<1>10. SweepInv'
  <2>1. \A f \in filled : f < order_id
    BY <1>5, <1>6
  <2>2. pc = "insert" /\ pc' = "execute"
    BY DEF InsertOrder
  <2>3. QED
    BY <1>2, <1>3, <1>5, <2>1, <2>2 DEF LedgerInv, SweepInv, InFlightSlots
<1>11. QED
  BY <1>8, <1>9, <1>10 DEF LedgerInv

LEMMA LedgerFill ==
  ASSUME TypeOK, TypeOK', LedgerInv, FillSlot
  PROVE  LedgerInv'
<1> DEFINE id == orders[idx].order_id
<1>1. /\ pc = "slot" /\ idx \in Slots /\ idx \in InFlightSlots /\ Due(idx)
      /\ filled' = filled \cup {id}
      /\ idx' = idx + 1 /\ pc' \in {"slot", "poll"}
      /\ UNCHANGED <<clock, order_id, now>>
  BY DEF FillSlot, NextSlot, Due, InFlightSlots, TypeOK
<1>2. /\ orders'[idx].state = "EMPTY"
      /\ \A j \in Slots \ {idx} : orders'[j] = orders[j]
  BY <1>1 DEF FillSlot, TypeOK, Order
<1>3. /\ InFlightSlots' = InFlightSlots \ {idx}
      /\ \A j \in InFlightSlots' : orders'[j] = orders[j]
  BY <1>1, <1>2 DEF InFlightSlots, InFlight
<1>4. \A j \in InFlightSlots' : orders[j].order_id # id
  BY <1>1, <1>3 DEF LedgerInv, NoOrderLost
<1>5. InFlightIds' = InFlightIds \ {id}
  BY <1>1, <1>3, <1>4 DEF InFlightIds
<1>6. id \in InFlightIds
  BY <1>1 DEF InFlightIds
<1>7. Inserted' = Inserted
  BY <1>1 DEF Inserted, LastInserted
<1>8. NoOrderLost'
  BY <1>1, <1>3, <1>5, <1>6, <1>7 DEF LedgerInv, NoOrderLost
<1>9. AgeInv'
  BY <1>1, <1>3 DEF LedgerInv, AgeInv
<1>10. \A j \in InFlightSlots :
         /\ orders[j].submit_timestamp \in Nat
         /\ orders[j].order_id \in Nat
         /\ j \in Int
  <2>1. \A j \in InFlightSlots : j \in Slots /\ orders[j] \in Order
    BY DEF TypeOK, InFlightSlots
  <2>2. Slots \subseteq Int
    BY TableAssumption DEF Slots
  <2>3. QED
    BY <2>1, <2>2 DEF Order
<1>11. \A j \in InFlightSlots' : Due(j)' <=> Due(j)
  BY <1>1, <1>3 DEF Due, InFlight, InFlightSlots
<1>12. \A j \in InFlightSlots' : Due(j) => j > idx
  BY <1>1, <1>3, <1>10 DEF LedgerInv, SweepInv, Slots
<1>13. \A j \in InFlightSlots' : ~Due(j) => id < orders[j].order_id
  <2> SUFFICES ASSUME NEW j \in InFlightSlots', ~Due(j),
                      ~(id < orders[j].order_id)
               PROVE  FALSE
    OBVIOUS
  <2>1. j \in InFlightSlots /\ id \in Nat /\ orders[j].order_id < id
    BY <1>1, <1>3, <1>4, <1>10
  <2>2. orders[j].submit_timestamp <= orders[idx].submit_timestamp
    BY <2>1, <1>1 DEF LedgerInv, AgeInv
  <2>3. FillDelay \in Nat /\ now \in Nat
    BY TimeAssumption DEF TypeOK
  <2>4. now - orders[idx].submit_timestamp >= FillDelay
    BY <1>1 DEF Due
  <2>5. now - orders[j].submit_timestamp >= FillDelay
    BY <1>1, <1>10, <2>1, <2>2, <2>3, <2>4
  <2>6. QED
    BY <2>1, <2>5 DEF Due, InFlightSlots
<1>14. pc' = "poll" => \A j \in InFlightSlots' : ~(j > idx)
  BY <1>1, <1>3, TableAssumption DEF FillSlot, NextSlot, Slots, InFlightSlots
<1>15. SweepInv'
  <2>1. \A j \in InFlightSlots' : (pc' = "slot" => j < idx') => ~Due(j)'
    BY <1>1, <1>3, <1>10, <1>11, <1>12, <1>14
  <2>2. ASSUME NEW f \in filled', NEW j \in InFlightSlots'
        PROVE  \/ f < orders'[j].order_id
               \/ pc' = "slot" /\ idx' <= j /\ Due(j)'
    <3>1. CASE Due(j)
      BY <3>1, <1>1, <1>3, <1>10, <1>11, <1>12, <1>14
    <3>2. CASE ~Due(j)
      BY <3>2, <1>1, <1>3, <1>13 DEF LedgerInv, SweepInv
    <3>3. QED
      BY <3>1, <3>2
  <2>3. QED
    BY <1>1, <2>1, <2>2 DEF SweepInv
<1>16. QED
  BY <1>8, <1>9, <1>15 DEF LedgerInv

LEMMA LedgerSkip ==
  ASSUME TypeOK, TypeOK', LedgerInv, SkipSlot
  PROVE  LedgerInv'
<1>1. /\ pc = "slot" /\ idx \in Slots /\ ~Due(idx)
      /\ idx' = idx + 1 /\ pc' \in {"slot", "poll"}
      /\ UNCHANGED <<orders, filled, clock, order_id, now>>
  BY DEF SkipSlot, NextSlot, table, TypeOK
<1>2. /\ InFlightSlots' = InFlightSlots
      /\ InFlightIds' = InFlightIds
      /\ Inserted' = Inserted
  BY <1>1 DEF InFlightSlots, InFlightIds, InFlight, Inserted, LastInserted
<1>3. NoOrderLost' /\ AgeInv'
  BY <1>1, <1>2 DEF LedgerInv, NoOrderLost, AgeInv
<1>4. \A j \in InFlightSlots : j \in Slots /\ (Due(j)' <=> Due(j))
  BY <1>1 DEF Due, InFlight, InFlightSlots
<1>5. \A j \in InFlightSlots : Due(j) => j > idx
  BY <1>1, <1>4 DEF LedgerInv, SweepInv, Slots
<1>6. pc' = "poll" => \A j \in InFlightSlots : ~(j > idx)
  BY <1>1, TableAssumption DEF SkipSlot, NextSlot, Slots, InFlightSlots
<1>7. SweepInv'
  BY <1>1, <1>2, <1>4, <1>5, <1>6 DEF LedgerInv, SweepInv, Slots
<1>8. QED
  BY <1>3, <1>7 DEF LedgerInv

LEMMA LedgerStep ==
  ASSUME TypeOK, TypeOK', LedgerInv, [Next]_vars
  PROVE  LedgerInv'
<1> USE LedgerQuietStep DEF table, sweep, LastInserted, TypeOK
<1>1. CASE FeedExhausted
  BY <1>1 DEF FeedExhausted
<1>2. CASE GetSnapshot
  BY <1>2, TimeAssumption DEF GetSnapshot, Elapse
<1>3. CASE StrategyTick
  BY <1>3 DEF StrategyTick
<1>4. CASE RiskReject
  BY <1>4 DEF RiskReject
<1>5. CASE RiskApprove
  BY <1>5 DEF RiskApprove
<1>6. CASE InsertOrder
  BY <1>6, LedgerInsert
<1>7. CASE TableFull
  BY <1>7 DEF TableFull
<1>8. CASE ExecuteOrder
  BY <1>8 DEF ExecuteOrder
<1>9. CASE CleanStart
  <2>1. clock' >= clock /\ UNCHANGED <<table, filled, order_id>>
    BY <1>9 DEF CleanStart, Elapse
  <2>2. pc = "clean" /\ pc' = "slot" /\ idx' = 0
    BY <1>9 DEF CleanStart
  <2>3. /\ InFlightSlots' = InFlightSlots
        /\ InFlightIds' = InFlightIds
        /\ Inserted' = Inserted
    BY <2>1, <2>2 DEF InFlightSlots, InFlightIds, InFlight, Inserted
  <2>4. NoOrderLost'
    BY <2>1, <2>3 DEF LedgerInv, NoOrderLost
  <2>5. AgeInv'
    <3>1. \A i \in InFlightSlots : orders[i].submit_timestamp \in Nat
      BY DEF InFlightSlots, Order
    <3>2. orders' = orders /\ clock \in Nat /\ clock' \in Nat
      BY <2>1
    <3>3. QED
      BY <2>1, <2>3, <3>1, <3>2 DEF LedgerInv, AgeInv
  <2>6. SweepInv'
    BY <2>1, <2>2, <2>3 DEF LedgerInv, SweepInv, InFlightSlots, Slots
  <2>7. QED
    BY <2>4, <2>5, <2>6 DEF LedgerInv
<1>10. CASE FillSlot
  BY <1>10, LedgerFill
<1>11. CASE SkipSlot
  BY <1>11, LedgerSkip
<1>12. CASE UNCHANGED vars
  BY <1>12 DEF vars, LedgerInv, NoOrderLost, AgeInv, SweepInv, Inserted,
               InFlightSlots, InFlightIds, InFlight, Due
<1>13. QED
  BY <1>1, <1>2, <1>3, <1>4, <1>5, <1>6, <1>7, <1>8, <1>9, <1>10, <1>11,
     <1>12 DEF Next

LEMMA LedgerAlways == Spec => []LedgerInv
<1>1. Init => LedgerInv
  <2> SUFFICES ASSUME Init
               PROVE  LedgerInv
    OBVIOUS
  <2>1. InFlightSlots = {} /\ InFlightIds = {} /\ filled = {} /\ Inserted = {}
    BY DEF Init, InFlightSlots, InFlightIds, InFlight, EmptySlot, Inserted,
           LastInserted
  <2>2. QED
    BY <2>1 DEF LedgerInv, NoOrderLost, AgeInv, SweepInv
<1>2. TypeOK /\ TypeOK' /\ LedgerInv /\ [Next]_vars => LedgerInv'
  BY LedgerStep
<1>3. QED
  BY <1>1, <1>2, TypeCorrect, PTL DEF Spec

\* Every order that entered the table is in exactly one slot or filled.
THEOREM NothingLost == Spec => []NoOrderLost
<1>1. LedgerInv => NoOrderLost
  BY DEF LedgerInv
<1>2. QED
  BY <1>1, LedgerAlways, PTL

\* Between sweeps the filled orders are the oldest ones.
THEOREM FillOrder == Spec => []FillsFollowSubmission
<1>1. LedgerInv => FillsFollowSubmission
  BY DEF LedgerInv, SweepInv, FillsFollowSubmission, InFlightIds
<1>2. QED
  BY <1>1, LedgerAlways, PTL

\* A sweep leaves no overdue order behind.
THEOREM NoneOverdue == Spec => []NoOverdueOrder
<1>1. TypeOK /\ LedgerInv => NoOverdueOrder
  <2> SUFFICES ASSUME TypeOK, LedgerInv, pc = "poll", NEW i \in InFlightSlots
               PROVE  now - orders[i].submit_timestamp < FillDelay
    BY DEF NoOverdueOrder
  <2>1. ~Due(i) /\ InFlight(i)
    BY DEF LedgerInv, SweepInv, InFlightSlots
  <2>2. now \in Int /\ orders[i].submit_timestamp \in Int /\ FillDelay \in Int
    BY TimeAssumption DEF TypeOK, Order, InFlightSlots
  <2>3. QED
    BY <2>1, <2>2 DEF Due
<1>2. QED
  BY <1>1, LedgerAlways, TypeCorrect, PTL

----------------------------------------------------------------------------
\* A slot empties only when its order has reached the fill delay, and the order
\* is counted as filled in the same step.
THEOREM OnlyFillsLeave == Spec => LeavesOnlyByFilling
<1>1. TypeOK /\ [Next]_vars =>
        [\A i \in Slots : InFlight(i) /\ ~InFlight(i)' =>
           /\ clock - orders[i].submit_timestamp >= FillDelay
           /\ orders[i].order_id \in filled']_vars
  <2> SUFFICES ASSUME TypeOK, Next, NEW i \in Slots, InFlight(i), ~InFlight(i)'
               PROVE  /\ clock - orders[i].submit_timestamp >= FillDelay
                      /\ orders[i].order_id \in filled'
    BY DEF vars
  <2>1. CASE InsertOrder
    <3>1. PICK j \in EmptySlots : orders' = [orders EXCEPT ![j] =
                   [order_id |-> order_id, side |-> decision.side,
                    qty |-> decision.qty, price |-> decision.price,
                    submit_timestamp |-> SubmitTime, state |-> "IN_FLIGHT"]]
      BY <2>1 DEF InsertOrder
    <3>2. orders'[i] = orders[i]
      BY <3>1 DEF EmptySlots, TypeOK
    <3>3. QED
      BY <3>2 DEF InFlight
  <2>2. CASE FillSlot
    <3>1. /\ orders' = [orders EXCEPT ![idx].state = "EMPTY"]
          /\ filled' = filled \cup {orders[idx].order_id}
          /\ Due(idx)
      BY <2>2 DEF FillSlot
    <3>2. i = idx
      BY <3>1 DEF InFlight, TypeOK
    <3>3. /\ now \in Int /\ clock \in Int /\ now <= clock
          /\ orders[i].submit_timestamp \in Int /\ FillDelay \in Int
      BY TimeAssumption DEF TypeOK, Order
    <3>4. now - orders[i].submit_timestamp >= FillDelay
      BY <3>1, <3>2 DEF Due
    <3>5. QED
      BY <3>1, <3>2, <3>3, <3>4
  <2>3. CASE UNCHANGED orders
    BY <2>3 DEF InFlight
  <2>4. QED
    BY <2>1, <2>2, <2>3
    DEF Next, FeedExhausted, GetSnapshot, StrategyTick, RiskReject,
        RiskApprove, TableFull, ExecuteOrder, CleanStart, SkipSlot, table
<1>2. QED
  BY <1>1, TypeCorrect, PTL DEF Spec, LeavesOnlyByFilling

----------------------------------------------------------------------------
\* The wire and the table tell the same story.
LEMMA WireStep ==
  ASSUME TypeOK, WireInv, [Next]_vars
  PROVE  WireInv'
<1> USE DEF WireInv, InFlightSlots, InFlight, Corresponds
<1>0. Len(sent) \in Nat /\ order_id \in Nat /\ sent \in Seq(Packet)
  BY DEF TypeOK
<1>1. CASE InsertOrder
  <2>1. PICK i \in Slots :
          orders' = [orders EXCEPT ![i] =
                       [order_id |-> order_id, side |-> decision.side,
                        qty |-> decision.qty, price |-> decision.price,
                        submit_timestamp |-> SubmitTime,
                        state |-> "IN_FLIGHT"]]
    BY <1>1 DEF InsertOrder, EmptySlots
  <2>2. /\ pc = "insert" /\ pc' = "execute"
        /\ sent' = sent /\ order_id' = order_id /\ decision' = decision
    BY <1>1 DEF InsertOrder
  <2>3. ASSUME NEW j \in InFlightSlots'
        PROVE  \/ /\ orders'[j].order_id \in 1 .. Len(sent)
                  /\ Corresponds(orders'[j], sent[orders'[j].order_id])
               \/ /\ orders'[j].order_id = order_id
                  /\ Corresponds(orders'[j], decision)
    <3>1. CASE j = i
      BY <2>1, <3>1 DEF TypeOK
    <3>2. CASE j # i
      <4>1. orders'[j] = orders[j] /\ j \in InFlightSlots
        BY <2>1, <2>3, <3>2 DEF TypeOK
      <4>. QED  BY <2>2, <4>1
    <3>. QED  BY <3>1, <3>2
  <2>. QED  BY <2>2, <2>3
<1>2. CASE ExecuteOrder
  <2>. DEFINE p == EncodeOrder(decision)
  <2>1. /\ pc = "execute" /\ pc' = "clean" /\ sent' = Append(sent, p)
        /\ order_id' = order_id /\ orders' = orders
    BY <1>2 DEF ExecuteOrder, table
  <2>2. /\ p.order_id = order_id /\ Corresponds(decision, p) /\ p \in Packet
    BY DEF EncodeOrder, TypeOK, Packet, Decision
  <2>. HIDE DEF p
  <2>3. /\ Len(sent') = Len(sent) + 1 /\ sent'[Len(sent) + 1] = p
        /\ \A k \in 1 .. Len(sent) : sent'[k] = sent[k]
    BY <1>0, <2>1, <2>2
  <2>4. Len(sent) + 1 = order_id
    BY <1>0, <2>1
  <2>5. \A k \in 1 .. Len(sent') : sent'[k].order_id = k
    BY <1>0, <2>2, <2>3, <2>4
  <2>6. ASSUME NEW j \in InFlightSlots
        PROVE  /\ orders[j].order_id \in 1 .. Len(sent')
               /\ Corresponds(orders[j], sent'[orders[j].order_id])
    <3>1. CASE orders[j].order_id \in 1 .. Len(sent)
               /\ Corresponds(orders[j], sent[orders[j].order_id])
      BY <1>0, <2>3, <3>1
    <3>2. CASE orders[j].order_id = order_id /\ Corresponds(orders[j], decision)
      <4>1. orders[j].order_id = Len(sent) + 1  BY <2>4, <3>2
      <4>. QED  BY <1>0, <2>2, <2>3, <3>2, <4>1
    <3>. QED  BY <3>1, <3>2
  <2>. QED  BY <2>1, <2>3, <2>4, <2>5, <2>6
<1>3. CASE FillSlot
  <2>1. /\ orders' = [orders EXCEPT ![idx].state = "EMPTY"] /\ idx \in Slots
        /\ pc = "slot" /\ pc' \in {"slot", "poll"}
        /\ sent' = sent /\ order_id' = order_id
    BY <1>3 DEF FillSlot, NextSlot, TypeOK
  <2>2. ASSUME NEW j \in InFlightSlots'
        PROVE  orders'[j] = orders[j] /\ j \in InFlightSlots
    <3>1. j # idx  BY <2>1, <2>2 DEF TypeOK, Order
    <3>. QED  BY <2>1, <2>2, <3>1 DEF TypeOK
  <2>. QED  BY <2>1, <2>2
<1>4. CASE StrategyTick \/ RiskApprove \/ TableFull
  BY <1>0, <1>4 DEF StrategyTick, RiskApprove, TableFull, table
<1>5. CASE FeedExhausted \/ GetSnapshot \/ RiskReject \/ CleanStart \/ SkipSlot
  BY <1>5 DEF FeedExhausted, GetSnapshot, RiskReject, CleanStart, SkipSlot, NextSlot, table
<1>6. CASE UNCHANGED vars
  BY <1>6 DEF vars, table
<1>. QED  BY <1>1, <1>2, <1>3, <1>4, <1>5, <1>6 DEF Next

\* The packets sent are the orders inserted, once each and in ID order, and a
\* slot in flight still holds what the packet with its ID said (encode_order
\* and insert_order_into_table, which take the order from different variables).
THEOREM WireIsTable == Spec => []WireMatchesTable
<1>1. Init => WireInv
  BY DEF Init, WireInv, InFlightSlots, InFlight, EmptySlot
<1>2. TypeOK /\ WireInv /\ [Next]_vars => WireInv'
  BY WireStep
<1>3. WireInv => WireMatchesTable
  BY DEF WireInv, WireMatchesTable
<1>. QED  BY <1>1, <1>2, <1>3, TypeCorrect, PTL DEF Spec

----------------------------------------------------------------------------
\* The settled position is within the limit at the top of the loop, because the
\* filled orders are a prefix of the packets and every prefix was within it.

LEMMA PacketWeighs ==
  ASSUME TypeOK
  PROVE  /\ Len(sent) \in Nat
         /\ Weighs(PacketShares, 1 .. Len(sent))
         /\ \A m \in Nat : IsFiniteSet(1 .. m)
<1>1. \A k \in 1 .. Len(sent) : sent[k] \in Packet
  BY DEF TypeOK
<1>2. \A k \in 1 .. Len(sent) : PacketShares[k] \in Int
  BY <1>1, SignedSharesType DEF Packet, PacketShares
<1>3. Len(sent) \in Nat
  BY DEF TypeOK
<1>4. \A m \in Nat : IsFiniteSet(1 .. m)
  BY FS_Interval
<1>. QED
  BY <1>2, <1>3, <1>4 DEF Weighs

\* Sums over part of the packets are numbers.
LEMMA PacketSums ==
  ASSUME TypeOK, NEW S, S \subseteq 1 .. Len(sent)
  PROVE  /\ IsFiniteSet(S)
         /\ Weighs(PacketShares, S)
         /\ SumFunctionOnSet(PacketShares, S) \in Int
<1>1. IsFiniteSet(S) /\ Weighs(PacketShares, S)
  BY PacketWeighs, FS_Subset DEF Weighs
<1>. QED
  BY <1>1, SumTake

LEMMA PrefixExecute ==
  ASSUME TypeOK, TypeOK', WireInv, PrefixInv, ExposureBounded, ExecuteOrder
  PROVE  PrefixInv'
<1>. DEFINE n == Len(sent)
            shares == SignedShares(decision.side, decision.qty)
<1>1. /\ pc = "execute" /\ pc' = "clean"
      /\ settled' = settled /\ filled' = filled /\ Exposure' = Exposure
      /\ sent' = Append(sent, EncodeOrder(decision))
  BY DEF ExecuteOrder, table, Exposure
<1>2. EncodeOrder(decision) \in Packet /\ sent \in Seq(Packet)
  BY DEF EncodeOrder, TypeOK, Packet, Decision
<1>3. /\ n \in Nat /\ Len(sent') = n + 1
      /\ 1 .. n + 1 = (1 .. n) \cup {n + 1} /\ n + 1 \notin 1 .. n
      /\ \A k \in 1 .. n : sent'[k] = sent[k]
      /\ sent'[n + 1] = EncodeOrder(decision)
  BY <1>1, <1>2
<1>4. /\ \A k \in 1 .. n : PacketShares'[k] = PacketShares[k]
      /\ PacketShares'[n + 1] = shares
  BY <1>3 DEF PacketShares, EncodeOrder
<1>5. ASSUME NEW S, S \subseteq 1 .. n
      PROVE  SumFunctionOnSet(PacketShares', S) = SumFunctionOnSet(PacketShares, S)
  BY <1>4, <1>5, PacketSums, SumSame
<1>6. shares \in Int
  BY SignedSharesType DEF TypeOK, Decision
<1>7. SumFunctionOnSet(PacketShares', 1 .. n + 1) =
        shares + SumFunctionOnSet(PacketShares, 1 .. n)
  <2>1. Weighs(PacketShares', (1 .. n) \cup {n + 1}) /\ IsFiniteSet(1 .. n)
    BY <1>4, <1>6, PacketWeighs DEF Weighs
  <2>2. SumFunctionOnSet(PacketShares', (1 .. n) \cup {n + 1}) =
          PacketShares'[n + 1] + SumFunctionOnSet(PacketShares', 1 .. n)
    BY <1>3, <2>1, SumAdd
  <2>3. 1 .. n \subseteq 1 .. n
    OBVIOUS
  <2>. QED
    BY <1>3, <1>4, <1>5, <2>2, <2>3
<1>8. Exposure = SumFunctionOnSet(PacketShares', 1 .. n + 1)
  <2>1. Exposure = SumFunctionOnSet(PacketShares, 1 .. n) + shares
    BY <1>1 DEF PrefixInv, AboutToSend
  <2>2. SumFunctionOnSet(PacketShares, 1 .. n) \in Int
    BY PacketSums
  <2>. HIDE DEF shares
  <2>. QED
    BY <1>6, <1>7, <2>1, <2>2
<1>9. filled' \subseteq 1 .. n /\ settled' = SumFunctionOnSet(PacketShares', filled')
  BY <1>1, <1>5 DEF PrefixInv
<1>10. ASSUME NEW m \in 0 .. n + 1
       PROVE  AbsVal(SumFunctionOnSet(PacketShares', 1 .. m)) <= MaxPosition
  <2>1. CASE m = n + 1
    BY <1>8, <2>1 DEF ExposureBounded
  <2>2. CASE m # n + 1
    <3>1. m \in 0 .. n /\ 1 .. m \subseteq 1 .. n
      BY <1>3, <2>2
    <3>. QED
      BY <1>5, <3>1 DEF PrefixInv
  <2>. QED
    BY <2>1, <2>2
<1>11. Exposure' = SumFunctionOnSet(PacketShares', 1 .. Len(sent')) + AboutToSend'
  <2>1. SumFunctionOnSet(PacketShares', 1 .. n + 1) \in Int
    <3>1. Exposure \in Int
      BY DEF Exposure, TypeOK
    <3>. QED
      BY <1>8, <3>1
  <2>2. AboutToSend' = 0
    BY <1>1 DEF AboutToSend
  <2>. QED
    BY <1>1, <1>3, <1>8, <2>1, <2>2
<1>. QED
  BY <1>3, <1>9, <1>10, <1>11 DEF PrefixInv

LEMMA PrefixFill ==
  ASSUME TypeOK, TypeOK', WireInv, NoOrderLost, PrefixInv, FillSlot
  PROVE  PrefixInv'
<1>. DEFINE id == orders[idx].order_id
            shares == SignedShares(orders[idx].side, orders[idx].qty)
<1>1. /\ idx \in InFlightSlots /\ orders[idx] \in Order
      /\ filled' = filled \cup {id} /\ settled' = settled + shares
      /\ in_flight_net_shares' = in_flight_net_shares - shares
      /\ sent' = sent
      /\ pc = "slot" /\ pc' \in {"slot", "poll"}
  BY DEF FillSlot, Due, TypeOK, InFlightSlots, MoveShares, NextSlot
<1>2. id \in 1 .. Len(sent) /\ PacketShares[id] = shares
  BY <1>1 DEF WireInv, Corresponds, PacketShares
<1>3. id \notin filled
  BY <1>1 DEF NoOrderLost, InFlightIds
<1>4. SumFunctionOnSet(PacketShares, filled \cup {id}) =
        shares + SumFunctionOnSet(PacketShares, filled)
  <2>1. filled \cup {id} \subseteq 1 .. Len(sent)
    BY <1>2 DEF PrefixInv
  <2>2. IsFiniteSet(filled) /\ Weighs(PacketShares, filled \cup {id})
    BY <2>1, PacketSums
  <2>. QED
    BY <1>2, <1>3, <2>2, SumAdd
<1>5. shares \in Int
  BY <1>1, SignedSharesType DEF Order
<1>6. settled \in Int /\ in_flight_net_shares \in Int
  BY DEF TypeOK
<1>. HIDE DEF shares, id
<1>7. Exposure' = Exposure
  BY <1>1, <1>5, <1>6 DEF Exposure
<1>8. settled' = SumFunctionOnSet(PacketShares, filled')
  BY <1>1, <1>4, <1>5, <1>6 DEF PrefixInv
<1>9. PacketShares' = PacketShares /\ AboutToSend' = AboutToSend
  BY <1>1 DEF PacketShares, AboutToSend
<1>. QED
  BY <1>1, <1>2, <1>7, <1>8, <1>9 DEF PrefixInv

LEMMA PrefixInsert ==
  ASSUME TypeOK, TypeOK', PrefixInv, InsertOrder
  PROVE  PrefixInv'
<1>. DEFINE shares == SignedShares(decision.side, decision.qty)
<1>1. /\ pc = "insert" /\ pc' = "execute"
      /\ settled' = settled /\ filled' = filled /\ sent' = sent
      /\ decision' = decision
      /\ in_flight_net_shares' = in_flight_net_shares + shares
  BY DEF InsertOrder
<1>2. AboutToSend = 0 /\ AboutToSend' = shares /\ PacketShares' = PacketShares
  BY <1>1 DEF AboutToSend, PacketShares
<1>3. /\ shares \in Int /\ settled \in Int /\ in_flight_net_shares \in Int
      /\ SumFunctionOnSet(PacketShares, 1 .. Len(sent)) \in Int
  BY SignedSharesType, PacketSums DEF TypeOK, Decision
<1>. HIDE DEF shares
<1>4. Exposure' = SumFunctionOnSet(PacketShares', 1 .. Len(sent')) + AboutToSend'
  BY <1>1, <1>2, <1>3 DEF PrefixInv, Exposure
<1>. QED
  BY <1>1, <1>2, <1>4 DEF PrefixInv

LEMMA PrefixStep ==
  ASSUME TypeOK, TypeOK', WireInv, NoOrderLost, ExposureBounded, PrefixInv,
         [Next]_vars
  PROVE  PrefixInv'
<1>1. CASE InsertOrder
  BY <1>1, PrefixInsert
<1>2. CASE ExecuteOrder
  BY <1>2, PrefixExecute
<1>3. CASE FillSlot
  BY <1>3, PrefixFill
<1>4. CASE ~InsertOrder /\ ~ExecuteOrder /\ ~FillSlot
  <2>1. /\ settled' = settled /\ filled' = filled /\ sent' = sent
        /\ in_flight_net_shares' = in_flight_net_shares
        /\ AboutToSend' = AboutToSend
    BY <1>4
    DEF Next, FeedExhausted, GetSnapshot, StrategyTick, RiskReject, RiskApprove,
        TableFull, CleanStart, SkipSlot, NextSlot, vars, table, AboutToSend
  <2>. QED
    BY <2>1 DEF PrefixInv, PacketShares, Exposure
<1>. QED
  BY <1>1, <1>2, <1>3, <1>4

\* At the top of the loop the filled orders are the first so many packets.
LEMMA FilledArePrefix ==
  ASSUME TypeOK, WireInv, LedgerInv, pc = "poll"
  PROVE  \E m \in 0 .. Len(sent) : filled = 1 .. m
<1>1. Len(sent) = order_id /\ order_id \in Nat
  BY DEF WireInv, TypeOK
<1>2. /\ InFlightIds \cup filled = 1 .. order_id
      /\ InFlightIds \cap filled = {}
  BY DEF LedgerInv, NoOrderLost, Inserted, LastInserted
<1>3. \A f \in filled, p \in InFlightIds : f < p
  BY DEF LedgerInv, SweepInv, InFlightIds
<1>4. CASE InFlightIds = {}
  BY <1>1, <1>2, <1>4
<1>5. CASE InFlightIds # {}
  <2>1. InFlightIds \subseteq Nat
    BY <1>1, <1>2
  <2>2. PICK p \in InFlightIds : \A q \in InFlightIds : p <= q
    BY <1>5, <2>1, Least
  <2>3. p \in 1 .. order_id /\ p - 1 \in 0 .. order_id
    BY <1>1, <1>2
  <2>4. filled = 1 .. p - 1
    <3>1. ASSUME NEW f \in filled  PROVE f \in 1 .. p - 1
      BY <1>1, <1>2, <1>3, <2>3
    <3>2. ASSUME NEW f \in 1 .. p - 1  PROVE f \in filled
      BY <1>1, <1>2, <2>2, <2>3
    <3>. QED
      BY <3>1, <3>2
  <2>. QED
    BY <1>1, <2>3, <2>4
<1>. QED
  BY <1>4, <1>5

\* At the top of the loop the settled position alone is within the limit,
\* although risk_guard_check compares the exposure only: the sweep has filled
\* the oldest orders, so what has settled is an exposure of an earlier tick.
THEOREM SettledSafe == Spec => []SettledBounded
<1>1. Init => PrefixInv
  <2>1. SUFFICES ASSUME Init  PROVE PrefixInv
    OBVIOUS
  <2>2. /\ sent = <<>> /\ Len(sent) = 0 /\ 1 .. Len(sent) = {} /\ 1 .. 0 = {}
        /\ filled = {} /\ settled = 0 /\ Exposure = 0 /\ AboutToSend = 0
    <3>1. sent = <<>> /\ filled = {} /\ settled = 0 /\ Exposure = 0
      BY <2>1 DEF Init, Exposure
    <3>2. AboutToSend = 0
      BY <2>1 DEF Init, AboutToSend
    <3>3. Len(sent) = 0 /\ 1 .. 0 = {}
      BY <3>1
    <3>. QED
      BY <3>1, <3>2, <3>3
  <2>3. \A m \in 0 .. Len(sent) : 1 .. m = {}
    BY <2>2
  <2>. QED
    BY <2>2, <2>3, SumEmpty, LimitAssumption DEF PrefixInv, AbsVal
<1>2. Init => WireInv
  BY DEF Init, WireInv, InFlightSlots, InFlight, EmptySlot
<1>3. TypeOK /\ WireInv /\ [Next]_vars => WireInv'
  BY WireStep
<1>4. TypeOK /\ TypeOK' /\ WireInv /\ NoOrderLost /\ ExposureBounded /\ PrefixInv
        /\ [Next]_vars => PrefixInv'
  BY PrefixStep
<1>5. TypeOK /\ WireInv /\ LedgerInv /\ PrefixInv => SettledBounded
  BY FilledArePrefix DEF PrefixInv, SettledBounded
<1>. QED
  BY <1>1, <1>2, <1>3, <1>4, <1>5, TypeCorrect, LedgerAlways, NothingLost,
     ExposureSafe, PTL DEF Spec

----------------------------------------------------------------------------
\* The loop, its table and its slot-by-slot sweep implement the portfolio.

LEMMA InsertIsAccept ==
  ASSUME TypeOK, TypeOK', ExposureInv, InsertOrder
  PROVE  P!Accept(SignedShares(decision.side, decision.qty))
<1> DEFINE shares == SignedShares(decision.side, decision.qty)
<1>1. shares \in Int
  BY SignedSharesType DEF TypeOK, Decision
<1>2. /\ clock \in Nat /\ clock' \in Nat /\ clock' >= clock
  BY DEF InsertOrder, Elapse, TypeOK
<1>3. P!Magnitude(Exposure + shares) <= MaxPosition
  BY DEF InsertOrder, ExposureInv, NextExposure, AbsVal, P!Magnitude
<1>4. Exposure' = Exposure + shares /\ settled' = settled
  BY <1>1 DEF InsertOrder, Exposure, TypeOK
<1>5. LastInserted' = LastInserted + 1 /\ LastInserted' = order_id
  BY DEF InsertOrder, LastInserted, TypeOK
<1>6. PICK i \in EmptySlots : orders' = [orders EXCEPT ![i] =
             [order_id |-> order_id, side |-> decision.side,
              qty |-> decision.qty, price |-> decision.price,
              submit_timestamp |-> clock', state |-> "IN_FLIGHT"]]
  BY DEF InsertOrder, SubmitTime
<1>7. /\ InFlightSlots' = InFlightSlots \cup {i}
      /\ PendingOrder(i)' = [id |-> order_id, shares |-> shares, at |-> clock']
      /\ \A j \in InFlightSlots : PendingOrder(j)' = PendingOrder(j)
  BY <1>6 DEF EmptySlots, InFlightSlots, InFlight, PendingOrder, TypeOK
<1>8. {PendingOrder(j) : j \in InFlightSlots}' =
        {PendingOrder(j) : j \in InFlightSlots} \cup
          {[id |-> LastInserted', shares |-> shares, at |-> clock']}
  BY <1>5, <1>7
<1>9. QED
  BY <1>2, <1>3, <1>4, <1>5, <1>8 DEF P!Accept

LEMMA FillIsFill ==
  ASSUME TypeOK, TypeOK', NoOrderLost, FillSlot
  PROVE  P!Fill(PendingOrder(idx)) /\ idx \in InFlightSlots
<1> DEFINE shares == SignedShares(orders[idx].side, orders[idx].qty)
<1>1. /\ idx \in InFlightSlots
      /\ Due(idx) /\ orders[idx] \in Order
      /\ orders' = [orders EXCEPT ![idx].state = "EMPTY"]
      /\ MoveShares(shares)
      /\ pc = "slot" /\ pc' \in {"slot", "poll"}
      /\ order_id' = order_id /\ clock' = clock
  BY DEF FillSlot, NextSlot, Due, InFlightSlots, TypeOK
<1>2. shares \in Int
  BY <1>1, SignedSharesType DEF Order
<1>3. clock - PendingOrder(idx).at >= FillDelay
  <2>1. /\ now \in Int /\ clock \in Int /\ now <= clock
        /\ orders[idx].submit_timestamp \in Int /\ FillDelay \in Int
    BY <1>1, TimeAssumption DEF TypeOK, Order
  <2>2. QED
    BY <1>1, <2>1 DEF Due, PendingOrder
<1>4. /\ settled' = settled + PendingOrder(idx).shares
      /\ Exposure' = Exposure
  <2> HIDE DEF shares
  <2>1. settled' = settled + shares /\ Exposure' = Exposure
    BY <1>1, <1>2 DEF MoveShares, Exposure, TypeOK
  <2>2. QED
    BY <2>1 DEF PendingOrder, shares
<1>5. /\ InFlightSlots' = InFlightSlots \ {idx}
      /\ \A j \in InFlightSlots' : PendingOrder(j)' = PendingOrder(j)
  BY <1>1 DEF InFlightSlots, InFlight, PendingOrder, TypeOK
<1>6. \A j \in InFlightSlots' : PendingOrder(j) # PendingOrder(idx)
  BY <1>1, <1>5 DEF PendingOrder, NoOrderLost
<1>7. {PendingOrder(j) : j \in InFlightSlots}' =
        {PendingOrder(j) : j \in InFlightSlots} \ {PendingOrder(idx)}
  BY <1>1, <1>5, <1>6
<1>8. LastInserted' = LastInserted
  BY <1>1 DEF LastInserted
<1>9. QED
  BY <1>1, <1>3, <1>4, <1>7, <1>8 DEF P!Fill

LEMMA QuietIsTick ==
  ASSUME TypeOK, TypeOK', clock' >= clock,
         UNCHANGED <<table, settled>>, LastInserted' = LastInserted
  PROVE  P!Tick
BY DEF P!Tick, TypeOK, table, Exposure, InFlightSlots, InFlight, PendingOrder

THEOREM Refinement == Spec => ImplementsPortfolio
<1>1. Init => P!Init
  BY DEF Init, P!Init, Exposure, InFlightSlots, InFlight, EmptySlot,
         LastInserted
<1>2. TypeOK /\ TypeOK' /\ ExposureInv /\ NoOrderLost /\ [Next]_vars
        => [P!Next]_P!vars
  <2> SUFFICES ASSUME TypeOK, TypeOK', ExposureInv, NoOrderLost, [Next]_vars
               PROVE  P!Next \/ UNCHANGED P!vars
    OBVIOUS
  <2>1. CASE InsertOrder
    <3>1. decision \in Decisions
      BY <2>1 DEF InsertOrder, ExposureInv
    <3>2. SignedShares(decision.side, decision.qty) \in
            {SignedShares(d.side, d.qty) : d \in Decisions}
      BY <3>1
    <3>3. QED
      BY <2>1, <3>2, InsertIsAccept DEF P!Next
  <2>2. CASE FillSlot
    BY <2>2, FillIsFill DEF P!Next
  <2>3. CASE ~InsertOrder /\ ~FillSlot
    <3>1. clock' >= clock
      BY <2>3, TimeAssumption
      DEF Next, FeedExhausted, GetSnapshot, StrategyTick, RiskReject,
          RiskApprove, TableFull, ExecuteOrder, CleanStart, SkipSlot, NextSlot,
          Elapse, vars, TypeOK
    <3>2. UNCHANGED <<table, settled>>
      BY <2>3
      DEF Next, FeedExhausted, GetSnapshot, StrategyTick, RiskReject,
          RiskApprove, TableFull, ExecuteOrder, CleanStart, SkipSlot, vars,
          table
    <3>3. LastInserted' = LastInserted
      <4>1. CASE RiskApprove
        BY <4>1 DEF RiskApprove, LastInserted, TypeOK
      <4>2. CASE TableFull
        BY <4>2 DEF TableFull, LastInserted
      <4>3. CASE ~RiskApprove /\ ~TableFull
        <5>1. order_id' = order_id
          BY <2>3, <4>3
          DEF Next, FeedExhausted, GetSnapshot, StrategyTick, RiskReject,
              ExecuteOrder, CleanStart, SkipSlot, NextSlot, vars
        <5>2. pc' \in {"insert", "fatal"} <=> pc \in {"insert", "fatal"}
          BY <2>3, <4>3
          DEF Next, FeedExhausted, GetSnapshot, StrategyTick, RiskReject,
              ExecuteOrder, CleanStart, SkipSlot, NextSlot, vars
        <5>3. QED
          BY <5>1, <5>2 DEF LastInserted
      <4>4. QED
        BY <4>1, <4>2, <4>3
    <3>4. QED
      BY <3>1, <3>2, <3>3, QuietIsTick DEF P!Next
  <2>4. QED
    BY <2>1, <2>2, <2>3
<1>3. Spec => []ExposureInv
  <2>1. Init => ExposureInv
    BY LimitAssumption DEF Init, ExposureInv, ExposureBounded, Exposure, AbsVal
  <2>2. TypeOK /\ TypeOK' /\ ExposureInv /\ [Next]_vars => ExposureInv'
    BY ExposureStep
  <2>3. QED
    BY <2>1, <2>2, TypeCorrect, PTL DEF Spec
<1>4. QED
  BY <1>1, <1>2, <1>3, TypeCorrect, NothingLost, PTL
  DEF Spec, ImplementsPortfolio, P!Spec
============================================================================
