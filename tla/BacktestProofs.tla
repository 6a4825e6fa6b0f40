--------------------------- MODULE BacktestProofs ---------------------------
(***************************************************************************)
(* What the backtest promises for every day, signal, delay and limit.      *)
(* The inductive invariant IInv adds to the properties three facts about   *)
(* the queue: it is the unfilled end of the log (Queue), it is in order of *)
(* time (Ordered), and the i-th order of it was accepted with at most      *)
(* i - 1 orders in front of it, so that each fill since can have used up   *)
(* one lot of the room above the limit (Room). With it the backtest is     *)
(* shown to implement the abstract portfolio that the trading core         *)
(* implements too.                                                         *)
(***************************************************************************)
EXTENDS BacktestDay, Folding, SequenceTheorems, TLAPS

Slack(i) == (MaxInFlight - i) * MaxLot

Queue == /\ counts.fills <= Len(log)
         /\ Len(in_flight) = Len(log) - counts.fills
         /\ \A i \in 1 .. Len(in_flight) : in_flight[i] = log[counts.fills + i]
         /\ counts.accepted = Len(log)
         /\ pc = "done" => in_flight = <<>>

Ordered == /\ \A i \in 1 .. Len(in_flight) : in_flight[i].submit_time <= now
           /\ \A i, j \in 1 .. Len(in_flight) :
                i <= j => in_flight[i].submit_time <= in_flight[j].submit_time

Room == /\ Len(in_flight) <= MaxInFlight
        /\ \A i \in 1 .. Len(in_flight) :
             /\ in_flight[i].quantity <= MaxLot
             /\ AbsVal(position + SignedQuantity(in_flight[i])) <= MaxPosition + Slack(i)

IInv == TypeOK /\ Queue /\ Ordered /\ NoneOverdue /\ Room /\ OvershootBounded

----------------------------------------------------------------------------
(* Arithmetic of the room above the limit.                                 *)

LEMMA Limits == MaxInFlight \in Nat \ {0} /\ MaxLot \in Nat /\ MaxPosition \in Nat
  BY SignalAssumption, RiskAssumption

LEMMA SlackShape ==
  ASSUME NEW i \in 1 .. MaxInFlight
  PROVE  /\ Slack(i) \in Nat
         /\ i > 1 => Slack(i - 1) = Slack(i) + MaxLot
         /\ Slack(MaxInFlight) = 0
         /\ Slack(i) <= Slack(1)
<1> USE Limits
<1>1. Slack(i) \in Nat
  <2>1. MaxInFlight - i \in Nat
    OBVIOUS
  <2> QED
    BY <2>1, SMT DEF Slack
<1>2. Slack(i - 1) = Slack(i) + MaxLot
  BY SMT DEF Slack
<1>3. Slack(MaxInFlight) = 0
  BY SMT DEF Slack
<1>4. Slack(i) <= Slack(1)
  <2>1. (MaxInFlight - 1) * MaxLot = (MaxInFlight - i) * MaxLot + (i - 1) * MaxLot
    BY SMT
  <2>2. (i - 1) * MaxLot >= 0
    BY SMT
  <2>3. /\ (MaxInFlight - 1) * MaxLot \in Int
        /\ (MaxInFlight - i) * MaxLot \in Int
        /\ (i - 1) * MaxLot \in Int
    OBVIOUS
  <2> QED
    BY <2>1, <2>2, <2>3 DEF Slack
<1> QED
  BY <1>1, <1>2, <1>3, <1>4

LEMMA AbsShift ==
  ASSUME NEW p \in Int, NEW s \in Int, NEW t \in Int, NEW b \in Nat, NEW q \in Nat,
         AbsVal(p + t) <= b, AbsVal(s) <= q
  PROVE  AbsVal((p + s) + t) <= b + q
  BY DEF AbsVal

LEMMA AbsNat == \A n \in Int : AbsVal(n) \in Nat
  BY DEF AbsVal

LEMMA AppendShape ==
  ASSUME NEW S, NEW s \in Seq(S), NEW x \in S, NEW t, t = Append(s, x)
  PROVE  /\ t \in Seq(S) /\ Len(s) \in Nat /\ Len(t) = Len(s) + 1
         /\ \A i \in 1 .. Len(s) : t[i] = s[i]
         /\ t[Len(s) + 1] = x
  OBVIOUS

LEMMA TailShape ==
  ASSUME NEW S, NEW s \in Seq(S), s # <<>>, NEW t, t = Tail(s)
  PROVE  /\ t \in Seq(S) /\ Len(s) \in Nat \ {0} /\ Len(t) = Len(s) - 1
         /\ \A i \in 1 .. Len(t) : t[i] = s[i + 1]
  OBVIOUS

LEMMA RestShape ==
  ASSUME NEW S, NEW s \in Seq(S), NEW k \in Nat, k <= Len(s)
  PROVE  /\ SubSeq(s, k + 1, Len(s)) \in Seq(S)
         /\ Len(SubSeq(s, k + 1, Len(s))) = Len(s) - k
         /\ \A i \in 1 .. Len(s) - k : SubSeq(s, k + 1, Len(s))[i] = s[k + i]
  OBVIOUS

LEMMA TimesShape ==
  ASSUME NEW s \in Seq(Order)
  PROVE  \A i \in 1 .. Len(s) : s[i].submit_time \in Nat
<1>1. \A i \in 1 .. Len(s) : s[i] \in Order
  OBVIOUS
<1>2. \A o \in Order : o.submit_time \in Nat
  BY DEF Order
<1> QED
  BY <1>1, <1>2

LEMMA SignedShape ==
  ASSUME NEW o \in Order
  PROVE  SignedQuantity(o) \in Int /\ AbsVal(SignedQuantity(o)) <= o.quantity
  BY DEF Order, SignedQuantity, AbsVal

----------------------------------------------------------------------------
(* Type correctness.                                                       *)

Counts == [signals : Nat, accepted : Nat, rejected : Nat, fills : Nat]

LEMMA CountsStep ==
  ASSUME NEW c \in Counts
  PROVE  /\ [c EXCEPT !.signals = @ + 1, !.accepted = @ + 1] \in Counts
         /\ [c EXCEPT !.signals = @ + 1, !.rejected = @ + 1] \in Counts
<1>1. \A k \in Nat : k + 1 \in Nat
  OBVIOUS
<1>2. [c EXCEPT !.signals = c.signals + 1] \in Counts
  BY <1>1 DEF Counts
<1>3. [[c EXCEPT !.signals = c.signals + 1] EXCEPT !.accepted = c.accepted + 1] \in Counts
  BY <1>1, <1>2 DEF Counts
<1>4. [[c EXCEPT !.signals = c.signals + 1] EXCEPT !.rejected = c.rejected + 1] \in Counts
  BY <1>1, <1>2 DEF Counts
<1> QED
  BY <1>3, <1>4 DEF Counts

LEMMA TypeInit == Init => TypeOK
<1> SUFFICES ASSUME Init PROVE TypeOK
  OBVIOUS
<1>1. in_flight \in Seq(Order) /\ accepted_times \in Seq(Nat) /\ log \in Seq(Order)
  BY DEF Init
<1>2. index \in 0 .. Snapshots /\ now \in Nat /\ mid \in Nat
  BY DayAssumption DEF Init
<1>3. /\ counts \in [signals : Nat, accepted : Nat, rejected : Nat, fills : Nat]
      /\ maxima \in [position : Nat, in_flight : Nat, order_rate : Nat]
  BY DEF Init
<1> QED
  BY <1>1, <1>2, <1>3 DEF Init, TypeOK

LEMMA AcceptedType ==
  ASSUME TypeOK, signal # Hold
  PROVE  Accepted \in Order
<1>1. signal \in Signal
  BY SignalAssumption DEF TypeOK
<1> QED
  BY <1>1 DEF TypeOK, Signal, Order, Accepted, Side

LEMMA FillType ==
  ASSUME TypeOK, in_flight # <<>>, FillOrder
  PROVE  /\ in_flight' \in Seq(Order)
         /\ position' \in Int /\ cash' \in Int
         /\ counts' \in [signals : Nat, accepted : Nat, rejected : Nat, fills : Nat]
         /\ maxima' \in [position : Nat, in_flight : Nat, order_rate : Nat]
<1> DEFINE o == Head(in_flight)
<1>1. o \in Order
  BY DEF TypeOK
<1>2. SignedQuantity(o) \in Int /\ o.price \in Nat
  BY <1>1, SignedShape DEF Order
<1>3. /\ in_flight' = Tail(in_flight)
      /\ position' = position + SignedQuantity(o)
      /\ cash' = cash - SignedQuantity(o) * o.price
      /\ counts' = [counts EXCEPT !.fills = @ + 1]
      /\ maxima' = [maxima EXCEPT !.position = Larger(@, AbsVal(position'))]
  BY Zenon DEF FillOrder
<1>4. /\ in_flight \in Seq(Order) /\ position \in Int /\ cash \in Int
      /\ counts \in [signals : Nat, accepted : Nat, rejected : Nat, fills : Nat]
      /\ maxima \in [position : Nat, in_flight : Nat, order_rate : Nat]
  BY DEF TypeOK
<1>5. in_flight' \in Seq(Order)
  BY <1>3, <1>4
<1> HIDE DEF o
<1>6. position' \in Int
  BY <1>2, <1>3, <1>4
<1>7. cash' \in Int
  <2>1. SignedQuantity(o) * o.price \in Int
    BY <1>2
  <2> QED
    BY <2>1, <1>3, <1>4
<1>8. counts' \in [signals : Nat, accepted : Nat, rejected : Nat, fills : Nat]
  BY <1>3, <1>4
<1>9. maxima' \in [position : Nat, in_flight : Nat, order_rate : Nat]
  <2>1. AbsVal(position') \in Nat
    BY <1>6, AbsNat
  <2>2. Larger(maxima.position, AbsVal(position')) \in Nat
    BY <2>1, <1>4 DEF Larger
  <2> QED
    BY <2>2, <1>3, <1>4
<1> QED
  BY <1>5, <1>6, <1>7, <1>8, <1>9

LEMMA TypeNext ==
  ASSUME TypeOK, [Next]_vars
  PROVE  TypeOK'
<1>1. ASSUME NEW gap \in Gaps, NEW m \in Mids, NEW s \in Signals, NextSnapshot(gap, m, s)
      PROVE  TypeOK'
  <2>1. index' \in 0 .. Snapshots /\ now' \in Nat /\ mid' \in Nat
    BY <1>1, DayAssumption, GapAssumption DEF TypeOK, NextSnapshot
  <2>2. signal' \in Signals \cup {Hold}
    BY <1>1 DEF NextSnapshot
  <2> QED
    BY <1>1, <2>1, <2>2 DEF TypeOK, NextSnapshot, books
<1>2. CASE EvictAcceptance
  <2>1. accepted_times' \in Seq(Nat)
    BY <1>2 DEF TypeOK, EvictAcceptance, Expired
  <2> QED
    BY <1>2, <2>1 DEF TypeOK, EvictAcceptance, books
<1>3. CASE RiskCheck
  <2>1. CASE Accept
    <3>1. Accepted \in Order
      BY <1>3, AcceptedType DEF RiskCheck
    <3>2. in_flight' \in Seq(Order) /\ log' \in Seq(Order) /\ accepted_times' \in Seq(Nat)
      BY <2>1, <3>1 DEF TypeOK, Accept
    <3>3. counts' \in [signals : Nat, accepted : Nat, rejected : Nat, fills : Nat]
      BY <2>1, CountsStep DEF TypeOK, Accept, Counts
    <3>4. maxima' \in [position : Nat, in_flight : Nat, order_rate : Nat]
      <4>1. Len(in_flight') \in Nat /\ Len(accepted_times') \in Nat
        BY <3>2
      <4>2. /\ Larger(maxima.in_flight, Len(in_flight')) \in Nat
            /\ Larger(maxima.order_rate, Len(accepted_times')) \in Nat
        BY <4>1 DEF TypeOK, Larger
      <4> QED
        BY <2>1, <4>2 DEF TypeOK, Accept
    <3> QED
      BY <1>3, <3>2, <3>3, <3>4 DEF TypeOK, RiskCheck, books
  <2>2. CASE Reject
    <3>1. counts' \in [signals : Nat, accepted : Nat, rejected : Nat, fills : Nat]
      BY <2>2, CountsStep DEF TypeOK, Reject, Counts
    <3> QED
      BY <1>3, <2>2, <3>1 DEF TypeOK, RiskCheck, Reject, books
  <2> QED
    BY <1>3, <2>1, <2>2 DEF RiskCheck
<1>4. CASE HoldSignal
  BY <1>4 DEF TypeOK, HoldSignal, books
<1>5. CASE FillMatured
  BY <1>5, FillType DEF TypeOK, FillMatured, Matured
<1>6. CASE MarkToMarket
  BY <1>6 DEF TypeOK, MarkToMarket
<1>7. CASE SettleOne
  BY <1>7, FillType DEF TypeOK, SettleOne
<1>8. CASE CloseDay
  BY <1>8 DEF TypeOK, CloseDay
<1>9. CASE UNCHANGED vars
  BY <1>9 DEF TypeOK, vars, books
<1> QED
  BY <1>1, <1>2, <1>3, <1>4, <1>5, <1>6, <1>7, <1>8, <1>9 DEF Next

----------------------------------------------------------------------------
(* The steps that leave the queue and the log alone, and the one fact each *)
(* proof below needs of the others.                                        *)

QueueAlone == UNCHANGED <<in_flight, log, position, counts>>

LEMMA StepCases ==
  ASSUME [Next]_vars
  PROVE  \/ QueueAlone /\ UNCHANGED <<pc, now>>
         \/ QueueAlone /\ pc = "next" /\ pc' = "signal" /\ now' \in {now + g : g \in Gaps}
         \/ QueueAlone /\ pc = "signal" /\ pc' = "fill" /\ now' = now
         \/ QueueAlone /\ pc = "fill" /\ ~Matured /\ pc' \in {"next", "settle"} /\ now' = now
         \/ QueueAlone /\ pc = "settle" /\ in_flight = <<>> /\ pc' = "done" /\ now' = now
         \/ RiskCheck
         \/ /\ FillOrder /\ in_flight # <<>> /\ pc \in {"fill", "settle"}
            /\ UNCHANGED <<pc, now, log>>
<1>1. ASSUME NEW gap \in Gaps, NEW m \in Mids, NEW s \in Signals, NextSnapshot(gap, m, s)
      PROVE  QueueAlone /\ pc = "next" /\ pc' = "signal" /\ now' \in {now + g : g \in Gaps}
  BY <1>1 DEF NextSnapshot, QueueAlone, books
<1>2. CASE EvictAcceptance
  BY <1>2 DEF EvictAcceptance, QueueAlone, books
<1>3. CASE HoldSignal
  BY <1>3 DEF HoldSignal, QueueAlone, books
<1>4. CASE FillMatured
  BY <1>4 DEF FillMatured, Matured
<1>5. CASE MarkToMarket
  BY <1>5 DEF MarkToMarket, QueueAlone
<1>6. CASE SettleOne
  BY <1>6 DEF SettleOne
<1>7. CASE CloseDay
  BY <1>7 DEF CloseDay, QueueAlone
<1>8. CASE UNCHANGED vars
  BY <1>8 DEF vars, books, QueueAlone
<1> QED
  BY <1>1, <1>2, <1>3, <1>4, <1>5, <1>6, <1>7, <1>8 DEF Next

\* What a risk check does to the queue: nothing, or one order more.
LEMMA CheckedShape ==
  ASSUME TypeOK, RiskCheck
  PROVE  /\ pc = "signal" /\ pc' = "fill" /\ now' = now /\ position' = position
         /\ counts'.fills = counts.fills
         /\ \/ /\ in_flight' = in_flight /\ log' = log
               /\ counts'.accepted = counts.accepted
            \/ /\ Accepted \in Order
               /\ in_flight' = Append(in_flight, Accepted)
               /\ log' = Append(log, Accepted)
               /\ counts'.accepted = counts.accepted + 1
               /\ ~PositionBreached(signal)
               /\ Len(in_flight) + 1 <= MaxInFlight
<1>1. /\ pc = "signal" /\ pc' = "fill" /\ now' = now /\ position' = position
      /\ signal # Hold
  BY DEF RiskCheck, books
<1>2. counts \in Counts
  BY DEF TypeOK, Counts
<1>3. CASE RejectionReasons(signal) = {} /\ Accept
  <2>1. Accepted \in Order
    BY <1>1, AcceptedType
  <2>2. ~PositionBreached(signal) /\ ~(Len(in_flight) + 1 > MaxInFlight)
    BY <1>3 DEF RejectionReasons
  <2>3. /\ in_flight' = Append(in_flight, Accepted)
        /\ log' = Append(log, Accepted)
        /\ counts' = [counts EXCEPT !.signals = @ + 1, !.accepted = @ + 1]
    BY <1>3 DEF Accept
  <2>4. counts'.fills = counts.fills /\ counts'.accepted = counts.accepted + 1
    BY <1>2, <2>3 DEF Counts
  <2>5. Len(in_flight) \in Nat /\ MaxInFlight \in Nat
    BY Limits DEF TypeOK
  <2> QED
    BY <1>1, <2>1, <2>2, <2>3, <2>4, <2>5
<1>4. CASE Reject
  <2>1. counts'.fills = counts.fills /\ counts'.accepted = counts.accepted
    BY <1>2, <1>4 DEF Reject, Counts
  <2> QED
    BY <1>1, <1>4, <2>1 DEF Reject
<1> QED
  BY <1>3, <1>4 DEF RiskCheck

\* What a fill does to the queue.
LEMMA FillShape ==
  ASSUME TypeOK, in_flight # <<>>, FillOrder
  PROVE  /\ in_flight[1] \in Order
         /\ in_flight' = Tail(in_flight)
         /\ position' = position + SignedQuantity(in_flight[1])
         /\ counts'.fills = counts.fills + 1
         /\ counts'.accepted = counts.accepted
<1>1. Head(in_flight) = in_flight[1] /\ in_flight[1] \in Order
  BY DEF TypeOK
<1>2. /\ in_flight' = Tail(in_flight)
      /\ position' = position + SignedQuantity(Head(in_flight))
      /\ counts' = [counts EXCEPT !.fills = @ + 1]
  BY Zenon DEF FillOrder
<1>3. counts'.fills = counts.fills + 1 /\ counts'.accepted = counts.accepted
  BY <1>2 DEF TypeOK
<1> QED
  BY <1>1, <1>2, <1>3

----------------------------------------------------------------------------
(* The queue is the unfilled end of the log.                               *)

LEMMA QueueNext ==
  ASSUME TypeOK, Queue, [Next]_vars
  PROVE  Queue'
<1>0. /\ counts.fills \in Nat /\ counts.accepted \in Nat
      /\ in_flight \in Seq(Order) /\ log \in Seq(Order)
      /\ Len(in_flight) \in Nat /\ Len(log) \in Nat
  BY DEF TypeOK
<1>1. CASE QueueAlone /\ (pc' = "done" => pc = "done" \/ in_flight = <<>>)
  BY <1>1 DEF QueueAlone, Queue
<1>2. CASE RiskCheck
  <2>1. /\ pc' # "done" /\ counts'.fills = counts.fills
    BY <1>2, CheckedShape
  <2>2. CASE in_flight' = in_flight /\ log' = log /\ counts'.accepted = counts.accepted
    BY <2>1, <2>2 DEF Queue
  <2>3. CASE /\ Accepted \in Order
             /\ in_flight' = Append(in_flight, Accepted)
             /\ log' = Append(log, Accepted)
             /\ counts'.accepted = counts.accepted + 1
    <3>1. /\ Len(in_flight') = Len(in_flight) + 1
          /\ \A i \in 1 .. Len(in_flight) : in_flight'[i] = in_flight[i]
          /\ in_flight'[Len(in_flight) + 1] = Accepted
      BY <1>0, <2>3, AppendShape
    <3>2. /\ Len(log') = Len(log) + 1
          /\ \A i \in 1 .. Len(log) : log'[i] = log[i]
          /\ log'[Len(log) + 1] = Accepted
      BY <1>0, <2>3, AppendShape
    <3>3. ASSUME NEW i \in 1 .. Len(in_flight')
          PROVE  in_flight'[i] = log'[counts.fills + i]
      <4>1. Len(log) = counts.fills + Len(in_flight) /\ i \in Nat \ {0}
        BY <1>0, <3>1 DEF Queue
      <4>2. CASE i = Len(in_flight) + 1
        <5>1. counts.fills + i = Len(log) + 1
          <6>1. counts.fills \in Nat /\ Len(in_flight) \in Nat
            BY <1>0
          <6> QED
            BY <6>1, <4>1, <4>2, SMT
        <5> QED
          BY <3>1, <3>2, <4>2, <5>1
      <4>3. CASE i # Len(in_flight) + 1
        <5>1. i \in 1 .. Len(in_flight) /\ counts.fills + i \in 1 .. Len(log)
          BY <1>0, <3>1, <4>1, <4>3
        <5>2. in_flight[i] = log[counts.fills + i]
          BY <5>1 DEF Queue
        <5> QED
          BY <3>1, <3>2, <5>1, <5>2
      <4> QED
        BY <4>2, <4>3
    <3>4. /\ counts'.fills <= Len(log') /\ counts'.accepted = Len(log')
          /\ Len(in_flight') = Len(log') - counts'.fills
      BY <1>0, <2>1, <2>3, <3>1, <3>2 DEF Queue
    <3> QED
      BY <2>1, <3>3, <3>4 DEF Queue
  <2> QED
    BY <1>2, <2>2, <2>3, CheckedShape
<1>3. CASE /\ FillOrder /\ in_flight # <<>> /\ pc \in {"fill", "settle"}
           /\ UNCHANGED <<pc, now, log>>
  <2>1. /\ in_flight' = Tail(in_flight)
        /\ counts'.fills = counts.fills + 1
        /\ counts'.accepted = counts.accepted
        /\ log' = log /\ pc' # "done"
    BY <1>3, FillShape
  <2>2. /\ Len(in_flight) \in Nat \ {0} /\ Len(in_flight') = Len(in_flight) - 1
        /\ \A i \in 1 .. Len(in_flight') : in_flight'[i] = in_flight[i + 1]
    BY <1>0, <1>3, <2>1, TailShape
  <2>3. ASSUME NEW i \in 1 .. Len(in_flight')
        PROVE  in_flight'[i] = log[(counts.fills + 1) + i]
    <3>1. i + 1 \in 1 .. Len(in_flight)
      BY <2>2
    <3>2. in_flight[i + 1] = log[counts.fills + (i + 1)]
      BY <3>1 DEF Queue
    <3>3. counts.fills + (i + 1) = (counts.fills + 1) + i
      BY <1>0, <3>1
    <3> QED
      BY <2>2, <3>2, <3>3
  <2> QED
    BY <1>0, <2>1, <2>2, <2>3 DEF Queue
<1> QED
  BY <1>1, <1>2, <1>3, StepCases

LEMMA QueueSettles ==
  ASSUME TypeOK, Queue
  PROVE  EveryOrderSettles
<1>0. /\ counts.fills \in Nat /\ in_flight \in Seq(Order) /\ log \in Seq(Order)
      /\ Len(log) \in Nat /\ counts.fills <= Len(log)
  BY DEF TypeOK, Queue
<1> DEFINE rest == SubSeq(log, counts.fills + 1, Len(log))
<1>1. /\ rest \in Seq(Order) /\ Len(rest) = Len(log) - counts.fills
      /\ \A i \in 1 .. Len(log) - counts.fills : rest[i] = log[counts.fills + i]
  BY <1>0, RestShape
<1> HIDE DEF rest
<1>2. Len(rest) = Len(in_flight) /\ \A i \in 1 .. Len(rest) : rest[i] = in_flight[i]
  BY <1>1 DEF Queue
<1>3. rest = in_flight
  BY <1>0, <1>1, <1>2, SeqEqual
<1>4. pc = "done" => counts.fills = counts.accepted
  <2>1. pc = "done" => Len(in_flight) = 0
    BY DEF Queue
  <2> QED
    BY <1>0, <2>1 DEF Queue
<1> QED
  BY <1>0, <1>3, <1>4 DEF EveryOrderSettles, rest

----------------------------------------------------------------------------
(* The queue is in order of time, so one look at its head is enough.       *)

LEMMA OrderedNext ==
  ASSUME TypeOK, Ordered, [Next]_vars
  PROVE  Ordered'
<1>0. /\ now \in Nat /\ in_flight \in Seq(Order) /\ Len(in_flight) \in Nat
      /\ \A i \in 1 .. Len(in_flight) : in_flight[i].submit_time \in Nat
  BY TimesShape DEF TypeOK
<1>1. CASE QueueAlone /\ now' = now
  BY <1>1 DEF QueueAlone, Ordered
<1>2. CASE QueueAlone /\ now' \in {now + g : g \in Gaps}
  <2>1. now' >= now /\ now' \in Nat
    BY <1>0, <1>2, GapAssumption
  <2> QED
    BY <1>0, <1>2, <2>1 DEF QueueAlone, Ordered
<1>3. CASE RiskCheck
  <2>1. now' = now /\ Accepted.submit_time = now
    BY <1>3, CheckedShape DEF Accepted
  <2>2. CASE in_flight' = in_flight
    BY <2>1, <2>2 DEF Ordered
  <2>3. CASE Accepted \in Order /\ in_flight' = Append(in_flight, Accepted)
    <3>1. /\ Len(in_flight') = Len(in_flight) + 1
          /\ \A i \in 1 .. Len(in_flight) : in_flight'[i] = in_flight[i]
          /\ in_flight'[Len(in_flight) + 1] = Accepted
      BY <1>0, <2>3, AppendShape
    <3>2. \A i \in 1 .. Len(in_flight') : in_flight'[i].submit_time <= now
      BY <1>0, <2>1, <3>1 DEF Ordered
    <3>3. ASSUME NEW i \in 1 .. Len(in_flight'), NEW j \in 1 .. Len(in_flight'), i <= j
          PROVE  in_flight'[i].submit_time <= in_flight'[j].submit_time
      <4>1. CASE j = Len(in_flight) + 1
        BY <2>1, <3>1, <3>2, <4>1
      <4>2. CASE j # Len(in_flight) + 1
        <5>1. i \in 1 .. Len(in_flight) /\ j \in 1 .. Len(in_flight)
          BY <1>0, <3>1, <3>3, <4>2
        <5> QED
          BY <3>1, <3>3, <5>1 DEF Ordered
      <4> QED
        BY <4>1, <4>2
    <3> QED
      BY <2>1, <3>2, <3>3 DEF Ordered
  <2> QED
    BY <1>3, <2>2, <2>3, CheckedShape
<1>4. CASE FillOrder /\ in_flight # <<>> /\ now' = now
  <2>1. in_flight' = Tail(in_flight)
    BY <1>4, FillShape
  <2>2. /\ Len(in_flight) \in Nat \ {0} /\ Len(in_flight') = Len(in_flight) - 1
        /\ \A i \in 1 .. Len(in_flight') : in_flight'[i] = in_flight[i + 1]
    BY <1>0, <1>4, <2>1, TailShape
  <2>3. \A i \in 1 .. Len(in_flight') : i + 1 \in 1 .. Len(in_flight)
    BY <2>2
  <2>4. \A i \in 1 .. Len(in_flight') : in_flight'[i].submit_time <= now
    BY <2>2, <2>3 DEF Ordered
  <2>5. ASSUME NEW i \in 1 .. Len(in_flight'), NEW j \in 1 .. Len(in_flight'), i <= j
        PROVE  in_flight'[i].submit_time <= in_flight'[j].submit_time
    <3>1. i + 1 \in 1 .. Len(in_flight) /\ j + 1 \in 1 .. Len(in_flight) /\ i + 1 <= j + 1
      BY <2>2, <2>3, <2>5
    <3>2. in_flight[i + 1].submit_time <= in_flight[j + 1].submit_time
      BY <3>1 DEF Ordered
    <3> QED
      BY <2>2, <3>2
  <2> QED
    BY <1>4, <2>4, <2>5 DEF Ordered
<1> QED
  BY <1>1, <1>2, <1>3, <1>4, StepCases

LEMMA OverdueNext ==
  ASSUME TypeOK, Ordered, NoneOverdue, [Next]_vars
  PROVE  NoneOverdue'
<1>0. /\ now \in Nat /\ in_flight \in Seq(Order) /\ FillDelay \in Nat
      /\ Len(in_flight) \in Nat
      /\ \A i \in 1 .. Len(in_flight) : in_flight[i].submit_time \in Nat
  BY DelayAssumption, TimesShape DEF TypeOK
<1>1. CASE QueueAlone /\ UNCHANGED <<pc, now>>
  BY <1>1 DEF QueueAlone, NoneOverdue
<1>2. CASE QueueAlone /\ ~Matured /\ now' = now
  <2>1. ASSUME NEW i \in 1 .. Len(in_flight)
        PROVE  in_flight[i].submit_time + FillDelay > now
    <3>1. in_flight # <<>> /\ Head(in_flight) = in_flight[1] /\ 1 \in 1 .. Len(in_flight)
      BY <1>0, <2>1
    <3>2. ~(in_flight[1].submit_time + FillDelay <= now)
      BY <1>2, <3>1 DEF Matured
    <3>3. in_flight[1].submit_time <= in_flight[i].submit_time
      BY <1>0, <3>1 DEF Ordered
    <3> QED
      BY <1>0, <3>1, <3>2, <3>3
  <2> QED
    BY <1>2, <2>1 DEF QueueAlone, NoneOverdue
<1>3. CASE pc' # "next"
  BY <1>3 DEF NoneOverdue
<1>4. CASE RiskCheck
  BY <1>4, <1>3, CheckedShape
<1>5. CASE pc \in {"fill", "settle"} /\ pc' = pc
  BY <1>5, <1>3
<1> QED
  BY <1>1, <1>2, <1>3, <1>4, <1>5, StepCases

----------------------------------------------------------------------------
(* How far the position can pass its limit.                                *)

LEMMA RoomNext ==
  ASSUME TypeOK, Room, OvershootBounded, [Next]_vars
  PROVE  Room' /\ OvershootBounded'
<1> USE Limits
<1>0. /\ position \in Int /\ in_flight \in Seq(Order) /\ Len(in_flight) \in Nat
      /\ \A i \in 1 .. Len(in_flight) : in_flight[i] \in Order
  BY DEF TypeOK
<1>1. CASE QueueAlone
  BY <1>1 DEF QueueAlone, Room, OvershootBounded
<1>2. CASE RiskCheck
  <2>1. position' = position
    BY <1>2, CheckedShape
  <2>2. CASE in_flight' = in_flight
    BY <2>1, <2>2 DEF Room, OvershootBounded
  <2>3. CASE /\ Accepted \in Order
             /\ in_flight' = Append(in_flight, Accepted)
             /\ ~PositionBreached(signal)
             /\ Len(in_flight) + 1 <= MaxInFlight
    <3>1. /\ Len(in_flight') = Len(in_flight) + 1
          /\ \A i \in 1 .. Len(in_flight) : in_flight'[i] = in_flight[i]
          /\ in_flight'[Len(in_flight) + 1] = Accepted
      BY <1>0, <2>3, AppendShape
    <3>2. Accepted.quantity <= MaxLot
      <4>1. signal \in Signals
        BY <1>2 DEF RiskCheck, TypeOK
      <4> QED
        BY <4>1, SignalAssumption DEF Accepted
    <3>3. AbsVal(position + SignedQuantity(Accepted)) <= MaxPosition
      <4>1. SignedQuantity(Accepted) = SignedQuantity(signal) /\ SignedQuantity(Accepted) \in Int
        BY <2>3, SignedShape DEF SignedQuantity, Accepted
      <4>2. AbsVal(position + SignedQuantity(signal)) \in Nat
        BY <1>0, <4>1, AbsNat
      <4> QED
        BY <2>3, <4>1, <4>2 DEF PositionBreached
    <3>4. ASSUME NEW i \in 1 .. Len(in_flight')
          PROVE  /\ in_flight'[i].quantity <= MaxLot
                 /\ AbsVal(position + SignedQuantity(in_flight'[i])) <= MaxPosition + Slack(i)
      <4>1. CASE i = Len(in_flight) + 1
        <5>1. Slack(i) \in Nat
          BY <1>0, <2>3, <4>1, SlackShape
        <5>2. AbsVal(position + SignedQuantity(Accepted)) \in Nat
          <6>1. SignedQuantity(Accepted) \in Int
            BY <2>3, SignedShape
          <6>2. position + SignedQuantity(Accepted) \in Int
            BY <1>0, <6>1
          <6> QED
            BY <6>2, AbsNat
        <5>3. in_flight'[i] = Accepted
          BY <3>1, <4>1, Zenon
        <5>4. \A x, y \in Nat : x <= MaxPosition => x <= MaxPosition + y
          OBVIOUS
        <5>5. AbsVal(position + SignedQuantity(Accepted)) <= MaxPosition + Slack(i)
          BY <3>3, <5>1, <5>2, <5>4
        <5> QED
          BY <3>2, <5>3, <5>5
      <4>2. CASE i # Len(in_flight) + 1
        <5>1. i \in 1 .. Len(in_flight)
          BY <1>0, <3>1, <4>2
        <5> QED
          BY <3>1, <5>1 DEF Room
      <4> QED
        BY <4>1, <4>2
    <3> QED
      BY <2>1, <2>3, <3>1, <3>4 DEF Room, OvershootBounded
  <2> QED
    BY <1>2, <2>2, <2>3, CheckedShape
<1>3. CASE FillOrder /\ in_flight # <<>>
  <2>1. /\ in_flight' = Tail(in_flight) /\ in_flight[1] \in Order
        /\ position' = position + SignedQuantity(in_flight[1])
    BY <1>3, FillShape
  <2>2. /\ Len(in_flight) \in Nat \ {0} /\ Len(in_flight') = Len(in_flight) - 1
        /\ \A i \in 1 .. Len(in_flight') : in_flight'[i] = in_flight[i + 1]
    BY <1>0, <1>3, <2>1, TailShape
  <2>3. /\ in_flight[1].quantity <= MaxLot
        /\ AbsVal(position + SignedQuantity(in_flight[1])) <= MaxPosition + Slack(1)
    BY <2>2 DEF Room
  <2>4. SignedQuantity(in_flight[1]) \in Int /\ AbsVal(SignedQuantity(in_flight[1])) <= MaxLot
    <3>1. /\ SignedQuantity(in_flight[1]) \in Int
          /\ AbsVal(SignedQuantity(in_flight[1])) <= in_flight[1].quantity
      BY <2>1, SignedShape
    <3>2. in_flight[1].quantity \in Nat
      BY <2>1 DEF Order
    <3>3. AbsVal(SignedQuantity(in_flight[1])) \in Nat
      BY <3>1, AbsNat
    <3> QED
      BY <2>3, <3>1, <3>2, <3>3
  <2>5. OvershootBounded'
    BY <2>1, <2>3 DEF OvershootBounded, Slack
  <2>6. Len(in_flight') <= MaxInFlight
    BY <1>0, <2>2 DEF Room
  <2>7. ASSUME NEW i \in 1 .. Len(in_flight')
        PROVE  /\ in_flight'[i].quantity <= MaxLot
               /\ AbsVal(position' + SignedQuantity(in_flight'[i])) <= MaxPosition + Slack(i)
    <3>1. i + 1 \in 1 .. Len(in_flight) /\ i \in Nat
      BY <2>2
    <3>2. in_flight'[i] = in_flight[i + 1] /\ in_flight[i + 1] \in Order
      BY <1>0, <2>2, <3>1
    <3>3. /\ in_flight[i + 1].quantity <= MaxLot
          /\ AbsVal(position + SignedQuantity(in_flight[i + 1])) <= MaxPosition + Slack(i + 1)
      BY <3>1 DEF Room
    <3>4. Slack(i + 1) \in Nat /\ Slack(i) = Slack(i + 1) + MaxLot
      <4>1. i + 1 \in 1 .. MaxInFlight /\ i + 1 > 1 /\ (i + 1) - 1 = i
        BY <1>0, <3>1 DEF Room
      <4>2. Slack(i + 1) \in Nat /\ Slack((i + 1) - 1) = Slack(i + 1) + MaxLot
        BY <4>1, SlackShape
      <4> QED
        BY <4>1, <4>2
    <3>5. SignedQuantity(in_flight[i + 1]) \in Int
      BY <3>2, SignedShape
    <3>6. AbsVal((position + SignedQuantity(in_flight[1])) + SignedQuantity(in_flight[i + 1]))
            <= (MaxPosition + Slack(i + 1)) + MaxLot
      <4>1. MaxPosition + Slack(i + 1) \in Nat
        BY <3>4
      <4> QED
        BY <1>0, <2>4, <3>3, <3>5, <4>1, AbsShift
    <3> QED
      BY <2>1, <3>2, <3>3, <3>4, <3>6
  <2> QED
    BY <2>5, <2>6, <2>7 DEF Room
<1> QED
  BY <1>1, <1>2, <1>3, StepCases

----------------------------------------------------------------------------
(* The theorems.                                                           *)

LEMMA IInvInit == Init => IInv
<1> SUFFICES ASSUME Init PROVE IInv
  OBVIOUS
<1>1. TypeOK
  BY TypeInit
<1>2. in_flight = <<>> /\ Len(in_flight) = 0 /\ log = <<>> /\ Len(log) = 0 /\ position = 0
  BY DEF Init
<1>3. Queue
  BY <1>2 DEF Init, Queue
<1>4. Ordered /\ NoneOverdue
  BY <1>2 DEF Ordered, NoneOverdue
<1>5. Room /\ OvershootBounded
  <2>1. Slack(1) \in Nat
    BY Limits, SlackShape
  <2>2. AbsVal(0) = 0
    BY DEF AbsVal
  <2> QED
    BY Limits, <1>2, <2>1, <2>2 DEF Room, OvershootBounded, Slack
<1> QED
  BY <1>1, <1>3, <1>4, <1>5 DEF IInv

LEMMA IInvNext == IInv /\ [Next]_vars => IInv'
  BY TypeNext, QueueNext, OrderedNext, OverdueNext, RoomNext DEF IInv

LEMMA Invariance == Spec => []IInv
  BY IInvInit, IInvNext, PTL DEF Spec

\* The locals of the loop keep their types.
THEOREM TypeCorrect == Spec => []TypeOK
<1>1. IInv => TypeOK
  BY DEF IInv
<1> QED
  BY <1>1, Invariance, PTL

\* Every accepted order fills once, in the order of acceptance, and all of
\* them have by the end of the day.
THEOREM OrdersSettle == Spec => []EveryOrderSettles
<1>1. IInv => EveryOrderSettles
  BY QueueSettles DEF IInv
<1> QED
  BY <1>1, Invariance, PTL

\* A snapshot that has been marked leaves no matured order behind it.
THEOREM FillsOnTime == Spec => []NoneOverdue
<1>1. IInv => NoneOverdue
  BY DEF IInv
<1> QED
  BY <1>1, Invariance, PTL

\* The position limit is passed by at most the other orders of a full queue.
THEOREM OvershootIsBounded == Spec => []OvershootBounded
<1>1. IInv => OvershootBounded
  BY DEF IInv
<1> QED
  BY <1>1, Invariance, PTL

----------------------------------------------------------------------------
(* The rate window.                                                        *)

\* The acceptance times are those of the end of the log, and what was accepted
\* before them is out of the window for good.
Window ==
  LET old == Len(log) - Len(accepted_times)
  IN  /\ old \in Nat
      /\ \A i \in 1 .. Len(accepted_times) : accepted_times[i] = log[old + i].submit_time
      /\ \A j \in 1 .. old : log[j].submit_time <= now - RateWindow
      /\ \A j \in 1 .. Len(log) : log[j].submit_time <= now

\* The orders accepted in the window that ends with order i.
AcceptedBy(i) == {j \in 1 .. Len(log) :
                    /\ log[j].submit_time > log[i].submit_time - RateWindow
                    /\ log[j].submit_time <= log[i].submit_time}

LEMMA WindowTypes ==
  ASSUME TypeOK
  PROVE  /\ log \in Seq(Order) /\ Len(log) \in Nat
         /\ accepted_times \in Seq(Nat) /\ Len(accepted_times) \in Nat
         /\ now \in Nat /\ RateWindow \in Nat /\ MaxOrderRate \in Nat
         /\ \A j \in 1 .. Len(log) : log[j].submit_time \in Nat
<1>1. log \in Seq(Order) /\ accepted_times \in Seq(Nat) /\ now \in Nat
  BY DEF TypeOK
<1>2. RateWindow \in Nat /\ MaxOrderRate \in Nat
  BY DelayAssumption, RiskAssumption
<1>3. Len(log) \in Nat /\ Len(accepted_times) \in Nat
  BY <1>1
<1>4. \A j \in 1 .. Len(log) : log[j].submit_time \in Nat
  BY <1>1, TimesShape, Zenon
<1> QED
  BY <1>1, <1>2, <1>3, <1>4

\* What a step does to the window: time goes on, the oldest acceptance goes, an
\* order comes, or nothing.
LEMMA WindowCases ==
  ASSUME TypeOK, [Next]_vars
  PROVE  \/ /\ log' = log /\ accepted_times' = accepted_times
            /\ now' \in Nat /\ now' >= now
         \/ /\ log' = log /\ now' = now /\ Expired /\ accepted_times' = Tail(accepted_times)
         \/ /\ log' = Append(log, Accepted) /\ Accepted \in Order
            /\ accepted_times' = Append(accepted_times, now) /\ now' = now
            /\ ~RateBreached(signal)
<1>0. now \in Nat /\ now >= now
  BY WindowTypes
<1>1. ASSUME NEW gap \in Gaps, NEW m \in Mids, NEW s \in Signals, NextSnapshot(gap, m, s)
      PROVE  /\ log' = log /\ accepted_times' = accepted_times
             /\ now' \in Nat /\ now' >= now
  <2>1. gap \in Nat
    BY GapAssumption
  <2> QED
    BY <1>0, <1>1, <2>1 DEF NextSnapshot
<1>2. CASE EvictAcceptance
  BY <1>2 DEF EvictAcceptance
<1>3. CASE RiskCheck /\ RejectionReasons(signal) = {}
  <2>1. /\ log' = Append(log, Accepted) /\ accepted_times' = Append(accepted_times, now)
        /\ now' = now /\ signal # Hold
    BY <1>3 DEF RiskCheck, Accept
  <2>2. ~RateBreached(signal)
    BY <1>3 DEF RejectionReasons
  <2> QED
    BY <2>1, <2>2, AcceptedType
<1>4. CASE RiskCheck /\ RejectionReasons(signal) # {}
  BY <1>0, <1>4 DEF RiskCheck, Reject
<1>5. CASE HoldSignal \/ FillMatured \/ MarkToMarket \/ SettleOne \/ CloseDay \/ UNCHANGED vars
  BY <1>0, <1>5 DEF HoldSignal, FillMatured, MarkToMarket, SettleOne, CloseDay, vars
<1> QED
  BY <1>1, <1>2, <1>3, <1>4, <1>5 DEF Next

LEMMA WindowNext ==
  ASSUME TypeOK, Window, [Next]_vars
  PROVE  Window'
<1>0. /\ log \in Seq(Order) /\ Len(log) \in Nat
      /\ accepted_times \in Seq(Nat) /\ Len(accepted_times) \in Nat
      /\ now \in Nat /\ RateWindow \in Nat
      /\ \A j \in 1 .. Len(log) : log[j].submit_time \in Nat
  BY WindowTypes
<1> DEFINE old == Len(log) - Len(accepted_times)
<1>1. /\ old \in Nat
      /\ \A i \in 1 .. Len(accepted_times) : accepted_times[i] = log[old + i].submit_time
      /\ \A j \in 1 .. old : log[j].submit_time <= now - RateWindow
      /\ \A j \in 1 .. Len(log) : log[j].submit_time <= now
  BY DEF Window
<1>2. CASE log' = log /\ accepted_times' = accepted_times /\ now' \in Nat /\ now' >= now
  <2>1. \A j \in 1 .. old : j \in 1 .. Len(log)
    BY <1>0, <1>1
  <2>2. ASSUME NEW j \in 1 .. old  PROVE log[j].submit_time <= now' - RateWindow
    <3>1. log[j].submit_time <= now - RateWindow
      BY <1>1
    <3>2. log[j].submit_time \in Nat
      BY <1>0, <2>1
    <3>3. now' \in Nat /\ now' >= now /\ now \in Nat /\ RateWindow \in Nat
      BY <1>0, <1>2
    <3> QED
      BY <3>1, <3>2, <3>3
  <2>3. ASSUME NEW j \in 1 .. Len(log)  PROVE log[j].submit_time <= now'
    <3>1. log[j].submit_time <= now /\ log[j].submit_time \in Nat
      BY <1>0, <1>1
    <3>2. now' \in Nat /\ now' >= now /\ now \in Nat
      BY <1>0, <1>2
    <3> QED
      BY <3>1, <3>2
  <2> QED
    BY <1>1, <1>2, <2>2, <2>3 DEF Window
<1>3. CASE log' = log /\ now' = now /\ Expired /\ accepted_times' = Tail(accepted_times)
  <2>1. accepted_times # <<>> /\ accepted_times[1] <= now - RateWindow
    BY <1>3 DEF Expired
  <2>2. /\ Len(accepted_times) > 0 /\ Len(accepted_times') = Len(accepted_times) - 1
        /\ \A i \in 1 .. Len(accepted_times') : accepted_times'[i] = accepted_times[i + 1]
    BY <1>0, <1>3, <2>1, TailShape
  <2>3. Len(log) - Len(accepted_times') = old + 1
    BY <1>0, <2>2
  <2>4. log[old + 1].submit_time <= now - RateWindow
    BY <1>1, <2>1, <2>2, <1>0
  <2> HIDE DEF old
  <2>5. \A j \in 1 .. old + 1 : log[j].submit_time <= now - RateWindow
    BY <1>1, <2>4
  <2>6. ASSUME NEW i \in 1 .. Len(accepted_times')
        PROVE  accepted_times'[i] = log[old + 1 + i].submit_time
    <3>1. i + 1 \in 1 .. Len(accepted_times) /\ old + (i + 1) = old + 1 + i
      BY <1>0, <1>1, <2>2
    <3> QED
      BY <1>1, <2>2, <3>1
  <2>7. old + 1 \in Nat
    BY <1>1
  <2> QED
    BY <1>1, <1>3, <2>3, <2>5, <2>6, <2>7 DEF Window
<1>4. CASE /\ log' = Append(log, Accepted) /\ Accepted \in Order
           /\ accepted_times' = Append(accepted_times, now) /\ now' = now
  <2>1. /\ Len(log') = Len(log) + 1 /\ log'[Len(log) + 1] = Accepted
        /\ \A j \in 1 .. Len(log) : log'[j] = log[j]
    BY <1>0, <1>4, AppendShape
  <2>2. /\ Len(accepted_times') = Len(accepted_times) + 1
        /\ accepted_times'[Len(accepted_times) + 1] = now
        /\ \A i \in 1 .. Len(accepted_times) : accepted_times'[i] = accepted_times[i]
    BY <1>0, <1>4, AppendShape
  <2>3. Len(log') - Len(accepted_times') = old
    BY <1>0, <2>1, <2>2
  <2>4. Accepted.submit_time = now
    BY DEF Accepted
  <2>5. \A j \in 1 .. old : log'[j].submit_time <= now - RateWindow
    <3>1. \A j \in 1 .. old : j \in 1 .. Len(log)
      BY <1>0, <1>1
    <3> QED
      BY <1>1, <2>1, <3>1
  <2>6. \A j \in 1 .. Len(log') : log'[j].submit_time <= now
    BY <1>0, <1>1, <2>1, <2>4
  <2>7. ASSUME NEW i \in 1 .. Len(accepted_times')
        PROVE  accepted_times'[i] = log'[old + i].submit_time
    <3>1. CASE i = Len(accepted_times) + 1
      <4>1. old + i = Len(log) + 1
        BY <1>0, <3>1
      <4> QED
        BY <2>1, <2>2, <2>4, <3>1, <4>1
    <3>2. CASE i \in 1 .. Len(accepted_times)
      <4>1. old + i \in 1 .. Len(log)
        BY <1>0, <1>1, <3>2
      <4> QED
        BY <1>1, <2>1, <2>2, <3>2, <4>1
    <3> QED
      BY <1>0, <2>2, <3>1, <3>2
  <2> HIDE DEF old
  <2> QED
    BY <1>1, <1>4, <2>3, <2>5, <2>6, <2>7 DEF Window
<1> QED
  BY <1>2, <1>3, <1>4, WindowCases

\* A window that ends with the newest order holds what the guard counted and
\* that order; an older window that ends at the same time holds the same, and
\* any other is as it was.
LEMMA RateNext ==
  ASSUME TypeOK, Window, RateNeverExceeded, [Next]_vars
  PROVE  RateNeverExceeded'
<1>0. /\ log \in Seq(Order) /\ Len(log) \in Nat
      /\ accepted_times \in Seq(Nat) /\ Len(accepted_times) \in Nat
      /\ now \in Nat /\ RateWindow \in Nat /\ MaxOrderRate \in Nat
      /\ \A j \in 1 .. Len(log) : log[j].submit_time \in Nat
  BY WindowTypes
<1>1. CASE log' = log
  BY <1>1 DEF RateNeverExceeded
<1>2. CASE /\ log' = Append(log, Accepted) /\ Accepted \in Order
           /\ now' = now /\ ~RateBreached(signal)
  <2> DEFINE n == Len(log)
             w == Len(accepted_times)
  <2>1. /\ Len(log') = n + 1 /\ log'[n + 1] = Accepted
        /\ \A j \in 1 .. n : log'[j] = log[j]
    BY <1>0, <1>2, AppendShape
  <2>2. Accepted.submit_time = now
    BY DEF Accepted
  <2>3. w + 1 <= MaxOrderRate
    BY <1>0, <1>2 DEF RateBreached
  <2>4. /\ n - w \in Nat
        /\ \A j \in 1 .. n - w : log[j].submit_time <= now - RateWindow
        /\ \A j \in 1 .. n : log[j].submit_time <= now
    BY DEF Window
  <2>5. ASSUME NEW i \in 1 .. n + 1
        PROVE  Cardinality(AcceptedBy(i)') <= MaxOrderRate
    <3>1. CASE log'[i].submit_time = now
      <4>1. AcceptedBy(i)' \subseteq (n - w) + 1 .. n + 1
        <5>1. ASSUME NEW j \in 1 .. n - w  PROVE j \notin AcceptedBy(i)'
          <6>1. j \in 1 .. n
            BY <1>0, <2>4
          <6>2. log'[j].submit_time <= now - RateWindow
            BY <2>1, <2>4, <6>1
          <6>3. ~(log'[j].submit_time > now - RateWindow)
            BY <1>0, <2>1, <6>1, <6>2
          <6> QED
            BY <3>1, <6>3 DEF AcceptedBy
        <5>2. AcceptedBy(i)' \subseteq 1 .. n + 1
          BY <2>1 DEF AcceptedBy
        <5> QED
          BY <1>0, <2>4, <5>1, <5>2
      <4>2. /\ IsFiniteSet((n - w) + 1 .. n + 1)
            /\ Cardinality((n - w) + 1 .. n + 1) = w + 1
        <5>1. (n - w) + 1 \in Int /\ n + 1 \in Int /\ ~((n - w) + 1 > n + 1)
              /\ (n + 1) - ((n - w) + 1) + 1 = w + 1
          BY <1>0
        <5> QED
          BY <5>1, FS_Interval
      <4>3. /\ Cardinality(AcceptedBy(i)') \in Nat
            /\ Cardinality(AcceptedBy(i)') <= w + 1
        BY <4>1, <4>2, FS_Subset, FS_CardinalityType
      <4> QED
        BY <1>0, <2>3, <4>3
    <3>2. CASE log'[i].submit_time # now
      <4>1. i \in 1 .. n /\ log[i].submit_time <= now /\ log[i].submit_time # now
            /\ log'[i] = log[i]
        BY <1>0, <2>1, <2>2, <2>4, <3>2
      <4>2. n + 1 \notin AcceptedBy(i)'
        BY <1>0, <2>1, <2>2, <4>1 DEF AcceptedBy
      <4>3. AcceptedBy(i)' = AcceptedBy(i)
        <5>1. AcceptedBy(i)' \subseteq 1 .. n
          <6>1. AcceptedBy(i)' \subseteq 1 .. n + 1
            BY <2>1 DEF AcceptedBy
          <6> QED
            BY <1>0, <4>2, <6>1
        <5>2. AcceptedBy(i) \subseteq 1 .. n
          BY DEF AcceptedBy
        <5>3. ASSUME NEW j \in 1 .. n  PROVE j \in AcceptedBy(i)' <=> j \in AcceptedBy(i)
          <6>1. log'[j] = log[j] /\ j \in 1 .. Len(log')
            BY <1>0, <2>1
          <6> QED
            BY <4>1, <6>1 DEF AcceptedBy
        <5> HIDE DEF n
        <5> QED
          BY <5>1, <5>2, <5>3
      <4> QED
        BY <4>1, <4>3 DEF RateNeverExceeded, AcceptedBy
    <3> QED
      BY <3>1, <3>2
  <2> QED
    BY <2>1, <2>5 DEF RateNeverExceeded, AcceptedBy
<1> QED
  BY <1>1, <1>2, WindowCases

\* No stretch of RateWindow time units holds more than MaxOrderRate accepted
\* orders, although the code counts only from the last snapshot back.
THEOREM RateHolds == Spec => []RateNeverExceeded
<1>1. Init => Window /\ RateNeverExceeded
  BY DEF Init, Window, RateNeverExceeded
<1>2. TypeOK /\ Window /\ RateNeverExceeded /\ [Next]_vars => Window' /\ RateNeverExceeded'
  BY WindowNext, RateNext
<1> QED
  BY <1>1, <1>2, TypeCorrect, PTL DEF Spec

----------------------------------------------------------------------------
(* The books.                                                              *)

LEMMA OrderMoves ==
  ASSUME NEW o \in Order
  PROVE  SignedQuantity(o) \in Int /\ SignedQuantity(o) * o.price \in Int
  BY DEF Order, SignedQuantity

\* What the next order of the log adds to what those before it made.
LEMMA NetNext ==
  ASSUME NEW s \in Seq(Order), NEW k \in Nat, k < Len(s)
  PROVE  LET o == s[k + 1]
             before == SubSeq(s, 1, k)
             after  == SubSeq(s, 1, k + 1)
         IN  /\ NetShares(before) \in Int /\ NetCash(before) \in Int
             /\ NetShares(after) = NetShares(before) + SignedQuantity(o)
             /\ NetCash(after) = NetCash(before) - SignedQuantity(o) * o.price
<1> DEFINE o == s[k + 1]
           before == SubSeq(s, 1, k)
           after  == SubSeq(s, 1, k + 1)
<1>1. /\ DOMAIN before = 1 .. k /\ DOMAIN after = 1 .. k + 1
      /\ \A i \in 1 .. k : before[i] = s[i]
      /\ \A i \in 1 .. k + 1 : after[i] = s[i] /\ s[i] \in Order
  OBVIOUS
<1>2. o \in Order /\ after[k + 1] = o
  BY <1>1
<1> HIDE DEF o, before, after
<1>3. /\ Weighs(Shares(after), 1 .. k + 1)
      /\ \A i \in 1 .. k : Shares(before)[i] = Shares(after)[i]
      /\ Shares(after)[k + 1] = SignedQuantity(o)
  <2>1. /\ \A i \in 1 .. k : Shares(before)[i] = SignedQuantity(before[i])
        /\ \A i \in 1 .. k + 1 : Shares(after)[i] = SignedQuantity(after[i])
    BY <1>1 DEF Shares
  <2>2. /\ \A i \in 1 .. k + 1 : SignedQuantity(after[i]) \in Int
        /\ \A i \in 1 .. k : i \in 1 .. k + 1
        /\ k + 1 \in 1 .. k + 1
    BY <1>1, OrderMoves
  <2> QED
    BY <1>1, <1>2, <2>1, <2>2 DEF Weighs
<1>4. /\ Weighs(Payments(after), 1 .. k + 1)
      /\ \A i \in 1 .. k : Payments(before)[i] = Payments(after)[i]
      /\ Payments(after)[k + 1] = SignedQuantity(o) * o.price
  <2> DEFINE paid(a) == SignedQuantity(a) * a.price
  <2>1. /\ \A i \in 1 .. k : Payments(before)[i] = paid(before[i])
        /\ \A i \in 1 .. k + 1 : Payments(after)[i] = paid(after[i])
    BY <1>1 DEF Payments
  <2>2. /\ \A i \in 1 .. k + 1 : paid(after[i]) \in Int
        /\ \A i \in 1 .. k : i \in 1 .. k + 1
        /\ k + 1 \in 1 .. k + 1
    BY <1>1, OrderMoves
  <2> HIDE DEF paid
  <2>3. /\ Weighs(Payments(after), 1 .. k + 1)
        /\ \A i \in 1 .. k : Payments(before)[i] = Payments(after)[i]
        /\ Payments(after)[k + 1] = paid(o)
    BY <1>1, <1>2, <2>1, <2>2 DEF Weighs
  <2> QED
    BY <2>3 DEF paid
<1>5. /\ NetShares(before) \in Int
      /\ NetShares(after) = SignedQuantity(o) + NetShares(before)
  BY <1>1, <1>3, SumFirst DEF NetShares
<1>6. /\ -NetCash(before) \in Int /\ NetCash(before) \in Int
      /\ -NetCash(after) = SignedQuantity(o) * o.price + (-NetCash(before))
      /\ NetCash(after) \in Int
  <2> DEFINE b == SumFunctionOnSet(Payments(before), 1 .. k)
             a == SumFunctionOnSet(Payments(after), 1 .. k + 1)
             pay == SignedQuantity(o) * o.price
  <2>1. b \in Int /\ a = pay + b
    BY <1>4, SumFirst
  <2>2. pay \in Int
    BY <1>2, OrderMoves
  <2>3. NetCash(before) = -b /\ NetCash(after) = -a
    BY <1>1 DEF NetCash
  <2> HIDE DEF a, b, pay
  <2>4. /\ -NetCash(before) \in Int /\ NetCash(before) \in Int
        /\ -NetCash(after) = pay + (-NetCash(before)) /\ NetCash(after) \in Int
    BY <2>1, <2>2, <2>3
  <2> QED
    BY <2>4 DEF pay
<1>7. SignedQuantity(o) \in Int /\ SignedQuantity(o) * o.price \in Int
  BY <1>2, OrderMoves
<1> DEFINE pay == SignedQuantity(o) * o.price
<1>8. NetCash(after) = NetCash(before) - pay
  <2>1. pay \in Int /\ -NetCash(after) = pay + (-NetCash(before))
    BY <1>6, <1>7
  <2> HIDE DEF pay
  <2> QED
    BY <1>6, <2>1
<1> QED
  BY <1>5, <1>6, <1>7, <1>8 DEF o, before, after

LEMMA NetNothing == NetShares(<<>>) = 0 /\ NetCash(<<>>) = 0
<1>1. DOMAIN <<>> = {}
  OBVIOUS
<1>2. SumFunctionOnSet(Shares(<<>>), {}) = 0 /\ SumFunctionOnSet(Payments(<<>>), {}) = 0
  BY SumEmpty
<1> QED
  BY <1>1, <1>2 DEF NetShares, NetCash

LEMMA BooksInit == Init => BooksFollowFills
<1> SUFFICES ASSUME Init PROVE BooksFollowFills
  OBVIOUS
<1>1. /\ position = 0 /\ cash = 0 /\ pc # "done" /\ log = <<>> /\ counts.fills = 0
  BY DEF Init
<1>2. SubSeq(log, 1, counts.fills) = <<>>
  BY <1>1
<1> QED
  BY <1>1, <1>2, NetNothing DEF BooksFollowFills

\* A fill moves the next order of the log from the queue to the books.
LEMMA BooksNext ==
  ASSUME TypeOK, Queue, BooksFollowFills, [Next]_vars
  PROVE  BooksFollowFills'
<1>0. /\ counts.fills \in Nat /\ log \in Seq(Order) /\ in_flight \in Seq(Order)
      /\ Len(log) \in Nat /\ counts.fills <= Len(log) /\ counts \in Counts
  BY DEF TypeOK, Queue, Counts
<1> DEFINE filled == SubSeq(log, 1, counts.fills)
<1>1. /\ position = NetShares(filled) /\ cash = NetCash(filled)
      /\ pc = "done" => equity = 2 * NetCash(log) + NetShares(log) * mid
  BY DEF BooksFollowFills
<1>2. ASSUME UNCHANGED <<position, cash, counts, log>>,
             pc' = "done" => pc = "done" /\ UNCHANGED <<equity, mid>>
      PROVE  BooksFollowFills'
  BY <1>1, <1>2 DEF BooksFollowFills
<1>3. ASSUME FillOrder, in_flight # <<>>, log' = log, pc' = pc, pc # "done"
      PROVE  BooksFollowFills'
  <2> DEFINE o == in_flight[1]
  <2>1. /\ o = log[counts.fills + 1] /\ counts.fills < Len(log)
        /\ Head(in_flight) = o
    BY <1>0, <1>3 DEF Queue
  <2>2. /\ position' = position + SignedQuantity(Head(in_flight))
        /\ cash' = cash - SignedQuantity(Head(in_flight)) * Head(in_flight).price
    BY <1>3, Zenon DEF FillOrder
  <2>3. counts'.fills = counts.fills + 1
    BY <1>3, FillShape
  <2>4. /\ NetShares(SubSeq(log, 1, counts.fills + 1)) = NetShares(filled) + SignedQuantity(o)
        /\ NetCash(SubSeq(log, 1, counts.fills + 1)) = NetCash(filled) - SignedQuantity(o) * o.price
    BY <1>0, <2>1, NetNext
  <2> HIDE DEF o, filled
  <2> QED
    BY <1>1, <1>3, <2>1, <2>2, <2>3, <2>4 DEF BooksFollowFills
<1>4. CASE RiskCheck
  <2>1. /\ UNCHANGED <<position, cash>> /\ pc' = "fill"
    BY <1>4 DEF RiskCheck, books
  <2>2. counts'.fills = counts.fills
    BY <1>4, CheckedShape
  <2>3. SubSeq(log', 1, counts.fills) = filled
    <3>1. CASE log' = log
      BY <3>1
    <3>2. CASE Accepted \in Order /\ log' = Append(log, Accepted)
      BY <1>0, <3>2
    <3> QED
      BY <1>4, <3>1, <3>2, CheckedShape
  <2> HIDE DEF filled
  <2> QED
    BY <1>1, <2>1, <2>2, <2>3 DEF BooksFollowFills
<1>5. CASE CloseDay
  <2>1. /\ UNCHANGED <<position, cash, counts, log, mid>> /\ in_flight = <<>>
        /\ equity' = 2 * cash + position * mid
    BY <1>5 DEF CloseDay
  <2>2. counts.fills = Len(log)
    BY <1>0, <2>1 DEF Queue
  <2>3. filled = log
    BY <1>0, <2>2
  <2> HIDE DEF filled
  <2> QED
    BY <1>1, <2>1, <2>2, <2>3 DEF BooksFollowFills, filled
<1>6. ASSUME NEW gap \in Gaps, NEW m \in Mids, NEW s \in Signals, NextSnapshot(gap, m, s)
      PROVE  BooksFollowFills'
  BY <1>2, <1>6 DEF NextSnapshot, books
<1>7. CASE EvictAcceptance \/ HoldSignal \/ MarkToMarket
  BY <1>2, <1>7 DEF EvictAcceptance, HoldSignal, MarkToMarket, books
<1>8. CASE UNCHANGED vars
  BY <1>2, <1>8 DEF vars, books
<1>9. CASE FillMatured
  BY <1>3, <1>9 DEF FillMatured, Matured
<1>10. CASE SettleOne
  BY <1>3, <1>10 DEF SettleOne
<1> QED
  BY <1>4, <1>5, <1>6, <1>7, <1>8, <1>9, <1>10 DEF Next

\* Position and cash are what the filled orders make them, and the day's result
\* values every accepted order at the last mid price.
THEOREM BooksAreExact == Spec => []BooksFollowFills
<1>1. IInv => TypeOK /\ Queue
  BY DEF IInv
<1>2. TypeOK /\ Queue /\ BooksFollowFills /\ [Next]_vars => BooksFollowFills'
  BY BooksNext
<1> QED
  BY <1>1, <1>2, BooksInit, Invariance, PTL DEF Spec

----------------------------------------------------------------------------
(* The backtest is a portfolio.                                            *)

LEMMA Whole ==
  ASSUME NEW s \in Seq(Order)
  PROVE  /\ Len(s) \in Nat /\ SubSeq(s, 1, Len(s)) = s /\ SubSeq(s, 1, 0) = <<>>
         /\ \A i \in 1 .. Len(s) : s[i] \in Order /\ SignedQuantity(s[i]) \in Int
<1>1. /\ Len(s) \in Nat /\ SubSeq(s, 1, Len(s)) = s /\ SubSeq(s, 1, 0) = <<>>
      /\ \A i \in 1 .. Len(s) : s[i] \in Order
  OBVIOUS
<1> QED
  BY <1>1, OrderMoves

LEMMA NetInt == ASSUME NEW s \in Seq(Order)  PROVE NetShares(s) \in Int
<1>1. CASE s = <<>>
  BY <1>1, NetNothing
<1>2. CASE s # <<>>
  <2> DEFINE k == Len(s) - 1
  <2>1. k \in Nat /\ k < Len(s) /\ k + 1 = Len(s) /\ k + 1 \in 1 .. Len(s)
    BY <1>2
  <2> HIDE DEF k
  <2>2. /\ NetShares(SubSeq(s, 1, k)) \in Int
        /\ NetShares(SubSeq(s, 1, k + 1)) = NetShares(SubSeq(s, 1, k)) + SignedQuantity(s[k + 1])
    BY <2>1, NetNext
  <2>3. SignedQuantity(s[k + 1]) \in Int /\ SubSeq(s, 1, k + 1) = s
    BY <2>1, Whole
  <2>4. NetShares(SubSeq(s, 1, k + 1)) \in Int
    BY <2>2, <2>3
  <2> QED
    BY <2>3, <2>4, Zenon
<1> QED
  BY <1>1, <1>2

\* An order more at the end of the queue.
LEMMA NetAppend ==
  ASSUME NEW s \in Seq(Order), NEW o \in Order
  PROVE  NetShares(Append(s, o)) = NetShares(s) + SignedQuantity(o)
<1> DEFINE t == Append(s, o)
           k == Len(s)
<1>1. /\ t \in Seq(Order) /\ k \in Nat /\ k < Len(t) /\ k + 1 = Len(t) /\ t[k + 1] = o
      /\ SubSeq(t, 1, k) = s
  OBVIOUS
<1>2. SubSeq(t, 1, Len(t)) = t
  BY <1>1, Whole
<1> HIDE DEF t, k
<1>3. NetShares(SubSeq(t, 1, k + 1)) = NetShares(SubSeq(t, 1, k)) + SignedQuantity(t[k + 1])
  BY <1>1, NetNext
<1> QED
  BY <1>1, <1>2, <1>3 DEF t

\* An order less at its head.
LEMMA NetTail ==
  ASSUME NEW s \in Seq(Order), s # <<>>
  PROVE  NetShares(s) = SignedQuantity(s[1]) + NetShares(Tail(s))
<1> DEFINE t == Tail(s)
           Same(k) == NetShares(SubSeq(s, 1, k + 1))
                        = SignedQuantity(s[1]) + NetShares(SubSeq(t, 1, k))
           G == {k \in Nat : k <= Len(t) => Same(k)}
<1>1. /\ t \in Seq(Order) /\ Len(t) \in Nat /\ Len(s) \in Nat /\ Len(s) = Len(t) + 1
      /\ \A i \in 1 .. Len(t) : t[i] = s[i + 1]
  OBVIOUS
<1>2. \A i \in 1 .. Len(s) : SignedQuantity(s[i]) \in Int
  BY Whole
<1> HIDE DEF t
<1>3. 0 \in G
  <2>1. NetShares(SubSeq(s, 1, 0 + 1)) = NetShares(SubSeq(s, 1, 0)) + SignedQuantity(s[0 + 1])
    BY <1>1, NetNext
  <2>2. /\ NetShares(SubSeq(s, 1, 0)) = 0 /\ NetShares(SubSeq(t, 1, 0)) = 0
        /\ SignedQuantity(s[1]) \in Int
    <3>1. 1 \in 1 .. Len(s)
      BY <1>1
    <3> QED
      BY <1>1, <1>2, <3>1, Whole, NetNothing
  <2> QED
    BY <2>1, <2>2
<1>4. ASSUME NEW k \in Nat, k \in G  PROVE k + 1 \in G
  <2> SUFFICES ASSUME k + 1 <= Len(t)  PROVE Same(k + 1)
    OBVIOUS
  <2>1. NetShares(SubSeq(s, 1, (k + 1) + 1))
          = NetShares(SubSeq(s, 1, k + 1)) + SignedQuantity(s[(k + 1) + 1])
    <3>1. k + 1 \in Nat /\ k + 1 < Len(s)
      BY <1>1
    <3> QED
      BY <3>1, NetNext
  <2>2. /\ NetShares(SubSeq(t, 1, k)) \in Int
        /\ NetShares(SubSeq(t, 1, k + 1))
             = NetShares(SubSeq(t, 1, k)) + SignedQuantity(t[k + 1])
    BY <1>1, NetNext
  <2>3. t[k + 1] = s[(k + 1) + 1] /\ Same(k)
    BY <1>1, <1>4
  <2>4. SignedQuantity(s[1]) \in Int /\ SignedQuantity(s[(k + 1) + 1]) \in Int
    BY <1>1, <1>2
  <2> QED
    BY <2>1, <2>2, <2>3, <2>4
<1>5. Same(Len(t))
  <2>1. Nat \subseteq G
    <3> HIDE DEF G
    <3> QED
      BY <1>3, <1>4, NatSetInduction
  <2> QED
    BY <1>1, <2>1
<1>6. SubSeq(s, 1, Len(t) + 1) = s /\ SubSeq(t, 1, Len(t)) = t
  BY <1>1, Whole
<1> QED
  BY <1>5, <1>6 DEF t

\* So many orders move the position by so many lots at most.
LEMMA NetBound ==
  ASSUME NEW s \in Seq(Order), \A i \in 1 .. Len(s) : s[i].quantity <= MaxLot
  PROVE  AbsVal(NetShares(s)) <= Len(s) * MaxLot
<1> USE Limits
<1> DEFINE net(k) == NetShares(SubSeq(s, 1, k))
           G == {k \in Nat : k <= Len(s) => net(k) \in Int /\ AbsVal(net(k)) <= k * MaxLot}
<1>1. Len(s) \in Nat /\ SubSeq(s, 1, Len(s)) = s /\ net(0) = 0
  BY Whole, NetNothing
<1>2. 0 \in G
  <2>1. AbsVal(0) = 0 /\ 0 * MaxLot = 0
    BY DEF AbsVal
  <2> HIDE DEF net
  <2> QED
    BY <1>1, <2>1
<1>3. ASSUME NEW k \in Nat, k \in G  PROVE k + 1 \in G
  <2> DEFINE q == SignedQuantity(s[k + 1])
             b == k * MaxLot
             n == net(k)
             m == net(k + 1)
  <2> SUFFICES ASSUME k + 1 <= Len(s)  PROVE m \in Int /\ AbsVal(m) <= (k + 1) * MaxLot
    OBVIOUS
  <2>1. n \in Int /\ m = n + q
    BY <1>1, NetNext
  <2>2. k + 1 \in 1 .. Len(s) /\ s[k + 1] \in Order
    BY <1>1, Whole
  <2>3. q \in Int /\ AbsVal(q) <= MaxLot
    <3>1. /\ q \in Int /\ AbsVal(q) <= s[k + 1].quantity /\ s[k + 1].quantity \in Nat
          /\ s[k + 1].quantity <= MaxLot
      BY <2>2, SignedShape DEF Order
    <3>2. AbsVal(q) \in Nat
      BY <3>1, AbsNat
    <3> HIDE DEF q
    <3> QED
      BY <3>1, <3>2
  <2>4. AbsVal(n) <= b /\ b \in Nat /\ (k + 1) * MaxLot = b + MaxLot
    BY <1>1, <1>3
  <2> HIDE DEF q, b, n, m
  <2> QED
    BY <2>1, <2>3, <2>4 DEF AbsVal
<1>4. Len(s) \in G
  <2>1. Nat \subseteq G
    <3> HIDE DEF G
    <3> QED
      BY <1>2, <1>3, NatSetInduction
  <2> QED
    BY <1>1, <2>1
<1>5. AbsVal(net(Len(s))) <= Len(s) * MaxLot
  BY <1>1, <1>4
<1> QED
  BY <1>1, <1>5

\* The clock of the portfolio: settling is waiting for the last delay.
Clock == IF pc \in {"settle", "done"} THEN now + FillDelay ELSE now

WaitingOrders == {WaitingOrder(i) : i \in DOMAIN in_flight}

LEMMA WaitingIs ==
  ASSUME TypeOK, Queue
  PROVE  /\ in_flight \in Seq(Order) /\ Len(in_flight) \in Nat
         /\ DOMAIN in_flight = 1 .. Len(in_flight)
         /\ counts.fills \in Nat /\ counts.accepted \in Nat
         /\ counts.accepted = counts.fills + Len(in_flight)
         /\ position \in Int /\ NetShares(in_flight) \in Int
         /\ now \in Nat /\ FillDelay \in Nat /\ Clock \in Nat
<1>1. /\ in_flight \in Seq(Order) /\ Len(in_flight) \in Nat
      /\ DOMAIN in_flight = 1 .. Len(in_flight) /\ Len(log) \in Nat
      /\ counts.fills \in Nat /\ counts.accepted \in Nat /\ position \in Int
      /\ now \in Nat /\ FillDelay \in Nat
  BY DelayAssumption DEF TypeOK
<1>2. counts.accepted = counts.fills + Len(in_flight)
  BY <1>1 DEF Queue
<1>3. NetShares(in_flight) \in Int /\ Clock \in Nat
  BY <1>1, NetInt DEF Clock
<1> QED
  BY <1>1, <1>2, <1>3

LEMMA StartsEmpty == Init => P!Init
<1> SUFFICES ASSUME Init PROVE P!Init
  OBVIOUS
<1>1. /\ pc = "next" /\ now = 0 /\ in_flight = <<>> /\ position = 0 /\ counts.accepted = 0
  BY DEF Init
<1>2. NetShares(in_flight) = 0 /\ DOMAIN in_flight = {}
  BY <1>1, NetNothing
<1> QED
  BY <1>1, <1>2 DEF P!Init

LEMMA QuietTicks ==
  ASSUME QueueAlone, Clock' \in Nat, Clock' >= Clock
  PROVE  P!Tick
<1>1. /\ in_flight' = in_flight /\ position' = position /\ counts' = counts
  BY DEF QueueAlone
<1>2. WaitingOrders' = WaitingOrders
  BY <1>1 DEF WaitingOrders, WaitingOrder
<1>3. NetShares(in_flight)' = NetShares(in_flight)
  BY <1>1
<1> QED
  BY <1>1, <1>2, <1>3 DEF P!Tick, Clock, WaitingOrders

\* The risk check leaves out the orders in flight, and the wider limit makes up
\* for them.
LEMMA AcceptIsAccept ==
  ASSUME TypeOK, Queue, Room, RiskCheck, Accepted \in Order,
         in_flight' = Append(in_flight, Accepted),
         counts'.accepted = counts.accepted + 1, ~PositionBreached(signal),
         Len(in_flight) + 1 <= MaxInFlight
  PROVE  P!Accept(SignedQuantity(signal))
<1> DEFINE n == Len(in_flight)
           net == NetShares(in_flight)
           q == SignedQuantity(signal)
           r == MaxInFlight - 1
<1>0. /\ n \in Nat /\ DOMAIN in_flight = 1 .. n /\ in_flight \in Seq(Order)
      /\ counts.fills \in Nat /\ counts.accepted = counts.fills + n
      /\ position \in Int /\ net \in Int /\ now \in Nat
  BY WaitingIs
<1>1. /\ position' = position /\ counts'.fills = counts.fills /\ now' = now
      /\ pc = "signal" /\ pc' = "fill"
  BY CheckedShape
<1>2. q = SignedQuantity(Accepted) /\ q \in Int
  BY SignedShape DEF SignedQuantity, Accepted
<1>3. NetShares(in_flight') = net + q
  BY <1>0, <1>2, NetAppend
<1>4. AbsVal((position + net) + q) <= MaxPosition + r * MaxLot
  <2>1. AbsVal(net) <= n * MaxLot
    BY <1>0, NetBound DEF Room
  <2>2. n * MaxLot <= r * MaxLot /\ n * MaxLot \in Int /\ r * MaxLot \in Int
    <3>1. MaxLot \in Nat /\ r \in Nat /\ n \in Nat /\ n <= r
      BY <1>0, Limits
    <3>2. PICK d \in Nat : r = n + d
      <4>1. r - n \in Nat /\ r = n + (r - n)
        BY <3>1
      <4> QED
        BY <4>1
    <3> DEFINE b == n * MaxLot
               c == d * MaxLot
    <3>3. r * MaxLot = b + c /\ b \in Nat /\ c \in Nat
      BY <3>1, <3>2
    <3> HIDE DEF b, c, r
    <3>4. b <= r * MaxLot /\ b \in Int /\ r * MaxLot \in Int
      BY <3>3
    <3> QED
      BY <3>4 DEF b
  <2>3. AbsVal(position + q) <= MaxPosition /\ MaxPosition \in Nat
    <3>1. ~(AbsVal(position + q) > MaxPosition) /\ AbsVal(position + q) \in Nat
      BY <1>0, <1>2, AbsNat DEF PositionBreached
    <3> HIDE DEF q
    <3> QED
      BY <3>1, Limits
  <2> DEFINE b == n * MaxLot
             c == r * MaxLot
  <2>4. AbsVal(net) <= b /\ b <= c /\ b \in Nat /\ c \in Int
    <3>1. MaxLot \in Nat /\ b \in Nat
      BY <1>0, Limits
    <3> QED
      BY <2>1, <2>2, <3>1
  <2> HIDE DEF n, net, q, r, b, c
  <2>5. AbsVal((position + net) + q) <= MaxPosition + b
    BY <1>0, <1>2, <2>3, <2>4, AbsShift
  <2>6. AbsVal((position + net) + q) \in Nat
    <3>1. (position + net) + q \in Int
      BY <1>0, <1>2
    <3> QED
      BY <3>1, AbsNat
  <2>7. \A x \in Nat : x <= MaxPosition + b => x <= MaxPosition + c
    BY <2>3, <2>4
  <2>8. AbsVal((position + net) + q) <= MaxPosition + c
    BY <2>5, <2>6, <2>7
  <2> QED
    BY <2>8 DEF c
<1>5. WaitingOrders' = WaitingOrders \cup
        {[id |-> counts'.accepted, shares |-> q, at |-> now]}
  <2> DEFINE W(i) == WaitingOrder(i)
             V(i) == WaitingOrder(i)'
  <2>1. /\ DOMAIN in_flight' = 1 .. n + 1 /\ in_flight'[n + 1] = Accepted
        /\ \A i \in 1 .. n : in_flight'[i] = in_flight[i]
    BY <1>0
  <2>2. WaitingOrders = {W(i) : i \in 1 .. n} /\ WaitingOrders' = {V(i) : i \in 1 .. n + 1}
    BY <1>0, <2>1 DEF WaitingOrders
  <2>3. \A i \in 1 .. n : V(i) = W(i)
    BY <1>1, <2>1 DEF WaitingOrder
  <2>4. ASSUME NEW i \in 1 .. n + 1, i = n + 1
        PROVE  V(i) = [id |-> counts'.accepted, shares |-> q, at |-> now]
    <3>1. counts'.fills + i = counts'.accepted
      BY <1>0, <1>1, <2>4
    <3>2. Accepted.submit_time = now
      BY DEF Accepted
    <3>3. in_flight'[i] = Accepted
      BY <2>1, <2>4
    <3> HIDE DEF n, q
    <3> QED
      BY <1>2, <3>1, <3>2, <3>3 DEF WaitingOrder
  <2>5. 1 .. n + 1 = (1 .. n) \cup {n + 1}
    BY <1>0
  <2> HIDE DEF W, V, n, q
  <2>6. {V(i) : i \in 1 .. n + 1}
          = {V(i) : i \in 1 .. n} \cup {[id |-> counts'.accepted, shares |-> q, at |-> now]}
    BY <2>4, <2>5
  <2>7. {V(i) : i \in 1 .. n} = {W(i) : i \in 1 .. n}
    BY <2>3
  <2> QED
    BY <2>2, <2>6, <2>7
<1>6. Clock' = now /\ Clock = now
  BY <1>1 DEF Clock
<1>7. P!Magnitude((position + net) + q) = AbsVal((position + net) + q)
  BY DEF P!Magnitude, AbsVal
<1>8. position' + NetShares(in_flight') = (position + net) + q
  <2> HIDE DEF n, net, q
  <2> QED
    BY <1>0, <1>1, <1>2, <1>3
<1> HIDE DEF n, net, q, r
<1>9. /\ Clock' \in Nat /\ Clock' >= Clock
      /\ P!Magnitude((position + NetShares(in_flight)) + SignedQuantity(signal))
           <= MaxPosition + (MaxInFlight - 1) * MaxLot
      /\ position' + NetShares(in_flight)' = (position + NetShares(in_flight)) + SignedQuantity(signal)
      /\ counts.accepted' = counts.accepted + 1
      /\ WaitingOrders' = WaitingOrders \cup
           {[id |-> counts.accepted', shares |-> SignedQuantity(signal), at |-> Clock']}
      /\ UNCHANGED position
  BY <1>0, <1>1, <1>4, <1>5, <1>6, <1>7, <1>8 DEF n, net, q, r
<1> QED
  BY <1>9 DEF P!Accept, Clock, WaitingOrders

LEMMA FillIsFill ==
  ASSUME TypeOK, Queue, FillOrder, in_flight # <<>>, Clock' = Clock,
         in_flight[1].submit_time + FillDelay <= Clock
  PROVE  P!Fill(WaitingOrder(1)) /\ WaitingOrder(1) \in WaitingOrders
<1> DEFINE o == in_flight[1]
           n == Len(in_flight)
<1>0. /\ n \in Nat \ {0} /\ DOMAIN in_flight = 1 .. n /\ 1 \in 1 .. n
      /\ counts.fills \in Nat /\ position \in Int /\ NetShares(in_flight) \in Int
      /\ FillDelay \in Nat /\ Clock \in Nat /\ in_flight \in Seq(Order)
  BY WaitingIs
<1>1. /\ o \in Order /\ in_flight' = Tail(in_flight)
      /\ position' = position + SignedQuantity(o)
      /\ counts'.fills = counts.fills + 1 /\ counts'.accepted = counts.accepted
  BY FillShape
<1>2. /\ in_flight' \in Seq(Order) /\ Len(in_flight') = n - 1
      /\ DOMAIN in_flight' = 1 .. n - 1
      /\ \A i \in 1 .. n - 1 : in_flight'[i] = in_flight[i + 1]
  BY <1>0, <1>1, TailShape
<1>3. position' + NetShares(in_flight') = position + NetShares(in_flight)
  <2>1. NetShares(in_flight) = SignedQuantity(o) + NetShares(in_flight')
    BY <1>0, <1>1, NetTail
  <2>2. SignedQuantity(o) \in Int /\ NetShares(in_flight') \in Int
    BY <1>1, <1>2, NetInt, OrderMoves
  <2> HIDE DEF o
  <2> QED
    BY <1>0, <1>1, <2>1, <2>2
<1>4. ASSUME NEW i \in 1 .. n - 1  PROVE WaitingOrder(i)' = WaitingOrder(i + 1)
  <2>1. (counts.fills + 1) + i = counts.fills + (i + 1)
    BY <1>0
  <2>2. in_flight'[i] = in_flight[i + 1]
    BY <1>2
  <2> QED
    BY <1>1, <2>1, <2>2 DEF WaitingOrder
<1>5. ASSUME NEW i \in 1 .. n, WaitingOrder(i) = WaitingOrder(1)  PROVE i = 1
  <2>1. counts.fills + i = counts.fills + 1
    BY <1>5 DEF WaitingOrder
  <2> QED
    BY <1>0, <2>1
<1>6. WaitingOrders' = WaitingOrders \ {WaitingOrder(1)}
  <2> DEFINE W(i) == WaitingOrder(i)
             V(i) == WaitingOrder(i)'
  <2>1. WaitingOrders = {W(i) : i \in 1 .. n} /\ WaitingOrders' = {V(i) : i \in 1 .. n - 1}
    BY <1>0, <1>2 DEF WaitingOrders
  <2>2. \A i \in 1 .. n - 1 : V(i) = W(i + 1) /\ i + 1 \in 1 .. n /\ i + 1 # 1
    BY <1>0, <1>4
  <2>3. \A i \in 1 .. n : i # 1 => i - 1 \in 1 .. n - 1 /\ (i - 1) + 1 = i
    BY <1>0
  <2>4. \A i \in 1 .. n : W(i) = W(1) => i = 1
    BY <1>5
  <2> HIDE DEF W, V, n
  <2>5. ASSUME NEW w \in {V(i) : i \in 1 .. n - 1}
        PROVE  w \in {W(i) : i \in 1 .. n} \ {W(1)}
    <3>1. PICK i \in 1 .. n - 1 : w = V(i)
      OBVIOUS
    <3>2. w = W(i + 1) /\ i + 1 \in 1 .. n /\ i + 1 # 1
      BY <2>2, <3>1
    <3> QED
      BY <2>4, <3>2
  <2>6. ASSUME NEW w \in {W(i) : i \in 1 .. n} \ {W(1)}
        PROVE  w \in {V(i) : i \in 1 .. n - 1}
    <3>1. PICK i \in 1 .. n : w = W(i) /\ i # 1
      OBVIOUS
    <3>2. i - 1 \in 1 .. n - 1 /\ V(i - 1) = W((i - 1) + 1) /\ (i - 1) + 1 = i
      BY <2>2, <2>3, <3>1
    <3> QED
      BY <3>1, <3>2
  <2>7. WaitingOrders' = WaitingOrders \ {W(1)}
    BY <2>1, <2>5, <2>6
  <2> QED
    BY <2>7 DEF W
<1>7. /\ WaitingOrder(1).at = o.submit_time /\ WaitingOrder(1).shares = SignedQuantity(o)
  BY DEF WaitingOrder
<1>8. Clock - o.submit_time >= FillDelay
  <2>1. o.submit_time \in Nat
    BY <1>1 DEF Order
  <2> HIDE DEF o
  <2>2. o.submit_time + FillDelay <= Clock
    BY DEF o
  <2> QED
    BY <1>0, <2>1, <2>2
<1>9. WaitingOrder(1) \in WaitingOrders
  BY <1>0 DEF WaitingOrders
<1>10. NetShares(in_flight)' = NetShares(in_flight')
  OBVIOUS
<1> HIDE DEF o, n
<1> QED
  BY <1>1, <1>3, <1>6, <1>7, <1>8, <1>9, <1>10 DEF P!Fill, Clock, WaitingOrders

LEMMA PortfolioStep ==
  ASSUME IInv, IInv', [Next]_vars
  PROVE  [P!Next]_P!vars
<1> SUFFICES P!Next \/ UNCHANGED P!vars
  OBVIOUS
<1>0. /\ TypeOK /\ Queue /\ Ordered /\ Room /\ now \in Nat /\ FillDelay \in Nat
      /\ in_flight \in Seq(Order) /\ Clock \in Nat /\ Clock' \in Nat
      /\ \A i \in 1 .. Len(in_flight) : in_flight[i].submit_time \in Nat
  <2>1. TypeOK /\ Queue /\ Ordered /\ Room /\ now' \in Nat
    BY DEF IInv, TypeOK
  <2>2. /\ now \in Nat /\ FillDelay \in Nat /\ in_flight \in Seq(Order) /\ Clock \in Nat
    BY <2>1, WaitingIs
  <2>3. Clock' \in Nat
    <3>1. Clock' = now' + FillDelay \/ Clock' = now'
      BY DEF Clock
    <3> QED
      BY <2>1, <2>2, <3>1
  <2> QED
    BY <2>1, <2>2, <2>3, TimesShape
<1>1. ASSUME QueueAlone, Clock' >= Clock  PROVE P!Next
  BY <1>0, <1>1, QuietTicks DEF P!Next
<1>2. CASE RiskCheck
  <2>1. CASE in_flight' = in_flight /\ log' = log /\ counts'.accepted = counts.accepted
    <3>1. /\ WaitingOrders' = WaitingOrders /\ NetShares(in_flight)' = NetShares(in_flight)
          /\ counts.accepted' = counts.accepted /\ position' = position
      BY <1>0, <1>2, <2>1, CheckedShape DEF WaitingOrders, WaitingOrder
    <3>2. Clock' \in Nat /\ Clock' >= Clock
      BY <1>0, <1>2, CheckedShape DEF Clock
    <3> QED
      BY <3>1, <3>2 DEF P!Next, P!Tick, Clock, WaitingOrders
  <2>2. CASE /\ Accepted \in Order
             /\ in_flight' = Append(in_flight, Accepted)
             /\ counts'.accepted = counts.accepted + 1
             /\ ~PositionBreached(signal)
             /\ Len(in_flight) + 1 <= MaxInFlight
    <3>1. P!Accept(SignedQuantity(signal))
      BY <1>0, <1>2, <2>2, AcceptIsAccept
    <3>2. signal \in Signals
      BY <1>0, <1>2 DEF RiskCheck, TypeOK
    <3>3. SignedQuantity(signal) \in {SignedQuantity(s) : s \in Signals}
      BY <3>2
    <3> QED
      BY <3>1, <3>3 DEF P!Next
  <2> QED
    BY <1>0, <1>2, <2>1, <2>2, CheckedShape
<1>3. CASE FillMatured \/ SettleOne
  <2>1. /\ FillOrder /\ in_flight # <<>> /\ pc' = pc /\ now' = now
    BY <1>3 DEF FillMatured, SettleOne, Matured
  <2>2. Head(in_flight) = in_flight[1] /\ 1 \in 1 .. Len(in_flight)
    BY <1>0, <2>1
  <2>3. in_flight[1].submit_time + FillDelay <= Clock
    <3>1. CASE FillMatured
      BY <2>2, <3>1 DEF FillMatured, Matured, Clock
    <3>2. CASE SettleOne
      <4>1. in_flight[1].submit_time <= now /\ in_flight[1].submit_time \in Nat
        BY <1>0, <2>2 DEF Ordered
      <4> QED
        BY <1>0, <3>2, <4>1 DEF SettleOne, Clock
    <3> QED
      BY <1>3, <3>1, <3>2
  <2>4. Clock' = Clock
    BY <2>1 DEF Clock
  <2> QED
    BY <1>0, <2>1, <2>3, <2>4, FillIsFill DEF P!Next, WaitingOrders
<1>4. ASSUME NEW gap \in Gaps, NEW m \in Mids, NEW s \in Signals, NextSnapshot(gap, m, s)
      PROVE  P!Next
  <2>1. now' = now + gap /\ pc = "next" /\ pc' = "signal" /\ gap \in Nat
    BY <1>4, GapAssumption DEF NextSnapshot
  <2>2. Clock' >= Clock
    BY <1>0, <2>1 DEF Clock
  <2> QED
    BY <1>1, <1>4, <2>2 DEF NextSnapshot, QueueAlone, books
<1>5. CASE EvictAcceptance \/ HoldSignal
  BY <1>0, <1>1, <1>5 DEF EvictAcceptance, HoldSignal, QueueAlone, books, Clock
<1>6. CASE MarkToMarket \/ CloseDay
  BY <1>0, <1>1, <1>6 DEF MarkToMarket, CloseDay, QueueAlone, Clock
<1>7. CASE UNCHANGED vars
  <2>1. QueueAlone /\ Clock' = Clock
    BY <1>7 DEF vars, books, QueueAlone, Clock
  <2> QED
    BY <1>0, <1>1, <2>1
<1> QED
  BY <1>2, <1>3, <1>4, <1>5, <1>6, <1>7 DEF Next

\* A backtest is a portfolio as the trading core is: every order it accepts takes
\* effect on the position once, no sooner than the fill delay later, and the
\* position committed to, orders in flight included, passes the limit by the other
\* orders of one full queue at most, which are those that the check leaves out.
THEOREM SamePortfolio == Spec => ImplementsPortfolio
<1>1. Init => P!Init
  BY StartsEmpty
<1>2. IInv /\ IInv' /\ [Next]_vars => [P!Next]_P!vars
  BY PortfolioStep
<1> QED
  BY <1>1, <1>2, Invariance, PTL DEF Spec, ImplementsPortfolio, P!Spec

\* What the books will hold once the queue has been settled.
Committed == AbsVal(position + NetShares(in_flight)) <= MaxPosition + (MaxInFlight - 1) * MaxLot

\* At every moment of the day, settling all that is in flight would leave the
\* position within its limit and the other orders of one full queue: the bound on
\* the overshoot holds of what has been accepted, not only of what has filled.
THEOREM CommitmentBounded == Spec => []Committed
<1>1. Init => Committed
  <2>1. ASSUME Init  PROVE position + NetShares(in_flight) = 0
    BY <2>1, NetNothing DEF Init
  <2>2. AbsVal(0) = 0 /\ MaxPosition + (MaxInFlight - 1) * MaxLot \in Nat
    <3>1. (MaxInFlight - 1) * MaxLot \in Nat
      <4>1. MaxInFlight - 1 \in Nat /\ MaxLot \in Nat
        BY Limits
      <4> QED
        BY <4>1
    <3> QED
      BY <3>1, Limits DEF AbsVal
  <2> QED
    BY <2>1, <2>2 DEF Committed
<1>2. Committed /\ [P!Next]_P!vars => Committed'
  <2> SUFFICES ASSUME Committed, [P!Next]_P!vars  PROVE Committed'
    OBVIOUS
  <2> DEFINE e == position + NetShares(in_flight)
  <2>1. CASE e' = e
    BY <2>1 DEF Committed
  <2>2. ASSUME NEW shares, P!Accept(shares)  PROVE Committed'
    <3>1. /\ P!Magnitude(e + shares) <= MaxPosition + (MaxInFlight - 1) * MaxLot
          /\ e' = e + shares
      BY <2>2 DEF P!Accept
    <3>2. P!Magnitude(e + shares) = AbsVal(e')
      BY <3>1 DEF P!Magnitude, AbsVal
    <3> QED
      BY <3>1, <3>2 DEF Committed
  <2>3. ASSUME NEW o, P!Fill(o)  PROVE Committed'
    BY <2>1, <2>3 DEF P!Fill
  <2>4. CASE P!Tick
    BY <2>1, <2>4 DEF P!Tick
  <2>5. CASE UNCHANGED P!vars
    BY <2>1, <2>5 DEF P!vars
  <2> QED
    BY <2>2, <2>3, <2>4, <2>5 DEF P!Next
<1> QED
  BY <1>1, <1>2, SamePortfolio, PTL DEF Spec, ImplementsPortfolio, P!Spec

----------------------------------------------------------------------------
(* The burst of the health check.                                          *)

LEMMA DayStep == [DayNext]_day_vars => [Next]_vars
  BY DEF DayNext, day_vars, NextRow, MarkRow, CloseCurve, LoopStep, Next

\* A day with its arrays is a run of the loop.
LEMMA DayIsBacktest == DaySpec => Spec
<1>1. DayInit => Init
  BY DEF DayInit
<1> QED
  BY <1>1, DayStep, PTL DEF DaySpec, Spec

\* Whatever the loop promises it promises of the day with its arrays.
LEMMA DayInvariance == DaySpec => []IInv
  BY DayIsBacktest, Invariance

\* The messages of the window that ends at snapshot i.
Late(i)  == {j \in 1 .. Len(time_ns) : time_ns[j] < time_ns[i] - RateWindow}
Burst(i) == i - Cardinality(Late(i))

\* The snapshots begun are in time_ns, in order of time.
Times == /\ time_ns \in Seq(Nat) /\ Len(time_ns) = index
         /\ \A i, j \in 1 .. index : i <= j => time_ns[i] <= time_ns[j]
         /\ index = 0 => pc = "next"
         /\ index > 0 => time_ns[index] = now
         /\ pc \in {"settle", "done"} => index = Snapshots

\* Every acceptance in the window belongs to a snapshot of its own: the i-th
\* from the end is at least as many snapshots back, and one more before this
\* snapshot's check.
Spread == \A i \in 1 .. Len(accepted_times) :
            \E h \in 1 .. index : /\ time_ns[h] = accepted_times[i]
                                  /\ h <= index - (Len(accepted_times) - i)
                                  /\ pc = "signal" => h < index - (Len(accepted_times) - i)

RateSeen == maxima.order_rate = 0 \/ \E i \in 1 .. index : maxima.order_rate <= Burst(i)

Bursts == Times /\ Spread /\ RateSeen

LEMMA BurstsInit == DayInit => Bursts
<1> SUFFICES ASSUME DayInit PROVE Bursts
  OBVIOUS
<1>1. /\ time_ns = <<>> /\ index = 0 /\ pc = "next" /\ accepted_times = <<>>
      /\ maxima.order_rate = 0
  BY DEF DayInit, Init
<1> QED
  BY <1>1 DEF Bursts, Times, Spread, RateSeen

\* The steps of the day, by what they do to the arrays and to the window.
LEMMA DayCases ==
  ASSUME TypeOK, [DayNext]_day_vars
  PROVE  \/ /\ pc = "next" /\ pc' = "signal" /\ index' = index + 1
            /\ now' \in Nat /\ now' >= now /\ time_ns' = Append(time_ns, now')
            /\ UNCHANGED <<accepted_times, maxima>>
         \/ /\ UNCHANGED <<index, now, time_ns, pc, maxima>>
            /\ accepted_times # <<>> /\ accepted_times' = Tail(accepted_times)
         \/ /\ UNCHANGED <<index, now, time_ns>> /\ pc = "signal" /\ pc' = "fill"
            /\ ~Expired /\ accepted_times' = Append(accepted_times, now)
            /\ maxima'.order_rate = Larger(maxima.order_rate, Len(accepted_times'))
         \/ /\ UNCHANGED <<index, now, time_ns, accepted_times>> /\ pc' # "signal"
            /\ maxima'.order_rate = maxima.order_rate
            /\ pc = "next" => pc' = "next"
            /\ pc' \in {"settle", "done"} => pc \in {"settle", "done"} \/ index = Snapshots
         \/ /\ UNCHANGED <<index, now, time_ns, accepted_times, pc>>
            /\ maxima'.order_rate = maxima.order_rate
<1>0. now \in Nat /\ maxima \in [position : Nat, in_flight : Nat, order_rate : Nat]
  BY DEF TypeOK
<1>1. ASSUME NEW gap \in Gaps, NEW m \in Mids, NEW s \in Signals, NextRow(gap, m, s)
      PROVE  /\ pc = "next" /\ pc' = "signal" /\ index' = index + 1
             /\ now' \in Nat /\ now' >= now /\ time_ns' = Append(time_ns, now')
             /\ UNCHANGED <<accepted_times, maxima>>
  <2>1. gap \in Nat
    BY GapAssumption
  <2> QED
    BY <1>0, <1>1, <2>1 DEF NextRow, NextSnapshot
<1>2. CASE MarkRow
  BY <1>2 DEF MarkRow, MarkToMarket
<1>3. CASE CloseCurve
  BY <1>3 DEF CloseCurve, CloseDay
<1>4. CASE LoopStep /\ EvictAcceptance
  BY <1>4 DEF LoopStep, EvictAcceptance, Expired
<1>5. CASE LoopStep /\ RiskCheck /\ Accept
  <2>1. maxima'.order_rate = Larger(maxima.order_rate, Len(accepted_times'))
    BY <1>0, <1>5 DEF Accept
  <2> QED
    BY <1>5, <2>1 DEF LoopStep, RiskCheck, Accept
<1>6. CASE LoopStep /\ RiskCheck /\ Reject
  BY <1>6 DEF LoopStep, RiskCheck, Reject
<1>7. CASE LoopStep /\ HoldSignal
  BY <1>7 DEF LoopStep, HoldSignal
<1>8. ASSUME FillOrder  PROVE maxima'.order_rate = maxima.order_rate
  <2>1. maxima' = [maxima EXCEPT !.position = Larger(@, AbsVal(position'))]
    BY <1>8, Zenon DEF FillOrder
  <2> QED
    BY <1>0, <2>1
<1>9. CASE LoopStep /\ FillMatured
  BY <1>8, <1>9 DEF LoopStep, FillMatured
<1>10. CASE LoopStep /\ SettleOne
  BY <1>8, <1>10 DEF LoopStep, SettleOne
<1>11. CASE UNCHANGED day_vars
  BY <1>11 DEF day_vars, vars
<1>12. RiskCheck => Accept \/ Reject
  BY DEF RiskCheck
<1> QED
  BY <1>1, <1>2, <1>3, <1>4, <1>5, <1>6, <1>7, <1>9, <1>10, <1>11, <1>12 DEF DayNext, LoopStep

LEMMA TimesNext ==
  ASSUME TypeOK, Times, [DayNext]_day_vars
  PROVE  Times'
<1>0. time_ns \in Seq(Nat) /\ Len(time_ns) = index /\ index \in Nat /\ now \in Nat
  BY DEF Times, TypeOK
<1>1. CASE /\ pc = "next" /\ pc' = "signal" /\ index' = index + 1
           /\ now' \in Nat /\ now' >= now /\ time_ns' = Append(time_ns, now')
  <2>1. /\ time_ns' \in Seq(Nat) /\ Len(time_ns') = index + 1
        /\ \A i \in 1 .. index : time_ns'[i] = time_ns[i]
        /\ time_ns'[index + 1] = now'
    BY <1>0, <1>1, AppendShape
  <2>2. ASSUME NEW i \in 1 .. index  PROVE time_ns[i] <= now'
    <3>1. time_ns[i] <= time_ns[index] /\ time_ns[index] = now /\ time_ns[i] \in Nat
      BY <1>0 DEF Times
    <3> QED
      BY <1>0, <1>1, <3>1
  <2>3. ASSUME NEW i \in 1 .. index + 1, NEW j \in 1 .. index + 1, i <= j
        PROVE  time_ns'[i] <= time_ns'[j]
    <3>1. CASE j \in 1 .. index
      <4>1. i \in 1 .. index
        BY <1>0, <2>3, <3>1
      <4> QED
        BY <2>1, <2>3, <3>1, <4>1 DEF Times
    <3>2. CASE j = index + 1 /\ i \in 1 .. index
      BY <2>1, <2>2, <3>2
    <3>3. CASE j = index + 1 /\ i = index + 1
      BY <1>1, <2>1, <3>3
    <3> QED
      BY <1>0, <3>1, <3>2, <3>3
  <2> QED
    BY <1>0, <1>1, <2>1, <2>3 DEF Times
<1>2. CASE /\ UNCHANGED <<index, now, time_ns>>
           /\ pc = "next" => pc' = "next"
           /\ pc' \in {"settle", "done"} => pc \in {"settle", "done"} \/ index = Snapshots
  BY <1>2 DEF Times
<1> QED
  BY <1>1, <1>2, DayCases

LEMMA SpreadNext ==
  ASSUME TypeOK, Times, Spread, [DayNext]_day_vars
  PROVE  Spread'
<1> DEFINE w == Len(accepted_times)
<1>0. /\ time_ns \in Seq(Nat) /\ Len(time_ns) = index /\ index \in Nat /\ now \in Nat
      /\ accepted_times \in Seq(Nat) /\ w \in Nat
  BY DEF Times, TypeOK
<1>1. CASE /\ pc = "next" /\ index' = index + 1 /\ accepted_times' = accepted_times
           /\ now' \in Nat /\ time_ns' = Append(time_ns, now')
  <2>1. \A i \in 1 .. index : time_ns'[i] = time_ns[i]
    BY <1>0, <1>1, AppendShape
  <2>2. ASSUME NEW i \in 1 .. w
        PROVE  \E h \in 1 .. index + 1 : /\ time_ns'[h] = accepted_times[i]
                                         /\ h <= index + 1 - (w - i)
                                         /\ h < index + 1 - (w - i)
    <3>1. PICK h \in 1 .. index : time_ns[h] = accepted_times[i] /\ h <= index - (w - i)
      BY DEF Spread
    <3>2. h \in 1 .. index + 1 /\ h < index + 1 - (w - i) /\ h <= index + 1 - (w - i)
      BY <1>0, <3>1
    <3> QED
      BY <2>1, <3>1, <3>2
  <2>3. ASSUME NEW i \in 1 .. w
        PROVE  \E h \in 1 .. index' : /\ time_ns'[h] = accepted_times'[i]
                                      /\ h <= index' - (w - i)
                                      /\ pc' = "signal" => h < index' - (w - i)
    <3>1. PICK h \in 1 .. index + 1 : /\ time_ns'[h] = accepted_times[i]
                                      /\ h <= index + 1 - (w - i)
                                      /\ h < index + 1 - (w - i)
      BY <2>2, <2>3
    <3>2. index' = index + 1 /\ accepted_times' = accepted_times
      BY <1>1
    <3>3. h \in 1 .. index' /\ h <= index' - (w - i) /\ h < index' - (w - i)
      BY <1>0, <3>1, <3>2
    <3> QED
      BY <3>1, <3>2, <3>3, Zenon
  <2> QED
    BY <1>1, <2>3 DEF Spread
<1>2. CASE /\ UNCHANGED <<index, time_ns, pc>>
           /\ accepted_times # <<>> /\ accepted_times' = Tail(accepted_times)
  <2>1. /\ Len(accepted_times') = w - 1
        /\ \A i \in 1 .. w - 1 : accepted_times'[i] = accepted_times[i + 1]
    BY <1>0, <1>2, TailShape
  <2>2. ASSUME NEW i \in 1 .. w - 1
        PROVE  \E h \in 1 .. index : /\ time_ns[h] = accepted_times'[i]
                                     /\ h <= index - ((w - 1) - i)
                                     /\ pc = "signal" => h < index - ((w - 1) - i)
    <3>1. i + 1 \in 1 .. w /\ w - (i + 1) = (w - 1) - i
      BY <1>0
    <3>2. PICK h \in 1 .. index : /\ time_ns[h] = accepted_times[i + 1]
                                  /\ h <= index - (w - (i + 1))
                                  /\ pc = "signal" => h < index - (w - (i + 1))
      BY <3>1 DEF Spread
    <3> QED
      BY <2>1, <3>1, <3>2
  <2> HIDE DEF w
  <2> QED
    BY <1>2, <2>1, <2>2 DEF Spread
<1>3. CASE /\ UNCHANGED <<index, now, time_ns>> /\ pc = "signal" /\ pc' = "fill"
           /\ accepted_times' = Append(accepted_times, now)
  <2>1. /\ Len(accepted_times') = w + 1 /\ accepted_times'[w + 1] = now
        /\ \A i \in 1 .. w : accepted_times'[i] = accepted_times[i]
    BY <1>0, <1>3, AppendShape
  <2>2. ASSUME NEW i \in 1 .. w + 1
        PROVE  \E h \in 1 .. index : /\ time_ns[h] = accepted_times'[i]
                                     /\ h <= index - ((w + 1) - i)
    <3>1. CASE i \in 1 .. w
      <4>1. PICK h \in 1 .. index : time_ns[h] = accepted_times[i] /\ h < index - (w - i)
        BY <1>3, <3>1 DEF Spread
      <4>2. h <= index - ((w + 1) - i)
        BY <1>0, <4>1
      <4> QED
        BY <2>1, <3>1, <4>1, <4>2
    <3>2. CASE i = w + 1
      <4>1. index \in 1 .. index /\ time_ns[index] = now /\ index <= index - ((w + 1) - i)
        BY <1>0, <1>3, <3>2 DEF Times
      <4> QED
        BY <2>1, <3>2, <4>1
    <3> QED
      BY <1>0, <3>1, <3>2
  <2> HIDE DEF w
  <2> QED
    BY <1>3, <2>1, <2>2 DEF Spread
<1>4. CASE /\ UNCHANGED <<index, time_ns, accepted_times>>
           /\ pc' # "signal" \/ pc' = pc
  BY <1>4 DEF Spread
<1> QED
  BY <1>1, <1>2, <1>3, <1>4, DayCases

\* Snapshots that come later are not in the window of an earlier one.
LEMMA BurstStays ==
  ASSUME TypeOK, Times, NEW i \in 1 .. index,
         \/ time_ns' = time_ns
         \/ now' \in Nat /\ now' >= now /\ time_ns' = Append(time_ns, now')
  PROVE  Burst(i)' = Burst(i)
<1>0. time_ns \in Seq(Nat) /\ Len(time_ns) = index /\ index \in Nat /\ now \in Nat
  BY DEF Times, TypeOK
<1>1. CASE time_ns' = time_ns
  BY <1>1 DEF Burst, Late
<1>2. CASE now' \in Nat /\ now' >= now /\ time_ns' = Append(time_ns, now')
  <2>1. /\ Len(time_ns') = index + 1
        /\ \A j \in 1 .. index : time_ns'[j] = time_ns[j]
        /\ time_ns'[index + 1] = now'
    BY <1>0, <1>2, AppendShape
  <2>2. /\ time_ns[i] <= time_ns[index] /\ time_ns[index] = now
        /\ time_ns[i] \in Nat /\ RateWindow \in Nat
    BY <1>0, DelayAssumption DEF Times
  <2>3. ~(now' < time_ns[i] - RateWindow)
    BY <1>0, <1>2, <2>2
  <2>4. Late(i)' = Late(i)
    <3>1. ASSUME NEW j \in 1 .. index + 1
          PROVE  time_ns'[j] < time_ns'[i] - RateWindow
                   <=> (j \in 1 .. index /\ time_ns[j] < time_ns[i] - RateWindow)
      <4>1. CASE j \in 1 .. index
        BY <2>1, <4>1
      <4>2. CASE j = index + 1
        BY <1>0, <2>1, <2>3, <4>2
      <4> QED
        BY <1>0, <4>1, <4>2
    <3>2. 1 .. index \subseteq 1 .. index + 1
      BY <1>0
    <3> QED
      BY <1>0, <2>1, <3>1, <3>2 DEF Late
  <2> QED
    BY <2>4 DEF Burst
<1> QED
  BY <1>1, <1>2

\* The acceptances the limit counts, and the one that is added, are messages of
\* the window that ends here.
LEMMA BurstCovers ==
  ASSUME TypeOK, Times, Spread, pc = "signal", ~Expired
  PROVE  index \in 1 .. index /\ Len(accepted_times) + 1 <= Burst(index)
<1> DEFINE w == Len(accepted_times)
<1>0. /\ time_ns \in Seq(Nat) /\ Len(time_ns) = index /\ index \in Nat \ {0} /\ now \in Nat
      /\ accepted_times \in Seq(Nat) /\ w \in Nat /\ RateWindow \in Nat \ {0}
      /\ time_ns[index] = now
  BY DelayAssumption DEF Times, TypeOK
<1>1. PICK h \in 1 .. index : h <= index - w /\ ~(time_ns[h] < now - RateWindow)
  <2>1. CASE w = 0
    BY <1>0, <2>1
  <2>2. CASE w # 0
    <3>1. PICK h \in 1 .. index : time_ns[h] = accepted_times[1] /\ h < index - (w - 1)
      BY <1>0, <2>2 DEF Spread
    <3>2. Head(accepted_times) = accepted_times[1] /\ accepted_times # <<>>
          /\ accepted_times[1] \in Nat
      BY <1>0, <2>2
    <3>3. ~(accepted_times[1] <= now - RateWindow)
      BY <3>2 DEF Expired
    <3>4. h <= index - w /\ ~(time_ns[h] < now - RateWindow)
      BY <1>0, <3>1, <3>2, <3>3
    <3> QED
      BY <3>4
  <2> QED
    BY <2>1, <2>2
<1>2. Late(index) \subseteq 1 .. h - 1
  <2>1. SUFFICES ASSUME NEW j \in 1 .. index, time_ns[j] < now - RateWindow, h <= j
                 PROVE  FALSE
    <3>1. \A j \in Late(index) : j \in 1 .. index /\ time_ns[j] < now - RateWindow
      BY <1>0 DEF Late
    <3>2. ASSUME \A j \in 1 .. index : time_ns[j] < now - RateWindow => ~(h <= j)
          PROVE  Late(index) \subseteq 1 .. h - 1
      <4>1. \A j \in 1 .. index : ~(h <= j) => j \in 1 .. h - 1
        BY <1>0
      <4> QED
        BY <3>1, <3>2, <4>1
    <3> QED
      BY <3>2
  <2>2. time_ns[h] <= time_ns[j] /\ time_ns[h] \in Nat /\ time_ns[j] \in Nat
    <3>1. h \in 1 .. index /\ j \in 1 .. index /\ DOMAIN time_ns = 1 .. index
      BY <1>0
    <3>2. time_ns[h] \in Nat /\ time_ns[j] \in Nat
      BY <1>0, <3>1
    <3>3. time_ns[h] <= time_ns[j]
      BY <2>1, <3>1 DEF Times
    <3> QED
      BY <3>2, <3>3
  <2> QED
    BY <1>0, <1>1, <2>1, <2>2
<1>3. IsFiniteSet(1 .. h - 1) /\ Cardinality(1 .. h - 1) = h - 1
  BY FS_Interval
<1>4. Cardinality(Late(index)) \in Nat /\ Cardinality(Late(index)) <= h - 1
  BY <1>2, <1>3, FS_Subset, FS_CardinalityType
<1> HIDE DEF w
<1>5. w + 1 <= index - Cardinality(Late(index))
  BY <1>0, <1>1, <1>4
<1> QED
  BY <1>0, <1>5 DEF Burst, w

LEMMA RateSeenNext ==
  ASSUME TypeOK, Times, Spread, RateSeen, [DayNext]_day_vars
  PROVE  RateSeen'
<1>0. index \in Nat /\ maxima.order_rate \in Nat /\ Len(accepted_times) \in Nat
  BY DEF TypeOK
<1>1. ASSUME maxima'.order_rate = maxima.order_rate, index' \in {index, index + 1},
             \/ time_ns' = time_ns
             \/ now' \in Nat /\ now' >= now /\ time_ns' = Append(time_ns, now')
      PROVE  RateSeen'
  <2>1. CASE maxima.order_rate = 0
    BY <1>1, <2>1 DEF RateSeen
  <2>2. ASSUME NEW i \in 1 .. index, maxima.order_rate <= Burst(i)  PROVE RateSeen'
    <3>1. Burst(i)' = Burst(i)
      BY <1>1, BurstStays
    <3>2. i \in 1 .. index'
      BY <1>0, <1>1
    <3> QED
      BY <1>1, <2>2, <3>1, <3>2 DEF RateSeen
  <2> QED
    BY <2>1, <2>2 DEF RateSeen
<1>2. CASE /\ UNCHANGED <<index, now, time_ns>> /\ pc = "signal"
           /\ ~Expired /\ accepted_times' = Append(accepted_times, now)
           /\ maxima'.order_rate = Larger(maxima.order_rate, Len(accepted_times'))
  <2>1. Len(accepted_times') = Len(accepted_times) + 1
    BY <1>2 DEF TypeOK
  <2>2. index \in 1 .. index /\ Len(accepted_times) + 1 <= Burst(index)
    BY <1>2, BurstCovers
  <2>3. Burst(index)' = Burst(index)
    BY <1>2, <2>2, BurstStays
  <2>4. CASE maxima'.order_rate = maxima.order_rate
    BY <1>1, <1>2, <2>4
  <2>5. CASE maxima'.order_rate = Len(accepted_times) + 1
    BY <1>2, <2>2, <2>3, <2>5 DEF RateSeen
  <2> QED
    BY <1>0, <1>2, <2>1, <2>4, <2>5 DEF Larger
<1> QED
  BY <1>1, <1>2, DayCases

LEMMA BurstsInvariant == DaySpec => []Bursts
<1>1. TypeOK /\ Bursts /\ [DayNext]_day_vars => Bursts'
  BY TimesNext, SpreadNext, RateSeenNext DEF Bursts
<1>2. IInv => TypeOK
  BY DEF IInv
<1> QED
  BY <1>1, <1>2, BurstsInit, DayInvariance, PTL DEF DaySpec

\* Some natural numbers with a bound have a largest one.
LEMMA LargestShape ==
  ASSUME NEW T, T # {}, NEW b \in Nat, T \subseteq 0 .. b
  PROVE  /\ Health!Largest(T) \in T
         /\ \A k \in T : k <= Health!Largest(T)
<1>1. Max(T) \in T /\ \A k \in T : k <= Max(T)
  BY MaxShape
<1> QED
  BY <1>1 DEF Health!Largest

LEMMA BurstShape ==
  ASSUME TypeOK, Times, NEW i \in 1 .. index
  PROVE  Burst(i) \in 0 .. index /\ Late(i) \subseteq 1 .. i
<1>0. /\ time_ns \in Seq(Nat) /\ Len(time_ns) = index /\ index \in Nat
      /\ RateWindow \in Nat
  BY DelayAssumption DEF Times, TypeOK
<1>1. Late(i) \subseteq 1 .. i
  <2>1. SUFFICES ASSUME NEW j \in 1 .. index, time_ns[j] < time_ns[i] - RateWindow, i <= j
                 PROVE  FALSE
    BY <1>0 DEF Late
  <2>2. time_ns[i] <= time_ns[j] /\ time_ns[i] \in Nat /\ time_ns[j] \in Nat
    BY <1>0, <2>1 DEF Times
  <2> QED
    BY <1>0, <2>1, <2>2
<1>2. Cardinality(Late(i)) \in 0 .. i
  BY <1>1, CountOfFirst
<1>3. i - Cardinality(Late(i)) \in 0 .. index
  BY <1>0, <1>2
<1> QED
  BY <1>1, <1>3 DEF Burst

LEMMA SameSecond ==
  ASSUME NEW t \in Nat, NEW u \in Nat, NEW s \in Nat \ {0}, t \div s = u \div s
  PROVE  ~(t < u - s)
  BY SMT

\* The messages of one second of the clock are in the window that ends with the
\* last of them.
LEMMA SecondInWindow ==
  ASSUME TypeOK, Times, NEW i \in 1 .. index
  PROVE  LET second == {j \in 1 .. index :
                          time_ns[j] \div RateWindow = time_ns[i] \div RateWindow}
         IN  /\ Cardinality(second) \in 0 .. index
             /\ \E m \in 1 .. index : Cardinality(second) <= Burst(m)
<1> DEFINE second == {j \in 1 .. index :
                        time_ns[j] \div RateWindow = time_ns[i] \div RateWindow}
<1>0. /\ time_ns \in Seq(Nat) /\ Len(time_ns) = index /\ index \in Nat
      /\ RateWindow \in Nat \ {0}
  BY DelayAssumption DEF Times, TypeOK
<1>1. PICK m \in second : \A j \in second : j <= m
  <2>1. second \subseteq 0 .. index /\ second # {}
    <3>1. i \in second
      OBVIOUS
    <3>2. second \subseteq 1 .. index
      OBVIOUS
    <3>3. 1 .. index \subseteq 0 .. index
      BY <1>0
    <3> QED
      BY <3>1, <3>2, <3>3, Zenon
  <2> HIDE DEF second
  <2> QED
    BY <1>0, <2>1, MaxShape
<1>2. m \in 1 .. index /\ second \subseteq 1 .. m
  BY <1>1
<1>3. second \cap Late(m) = {}
  <2>1. SUFFICES ASSUME NEW j \in second, time_ns[j] < time_ns[m] - RateWindow  PROVE FALSE
    BY DEF Late
  <2>2. /\ time_ns[j] \in Nat /\ time_ns[m] \in Nat
        /\ time_ns[j] \div RateWindow = time_ns[m] \div RateWindow
    BY <1>0, <1>2
  <2> QED
    BY <1>0, <2>1, <2>2, SameSecond
<1>4. Late(m) \subseteq 1 .. m
  BY <1>2, BurstShape
<1> HIDE DEF second
<1>5. /\ IsFiniteSet(1 .. m) /\ Cardinality(1 .. m) = m
      /\ IsFiniteSet(second) /\ IsFiniteSet(Late(m))
  <2>1. m \in Nat /\ second \subseteq 1 .. m /\ Late(m) \subseteq 1 .. m
    BY <1>2, <1>4
  <2>2. IsFiniteSet(second) /\ IsFiniteSet(Late(m))
    BY <2>1, CountOfFirst
  <2>3. IsFiniteSet(1 .. m) /\ Cardinality(1 .. m) = m
    BY <2>1, FS_Interval
  <2> QED
    BY <2>2, <2>3
<1>6. /\ Cardinality(second \cup Late(m)) = Cardinality(second) + Cardinality(Late(m))
      /\ Cardinality(second \cup Late(m)) <= m
      /\ Cardinality(second) \in Nat /\ Cardinality(Late(m)) \in Nat
  <2>1. Cardinality(second \cup Late(m)) <= m
    <3>1. second \cup Late(m) \subseteq 1 .. m /\ m \in Nat
      <4>1. m \in Nat
        BY <1>2
      <4>2. second \cup Late(m) \subseteq 1 .. m
        BY <1>2, <1>4, Zenon
      <4> QED
        BY <4>1, <4>2
    <3>2. Cardinality(second \cup Late(m)) \in 0 .. m
      BY <3>1, CountOfFirst
    <3> QED
      BY <3>1, <3>2
  <2>2. /\ Cardinality(second \cup Late(m))
             = Cardinality(second) + Cardinality(Late(m)) - Cardinality(second \cap Late(m))
        /\ Cardinality(second \cap Late(m)) = 0
    BY <1>3, <1>5, FS_Union, FS_EmptySet
  <2>3. Cardinality(second) \in Nat /\ Cardinality(Late(m)) \in Nat
    BY <1>5, FS_CardinalityType
  <2> QED
    BY <2>1, <2>2, <2>3
<1>7. Cardinality(second) \in 0 .. index /\ Cardinality(second) <= Burst(m)
  BY <1>0, <1>2, <1>6 DEF Burst
<1> QED
  BY <1>2, <1>7 DEF second

LEMMA PeaksBound ==
  ASSUME TypeOK, Bursts
  PROVE  BurstBoundsRate
<1> SUFFICES ASSUME pc = "done"  PROVE BurstBoundsRate
  BY DEF BurstBoundsRate
<1>0. /\ time_ns \in Seq(Nat) /\ Len(time_ns) = index /\ index \in Nat \ {0} /\ Times
      /\ DOMAIN time_ns = 1 .. index
  BY DayAssumption DEF Bursts, Times, TypeOK
<1> DEFINE rolling == {i - Cardinality({j \in DOMAIN time_ns : time_ns[j] < time_ns[i] - RateWindow})
                         : i \in DOMAIN time_ns}
           fixed   == {Cardinality({j \in DOMAIN time_ns :
                         time_ns[j] \div RateWindow = time_ns[i] \div RateWindow})
                         : i \in DOMAIN time_ns}
<1>1. rolling = {Burst(i) : i \in 1 .. index}
  BY <1>0 DEF Burst, Late
<1>2. rolling \subseteq 0 .. index /\ rolling # {}
  <2>1. \A i \in 1 .. index : Burst(i) \in 0 .. index
    BY <1>0, BurstShape
  <2> HIDE DEF rolling
  <2> QED
    BY <1>0, <1>1, <2>1
<1>3. /\ Health!RollingPeak(time_ns, RateWindow) = Health!Largest(rolling)
      /\ Health!FixedPeak(time_ns, RateWindow) = Health!Largest(fixed)
  <2>1. \A S : Health!Cardinality(S) = Cardinality(S)
    BY Zenon DEF Health!Cardinality, Cardinality
  <2> QED
    BY <2>1, Zenon DEF Health!RollingPeak, Health!FixedPeak
<1>4. \A i \in 1 .. index : Burst(i) <= Health!Largest(rolling)
  <2> HIDE DEF rolling
  <2>1. \A k \in rolling : k <= Health!Largest(rolling)
    BY <1>0, <1>2, LargestShape
  <2> QED
    BY <1>1, <2>1
<1>5. Health!Largest(rolling) \in Nat /\ \A i \in 1 .. index : Burst(i) \in Nat
  <2> HIDE DEF rolling
  <2>1. Health!Largest(rolling) \in rolling
    BY <1>0, <1>2, LargestShape
  <2> QED
    BY <1>0, <1>1, <1>2, <2>1
<1>6. maxima.order_rate <= Health!Largest(rolling)
  <2> HIDE DEF rolling
  <2>1. maxima.order_rate \in Nat
    BY DEF TypeOK
  <2> QED
    BY <1>4, <1>5, <2>1 DEF Bursts, RateSeen
<1>7. Health!Largest(fixed) <= Health!Largest(rolling)
  <2>1. \A i \in 1 .. index :
          LET second == {j \in 1 .. index :
                           time_ns[j] \div RateWindow = time_ns[i] \div RateWindow}
          IN  /\ Cardinality(second) \in 0 .. index
              /\ \E m \in 1 .. index : Cardinality(second) <= Burst(m)
    BY <1>0, SecondInWindow
  <2>2. /\ fixed \subseteq 0 .. index /\ fixed # {}
        /\ \A k \in fixed : \E m \in 1 .. index : k <= Burst(m)
    <3> DEFINE count(i) == Cardinality({j \in 1 .. index :
                             time_ns[j] \div RateWindow = time_ns[i] \div RateWindow})
    <3>1. \A i \in 1 .. index : /\ count(i) \in 0 .. index
                                /\ \E m \in 1 .. index : count(i) <= Burst(m)
      BY <2>1
    <3>2. fixed = {count(i) : i \in 1 .. index}
      BY <1>0
    <3> HIDE DEF fixed, count
    <3>3. 1 \in 1 .. index
      BY <1>0
    <3> QED
      BY <3>1, <3>2, <3>3
  <2> HIDE DEF fixed, rolling
  <2>3. Health!Largest(fixed) \in fixed
    BY <1>0, <2>2, LargestShape
  <2>4. PICK m \in 1 .. index : Health!Largest(fixed) <= Burst(m)
    BY <2>2, <2>3
  <2>5. Health!Largest(fixed) \in 0 .. index
    BY <2>2, <2>3
  <2>6. Burst(m) <= Health!Largest(rolling) /\ Burst(m) \in Nat
    BY <1>4, <1>5
  <2> QED
    BY <1>5, <2>4, <2>5, <2>6
<1> QED
  BY <1>3, <1>6, <1>7 DEF BurstBoundsRate

\* The burst the health check reports bounds what the rate limit ever sees, for
\* every day, every strategy and every set of limits.
THEOREM BurstsBoundTheRate == DaySpec => []BurstBoundsRate
<1>1. IInv => TypeOK
  BY DEF IInv
<1> QED
  BY <1>1, PeaksBound, BurstsInvariant, DayInvariance, PTL

----------------------------------------------------------------------------
(* The metrics.                                                            *)

\* The curve has a mark for every snapshot but the one that is being worked on,
\* and at the end of the day its last mark is the settled result.
Curve == /\ equity_half_cents \in Seq(Int)
         /\ pc \in {"next", "settle", "done"} => Len(equity_half_cents) = index
         /\ pc \in {"signal", "fill"} => Len(equity_half_cents) = index - 1
         /\ pc = "done" => equity_half_cents[Snapshots] = equity
         /\ counts.fills = 0 => \A i \in 1 .. Len(equity_half_cents) : equity_half_cents[i] = 0

LEMMA CurveInit == DayInit => Curve
<1> SUFFICES ASSUME DayInit PROVE Curve
  OBVIOUS
<1>1. equity_half_cents = <<>> /\ index = 0 /\ pc = "next"
  BY DEF DayInit, Init
<1> QED
  BY <1>1 DEF Curve

\* Nothing filled, nothing made.
LEMMA FlatBooks ==
  ASSUME TypeOK, BooksFollowFills
  PROVE  /\ 2 * cash + position * mid \in Int
         /\ counts.fills = 0 => 2 * cash + position * mid = 0
<1>0. cash \in Int /\ position \in Int /\ mid \in Int /\ log \in Seq(Order)
  BY DEF TypeOK
<1>1. 2 * cash + position * mid \in Int
  <2>1. position * mid \in Int
    BY <1>0
  <2> QED
    BY <1>0, <2>1
<1>2. ASSUME counts.fills = 0  PROVE cash = 0 /\ position = 0
  <2>1. SubSeq(log, 1, 0) = <<>>
    BY <1>0
  <2> QED
    BY <1>2, <2>1, NetNothing DEF BooksFollowFills
<1>3. ASSUME counts.fills = 0  PROVE 2 * cash + position * mid = 0
  <2>1. cash = 0 /\ position = 0
    BY <1>2, <1>3
  <2>2. 2 * cash + position * mid = 2 * 0 + 0 * mid
    BY <2>1
  <2> QED
    BY <1>0, <2>2
<1> QED
  BY <1>1, <1>3

LEMMA CurveNext ==
  ASSUME TypeOK, Times, BooksFollowFills, Curve, [DayNext]_day_vars
  PROVE  Curve'
<1>0. /\ equity_half_cents \in Seq(Int) /\ Len(equity_half_cents) \in Nat
      /\ index \in Nat /\ counts.fills \in Nat
  BY DEF Curve, TypeOK
<1>1. ASSUME NEW gap \in Gaps, NEW m \in Mids, NEW s \in Signals, NextRow(gap, m, s)
      PROVE  Curve'
  <2>1. /\ pc = "next" /\ pc' = "signal" /\ index' = index + 1
        /\ UNCHANGED <<equity_half_cents, counts>>
    BY <1>1 DEF NextRow, NextSnapshot
  <2> QED
    BY <1>0, <2>1 DEF Curve
<1>2. CASE MarkRow
  <2> DEFINE e == 2 * cash + position * mid
  <2>1. /\ pc = "fill" /\ pc' \in {"next", "settle"} /\ index' = index /\ counts' = counts
        /\ equity_half_cents' = Append(equity_half_cents, e)
    BY <1>2 DEF MarkRow, MarkToMarket
  <2>2. e \in Int /\ (counts.fills = 0 => e = 0)
    BY FlatBooks
  <2> HIDE DEF e
  <2>3. /\ equity_half_cents' \in Seq(Int)
        /\ Len(equity_half_cents') = Len(equity_half_cents) + 1
        /\ \A i \in 1 .. Len(equity_half_cents) :
             equity_half_cents'[i] = equity_half_cents[i]
        /\ equity_half_cents'[Len(equity_half_cents) + 1] = e
    BY <1>0, <2>1, <2>2, AppendShape
  <2>4. Len(equity_half_cents') = index
    BY <1>0, <2>1, <2>3 DEF Curve
  <2>5. ASSUME counts.fills = 0, NEW i \in 1 .. Len(equity_half_cents')
        PROVE  equity_half_cents'[i] = 0
    <3>1. CASE i \in 1 .. Len(equity_half_cents)
      BY <2>3, <2>5, <3>1 DEF Curve
    <3>2. CASE i = Len(equity_half_cents) + 1
      BY <2>2, <2>3, <2>5, <3>2
    <3> QED
      BY <1>0, <2>3, <3>1, <3>2
  <2> QED
    BY <2>1, <2>3, <2>4, <2>5 DEF Curve
<1>3. CASE CloseCurve
  <2> DEFINE e == 2 * cash + position * mid
  <2>1. /\ pc = "settle" /\ pc' = "done" /\ index' = index /\ counts' = counts
        /\ equity' = e
        /\ equity_half_cents' = [equity_half_cents EXCEPT ![Snapshots] = e]
    BY <1>3 DEF CloseCurve, CloseDay, LastRow
  <2>2. e \in Int /\ (counts.fills = 0 => e = 0)
    BY FlatBooks
  <2> HIDE DEF e
  <2>3. Len(equity_half_cents) = Snapshots /\ index = Snapshots /\ Snapshots \in Nat \ {0}
    BY <2>1, DayAssumption DEF Curve, Times
  <2>4. /\ equity_half_cents' \in Seq(Int)
        /\ Len(equity_half_cents') = Len(equity_half_cents)
        /\ equity_half_cents'[Snapshots] = e
        /\ \A i \in 1 .. Len(equity_half_cents) :
             i # Snapshots => equity_half_cents'[i] = equity_half_cents[i]
    BY <1>0, <2>1, <2>2, <2>3
  <2>5. ASSUME counts.fills = 0, NEW i \in 1 .. Len(equity_half_cents')
        PROVE  equity_half_cents'[i] = 0
    BY <2>2, <2>4, <2>5 DEF Curve
  <2> QED
    BY <2>1, <2>3, <2>4, <2>5 DEF Curve
<1>4. ASSUME UNCHANGED <<index, equity, equity_half_cents>>,
             pc' = pc \/ (pc = "signal" /\ pc' = "fill"),
             counts'.fills \in {counts.fills, counts.fills + 1}
      PROVE  Curve'
  <2>1. counts'.fills = 0 => counts.fills = 0
    BY <1>0, <1>4
  <2> QED
    BY <1>4, <2>1 DEF Curve
<1>5. CASE LoopStep
  <2>1. UNCHANGED <<index, equity, equity_half_cents>>
    BY <1>5 DEF LoopStep, EvictAcceptance, RiskCheck, HoldSignal, FillMatured, SettleOne, books
  <2>2. CASE RiskCheck
    BY <1>4, <2>1, <2>2, CheckedShape
  <2>3. CASE FillMatured \/ SettleOne
    <3>1. FillOrder /\ in_flight # <<>> /\ pc' = pc
      BY <2>3 DEF FillMatured, SettleOne, Matured
    <3> QED
      BY <1>4, <2>1, <3>1, FillShape
  <2>4. CASE EvictAcceptance \/ HoldSignal
    BY <1>4, <2>1, <2>4 DEF EvictAcceptance, HoldSignal
  <2> QED
    BY <1>5, <2>2, <2>3, <2>4 DEF LoopStep
<1>6. CASE UNCHANGED day_vars
  BY <1>4, <1>6 DEF day_vars, vars, books
<1> QED
  BY <1>1, <1>2, <1>3, <1>5, <1>6 DEF DayNext

\* The number of times up to t, and the curve at the last of them.
LEMMA SearchShape ==
  ASSUME NEW times \in Seq(Nat), NEW t, NEW u
  PROVE  /\ Searchsorted(times, t) \in 0 .. Len(times)
         /\ (t \in Int /\ u \in Int /\ t <= u) => Searchsorted(times, t) <= Searchsorted(times, u)
<1> DEFINE upto(x) == {i \in DOMAIN times : times[i] <= x}
<1>1. DOMAIN times = 1 .. Len(times) /\ Len(times) \in Nat
  OBVIOUS
<1>3. Cardinality(upto(t)) \in 0 .. Len(times)
  <2>1. upto(t) \subseteq 1 .. Len(times)
    BY <1>1
  <2> HIDE DEF upto
  <2> QED
    BY <1>1, <2>1, CountOfFirst
<1>4. ASSUME t \in Int, u \in Int, t <= u
      PROVE  Cardinality(upto(t)) <= Cardinality(upto(u))
  <2>1. upto(t) \subseteq upto(u)
    BY <1>4
  <2>2. upto(u) \subseteq 1 .. Len(times)
    BY <1>1
  <2> HIDE DEF upto
  <2>3. IsFiniteSet(upto(u))
    BY <1>1, <2>2, CountOfFirst
  <2> QED
    BY <2>1, <2>3, FS_Subset
<1> QED
  BY <1>1, <1>3, <1>4 DEF Searchsorted

LEMMA MinuteShape ==
  ASSUME NEW k \in 1 .. Minutes
  PROVE  MinuteEnd(k) \in Int /\ SessionEnd \in Int /\ MinuteEnd(k) <= SessionEnd
<1> USE SessionAssumption
<1>1. /\ k * MinuteLength \in Nat /\ (Minutes - k) * MinuteLength \in Nat
      /\ Minutes * MinuteLength \in Nat
  <2>1. Minutes - k \in Nat
    OBVIOUS
  <2> QED
    BY <2>1
<1>2. k * MinuteLength + (Minutes - k) * MinuteLength = Minutes * MinuteLength
  OBVIOUS
<1>3. k * MinuteLength <= Minutes * MinuteLength
  <2> DEFINE a == k * MinuteLength
             b == (Minutes - k) * MinuteLength
             c == Minutes * MinuteLength
  <2>1. a \in Nat /\ b \in Nat /\ c \in Nat /\ a + b = c
    BY <1>1, <1>2
  <2> HIDE DEF a, b, c
  <2>2. a <= c
    BY <2>1
  <2> QED
    BY <2>2 DEF a, c
<1> DEFINE a == k * MinuteLength
           c == Minutes * MinuteLength
<1>4. a \in Nat /\ c \in Nat /\ a <= c
  BY <1>1, <1>3
<1>5. MinuteEnd(k) = SessionStart + a /\ SessionEnd = SessionStart + c
  BY DEF MinuteEnd, SessionEnd
<1> HIDE DEF a, c
<1> QED
  BY <1>4, <1>5

\* The profit of the first k minutes is the equity at the end of the k-th.
LEMMA MinutesTelescope ==
  ASSUME NEW at_end \in [1 .. Minutes -> Int], NEW pnl,
         pnl = [k \in 1 .. Minutes |-> at_end[k] - (IF k = 1 THEN 0 ELSE at_end[k - 1])]
  PROVE  SumFunctionOnSet(pnl, 1 .. Minutes) = at_end[Minutes]
<1>0. Minutes \in Nat \ {0}
  BY SessionAssumption
<1> DEFINE G == {k \in Nat : k + 1 <= Minutes =>
                              SumFunctionOnSet(pnl, 1 .. k + 1) = at_end[k + 1]}
<1>1. \A k \in 1 .. Minutes : pnl[k] \in Int
  <2>1. ASSUME NEW k \in 1 .. Minutes  PROVE pnl[k] \in Int
    <3>1. at_end[k] \in Int /\ (k # 1 => at_end[k - 1] \in Int)
      <4>1. k # 1 => k - 1 \in 1 .. Minutes
        BY <1>0
      <4> QED
        BY <4>1
    <3>2. pnl[k] = at_end[k] - (IF k = 1 THEN 0 ELSE at_end[k - 1])
      OBVIOUS
    <3> QED
      BY <3>1, <3>2
  <2> QED
    BY <2>1
<1>2. ASSUME NEW k \in Nat, k + 1 <= Minutes
      PROVE  /\ SumFunctionOnSet(pnl, 1 .. k) \in Int
             /\ SumFunctionOnSet(pnl, 1 .. k + 1) = pnl[k + 1] + SumFunctionOnSet(pnl, 1 .. k)
  <2>1. Weighs(pnl, 1 .. k + 1)
    BY <1>0, <1>1, <1>2 DEF Weighs
  <2> QED
    BY <2>1, SumFirst
<1>3. 0 \in G
  <2>1. 1 .. 0 = {} /\ 0 + 1 = 1
    OBVIOUS
  <2>2. SumFunctionOnSet(pnl, 1 .. 0) = 0
    BY <2>1, SumEmpty
  <2>3. SumFunctionOnSet(pnl, 1 .. 0 + 1) = pnl[0 + 1] + SumFunctionOnSet(pnl, 1 .. 0)
    <3>1. 0 \in Nat /\ 0 + 1 <= Minutes
      BY <1>0
    <3> HIDE DEF G
    <3> QED
      BY <1>2, <3>1
  <2>4. pnl[1] = at_end[1] - 0 /\ at_end[1] \in Int
    BY <1>0
  <2>5. SumFunctionOnSet(pnl, 1 .. 0 + 1) = at_end[0 + 1]
    BY <2>1, <2>2, <2>3, <2>4
  <2> QED
    BY <2>5
<1>4. ASSUME NEW k \in Nat, k \in G  PROVE k + 1 \in G
  <2>1. SUFFICES ASSUME (k + 1) + 1 <= Minutes
                 PROVE  SumFunctionOnSet(pnl, 1 .. (k + 1) + 1) = at_end[(k + 1) + 1]
    OBVIOUS
  <2>2. k + 1 <= Minutes /\ k + 1 \in 1 .. Minutes /\ (k + 1) + 1 \in 1 .. Minutes
        /\ (k + 1) + 1 # 1 /\ ((k + 1) + 1) - 1 = k + 1
    BY <1>0, <2>1
  <2>3. SumFunctionOnSet(pnl, 1 .. k + 1) = at_end[k + 1]
    BY <1>4, <2>2
  <2>4. pnl[(k + 1) + 1] = at_end[(k + 1) + 1] - at_end[k + 1]
    BY <2>2
  <2>5. SumFunctionOnSet(pnl, 1 .. (k + 1) + 1) = pnl[(k + 1) + 1] + at_end[k + 1]
    BY <1>2, <2>1, <2>3
  <2>6. at_end[k + 1] \in Int /\ at_end[(k + 1) + 1] \in Int
    BY <2>2
  <2> QED
    BY <2>4, <2>5, <2>6
<1>5. Nat \subseteq G
  <2> HIDE DEF G
  <2> QED
    BY <1>3, <1>4, NatSetInduction
<1>6. Minutes - 1 \in G /\ (Minutes - 1) + 1 = Minutes
  <2>1. Minutes - 1 \in Nat /\ (Minutes - 1) + 1 = Minutes
    BY <1>0
  <2> HIDE DEF G
  <2> QED
    BY <1>5, <2>1
<1> QED
  BY <1>0, <1>6

LEMMA MinutesHold ==
  ASSUME TypeOK, Times, Curve
  PROVE  MinutesAddUp
<1> SUFFICES ASSUME pc = "done"  PROVE MinutesAddUp
  BY DEF MinutesAddUp
<1> DEFINE counted == Searchsorted(time_ns, SessionEnd)
           at_end  == MinuteEquity(time_ns, equity_half_cents)
           found(k) == Searchsorted(time_ns, MinuteEnd(k))
<1>0. /\ time_ns \in Seq(Nat) /\ Len(time_ns) = Snapshots /\ Snapshots \in Nat \ {0}
      /\ equity_half_cents \in Seq(Int) /\ Len(equity_half_cents) = Snapshots
      /\ equity_half_cents[Snapshots] = equity /\ Minutes \in Nat \ {0}
  BY DayAssumption, SessionAssumption DEF Times, Curve
<1>1. \A k \in 1 .. Minutes : found(k) \in 0 .. Snapshots /\ found(k) <= counted
  BY <1>0, SearchShape, MinuteShape
<1>2. counted \in 0 .. Snapshots /\ found(Minutes) = counted
  BY <1>0, SearchShape DEF SessionEnd
<1>3. /\ at_end \in [1 .. Minutes -> Int]
      /\ \A k \in 1 .. Minutes :
           at_end[k] = IF found(k) = 0 THEN 0 ELSE equity_half_cents[found(k)]
  <2>1. \A k \in 1 .. Minutes :
          (IF found(k) = 0 THEN 0 ELSE equity_half_cents[found(k)]) \in Int
    <3>1. ASSUME NEW k \in 1 .. Minutes, found(k) # 0
          PROVE  equity_half_cents[found(k)] \in Int
      <4>1. found(k) \in 1 .. Snapshots
        BY <1>0, <1>1, <3>1
      <4> HIDE DEF found
      <4> QED
        BY <1>0, <4>1
    <3> QED
      BY <3>1
  <2>2. at_end = [k \in 1 .. Minutes |->
                    IF found(k) = 0 THEN 0 ELSE equity_half_cents[found(k)]]
    BY DEF MinuteEquity
  <2> HIDE DEF found, at_end
  <2> QED
    BY <2>1, <2>2
<1>4. minute_pnl = [k \in 1 .. Minutes |-> at_end[k] - (IF k = 1 THEN 0 ELSE at_end[k - 1])]
  BY DEF minute_pnl, MinutePnl
<1> HIDE DEF counted, at_end, found
<1>5. SumFunctionOnSet(minute_pnl, DOMAIN minute_pnl) = at_end[Minutes]
  <2>1. DOMAIN minute_pnl = 1 .. Minutes
    BY <1>4
  <2> QED
    BY <1>3, <1>4, <2>1, MinutesTelescope
<1>6. at_end[Minutes] = IF counted = 0 THEN 0 ELSE equity_half_cents[counted]
  <2>1. Minutes \in 1 .. Minutes
    BY <1>0
  <2> QED
    BY <1>2, <1>3, <2>1
<1>7. ASSUME counted = 0 \/ counts.fills = 0
      PROVE  ~SharpeDefined(minute_pnl, 1)
  <2>1. ASSUME NEW k \in 1 .. Minutes  PROVE at_end[k] = 0
    <3>1. CASE counted = 0
      <4>1. found(k) = 0
        BY <1>1, <3>1
      <4> QED
        BY <1>3, <4>1
    <3>2. CASE counts.fills = 0
      <4>1. found(k) \in 0 .. Snapshots
        BY <1>1
      <4>2. found(k) # 0 => equity_half_cents[found(k)] = 0
        BY <1>0, <3>2, <4>1 DEF Curve
      <4> QED
        BY <1>3, <4>2
    <3> QED
      BY <1>7, <3>1, <3>2
  <2>2. \A k \in 1 .. Minutes : minute_pnl[k] = 0
    <3>1. \A k \in 1 .. Minutes : k # 1 => k - 1 \in 1 .. Minutes
      BY <1>0
    <3> QED
      BY <1>4, <2>1, <3>1
  <2>3. DOMAIN minute_pnl = 1 .. Minutes
    BY <1>4
  <2> QED
    BY <2>2, <2>3 DEF SharpeDefined
<1>8. /\ counted = Snapshots => at_end[Minutes] = total_pnl
      /\ counted \in 1 .. Snapshots - 1 => at_end[Minutes] = equity_half_cents[counted]
      /\ counted = 0 => at_end[Minutes] = 0
  BY <1>0, <1>2, <1>6 DEF total_pnl
<1> QED
  BY <1>5, <1>7, <1>8 DEF MinutesAddUp, counted

----------------------------------------------------------------------------
(* The drawdown.                                                           *)

Run == [peak : Int, fall : Int]
RunStep(run, e) ==
  LET peak == Higher(run.peak, e) IN [peak |-> peak, fall |-> Higher(run.fall, peak - e)]

\* The fold over the curve, mark by mark.
IsRun(run, curve) ==
  /\ run \in [0 .. Len(curve) -> Run]
  /\ run[0] = [peak |-> 0, fall |-> 0]
  /\ \A k \in 1 .. Len(curve) : run[k] = RunStep(run[k - 1], curve[k])
  /\ MaximumDrawdown(curve) = run[Len(curve)].fall

LEMMA RunExists == ASSUME NEW curve \in Seq(Int)  PROVE \E run : IsRun(run, curve)
<1> DEFINE n    == Len(curve)
           U    == 1 .. n
           base == [peak |-> 0, fall |-> 0]
           st   == [p \in U \X Run |-> RunStep(p[2], curve[p[1]])]
           Rec(i) == i = [S \in SUBSET U |->
                       IF S = {} THEN base ELSE RunStep(i[S \ {Max(S)}], curve[Max(S)])]
           iter == CHOOSE i : Rec(i)
<1>0. n \in Nat /\ DOMAIN curve = U /\ \A k \in U : curve[k] \in Int
  OBVIOUS
<1>1. \A r \in Run : \A e \in Int : RunStep(r, e) \in Run
  BY DEF Run, RunStep, Higher
<1>2. base \in Run
  BY DEF Run
<1>3. st \in [U \X Run -> Run]
  BY <1>0, <1>1
<1>4. PICK g \in [SUBSET U -> Run] : IsLeftFold(g, n, base, st)
  <2> HIDE DEF base, st, n
  <2>1. st \in [(1 .. n) \X Run -> Run]
    BY <1>3
  <2>2. HasLeftFold(n, Run, base, st)
    BY <1>0, <1>2, <2>1, LeftFoldExists, Zenon
  <2> QED
    BY <2>2 DEF HasLeftFold
<1>5. Rec(g)
  <2>1. ASSUME NEW S \in SUBSET U, S # {}
        PROVE  g[S] = RunStep(g[S \ {Max(S)}], curve[Max(S)])
    <3>1. Max(S) \in S
      <4>1. S \subseteq 0 .. n
        BY <1>0
      <4> HIDE DEF n
      <4> QED
        BY <1>0, <2>1, <4>1, MaxShape
    <3>2. Max(S) \in U /\ S \ {Max(S)} \in SUBSET U
      BY <3>1
    <3>3. g[S \ {Max(S)}] \in Run
      BY <3>2
    <3>4. g[S] = st[<<Max(S), g[S \ {Max(S)}]>>]
      <4> HIDE DEF st, base
      <4> QED
        BY <1>4, <2>1 DEF IsLeftFold
    <3> QED
      BY <3>2, <3>3, <3>4
  <2>2. g[{}] = base
    <3> HIDE DEF base, st
    <3> QED
      BY <1>4 DEF IsLeftFold
  <2> HIDE DEF base
  <2> QED
    BY <2>1, <2>2
<1>6. Rec(iter)
  <2> HIDE DEF Rec
  <2> QED
    BY <1>5, Zenon
<1>7. MaximumDrawdown(curve) = iter[U].fall
  BY <1>0, Zenon DEF MaximumDrawdown, FoldLeft, MapThenFoldSet, RunStep
<1>8. iter[{}] = base
  BY <1>6
<1>9. ASSUME NEW k \in 1 .. n  PROVE iter[1 .. k] = RunStep(iter[1 .. k - 1], curve[k])
  <2>1. Max(1 .. k) = k /\ (1 .. k) \ {k} = 1 .. k - 1 /\ 1 .. k \in SUBSET U /\ 1 .. k # {}
    BY <1>0, MaxInterval
  <2>2. iter[1 .. k] = RunStep(iter[(1 .. k) \ {Max(1 .. k)}], curve[Max(1 .. k)])
    <3> HIDE DEF iter, base
    <3> QED
      BY <1>6, <2>1
  <2> QED
    BY <2>1, <2>2
<1> DEFINE run == [k \in 0 .. n |-> iter[1 .. k]]
<1> HIDE DEF iter, base
<1>10. run[0] = base
  <2>1. 1 .. 0 = {}
    OBVIOUS
  <2> QED
    BY <1>0, <1>8, <2>1
<1>11. \A k \in 1 .. n : run[k] = RunStep(run[k - 1], curve[k])
  BY <1>0, <1>9
<1>12. run \in [0 .. n -> Run]
  <2> DEFINE G == {k \in Nat : k <= n => run[k] \in Run}
  <2>1. 0 \in G
    BY <1>2, <1>10
  <2>2. ASSUME NEW k \in Nat, k \in G  PROVE k + 1 \in G
    <3>1. SUFFICES ASSUME k + 1 <= n  PROVE run[k + 1] \in Run
      OBVIOUS
    <3>2. k + 1 \in 1 .. n /\ (k + 1) - 1 = k /\ k <= n
      BY <1>0, <3>1
    <3>3. run[k] \in Run /\ curve[k + 1] \in Int
      BY <1>0, <2>2, <3>2
    <3>4. run[k + 1] = RunStep(run[k], curve[k + 1])
      BY <1>11, <3>2
    <3> HIDE DEF run
    <3> QED
      BY <1>1, <3>3, <3>4
  <2>3. Nat \subseteq G
    <3> HIDE DEF G
    <3> QED
      BY <2>1, <2>2, NatSetInduction
  <2>4. \A k \in 0 .. n : run[k] \in Run
    <3>1. \A k \in 0 .. n : k \in Nat /\ k <= n
      BY <1>0
    <3> HIDE DEF n, run
    <3> QED
      BY <2>3, <3>1
  <2>5. run = [k \in 0 .. n |-> run[k]]
    OBVIOUS
  <2> HIDE DEF run, G
  <2> QED
    BY <2>4, <2>5
<1>13. MaximumDrawdown(curve) = run[n].fall
  BY <1>0, <1>7
<1> HIDE DEF run
<1>14. IsRun(run, curve)
  BY <1>10, <1>11, <1>12, <1>13 DEF IsRun, base
<1> QED
  BY <1>14

\* The level before the first mark is zero.
Level(curve) == [i \in 0 .. Len(curve) |-> IF i = 0 THEN 0 ELSE curve[i]]

\* Of the first k levels: the highest, and the worst fall from one to a later one.
Highest(level, k, p) ==
  /\ \A i \in 0 .. k : level[i] <= p
  /\ \E i \in 0 .. k : level[i] = p
WorstFall(level, k, f) ==
  /\ \A i, j \in 0 .. k : i <= j => level[i] - level[j] <= f
  /\ \E i, j \in 0 .. k : i <= j /\ level[i] - level[j] = f

LEMMA RunStepHolds ==
  ASSUME NEW n \in Nat, NEW level \in [0 .. n -> Int], NEW k \in Nat, k + 1 <= n,
         NEW r \in Run, Highest(level, k, r.peak), WorstFall(level, k, r.fall)
  PROVE  LET s == RunStep(r, level[k + 1])
         IN  Highest(level, k + 1, s.peak) /\ WorstFall(level, k + 1, s.fall)
<1> DEFINE e == level[k + 1]
           p == Higher(r.peak, e)
           f == Higher(r.fall, p - e)
<1>0. /\ r.peak \in Int /\ r.fall \in Int /\ e \in Int /\ p \in Int
      /\ \A i \in 0 .. k + 1 : level[i] \in Int
      /\ 0 .. k \subseteq 0 .. k + 1 /\ k + 1 \in 0 .. k + 1
      /\ \A i \in 0 .. k + 1 : i \in 0 .. k \/ i = k + 1
  BY DEF Run, Higher
<1>1. /\ r.peak <= p /\ e <= p /\ (p = r.peak \/ p = e)
      /\ r.fall <= f /\ p - e <= f /\ (f = r.fall \/ f = p - e)
  BY <1>0 DEF Higher
<1>2. RunStep(r, e).peak = p /\ RunStep(r, e).fall = f
  BY DEF RunStep
<1>3. f \in Int
  BY <1>0 DEF Higher
<1> HIDE DEF e, p, f
<1>4. \A i \in 0 .. k + 1 : level[i] <= p
  <2>1. ASSUME NEW i \in 0 .. k  PROVE level[i] <= p
    <3>1. level[i] <= r.peak /\ level[i] \in Int
      BY <1>0 DEF Highest
    <3> QED
      BY <1>0, <1>1, <3>1
  <2>2. level[k + 1] <= p
    BY <1>1 DEF e
  <2> QED
    BY <1>0, <2>1, <2>2
<1>5. PICK m \in 0 .. k + 1 : level[m] = p
  <2>1. PICK i \in 0 .. k : level[i] = r.peak
    BY DEF Highest
  <2> QED
    BY <1>0, <1>1, <2>1 DEF e
<1>6. Highest(level, k + 1, p)
  BY <1>4, <1>5 DEF Highest
<1>7. ASSUME NEW i \in 0 .. k + 1, NEW j \in 0 .. k + 1, i <= j
      PROVE  level[i] - level[j] <= f
  <2>1. CASE j \in 0 .. k
    <3>1. i \in 0 .. k
      BY <1>7, <2>1
    <3>2. level[i] - level[j] <= r.fall /\ level[i] \in Int /\ level[j] \in Int
      BY <1>0, <1>7, <2>1, <3>1 DEF WorstFall
    <3> QED
      BY <1>0, <1>1, <1>3, <3>2
  <2>2. CASE j = k + 1
    <3>1. level[i] <= p /\ level[i] \in Int /\ level[j] = e
      BY <1>0, <1>4, <2>2 DEF e
    <3> QED
      BY <1>0, <1>1, <1>3, <3>1
  <2> QED
    BY <1>0, <2>1, <2>2
<1>8. \E i, j \in 0 .. k + 1 : i <= j /\ level[i] - level[j] = f
  <2>1. CASE f = r.fall
    <3>1. PICK i, j \in 0 .. k : i <= j /\ level[i] - level[j] = r.fall
      BY DEF WorstFall
    <3> QED
      BY <1>0, <2>1, <3>1
  <2>2. CASE f = p - e
    <3>1. m <= k + 1 /\ level[m] - level[k + 1] = f
      BY <1>5, <2>2 DEF e
    <3> QED
      BY <1>0, <1>5, <3>1
  <2> QED
    BY <1>1, <2>1, <2>2
<1>9. WorstFall(level, k + 1, f)
  BY <1>7, <1>8 DEF WorstFall
<1> QED
  BY <1>2, <1>6, <1>9 DEF e

\* The running peak finds the worst fall of every curve.
LEMMA DrawdownShape ==
  ASSUME NEW curve \in Seq(Int)
  PROVE  /\ MaximumDrawdown(curve) \in Int
         /\ WorstFall(Level(curve), Len(curve), MaximumDrawdown(curve))
<1> DEFINE n == Len(curve)
           level == Level(curve)
<1>0. n \in Nat /\ level \in [0 .. n -> Int] /\ level[0] = 0
      /\ \A k \in 1 .. n : level[k] = curve[k]
  BY DEF Level
<1>1. PICK run : IsRun(run, curve)
  BY RunExists
<1>2. /\ run \in [0 .. n -> Run] /\ run[0] = [peak |-> 0, fall |-> 0]
      /\ \A k \in 1 .. n : run[k] = RunStep(run[k - 1], curve[k])
      /\ MaximumDrawdown(curve) = run[n].fall
  BY <1>1 DEF IsRun
<1> HIDE DEF n, level
<1> DEFINE Good(k) == Highest(level, k, run[k].peak) /\ WorstFall(level, k, run[k].fall)
           G == {k \in Nat : k <= n => Good(k)}
<1>3. 0 \in G
  <2>1. run[0].peak = 0 /\ run[0].fall = 0
    BY <1>2
  <2>2. \A i \in 0 .. 0 : i = 0
    OBVIOUS
  <2>3. 0 \in 0 .. 0 /\ 0 <= 0 /\ 0 - 0 = 0
    OBVIOUS
  <2>4. Highest(level, 0, 0)
    BY <1>0, <2>2, <2>3 DEF Highest
  <2>5. WorstFall(level, 0, 0)
    BY <1>0, <2>2, <2>3 DEF WorstFall
  <2> QED
    BY <2>1, <2>4, <2>5
<1>4. ASSUME NEW k \in Nat, k \in G  PROVE k + 1 \in G
  <2>1. SUFFICES ASSUME k + 1 <= n  PROVE Good(k + 1)
    OBVIOUS
  <2>2. k + 1 \in 1 .. n /\ (k + 1) - 1 = k /\ k \in 0 .. n /\ k <= n
    BY <1>0, <2>1
  <2>3. run[k + 1] = RunStep(run[k], level[k + 1]) /\ run[k] \in Run
    BY <1>0, <1>2, <2>2
  <2>4. Highest(level, k, run[k].peak) /\ WorstFall(level, k, run[k].fall)
    BY <1>4, <2>2
  <2> HIDE DEF Good
  <2>5. LET s == RunStep(run[k], level[k + 1])
        IN  Highest(level, k + 1, s.peak) /\ WorstFall(level, k + 1, s.fall)
    BY <1>0, <2>1, <2>3, <2>4, RunStepHolds
  <2> QED
    BY <2>3, <2>5 DEF Good
<1>5. Nat \subseteq G
  <2> HIDE DEF G
  <2> QED
    BY <1>3, <1>4, NatSetInduction
<1>6. Good(n)
  BY <1>0, <1>5
<1>7. run[n] \in Run
  BY <1>0, <1>2
<1> QED
  BY <1>2, <1>6, <1>7 DEF Run, n, level

LEMMA DrawdownHolds ==
  ASSUME TypeOK, Times, Curve
  PROVE  DrawdownIsWorstFall
<1> SUFFICES ASSUME pc = "done"  PROVE DrawdownIsWorstFall
  BY DEF DrawdownIsWorstFall
<1> DEFINE level == [i \in 0 .. Snapshots |-> IF i = 0 THEN 0 ELSE equity_half_cents[i]]
           rows  == 0 .. Snapshots
           falls == {level[p[1]] - level[p[2]] : p \in {q \in rows \X rows : q[1] <= q[2]}}
           worst == MaximumDrawdown(equity_half_cents)
<1>1. /\ equity_half_cents \in Seq(Int) /\ Len(equity_half_cents) = Snapshots
      /\ Snapshots \in Nat \ {0} /\ equity_half_cents[Snapshots] = equity
      /\ equity \in Int
  BY DayAssumption DEF Curve, Times, TypeOK
<1>2. level = Level(equity_half_cents)
  BY <1>1 DEF Level
<1>3. worst \in Int /\ WorstFall(level, Snapshots, worst)
  BY <1>1, <1>2, DrawdownShape
<1>4. level[0] = 0 /\ level[Snapshots] = equity
  BY <1>1
<1> HIDE DEF level, worst
<1>5. worst \in falls
  <2>1. PICK i, j \in rows : i <= j /\ level[i] - level[j] = worst
    BY <1>3 DEF WorstFall
  <2>2. <<i, j>> \in {q \in rows \X rows : q[1] <= q[2]}
    BY <2>1
  <2> QED
    BY <2>1, <2>2
<1>6. \A fall \in falls : fall <= worst
  BY <1>3 DEF WorstFall
<1>7. worst >= -total_pnl
  <2>1. 0 \in 0 .. Snapshots /\ Snapshots \in 0 .. Snapshots /\ 0 <= Snapshots
    BY <1>1
  <2>2. level[0] - level[Snapshots] <= worst
    BY <1>3, <2>1 DEF WorstFall
  <2> QED
    BY <1>1, <1>3, <1>4, <2>2 DEF total_pnl
<1> QED
  BY <1>5, <1>6, <1>7 DEF DrawdownIsWorstFall, level, worst

\* The minutes that are ranked add up to the day's profit, and the drawdown is
\* the worst fall of the curve, for every day, every curve and every session.
THEOREM MetricsAreTrue == DaySpec => []MetricsAgree
<1>1. IInv => TypeOK /\ Queue
  BY DEF IInv
<1>2. Bursts => Times
  BY DEF Bursts
<1>3. DayInit => BooksFollowFills /\ Curve
  BY BooksInit, CurveInit DEF DayInit
<1>4. TypeOK /\ Queue /\ BooksFollowFills /\ [DayNext]_day_vars => BooksFollowFills'
  BY BooksNext, DayStep
<1>5. TypeOK /\ Times /\ BooksFollowFills /\ Curve /\ [DayNext]_day_vars => Curve'
  BY CurveNext
<1>6. TypeOK /\ Times /\ Curve => MetricsAgree
  BY MinutesHold, DrawdownHolds DEF MetricsAgree
<1> QED
  BY <1>1, <1>2, <1>3, <1>4, <1>5, <1>6, DayInvariance, BurstsInvariant, PTL DEF DaySpec
============================================================================
