-------------------------- MODULE ExchangeSession --------------------------
(***************************************************************************)
(* A session of the exchange simulator against the mock FPGA               *)
(* (ExchangeSimulator.py, mockFPGA.py, checker.py).  The main thread turns *)
(* a LOBSTER slice into files, starts the receiver thread, replays the     *)
(* frames over UDP and at once has the order log checked; the receiver     *)
(* writes what comes back, for as long as the process lives.  The mock is  *)
(* a process of its own, and what it has not answered when a session ends  *)
(* is answered into the next one.                                          *)
(*                                                                         *)
(* UDP between the three loses datagrams and lets them overtake each other *)
(* (src/README.md:403); it is not assumed to duplicate them.               *)
(***************************************************************************)
EXTENDS WireFormat, Snapshots

CONSTANTS
  Days,            (* LOBSTER slices: message rows and order-book rows     *)
  Checker,         (* "missing", as in the repository, or "present": what  *)
                   (* the module checker1 that main imports may be         *)
  MaxSessions,     (* BOUND: how often the simulator is run                *)
  MaxDisturbances, (* BOUND: datagrams lost or overtaken                   *)
  None

\* Raw integers, as the parser of the CSV files reads them.
MessageRow == [time : Int, type : Int, id : Int, qty : Int, price : Int, side : Int]
BookRow    == [bid : Int, ask : Int]

ASSUME DayAssumption ==
  Days \subseteq [messages : Seq(MessageRow), book : Seq(BookRow)]
ASSUME CheckerAssumption == Checker \subseteq {"missing", "present"}
ASSUME BoundAssumption   == MaxSessions \in Nat /\ MaxDisturbances \in Nat
ASSUME NoneAssumption    == None \notin {"consistent", "mismatch"}

VARIABLES
  main,            (* the step the main thread is at, or "ended"           *)
  day,             (* the slice in data/                                   *)
  frame_file, timing_file, book_file,
  sent,            (* frames sent by this session                          *)
  feed,            (* datagrams on their way to the mock                   *)
  egress,          (* datagrams on their way back                          *)
  receiver,        (* "off", "started", "bound", "receiving" or "dead"     *)
  inbox,           (* the receiver's socket                                *)
  order_log,       (* the file, or None                                    *)
  checked,         (* frames the checker has compared                      *)
  verdict,         (* what became of the check, or None                    *)
  session,         (* history: sessions begun                              *)
  disturbances,    (* history: datagrams lost or overtaken                 *)
  traffic,         (* history: "foreign" when the session began with       *)
                   (* datagrams of an earlier one in transit, else "calm"  *)
                   (* until one is lost or overtaken, then "disturbed"     *)
  fresh            (* history: the log the checker reads is this session's *)

files   == <<day, frame_file, timing_file, book_file>>
network == <<feed, egress, disturbances>>
receiving == <<receiver, inbox, order_log>>
checking  == <<checked, verdict>>
vars == <<main, files, sent, network, receiving, checking, session, traffic, fresh>>

Init == /\ main = "ended" /\ session = 0
        /\ day \in Days
        /\ frame_file = <<>> /\ timing_file = <<>> /\ book_file = <<>>
        /\ sent = 0
        /\ feed = <<>> /\ egress = <<>> /\ disturbances = 0
        /\ receiver = "off" /\ inbox = <<>> /\ order_log = None
        /\ checked = 0 /\ verdict = None
        /\ traffic = "calm" /\ fresh = FALSE

----------------------------------------------------------------------------
(* Offline preparation.                                                    *)

\* Variant: the price is cut off instead of rounded.
ToCentsDown(raw) == raw \div 100
\* to_cents: hundredths of a cent to cents, half to even.
ToCents(raw) == LET cents == raw \div 100
                    rest  == raw % 100
                IN  IF rest > 50 \/ (rest = 50 /\ cents % 2 = 1) THEN cents + 1 ELSE cents

\* A negative quantity raises, and so does struct.pack at anything else that is
\* negative or does not fit 32 bits.
Fits(n)         == n >= 0 /\ n \div 65536 < 65536
LegalMessage(m) == Fits(m.qty) /\ Fits(ToCents(m.price)) /\ Fits(m.id)

FrameOf(m, seq) ==
  Pack6([msg_type |-> m.type % 256, price |-> ToCents(m.price), qty |-> m.qty,
         side |-> IF m.side = -1 THEN 2 ELSE 1, id |-> m.id, seq |-> seq])

\* The rows before the first illegal one.
LegalRows(d) ==
  Cardinality({i \in DOMAIN d.messages : \A j \in 1 .. i : LegalMessage(d.messages[j])})

\* A run of the simulator begins, on the same slice or another one.
StartSession(d) ==
  /\ main = "ended" /\ session < MaxSessions
  /\ main' = "preprocess" /\ day' = d /\ session' = session + 1
  /\ sent' = 0 /\ receiver' = "off" /\ inbox' = <<>>
  /\ checked' = 0 /\ verdict' = None
  /\ traffic' = IF feed = <<>> /\ egress = <<>> THEN "calm" ELSE "foreign"
  /\ fresh' = FALSE
  /\ UNCHANGED <<frame_file, timing_file, book_file, network, order_log>>

\* preprocess_lobster_to_bin; an exception leaves the rows written so far, and
\* the book file of the slice before.
Preprocess ==
  /\ main = "preprocess"
  /\ IF Len(day.book) # Len(day.messages)
     THEN main' = "ended" /\ UNCHANGED files
     ELSE LET rows == LegalRows(day)
              all  == rows = Len(day.messages)
          IN /\ frame_file'  = [i \in 1 .. rows |-> FrameOf(day.messages[i], i)]
             /\ timing_file' = [i \in 1 .. rows |-> [seq |-> i, time |-> day.messages[i].time]]
             /\ book_file'   = IF ~all THEN book_file
                               ELSE [i \in 1 .. rows |->
                                       [seq |-> i, bid |-> ToCents(day.book[i].bid),
                                        ask |-> ToCents(day.book[i].ask)]]
             /\ main' = IF all THEN "launch" ELSE "ended"
             /\ UNCHANGED day
  /\ UNCHANGED <<sent, network, receiving, checking, session, traffic, fresh>>

----------------------------------------------------------------------------
(* The receiver thread: a daemon, which ends with the process.             *)

LaunchReceiver == /\ main = "launch"
                  /\ main' = "replay" /\ receiver' = "started"
                  /\ UNCHANGED <<files, sent, network, inbox, order_log, checking,
                                 session, traffic, fresh>>

\* The port is free, or the thread dies and the main thread does not notice.
BindPort == /\ main # "ended" /\ receiver = "started"
            /\ receiver' \in {"bound", "dead"}
            /\ UNCHANGED <<main, files, sent, network, inbox, order_log, checking,
                           session, traffic, fresh>>

\* Variant: the log is opened to be appended to.
OpenLogAppends == /\ main # "ended" /\ receiver = "bound"
                  /\ receiver' = "receiving"
                  /\ order_log' = IF order_log = None THEN <<>> ELSE order_log
                  /\ UNCHANGED <<main, files, sent, network, inbox, checking, session,
                                 traffic, fresh>>
OpenLog == /\ main # "ended" /\ receiver = "bound"
           /\ receiver' = "receiving" /\ order_log' = <<>>
           /\ UNCHANGED <<main, files, sent, network, inbox, checking, session,
                          traffic, fresh>>

LogOrder == /\ main # "ended" /\ receiver = "receiving" /\ inbox # <<>>
            /\ order_log' = Append(order_log, Head(inbox))
            /\ inbox' = Tail(inbox)
            /\ UNCHANGED <<main, files, sent, network, receiver, checking, session,
                           traffic, fresh>>

----------------------------------------------------------------------------
(* The replay, the mock and the network.                                   *)

SendFrame == /\ main = "replay" /\ sent < Len(frame_file)
             /\ feed' = Append(feed, frame_file[sent + 1])
             /\ sent' = sent + 1
             /\ UNCHANGED <<main, files, egress, disturbances, receiving, checking,
                            session, traffic, fresh>>

\* The file is at its end, or Ctrl-C is caught.
EndReplay == /\ main = "replay"
             /\ main' = "check"
             /\ UNCHANGED <<files, sent, network, receiving, checking, session,
                            traffic, fresh>>

Disturb == /\ disturbances < MaxDisturbances
           /\ disturbances' = disturbances + 1
           /\ traffic' = IF traffic = "calm" THEN "disturbed" ELSE traffic
InOrder == UNCHANGED <<disturbances, traffic>>

\* Datagram i of the channel arrives; a later one overtakes.
Arrives(i) == IF i = 1 THEN InOrder ELSE Disturb

\* The loop of run_mock_fpga.
AnswerFrame(i) == /\ i \in DOMAIN feed /\ Arrives(i)
                  /\ feed' = RemoveAt(feed, i)
                  /\ egress' = Append(egress, MockReply(feed[i]))
                  /\ UNCHANGED <<main, files, sent, receiving, checking, session, fresh>>

DeliverOrder(i) == /\ i \in DOMAIN egress /\ Arrives(i)
                   /\ main # "ended" /\ receiver \in {"bound", "receiving"}
                   /\ inbox' = Append(inbox, egress[i])
                   /\ egress' = RemoveAt(egress, i)
                   /\ UNCHANGED <<main, files, sent, feed, receiver, order_log,
                                  checking, session, fresh>>

\* Lost on the way, or no socket is bound.
LoseFrame(i) == /\ i \in DOMAIN feed /\ Disturb
                /\ feed' = RemoveAt(feed, i)
                /\ UNCHANGED <<main, files, sent, egress, receiving, checking,
                               session, fresh>>
LoseOrder(i) == /\ i \in DOMAIN egress /\ Disturb
                /\ egress' = RemoveAt(egress, i)
                /\ UNCHANGED <<main, files, sent, feed, receiving, checking,
                               session, fresh>>

----------------------------------------------------------------------------
(* The check: verify_session_stream, with the receiver still running.      *)

Ends(v) == /\ main' = "ended" /\ verdict' = v

\* check_order_log.  The module it imports is not in the repository; if it is
\* there it is checker.py, which first opens the log.
ImportChecker(checker) ==
  /\ main = "check"
  /\ \/ checker = "missing" /\ Ends("import error")
     \/ checker = "present" /\ order_log = None /\ Ends("no log")
     \/ checker = "present" /\ order_log # None /\ main' = "compare" /\ UNCHANGED verdict
  /\ fresh' = (receiver = "receiving")
  /\ UNCHANGED <<files, sent, network, receiving, checked, session, traffic>>

\* Variant: quantity and price are not compared.
MatchesById(frame, packet) == Unpack6(frame).id = Unpack7(packet).order_id
\* The side and the symbol are not compared.
Matches(frame, packet) ==
  LET f == Unpack6(frame)
      l == Unpack7(packet)
  IN  f.id = l.order_id /\ f.qty = l.qty /\ f.price = l.price

\* Variant: the shorter of the two files ends the comparison.
AtEndOfEither == checked = Len(frame_file) \/ checked = Len(order_log)
AtEnd         == checked = Len(frame_file)

\* Variant: the checker waits for the rest of the log.
ReadPastEndWaits == FALSE
\* unpack raises when the log has no more to read.
ReadPastEnd      == ~AtEnd /\ checked >= Len(order_log)

\* One round: a frame and a packet are read, and the end of the frames is
\* looked at first.
CompareNext ==
  /\ main = "compare"
  /\ \/ AtEnd /\ Ends("consistent") /\ UNCHANGED checked
     \/ ReadPastEnd /\ Ends("read error") /\ UNCHANGED checked
     \/ /\ ~AtEnd /\ checked < Len(order_log)
        /\ IF Matches(frame_file[checked + 1], order_log[checked + 1])
           THEN checked' = checked + 1 /\ UNCHANGED <<main, verdict>>
           ELSE Ends("mismatch") /\ UNCHANGED checked
  /\ UNCHANGED <<files, sent, network, receiving, session, traffic, fresh>>

\* The process is killed.
KillSession == /\ main # "ended"
               /\ Ends("killed")
               /\ UNCHANGED <<files, sent, network, receiving, checked, session,
                              traffic, fresh>>

MainNext == \/ Preprocess \/ LaunchReceiver \/ SendFrame \/ EndReplay
            \/ \E checker \in Checker : ImportChecker(checker)
            \/ CompareNext

Next == \/ \E d \in Days : StartSession(d)
        \/ MainNext
        \/ BindPort \/ OpenLog \/ LogOrder
        \/ \E i \in DOMAIN feed : AnswerFrame(i) \/ LoseFrame(i)
        \/ \E i \in DOMAIN egress : DeliverOrder(i) \/ LoseOrder(i)
        \/ KillSession

Spec == Init /\ [][Next]_vars
FairSpec == Spec /\ WF_vars(MainNext)

----------------------------------------------------------------------------
(* Type correctness; the counters stay within the files they count in.    *)
TypeOK == /\ main \in {"preprocess", "launch", "replay", "check", "compare", "ended"}
          /\ receiver \in {"off", "started", "bound", "receiving", "dead"}
          /\ traffic \in {"calm", "disturbed", "foreign"} /\ fresh \in BOOLEAN
          /\ sent \in Nat /\ checked \in Nat /\ session \in 0 .. MaxSessions
          /\ disturbances \in 0 .. MaxDisturbances

\* When the checker calls the data stream consistent, every frame of the slice
\* was sent and answered and nothing is missing: the log read while it was
\* written was read to its end.  Not so when the log or the datagrams are those
\* of an earlier session.
ConsistentMeansComplete ==
  verdict = "consistent" /\ fresh /\ traffic # "foreign" =>
    /\ sent = Len(frame_file)
    /\ feed = <<>> /\ egress = <<>> /\ inbox = <<>>
    /\ Len(order_log) = Len(frame_file)

\* A receiver that is late makes the check fail with a read error, but never
\* with a mismatch: that takes a datagram lost, overtaken, or from another
\* session.
MismatchMeansDisturbed ==
  verdict = "mismatch" /\ fresh => traffic # "calm"

\* Whatever the network and the receiver do, a session comes to its end.
SessionEnds == main # "ended" ~> main = "ended"

\* What the backtest loads of a completed slice are the quotes after each of its
\* messages, to half a cent, at the times of the messages; rounding makes no
\* quote the loader would refuse.
SaneDay(d) == /\ d.messages # <<>>
              /\ \A i \in DOMAIN d.book : d.book[i].bid > 50 /\ d.book[i].ask >= d.book[i].bid
              /\ \A i \in 2 .. Len(d.messages) : d.messages[i - 1].time <= d.messages[i].time
HalfACent(cents, raw) == 100 * cents - raw \in -50 .. 50
BacktestReadsTheDay ==
  main \in {"launch", "replay", "check", "compare"} /\ SaneDay(day) =>
    /\ Loadable(book_file, timing_file)
    /\ LET rows == Join(book_file, timing_file) IN
         /\ Len(rows) = Len(day.messages)
         /\ \A i \in DOMAIN rows :
              /\ rows[i].time = day.messages[i].time
              /\ HalfACent(rows[i].bid, day.book[i].bid)
              /\ HalfACent(rows[i].ask, day.book[i].ask)

\* An order has the same bytes on all four roads, its header's checksum adds up,
\* and the checker reads from them the order that was sent.
SameOnEveryRoad(o) ==
  LET side == CHOOSE side \in {"BUY", "SELL"} : Table7Side[side] = o.side
      c_packet == EncodeOrder([side |-> side, qty |-> o.qty, price |-> o.price], o.order_id)
  IN  /\ c_packet = Pack7(o)
      /\ PlFrame(o) = GoldenFrame(o)
      /\ Len(PlFrame(o)) = 58 /\ SubSeq(PlFrame(o), 43, 58) = c_packet
      /\ OnesSum(SubSeq(PlFrame(o), 15, 34)) = 65535
      /\ Unpack7(c_packet) = o
FormatsAgree ==
  \A i \in DOMAIN frame_file :
    LET m == Unpack6(frame_file[i])
        o == Unpack7(MockReply(frame_file[i]))
    IN  /\ Pack6(m) = frame_file[i]
        /\ o.order_id = m.id /\ o.qty = m.qty /\ o.price = m.price
        /\ SameOnEveryRoad(o)
============================================================================
