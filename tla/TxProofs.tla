------------------------------ MODULE TxProofs ------------------------------
(***************************************************************************)
(* Proofs about the order path, for every set of order registers and       *)
(* words, every frame layout and every behaviour of the bus and the sink;  *)
(* and, in the second half, about the PS that keeps to the egress          *)
(* sequence, for any delay on any channel.                                 *)
(***************************************************************************)
EXTENDS TxDriver, TLAPS

USE DEF Controls, Addrs, Orders

LEMMA FrameBytesPositive == FRAME_BYTES \in Nat \ {0}
  BY LayoutAssumption DEF FRAME_BYTES

\* Every byte of a frame is a beat: a header constant, padding or a register.
LEMMA ByteType ==
  ASSUME NEW order \in Orders, NEW n \in 0 .. FRAME_BYTES - 1
  PROVE  ByteOf(order, n) \in [source : Fields \cup {"HEADER", "PAD"},
                               value : Data]
<1>1. n + 1 \in 1 .. Len(Layout)
  BY FrameBytesPositive DEF FRAME_BYTES
<1>2. Layout[n + 1] \in Fields \cup {"HEADER", "PAD"}
  BY <1>1, SourcesAssumption
<1>3. DOMAIN order = Fields
  OBVIOUS
<1>4. 0 \in Data
  BY DataAssumption
<1>5. QED
  BY <1>2, <1>3, <1>4 DEF ByteOf

----------------------------------------------------------------------------
(* What holds between two edges besides the types: a command and a frame   *)
(* exclude each other, and the sink has seen as many bytes of the frame as *)
(* the counter says.                                                       *)
Handover == /\ cmd_valid => state = "ST_IDLE" /\ frame = <<>>
            /\ state = "ST_SEND" => Len(frame) = byte_cnt

Inv == TypeOK /\ AnsweredWhenPaired /\ Handover

\* The bus side of an edge keeps the types and the pairing.
LEMMA BusStep ==
  ASSUME TypeOK, AnsweredWhenPaired, Edge
  PROVE  /\ RegBankTypeOK'
         /\ aw_got' \in Addrs \cup {None}
         /\ w_got' \in Data \cup {None}
         /\ AnsweredWhenPaired'
<1>0. PICK aw \in Line(AwReady, Addrs), w \in Line(WReady, Data),
           ar \in Line(ArReady, Addrs), bready \in Accepts(bvalid),
           rready \in Accepts(rvalid), tready \in Accepts(Tvalid) :
             ClockEdge(aw, w, bready, ar, rready, tready)
  BY Zenon DEF Edge
<1>a. /\ aw \in Addrs \cup {None}
      /\ w \in Data \cup {None}
      /\ ar \in Addrs \cup {None}
      /\ bready \in BOOLEAN
      /\ rready \in BOOLEAN
  BY DEF Line, Accepts
<1> USE NoneAssumption, <1>a
<1>1. /\ WritePath(aw, w, bready)
      /\ ReadPath(ar, rready, tx_ready)
      /\ aw_got' = Held(aw_got, AwReady, aw, bready)
      /\ w_got' = Held(w_got, WReady, w, bready)
  BY <1>0 DEF ClockEdge, RegBankEdge
<1>2. /\ RegBankTypeOK
      /\ aw_got \in Addrs \cup {None}
      /\ w_got \in Data \cup {None}
  BY DEF TypeOK
<1>3. /\ aw_got' \in Addrs \cup {None}
      /\ w_got' \in Data \cup {None}
  BY <1>1, <1>2 DEF Held
<1>4. /\ wr_state' \in {"W_IDLE", "W_WAIT_DATA", "W_WAIT_ADDR", "W_RESP"}
      /\ wr_addr_q' \in Addrs
      /\ wr_data_q' \in Data
      /\ bvalid' \in BOOLEAN
  BY <1>1, <1>2 DEF WritePath, HoldAddress, HoldData, Commit, Respond,
                    WriteStall, wrVars, RegBankTypeOK
<1>5. ord' \in Orders
  <2>1. CommitAddr(aw) \in Fields /\ WrCommit(aw, w) => CommitData(w) \in Data
    BY <1>2 DEF CommitData, WrCommit, RegBankTypeOK
  <2>2. QED
    BY <1>1, <1>2, <2>1 DEF WritePath, NextOrd, RegBankTypeOK
<1>6. doorbell_pulse' \in BOOLEAN
  BY <1>1 DEF WritePath, NextPulse, RingsDoorbell, WrCommit
<1>7. /\ rd_state' \in {"R_IDLE", "R_RESP"}
      /\ rdata' \in Data
      /\ rvalid' \in BOOLEAN
  <2>1. 0 \in Data /\ 1 \in Data
    BY DataAssumption
  <2>2. RdData(ar, tx_ready) \in Data
    BY <1>2, <2>1 DEF RdData, RegBankTypeOK
  <2>3. CASE AcceptRead(ar, tx_ready)
    BY <2>2, <2>3, Zenon DEF AcceptRead
  <2>4. CASE FinishRead(rready)
    BY <1>2, <2>4 DEF FinishRead, RegBankTypeOK
  <2>5. CASE ReadStall(ar, rready)
    BY <1>2, <2>5 DEF ReadStall, rdVars, RegBankTypeOK
  <2>6. QED
    BY <1>1, <2>3, <2>4, <2>5, Zenon DEF ReadPath
<1>8. AnsweredWhenPaired'
  <2> USE <1>1, <1>2 DEF RegBankTypeOK, AnsweredWhenPaired
  <2>1. CASE HoldAddress(aw, w)
    BY <2>1 DEF HoldAddress, Held, AwReady, WReady
  <2>2. CASE HoldData(aw, w)
    BY <2>2 DEF HoldData, Held, AwReady, WReady
  <2>3. CASE Commit(aw, w)
    BY <2>3 DEF Commit, WrCommit, Held, AwReady, WReady
  <2>4. CASE Respond(bready)
    BY <2>4 DEF Respond, Held, AwReady, WReady
  <2>5. CASE WriteStall(aw, w, bready)
    BY <2>5 DEF WriteStall, wrVars, Held, AwReady, WReady
  <2>6. QED
    BY <2>1, <2>2, <2>3, <2>4, <2>5 DEF WritePath
<1>9. QED
  BY <1>3, <1>4, <1>5, <1>6, <1>7, <1>8 DEF RegBankTypeOK

\* The order side of an edge keeps the types and the handover.
LEMMA OrderStep ==
  ASSUME TypeOK, Handover, Edge
  PROVE  /\ BuilderTypeOK'
         /\ cmd_valid' \in BOOLEAN /\ cmd' \in Orders
         /\ frame' \in Seq(Beats) /\ Len(frame') <= FRAME_BYTES
         /\ Handover'
<1>0. PICK aw \in Line(AwReady, Addrs), w \in Line(WReady, Data),
           ar \in Line(ArReady, Addrs), bready \in Accepts(bvalid),
           rready \in Accepts(rvalid), tready \in Accepts(Tvalid) :
             ClockEdge(aw, w, bready, ar, rready, tready)
  BY Zenon DEF Edge
<1>a. tready \in BOOLEAN
  BY DEF Accepts
<1> USE FrameBytesPositive, <1>a
<1>1. /\ cmd_valid' = accept_order
      /\ cmd' = IF accept_order THEN ord ELSE cmd
      /\ BuilderEdge(cmd_valid, tready)
      /\ frame' = IF accept_order THEN <<>>
                  ELSE IF Tvalid /\ tready THEN Append(frame, Beat) ELSE frame
  BY <1>0 DEF ClockEdge, LatcherEdge, accept_order
<1>2. /\ state \in {"ST_IDLE", "ST_SEND"}
      /\ byte_cnt \in 0 .. FRAME_BYTES - 1
      /\ cmd_valid \in BOOLEAN /\ cmd \in Orders /\ ord \in Orders
      /\ frame \in Seq(Beats) /\ Len(frame) <= FRAME_BYTES
      /\ doorbell_pulse \in BOOLEAN
  BY DEF TypeOK, BuilderTypeOK, RegBankTypeOK
<1>3. accept_order => state = "ST_IDLE" /\ ~cmd_valid
  BY <1>2 DEF accept_order, AcceptOrder, frame_builder_busy, Busy
<1>4. Beat \in Beats
  BY <1>2, ByteType DEF Beat, Beats, Tlast
<1>5. CASE accept_order
  <2>1. state' = state /\ byte_cnt' = byte_cnt
    BY <1>1, <1>2, <1>3, <1>5 DEF BuilderEdge, StartFrame, NextByte, EndFrame,
                                  Tlast, BuilderWait, builderVars
  <2>2. cmd_valid' = TRUE /\ cmd' = ord /\ frame' = <<>>
    BY <1>1, <1>5
  <2>3. QED
    BY <1>2, <1>3, <1>5, <2>1, <2>2 DEF Handover, BuilderTypeOK
<1>6. CASE ~accept_order /\ state = "ST_IDLE"
  <2>1. cmd_valid' = FALSE /\ cmd' = cmd /\ frame' = frame
    BY <1>1, <1>3, <1>6 DEF Tvalid
  <2>2. \/ cmd_valid /\ state' = "ST_SEND" /\ byte_cnt' = 0
        \/ state' = state /\ byte_cnt' = byte_cnt
    BY <1>1, <1>6 DEF BuilderEdge, StartFrame, NextByte, EndFrame, Tlast,
                      BuilderWait, builderVars
  <2>3. Len(<<>>) = 0
    OBVIOUS
  <2>4. CASE cmd_valid /\ state' = "ST_SEND" /\ byte_cnt' = 0
    <3>1. frame' = <<>> /\ Len(frame') = byte_cnt'
      BY <2>1, <2>3, <2>4 DEF Handover
    <3>2. Handover'
      BY <2>1, <2>4, <3>1 DEF Handover
    <3>3. BuilderTypeOK'
      BY <2>4 DEF BuilderTypeOK
    <3>4. QED
      BY <1>2, <2>1, <3>2, <3>3
  <2>5. CASE state' = state /\ byte_cnt' = byte_cnt
    BY <1>2, <1>6, <2>1, <2>5 DEF Handover, BuilderTypeOK
  <2>6. QED
    BY <2>2, <2>4, <2>5
<1>7. CASE ~accept_order /\ state = "ST_SEND" /\ tready
  <2>1. cmd_valid' = FALSE /\ cmd' = cmd /\ frame' = Append(frame, Beat)
    BY <1>1, <1>3, <1>7 DEF Tvalid
  <2>2. Len(frame) = byte_cnt
    BY <1>7 DEF Handover
  <2>3. frame' \in Seq(Beats) /\ Len(frame') = byte_cnt + 1
    BY <1>2, <1>4, <2>1, <2>2
  <2>4. \/ byte_cnt # FRAME_BYTES - 1 /\ state' = state /\ byte_cnt' = byte_cnt + 1
        \/ state' = "ST_IDLE" /\ byte_cnt' = 0
    BY <1>1, <1>7 DEF BuilderEdge, StartFrame, NextByte, EndFrame, Tlast,
                      AfterLastByte, BuilderWait, builderVars
  <2>5. /\ Len(frame') <= FRAME_BYTES
        /\ byte_cnt' \in 0 .. FRAME_BYTES - 1
        /\ state' \in {"ST_IDLE", "ST_SEND"}
    BY <1>2, <1>7, <2>3, <2>4
  <2>6. state' = "ST_SEND" => Len(frame') = byte_cnt'
    BY <2>3, <2>4
  <2>7. QED
    BY <1>2, <2>1, <2>3, <2>5, <2>6 DEF Handover, BuilderTypeOK
<1>8. CASE ~accept_order /\ state = "ST_SEND" /\ ~tready
  <2>1. cmd_valid' = FALSE /\ cmd' = cmd /\ frame' = frame
    BY <1>1, <1>3, <1>8
  <2>2. state' = state /\ byte_cnt' = byte_cnt
    BY <1>1, <1>8 DEF BuilderEdge, StartFrame, NextByte, EndFrame, Tlast,
                      BuilderWait, builderVars
  <2>3. QED
    BY <1>2, <1>8, <2>1, <2>2 DEF Handover, BuilderTypeOK
<1>9. QED
  BY <1>2, <1>3, <1>5, <1>6, <1>7, <1>8

LEMMA ResetStep ==
  ASSUME Reset
  PROVE  Inv'
<1>1. /\ wr_state' = "W_IDLE" /\ wr_addr_q' = "OTHER" /\ wr_data_q' = 0
      /\ bvalid' = FALSE /\ ord' = NoOrder /\ doorbell_pulse' = FALSE
      /\ rd_state' = "R_IDLE" /\ rdata' = 0 /\ rvalid' = FALSE
      /\ cmd_valid' = FALSE /\ cmd' = NoOrder
      /\ state' = "ST_IDLE" /\ byte_cnt' = 0
      /\ aw_got' = None /\ w_got' = None /\ frame' = <<>>
  BY DEF Reset, ClearRegBank, ClearLatcher, ClearBuilder
<1>2. 0 \in Data /\ NoOrder \in Orders
  BY DataAssumption DEF NoOrder
<1>3. 0 \in 0 .. FRAME_BYTES - 1 /\ FRAME_BYTES \in Nat
  BY FrameBytesPositive
<1>4. frame' \in Seq(Beats) /\ Len(frame') <= FRAME_BYTES
  BY <1>1, <1>3
<1>5. TypeOK'
  <2>1. RegBankTypeOK'
    BY <1>1, <1>2 DEF RegBankTypeOK
  <2>2. BuilderTypeOK'
    BY <1>1, <1>3 DEF BuilderTypeOK
  <2>3. QED
    BY <1>1, <1>2, <1>4, <2>1, <2>2 DEF TypeOK, FRAME_BYTES
<1>6. AnsweredWhenPaired' /\ Handover'
  BY <1>1 DEF AnsweredWhenPaired, Handover
<1>7. QED
  BY <1>5, <1>6 DEF Inv

LEMMA InvInit == Init => Inv
<1> SUFFICES ASSUME Init PROVE Inv
  OBVIOUS
<1>1. 0 \in Data /\ NoOrder \in Orders
  BY DataAssumption DEF NoOrder
<1>2. 0 \in 0 .. FRAME_BYTES - 1 /\ FRAME_BYTES \in Nat
  BY FrameBytesPositive
<1>3. frame \in Seq(Beats) /\ Len(frame) <= FRAME_BYTES
  BY <1>2 DEF Init
<1>4. TypeOK
  BY <1>1, <1>2, <1>3
  DEF Init, RegBankReset, LatcherReset, BuilderReset, TypeOK, RegBankTypeOK,
      BuilderTypeOK
<1>5. AnsweredWhenPaired /\ Handover
  BY DEF Init, RegBankReset, LatcherReset, BuilderReset, AnsweredWhenPaired,
         Handover
<1>6. QED
  BY <1>4, <1>5 DEF Inv

LEMMA InvStep == Inv /\ [Next]_vars => Inv'
<1> SUFFICES ASSUME Inv, [Next]_vars PROVE Inv'
  OBVIOUS
<1>1. CASE Edge
  <2>1. TypeOK /\ AnsweredWhenPaired /\ Handover
    BY DEF Inv
  <2>2. /\ RegBankTypeOK' /\ AnsweredWhenPaired'
        /\ aw_got' \in Addrs \cup {None} /\ w_got' \in Data \cup {None}
    BY <1>1, <2>1, BusStep
  <2>3. /\ BuilderTypeOK' /\ cmd_valid' \in BOOLEAN /\ cmd' \in Orders
        /\ frame' \in Seq(Beats) /\ Len(frame') <= FRAME_BYTES
        /\ Handover'
    BY <1>1, <2>1, OrderStep
  <2>4. QED
    BY <2>2, <2>3, Zenon DEF Inv, TypeOK
<1>2. CASE Reset
  BY <1>2, ResetStep
<1>3. CASE UNCHANGED vars
  BY <1>3 DEF vars, regBankVars, wrVars, rdVars, latcherVars, builderVars, history,
              Inv, TypeOK, RegBankTypeOK, BuilderTypeOK, AnsweredWhenPaired, Handover
<1>4. QED
  BY <1>1, <1>2, <1>3 DEF Next

THEOREM Invariance == Spec => []Inv
  BY InvInit, InvStep, PTL DEF Spec

\* Every register and every history variable of the order path keeps its type.
THEOREM TxTypeCorrect == Spec => []TypeOK
  BY Invariance, PTL DEF Inv

\* A write is answered exactly when its address and its word have both been
\* accepted, in either order.
THEOREM PairedAnswers == Spec => []AnsweredWhenPaired
  BY Invariance, PTL DEF Inv

\* TX_READY is down from the cycle of a command to the last byte of its frame,
\* and no command arrives during a frame.
THEOREM ReadyIsHonest == Spec => []ReadyOnlyWhenFree
<1>1. Inv => ReadyOnlyWhenFree
  BY DEF Inv, TypeOK, BuilderTypeOK, Handover, ReadyOnlyWhenFree, tx_ready,
         frame_builder_busy, Busy, Tvalid
<1>2. QED
  BY <1>1, Invariance, PTL

----------------------------------------------------------------------------
(* The effect of a write.                                                  *)

\* The edge that commits a write is the edge that completes its pair, and
\* what it commits is the pair.
LEMMA CommitCompletesPair ==
  ASSUME Inv,
         NEW aw \in Addrs \cup {None}, NEW w \in Data \cup {None}, NEW bready,
         WritePath(aw, w, bready),
         aw_got' = Held(aw_got, AwReady, aw, bready),
         w_got' = Held(w_got, WReady, w, bready)
  PROVE  /\ (Paired(aw_got', w_got') /\ ~Paired(aw_got, w_got)) <=> WrCommit(aw, w)
         /\ WrCommit(aw, w) => /\ aw_got' = CommitAddr(aw)
                               /\ w_got' = CommitData(w)
<1> USE NoneAssumption DEF Inv, TypeOK, RegBankTypeOK, AnsweredWhenPaired, Held,
        AwReady, WReady, WrCommit, Paired, CommitAddr, CommitData
<1>1. CASE wr_state = "W_IDLE"
  BY <1>1
<1>2. CASE wr_state = "W_WAIT_DATA"
  BY <1>2
<1>3. CASE wr_state = "W_WAIT_ADDR"
  BY <1>3
<1>4. CASE wr_state = "W_RESP"
  BY <1>4
<1>5. QED
  BY <1>1, <1>2, <1>3, <1>4

\* A write changes the register it names and no other, once, at the edge that
\* completes it; the doorbell rings for an odd word written to it, and for
\* nothing else.
THEOREM WriteEffect == Spec => WritesTakeEffectOnce
<1> DEFINE pair == Paired(aw_got', w_got') /\ ~Paired(aw_got, w_got)
           Effect == /\ doorbell_pulse' <=>
                          (pair /\ aw_got' = "DOORBELL" /\ w_got' % 2 = 1)
                     /\ ord' = IF pair /\ aw_got' \in Fields
                               THEN [ord EXCEPT ![aw_got'] = w_got'] ELSE ord
<1>1. Inv /\ Edge => Effect
  <2> SUFFICES ASSUME Inv, Edge PROVE Effect
    OBVIOUS
  <2>1. PICK aw \in Line(AwReady, Addrs), w \in Line(WReady, Data),
             ar \in Line(ArReady, Addrs), bready \in Accepts(bvalid),
             rready \in Accepts(rvalid), tready \in Accepts(Tvalid) :
               ClockEdge(aw, w, bready, ar, rready, tready)
    BY Zenon DEF Edge
  <2>2. aw \in Addrs \cup {None} /\ w \in Data \cup {None}
    BY DEF Line
  <2>3. /\ WritePath(aw, w, bready)
        /\ aw_got' = Held(aw_got, AwReady, aw, bready)
        /\ w_got' = Held(w_got, WReady, w, bready)
    BY <2>1 DEF ClockEdge, RegBankEdge
  <2>4. /\ pair <=> WrCommit(aw, w)
        /\ WrCommit(aw, w) => /\ aw_got' = CommitAddr(aw)
                              /\ w_got' = CommitData(w)
    BY <2>2, <2>3, CommitCompletesPair
  <2>5. /\ ord' = NextOrd(aw, w)
        /\ doorbell_pulse' = NextPulse(aw, w)
    BY <2>3 DEF WritePath
  <2>6. QED
    BY <2>4, <2>5 DEF NextOrd, NextPulse, RingsDoorbell
<1>2. Reset => RegBankReset'
  BY DEF Reset, ClearRegBank, RegBankReset
<1>3. Inv /\ [Next]_vars => [RegBankReset' \/ Effect]_vars
  BY <1>1, <1>2 DEF Next
<1>4. QED
  BY <1>3, Invariance, PTL DEF Spec, WritesTakeEffectOnce

\* In the cycle of the pulse the response of the doorbell write is still owed.
PulseOwesResponse == doorbell_pulse => wr_state = "W_RESP"

LEMMA PulseStep ==
  ASSUME Edge
  PROVE  /\ PulseOwesResponse'
         /\ wr_state = "W_RESP" => ord' = ord
<1>1. PICK aw \in Line(AwReady, Addrs), w \in Line(WReady, Data),
           ar \in Line(ArReady, Addrs), bready \in Accepts(bvalid),
           rready \in Accepts(rvalid), tready \in Accepts(Tvalid) :
             ClockEdge(aw, w, bready, ar, rready, tready)
  BY Zenon DEF Edge
<1>2. WritePath(aw, w, bready)
  BY <1>1 DEF ClockEdge, RegBankEdge
<1>3. doorbell_pulse' = NextPulse(aw, w) /\ ord' = NextOrd(aw, w)
  BY <1>2 DEF WritePath
<1>4. WrCommit(aw, w) => wr_state' = "W_RESP"
  BY <1>2 DEF WritePath, WrCommit, HoldAddress, HoldData, Commit, Respond, WriteStall
<1>5. wr_state = "W_RESP" => ~WrCommit(aw, w)
  BY DEF WrCommit
<1>6. QED
  BY <1>3, <1>4, <1>5 DEF PulseOwesResponse, NextPulse, RingsDoorbell, NextOrd

\* No write can change the order registers under the pulse that latches them.
THEOREM PulseStable == Spec => StableUnderPulse
<1>1. Init => PulseOwesResponse
  BY DEF Init, RegBankReset, PulseOwesResponse
<1>2. PulseOwesResponse /\ [Next]_vars => PulseOwesResponse'
  <2> SUFFICES ASSUME PulseOwesResponse, [Next]_vars PROVE PulseOwesResponse'
    OBVIOUS
  <2>1. CASE Edge
    BY <2>1, PulseStep
  <2>2. CASE Reset
    BY <2>2 DEF Reset, ClearRegBank, PulseOwesResponse
  <2>3. CASE UNCHANGED vars
    BY <2>3 DEF vars, regBankVars, wrVars, PulseOwesResponse
  <2>4. QED
    BY <2>1, <2>2, <2>3 DEF Next
<1>3. PulseOwesResponse /\ [Next]_vars
        => [doorbell_pulse => ord' = ord \/ RegBankReset']_vars
  BY PulseStep DEF Next, Reset, ClearRegBank, RegBankReset, PulseOwesResponse
<1>4. QED
  BY <1>1, <1>2, <1>3, PTL DEF Spec, StableUnderPulse

----------------------------------------------------------------------------
(* Refinement: the wiring implements OrderEgress.                          *)

Job == IF frame_builder_busy THEN cmd ELSE None

\* The beat the builder shows is the next one of the frame of its command.
LEMMA BeatOfFrame ==
  ASSUME TypeOK
  PROVE  /\ FrameOf(cmd)[byte_cnt + 1] = Beat \/ state # "ST_SEND"
         /\ Len(FrameOf(cmd)) = FRAME_BYTES
<1>1. byte_cnt \in 0 .. FRAME_BYTES - 1 /\ FRAME_BYTES \in Nat \ {0}
  BY FrameBytesPositive DEF TypeOK, BuilderTypeOK
<1>2. byte_cnt + 1 \in 1 .. FRAME_BYTES /\ (byte_cnt + 1) - 1 = byte_cnt
  BY <1>1
<1>3. (byte_cnt + 1 = FRAME_BYTES) <=> (byte_cnt = FRAME_BYTES - 1)
  BY <1>1
<1>4. FrameOf(cmd)[byte_cnt + 1] =
        [byte |-> ByteOf(cmd, byte_cnt), last |-> byte_cnt = FRAME_BYTES - 1]
  BY <1>2, <1>3 DEF FrameOf
<1>5. state = "ST_SEND" => Beat = FrameOf(cmd)[byte_cnt + 1]
  BY <1>4 DEF Beat, Tlast
<1>6. Len(FrameOf(cmd)) = FRAME_BYTES
  BY <1>1 DEF FrameOf
<1>7. QED
  BY <1>5, <1>6

\* On the register side a clock edge is a write or nothing.
LEMMA EdgeIsWrite ==
  ASSUME TypeOK, Edge
  PROVE  Egress!Write
<1>1. PICK aw \in Line(AwReady, Addrs), w \in Line(WReady, Data),
           ar \in Line(ArReady, Addrs), bready \in Accepts(bvalid),
           rready \in Accepts(rvalid), tready \in Accepts(Tvalid) :
             ClockEdge(aw, w, bready, ar, rready, tready)
  BY Zenon DEF Edge
<1>2. ord' = NextOrd(aw, w)
  BY <1>1 DEF ClockEdge, RegBankEdge, WritePath
<1>3. CASE WrCommit(aw, w) /\ CommitAddr(aw) \in Fields
  <2>1. CommitData(w) \in Data
    BY <1>3 DEF CommitData, WrCommit, TypeOK, RegBankTypeOK, Line
  <2>2. ord' = [ord EXCEPT ![CommitAddr(aw)] = CommitData(w)]
    BY <1>2, <1>3 DEF NextOrd
  <2>3. QED
    BY <1>3, <2>1, <2>2 DEF Egress!Write
<1>4. CASE ~(WrCommit(aw, w) /\ CommitAddr(aw) \in Fields)
  BY <1>2, <1>4 DEF NextOrd, Egress!Write
<1>5. QED
  BY <1>3, <1>4

\* On the order side it takes on an order, emits a byte, or does nothing.
LEMMA EdgeIsEgress ==
  ASSUME Inv, Edge
  PROVE  \/ Egress!TakeOn
         \/ Egress!Emit
         \/ Job' = Job /\ frame' = frame
<1>1. PICK aw \in Line(AwReady, Addrs), w \in Line(WReady, Data),
           ar \in Line(ArReady, Addrs), bready \in Accepts(bvalid),
           rready \in Accepts(rvalid), tready \in Accepts(Tvalid) :
             ClockEdge(aw, w, bready, ar, rready, tready)
  BY Zenon DEF Edge
<1>2. /\ cmd_valid' = accept_order
      /\ cmd' = IF accept_order THEN ord ELSE cmd
      /\ BuilderEdge(cmd_valid, tready)
      /\ frame' = IF accept_order THEN <<>>
                  ELSE IF Tvalid /\ tready THEN Append(frame, Beat) ELSE frame
  BY <1>1 DEF ClockEdge, LatcherEdge, accept_order
<1>3. /\ TypeOK
      /\ state \in {"ST_IDLE", "ST_SEND"}
      /\ byte_cnt \in 0 .. FRAME_BYTES - 1
      /\ FRAME_BYTES \in Nat \ {0}
      /\ frame \in Seq(Beats)
      /\ Beat \in Beats
      /\ Handover
  BY ByteType, FrameBytesPositive
  DEF Inv, TypeOK, BuilderTypeOK, Beat, Beats, Tlast
<1>4. CASE accept_order
  <2>1. state = "ST_IDLE" /\ ~cmd_valid /\ ~frame_builder_busy
    BY <1>3, <1>4 DEF accept_order, AcceptOrder, frame_builder_busy, Busy
  <2>2. state' = "ST_IDLE" /\ cmd_valid' /\ cmd' = ord /\ frame' = <<>>
    BY <1>2, <1>4, <2>1 DEF BuilderEdge, StartFrame, NextByte, EndFrame, Tlast,
                            BuilderWait, builderVars
  <2>3. frame_builder_busy'
    BY <2>2 DEF frame_builder_busy, Busy
  <2>4. Egress!TakeOn
    BY <2>1, <2>2, <2>3 DEF Egress!TakeOn
  <2>5. QED
    BY <2>4
<1>5. CASE ~accept_order /\ state = "ST_SEND" /\ tready
  <2>1. frame_builder_busy /\ frame' = Append(frame, Beat) /\ cmd' = cmd
    BY <1>2, <1>5 DEF frame_builder_busy, Busy, Tvalid
  <2>2. Len(frame) = byte_cnt /\ Len(frame') = byte_cnt + 1
    BY <1>3, <1>5, <2>1 DEF Handover
  <2>3. Beat = FrameOf(cmd)[Len(frame) + 1] /\ Len(FrameOf(cmd)) = FRAME_BYTES
    BY <1>3, <1>5, <2>2, BeatOfFrame
  <2>4. cmd \in Orders /\ cmd # None
    BY <1>3, NoneAssumption DEF TypeOK
  <2>5. CASE byte_cnt = FRAME_BYTES - 1
    <3>1. state' = "ST_IDLE" /\ ~cmd_valid'
      BY <1>2, <1>5, <2>5 DEF BuilderEdge, StartFrame, NextByte, EndFrame, Tlast,
                              AfterLastByte, BuilderWait
    <3>2. ~frame_builder_busy'
      BY <3>1 DEF frame_builder_busy, Busy
    <3>3. Len(frame') = Len(FrameOf(cmd))
      BY <1>3, <2>2, <2>3, <2>5
    <3>4. QED
      BY <2>1, <2>3, <2>4, <3>2, <3>3 DEF Egress!Emit
  <2>6. CASE byte_cnt # FRAME_BYTES - 1
    <3>1. state' = "ST_SEND"
      BY <1>2, <1>5, <2>6 DEF BuilderEdge, StartFrame, NextByte, EndFrame, Tlast,
                              BuilderWait
    <3>2. frame_builder_busy'
      BY <3>1 DEF frame_builder_busy, Busy
    <3>3. Len(frame') # Len(FrameOf(cmd))
      BY <1>3, <2>2, <2>3, <2>6
    <3>4. QED
      BY <2>1, <2>3, <2>4, <3>2, <3>3 DEF Egress!Emit
  <2>7. QED
    BY <2>5, <2>6
<1>6. CASE ~accept_order /\ state = "ST_SEND" /\ ~tready
  <2>1. frame' = frame /\ cmd' = cmd /\ state' = state
    BY <1>2, <1>6 DEF BuilderEdge, StartFrame, NextByte, EndFrame, Tlast,
                      BuilderWait, builderVars
  <2>2. QED
    BY <1>6, <2>1 DEF Job, frame_builder_busy, Busy
<1>7. CASE ~accept_order /\ state = "ST_IDLE"
  <2>1. frame' = frame /\ cmd' = cmd /\ ~cmd_valid'
    BY <1>2, <1>7 DEF Tvalid
  <2>2. \/ cmd_valid /\ state' = "ST_SEND"
        \/ ~cmd_valid /\ state' = state
    BY <1>2, <1>7 DEF BuilderEdge, StartFrame, NextByte, EndFrame, Tlast,
                      BuilderWait, builderVars
  <2>3. frame_builder_busy' <=> frame_builder_busy
    BY <1>7, <2>1, <2>2 DEF frame_builder_busy, Busy
  <2>4. QED
    BY <2>1, <2>3 DEF Job
<1>8. QED
  BY <1>3, <1>4, <1>5, <1>6, <1>7

\* Every behaviour of the order path, whatever the bus and the sink do, is a
\* behaviour of OrderEgress.
THEOREM EgressRefinement == Spec => ImplementsOrderEgress
<1>1. Init => Egress!Init
  BY DEF Init, RegBankReset, LatcherReset, BuilderReset, NoOrder, Egress!Init,
         frame_builder_busy, Busy
<1>2. Inv /\ [Next]_vars => [Egress!Next]_(Egress!vars)
  <2> SUFFICES ASSUME Inv, [Next]_vars
               PROVE  [Egress!Next]_(Egress!vars)
    OBVIOUS
  <2>1. CASE Edge
    <3>1. Egress!Write
      BY <2>1, EdgeIsWrite DEF Inv
    <3>2. \/ Egress!TakeOn
          \/ Egress!Emit
          \/ Job' = Job /\ frame' = frame
      BY <2>1, EdgeIsEgress
    <3>3. QED
      BY <3>1, <3>2 DEF Egress!Next, Job
  <2>2. CASE Reset
    <3>1. ord' = NoOrder /\ ~frame_builder_busy' /\ frame' = <<>>
      BY <2>2 DEF Reset, ClearRegBank, ClearLatcher, ClearBuilder,
                  frame_builder_busy, Busy
    <3>2. QED
      BY <3>1 DEF Egress!Next, Egress!Abort, NoOrder
  <2>3. CASE UNCHANGED vars
    BY <2>3 DEF vars, regBankVars, latcherVars, builderVars, history, Egress!vars,
                frame_builder_busy, Busy
  <2>4. QED
    BY <2>1, <2>2, <2>3 DEF Next
<1>3. QED
  BY <1>1, <1>2, Invariance, PTL DEF Spec, ImplementsOrderEgress, Egress!Spec

----------------------------------------------------------------------------
(* The PS that keeps to the egress sequence: the inductive invariant.       *)

\* The write under way: a half the bank has latched already, or still on its
\* line; None when both halves have gone into the registers.
Address == IF wr_state = "W_WAIT_DATA" THEN wr_addr_q ELSE aw_line
Word    == IF wr_state = "W_WAIT_ADDR" THEN wr_data_q ELSE w_line
\* The registers once that write has come through.
Landed  == IF Address \in Fields THEN [ord EXCEPT ![Address] = Word] ELSE ord

DriverTypes == /\ aw_line \in Addrs \cup {None} /\ w_line \in Data \cup {None}
               /\ ar_line \in {"TX_READY", None}
               /\ wr_addr_q \in Addrs /\ wr_data_q \in Data
               /\ wr_state \in {"W_IDLE", "W_WAIT_DATA", "W_WAIT_ADDR", "W_RESP"}
               /\ rd_state \in {"R_IDLE", "R_RESP"}
               /\ state \in {"ST_IDLE", "ST_SEND"} /\ cmd_valid \in BOOLEAN
               /\ doorbell_pulse \in BOOLEAN
               /\ bvalid \in BOOLEAN /\ rvalid \in BOOLEAN
               /\ policy \in [posted : BOOLEAN, check_first : BOOLEAN]
               /\ drv_pc \in {"check", "answer", "fields", "bell", "rung"}
               /\ todo \subseteq Fields
               /\ wanted \in Orders /\ rung \in Orders /\ ord \in Orders

\* One access at a time: a write whose halves may have parted, or a check.
OneAccess == /\ Address = None <=> Word = None
             /\ wr_state = "W_WAIT_DATA" => aw_line = None /\ w_line # None
             /\ wr_state = "W_WAIT_ADDR" => aw_line # None /\ w_line = None
             /\ bvalid <=> wr_state = "W_RESP"
             /\ rvalid <=> rd_state = "R_RESP"
             /\ rvalid \/ ar_line # None => drv_pc = "answer"
             /\ rvalid => ar_line = None
             /\ drv_pc = "answer" => Address = None

\* What has been written, or is under way, is what the PS wants; the doorbell
\* comes last.
Writing == /\ Address \in Fields \cup {"DOORBELL", None}
           /\ Address = "DOORBELL" => drv_pc = "rung" /\ Word = 1
           /\ drv_pc \in {"bell", "rung"} => todo = {}
           /\ drv_pc \in {"check", "answer"} /\ ~policy.check_first => todo = {}
           /\ \A f \in Fields \ todo : Landed[f] = wanted[f]
           /\ drv_pc = "rung" => rung = wanted
           /\ doorbell_pulse => ord = rung

\* TX_READY has been seen, and the doorbell not yet rung.
Granted == \/ drv_pc = "bell"
           \/ drv_pc = "fields" /\ policy.check_first
           \/ Address = "DOORBELL"

\* Between the check and the doorbell nothing makes the path busy; and a check
\* is not made while the pulse of the last doorbell is still to act, because
\* the PS has waited for its response or written a register since.
Grants == /\ ~(policy.posted /\ policy.check_first)
          /\ doorbell_pulse => /\ wr_state = "W_RESP" /\ ~frame_builder_busy
                               /\ drv_pc = "rung" \/ policy.posted
                               /\ drv_pc \in {"rung", "fields"} \/ Address # None
          /\ drv_pc = "answer" => ~doorbell_pulse
          /\ rvalid /\ rdata = 1 => ~frame_builder_busy
          /\ Granted => ~frame_builder_busy /\ ~doorbell_pulse

DriverInv == DriverTypes /\ OneAccess /\ Writing /\ Grants

----------------------------------------------------------------------------
(* A clock edge.                                                           *)

\* What a clock edge is given by the interconnect and the sink.
EdgeInputs(aw, w, bready, ar, rready) ==
  /\ aw \in {aw_line, None} /\ w \in {w_line, None} /\ ar \in {ar_line, None}
  /\ bready \in BOOLEAN /\ rready \in BOOLEAN

\* The write comes through as a whole, or one more half of it is latched, or
\* nothing of it happens; only a doorbell that comes through pulses.
WriteOutcome ==
  /\ aw_line' \in Addrs \cup {None} /\ w_line' \in Data \cup {None}
  /\ wr_addr_q' \in Addrs /\ wr_data_q' \in Data
  /\ wr_state' \in {"W_IDLE", "W_WAIT_DATA", "W_WAIT_ADDR", "W_RESP"}
  /\ bvalid' \in BOOLEAN /\ doorbell_pulse' \in BOOLEAN
  /\ wr_state' = "W_WAIT_DATA" => aw_line' = None /\ w_line' # None
  /\ wr_state' = "W_WAIT_ADDR" => aw_line' # None /\ w_line' = None
  /\ bvalid' <=> wr_state' = "W_RESP"
  /\ \/ /\ Address' = Address /\ Word' = Word /\ ord' = ord
        /\ doorbell_pulse' = FALSE
     \/ /\ Address # None /\ Address' = None /\ Word' = None /\ ord' = Landed
        /\ wr_state' = "W_RESP"
        /\ doorbell_pulse' => Address = "DOORBELL"
LEMMA EdgeWrites ==
  ASSUME DriverTypes, OneAccess, Writing,
         NEW aw, NEW w, NEW bready, NEW ar, NEW rready,
         EdgeInputs(aw, w, bready, ar, rready),
         WritePath(aw, w, bready),
         aw_line' = Taken(AwReady, aw_line, aw), w_line' = Taken(WReady, w_line, w)
  PROVE  WriteOutcome
<1>. USE NoneAssumption
<1>0. /\ None \notin Addrs /\ None \notin Data
      /\ aw \in {aw_line, None} /\ w \in {w_line, None}
  BY DEF EdgeInputs
<1>1. CASE HoldAddress(aw, w)
  <2>1. /\ wr_state = "W_IDLE" /\ aw = aw_line /\ aw # None /\ w = None
        /\ wr_state' = "W_WAIT_DATA" /\ wr_addr_q' = aw
        /\ wr_data_q' = wr_data_q /\ bvalid' = bvalid
        /\ aw_line' = None /\ w_line' = w_line
    BY <1>0, <1>1 DEF HoldAddress, Taken, AwReady, WReady
  <2>2. ~WrCommit(aw, w)
    BY <2>1 DEF WrCommit
  <2>3. ord' = ord /\ doorbell_pulse' = FALSE
    BY <2>2 DEF WritePath, NextOrd, NextPulse, RingsDoorbell
  <2>. QED
    BY <1>0, <2>1, <2>3 DEF WriteOutcome, DriverTypes, OneAccess, Address, Word
<1>2. CASE HoldData(aw, w)
  <2>1. /\ wr_state = "W_IDLE" /\ w = w_line /\ w # None /\ aw = None
        /\ wr_state' = "W_WAIT_ADDR" /\ wr_data_q' = w
        /\ wr_addr_q' = wr_addr_q /\ bvalid' = bvalid
        /\ w_line' = None /\ aw_line' = aw_line
    BY <1>0, <1>2 DEF HoldData, Taken, AwReady, WReady
  <2>2. ~WrCommit(aw, w)
    BY <2>1 DEF WrCommit
  <2>3. ord' = ord /\ doorbell_pulse' = FALSE
    BY <2>2 DEF WritePath, NextOrd, NextPulse, RingsDoorbell
  <2>. QED
    BY <1>0, <2>1, <2>3 DEF WriteOutcome, DriverTypes, OneAccess, Address, Word
<1>3. CASE Commit(aw, w)
  <2>1. /\ WrCommit(aw, w) /\ wr_state' = "W_RESP" /\ bvalid' = TRUE
        /\ wr_addr_q' = wr_addr_q /\ wr_data_q' = wr_data_q
    BY <1>3 DEF Commit
  <2>2. /\ CommitAddr(aw) = Address /\ CommitData(w) = Word /\ Address # None
        /\ aw_line' = None /\ w_line' = None
    BY <1>0, <2>1 DEF WrCommit, CommitAddr, CommitData, Address, Word, OneAccess, DriverTypes,
                      Taken, AwReady, WReady
  <2>3. Address' = None /\ Word' = None
    BY <2>1, <2>2 DEF Address, Word
  <2>4. ord' = Landed /\ (doorbell_pulse' => Address = "DOORBELL") /\ doorbell_pulse' \in BOOLEAN
    BY <2>1, <2>2 DEF WritePath, NextOrd, NextPulse, RingsDoorbell, Landed
  <2>. QED
    BY <1>0, <2>1, <2>2, <2>3, <2>4 DEF WriteOutcome, DriverTypes
<1>4. CASE Respond(bready) \/ WriteStall(aw, w, bready)
  <2>1. ~WrCommit(aw, w)
    BY <1>4 DEF Respond, WriteStall, WrCommit
  <2>2. ord' = ord /\ doorbell_pulse' = FALSE
    BY <2>1 DEF WritePath, NextOrd, NextPulse, RingsDoorbell
  <2>3. aw_line' = aw_line /\ w_line' = w_line
    BY <1>4 DEF Respond, WriteStall, Taken, AwReady, WReady
  <2>4. CASE Respond(bready)
    <3>1. /\ wr_state = "W_RESP" /\ wr_state' = "W_IDLE" /\ bvalid' = FALSE
          /\ wr_addr_q' = wr_addr_q /\ wr_data_q' = wr_data_q
      BY <2>4 DEF Respond
    <3>. QED
      BY <2>2, <2>3, <3>1 DEF WriteOutcome, DriverTypes, OneAccess, Address, Word
  <2>5. CASE WriteStall(aw, w, bready)
    <3>1. /\ wr_state' = wr_state /\ bvalid' = bvalid
          /\ wr_addr_q' = wr_addr_q /\ wr_data_q' = wr_data_q
      BY <2>5 DEF WriteStall, wrVars
    <3>. QED
      BY <2>2, <2>3, <3>1 DEF WriteOutcome, DriverTypes, OneAccess, Address, Word
  <2>. QED
    BY <1>4, <2>4, <2>5
<1>. QED
  BY <1>1, <1>2, <1>3, <1>4 DEF WritePath

\* The check is answered with TX_READY as it is at the edge, and nothing else
\* is on the read channel.
ReadOutcome ==
  /\ ar_line' \in {"TX_READY", None} /\ rd_state' \in {"R_IDLE", "R_RESP"}
  /\ rvalid' \in BOOLEAN /\ (rvalid' <=> rd_state' = "R_RESP")
  /\ rvalid' => ar_line' = None
  /\ rvalid' \/ ar_line' # None => drv_pc = "answer" /\ drv_pc' = "answer"
  /\ rvalid' /\ rdata' = 1 => ~frame_builder_busy \/ (rvalid /\ rdata = 1)
  /\ drv_pc' \in {"check", "answer", "fields", "bell", "rung"}
  /\ drv_pc' # drv_pc => /\ drv_pc = "answer"
                         /\ \/ drv_pc' = "check"
                            \/ /\ rvalid /\ rdata = 1
                               /\ drv_pc' = IF policy.check_first THEN "fields" ELSE "bell"
LEMMA EdgeReads ==
  ASSUME DriverTypes, OneAccess,
         NEW aw, NEW w, NEW bready, NEW ar, NEW rready,
         EdgeInputs(aw, w, bready, ar, rready),
         ReadPath(ar, rready, tx_ready),
         ar_line' = Taken(ArReady, ar_line, ar), drv_pc' = TakeAnswer(rready)
  PROVE  ReadOutcome
<1>. USE NoneAssumption
<1>0. ar \in {ar_line, None} /\ rready \in BOOLEAN
  BY DEF EdgeInputs
<1>1. CASE AcceptRead(ar, tx_ready)
  <2>1. /\ rd_state = "R_IDLE" /\ ar = "TX_READY" /\ ar_line = "TX_READY" /\ ar_line' = None
        /\ rdata' = IF tx_ready THEN 1 ELSE 0
        /\ rvalid' = TRUE /\ rd_state' = "R_RESP" /\ ~rvalid /\ drv_pc = "answer"
    BY <1>0, <1>1 DEF AcceptRead, ArReady, RdData, Taken, DriverTypes, OneAccess
  <2>2. drv_pc' = drv_pc
    BY <2>1 DEF TakeAnswer
  <2>3. rdata' = 1 => ~frame_builder_busy
    BY <2>1 DEF tx_ready
  <2>. QED
    BY <2>1, <2>2, <2>3 DEF ReadOutcome
<1>2. CASE FinishRead(rready)
  <2>1. /\ rd_state = "R_RESP" /\ rvalid /\ ar_line = None /\ ar_line' = None
        /\ rvalid' = FALSE /\ rd_state' = "R_IDLE" /\ drv_pc = "answer" /\ rready = TRUE
    BY <1>0, <1>2 DEF FinishRead, Taken, ArReady, OneAccess, DriverTypes
  <2>2. drv_pc' = IF rdata = 1 THEN IF policy.check_first THEN "fields" ELSE "bell" ELSE "check"
    BY <2>1 DEF TakeAnswer
  <2>. QED
    BY <2>1, <2>2 DEF ReadOutcome
<1>3. CASE ReadStall(ar, rready)
  <2>1. /\ rd_state' = rd_state /\ rdata' = rdata /\ rvalid' = rvalid
        /\ ar_line' = ar_line /\ drv_pc' = drv_pc
    BY <1>0, <1>3 DEF ReadStall, rdVars, Taken, ArReady, TakeAnswer, OneAccess, DriverTypes
  <2>. QED
    BY <2>1 DEF ReadOutcome, DriverTypes, OneAccess
<1>. QED
  BY <1>1, <1>2, <1>3 DEF ReadPath

\* Only a pulse makes the path busy.
LEMMA EdgeBusy ==
  ASSUME DriverTypes, NEW tready,
         LatcherEdge(ord, doorbell_pulse, frame_builder_busy), BuilderEdge(cmd_valid, tready)
  PROVE  /\ state' \in {"ST_IDLE", "ST_SEND"} /\ cmd_valid' \in BOOLEAN
         /\ ~frame_builder_busy /\ ~doorbell_pulse => ~frame_builder_busy'
<1>1. cmd_valid' = (doorbell_pulse /\ ~frame_builder_busy)
  BY DEF LatcherEdge, AcceptOrder
<1>2. state' \in {"ST_IDLE", "ST_SEND"}
  BY DEF BuilderEdge, StartFrame, NextByte, EndFrame, BuilderWait, AfterLastByte, builderVars,
         DriverTypes
<1>3. ASSUME ~frame_builder_busy, ~doorbell_pulse  PROVE ~frame_builder_busy'
  <2>1. state = "ST_IDLE" /\ ~cmd_valid
    BY <1>3 DEF frame_builder_busy, Busy, DriverTypes
  <2>2. state' = "ST_IDLE"
    BY <2>1 DEF BuilderEdge, StartFrame, NextByte, EndFrame, BuilderWait, Tlast, builderVars
  <2>. QED
    BY <1>1, <1>3, <2>2 DEF frame_builder_busy, Busy
<1>. QED
  BY <1>1, <1>2, <1>3

----------------------------------------------------------------------------
(* The invariant under a clock edge and under the accesses of the PS.      *)

LEMMA EdgeKeeps ==
  ASSUME DriverInv, AnyEdge
  PROVE  DriverInv'
<1>. USE NoneAssumption
<1>1. PICK aw \in Offered(aw_line), w \in Offered(w_line), ar \in Offered(ar_line),
           bready \in Accepts(bvalid), rready \in Accepts(rvalid), tready \in Accepts(Tvalid) :
             DriverEdge(aw, w, bready, ar, rready, tready)
  BY Zenon DEF AnyEdge
<1>2. /\ EdgeInputs(aw, w, bready, ar, rready)
      /\ WritePath(aw, w, bready) /\ ReadPath(ar, rready, tx_ready)
      /\ LatcherEdge(ord, doorbell_pulse, frame_builder_busy) /\ BuilderEdge(cmd_valid, tready)
      /\ aw_line' = Taken(AwReady, aw_line, aw) /\ w_line' = Taken(WReady, w_line, w)
      /\ ar_line' = Taken(ArReady, ar_line, ar) /\ drv_pc' = TakeAnswer(rready)
      /\ policy' = policy /\ todo' = todo /\ wanted' = wanted /\ rung' = rung
  BY <1>1 DEF DriverEdge, ClockEdge, RegBankEdge, Offered, Accepts, EdgeInputs
<1>3. DriverTypes /\ OneAccess /\ Writing /\ Grants
  BY DEF DriverInv
<1>4. WriteOutcome
  BY <1>2, <1>3, EdgeWrites, Zenon
<1>5. ReadOutcome
  BY <1>2, <1>3, EdgeReads, Zenon
<1>6. /\ state' \in {"ST_IDLE", "ST_SEND"} /\ cmd_valid' \in BOOLEAN
      /\ ~frame_builder_busy /\ ~doorbell_pulse => ~frame_builder_busy'
  BY <1>2, <1>3, EdgeBusy, Zenon
<1>7. Landed \in Orders /\ Landed' = Landed
  <2>1. ord \in [Fields -> Data]
    BY <1>3 DEF DriverTypes
  <2>2. Landed \in [Fields -> Data]
    <3>1. CASE Address \in Fields
      <4>1. Word \in Data
        BY <1>3, <3>1 DEF DriverTypes, OneAccess, Word
      <4>2. Landed = [ord EXCEPT ![Address] = Word]
        BY <3>1, Zenon DEF Landed
      <4>. HIDE DEF Landed, Address, Word
      <4>. QED
        BY <2>1, <3>1, <4>1, <4>2
    <3>2. CASE Address \notin Fields
      BY <2>1, <3>2 DEF Landed
    <3>. QED
      BY <3>1, <3>2
  <2>3. CASE Address' = Address /\ Word' = Word /\ ord' = ord
    <3>1. Landed' = Landed
      BY <2>3, Zenon DEF Landed
    <3>. QED
      BY <2>2, <3>1, Zenon
  <2>4. CASE Address' = None /\ ord' = Landed
    <3>1. Address' \notin Fields
      BY <2>4
    <3>2. Landed' = ord'
      BY <3>1, Zenon DEF Landed
    <3>. QED
      BY <2>2, <2>4, <3>2, Zenon
  <2>. QED
    BY <1>4, <2>3, <2>4, Zenon DEF WriteOutcome
<1>8. DriverTypes'
  <2>1. ord' \in Orders
    BY <1>3, <1>4, <1>7, Zenon DEF DriverTypes, WriteOutcome
  <2>2. /\ aw_line' \in Addrs \cup {None} /\ w_line' \in Data \cup {None}
        /\ wr_addr_q' \in Addrs /\ wr_data_q' \in Data
        /\ wr_state' \in {"W_IDLE", "W_WAIT_DATA", "W_WAIT_ADDR", "W_RESP"}
        /\ bvalid' \in BOOLEAN /\ doorbell_pulse' \in BOOLEAN
    BY <1>4, Zenon DEF WriteOutcome
  <2>3. /\ ar_line' \in {"TX_READY", None} /\ rd_state' \in {"R_IDLE", "R_RESP"}
        /\ rvalid' \in BOOLEAN /\ drv_pc' \in {"check", "answer", "fields", "bell", "rung"}
    BY <1>5, Zenon DEF ReadOutcome
  <2>4. /\ policy' \in [posted : BOOLEAN, check_first : BOOLEAN]
        /\ todo' \subseteq Fields /\ wanted' \in Orders /\ rung' \in Orders
    BY <1>2, <1>3, Zenon DEF DriverTypes
  <2>. QED
    BY <1>6, <2>1, <2>2, <2>3, <2>4, Zenon DEF DriverTypes
<1>9. OneAccess'
  <2>1. drv_pc' = "answer" => Address = None /\ Address' = None
    BY <1>3, <1>4, <1>5 DEF OneAccess, WriteOutcome, ReadOutcome
  <2>. QED
    BY <1>3, <1>4, <1>5, <2>1 DEF OneAccess, WriteOutcome, ReadOutcome
<1>10. Writing'
  <2>1. /\ Address' \in Fields \cup {"DOORBELL", None}
        /\ Address' = "DOORBELL" => drv_pc' = "rung" /\ Word' = 1
    BY <1>3, <1>4, <1>5 DEF Writing, OneAccess, WriteOutcome, ReadOutcome
  <2>2. /\ drv_pc' \in {"bell", "rung"} => todo' = {}
        /\ drv_pc' \in {"check", "answer"} /\ ~policy'.check_first => todo' = {}
    BY <1>2, <1>3, <1>5 DEF Writing, ReadOutcome
  <2>3. \A f \in Fields \ todo' : Landed'[f] = wanted'[f]
    BY <1>2, <1>3, <1>7 DEF Writing
  <2>4. drv_pc' = "rung" => rung' = wanted'
    BY <1>2, <1>3, <1>5 DEF Writing, ReadOutcome
  <2>5. ASSUME doorbell_pulse'  PROVE ord' = rung'
    <3>1. Address = "DOORBELL" /\ ord' = Landed /\ drv_pc = "rung" /\ todo = {} /\ rung = wanted
      BY <1>3, <1>4, <2>5 DEF Writing, WriteOutcome
    <3>2. Landed = wanted
      <4>1. Landed \in [Fields -> Data] /\ wanted \in [Fields -> Data]
        BY <1>3, <1>7 DEF DriverTypes
      <4>2. \A f \in Fields : Landed[f] = wanted[f]
        BY <1>3, <3>1 DEF Writing
      <4>. QED
        BY <4>1, <4>2
    <3>. QED
      BY <1>2, <3>1, <3>2
  <2>. QED
    BY <2>1, <2>2, <2>3, <2>4, <2>5 DEF Writing
<1>11. Grants'
  <2>1. ASSUME doorbell_pulse'
        PROVE  wr_state' = "W_RESP" /\ ~frame_builder_busy' /\ drv_pc' = "rung"
               /\ Address' # "DOORBELL"
    <3>1. Address = "DOORBELL" /\ wr_state' = "W_RESP" /\ drv_pc = "rung" /\ Address' = None
      BY <1>3, <1>4, <2>1 DEF Writing, WriteOutcome
    <3>2. drv_pc' = "rung"
      BY <1>5, <3>1 DEF ReadOutcome
    <3>3. ~frame_builder_busy'
      BY <1>3, <1>6, <3>1 DEF Grants, Granted
    <3>. QED
      BY <3>1, <3>2, <3>3
  <2>2. ASSUME rvalid', rdata' = 1  PROVE ~frame_builder_busy'
    <3>1. drv_pc = "answer" /\ (~frame_builder_busy \/ (rvalid /\ rdata = 1))
      BY <1>5, <2>2 DEF ReadOutcome
    <3>2. ~doorbell_pulse /\ ~frame_builder_busy
      BY <1>3, <3>1 DEF Grants
    <3>. QED
      BY <1>6, <3>2
  <2>3. ASSUME Granted'  PROVE ~frame_builder_busy' /\ ~doorbell_pulse'
    <3>1. ~frame_builder_busy /\ ~doorbell_pulse
      <4>1. CASE Granted
        BY <1>3, <4>1 DEF Grants
      <4>2. CASE ~Granted
        <5>1. Address # "DOORBELL" /\ Address' # "DOORBELL"
          BY <1>4, <4>2 DEF Granted, WriteOutcome
        <5>2. drv_pc' # drv_pc
          BY <1>2, <2>3, <4>2, <5>1 DEF Granted
        <5>3. drv_pc = "answer" /\ rvalid /\ rdata = 1
          BY <1>2, <1>5, <2>3, <5>1, <5>2 DEF Granted, ReadOutcome
        <5>. QED
          BY <1>3, <5>3 DEF Grants
      <4>. QED
        BY <4>1, <4>2
    <3>2. ~doorbell_pulse'
      BY <1>2, <2>1, <2>3 DEF Granted, DriverTypes
    <3>. QED
      BY <1>6, <3>1, <3>2
  <2>4. drv_pc' = "answer" => ~doorbell_pulse'
    BY <2>1
  <2>. QED
    BY <1>2, <1>3, <2>1, <2>2, <2>3, <2>4 DEF Grants
<1>. QED
  BY <1>8, <1>9, <1>10, <1>11 DEF DriverInv

\* While the PS issues an access the bank and the builder stand still.
StandStill == /\ wr_addr_q' = wr_addr_q /\ wr_data_q' = wr_data_q /\ wr_state' = wr_state
              /\ bvalid' = bvalid /\ rd_state' = rd_state /\ rvalid' = rvalid /\ rdata' = rdata
              /\ ord' = ord /\ doorbell_pulse' = doorbell_pulse
              /\ state' = state /\ cmd_valid' = cmd_valid
LEMMA StandStillVars == vars' = vars => StandStill /\ frame_builder_busy' = frame_builder_busy
BY DEF vars, regBankVars, wrVars, rdVars, latcherVars, builderVars, StandStill,
       frame_builder_busy, Busy

LEMMA IssueKeeps ==
  ASSUME DriverInv, WriteField \/ CheckReady \/ RingDoorbell \/ NextOrder
  PROVE  DriverInv'
<1>. USE NoneAssumption
<1>1. DriverTypes /\ OneAccess /\ Writing /\ Grants
  BY DEF DriverInv
<1>2. /\ StandStill /\ frame_builder_busy' = frame_builder_busy
      /\ policy' = policy
      /\ aw_line = None /\ w_line = None /\ ar_line = None /\ ~rvalid
      /\ policy.posted \/ ~bvalid
  <2>1. vars' = vars /\ policy' = policy /\ MayIssue
    BY DEF WriteField, CheckReady, RingDoorbell, NextOrder
  <2>. QED
    BY <2>1, StandStillVars DEF MayIssue, Quiet
<1>3. wr_state \in {"W_IDLE", "W_RESP"} /\ Address = None /\ Word = None /\ Landed = ord
  <2>1. wr_state \in {"W_IDLE", "W_RESP"}
    BY <1>1, <1>2 DEF DriverTypes, OneAccess
  <2>. QED
    BY <1>2, <2>1 DEF Address, Word, Landed
<1>4. Address' = aw_line' /\ Word' = w_line'
  BY <1>2, <1>3 DEF StandStill, Address, Word
<1>5. CASE WriteField
  <2>1. PICK f \in todo : Issue(f, wanted[f]) /\ todo' = todo \ {f}
    BY <1>5 DEF WriteField
  <2>2. /\ drv_pc = "fields" /\ wanted' = wanted /\ rung' = rung
        /\ drv_pc' = IF todo' # {} THEN "fields"
                     ELSE IF policy.check_first THEN "bell" ELSE "check"
    BY <1>5 DEF WriteField
  <2>3. /\ aw_line' = f /\ w_line' = wanted[f] /\ ar_line' = None
        /\ f \in Fields /\ wanted[f] \in Data /\ f # None /\ wanted[f] # None /\ f # "DOORBELL"
    BY <1>1, <1>2, <2>1, FieldsAssumption DEF Issue, DriverTypes
  <2>4. DriverTypes'
    BY <1>1, <1>2, <2>1, <2>2, <2>3 DEF DriverTypes, StandStill
  <2>5. OneAccess'
    BY <1>1, <1>2, <1>3, <1>4, <2>2, <2>3 DEF OneAccess, StandStill
  <2>6. Writing'
    <3>1. Landed' = [ord EXCEPT ![f] = wanted[f]]
      BY <1>2, <1>4, <2>3 DEF Landed, StandStill
    <3>2. \A g \in Fields \ todo' : Landed'[g] = wanted'[g]
      <4>. SUFFICES ASSUME NEW g \in Fields \ todo'  PROVE Landed'[g] = wanted[g]
        BY <2>2
      <4>1. CASE g = f
        BY <1>1, <2>3, <3>1, <4>1 DEF DriverTypes
      <4>2. CASE g # f
        <5>1. g \in Fields \ todo /\ Landed'[g] = ord[g]
          BY <1>1, <2>1, <3>1, <4>2 DEF DriverTypes
        <5>. QED
          BY <1>1, <1>3, <5>1 DEF Writing
      <4>. QED
        BY <4>1, <4>2
    <3>3. doorbell_pulse' => ord' = rung'
      BY <1>1, <1>2, <2>2 DEF Writing, StandStill
    <3>. QED
      BY <1>2, <1>4, <2>2, <2>3, <3>2, <3>3 DEF Writing
  <2>7. Grants'
    BY <1>1, <1>2, <1>3, <1>4, <2>2, <2>3 DEF Grants, Granted, StandStill
  <2>. QED
    BY <2>4, <2>5, <2>6, <2>7 DEF DriverInv
<1>6. CASE CheckReady
  <2>1. /\ drv_pc = "check" /\ drv_pc' = "answer" /\ ar_line' = "TX_READY"
        /\ aw_line' = None /\ w_line' = None
        /\ todo' = todo /\ wanted' = wanted /\ rung' = rung
    BY <1>2, <1>6 DEF CheckReady, IssueRead
  <2>2. Landed' = Landed
    BY <1>2, <1>3, <1>4, <2>1 DEF Landed, StandStill
  <2>3. DriverTypes'
    BY <1>1, <1>2, <2>1 DEF DriverTypes, StandStill
  <2>4. OneAccess'
    BY <1>1, <1>2, <1>3, <1>4, <2>1 DEF OneAccess, StandStill
  <2>5. Writing'
    BY <1>1, <1>2, <1>3, <1>4, <2>1, <2>2 DEF Writing, StandStill
  <2>6. ~doorbell_pulse'
    BY <1>1, <1>2, <1>3, <2>1 DEF Grants, StandStill
  <2>7. Grants'
    BY <1>1, <1>2, <1>4, <2>1, <2>6 DEF Grants, Granted, StandStill
  <2>. QED
    BY <2>3, <2>4, <2>5, <2>7 DEF DriverInv
<1>7. CASE RingDoorbell
  <2>1. /\ drv_pc = "bell" /\ drv_pc' = "rung" /\ ar_line' = None
        /\ aw_line' = "DOORBELL" /\ w_line' = 1 /\ "DOORBELL" # None /\ 1 # None /\ 1 \in Data
        /\ todo' = todo /\ wanted' = wanted /\ rung' = wanted
    BY <1>2, <1>7, DataAssumption DEF RingDoorbell, Issue
  <2>2. Landed' = Landed
    <3>1. "DOORBELL" \notin Fields
      BY FieldsAssumption
    <3>. QED
      BY <1>2, <1>3, <1>4, <2>1, <3>1 DEF Landed, StandStill
  <2>3. ~doorbell_pulse /\ ~frame_builder_busy
    BY <1>1, <2>1 DEF Grants, Granted
  <2>4. DriverTypes'
    BY <1>1, <1>2, <2>1 DEF DriverTypes, StandStill
  <2>5. OneAccess'
    BY <1>1, <1>2, <1>3, <1>4, <2>1 DEF OneAccess, StandStill
  <2>6. Writing'
    BY <1>1, <1>2, <1>4, <2>1, <2>2, <2>3 DEF Writing, StandStill
  <2>7. Grants'
    BY <1>1, <1>2, <1>4, <2>1, <2>3 DEF Grants, Granted, StandStill
  <2>. QED
    BY <2>4, <2>5, <2>6, <2>7 DEF DriverInv
<1>8. CASE NextOrder
  <2>1. /\ drv_pc = "rung" /\ drv_pc' = IF policy.check_first THEN "check" ELSE "fields"
        /\ aw_line' = None /\ w_line' = None /\ ar_line' = None
        /\ todo' = Fields /\ wanted' \in Orders /\ rung' = rung
    BY <1>2, <1>8 DEF NextOrder
  <2>2. DriverTypes'
    BY <1>1, <1>2, <2>1 DEF DriverTypes, StandStill
  <2>3. OneAccess'
    BY <1>1, <1>2, <1>3, <1>4, <2>1 DEF OneAccess, StandStill
  <2>4. Writing'
    BY <1>1, <1>2, <1>4, <2>1 DEF Writing, StandStill
  <2>5. Grants'
    BY <1>1, <1>2, <1>3, <1>4, <2>1 DEF Grants, Granted, StandStill, OneAccess
  <2>. QED
    BY <2>2, <2>3, <2>4, <2>5 DEF DriverInv
<1>. QED
  BY <1>5, <1>6, <1>7, <1>8

----------------------------------------------------------------------------
(* The theorems.                                                           *)

\* The policies of tx_driver: fields before the check, as src/README.md:259 has
\* it, or every answer awaited.
SafePolicies == \A p \in Policies : ~(p.posted /\ p.check_first)

LEMMA DriverInvInit == Init /\ DriverInit /\ SafePolicies => DriverInv
<1>. SUFFICES ASSUME Init, DriverInit, SafePolicies  PROVE DriverInv
  OBVIOUS
<1>. USE NoneAssumption
<1>1. /\ wr_state = "W_IDLE" /\ wr_addr_q = "OTHER" /\ wr_data_q = 0 /\ bvalid = FALSE
      /\ ord = NoOrder /\ doorbell_pulse = FALSE /\ rd_state = "R_IDLE" /\ rvalid = FALSE
      /\ state = "ST_IDLE" /\ cmd_valid = FALSE
  BY DEF Init, RegBankReset, LatcherReset, BuilderReset
<1>2. /\ policy \in [posted : BOOLEAN, check_first : BOOLEAN]
      /\ ~(policy.posted /\ policy.check_first)
      /\ drv_pc = IF policy.check_first THEN "check" ELSE "fields"
      /\ todo = Fields /\ wanted \in Orders /\ rung = NoOrder
      /\ aw_line = None /\ w_line = None /\ ar_line = None
  BY PolicyAssumption DEF DriverInit, SafePolicies
<1>3. NoOrder \in Orders /\ 0 \in Data
  BY DataAssumption DEF NoOrder
<1>4. Address = None /\ Word = None
  BY <1>1, <1>2 DEF Address, Word
<1>5. DriverTypes
  BY <1>1, <1>2, <1>3 DEF DriverTypes
<1>6. OneAccess /\ Writing /\ Grants
  BY <1>1, <1>2, <1>4 DEF OneAccess, Writing, Grants, Granted
<1>. QED
  BY <1>5, <1>6 DEF DriverInv

LEMMA DriverInvNext == DriverInv /\ [DriverNext]_allVars => DriverInv'
<1>. SUFFICES ASSUME DriverInv, [DriverNext]_allVars  PROVE DriverInv'
  OBVIOUS
<1>1. CASE UNCHANGED allVars
  <2>1. StandStill /\ frame_builder_busy' = frame_builder_busy
    BY <1>1, StandStillVars DEF allVars
  <2>2. /\ policy' = policy /\ drv_pc' = drv_pc /\ todo' = todo /\ wanted' = wanted
        /\ rung' = rung /\ aw_line' = aw_line /\ w_line' = w_line /\ ar_line' = ar_line
    BY <1>1 DEF allVars, driverVars
  <2>3. Address' = Address /\ Word' = Word /\ Landed' = Landed
    BY <2>1, <2>2 DEF Address, Word, Landed, StandStill
  <2>4. DriverTypes' /\ OneAccess'
    BY <2>1, <2>2, <2>3 DEF DriverInv, DriverTypes, OneAccess, StandStill
  <2>5. Writing' /\ Grants'
    BY <2>1, <2>2, <2>3 DEF DriverInv, Writing, Grants, Granted, StandStill
  <2>. QED
    BY <2>4, <2>5 DEF DriverInv
<1>. QED
  BY <1>1, EdgeKeeps, IssueKeeps DEF DriverNext

\* A PS that sees TX_READY after it has written the fields, or awaits each
\* answer, loses no order, however long each half of a write, a read or a byte of
\* the frame is held up (axi_lite_regbank.sv next to tx_order_latcher.sv).
THEOREM NothingDropped == SafePolicies /\ DriverSpec => []NoOrderDropped
<1>1. DriverInv => NoOrderDropped
  BY DEF DriverInv, Grants, NoOrderDropped, tx_ready
<1>. QED
  BY <1>1, DriverInvInit, DriverInvNext, PTL DEF DriverSpec

\* And what the doorbell latches is the order the PS rang for, with every field.
THEOREM WholeOrderLatched == SafePolicies /\ DriverSpec => []LatchesWholeOrder
<1>1. DriverInv => LatchesWholeOrder
  BY DEF DriverInv, Writing, LatchesWholeOrder
<1>. QED
  BY <1>1, DriverInvInit, DriverInvNext, PTL DEF DriverSpec
=============================================================================
