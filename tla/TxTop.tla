------------------------------- MODULE TxTop -------------------------------
(***************************************************************************)
(* The order path of the PL (tx_top.sv): register bank, order latch and    *)
(* frame builder wired together.  All of them step on the same clock edge, *)
(* each from the values the others held before it.  The PS side and the    *)
(* sink are unconstrained here: any line may carry anything at any edge.   *)
(***************************************************************************)
EXTENDS RegBank, OrderLatcher, FrameBuilder

ASSUME SourcesAssumption == \A n \in 1 .. Len(Layout) :
                               Layout[n] \in Fields \cup {"HEADER", "PAD"}
ASSUME ConstantBytesAssumption == {"HEADER", "PAD"} \cap Fields = {}

VARIABLES aw_got,   (* history: address accepted, its response not yet taken *)
          w_got,    (* history: likewise the data word                     *)
          frame     (* history: the beats of the latest frame              *)

history == <<aw_got, w_got, frame>>
vars == <<regBankVars, latcherVars, builderVars, history>>

----------------------------------------------------------------------------
(* The wires.                                                              *)
frame_builder_busy == Busy(cmd_valid)
tx_ready           == ~frame_builder_busy
accept_order       == AcceptOrder(doorbell_pulse, frame_builder_busy)

Beat == [byte |-> ByteOf(cmd, byte_cnt), last |-> Tlast]

Beats == [byte : [source : Fields \cup {"HEADER", "PAD"}, value : Data],
          last : BOOLEAN]

FrameOf(order) == [n \in 1 .. FRAME_BYTES |->
                     [byte |-> ByteOf(order, n - 1), last |-> n = FRAME_BYTES]]

Held(got, ready, line, bready) == IF ready /\ line # None THEN line
                                  ELSE IF wr_state = "W_RESP" /\ bready
                                       THEN None ELSE got

----------------------------------------------------------------------------
Init == /\ RegBankReset
        /\ LatcherReset(NoOrder)
        /\ BuilderReset
        /\ aw_got = None
        /\ w_got = None
        /\ frame = <<>>

ClockEdge(aw, w, bready, ar, rready, tready) ==
  /\ RegBankEdge(aw, w, bready, ar, rready, tx_ready)
  /\ LatcherEdge(ord, doorbell_pulse, frame_builder_busy)
  /\ BuilderEdge(cmd_valid, tready)
  /\ aw_got' = Held(aw_got, AwReady, aw, bready)
  /\ w_got' = Held(w_got, WReady, w, bready)
  /\ frame' = IF accept_order THEN <<>>
              ELSE IF Tvalid /\ tready THEN Append(frame, Beat) ELSE frame

\* rst_n is asynchronous: the registers clear between two edges.
Reset == /\ ClearRegBank
         /\ ClearLatcher(NoOrder)
         /\ ClearBuilder
         /\ aw_got' = None
         /\ w_got' = None
         /\ frame' = <<>>

(* What the lines may carry.  A line is read in some states only; in the    *)
(* others it is given one value, which loses no behaviour.                 *)
Line(ready, values) == IF ready THEN values \cup {None} ELSE {None}
Accepts(asked)      == IF asked THEN BOOLEAN ELSE {FALSE}

Edge == \E aw \in Line(AwReady, Addrs), w \in Line(WReady, Data),
           ar \in Line(ArReady, Addrs), bready \in Accepts(bvalid),
           rready \in Accepts(rvalid), tready \in Accepts(Tvalid) :
             ClockEdge(aw, w, bready, ar, rready, tready)

Next == Edge \/ Reset

Spec == Init /\ [][Next]_vars

----------------------------------------------------------------------------
(* Properties.                                                             *)

\* Every register and every history keeps its type.
TypeOK == /\ RegBankTypeOK
          /\ BuilderTypeOK
          /\ cmd_valid \in BOOLEAN
          /\ cmd \in Orders
          /\ aw_got \in Addrs \cup {None}
          /\ w_got \in Data \cup {None}
          /\ frame \in Seq(Beats) /\ Len(frame) <= FRAME_BYTES

\* A write is answered exactly when one address and one word have been
\* accepted for it, in whichever order they came, and a half-accepted write is
\* never answered (the reason the write FSM exists).
AnsweredWhenPaired ==
  /\ bvalid <=> (wr_state = "W_RESP")
  /\ bvalid <=> (aw_got # None /\ w_got # None)
  /\ wr_state = "W_IDLE" => aw_got = None /\ w_got = None
  /\ wr_state = "W_WAIT_DATA" => aw_got = wr_addr_q /\ w_got = None
  /\ wr_state = "W_WAIT_ADDR" => aw_got = None /\ w_got = wr_data_q

Paired(aw, w) == aw # None /\ w # None

\* The write takes effect at the edge that completes the pair and at no other:
\* it changes the register it is addressed to and no other, and rings the
\* doorbell only when it wrote an odd word there.  A half write that was cut
\* off by a reset leaves nothing behind that could ring it later.
WritesTakeEffectOnce ==
  [][\/ RegBankReset'
     \/ LET pair == Paired(aw_got', w_got') /\ ~Paired(aw_got, w_got)
        IN  /\ doorbell_pulse' <=>
                 (pair /\ aw_got' = "DOORBELL" /\ w_got' % 2 = 1)
            /\ ord' = IF pair /\ aw_got' \in Fields
                      THEN [ord EXCEPT ![aw_got'] = w_got'] ELSE ord]_vars

\* The registers do not change under the latch: in the cycle of the pulse no
\* write can commit, because its response is still owed.
StableUnderPulse ==
  [][doorbell_pulse => ord' = ord \/ RegBankReset']_vars

\* A frame on the wire is the snapshot of one order from its first byte to its
\* last; the order path implements OrderEgress.
Egress == INSTANCE OrderEgress
            WITH Registers <- Fields, Words <- Data, Nobody <- None,
                 regs <- ord, job <- IF frame_builder_busy THEN cmd ELSE None
ImplementsOrderEgress == Egress!Spec

\* TX_READY is 0 from the cycle of the command to the last byte taken
\* (tb_tx_top.sv asserts both halves).
ReadyOnlyWhenFree == /\ cmd_valid => ~tx_ready
                     /\ Tvalid => ~tx_ready
                     /\ cmd_valid => ~Tvalid
============================================================================
