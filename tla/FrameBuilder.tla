---------------------------- MODULE FrameBuilder ----------------------------
(***************************************************************************)
(* The frame builder (tx_frame_builder.sv): a command starts a frame, and  *)
(* a byte counter walks through its bytes as the sink takes them.  Layout  *)
(* names what each byte of the frame shows: a header constant, padding, or *)
(* a field of the command.                                                 *)
(***************************************************************************)
EXTENDS Naturals, Sequences

CONSTANT Layout

ASSUME LayoutAssumption == Layout \in Seq(STRING) /\ Len(Layout) \in Nat \ {0}

VARIABLES state, byte_cnt

builderVars == <<state, byte_cnt>>

FRAME_BYTES == Len(Layout)

BuilderTypeOK == /\ state \in {"ST_IDLE", "ST_SEND"}
                 /\ byte_cnt \in 0 .. FRAME_BYTES - 1

BuilderReset == state = "ST_IDLE" /\ byte_cnt = 0
ClearBuilder == state' = "ST_IDLE" /\ byte_cnt' = 0

\* Busy rises in the same cycle as the command.
\* Variant: busy is the state register alone and rises a cycle late.
BusyRegistered(valid) == state = "ST_SEND"
Busy(valid) == \/ state = "ST_SEND"
               \/ state = "ST_IDLE" /\ valid

Tvalid == state = "ST_SEND"
\* Variant: the frame ends one byte late.
TlastLate == state = "ST_SEND" /\ byte_cnt = FRAME_BYTES
Tlast  == state = "ST_SEND" /\ byte_cnt = FRAME_BYTES - 1

\* Byte number n of the frame of an order.
ByteOf(order, n) ==
  LET source == Layout[n + 1]
  IN  [source |-> source,
       value  |-> IF source \in DOMAIN order THEN order[source] ELSE 0]

StartFrame(valid) == /\ state = "ST_IDLE" /\ valid
                     /\ state' = "ST_SEND"
                     /\ byte_cnt' = 0

NextByte(tready) == /\ state = "ST_SEND" /\ tready /\ ~Tlast
                    /\ byte_cnt' = byte_cnt + 1
                    /\ UNCHANGED state

\* Variant: after the last byte the builder goes on sending.
AfterLastByteSending == state
AfterLastByte == "ST_IDLE"

EndFrame(tready) == /\ Tlast /\ tready
                    /\ state' = AfterLastByte
                    /\ byte_cnt' = 0

BuilderWait(valid, tready) == /\ \/ state = "ST_IDLE" /\ ~valid
                                 \/ state = "ST_SEND" /\ ~tready
                              /\ UNCHANGED builderVars

BuilderEdge(valid, tready) == \/ StartFrame(valid)
                              \/ NextByte(tready)
                              \/ EndFrame(tready)
                              \/ BuilderWait(valid, tready)
============================================================================
