---------------------------- MODULE WireFormat ----------------------------
(***************************************************************************)
(* The two packets of the system, as the places that know them lay them    *)
(* out: Table 6, a market message on its way to the board, and Table 7, an *)
(* order on its way back.  Table 7 is written down four times: in the      *)
(* order writer of the PS (order_execution.c), in the frame builder of the *)
(* PL (tx_frame_builder.sv), in the generator of the test benches' frames  *)
(* (generate_golden_frames.py) and in the format strings of the simulator, *)
(* the mock FPGA and the checker.                                          *)
(*                                                                         *)
(* A packet is the sequence of its bytes.  Numbers are below 2^31, the     *)
(* width of TLC's integers; the code has 32 bits.                          *)
(***************************************************************************)
EXTENDS Integers, Sequences, SequencesExt

Byte == 0 .. 255

\* Little endian: struct.pack with "<", put_u16_le and put_u32_le.
LE2(n) == <<n % 256, (n \div 256) % 256>>
LE4(n) == <<n % 256, (n \div 256) % 256, (n \div 65536) % 256,
            (n \div 16777216) % 256>>
Word2(b, at) == b[at] + 256 * b[at + 1]
Word4(b, at) == b[at] + 256 * b[at + 1] + 65536 * b[at + 2] + 16777216 * b[at + 3]

BE2(n) == Reverse(LE2(n))

----------------------------------------------------------------------------
(* Table 6, "<B H I I B I I I": message type, version, price, quantity,    *)
(* side, order ID, sequence number, padding.                               *)

Pack6(m) == <<m.msg_type>> \o LE2(1) \o LE4(m.price) \o LE4(m.qty) \o <<m.side>>
            \o LE4(m.id) \o LE4(m.seq) \o LE4(0)

Unpack6(b) == [msg_type |-> b[1], price |-> Word4(b, 4), qty |-> Word4(b, 8),
               side |-> b[12], id |-> Word4(b, 13), seq |-> Word4(b, 17)]

(* Table 7, "<I H B I I B": order ID, symbol, side, quantity, price,       *)
(* padding.                                                                *)

Pack7(o) == LE4(o.order_id) \o LE2(o.symbol) \o <<o.side>> \o LE4(o.qty)
            \o LE4(o.price) \o <<0>>

Unpack7(b) == [order_id |-> Word4(b, 1), symbol |-> Word2(b, 5), side |-> b[7],
               qty |-> Word4(b, 8), price |-> Word4(b, 12)]

----------------------------------------------------------------------------
(* encode_order                                                            *)

AAPL_SYMBOL_ID     == 1
ORDER_PACKET_BYTES == 16

\* put_u16_le(out + at, n) and put_u32_le(out + at, n); out counts from 0.
Put(out, at, bytes) ==
  [k \in DOMAIN out |-> IF k - at \in 0 .. Len(bytes) - 1 THEN bytes[k - at + 1]
                        ELSE out[k]]

\* table7_side: a HOLD must never reach egress.
Table7Side == [BUY |-> 1, SELL |-> 2]

EncodeOrder(decision, order_id) ==
  LET blank == [k \in 0 .. ORDER_PACKET_BYTES - 1 |-> 0]
      id    == Put(blank, 0, LE4(order_id))
      sym   == Put(id, 4, LE2(AAPL_SYMBOL_ID))
      side  == Put(sym, 6, <<Table7Side[decision.side]>>)
      qty   == Put(side, 7, LE4(decision.qty))
      price == Put(qty, 11, LE4(decision.price))
  IN  [k \in 1 .. ORDER_PACKET_BYTES |-> price[k - 1]]

----------------------------------------------------------------------------
(* The frame builder: constants of the Ethernet, IPv4 and UDP headers, big *)
(* endian, and the byte multiplexer.                                       *)

DST_MAC     == <<2, 0, 0, 0, 0, 2>>
SRC_MAC     == <<2, 0, 0, 0, 0, 1>>
ETHERTYPE   == <<8, 0>>
IP_FIXED    == <<69, 0, 0, 44, 0, 0, 64, 0, 64, 17>>
IP_CHECKSUM == <<183, 82>>
SRC_IP      == <<192, 168, 1, 10>>
DST_IP      == <<192, 168, 1, 20>>
UDP_HEADER  == <<48, 57, 48, 58, 0, 24, 0, 0>>

HeaderBytes == DST_MAC \o SRC_MAC \o ETHERTYPE \o IP_FIXED \o IP_CHECKSUM
               \o SRC_IP \o DST_IP \o UDP_HEADER

\* Variant: the quantity goes out big endian, as the header does.
PlFrameMixed(cmd) ==
  HeaderBytes \o LE4(cmd.order_id) \o LE2(cmd.symbol) \o <<cmd.side>>
  \o Reverse(LE4(cmd.qty)) \o LE4(cmd.price) \o <<0>>
PlFrame(cmd) ==
  HeaderBytes \o LE4(cmd.order_id) \o LE2(cmd.symbol) \o <<cmd.side>>
  \o LE4(cmd.qty) \o LE4(cmd.price) \o <<0>>

----------------------------------------------------------------------------
(* The generator of golden frames.                                         *)

\* The 16-bit words of a header, added with end-around carry.
Carry[s \in Nat] == IF s < 65536 THEN s ELSE Carry[(s % 65536) + (s \div 65536)]
OnesSum(bytes) ==
  Carry[FoldLeft(LAMBDA sum, k : sum + 256 * bytes[2 * k - 1] + bytes[2 * k], 0,
                 [k \in 1 .. Len(bytes) \div 2 |-> k])]
\* compute_ip_checksum: the complement of the sum.
IpChecksum(bytes) == 65535 - OnesSum(bytes)

\* build_network_header
IpHeader(checksum) ==
  <<69, 0>> \o BE2(44) \o BE2(0) \o BE2(16384) \o <<64, 17>> \o BE2(checksum)
  \o <<192, 168, 1, 10>> \o <<192, 168, 1, 20>>
NetworkHeader ==
  <<2, 0, 0, 0, 0, 2>> \o <<2, 0, 0, 0, 0, 1>> \o BE2(2048)
  \o IpHeader(IpChecksum(IpHeader(0)))
  \o BE2(12345) \o BE2(12346) \o BE2(24) \o BE2(0)

\* create_order_frame
GoldenFrame(o) == NetworkHeader \o Pack7(o)

----------------------------------------------------------------------------
(* The mock FPGA: a market message comes back as an order.                 *)

SYMBOL_ID == 1

MockReply(frame) ==
  LET m == Unpack6(frame)
  IN  Pack7([order_id |-> m.id, symbol |-> SYMBOL_ID, side |-> m.side,
             qty |-> m.qty, price |-> m.price])
============================================================================
