--------------------------- MODULE ExchangeProofs ---------------------------
(***************************************************************************)
(* Proofs about WireFormat and ExchangeSession, for every slice, any       *)
(* number of sessions and any number of datagrams lost and overtaken: what *)
(* is packed is read back, what a verdict of the checker means, what the   *)
(* backtest reads of a slice, and that the one format has the same bytes   *)
(* wherever it is written.                                                 *)
(***************************************************************************)
EXTENDS ExchangeSession, Folding, FiniteSetTheorems, SequenceTheorems, TLAPS

----------------------------------------------------------------------------
(* The packets of WireFormat, for every order and message the 32-bit fields *)
(* can carry.                                                              *)

\* Joining two packets, byte by byte.
IsBytes(b, n) == b \in Seq(Byte) /\ Len(b) = n
Joined(c, a, n, b, m) ==
  /\ IsBytes(c, n + m)
  /\ \A k \in 1 .. n : c[k] = a[k]
  /\ \A k \in n + 1 .. n + m : c[k] = b[k - n]
LEMMA Cat ==
  ASSUME NEW n \in Nat, NEW m \in Nat, NEW a, NEW b, IsBytes(a, n), IsBytes(b, m)
  PROVE  Joined(a \o b, a, n, b, m)
<1>0. a \in Seq(Byte) /\ b \in Seq(Byte) /\ Len(a) = n /\ Len(b) = m  BY DEF IsBytes
<1>1. /\ a \o b \in Seq(Byte) /\ Len(a \o b) = n + m
      /\ \A k \in 1 .. n + m :
           (a \o b)[k] = IF k <= n THEN a[k] ELSE b[k - n]
  BY <1>0, ConcatProperties
<1>. QED  BY <1>1 DEF IsBytes, Joined

LEMMA LE4Values ==
  ASSUME NEW n \in Int
  PROVE  /\ LE4(n) \in Seq(Byte) /\ Len(LE4(n)) = 4
         /\ LE4(n)[1] = n % 256 /\ LE4(n)[2] = (n \div 256) % 256
         /\ LE4(n)[3] = (n \div 65536) % 256 /\ LE4(n)[4] = (n \div 16777216) % 256
<1>1. n % 256 \in Byte /\ (n \div 256) % 256 \in Byte /\ (n \div 65536) % 256 \in Byte
      /\ (n \div 16777216) % 256 \in Byte
  BY DEF Byte
<1>. QED  BY <1>1 DEF LE4

LEMMA LE4Bytes == ASSUME NEW n \in Int  PROVE IsBytes(LE4(n), 4)
BY LE4Values, SMT DEF IsBytes

LEMMA LE2Bytes ==
  ASSUME NEW n \in Int
  PROVE  /\ IsBytes(LE2(n), 2)
         /\ LE2(n)[1] = n % 256 /\ LE2(n)[2] = (n \div 256) % 256
<1>1. n % 256 \in Byte /\ (n \div 256) % 256 \in Byte
  BY DEF Byte
<1>. QED  BY <1>1 DEF LE2, IsBytes

LEMMA OneByte == ASSUME NEW x \in Byte
  PROVE  IsBytes(<<x>>, 1) /\ <<x>>[1] = x
BY DEF IsBytes

WireOrder == [order_id : Int, symbol : Int, side : Byte, qty : Int, price : Int]
LEMMA Pack7Bytes ==
  ASSUME NEW o \in WireOrder
  PROVE  /\ IsBytes(Pack7(o), 16)
         /\ \A k \in 1 .. 4 : /\ Pack7(o)[k] = LE4(o.order_id)[k]
                              /\ Pack7(o)[k + 7] = LE4(o.qty)[k]
                              /\ Pack7(o)[k + 11] = LE4(o.price)[k]
         /\ \A k \in 1 .. 2 : Pack7(o)[k + 4] = LE2(o.symbol)[k]
         /\ Pack7(o)[7] = <<o.side>>[1] /\ Pack7(o)[16] = <<0>>[1]
<1>. DEFINE p1 == LE4(o.order_id)
            p2 == LE2(o.symbol)
            p3 == <<o.side>>
            p4 == LE4(o.qty)
            p5 == LE4(o.price)
            p6 == <<0>>
<1>. DEFINE q2 == p1 \o p2
            q3 == q2 \o p3
            q4 == q3 \o p4
            q5 == q4 \o p5
            q6 == q5 \o p6
<1>. HIDE DEF p1, p2, p3, p4, p5, p6,
              q2, q3, q4, q5, q6
<1>0. 1 \in Nat /\ 2 \in Nat /\ 4 \in Nat /\ 6 \in Nat /\ 7 \in Nat /\ 11 \in Nat /\ 15 \in Nat /\ 16 \in Nat
  OBVIOUS
<1>1. IsBytes(p1, 4) /\ IsBytes(p2, 2) /\ IsBytes(p3, 1) /\ IsBytes(p4, 4) /\ IsBytes(p5, 4) /\ IsBytes(p6, 1)
  <2>1. /\ o.order_id \in Int /\ o.symbol \in Int /\ o.side \in Byte /\ o.qty \in Int
        /\ o.price \in Int /\ 0 \in Byte
    BY DEF WireOrder, Byte
  <2>2. IsBytes(p1, 4)  BY <2>1, LE4Bytes, Zenon DEF p1
  <2>5. IsBytes(p4, 4)  BY <2>1, LE4Bytes, Zenon DEF p4
  <2>6. IsBytes(p5, 4)  BY <2>1, LE4Bytes, Zenon DEF p5
  <2>3. IsBytes(p2, 2)
    BY <2>1, LE2Bytes, Zenon DEF p2
  <2>4. IsBytes(p3, 1) /\ IsBytes(p6, 1)
    BY <2>1, OneByte, Zenon DEF p3, p6
  <2>. QED  BY <2>2, <2>3, <2>4, <2>5, <2>6
<1>2. Joined(q2, p1, 4, p2, 2) /\ IsBytes(q2, 6)
  <2>1. Joined(q2, p1, 4, p2, 2)  BY <1>0, <1>1, Cat, Zenon DEF q2
  <2>. QED  BY <2>1 DEF Joined
<1>3. Joined(q3, q2, 6, p3, 1) /\ IsBytes(q3, 7)
  <2>1. Joined(q3, q2, 6, p3, 1)  BY <1>0, <1>1, <1>2, Cat, Zenon DEF q3
  <2>. QED  BY <2>1 DEF Joined
<1>4. Joined(q4, q3, 7, p4, 4) /\ IsBytes(q4, 11)
  <2>1. Joined(q4, q3, 7, p4, 4)  BY <1>0, <1>1, <1>3, Cat, Zenon DEF q4
  <2>. QED  BY <2>1 DEF Joined
<1>5. Joined(q5, q4, 11, p5, 4) /\ IsBytes(q5, 15)
  <2>1. Joined(q5, q4, 11, p5, 4)  BY <1>0, <1>1, <1>4, Cat, Zenon DEF q5
  <2>. QED  BY <2>1 DEF Joined
<1>6. Joined(q6, q5, 15, p6, 1) /\ IsBytes(q6, 16)
  <2>1. Joined(q6, q5, 15, p6, 1)  BY <1>0, <1>1, <1>5, Cat, Zenon DEF q6
  <2>. QED  BY <2>1 DEF Joined
<1>7. Pack7(o) = q6
  BY Zenon DEF Pack7, q2, q3, q4, q5, q6,
    p1, p2, p3, p4, p5, p6
<1>8. /\ \A k \in 1 .. 4 : q6[k] = p1[k] /\ q6[k + 7] = p4[k] /\ q6[k + 11] = p5[k]
      /\ \A k \in 1 .. 2 : q6[k + 4] = p2[k]
      /\ q6[7] = p3[1] /\ q6[16] = p6[1]
  BY <1>1, <1>2, <1>3, <1>4, <1>5, <1>6 DEF Joined
<1>. QED  BY <1>6, <1>7, <1>8, Zenon DEF p1, p2, p3, p4, p5, p6

WireMessage == [msg_type : Byte, price : Int, qty : Int, side : Byte, id : Int, seq : Int]
LEMMA Pack6Bytes ==
  ASSUME NEW m \in WireMessage
  PROVE  /\ IsBytes(Pack6(m), 24)
         /\ \A k \in 1 .. 4 : /\ Pack6(m)[k + 3] = LE4(m.price)[k]
                              /\ Pack6(m)[k + 7] = LE4(m.qty)[k]
                              /\ Pack6(m)[k + 12] = LE4(m.id)[k]
                              /\ Pack6(m)[k + 16] = LE4(m.seq)[k]
         /\ Pack6(m)[1] = <<m.msg_type>>[1] /\ Pack6(m)[12] = <<m.side>>[1]
         /\ \A k \in 1 .. 2 : Pack6(m)[k + 1] = LE2(1)[k]
         /\ \A k \in 1 .. 4 : Pack6(m)[k + 20] = LE4(0)[k]
<1>. DEFINE p1 == <<m.msg_type>>
            p2 == LE2(1)
            p3 == LE4(m.price)
            p4 == LE4(m.qty)
            p5 == <<m.side>>
            p6 == LE4(m.id)
            p7 == LE4(m.seq)
            p8 == LE4(0)
<1>. DEFINE q2 == p1 \o p2
            q3 == q2 \o p3
            q4 == q3 \o p4
            q5 == q4 \o p5
            q6 == q5 \o p6
            q7 == q6 \o p7
            q8 == q7 \o p8
<1>. HIDE DEF p1, p2, p3, p4, p5, p6, p7, p8,
              q2, q3, q4, q5, q6, q7, q8
<1>0. /\ 1 \in Nat /\ 2 \in Nat /\ 3 \in Nat /\ 4 \in Nat /\ 7 \in Nat
      /\ 11 \in Nat /\ 12 \in Nat /\ 16 \in Nat /\ 20 \in Nat /\ 24 \in Nat
  OBVIOUS
<1>1. /\ IsBytes(p1, 1) /\ IsBytes(p2, 2) /\ IsBytes(p3, 4) /\ IsBytes(p4, 4)
      /\ IsBytes(p5, 1) /\ IsBytes(p6, 4) /\ IsBytes(p7, 4) /\ IsBytes(p8, 4)
  <2>1. /\ m.msg_type \in Byte /\ m.price \in Int /\ m.qty \in Int /\ m.side \in Byte /\ m.id \in Int
        /\ m.seq \in Int /\ 0 \in Int /\ 1 \in Int
    BY DEF WireMessage, Byte
  <2>2. IsBytes(p3, 4)  BY <2>1, LE4Bytes, Zenon DEF p3
  <2>5. IsBytes(p4, 4)  BY <2>1, LE4Bytes, Zenon DEF p4
  <2>6. IsBytes(p6, 4)  BY <2>1, LE4Bytes, Zenon DEF p6
  <2>7. IsBytes(p7, 4)  BY <2>1, LE4Bytes, Zenon DEF p7
  <2>8. IsBytes(p8, 4)  BY <2>1, LE4Bytes, Zenon DEF p8
  <2>3. IsBytes(p2, 2)
    BY <2>1, LE2Bytes, Zenon DEF p2
  <2>4. IsBytes(p1, 1) /\ IsBytes(p5, 1)
    BY <2>1, OneByte, Zenon DEF p1, p5
  <2>. QED  BY <2>2, <2>3, <2>4, <2>5, <2>6, <2>7, <2>8
<1>2. Joined(q2, p1, 1, p2, 2) /\ IsBytes(q2, 3)
  <2>1. Joined(q2, p1, 1, p2, 2)  BY <1>0, <1>1, Cat, Zenon DEF q2
  <2>. QED  BY <2>1 DEF Joined
<1>3. Joined(q3, q2, 3, p3, 4) /\ IsBytes(q3, 7)
  <2>1. Joined(q3, q2, 3, p3, 4)  BY <1>0, <1>1, <1>2, Cat, Zenon DEF q3
  <2>. QED  BY <2>1 DEF Joined
<1>4. Joined(q4, q3, 7, p4, 4) /\ IsBytes(q4, 11)
  <2>1. Joined(q4, q3, 7, p4, 4)  BY <1>0, <1>1, <1>3, Cat, Zenon DEF q4
  <2>. QED  BY <2>1 DEF Joined
<1>5. Joined(q5, q4, 11, p5, 1) /\ IsBytes(q5, 12)
  <2>1. Joined(q5, q4, 11, p5, 1)  BY <1>0, <1>1, <1>4, Cat, Zenon DEF q5
  <2>. QED  BY <2>1 DEF Joined
<1>6. Joined(q6, q5, 12, p6, 4) /\ IsBytes(q6, 16)
  <2>1. Joined(q6, q5, 12, p6, 4)  BY <1>0, <1>1, <1>5, Cat, Zenon DEF q6
  <2>. QED  BY <2>1 DEF Joined
<1>7. Joined(q7, q6, 16, p7, 4) /\ IsBytes(q7, 20)
  <2>1. Joined(q7, q6, 16, p7, 4)  BY <1>0, <1>1, <1>6, Cat, Zenon DEF q7
  <2>. QED  BY <2>1 DEF Joined
<1>8. Joined(q8, q7, 20, p8, 4) /\ IsBytes(q8, 24)
  <2>1. Joined(q8, q7, 20, p8, 4)  BY <1>0, <1>1, <1>7, Cat, Zenon DEF q8
  <2>. QED  BY <2>1 DEF Joined
<1>9. Pack6(m) = q8
  BY Zenon DEF Pack6, q2, q3, q4, q5, q6, q7, q8,
    p1, p2, p3, p4, p5, p6, p7, p8
<1>10. /\ \A k \in 1 .. 4 : /\ q8[k + 3] = p3[k] /\ q8[k + 7] = p4[k]
                           /\ q8[k + 12] = p6[k] /\ q8[k + 16] = p7[k]
      /\ q8[1] = p1[1] /\ q8[12] = p5[1]
  BY <1>1, <1>2, <1>3, <1>4, <1>5, <1>6, <1>7, <1>8 DEF Joined
<1>11. /\ \A k \in 1 .. 2 : q8[k + 1] = p2[k]
       /\ \A k \in 1 .. 4 : q8[k + 20] = p8[k]
  BY <1>2, <1>3, <1>4, <1>5, <1>6, <1>7, <1>8 DEF Joined
<1>. QED  BY <1>8, <1>9, <1>10, <1>11, Zenon DEF p1, p2, p3, p4, p5, p6, p7, p8

----------------------------------------------------------------------------
(* What is packed is read back.                                            *)

Word32 == {n \in Nat : n < 65536 * 65536}
Word16 == {n \in Nat : n < 65536}

LEMMA FourBytes ==
  ASSUME NEW n \in Word32
  PROVE  (n % 256) + 256 * ((n \div 256) % 256) + 65536 * ((n \div 65536) % 256)
           + 16777216 * ((n \div 16777216) % 256) = n
BY SMTT(60) DEF Word32

LEMMA TwoBytes == ASSUME NEW n \in Word16  PROVE (n % 256) + 256 * ((n \div 256) % 256) = n
BY SMT DEF Word16

LEMMA ReadLE4 ==
  ASSUME NEW n \in Word32, NEW b, NEW at \in Nat,
         b[at] = LE4(n)[1], b[at + 1] = LE4(n)[2], b[at + 2] = LE4(n)[3], b[at + 3] = LE4(n)[4]
  PROVE  Word4(b, at) = n
<1>1. n \in Int  BY SMT DEF Word32
<1>2. /\ LE4(n)[1] = n % 256 /\ LE4(n)[2] = (n \div 256) % 256
      /\ LE4(n)[3] = (n \div 65536) % 256 /\ LE4(n)[4] = (n \div 16777216) % 256
  BY <1>1, LE4Values, SMT
<1>. QED  BY <1>2, FourBytes, SMT DEF Word4

LEMMA ReadLE2 ==
  ASSUME NEW n \in Word16, NEW b, NEW at \in Nat,
         b[at] = LE2(n)[1], b[at + 1] = LE2(n)[2]
  PROVE  Word2(b, at) = n
<1>1. n \in Int  BY SMT DEF Word16
<1>2. LE2(n)[1] = n % 256 /\ LE2(n)[2] = (n \div 256) % 256  BY <1>1, LE2Bytes
<1>. QED  BY <1>2, TwoBytes, SMT DEF Word2

Table7Order == [order_id : Word32, symbol : Word16, side : Byte, qty : Word32, price : Word32]
Table6Message == [msg_type : Byte, price : Word32, qty : Word32, side : Byte, id : Word32,
                  seq : Word32]

\* The order the checker, or the exchange, reads from a Table 7 packet is the
\* order that was packed, field by field, for every value the fields can carry.
THEOREM OrderSurvivesTheWire ==
  ASSUME NEW o \in Table7Order  PROVE Unpack7(Pack7(o)) = o
<1>. DEFINE b == Pack7(o)
<1>1. /\ o \in WireOrder
      /\ o.order_id \in Word32 /\ o.symbol \in Word16 /\ o.side \in Byte
      /\ o.qty \in Word32 /\ o.price \in Word32
  BY SMT DEF Table7Order, WireOrder, Word32, Word16
<1>2. /\ \A k \in 1 .. 4 : /\ b[k] = LE4(o.order_id)[k]
                           /\ b[k + 7] = LE4(o.qty)[k]
                           /\ b[k + 11] = LE4(o.price)[k]
      /\ \A k \in 1 .. 2 : b[k + 4] = LE2(o.symbol)[k]
      /\ b[7] = <<o.side>>[1]
  BY <1>1, Pack7Bytes
<1>. HIDE DEF b
<1>3. /\ b[1] = LE4(o.order_id)[1] /\ b[1 + 1] = LE4(o.order_id)[2]
      /\ b[1 + 2] = LE4(o.order_id)[3] /\ b[1 + 3] = LE4(o.order_id)[4]
      /\ b[8] = LE4(o.qty)[1] /\ b[8 + 1] = LE4(o.qty)[2]
      /\ b[8 + 2] = LE4(o.qty)[3] /\ b[8 + 3] = LE4(o.qty)[4]
      /\ b[12] = LE4(o.price)[1] /\ b[12 + 1] = LE4(o.price)[2]
      /\ b[12 + 2] = LE4(o.price)[3] /\ b[12 + 3] = LE4(o.price)[4]
      /\ b[5] = LE2(o.symbol)[1] /\ b[5 + 1] = LE2(o.symbol)[2]
      /\ b[7] = o.side
  BY <1>2
<1>4. 1 \in Nat /\ 5 \in Nat /\ 8 \in Nat /\ 12 \in Nat  OBVIOUS
<1>5. Word4(b, 1) = o.order_id  BY <1>1, <1>3, <1>4, ReadLE4, Zenon
<1>6. Word4(b, 8) = o.qty  BY <1>1, <1>3, <1>4, ReadLE4, Zenon
<1>7. Word4(b, 12) = o.price  BY <1>1, <1>3, <1>4, ReadLE4, Zenon
<1>8. Word2(b, 5) = o.symbol  BY <1>1, <1>3, <1>4, ReadLE2, Zenon
<1>9. Unpack7(b) = [order_id |-> o.order_id, symbol |-> o.symbol, side |-> o.side,
                    qty |-> o.qty, price |-> o.price]
  BY <1>3, <1>5, <1>6, <1>7, <1>8, Zenon DEF Unpack7
<1>. QED  BY <1>9, SMT DEF Table7Order, b

\* A market message is read back as it was packed; its version and its padding
\* are not read.
THEOREM MessageSurvivesTheWire ==
  ASSUME NEW m \in Table6Message  PROVE Unpack6(Pack6(m)) = m
<1>. DEFINE b == Pack6(m)
<1>1. /\ m \in WireMessage
      /\ m.price \in Word32 /\ m.qty \in Word32 /\ m.id \in Word32 /\ m.seq \in Word32
  BY SMT DEF Table6Message, WireMessage, Word32
<1>2. /\ \A k \in 1 .. 4 : /\ b[k + 3] = LE4(m.price)[k] /\ b[k + 7] = LE4(m.qty)[k]
                           /\ b[k + 12] = LE4(m.id)[k] /\ b[k + 16] = LE4(m.seq)[k]
      /\ b[1] = <<m.msg_type>>[1] /\ b[12] = <<m.side>>[1]
  BY <1>1, Pack6Bytes
<1>. HIDE DEF b
<1>3. /\ b[4] = LE4(m.price)[1] /\ b[4 + 1] = LE4(m.price)[2]
      /\ b[4 + 2] = LE4(m.price)[3] /\ b[4 + 3] = LE4(m.price)[4]
      /\ b[8] = LE4(m.qty)[1] /\ b[8 + 1] = LE4(m.qty)[2]
      /\ b[8 + 2] = LE4(m.qty)[3] /\ b[8 + 3] = LE4(m.qty)[4]
      /\ b[13] = LE4(m.id)[1] /\ b[13 + 1] = LE4(m.id)[2]
      /\ b[13 + 2] = LE4(m.id)[3] /\ b[13 + 3] = LE4(m.id)[4]
      /\ b[17] = LE4(m.seq)[1] /\ b[17 + 1] = LE4(m.seq)[2]
      /\ b[17 + 2] = LE4(m.seq)[3] /\ b[17 + 3] = LE4(m.seq)[4]
      /\ b[1] = m.msg_type /\ b[12] = m.side
  BY <1>2
<1>4. 4 \in Nat /\ 8 \in Nat /\ 13 \in Nat /\ 17 \in Nat  OBVIOUS
<1>5. Word4(b, 4) = m.price  BY <1>1, <1>3, <1>4, ReadLE4, Zenon
<1>6. Word4(b, 8) = m.qty  BY <1>1, <1>3, <1>4, ReadLE4, Zenon
<1>7. Word4(b, 13) = m.id  BY <1>1, <1>3, <1>4, ReadLE4, Zenon
<1>8. Word4(b, 17) = m.seq  BY <1>1, <1>3, <1>4, ReadLE4, Zenon
<1>9. Unpack6(b) = [msg_type |-> m.msg_type, price |-> m.price, qty |-> m.qty,
                    side |-> m.side, id |-> m.id, seq |-> m.seq]
  BY <1>3, <1>5, <1>6, <1>7, <1>8, Zenon DEF Unpack6
<1>. QED  BY <1>9, SMT DEF Table6Message, b

LEMMA ByteOf == ASSUME NEW b \in Seq(Byte), NEW k \in 1 .. Len(b)  PROVE b[k] \in Byte
OBVIOUS

\* The four bytes of a field make a number the field can carry.
LEMMA WordInRange ==
  ASSUME NEW b \in Seq(Byte), NEW at \in 1 .. Len(b) - 3
  PROVE  Word4(b, at) \in Word32
<1>. DEFINE Sum(w, x, y, z) == w + 256 * x + 65536 * y + 16777216 * z
<1>1. \A w, x, y, z \in Byte : Sum(w, x, y, z) \in Word32
  <2>. TAKE w, x, y, z \in Byte
  <2>1. /\ w \in Nat /\ w < 256 /\ x \in Nat /\ x < 256
        /\ y \in Nat /\ y < 256 /\ z \in Nat /\ z < 256
    BY DEF Byte
  <2>. QED  BY <2>1, SMT DEF Word32
<1>2. b[at] \in Byte /\ b[at + 1] \in Byte /\ b[at + 2] \in Byte /\ b[at + 3] \in Byte
  OBVIOUS
<1>3. Word4(b, at) = Sum(b[at], b[at + 1], b[at + 2], b[at + 3])
  BY SMT DEF Word4
<1>. HIDE DEF Sum
<1>. QED  BY <1>1, <1>2, <1>3, Zenon

\* Whatever 24 bytes come in, what the mock answers has their order ID, side,
\* quantity and price.
THEOREM MockEchoes ==
  ASSUME NEW b \in Seq(Byte), Len(b) = 24
  PROVE  Unpack7(MockReply(b)) =
           [order_id |-> Unpack6(b).id, symbol |-> SYMBOL_ID, side |-> Unpack6(b).side,
            qty |-> Unpack6(b).qty, price |-> Unpack6(b).price]
<1>. DEFINE o == [order_id |-> Unpack6(b).id, symbol |-> SYMBOL_ID, side |-> Unpack6(b).side,
                  qty |-> Unpack6(b).qty, price |-> Unpack6(b).price]
<1>1. Word4(b, 4) \in Word32 /\ Word4(b, 8) \in Word32 /\ Word4(b, 13) \in Word32
  <2>1. 4 \in 1 .. Len(b) - 3 /\ 8 \in 1 .. Len(b) - 3 /\ 13 \in 1 .. Len(b) - 3
    OBVIOUS
  <2>. QED  BY <2>1, WordInRange, Zenon
<1>2. b[12] \in Byte
  <2>1. 12 \in 1 .. Len(b)  OBVIOUS
  <2>. QED  BY <2>1, ByteOf, Zenon
<1>3. o \in Table7Order
  BY <1>1, <1>2, SMT DEF Table7Order, Unpack6, SYMBOL_ID, Word16
<1>4. MockReply(b) = Pack7(o)  BY DEF MockReply
<1>. HIDE DEF o
<1>5. Unpack7(MockReply(b)) = o  BY <1>3, <1>4, OrderSurvivesTheWire
<1>. QED  BY <1>5 DEF o

----------------------------------------------------------------------------
(* The order writer of the PS.                                             *)

\* A buffer of 16 bytes, counted from 0, and the same with n bytes put into it.
Buffer(out) == out = [k \in 0 .. 15 |-> out[k]]
Written(c, out, at, bytes, n) ==
  /\ Buffer(c)
  /\ \A k \in 0 .. 15 : c[k] = IF k >= at /\ k < at + n THEN bytes[k - at + 1] ELSE out[k]
LEMMA PutInto ==
  ASSUME NEW out, Buffer(out), NEW at \in Nat, NEW n \in Nat, NEW bytes, IsBytes(bytes, n)
  PROVE  Written(Put(out, at, bytes), out, at, bytes, n)
<1>1. DOMAIN out = 0 .. 15  BY DEF Buffer
<1>2. Len(bytes) = n  BY DEF IsBytes
<1>. DEFINE c == [k \in 0 .. 15 |-> IF k - at \in 0 .. n - 1 THEN bytes[k - at + 1] ELSE out[k]]
<1>3. Put(out, at, bytes) = c
  BY <1>1, <1>2 DEF Put
<1>4. Buffer(c)  BY DEF Buffer
<1>5. ASSUME NEW k \in 0 .. 15
      PROVE  c[k] = IF k >= at /\ k < at + n THEN bytes[k - at + 1] ELSE out[k]
  <2>1. k - at \in 0 .. n - 1 <=> k >= at /\ k < at + n  OBVIOUS
  <2>2. c[k] = IF k - at \in 0 .. n - 1 THEN bytes[k - at + 1] ELSE out[k]  OBVIOUS
  <2>. QED  BY <2>1, <2>2, Zenon
<1>. HIDE DEF c
<1>. QED  BY <1>3, <1>4, <1>5, Zenon DEF Written

\* The order writer in C and the format strings in Python put the same bytes on
\* the wire, whatever the order (encode_order next to "<I H B I I B").
THEOREM WriterUsesTable7 ==
  ASSUME NEW decision, NEW order_id \in Int, decision.side \in {"BUY", "SELL"},
         decision.qty \in Int, decision.price \in Int
  PROVE  EncodeOrder(decision, order_id) =
           Pack7([order_id |-> order_id, symbol |-> AAPL_SYMBOL_ID,
                  side |-> Table7Side[decision.side], qty |-> decision.qty,
                  price |-> decision.price])
<1>. DEFINE o == [order_id |-> order_id, symbol |-> AAPL_SYMBOL_ID,
                  side |-> Table7Side[decision.side], qty |-> decision.qty,
                  price |-> decision.price]
            p1 == LE4(o.order_id)
            p2 == LE2(o.symbol)
            p3 == <<o.side>>
            p4 == LE4(o.qty)
            p5 == LE4(o.price)
            b0 == [k \in 0 .. 15 |-> 0]
            b1 == Put(b0, 0, p1)
            b2 == Put(b1, 4, p2)
            b3 == Put(b2, 6, p3)
            b4 == Put(b3, 7, p4)
            b5 == Put(b4, 11, p5)
<1>1. o \in WireOrder
  BY DEF WireOrder, AAPL_SYMBOL_ID, Table7Side, Byte
<1>2. EncodeOrder(decision, order_id) = [k \in 1 .. 16 |-> b5[k - 1]]
  BY DEF EncodeOrder, ORDER_PACKET_BYTES
<1>3. Buffer(b0) /\ \A k \in 0 .. 15 : b0[k] = 0  BY DEF Buffer
<1>4. /\ o.order_id \in Int /\ o.symbol \in Int /\ o.side \in Byte /\ o.qty \in Int
      /\ o.price \in Int
  BY <1>1 DEF WireOrder
<1>. HIDE DEF o
<1>5. IsBytes(p1, 4)  BY <1>4, LE4Bytes, Zenon
<1>6. IsBytes(p2, 2)  BY <1>4, LE2Bytes, Zenon
<1>7. IsBytes(p3, 1)  BY <1>4, OneByte, Zenon
<1>8. IsBytes(p4, 4)  BY <1>4, LE4Bytes, Zenon
<1>9. IsBytes(p5, 4)  BY <1>4, LE4Bytes, Zenon
<1>10. /\ \A k \in 1 .. 4 : /\ Pack7(o)[k] = p1[k]
                            /\ Pack7(o)[k + 7] = p4[k]
                            /\ Pack7(o)[k + 11] = p5[k]
       /\ \A k \in 1 .. 2 : Pack7(o)[k + 4] = p2[k]
       /\ Pack7(o)[7] = p3[1] /\ Pack7(o)[16] = <<0>>[1]
  BY <1>1, Pack7Bytes
<1>11. IsBytes(Pack7(o), 16)  BY <1>1, Pack7Bytes, Zenon
<1>. HIDE DEF p1, p2, p3, p4, p5, b0
<1>12. 0 \in Nat /\ 1 \in Nat /\ 2 \in Nat /\ 4 \in Nat /\ 6 \in Nat /\ 7 \in Nat /\ 11 \in Nat
  OBVIOUS
<1>13. Written(b1, b0, 0, p1, 4)
  BY <1>3, <1>5, <1>12, PutInto, Zenon
<1>. HIDE DEF b1
<1>14. Written(b2, b1, 4, p2, 2)
  <2>1. Buffer(b1)  BY <1>13 DEF Written
  <2>. QED  BY <1>6, <1>12, <2>1, PutInto, Zenon
<1>. HIDE DEF b2
<1>15. Written(b3, b2, 6, p3, 1)
  <2>1. Buffer(b2)  BY <1>14 DEF Written
  <2>. QED  BY <1>7, <1>12, <2>1, PutInto, Zenon
<1>. HIDE DEF b3
<1>16. Written(b4, b3, 7, p4, 4)
  <2>1. Buffer(b3)  BY <1>15 DEF Written
  <2>. QED  BY <1>8, <1>12, <2>1, PutInto, Zenon
<1>. HIDE DEF b4
<1>17. Written(b5, b4, 11, p5, 4)
  <2>1. Buffer(b4)  BY <1>16 DEF Written
  <2>. QED  BY <1>9, <1>12, <2>1, PutInto, Zenon
<1>. HIDE DEF b5
<1>18. ASSUME NEW k \in 1 .. 16  PROVE b5[k - 1] = Pack7(o)[k]
  <2>1. CASE k \in 1 .. 4
    <3>1. b5[k - 1] = p1[k]  BY <2>1, <1>13, <1>14, <1>15, <1>16, <1>17 DEF Written
    <3>. QED  BY <2>1, <3>1, <1>10
  <2>2. CASE k \in 5 .. 6
    <3>1. b5[k - 1] = p2[k - 4]  BY <2>2, <1>14, <1>15, <1>16, <1>17 DEF Written
    <3>2. k - 4 \in 1 .. 2 /\ (k - 4) + 4 = k  BY <2>2
    <3>. QED  BY <3>1, <3>2, <1>10
  <2>3. CASE k = 7
    BY <2>3, <1>10, <1>15, <1>16, <1>17 DEF Written
  <2>4. CASE k \in 8 .. 11
    <3>1. b5[k - 1] = p4[k - 7]  BY <2>4, <1>16, <1>17 DEF Written
    <3>2. k - 7 \in 1 .. 4 /\ (k - 7) + 7 = k  BY <2>4
    <3>. QED  BY <3>1, <3>2, <1>10
  <2>5. CASE k \in 12 .. 15
    <3>1. b5[k - 1] = p5[k - 11]  BY <2>5, <1>17 DEF Written
    <3>2. k - 11 \in 1 .. 4 /\ (k - 11) + 11 = k  BY <2>5
    <3>. QED  BY <3>1, <3>2, <1>10
  <2>6. CASE k = 16
    BY <2>6, <1>3, <1>10, <1>13, <1>14, <1>15, <1>16, <1>17 DEF Written
  <2>. QED  BY <2>1, <2>2, <2>3, <2>4, <2>5, <2>6
<1>19. Pack7(o) = [k \in 1 .. 16 |-> Pack7(o)[k]]
  <2>1. Pack7(o) \in Seq(Byte) /\ Len(Pack7(o)) = 16  BY <1>11 DEF IsBytes
  <2>. QED  BY <2>1
<1>20. [k \in 1 .. 16 |-> b5[k - 1]] = [k \in 1 .. 16 |-> Pack7(o)[k]]  BY <1>18
<1>. QED  BY <1>2, <1>19, <1>20 DEF o

----------------------------------------------------------------------------
(* The channels of a session.                                              *)

\* A sequence, of whatever elements.
IsSeq(s) == \E S : s \in Seq(S)

LEMMA EmptyIsSeq == IsSeq(<<>>) /\ Len(<<>>) = 0
<1>1. <<>> \in Seq({}) /\ Len(<<>>) = 0  OBVIOUS
<1>. QED  BY <1>1 DEF IsSeq

\* What arrives is put at the end of a channel.
LEMMA AppendAtEnd ==
  ASSUME NEW s, IsSeq(s), NEW e
  PROVE  /\ IsSeq(Append(s, e))
         /\ Len(s) \in Nat /\ Len(Append(s, e)) = Len(s) + 1
         /\ \A k \in 1 .. Len(s) : Append(s, e)[k] = s[k]
         /\ Append(s, e)[Len(s) + 1] = e
<1>1. PICK S : s \in Seq(S)  BY DEF IsSeq
<1>2. s \in Seq(S \cup {e})
  <2>1. Len(s) \in Nat /\ s \in [1 .. Len(s) -> S]  BY <1>1
  <2>2. s \in [1 .. Len(s) -> S \cup {e}]  BY <2>1
  <2>. QED  BY <2>1, <2>2
<1>3. Append(s, e) \in Seq(S \cup {e})  BY <1>2
<1>. QED  BY <1>2, <1>3 DEF IsSeq

\* What is taken first is taken from the front.
LEMMA TakeFirst ==
  ASSUME NEW s, IsSeq(s), s # <<>>
  PROVE  /\ IsSeq(Tail(s)) /\ Len(s) \in Nat \ {0}
         /\ Len(Tail(s)) = Len(s) - 1
         /\ Head(s) = s[1]
         /\ \A k \in 1 .. Len(s) - 1 : Tail(s)[k] = s[k + 1]
<1>1. PICK S : s \in Seq(S)  BY DEF IsSeq
<1>2. Tail(s) \in Seq(S) /\ Len(Tail(s)) = Len(s) - 1 /\ Head(s) = s[1]
      /\ \A k \in 1 .. Len(Tail(s)) : Tail(s)[k] = s[k + 1]
  BY <1>1, HeadTailProperties
<1>3. Len(s) \in Nat /\ Len(s) # 0  BY <1>1
<1>. QED  BY <1>2, <1>3 DEF IsSeq

\* Datagram i leaves its channel.
LEMMA RemoveOne ==
  ASSUME NEW s, IsSeq(s), NEW i \in DOMAIN s
  PROVE  /\ IsSeq(RemoveAt(s, i)) /\ Len(s) \in Nat \ {0}
         /\ Len(RemoveAt(s, i)) = Len(s) - 1
         /\ i = 1 => \A k \in 1 .. Len(s) - 1 : RemoveAt(s, i)[k] = s[k + 1]
<1>1. PICK S : s \in Seq(S)  BY DEF IsSeq
<1>. DEFINE n == Len(s)
            a == SubSeq(s, 1, i - 1)
            b == SubSeq(s, i + 1, n)
<1>2. n \in Nat /\ i \in 1 .. n  BY <1>1
<1>3. a \in Seq(S) /\ Len(a) = i - 1
  BY <1>1, <1>2, SubSeqProperties
<1>4. b \in Seq(S) /\ Len(b) = n - i
      /\ \A k \in 1 .. n - i : b[k] = s[i + k]
  <2>1. CASE i = n
    BY <2>1, <1>1, <1>2, SubSeqProperties
  <2>2. CASE i < n
    BY <2>2, <1>1, <1>2, SubSeqProperties
  <2>. QED  BY <2>1, <2>2, <1>2
<1>. HIDE DEF a, b
<1>5. /\ a \o b \in Seq(S) /\ Len(a \o b) = Len(a) + Len(b)
      /\ \A k \in 1 .. Len(a) + Len(b) :
           (a \o b)[k] = IF k <= Len(a) THEN a[k] ELSE b[k - Len(a)]
  BY <1>3, <1>4, ConcatProperties
<1>6. RemoveAt(s, i) = a \o b  BY DEF RemoveAt, a, b
<1>7. Len(a \o b) = n - 1  BY <1>2, <1>3, <1>4, <1>5
<1>8. ASSUME i = 1, NEW k \in 1 .. n - 1
      PROVE  (a \o b)[k] = s[k + 1]
  <2>1. Len(a) = 0 /\ Len(b) = n - 1  BY <1>8, <1>2, <1>3, <1>4
  <2>2. (a \o b)[k] = b[k]  BY <2>1, <1>5, <1>2
  <2>3. b[k] = s[1 + k]  BY <1>4, <1>8
  <2>. QED  BY <2>2, <2>3, <1>2
<1>. QED  BY <1>1, <1>2, <1>5, <1>6, <1>7, <1>8 DEF IsSeq

\* A channel with nothing to count is empty.
LEMMA EmptyByLength == ASSUME NEW s, IsSeq(s), Len(s) = 0  PROVE  s = <<>>
<1>1. PICK S : s \in Seq(S)  BY DEF IsSeq
<1>. QED  BY <1>1

LEMMA LengthIsNat == ASSUME NEW s, IsSeq(s)  PROVE  Len(s) \in Nat
<1>1. PICK S : s \in Seq(S)  BY DEF IsSeq
<1>. QED  BY <1>1

\* What is written row by row is a sequence of so many rows.
LEMMA RowsAreSeq ==
  ASSUME NEW n \in Nat, NEW s, s = [i \in 1 .. n |-> s[i]]
  PROVE  IsSeq(s) /\ Len(s) = n
<1>. DEFINE S == {s[i] : i \in 1 .. n}
<1>1. s \in [1 .. n -> S]  OBVIOUS
<1>2. s \in Seq(S) /\ Len(s) = n  BY <1>1
<1>. QED  BY <1>2 DEF IsSeq

\* Preprocessing keeps some of the rows, from the first on.
LEMMA LegalRowsBound ==
  ASSUME NEW d \in Days  PROVE  LegalRows(d) \in 0 .. Len(d.messages)
<1>. DEFINE n == Len(d.messages)
            legal == {i \in DOMAIN d.messages : \A j \in 1 .. i : LegalMessage(d.messages[j])}
<1>1. d.messages \in Seq(MessageRow)  BY DayAssumption
<1>2. n \in Nat /\ legal \subseteq 1 .. n  BY <1>1
<1>. HIDE DEF legal
<1>3. IsFiniteSet(1 .. n) /\ Cardinality(1 .. n) = n  BY <1>2, FS_Interval
<1>4. Cardinality(legal) \in Nat /\ Cardinality(legal) <= n
  BY <1>2, <1>3, FS_Subset, FS_CardinalityType
<1>. QED  BY <1>2, <1>4 DEF LegalRows, legal

----------------------------------------------------------------------------
(* The datagrams of a session.                                             *)

\* Orders of this session in the log.
Logged == IF receiver = "receiving" THEN Len(order_log) ELSE 0

ChannelsAreSeqs == /\ IsSeq(frame_file) /\ IsSeq(feed) /\ IsSeq(egress) /\ IsSeq(inbox)
                   /\ receiver = "receiving" => IsSeq(order_log)

\* No more is on the way than was sent, unless an earlier session sent it.
NothingFromNowhere ==
  traffic # "foreign" => Len(feed) + Len(egress) + Len(inbox) + Logged <= sent

\* The main thread and the receiver, step by step.
Progress ==
  /\ day \in Days
  /\ sent \in Nat /\ checked \in Nat /\ sent <= Len(frame_file)
  /\ main \in {"preprocess", "launch"} => sent = 0 /\ receiver = "off"
  /\ main \in {"preprocess", "launch", "replay", "check"} => checked = 0
  /\ fresh => receiver = "receiving" /\ checked <= Len(order_log)
  /\ verdict \in {"consistent", "mismatch"} => main = "ended"
  /\ verdict = "consistent" => checked = Len(frame_file)

SessionInv == ChannelsAreSeqs /\ Progress /\ NothingFromNowhere

LEMMA SessionInvInit == Init => SessionInv
BY EmptyIsSeq, NoneAssumption
   DEF Init, SessionInv, ChannelsAreSeqs, Progress, NothingFromNowhere, Logged

LEMMA SessionInvNext == SessionInv /\ [Next]_vars => SessionInv'
<1>. SUFFICES ASSUME SessionInv, [Next]_vars  PROVE SessionInv'
  OBVIOUS
<1>. USE DEF SessionInv
<1>0. /\ Len(frame_file) \in Nat /\ Len(feed) \in Nat /\ Len(egress) \in Nat
      /\ Len(inbox) \in Nat /\ Logged \in Nat /\ sent \in Nat
  BY LengthIsNat DEF ChannelsAreSeqs, Logged, Progress
<1>1. ASSUME NEW d \in Days, StartSession(d)  PROVE SessionInv'
  <2>1. ChannelsAreSeqs'
    BY <1>1, EmptyIsSeq DEF StartSession, ChannelsAreSeqs, network
  <2>2. Progress'
    BY <1>0, <1>1, NoneAssumption DEF StartSession, Progress
  <2>3. NothingFromNowhere'
    BY <1>1, EmptyIsSeq DEF StartSession, NothingFromNowhere, Logged, network
  <2>. QED  BY <2>1, <2>2, <2>3
<1>2. CASE Preprocess
  <2>. DEFINE rows == LegalRows(day)
  <2>1. rows \in Nat
    <3>1. day.messages \in Seq(MessageRow)  BY DayAssumption DEF Progress
    <3>2. Len(day.messages) \in Nat  BY <3>1
    <3>. QED  BY <3>2, LegalRowsBound DEF Progress
  <2>. HIDE DEF rows
  <2>2. IsSeq(frame_file') /\ Len(frame_file') \in Nat
    <3>1. CASE Len(day.book) # Len(day.messages)
      BY <3>1, <1>0, <1>2 DEF Preprocess, files, ChannelsAreSeqs
    <3>2. CASE Len(day.book) = Len(day.messages)
      <4>1. frame_file' = [i \in 1 .. rows |-> FrameOf(day.messages[i], i)]
        BY <3>2, <1>2 DEF Preprocess, rows
      <4>2. frame_file' = [i \in 1 .. rows |-> frame_file'[i]]  BY <4>1
      <4>. QED  BY <2>1, <4>2, RowsAreSeq
    <3>. QED  BY <3>1, <3>2
  <2>3. ChannelsAreSeqs'
    BY <1>2, <2>2 DEF Preprocess, ChannelsAreSeqs, network, receiving
  <2>4. Progress'
    <3>1. main = "preprocess" /\ main' \in {"ended", "launch"} /\ day' = day
      BY <1>2 DEF Preprocess, files
    <3>. QED  BY <3>1, <1>2, <2>2 DEF Preprocess, Progress, receiving, checking
  <2>5. NothingFromNowhere'
    BY <1>2 DEF Preprocess, NothingFromNowhere, Logged, network, receiving
  <2>. QED  BY <2>3, <2>4, <2>5
<1>3. CASE LaunchReceiver
  BY <1>0, <1>3 DEF LaunchReceiver, ChannelsAreSeqs, Progress, NothingFromNowhere, Logged,
     files, network, checking
<1>4. CASE BindPort
  BY <1>0, <1>4 DEF BindPort, ChannelsAreSeqs, Progress, NothingFromNowhere, Logged,
     files, network, checking
<1>5. CASE OpenLog
  BY <1>0, <1>5, EmptyIsSeq DEF OpenLog, ChannelsAreSeqs, Progress, NothingFromNowhere, Logged,
     files, network, checking
<1>6. CASE LogOrder
  <2>1. /\ IsSeq(order_log') /\ Len(order_log') = Len(order_log) + 1
        /\ Len(order_log) \in Nat
    BY <1>6, AppendAtEnd DEF LogOrder, ChannelsAreSeqs
  <2>2. IsSeq(inbox') /\ Len(inbox') = Len(inbox) - 1
    BY <1>6, TakeFirst DEF LogOrder, ChannelsAreSeqs
  <2>. QED
    BY <1>0, <1>6, <2>1, <2>2 DEF LogOrder, ChannelsAreSeqs, Progress, NothingFromNowhere, Logged,
       files, network, checking
<1>7. CASE SendFrame
  <2>1. IsSeq(feed') /\ Len(feed') = Len(feed) + 1
    BY <1>7, AppendAtEnd DEF SendFrame, ChannelsAreSeqs
  <2>2. /\ main = "replay" /\ main' = main /\ sent < Len(frame_file) /\ sent' = sent + 1
        /\ /\ day' = day /\ frame_file' = frame_file /\ egress' = egress
           /\ receiver' = receiver /\ inbox' = inbox /\ order_log' = order_log
           /\ checked' = checked /\ verdict' = verdict /\ traffic' = traffic
           /\ fresh' = fresh
    BY <1>7 DEF SendFrame, files, receiving, checking
  <2>7. ChannelsAreSeqs'
    BY <2>1, <2>2 DEF ChannelsAreSeqs
  <2>8. Progress'
    BY <2>1, <2>2 DEF Progress
  <2>9. NothingFromNowhere'
    <3>1. Logged' = Logged  BY <2>1, <2>2 DEF Logged
    <3>. QED  BY <1>0, <2>1, <2>2, <3>1 DEF NothingFromNowhere
  <2>. QED  BY <2>7, <2>8, <2>9
<1>8. CASE EndReplay
  BY <1>0, <1>8 DEF EndReplay, ChannelsAreSeqs, Progress, NothingFromNowhere, Logged,
     files, network, receiving, checking
<1>9. ASSUME NEW i \in DOMAIN feed, AnswerFrame(i)  PROVE SessionInv'
  <2>1. IsSeq(feed') /\ Len(feed') = Len(feed) - 1
    BY <1>9, RemoveOne DEF AnswerFrame, ChannelsAreSeqs
  <2>2. IsSeq(egress') /\ Len(egress') = Len(egress) + 1
    BY <1>9, AppendAtEnd DEF AnswerFrame, ChannelsAreSeqs
  <2>3. traffic' = "foreign" <=> traffic = "foreign"
    BY <1>9 DEF AnswerFrame, Arrives, InOrder, Disturb
  <2>4. /\ main' = main /\ day' = day /\ frame_file' = frame_file /\ sent' = sent
        /\ receiver' = receiver /\ inbox' = inbox /\ order_log' = order_log
        /\ checked' = checked /\ verdict' = verdict /\ fresh' = fresh
    BY <1>9 DEF AnswerFrame, files, receiving, checking
  <2>7. ChannelsAreSeqs'
    BY <2>1, <2>2, <2>3, <2>4 DEF ChannelsAreSeqs
  <2>8. Progress'
    BY <2>1, <2>2, <2>3, <2>4 DEF Progress
  <2>9. NothingFromNowhere'
    <3>1. Logged' = Logged  BY <2>1, <2>2, <2>3, <2>4 DEF Logged
    <3>. QED  BY <1>0, <2>1, <2>2, <2>3, <2>4, <3>1 DEF NothingFromNowhere
  <2>. QED  BY <2>7, <2>8, <2>9
<1>10. ASSUME NEW i \in DOMAIN feed, LoseFrame(i)  PROVE SessionInv'
  <2>1. IsSeq(feed') /\ Len(feed') = Len(feed) - 1
    BY <1>10, RemoveOne DEF LoseFrame, ChannelsAreSeqs
  <2>2. traffic' = "foreign" <=> traffic = "foreign"
    BY <1>10 DEF LoseFrame, Disturb
  <2>3. /\ main' = main /\ day' = day /\ frame_file' = frame_file /\ sent' = sent
        /\ egress' = egress /\ receiver' = receiver /\ inbox' = inbox
        /\ order_log' = order_log /\ checked' = checked /\ verdict' = verdict
        /\ fresh' = fresh
    BY <1>10 DEF LoseFrame, files, receiving, checking
  <2>7. ChannelsAreSeqs'
    BY <2>1, <2>2, <2>3 DEF ChannelsAreSeqs
  <2>8. Progress'
    BY <2>1, <2>2, <2>3 DEF Progress
  <2>9. NothingFromNowhere'
    <3>1. Logged' = Logged  BY <2>1, <2>2, <2>3 DEF Logged
    <3>. QED  BY <1>0, <2>1, <2>2, <2>3, <3>1 DEF NothingFromNowhere
  <2>. QED  BY <2>7, <2>8, <2>9
<1>11. ASSUME NEW i \in DOMAIN egress, DeliverOrder(i)  PROVE SessionInv'
  <2>1. IsSeq(egress') /\ Len(egress') = Len(egress) - 1
    BY <1>11, RemoveOne DEF DeliverOrder, ChannelsAreSeqs
  <2>2. IsSeq(inbox') /\ Len(inbox') = Len(inbox) + 1
    BY <1>11, AppendAtEnd DEF DeliverOrder, ChannelsAreSeqs
  <2>3. traffic' = "foreign" <=> traffic = "foreign"
    BY <1>11 DEF DeliverOrder, Arrives, InOrder, Disturb
  <2>4. /\ main' = main /\ day' = day /\ frame_file' = frame_file /\ sent' = sent
        /\ feed' = feed /\ receiver' = receiver /\ order_log' = order_log
        /\ checked' = checked /\ verdict' = verdict /\ fresh' = fresh
    BY <1>11 DEF DeliverOrder, files, checking
  <2>7. ChannelsAreSeqs'
    BY <2>1, <2>2, <2>3, <2>4 DEF ChannelsAreSeqs
  <2>8. Progress'
    BY <2>1, <2>2, <2>3, <2>4 DEF Progress
  <2>9. NothingFromNowhere'
    <3>1. Logged' = Logged  BY <2>1, <2>2, <2>3, <2>4 DEF Logged
    <3>. QED  BY <1>0, <2>1, <2>2, <2>3, <2>4, <3>1 DEF NothingFromNowhere
  <2>. QED  BY <2>7, <2>8, <2>9
<1>12. ASSUME NEW i \in DOMAIN egress, LoseOrder(i)  PROVE SessionInv'
  <2>1. IsSeq(egress') /\ Len(egress') = Len(egress) - 1
    BY <1>12, RemoveOne DEF LoseOrder, ChannelsAreSeqs
  <2>2. traffic' = "foreign" <=> traffic = "foreign"
    BY <1>12 DEF LoseOrder, Disturb
  <2>3. /\ main' = main /\ day' = day /\ frame_file' = frame_file /\ sent' = sent
        /\ feed' = feed /\ receiver' = receiver /\ inbox' = inbox
        /\ order_log' = order_log /\ checked' = checked /\ verdict' = verdict
        /\ fresh' = fresh
    BY <1>12 DEF LoseOrder, files, receiving, checking
  <2>7. ChannelsAreSeqs'
    BY <2>1, <2>2, <2>3 DEF ChannelsAreSeqs
  <2>8. Progress'
    BY <2>1, <2>2, <2>3 DEF Progress
  <2>9. NothingFromNowhere'
    <3>1. Logged' = Logged  BY <2>1, <2>2, <2>3 DEF Logged
    <3>. QED  BY <1>0, <2>1, <2>2, <2>3, <3>1 DEF NothingFromNowhere
  <2>. QED  BY <2>7, <2>8, <2>9
<1>13. ASSUME NEW checker \in Checker, ImportChecker(checker)  PROVE SessionInv'
  <2>1. receiver = "receiving" => Len(order_log) \in Nat
    BY LengthIsNat DEF ChannelsAreSeqs
  <2>2. /\ main = "check" /\ checked' = checked
        /\ main' \in {"ended", "compare"}
        /\ \/ main' = "ended" /\ verdict' \in {"import error", "no log"}
           \/ verdict' = verdict
        /\ fresh' => receiver = "receiving"
        /\ /\ day' = day /\ frame_file' = frame_file /\ sent' = sent
           /\ feed' = feed /\ egress' = egress /\ receiver' = receiver
           /\ inbox' = inbox /\ order_log' = order_log /\ traffic' = traffic
    BY <1>13 DEF ImportChecker, Ends, files, network, receiving
  <2>3. ChannelsAreSeqs' /\ NothingFromNowhere'
    BY <2>2 DEF ChannelsAreSeqs, NothingFromNowhere, Logged
  <2>4. fresh' => receiver' = "receiving" /\ checked' <= Len(order_log')
    <3>1. checked' = 0  BY <2>2 DEF Progress
    <3>2. Len(order_log') = Len(order_log) /\ receiver' = receiver  BY <2>2
    <3>. SUFFICES ASSUME fresh'  PROVE receiver' = "receiving" /\ checked' <= Len(order_log')
      OBVIOUS
    <3>3. receiver = "receiving"  BY <2>2
    <3>4. Len(order_log) \in Nat  BY <2>1, <3>3
    <3>5. \A n \in Nat : 0 <= n  OBVIOUS
    <3>. QED  BY <3>1, <3>2, <3>3, <3>4, <3>5, Zenon
  <2>5. Progress'
    BY <2>2, <2>4 DEF Progress
  <2>. QED  BY <2>3, <2>5
<1>14. CASE CompareNext
  <2>1. receiver = "receiving" => Len(order_log) \in Nat
    BY LengthIsNat DEF ChannelsAreSeqs
  <2>2. ChannelsAreSeqs' /\ NothingFromNowhere'
    BY <1>14 DEF CompareNext, ChannelsAreSeqs, NothingFromNowhere, Logged, files, network,
       receiving
  <2>3. Progress'
    <3>1. /\ main = "compare"
          /\ /\ day' = day /\ frame_file' = frame_file /\ sent' = sent
             /\ receiver' = receiver /\ order_log' = order_log /\ fresh' = fresh
      BY <1>14 DEF CompareNext, files, receiving
    <3>2. CASE main' = "ended" /\ verdict' \in {"read error", "mismatch"} /\ checked' = checked
      BY <3>1, <3>2 DEF Progress
    <3>3. CASE AtEnd /\ Ends("consistent") /\ checked' = checked
      BY <3>1, <3>3 DEF Progress, AtEnd, Ends
    <3>4. CASE /\ checked < Len(order_log) /\ checked' = checked + 1
               /\ /\ main' = main /\ verdict' = verdict
      BY <2>1, <3>1, <3>4 DEF Progress
    <3>5. \/ main' = "ended" /\ verdict' \in {"read error", "mismatch"} /\ checked' = checked
          \/ AtEnd /\ Ends("consistent") /\ checked' = checked
          \/ /\ checked < Len(order_log) /\ checked' = checked + 1
             /\ /\ main' = main /\ verdict' = verdict
      BY <1>14 DEF CompareNext, Ends
    <3>. QED  BY <3>2, <3>3, <3>4, <3>5
  <2>. QED  BY <2>2, <2>3
<1>15. CASE KillSession
  BY <1>0, <1>15 DEF KillSession, Ends, ChannelsAreSeqs, Progress, NothingFromNowhere, Logged,
     files, network, receiving
<1>16. CASE UNCHANGED vars
  BY <1>16 DEF vars, ChannelsAreSeqs, Progress, NothingFromNowhere, Logged,
     files, network, receiving, checking
<1>. QED
  BY <1>1, <1>2, <1>3, <1>4, <1>5, <1>6, <1>7, <1>8, <1>9, <1>10, <1>11, <1>12, <1>13,
     <1>14, <1>15, <1>16 DEF Next, MainNext

\* A log that is called consistent is complete: what is in the log, in the
\* socket and on the way is at most what was sent, and the checker read as many
\* orders from the log as the file has frames (verify_session_stream next to
\* receive_and_log_orders).
THEOREM ConsistentIsComplete == Spec => []ConsistentMeansComplete
<1>1. SessionInv => ConsistentMeansComplete
  <2>. SUFFICES ASSUME SessionInv, verdict = "consistent", fresh, traffic # "foreign"
                PROVE  /\ sent = Len(frame_file)
                       /\ feed = <<>> /\ egress = <<>> /\ inbox = <<>>
                       /\ Len(order_log) = Len(frame_file)
    BY DEF ConsistentMeansComplete
  <2>1. /\ Len(frame_file) \in Nat /\ Len(feed) \in Nat /\ Len(egress) \in Nat
        /\ Len(inbox) \in Nat /\ Len(order_log) \in Nat
    BY LengthIsNat DEF SessionInv, ChannelsAreSeqs, Progress
  <2>2. /\ sent = Len(frame_file) /\ Len(order_log) = Len(frame_file)
        /\ Len(feed) = 0 /\ Len(egress) = 0 /\ Len(inbox) = 0
    BY <2>1 DEF SessionInv, Progress, NothingFromNowhere, Logged
  <2>. QED  BY <2>2, EmptyByLength DEF SessionInv, ChannelsAreSeqs
<1>. QED  BY SessionInvInit, SessionInvNext, <1>1, PTL DEF Spec

----------------------------------------------------------------------------
(* While nothing is lost or overtaken, the log, the receiver's socket and  *)
(* the two channels hold one order or frame for each frame sent, in the    *)
(* order they were sent.                                                   *)

\* A channel holds what f has after the first off.
Copies(s, f, off) == \A k \in 1 .. Len(s) : s[k] = f[off + k]

LEMMA CopiesEmpty == ASSUME NEW f, NEW off  PROVE Copies(<<>>, f, off)
BY EmptyIsSeq DEF Copies

LEMMA CopiesAppend ==
  ASSUME NEW s, IsSeq(s), NEW f, NEW off \in Nat, Copies(s, f, off),
         NEW e, e = f[off + Len(s) + 1]
  PROVE  Copies(Append(s, e), f, off)
<1>1. /\ Len(s) \in Nat /\ Len(Append(s, e)) = Len(s) + 1
      /\ \A k \in 1 .. Len(s) : Append(s, e)[k] = s[k]
      /\ Append(s, e)[Len(s) + 1] = e
  BY AppendAtEnd
<1>. DEFINE t == Append(s, e)
<1>. HIDE DEF t
<1>2. ASSUME NEW k \in 1 .. Len(s) + 1  PROVE t[k] = f[off + k]
  <2>1. CASE k = Len(s) + 1
    <3>1. off + k = off + Len(s) + 1  BY <1>1, <2>1
    <3>. QED  BY <1>1, <2>1, <3>1 DEF t
  <2>2. CASE k \in 1 .. Len(s)  BY <1>1, <2>2 DEF Copies, t
  <2>. QED  BY <1>1, <2>1, <2>2
<1>. QED  BY <1>1, <1>2 DEF Copies, t

\* t is s without its first element.
Rest(t, s) == /\ Len(s) \in Nat \ {0} /\ Len(t) = Len(s) - 1
              /\ \A k \in 1 .. Len(s) - 1 : t[k] = s[k + 1]

LEMMA CopiesRest ==
  ASSUME NEW s, NEW t, Rest(t, s), NEW f, NEW off \in Nat, Copies(s, f, off)
  PROVE  Copies(t, f, off + 1) /\ s[1] = f[off + 1]
<1>. DEFINE n == Len(s)
<1>1. n \in Nat \ {0} /\ Len(t) = n - 1 /\ \A k \in 1 .. n - 1 : t[k] = s[k + 1]
  BY DEF Rest
<1>. HIDE DEF n
<1>2. \A k \in 1 .. n : s[k] = f[off + k]  BY DEF Copies, n
<1>3. ASSUME NEW k \in 1 .. n - 1  PROVE t[k] = f[off + 1 + k]
  <2>1. k + 1 \in 1 .. n /\ off + (k + 1) = off + 1 + k  BY <1>1
  <2>2. s[k + 1] = f[off + (k + 1)]  BY <1>2, <2>1
  <2>. QED  BY <1>1, <2>1, <2>2
<1>4. 1 \in 1 .. n  BY <1>1
<1>5. s[1] = f[off + 1]  BY <1>2, <1>4, Zenon
<1>. QED  BY <1>1, <1>3, <1>5 DEF Copies

Answers == [k \in 1 .. Len(frame_file) |-> MockReply(frame_file[k])]

FramesAreBytes ==
  \A k \in 1 .. Len(frame_file) : frame_file[k] \in Seq(Byte) /\ Len(frame_file[k]) = 24

InOrderSoFar ==
  traffic = "calm" =>
    /\ Logged + Len(inbox) + Len(egress) + Len(feed) = sent
    /\ Copies(feed, frame_file, Logged + Len(inbox) + Len(egress))
    /\ Copies(egress, Answers, Logged + Len(inbox))
    /\ Copies(inbox, Answers, Logged)
    /\ receiver = "receiving" => Copies(order_log, Answers, 0)

OrderInv == FramesAreBytes /\ InOrderSoFar /\ MismatchMeansDisturbed

\* An order that was answered in its turn is the one the checker expects there.
LEMMA AnswerMatches ==
  ASSUME NEW b \in Seq(Byte), Len(b) = 24  PROVE Matches(b, MockReply(b))
BY MockEchoes DEF Matches

\* Every frame of the file is 24 bytes.
LEMMA FrameOfBytes ==
  ASSUME NEW m \in MessageRow, NEW i \in Nat
  PROVE  FrameOf(m, i) \in Seq(Byte) /\ Len(FrameOf(m, i)) = 24
<1>. DEFINE w == [msg_type |-> m.type % 256, price |-> ToCents(m.price), qty |-> m.qty,
                  side |-> IF m.side = -1 THEN 2 ELSE 1, id |-> m.id, seq |-> i]
<1>1. ToCents(m.price) \in Int  BY DEF MessageRow, ToCents
<1>2. m.type % 256 \in Byte  BY DEF MessageRow, Byte
<1>3. w \in WireMessage  BY <1>1, <1>2 DEF MessageRow, WireMessage, Byte
<1>4. FrameOf(m, i) = Pack6(w)  BY DEF FrameOf
<1>. HIDE DEF w
<1>5. IsBytes(Pack6(w), 24)  BY <1>3, Pack6Bytes, Zenon
<1>. QED  BY <1>4, <1>5 DEF IsBytes

LEMMA OrderInvInit == Init => OrderInv
<1>. SUFFICES ASSUME Init  PROVE OrderInv
  OBVIOUS
<1>1. FramesAreBytes  BY EmptyIsSeq DEF Init, FramesAreBytes
<1>2. InOrderSoFar  BY EmptyIsSeq, CopiesEmpty DEF Init, InOrderSoFar, Logged
<1>3. MismatchMeansDisturbed  BY DEF Init, MismatchMeansDisturbed
<1>. QED  BY <1>1, <1>2, <1>3 DEF OrderInv

LEMMA FramesStayBytes == SessionInv /\ FramesAreBytes /\ [Next]_vars => FramesAreBytes'
<1>. SUFFICES ASSUME SessionInv, FramesAreBytes, [Next]_vars  PROVE FramesAreBytes'
  OBVIOUS
<1>1. CASE frame_file' = frame_file  BY <1>1 DEF FramesAreBytes
<1>2. CASE Preprocess /\ Len(day.book) = Len(day.messages)
  <2>. DEFINE rows == LegalRows(day)
  <2>1. /\ day.messages \in Seq(MessageRow) /\ Len(day.messages) \in Nat
        /\ day \in Days
    BY DayAssumption DEF SessionInv, Progress
  <2>2. rows \in 0 .. Len(day.messages)  BY <2>1, LegalRowsBound
  <2>3. frame_file' = [i \in 1 .. rows |-> FrameOf(day.messages[i], i)]
    BY <1>2 DEF Preprocess
  <2>. HIDE DEF rows
  <2>4. Len(frame_file') = rows
    <3>1. frame_file' = [i \in 1 .. rows |-> frame_file'[i]]  BY <2>3
    <3>. QED  BY <2>1, <2>2, <3>1, RowsAreSeq
  <2>5. ASSUME NEW k \in 1 .. rows
        PROVE  frame_file'[k] \in Seq(Byte) /\ Len(frame_file'[k]) = 24
    <3>1. day.messages[k] \in MessageRow /\ k \in Nat  BY <2>1, <2>2
    <3>2. frame_file'[k] = FrameOf(day.messages[k], k)  BY <2>3
    <3>. QED  BY <3>1, <3>2, FrameOfBytes, Zenon
  <2>. QED  BY <2>4, <2>5 DEF FramesAreBytes
<1>3. frame_file' = frame_file \/ (Preprocess /\ Len(day.book) = Len(day.messages))
  BY DEF Next, MainNext, vars, files, StartSession, Preprocess, LaunchReceiver, BindPort, OpenLog,
     LogOrder, SendFrame, EndReplay, AnswerFrame, LoseFrame, DeliverOrder, LoseOrder,
     ImportChecker, CompareNext, KillSession
<1>. QED  BY <1>1, <1>2, <1>3

\* Only these steps touch the datagrams and the log; every other step leaves
\* them, or is not of a calm session.
LEMMA InOrderNext == SessionInv /\ OrderInv /\ [Next]_vars => InOrderSoFar'
<1>. SUFFICES ASSUME SessionInv, OrderInv, [Next]_vars, traffic' = "calm"
              PROVE  InOrderSoFar'
  BY DEF InOrderSoFar
<1>0. /\ IsSeq(feed) /\ IsSeq(egress) /\ IsSeq(inbox)
      /\ receiver = "receiving" => IsSeq(order_log)
      /\ Len(feed) \in Nat /\ Len(egress) \in Nat /\ Len(inbox) \in Nat
      /\ Len(frame_file) \in Nat /\ Logged \in Nat
      /\ sent \in Nat /\ sent <= Len(frame_file)
  BY LengthIsNat DEF SessionInv, ChannelsAreSeqs, Progress, Logged
<1>1. ASSUME NEW d \in Days, StartSession(d)  PROVE InOrderSoFar'
  <2>1. feed' = <<>> /\ egress' = <<>> /\ inbox' = <<>> /\ receiver' = "off" /\ sent' = 0
    BY <1>1 DEF StartSession, network
  <2>. QED  BY <2>1, EmptyIsSeq, CopiesEmpty DEF InOrderSoFar, Logged
<1>2. CASE /\ traffic = "calm"
           /\ feed' = feed /\ egress' = egress /\ inbox' = inbox /\ sent' = sent
           /\ receiver' = receiver /\ order_log' = order_log /\ frame_file' = frame_file
  BY <1>2 DEF OrderInv, InOrderSoFar, Logged, Answers
<1>3. CASE Preprocess
  <2>1. /\ sent = 0 /\ traffic = "calm" /\ receiver = "off"
    BY <1>3 DEF Preprocess, SessionInv, Progress
  <2>2. /\ feed' = feed /\ egress' = egress /\ inbox' = inbox /\ sent' = sent
        /\ receiver' = "off"
    BY <1>3, <2>1 DEF Preprocess, network, receiving
  <2>3. Logged = 0 /\ Logged' = 0  BY <2>1, <2>2 DEF Logged
  <2>4. Len(feed) = 0 /\ Len(egress) = 0 /\ Len(inbox) = 0
    BY <1>0, <2>1, <2>3 DEF OrderInv, InOrderSoFar
  <2>5. feed = <<>> /\ egress = <<>> /\ inbox = <<>>  BY <1>0, <2>4, EmptyByLength
  <2>. QED  BY <2>1, <2>2, <2>3, <2>5, EmptyIsSeq, CopiesEmpty DEF InOrderSoFar
<1>. USE DEF Answers
<1>4. CASE LaunchReceiver \/ BindPort
  <2>1. /\ traffic = "calm" /\ receiver # "receiving" /\ receiver' # "receiving"
        /\ feed' = feed /\ egress' = egress /\ inbox' = inbox /\ sent' = sent
        /\ frame_file' = frame_file
    BY <1>4 DEF LaunchReceiver, BindPort, files, network, SessionInv, Progress
  <2>. QED  BY <2>1 DEF OrderInv, InOrderSoFar, Logged
<1>5. CASE OpenLog
  <2>1. /\ traffic = "calm" /\ receiver = "bound" /\ receiver' = "receiving"
        /\ order_log' = <<>>
        /\ feed' = feed /\ egress' = egress /\ inbox' = inbox /\ sent' = sent
        /\ frame_file' = frame_file
    BY <1>5 DEF OpenLog, files, network
  <2>2. Logged' = 0 /\ Logged = 0  BY <2>1, EmptyIsSeq DEF Logged
  <2>. QED  BY <2>1, <2>2, CopiesEmpty DEF OrderInv, InOrderSoFar
<1>. USE DEF OrderInv
<1>6. CASE LogOrder
  <2>1. /\ traffic = "calm" /\ receiver = "receiving" /\ receiver' = "receiving"
        /\ inbox # <<>> /\ order_log' = Append(order_log, Head(inbox)) /\ inbox' = Tail(inbox)
        /\ feed' = feed /\ egress' = egress /\ sent' = sent /\ frame_file' = frame_file
    BY <1>6 DEF LogOrder, files, network
  <2>2. /\ Copies(inbox, Answers, Logged) /\ Copies(order_log, Answers, 0)
        /\ Logged = Len(order_log) /\ Logged' = Len(order_log')
    BY <2>1 DEF InOrderSoFar, Logged
  <2>. HIDE DEF Answers
  <2>3. /\ Len(inbox) \in Nat \ {0} /\ Len(Tail(inbox)) = Len(inbox) - 1
        /\ Head(inbox) = inbox[1]
        /\ \A k \in 1 .. Len(inbox) - 1 : Tail(inbox)[k] = inbox[k + 1]
    BY <1>0, <2>1, TakeFirst
  <2>4. Copies(inbox', Answers, Logged + 1) /\ inbox[1] = Answers[Logged + 1]
    <3>1. Rest(inbox', inbox)  BY <2>1, <2>3 DEF Rest
    <3>. QED  BY <1>0, <2>2, <3>1, CopiesRest, Zenon
  <2>5. Len(order_log') = Len(order_log) + 1
    BY <1>0, <2>1, AppendAtEnd
  <2>6. Copies(order_log', Answers, 0)
    <3>1. 0 + Len(order_log) + 1 = Logged + 1  BY <1>0, <2>2
    <3>. QED  BY <1>0, <2>1, <2>2, <2>3, <2>4, <3>1, CopiesAppend
  <2>7. Logged' = Logged + 1 /\ Len(inbox') = Len(inbox) - 1
    BY <2>1, <2>2, <2>3, <2>5
  <2>8. /\ Logged' + Len(inbox') = Logged + Len(inbox)
        /\ Logged' + Len(inbox') + Len(egress) = Logged + Len(inbox) + Len(egress)
        /\ Logged' + Len(inbox') + Len(egress) + Len(feed)
             = Logged + Len(inbox) + Len(egress) + Len(feed)
    BY <1>0, <2>7
  <2>9. Answers' = Answers  BY <2>1 DEF Answers
  <2>. QED  BY <2>1, <2>4, <2>6, <2>7, <2>8, <2>9, Zenon DEF InOrderSoFar
<1>7. CASE SendFrame
  <2>1. /\ traffic = "calm" /\ sent' = sent + 1
        /\ feed' = Append(feed, frame_file[sent + 1])
        /\ egress' = egress /\ inbox' = inbox /\ frame_file' = frame_file
        /\ receiver' = receiver /\ order_log' = order_log
    BY <1>7 DEF SendFrame, files, receiving
  <2>. HIDE DEF Answers
  <2>2. Copies(feed', frame_file, Logged + Len(inbox) + Len(egress))
    <3>1. Copies(feed, frame_file, Logged + Len(inbox) + Len(egress))
      BY <2>1 DEF InOrderSoFar
    <3>2. /\ Logged + Len(inbox) + Len(egress) \in Nat
          /\ (Logged + Len(inbox) + Len(egress)) + Len(feed) + 1 = sent + 1
      BY <1>0, <2>1 DEF InOrderSoFar
    <3>. QED  BY <1>0, <2>1, <3>1, <3>2, CopiesAppend
  <2>3. Len(feed') = Len(feed) + 1  BY <1>0, <2>1, AppendAtEnd
  <2>4. Logged + Len(inbox) + Len(egress) + Len(feed') = sent'
    BY <1>0, <2>1, <2>3 DEF InOrderSoFar
  <2>5. Answers' = Answers /\ Logged' = Logged  BY <2>1 DEF Answers, Logged
  <2>. QED  BY <2>1, <2>2, <2>4, <2>5, Zenon DEF InOrderSoFar
<1>8. ASSUME NEW i \in DOMAIN feed, AnswerFrame(i)  PROVE InOrderSoFar'
  <2>1. /\ traffic = "calm" /\ i = 1 /\ feed' = RemoveAt(feed, 1)
        /\ egress' = Append(egress, MockReply(feed[1]))
        /\ inbox' = inbox /\ sent' = sent /\ frame_file' = frame_file
        /\ receiver' = receiver /\ order_log' = order_log
    BY <1>8 DEF AnswerFrame, Arrives, InOrder, Disturb, files, receiving
  <2>. DEFINE off == Logged + Len(inbox) + Len(egress)
  <2>2. /\ Copies(feed, frame_file, off) /\ Copies(egress, Answers, Logged + Len(inbox))
        /\ off + Len(feed) = sent
    BY <2>1 DEF InOrderSoFar
  <2>3. /\ Len(feed) \in Nat \ {0} /\ Len(feed') = Len(feed) - 1
        /\ \A k \in 1 .. Len(feed) - 1 : feed'[k] = feed[k + 1]
    BY <1>0, <1>8, <2>1, RemoveOne
  <2>4. off \in Nat /\ off + 1 \in 1 .. Len(frame_file)
    BY <1>0, <2>2, <2>3
  <2>. HIDE DEF off
  <2>5. Copies(feed', frame_file, off + 1) /\ feed[1] = frame_file[off + 1]
    <3>1. Rest(feed', feed)  BY <2>3 DEF Rest
    <3>. QED  BY <2>2, <2>4, <3>1, CopiesRest, Zenon
  <2>6. MockReply(feed[1]) = Answers[off + 1]
    BY <2>4, <2>5 DEF Answers
  <2>. HIDE DEF Answers
  <2>7. Copies(egress', Answers, Logged + Len(inbox))
    <3>1. /\ Logged + Len(inbox) \in Nat
          /\ (Logged + Len(inbox)) + Len(egress) + 1 = off + 1
      BY <1>0 DEF off
    <3>. QED  BY <1>0, <2>1, <2>2, <2>6, <3>1, CopiesAppend
  <2>8. Len(egress') = Len(egress) + 1  BY <1>0, <2>1, AppendAtEnd
  <2>9. /\ Logged + Len(inbox) + Len(egress') = off + 1
        /\ Logged + Len(inbox) + Len(egress') + Len(feed') = sent
    <3>1. Logged + Len(inbox) + Len(egress') = off + 1  BY <1>0, <2>8 DEF off
    <3>2. (off + 1) + (Len(feed) - 1) = sent  BY <1>0, <2>2, <2>4
    <3>. QED  BY <2>3, <3>1, <3>2, Zenon
  <2>10. Answers' = Answers /\ Logged' = Logged  BY <2>1 DEF Answers, Logged
  <2>. QED  BY <2>1, <2>2, <2>5, <2>7, <2>9, <2>10, Zenon DEF InOrderSoFar
<1>9. ASSUME NEW i \in DOMAIN egress, DeliverOrder(i)  PROVE InOrderSoFar'
  <2>1. /\ traffic = "calm" /\ i = 1 /\ egress' = RemoveAt(egress, 1)
        /\ inbox' = Append(inbox, egress[1])
        /\ feed' = feed /\ sent' = sent /\ frame_file' = frame_file
        /\ receiver' = receiver /\ order_log' = order_log
    BY <1>9 DEF DeliverOrder, Arrives, InOrder, Disturb, files
  <2>. HIDE DEF Answers
  <2>. DEFINE off == Logged + Len(inbox)
  <2>2. Copies(egress, Answers, off) /\ Copies(inbox, Answers, Logged)
    BY <2>1 DEF InOrderSoFar
  <2>3. /\ Len(egress) \in Nat \ {0} /\ Len(egress') = Len(egress) - 1
        /\ \A k \in 1 .. Len(egress) - 1 : egress'[k] = egress[k + 1]
    BY <1>0, <1>9, <2>1, RemoveOne
  <2>4. off \in Nat  BY <1>0
  <2>. HIDE DEF off
  <2>5. Copies(egress', Answers, off + 1) /\ egress[1] = Answers[off + 1]
    <3>1. Rest(egress', egress)  BY <2>3 DEF Rest
    <3>. QED  BY <2>2, <2>4, <3>1, CopiesRest, Zenon
  <2>6. Copies(inbox', Answers, Logged)
    <3>1. Logged + Len(inbox) + 1 = off + 1  BY DEF off
    <3>. QED  BY <1>0, <2>1, <2>2, <2>5, <3>1, CopiesAppend
  <2>7. Len(inbox') = Len(inbox) + 1  BY <1>0, <2>1, AppendAtEnd
  <2>8. /\ Logged + Len(inbox') = off + 1
        /\ Logged + Len(inbox') + Len(egress') = Logged + Len(inbox) + Len(egress)
        /\ Logged + Len(inbox') + Len(egress') + Len(feed)
             = Logged + Len(inbox) + Len(egress) + Len(feed)
    <3>1. Logged \in Nat /\ Len(inbox) \in Nat /\ Len(egress) \in Nat /\ Len(feed) \in Nat
      BY <1>0
    <3>2. Len(egress') = Len(egress) - 1  BY <2>3
    <3>3. Logged + Len(inbox') = off + 1  BY <2>7, <3>1 DEF off
    <3>4. Logged + Len(inbox') + Len(egress') = Logged + Len(inbox) + Len(egress)
      BY <2>7, <3>1, <3>2
    <3>. QED  BY <3>3, <3>4
  <2>9. Answers' = Answers /\ Logged' = Logged  BY <2>1 DEF Answers, Logged
  <2>. QED  BY <2>1, <2>5, <2>6, <2>8, <2>9, Zenon DEF InOrderSoFar
<1>10. ASSUME NEW i, LoseFrame(i) \/ LoseOrder(i)  PROVE FALSE
  BY <1>10 DEF LoseFrame, LoseOrder, Disturb
<1>11. CASE EndReplay \/ CompareNext \/ KillSession \/ \E checker \in Checker : ImportChecker(checker)
  BY <1>2, <1>11 DEF EndReplay, CompareNext, KillSession, ImportChecker, files, network, receiving
<1>12. CASE UNCHANGED vars
  BY <1>2, <1>12 DEF vars, files, network, receiving
<1>. QED
  BY <1>1, <1>3, <1>4, <1>5, <1>6, <1>7, <1>8, <1>9, <1>10, <1>11, <1>12 DEF Next, MainNext

LEMMA MismatchNext == SessionInv /\ OrderInv /\ [Next]_vars => MismatchMeansDisturbed'
<1>. SUFFICES ASSUME SessionInv, OrderInv, [Next]_vars,
                     verdict' = "mismatch", fresh', traffic' = "calm"
              PROVE  FALSE
  BY DEF MismatchMeansDisturbed
<1>1. CASE CompareNext
  <2>1. /\ fresh /\ traffic = "calm"
        /\ main = "compare"
        /\ verdict # "mismatch"
        /\ receiver = "receiving"
    BY <1>1 DEF CompareNext, SessionInv, Progress
  <2>2. /\ ~AtEnd /\ checked < Len(order_log)
        /\ ~Matches(frame_file[checked + 1], order_log[checked + 1])
    BY <1>1, <2>1 DEF CompareNext, Ends
  <2>. DEFINE k == checked + 1
  <2>3. /\ checked \in Nat /\ Len(frame_file) \in Nat /\ Len(order_log) \in Nat
        /\ Len(inbox) \in Nat /\ Len(egress) \in Nat /\ Len(feed) \in Nat
        /\ sent \in Nat /\ sent <= Len(frame_file)
        /\ Logged = Len(order_log)
    BY <2>1, LengthIsNat DEF SessionInv, ChannelsAreSeqs, Progress, Logged
  <2>4. Len(order_log) <= Len(frame_file)
    BY <2>1, <2>3 DEF OrderInv, InOrderSoFar
  <2>5. k \in 1 .. Len(order_log) /\ k \in 1 .. Len(frame_file) /\ 0 + k = k
    BY <2>2, <2>3, <2>4
  <2>. HIDE DEF k
  <2>6. order_log[k] = Answers[k]
    <3>1. order_log[k] = Answers[0 + k]
      BY <2>1, <2>5, Zenon DEF OrderInv, InOrderSoFar, Copies
    <3>. QED  BY <2>5, <3>1, Zenon
  <2>7. Answers[k] = MockReply(frame_file[k])  BY <2>5 DEF Answers
  <2>8. Matches(frame_file[k], MockReply(frame_file[k]))
    BY <2>5, AnswerMatches DEF OrderInv, FramesAreBytes
  <2>. QED  BY <2>2, <2>6, <2>7, <2>8, Zenon DEF k
<1>2. CASE verdict' = verdict /\ fresh' = fresh /\ (traffic' = traffic \/ traffic' # "calm")
  BY <1>2 DEF OrderInv, MismatchMeansDisturbed
<1>3. ASSUME NEW d, StartSession(d)  PROVE FALSE
  BY <1>3 DEF StartSession
<1>4. ASSUME NEW checker, ImportChecker(checker)  PROVE FALSE
  BY <1>4 DEF ImportChecker, Ends, SessionInv, Progress
<1>5. CASE KillSession
  BY <1>5 DEF KillSession, Ends
<1>6. CASE Preprocess \/ LaunchReceiver \/ BindPort \/ OpenLog \/ LogOrder \/ SendFrame \/ EndReplay
  BY <1>2, <1>6 DEF Preprocess, LaunchReceiver, BindPort, OpenLog, LogOrder, SendFrame, EndReplay,
     checking
<1>7. ASSUME NEW i, AnswerFrame(i) \/ DeliverOrder(i) \/ LoseFrame(i) \/ LoseOrder(i)  PROVE FALSE
  BY <1>2, <1>7 DEF AnswerFrame, DeliverOrder, LoseFrame, LoseOrder, Arrives, InOrder, Disturb,
     checking
<1>8. CASE UNCHANGED vars
  BY <1>2, <1>8 DEF vars, checking
<1>. QED  BY <1>1, <1>3, <1>4, <1>5, <1>6, <1>7, <1>8 DEF Next, MainNext

\* A mismatch is never the work of a late receiver, an early check or the log
\* being read while it is written: as long as nothing is lost, overtaken or left
\* over, entry k of the log is the answer to frame k (run_mock_fpga next to
\* receive_and_log_orders), and the checker finds the two equal.
THEOREM MismatchIsDisturbance == Spec => []MismatchMeansDisturbed
<1>1. OrderInv => MismatchMeansDisturbed  BY DEF OrderInv
<1>2. SessionInv /\ OrderInv /\ [Next]_vars => OrderInv'
  BY FramesStayBytes, InOrderNext, MismatchNext DEF OrderInv
<1>. QED  BY SessionInvInit, SessionInvNext, OrderInvInit, <1>1, <1>2, PTL DEF Spec

----------------------------------------------------------------------------
(* What the backtest reads of a slice.                                     *)

\* Rounding moves a price by half a cent at most and keeps the order of two
\* prices, and more than half a cent does not become nothing.
LEMMA CentsOf ==
  ASSUME NEW raw \in Int
  PROVE  /\ ToCents(raw) \in Int /\ HalfACent(ToCents(raw), raw)
         /\ raw > 50 => ToCents(raw) > 0
<1>. DEFINE cents == raw \div 100
            rest  == raw % 100
<1>1. cents \in Int /\ rest \in 0 .. 99 /\ raw = 100 * cents + rest
  OBVIOUS
<1>2. ToCents(raw) = IF rest > 50 \/ (rest = 50 /\ cents % 2 = 1) THEN cents + 1 ELSE cents
  BY DEF ToCents
<1>3. cents % 2 = 1 \/ cents % 2 = 0
  BY <1>1
<1>4. cents % 2 = 1 => cents # 0
  OBVIOUS
<1>. HIDE DEF cents, rest
<1>5. CASE rest > 50 \/ (rest = 50 /\ cents % 2 = 1)
  <2>1. ToCents(raw) = cents + 1  BY <1>2, <1>5
  <2>2. 100 * ToCents(raw) - raw = 100 - rest  BY <1>1, <2>1
  <2>. QED  BY <1>1, <1>5, <2>1, <2>2 DEF HalfACent
<1>6. CASE ~(rest > 50 \/ (rest = 50 /\ cents % 2 = 1))
  <2>1. ToCents(raw) = cents  BY <1>2, <1>6
  <2>2. 100 * ToCents(raw) - raw = -rest  BY <1>1, <2>1
  <2>. QED  BY <1>1, <1>6, <2>1, <2>2 DEF HalfACent
<1>. QED  BY <1>5, <1>6

LEMMA CentsKeepOrder ==
  ASSUME NEW low \in Int, NEW high \in Int, low <= high
  PROVE  ToCents(low) <= ToCents(high)
<1>. DEFINE l == low \div 100
            h == high \div 100
            lrest == low % 100
            hrest == high % 100
            Up(c, r) == r > 50 \/ (r = 50 /\ c % 2 = 1)
<1>1. /\ l \in Int /\ h \in Int /\ lrest \in 0 .. 99 /\ hrest \in 0 .. 99
      /\ low = 100 * l + lrest /\ high = 100 * h + hrest
  OBVIOUS
<1>2. /\ ToCents(low) = IF Up(l, lrest) THEN l + 1 ELSE l
      /\ ToCents(high) = IF Up(h, hrest) THEN h + 1 ELSE h
  BY DEF ToCents
<1>. HIDE DEF l, h, lrest, hrest
<1>3. l < h \/ (l = h /\ lrest <= hrest)
  BY <1>1
<1>4. l = h /\ lrest <= hrest /\ Up(l, lrest) => Up(h, hrest)
  BY <1>1
<1>. HIDE DEF Up
<1>. QED  BY <1>1, <1>2, <1>3, <1>4

\* The rows of a file that are numbered from 1 on are found by their number.
Numbered(file, n) == n \in Nat /\ file = [i \in 1 .. n |-> file[i]]
                     /\ \A i \in 1 .. n : file[i].seq = i
LEMMA NumberedRows ==
  ASSUME NEW n, NEW file, Numbered(file, n)
  PROVE  /\ Len(file) = n /\ Seqs(file) = 1 .. n /\ NoDuplicates(file)
         /\ \A i \in 1 .. n : RowOf(file, i) = file[i]
<1>0. n \in Nat /\ DOMAIN file = 1 .. n  BY DEF Numbered
<1>1. Len(file) = n  BY <1>0, RowsAreSeq DEF Numbered
<1>2. Seqs(file) = 1 .. n  BY <1>0 DEF Numbered, Seqs
<1>3. NoDuplicates(file)
  <2>1. Cardinality(1 .. n) = n
    <3>1. 1 \in Int /\ n \in Int  BY <1>0
    <3>2. Cardinality(1 .. n) = IF 1 > n THEN 0 ELSE n - 1 + 1  BY <3>1, FS_Interval
    <3>. QED  BY <1>0, <3>2
  <2>. QED  BY <1>1, <1>2, <2>1 DEF NoDuplicates
<1>4. ASSUME NEW i \in 1 .. n  PROVE RowOf(file, i) = file[i]
  <2>. DEFINE I == {j \in 1 .. Len(file) : file[j].seq = i}
  <2>1. I = {i}  BY <1>1, <1>0 DEF Numbered
  <2>2. Min(I) = i
    <3>1. i \in Int  BY <1>0
    <3>. QED  BY <2>1, <3>1 DEF Min
  <2>3. RowOf(file, i) = file[IF I # {} THEN Min(I) ELSE 0]
    BY DEF RowOf, SelectInSeq
  <2>. QED  BY <2>1, <2>2, <2>3
<1>. QED  BY <1>1, <1>2, <1>3, <1>4

JoinedRow(book, timing, i) ==
  [seq |-> i, bid |-> book[i].bid, ask |-> book[i].ask, time |-> timing[i].time]
LEMMA JoinOfNumbered ==
  ASSUME NEW n \in Nat \ {0}, NEW book, NEW timing, Numbered(book, n), Numbered(timing, n)
  PROVE  Join(book, timing) = [i \in 1 .. n |-> JoinedRow(book, timing, i)]
<1>. DEFINE first == CHOOSE s \in 1 .. n : \A t \in 1 .. n : s <= t
            Line(i) == LET row == RowOf(book, first + i - 1)
                       IN  [seq |-> row.seq, bid |-> row.bid, ask |-> row.ask,
                            time |-> RowOf(timing, row.seq).time]
<1>1. /\ Seqs(book) = 1 .. n /\ Cardinality(1 .. n) = n
      /\ \A i \in 1 .. n : RowOf(book, i) = book[i] /\ RowOf(timing, i) = timing[i]
  BY NumberedRows DEF NoDuplicates
<1>2. first = 1
  <2>1. 1 \in 1 .. n /\ \A t \in 1 .. n : 1 <= t  OBVIOUS
  <2>2. first \in 1 .. n /\ \A t \in 1 .. n : first <= t  BY <2>1
  <2>. HIDE DEF first
  <2>. QED  BY <2>1, <2>2
<1>3. Join(book, timing) = [i \in 1 .. n |-> Line(i)]
  BY <1>1 DEF Join
<1>. HIDE DEF first
<1>4. ASSUME NEW i \in 1 .. n  PROVE Line(i) = JoinedRow(book, timing, i)
  <2>1. first + i - 1 = i  BY <1>2
  <2>2. book[i].seq = i  BY DEF Numbered
  <2>3. RowOf(book, first + i - 1) = book[i]  BY <1>1, <2>1
  <2>4. RowOf(timing, book[i].seq) = timing[i]  BY <1>1, <2>2
  <2>. QED  BY <2>2, <2>3, <2>4 DEF JoinedRow
<1>. HIDE DEF Line
<1>. QED  BY <1>3, <1>4

\* What preprocess_lobster_to_bin has left behind once all rows were legal.
BookLine(i) == [seq |-> i, bid |-> ToCents(day.book[i].bid), ask |-> ToCents(day.book[i].ask)]
TimingLine(i) == [seq |-> i, time |-> day.messages[i].time]
FilesAreOfTheDay ==
  main \in {"launch", "replay", "check", "compare"} =>
    /\ Len(day.book) = Len(day.messages)
    /\ book_file   = [i \in 1 .. Len(day.messages) |-> BookLine(i)]
    /\ timing_file = [i \in 1 .. Len(day.messages) |-> TimingLine(i)]

LEMMA FilesInit == Init => FilesAreOfTheDay
BY DEF Init, FilesAreOfTheDay

LEMMA FilesNext == SessionInv /\ FilesAreOfTheDay /\ [Next]_vars => FilesAreOfTheDay'
<1>. SUFFICES ASSUME SessionInv, FilesAreOfTheDay, [Next]_vars  PROVE FilesAreOfTheDay'
  OBVIOUS
<1>1. ASSUME NEW d \in Days, StartSession(d)  PROVE FilesAreOfTheDay'
  BY <1>1 DEF StartSession, FilesAreOfTheDay
<1>2. CASE Preprocess
  <2>1. CASE main' # "launch"
    BY <1>2, <2>1 DEF Preprocess, FilesAreOfTheDay
  <2>2. CASE main' = "launch"
    <3>. DEFINE rows == LegalRows(day)
                n    == Len(day.messages)
    <3>1. Len(day.book) = n /\ rows = n /\ day' = day
      BY <1>2, <2>2 DEF Preprocess
    <3>2. /\ book_file' = [i \in 1 .. rows |-> BookLine(i)]
          /\ timing_file' = [i \in 1 .. rows |-> TimingLine(i)]
      BY <1>2, <3>1 DEF Preprocess, BookLine, TimingLine
    <3>3. \A i : BookLine(i)' = BookLine(i) /\ TimingLine(i)' = TimingLine(i)
      BY <3>1 DEF BookLine, TimingLine
    <3>4. Len(day.messages)' = n /\ Len(day.book)' = n
      BY <3>1
    <3>. HIDE DEF rows
    <3>5. /\ book_file' = [i \in 1 .. n |-> BookLine(i)']
          /\ timing_file' = [i \in 1 .. n |-> TimingLine(i)']
      BY <3>1, <3>2, <3>3
    <3>. QED  BY <3>4, <3>5 DEF FilesAreOfTheDay
  <2>. QED  BY <2>1, <2>2
<1>3. CASE UNCHANGED files /\ (main' \in {"launch", "replay", "check", "compare"} =>
                                 main \in {"launch", "replay", "check", "compare"})
  BY <1>3 DEF FilesAreOfTheDay, files, BookLine, TimingLine
<1>4. CASE LaunchReceiver
  BY <1>3, <1>4 DEF LaunchReceiver
<1>5. CASE BindPort \/ OpenLog \/ LogOrder
  BY <1>3, <1>5 DEF BindPort, OpenLog, LogOrder
<1>6. CASE SendFrame \/ EndReplay
  BY <1>3, <1>6 DEF SendFrame, EndReplay
<1>7. ASSUME NEW checker \in Checker, ImportChecker(checker)  PROVE FilesAreOfTheDay'
  BY <1>3, <1>7 DEF ImportChecker, Ends
<1>8. CASE CompareNext \/ KillSession
  BY <1>3, <1>8 DEF CompareNext, KillSession, Ends
<1>9. ASSUME NEW i \in DOMAIN feed, AnswerFrame(i) \/ LoseFrame(i)  PROVE FilesAreOfTheDay'
  BY <1>3, <1>9 DEF AnswerFrame, LoseFrame
<1>10. ASSUME NEW i \in DOMAIN egress, DeliverOrder(i) \/ LoseOrder(i)  PROVE FilesAreOfTheDay'
  BY <1>3, <1>10 DEF DeliverOrder, LoseOrder
<1>11. CASE UNCHANGED vars
  BY <1>3, <1>11 DEF vars, files
<1>. QED  BY <1>1, <1>2, <1>4, <1>5, <1>6, <1>7, <1>8, <1>9, <1>10, <1>11 DEF Next, MainNext

\* For every slice: what load_snapshots makes of the two files of a slice that
\* was converted to its end is accepted, has one row for each message, at the
\* time of that message, and the prices are those of the book after it, to half
\* a cent.  Rounding half to even (to_cents) neither crosses a quote nor loses one.
THEOREM BacktestReads == Spec => []BacktestReadsTheDay
<1>1. SessionInv /\ FilesAreOfTheDay => BacktestReadsTheDay
  <2>. SUFFICES ASSUME SessionInv, FilesAreOfTheDay, SaneDay(day),
                       main \in {"launch", "replay", "check", "compare"}
                PROVE  /\ Loadable(book_file, timing_file)
                       /\ LET rows == Join(book_file, timing_file) IN
                            /\ Len(rows) = Len(day.messages)
                            /\ \A i \in DOMAIN rows :
                                 /\ rows[i].time = day.messages[i].time
                                 /\ HalfACent(rows[i].bid, day.book[i].bid)
                                 /\ HalfACent(rows[i].ask, day.book[i].ask)
    BY DEF BacktestReadsTheDay
  <2>. DEFINE n == Len(day.messages)
              rows == Join(book_file, timing_file)
  <2>1. day.messages \in Seq(MessageRow) /\ day.book \in Seq(BookRow) /\ day.messages # <<>>
    BY DayAssumption DEF SessionInv, Progress, SaneDay
  <2>2. n \in Nat \ {0} /\ Len(day.book) = n
    BY <2>1 DEF FilesAreOfTheDay
  <2>3. \A i \in 1 .. n : /\ day.messages[i].time \in Int
                          /\ day.book[i].bid \in Int /\ day.book[i].ask \in Int
    <3>1. ASSUME NEW i \in 1 .. n
          PROVE  day.messages[i] \in MessageRow /\ day.book[i] \in BookRow
      <4>1. i \in 1 .. Len(day.messages) /\ i \in 1 .. Len(day.book)  BY <2>2
      <4>. QED  BY <2>1, <4>1, ElementOfSeq
    <3>. QED  BY <3>1 DEF MessageRow, BookRow
  <2>4. /\ book_file = [i \in 1 .. n |-> BookLine(i)]
        /\ timing_file = [i \in 1 .. n |-> TimingLine(i)]
    BY DEF FilesAreOfTheDay
  <2>5. \A i \in 1 .. n : book_file[i] = BookLine(i) /\ timing_file[i] = TimingLine(i)
    BY <2>4
  <2>. HIDE DEF n, rows
  <2>6. Numbered(book_file, n) /\ Numbered(timing_file, n)
    BY <2>2, <2>4, <2>5 DEF Numbered, BookLine, TimingLine
  <2>7. rows = [i \in 1 .. n |-> JoinedRow(book_file, timing_file, i)]
    BY <2>2, <2>6, JoinOfNumbered DEF rows
  <2>8. ASSUME NEW i \in 1 .. n
        PROVE  /\ rows[i].time = day.messages[i].time
               /\ rows[i].bid = ToCents(day.book[i].bid) /\ rows[i].ask = ToCents(day.book[i].ask)
    <3>1. rows[i] = JoinedRow(book_file, timing_file, i)  BY <2>7
    <3>2. book_file[i] = BookLine(i) /\ timing_file[i] = TimingLine(i)  BY <2>5
    <3>. QED  BY <3>1, <3>2 DEF JoinedRow, BookLine, TimingLine
  <2>9. DOMAIN rows = 1 .. n /\ Len(rows) = n
    <3>1. rows = [i \in 1 .. n |-> rows[i]]  BY <2>7
    <3>. QED  BY <2>2, <3>1, RowsAreSeq
  <2>10. ASSUME NEW i \in 1 .. n  PROVE SaneQuote(rows[i])
    <3>. DEFINE bid == day.book[i].bid
                ask == day.book[i].ask
    <3>1. bid \in Int /\ ask \in Int  BY <2>3
    <3>2. i \in DOMAIN day.book  BY <2>1, <2>2
    <3>3. bid > 50 /\ bid <= ask  BY <3>1, <3>2 DEF SaneDay
    <3>4. rows[i].bid = ToCents(bid) /\ rows[i].ask = ToCents(ask)  BY <2>8
    <3>. HIDE DEF bid, ask
    <3>5. /\ ToCents(bid) \in Int /\ ToCents(ask) \in Int /\ ToCents(bid) > 0
          /\ ToCents(bid) <= ToCents(ask)
      BY <3>1, <3>3, CentsOf, CentsKeepOrder
    <3>. QED  BY <3>4, <3>5 DEF SaneQuote
  <2>11. ASSUME NEW i \in 2 .. Len(rows)  PROVE rows[i - 1].time <= rows[i].time
    <3>1. i - 1 \in 1 .. n /\ i \in 1 .. n /\ i \in 2 .. n  BY <2>2, <2>9
    <3>2. day.messages[i - 1].time <= day.messages[i].time  BY <3>1 DEF SaneDay, n
    <3>. QED  BY <2>8, <3>1, <3>2
  <2>12. Loadable(book_file, timing_file)
    <3>1. NoDuplicates(book_file) /\ NoDuplicates(timing_file)
          /\ Seqs(book_file) = 1 .. n /\ Seqs(timing_file) = 1 .. n
      BY <2>6, NumberedRows
    <3>2. 1 \in 1 .. n  BY <2>2
    <3>3. Contiguous(1 .. n)  BY <2>2 DEF Contiguous
    <3>. QED  BY <2>9, <2>10, <2>11, <3>1, <3>2, <3>3 DEF Loadable, rows
  <2>13. ASSUME NEW i \in 1 .. n
         PROVE  HalfACent(rows[i].bid, day.book[i].bid) /\ HalfACent(rows[i].ask, day.book[i].ask)
    BY <2>3, <2>8, CentsOf
  <2>. QED  BY <2>8, <2>9, <2>12, <2>13 DEF rows, n
<1>. QED  BY SessionInvInit, SessionInvNext, FilesInit, FilesNext, <1>1, PTL DEF Spec

----------------------------------------------------------------------------
(* The one format written down in four places.  The checksum is the sum of *)
(* the header's words modulo 65535, which is what folding the carry back   *)
(* in comes to; the headers agree because joining is associative; and a    *)
(* frame of the slice is made of bytes the reader does not lose.           *)

\* What Carry ends in: its argument modulo 65535, counted from 1.
Residue(s) == IF s = 0 THEN 0 ELSE 1 + ((s - 1) % 65535)

LEMMA CarryOnce ==
  ASSUME NEW s \in Nat
  PROVE  /\ s < 65536 => Residue(s) = s
         /\ s >= 65536 => /\ (s % 65536) + (s \div 65536) \in Nat
                          /\ Residue((s % 65536) + (s \div 65536)) = Residue(s)
<1>1. ASSUME s < 65536  PROVE Residue(s) = s
  <2>. DEFINE t == s - 1
  <2>1. CASE s = 0
    BY <2>1 DEF Residue
  <2>2. CASE s # 0
    <3>1. t \in Nat /\ t < 65535 /\ 1 + t = s
      BY <1>1, <2>2
    <3>2. Residue(s) = 1 + (t % 65535)
      BY <2>2 DEF Residue
    <3>. HIDE DEF t
    <3>3. t % 65535 = t
      BY <3>1
    <3>. QED
      BY <3>1, <3>2, <3>3
  <2>. QED
    BY <2>1, <2>2
<1>2. ASSUME s >= 65536
      PROVE  /\ (s % 65536) + (s \div 65536) \in Nat
             /\ Residue((s % 65536) + (s \div 65536)) = Residue(s)
  <2>. DEFINE q == s \div 65536
              r == s % 65536
  <2>1. q \in Nat /\ r \in Nat /\ s = 65536 * q + r /\ q >= 1
    BY <1>2
  <2>. HIDE DEF q, r
  <2>2. /\ (r + q) - 1 \in Nat /\ s - 1 = 65535 * q + ((r + q) - 1)
        /\ r + q # 0 /\ s # 0
    BY <2>1
  <2>3. (s - 1) % 65535 = ((r + q) - 1) % 65535
    <3>. DEFINE t == (r + q) - 1
    <3>1. t \in Nat /\ s - 1 = 65535 * q + t
      BY <2>2
    <3>. HIDE DEF t
    <3>2. (65535 * q + t) % 65535 = t % 65535
      BY <2>1, <3>1
    <3>3. (s - 1) % 65535 = t % 65535
      BY <3>1, <3>2
    <3>. QED
      BY <3>3 DEF t
  <2>4. Residue(s) = 1 + ((s - 1) % 65535)
    BY <2>2 DEF Residue
  <2>5. Residue(r + q) = 1 + (((r + q) - 1) % 65535)
    <3>. DEFINE u == r + q
    <3>1. u # 0
      BY <2>2
    <3>. HIDE DEF u
    <3>2. Residue(u) = 1 + ((u - 1) % 65535)
      BY <3>1 DEF Residue
    <3>. QED
      BY <3>2 DEF u
  <2>6. r + q \in Nat
    BY <2>1
  <2>. QED
    BY <2>3, <2>4, <2>5, <2>6 DEF q, r
<1>. QED
  BY <1>1, <1>2

\* Carry is the function its definition asks for.
LEMMA CarryIs ==
  ASSUME NEW s \in Nat
  PROVE  /\ s < 65536 => Carry[s] = s
         /\ s >= 65536 => Carry[s] = Carry[(s % 65536) + (s \div 65536)]
<1>. DEFINE Rec(f) == f = [x \in Nat |-> IF x < 65536 THEN x
                                         ELSE f[(x % 65536) + (x \div 65536)]]
            f0 == [x \in Nat |-> Residue(x)]
<1>1. Rec(f0)
  <2>1. ASSUME NEW x \in Nat
        PROVE  Residue(x) = IF x < 65536 THEN x ELSE f0[(x % 65536) + (x \div 65536)]
    <3>1. CASE x < 65536
      BY <3>1, CarryOnce
    <3>2. CASE ~(x < 65536)
      <4>1. x >= 65536
        BY <3>2
      <4>2. (x % 65536) + (x \div 65536) \in Nat
            /\ Residue((x % 65536) + (x \div 65536)) = Residue(x)
        BY <4>1, CarryOnce
      <4>. QED
        BY <3>2, <4>2
    <3>. QED
      BY <3>1, <3>2
  <2>. QED
    BY <2>1
<1>2. Carry = CHOOSE f : Rec(f)
  BY DEF Carry
<1>3. Rec(Carry)
  <2>. HIDE DEF Rec
  <2>. QED
    BY <1>1, <1>2, Zenon
<1>. QED
  BY <1>3

\* The sum of the 16-bit words of n pairs of bytes.
IsWordSum(run, bytes, n) ==
  /\ run[0] = 0
  /\ \A k \in 1 .. n : run[k] = run[k - 1] + 256 * bytes[2 * k - 1] + bytes[2 * k]

LEMMA OnesSumIs ==
  ASSUME NEW n \in Nat \ {0}, NEW bytes, IsBytes(bytes, 2 * n)
  PROVE  \E run : IsWordSum(run, bytes, n) /\ OnesSum(bytes) = Carry[run[n]]
<1>. DEFINE U == 1 .. n
            seq == [k \in U |-> k]
            st == [p \in U \X Nat |-> p[2] + 256 * bytes[2 * p[1] - 1] + bytes[2 * p[1]]]
            Rec(i) == i = [S \in SUBSET U |->
                        IF S = {} THEN 0
                        ELSE i[S \ {Max(S)}] + 256 * bytes[2 * seq[Max(S)] - 1]
                             + bytes[2 * seq[Max(S)]]]
            iter == CHOOSE i : Rec(i)
            run == [k \in 0 .. n |-> iter[1 .. k]]
<1>1. \A k \in U : bytes[2 * k - 1] \in Nat /\ bytes[2 * k] \in Nat
  <2>1. \A j \in 1 .. 2 * n : bytes[j] \in Byte
    BY DEF IsBytes
  <2>2. \A k \in U : 2 * k - 1 \in 1 .. 2 * n /\ 2 * k \in 1 .. 2 * n
    OBVIOUS
  <2>3. \A x \in Byte : x \in Nat
    BY DEF Byte
  <2>. QED
    BY <2>1, <2>2, <2>3
<1>2. st \in [U \X Nat -> Nat]
  <2>1. ASSUME NEW p \in U \X Nat
        PROVE  p[2] + 256 * bytes[2 * p[1] - 1] + bytes[2 * p[1]] \in Nat
    <3>1. p[2] \in Nat /\ p[1] \in U
      OBVIOUS
    <3>. QED
      BY <1>1, <3>1
  <2>. QED
    BY <2>1
<1>3. PICK g \in [SUBSET U -> Nat] : IsLeftFold(g, n, 0, st)
  <2>. HIDE DEF st
  <2>1. n \in Nat /\ 0 \in Nat
    OBVIOUS
  <2>2. HasLeftFold(n, Nat, 0, st)
    BY <1>2, <2>1, LeftFoldExists, Zenon
  <2>. QED
    BY <2>2 DEF HasLeftFold
<1>4. Rec(g)
  <2>1. ASSUME NEW S \in SUBSET U
        PROVE  g[S] = IF S = {} THEN 0
                      ELSE g[S \ {Max(S)}] + 256 * bytes[2 * seq[Max(S)] - 1]
                           + bytes[2 * seq[Max(S)]]
    <3>. SUFFICES ASSUME S # {}
                  PROVE  g[S] = g[S \ {Max(S)}] + 256 * bytes[2 * seq[Max(S)] - 1]
                                + bytes[2 * seq[Max(S)]]
      <4>1. g[{}] = 0
        <5>. HIDE DEF st
        <5>. QED
          BY <1>3 DEF IsLeftFold
      <4>. HIDE DEF seq
      <4>. QED
        BY <4>1
    <3>1. Max(S) \in S
      <4>1. S \subseteq 0 .. n
        OBVIOUS
      <4>. QED
        BY <4>1, MaxShape
    <3>2. Max(S) \in U /\ S \ {Max(S)} \in SUBSET U
      BY <3>1
    <3>. DEFINE x == Max(S)
                y == g[S \ {Max(S)}]
    <3>3. x \in U /\ y \in Nat /\ seq[x] = x
      BY <1>3, <3>2
    <3>4. g[S] = st[<<x, y>>]
      <4>. HIDE DEF st
      <4>. QED
        BY <1>3 DEF IsLeftFold
    <3>. HIDE DEF x, y, seq
    <3>5. st[<<x, y>>] = y + 256 * bytes[2 * x - 1] + bytes[2 * x]
      BY <3>3
    <3>. HIDE DEF st
    <3>6. g[S] = y + 256 * bytes[2 * seq[x] - 1] + bytes[2 * seq[x]]
      BY <3>3, <3>4, <3>5
    <3>. QED
      BY <3>6, Zenon DEF x, y
  <2>. HIDE DEF seq, st
  <2>2. g = [S \in SUBSET U |-> g[S]]
    BY <1>3
  <2>. QED
    BY <2>1, <2>2, Zenon
<1>5. Rec(iter)
  <2>. HIDE DEF Rec
  <2>. QED
    BY <1>4, Zenon
<1>6. OnesSum(bytes) = Carry[iter[U]]
  <2>1. Len(bytes) \div 2 = n
    BY DEF IsBytes
  <2>2. DOMAIN seq = U
    OBVIOUS
  <2>3. FoldLeft(LAMBDA sum, k : sum + 256 * bytes[2 * k - 1] + bytes[2 * k], 0, seq) = iter[U]
    BY <2>2, Zenon DEF FoldLeft, MapThenFoldSet
  <2>. QED
    BY <2>1, <2>3, Zenon DEF OnesSum
<1>. HIDE DEF iter, st
<1>7. run[0] = 0
  <2>1. 1 .. 0 = {} /\ 0 \in 0 .. n /\ {} \in SUBSET U
    OBVIOUS
  <2>2. iter[{}] = 0
    <3>. HIDE DEF seq
    <3>. QED
      BY <1>5
  <2>. QED
    BY <2>1, <2>2
<1>8. ASSUME NEW k \in 1 .. n
      PROVE  run[k] = run[k - 1] + 256 * bytes[2 * k - 1] + bytes[2 * k]
  <2>1. Max(1 .. k) = k /\ (1 .. k) \ {k} = 1 .. k - 1
    <3>1. k \in Nat \ {0}
      OBVIOUS
    <3>. QED
      BY <3>1, MaxInterval
  <2>2. 1 .. k \in SUBSET U /\ 1 .. k # {} /\ k \in 0 .. n /\ k - 1 \in 0 .. n /\ seq[k] = k
    OBVIOUS
  <2>. HIDE DEF seq
  <2>3. iter[1 .. k] = iter[(1 .. k) \ {Max(1 .. k)}] + 256 * bytes[2 * seq[Max(1 .. k)] - 1]
                       + bytes[2 * seq[Max(1 .. k)]]
    BY <1>5, <2>2, Zenon
  <2>4. iter[1 .. k] = iter[1 .. k - 1] + 256 * bytes[2 * k - 1] + bytes[2 * k]
    BY <2>1, <2>2, <2>3, Zenon
  <2>. QED
    BY <2>2, <2>4
<1>9. run[n] = iter[U]
  OBVIOUS
<1>. HIDE DEF run
<1>. QED
  BY <1>6, <1>7, <1>8, <1>9, Zenon DEF IsWordSum

----------------------------------------------------------------------------
(* The header of the frame.                                                *)

\* The words of a header the checksum is zero in, and of one that has it.
LEMMA BigEndian == ASSUME NEW n \in Int  PROVE BE2(n) = <<(n \div 256) % 256, n % 256>>
<1>. DEFINE b == LE2(n)
            r == [k \in 1 .. 2 |-> b[(2 - k) + 1]]
<1>1. IsBytes(b, 2) /\ b[1] = n % 256 /\ b[2] = (n \div 256) % 256
  BY LE2Bytes
<1>2. BE2(n) = r
  BY <1>1 DEF BE2, Reverse, IsBytes
<1>3. b[1] \in Byte /\ b[2] \in Byte
  BY <1>1 DEF IsBytes
<1>. HIDE DEF b
<1>4. r \in [1 .. 2 -> Byte] /\ r[1] = b[2] /\ r[2] = b[1]
  BY <1>3
<1>. HIDE DEF r
<1>5. IsBytes(r, 2)
  <2>1. r \in Seq(Byte)
    BY <1>4, SeqDef
  <2>2. Len(r) \in Nat /\ DOMAIN r = 1 .. Len(r)
    BY <2>1, LenProperties
  <2>3. DOMAIN r = 1 .. 2
    BY <1>4
  <2>4. Len(r) = 2
    <3>1. 2 \in 1 .. Len(r)
      BY <2>2, <2>3
    <3>2. Len(r) >= 2
      BY <2>2, <3>1
    <3>3. Len(r) \in 1 .. Len(r)
      BY <2>2, <3>2
    <3>4. Len(r) \in 1 .. 2
      BY <2>2, <2>3, <3>3, Zenon
    <3>. QED
      BY <3>2, <3>4
  <2>. QED
    BY <2>1, <2>4 DEF IsBytes
<1>6. IsBytes(<<b[2], b[1]>>, 2)
  BY <1>3 DEF IsBytes
<1>7. \A k \in 1 .. 2 : r[k] = <<b[2], b[1]>>[k]
  BY <1>4
<1>8. r = <<b[2], b[1]>>
  BY <1>5, <1>6, <1>7, SeqEqual DEF IsBytes
<1>. QED
  BY <1>1, <1>2, <1>8

LEMMA TwoBytesAre ==
  ASSUME NEW x \in Byte, NEW y \in Byte
  PROVE  IsBytes(<<x, y>>, 2) /\ <<x, y>>[1] = x /\ <<x, y>>[2] = y
BY DEF IsBytes

LEMMA BE2Bytes ==
  ASSUME NEW n \in Int
  PROVE  IsBytes(BE2(n), 2) /\ BE2(n)[1] = (n \div 256) % 256 /\ BE2(n)[2] = n % 256
<1>1. (n \div 256) % 256 \in Byte /\ n % 256 \in Byte
  BY DEF Byte
<1>. DEFINE x == (n \div 256) % 256
            y == n % 256
<1>2. BE2(n) = <<x, y>>
  BY BigEndian
<1>3. x \in Byte /\ y \in Byte
  BY <1>1
<1>. HIDE DEF x, y
<1>4. IsBytes(<<x, y>>, 2) /\ <<x, y>>[1] = x /\ <<x, y>>[2] = y
  BY <1>3, TwoBytesAre, Zenon
<1>5. IsBytes(BE2(n), 2) /\ BE2(n)[1] = x /\ BE2(n)[2] = y
  BY <1>2, <1>4, Zenon
<1>. QED
  BY <1>5 DEF x, y

\* What the generator writes with "!H" is what the frame builder's constants say.
LEMMA FixedHeader == (((<<69, 0>> \o BE2(44)) \o BE2(0)) \o BE2(16384)) \o <<64, 17>> = IP_FIXED
<1>. DEFINE p1 == <<69, 0>>
            p2 == BE2(44)
            p3 == BE2(0)
            p4 == BE2(16384)
            p5 == <<64, 17>>
            q2 == p1 \o p2
            q3 == q2 \o p3
            q4 == q3 \o p4
            q5 == q4 \o p5
            t  == IP_FIXED
<1>1. IsBytes(p1, 2) /\ p1[1] = 69 /\ p1[2] = 0
  <2>1. 69 \in Byte /\ 0 \in Byte
    BY DEF Byte
  <2>. QED
    BY <2>1, TwoBytesAre
<1>2. IsBytes(p2, 2) /\ p2[1] = 0 /\ p2[2] = 44
  <2>1. 44 \in Int /\ (44 \div 256) % 256 = 0 /\ 44 % 256 = 44
    OBVIOUS
  <2>. QED
    BY <2>1, BE2Bytes
<1>3. IsBytes(p3, 2) /\ p3[1] = 0 /\ p3[2] = 0
  <2>1. 0 \in Int /\ (0 \div 256) % 256 = 0 /\ 0 % 256 = 0
    OBVIOUS
  <2>. QED
    BY <2>1, BE2Bytes
<1>4. IsBytes(p4, 2) /\ p4[1] = 64 /\ p4[2] = 0
  <2>1. 16384 \in Int /\ (16384 \div 256) % 256 = 64 /\ 16384 % 256 = 0
    OBVIOUS
  <2>. QED
    BY <2>1, BE2Bytes
<1>5. IsBytes(p5, 2) /\ p5[1] = 64 /\ p5[2] = 17
  <2>1. 64 \in Byte /\ 17 \in Byte
    BY DEF Byte
  <2>. QED
    BY <2>1, TwoBytesAre
<1>6. IsBytes(t, 10)
  BY DEF IsBytes, Byte, IP_FIXED
<1>7. /\ t[1] = 69 /\ t[2] = 0 /\ t[3] = 0 /\ t[4] = 44 /\ t[5] = 0
      /\ t[6] = 0 /\ t[7] = 64 /\ t[8] = 0 /\ t[9] = 64 /\ t[10] = 17
  BY DEF IP_FIXED
<1>. HIDE DEF p1, p2, p3, p4, p5, q2, q3, q4, q5, t
<1>8. 2 \in Nat /\ 4 \in Nat /\ 6 \in Nat /\ 8 \in Nat /\ 10 \in Nat
  OBVIOUS
<1>9. Joined(q2, p1, 2, p2, 2) /\ IsBytes(q2, 4)
  <2>1. Joined(q2, p1, 2, p2, 2)
    BY <1>1, <1>2, <1>8, Cat, Zenon DEF q2
  <2>. QED
    BY <2>1 DEF Joined
<1>10. Joined(q3, q2, 4, p3, 2) /\ IsBytes(q3, 6)
  <2>1. Joined(q3, q2, 4, p3, 2)
    BY <1>9, <1>3, <1>8, Cat, Zenon DEF q3
  <2>. QED
    BY <2>1 DEF Joined
<1>11. Joined(q4, q3, 6, p4, 2) /\ IsBytes(q4, 8)
  <2>1. Joined(q4, q3, 6, p4, 2)
    BY <1>10, <1>4, <1>8, Cat, Zenon DEF q4
  <2>. QED
    BY <2>1 DEF Joined
<1>12. Joined(q5, q4, 8, p5, 2) /\ IsBytes(q5, 10)
  <2>1. Joined(q5, q4, 8, p5, 2)
    BY <1>11, <1>5, <1>8, Cat, Zenon DEF q5
  <2>. QED
    BY <2>1 DEF Joined
<1>13. \A k \in 1 .. 10 : q5[k] = t[k]
  <2>1. q2[1] = 69 /\ q2[2] = 0 /\ q2[3] = 0 /\ q2[4] = 44
    BY <1>1, <1>2, <1>9 DEF Joined
  <2>2. q3[1] = 69 /\ q3[2] = 0 /\ q3[3] = 0 /\ q3[4] = 44 /\ q3[5] = 0 /\ q3[6] = 0
    BY <2>1, <1>3, <1>10 DEF Joined
  <2>3. /\ q4[1] = 69 /\ q4[2] = 0 /\ q4[3] = 0 /\ q4[4] = 44 /\ q4[5] = 0 /\ q4[6] = 0
        /\ q4[7] = 64 /\ q4[8] = 0
    BY <2>2, <1>4, <1>11 DEF Joined
  <2>4. /\ q5[1] = 69 /\ q5[2] = 0 /\ q5[3] = 0 /\ q5[4] = 44 /\ q5[5] = 0 /\ q5[6] = 0
        /\ q5[7] = 64 /\ q5[8] = 0 /\ q5[9] = 64 /\ q5[10] = 17
    BY <2>3, <1>5, <1>12 DEF Joined
  <2>5. /\ q5[1] = t[1] /\ q5[2] = t[2] /\ q5[3] = t[3] /\ q5[4] = t[4] /\ q5[5] = t[5]
        /\ q5[6] = t[6] /\ q5[7] = t[7] /\ q5[8] = t[8] /\ q5[9] = t[9] /\ q5[10] = t[10]
    BY <2>4, <1>7
  <2>. QED
    BY <2>5
<1>14. q5 = t
  <2>1. q5 \in Seq(Byte) /\ t \in Seq(Byte) /\ Len(q5) = 10 /\ Len(t) = 10
    BY <1>6, <1>12 DEF IsBytes
  <2>. QED
    BY <2>1, <1>13, SeqEqual
<1>. QED
  BY <1>14 DEF p1, p2, p3, p4, p5, q2, q3, q4, q5, t

LEMMA UdpHeader == ((BE2(12345) \o BE2(12346)) \o BE2(24)) \o BE2(0) = UDP_HEADER
<1>. DEFINE p1 == BE2(12345)
            p2 == BE2(12346)
            p3 == BE2(24)
            p4 == BE2(0)
            q2 == p1 \o p2
            q3 == q2 \o p3
            q4 == q3 \o p4
            t  == UDP_HEADER
<1>1. IsBytes(p1, 2) /\ p1[1] = 48 /\ p1[2] = 57
  <2>1. 12345 \in Int /\ (12345 \div 256) % 256 = 48 /\ 12345 % 256 = 57
    OBVIOUS
  <2>. QED
    BY <2>1, BE2Bytes
<1>2. IsBytes(p2, 2) /\ p2[1] = 48 /\ p2[2] = 58
  <2>1. 12346 \in Int /\ (12346 \div 256) % 256 = 48 /\ 12346 % 256 = 58
    OBVIOUS
  <2>. QED
    BY <2>1, BE2Bytes
<1>3. IsBytes(p3, 2) /\ p3[1] = 0 /\ p3[2] = 24
  <2>1. 24 \in Int /\ (24 \div 256) % 256 = 0 /\ 24 % 256 = 24
    OBVIOUS
  <2>. QED
    BY <2>1, BE2Bytes
<1>4. IsBytes(p4, 2) /\ p4[1] = 0 /\ p4[2] = 0
  <2>1. 0 \in Int /\ (0 \div 256) % 256 = 0 /\ 0 % 256 = 0
    OBVIOUS
  <2>. QED
    BY <2>1, BE2Bytes
<1>5. IsBytes(t, 8)
  BY DEF IsBytes, Byte, UDP_HEADER
<1>6. /\ t[1] = 48 /\ t[2] = 57 /\ t[3] = 48 /\ t[4] = 58
      /\ t[5] = 0 /\ t[6] = 24 /\ t[7] = 0 /\ t[8] = 0
  BY DEF UDP_HEADER
<1>. HIDE DEF p1, p2, p3, p4, q2, q3, q4, t
<1>7. 2 \in Nat /\ 4 \in Nat /\ 6 \in Nat /\ 8 \in Nat
  OBVIOUS
<1>8. Joined(q2, p1, 2, p2, 2) /\ IsBytes(q2, 4)
  <2>1. Joined(q2, p1, 2, p2, 2)
    BY <1>1, <1>2, <1>7, Cat, Zenon DEF q2
  <2>. QED
    BY <2>1 DEF Joined
<1>9. Joined(q3, q2, 4, p3, 2) /\ IsBytes(q3, 6)
  <2>1. Joined(q3, q2, 4, p3, 2)
    BY <1>8, <1>3, <1>7, Cat, Zenon DEF q3
  <2>. QED
    BY <2>1 DEF Joined
<1>10. Joined(q4, q3, 6, p4, 2) /\ IsBytes(q4, 8)
  <2>1. Joined(q4, q3, 6, p4, 2)
    BY <1>9, <1>4, <1>7, Cat, Zenon DEF q4
  <2>. QED
    BY <2>1 DEF Joined
<1>11. \A k \in 1 .. 8 : q4[k] = t[k]
  BY <1>1, <1>2, <1>3, <1>4, <1>6, <1>8, <1>9, <1>10 DEF Joined
<1>12. q4 = t
  <2>1. q4 \in Seq(Byte) /\ t \in Seq(Byte) /\ Len(q4) = 8 /\ Len(t) = 8
    BY <1>5, <1>10 DEF IsBytes
  <2>. QED
    BY <2>1, <1>11, SeqEqual
<1>. QED
  BY <1>12 DEF p1, p2, p3, p4, q2, q3, q4, t

\* The generator's header around any checksum.
LEMMA IpHeaderIs ==
  ASSUME NEW c
  PROVE  IpHeader(c) = ((IP_FIXED \o BE2(c)) \o SRC_IP) \o DST_IP
<1>. DEFINE f == (((<<69, 0>> \o BE2(44)) \o BE2(0)) \o BE2(16384)) \o <<64, 17>>
<1>1. IpHeader(c) = ((f \o BE2(c)) \o SRC_IP) \o DST_IP
  BY DEF IpHeader, SRC_IP, DST_IP
<1>2. f = IP_FIXED
  BY FixedHeader
<1>. HIDE DEF f
<1>. QED
  BY <1>1, <1>2


\* An IPv4 header of 20 bytes, the checksum's two in the middle.
IsIpHeader(h, high, low) ==
  /\ IsBytes(h, 20)
  /\ \A k \in 1 .. 10 : h[k] = IP_FIXED[k]
  /\ h[11] = high /\ h[12] = low
  /\ \A k \in 1 .. 4 : h[k + 12] = SRC_IP[k] /\ h[k + 16] = DST_IP[k]

LEMMA IpHeaderBytes ==
  ASSUME NEW c \in Word16
  PROVE  IsIpHeader(IpHeader(c), c \div 256, c % 256)
<1>. DEFINE p1 == IP_FIXED
            p2 == BE2(c)
            p3 == SRC_IP
            p4 == DST_IP
            q2 == p1 \o p2
            q3 == q2 \o p3
            q4 == q3 \o p4
<1>1. IsBytes(p1, 10)
  BY DEF IsBytes, Byte, IP_FIXED
<1>2. IsBytes(p2, 2) /\ p2[1] = c \div 256 /\ p2[2] = c % 256
  <2>1. c \in Int /\ (c \div 256) % 256 = c \div 256 /\ c \div 256 \in Byte /\ c % 256 \in Byte
    BY DEF Word16, Byte
  <2>2. p2 = <<c \div 256, c % 256>>
    BY <2>1, BigEndian
  <2>. HIDE DEF p2
  <2>. QED
    BY <2>1, <2>2 DEF IsBytes
<1>3. IsBytes(p3, 4)
  BY DEF IsBytes, Byte, SRC_IP
<1>4. IsBytes(p4, 4)
  BY DEF IsBytes, Byte, DST_IP
<1>. HIDE DEF p1, p2, p3, p4, q2, q3, q4
<1>5. 2 \in Nat /\ 4 \in Nat /\ 10 \in Nat /\ 12 \in Nat /\ 16 \in Nat /\ 20 \in Nat
  OBVIOUS
<1>6. Joined(q2, p1, 10, p2, 2) /\ IsBytes(q2, 12)
  <2>1. Joined(q2, p1, 10, p2, 2)
    BY <1>1, <1>2, <1>5, Cat, Zenon DEF q2
  <2>. QED
    BY <2>1 DEF Joined
<1>7. Joined(q3, q2, 12, p3, 4) /\ IsBytes(q3, 16)
  <2>1. Joined(q3, q2, 12, p3, 4)
    BY <1>3, <1>5, <1>6, Cat, Zenon DEF q3
  <2>. QED
    BY <2>1 DEF Joined
<1>8. Joined(q4, q3, 16, p4, 4) /\ IsBytes(q4, 20)
  <2>1. Joined(q4, q3, 16, p4, 4)
    BY <1>4, <1>5, <1>7, Cat, Zenon DEF q4
  <2>. QED
    BY <2>1 DEF Joined
<1>9. \A k \in 1 .. 10 : q4[k] = p1[k]
  BY <1>6, <1>7, <1>8 DEF Joined
<1>10. q4[11] = c \div 256 /\ q4[12] = c % 256
  BY <1>2, <1>6, <1>7, <1>8 DEF Joined
<1>11. \A k \in 1 .. 4 : q4[k + 12] = p3[k]
  BY <1>7, <1>8 DEF Joined
<1>12. \A k \in 1 .. 4 : q4[k + 16] = p4[k]
  BY <1>8 DEF Joined
<1>13. IpHeader(c) = q4
  BY IpHeaderIs, Zenon DEF p1, p2, p3, p4, q2, q3, q4
<1>. QED
  BY <1>8, <1>9, <1>10, <1>11, <1>12, <1>13, Zenon DEF IsIpHeader, p1, p3, p4

\* The sum of its words: 149675 without the checksum.
LEMMA HeaderSum ==
  ASSUME NEW h, NEW high \in Byte, NEW low \in Byte, IsIpHeader(h, high, low)
  PROVE  OnesSum(h) = Carry[149675 + 256 * high + low]
<1>1. /\ h[1] = 69 /\ h[2] = 0 /\ h[3] = 0 /\ h[4] = 44 /\ h[5] = 0
      /\ h[6] = 0 /\ h[7] = 64 /\ h[8] = 0 /\ h[9] = 64 /\ h[10] = 17
  BY DEF IsIpHeader, IP_FIXED
<1>2. h[11] = high /\ h[12] = low
  BY DEF IsIpHeader
<1>3. h[13] = 192 /\ h[14] = 168 /\ h[15] = 1 /\ h[16] = 10
  <2>1. \A k \in 1 .. 4 : h[k + 12] = SRC_IP[k]
    BY DEF IsIpHeader
  <2>2. h[1 + 12] = SRC_IP[1] /\ h[2 + 12] = SRC_IP[2] /\ h[3 + 12] = SRC_IP[3] /\ h[4 + 12] = SRC_IP[4]
    BY <2>1
  <2>. QED
    BY <2>2 DEF SRC_IP
<1>4. h[17] = 192 /\ h[18] = 168 /\ h[19] = 1 /\ h[20] = 20
  <2>1. \A k \in 1 .. 4 : h[k + 16] = DST_IP[k]
    BY DEF IsIpHeader
  <2>2. h[1 + 16] = DST_IP[1] /\ h[2 + 16] = DST_IP[2] /\ h[3 + 16] = DST_IP[3] /\ h[4 + 16] = DST_IP[4]
    BY <2>1
  <2>. QED
    BY <2>2 DEF DST_IP
<1>5. PICK run : IsWordSum(run, h, 10) /\ OnesSum(h) = Carry[run[10]]
  <2>1. 10 \in Nat \ {0} /\ IsBytes(h, 2 * 10)
    BY DEF IsIpHeader
  <2>. QED
    BY <2>1, OnesSumIs
<1>6. high \in Nat /\ low \in Nat
  BY DEF Byte
<1>7. run[0] = 0 /\ \A k \in 1 .. 10 : run[k] = run[k - 1] + 256 * h[2 * k - 1] + h[2 * k]
  BY <1>5 DEF IsWordSum
<1>8. run[1] = 17664 /\ run[2] = 17708 /\ run[3] = 17708
  <2>1. run[1] = run[0] + 256 * h[1] + h[2]  BY <1>7
  <2>2. run[2] = run[1] + 256 * h[3] + h[4]  BY <1>7
  <2>3. run[3] = run[2] + 256 * h[5] + h[6]  BY <1>7
  <2>. QED  BY <1>1, <1>7, <2>1, <2>2, <2>3
<1>9. run[4] = 34092 /\ run[5] = 50493
  <2>1. run[4] = run[3] + 256 * h[7] + h[8]  BY <1>7
  <2>2. run[5] = run[4] + 256 * h[9] + h[10]  BY <1>7
  <2>. QED  BY <1>1, <1>8, <2>1, <2>2
<1>10. run[6] = 50493 + 256 * high + low
  <2>1. run[6] = run[5] + 256 * h[11] + h[12]  BY <1>7
  <2>. QED  BY <1>2, <1>9, <2>1
<1>11. run[7] = 99813 + 256 * high + low /\ run[8] = 100079 + 256 * high + low
  <2>1. run[7] = run[6] + 256 * h[13] + h[14]  BY <1>7
  <2>2. run[8] = run[7] + 256 * h[15] + h[16]  BY <1>7
  <2>. QED  BY <1>3, <1>6, <1>10, <2>1, <2>2
<1>12. run[9] = 149399 + 256 * high + low /\ run[10] = 149675 + 256 * high + low
  <2>1. run[9] = run[8] + 256 * h[17] + h[18]  BY <1>7
  <2>2. run[10] = run[9] + 256 * h[19] + h[20]  BY <1>7
  <2>. QED  BY <1>4, <1>6, <1>11, <2>1, <2>2
<1>. QED
  BY <1>5, <1>12

\* The checksum the frame builder has as a constant is the one the generator
\* computes, and the sum over a header that has it is all ones.
LEMMA ChecksumIs == BE2(IpChecksum(IpHeader(0))) = IP_CHECKSUM
<1>1. 0 \in Word16 /\ 0 \div 256 = 0 /\ 0 % 256 = 0 /\ 0 \in Byte
  BY DEF Word16, Byte
<1>2. IsIpHeader(IpHeader(0), 0, 0)
  BY <1>1, IpHeaderBytes
<1>3. OnesSum(IpHeader(0)) = Carry[149675 + 256 * 0 + 0]
  BY <1>1, <1>2, HeaderSum
<1>4. Carry[149675] = Carry[18605] /\ Carry[18605] = 18605
  <2>1. 149675 \in Nat /\ 149675 >= 65536 /\ (149675 % 65536) + (149675 \div 65536) = 18605
    OBVIOUS
  <2>2. 18605 \in Nat /\ 18605 < 65536
    OBVIOUS
  <2>. QED
    BY <2>1, <2>2, CarryIs
<1>5. IpChecksum(IpHeader(0)) = 46930
  BY <1>3, <1>4 DEF IpChecksum
<1>6. BE2(46930) = <<183, 82>>
  BY BigEndian
<1>. QED
  BY <1>5, <1>6 DEF IP_CHECKSUM

LEMMA SumIsOnes ==
  ASSUME NEW h, IsIpHeader(h, 183, 82)
  PROVE  OnesSum(h) = 65535
<1>1. 183 \in Byte /\ 82 \in Byte
  BY DEF Byte
<1>2. OnesSum(h) = Carry[149675 + 256 * 183 + 82]
  BY <1>1, HeaderSum
<1>3. Carry[196605] = Carry[65535] /\ Carry[65535] = 65535
  <2>1. 196605 \in Nat /\ 196605 >= 65536 /\ (196605 % 65536) + (196605 \div 65536) = 65535
    OBVIOUS
  <2>2. 65535 \in Nat /\ 65535 < 65536
    OBVIOUS
  <2>. QED
    BY <2>1, <2>2, CarryIs
<1>. QED
  BY <1>2, <1>3

----------------------------------------------------------------------------
(* The frame.                                                              *)

\* What stands where in the frame builder's header.
LEMMA HeaderIs ==
  /\ IsBytes(HeaderBytes, 42)
  /\ \A k \in 1 .. 10 : HeaderBytes[k + 14] = IP_FIXED[k]
  /\ HeaderBytes[25] = 183 /\ HeaderBytes[26] = 82
  /\ \A k \in 1 .. 4 : HeaderBytes[k + 26] = SRC_IP[k] /\ HeaderBytes[k + 30] = DST_IP[k]
<1>. DEFINE p1 == DST_MAC
            p2 == SRC_MAC
            p3 == ETHERTYPE
            p4 == IP_FIXED
            p5 == IP_CHECKSUM
            p6 == SRC_IP
            p7 == DST_IP
            p8 == UDP_HEADER
            q2 == p1 \o p2
            q3 == q2 \o p3
            q4 == q3 \o p4
            q5 == q4 \o p5
            q6 == q5 \o p6
            q7 == q6 \o p7
            q8 == q7 \o p8
<1>1. IsBytes(p1, 6)
  BY DEF IsBytes, Byte, DST_MAC
<1>2. IsBytes(p2, 6)
  BY DEF IsBytes, Byte, SRC_MAC
<1>3. IsBytes(p3, 2)
  BY DEF IsBytes, Byte, ETHERTYPE
<1>4. IsBytes(p4, 10)
  BY DEF IsBytes, Byte, IP_FIXED
<1>5. IsBytes(p5, 2) /\ p5[1] = 183 /\ p5[2] = 82
  BY DEF IsBytes, Byte, IP_CHECKSUM
<1>6. IsBytes(p6, 4)
  BY DEF IsBytes, Byte, SRC_IP
<1>7. IsBytes(p7, 4)
  BY DEF IsBytes, Byte, DST_IP
<1>8. IsBytes(p8, 8)
  BY DEF IsBytes, Byte, UDP_HEADER
<1>. HIDE DEF p1, p2, p3, p4, p5, p6, p7, p8, q2, q3, q4, q5, q6, q7, q8
<1>9. /\ 2 \in Nat /\ 4 \in Nat /\ 6 \in Nat /\ 8 \in Nat /\ 10 \in Nat /\ 12 \in Nat
      /\ 14 \in Nat /\ 24 \in Nat /\ 26 \in Nat /\ 30 \in Nat /\ 34 \in Nat /\ 42 \in Nat
  OBVIOUS
<1>10. Joined(q2, p1, 6, p2, 6) /\ IsBytes(q2, 12)
  <2>1. Joined(q2, p1, 6, p2, 6)
    BY <1>1, <1>2, <1>9, Cat, Zenon DEF q2
  <2>. QED
    BY <2>1 DEF Joined
<1>11. Joined(q3, q2, 12, p3, 2) /\ IsBytes(q3, 14)
  <2>1. Joined(q3, q2, 12, p3, 2)
    BY <1>10, <1>3, <1>9, Cat, Zenon DEF q3
  <2>. QED
    BY <2>1 DEF Joined
<1>12. Joined(q4, q3, 14, p4, 10) /\ IsBytes(q4, 24)
  <2>1. Joined(q4, q3, 14, p4, 10)
    BY <1>11, <1>4, <1>9, Cat, Zenon DEF q4
  <2>. QED
    BY <2>1 DEF Joined
<1>13. Joined(q5, q4, 24, p5, 2) /\ IsBytes(q5, 26)
  <2>1. IsBytes(q4, 24) /\ IsBytes(p5, 2) /\ 24 \in Nat /\ 2 \in Nat
    BY <1>12, <1>5
  <2>2. Joined(q4 \o p5, q4, 24, p5, 2)
    BY <2>1, Cat, Zenon
  <2>3. Joined(q5, q4, 24, p5, 2)
    BY <2>2 DEF q5
  <2>. QED
    BY <2>3 DEF Joined
<1>14. Joined(q6, q5, 26, p6, 4) /\ IsBytes(q6, 30)
  <2>1. Joined(q6, q5, 26, p6, 4)
    BY <1>13, <1>6, <1>9, Cat, Zenon DEF q6
  <2>. QED
    BY <2>1 DEF Joined
<1>15. Joined(q7, q6, 30, p7, 4) /\ IsBytes(q7, 34)
  <2>1. Joined(q7, q6, 30, p7, 4)
    BY <1>14, <1>7, <1>9, Cat, Zenon DEF q7
  <2>. QED
    BY <2>1 DEF Joined
<1>16. Joined(q8, q7, 34, p8, 8) /\ IsBytes(q8, 42)
  <2>1. Joined(q8, q7, 34, p8, 8)
    BY <1>15, <1>8, <1>9, Cat, Zenon DEF q8
  <2>. QED
    BY <2>1 DEF Joined
<1>17. \A k \in 1 .. 10 : q8[k + 14] = p4[k]
  <2>1. \A k \in 1 .. 10 : q4[k + 14] = p4[k]
    BY <1>12 DEF Joined
  <2>2. \A k \in 1 .. 24 : q8[k] = q4[k]
    BY <1>13, <1>14, <1>15, <1>16 DEF Joined
  <2>. QED
    BY <2>1, <2>2
<1>18. q8[25] = 183 /\ q8[26] = 82
  <2>1. q5[25] = 183 /\ q5[26] = 82
    BY <1>5, <1>13 DEF Joined
  <2>2. \A k \in 1 .. 26 : q8[k] = q5[k]
    BY <1>14, <1>15, <1>16 DEF Joined
  <2>. QED
    BY <2>1, <2>2
<1>19. \A k \in 1 .. 4 : q8[k + 26] = p6[k]
  BY <1>14, <1>15, <1>16 DEF Joined
<1>20. \A k \in 1 .. 4 : q8[k + 30] = p7[k]
  BY <1>15, <1>16 DEF Joined
<1>21. HeaderBytes = q8
  BY Zenon DEF HeaderBytes, p1, p2, p3, p4, p5, p6, p7, p8, q2, q3, q4, q5, q6, q7, q8
<1>. QED
  BY <1>16, <1>17, <1>18, <1>19, <1>20, <1>21, Zenon DEF p4, p6, p7

\* Which bytes are joined first makes no difference.
LEMMA Assoc ==
  ASSUME NEW a \in Seq(Byte), NEW b \in Seq(Byte), NEW c \in Seq(Byte)
  PROVE  a \o (b \o c) = (a \o b) \o c
BY ConcatAssociative

\* The frame builder's header is the generator's.
LEMMA SameHeader == NetworkHeader = HeaderBytes
<1>. DEFINE x  == (DST_MAC \o SRC_MAC) \o ETHERTYPE
            f  == IP_FIXED
            c  == IP_CHECKSUM
            si == SRC_IP
            di == DST_IP
            b1 == BE2(12345)
            b2 == BE2(12346)
            b3 == BE2(24)
            b4 == BE2(0)
            fc == f \o c
            fs == fc \o si
            ip == fs \o di
            bb == b1 \o b2
            bc == bb \o b3
            udp == bc \o b4
<1>1. NetworkHeader = ((((x \o ip) \o b1) \o b2) \o b3) \o b4
  <2>. DEFINE e == BE2(2048)
              h == IpHeader(IpChecksum(IpHeader(0)))
  <2>1. e = ETHERTYPE
    BY BigEndian DEF ETHERTYPE
  <2>2. h = ip
    BY IpHeaderIs, ChecksumIs, Zenon
  <2>. HIDE DEF e, h, ip, b1, b2, b3, b4
  <2>3. NetworkHeader = ((((((DST_MAC \o SRC_MAC) \o e) \o h) \o b1) \o b2) \o b3) \o b4
    BY DEF NetworkHeader, DST_MAC, SRC_MAC, e, h, b1, b2, b3, b4
  <2>4. (DST_MAC \o SRC_MAC) \o e = x
    BY <2>1
  <2>. HIDE DEF x
  <2>5. (((((DST_MAC \o SRC_MAC) \o e) \o h) \o b1) \o b2) = (((x \o ip) \o b1) \o b2)
    BY <2>2, <2>4
  <2>. QED
    BY <2>3, <2>5
<1>2. HeaderBytes = ((((x \o f) \o c) \o si) \o di) \o udp
  <2>1. udp = UDP_HEADER
    BY UdpHeader
  <2>. HIDE DEF udp
  <2>2. HeaderBytes = ((((x \o f) \o c) \o si) \o di) \o UDP_HEADER
    BY DEF HeaderBytes
  <2>. QED
    BY <2>1, <2>2
<1>3. x \in Seq(Byte)
  <2>1. DST_MAC \in Seq(Byte) /\ SRC_MAC \in Seq(Byte) /\ ETHERTYPE \in Seq(Byte)
    BY DEF DST_MAC, SRC_MAC, ETHERTYPE, Byte
  <2>. QED
    BY <2>1
<1>4. f \in Seq(Byte) /\ c \in Seq(Byte) /\ si \in Seq(Byte) /\ di \in Seq(Byte)
  <2>1. f \in Seq(Byte)
    BY DEF IP_FIXED, Byte
  <2>2. c \in Seq(Byte)
    BY DEF IP_CHECKSUM, Byte
  <2>3. si \in Seq(Byte) /\ di \in Seq(Byte)
    BY DEF SRC_IP, DST_IP, Byte
  <2>. QED
    BY <2>1, <2>2, <2>3
<1>5. b1 \in Seq(Byte) /\ b2 \in Seq(Byte) /\ b3 \in Seq(Byte) /\ b4 \in Seq(Byte)
  <2>1. 12345 \in Int /\ 12346 \in Int /\ 24 \in Int /\ 0 \in Int
    OBVIOUS
  <2>2. IsBytes(b1, 2) /\ IsBytes(b2, 2) /\ IsBytes(b3, 2) /\ IsBytes(b4, 2)
    BY <2>1, BE2Bytes
  <2>. HIDE DEF b1, b2, b3, b4
  <2>. QED
    BY <2>2 DEF IsBytes
<1>. HIDE DEF x, f, c, si, di, b1, b2, b3, b4, fc, fs, ip, bb, bc, udp
<1>6. fc \in Seq(Byte) /\ bb \in Seq(Byte)
  BY <1>4, <1>5 DEF fc, bb
<1>7. fs \in Seq(Byte) /\ bc \in Seq(Byte)
  BY <1>4, <1>5, <1>6 DEF fs, bc
<1>8. ip \in Seq(Byte)
  BY <1>4, <1>7 DEF ip
<1>9. x \o ip = ((((x \o f) \o c) \o si) \o di)
  <2>1. x \o (fs \o di) = (x \o fs) \o di
    BY <1>3, <1>4, <1>7, Assoc, Zenon
  <2>2. x \o (fc \o si) = (x \o fc) \o si
    BY <1>3, <1>4, <1>6, Assoc, Zenon
  <2>3. x \o (f \o c) = (x \o f) \o c
    BY <1>3, <1>4, Assoc, Zenon
  <2>. QED
    BY <2>1, <2>2, <2>3 DEF ip, fs, fc
<1>. DEFINE y == x \o ip
<1>10. y \in Seq(Byte)
  BY <1>3, <1>8
<1>. HIDE DEF y
<1>11. y \o udp = (((y \o b1) \o b2) \o b3) \o b4
  <2>1. y \o (bc \o b4) = (y \o bc) \o b4
    BY <1>5, <1>7, <1>10, Assoc, Zenon
  <2>2. y \o (bb \o b3) = (y \o bb) \o b3
    BY <1>5, <1>6, <1>10, Assoc, Zenon
  <2>3. y \o (b1 \o b2) = (y \o b1) \o b2
    BY <1>5, <1>10, Assoc, Zenon
  <2>. QED
    BY <2>1, <2>2, <2>3 DEF udp, bc, bb
<1>. QED
  BY <1>1, <1>2, <1>9, <1>11 DEF y

\* The order's bytes follow the header, in the frame builder as in the generator.
LEMMA FrameIs ==
  ASSUME NEW o \in WireOrder
  PROVE  PlFrame(o) = HeaderBytes \o Pack7(o)
<1>. DEFINE h  == HeaderBytes
            p1 == LE4(o.order_id)
            p2 == LE2(o.symbol)
            p3 == <<o.side>>
            p4 == LE4(o.qty)
            p5 == LE4(o.price)
            p6 == <<0>>
<1>1. /\ o.order_id \in Int /\ o.symbol \in Int /\ o.side \in Byte /\ o.qty \in Int
      /\ o.price \in Int /\ 0 \in Byte
  BY DEF WireOrder, Byte
<1>2. /\ IsBytes(p1, 4) /\ IsBytes(p2, 2) /\ IsBytes(p3, 1) /\ IsBytes(p4, 4)
      /\ IsBytes(p5, 4) /\ IsBytes(p6, 1)
  <2>1. IsBytes(p1, 4) /\ IsBytes(p4, 4) /\ IsBytes(p5, 4)
    BY <1>1, LE4Bytes, Zenon
  <2>2. IsBytes(p2, 2)
    BY <1>1, LE2Bytes, Zenon
  <2>3. IsBytes(p3, 1) /\ IsBytes(p6, 1)
    BY <1>1, OneByte, Zenon
  <2>. QED
    BY <2>1, <2>2, <2>3
<1>3. h \in Seq(Byte)
  BY HeaderIs DEF IsBytes
<1>4. /\ PlFrame(o) = (((((h \o p1) \o p2) \o p3) \o p4) \o p5) \o p6
      /\ Pack7(o) = ((((p1 \o p2) \o p3) \o p4) \o p5) \o p6
  BY Zenon DEF PlFrame, Pack7
<1>5. /\ p1 \in Seq(Byte) /\ p2 \in Seq(Byte) /\ p3 \in Seq(Byte) /\ p4 \in Seq(Byte) /\ p5 \in Seq(Byte)
      /\ p6 \in Seq(Byte)
  BY <1>2 DEF IsBytes
<1>. DEFINE q2 == p1 \o p2
            q3 == q2 \o p3
            q4 == q3 \o p4
            q5 == q4 \o p5
<1>. HIDE DEF h, p1, p2, p3, p4, p5, p6, q2, q3, q4, q5
<1>6. q2 \in Seq(Byte)
  BY <1>5 DEF q2
<1>7. q3 \in Seq(Byte)
  BY <1>5, <1>6 DEF q3
<1>8. q4 \in Seq(Byte)
  BY <1>5, <1>7 DEF q4
<1>9. q5 \in Seq(Byte)
  BY <1>5, <1>8 DEF q5
<1>10. h \o (q5 \o p6) = (((((h \o p1) \o p2) \o p3) \o p4) \o p5) \o p6
  <2>0. /\ h \in Seq(Byte)
        /\ p1 \in Seq(Byte)
        /\ p2 \in Seq(Byte)
    BY <1>3, <1>5
  <2>1. h \o (p1 \o p2) = (h \o p1) \o p2
    BY <2>0, Assoc
  <2>2. h \o (q2 \o p3) = (h \o q2) \o p3
    <3>1. h \in Seq(Byte) /\ q2 \in Seq(Byte) /\ p3 \in Seq(Byte)
      BY <1>3, <1>5, <1>6
    <3>. QED
      BY <3>1, Assoc, Zenon
  <2>3. h \o (q3 \o p4) = (h \o q3) \o p4
    <3>1. h \in Seq(Byte) /\ q3 \in Seq(Byte) /\ p4 \in Seq(Byte)
      BY <1>3, <1>5, <1>7
    <3>. QED
      BY <3>1, Assoc, Zenon
  <2>4. h \o (q4 \o p5) = (h \o q4) \o p5
    <3>1. h \in Seq(Byte) /\ q4 \in Seq(Byte) /\ p5 \in Seq(Byte)
      BY <1>3, <1>5, <1>8
    <3>. QED
      BY <3>1, Assoc, Zenon
  <2>5. h \o (q5 \o p6) = (h \o q5) \o p6
    <3>1. h \in Seq(Byte) /\ q5 \in Seq(Byte) /\ p6 \in Seq(Byte)
      BY <1>3, <1>5, <1>9
    <3>. QED
      BY <3>1, Assoc, Zenon
  <2>. QED
    BY <2>1, <2>2, <2>3, <2>4, <2>5 DEF q2, q3, q4, q5
<1>. QED
  BY <1>4, <1>10 DEF h, q2, q3, q4, q5

\* An order the simulator can be answered with has the same bytes everywhere.
LEMMA RoadsAgree ==
  ASSUME NEW o \in Table7Order, o.side \in {1, 2}, o.symbol = AAPL_SYMBOL_ID
  PROVE  SameOnEveryRoad(o)
<1>. DEFINE side == CHOOSE side \in {"BUY", "SELL"} : Table7Side[side] = o.side
            decision == [side |-> side, qty |-> o.qty, price |-> o.price]
            packet == EncodeOrder(decision, o.order_id)
            frame == PlFrame(o)
<1>1. /\ o.order_id \in Int /\ o.qty \in Int /\ o.price \in Int /\ o \in WireOrder
      /\ o = [order_id |-> o.order_id, symbol |-> o.symbol, side |-> o.side, qty |-> o.qty,
              price |-> o.price]
  BY DEF Table7Order, WireOrder, Word32, Word16
<1>2. side \in {"BUY", "SELL"} /\ Table7Side[side] = o.side
  <2>1. \E s \in {"BUY", "SELL"} : Table7Side[s] = o.side
    BY DEF Table7Side
  <2>. QED
    BY <2>1
<1>3. packet = Pack7(o)
  <2>. HIDE DEF side
  <2>1. decision.side = side /\ decision.qty = o.qty /\ decision.price = o.price
    OBVIOUS
  <2>. HIDE DEF decision
  <2>2. packet = Pack7([order_id |-> o.order_id, symbol |-> AAPL_SYMBOL_ID,
                        side |-> Table7Side[decision.side], qty |-> decision.qty,
                        price |-> decision.price])
    BY <1>1, <1>2, <2>1, WriterUsesTable7
  <2>. HIDE DEF packet
  <2>. QED
    BY <1>1, <1>2, <2>1, <2>2, Zenon
<1>4. PlFrame(o) = GoldenFrame(o)
  BY <1>1, FrameIs, SameHeader, Zenon DEF GoldenFrame
<1>5. Joined(frame, HeaderBytes, 42, Pack7(o), 16)
  <2>1. IsBytes(HeaderBytes, 42) /\ IsBytes(Pack7(o), 16)
    BY <1>1, HeaderIs, Pack7Bytes
  <2>2. 42 \in Nat /\ 16 \in Nat
    OBVIOUS
  <2>3. Joined(HeaderBytes \o Pack7(o), HeaderBytes, 42, Pack7(o), 16)
    BY <2>1, <2>2, Cat
  <2>. QED
    BY <1>1, <2>3, FrameIs
<1>. HIDE DEF frame
<1>6. IsBytes(frame, 58)
  BY <1>5 DEF Joined
<1>7. SubSeq(frame, 43, 58) = Pack7(o)
  <2>. DEFINE p == SubSeq(frame, 43, 58)
  <2>1. \A k \in 43 .. 58 : frame[k] \in Byte
    <3>1. frame \in Seq(Byte) /\ \A k \in 43 .. 58 : k \in 1 .. Len(frame)
      BY <1>6 DEF IsBytes
    <3>. QED
      BY <3>1, ByteOf, Zenon
  <2>2. /\ p \in Seq(Byte) /\ Len(p) = 16
        /\ \A k \in 1 .. 16 : p[k] = frame[42 + k]
    <3>1. /\ SubSeq(frame, 43, 58) \in Seq(Byte)
          /\ Len(SubSeq(frame, 43, 58)) = IF 43 <= 58 THEN 58-43+1 ELSE 0
          /\ \A i \in 1 .. 58-43+1 : SubSeq(frame, 43, 58)[i] = frame[43+i-1]
      BY <2>1, SubSeqProperties
    <3>. QED
      BY <3>1
  <2>. HIDE DEF p
  <2>3. \A k \in 1 .. 16 : frame[42 + k] = Pack7(o)[k]
    BY <1>5 DEF Joined
  <2>4. IsBytes(Pack7(o), 16)
    BY <1>1, Pack7Bytes
  <2>5. p = Pack7(o)
    <3>. DEFINE w == Pack7(o)
    <3>1. w \in Seq(Byte) /\ Len(w) = 16
      BY <2>4 DEF IsBytes
    <3>2. \A k \in 1 .. 16 : p[k] = w[k]
      BY <2>2, <2>3
    <3>. HIDE DEF w
    <3>3. p = w
      BY <2>2, <3>1, <3>2, SeqEqual
    <3>. QED
      BY <3>3 DEF w
  <2>. QED
    BY <2>5 DEF p
<1>8. OnesSum(SubSeq(frame, 15, 34)) = 65535
  <2>. DEFINE h == SubSeq(frame, 15, 34)
  <2>1. \A k \in 15 .. 34 : frame[k] \in Byte
    <3>1. frame \in Seq(Byte) /\ \A k \in 15 .. 34 : k \in 1 .. Len(frame)
      BY <1>6 DEF IsBytes
    <3>. QED
      BY <3>1, ByteOf, Zenon
  <2>2. /\ IsBytes(h, 20)
        /\ \A k \in 1 .. 20 : h[k] = frame[14 + k]
    <3>1. /\ SubSeq(frame, 15, 34) \in Seq(Byte)
          /\ Len(SubSeq(frame, 15, 34)) = IF 15 <= 34 THEN 34-15+1 ELSE 0
          /\ \A i \in 1 .. 34-15+1 : SubSeq(frame, 15, 34)[i] = frame[15+i-1]
      BY <2>1, SubSeqProperties
    <3>. QED
      BY <3>1 DEF IsBytes
  <2>. HIDE DEF h
  <2>3. \A k \in 1 .. 42 : frame[k] = HeaderBytes[k]
    BY <1>5 DEF Joined
  <2>4. \A k \in 1 .. 10 : h[k] = IP_FIXED[k]
    BY <2>2, <2>3, HeaderIs
  <2>5. h[11] = 183 /\ h[12] = 82
    BY <2>2, <2>3, HeaderIs
  <2>6. \A k \in 1 .. 4 : h[k + 12] = SRC_IP[k]
    BY <2>2, <2>3, HeaderIs
  <2>7. \A k \in 1 .. 4 : h[k + 16] = DST_IP[k]
    BY <2>2, <2>3, HeaderIs
  <2>8. IsIpHeader(h, 183, 82)
    BY <2>2, <2>4, <2>5, <2>6, <2>7 DEF IsIpHeader
  <2>. QED
    BY <2>8, SumIsOnes DEF h
<1>9. Unpack7(packet) = o
  BY <1>3, OrderSurvivesTheWire
<1>10. Len(frame) = 58
  BY <1>6 DEF IsBytes
<1>. HIDE DEF packet
<1>11. /\ packet = Pack7(o)
       /\ PlFrame(o) = GoldenFrame(o)
       /\ Len(PlFrame(o)) = 58 /\ SubSeq(PlFrame(o), 43, 58) = packet
       /\ OnesSum(SubSeq(PlFrame(o), 15, 34)) = 65535
       /\ Unpack7(packet) = o
  BY <1>3, <1>4, <1>7, <1>8, <1>9, <1>10 DEF frame
<1>. QED
  BY <1>11 DEF SameOnEveryRoad, packet, decision, side

----------------------------------------------------------------------------
(* The frames of a slice.                                                  *)

\* A message in Table 6, with the version, the padding and a side of the packets
\* that are written.
IsFrame(b) == /\ IsBytes(b, 24) /\ b[2] = 1 /\ b[3] = 0 /\ b[12] \in {1, 2}
              /\ b[21] = 0 /\ b[22] = 0 /\ b[23] = 0 /\ b[24] = 0
FramesAreFrames == \A k \in 1 .. Len(frame_file) : IsFrame(frame_file[k])

\* Four bytes are the bytes of the number they make.
LEMMA BytesOfWord ==
  ASSUME NEW w \in Byte, NEW x \in Byte, NEW y \in Byte, NEW z \in Byte
  PROVE  LE4(w + 256 * x + 65536 * y + 16777216 * z) = <<w, x, y, z>>
<1>. DEFINE n == w + 256 * x + 65536 * y + 16777216 * z
<1>1. /\ w \in Nat /\ w < 256 /\ x \in Nat /\ x < 256
      /\ y \in Nat /\ y < 256 /\ z \in Nat /\ z < 256
  BY DEF Byte
<1>2. n % 256 = w /\ n \div 256 = x + 256 * y + 65536 * z
  <2>. DEFINE m == x + 256 * y + 65536 * z
  <2>1. n = 256 * m + w /\ m \in Nat
    BY <1>1
  <2>. HIDE DEF n, m
  <2>2. n % 256 = w /\ n \div 256 = m
    BY <1>1, <2>1
  <2>. QED
    BY <2>2 DEF m
<1>3. (n \div 256) % 256 = x /\ n \div 65536 = y + 256 * z
  <2>. DEFINE m == y + 256 * z
  <2>1. n = 65536 * m + (w + 256 * x) /\ m \in Nat /\ n \div 256 = 256 * m + x
    BY <1>1, <1>2
  <2>2. w + 256 * x \in Nat /\ w + 256 * x < 65536 /\ n \in Nat
    BY <1>1
  <2>. HIDE DEF n, m
  <2>3. (n \div 256) % 256 = x
    BY <1>1, <2>1
  <2>4. n \div 65536 = m
    BY <1>1, <2>1, <2>2
  <2>. QED
    BY <2>3, <2>4 DEF m
<1>4. (n \div 65536) % 256 = y
  <2>. HIDE DEF n
  <2>. QED
    BY <1>1, <1>3
<1>5. (n \div 16777216) % 256 = z
  <2>. DEFINE r == w + 256 * x + 65536 * y
  <2>1. n = 16777216 * z + r /\ r \in Nat /\ r < 16777216 /\ n \in Nat
    BY <1>1
  <2>. HIDE DEF n, r
  <2>2. n \div 16777216 = z
    BY <1>1, <2>1
  <2>. QED
    BY <1>1, <2>2
<1>. HIDE DEF n
<1>6. LE4(n) = <<w, x, y, z>>
  BY <1>2, <1>3, <1>4, <1>5 DEF LE4
<1>. QED
  BY <1>6 DEF n

LEMMA BytesOfField ==
  ASSUME NEW b \in Seq(Byte), NEW at \in 1 .. Len(b) - 3
  PROVE  LE4(Word4(b, at)) = <<b[at], b[at + 1], b[at + 2], b[at + 3]>>
<1>. DEFINE Sum(w, x, y, z) == w + 256 * x + 65536 * y + 16777216 * z
<1>1. \A w, x, y, z \in Byte : LE4(Sum(w, x, y, z)) = <<w, x, y, z>>
  BY BytesOfWord
<1>2. b[at] \in Byte /\ b[at + 1] \in Byte /\ b[at + 2] \in Byte /\ b[at + 3] \in Byte
  OBVIOUS
<1>3. Word4(b, at) = Sum(b[at], b[at + 1], b[at + 2], b[at + 3])
  BY SMT DEF Word4
<1>. HIDE DEF Sum
<1>4. LE4(Sum(b[at], b[at + 1], b[at + 2], b[at + 3])) = <<b[at], b[at + 1], b[at + 2], b[at + 3]>>
  BY <1>1, <1>2, Zenon
<1>. QED
  BY <1>3, <1>4, Zenon

\* A message of the file, packed: the two bytes of the version and the four of
\* the padding are where IsFrame has them.
LEMMA FrameOfIsFrame ==
  ASSUME NEW m \in MessageRow, NEW i \in Nat
  PROVE  IsFrame(FrameOf(m, i))
<1>. DEFINE side == IF m.side = -1 THEN 2 ELSE 1
            w == [msg_type |-> m.type % 256, price |-> ToCents(m.price), qty |-> m.qty,
                  side |-> side, id |-> m.id, seq |-> i]
            b == Pack6(w)
<1>1. ToCents(m.price) \in Int
  BY DEF MessageRow, ToCents
<1>2. m.type % 256 \in Byte /\ side \in Byte /\ side \in {1, 2}
  BY DEF MessageRow, Byte
<1>3. w \in WireMessage /\ w.side = side
  BY <1>1, <1>2 DEF MessageRow, WireMessage
<1>4. FrameOf(m, i) = b
  BY DEF FrameOf
<1>. HIDE DEF w, side
<1>5. /\ IsBytes(b, 24) /\ b[12] = <<w.side>>[1]
      /\ \A k \in 1 .. 2 : b[k + 1] = LE2(1)[k]
      /\ \A k \in 1 .. 4 : b[k + 20] = LE4(0)[k]
  BY <1>3, Pack6Bytes
<1>. HIDE DEF b
<1>6. b[12] \in {1, 2}
  BY <1>2, <1>3, <1>5
<1>7. b[2] = 1 /\ b[3] = 0
  <2>1. b[1 + 1] = LE2(1)[1] /\ b[2 + 1] = LE2(1)[2]
    BY <1>5
  <2>2. LE2(1)[1] = 1 /\ LE2(1)[2] = 0
    BY DEF LE2
  <2>. QED
    BY <2>1, <2>2
<1>8. b[21] = 0 /\ b[22] = 0 /\ b[23] = 0 /\ b[24] = 0
  <2>1. /\ b[1 + 20] = LE4(0)[1] /\ b[2 + 20] = LE4(0)[2]
        /\ b[3 + 20] = LE4(0)[3] /\ b[4 + 20] = LE4(0)[4]
    BY <1>5
  <2>2. LE4(0)[1] = 0 /\ LE4(0)[2] = 0 /\ LE4(0)[3] = 0 /\ LE4(0)[4] = 0
    BY DEF LE4
  <2>. QED
    BY <2>1, <2>2
<1>9. IsFrame(b)
  BY <1>5, <1>6, <1>7, <1>8 DEF IsFrame
<1>. QED
  BY <1>4, <1>9

\* What is read of a frame and packed again is the frame.
LEMMA FrameIsRepacked ==
  ASSUME NEW b, IsFrame(b)
  PROVE  Pack6(Unpack6(b)) = b
<1>. DEFINE m == Unpack6(b)
            p == Pack6(m)
<1>1. b \in Seq(Byte) /\ Len(b) = 24
  BY DEF IsFrame, IsBytes
<1>2. \A k \in 1 .. 24 : b[k] \in Byte
  <2>. TAKE k \in 1 .. 24
  <2>1. k \in 1 .. Len(b)
    BY <1>1
  <2>. QED
    BY <1>1, <2>1, ByteOf, Zenon
<1>3. /\ m.msg_type = b[1] /\ m.side = b[12]
      /\ m.price = Word4(b, 4) /\ m.qty = Word4(b, 8)
      /\ m.id = Word4(b, 13) /\ m.seq = Word4(b, 17)
  BY DEF Unpack6
<1>4. m \in WireMessage
  <2>1. \A k \in 1 .. 24 : b[k] \in Int
    <3>1. Byte \subseteq Int
      BY DEF Byte
    <3>. QED
      BY <1>2, <3>1, Zenon
  <2>2. b[1] \in Byte /\ b[12] \in Byte
    BY <1>2
  <2>3. Word4(b, 4) \in Int /\ Word4(b, 8) \in Int /\ Word4(b, 13) \in Int /\ Word4(b, 17) \in Int
    BY <2>1 DEF Word4
  <2>. QED
    BY <2>2, <2>3 DEF Unpack6, WireMessage
<1>. HIDE DEF m
<1>5. /\ LE4(m.price) = <<b[4], b[5], b[6], b[7]>>
      /\ LE4(m.qty) = <<b[8], b[9], b[10], b[11]>>
  <2>1. 4 \in 1 .. Len(b) - 3
    BY <1>1
  <2>2. LE4(Word4(b, 4)) = <<b[4], b[4 + 1], b[4 + 2], b[4 + 3]>>
    BY <1>1, <2>1, BytesOfField, Zenon
  <2>3. 8 \in 1 .. Len(b) - 3
    BY <1>1
  <2>4. LE4(Word4(b, 8)) = <<b[8], b[8 + 1], b[8 + 2], b[8 + 3]>>
    BY <1>1, <2>3, BytesOfField, Zenon
  <2>. QED
    BY <1>3, <2>2, <2>4
<1>6. /\ LE4(m.id) = <<b[13], b[14], b[15], b[16]>>
      /\ LE4(m.seq) = <<b[17], b[18], b[19], b[20]>>
  <2>1. 13 \in 1 .. Len(b) - 3
    BY <1>1
  <2>2. LE4(Word4(b, 13)) = <<b[13], b[13 + 1], b[13 + 2], b[13 + 3]>>
    BY <1>1, <2>1, BytesOfField, Zenon
  <2>3. 17 \in 1 .. Len(b) - 3
    BY <1>1
  <2>4. LE4(Word4(b, 17)) = <<b[17], b[17 + 1], b[17 + 2], b[17 + 3]>>
    BY <1>1, <2>3, BytesOfField, Zenon
  <2>. QED
    BY <1>3, <2>2, <2>4
<1>7. /\ IsBytes(p, 24)
      /\ \A k \in 1 .. 4 : /\ p[k + 3] = LE4(m.price)[k] /\ p[k + 7] = LE4(m.qty)[k]
                           /\ p[k + 12] = LE4(m.id)[k] /\ p[k + 16] = LE4(m.seq)[k]
                           /\ p[k + 20] = LE4(0)[k]
      /\ \A k \in 1 .. 2 : p[k + 1] = LE2(1)[k]
      /\ p[1] = <<m.msg_type>>[1] /\ p[12] = <<m.side>>[1]
  BY <1>4, Pack6Bytes
<1>. HIDE DEF p
<1>8. p[1] = b[1] /\ p[12] = b[12]
  BY <1>3, <1>7
<1>9. p[2] = b[2] /\ p[3] = b[3]
  <2>1. p[1 + 1] = LE2(1)[1] /\ p[2 + 1] = LE2(1)[2]
    BY <1>7
  <2>2. LE2(1)[1] = 1 /\ LE2(1)[2] = 0
    BY DEF LE2
  <2>. QED
    BY <2>1, <2>2 DEF IsFrame
<1>10. p[21] = b[21] /\ p[22] = b[22] /\ p[23] = b[23] /\ p[24] = b[24]
  <2>1. /\ p[1 + 20] = LE4(0)[1] /\ p[2 + 20] = LE4(0)[2]
        /\ p[3 + 20] = LE4(0)[3] /\ p[4 + 20] = LE4(0)[4]
    BY <1>7
  <2>2. LE4(0)[1] = 0 /\ LE4(0)[2] = 0 /\ LE4(0)[3] = 0 /\ LE4(0)[4] = 0
    BY DEF LE4
  <2>. QED
    BY <2>1, <2>2 DEF IsFrame
<1>11. p[4] = b[4] /\ p[5] = b[5] /\ p[6] = b[6] /\ p[7] = b[7]
  <2>1. /\ p[1 + 3] = LE4(m.price)[1] /\ p[2 + 3] = LE4(m.price)[2]
        /\ p[3 + 3] = LE4(m.price)[3] /\ p[4 + 3] = LE4(m.price)[4]
    BY <1>7
  <2>. QED
    BY <2>1, <1>5
<1>12. p[8] = b[8] /\ p[9] = b[9] /\ p[10] = b[10] /\ p[11] = b[11]
  <2>1. /\ p[1 + 7] = LE4(m.qty)[1] /\ p[2 + 7] = LE4(m.qty)[2]
        /\ p[3 + 7] = LE4(m.qty)[3] /\ p[4 + 7] = LE4(m.qty)[4]
    BY <1>7
  <2>. QED
    BY <2>1, <1>5
<1>13. p[13] = b[13] /\ p[14] = b[14] /\ p[15] = b[15] /\ p[16] = b[16]
  <2>1. /\ p[1 + 12] = LE4(m.id)[1] /\ p[2 + 12] = LE4(m.id)[2]
        /\ p[3 + 12] = LE4(m.id)[3] /\ p[4 + 12] = LE4(m.id)[4]
    BY <1>7
  <2>. QED
    BY <2>1, <1>6
<1>14. p[17] = b[17] /\ p[18] = b[18] /\ p[19] = b[19] /\ p[20] = b[20]
  <2>1. /\ p[1 + 16] = LE4(m.seq)[1] /\ p[2 + 16] = LE4(m.seq)[2]
        /\ p[3 + 16] = LE4(m.seq)[3] /\ p[4 + 16] = LE4(m.seq)[4]
    BY <1>7
  <2>. QED
    BY <2>1, <1>6
<1>15. \A k \in 1 .. 24 : p[k] = b[k]
  BY <1>8, <1>9, <1>10, <1>11, <1>12, <1>13, <1>14
<1>16. p = b
  <2>1. p \in Seq(Byte) /\ Len(p) = 24
    BY <1>7 DEF IsBytes
  <2>. QED
    BY <1>1, <1>15, <2>1, SeqEqual
<1>. QED
  BY <1>16 DEF p, m

FramesInv == IsSeq(frame_file) /\ FramesAreFrames

LEMMA FramesInit == Init => FramesInv
BY EmptyIsSeq DEF Init, FramesInv, FramesAreFrames

LEMMA FramesNext == SessionInv /\ FramesInv /\ [Next]_vars => FramesInv'
<1>. SUFFICES ASSUME SessionInv, FramesInv, [Next]_vars  PROVE FramesInv'
  OBVIOUS
<1>1. CASE frame_file' = frame_file
  BY <1>1 DEF FramesInv, FramesAreFrames, IsSeq
<1>2. CASE Preprocess /\ Len(day.book) = Len(day.messages)
  <2>. DEFINE rows == LegalRows(day)
  <2>1. /\ day.messages \in Seq(MessageRow) /\ Len(day.messages) \in Nat
        /\ day \in Days
    BY DayAssumption DEF SessionInv, Progress
  <2>2. rows \in 0 .. Len(day.messages)
    BY <2>1, LegalRowsBound
  <2>3. frame_file' = [i \in 1 .. rows |-> FrameOf(day.messages[i], i)]
    BY <1>2 DEF Preprocess
  <2>. HIDE DEF rows
  <2>4. IsSeq(frame_file') /\ Len(frame_file') = rows
    <3>1. frame_file' = [i \in 1 .. rows |-> frame_file'[i]]
      BY <2>3
    <3>. QED
      BY <2>1, <2>2, <3>1, RowsAreSeq
  <2>5. ASSUME NEW k \in 1 .. rows  PROVE IsFrame(frame_file'[k])
    <3>1. day.messages[k] \in MessageRow /\ k \in Nat
      BY <2>1, <2>2
    <3>2. frame_file'[k] = FrameOf(day.messages[k], k)
      BY <2>3
    <3>. QED
      BY <3>1, <3>2, FrameOfIsFrame, Zenon
  <2>6. FramesAreFrames'
    BY <2>4, <2>5 DEF FramesAreFrames
  <2>7. IsSeq(frame_file)'
    BY <2>4 DEF IsSeq
  <2>. QED
    BY <2>6, <2>7 DEF FramesInv
<1>3. frame_file' = frame_file \/ (Preprocess /\ Len(day.book) = Len(day.messages))
  BY DEF Next, MainNext, vars, files, StartSession, Preprocess, LaunchReceiver, BindPort, OpenLog,
     LogOrder, SendFrame, EndReplay, AnswerFrame, LoseFrame, DeliverOrder, LoseOrder,
     ImportChecker, CompareNext, KillSession
<1>. QED
  BY <1>1, <1>2, <1>3

\* What the mock answers a frame with is an order of the exchange's symbol.
LEMMA AnswerAgrees ==
  ASSUME NEW b, IsFrame(b)
  PROVE  LET m == Unpack6(b)
             o == Unpack7(MockReply(b))
         IN  /\ Pack6(m) = b
             /\ o.order_id = m.id /\ o.qty = m.qty /\ o.price = m.price
             /\ SameOnEveryRoad(o)
<1>. DEFINE m == Unpack6(b)
            o == Unpack7(MockReply(b))
<1>1. b \in Seq(Byte) /\ Len(b) = 24
  BY DEF IsFrame, IsBytes
<1>2. o = [order_id |-> m.id, symbol |-> SYMBOL_ID, side |-> m.side, qty |-> m.qty,
           price |-> m.price]
  BY <1>1, MockEchoes
<1>3. m.id = Word4(b, 13) /\ m.qty = Word4(b, 8) /\ m.price = Word4(b, 4) /\ m.side = b[12]
  BY DEF Unpack6
<1>4. Word4(b, 4) \in Word32 /\ Word4(b, 8) \in Word32 /\ Word4(b, 13) \in Word32
  <2>1. 4 \in 1 .. Len(b) - 3 /\ 8 \in 1 .. Len(b) - 3 /\ 13 \in 1 .. Len(b) - 3
    BY <1>1
  <2>. QED
    BY <1>1, <2>1, WordInRange, Zenon
<1>5. m.side \in {1, 2}
  BY <1>3 DEF IsFrame
<1>. HIDE DEF m, o
<1>6. o \in Table7Order
  <2>1. 1 \in Word16 /\ m.side \in Byte
    BY <1>5 DEF Word16, Byte
  <2>. QED
    BY <1>2, <1>3, <1>4, <2>1 DEF Table7Order, SYMBOL_ID
<1>7. o.side \in {1, 2} /\ o.symbol = AAPL_SYMBOL_ID
  BY <1>2, <1>5 DEF SYMBOL_ID, AAPL_SYMBOL_ID
<1>8. SameOnEveryRoad(o)
  BY <1>6, <1>7, RoadsAgree, Zenon
<1>9. o.order_id = m.id /\ o.qty = m.qty /\ o.price = m.price
  BY <1>2
<1>10. Pack6(m) = b
  BY FrameIsRepacked DEF m
<1>. QED
  BY <1>8, <1>9, <1>10, Zenon DEF m, o

\* Every frame of the slice is read as it was packed, and the order the mock
\* answers it with has the same bytes in the PS's order writer, the PL's frame
\* builder, the golden frames and the checker (encode_order, tx_frame_builder,
\* generate_golden_frames.py, checker.py), for every legal file.
THEOREM FormatsAgreeEverywhere == Spec => []FormatsAgree
<1>1. FramesInv => FormatsAgree
  <2>. SUFFICES ASSUME FramesInv, NEW i \in DOMAIN frame_file
                PROVE  LET m == Unpack6(frame_file[i])
                           o == Unpack7(MockReply(frame_file[i]))
                       IN  /\ Pack6(m) = frame_file[i]
                           /\ o.order_id = m.id /\ o.qty = m.qty /\ o.price = m.price
                           /\ SameOnEveryRoad(o)
    BY DEF FormatsAgree
  <2>1. i \in 1 .. Len(frame_file)
    BY DEF FramesInv, IsSeq
  <2>2. IsFrame(frame_file[i])
    BY <2>1 DEF FramesInv, FramesAreFrames
  <2>. QED
    BY <2>2, AnswerAgrees
<1>. QED
  BY SessionInvInit, SessionInvNext, FramesInit, FramesNext, <1>1, PTL DEF Spec
============================================================================
