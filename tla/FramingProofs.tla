--------------------------- MODULE FramingProofs ---------------------------
(***************************************************************************)
(* What a read makes of the packets in the stream, whatever their types    *)
(* and lengths and wherever the segments end.                              *)
(***************************************************************************)
EXTENDS Framing, PacketsProofs

-----------------------------------------------------------------------------
(* The bytes of a packet.                                                  *)

\* The fields of each packet of a broker.
LEMMA PacketFields ==
  ASSUME NEW p \in BrokerPacket
  PROVE  /\ p.type \in {CONNACK, PUBLISH, PUBACK, SUBACK, UNSUBACK, PINGRESP}
         /\ p.type = CONNACK => /\ p = Connack(p.session_present, p.return_code)
                                /\ p.session_present \in {0, 1}
                                /\ p.return_code \in Byte
         /\ p.type = PUBLISH => /\ p = Publish(p.topic, p.payload)
                                /\ p.topic \in Seq(Byte)
                                /\ p.payload \in Seq(Byte)
         /\ p.type = PUBACK => p = Puback(p.message_id) /\ p.message_id \in MessageId
         /\ p.type = SUBACK => /\ p = Suback(p.message_id, p.codes)
                               /\ p.message_id \in MessageId
                               /\ p.codes \in Seq(Byte)
  BY SMT DEF BrokerPacket, CONNACK, PUBLISH, PUBACK, SUBACK, UNSUBACK, PINGRESP,
             Connack, Publish, Puback, Suback

\* Zero and one are bytes.
LEMMA ZeroOneBytes == {0, 1} \subseteq Byte
  BY SMT DEF Byte

\* The body of each type of packet.
LEMMA BodyArms ==
  ASSUME NEW p, NEW qos, NEW id
  PROVE  /\ p.type = CONNACK => Body(p, qos, id) = boxConnack(p)
         /\ p.type = PUBLISH => Body(p, qos, id) = boxPublish(p, qos, id)
         /\ p.type = PUBACK => Body(p, qos, id) = boxPuback(p)
         /\ p.type = SUBACK => Body(p, qos, id) = boxSuback(p)
         /\ p.type = UNSUBACK => Body(p, qos, id) = boxUnsuback(id)
         /\ p.type = PINGRESP => Body(p, qos, id) = <<>>
<1>1. /\ CONNACK \notin {PUBLISH, PUBACK, SUBACK, UNSUBACK, PINGRESP}
      /\ PUBLISH \notin {PUBACK, SUBACK, UNSUBACK, PINGRESP}
      /\ PUBACK \notin {SUBACK, UNSUBACK, PINGRESP}
      /\ SUBACK \notin {UNSUBACK, PINGRESP}
      /\ UNSUBACK # PINGRESP
  BY SMT DEF CONNACK, PUBLISH, PUBACK, SUBACK, UNSUBACK, PINGRESP
<1>2. p.type = CONNACK => Body(p, qos, id) = boxConnack(p)
  BY Zenon, <1>1 DEF Body
<1>3. p.type = PUBLISH => Body(p, qos, id) = boxPublish(p, qos, id)
  BY Zenon, <1>1 DEF Body
<1>4. p.type = PUBACK => Body(p, qos, id) = boxPuback(p)
  BY Zenon, <1>1 DEF Body
<1>5. p.type = SUBACK => Body(p, qos, id) = boxSuback(p)
  BY Zenon, <1>1 DEF Body
<1>6. p.type = UNSUBACK => Body(p, qos, id) = boxUnsuback(id)
  BY Zenon, <1>1 DEF Body
<1>7. p.type = PINGRESP => Body(p, qos, id) = <<>>
  BY Zenon, <1>1 DEF Body
<1> QED
  BY <1>2, <1>3, <1>4, <1>5, <1>6, <1>7

\* The body of every packet is a sequence of bytes.
LEMMA BodyBytes ==
  ASSUME NEW p \in BrokerPacket, NEW qos \in 0..2, NEW id \in MessageId
  PROVE  Body(p, qos, id) \in Seq(Byte)
<1>1. MessageId \subseteq Nat
  BY DEF MessageId
<1>2. CASE p.type = CONNACK
  <2>1. p.session_present \in Byte /\ p.return_code \in Byte
    BY <1>2, PacketFields, ZeroOneBytes
  <2>2. Body(p, qos, id) = <<p.session_present, p.return_code>>
    BY <1>2, BodyArms DEF boxConnack
  <2> QED
    BY SMT, <2>1, <2>2
<1>3. CASE p.type = PUBLISH
  <2>1. p.topic \in Seq(Byte) /\ p.payload \in Seq(Byte)
    BY <1>3, PacketFields
  <2>2. encode_bytes(p.topic) \in Seq(Byte)
    BY <2>1, EncodedBytes
  <2>3. TwoBytes(id) \in Seq(Byte)
    BY <1>1, TwoBytesBytes
  <2>4. Body(p, qos, id) = boxPublish(p, qos, id)
    BY <1>3, BodyArms
  <2> QED
    BY SMT, <2>1, <2>2, <2>3, <2>4 DEF boxPublish
<1>4. CASE p.type = PUBACK
  <2>1. TwoBytes(p.message_id) \in Seq(Byte)
    BY <1>1, <1>4, PacketFields, TwoBytesBytes
  <2>2. Body(p, qos, id) = TwoBytes(p.message_id)
    BY <1>4, BodyArms DEF boxPuback
  <2> QED
    BY <2>1, <2>2
<1>5. CASE p.type = SUBACK
  <2>1. p.message_id \in MessageId /\ p.codes \in Seq(Byte)
    BY <1>5, PacketFields
  <2>2. TwoBytes(p.message_id) \in Seq(Byte)
    <3>1. p.message_id \in Nat
      BY <1>1, <2>1
    <3> QED
      BY <3>1, TwoBytesBytes
  <2>3. Body(p, qos, id) = TwoBytes(p.message_id) \o p.codes
    BY <1>5, BodyArms DEF boxSuback
  <2> QED
    BY SMT, <2>1, <2>2, <2>3
<1>6. CASE p.type = UNSUBACK
  <2>1. TwoBytes(id) \in Seq(Byte)
    BY <1>1, TwoBytesBytes
  <2>2. Body(p, qos, id) = TwoBytes(id)
    BY <1>6, BodyArms DEF boxUnsuback
  <2> QED
    BY <2>1, <2>2
<1>7. CASE p.type = PINGRESP
  <2>1. Body(p, qos, id) = <<>>
    BY <1>7, BodyArms
  <2> QED
    BY SMT, <2>1
<1> QED
  BY <1>2, <1>3, <1>4, <1>5, <1>6, <1>7, PacketFields

\* A message id fits in 16 bits.
LEMMA MessageIdBound ==
  ASSUME NEW i \in MessageId
  PROVE  i \in Nat /\ i < 65536
  BY DEF MessageId

\* What the broker may send.
LEMMA SendableFields ==
  ASSUME NEW x \in Sendable
  PROVE  /\ x.packet \in BrokerPacket /\ x.qos \in 0..2 /\ x.id \in MessageId
         /\ BodyOf(x) \in Seq(Byte)
         /\ RemainingLength(x) \in Nat /\ RemainingLength(x) <= MaxLength
         /\ x.packet.type = PUBLISH => Len(x.packet.topic) < 65536
<1>1. x.packet \in BrokerPacket /\ x.qos \in 0..2 /\ x.id \in MessageId
  BY SMT, FramingAssumption
<1>2. BodyOf(x) \in Seq(Byte)
  BY <1>1, BodyBytes DEF BodyOf
<1>3. RemainingLength(x) \in Nat
  BY SMT, <1>2 DEF RemainingLength
<1> QED
  BY <1>1, <1>2, <1>3, FramingAssumption

\* A packet is its first byte, the digits of its remaining length and its body.
LEMMA BytesShape ==
  ASSUME NEW x \in Sendable
  PROVE  LET n == RemainingLength(x)
             d == Digits(n)
             b == BytesOf(x)
         IN  /\ d \in 1..4
             /\ b \in Seq(Byte)
             /\ Len(b) = 1 + d + n
             /\ b[1] \div 16 = x.packet.type
             /\ \A i \in 1..d : b[i + 1] = encode_remaining_len(n)[i]
             /\ SubSeq(b, 2 + d, Len(b)) = BodyOf(x)
<1> DEFINE o == BodyOf(x)
           t == x.packet.type
           q == x.qos
<1>1. o \in Seq(Byte) /\ Len(o) <= MaxLength
  BY SendableFields DEF RemainingLength
<1>2. t \in Nat /\ t < 16 /\ q \in 0..2
  <2>1. t \in {CONNACK, PUBLISH, PUBACK, SUBACK, UNSUBACK, PINGRESP}
    BY SendableFields, PacketFields
  <2>2. q \in 0..2
    BY SendableFields
  <2> QED
    BY SMT, <2>1, <2>2 DEF CONNACK, PUBLISH, PUBACK, SUBACK, UNSUBACK, PINGRESP
<1>3. BytesOf(x) = boxing([type |-> t, dup |-> 0, qos |-> q, retain |-> 0,
                           remaining_length |-> Len(o)]) \o o
  BY DEF BytesOf, BodyOf, Bytes
<1>4. 0 \in {0, 1}
  OBVIOUS
<1> HIDE DEF o, t, q
<1>5. PacketShape(BytesOf(x), t, o)
  BY <1>1, <1>2, <1>3, <1>4, BoxedShape
<1> QED
  BY <1>5 DEF PacketShape, RemainingLength, o, t

\* The remaining length of a packet is decoded to the length of its body.
LEMMA BytesDecoded ==
  ASSUME NEW x \in Sendable
  PROVE  decode_remaining_len(BytesOf(x)) = RemainingLength(x)
<1>1. RemainingLength(x) \in Nat /\ RemainingLength(x) <= MaxLength
  BY SendableFields
<1>2. \A i \in 1..Digits(RemainingLength(x)) :
        BytesOf(x)[i + 1] = encode_remaining_len(RemainingLength(x))[i]
  BY BytesShape
<1> QED
  BY <1>1, <1>2, LengthRoundTrip

-----------------------------------------------------------------------------
(* What analyze_packet makes of the front of a packet.                     *)

\* Cut behind its fixed header a packet keeps its type and remaining length, and
\* the part of its body in front of the cut.
LEMMA FrontAnalyzed ==
  ASSUME NEW x \in Sendable,
         NEW k \in (1 + Digits(RemainingLength(x)))..Len(BytesOf(x)),
         erased(RemainingLength(x)) = 1 + Digits(RemainingLength(x))
  PROVE  LET s == SubSeq(BytesOf(x), 1, k)
         IN  /\ header(s).type = x.packet.type
             /\ header(s).remaining_length = RemainingLength(x)
             /\ rest(s) = SubSeq(BodyOf(x), 1, k - 1 - Digits(RemainingLength(x)))
<1> DEFINE n == RemainingLength(x)
           d == Digits(n)
           b == BytesOf(x)
           o == BodyOf(x)
           s == SubSeq(b, 1, k)
<1>1. n \in Nat /\ n <= MaxLength
  BY SendableFields
<1>2. /\ o \in Seq(Byte)
      /\ Len(o) = n
  BY SendableFields DEF RemainingLength
<1>3. /\ d \in 1..4
      /\ Len(b) = 1 + d + n
      /\ b[1] \div 16 = x.packet.type
      /\ \A i \in 1..d : b[i + 1] = encode_remaining_len(n)[i]
      /\ SubSeq(b, 2 + d, Len(b)) = o
  BY BytesShape
<1>4. b \in Seq(Byte)
  BY BytesShape
<1>5. k \in (1 + d)..Len(b)
  OBVIOUS
<1>6. erased(n) = 1 + d
  OBVIOUS
<1> HIDE DEF n, d, b, o
<1>5a. d \in Nat /\ d >= 1
  BY SMT, <1>3
<1>5b. Len(b) \in Nat
  BY <1>4, LenProperties
<1>5c. k \in Nat /\ 1 + d <= k /\ k <= Len(b)
  BY SMT, <1>5, <1>5a, <1>5b
<1>7. /\ s \in Seq(Byte)
      /\ Len(s) = k
      /\ \A i \in 1..k : s[i] = b[i]
  <2>1. k \in Nat /\ 1 \in Nat /\ 1 <= 1 /\ 1 <= k + 1 /\ k <= Len(b)
    BY SMT, <1>5c
  <2>2. /\ s \in Seq(Byte)
        /\ Len(s) = k - 1 + 1
        /\ \A i \in 1..(k - 1 + 1) : s[i] = b[1 + i - 1]
    BY <1>4, <2>1, PartOfSeq
  <2> HIDE DEF s
  <2>3. k - 1 + 1 = k /\ \A i \in 1..k : 1 + i - 1 = i
    BY SMT, <2>1
  <2> QED
    BY <2>2, <2>3
<1> HIDE DEF s
<1>8. decode_remaining_len(s) = n
  <2>1. \A i \in 1..d : s[i + 1] = encode_remaining_len(n)[i]
    <3> TAKE i \in 1..d
    <3>1. i + 1 \in 1..k
      BY SMT, <1>3, <1>5
    <3> QED
      BY <1>3, <1>7, <3>1
  <2> QED
    BY <1>1, <2>1, LengthRoundTrip DEF d
<1>9. header(s).type = x.packet.type
  <2>1. 1 \in 1..k
    BY SMT, <1>3, <1>5
  <2>2. s[1] = b[1]
    BY <1>7, <2>1
  <2> QED
    BY <1>3, <2>2 DEF header
<1>10. header(s).remaining_length = n
  BY <1>8 DEF header
<1>11. rest(s) = SubSeq(o, 1, k - 1 - d)
  <2> DEFINE p == SubSeq(s, 2 + d, k)
             q == SubSeq(o, 1, k - 1 - d)
  <2>1. rest(s) = p
    <3>1. erased(n) + 1 = 2 + d
      BY SMT, <1>6, <1>5a
    <3> QED
      BY <1>7, <1>8, <3>1 DEF rest
  <2>2. /\ p \in Seq(Byte)
        /\ Len(p) = k - 1 - d
        /\ \A i \in 1..(k - 1 - d) : p[i] = b[1 + d + i]
    <3> DEFINE f == 2 + d
               r == SubSeq(s, f, k)
    <3>1. /\ k \in Nat /\ f \in Nat /\ 1 <= f /\ f <= k + 1
          /\ k <= Len(s)
      BY SMT, <1>7, <1>5a, <1>5c
    <3>2. p = r
      OBVIOUS
    <3> HIDE DEF f, p
    <3>3. /\ r \in Seq(Byte)
          /\ Len(r) = k - f + 1
          /\ \A i \in 1..(k - f + 1) : r[i] = s[f + i - 1]
      BY <1>7, <3>1, PartOfSeq
    <3> HIDE DEF r
    <3>4. k - f + 1 = k - 1 - d
      BY SMT, <1>5a, <1>5c DEF f
    <3>5. \A i \in 1..(k - 1 - d) : f + i - 1 = 1 + d + i /\ 1 + d + i \in 1..k
      BY SMT, <1>5a, <1>5c DEF f
    <3> QED
      BY <1>7, <3>2, <3>3, <3>4, <3>5
  <2>3. /\ q \in Seq(Byte)
        /\ Len(q) = k - 1 - d
        /\ \A i \in 1..(k - 1 - d) : q[i] = o[i]
    <3>1. /\ k - 1 - d \in Nat /\ 1 \in Nat /\ 1 <= 1 /\ 1 <= (k - 1 - d) + 1
          /\ k - 1 - d <= Len(o)
      <4>1. Len(o) \in Nat /\ Len(b) = 1 + d + Len(o)
        BY <1>1, <1>2, <1>3
      <4> QED
        BY SMT, <1>5a, <1>5c, <4>1
    <3>2. /\ q \in Seq(Byte)
          /\ Len(q) = (k - 1 - d) - 1 + 1
          /\ \A i \in 1..((k - 1 - d) - 1 + 1) : q[i] = o[1 + i - 1]
      BY <1>2, <3>1, PartOfSeq
    <3> HIDE DEF q
    <3>3. /\ (k - 1 - d) - 1 + 1 = k - 1 - d
          /\ \A i \in 1..(k - 1 - d) : 1 + i - 1 = i
      BY SMT, <3>1
    <3> QED
      BY <3>2, <3>3
  <2>4. \A i \in 1..n : o[i] = b[1 + d + i]
    <3> DEFINE f == 2 + d
               l == Len(b)
               r == SubSeq(b, f, l)
    <3>1. /\ f \in Nat /\ l \in Nat /\ 1 <= f /\ f <= l + 1 /\ l <= Len(b)
          /\ l - f + 1 = n
          /\ \A i \in 1..n : f + i - 1 = 1 + d + i
      <4>1. Len(b) = 1 + d + n
        BY <1>3
      <4> QED
        BY SMT, <1>1, <1>5a, <4>1
    <3>2. r = o
      BY <1>3
    <3> HIDE DEF f, l
    <3>3. \A i \in 1..(l - f + 1) : r[i] = b[f + i - 1]
      BY <1>4, <3>1, PartOfSeq
    <3> HIDE DEF r
    <3> QED
      BY <3>1, <3>2, <3>3
  <2> HIDE DEF p, q
  <2>5. \A i \in 1..(k - 1 - d) : p[i] = q[i]
    <3> TAKE i \in 1..(k - 1 - d)
    <3>1. i \in 1..n
      BY SMT, <1>1, <1>3, <1>5
    <3> QED
      BY <2>2, <2>3, <2>4, <3>1
  <2>6. p = q
    BY <2>2, <2>3, <2>5, SeqEqual
  <2> QED
    BY <2>1, <2>6 DEF q
<1> QED
  BY <1>9, <1>10, <1>11 DEF n, d, b, o, s

\* What analyze_packet makes of each type of packet.
LEMMA AnalyzedArms ==
  ASSUME NEW s
  PROVE  /\ header(s).type = CONNACK => analyze_packet(s) = unboxConnack(rest(s))
         /\ header(s).type = PUBLISH => analyze_packet(s) = unboxPublish(rest(s))
         /\ header(s).type = PUBACK => analyze_packet(s) = unboxPuback(rest(s))
         /\ header(s).type = SUBACK =>
              analyze_packet(s) = unboxSuback(rest(s), header(s).remaining_length)
<1> DEFINE t == header(s).type
<1>1. /\ CONNACK \notin {PUBLISH, PUBACK, SUBACK}
      /\ PUBLISH \notin {PUBACK, SUBACK}
      /\ PUBACK # SUBACK
  BY SMT DEF CONNACK, PUBLISH, PUBACK, SUBACK
<1>2. t = CONNACK => analyze_packet(s) = unboxConnack(rest(s))
  BY Zenon, <1>1 DEF analyze_packet
<1>3. t = PUBLISH => analyze_packet(s) = unboxPublish(rest(s))
  BY Zenon, <1>1 DEF analyze_packet
<1>4. t = PUBACK => analyze_packet(s) = unboxPuback(rest(s))
  BY Zenon, <1>1 DEF analyze_packet
<1>5. t = SUBACK =>
        analyze_packet(s) = unboxSuback(rest(s), header(s).remaining_length)
  BY Zenon, <1>1 DEF analyze_packet
<1> QED
  BY <1>2, <1>3, <1>4, <1>5

\* unboxing reads back the body of each type of packet that has a queue.
LEMMA BodyUnboxed ==
  ASSUME NEW x \in Sendable
  PROVE  LET p == x.packet
             o == BodyOf(x)
         IN  /\ p.type = CONNACK => unboxConnack(o) = p
             /\ p.type = PUBLISH => unboxPublish(o) = Received(x)
             /\ p.type = PUBACK => unboxPuback(o) = p
             /\ p.type = SUBACK => unboxSuback(o, RemainingLength(x)) = p
<1> DEFINE p == x.packet
           o == BodyOf(x)
<1>1. p \in BrokerPacket
  BY SendableFields
<1>2. x.id \in Nat /\ x.id < 65536
  BY SendableFields, MessageIdBound
<1>3. ASSUME p.type = CONNACK PROVE unboxConnack(o) = p
  <2>1. /\ p = Connack(p.session_present, p.return_code)
        /\ p.session_present \in {0, 1}
    BY <1>1, <1>3, PacketFields
  <2>2. o = <<p.session_present, p.return_code>>
    BY <1>3, BodyArms DEF BodyOf, boxConnack
  <2>3. /\ Len(o) >= 2
        /\ o[1] = p.session_present /\ o[2] = p.return_code
    BY SMT, <2>2
  <2>4. (IF o[1] = 0 THEN 0 ELSE 1) = p.session_present
    BY SMT, <2>1, <2>3
  <2> HIDE DEF p, o
  <2> QED
    BY <2>1, <2>3, <2>4 DEF unboxConnack
<1>4. ASSUME p.type = PUBACK PROVE unboxPuback(o) = p
  <2>1. p = Puback(p.message_id) /\ p.message_id \in MessageId
    BY <1>1, <1>4, PacketFields
  <2>2. p.message_id \in Nat /\ p.message_id < 65536
    BY <2>1, MessageIdBound
  <2>3. o = TwoBytes(p.message_id)
    BY <1>4, BodyArms DEF BodyOf, boxPuback
  <2>4. Len(o) = 2 /\ Number(o) = p.message_id
    BY <2>2, <2>3, TwoBytesBytes
  <2> HIDE DEF p, o
  <2> QED
    BY SMT, <2>1, <2>4 DEF unboxPuback
<1>5. ASSUME p.type = SUBACK PROVE unboxSuback(o, RemainingLength(x)) = p
  <2> DEFINE u == TwoBytes(p.message_id)
             n == RemainingLength(x)
  <2>1. /\ p = Suback(p.message_id, p.codes)
        /\ p.message_id \in MessageId
        /\ p.codes \in Seq(Byte)
    BY <1>1, <1>5, PacketFields
  <2>2. p.message_id \in Nat /\ p.message_id < 65536
    BY <2>1, MessageIdBound
  <2>3. o = u \o p.codes /\ n = Len(o)
    BY <1>5, BodyArms DEF BodyOf, boxSuback, RemainingLength
  <2>4. u \in Seq(Byte)
    BY <2>2, TwoBytesBytes
  <2>5. Len(u) = 2 /\ Number(u) = p.message_id
    BY <2>2, TwoBytesBytes
  <2>6. p.codes \in Seq(Byte)
    BY <2>1
  <2> HIDE DEF p, o, u, n
  <2>7. /\ Len(o) >= 2
        /\ o[1] = u[1] /\ o[2] = u[2]
    <3> DEFINE c == p.codes
    <3>1. Len(c) \in Nat
      BY <2>6, LenProperties
    <3>2. c \in Seq(Byte) /\ o = u \o c
      BY <2>3, <2>6
    <3> HIDE DEF c
    <3>3. Len(o) = 2 + Len(c)
      <4>1. c \in Seq(Byte)
        BY <3>2
      <4>2. /\ u \o c \in Seq(Byte)
            /\ Len(u \o c) = Len(u) + Len(c)
        BY <2>4, <4>1, ConcatProperties
      <4> QED
        BY <2>5, <3>2, <4>2
    <3>4. o[1] = u[1] /\ o[2] = u[2]
      <4>1. \A k \in 1..(Len(u) + Len(c)) : o[k] = IF k <= Len(u) THEN u[k] ELSE c[k - Len(u)]
        BY <2>4, <3>2, ConcatProperties
      <4>2. /\ 1 \in 1..(Len(u) + Len(c)) /\ 1 <= Len(u)
            /\ 2 \in 1..(Len(u) + Len(c)) /\ 2 <= Len(u)
        BY SMT, <2>5, <3>1
      <4> QED
        BY <4>1, <4>2
    <3> QED
      BY SMT, <3>1, <3>3, <3>4
  <2>8. Number(o) = p.message_id
    BY <2>5, <2>7 DEF Number
  <2>9. SubSeq(o, 3, n) = p.codes
    <3> DEFINE c == p.codes
    <3>1. c \in Seq(Byte) /\ o = u \o c
      BY <2>3, <2>6
    <3> HIDE DEF c
    <3>2. SubSeq(u \o c, Len(u) + 1, Len(u \o c)) = c
      BY <2>4, <3>1, SecondHalf
    <3>3. 2 + 1 = 3
      BY SMT
    <3> QED
      BY <2>3, <2>5, <3>1, <3>2, <3>3 DEF c
  <2>10. Len(o) >= n
    BY SMT, <2>3, <2>7
  <2> QED
    BY <2>1, <2>7, <2>8, <2>9, <2>10 DEF unboxSuback, n, o, p
<1>6. ASSUME p.type = PUBLISH PROVE unboxPublish(o) = Received(x)
  <2> DEFINE i == IF x.qos > 0 THEN TwoBytes(x.id) ELSE <<>>
             t == i \o p.payload
  <2>1. /\ p = Publish(p.topic, p.payload)
        /\ p.topic \in Seq(Byte)
        /\ p.payload \in Seq(Byte)
    BY <1>1, <1>6, PacketFields
  <2>2. Len(p.topic) < 65536
    BY <1>6, SendableFields
  <2>3. i \in Seq(Byte)
    <3>1. TwoBytes(x.id) \in Seq(Byte)
      BY <1>2, TwoBytesBytes
    <3>2. <<>> \in Seq(Byte)
      BY SMT
    <3> QED
      BY <3>1, <3>2
  <2>4. o = (encode_bytes(p.topic) \o i) \o p.payload
    BY <1>6, BodyArms DEF BodyOf, boxPublish
  <2>5. t \in Seq(Byte)
    <3> HIDE DEF i
    <3> QED
      BY SMT, <2>1, <2>3
  <2>6. o = encode_bytes(p.topic) \o t
    <3>1. encode_bytes(p.topic) \in Seq(Byte)
      BY <2>1, EncodedBytes
    <3>2. p.payload \in Seq(Byte)
      BY <2>1
    <3> DEFINE e == encode_bytes(p.topic)
               l == p.payload
    <3>3. e \in Seq(Byte) /\ i \in Seq(Byte) /\ l \in Seq(Byte)
      BY <2>3, <3>1, <3>2
    <3> HIDE DEF i, e, l
    <3>4. (e \o i) \o l = e \o (i \o l)
      BY <3>3, ConcatAssociative
    <3> QED
      BY <2>4, <3>4 DEF e, l
  <2>7. decodable(o) /\ decoded(o) = p.topic /\ undecoded(o) = t
    <3> HIDE DEF t, o
    <3> QED
      BY <2>1, <2>2, <2>5, <2>6, StringRoundTrip
  <2>8. unboxPublish(o) = Publish(p.topic, t)
    BY <2>7 DEF unboxPublish
  <2>9. CASE x.qos > 0
    <3>1. t = TwoBytes(x.id) \o p.payload
      BY <2>9
    <3> QED
      BY <1>6, <2>8, <2>9, <3>1 DEF Received
  <2>10. CASE ~(x.qos > 0)
    <3>1. t = p.payload
      <4>1. i = <<>>
        BY <2>10
      <4> QED
        BY <2>1, <4>1, ConcatEmptySeq
    <3> QED
      BY <2>1, <2>8, <2>10, <3>1 DEF Received
  <2> QED
    BY <2>9, <2>10
<1> QED
  BY <1>3, <1>4, <1>5, <1>6

\* A packet of remaining length below 127 is analysed as what was sent.
LEMMA WholeAnalyzed ==
  ASSUME NEW x \in Sendable, RemainingLength(x) < 127, Analyzed(x.packet)
  PROVE  analyze_packet(BytesOf(x)) = Received(x)
<1> DEFINE n == RemainingLength(x)
           b == BytesOf(x)
           o == BodyOf(x)
           p == x.packet
<1>1. n \in Nat /\ n < 127
  BY SendableFields
<1>2. Digits(n) = 1 /\ erased(n) = 2
  BY <1>1, ErasedDigits
<1>3. b \in Seq(Byte) /\ Len(b) = 1 + 1 + n
  BY <1>2, BytesShape
<1>4. o \in Seq(Byte) /\ Len(o) = n
  BY SendableFields DEF RemainingLength
<1>5. /\ header(b).type = p.type
      /\ header(b).remaining_length = n
      /\ rest(b) = o
  <2> DEFINE k == Len(b)
             s == SubSeq(b, 1, k)
  <2> HIDE DEF n, b, o
  <2>1. k \in (1 + 1)..Len(b) /\ 2 = 1 + 1 /\ k - 1 - 1 = n
    BY SMT, <1>1, <1>3
  <2>2. s = b /\ SubSeq(o, 1, n) = o
    BY <1>3, <1>4, SubSeqFull
  <2> HIDE DEF k, s
  <2>3. /\ header(SubSeq(b, 1, k)).type = p.type
        /\ header(SubSeq(b, 1, k)).remaining_length = n
        /\ rest(SubSeq(b, 1, k)) = SubSeq(o, 1, k - 1 - 1)
    BY <1>2, <2>1, FrontAnalyzed DEF n, b, o
  <2> QED
    BY <2>1, <2>2, <2>3 DEF s
<1> HIDE DEF n, b
<1>6. p.type \in {CONNACK, PUBLISH, PUBACK, SUBACK}
  BY DEF Analyzed
<1>7. p.type # PUBLISH => Received(x) = p
  BY DEF Received
<1>8. CASE p.type = CONNACK
  <2>1. p.type # PUBLISH
    BY SMT, <1>8 DEF CONNACK, PUBLISH
  <2>2. analyze_packet(b) = unboxConnack(o)
    BY <1>5, <1>8, AnalyzedArms
  <2> QED
    BY <1>7, <1>8, <2>1, <2>2, BodyUnboxed DEF b
<1>9. CASE p.type = PUBLISH
  <2>1. analyze_packet(b) = unboxPublish(o)
    BY <1>5, <1>9, AnalyzedArms
  <2> QED
    BY <1>9, <2>1, BodyUnboxed DEF b
<1>10. CASE p.type = PUBACK
  <2>1. p.type # PUBLISH
    BY SMT, <1>10 DEF PUBACK, PUBLISH
  <2>2. analyze_packet(b) = unboxPuback(o)
    BY <1>5, <1>10, AnalyzedArms
  <2> QED
    BY <1>7, <1>10, <2>1, <2>2, BodyUnboxed DEF b
<1>11. CASE p.type = SUBACK
  <2>1. p.type # PUBLISH
    BY SMT, <1>11 DEF SUBACK, PUBLISH
  <2>2. analyze_packet(b) = unboxSuback(o, n)
    BY <1>5, <1>11, AnalyzedArms
  <2> QED
    BY <1>7, <1>11, <2>1, <2>2, BodyUnboxed DEF n, b
<1> QED
  BY <1>6, <1>8, <1>9, <1>10, <1>11 DEF b

\* Likewise for a message.
LEMMA FrontOfMessage ==
  ASSUME NEW x \in Sendable, x.packet.type = PUBLISH,
         NEW k \in (1 + Digits(RemainingLength(x)))..Len(BytesOf(x)),
         erased(RemainingLength(x)) = 1 + Digits(RemainingLength(x))
  PROVE  analyze_packet(SubSeq(BytesOf(x), 1, k))
         = unboxPublish(SubSeq(BodyOf(x), 1, k - 1 - Digits(RemainingLength(x))))
<1> DEFINE s == SubSeq(BytesOf(x), 1, k)
<1>1. /\ header(s).type = PUBLISH
      /\ rest(s) = SubSeq(BodyOf(x), 1, k - 1 - Digits(RemainingLength(x)))
  BY FrontAnalyzed
<1> HIDE DEF s
<1>2. analyze_packet(s) = unboxPublish(rest(s))
  BY <1>1, AnalyzedArms
<1> QED
  BY <1>1, <1>2 DEF s

\* Of a longer message the 127 + n % 128 first bytes of the body are analysed.
LEMMA LongAnalyzed ==
  ASSUME NEW x \in Sendable,
         Digits(RemainingLength(x)) = 2,
         x.packet.type = PUBLISH
  PROVE  LET m == RemainingLength(x) % 128
         IN  /\ 130 + m \in 3..Len(BytesOf(x))
             /\ analyze_packet(SubSeq(BytesOf(x), 1, 130 + m))
                = unboxPublish(SubSeq(BodyOf(x), 1, 127 + m))
<1> DEFINE n == RemainingLength(x)
           b == BytesOf(x)
           o == BodyOf(x)
           k == 130 + (n % 128)
<1>1. n \in Nat
  BY SendableFields
<1>2. Digits(n) = 2 /\ erased(n) = 3 /\ n >= 128
  BY <1>1, ErasedDigits
<1>3. Len(b) = 1 + 2 + n
  BY <1>2, BytesShape
<1>4. /\ k \in (1 + 2)..Len(b) /\ 3 = 1 + 2
      /\ k - 1 - 2 = 127 + (n % 128)
  <2> HIDE DEF n, b
  <2> QED
    BY SMT, <1>1, <1>2, <1>3
<1> HIDE DEF k
<1>5. analyze_packet(SubSeq(b, 1, k)) = unboxPublish(SubSeq(o, 1, k - 1 - 2))
  BY <1>2, <1>4, FrontOfMessage
<1> QED
  BY <1>4, <1>5 DEF k

-----------------------------------------------------------------------------
(* The stream.                                                             *)

\* The bytes of the j-th packet lie in the stream from Start(j) to ends[j], and
\* the last read has analysed its buffer.
StreamInv ==
  /\ TypeOK
  /\ Start(Len(sent) + 1) = Len(stream)
  /\ \A j \in 1..Len(sent) :
       /\ Start(j) \in Nat
       /\ ends[j] = Start(j) + Len(BytesOf(sent[j]))
       /\ ends[j] <= Len(stream)
       /\ \A i \in 1..Len(BytesOf(sent[j])) :
            stream[Start(j) + i] = BytesOf(sent[j])[i]
  /\ last # NoRead =>
       /\ last.from < last.to /\ last.to <= Len(stream)
       /\ \E g \in Garbage :
            last.packet
            = analyze_packet(Framed(SubSeq(stream, last.from + 1, last.to), g))

\* Before the broker sends anything the stream is empty, so it is a stream.
LEMMA InitStream == Init => StreamInv
<1>1. Init => TypeOK
  BY SMT, FramingAssumption DEF Init, TypeOK, NoRead
<1>2. Init => Len(sent) = 0 /\ last = NoRead /\ Start(Len(sent) + 1) = Len(stream)
  BY SMT DEF Init, Start
<1> QED
  BY SMT, <1>1, <1>2 DEF StreamInv

\* Sending adds the bytes of one packet behind the others.
LEMMA SendStream ==
  ASSUME StreamInv, Send
  PROVE  StreamInv'
<1> PICK x \in Sendable :
         /\ Len(sent) < MaxPackets
         /\ sent' = Append(sent, x)
         /\ stream' = stream \o BytesOf(x)
         /\ ends' = Append(ends, Len(stream) + Len(BytesOf(x)))
         /\ UNCHANGED <<arrived, read, last>>
  BY DEF Send
<1> DEFINE b == BytesOf(x)
           N == Len(sent)
           L == Len(stream)
<1>1. b \in Seq(Byte)
  BY BytesShape
<1> HIDE DEF b
<1>2. /\ sent \in Seq(Sendable) /\ N \in Nat
      /\ stream \in Seq(Byte) /\ L \in Nat
      /\ ends \in Seq(Nat) /\ Len(ends) = N
      /\ Len(b) \in Nat
  BY <1>1, LenProperties DEF StreamInv, TypeOK
<1>3. /\ sent' \in Seq(Sendable) /\ Len(sent') = N + 1
      /\ sent'[N + 1] = x
      /\ \A j \in 1..N : sent'[j] = sent[j]
  BY SMT, <1>2
<1>4. /\ stream' \in Seq(Byte) /\ Len(stream') = L + Len(b)
      /\ \A i \in 1..(L + Len(b)) : stream'[i] = IF i <= L THEN stream[i] ELSE b[i - L]
  BY <1>1, <1>2, ConcatProperties DEF b
<1>5. /\ ends' \in Seq(Nat) /\ Len(ends') = N + 1
      /\ ends'[N + 1] = L + Len(b)
      /\ \A j \in 1..N : ends'[j] = ends[j]
  BY SMT, <1>2 DEF b
<1>6. TypeOK'
  <2>1. N + 1 <= MaxPackets
    BY SMT, <1>2, FramingAssumption
  <2>2. /\ arrived \in 0..L
        /\ read \in 0..arrived
        /\ last.from \in 0..last.to /\ last.to \in 0..read
    BY DEF StreamInv, TypeOK
  <2>3. arrived \in 0..(L + Len(b))
    BY SMT, <1>2, <2>2
  <2> QED
    BY <1>3, <1>4, <1>5, <2>1, <2>2, <2>3 DEF TypeOK
<1>7. /\ Start(N + 1) = L
      /\ \A j \in 1..N :
           /\ Start(j) \in Nat
           /\ ends[j] = Start(j) + Len(BytesOf(sent[j]))
           /\ ends[j] <= L
           /\ \A i \in 1..Len(BytesOf(sent[j])) :
                stream[Start(j) + i] = BytesOf(sent[j])[i]
  BY DEF StreamInv
<1>8. \A j \in 1..(N + 1) : Start(j)' = Start(j)
  <2> TAKE j \in 1..(N + 1)
  <2>1. j = 1 \/ j - 1 \in 1..N
    BY SMT, <1>2
  <2> QED
    BY <1>5, <2>1 DEF Start
<1>9. Start(Len(sent) + 1)' = Len(stream')
  <2>1. N + 1 + 1 # 1 /\ N + 1 + 1 - 1 = N + 1
    BY SMT, <1>2
  <2> QED
    BY <1>3, <1>4, <1>5, <2>1 DEF Start
<1>10. ASSUME NEW j \in 1..N
       PROVE  /\ Start(j)' \in Nat
              /\ ends'[j] = Start(j)' + Len(BytesOf(sent'[j]))
              /\ ends'[j] <= Len(stream')
              /\ \A i \in 1..Len(BytesOf(sent'[j])) :
                   stream'[Start(j)' + i] = BytesOf(sent'[j])[i]
  <2>1. Start(j)' = Start(j) /\ ends'[j] = ends[j] /\ sent'[j] = sent[j]
    BY SMT, <1>2, <1>3, <1>5, <1>8
  <2>2. sent[j] \in Sendable
    BY <1>2, ElementOfSeq
  <2> DEFINE m == Len(BytesOf(sent[j]))
             k == Start(j)
  <2>3. m \in Nat
    BY <2>2, BytesShape, LenProperties
  <2>4. k \in Nat /\ ends[j] = k + m /\ ends[j] <= L
    BY <1>7
  <2> HIDE DEF m, k
  <2>5. \A i \in 1..m : stream'[k + i] = stream[k + i]
    <3> TAKE i \in 1..m
    <3>1. k + i \in 1..(L + Len(b)) /\ k + i <= L
      BY SMT, <1>2, <2>3, <2>4
    <3> QED
      BY <1>4, <3>1
  <2>6. ends[j] <= L + Len(b)
    BY SMT, <1>2, <2>3, <2>4
  <2>7. \A i \in 1..m : stream[k + i] = BytesOf(sent[j])[i]
    BY <1>7 DEF k, m
  <2>8. \A i \in 1..m : stream'[k + i] = BytesOf(sent[j])[i]
    BY <2>5, <2>7
  <2>9. Start(j)' = k /\ Len(BytesOf(sent'[j])) = m
    BY <2>1 DEF k, m
  <2> QED
    BY <1>4, <2>1, <2>4, <2>6, <2>8, <2>9
<1>11. ASSUME NEW j \in 1..(N + 1), j = N + 1
       PROVE  /\ Start(j)' \in Nat
              /\ ends'[j] = Start(j)' + Len(BytesOf(sent'[j]))
              /\ ends'[j] <= Len(stream')
              /\ \A i \in 1..Len(BytesOf(sent'[j])) :
                   stream'[Start(j)' + i] = BytesOf(sent'[j])[i]
  <2>1. Start(j)' = L
    BY <1>7, <1>8, <1>11
  <2>2. BytesOf(sent'[j]) = b /\ ends'[j] = L + Len(b)
    BY <1>3, <1>5, <1>11 DEF b
  <2>3. \A i \in 1..Len(b) : stream'[L + i] = b[i]
    <3> TAKE i \in 1..Len(b)
    <3>1. L + i \in 1..(L + Len(b)) /\ ~(L + i <= L) /\ (L + i) - L = i
      BY SMT, <1>2
    <3> QED
      BY <1>4, <3>1
  <2>4. L + Len(b) <= L + Len(b)
    BY SMT, <1>2
  <2> QED
    BY <1>2, <1>4, <2>1, <2>2, <2>3, <2>4
<1>12. last' # NoRead =>
         /\ last'.from < last'.to /\ last'.to <= Len(stream')
         /\ \E g \in Garbage :
              last'.packet
              = analyze_packet(Framed(SubSeq(stream', last'.from + 1, last'.to), g))
  <2> SUFFICES ASSUME last # NoRead
               PROVE  /\ last.from < last.to /\ last.to <= Len(stream')
                      /\ SubSeq(stream', last.from + 1, last.to)
                         = SubSeq(stream, last.from + 1, last.to)
    BY DEF StreamInv
  <2> DEFINE f == last.from
             t == last.to
  <2>1. f < t /\ t <= L /\ f \in 0..t /\ t \in 0..read
    BY DEF StreamInv, TypeOK
  <2>2. read \in 0..arrived /\ arrived \in 0..L
    BY DEF StreamInv, TypeOK
  <2> HIDE DEF f, t
  <2>3. f + 1 \in 1..L /\ t \in 1..L
    BY SMT, <1>2, <2>1, <2>2
  <2>4. SubSeq(stream \o b, f + 1, t) = SubSeq(stream, f + 1, t)
    BY <1>1, <1>2, <2>3, SubSeqOfConcat1
  <2>5. t <= L + Len(b)
    BY SMT, <1>2, <2>3
  <2> QED
    BY <1>4, <2>1, <2>4, <2>5 DEF f, t, b
<1>13. Len(sent') = N + 1 /\ \A j \in 1..(N + 1) : j \in 1..N \/ j = N + 1
  BY SMT, <1>2, <1>3
<1>14. \A j \in 1..Len(sent') :
         /\ Start(j)' \in Nat
         /\ ends'[j] = Start(j)' + Len(BytesOf(sent'[j]))
         /\ ends'[j] <= Len(stream')
         /\ \A i \in 1..Len(BytesOf(sent'[j])) :
              stream'[Start(j)' + i] = BytesOf(sent'[j])[i]
  <2> TAKE j \in 1..Len(sent')
  <2>1. CASE j \in 1..N
    BY <1>10, <2>1
  <2>2. CASE j = N + 1
    BY <1>11, <1>13, <2>2
  <2> QED
    BY <1>13, <2>1, <2>2
<1> QED
  BY <1>6, <1>9, <1>12, <1>14 DEF StreamInv

\* A segment arrives: the bytes stay where they are.
LEMMA ArriveStream ==
  ASSUME StreamInv, Arrive
  PROVE  StreamInv'
<1>1. /\ UNCHANGED <<sent, stream, ends, read, last>>
      /\ \E e \in (arrived + 1)..Len(stream) : arrived' = e
  BY DEF Arrive
<1>2. TypeOK'
  <2>1. /\ TypeOK /\ Len(stream) \in Nat
        /\ arrived \in 0..Len(stream) /\ read \in 0..arrived
    BY LenProperties DEF StreamInv, TypeOK
  <2>2. arrived' \in 0..Len(stream) /\ read \in 0..arrived'
    BY SMT, <1>1, <2>1
  <2> QED
    BY <1>1, <2>1, <2>2 DEF TypeOK
<1> QED
  BY <1>1, <1>2 DEF StreamInv, Start

\* A read analyses its buffer.
LEMMA ReadStream ==
  ASSUME StreamInv, Read
  PROVE  StreamInv'
<1>1. /\ read < arrived
      /\ read' = ReadTo
      /\ UNCHANGED <<sent, stream, ends, arrived>>
  BY DEF Read
<1>2. PICK g \in Garbage :
        last' = [from |-> read, to |-> ReadTo,
                 packet |-> analyze_packet(Framed(SubSeq(stream, read + 1, ReadTo), g))]
  BY DEF Read
<1>3. /\ TypeOK /\ Len(stream) \in Nat
      /\ arrived \in 0..Len(stream) /\ read \in 0..arrived
  BY LenProperties DEF StreamInv, TypeOK
<1>4. read < ReadTo /\ ReadTo <= arrived /\ ReadTo \in Nat
  BY SMT, <1>1, <1>3, FramingAssumption DEF ReadTo
<1>5. /\ last'.from = read /\ last'.to = ReadTo
      /\ last'.packet = analyze_packet(Framed(SubSeq(stream, read + 1, ReadTo), g))
  BY <1>2
<1>6. TypeOK'
  <2>1. /\ ReadTo \in 0..arrived /\ read \in 0..ReadTo /\ ReadTo \in 0..ReadTo
    BY SMT, <1>3, <1>4
  <2> QED
    BY <1>1, <1>3, <1>5, <2>1 DEF TypeOK
<1>7. ReadTo <= Len(stream)
  BY SMT, <1>3, <1>4
<1> QED
  BY <1>1, <1>4, <1>5, <1>6, <1>7 DEF StreamInv, Start

\* In every reachable state every packet lies whole in the stream between its
\* ends, and the last read has analysed the bytes it took.
THEOREM StreamInvariant == Spec => []StreamInv
<1>1. StreamInv /\ UNCHANGED vars => StreamInv'
  BY DEF StreamInv, TypeOK, Start, vars
<1>2. StreamInv /\ [Next]_vars => StreamInv'
  BY <1>1, SendStream, ArriveStream, ReadStream DEF Next
<1> QED
  BY InitStream, <1>2, PTL DEF Spec

-----------------------------------------------------------------------------
(* The properties.                                                         *)

\* A read that takes the whole of the j-th packet frames the front of it that
\* its second byte tells.
LEMMA FrontFramed ==
  ASSUME StreamInv, NEW j \in 1..Len(sent), ReadWhole(j),
         NEW g, NEW k \in 2..Len(BytesOf(sent[j])), k = 2 + BytesOf(sent[j])[2]
  PROVE  Framed(SubSeq(stream, last.from + 1, last.to), g)
         = SubSeq(BytesOf(sent[j]), 1, k)
<1> DEFINE x == sent[j]
           b == BytesOf(x)
           f == last.from
           t == last.to
           m == Len(b)
           s == SubSeq(stream, f + 1, t)
<1>1. x \in Sendable
  BY ElementOfSeq DEF StreamInv, TypeOK
<1>2. b \in Seq(Byte) /\ m \in Nat
  BY <1>1, BytesShape, LenProperties
<1>3. stream \in Seq(Byte) /\ Len(stream) \in Nat
  BY LenProperties DEF StreamInv, TypeOK
<1>4. /\ f \in Nat /\ f + m <= t
      /\ t \in Nat /\ t <= Len(stream)
      /\ \A i \in 1..m : stream[f + i] = b[i]
  <2>1. /\ last # NoRead /\ f = Start(j) /\ ends[j] <= t
        /\ ends[j] = Start(j) + m
    BY DEF ReadWhole, StreamInv
  <2>2. /\ f \in 0..t /\ t <= Len(stream) /\ f < t
        /\ t \in 0..read /\ read \in 0..arrived /\ arrived \in 0..Len(stream)
    BY <2>1 DEF StreamInv, TypeOK
  <2>3. \A i \in 1..m : stream[f + i] = b[i]
    BY <2>1 DEF StreamInv
  <2> HIDE DEF f, t, m
  <2> QED
    BY SMT, <1>2, <1>3, <2>1, <2>2, <2>3
<1>5. k \in 2..m /\ k = 2 + b[2]
  OBVIOUS
<1> HIDE DEF x, b, f, t, m
<1>6. /\ s \in Seq(Byte)
      /\ Len(s) = t - f
      /\ \A i \in 1..(t - f) : s[i] = stream[f + i]
  BY SMT, <1>2, <1>3, <1>4
<1> HIDE DEF s
<1>7. Len(s) \in Nat /\ m <= Len(s)
  BY SMT, <1>2, <1>4, <1>6
<1>8. \A i \in 1..m : s[i] = b[i]
  BY SMT, <1>2, <1>4, <1>6
<1>9. Buffer(s, g, 2)[2] = b[2]
  <2>1. 2 \in 1..m /\ 2 \in 1..2 /\ 2 <= Len(s)
    BY SMT, <1>2, <1>5, <1>7
  <2> QED
    BY <1>8, <2>1 DEF Buffer
<1>10. Framed(s, g) = [i \in 1..k |-> IF i <= Len(s) THEN s[i] ELSE g]
  BY <1>5, <1>9 DEF Framed, Buffer
<1>11. \A i \in 1..k : (IF i <= Len(s) THEN s[i] ELSE g) = b[i]
  <2> TAKE i \in 1..k
  <2>1. i \in 1..m /\ i <= Len(s)
    BY SMT, <1>2, <1>5, <1>7
  <2> QED
    BY <1>8, <2>1
<1>12. Framed(s, g) = [i \in 1..k |-> b[i]]
  BY Zenon, <1>10, <1>11
<1>13. SubSeq(b, 1, k) = [i \in 1..k |-> b[i]]
  <2> DEFINE e == [i \in 1..k |-> b[i]]
  <2>1. k \in Nat /\ \A i \in 1..k : b[i] \in Byte
    BY SMT, <1>2, <1>5 DEF m
  <2>2. e \in Seq(Byte) /\ Len(e) = k /\ \A i \in 1..k : e[i] = b[i]
    BY SMT, <2>1
  <2>3. /\ SubSeq(b, 1, k) \in Seq(Byte)
        /\ Len(SubSeq(b, 1, k)) = k
        /\ \A i \in 1..k : SubSeq(b, 1, k)[i] = b[i]
    BY SMT, <1>2, <1>5 DEF m
  <2> HIDE DEF e
  <2>4. e = SubSeq(b, 1, k)
    BY <2>2, <2>3, SeqEqual
  <2> QED
    BY <2>4 DEF e
<1> QED
  BY <1>12, <1>13 DEF s, f, t, b, x

\* The second byte of a packet.
LEMMA SecondByte ==
  ASSUME NEW x \in Sendable
  PROVE  LET n == RemainingLength(x)
         IN  /\ n < 127 => BytesOf(x)[2] = n
             /\ Digits(n) = 2 => BytesOf(x)[2] = (n % 128) + 128
<1> DEFINE n == RemainingLength(x)
<1>1. n \in Nat
  BY SendableFields
<1>2. /\ Digits(n) \in 1..4
      /\ BytesOf(x)[1 + 1] = encode_remaining_len(n)[1]
  <2>1. Digits(n) \in 1..4 /\ \A i \in 1..Digits(n) :
          BytesOf(x)[i + 1] = encode_remaining_len(n)[i]
    BY BytesShape
  <2>2. 1 \in 1..Digits(n)
    BY SMT, <2>1
  <2> QED
    BY <2>1, <2>2
<1> HIDE DEF n
<1>3. encode_remaining_len(n)[1]
      = ((n \div Weight[1]) % 128) + (IF 1 < Digits(n) THEN 128 ELSE 0)
  <2>1. 1 \in 1..Digits(n)
    BY SMT, <1>2
  <2> QED
    BY <2>1 DEF encode_remaining_len
<1>4. (n \div Weight[1]) % 128 = n % 128
  BY SMT, <1>1, Weights
<1>5. BytesOf(x)[2] = (n % 128) + (IF 1 < Digits(n) THEN 128 ELSE 0)
  BY SMT, <1>2, <1>3, <1>4
<1>6. n < 127 => BytesOf(x)[2] = n
  <2> HAVE n < 127
  <2>1. Digits(n) = 1
    BY <1>1, ErasedDigits
  <2>2. n % 128 = n
    BY SMT, <1>1
  <2> QED
    BY SMT, <1>1, <1>5, <2>1, <2>2
<1>7. Digits(n) = 2 => BytesOf(x)[2] = (n % 128) + 128
  <2> HAVE Digits(n) = 2
  <2>1. 1 < Digits(n)
    BY SMT
  <2> QED
    BY <1>5, <2>1
<1> QED
  BY <1>6, <1>7 DEF n

\* Every variable of Framing keeps its type, and no read goes past what has
\* arrived.
THEOREM FramingTypeCorrect == Spec => []TypeOK
  BY StreamInvariant, PTL DEF StreamInv

\* A packet of remaining length below 127 that a read finds whole is analysed as
\* what the broker sent, for every packet, buffer and cut of the stream.
THEOREM WholePacketsAnalyzed == Spec => []WholePacketAnalyzed
<1>1. StreamInv => WholePacketAnalyzed
  <2> SUFFICES ASSUME StreamInv, NEW j \in 1..Len(sent), ReadWhole(j),
                      RemainingLength(sent[j]) < 127, Analyzed(sent[j].packet)
               PROVE  last.packet = Received(sent[j])
    BY DEF WholePacketAnalyzed
  <2> DEFINE x == sent[j]
             n == RemainingLength(x)
             b == BytesOf(x)
  <2>1. x \in Sendable
    BY ElementOfSeq DEF StreamInv, TypeOK
  <2>2. n \in Nat /\ n < 127
    BY <2>1, SendableFields
  <2>3. Digits(n) = 1
    BY <2>2, ErasedDigits
  <2>4. b \in Seq(Byte) /\ Len(b) = 1 + 1 + n /\ b[2] = n
    BY <2>1, <2>2, <2>3, BytesShape, SecondByte
  <2>5. PICK g \in Garbage :
          last.packet
          = analyze_packet(Framed(SubSeq(stream, last.from + 1, last.to), g))
    BY DEF StreamInv, ReadWhole
  <2>6. Framed(SubSeq(stream, last.from + 1, last.to), g) = SubSeq(b, 1, Len(b))
    <3> DEFINE k == Len(b)
    <3> HIDE DEF n, b
    <3>1. k \in 2..Len(b) /\ k = 2 + b[2]
      BY SMT, <2>2, <2>4
    <3> HIDE DEF k
    <3>2. Framed(SubSeq(stream, last.from + 1, last.to), g) = SubSeq(b, 1, k)
      BY <3>1, FrontFramed DEF b
    <3> QED
      BY <3>2 DEF k
  <2>7. SubSeq(b, 1, Len(b)) = b
    BY <2>4, SubSeqFull
  <2>8. analyze_packet(b) = Received(x)
    BY <2>1, WholeAnalyzed
  <2> QED
    BY <2>5, <2>6, <2>7, <2>8
<1> QED
  BY <1>1, StreamInvariant, PTL

\* Of a message with a remaining length n of two digits, get_message is handed
\* the first 127 + n % 128 bytes of the body.
THEOREM LongMessagesCut == Spec => []LongMessageCut
<1>1. ASSUME NEW n \in TwoDigits
      PROVE  Digits(n) = 2
  <2>1. n \in Nat /\ n >= 128 /\ n <= 16383
    BY SMT DEF TwoDigits
  <2>2. n < 16384
    BY SMT, <2>1
  <2> QED
    BY SMT, <2>1, <2>2, ErasedDigits
<1>2. ASSUME StreamInv, NEW j \in 1..Len(sent), ReadWhole(j),
             Digits(RemainingLength(sent[j])) = 2, sent[j].packet.type = PUBLISH
      PROVE  last.packet
             = unboxPublish(SubSeq(BodyOf(sent[j]), 1,
                                   127 + (RemainingLength(sent[j]) % 128)))
  <2> DEFINE x == sent[j]
             m == RemainingLength(x) % 128
             b == BytesOf(x)
             k == 130 + m
  <2>1. x \in Sendable
    BY <1>2, ElementOfSeq DEF StreamInv, TypeOK
  <2>2. m \in Nat
    <3>1. RemainingLength(x) \in Nat
      BY <2>1, SendableFields
    <3> QED
      BY SMT, <3>1
  <2>3. k \in 3..Len(b)
    BY <1>2, <2>1, LongAnalyzed
  <2>4. b[2] = m + 128
    BY <1>2, <2>1, SecondByte
  <2>5. analyze_packet(SubSeq(b, 1, k)) = unboxPublish(SubSeq(BodyOf(x), 1, 127 + m))
    BY <1>2, <2>1, LongAnalyzed
  <2>6. PICK g \in Garbage :
          last.packet
          = analyze_packet(Framed(SubSeq(stream, last.from + 1, last.to), g))
    BY <1>2 DEF StreamInv, ReadWhole
  <2>7. k \in 2..Len(b) /\ k = 2 + b[2]
    <3>1. Len(b) \in Nat
      BY <2>1, BytesShape, LenProperties
    <3> HIDE DEF b, m
    <3> QED
      BY SMT, <2>2, <2>3, <2>4, <3>1
  <2>8. Framed(SubSeq(stream, last.from + 1, last.to), g) = SubSeq(b, 1, k)
    <3> HIDE DEF k
    <3> QED
      BY <1>2, <2>7, FrontFramed
  <2> QED
    BY <2>5, <2>6, <2>8
<1>3. StreamInv => LongMessageCut
  BY <1>1, <1>2 DEF LongMessageCut
<1> QED
  BY <1>3, StreamInvariant, PTL

\* unboxing erases exactly the fixed header of every packet whose remaining
\* length is below 16384 and not 127, and leaves it in front of every other.
THEOREM HeadersErased == Spec => []HeaderErased
<1>1. ASSUME NEW x \in Sendable
      PROVE  LET n == RemainingLength(x)
             IN  rest(BytesOf(x)) = BodyOf(x) <=> n # 127 /\ n < 16384
  <2> DEFINE n == RemainingLength(x)
             d == Digits(n)
             b == BytesOf(x)
             o == BodyOf(x)
  <2>1. n \in Nat
    BY SendableFields
  <2>2. b \in Seq(Byte) /\ Len(b) = 1 + d + n /\ d \in 1..4 /\ SubSeq(b, 2 + d, Len(b)) = o
    BY BytesShape
  <2>3. o \in Seq(Byte) /\ Len(o) = n
    BY SendableFields DEF RemainingLength
  <2>4. rest(b) = SubSeq(b, erased(n) + 1, Len(b))
    BY BytesDecoded DEF rest
  <2>5. /\ n < 128 => d = 1
        /\ n >= 128 /\ n < 16384 => d = 2
        /\ n < 127 => erased(n) = 2
        /\ n >= 128 /\ n < 16384 => erased(n) = 3
        /\ n = 127 => erased(n) = 0
        /\ n >= 16384 => erased(n) = 0
    BY <2>1, ErasedDigits
  <2> HIDE DEF n, d, b, o
  <2>6. ASSUME n # 127 /\ n < 16384 PROVE rest(b) = o
    <3>1. erased(n) + 1 = 2 + d
      BY SMT, <2>1, <2>5, <2>6
    <3> QED
      BY <2>2, <2>4, <3>1
  <2>7. ASSUME n = 127 \/ n >= 16384 PROVE rest(b) # o
    <3>1. erased(n) + 1 = 1
      BY SMT, <2>5, <2>7
    <3>2. rest(b) = b
      BY <2>2, <2>4, <3>1, SubSeqFull
    <3>3. Len(b) # Len(o)
      BY SMT, <2>1, <2>2, <2>3
    <3> QED
      BY <3>2, <3>3
  <2>8. (n # 127 /\ n < 16384) \/ n = 127 \/ n >= 16384
    BY SMT, <2>1
  <2>9. rest(b) = o <=> n # 127 /\ n < 16384
    <3>1. CASE n # 127 /\ n < 16384
      BY <2>6, <3>1
    <3>2. CASE n = 127 \/ n >= 16384
      <4>1. ~(n # 127 /\ n < 16384)
        BY SMT, <2>1, <3>2
      <4> QED
        BY <2>7, <3>2, <4>1
    <3> QED
      BY <2>8, <3>1, <3>2
  <2> QED
    BY <2>9 DEF n, b, o
<1>2. StreamInv => HeaderErased
  <2> SUFFICES ASSUME StreamInv, NEW j \in 1..Len(sent)
               PROVE  sent[j] \in Sendable
    BY <1>1 DEF HeaderErased
  <2> QED
    BY ElementOfSeq DEF StreamInv, TypeOK
<1> QED
  BY <1>2, StreamInvariant, PTL

\* In every reachable state the remaining length of each packet sent, of any
\* number of digits, is decoded to the length of its body.
THEOREM LengthsDecoded == Spec => []LengthDecoded
<1>1. StreamInv => LengthDecoded
  <2> SUFFICES ASSUME StreamInv, NEW j \in 1..Len(sent)
               PROVE  sent[j] \in Sendable
    BY BytesDecoded DEF LengthDecoded
  <2> QED
    BY ElementOfSeq DEF StreamInv, TypeOK
<1> QED
  BY <1>1, StreamInvariant, PTL

=============================================================================
