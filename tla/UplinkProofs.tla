---------------------------- MODULE UplinkProofs ----------------------------
(***************************************************************************)
(* The client's bytes reach the broker as the packets they were, whatever  *)
(* the packets, however little room the kernel has and whenever the two    *)
(* threads write: UplinkInv is inductive.                                  *)
(***************************************************************************)
EXTENDS Uplink, ClientPacketsProofs

-----------------------------------------------------------------------------
(* A packet in front of some bytes.                                        *)

\* What the threads send.
Sendable == Requests \cup {Pingreq}

\* Each packet sent has the shape of a packet, of at least two bytes.
LEMMA SendableBytes ==
  ASSUME NEW p \in Sendable
  PROVE  /\ p \in ClientPacket
         /\ PacketShape(ClientBytes(p), p.type, ClientBody(p))
         /\ Len(ClientBody(p)) \in Nat /\ Len(ClientBody(p)) <= MaxLength
         /\ ClientBytes(p) \in Seq(Byte)
         /\ Len(ClientBytes(p)) \in Nat /\ Len(ClientBytes(p)) >= 2
<1>1. p \in ClientPacket /\ Len(ClientBody(p)) <= MaxLength
  <2>1. CASE p \in Requests
    BY <2>1, UplinkAssumption
  <2>2. CASE p = Pingreq
    <3>1. p.type = PINGREQ /\ p \in ClientPacket
      BY SMT, <2>2 DEF Pingreq, ClientPacket
    <3>2. ClientBody(p) = <<>>
      BY <3>1, ClientArms
    <3>3. 0 <= MaxLength
      BY SMT DEF MaxLength
    <3> QED
      BY <3>1, <3>2, <3>3, EmptySeq
  <2> QED
    BY <2>1, <2>2 DEF Sendable
<1> DEFINE o == ClientBody(p)
           b == ClientBytes(p)
           n == Len(o)
           d == Digits(n)
           l == Len(b)
<1>2. o \in Seq(Byte) /\ n \in Nat
  BY <1>1, ClientBodyBytes, LenProperties
<1>3. PacketShape(b, p.type, o)
  BY <1>1, ClientBytesShape
<1>4. b \in Seq(Byte) /\ l \in Nat /\ l = 1 + d + n /\ d \in 1..4
  BY <1>3, LenProperties DEF PacketShape
<1> HIDE DEF o, b, n, d, l
<1>5. l >= 2
  BY SMT, <1>2, <1>4
<1> QED
  BY <1>1, <1>2, <1>3, <1>4, <1>5 DEF o, b, n, l

\* The digits of a remaining length are read to the last.
LEMMA AllDigitsRead ==
  ASSUME NEW n \in Nat, n <= MaxLength, NEW m,
         \A i \in 1..Digits(n) : m[i + 1] = encode_remaining_len(n)[i]
  PROVE  DigitsRead(m) = Digits(n)
<1> DEFINE d == Digits(n)
<1>1. /\ d \in 1..4
      /\ \A i \in 1..d :
           /\ encode_remaining_len(n)[i] \in Nat
           /\ i < d => encode_remaining_len(n)[i] >= 128
           /\ i = d => encode_remaining_len(n)[i] < 128
  BY EncodedDigits
<1>2. \A i \in 1..d : m[i + 1] = encode_remaining_len(n)[i]
  OBVIOUS
<1> HIDE DEF d
<1>3. \A i \in 1..d : /\ m[i + 1] \in Nat
                      /\ i < d => ~(m[i + 1] < 128)
                      /\ i = d => m[i + 1] < 128
  BY SMT, <1>1, <1>2
<1>4. /\ d >= 1 => /\ 1 < d => ~(m[2] < 128)
                   /\ 1 = d => m[2] < 128
      /\ d >= 2 => /\ 2 < d => ~(m[3] < 128)
                   /\ 2 = d => m[3] < 128
      /\ d >= 3 => (3 < d => ~(m[4] < 128))
      /\ d = 3 => m[4] < 128
  <2>1. d >= 1 => (1 < d => ~(m[1 + 1] < 128)) /\ (1 = d => m[1 + 1] < 128)
    BY SMT, <1>1, <1>3
  <2>2. d >= 2 => (2 < d => ~(m[2 + 1] < 128)) /\ (2 = d => m[2 + 1] < 128)
    BY SMT, <1>1, <1>3
  <2>3. d >= 3 => (3 < d => ~(m[3 + 1] < 128)) /\ (3 = d => m[3 + 1] < 128)
    BY SMT, <1>1, <1>3
  <2> QED
    BY SMT, <2>1, <2>2, <2>3
<1>5. DigitsRead(m) = d
  BY SMT, <1>1, <1>4 DEF DigitsRead
<1> QED
  BY <1>5 DEF d

\* s and b are the same as far as both go.
Agree(s, b) == \A j \in 1..Len(b) : j <= Len(s) => s[j] = b[j]

\* Bytes that agree with a packet have no frame before they have the packet, which
\* is that frame.
LEMMA FrontParsed ==
  ASSUME NEW p \in Sendable, NEW s \in Seq(Byte), Agree(s, ClientBytes(p))
  PROVE  /\ FrameIn(s) => /\ FrameLength(s) = Len(ClientBytes(p))
                          /\ SubSeq(s, 1, FrameLength(s)) = ClientBytes(p)
         /\ Len(s) >= Len(ClientBytes(p)) => FrameIn(s)
<1> DEFINE b == ClientBytes(p)
           n == Len(ClientBody(p))
           d == Digits(n)
           k == Len(s)
           l == Len(b)
<1>1. /\ n \in Nat /\ n <= MaxLength
      /\ b \in Seq(Byte)
      /\ l = 1 + d + n
      /\ \A i \in 1..d : b[i + 1] = encode_remaining_len(n)[i]
  BY SendableBytes DEF PacketShape
<1>2. /\ d \in 1..4
      /\ \A i \in 1..d :
           /\ encode_remaining_len(n)[i] \in Nat
           /\ i < d => encode_remaining_len(n)[i] >= 128
           /\ i = d => encode_remaining_len(n)[i] < 128
  BY <1>1, EncodedDigits
<1>3. k \in Nat
  BY LenProperties
<1>4. \A j \in 1..l : j <= k => s[j] = b[j]
  BY DEF Agree
<1> HIDE DEF b, n
<1>5. ASSUME k >= 1 + d
      PROVE  /\ \A i \in 1..d : s[i + 1] = encode_remaining_len(n)[i]
             /\ FrameLength(s) = l
  <2>1. \A i \in 1..d : s[i + 1] = encode_remaining_len(n)[i]
    <3> HIDE DEF d, k, l
    <3> TAKE i \in 1..d
    <3>1. i + 1 \in 1..l /\ i + 1 <= k
      BY SMT, <1>1, <1>2, <1>3, <1>5
    <3> QED
      BY <1>1, <1>4, <3>1
  <2>2. decode_remaining_len(s) = n
    BY <1>1, <2>1, LengthRoundTrip
  <2>3. DigitsRead(s) = d
    BY <1>1, <2>1, AllDigitsRead
  <2> HIDE DEF d, l
  <2>4. FrameLength(s) = 1 + d + n
    BY <2>2, <2>3 DEF FrameLength
  <2> QED
    BY <1>1, <2>1, <2>4
<1> HIDE DEF d, k, l
<1>6. ASSUME HeaderIn(s)
      PROVE  k >= 1 + d
  <2>1. PICK i \in 1..4 : i < k /\ s[i + 1] < 128
    BY <1>6 DEF HeaderIn, k
  <2>2. CASE i < d
    <3>1. i \in 1..d /\ i + 1 \in 1..l /\ i + 1 <= k
      BY SMT, <1>1, <1>2, <1>3, <2>1, <2>2
    <3>2. s[i + 1] = encode_remaining_len(n)[i]
      BY <1>1, <1>4, <3>1
    <3>3. encode_remaining_len(n)[i] \in Nat /\ encode_remaining_len(n)[i] >= 128
      BY <1>2, <2>2, <3>1
    <3> QED
      BY SMT, <2>1, <3>2, <3>3
  <2>3. CASE i >= d
    BY SMT, <1>2, <1>3, <2>1, <2>3
  <2> QED
    BY SMT, <1>2, <2>2, <2>3
<1>7. ASSUME k >= l
      PROVE  HeaderIn(s)
  <2>1. k >= 1 + d /\ d < k /\ d \in 1..d
    BY SMT, <1>1, <1>2, <1>3, <1>7
  <2>2. s[d + 1] = encode_remaining_len(n)[d]
    BY <1>5, <2>1
  <2>3. s[d + 1] < 128
    BY <1>2, <2>1, <2>2
  <2> QED
    BY <1>2, <2>1, <2>3 DEF HeaderIn, k
<1>8. ASSUME FrameIn(s)
      PROVE  FrameLength(s) = l /\ SubSeq(s, 1, l) = b
  <2>1. FrameLength(s) = l /\ l <= k
    <3>1. HeaderIn(s) /\ FrameLength(s) <= k
      BY <1>8 DEF FrameIn, k
    <3> QED
      BY <1>5, <1>6, <3>1
  <2>2. l \in Nat
    BY <1>1, LenProperties DEF l
  <2>3. \A j \in 1..l : s[j] = b[j]
    <3> TAKE j \in 1..l
    <3>1. j <= k
      BY SMT, <1>3, <2>1, <2>2
    <3> QED
      BY <1>4, <3>1
  <2> DEFINE c == SubSeq(s, 1, l)
  <2>4. c \in Seq(Byte) /\ Len(c) = l /\ \A j \in 1..l : c[j] = s[j]
    <3>1. 1 \in Nat /\ 1 <= 1 /\ 1 <= l + 1 /\ l <= Len(s)
      BY SMT, <2>1, <2>2 DEF k
    <3>2. /\ c \in Seq(Byte) /\ Len(c) = l - 1 + 1
          /\ \A j \in 1..(l - 1 + 1) : c[j] = s[1 + j - 1]
      BY <2>2, <3>1, PartOfSeq
    <3> HIDE DEF c
    <3>3. l - 1 + 1 = l /\ \A j \in 1..l : 1 + j - 1 = j
      BY SMT, <2>2
    <3> QED
      BY <3>2, <3>3
  <2> HIDE DEF c
  <2>5. c = b
    <3>1. Len(b) = l /\ \A j \in 1..Len(c) : c[j] = b[j]
      BY <2>3, <2>4 DEF l
    <3> QED
      BY <1>1, <2>4, <3>1, SeqEqual
  <2> QED
    BY <2>1, <2>5 DEF c
<1>9. ASSUME k >= l
      PROVE  FrameIn(s)
  <2>1. k >= 1 + d
    BY SMT, <1>1, <1>2, <1>3, <1>9
  <2>2. FrameLength(s) = l
    BY <1>5, <2>1
  <2>3. l <= k
    BY SMT, <1>1, <1>2, <1>3, <1>9
  <2> QED
    BY <1>7, <1>9, <2>2, <2>3 DEF FrameIn, k
<1>10. FrameIn(s) => FrameLength(s) = l /\ SubSeq(s, 1, FrameLength(s)) = b
  BY <1>8
<1> QED
  BY <1>9, <1>10 DEF b, k, l

\* A frame in some bytes ends in them.
LEMMA FrameInside ==
  ASSUME NEW s \in Seq(Byte), HeaderIn(s)
  PROVE  FrameLength(s) \in Nat /\ FrameLength(s) >= 2
<1> DEFINE k == Len(s)
           v(i) == (s[i + 1] % 128) * Weight[i]
<1>1. k \in Nat /\ \A i \in 1..k : s[i] \in Byte
  BY LenProperties, ElementOfSeq
<1>2. PICK n \in 1..4 : n < k /\ s[n + 1] < 128
  BY DEF HeaderIn
<1> HIDE DEF k
<1>3. \A i \in 1..n : s[i + 1] \in Byte
  BY SMT, <1>1, <1>2
<1>4. DigitsRead(s) \in 1..n
  <2>1. /\ n = 1 => s[2] < 128
        /\ n = 2 => s[3] < 128
        /\ n = 3 => s[4] < 128
    <3>1. 1 + 1 = 2 /\ 2 + 1 = 3 /\ 3 + 1 = 4
      BY SMT
    <3> QED
      BY <1>2, <3>1
  <2> QED
    BY SMT, <1>2, <2>1 DEF DigitsRead
<1>5. \A i \in 1..n : v(i) \in Nat
  <2> TAKE i \in 1..n
  <2> DEFINE x == s[i + 1]
  <2>1. x \in Byte
    BY <1>3
  <2> HIDE DEF x
  <2>2. x % 128 \in Nat
    BY SMT, <2>1 DEF Byte
  <2>3. i \in {1, 2, 3, 4}
    BY SMT, <1>2
  <2>4. Weight[i] \in {1, 128, 16384, 2097152}
    BY SMT, <2>3, Weights
  <2>5. (x % 128) * Weight[i] \in Nat
    BY SMT, <2>2, <2>4
  <2> QED
    BY <2>5 DEF x
<1> DEFINE r == DigitsRead(s)
           digit(i) == IF i <= r THEN v(i) ELSE 0
<1>6. decode_remaining_len(s) = digit(1) + digit(2) + digit(3) + digit(4)
  BY DEF decode_remaining_len
<1> HIDE DEF v, r
<1>7. \A i \in 1..4 : digit(i) \in Nat
  BY SMT, <1>2, <1>4, <1>5 DEF r
<1> HIDE DEF digit
<1>8. decode_remaining_len(s) \in Nat
  BY SMT, <1>6, <1>7
<1>9. DigitsRead(s) \in Nat /\ DigitsRead(s) >= 1
  BY SMT, <1>4
<1> QED
  BY SMT, <1>8, <1>9 DEF FrameLength

-----------------------------------------------------------------------------
(* Packets, one behind the other.                                          *)

Size(p) == Len(ClientBytes(p))

\* e[i] is where the i-th of packets o ends, e[0] where the first begins.
Positions(e, o) ==
  /\ e \in [0..Len(o) -> Nat]
  /\ e[0] = 0
  /\ \A i \in 1..Len(o) : e[i] = e[i - 1] + Size(o[i])
  /\ \A i \in 0..Len(o) : \A k \in i..Len(o) : e[i] <= e[k]

\* As far as s goes, it has the bytes of packets o at these places.
Laid(e, o, s) ==
  \A i \in 1..Len(o) : \A j \in 1..Size(o[i]) :
    e[i - 1] + j <= Len(s) => s[e[i - 1] + j] = ClientBytes(o[i])[j]

\* A packet has two bytes or more.
LEMMA SizeNat ==
  ASSUME NEW p \in Sendable
  PROVE  Size(p) \in Nat /\ Size(p) >= 2
BY SendableBytes DEF Size

\* An element of two sequences, one behind the other.
LEMMA OneBehindOther ==
  ASSUME NEW s \in Seq(Byte), NEW u \in Seq(Byte)
  PROVE  /\ s \o u \in Seq(Byte)
         /\ Len(s) \in Nat /\ Len(u) \in Nat
         /\ Len(s \o u) = Len(s) + Len(u)
         /\ \A k \in Nat : k >= 1 /\ k <= Len(s) => (s \o u)[k] = s[k]
         /\ \A j \in 1..Len(u) : (s \o u)[Len(s) + j] = u[j]
<1> DEFINE m == Len(s)
           n == Len(u)
           c == s \o u
<1>1. m \in Nat /\ n \in Nat
  BY LenProperties
<1>2. /\ c \in Seq(Byte) /\ Len(c) = m + n
      /\ \A i \in 1..(m + n) : c[i] = IF i <= m THEN s[i] ELSE u[i - m]
  BY ConcatProperties
<1> HIDE DEF m, n, c
<1>3. \A k \in Nat : k >= 1 /\ k <= m => c[k] = s[k]
  <2> TAKE k \in Nat
  <2> HAVE k >= 1 /\ k <= m
  <2>1. k \in 1..(m + n)
    BY SMT, <1>1
  <2> QED
    BY <1>2, <2>1
<1>4. \A j \in 1..n : c[m + j] = u[j]
  <2> TAKE j \in 1..n
  <2>1. m + j \in 1..(m + n) /\ ~(m + j <= m) /\ (m + j) - m = j
    BY SMT, <1>1
  <2> QED
    BY <1>2, <2>1
<1> QED
  BY <1>1, <1>2, <1>3, <1>4 DEF m, n, c

\* Bytes of a packet that begins behind all others.
LEMMA BeginLaid ==
  ASSUME NEW o \in Seq(Sendable), NEW p \in Sendable, NEW e, Positions(e, o),
         NEW s \in Seq(Byte), Laid(e, o, s), Len(s) = e[Len(o)],
         NEW u \in Seq(Byte), Len(u) <= Size(p),
         \A j \in 1..Len(u) : u[j] = ClientBytes(p)[j]
  PROVE  \E g : /\ Positions(g, Append(o, p))
                /\ Laid(g, Append(o, p), s \o u)
                /\ g[Len(o) + 1] = e[Len(o)] + Size(p)
                /\ \A i \in 0..Len(o) : g[i] = e[i]
<1> DEFINE n == Len(o)
           q == Append(o, p)
           c == s \o u
           g == [i \in 0..(n + 1) |-> IF i <= n THEN e[i] ELSE e[n] + Size(p)]
<1>1. n \in Nat /\ \A i \in 1..n : o[i] \in Sendable
  BY LenProperties, ElementOfSeq
<1>2. /\ Len(q) = n + 1
      /\ \A i \in 1..n : q[i] = o[i]
      /\ q[n + 1] = p
  BY AppendProperties
<1>3. /\ e \in [0..n -> Nat] /\ e[0] = 0
      /\ \A i \in 1..n : e[i] = e[i - 1] + Size(o[i])
      /\ \A i \in 0..n : \A k \in i..n : e[i] <= e[k]
  BY DEF Positions
<1>4. /\ c \in Seq(Byte)
      /\ Len(s) \in Nat /\ Len(u) \in Nat
      /\ Len(c) = Len(s) + Len(u)
      /\ \A k \in Nat : k >= 1 /\ k <= Len(s) => c[k] = s[k]
      /\ \A j \in 1..Len(u) : c[Len(s) + j] = u[j]
  BY OneBehindOther
<1>5. Size(p) \in Nat /\ \A i \in 1..n : Size(o[i]) \in Nat
  BY <1>1, SizeNat
<1>6. Len(s) = e[n] /\ Len(u) <= Size(p)
  OBVIOUS
<1>7. \A i \in 1..n : \A j \in 1..Size(o[i]) :
        e[i - 1] + j <= Len(s) => s[e[i - 1] + j] = ClientBytes(o[i])[j]
  BY DEF Laid
<1>8. \A j \in 1..Len(u) : u[j] = ClientBytes(p)[j]
  OBVIOUS
<1> HIDE DEF n, q, c
<1>9. /\ g \in [0..(n + 1) -> Nat]
      /\ \A i \in 0..n : g[i] = e[i]
      /\ g[n + 1] = e[n] + Size(p)
  <2>1. \A i \in 0..n : i \in 0..(n + 1) /\ i <= n /\ e[i] \in Nat
    BY <1>1, <1>3
  <2>2. n + 1 \in 0..(n + 1) /\ ~(n + 1 <= n) /\ n \in 0..n
    BY SMT, <1>1
  <2>3. e[n] + Size(p) \in Nat
    <3>1. e[n] \in Nat
      BY <2>1, <2>2
    <3> QED
      BY <1>5, <3>1
  <2>4. \A i \in 0..(n + 1) : i <= n => i \in 0..n
    BY SMT, <1>1
  <2> QED
    BY <2>1, <2>2, <2>3, <2>4
<1> HIDE DEF g
<1>10. Positions(g, q)
  <2>1. g[0] = 0
    BY <1>1, <1>3, <1>9
  <2>2. ASSUME NEW i \in 1..(n + 1)
        PROVE  g[i] = g[i - 1] + Size(q[i])
    <3>1. CASE i \in 1..n
      <4>1. i \in 0..n /\ i - 1 \in 0..n
        BY SMT, <1>1, <3>1
      <4> QED
        BY <1>2, <1>3, <1>9, <3>1, <4>1
    <3>2. CASE i = n + 1
      <4>1. i - 1 = n /\ n \in 0..n
        BY SMT, <1>1, <3>2
      <4> QED
        BY <1>2, <1>9, <3>2, <4>1
    <3> QED
      BY SMT, <1>1, <3>1, <3>2
  <2>3. ASSUME NEW i \in 0..(n + 1), NEW k \in i..(n + 1)
        PROVE  g[i] <= g[k]
    <3>0. n \in 0..n /\ \A x \in 0..(n + 1) : x \in Nat
      BY SMT, <1>1
    <3>1. CASE k \in 0..n
      <4>1. i \in 0..n /\ k \in i..n
        BY SMT, <1>1, <3>1
      <4>2. g[i] = e[i] /\ g[k] = e[k] /\ e[i] <= e[k]
        BY <1>3, <1>9, <3>1, <4>1
      <4> QED
        BY <4>2
    <3>2. CASE k = n + 1 /\ i \in 0..n
      <4>1. n \in i..n
        BY SMT, <1>1, <3>2
      <4>2. g[i] = e[i] /\ e[i] <= e[n] /\ e[i] \in Nat /\ e[n] \in Nat
        BY <1>3, <1>9, <3>0, <3>2, <4>1
      <4>3. e[i] <= e[n] + Size(p)
        BY SMT, <1>5, <4>2
      <4> QED
        BY <1>9, <3>2, <4>2, <4>3
    <3>3. CASE k = n + 1 /\ i = n + 1
      <4>1. n + 1 \in 0..(n + 1)
        BY SMT, <1>1
      <4>2. g[n + 1] \in Nat
        BY <1>9, <4>1
      <4>3. g[n + 1] <= g[n + 1]
        BY SMT, <4>2
      <4> QED
        BY <3>3, <4>3
    <3> QED
      BY SMT, <1>1, <3>1, <3>2, <3>3
  <2> QED
    BY <1>2, <1>9, <2>1, <2>2, <2>3 DEF Positions
<1>11. Laid(g, q, c)
  <2> SUFFICES ASSUME NEW i \in 1..(n + 1), NEW j \in 1..Size(q[i]),
                      g[i - 1] + j <= Len(c)
               PROVE  c[g[i - 1] + j] = ClientBytes(q[i])[j]
    BY <1>2 DEF Laid
  <2>1. CASE i \in 1..n
    <3>1. i \in 0..n /\ i - 1 \in 0..n /\ n \in 0..n
      BY SMT, <1>1, <2>1
    <3>2. q[i] = o[i] /\ g[i - 1] = e[i - 1] /\ e[i - 1] \in Nat /\ e[i] \in Nat
          /\ e[n] \in Nat
      BY <1>2, <1>3, <1>9, <2>1, <3>1
    <3>3. e[i] = e[i - 1] + Size(o[i]) /\ e[i] <= e[n] /\ Size(o[i]) \in Nat
      <4>1. n \in i..n
        BY SMT, <1>1, <2>1
      <4> QED
        BY <1>3, <1>5, <2>1, <3>1, <4>1
    <3>4. j \in 1..Size(o[i])
      BY <3>2
    <3>5. e[i - 1] + j \in Nat /\ e[i - 1] + j >= 1 /\ e[i - 1] + j <= e[n]
      <4> DEFINE a == e[i - 1]
                 b == e[i]
                 m == e[n]
                 w == Size(o[i])
      <4>1. a \in Nat /\ b \in Nat /\ m \in Nat /\ w \in Nat /\ b = a + w /\ b <= m /\ j \in 1..w
        BY <3>2, <3>3, <3>4
      <4> HIDE DEF a, b, m, w
      <4>2. a + j \in Nat /\ a + j >= 1 /\ a + j <= m
        BY SMT, <4>1
      <4> QED
        BY <4>2 DEF a, m
    <3>6. s[e[i - 1] + j] = ClientBytes(o[i])[j]
      BY <1>6, <1>7, <2>1, <3>4, <3>5
    <3>7. c[e[i - 1] + j] = s[e[i - 1] + j]
      BY <1>4, <1>6, <3>5
    <3> QED
      BY <3>2, <3>6, <3>7
  <2>2. CASE i = n + 1
    <3>1. i - 1 = n /\ n \in 0..n
      BY SMT, <1>1, <2>2
    <3>2. g[i - 1] = Len(s) /\ q[i] = p
      BY <1>2, <1>6, <1>9, <2>2, <3>1
    <3>3. j \in 1..Size(p) /\ Len(s) + j <= Len(s) + Len(u)
      BY <1>4, <3>2
    <3>4. j \in 1..Len(u)
      BY SMT, <1>4, <1>5, <3>3
    <3> QED
      BY <1>4, <1>8, <3>2, <3>4
  <2> QED
    BY SMT, <1>1, <2>1, <2>2
<1> QED
  BY <1>9, <1>10, <1>11 DEF n, q, c

\* Bytes of the packet that has begun last, of which r are not laid yet.
LEMMA GoOnLaid ==
  ASSUME NEW o \in Seq(Sendable), NEW e, Positions(e, o),
         NEW s \in Seq(Byte), Laid(e, o, s),
         NEW r \in Nat, Len(o) > 0, r <= Size(o[Len(o)]), Len(s) + r = e[Len(o)],
         NEW u \in Seq(Byte), Len(u) <= r,
         \A j \in 1..Len(u) : u[j] = ClientBytes(o[Len(o)])[(Size(o[Len(o)]) - r) + j]
  PROVE  Laid(e, o, s \o u)
<1> DEFINE n == Len(o)
           z == Size(o[n])
           c == s \o u
<1>1. n \in Nat /\ \A i \in 1..n : o[i] \in Sendable
  BY LenProperties, ElementOfSeq
<1>2. /\ e \in [0..n -> Nat]
      /\ \A i \in 1..n : e[i] = e[i - 1] + Size(o[i])
      /\ \A i \in 0..n : \A k \in i..n : e[i] <= e[k]
  BY DEF Positions
<1>3. /\ c \in Seq(Byte)
      /\ Len(s) \in Nat /\ Len(u) \in Nat
      /\ Len(c) = Len(s) + Len(u)
      /\ \A k \in Nat : k >= 1 /\ k <= Len(s) => c[k] = s[k]
      /\ \A j \in 1..Len(u) : c[Len(s) + j] = u[j]
  BY OneBehindOther
<1>4. \A i \in 1..n : Size(o[i]) \in Nat
  BY <1>1, SizeNat
<1>5. n > 0 /\ r <= z /\ Len(s) + r = e[n] /\ Len(u) <= r
  OBVIOUS
<1>6. \A i \in 1..n : \A j \in 1..Size(o[i]) :
        e[i - 1] + j <= Len(s) => s[e[i - 1] + j] = ClientBytes(o[i])[j]
  BY DEF Laid
<1>7. \A j \in 1..Len(u) : u[j] = ClientBytes(o[n])[(z - r) + j]
  OBVIOUS
<1> HIDE DEF n, z, c
<1> SUFFICES ASSUME NEW i \in 1..n, NEW j \in 1..Size(o[i]), e[i - 1] + j <= Len(c)
             PROVE  c[e[i - 1] + j] = ClientBytes(o[i])[j]
  BY DEF Laid, c, n
<1>8. i \in 0..n /\ i - 1 \in 0..n /\ n \in 0..n /\ n \in 1..n /\ n - 1 \in 0..n
  BY SMT, <1>1, <1>5
<1> DEFINE a == e[i - 1]
           b == e[i]
           x == e[n - 1]
           y == e[n]
           w == Size(o[i])
           l == Len(s)
           v == Len(u)
<1>9. /\ a \in Nat /\ b \in Nat /\ x \in Nat /\ y \in Nat /\ w \in Nat /\ z \in Nat
      /\ b = a + w /\ y = x + z
      /\ l \in Nat /\ v \in Nat /\ l + r = y /\ r <= z /\ v <= r
      /\ j \in 1..w /\ a + j <= l + v
  <2>1. /\ a \in Nat /\ b \in Nat /\ x \in Nat /\ y \in Nat /\ w \in Nat /\ z \in Nat
        /\ b = a + w /\ y = x + z
    BY <1>2, <1>4, <1>8 DEF z
  <2> QED
    BY <1>3, <1>5, <2>1
<1>10. CASE a + j <= l
  <2> HIDE DEF a, w, l, b, x, y, v
  <2>1. a + j \in Nat /\ a + j >= 1
    BY SMT, <1>9
  <2> QED
    BY <1>3, <1>6, <1>10, <2>1 DEF a, l
<1>11. CASE ~(a + j <= l)
  <2> DEFINE k == (a + j) - l
  <2>1. b <= x \/ i = n
    <3>1. CASE i < n
      <4>1. n - 1 \in i..n
        BY SMT, <1>1, <3>1
      <4> QED
        BY <1>2, <1>8, <4>1
    <3> QED
      BY SMT, <1>1, <3>1
  <2>2. i = n => a = x /\ w = z
    BY DEF z
  <2> HIDE DEF a, w, l, b, x, y, v
  <2>3. ~(b <= x)
    BY SMT, <1>9, <1>11
  <2>4. i = n
    BY <2>1, <2>3
  <2>5. k \in 1..v /\ l + k = a + j /\ (z - r) + k = j
    BY SMT, <1>9, <1>11, <2>2, <2>4
  <2> HIDE DEF k
  <2>6. u[k] = ClientBytes(o[n])[j]
    BY <1>7, <2>5 DEF v
  <2>7. c[l + k] = u[k]
    BY <1>3, <2>5 DEF l, v
  <2>8. c[a + j] = ClientBytes(o[i])[j]
    BY <2>4, <2>5, <2>6, <2>7
  <2> QED
    BY <2>8 DEF a
<1> QED
  BY <1>10, <1>11

-----------------------------------------------------------------------------
(* The steps.                                                              *)

\* The bytes the kernel has taken.
Sent == received \o buffer

\* The constants and the packets of the threads.
LEMMA Bounds ==
  ASSUME TypeOK
  PROVE  /\ MaxRequests \in Nat /\ MaxPings \in Nat /\ Room \in Nat /\ Room > 0
         /\ calls["app"] \in Nat /\ calls["keep_alive"] \in Nat
         /\ order \in Seq(Sendable)
         /\ received \in Seq(Byte) /\ buffer \in Seq(Byte)
         /\ Len(received) \in Nat /\ Len(buffer) \in Nat /\ Len(buffer) <= Room
         /\ \A t \in Threads : /\ packet[t] \in Sendable /\ unsent[t] \in Seq(Byte)
                               /\ Len(unsent[t]) \in Nat
<1>1. /\ calls \in [Threads -> Nat]
      /\ packet \in [Threads -> Sendable]
      /\ unsent \in [Threads -> Seq(Byte)]
      /\ order \in Seq(Sendable)
      /\ buffer \in Seq(Byte) /\ Len(buffer) <= Room
      /\ received \in Seq(Byte)
  BY DEF TypeOK, Sendable
<1>2. "app" \in Threads /\ "keep_alive" \in Threads
  BY DEF Threads
<1>3. Room \in Nat /\ Room > 0 /\ MaxRequests \in Nat /\ MaxPings \in Nat
  BY SMT, UplinkAssumption
<1> QED
  BY <1>1, <1>2, <1>3, LenProperties

\* What Write moves from a call to the kernel, and what it leaves.
LEMMA WriteParts ==
  ASSUME TypeOK, NEW t \in Threads, Write(t)
  PROVE  LET f == Fitting(t)
             u == SubSeq(unsent[t], 1, f)
         IN  /\ f \in 1..Len(unsent[t]) /\ Len(buffer) + f <= Room
             /\ u \in Seq(Byte) /\ Len(u) = f
             /\ \A j \in 1..f : u[j] = unsent[t][j]
             /\ buffer' = buffer \o u
             /\ unsent' \in [Threads -> Seq(Byte)]
             /\ Len(unsent'[t]) = Len(unsent[t]) - f
             /\ \A j \in 1..(Len(unsent[t]) - f) : unsent'[t][j] = unsent[t][f + j]
             /\ \A o \in Threads : o # t => unsent'[o] = unsent[o]
<1> DEFINE s == unsent[t]
           n == Len(s)
           f == Fitting(t)
           u == SubSeq(s, 1, f)
           v == SubSeq(s, f + 1, n)
           m == Len(buffer)
<1>1. s \in Seq(Byte) /\ n \in Nat /\ m \in Nat /\ Room \in Nat
  BY Bounds
<1>2. s # <<>> /\ f > 0
  BY DEF Write
<1>3. f = IF n < Room - m THEN n ELSE Room - m
  BY DEF Fitting
<1>4. /\ buffer' = buffer \o u
      /\ unsent' = [unsent EXCEPT ![t] = v]
  BY DEF Write, Kept, Drop
<1>5. unsent \in [Threads -> Seq(Byte)]
  BY DEF TypeOK
<1> HIDE DEF s, n, f, m
<1>6. f \in 1..n /\ m + f <= Room /\ f \in Nat
  BY SMT, <1>1, <1>2, <1>3
<1>7. u \in Seq(Byte) /\ Len(u) = f /\ \A j \in 1..f : u[j] = s[j]
  <2>1. 1 \in Nat /\ 1 <= 1 /\ 1 <= f + 1 /\ f <= n
    BY SMT, <1>6
  <2>2. /\ u \in Seq(Byte) /\ Len(u) = f - 1 + 1
        /\ \A j \in 1..(f - 1 + 1) : u[j] = s[1 + j - 1]
    BY <1>1, <1>6, <2>1, PartOfSeq DEF n
  <2> HIDE DEF u
  <2>3. f - 1 + 1 = f /\ \A j \in 1..f : 1 + j - 1 = j
    BY SMT, <1>6
  <2> QED
    BY <2>2, <2>3
<1>8. v \in Seq(Byte) /\ Len(v) = n - f /\ \A j \in 1..(n - f) : v[j] = s[f + j]
  <2>1. f + 1 \in Nat /\ 1 <= f + 1 /\ f + 1 <= n + 1 /\ n <= n
    BY SMT, <1>1, <1>6
  <2>2. /\ v \in Seq(Byte) /\ Len(v) = n - (f + 1) + 1
        /\ \A j \in 1..(n - (f + 1) + 1) : v[j] = s[(f + 1) + j - 1]
    BY <1>1, <2>1, PartOfSeq DEF n
  <2> HIDE DEF v
  <2>3. n - (f + 1) + 1 = n - f /\ \A j \in 1..(n - f) : (f + 1) + j - 1 = f + j
    BY SMT, <1>1, <1>6
  <2> QED
    BY <2>2, <2>3
<1> HIDE DEF u, v
<1>9. /\ unsent' \in [Threads -> Seq(Byte)]
      /\ unsent'[t] = v
      /\ \A o \in Threads : o # t => unsent'[o] = unsent[o]
  BY <1>4, <1>5, <1>8
<1> QED
  BY <1>4, <1>6, <1>7, <1>8, <1>9 DEF s, n, f, m, u

\* What Write leaves of what the kernel has: it puts bytes behind it.
LEMMA WriteSent ==
  ASSUME TypeOK, NEW t \in Threads, Write(t)
  PROVE  Sent' = Sent \o SubSeq(unsent[t], 1, Fitting(t))
<1> DEFINE u == SubSeq(unsent[t], 1, Fitting(t))
<1>1. u \in Seq(Byte) /\ buffer' = buffer \o u
  BY WriteParts
<1>2. received' = received
  BY DEF Write
<1> HIDE DEF u
<1>3. received \in Seq(Byte) /\ buffer \in Seq(Byte)
  BY Bounds
<1>4. (received \o buffer) \o u = received \o (buffer \o u)
  BY <1>1, <1>3, BytesAssociative
<1> QED
  BY <1>1, <1>2, <1>4 DEF Sent, u

-----------------------------------------------------------------------------
(* Types.                                                                  *)

\* The types hold at the start.
LEMMA InitTyped == Init => TypeOK
<1> SUFFICES ASSUME Init PROVE TypeOK
  OBVIOUS
<1>1. /\ calls = [t \in Threads |-> 0]
      /\ packet = [t \in Threads |-> Pingreq]
      /\ unsent = [t \in Threads |-> <<>>]
      /\ order = <<>> /\ buffer = <<>> /\ received = <<>>
      /\ parsed = 0 /\ frames = <<>> /\ split = FALSE
  BY DEF Init
<1>2. calls \in [Threads -> Nat]
  BY <1>1
<1>3. packet \in [Threads -> Requests \cup {Pingreq}]
  BY <1>1
<1>4. unsent \in [Threads -> Seq(Byte)] /\ buffer \in Seq(Byte) /\ received \in Seq(Byte)
  BY <1>1, EmptySeq
<1>5. order \in Seq(Requests \cup {Pingreq}) /\ frames \in Seq(Seq(Byte))
  BY <1>1, EmptySeq
<1>6. Len(buffer) <= Room /\ parsed \in 0..Len(received)
  <2>1. Room \in Nat
    BY UplinkAssumption
  <2> QED
    BY SMT, <1>1, <2>1
<1> QED
  BY <1>1, <1>2, <1>3, <1>4, <1>5, <1>6 DEF TypeOK

\* A call keeps the types.
LEMMA CallTyped ==
  ASSUME TypeOK, NEW t \in Threads, NEW p \in Sendable, Call(t, p)
  PROVE  TypeOK'
<1>1. /\ calls' = [calls EXCEPT ![t] = @ + 1]
      /\ packet' = [packet EXCEPT ![t] = p]
      /\ unsent' = [unsent EXCEPT ![t] = ClientBytes(p)]
      /\ UNCHANGED <<order, buffer, received, parsed, frames, split>>
  BY DEF Call
<1>2. ClientBytes(p) \in Seq(Byte)
  BY SendableBytes
<1>3. calls' \in [Threads -> Nat]
  BY SMT, <1>1 DEF TypeOK
<1>4. packet' \in [Threads -> Requests \cup {Pingreq}]
  BY <1>1 DEF TypeOK, Sendable
<1>5. unsent' \in [Threads -> Seq(Byte)]
  BY <1>1, <1>2 DEF TypeOK
<1> QED
  BY <1>1, <1>3, <1>4, <1>5 DEF TypeOK

\* The kernel takes no more than there is room for.
LEMMA WriteTyped ==
  ASSUME TypeOK, NEW t \in Threads, Write(t)
  PROVE  TypeOK'
<1> DEFINE f == Fitting(t)
           u == SubSeq(unsent[t], 1, f)
<1>1. /\ f \in 1..Len(unsent[t]) /\ Len(buffer) + f <= Room
      /\ u \in Seq(Byte) /\ Len(u) = f
      /\ buffer' = buffer \o u
      /\ unsent' \in [Threads -> Seq(Byte)]
  BY WriteParts
<1>2. /\ order' = IF Begun(t) THEN order ELSE Append(order, packet[t])
      /\ split' = (split \/ Midway(Other(t)))
      /\ UNCHANGED <<calls, packet, received, parsed, frames>>
  BY DEF Write
<1> HIDE DEF f, u
<1>3. buffer' \in Seq(Byte) /\ Len(buffer') <= Room
  <2>1. buffer \in Seq(Byte)
    BY Bounds
  <2>2. buffer \o u \in Seq(Byte) /\ Len(buffer \o u) = Len(buffer) + Len(u)
    BY <1>1, <2>1, ConcatProperties
  <2> QED
    BY <1>1, <2>2
<1>4. order' \in Seq(Requests \cup {Pingreq})
  <2>1. order \in Seq(Requests \cup {Pingreq}) /\ packet[t] \in Requests \cup {Pingreq}
    BY DEF TypeOK
  <2> QED
    BY <1>2, <2>1, AppendProperties
<1>5. split' \in BOOLEAN
  BY Zenon, <1>2 DEF TypeOK, Midway
<1> QED
  BY <1>1, <1>2, <1>3, <1>4, <1>5 DEF TypeOK

\* The broker's read keeps the types.
LEMMA ReadsTyped ==
  ASSUME TypeOK, Reads
  PROVE  TypeOK' /\ Sent' = Sent
<1>1. /\ received' = received \o buffer
      /\ buffer' = <<>>
      /\ UNCHANGED <<calls, packet, unsent, order, parsed, frames, split>>
  BY DEF Reads
<1>2. received \in Seq(Byte) /\ buffer \in Seq(Byte) /\ Room \in Nat
  BY Bounds
<1>3. /\ received' \in Seq(Byte)
      /\ Len(received') = Len(received) + Len(buffer)
      /\ Len(received) \in Nat /\ Len(buffer) \in Nat
  BY <1>1, <1>2, ConcatProperties, LenProperties
<1>4. parsed \in 0..Len(received)
  BY DEF TypeOK
<1>5. parsed' \in 0..Len(received')
  <2> DEFINE m == Len(received)
             n == Len(buffer)
             l == Len(received')
  <2>1. parsed' \in 0..m /\ m \in Nat /\ n \in Nat /\ l = m + n
    BY <1>1, <1>3, <1>4
  <2> HIDE DEF m, n, l
  <2>2. parsed' \in 0..l
    BY SMT, <2>1
  <2> QED
    BY <2>2 DEF l
<1>6. buffer' \in Seq(Byte) /\ Len(buffer') <= Room
  BY <1>1, <1>2, EmptySeq
<1>7. Sent' = Sent
  <2>1. received \o buffer \in Seq(Byte)
    BY <1>2, ConcatProperties
  <2>2. (received \o buffer) \o <<>> = received \o buffer
    BY <2>1, ConcatEmptySeq
  <2> QED
    BY <1>1, <2>2 DEF Sent
<1> QED
  BY <1>1, <1>3, <1>5, <1>6, <1>7 DEF TypeOK

\* What Parse takes off the bytes that the broker has read.
LEMMA UnparsedBytes ==
  ASSUME TypeOK
  PROVE  /\ Unparsed \in Seq(Byte)
         /\ parsed \in Nat /\ Len(received) \in Nat /\ parsed <= Len(received)
         /\ Len(Unparsed) = Len(received) - parsed
         /\ \A j \in 1..(Len(received) - parsed) : Unparsed[j] = received[parsed + j]
<1> DEFINE n == Len(received)
<1>1. received \in Seq(Byte) /\ n \in Nat
  BY Bounds
<1>2. parsed \in 0..n
  BY DEF TypeOK
<1>3. Unparsed = SubSeq(received, parsed + 1, n)
  BY DEF Unparsed, Drop
<1>4. n <= Len(received)
  BY <1>1
<1> HIDE DEF n
<1>5. parsed \in Nat /\ parsed <= n /\ parsed + 1 \in Nat /\ 1 <= parsed + 1 /\ parsed + 1 <= n + 1
  BY SMT, <1>1, <1>2
<1> DEFINE v == SubSeq(received, parsed + 1, n)
<1>6. /\ v \in Seq(Byte) /\ Len(v) = n - (parsed + 1) + 1
      /\ \A j \in 1..(n - (parsed + 1) + 1) : v[j] = received[(parsed + 1) + j - 1]
  BY <1>1, <1>4, <1>5, PartOfSeq
<1> HIDE DEF v
<1>7. /\ n - (parsed + 1) + 1 = n - parsed
      /\ \A j \in 1..(n - parsed) : (parsed + 1) + j - 1 = parsed + j
  BY SMT, <1>1, <1>5
<1> QED
  BY <1>1, <1>3, <1>5, <1>6, <1>7 DEF n, v

\* So does Parse: what it takes off is there.
LEMMA ParseTyped ==
  ASSUME TypeOK, Parse
  PROVE  TypeOK'
<1> DEFINE s == Unparsed
           l == FrameLength(s)
           c == SubSeq(s, 1, l)
           n == Len(s)
           m == Len(received)
<1>1. /\ HeaderIn(s) /\ l <= n
      /\ frames' = Append(frames, c)
      /\ parsed' = parsed + l
      /\ UNCHANGED <<calls, packet, unsent, order, buffer, received, split>>
  BY DEF Parse, FrameIn
<1>2. s \in Seq(Byte) /\ m \in Nat /\ parsed \in Nat /\ parsed <= m /\ n = m - parsed
  BY UnparsedBytes
<1> HIDE DEF s
<1>3. l \in Nat /\ l >= 2
  BY <1>1, <1>2, FrameInside
<1>4. n \in Nat /\ n <= Len(s)
  BY <1>2, LenProperties
<1> HIDE DEF l, n, m
<1>5. c \in Seq(Byte)
  <2>1. 1 \in Nat /\ 1 <= 1 /\ 1 <= l + 1
    BY SMT, <1>3
  <2>2. l <= Len(s)
    BY <1>1 DEF n
  <2> QED
    BY <1>2, <1>3, <2>1, <2>2, PartOfSeq
<1> HIDE DEF c
<1>6. parsed' \in 0..m
  BY SMT, <1>1, <1>2, <1>3, <1>4
<1>7. frames' \in Seq(Seq(Byte))
  <2> DEFINE S == Seq(Byte)
  <2>1. frames \in Seq(S) /\ c \in S
    BY <1>5 DEF TypeOK
  <2> HIDE DEF S
  <2>2. Append(frames, c) \in Seq(S)
    BY <2>1, AppendProperties
  <2> QED
    BY <1>1, <2>2 DEF S
<1> QED
  BY <1>1, <1>6, <1>7 DEF TypeOK, m

\* Every step keeps the types.
LEMMA NextTyped ==
  ASSUME TypeOK, [Next]_vars
  PROVE  TypeOK'
<1>1. CASE CallApp
  BY <1>1, CallTyped DEF CallApp, Sendable, Threads
<1>2. CASE Ping
  BY <1>2, CallTyped DEF Ping, Sendable, Threads
<1>3. CASE \E t \in Threads : Write(t)
  BY <1>3, WriteTyped
<1>4. CASE Reads
  BY <1>4, ReadsTyped
<1>5. CASE Parse
  BY <1>5, ParseTyped
<1>6. CASE UNCHANGED vars
  BY <1>6 DEF vars, TypeOK
<1> QED
  BY <1>1, <1>2, <1>3, <1>4, <1>5, <1>6 DEF Next

\* Every variable keeps its type, and the kernel never has more than Room bytes,
\* whatever is sent.
THEOREM UplinkTypeCorrect == Spec => []TypeOK
<1>1. Init => TypeOK
  BY InitTyped
<1>2. TypeOK /\ [Next]_vars => TypeOK'
  BY NextTyped
<1> QED
  BY <1>1, <1>2, PTL DEF Spec

\* The classes' unboxing gives back every packet in the hands of a thread.
THEOREM ThreadsPacketsUnboxed == Spec => []UnboxingInverts
<1>1. TypeOK => UnboxingInverts
  <2> SUFFICES ASSUME TypeOK, NEW t \in Threads, packet[t].type # PUBLISH,
                      Erasable(Len(ClientBody(packet[t])))
               PROVE  unboxing(ClientBytes(packet[t])) = packet[t]
    BY DEF UnboxingInverts, Erasable
  <2>1. packet[t] \in ClientPacket
    BY Bounds, SendableBytes
  <2> QED
    BY <2>1, UnboxingRoundTrip
<1> QED
  BY <1>1, UplinkTypeCorrect, PTL

-----------------------------------------------------------------------------
(* The inductive invariant.                                                *)

\* What a thread still has to hand over is the end of its packet.
Ends ==
  \A t \in Threads :
    /\ Len(unsent[t]) <= Size(packet[t])
    /\ \A j \in 1..Len(unsent[t]) :
         unsent[t][j] = ClientBytes(packet[t])[(Size(packet[t]) - Len(unsent[t])) + j]

\* Thread t has a packet that it has not begun.
Waits(t) == unsent[t] # <<>> /\ ~Begun(t)
Waiting(t) == IF Waits(t) THEN 1 ELSE 0

\* Each call has begun its packet, or is about to.
Counted ==
  Len(order) + Waiting("app") + Waiting("keep_alive") = calls["app"] + calls["keep_alive"]

\* The bytes of a packet begun that the kernel does not have.
Missing(t) == IF Midway(t) THEN Len(unsent[t]) ELSE 0

\* The kernel has the packets begun, but for the end of the last if a thread is in
\* the middle of it.
Whole(e) ==
  /\ Positions(e, order)
  /\ Laid(e, order, Sent)
  /\ ~(Midway("app") /\ Midway("keep_alive"))
  /\ Len(Sent) + Missing("app") + Missing("keep_alive") = e[Len(order)]
  /\ \A t \in Threads : Midway(t) => Len(order) > 0 /\ packet[t] = order[Len(order)]

\* The broker has made out the first of them.
Made(e) ==
  /\ Len(frames) <= Len(order)
  /\ parsed = e[Len(frames)]
  /\ \A i \in 1..Len(frames) : frames[i] = ClientBytes(order[i])

Streams == ~split => \E e : Whole(e) /\ Made(e)

\* An inductive invariant.
UplinkInv == TypeOK /\ Ends /\ Counted /\ Streams

-----------------------------------------------------------------------------
(* Where the threads are in their packets.                                 *)

\* Each thread is the other one's other.
LEMMA TwoThreads ==
  /\ Threads = {"app", "keep_alive"} /\ "app" # "keep_alive"
  /\ \A t \in Threads : Other(t) \in Threads /\ Other(t) # t /\ Threads = {t, Other(t)}
BY DEF Threads, Other

\* Where a thread is in its packet.
LEMMA Places ==
  ASSUME TypeOK, NEW t \in Threads
  PROVE  /\ Size(packet[t]) \in Nat /\ Size(packet[t]) >= 2 /\ Len(unsent[t]) \in Nat
         /\ Begun(t) <=> Len(unsent[t]) < Size(packet[t])
         /\ unsent[t] = <<>> <=> Len(unsent[t]) = 0
         /\ Midway(t) <=> Len(unsent[t]) > 0 /\ Len(unsent[t]) < Size(packet[t])
         /\ Waits(t) <=> Len(unsent[t]) > 0 /\ ~(Len(unsent[t]) < Size(packet[t]))
<1>1. packet[t] \in Sendable /\ unsent[t] \in Seq(Byte) /\ Len(unsent[t]) \in Nat
  BY Bounds
<1>2. Size(packet[t]) \in Nat /\ Size(packet[t]) >= 2
  BY <1>1, SizeNat
<1>3. unsent[t] = <<>> <=> Len(unsent[t]) = 0
  BY <1>1, EmptySeq
<1>4. Begun(t) <=> Len(unsent[t]) < Size(packet[t])
  BY DEF Begun, Size
<1> DEFINE n == Len(unsent[t])
<1>5. ~(n = 0) <=> n > 0
  <2>1. n \in Nat
    BY <1>1
  <2> HIDE DEF n
  <2> QED
    BY SMT, <2>1
<1> QED
  BY <1>1, <1>2, <1>3, <1>4, <1>5 DEF Midway, Waits

\* What a call changes: t was between two packets, and has a new one before it.
LEMMA CallPlaces ==
  ASSUME TypeOK, NEW t \in Threads, NEW p \in Sendable, Call(t, p)
  PROVE  /\ unsent'[t] = ClientBytes(p) /\ packet'[t] = p
         /\ \A o \in Threads : o # t => unsent'[o] = unsent[o] /\ packet'[o] = packet[o]
         /\ calls'[t] = calls[t] + 1
         /\ \A o \in Threads : o # t => calls'[o] = calls[o]
         /\ ~Waits(t) /\ Waits(t)' /\ ~Midway(t) /\ ~Midway(t)'
         /\ \A o \in Threads : o # t => /\ Waits(o)' <=> Waits(o)
                                        /\ Midway(o)' <=> Midway(o)
<1>1. /\ unsent[t] = <<>>
      /\ calls' = [calls EXCEPT ![t] = @ + 1]
      /\ packet' = [packet EXCEPT ![t] = p]
      /\ unsent' = [unsent EXCEPT ![t] = ClientBytes(p)]
  BY DEF Call
<1>2. calls \in [Threads -> Nat] /\ DOMAIN packet = Threads /\ DOMAIN unsent = Threads
  BY DEF TypeOK
<1>3. /\ unsent'[t] = ClientBytes(p) /\ packet'[t] = p
      /\ \A o \in Threads : o # t => unsent'[o] = unsent[o] /\ packet'[o] = packet[o]
  BY <1>1, <1>2
<1>4. /\ calls'[t] = calls[t] + 1
      /\ \A o \in Threads : o # t => calls'[o] = calls[o]
  BY <1>1, <1>2
<1>5. ~Waits(t) /\ ~Midway(t)
  BY <1>1 DEF Waits, Midway
<1>6. Waits(t)' /\ ~Midway(t)'
  <2>1. ClientBytes(p) # <<>>
    BY SendableBytes, EmptySeq
  <2>2. ~(Size(p) < Size(p))
    <3> DEFINE z == Size(p)
    <3>1. z \in Nat
      BY SizeNat
    <3> HIDE DEF z
    <3>2. ~(z < z)
      BY SMT, <3>1
    <3> QED
      BY <3>2 DEF z
  <2> QED
    BY <1>3, <2>1, <2>2 DEF Waits, Midway, Begun, Size
<1>7. \A o \in Threads : o # t => /\ Waits(o)' <=> Waits(o)
                                  /\ Midway(o)' <=> Midway(o)
  BY <1>3 DEF Waits, Midway, Begun
<1> QED
  BY <1>3, <1>4, <1>5, <1>6, <1>7

\* What Write changes: t has begun, and has less to hand over.
LEMMA WritePlaces ==
  ASSUME TypeOK, Ends, NEW t \in Threads, Write(t)
  PROVE  /\ packet' = packet
         /\ Fitting(t) \in 1..Len(unsent[t])
         /\ Len(unsent'[t]) = Len(unsent[t]) - Fitting(t)
         /\ ~Waits(t)'
         /\ Midway(t)' <=> Len(unsent[t]) - Fitting(t) > 0
         /\ \A o \in Threads : o # t => /\ unsent'[o] = unsent[o]
                                        /\ Waits(o)' <=> Waits(o)
                                        /\ Midway(o)' <=> Midway(o)
<1>1. packet' = packet
  BY DEF Write
<1>2. /\ Fitting(t) \in 1..Len(unsent[t])
      /\ Len(unsent'[t]) = Len(unsent[t]) - Fitting(t)
      /\ \A o \in Threads : o # t => unsent'[o] = unsent[o]
  BY WriteParts
<1>3. TypeOK'
  BY WriteTyped
<1> DEFINE n == Len(unsent[t])
           m == Len(unsent'[t])
           f == Fitting(t)
           z == Size(packet[t])
<1>4. n \in Nat /\ z \in Nat /\ n <= z
  BY Places DEF Ends
<1>5. m = n - f /\ f \in 1..n
  BY <1>2
<1>6. Size(packet'[t]) = z
  BY <1>1
<1>7. /\ Midway(t)' <=> m > 0 /\ m < z
      /\ Waits(t)' <=> m > 0 /\ ~(m < z)
  <2>1. /\ (Midway(t) <=> Len(unsent[t]) > 0 /\ Len(unsent[t]) < Size(packet[t]))'
        /\ (Waits(t) <=> Len(unsent[t]) > 0 /\ ~(Len(unsent[t]) < Size(packet[t])))'
    BY <1>3, Places, PTL
  <2> QED
    BY <1>6, <2>1
<1>8. \A o \in Threads : o # t => /\ Waits(o)' <=> Waits(o)
                                  /\ Midway(o)' <=> Midway(o)
  BY <1>1, <1>2 DEF Waits, Midway, Begun
<1> HIDE DEF n, m, f, z
<1>9. m < z
  BY SMT, <1>4, <1>5
<1> QED
  BY <1>1, <1>2, <1>5, <1>7, <1>8, <1>9 DEF n, m, f

-----------------------------------------------------------------------------
(* Ends.                                                                   *)

\* Every step leaves a thread with the end of its packet.
LEMMA EndsStep ==
  ASSUME TypeOK, Ends, [Next]_vars
  PROVE  Ends'
<1>1. ASSUME NEW t \in Threads, NEW p \in Sendable, Call(t, p)
      PROVE  Ends'
  <2>1. /\ unsent'[t] = ClientBytes(p) /\ packet'[t] = p
        /\ \A o \in Threads : o # t => unsent'[o] = unsent[o] /\ packet'[o] = packet[o]
    BY <1>1, CallPlaces
  <2>2. /\ Size(p) \in Nat /\ Size(p) = Len(ClientBytes(p))
    BY SizeNat DEF Size
  <2> DEFINE z == Size(p)
             b == ClientBytes(p)
  <2>3. Len(b) <= z /\ \A j \in 1..Len(b) : b[j] = b[(z - Len(b)) + j]
    <3>1. z \in Nat /\ Len(b) = z
      BY <2>2
    <3> HIDE DEF z, b
    <3>2. z <= z /\ \A j \in 1..z : (z - z) + j = j
      BY SMT, <3>1
    <3> QED
      BY <3>1, <3>2
  <2> QED
    BY <2>1, <2>3 DEF Ends
<1>2. ASSUME NEW t \in Threads, Write(t)
      PROVE  Ends'
  <2> DEFINE f == Fitting(t)
             n == Len(unsent[t])
             b == ClientBytes(packet[t])
             z == Size(packet[t])
  <2>1. /\ f \in 1..n
        /\ Len(unsent'[t]) = n - f
        /\ \A j \in 1..(n - f) : unsent'[t][j] = unsent[t][f + j]
        /\ \A o \in Threads : o # t => unsent'[o] = unsent[o]
    BY <1>2, WriteParts
  <2>2. packet' = packet
    BY <1>2 DEF Write
  <2>3. /\ n \in Nat /\ z \in Nat /\ n <= z
        /\ \A j \in 1..n : unsent[t][j] = b[(z - n) + j]
    BY Places DEF Ends
  <2> HIDE DEF f, n, b, z
  <2>4. n - f <= z /\ \A j \in 1..(n - f) : /\ f + j \in 1..n
                                            /\ (z - (n - f)) + j = (z - n) + (f + j)
    BY SMT, <2>1, <2>3
  <2>5. \A j \in 1..(n - f) : unsent'[t][j] = b[(z - (n - f)) + j]
    BY <2>1, <2>3, <2>4
  <2>6. /\ Len(unsent'[t]) <= Size(packet'[t])
        /\ \A j \in 1..Len(unsent'[t]) :
             unsent'[t][j] = ClientBytes(packet'[t])[(Size(packet'[t]) - Len(unsent'[t])) + j]
    BY <2>1, <2>2, <2>4, <2>5 DEF b, z
  <2> QED
    BY <2>1, <2>2, <2>6 DEF Ends
<1>3. CASE UNCHANGED <<packet, unsent>>
  BY <1>3 DEF Ends
<1>4. CASE CallApp
  BY <1>1, <1>4 DEF CallApp, Sendable, Threads
<1>5. CASE Ping
  BY <1>1, <1>5 DEF Ping, Sendable, Threads
<1>6. CASE Reads \/ Parse \/ UNCHANGED vars
  BY <1>3, <1>6 DEF Reads, Parse, vars
<1> QED
  BY <1>1, <1>2, <1>4, <1>5, <1>6 DEF Next

-----------------------------------------------------------------------------
(* Counted.                                                                *)

\* Every step keeps the count of the packets begun.
LEMMA CountedStep ==
  ASSUME TypeOK, Ends, Counted, [Next]_vars
  PROVE  Counted'
<1> DEFINE c(t) == calls[t]
           w(t) == Waiting(t)
           n == Len(order)
<1>1. /\ \A t \in Threads : c(t) \in Nat /\ w(t) \in {0, 1}
      /\ n \in Nat
      /\ n + w("app") + w("keep_alive") = c("app") + c("keep_alive")
  BY Bounds, LenProperties DEF Counted, Waiting, Threads
<1>2. \A t \in Threads : n + w(t) + w(Other(t)) = c(t) + c(Other(t))
  <2>1. \A t \in Threads : (t = "app" /\ Other(t) = "keep_alive")
                           \/ (t = "keep_alive" /\ Other(t) = "app")
    BY DEF Threads, Other
  <2> HIDE DEF c, w, n
  <2>2. n + w("keep_alive") + w("app") = c("keep_alive") + c("app")
    BY SMT, <1>1, TwoThreads
  <2> QED
    BY <1>1, <2>1, <2>2
<1>3. ASSUME NEW t \in Threads, NEW x \in Nat, NEW y \in {0, 1}, NEW m \in Nat,
             calls'[t] = x, calls'[Other(t)] = c(Other(t)),
             Waiting(t)' = y, Waiting(Other(t))' = w(Other(t)),
             Len(order') = m, (m + y) - x = (n + w(t)) - c(t)
      PROVE  Counted'
  <2> DEFINE o == Other(t)
             a == c(t)
             b == c(o)
             d == w(t)
             e == w(o)
  <2>1. o \in Threads /\ ((t = "app" /\ o = "keep_alive") \/ (t = "keep_alive" /\ o = "app"))
    BY DEF Threads, Other
  <2>2. a \in Nat /\ b \in Nat /\ d \in {0, 1} /\ e \in {0, 1} /\ n + d + e = a + b
    BY <1>1, <1>2, <2>1
  <2>3. (m + y) - x = (n + d) - a
    BY <1>3
  <2> HIDE DEF a, b, d, e, n
  <2>4. m + y + e = x + b /\ m + e + y = b + x
    BY SMT, <1>1, <1>3, <2>2, <2>3
  <2> QED
    BY <1>3, <2>1, <2>4 DEF Counted, b, e
<1>4. ASSUME NEW t \in Threads, NEW p \in Sendable, Call(t, p)
      PROVE  Counted'
  <2>1. /\ calls'[t] = calls[t] + 1 /\ calls'[Other(t)] = calls[Other(t)]
        /\ Waiting(t) = 0 /\ Waiting(t)' = 1
        /\ Waiting(Other(t))' = Waiting(Other(t))
    BY <1>4, CallPlaces, TwoThreads DEF Waiting
  <2>2. order' = order
    BY <1>4 DEF Call
  <2>3. c(t) + 1 \in Nat /\ (n + 1) - (c(t) + 1) = (n + w(t)) - c(t)
    <3>1. c(t) \in Nat /\ n \in Nat /\ w(t) = 0
      BY <1>1, <2>1
    <3> HIDE DEF c, n, w
    <3> QED
      BY SMT, <3>1
  <2>4. 1 \in {0, 1}
    OBVIOUS
  <2> QED
    BY <1>1, <1>3, <2>1, <2>2, <2>3, <2>4
<1>5. ASSUME NEW t \in Threads, Write(t)
      PROVE  Counted'
  <2>1. /\ calls' = calls
        /\ order' = IF Begun(t) THEN order ELSE Append(order, packet[t])
        /\ unsent[t] # <<>>
    BY <1>5 DEF Write
  <2>2. Waiting(t)' = 0 /\ Waiting(Other(t))' = Waiting(Other(t))
    BY <1>5, WritePlaces, TwoThreads DEF Waiting
  <2>3. Waiting(t) = IF Begun(t) THEN 0 ELSE 1
    BY <2>1 DEF Waiting, Waits
  <2>4. Len(order') = n + w(t)
    <3>1. packet[t] \in Sendable /\ order \in Seq(Sendable)
      BY Bounds
    <3>2. Len(Append(order, packet[t])) = n + 1
      BY <3>1, AppendProperties
    <3>3. n + 0 = n
      <4>1. n \in Nat
        BY <1>1
      <4> HIDE DEF n
      <4> QED
        BY SMT, <4>1
    <3> QED
      BY <2>1, <2>3, <3>2, <3>3
  <2>5. n + w(t) \in Nat /\ ((n + w(t)) + 0) - c(t) = (n + w(t)) - c(t)
    <3>1. c(t) \in Nat /\ n \in Nat /\ w(t) \in {0, 1}
      BY <1>1
    <3> HIDE DEF c, n, w
    <3> QED
      BY SMT, <3>1
  <2>6. 0 \in {0, 1} /\ c(t) \in Nat
    BY <1>1
  <2> QED
    BY <1>3, <2>1, <2>2, <2>4, <2>5, <2>6
<1>6. CASE UNCHANGED <<calls, packet, unsent, order>>
  BY <1>6 DEF Counted, Waiting, Waits, Begun
<1>7. CASE CallApp
  BY <1>4, <1>7 DEF CallApp, Sendable, Threads
<1>8. CASE Ping
  BY <1>4, <1>8 DEF Ping, Sendable, Threads
<1>9. CASE Reads \/ Parse \/ UNCHANGED vars
  BY <1>6, <1>9 DEF Reads, Parse, vars
<1> QED
  BY <1>4, <1>5, <1>7, <1>8, <1>9 DEF Next

-----------------------------------------------------------------------------
(* The packets and the bytes that the kernel has taken.                    *)

\* The packets begun, and the numbers of Whole.
LEMMA WholeParts ==
  ASSUME TypeOK, NEW e, Whole(e)
  PROVE  /\ order \in Seq(Sendable) /\ Len(order) \in Nat
         /\ e \in [0..Len(order) -> Nat]
         /\ Sent \in Seq(Byte) /\ Len(Sent) \in Nat /\ Len(Sent) = Len(received) + Len(buffer)
         /\ \A t \in Threads :
              /\ Len(Sent) + Missing(t) + Missing(Other(t)) = e[Len(order)]
              /\ Midway(t) => ~Midway(Other(t))
              /\ Midway(t) => Missing(t) = Len(unsent[t]) /\ Missing(Other(t)) = 0
              /\ ~Midway(t) => Missing(t) = 0
              /\ Missing(t) \in Nat
<1>1. order \in Seq(Sendable) /\ Len(order) \in Nat
  BY Bounds, LenProperties
<1>2. e \in [0..Len(order) -> Nat]
  BY DEF Whole, Positions
<1>3. Sent \in Seq(Byte) /\ Len(Sent) \in Nat /\ Len(Sent) = Len(received) + Len(buffer)
  <2>1. received \in Seq(Byte) /\ buffer \in Seq(Byte)
    BY Bounds
  <2>2. received \o buffer \in Seq(Byte) /\ Len(received \o buffer) = Len(received) + Len(buffer)
    BY <2>1, ConcatProperties
  <2> QED
    BY <2>2, LenProperties DEF Sent
<1>4. \A t \in Threads : Missing(t) \in Nat
  BY Bounds DEF Missing
<1>5. ASSUME NEW t \in Threads
      PROVE  /\ Len(Sent) + Missing(t) + Missing(Other(t)) = e[Len(order)]
             /\ Midway(t) => ~Midway(Other(t))
  <2>1. (t = "app" /\ Other(t) = "keep_alive") \/ (t = "keep_alive" /\ Other(t) = "app")
    BY DEF Threads, Other
  <2>2. /\ Len(Sent) + Missing("app") + Missing("keep_alive") = e[Len(order)]
        /\ ~(Midway("app") /\ Midway("keep_alive"))
    BY DEF Whole
  <2> DEFINE l == Len(Sent)
             a == Missing("app")
             b == Missing("keep_alive")
  <2>3. l \in Nat /\ a \in Nat /\ b \in Nat
    BY <1>3, <1>4, TwoThreads
  <2> HIDE DEF l, a, b
  <2>4. l + b + a = l + a + b
    BY SMT, <2>3
  <2>5. /\ Len(Sent) + Missing("keep_alive") + Missing("app") = e[Len(order)]
    BY <2>2, <2>4 DEF l, a, b
  <2> QED
    BY <2>1, <2>2, <2>5
<1>6. \A t \in Threads : /\ Midway(t) => Missing(t) = Len(unsent[t])
                         /\ ~Midway(t) => Missing(t) = 0
  BY DEF Missing
<1> QED
  BY <1>1, <1>2, <1>3, <1>4, <1>5, <1>6, TwoThreads

\* The bytes that the broker has not made a packet of agree with the next packet.
LEMMA NextPacket ==
  ASSUME TypeOK, NEW e, Whole(e), Made(e), Len(frames) < Len(order)
  PROVE  /\ Len(frames) \in Nat /\ Len(frames) + 1 \in 1..Len(order)
         /\ order[Len(frames) + 1] \in Sendable
         /\ parsed + Size(order[Len(frames) + 1]) = e[Len(frames) + 1]
         /\ Agree(Unparsed, ClientBytes(order[Len(frames) + 1]))
<1> DEFINE k == Len(frames)
           n == Len(order)
           p == order[k + 1]
           m == Len(received)
<1>1. k \in Nat
  BY LenProperties DEF TypeOK
<1>2. order \in Seq(Sendable) /\ n \in Nat
  BY WholeParts
<1>3. k < n
  OBVIOUS
<1> HIDE DEF k, n
<1>4. k + 1 \in 1..n /\ (k + 1) - 1 = k
  BY SMT, <1>1, <1>2, <1>3
<1>5. p \in Sendable
  BY <1>2, <1>4, ElementOfSeq DEF n
<1>6. parsed = e[k]
  BY DEF Made, k
<1>7. e[k + 1] = e[k] + Size(p)
  BY <1>4 DEF Whole, Positions, n
<1>8. Agree(Unparsed, ClientBytes(p))
  <2>1. /\ Len(Unparsed) = m - parsed /\ parsed \in Nat /\ m \in Nat /\ parsed <= m
        /\ \A j \in 1..(m - parsed) : Unparsed[j] = received[parsed + j]
    BY UnparsedBytes
  <2> SUFFICES ASSUME NEW j \in 1..Size(p), j <= Len(Unparsed)
               PROVE  Unparsed[j] = ClientBytes(p)[j]
    BY DEF Agree, Size
  <2>2. Size(p) \in Nat
    BY <1>5, SizeNat
  <2> HIDE DEF m, p
  <2>3. j \in 1..(m - parsed) /\ parsed + j \in Nat /\ parsed + j >= 1 /\ parsed + j <= m
    BY SMT, <2>1, <2>2
  <2>4. received \in Seq(Byte) /\ buffer \in Seq(Byte) /\ Len(buffer) \in Nat
    BY Bounds
  <2>5. Sent[parsed + j] = received[parsed + j]
    BY <2>3, <2>4, OneBehindOther DEF Sent, m
  <2>6. parsed + j <= Len(Sent)
    <3>1. Len(Sent) = m + Len(buffer)
      BY WholeParts DEF m
    <3> DEFINE a == Len(buffer)
               l == Len(Sent)
    <3>2. a \in Nat /\ l = m + a
      BY <2>4, <3>1
    <3> HIDE DEF a, l
    <3>3. parsed + j <= l
      BY SMT, <2>1, <2>3, <3>2
    <3> QED
      BY <3>3 DEF l
  <2>7. \A i \in 1..n : \A h \in 1..Size(order[i]) :
          e[i - 1] + h <= Len(Sent) => Sent[e[i - 1] + h] = ClientBytes(order[i])[h]
    BY DEF Whole, Laid, n
  <2>8. e[k] + j <= Len(Sent) => Sent[e[k] + j] = ClientBytes(p)[j]
    BY <1>4, <2>7 DEF p
  <2>9. Sent[parsed + j] = ClientBytes(p)[j]
    BY <1>6, <2>6, <2>8
  <2> QED
    BY <2>1, <2>3, <2>5, <2>9
<1> QED
  BY <1>1, <1>4, <1>5, <1>6, <1>7, <1>8 DEF k, n, p

\* No packet is made out of nothing.
LEMMA NoneLeft ==
  ASSUME TypeOK, NEW e, Whole(e), Made(e), FrameIn(Unparsed)
  PROVE  Len(frames) < Len(order)
<1> DEFINE k == Len(frames)
           n == Len(order)
           l == Len(Sent)
           m == Len(received)
           b == Len(buffer)
           x == Missing("app")
           y == Missing("keep_alive")
           z == e[n]
<1>1. /\ k \in Nat /\ n \in Nat /\ l \in Nat /\ m \in Nat /\ b \in Nat
      /\ x \in Nat /\ y \in Nat /\ l = m + b
  BY WholeParts, Bounds, LenProperties, TwoThreads DEF TypeOK
<1>2. l + x + y = z /\ k <= n /\ parsed = e[k]
  BY DEF Whole, Made
<1>3. /\ Unparsed \in Seq(Byte)
      /\ parsed \in Nat /\ parsed <= m
      /\ Len(Unparsed) = m - parsed
  BY UnparsedBytes
<1>4. PICK i \in 1..4 : i < Len(Unparsed)
  BY DEF FrameIn, HeaderIn
<1> HIDE DEF k, n, l, m, b, x, y
<1>5. CASE k = n
  <2>1. parsed = z
    BY <1>2, <1>5
  <2> HIDE DEF z
  <2> QED
    BY SMT, <1>1, <1>2, <1>3, <1>4, <2>1
<1>6. CASE k < n
  BY <1>6 DEF k, n
<1> QED
  BY SMT, <1>1, <1>2, <1>5, <1>6

\* The packet that the broker makes out is the next one.
LEMMA ParseNext ==
  ASSUME TypeOK, NEW e, Whole(e), Made(e), FrameIn(Unparsed)
  PROVE  /\ Len(frames) < Len(order)
         /\ FrameLength(Unparsed) = Size(order[Len(frames) + 1])
         /\ SubSeq(Unparsed, 1, FrameLength(Unparsed)) = ClientBytes(order[Len(frames) + 1])
<1>1. Len(frames) < Len(order)
  BY NoneLeft
<1> DEFINE p == order[Len(frames) + 1]
<1>2. p \in Sendable /\ Agree(Unparsed, ClientBytes(p))
  BY <1>1, NextPacket
<1>3. Unparsed \in Seq(Byte)
  BY UnparsedBytes
<1> HIDE DEF p
<1>4. FrameLength(Unparsed) = Len(ClientBytes(p))
      /\ SubSeq(Unparsed, 1, FrameLength(Unparsed)) = ClientBytes(p)
  BY <1>2, <1>3, FrontParsed
<1> QED
  BY <1>1, <1>4 DEF Size, p

-----------------------------------------------------------------------------
(* Streams.                                                                *)

\* A call begins no packet, and hands nothing over.
LEMMA CallStreams ==
  ASSUME TypeOK, Streams, NEW t \in Threads, NEW p \in Sendable, Call(t, p)
  PROVE  Streams'
<1>1. UNCHANGED <<order, buffer, received, parsed, frames, split>>
  BY DEF Call
<1>2. /\ \A o \in Threads : Midway(o)' <=> Midway(o)
      /\ ~Midway(t)
      /\ \A o \in Threads : o # t => unsent'[o] = unsent[o] /\ packet'[o] = packet[o]
  BY CallPlaces
<1>3. \A o \in Threads : /\ Missing(o)' = Missing(o)
                         /\ Midway(o) => packet'[o] = packet[o]
  BY <1>2 DEF Missing
<1> SUFFICES ASSUME ~split
             PROVE  \E e : Whole(e)' /\ Made(e)'
  BY <1>1 DEF Streams
<1>4. PICK e : Whole(e) /\ Made(e)
  BY DEF Streams
<1>5. Whole(e)'
  BY <1>1, <1>2, <1>3, <1>4, TwoThreads DEF Whole, Sent
<1>6. Made(e)'
  BY <1>1, <1>4 DEF Made
<1> QED
  BY <1>5, <1>6

\* The broker's read moves bytes that were sent.
LEMMA ReadsStreams ==
  ASSUME TypeOK, Streams, Reads
  PROVE  Streams'
<1>1. UNCHANGED <<calls, packet, unsent, order, parsed, frames, split>>
  BY DEF Reads
<1>2. Sent' = Sent
  BY ReadsTyped
<1>3. \A o \in Threads : (Midway(o)' <=> Midway(o)) /\ Missing(o)' = Missing(o)
  BY <1>1 DEF Midway, Begun, Missing
<1> SUFFICES ASSUME ~split
             PROVE  \E e : Whole(e)' /\ Made(e)'
  BY <1>1 DEF Streams
<1>4. PICK e : Whole(e) /\ Made(e)
  BY DEF Streams
<1>5. Whole(e)'
  BY <1>1, <1>2, <1>3, <1>4, TwoThreads DEF Whole
<1>6. Made(e)'
  BY <1>1, <1>4 DEF Made
<1> QED
  BY <1>5, <1>6

\* The packet made out is the next of those begun.
LEMMA ParseStreams ==
  ASSUME TypeOK, Streams, Parse
  PROVE  Streams'
<1>1. /\ FrameIn(Unparsed)
      /\ frames' = Append(frames, SubSeq(Unparsed, 1, FrameLength(Unparsed)))
      /\ parsed' = parsed + FrameLength(Unparsed)
      /\ UNCHANGED <<calls, packet, unsent, order, buffer, received, split>>
  BY DEF Parse
<1>2. \A o \in Threads : (Midway(o)' <=> Midway(o)) /\ Missing(o)' = Missing(o)
  BY <1>1 DEF Midway, Begun, Missing
<1> SUFFICES ASSUME ~split
             PROVE  \E e : Whole(e)' /\ Made(e)'
  BY <1>1 DEF Streams
<1>3. PICK e : Whole(e) /\ Made(e)
  BY DEF Streams
<1>4. Whole(e)'
  BY <1>1, <1>2, <1>3, TwoThreads DEF Whole, Sent
<1>5. Made(e)'
  <2> DEFINE k == Len(frames)
             n == Len(order)
             p == order[k + 1]
             c == ClientBytes(p)
  <2>1. /\ k < n
        /\ parsed' = parsed + Size(p)
        /\ frames' = Append(frames, c)
    BY <1>1, <1>3, ParseNext
  <2>2. /\ k \in Nat /\ k + 1 \in 1..n
        /\ parsed + Size(p) = e[k + 1]
        /\ p \in Sendable
    BY <1>3, <2>1, NextPacket
  <2>3. c \in Seq(Byte) /\ frames \in Seq(Seq(Byte))
    BY <2>2, SendableBytes DEF TypeOK
  <2>4. /\ Len(frames') = k + 1
        /\ \A i \in 1..k : frames'[i] = frames[i]
        /\ frames'[k + 1] = c
    <3> DEFINE S == Seq(Byte)
    <3>1. c \in S /\ frames \in Seq(S)
      BY <2>3
    <3> HIDE DEF S, c
    <3> QED
      BY <2>1, <3>1, AppendProperties
  <2>5. \A i \in 1..k : frames[i] = ClientBytes(order[i])
    BY <1>3 DEF Made
  <2>6. n \in Nat
    BY <1>3, WholeParts
  <2> HIDE DEF k, n, c
  <2>7. \A i \in 1..(k + 1) : frames'[i] = ClientBytes(order[i])
    <3> TAKE i \in 1..(k + 1)
    <3>1. CASE i \in 1..k
      BY <2>4, <2>5, <3>1
    <3>2. CASE i = k + 1
      BY <2>4, <3>2 DEF c
    <3> QED
      BY SMT, <2>2, <3>1, <3>2
  <2>8. k + 1 <= n
    BY SMT, <2>2, <2>6
  <2>9. /\ Len(frames') <= Len(order')
        /\ parsed' = e[Len(frames')]
        /\ \A i \in 1..Len(frames') : frames'[i] = ClientBytes(order'[i])
    BY <1>1, <2>1, <2>2, <2>4, <2>7, <2>8 DEF n
  <2> QED
    BY <2>9 DEF Made
<1> QED
  BY <1>4, <1>5

\* A packet is begun behind whole ones.
LEMMA BeginStreams ==
  ASSUME TypeOK, Ends, Streams, NEW t \in Threads, Write(t), ~Begun(t)
  PROVE  Streams'
<1> DEFINE u == SubSeq(unsent[t], 1, Fitting(t))
           p == packet[t]
           f == Fitting(t)
           n == Len(order)
           z == Size(p)
           w == Len(unsent[t])
<1>1. /\ order' = Append(order, p)
      /\ split' = (split \/ Midway(Other(t)))
      /\ UNCHANGED <<calls, packet, received, parsed, frames>>
  BY DEF Write
<1>2. ~Midway(t)
  BY DEF Midway
<1>3. /\ f \in 1..w /\ u \in Seq(Byte) /\ Len(u) = f
      /\ \A j \in 1..f : u[j] = unsent[t][j]
  BY WriteParts
<1>4. Sent' = Sent \o u
  BY WriteSent
<1>5. /\ Midway(t)' <=> w - f > 0
      /\ Len(unsent'[t]) = w - f
      /\ \A o \in Threads : o # t => (Midway(o)' <=> Midway(o)) /\ unsent'[o] = unsent[o]
  BY WritePlaces
<1>6. p \in Sendable /\ z \in Nat /\ w \in Nat /\ ~(w < z)
  BY Bounds, Places
<1>7. w <= z /\ \A j \in 1..w : unsent[t][j] = ClientBytes(p)[(z - w) + j]
  BY DEF Ends
<1> SUFFICES ASSUME ~split, ~Midway(Other(t))
             PROVE  \E e : Whole(e)' /\ Made(e)'
  BY <1>1 DEF Streams
<1>8. PICK e : Whole(e) /\ Made(e)
  BY DEF Streams
<1>9. /\ order \in Seq(Sendable) /\ n \in Nat
      /\ Sent \in Seq(Byte) /\ Len(Sent) \in Nat
      /\ Len(Sent) = e[n] /\ Missing(t) = 0 /\ Missing(Other(t)) = 0
  <2>1. Missing(t) = 0 /\ Missing(Other(t)) = 0
    BY <1>2, <1>8, WholeParts, TwoThreads
  <2>2. Len(Sent) + Missing(t) + Missing(Other(t)) = e[n] /\ Len(Sent) \in Nat
    BY <1>8, WholeParts
  <2> DEFINE l == Len(Sent)
  <2>3. l + 0 + 0 = e[n] /\ l \in Nat
    BY <2>1, <2>2
  <2> HIDE DEF l
  <2>4. l = e[n]
    BY SMT, <2>3
  <2> QED
    BY <1>8, <2>1, <2>4, WholeParts DEF l
<1>10. Positions(e, order) /\ Laid(e, order, Sent)
  BY <1>8 DEF Whole
<1> HIDE DEF u, p, f, z, w
<1>11. w = z /\ f \in Nat /\ f <= z /\ \A j \in 1..f : j \in 1..w /\ (z - w) + j = j
  BY SMT, <1>3, <1>6, <1>7
<1>12. \A j \in 1..Len(u) : u[j] = ClientBytes(p)[j]
  BY <1>3, <1>7, <1>11
<1>13. PICK g : /\ Positions(g, Append(order, p))
                /\ Laid(g, Append(order, p), Sent \o u)
                /\ g[n + 1] = e[n] + z
                /\ \A i \in 0..n : g[i] = e[i]
  <2>1. Len(u) <= Size(p)
    BY <1>3, <1>11 DEF z
  <2> QED
    BY <1>3, <1>6, <1>9, <1>10, <1>12, <2>1, BeginLaid DEF z, n
<1>14. /\ Len(order') = n + 1
       /\ order'[n + 1] = p
       /\ \A i \in 1..n : order'[i] = order[i]
  BY <1>1, <1>6, <1>9, AppendProperties DEF n
<1>15. Whole(g)'
  <2>1. Positions(g, order') /\ Laid(g, order', Sent')
    BY <1>1, <1>4, <1>13
  <2>2. ~Midway(Other(t))' /\ Missing(Other(t))' = 0
    BY <1>5, TwoThreads DEF Missing
  <2>3. ~(Midway("app")' /\ Midway("keep_alive")')
    BY <2>2 DEF Threads, Other
  <2>4. Missing(t)' = w - f
    <3>1. Missing(t)' = IF w - f > 0 THEN w - f ELSE 0
      BY <1>5 DEF Missing
    <3> QED
      BY SMT, <1>3, <1>6, <3>1
  <2>5. Len(Sent') = Len(Sent) + f
    BY <1>3, <1>4, <1>9, ConcatProperties
  <2>6. Len(Sent') + Missing("app")' + Missing("keep_alive")' = g[Len(order')]
    <3> DEFINE l == Len(Sent)
               m == Len(Sent')
               x == Missing(t)'
               a == e[n]
               b == g[n + 1]
    <3>1. l \in Nat /\ l = a /\ m = l + f /\ x = w - f /\ b = a + z
      BY <1>9, <1>13, <2>4, <2>5
    <3> HIDE DEF l, m, x, a, b
    <3>2. m + x + 0 = b /\ m + 0 + x = b
      BY SMT, <1>6, <1>11, <3>1
    <3>3. (t = "app" /\ Other(t) = "keep_alive") \/ (t = "keep_alive" /\ Other(t) = "app")
      BY DEF Threads, Other
    <3> QED
      BY <1>14, <2>2, <3>2, <3>3 DEF m, x, b
  <2>7. \A o \in Threads : Midway(o)' => Len(order') > 0 /\ packet'[o] = order'[Len(order')]
    <3>1. n + 1 > 0
      BY SMT, <1>9
    <3>2. Len(order') > 0 /\ packet'[t] = order'[Len(order')]
      BY <1>1, <1>14, <3>1 DEF p
    <3> QED
      BY <2>2, <3>2, TwoThreads
  <2> QED
    BY <2>1, <2>3, <2>6, <2>7 DEF Whole
<1>16. Made(g)'
  <2> DEFINE k == Len(frames)
  <2>1. k \in Nat
    BY LenProperties DEF TypeOK
  <2>2. k <= n /\ parsed = e[k] /\ \A i \in 1..k : frames[i] = ClientBytes(order[i])
    BY <1>8 DEF Made
  <2> HIDE DEF k, n
  <2>3. k \in 0..n /\ k <= n + 1 /\ \A i \in 1..k : i \in 1..n
    BY SMT, <1>9, <2>1, <2>2
  <2>4. /\ k <= Len(order') /\ parsed' = g[k]
        /\ \A i \in 1..k : frames'[i] = ClientBytes(order'[i])
    BY <1>1, <1>13, <1>14, <2>2, <2>3
  <2> QED
    BY <1>1, <2>4 DEF Made, k
<1> QED
  BY <1>15, <1>16

\* A packet goes on behind its bytes, unless another one is in the middle.
LEMMA GoOnStreams ==
  ASSUME TypeOK, Ends, Streams, NEW t \in Threads, Write(t), Begun(t)
  PROVE  Streams'
<1> DEFINE u == SubSeq(unsent[t], 1, Fitting(t))
           p == packet[t]
           f == Fitting(t)
           n == Len(order)
           z == Size(p)
           w == Len(unsent[t])
<1>1. /\ order' = order
      /\ split' = (split \/ Midway(Other(t)))
      /\ UNCHANGED <<calls, packet, received, parsed, frames>>
  BY DEF Write
<1>2. Midway(t)
  BY DEF Write, Midway
<1>3. /\ f \in 1..w /\ u \in Seq(Byte) /\ Len(u) = f
      /\ \A j \in 1..f : u[j] = unsent[t][j]
  BY WriteParts
<1>4. Sent' = Sent \o u
  BY WriteSent
<1>5. /\ Midway(t)' <=> w - f > 0
      /\ Len(unsent'[t]) = w - f
      /\ \A o \in Threads : o # t => (Midway(o)' <=> Midway(o)) /\ unsent'[o] = unsent[o]
  BY WritePlaces
<1>6. z \in Nat /\ w \in Nat /\ w <= z
  BY Places DEF Ends
<1>7. \A j \in 1..w : unsent[t][j] = ClientBytes(p)[(z - w) + j]
  BY DEF Ends
<1> SUFFICES ASSUME ~split, ~Midway(Other(t))
             PROVE  \E e : Whole(e)' /\ Made(e)'
  BY <1>1 DEF Streams
<1>8. PICK e : Whole(e) /\ Made(e)
  BY DEF Streams
<1>9. /\ order \in Seq(Sendable) /\ n \in Nat
      /\ Sent \in Seq(Byte) /\ Len(Sent) \in Nat
      /\ Len(Sent) + w = e[n]
      /\ n > 0 /\ p = order[n]
  <2>1. Missing(t) = w /\ Missing(Other(t)) = 0
    BY <1>2, <1>8, WholeParts
  <2>2. Len(Sent) + Missing(t) + Missing(Other(t)) = e[n] /\ Len(Sent) \in Nat
    BY <1>8, WholeParts
  <2> DEFINE l == Len(Sent)
  <2>3. l + w + 0 = e[n] /\ l \in Nat
    BY <2>1, <2>2
  <2>4. n > 0 /\ p = order[n]
    BY <1>2, <1>8 DEF Whole
  <2> HIDE DEF l, w
  <2>5. l + w = e[n]
    BY SMT, <1>6, <2>3
  <2> QED
    BY <1>8, <2>4, <2>5, WholeParts DEF l
<1>10. Positions(e, order) /\ Laid(e, order, Sent)
  BY <1>8 DEF Whole
<1> HIDE DEF u, p, f, z, w
<1>11. f \in Nat /\ f <= w /\ \A j \in 1..f : j \in 1..w
  BY SMT, <1>3, <1>6
<1>12. \A j \in 1..Len(u) : u[j] = ClientBytes(p)[(z - w) + j]
  BY <1>3, <1>7, <1>11
<1>13. Laid(e, order, Sent \o u)
  <2>1. w <= Size(order[n]) /\ Len(u) <= w
    BY <1>3, <1>6, <1>9, <1>11 DEF z
  <2>2. \A j \in 1..Len(u) : u[j] = ClientBytes(order[n])[(Size(order[n]) - w) + j]
    BY <1>9, <1>12 DEF z
  <2> QED
    BY <1>3, <1>6, <1>9, <1>10, <2>1, <2>2, GoOnLaid DEF n
<1>14. Whole(e)'
  <2>1. Positions(e, order') /\ Laid(e, order', Sent')
    BY <1>1, <1>4, <1>10, <1>13
  <2>2. ~Midway(Other(t))' /\ Missing(Other(t))' = 0
    BY <1>5, TwoThreads DEF Missing
  <2>3. ~(Midway("app")' /\ Midway("keep_alive")')
    BY <2>2 DEF Threads, Other
  <2>4. Missing(t)' = w - f
    <3>1. Missing(t)' = IF w - f > 0 THEN w - f ELSE 0
      BY <1>5 DEF Missing
    <3> QED
      BY SMT, <1>3, <1>6, <3>1
  <2>5. Len(Sent') = Len(Sent) + f
    BY <1>3, <1>4, <1>9, ConcatProperties
  <2>6. Len(Sent') + Missing("app")' + Missing("keep_alive")' = e[Len(order')]
    <3> DEFINE l == Len(Sent)
               m == Len(Sent')
               x == Missing(t)'
               a == e[n]
    <3>1. l \in Nat /\ l + w = a /\ m = l + f /\ x = w - f
      BY <1>9, <2>4, <2>5
    <3> HIDE DEF l, m, x, a
    <3>2. m + x + 0 = a /\ m + 0 + x = a
      BY SMT, <1>6, <1>11, <3>1
    <3>3. (t = "app" /\ Other(t) = "keep_alive") \/ (t = "keep_alive" /\ Other(t) = "app")
      BY DEF Threads, Other
    <3> QED
      BY <1>1, <2>2, <3>2, <3>3 DEF m, x, a
  <2>7. \A o \in Threads : Midway(o)' => Len(order') > 0 /\ packet'[o] = order'[Len(order')]
    <3>1. Len(order') > 0 /\ packet'[t] = order'[Len(order')]
      BY <1>1, <1>9 DEF p
    <3> QED
      BY <2>2, <3>1, TwoThreads
  <2> QED
    BY <2>1, <2>3, <2>6, <2>7 DEF Whole
<1>15. Made(e)'
  BY <1>1, <1>8 DEF Made
<1> QED
  BY <1>14, <1>15

\* Nothing has been begun, sent or made out at the start.
LEMMA InitStreams == Init => Ends /\ Counted /\ Streams
<1> SUFFICES ASSUME Init PROVE Ends /\ Counted /\ Streams
  OBVIOUS
<1>1. /\ \A t \in Threads : calls[t] = 0 /\ packet[t] = Pingreq /\ unsent[t] = <<>>
      /\ order = <<>> /\ buffer = <<>> /\ received = <<>>
      /\ parsed = 0 /\ frames = <<>>
  BY DEF Init
<1>2. Len(<<>>) = 0
  BY EmptySeq
<1>3. Ends
  <2>1. Size(Pingreq) \in Nat
    BY SizeNat DEF Sendable
  <2> DEFINE z == Size(Pingreq)
  <2>2. z \in Nat
    BY <2>1
  <2> HIDE DEF z
  <2>3. 0 <= z /\ 1..0 = {}
    BY SMT, <2>2
  <2> QED
    BY <1>1, <1>2, <2>3 DEF Ends, z
<1>4. \A t \in Threads : ~Waits(t) /\ ~Midway(t)
  BY <1>1 DEF Waits, Midway
<1>5. Counted
  <2>1. Waiting("app") = 0 /\ Waiting("keep_alive") = 0
    BY <1>4, TwoThreads DEF Waiting
  <2>2. calls["app"] = 0 /\ calls["keep_alive"] = 0 /\ Len(order) = 0
    BY <1>1, <1>2, TwoThreads
  <2>3. 0 + 0 + 0 = 0 + 0
    BY SMT
  <2> QED
    BY <2>1, <2>2, <2>3 DEF Counted
<1>6. \E e : Whole(e) /\ Made(e)
  <2> DEFINE e == [i \in 0..0 |-> 0]
  <2>1. e \in [0..0 -> Nat] /\ e[0] = 0 /\ 0..0 = {0} /\ 1..0 = {}
    BY SMT
  <2> HIDE DEF e
  <2>2. 0 <= 0 /\ 0 + 0 + 0 = 0
    BY SMT
  <2>3. Positions(e, order)
    <3>1. \A k \in 0..0 : k = 0
      BY <2>1
    <3> QED
      BY <1>1, <1>2, <2>1, <2>2, <3>1 DEF Positions
  <2>4. Laid(e, order, Sent)
    BY <1>1, <1>2, <2>1 DEF Laid
  <2>5. Len(Sent) = 0
    <3>1. <<>> \o <<>> = <<>>
      BY SMT
    <3> QED
      BY <1>1, <1>2, <3>1 DEF Sent
  <2>6. Missing("app") = 0 /\ Missing("keep_alive") = 0
    BY <1>4, TwoThreads DEF Missing
  <2>7. Whole(e)
    BY <1>1, <1>2, <1>4, <2>1, <2>2, <2>3, <2>4, <2>5, <2>6, TwoThreads DEF Whole
  <2>8. Made(e)
    BY <1>1, <1>2, <2>1, <2>2 DEF Made
  <2> QED
    BY <2>7, <2>8
<1> QED
  BY <1>3, <1>5, <1>6 DEF Streams

\* Every step keeps the packets whole, unless it splits one.
LEMMA StreamsStep ==
  ASSUME TypeOK, Ends, Streams, [Next]_vars
  PROVE  Streams'
<1>1. CASE CallApp
  BY <1>1, CallStreams DEF CallApp, Sendable, Threads
<1>2. CASE Ping
  BY <1>2, CallStreams DEF Ping, Sendable, Threads
<1>3. CASE \E t \in Threads : Write(t)
  BY <1>3, BeginStreams, GoOnStreams
<1>4. CASE Reads
  BY <1>4, ReadsStreams
<1>5. CASE Parse
  BY <1>5, ParseStreams
<1>6. CASE UNCHANGED vars
  BY <1>6 DEF vars, Streams, Whole, Made, Sent, Midway, Begun, Missing
<1> QED
  BY <1>1, <1>2, <1>3, <1>4, <1>5, <1>6 DEF Next

\* UplinkInv holds in every reachable state.
LEMMA UplinkInvariant == Spec => []UplinkInv
<1>1. Init => UplinkInv
  BY InitTyped, InitStreams DEF UplinkInv
<1>2. UplinkInv /\ [Next]_vars => UplinkInv'
  BY NextTyped, EndsStep, CountedStep, StreamsStep DEF UplinkInv
<1> QED
  BY <1>1, <1>2, PTL DEF Spec

\* As long as no packet is split the broker makes out the packets sent, in their
\* order, and in the end all.
THEOREM PacketsArriveIntact == Spec => []RequestsIntact
<1>1. UplinkInv => RequestsIntact
  <2> SUFFICES ASSUME UplinkInv, ~split
               PROVE  /\ Len(frames) <= Len(order)
                      /\ \A i \in 1..Len(frames) : frames[i] = ClientBytes(order[i])
                      /\ Quiet => Len(frames) = calls["app"] + calls["keep_alive"]
    BY DEF RequestsIntact
  <2>1. PICK e : Whole(e) /\ Made(e)
    BY DEF UplinkInv, Streams
  <2>2. TypeOK /\ Counted
    BY DEF UplinkInv
  <2> DEFINE k == Len(frames)
             n == Len(order)
             m == Len(received)
  <2>3. k <= n /\ \A i \in 1..k : frames[i] = ClientBytes(order[i])
    BY <2>1 DEF Made
  <2>4. ASSUME Quiet
        PROVE  k = calls["app"] + calls["keep_alive"]
    <3>1. /\ \A t \in Threads : unsent[t] = <<>>
          /\ buffer = <<>>
          /\ ~FrameIn(Unparsed)
      BY <2>4 DEF Quiet
    <3>2. n = calls["app"] + calls["keep_alive"]
      <4>1. Waiting("app") = 0 /\ Waiting("keep_alive") = 0
        BY <3>1, TwoThreads DEF Waiting, Waits
      <4>2. n + 0 + 0 = calls["app"] + calls["keep_alive"] /\ n \in Nat
        BY <2>1, <2>2, <4>1, WholeParts DEF Counted
      <4> HIDE DEF n
      <4>3. n + 0 + 0 = n
        BY SMT, <4>2
      <4> QED
        BY <4>2, <4>3
    <3>3. ASSUME k < n
          PROVE  FALSE
      <4> DEFINE p == order[k + 1]
                 z == Size(p)
                 a == e[k + 1]
                 b == e[n]
                 l == Len(Unparsed)
      <4>1. /\ k \in Nat /\ k + 1 \in 1..n
            /\ p \in Sendable
            /\ parsed + z = a
            /\ Agree(Unparsed, ClientBytes(p))
        BY <2>1, <2>2, <3>3, NextPacket
      <4>2. /\ Unparsed \in Seq(Byte) /\ parsed \in Nat /\ m \in Nat
            /\ l = m - parsed
        BY <2>2, UnparsedBytes
      <4>3. m = b
        <5>1. Missing("app") = 0 /\ Missing("keep_alive") = 0
          BY <3>1, TwoThreads DEF Missing, Midway
        <5>2. Len(Sent) + 0 + 0 = b
          BY <2>1, <5>1 DEF Whole
        <5>3. Len(Sent) = m + 0
          BY <2>1, <2>2, <3>1, WholeParts, EmptySeq
        <5> HIDE DEF m, b
        <5> QED
          BY SMT, <4>2, <5>2, <5>3
      <4>4. a <= b /\ a \in Nat /\ b \in Nat /\ z \in Nat
        <5>1. n \in Nat
          BY <2>1, <2>2, WholeParts
        <5> HIDE DEF n, k
        <5>2. k + 1 \in 0..n /\ n \in (k + 1)..n /\ n \in 0..n
          BY SMT, <4>1, <5>1
        <5>3. /\ e \in [0..n -> Nat]
              /\ \A i \in 0..n : \A j \in i..n : e[i] <= e[j]
          BY <2>1 DEF Whole, Positions, n
        <5> QED
          BY <4>1, <5>2, <5>3, SizeNat
      <4> HIDE DEF a, b, z, m, l
      <4>5. l >= z
        BY SMT, <4>1, <4>2, <4>3, <4>4
      <4>6. FrameIn(Unparsed)
        <5> HIDE DEF p
        <5>1. Len(Unparsed) >= Len(ClientBytes(p))
          BY <4>5 DEF l, z, Size
        <5> QED
          BY <4>1, <4>2, <5>1, FrontParsed
      <4> QED
        BY <3>1, <4>6
    <3>4. k \in Nat /\ n \in Nat
      BY <2>1, <2>2, WholeParts, LenProperties DEF TypeOK
    <3> HIDE DEF k, n
    <3>5. k = n
      BY SMT, <2>3, <3>3, <3>4
    <3> QED
      BY <3>2, <3>5
  <2> QED
    BY <2>3, <2>4
<1> QED
  BY <1>1, UplinkInvariant, PTL

-----------------------------------------------------------------------------
(* Splits.                                                                 *)

\* The bytes the connection has carried.
Carried == Len(received) + Len(buffer)

\* A thread inside its packet has filled the kernel's room.
Backlog ==
  /\ \A t \in Threads : Midway(t) => Carried >= Room
  /\ SplitNeedsBacklog

\* What a write adds, and that it fills the room if something is left.
LEMMA WriteCarried ==
  ASSUME TypeOK, NEW t \in Threads, Write(t)
  PROVE  /\ Carried \in Nat /\ Carried' \in Nat /\ Room \in Nat
         /\ Carried' > Carried
         /\ Len(unsent[t]) - Fitting(t) > 0 => Carried' >= Room
<1> DEFINE f == Fitting(t)
           u == SubSeq(unsent[t], 1, f)
           n == Len(unsent[t])
           r == Len(received)
           m == Len(buffer)
           l == Len(buffer')
<1>1. n \in Nat /\ r \in Nat /\ m \in Nat /\ Room \in Nat /\ buffer \in Seq(Byte)
  BY Bounds
<1>2. f \in 1..n /\ u \in Seq(Byte) /\ Len(u) = f /\ buffer' = buffer \o u
  BY WriteParts
<1>3. l = m + f
  BY <1>1, <1>2, ConcatProperties
<1>4. f = IF n < Room - m THEN n ELSE Room - m
  BY DEF Fitting
<1>5. Carried = r + m /\ Carried' = r + l
  BY DEF Carried, Write
<1> HIDE DEF f, u, n, r, m, l
<1>6. /\ Carried \in Nat /\ Carried' \in Nat
      /\ Carried' > Carried
      /\ n - f > 0 => Carried' >= Room
  BY SMT, <1>1, <1>2, <1>3, <1>4, <1>5
<1> QED
  BY <1>1, <1>6 DEF f, n

\* Every step keeps Backlog.
LEMMA BacklogStep ==
  ASSUME TypeOK, Ends, Backlog, [Next]_vars
  PROVE  Backlog'
<1>1. ASSUME NEW t \in Threads, NEW p \in Sendable, Call(t, p)
      PROVE  Backlog'
  <2>1. UNCHANGED <<buffer, received, split>>
    BY <1>1 DEF Call
  <2>2. \A o \in Threads : Midway(o)' => Midway(o)
    BY <1>1, CallPlaces
  <2> QED
    BY <2>1, <2>2 DEF Backlog, SplitNeedsBacklog, Carried
<1>2. ASSUME NEW t \in Threads, Write(t)
      PROVE  Backlog'
  <2>1. /\ Carried \in Nat /\ Carried' \in Nat /\ Room \in Nat
        /\ Carried' > Carried
        /\ Len(unsent[t]) - Fitting(t) > 0 => Carried' >= Room
    BY <1>2, WriteCarried
  <2>2. /\ Midway(t)' => Len(unsent[t]) - Fitting(t) > 0
        /\ \A o \in Threads : o # t => (Midway(o)' <=> Midway(o))
    BY <1>2, WritePlaces
  <2>3. split' = (split \/ Midway(Other(t)))
    BY <1>2 DEF Write
  <2>4. \A o \in Threads : Midway(o) => Carried >= Room
    BY DEF Backlog
  <2>5. split => Carried > Room
    BY DEF Backlog, SplitNeedsBacklog, Carried
  <2> HIDE DEF Backlog
  <2>6. /\ Carried >= Room => Carried' > Room /\ Carried' >= Room
        /\ Carried > Room => Carried' > Room
    BY SMT, <2>1
  <2>7. \A o \in Threads : Midway(o)' => Carried' >= Room
    BY <2>1, <2>2, <2>4, <2>6
  <2>8. split' => Carried' > Room
    BY <2>3, <2>4, <2>5, <2>6, TwoThreads
  <2> QED
    BY <2>7, <2>8 DEF Backlog, SplitNeedsBacklog, Carried
<1>3. CASE Reads
  <2>1. /\ received' = received \o buffer /\ buffer' = <<>>
        /\ UNCHANGED <<packet, unsent, split>>
    BY <1>3 DEF Reads
  <2>2. received \in Seq(Byte) /\ buffer \in Seq(Byte)
    BY Bounds
  <2> DEFINE r == Len(received)
             m == Len(buffer)
  <2>3. r \in Nat /\ m \in Nat /\ Len(received') = r + m /\ Len(buffer') = 0
    BY <2>1, <2>2, ConcatProperties, LenProperties, EmptySeq
  <2>4. Carried' = (r + m) + 0 /\ Carried = r + m
    BY <2>3 DEF Carried
  <2> HIDE DEF r, m
  <2>5. Carried' = Carried
    BY SMT, <2>3, <2>4
  <2>6. \A o \in Threads : Midway(o)' <=> Midway(o)
    BY <2>1 DEF Midway, Begun
  <2>7. Backlog <=> /\ \A o \in Threads : Midway(o) => Carried >= Room
                    /\ split => Carried > Room
    BY DEF Backlog, SplitNeedsBacklog, Carried
  <2>8. Backlog' <=> /\ \A o \in Threads : Midway(o)' => Carried' >= Room
                     /\ split' => Carried' > Room
    BY DEF Backlog, SplitNeedsBacklog, Carried
  <2> QED
    BY <2>1, <2>5, <2>6, <2>7, <2>8
<1>4. CASE Parse \/ UNCHANGED vars
  BY <1>4 DEF Parse, vars, Backlog, SplitNeedsBacklog, Carried, Midway, Begun
<1>5. CASE CallApp
  BY <1>1, <1>5 DEF CallApp, Sendable, Threads
<1>6. CASE Ping
  BY <1>1, <1>6 DEF Ping, Sendable, Threads
<1> QED
  BY <1>2, <1>3, <1>4, <1>5, <1>6 DEF Next

\* A packet is split only on a connection that has carried more than the kernel
\* has room for.
THEOREM SplitsNeedBacklog == Spec => []SplitNeedsBacklog
<1>1. Init => Backlog
  BY DEF Init, Backlog, SplitNeedsBacklog, Midway
<1>2. UplinkInv /\ Backlog /\ [Next]_vars => Backlog'
  BY BacklogStep DEF UplinkInv
<1>3. Backlog => SplitNeedsBacklog
  BY DEF Backlog
<1> QED
  BY <1>1, <1>2, <1>3, UplinkInvariant, PTL DEF Spec

-----------------------------------------------------------------------------
(* The stream of packets.                                                  *)

\* Every step is one of PacketStream, or changes nothing there.
LEMMA StreamStep ==
  ASSUME UplinkInv, [Next]_vars
  PROVE  [Stream!Next]_<<order, frames, split>>
<1>1. TypeOK
  BY DEF UplinkInv
<1>2. CASE CallApp
  BY <1>2 DEF CallApp, Call
<1>3. CASE Ping
  BY <1>3 DEF Ping, Call
<1>4. ASSUME NEW t \in Threads, Write(t)
      PROVE  [Stream!Next]_<<order, frames, split>>
  <2>1. /\ order' = IF Begun(t) THEN order ELSE Append(order, packet[t])
        /\ split' = (split \/ Midway(Other(t)))
        /\ frames' = frames
    BY <1>4 DEF Write
  <2>2. packet[t] \in Requests \cup {Pingreq}
    BY <1>1 DEF TypeOK
  <2>3. split' \in {split, TRUE}
    <3>1. split \in BOOLEAN
      BY <1>1 DEF TypeOK
    <3>2. Midway(Other(t)) \in BOOLEAN
      BY DEF Midway
    <3> QED
      BY Zenon, <2>1, <3>1, <3>2
  <2>4. CASE ~Begun(t)
    <3>1. Stream!Begin
      BY <2>1, <2>2, <2>3, <2>4 DEF Stream!Begin
    <3> QED
      BY <3>1 DEF Stream!Next
  <2>5. CASE Begun(t)
    <3>1. order' = order
      BY <2>1, <2>5
    <3>2. CASE split' = TRUE
      <4>1. Stream!Cross
        BY <2>1, <3>1, <3>2 DEF Stream!Cross
      <4> QED
        BY <4>1 DEF Stream!Next
    <3>3. CASE split' = split
      BY <2>1, <3>1, <3>3
    <3> QED
      BY <2>3, <3>2, <3>3
  <2> QED
    BY <2>4, <2>5
<1>5. CASE Reads
  BY <1>5 DEF Reads
<1>6. CASE Parse
  <2> DEFINE c == SubSeq(Unparsed, 1, FrameLength(Unparsed))
             k == Len(frames)
  <2>1. /\ FrameIn(Unparsed)
        /\ frames' = Append(frames, c)
        /\ UNCHANGED <<order, split>>
    BY <1>6 DEF Parse
  <2>2. CASE ~split
    <3>1. PICK e : Whole(e) /\ Made(e)
      BY <2>2 DEF UplinkInv, Streams
    <3>2. k < Len(order) /\ c = ClientBytes(order[k + 1])
      BY <1>1, <2>1, <3>1, ParseNext
    <3>3. Stream!MakeOut
      BY <2>1, <2>2, <3>2 DEF Stream!MakeOut
    <3> QED
      BY <3>3 DEF Stream!Next
  <2>3. CASE split
    <3>1. TypeOK'
      BY <1>1, <1>6, ParseTyped
    <3>2. Len(frames') = k + 1 /\ SubSeq(frames', 1, k) = frames
      <4>1. frames \in Seq(Seq(Byte)) /\ frames' \in Seq(Seq(Byte))
        BY <1>1, <3>1 DEF TypeOK
      <4> DEFINE S == Seq(Byte)
      <4>2. frames \in Seq(S) /\ frames' \in Seq(S)
        BY <4>1
      <4> HIDE DEF S, c
      <4>3. Len(frames') = k + 1
        BY SMT, <2>1, <4>2
      <4>4. SubSeq(frames', 1, k) = frames
        BY SMT, <2>1, <4>2
      <4> QED
        BY <4>3, <4>4
    <3>3. Stream!Misread
      BY <2>1, <2>3, <3>2 DEF Stream!Misread
    <3> QED
      BY <3>3 DEF Stream!Next
  <2> QED
    BY <2>2, <2>3
<1>7. CASE UNCHANGED vars
  BY <1>7 DEF vars
<1> QED
  BY <1>2, <1>3, <1>4, <1>5, <1>6, <1>7 DEF Next

\* The two threads' calls of sendByteTCP make one stream of whole packets, until a
\* packet is split.
THEOREM ThreadsMakeOneStream == Spec => IsPacketStream
<1>1. Init => Stream!Init
  BY DEF Init, Stream!Init
<1>2. UplinkInv /\ [Next]_vars => [Stream!Next]_<<order, frames, split>>
  BY StreamStep
<1>3. Stream!streamVars = <<order, frames, split>>
  BY DEF Stream!streamVars
<1> QED
  BY <1>1, <1>2, <1>3, UplinkInvariant, PTL DEF Spec, IsPacketStream, Stream!Spec, Stream!streamVars

=============================================================================
