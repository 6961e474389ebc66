------------------------------ MODULE Framing ------------------------------
(***************************************************************************)
(* How readByteTCP (lib/SocketTCP.cpp) cuts the byte stream of a           *)
(* connection into packets: one read() takes whatever has arrived, and the *)
(* second byte of the buffer is taken for the remaining length.  A segment *)
(* of the stream may end anywhere.  The rest of the buffer is not written  *)
(* by read(), so its bytes are whatever the allocator left there.          *)
(***************************************************************************)
EXTENDS Packets

CONSTANTS
  Sendable,    \* what the broker may send: records [packet, qos, id]
  MaxPackets,  \* bound: packets it sends
  Cuts,        \* bound: offsets in a packet, beside its end, where a segment may end
  MAX_LEN,     \* size of the buffer
  Garbage      \* bytes an unwritten part of the buffer may hold

BytesOf(x) == Bytes(x.packet, x.qos, x.id)
BodyOf(x) == Body(x.packet, x.qos, x.id)
RemainingLength(x) == Len(BodyOf(x))

ASSUME FramingAssumption ==
  /\ Sendable \subseteq [packet : BrokerPacket, qos : 0..2, id : MessageId]
  /\ \A x \in Sendable :
       /\ RemainingLength(x) <= MaxLength
       /\ x.packet.type = PUBLISH => Len(x.packet.topic) < 65536
  /\ MaxPackets \in Nat
  /\ Cuts \in SUBSET Nat
  /\ MAX_LEN \in Nat /\ MAX_LEN > 2 + 255
  /\ Garbage \in SUBSET Byte /\ Garbage # {}

VARIABLES
  sent,     \* the packets the broker has sent
  stream,   \* their bytes
  ends,     \* the offsets in the stream at which they end
  arrived,  \* bytes of the stream that have reached the kernel's receive buffer
  read,     \* bytes of the stream read so far
  last      \* the last read(): the bytes [from + 1..to] of the stream it took,
            \* and what analyze_packet made of them

vars == <<sent, stream, ends, arrived, read, last>>

NoRead == [from |-> 0, to |-> 0, packet |-> Undefined]

\* The offset in the stream at which the j-th packet starts.
Start(j) == IF j = 1 THEN 0 ELSE ends[j - 1]

\* Every variable has its type; what has been read has arrived, and what has
\* arrived was sent.
TypeOK ==
  /\ sent \in Seq(Sendable) /\ Len(sent) <= MaxPackets
  /\ stream \in Seq(Byte)
  /\ ends \in Seq(Nat) /\ Len(ends) = Len(sent)
  /\ arrived \in 0..Len(stream)
  /\ read \in 0..arrived
  /\ last.from \in 0..last.to /\ last.to \in 0..read

Init ==
  /\ sent = <<>>
  /\ stream = <<>>
  /\ ends = <<>>
  /\ arrived = 0
  /\ read = 0
  /\ last = NoRead

Send ==
  /\ Len(sent) < MaxPackets
  /\ \E x \in Sendable :
       /\ sent' = Append(sent, x)
       /\ stream' = stream \o BytesOf(x)
       /\ ends' = Append(ends, Len(stream) + Len(BytesOf(x)))
  /\ UNCHANGED <<arrived, read, last>>

\* The offsets in the stream at which a segment may end.
SegmentEnds ==
  UNION {{ends[j]} \cup {Start(j) + c : c \in Cuts} : j \in 1..Len(sent)}

Arrive ==
  /\ \E e \in SegmentEnds :
       /\ e \in (arrived + 1)..Len(stream)
       /\ arrived' = e
  /\ UNCHANGED <<sent, stream, ends, read, last>>

-----------------------------------------------------------------------------
(* readByteTCP and analyze_packet.  A read whose bytes analyze_packet      *)
(* cannot unbox leaves the process in no defined state, so none follows.   *)

\* Where a read ends: it takes what has arrived, as far as the buffer goes.
ReadTo == IF arrived - read <= MAX_LEN THEN arrived ELSE read + MAX_LEN

\* The first k bytes of the buffer, after a read of the bytes b.
Buffer(b, g, k) == [i \in 1..k |-> IF i <= Len(b) THEN b[i] ELSE g]

\* Mutant of Framed: one byte too many.
Framed_oneMore(b, g) == Buffer(b, g, 3 + Buffer(b, g, 2)[2])

\* What the caller gets as data: 2 + buffer[1] bytes.
Framed(b, g) == Buffer(b, g, 2 + Buffer(b, g, 2)[2])

\* Mutant of Read: read() is called a second time on bytes it has already taken,
\* as after a recv with MSG_PEEK.
Read_peek ==
  /\ read < arrived
  /\ last.packet # Undefined \/ last = NoRead
  /\ \E g \in Garbage :
       last' = [from |-> read, to |-> ReadTo,
                packet |-> analyze_packet(Framed(SubSeq(stream, read + 1, ReadTo), g))]
  /\ UNCHANGED <<sent, stream, ends, arrived, read>>

Read ==
  /\ read < arrived
  /\ last.packet # Undefined \/ last = NoRead
  /\ \E g \in Garbage :
       last' = [from |-> read, to |-> ReadTo,
                packet |-> analyze_packet(Framed(SubSeq(stream, read + 1, ReadTo), g))]
  /\ read' = ReadTo
  /\ UNCHANGED <<sent, stream, ends, arrived>>

Next == Send \/ Arrive \/ Read

Spec == Init /\ [][Next]_vars

-----------------------------------------------------------------------------
(* Properties.                                                             *)

\* The read began where the j-th packet of the stream begins, and took all of it.
ReadWhole(j) ==
  last # NoRead /\ last.from = Start(j) /\ ends[j] <= last.to

\* The client has a queue for the packet.
Analyzed(p) == p.type \in {CONNACK, PUBLISH, PUBACK, SUBACK}

\* What the client makes of a packet: the message id of a message of QoS 1 or 2
\* becomes the beginning of its payload.
Received(x) ==
  IF x.packet.type = PUBLISH /\ x.qos > 0
  THEN Publish(x.packet.topic, TwoBytes(x.id) \o x.packet.payload)
  ELSE x.packet

\* A packet with a remaining length below 127 that a read finds whole at the
\* front of what has arrived is analysed as what the broker sent, a message of
\* QoS 1 with its id in front of the payload, whatever has arrived behind it.
WholePacketAnalyzed ==
  \A j \in 1..Len(sent) :
    /\ ReadWhole(j)
    /\ RemainingLength(sent[j]) < 127
    /\ Analyzed(sent[j].packet)
    => last.packet = Received(sent[j])

\* Of a message of QoS 0 that a read begins with and whose end has not arrived, the
\* topic and the length of the payload are right once the topic has arrived, and so
\* are the bytes of the payload that have: garbage stands for the others.
PartMessage ==
  \A j \in 1..Len(sent) :
    LET p == sent[j].packet
        taken == last.to - last.from - 4 - Len(p.topic)
    IN  /\ last # NoRead /\ last.from = Start(j) /\ last.to < ends[j]
        /\ p.type = PUBLISH /\ sent[j].qos = 0 /\ RemainingLength(sent[j]) < 127
        /\ taken >= 0
        => /\ last.packet.topic = p.topic
           /\ Len(last.packet.payload) = Len(p.payload)
           /\ SubSeq(last.packet.payload, 1, taken) = SubSeq(p.payload, 1, taken)

TwoDigits == 128..16383   \* the remaining lengths of two digits

\* Of a longer message only the 127 + n % 128 bytes after the fixed header reach
\* get_message, n being the remaining length: at least one byte is cut off.
LongMessageCut ==
  \A j \in 1..Len(sent) :
    LET n == RemainingLength(sent[j])
    IN  /\ ReadWhole(j)
        /\ n \in TwoDigits
        /\ sent[j].packet.type = PUBLISH
        => last.packet = unboxPublish(SubSeq(BodyOf(sent[j]), 1, 127 + (n % 128)))

\* decode_remaining_len reads back the remaining length that was encoded, at
\* every number of digits.
LengthDecoded ==
  \A j \in 1..Len(sent) :
    decode_remaining_len(BytesOf(sent[j])) = RemainingLength(sent[j])

\* unboxing erases the fixed header and nothing else when the remaining length is
\* below 16384, and not 127; then the header is left in front of the rest.
HeaderErased ==
  \A j \in 1..Len(sent) :
    LET n == RemainingLength(sent[j])
    IN  rest(BytesOf(sent[j])) = BodyOf(sent[j]) <=> n # 127 /\ n < 16384

=============================================================================
